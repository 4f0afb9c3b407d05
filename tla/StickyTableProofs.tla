-------------------------- MODULE StickyTableProofs --------------------------
(***************************************************************************)
(* What the sticky-session plugin keeps for any files, any number of       *)
(* modules and callers, any hash and any clock. The argument: the          *)
(* configuration is the translation of one accepted file and never changes *)
(* again, so the backend of an assignment, now and after every eviction,   *)
(* is the one the hash chooses from the one pool of its listener.          *)
(***************************************************************************)
EXTENDS StickyTable, FiniteSetTheorems, TLAPS

-----------------------------------------------------------------------------
(* LoadedConfig::try_from *)

\* Trimming keeps a list of backends a list of backends, if none is blank.
LEMMA NormalizedType ==
  ASSUME NEW raws \in Seq(Raw), NoneEmpty(raws)
  PROVE  /\ Normalized(raws) \in Seq(Raw)
         /\ Len(Normalized(raws)) = Len(raws)
<1>1. \A i \in 1..Len(raws) : Trim[raws[i]] \in Raw
  BY StickyTableAssumption DEF StickyTableAssumption, NoneEmpty
<1> QED
  BY <1>1 DEF Normalized

\* The translation of an accepted file gives each listener its own backends.
LEMMA LoadedPools ==
  ASSUME NEW f \in FileConfigs, Accepted(f), NEW i \in DOMAIN f.listeners
  PROVE  Loaded(f).listener_backends[Trim[f.listeners[i].name]]
           = Normalized(f.listeners[i].backends)
<1> DEFINE name(j) == Trim[f.listeners[j].name]
           first == CHOOSE j \in DOMAIN f.listeners : name(j) = name(i)
<1>1. first \in DOMAIN f.listeners /\ name(first) = name(i)
  OBVIOUS
<1>2. i \in 1..Len(f.listeners) /\ first \in 1..Len(f.listeners)
  <2> DEFINE L == [name : Raw, backends : Seq(Raw)]
  <2> HIDE DEF L, first
  <2>1. f.listeners \in Seq(L)
    BY DEF FileConfigs, L
  <2>2. DOMAIN f.listeners = 1..Len(f.listeners)
    BY <2>1
  <2> QED
    BY <1>1, <2>2
<1>3. ~(i < first) /\ ~(first < i)
  BY <1>1, <1>2 DEF Accepted, Duplicates
<1>4. first = i
  BY <1>2, <1>3
<1> QED
  BY <1>4 DEF Loaded

\* An accepted file becomes a configuration whose TTL is not zero.
LEMMA LoadedType ==
  ASSUME NEW f \in FileConfigs, Accepted(f)
  PROVE  Loaded(f) \in LoadedConfigs
<1> DEFINE names == {Trim[f.listeners[i].name] : i \in DOMAIN f.listeners}
<1>1. f.listeners \in Seq([name : Raw, backends : Seq(Raw)])
  BY DEF FileConfigs
<1>2. \A i \in DOMAIN f.listeners :
        f.listeners[i] \in [name : Raw, backends : Seq(Raw)]
  <2> DEFINE L == [name : Raw, backends : Seq(Raw)]
  <2> HIDE DEF L
  <2>1. \A ls \in Seq(L) : \A i \in DOMAIN ls : ls[i] \in L
    OBVIOUS
  <2> QED
    BY <1>1, <2>1 DEF L
<1>3. names \in SUBSET Raw
  BY <1>2, StickyTableAssumption DEF StickyTableAssumption, Accepted
<1>4. \A i \in DOMAIN f.listeners :
        Normalized(f.listeners[i].backends) \in Seq(Raw)
  BY <1>2, NormalizedType DEF Accepted
<1>5. \A n \in names : Loaded(f).listener_backends[n] \in Seq(Raw)
  BY <1>4, LoadedPools
<1>6. Loaded(f).listener_backends \in [names -> Seq(Raw)]
  <2>1. Loaded(f).listener_backends =
          [n \in names |-> Loaded(f).listener_backends[n]]
    BY DEF Loaded
  <2> HIDE DEF names
  <2> QED
    BY <2>1, <1>5
<1>7. Normalized(f.fallback_backends) \in Seq(Raw)
  BY NormalizedType DEF Accepted, FileConfigs
<1>8. f.ttl_secs \in Nat \ {0}
  BY DEF Accepted, FileConfigs
<1> QED
  <2> HIDE DEF names
  <2>1. Loaded(f).listener_backends
          \in UNION {[ns -> Seq(Raw)] : ns \in SUBSET Raw}
    BY <1>3, <1>6
  <2>2. Loaded(f) = [ttl |-> f.ttl_secs,
                     fallback_backends |-> Normalized(f.fallback_backends),
                     listener_backends |-> Loaded(f).listener_backends]
    BY DEF Loaded
  <2> QED
    BY <1>7, <1>8, <2>1, <2>2 DEF LoadedConfigs

-----------------------------------------------------------------------------
(* The configuration, shared by all modules *)

\* The configuration is the translation of the file it was read from, and whoever
\* loaded it left no error.
ConfigInv ==
  config # None => /\ read \in FileConfigs /\ Accepted(read)
                   /\ config = Loaded(read) /\ ~init_error

\* A configuration that is there is of its type.
LEMMA ConfigType ==
  ASSUME ConfigInv, config # None
  PROVE  config \in LoadedConfigs
  BY LoadedType DEF ConfigInv

\* One file is loaded or none; the configuration and the error stay what they are.
LEMMA ConfigStep ==
  ASSUME TypeOK, ConfigInv, ModulesAgree, [Next]_vars
  PROVE  /\ ConfigInv' /\ ModulesAgree'
         /\ config # None => config' = config
<1> USE DEF ConfigInv, ModulesAgree
<1>1. ASSUME NEW m \in Modules, StickyInit(m)
      PROVE  ConfigInv' /\ ModulesAgree' /\ (config # None => config' = config)
  <2>0. module \in [Modules -> {"new", "ok", "failed", "freed"}]
    BY DEF TypeOK
  <2>1. CASE Shared(config # None) /\ module' = [module EXCEPT ![m] = "ok"]
    BY <2>0, <2>1 DEF Shared
  <2>2. CASE Shared(init_error) /\ module' = [module EXCEPT ![m] = "failed"]
    BY <2>0, <2>2 DEF Shared
  <2>3. ASSUME NEW f \in Files, LoadSucceeds(f),
               module' = [module EXCEPT ![m] = "ok"]
        PROVE  ConfigInv' /\ ModulesAgree' /\ (config # None => config' = config)
    <3>1. f \in FileConfigs /\ f # None /\ Accepted(f)
      BY <2>3, StickyTableAssumption
         DEF StickyTableAssumption, LoadSucceeds, Accepted
    <3>2. Loaded(f) # None
      BY <3>1, LoadedType, StickyTableAssumption DEF StickyTableAssumption
    <3>3. config' = Loaded(f) /\ read' = f /\ config = None
          /\ ~init_error /\ ~init_error'
      BY <2>3 DEF LoadSucceeds
    <3>4. ConfigInv'
      BY <3>1, <3>3
    <3>5. ModulesAgree'
      BY <2>0, <2>3, <3>2, <3>3
    <3> QED
      BY <3>3, <3>4, <3>5
  <2>4. ASSUME NEW f \in Files, LoadFails(f),
               module' = [module EXCEPT ![m] = "failed"]
        PROVE  ConfigInv' /\ ModulesAgree' /\ (config # None => config' = config)
    BY <2>0, <2>4 DEF LoadFails
  <2> QED
    BY <1>1, <2>1, <2>2, <2>3, <2>4 DEF StickyInit
<1>2. ASSUME NEW m \in Modules, StickyShutdown(m)
      PROVE  ConfigInv' /\ ModulesAgree' /\ (config # None => config' = config)
  BY <1>2 DEF StickyShutdown, TypeOK
<1>3. ASSUME NEW t \in Threads,
             SelectBackend(t) \/ Hit(t) \/ Assign(t) \/ AssignPanics(t)
               \/ LockPanics(t)
      PROVE  UNCHANGED <<config, init_error, module, read>>
  BY <1>3 DEF SelectBackend, Hit, Assign, AssignPanics, LockPanics
<1>4. CASE Tick \/ UNCHANGED vars
  BY <1>4 DEF Tick, vars
<1> QED
  BY <1>1, <1>2, <1>3, <1>4 DEF Next

-----------------------------------------------------------------------------
(* The table *)

\* What the hash chooses for a key, as long as the configuration stays
Choice(k) == ChooseBackend(k, PoolForListener(k.listener))

\* The pool of a listener, its own or the fallback, is a list of backends.
LEMMA PoolType ==
  ASSUME config \in LoadedConfigs, NEW listener
  PROVE  PoolForListener(listener) \in Seq(Raw)
  BY DEF LoadedConfigs, PoolForListener

\* The choice from a pool that is not empty is one of the pool.
LEMMA ChoiceInPool ==
  ASSUME config \in LoadedConfigs, NEW k \in Keys,
         PoolForListener(k.listener) # <<>>
  PROVE  /\ Choice(k) \in Raw
         /\ \E i \in DOMAIN PoolForListener(k.listener) :
              PoolForListener(k.listener)[i] = Choice(k)
<1> DEFINE pool == PoolForListener(k.listener)
<1>1. pool \in Seq(Raw)
  BY PoolType
<1> HIDE DEF pool
<1>2. Len(pool) \in Nat \ {0}
  BY <1>1 DEF pool
<1>3. Hash[k] \in Nat
  BY StickyTableAssumption DEF StickyTableAssumption
<1>4. Hash[k] % Len(pool) \in 0..(Len(pool) - 1)
  BY <1>2, <1>3
<1>5. (Hash[k] % Len(pool)) + 1 \in 1..Len(pool)
  BY <1>2, <1>4
<1>6. Choice(k) = pool[(Hash[k] % Len(pool)) + 1]
  BY DEF Choice, ChooseBackend, pool
<1>7. \A i \in 1..Len(pool) : pool[i] \in Raw
  BY <1>1
<1> QED
  BY <1>1, <1>5, <1>6, <1>7 DEF pool

\* A sweep leaves an entry as it is or removes it, and removes none that has not
\* expired at the time n.
LEMMA Sweep ==
  ASSUME NEW n \in Nat
  PROVE  /\ Retained(n) \in [Keys -> {assignments[k] : k \in Keys} \cup {None}]
         /\ \A k \in Keys :
              /\ Retained(n)[k] # None => Retained(n)[k] = assignments[k]
              /\ assignments[k] # None /\ assignments[k].expires_at > n
                   => Retained(n)[k] = assignments[k]
  BY DEF Retained

\* Every entry holds what the hash chooses for its key, and so does every answer;
\* without a configuration there are none.
ChoiceInv ==
  /\ \A t \in Threads : key[t] # None =>
       config # None /\ PoolForListener(key[t].listener) # <<>>
  /\ \A k \in Keys :
       /\ assignments[k] # None =>
            /\ config # None /\ PoolForListener(k.listener) # <<>>
            /\ assignments[k].backend = Choice(k)
       /\ told[k] # {} => config # None /\ told[k] \subseteq {Choice(k)}

TableInv == TypeOK /\ ConfigInv /\ ModulesAgree /\ ChoiceInv

\* A caller runs with a configuration and a choice.
LEMMA Caller ==
  ASSUME TableInv, NEW t \in Threads, key[t] # None
  PROVE  /\ key[t] \in Keys /\ now[t] \in Nat /\ config # None
         /\ PoolForListener(key[t].listener) # <<>>
         /\ config \in LoadedConfigs /\ Choice(key[t]) \in Raw
<1>1. /\ key[t] \in Keys /\ now[t] \in Nat /\ config # None
      /\ PoolForListener(key[t].listener) # <<>>
  BY DEF TableInv, TypeOK, ChoiceInv
<1>2. config \in LoadedConfigs
  BY <1>1, ConfigType DEF TableInv
<1> QED
  BY <1>1, <1>2, ChoiceInPool

\* What a caller with the lock leaves, and what it says
LEMMA HitStep ==
  ASSUME TableInv, NEW t \in Threads, Hit(t)
  PROVE  /\ assignments' = Retained(now[t])
         /\ Tell(t, Choice(key[t]))
<1>1. key[t] \in Keys /\ now[t] \in Nat
  BY Caller DEF Hit
<1>2. Assigned(t) = assignments[key[t]] /\ Assigned(t) # None
  BY <1>1, Sweep DEF Hit, Assigned
<1> QED
  BY <1>1, <1>2 DEF Hit, TableInv, ChoiceInv

\* No entry of the caller's key is left when a new one is made.
LEMMA AssignStep ==
  ASSUME TableInv, NEW t \in Threads, Assign(t)
  PROVE  /\ Retained(now[t])[key[t]] = None
         /\ assignments' = [Retained(now[t]) EXCEPT
              ![key[t]] = [backend |-> Choice(key[t]),
                           expires_at |-> now[t] + config.ttl]]
         /\ Tell(t, Choice(key[t]))
<1> DEFINE pool == PoolForListener(key[t].listener)
<1>1. /\ key[t] \in Keys /\ now[t] \in Nat /\ pool # <<>>
      /\ config \in LoadedConfigs
  BY Caller DEF Assign
<1>2. \E i \in DOMAIN pool : pool[i] = Choice(key[t])
  BY <1>1, ChoiceInPool
<1>3. Retained(now[t])[key[t]] # None =>
        Retained(now[t])[key[t]].backend = Choice(key[t])
  BY <1>1, Sweep DEF TableInv, ChoiceInv
<1>4. Retained(now[t])[key[t]] = None
  BY <1>2, <1>3 DEF Assign, Assigned
<1> QED
  BY <1>1, <1>4 DEF Assign, Choice

\* While a caller runs the configuration stays, so choices made before stay right.
LEMMA ChoiceStep ==
  ASSUME TableInv, [Next]_vars
  PROVE  ChoiceInv'
<1>0. /\ assignments \in [Keys -> Entries \cup {None}]
      /\ told \in [Keys -> SUBSET Raw] /\ key \in [Threads -> Keys \cup {None}]
      /\ \A t \in Threads : now[t] \in Nat
  BY DEF TableInv, TypeOK
<1>1. CASE config = None /\ UNCHANGED <<key, assignments, told>>
  BY <1>1 DEF TableInv, ChoiceInv
<1>2. CASE config # None /\ UNCHANGED <<config, key, assignments, told>>
  BY <1>2 DEF TableInv, ChoiceInv, Choice, PoolForListener
<1>3. ASSUME NEW t \in Threads, SelectBackend(t)
      PROVE  ChoiceInv'
  <2>1. PICK k \in Keys : /\ PoolForListener(k.listener) # <<>>
                          /\ key' = [key EXCEPT ![t] = k]
    BY <1>3 DEF SelectBackend
  <2>2. config # None /\ UNCHANGED <<config, assignments, told>>
    BY <1>3 DEF SelectBackend
  <2>3. \A l : PoolForListener(l)' = PoolForListener(l)
    BY <2>2 DEF PoolForListener
  <2>4. \A j : Choice(j)' = Choice(j)
    BY <2>3 DEF Choice
  <2>5. \A j \in Threads : key'[j] = IF j = t THEN k ELSE key[j]
    BY <1>0, <2>1
  <2> QED
    BY <2>1, <2>2, <2>3, <2>4, <2>5 DEF TableInv, ChoiceInv
<1>4. ASSUME NEW t \in Threads, Hit(t)
      PROVE  ChoiceInv'
  <2>1. UNCHANGED config
    BY <1>4 DEF Hit
  <2>2. \A k \in Keys : assignments'[k] # None => assignments'[k] = assignments[k]
    BY <1>0, <1>4, HitStep, Sweep
  <2>3. /\ key[t] \in Keys /\ config # None
    BY <1>4, Caller DEF Hit
  <2>4. /\ told' = [told EXCEPT ![key[t]] = @ \cup {Choice(key[t])}]
        /\ key' = [key EXCEPT ![t] = None]
    BY <1>4, HitStep DEF Tell
  <2> QED
    BY <1>0, <2>1, <2>2, <2>3, <2>4
       DEF TableInv, ChoiceInv, Choice, PoolForListener
<1>5. ASSUME NEW t \in Threads, Assign(t)
      PROVE  ChoiceInv'
  <2>1. UNCHANGED config
    BY <1>5 DEF Assign
  <2>2. /\ key[t] \in Keys /\ config # None /\ now[t] \in Nat
        /\ PoolForListener(key[t].listener) # <<>>
    BY <1>5, Caller DEF Assign
  <2>3. /\ told' = [told EXCEPT ![key[t]] = @ \cup {Choice(key[t])}]
        /\ key' = [key EXCEPT ![t] = None]
    BY <1>5, AssignStep DEF Tell
  <2>4. \A k \in Keys :
          \/ assignments'[k] = Retained(now[t])[k]
          \/ k = key[t] /\ assignments'[k].backend = Choice(k)
    <3> DEFINE entry == [backend |-> Choice(key[t]),
                         expires_at |-> now[t] + config.ttl]
    <3>1. entry.backend = Choice(key[t])
      OBVIOUS
    <3> HIDE DEF entry
    <3>2. assignments' = [Retained(now[t]) EXCEPT ![key[t]] = entry]
      BY <1>5, AssignStep DEF entry
    <3> QED
      BY <2>2, <3>1, <3>2 DEF Retained
  <2>5. \A k \in Keys : assignments'[k] = Retained(now[t])[k] =>
          assignments'[k] = None \/ assignments'[k] = assignments[k]
    BY <2>2, Sweep
  <2> QED
    BY <1>0, <2>1, <2>2, <2>3, <2>4, <2>5
       DEF TableInv, ChoiceInv, Choice, PoolForListener
<1>6. ASSUME NEW t \in Threads, AssignPanics(t)
      PROVE  ChoiceInv'
  <2>1. \A k \in Keys : assignments'[k] # None => assignments'[k] = assignments[k]
    BY <1>0, <1>6, Sweep DEF AssignPanics
  <2>2. UNCHANGED <<config, told>> /\ key' = [key EXCEPT ![t] = None]
    BY <1>6 DEF AssignPanics
  <2> QED
    BY <1>0, <2>1, <2>2 DEF TableInv, ChoiceInv, Choice, PoolForListener
<1>7. ASSUME NEW t \in Threads, LockPanics(t)
      PROVE  ChoiceInv'
  BY <1>0, <1>7
     DEF LockPanics, TableInv, ChoiceInv, Choice, PoolForListener
<1>8. ASSUME \/ Tick \/ UNCHANGED vars
             \/ \E m \in Modules : StickyInit(m) \/ StickyShutdown(m)
      PROVE  ChoiceInv'
  <2>1. UNCHANGED <<key, assignments, told>>
    BY <1>8 DEF Tick, vars, StickyInit, StickyShutdown
  <2>2. config # None => config' = config
    BY ConfigStep DEF TableInv
  <2> QED
    BY <1>1, <1>2, <2>1, <2>2
<1> QED
  BY <1>3, <1>4, <1>5, <1>6, <1>7, <1>8 DEF Next

\* Entries are typed and expire at most a TTL after the clock, whoever made them
\* with an old reading.
LEMMA TypeStep ==
  ASSUME TableInv, [Next]_vars
  PROVE  TypeOK'
<1>0. TypeOK /\ MaxTime \in Nat
  BY StickyTableAssumption DEF StickyTableAssumption, TableInv
<1>1. /\ config # None => config' = config
      /\ config # None => config.ttl \in Nat \ {0}
  BY ConfigStep, ConfigType DEF TableInv, LoadedConfigs
<1>2. \A k \in Keys : assignments[k] # None => config # None
  BY DEF TableInv, ChoiceInv
<1>3. CASE Tick
  BY <1>0, <1>1, <1>2, <1>3 DEF Tick, TypeOK
<1>4. ASSUME NEW m \in Modules, StickyInit(m)
      PROVE  TypeOK'
  <2>1. UNCHANGED <<clock, key, now, assignments, poisoned, told>>
    BY <1>4 DEF StickyInit
  <2>2. module' \in [Modules -> {"new", "ok", "failed", "freed"}]
    BY <1>0, <1>4 DEF StickyInit, TypeOK
  <2>3. read' \in Files \cup {None} /\ init_error' \in BOOLEAN
    BY <1>0, <1>4 DEF StickyInit, Shared, LoadFails, LoadSucceeds, TypeOK
  <2> QED
    BY <1>0, <1>1, <1>2, <2>1, <2>2, <2>3 DEF TypeOK
<1>5. ASSUME NEW m \in Modules, StickyShutdown(m)
      PROVE  TypeOK'
  BY <1>0, <1>5 DEF StickyShutdown, TypeOK
<1>6. ASSUME NEW t \in Threads, SelectBackend(t)
      PROVE  TypeOK'
  BY <1>0, <1>6 DEF SelectBackend, TypeOK
<1>7. ASSUME NEW t \in Threads, Hit(t) \/ Assign(t) \/ AssignPanics(t)
      PROVE  TypeOK'
  <2>1. /\ UNCHANGED <<config, init_error, module, clock, now, read>>
        /\ key' = [key EXCEPT ![t] = None] /\ poisoned' \in BOOLEAN
        /\ now[t] \in 0..clock
    BY <1>0, <1>7 DEF Hit, Assign, AssignPanics, Tell, TypeOK
  <2>2. \A k \in Keys : Retained(now[t])[k] \in {assignments[k], None}
    BY <2>1, Sweep DEF Retained
  <2>3. \A k \in Keys :
          \/ assignments'[k] \in {assignments[k], None}
          \/ /\ assignments'[k] \in Entries
             /\ assignments'[k].expires_at \in 1..(clock + config.ttl)
    <3>1. CASE Hit(t) \/ AssignPanics(t)
      BY <2>2, <3>1 DEF Hit, AssignPanics
    <3>2. CASE Assign(t)
      <4>1. Choice(key[t]) \in Raw /\ config.ttl \in Nat \ {0}
        BY <3>2, Caller DEF Assign, LoadedConfigs
      <4>2. now[t] + config.ttl \in 1..(clock + config.ttl)
        BY <1>0, <2>1, <4>1 DEF TypeOK
      <4>3. [backend |-> Choice(key[t]), expires_at |-> now[t] + config.ttl]
              \in Entries
        BY <4>1, <4>2 DEF Entries
      <4>4. \A k \in Keys :
              \/ assignments'[k] = Retained(now[t])[k]
              \/ assignments'[k] = [backend |-> Choice(key[t]),
                                    expires_at |-> now[t] + config.ttl]
        BY <3>2, AssignStep DEF Retained
      <4> QED
        BY <2>2, <4>2, <4>3, <4>4
    <3> QED
      BY <1>7, <3>1, <3>2
  <2>4. assignments' \in [Keys -> Entries \cup {None}]
    <3>1. \E f : assignments' = [k \in Keys |-> f[k]]
      BY <1>7 DEF Hit, Assign, AssignPanics, Retained
    <3> QED
      BY <1>0, <2>3, <3>1 DEF TypeOK
  <2>5. told' \in [Keys -> SUBSET Raw]
    <3>1. CASE Hit(t) \/ Assign(t)
      <4>1. Choice(key[t]) \in Raw /\ key[t] \in Keys
        BY <3>1, Caller DEF Hit, Assign
      <4>2. told' = [told EXCEPT ![key[t]] = @ \cup {Choice(key[t])}]
        BY <3>1, HitStep, AssignStep DEF Tell
      <4> QED
        BY <1>0, <4>1, <4>2 DEF TypeOK
    <3>2. CASE AssignPanics(t)
      BY <1>0, <3>2 DEF AssignPanics, TypeOK
    <3> QED
      BY <1>7, <3>1, <3>2
  <2> QED
    BY <1>0, <2>1, <2>3, <2>4, <2>5 DEF TypeOK
<1>8. ASSUME NEW t \in Threads, LockPanics(t)
      PROVE  TypeOK'
  BY <1>0, <1>8 DEF LockPanics, TypeOK
<1>9. CASE UNCHANGED vars
  BY <1>0, <1>9 DEF vars, TypeOK
<1> QED
  BY <1>3, <1>4, <1>5, <1>6, <1>7, <1>8, <1>9 DEF Next

-----------------------------------------------------------------------------
(* The theorems *)

\* The conjunction of what the properties need of each other is inductive.
THEOREM TableInvariance == Spec => []TableInv
<1>1. Init => TableInv
  <2>1. ASSUME Init
        PROVE  TypeOK
    <3>1. \A k \in Keys : assignments[k] = None
      BY <2>1 DEF Init
    <3>2. clock = 0 /\ now \in [Threads -> 0..clock] /\ clock \in 0..MaxTime
      BY <2>1, StickyTableAssumption DEF StickyTableAssumption, Init
    <3>3. /\ assignments \in [Keys -> Entries \cup {None}]
          /\ told \in [Keys -> SUBSET Raw]
          /\ key \in [Threads -> Keys \cup {None}]
          /\ module \in [Modules -> {"new", "ok", "failed", "freed"}]
      BY <2>1 DEF Init
    <3> QED
      BY <2>1, <3>1, <3>2, <3>3 DEF Init, TypeOK
  <2> QED
    BY <2>1 DEF Init, TableInv, ConfigInv, ModulesAgree, ChoiceInv
<1>2. TableInv /\ [Next]_vars => TableInv'
  BY TypeStep, ChoiceStep, ConfigStep DEF TableInv
<1> QED
  BY <1>1, <1>2, PTL DEF Spec

\* Variables keep their types and entries expire within a TTL.
THEOREM TableTypes == Spec => []TypeOK
<1>1. TableInv => TypeOK
  BY DEF TableInv
<1> QED
  BY <1>1, TableInvariance, PTL

\* All modules of the library come up with one configuration or fail together, for
\* any number of them, any files and any order of loading and unloading.
THEOREM ModulesStayTogether == Spec => []ModulesAgree
<1>1. TableInv => ModulesAgree
  BY DEF TableInv
<1> QED
  BY <1>1, TableInvariance, PTL

\* The accepted file's listeners keep their own backends, however they are written.
THEOREM PoolsStay == Spec => []PoolsKept
<1>1. TableInv => PoolsKept
  BY LoadedPools DEF TableInv, ConfigInv, PoolsKept
<1> QED
  BY <1>1, TableInvariance, PTL

\* A client is told one backend per listener, whatever the hash, the pools and the
\* TTL are and however many callers overtake each other.
THEOREM AnswersStick == Spec => []StickyAnswers
<1>1. TableInv => StickyAnswers
  <2> SUFFICES ASSUME TableInv, NEW k \in Keys
               PROVE  Cardinality(told[k]) <= 1
    BY DEF StickyAnswers
  <2>1. told[k] \in SUBSET {Choice(k)}
    BY DEF TableInv, ChoiceInv
  <2>2. IsFiniteSet({Choice(k)}) /\ Cardinality({Choice(k)}) = 1
    BY FS_Singleton
  <2>3. Cardinality(told[k]) <= Cardinality({Choice(k)})
    BY <2>1, <2>2, FS_Subset
  <2> QED
    BY <2>2, <2>3
<1> QED
  BY <1>1, TableInvariance, PTL

\* No caller evicts or replaces a fresh assignment, not even one that reads the
\* clock long before it gets the lock: the time it read is in the past, and the
\* assigned backend is always one of the pool.
THEOREM FreshStays == Spec => KeptWhileFresh
<1>1. TableInv /\ [Next]_vars =>
        [\A k \in Keys : assignments[k] # None /\ assignments[k].expires_at > clock
           => assignments'[k] = assignments[k]]_vars
  <2> SUFFICES ASSUME TableInv, Next, NEW k \in Keys, assignments[k] # None,
                      assignments[k].expires_at > clock
               PROVE  assignments'[k] = assignments[k]
    OBVIOUS
  <2>1. ASSUME NEW t \in Threads, key[t] # None
        PROVE  Retained(now[t])[k] = assignments[k]
    <3>1. /\ now[t] \in 0..clock /\ clock \in Nat
          /\ assignments[k].expires_at \in Nat
      BY StickyTableAssumption
         DEF StickyTableAssumption, TableInv, TypeOK, Entries
    <3>2. assignments[k].expires_at > now[t]
      BY <3>1
    <3> QED
      BY <3>1, <3>2, Sweep
  <2>2. ASSUME NEW t \in Threads, Hit(t)
        PROVE  assignments'[k] = assignments[k]
    BY <2>1, <2>2 DEF Hit
  <2>3. ASSUME NEW t \in Threads, Assign(t)
        PROVE  assignments'[k] = assignments[k]
    <3>1. key[t] # k
      BY <2>1, <2>3, AssignStep DEF Assign
    <3> QED
      BY <2>1, <2>3, <3>1 DEF Assign
  <2>4. ASSUME NEW t \in Threads, AssignPanics(t)
        PROVE  assignments'[k] = assignments[k]
    BY <2>1, <2>4 DEF AssignPanics
  <2>5. ASSUME \/ Tick \/ \E m \in Modules : StickyInit(m) \/ StickyShutdown(m)
               \/ \E t \in Threads : SelectBackend(t) \/ LockPanics(t)
        PROVE  assignments'[k] = assignments[k]
    BY <2>5 DEF Tick, StickyInit, StickyShutdown, SelectBackend, LockPanics
  <2> QED
    BY <2>2, <2>3, <2>4, <2>5 DEF Next
<1> QED
  BY <1>1, TableInvariance, PTL DEF Spec, KeptWhileFresh
=============================================================================
