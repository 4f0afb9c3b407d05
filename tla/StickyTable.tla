----------------------------- MODULE StickyTable -----------------------------
(***************************************************************************)
(* The sticky-session plugin: plugins/example-l4-sticky/src/lib.rs.        *)
(*                                                                         *)
(* Its TCP and UDP modules, of however many loads of the library, share    *)
(* one state in a static of the library: the configuration, read by the    *)
(* first module that is initialised, and the table of assignments, which   *)
(* every call of select_backend sweeps, reads and extends under a lock.    *)
(* (No exported hook calls select_backend in this version; its tests do.)  *)
(***************************************************************************)
EXTENDS Naturals, Sequences, FiniteSets

CONSTANTS
  Modules,      \* module instances of the plugin
  Threads,      \* callers of select_backend
  Files,        \* contents of the configuration file when a module loads it
  Raw,          \* listener names and backends as written in a file
  Trim,         \* trim of each of them
  Empty,        \* the empty string
  Listeners,    \* listener names of calls
  Ips,          \* client addresses
  Hash,         \* Xxh3 of listener and address
  MaxTime,      \* bound: the clock
  MaxInstant,   \* the last Instant that can be represented
  None          \* absent option; no file or one that is no configuration

Keys == [listener : Listeners, client_ip : Ips]
FileConfigs == [ttl_secs : Nat, fallback_backends : Seq(Raw),
                listeners : Seq([name : Raw, backends : Seq(Raw)])]
LoadedConfigs ==
  [ttl : Nat \ {0}, fallback_backends : Seq(Raw),
   listener_backends : UNION {[names -> Seq(Raw)] : names \in SUBSET Raw}]
Entries == [backend : Raw, expires_at : Nat]

StickyTableAssumption ==
  /\ Files \subseteq FileConfigs \cup {None}
  /\ Trim \in [Raw -> Raw \cup {Empty}]
  /\ Hash \in [Keys -> Nat]
  /\ None \notin LoadedConfigs /\ None \notin Entries /\ None \notin Keys
  /\ MaxTime \in Nat /\ MaxInstant \in Nat
ASSUME StickyTableAssumption

VARIABLES
  config,       \* SharedInitState.state: the LoadedConfig
  init_error,   \* SharedInitState.init_error is set
  module,       \* per module: what sticky_init returned, then whether it was freed
  clock,        \* the time
  key,          \* the StickyKey of a caller's running call
  now,          \* the time it read
  assignments,  \* the table: an entry or None per key
  poisoned,     \* a caller panicked while it held the table's lock
  read,         \* history: the file config was loaded from
  told          \* history: backends callers were told, per key

vars == <<config, init_error, module, clock, key, now, assignments,
          poisoned, read, told>>

Init ==
  /\ config = None /\ init_error = FALSE
  /\ module = [m \in Modules |-> "new"]
  /\ clock = 0
  /\ key = [t \in Threads |-> None]
  /\ now = [t \in Threads |-> 0]
  /\ assignments = [k \in Keys |-> None]
  /\ poisoned = FALSE
  /\ read = None
  /\ told = [k \in Keys |-> {}]

-----------------------------------------------------------------------------
(* LoadedConfig::try_from *)

Normalized(raws) == [i \in DOMAIN raws |-> Trim[raws[i]]]
NoneEmpty(raws) == \A i \in DOMAIN raws : Trim[raws[i]] # Empty

\* Mutant: duplicates are looked for among the names as written.
RawDuplicates(ls) ==
  \E i, j \in DOMAIN ls : i < j /\ ls[i].name = ls[j].name

Duplicates(ls) ==
  \E i, j \in DOMAIN ls : i < j /\ Trim[ls[i].name] = Trim[ls[j].name]

\* Mutant: a TTL of zero is taken.
AnyTtl(f) == f # None /\ NoneEmpty(f.fallback_backends)

Accepted(f) ==
  /\ f # None
  /\ f.ttl_secs > 0
  /\ \A i \in DOMAIN f.listeners : /\ Trim[f.listeners[i].name] # Empty
                                   /\ NoneEmpty(f.listeners[i].backends)
  /\ ~Duplicates(f.listeners)
  /\ NoneEmpty(f.fallback_backends)
  /\ f.listeners # <<>> \/ f.fallback_backends # <<>>

Loaded(f) ==
  [ttl |-> f.ttl_secs,
   fallback_backends |-> Normalized(f.fallback_backends),
   listener_backends |->
     [n \in {Trim[f.listeners[i].name] : i \in DOMAIN f.listeners} |->
        Normalized(f.listeners[CHOOSE i \in DOMAIN f.listeners :
                                 Trim[f.listeners[i].name] = n].backends)]]

PoolForListener(listener) ==
  IF listener \in DOMAIN config.listener_backends
    THEN config.listener_backends[listener] ELSE config.fallback_backends

-----------------------------------------------------------------------------
(* One module of the plugin: ensure_state, under the lock of the static. The   *)
(* file of VAKIL_L4_STICKY_CONFIG or of the library's directory may be edited, *)
(* appear or vanish before the next module loads it: it may hold anything.     *)

\* Mutant: a failure is not remembered.
LoadAgain(f) == /\ config = None /\ ~Accepted(f)
                /\ UNCHANGED <<config, init_error, read>>

LoadFails(f) == /\ config = None /\ ~init_error /\ ~Accepted(f)
                /\ init_error' = TRUE
                /\ UNCHANGED <<config, read>>

LoadSucceeds(f) == /\ config = None /\ ~init_error /\ Accepted(f)
                   /\ config' = Loaded(f) /\ read' = f
                   /\ UNCHANGED init_error

\* A module that comes later gets what the first one got.
Shared(present) == present /\ UNCHANGED <<config, init_error, read>>

StickyInit(m) ==
  /\ module[m] = "new"
  /\ \/ /\ Shared(config # None) \/ \E f \in Files : LoadSucceeds(f)
        /\ module' = [module EXCEPT ![m] = "ok"]
     \/ /\ Shared(init_error) \/ \E f \in Files : LoadFails(f)
        /\ module' = [module EXCEPT ![m] = "failed"]
  /\ UNCHANGED <<clock, key, now, assignments, poisoned, told>>

\* The handle is freed; the state stays in the static. The host does not shut down
\* a module whose initialisation failed.
StickyShutdown(m) ==
  /\ module[m] = "ok"
  /\ module' = [module EXCEPT ![m] = "freed"]
  /\ UNCHANGED <<config, init_error, clock, key, now, assignments, poisoned,
                 read, told>>

-----------------------------------------------------------------------------
(* select_backend *)

\* The pool is looked up (an empty one is an Err that leaves nothing behind) and
\* the clock is read; the lock is taken later.
SelectBackend(t) ==
  /\ config # None /\ key[t] = None
  /\ \E k \in Keys :
       /\ PoolForListener(k.listener) # <<>>
       /\ key' = [key EXCEPT ![t] = k]
  /\ now' = [now EXCEPT ![t] = clock]
  /\ UNCHANGED <<config, init_error, module, clock, assignments, poisoned,
                 read, told>>

ChooseBackend(k, pool) == pool[(Hash[k] % Len(pool)) + 1]

\* retain(|_, entry| entry.expires_at > now)
Retained(n) == [k \in Keys |-> IF assignments[k] # None
                                  /\ assignments[k].expires_at > n
                                 THEN assignments[k] ELSE None]

\* The entry of the caller's key, if it is one of the listener's backends
Assigned(t) ==
  LET entry == Retained(now[t])[key[t]]
      pool == PoolForListener(key[t].listener)
  IN  IF entry # None /\ \E i \in DOMAIN pool : pool[i] = entry.backend
        THEN entry ELSE None

Tell(t, backend) == /\ told' = [told EXCEPT ![key[t]] = @ \cup {backend}]
                    /\ key' = [key EXCEPT ![t] = None]

\* Mutants: a hit renews the entry; a hit is any entry of the client.
Renew(t) ==
  /\ ~poisoned /\ key[t] # None /\ Assigned(t) # None
  /\ assignments' = [Retained(now[t]) EXCEPT
                       ![key[t]] = [@ EXCEPT !.expires_at = clock + config.ttl]]
  /\ Tell(t, Assigned(t).backend)
  /\ UNCHANGED <<config, init_error, module, clock, now, poisoned, read>>
HitByClient(t) ==
  /\ ~poisoned /\ key[t] # None
  /\ \E k \in Keys : /\ k.client_ip = key[t].client_ip
                     /\ Retained(now[t])[k] # None
                     /\ Tell(t, assignments[k].backend)
  /\ assignments' = Retained(now[t])
  /\ UNCHANGED <<config, init_error, module, clock, now, poisoned, read>>

Hit(t) ==
  /\ ~poisoned /\ key[t] # None /\ Assigned(t) # None
  /\ assignments' = Retained(now[t])
  /\ Tell(t, Assigned(t).backend)
  /\ UNCHANGED <<config, init_error, module, clock, now, poisoned, read>>

Assign(t) ==
  /\ ~poisoned /\ key[t] # None /\ Assigned(t) = None
  /\ now[t] + config.ttl <= MaxInstant
  /\ LET backend == ChooseBackend(key[t], PoolForListener(key[t].listener)) IN
       /\ assignments' = [Retained(now[t]) EXCEPT
            ![key[t]] = [backend |-> backend,
                         expires_at |-> now[t] + config.ttl]]
       /\ Tell(t, backend)
  /\ UNCHANGED <<config, init_error, module, clock, now, poisoned, read>>

\* now + ttl overflows and panics under the lock; the next lock() panics too.
AssignPanics(t) ==
  /\ ~poisoned /\ key[t] # None /\ Assigned(t) = None
  /\ now[t] + config.ttl > MaxInstant
  /\ assignments' = Retained(now[t])
  /\ poisoned' = TRUE
  /\ key' = [key EXCEPT ![t] = None]
  /\ UNCHANGED <<config, init_error, module, clock, now, read, told>>

LockPanics(t) ==
  /\ poisoned /\ key[t] # None
  /\ key' = [key EXCEPT ![t] = None]
  /\ UNCHANGED <<config, init_error, module, clock, now, assignments,
                 poisoned, read, told>>

-----------------------------------------------------------------------------
(* The world around the plugin *)

Tick == /\ clock < MaxTime /\ clock' = clock + 1
        /\ UNCHANGED <<config, init_error, module, key, now, assignments,
                       poisoned, read, told>>

Next ==
  \/ Tick
  \/ \E m \in Modules : StickyInit(m) \/ StickyShutdown(m)
  \/ \E t \in Threads : \/ SelectBackend(t) \/ Hit(t) \/ Assign(t)
                        \/ AssignPanics(t) \/ LockPanics(t)

Spec == Init /\ [][Next]_vars

-----------------------------------------------------------------------------
(* Properties *)

\* Every variable stays in its type, and no entry reaches further into the future
\* than the TTL.
TypeOK ==
  /\ read \in Files \cup {None}
  /\ init_error \in BOOLEAN /\ poisoned \in BOOLEAN
  /\ module \in [Modules -> {"new", "ok", "failed", "freed"}]
  /\ clock \in 0..MaxTime /\ now \in [Threads -> 0..clock]
  /\ key \in [Threads -> Keys \cup {None}]
  /\ told \in [Keys -> SUBSET Raw]
  /\ assignments \in [Keys -> Entries \cup {None}]
  /\ \A k \in Keys : assignments[k] # None =>
       assignments[k].expires_at \in 1..(clock + config.ttl)

\* A client is told one backend per listener, for ever: not only while its entry
\* lives, and whichever callers overtake each other between clock and lock.
StickyAnswers == \A k \in Keys : Cardinality(told[k]) <= 1

\* An assignment that has not expired is neither evicted nor replaced, although
\* callers sweep the table with times they read before they got the lock.
KeptWhileFresh ==
  [][\A k \in Keys : assignments[k] # None /\ assignments[k].expires_at > clock
       => assignments'[k] = assignments[k]]_vars

\* TCP and UDP modules fail or come up together, with one configuration and one
\* table, whatever the file holds when each is initialised and although some may
\* be gone when the last comes.
ModulesAgree ==
  \A m \in Modules :
    /\ module[m] \in {"ok", "freed"} => config # None /\ ~init_error
    /\ module[m] = "failed" => init_error /\ config = None

\* A configuration that was accepted keeps every listener of the file with its
\* own backends.
PoolsKept ==
  config # None => \A i \in DOMAIN read.listeners :
    LET l == read.listeners[i] IN
      config.listener_backends[Trim[l.name]] = Normalized(l.backends)
=============================================================================
