---------------------------- MODULE RuntimeProofs ----------------------------
(***************************************************************************)
(* Proofs about the runtime, for any number of libraries and of workers.   *)
(* It only loads and unloads plugins as PluginHost says, so what is proved *)
(* of PluginHost holds of it; and whatever its services and their threads  *)
(* do, hooks run in live modules, in chains that are in order, and plugins *)
(* live as PluginLifecycle says.                                           *)
(***************************************************************************)
EXTENDS Runtime, PluginHostProofs, ListingProofs

--------------------------------------------------------------------------------------------------------
(* PluginProxyHooks::from_loaded *)

\* There are finitely many modules for a protocol, and Ahead orders them.
LEMMA AheadOrders ==
  ASSUME HostTypeOK, NEW p \in Protocols
  PROVE  /\ Positions(p) \subseteq 1..Len(loaded) /\ IsFiniteSet(Positions(p))
         /\ \A i \in Positions(p) : loaded[i] \in 1..Slots
         /\ Orders(Ahead(p), Positions(p))
<1>1. loaded \in Seq(1..Slots) /\ Len(loaded) \in Nat
  BY DEF HostTypeOK
<1>2. Positions(p) \subseteq 1..Len(loaded)
  BY <1>1 DEF Positions
<1>3. IsFiniteSet(Positions(p))
  <2>1. IsFiniteSet(1..Len(loaded))
    BY <1>1, FS_Interval
  <2> QED
    BY <1>2, <2>1, FS_Subset
<1> DEFINE n(i) == priority[loaded[i]][p]
<1>4. ASSUME NEW i \in Positions(p)
      PROVE  i \in Nat /\ loaded[i] \in 1..Slots /\ n(i) \in Nat
  <2>1. i \in 1..Len(loaded) /\ i \in Nat
    BY <1>1, <1>2
  <2>2. loaded[i] \in 1..Slots
    <3> DEFINE Places == 1..Slots
    <3>1. loaded \in Seq(Places)
      BY <1>1
    <3> HIDE DEF Places
    <3>2. loaded[i] \in Places
      BY <2>1, <3>1
    <3> QED
      BY <3>2 DEF Places
  <2>3. n(i) \in Priorities \cup {0}
    BY <2>2 DEF HostTypeOK
  <2>4. Priorities \cup {0} \subseteq Nat
    BY PluginHostAssumption DEF PluginHostAssumption
  <2> QED
    BY <2>1, <2>2, <2>3, <2>4
<1>5. \A i, j \in Positions(p) :
        /\ Ahead(p)[i] \subseteq Positions(p)
        /\ i \in Ahead(p)[j] <=> n(i) < n(j) \/ (n(i) = n(j) /\ i < j)
  BY DEF Ahead
<1>6. Orders(Ahead(p), Positions(p))
  <2> HIDE DEF n
  <2>1. \A i \in Positions(p) :
          Ahead(p)[i] \subseteq Positions(p) /\ i \notin Ahead(p)[i]
    BY <1>4, <1>5
  <2>2. \A i, j \in Positions(p) :
          i # j => i \in Ahead(p)[j] \/ j \in Ahead(p)[i]
    BY <1>4, <1>5
  <2>3. ASSUME NEW i \in Positions(p), NEW j \in Positions(p), NEW k \in Positions(p),
               i \in Ahead(p)[j], j \in Ahead(p)[k]
        PROVE  i \in Ahead(p)[k]
    <3>1. /\ n(i) < n(j) \/ (n(i) = n(j) /\ i < j)
          /\ n(j) < n(k) \/ (n(j) = n(k) /\ j < k)
      BY <1>5, <2>3
    <3>2. /\ i \in Nat /\ j \in Nat /\ k \in Nat
          /\ n(i) \in Nat /\ n(j) \in Nat /\ n(k) \in Nat
      BY <1>4
    <3>3. n(i) < n(k) \/ (n(i) = n(k) /\ i < k)
      BY <3>1, <3>2
    <3> QED
      BY <1>5, <3>3
  <2> QED
    BY <2>1, <2>2, <2>3 DEF Orders
<1> QED
  BY <1>2, <1>3, <1>4, <1>6

\* from_loaded makes a chain of exactly the modules there are, and orders it as
\* sort_by_key does: by priority and, among equals, as they were loaded.
LEMMA SortedFacts ==
  ASSUME HostTypeOK, NEW p \in Protocols
  PROVE  /\ Sorted(p) \in Seq(1..Slots)
         /\ ToSet(Sorted(p)) = {loaded[i] : i \in Positions(p)}
         /\ \A k, l \in DOMAIN Sorted(p) : k < l =>
              \E i, j \in Positions(p) : /\ Sorted(p)[k] = loaded[i]
                                         /\ Sorted(p)[l] = loaded[j]
                                         /\ i \in Ahead(p)[j]
<1> DEFINE n == Cardinality(Positions(p))
           order == Listing(Positions(p), Ahead(p))
<1>1. /\ n \in Nat /\ order \in [1..n -> Positions(p)]
      /\ \A i \in Positions(p) : \E k \in 1..n : order[k] = i
      /\ \A k, l \in 1..n : k < l => order[k] \in Ahead(p)[order[l]]
  BY AheadOrders, ListingFacts
<1>2. Sorted(p) = [k \in DOMAIN order |-> loaded[order[k]]]
  BY DEF Sorted
<1>3. \A i \in Positions(p) : loaded[i] \in 1..Slots
  BY AheadOrders
<1> HIDE DEF n, order
<1>4. /\ Sorted(p) = [k \in 1..n |-> loaded[order[k]]]
      /\ \A k \in 1..n : order[k] \in Positions(p)
  BY <1>1, <1>2
<1>5. /\ Sorted(p) \in Seq(1..Slots) /\ DOMAIN Sorted(p) = 1..n
      /\ \A k \in 1..n : Sorted(p)[k] = loaded[order[k]]
  BY <1>1, <1>3, <1>4
<1>6. ToSet(Sorted(p)) = {loaded[i] : i \in Positions(p)}
  BY <1>1, <1>4, <1>5 DEF ToSet
<1> QED
  BY <1>1, <1>4, <1>5, <1>6

--------------------------------------------------
(* Loading and unloading *)

\* A step of the runtime is a step of loading and unloading or leaves it alone.
LEMMA HostStep ==
  ASSUME [Next]_vars
  PROVE  [HostNext]_hostVars
<1>1. CASE Host
  BY <1>1 DEF Host, HostNext
<1>2. CASE ServerFails \/ RunReturns
  BY <1>2 DEF ServerFails, RunReturns, HostNext
<1>3. CASE SpawnServices \/ ProcessExit
  BY <1>3 DEF SpawnServices, ProcessExit
<1>4. CASE UdpEnds \/ \E p \in Protocols : ServiceUp(p) \/ StartPanics(p)
  BY <1>4 DEF UdpEnds, ServiceUp, StartPanics, Become
<1>5. CASE \E w \in Workers : EnterHook(w) \/ LeaveHook(w)
  BY <1>5 DEF EnterHook, LeaveHook
<1>6. CASE UNCHANGED vars
  BY <1>6 DEF vars
<1> QED
  BY <1>1, <1>2, <1>3, <1>4, <1>5, <1>6 DEF Next

\* The runtime implements the host.
THEOREM RunsHost == Spec => HostSpec
<1>1. Init => HostInit
  BY DEF Init
<1>2. [Next]_vars => [HostNext]_hostVars
  BY HostStep
<1> QED
  BY <1>1, <1>2, PTL DEF Spec, HostSpec

\* Whatever the services do: libraries are closed after their root module, loaded
\* plugins are shut down before they are unloaded, a failed startup and a run that
\* returns leave nothing open, and services only ever start over a complete load.
THEOREM UnloadsSafely ==
  Spec => [](NoRootAfterClose /\ LoadedShutDownFirst /\ NothingLeftOpen
             /\ BuiltWithAllLoaded)
<1> QED
  BY RunsHost, RootGoesFirst, ShutDownFirst, AllClosed, BuiltComplete, PTL

-----------------------------------------------------------------------------
(* The services and the hooks they call *)

\* While the plugins are in use, every loaded one is open, its root module alive
\* and its modules, one for each protocol it exports, initialised.
LEMMA BuiltPlugins ==
  ASSUME HostTypeOK, HostInv, OnlyExported, phase = "built"
  PROVE  /\ ToSet(loaded) = 1..Len(loaded)
         /\ \A s \in 1..Len(loaded) :
              /\ loaded[s] = s /\ s \in 1..Slots
              /\ handle[s] = "open" /\ root[s]
              /\ \A p \in Protocols : module[s][p] = "live" <=> p \in exports[s]
<1>1. \A s \in 1..Len(loaded) : loaded[s] = s /\ s \in 1..Slots
  BY LoadedSlots
<1>2. DOMAIN loaded = 1..Len(loaded)
  BY DEF HostTypeOK
<1>3. ToSet(loaded) = 1..Len(loaded)
  BY <1>1, <1>2 DEF ToSet
<1>4. \A s \in 1..Len(loaded) :
        /\ handle[s] = "open" /\ root[s]
        /\ \A p \in exports[s] : module[s][p] = "live"
  BY LoadedSlots DEF HostInv, NotDropping, Kept
<1>5. \A s \in 1..Len(loaded) : \A p \in Protocols :
        module[s][p] = "live" => p \in exports[s]
  BY <1>1 DEF OnlyExported
<1> QED
  BY <1>1, <1>3, <1>4, <1>5

\* While they are, the main thread waits.
LEMMA BuiltWaits ==
  ASSUME HostInv, phase = "built"
  PROVE  ~Host
<1>1. stage = "idle"
  BY DEF HostInv, LoadingOpen
<1> QED
  BY <1>1 DEF Host, SkipPath, EnterPath, ReadDirFails, EntryFails, LoadingDone,
     AtPath, OpenLibrary, GetLibrary, ValidateManifest, LoadNoFactory, LoadModule,
     LoadFails, CloseAbandoned, DropNext, DropDone, Dropping, Protocols

\* The chains that run starts its services with are in order.
LEMMA ChainsStart ==
  ASSUME HostTypeOK, HostInv, OnlyExported, phase = "built", NEW p \in Protocols
  PROVE  /\ ToSet(Sorted(p)) = {s \in ToSet(loaded) : p \in exports[s]}
         /\ \A k, l \in DOMAIN Sorted(p) : k < l =>
              Precedes(p, Sorted(p)[k], Sorted(p)[l])
<1>1. \A i \in Positions(p) : i \in 1..Len(loaded) /\ loaded[i] = i
  BY AheadOrders, BuiltPlugins
<1>2. Positions(p) = {s \in 1..Len(loaded) : p \in exports[s]}
  <2>1. DOMAIN loaded = 1..Len(loaded)
    BY DEF HostTypeOK
  <2> QED
    BY <2>1, BuiltPlugins DEF Positions
<1>3. {loaded[i] : i \in Positions(p)} = Positions(p)
  BY <1>1
<1>4. ToSet(Sorted(p)) = {s \in ToSet(loaded) : p \in exports[s]}
  BY <1>2, <1>3, SortedFacts, BuiltPlugins
<1>5. ASSUME NEW k \in DOMAIN Sorted(p), NEW l \in DOMAIN Sorted(p), k < l
      PROVE  Precedes(p, Sorted(p)[k], Sorted(p)[l])
  <2>1. PICK i \in Positions(p), j \in Positions(p) :
          /\ Sorted(p)[k] = loaded[i] /\ Sorted(p)[l] = loaded[j]
          /\ i \in Ahead(p)[j]
    BY <1>5, SortedFacts
  <2>2. loaded[i] = i /\ loaded[j] = j
    BY <1>1
  <2>3. Precedes(p, i, j)
    BY <2>1, <2>2 DEF Ahead, Precedes
  <2> QED
    BY <2>1, <2>2, <2>3
<1> QED
  BY <1>4, <1>5

\* A step keeps every variable in its type.
LEMMA TypeStep ==
  ASSUME TypeOK, HostTypeOK', [Next]_vars
  PROVE  TypeOK'
<1> USE DEF TypeOK
<1>1. CASE Host
  BY <1>1 DEF Host
<1>2. CASE ServerFails
  BY <1>2 DEF ServerFails
<1>3. CASE SpawnServices
  <2>1. chain' \in [Protocols -> Seq(1..Slots)]
    BY <1>3, SortedFacts DEF SpawnServices
  <2>2. service' \in [Protocols -> {"absent", "starting", "running", "ended"}]
    BY <1>3 DEF SpawnServices
  <2> QED
    BY <1>3, <2>1, <2>2 DEF SpawnServices
<1>4. CASE UdpEnds \/ \E p \in Protocols : ServiceUp(p) \/ StartPanics(p)
  BY <1>4 DEF UdpEnds, ServiceUp, StartPanics, Become
<1>5. CASE RunReturns
  BY <1>5 DEF RunReturns
<1>6. CASE ProcessExit
  BY <1>6 DEF ProcessExit
<1>7. ASSUME NEW w \in Workers, EnterHook(w)
      PROVE  TypeOK'
  <2>1. Serves[w] \in Protocols
    BY RuntimeAssumption DEF RuntimeAssumption
  <2>2. PICK s \in ToSet(chain[Serves[w]]) : inside' = [inside EXCEPT ![w] = s]
    BY <1>7 DEF EnterHook
  <2>3. s \in 1..Slots
    <3> DEFINE Places == 1..Slots
    <3>1. chain[Serves[w]] \in Seq(Places)
      BY <2>1
    <3> HIDE DEF Places
    <3>2. s \in Places
      BY <2>2, <3>1 DEF ToSet
    <3> QED
      BY <3>2 DEF Places
  <2>4. s \in 0..Slots
    BY <2>3, PluginHostAssumption DEF PluginHostAssumption
  <2> QED
    BY <1>7, <2>2, <2>4 DEF EnterHook
<1>8. ASSUME NEW w \in Workers, LeaveHook(w)
      PROVE  TypeOK'
  <2>1. 0 \in 0..Slots
    BY PluginHostAssumption DEF PluginHostAssumption
  <2> QED
    BY <1>8, <2>1 DEF LeaveHook
<1>9. CASE UNCHANGED vars
  BY <1>9 DEF vars
<1> QED
  BY <1>1, <1>2, <1>3, <1>4, <1>5, <1>6, <1>7, <1>8, <1>9 DEF Next

\* Loading ends in a built runtime or a failed one, dropping in a stopped one.
LEMMA HostPhases ==
  ASSUME Host, phase \notin {"dropping", "stopped"}
  PROVE  phase' \notin {"dropping", "stopped"}
BY DEF Host, SkipPath, EnterPath, ReadDirFails, EntryFails, LoadingDone, AtPath,
   OpenLibrary, GetLibrary, ValidateManifest, LoadNoFactory, LoadModule, LoadFails,
   BlockDone, CloseAbandoned, DropNext, DropDone, Dropping

\* A service that changes leaves the invariant if no worker is in its hooks: run
\* is serving, for with all services ended none would change.
LEMMA ServiceChange ==
  ASSUME TypeOK, RuntimeInv, NEW p \in Protocols, service[p] \in {"starting", "running"},
         NEW to \in {"running", "ended"},
         \A w \in Workers : Serves[w] = p => inside[w] = 0 \/ to = "running",
         run # "exited", service' = [service EXCEPT ![p] = to],
         UNCHANGED <<hostVars, run, chain, inside>>
  PROVE  RuntimeInv'
<1> USE DEF RuntimeInv
<1>1. ~AllEnded
  BY DEF AllEnded
<1>2. run \notin {"building", "returned"}
  BY <1>1 DEF PluginsHeld
<1>3. PluginsHeld'
  BY <1>2 DEF PluginsHeld, hostVars
<1>4. HookInChain'
  <2> SUFFICES ASSUME NEW w \in Workers, inside'[w] # 0
               PROVE  /\ service'[Serves[w]] = "running"
                      /\ inside'[w] \in ToSet(chain'[Serves[w]])
    BY DEF HookInChain
  <2>1. /\ service[Serves[w]] = "running" /\ Serves[w] \in Protocols
        /\ inside[w] \in ToSet(chain[Serves[w]])
    BY RuntimeAssumption DEF RuntimeAssumption, HookInChain
  <2>2. Serves[w] = p => to = "running"
    OBVIOUS
  <2> QED
    BY <2>1, <2>2 DEF TypeOK
<1>5. ChainInOrder'
  BY DEF ChainInOrder, Precedes, hostVars
<1> QED
  BY <1>3, <1>4, <1>5

\* A step leaves the invariant.
LEMMA RuntimeInvStep ==
  ASSUME TypeOK, HostInv, OnlyExported, RuntimeInv, [Next]_vars
  PROVE  RuntimeInv'
<1> USE DEF TypeOK, RuntimeInv
<1>1. CASE Host
  <2>1. run \notin {"serving", "exited"}
    BY <1>1, BuiltWaits DEF PluginsHeld
  <2>2. UNCHANGED <<run, service, chain, inside>>
    BY <1>1 DEF Host
  <2>3. PluginsHeld'
    BY <1>1, <2>1, <2>2, HostPhases DEF PluginsHeld, AllEnded
  <2>4. HookInChain' /\ ChainInOrder'
    BY <2>1, <2>2 DEF HookInChain, ChainInOrder
  <2> QED
    BY <2>3, <2>4
<1>2. CASE ServerFails
  BY <1>2 DEF ServerFails, Release, PluginsHeld, AllEnded, HookInChain, ChainInOrder
<1>3. CASE SpawnServices
  <2>1. \A w \in Workers : inside[w] = 0
    <3>1. \A w \in Workers : Serves[w] \in Protocols
      BY RuntimeAssumption DEF RuntimeAssumption
    <3> QED
      BY <1>3, <3>1 DEF SpawnServices, PluginsHeld, AllEnded, HookInChain
  <2>2. /\ run' = "serving" /\ phase = "built" /\ phase' = "built"
        /\ UNCHANGED <<inside, loaded, exports, priority>>
        /\ \A p \in Protocols : chain'[p] = Sorted(p)
    BY <1>3 DEF SpawnServices, hostVars
  <2>3. PluginsHeld' /\ HookInChain'
    BY <2>1, <2>2 DEF PluginsHeld, HookInChain
  <2>4. \A p \in Protocols :
          /\ ToSet(Sorted(p)) = {s \in ToSet(loaded) : p \in exports[s]}
          /\ \A i, j \in DOMAIN Sorted(p) : i < j =>
               Precedes(p, Sorted(p)[i], Sorted(p)[j])
    BY <2>2, ChainsStart
  <2>5. ChainInOrder'
    BY <2>2, <2>4 DEF ChainInOrder, Precedes
  <2> QED
    BY <2>3, <2>5
<1>4. CASE UdpEnds
  <2>1. "udp" \in Protocols
    BY DEF Protocols
  <2> QED
    BY <1>4, <2>1, ServiceChange DEF UdpEnds, Become
<1>5. CASE RunReturns
  BY <1>5 DEF RunReturns, Release, PluginsHeld, AllEnded, HookInChain, ChainInOrder
<1>6. CASE ProcessExit
  BY <1>6 DEF ProcessExit, hostVars, PluginsHeld, HookInChain, ChainInOrder, Precedes
<1>7. ASSUME NEW p \in Protocols, ServiceUp(p)
      PROVE  RuntimeInv'
  BY <1>7, ServiceChange DEF ServiceUp, Become
<1>8. ASSUME NEW p \in Protocols, StartPanics(p)
      PROVE  RuntimeInv'
  <2>1. \A w \in Workers : Serves[w] = p => inside[w] = 0
    BY <1>8 DEF StartPanics, Become, HookInChain
  <2> QED
    BY <1>8, <2>1, ServiceChange DEF StartPanics, Become
<1>9. ASSUME NEW v \in Workers, EnterHook(v) \/ LeaveHook(v)
      PROVE  RuntimeInv'
  <2>1. /\ UNCHANGED <<hostVars, run, service, chain>>
        /\ \/ /\ inside'[v] \in ToSet(chain[Serves[v]])
              /\ service[Serves[v]] = "running"
           \/ inside'[v] = 0
        /\ \A w \in Workers : w # v => inside'[w] = inside[w]
    BY <1>9 DEF EnterHook, LeaveHook
  <2>2. HookInChain'
    BY <2>1 DEF HookInChain
  <2>3. PluginsHeld' /\ ChainInOrder'
    BY <2>1 DEF PluginsHeld, AllEnded, ChainInOrder, Precedes, hostVars
  <2> QED
    BY <2>2, <2>3
<1>10. CASE UNCHANGED vars
  BY <1>10 DEF vars, hostVars, PluginsHeld, AllEnded, HookInChain, ChainInOrder,
     Precedes
<1> QED
  BY <1>1, <1>2, <1>3, <1>4, <1>5, <1>6, <1>7, <1>8, <1>9, <1>10 DEF Next

\* The inductive invariant of the runtime.
THEOREM RuntimeInvariance ==
  Spec => [](TypeOK /\ HostInv /\ OnlyExported /\ RuntimeInv)
<1>1. Init => TypeOK /\ RuntimeInv
  <2> SUFFICES ASSUME Init
               PROVE  TypeOK /\ RuntimeInv
    OBVIOUS
  <2>1. TypeOK
    <3>1. HostTypeOK /\ 0 \in 0..Slots
      BY HostStart, PluginHostAssumption DEF Init, PluginHostAssumption
    <3>2. <<>> \in Seq(1..Slots)
      OBVIOUS
    <3> QED
      BY <3>1, <3>2 DEF Init, TypeOK
  <2>2. RuntimeInv
    BY DEF Init, HostInit, RuntimeInv, PluginsHeld, AllEnded, HookInChain,
       ChainInOrder
  <2> QED
    BY <2>1, <2>2
<1>2. /\ TypeOK /\ RuntimeInv /\ HostInv /\ OnlyExported /\ HostTypeOK'
      /\ [Next]_vars
      => (TypeOK /\ RuntimeInv)'
  BY TypeStep, RuntimeInvStep
<1>3. Spec => [](HostTypeOK /\ HostInv /\ OnlyExported)
  BY RunsHost, HostInvariance, ModulesExported, PTL
<1> QED
  BY <1>1, <1>2, <1>3, PTL DEF Spec

\* Every variable of the runtime stays in its type.
THEOREM RuntimeTypes == Spec => []TypeOK
<1> QED
  BY RuntimeInvariance, PTL

\* from_loaded gives the services exactly the modules of the loaded plugins, in
\* the order sort_by_key promises, and nothing changes the chains while they run.
THEOREM ChainsOrdered == Spec => []ChainInOrder
<1>1. RuntimeInv => ChainInOrder
  BY DEF RuntimeInv
<1> QED
  BY <1>1, RuntimeInvariance, PTL

\* A worker is in a hook only while run holds the plugins.
LEMMA HookWhileHeld ==
  ASSUME TypeOK, RuntimeInv, NEW w \in Workers, inside[w] # 0
  PROVE  run \in {"serving", "exited"} /\ phase = "built"
<1>1. service[Serves[w]] = "running" /\ Serves[w] \in Protocols
  BY RuntimeAssumption DEF RuntimeAssumption, RuntimeInv, HookInChain
<1>2. ~AllEnded
  BY <1>1 DEF AllEnded
<1> QED
  BY <1>2 DEF TypeOK, RuntimeInv, PluginsHeld

\* The modules of a chain are live as long as the plugins are held.
LEMMA ChainLive ==
  ASSUME TypeOK, HostInv, OnlyExported, RuntimeInv, phase = "built",
         run \in {"serving", "exited"}, NEW p \in Protocols,
         NEW s \in ToSet(chain[p])
  PROVE  /\ s \in 1..Len(loaded) /\ s \in ToSet(loaded) /\ s \in 1..Slots
         /\ loaded[s] = s /\ handle[s] = "open" /\ root[s] /\ module[s][p] = "live"
<1>1. s \in ToSet(loaded) /\ p \in exports[s]
  BY DEF RuntimeInv, ChainInOrder
<1> QED
  BY <1>1, BuiltPlugins DEF TypeOK

\* The raw pointers PluginProxyHooks copied are good whenever a thread calls through
\* them: the library open, its root alive, the module initialised and not shut down.
THEOREM HooksOnLive == Spec => []HookOnLiveModule
<1>1. ASSUME TypeOK, HostInv, OnlyExported, RuntimeInv
      PROVE  HookOnLiveModule
  <2> SUFFICES ASSUME NEW w \in Workers, inside[w] # 0
               PROVE  /\ handle[inside[w]] = "open" /\ root[inside[w]]
                      /\ module[inside[w]][Serves[w]] = "live"
    BY DEF HookOnLiveModule
  <2>1. Serves[w] \in Protocols /\ inside[w] \in ToSet(chain[Serves[w]])
    BY <1>1, RuntimeAssumption DEF RuntimeAssumption, RuntimeInv, HookInChain
  <2> QED
    BY <1>1, <2>1, HookWhileHeld, ChainLive
<1> QED
  BY <1>1, RuntimeInvariance, PTL

-----------------------------------------------------------------------------
(* The runtime implements PluginLifecycle *)

\* Where each plugin is: the drop has passed those before gone, is at the next
\* one, and has the rest before it; the last slot may be one that is loading.
StatesAre ==
  /\ \A s \in 1..Len(loaded) :
       /\ s <= gone => StateOf(s) = "unloaded"
       /\ s = gone + 1 /\ drop > 1 => StateOf(s) = "stopping"
       /\ s > gone + 1 \/ (s = gone + 1 /\ drop = 1) => StateOf(s) = "ready"
  /\ \A s \in 1..Slots : s > opened => StateOf(s) = "absent"
  /\ \A s \in 1..opened : s > Len(loaded) =>
       /\ stage # "idle" => StateOf(s) = "loading"
       /\ stage = "idle" => StateOf(s) = "unloaded"

\* The mapping gives these states.
LEMMA StateFacts == HostTypeOK /\ HostInv => StatesAre
<1> SUFFICES ASSUME HostTypeOK, HostInv
             PROVE  StatesAre
  OBVIOUS
<1>1. /\ Slots \in Nat /\ opened \in 0..Slots /\ Len(loaded) \in 0..opened
      /\ gone \in 0..Len(loaded) /\ drop \in 1..5
      /\ \A s \in 1..Len(loaded) : s \in 1..Slots /\ loaded[s] = s
  BY LoadedSlots
<1>2. \A s : s \in ToSet(loaded) <=> s \in 1..Len(loaded)
  <2>1. DOMAIN loaded = 1..Len(loaded)
    BY DEF HostTypeOK
  <2> QED
    BY <1>1, <2>1 DEF ToSet
<1>3. ASSUME NEW s \in 1..Len(loaded)
      PROVE  /\ s <= gone => StateOf(s) = "unloaded"
             /\ s = gone + 1 /\ drop > 1 => StateOf(s) = "stopping"
             /\ s > gone + 1 \/ (s = gone + 1 /\ drop = 1) => StateOf(s) = "ready"
  <2>1. /\ s \in ToSet(loaded) /\ s \in Nat /\ gone \in Nat /\ gone <= Len(loaded)
        /\ drop \in Nat
    BY <1>1, <1>2
  <2>2. /\ s <= gone => handle[s] = "closed"
        /\ s > gone => handle[s] = "open"
    <3>1. s > gone => s = gone + 1 \/ s > gone + 1
      BY <2>1
    <3> QED
      BY <1>1, <2>1, <3>1 DEF HostInv, DroppedSteps, Kept
  <2>3. s > gone => loaded[gone + 1] = gone + 1
    BY <1>1, <2>1
  <2> QED
    BY <2>1, <2>2, <2>3 DEF StateOf
<1>4. ASSUME NEW s \in 1..Slots, s > opened
      PROVE  StateOf(s) = "absent"
  BY <1>4 DEF HostInv, Untouched, StateOf
<1>5. ASSUME NEW s \in 1..opened, s > Len(loaded)
      PROVE  /\ stage # "idle" => StateOf(s) = "loading"
             /\ stage = "idle" => StateOf(s) = "unloaded"
  <2>1. s \notin ToSet(loaded) /\ s = opened
    BY <1>1, <1>2, <1>5 DEF HostInv, InOrder
  <2>2. stage # "idle" => handle[s] = "open"
    BY <2>1 DEF HostInv, LoadingOpen
  <2>3. stage = "idle" => handle[s] = "closed"
    <3>1. stage = "idle" => phase \in {"failed", "unwinding"}
      BY <1>1, <1>5, <2>1 DEF HostTypeOK, HostInv, InOrder
    <3> QED
      BY <1>5, <3>1 DEF HostInv, NotDropping
  <2> QED
    BY <2>1, <2>2, <2>3 DEF StateOf
<1> QED
  BY <1>3, <1>4, <1>5 DEF StatesAre

\* The same, after a step
LEMMA StateFactsNext == HostTypeOK' /\ HostInv' => StatesAre'
<1> QED
  BY StateFacts, PTL

\* What the lifecycle sees of the runtime
StateMap == [s \in 1..Slots |-> StateOf(s)]
Using == {inside[w] : w \in Workers} \ {0}
LifecycleStep == [Lifecycle!Next]_<<StateMap, Using>>

\* A step that leaves the libraries, the vector and the drop alone leaves the
\* states alone.
LEMMA SameStates ==
  ASSUME UNCHANGED <<handle, loaded, gone, drop>>
  PROVE  StateMap' = StateMap
BY DEF StateMap, StateOf

\* A step that changes the state of one plugin
LEMMA OneChanges ==
  ASSUME NEW s \in 1..Slots, NEW from, NEW to,
         StateOf(s) = from, StateOf(s)' = to,
         \A t \in 1..Slots : t # s => StateOf(t)' = StateOf(t)
  PROVE  StateMap[s] = from /\ StateMap' = [StateMap EXCEPT ![s] = to]
BY DEF StateMap

\* No hook runs while the main thread loads or drops plugins.
LEMMA NoHooks ==
  ASSUME TypeOK, HostInv, RuntimeInv, Host
  PROVE  Using = {} /\ UNCHANGED Using
<1>1. \A w \in Workers : inside[w] = 0
  BY HookWhileHeld, BuiltWaits
<1>2. UNCHANGED inside
  BY DEF Host
<1> QED
  BY <1>1, <1>2 DEF Using

\* The host opens a library when every one before it is ready.
LEMMA OpenMaps ==
  ASSUME HostTypeOK, HostInv, HostTypeOK', HostInv', OpenLibrary, UNCHANGED Using
  PROVE  LifecycleStep
<1>1. CASE opened' = opened
  <2>1. UNCHANGED <<handle, loaded, gone, drop>>
    <3>1. opened # opened + 1
      BY <1>1 DEF HostTypeOK
    <3> QED
      BY <1>1, <3>1 DEF OpenLibrary
  <2> QED
    BY <2>1, SameStates DEF LifecycleStep
<1>2. CASE opened' # opened
  <2>1. /\ opened' = opened + 1 /\ stage' # "idle" /\ UNCHANGED <<loaded, gone, drop>>
        /\ phase = "loading" /\ stage = "idle"
    BY <1>2 DEF OpenLibrary
  <2>2. /\ Len(loaded) = opened /\ opened' \in 1..Slots /\ gone = 0 /\ drop = 1
        /\ opened \in Nat /\ Slots \in Nat
    BY <2>1, LoadedSlots DEF HostInv, InOrder, NotDropping, HostTypeOK
  <2> PICK s \in 1..Slots : s = opened'
    BY <2>2
  <2>3. /\ \A t \in 1..Slots : t < s => StateOf(t) = "ready" /\ StateOf(t)' = "ready"
        /\ \A t \in 1..Slots : t > s => StateOf(t) = "absent" /\ StateOf(t)' = "absent"
        /\ StateOf(s) = "absent" /\ StateOf(s)' = "loading"
    <3>1. s = opened + 1 /\ s > Len(loaded) /\ s \in 1..opened'
      BY <2>1, <2>2
    <3>2. \A t \in 1..Slots : t < s => t \in 1..Len(loaded) /\ (t > gone + 1 \/ t = gone + 1)
      BY <2>2, <3>1
    <3>3. \A t \in 1..Slots : t > s => t > opened
      BY <2>2, <3>1
    <3>4. StatesAre /\ StatesAre'
      BY StateFacts, StateFactsNext
    <3>5. \A t \in 1..Len(loaded) : (t > gone + 1 \/ t = gone + 1) =>
            StateOf(t) = "ready" /\ StateOf(t)' = "ready"
      BY <2>1, <2>2, <3>4 DEF StatesAre
    <3>6. \A t \in 1..Slots : t > s => StateOf(t) = "absent" /\ StateOf(t)' = "absent"
      BY <3>3, <3>4 DEF StatesAre
    <3>7. StateOf(s) = "absent"
      BY <2>2, <3>1, <3>4 DEF StatesAre
    <3>8. StateOf(s)' = "loading"
      BY <2>1, <3>1, <3>4 DEF StatesAre
    <3> QED
      BY <3>2, <3>5, <3>6, <3>7, <3>8
  <2>4. \A t \in 1..Slots : t # s => StateOf(t)' = StateOf(t)
    BY <2>2, <2>3
  <2>5. StateMap[s] = "absent" /\ StateMap' = [StateMap EXCEPT ![s] = "loading"]
    BY <2>3, <2>4, OneChanges
  <2>6. \A t \in 1..Slots : t < s => StateMap[t] = "ready"
    BY <2>3 DEF StateMap
  <2>7. Lifecycle!Open(s)
    BY <2>5, <2>6 DEF Lifecycle!Open, Lifecycle!Change, Lifecycle!Plugins, StateMap, Using
  <2> QED
    BY <2>4, <2>7 DEF LifecycleStep, Lifecycle!Next, Lifecycle!Plugins
<1> QED
  BY <1>1, <1>2

\* A slot that is being loaded is the last one.
LEMMA LoadingSlot ==
  ASSUME HostTypeOK, HostInv, stage # "idle"
  PROVE  /\ phase = "loading" /\ opened \in 1..Slots /\ opened = Len(loaded) + 1
         /\ gone = 0 /\ drop = 1 /\ opened \in Nat
BY LoadedSlots DEF HostInv, LoadingOpen, NotDropping

\* A load that fails unloads its library and no other.
LEMMA CloseMaps ==
  ASSUME HostTypeOK, HostInv, HostTypeOK', HostInv', CloseAbandoned, UNCHANGED Using
  PROVE  LifecycleStep
<1>0. stage # "idle"
  BY DEF CloseAbandoned
<1> PICK s \in 1..Slots : s = opened
  BY <1>0, LoadingSlot
<1>1. StatesAre /\ StatesAre'
  BY StateFacts, StateFactsNext
<1>2. /\ s = Len(loaded) + 1 /\ s \in 1..opened /\ s > Len(loaded) /\ s \in 1..opened'
      /\ s > Len(loaded') /\ stage' = "idle"
  BY <1>0, LoadingSlot DEF CloseAbandoned
<1>3. StateOf(s) = "loading" /\ StateOf(s)' = "unloaded"
  BY <1>0, <1>1, <1>2 DEF StatesAre
<1>4. ASSUME NEW t \in 1..Slots, t # s
      PROVE  StateOf(t)' = StateOf(t)
  <2>1. handle'[t] = handle[t] /\ UNCHANGED <<loaded, gone, drop>>
    BY <1>4 DEF CloseAbandoned, HostTypeOK
  <2> QED
    BY <2>1 DEF StateOf
<1>5. StateMap[s] = "loading" /\ StateMap' = [StateMap EXCEPT ![s] = "unloaded"]
  BY <1>3, <1>4, OneChanges
<1>6. Lifecycle!Fail(s)
  BY <1>5 DEF Lifecycle!Fail, Lifecycle!Change, StateMap, Using
<1> QED
  BY <1>6 DEF LifecycleStep, Lifecycle!Next, Lifecycle!Plugins

\* The last block of a load makes the plugin ready; the others are not seen.
LEMMA BlockMaps ==
  ASSUME HostTypeOK, HostInv, HostTypeOK', HostInv', stage \in Protocols, BlockDone,
         UNCHANGED <<opened, gone, drop>>, UNCHANGED Using
  PROVE  LifecycleStep
<1>1. CASE stage # "udp"
  BY <1>1, SameStates DEF BlockDone, LifecycleStep
<1>2. CASE stage = "udp"
  <2> PICK s \in 1..Slots : s = opened
    BY <1>2, LoadingSlot
  <2>1. StatesAre /\ StatesAre'
    BY StateFacts, StateFactsNext
  <2>2. /\ s = Len(loaded) + 1 /\ s \in 1..opened /\ s > Len(loaded) /\ stage # "idle"
        /\ gone = 0 /\ drop = 1 /\ s \in Nat
    BY <1>2, LoadingSlot
  <2>3. loaded' = Append(loaded, s) /\ Len(loaded') = Len(loaded) + 1
    BY <1>2 DEF BlockDone, HostTypeOK
  <2>5. StateOf(s) = "loading"
    BY <2>1, <2>2 DEF StatesAre
  <2>6. StateOf(s)' = "ready"
    <3>1. s > gone' + 1 \/ (s = gone' + 1 /\ drop' = 1)
      BY <2>2
    <3>2. s \in 1..Len(loaded')
      BY <2>2, <2>3
    <3> QED
      BY <2>1, <3>1, <3>2 DEF StatesAre
  <2>7. ASSUME NEW t \in 1..Slots, t # s
        PROVE  StateOf(t)' = StateOf(t)
    <3>1. handle' = handle /\ gone' = gone /\ drop' = drop /\ ~(drop > 1) /\ ~(drop' > 1)
      BY <2>2 DEF BlockDone
    <3>2. t \in ToSet(loaded') <=> t \in ToSet(loaded)
      <4>1. loaded \in Seq(1..Slots) /\ loaded' \in Seq(1..Slots)
        BY DEF HostTypeOK
      <4>2. /\ DOMAIN loaded = 1..Len(loaded)
            /\ DOMAIN loaded' = 1..Len(loaded) + 1
            /\ loaded'[Len(loaded) + 1] = s
            /\ \A i \in 1..Len(loaded) : loaded'[i] = loaded[i]
            /\ Len(loaded) \in Nat
        BY <2>3, <4>1
      <4>3. \A i : i \in 1..Len(loaded) + 1 <=> i \in 1..Len(loaded) \/ i = Len(loaded) + 1
        BY <4>2
      <4> QED
        BY <2>7, <4>2, <4>3 DEF ToSet
    <3> QED
      BY <3>1, <3>2 DEF StateOf
  <2>8. StateMap[s] = "loading" /\ StateMap' = [StateMap EXCEPT ![s] = "ready"]
    BY <2>5, <2>6, <2>7, OneChanges
  <2>9. Lifecycle!Ready(s)
    BY <2>8 DEF Lifecycle!Ready, Lifecycle!Change, StateMap, Using
  <2> QED
    BY <2>9 DEF LifecycleStep, Lifecycle!Next, Lifecycle!Plugins
<1> QED
  BY <1>1, <1>2

\* The first of the five steps that drop a plugin stops it, when no hook runs; the
\* last one unloads it; those between are not seen.
LEMMA DropMaps ==
  ASSUME HostTypeOK, HostInv, HostTypeOK', HostInv', DropNext,
         Using = {}, UNCHANGED Using
  PROVE  LifecycleStep
<1> PICK s \in 1..Slots : s = gone + 1
  BY DropNextEffect
<1>1. StatesAre /\ StatesAre'
  BY StateFacts, StateFactsNext
<1>2. /\ s \in 1..Len(loaded) /\ s \in 1..Len(loaded') /\ s \in Nat /\ gone \in Nat
      /\ drop \in 1..5 /\ UNCHANGED <<opened, stage, loaded>>
      /\ Len(loaded) \in 0..opened /\ opened \in 0..Slots /\ Slots \in Nat
  BY DropNextEffect, LoadedSlots
<1>3. /\ drop' = IF drop = 5 THEN 1 ELSE drop + 1
      /\ gone' = IF drop = 5 THEN s ELSE gone
  BY DropNextEffect
<1>4. /\ drop = 1 => StateOf(s) = "ready"
      /\ drop > 1 => StateOf(s) = "stopping"
  BY <1>1, <1>2 DEF StatesAre
<1>5. /\ drop < 5 => StateOf(s)' = "stopping"
      /\ drop = 5 => StateOf(s)' = "unloaded"
  <2>1. drop < 5 => gone' = gone /\ drop' > 1 /\ s = gone' + 1
    BY <1>2, <1>3
  <2>2. drop = 5 => s <= gone'
    BY <1>2, <1>3
  <2> QED
    BY <1>1, <1>2, <2>1, <2>2 DEF StatesAre
<1>6. ASSUME NEW t \in 1..Slots, t # s
      PROVE  StateOf(t)' = StateOf(t)
  <2>1. handle'[t] = handle[t] /\ loaded' = loaded
    BY <1>2, <1>6, DropNextEffect
  <2>2. CASE t \in 1..Len(loaded)
    <3>1. t < s \/ t > s
      BY <1>2, <1>6, <2>2
    <3>2. CASE t < s
      <4>1. t <= gone /\ t <= gone' /\ t \in 1..Len(loaded')
        BY <1>2, <1>3, <2>1, <2>2, <3>2
      <4> QED
        BY <1>1, <2>2, <4>1 DEF StatesAre
    <3>3. CASE t > s
      <4>1. /\ t > gone + 1 /\ t \in 1..Len(loaded')
            /\ t > gone' + 1 \/ (t = gone' + 1 /\ drop' = 1)
        BY <1>2, <1>3, <2>1, <2>2, <3>3
      <4> QED
        BY <1>1, <2>2, <4>1 DEF StatesAre
    <3> QED
      BY <3>1, <3>2, <3>3
  <2>3. CASE t > opened
    BY <1>1, <1>2, <2>3 DEF StatesAre
  <2>4. CASE t \in 1..opened /\ t > Len(loaded)
    BY <1>1, <1>2, <2>4 DEF StatesAre
  <2> QED
    BY <1>2, <2>2, <2>3, <2>4
<1>7. CASE drop = 1
  <2>1. StateMap[s] = "ready" /\ StateMap' = [StateMap EXCEPT ![s] = "stopping"]
    BY <1>4, <1>5, <1>6, <1>7, OneChanges
  <2>2. Lifecycle!Stop(s)
    BY <2>1 DEF Lifecycle!Stop, Lifecycle!Change, StateMap, Using
  <2> QED
    BY <2>2 DEF LifecycleStep, Lifecycle!Next, Lifecycle!Plugins
<1>8. CASE drop = 5
  <2>1. StateMap[s] = "stopping" /\ StateMap' = [StateMap EXCEPT ![s] = "unloaded"]
    BY <1>4, <1>5, <1>6, <1>8, OneChanges
  <2>2. Lifecycle!Unload(s)
    BY <2>1 DEF Lifecycle!Unload, Lifecycle!Change, StateMap, Using
  <2> QED
    BY <2>2 DEF LifecycleStep, Lifecycle!Next, Lifecycle!Plugins
<1>9. CASE drop \in 2..4
  <2>1. StateOf(s)' = StateOf(s)
    BY <1>4, <1>5, <1>9
  <2>2. StateMap' = StateMap
    BY <1>6, <2>1 DEF StateMap
  <2> QED
    BY <2>2 DEF LifecycleStep
<1> QED
  BY <1>2, <1>7, <1>8, <1>9

\* Every step of the main thread is a step of the lifecycle of one plugin, or is
\* not seen.
LEMMA HostMaps ==
  ASSUME TypeOK, HostInv, RuntimeInv, HostTypeOK', HostInv', Host
  PROVE  LifecycleStep
<1>1. HostTypeOK /\ Using = {} /\ UNCHANGED Using
  BY NoHooks DEF TypeOK
<1>2. CASE OpenLibrary
  BY <1>1, <1>2, OpenMaps
<1>3. CASE CloseAbandoned
  BY <1>1, <1>3, CloseMaps
<1>4. CASE GetLibrary \/ ValidateManifest \/ LoadFails
  <2>1. UNCHANGED <<handle, loaded, gone, drop>>
    BY <1>4 DEF GetLibrary, ValidateManifest, LoadFails
  <2> QED
    BY <1>1, <2>1, SameStates DEF LifecycleStep
<1>5. CASE LoadNoFactory
  BY <1>1, <1>5, BlockMaps DEF LoadNoFactory
<1>6. CASE LoadModule
  BY <1>1, <1>6, BlockMaps DEF LoadModule
<1>7. CASE DropNext
  BY <1>1, <1>7, DropMaps
<1>8. CASE SkipPath \/ EnterPath \/ ReadDirFails \/ EntryFails \/ LoadingDone \/ DropDone
  <2>1. UNCHANGED <<handle, loaded, gone, drop>>
    BY <1>8 DEF SkipPath, EnterPath, ReadDirFails, EntryFails, LoadingDone, AtPath,
       DropDone
  <2> QED
    BY <1>1, <2>1, SameStates DEF LifecycleStep
<1> QED
  BY <1>2, <1>3, <1>4, <1>5, <1>6, <1>7, <1>8 DEF Host

\* A call of a plugin's hook is a Call, unless another worker is in a hook of it.
LEMMA EnterMaps ==
  ASSUME TypeOK, HostInv, OnlyExported, RuntimeInv, NEW w \in Workers, EnterHook(w)
  PROVE  LifecycleStep
<1>1. Serves[w] \in Protocols
  BY RuntimeAssumption DEF RuntimeAssumption
<1>2. PICK s \in ToSet(chain[Serves[w]]) : inside' = [inside EXCEPT ![w] = s]
  BY DEF EnterHook
<1>3. phase = "built" /\ run \in {"serving", "exited"}
  <2>1. ~AllEnded
    BY <1>1 DEF EnterHook, AllEnded
  <2> QED
    BY <2>1 DEF TypeOK, RuntimeInv, PluginsHeld
<1>4. s \in 1..Len(loaded) /\ s \in 1..Slots /\ s # 0
  BY <1>1, <1>3, ChainLive
<1>5. StateMap[s] = "ready"
  <2>1. s > gone + 1 \/ (s = gone + 1 /\ drop = 1)
    BY <1>3, <1>4 DEF HostInv, NotDropping
  <2> QED
    BY <1>4, <2>1, StateFacts DEF StatesAre, StateMap, TypeOK
<1>6. Using' = Using \cup {s}
  <2>1. /\ inside[w] = 0 /\ inside'[w] = s
        /\ \A v \in Workers : v # w => inside'[v] = inside[v]
    BY <1>2 DEF EnterHook, TypeOK
  <2> QED
    BY <1>4, <2>1 DEF Using
<1>7. StateMap' = StateMap
  BY SameStates DEF EnterHook, hostVars
<1>8. CASE s \in Using
  BY <1>6, <1>7, <1>8 DEF LifecycleStep
<1>9. CASE s \notin Using
  <2>1. Lifecycle!Call(s)
    BY <1>5, <1>6, <1>7, <1>9 DEF Lifecycle!Call, StateMap, Using
  <2> QED
    BY <1>4, <2>1 DEF LifecycleStep, Lifecycle!Next, Lifecycle!Plugins
<1> QED
  BY <1>8, <1>9

\* A return from a hook is a Return, unless another worker is in one of the plugin.
LEMMA LeaveMaps ==
  ASSUME TypeOK, NEW w \in Workers, LeaveHook(w)
  PROVE  LifecycleStep
<1> PICK s \in 1..Slots : s = inside[w]
  BY PluginHostAssumption DEF TypeOK, LeaveHook, PluginHostAssumption
<1>1. /\ s # 0 /\ inside'[w] = 0
      /\ \A v \in Workers : v # w => inside'[v] = inside[v]
  BY DEF LeaveHook, TypeOK
<1>2. StateMap' = StateMap
  BY SameStates DEF LeaveHook, hostVars
<1>3. CASE \E v \in Workers : v # w /\ inside[v] = s
  <2>1. Using' = Using
    BY <1>1, <1>3 DEF Using
  <2> QED
    BY <1>2, <2>1 DEF LifecycleStep
<1>4. CASE \A v \in Workers : v # w => inside[v] # s
  <2>1. s \in Using /\ Using' = Using \ {s}
    BY <1>1, <1>4 DEF Using
  <2>2. Lifecycle!Return(s)
    BY <1>2, <2>1 DEF Lifecycle!Return, StateMap, Using
  <2> QED
    BY <2>2 DEF LifecycleStep, Lifecycle!Next, Lifecycle!Plugins
<1> QED
  BY <1>3, <1>4

\* The rest of what the runtime does is not seen by a plugin.
LEMMA StepMaps ==
  ASSUME TypeOK, HostInv, OnlyExported, RuntimeInv, HostTypeOK', HostInv', [Next]_vars
  PROVE  LifecycleStep
<1>1. CASE Host
  BY <1>1, HostMaps
<1>2. CASE ServerFails \/ SpawnServices \/ UdpEnds \/ RunReturns \/ ProcessExit
  <2>1. UNCHANGED <<handle, loaded, gone, drop, inside>>
    BY <1>2 DEF ServerFails, SpawnServices, UdpEnds, Become, RunReturns,
       ProcessExit, Release, hostVars
  <2> QED
    BY <2>1, SameStates DEF LifecycleStep, Using
<1>3. ASSUME NEW p \in Protocols, ServiceUp(p) \/ StartPanics(p)
      PROVE  LifecycleStep
  <2>1. UNCHANGED <<handle, loaded, gone, drop, inside>>
    BY <1>3 DEF ServiceUp, StartPanics, Become, hostVars
  <2> QED
    BY <2>1, SameStates DEF LifecycleStep, Using
<1>4. ASSUME NEW w \in Workers, EnterHook(w) \/ LeaveHook(w)
      PROVE  LifecycleStep
  BY <1>4, EnterMaps, LeaveMaps
<1>5. CASE UNCHANGED vars
  BY <1>5, SameStates DEF LifecycleStep, Using, vars, hostVars
<1> QED
  BY <1>1, <1>2, <1>3, <1>4, <1>5 DEF Next

\* What PluginLifecycle promises a plugin holds of the whole runtime: the libraries
\* are opened one after the other, a plugin is called only while it is ready, is not
\* stopped under a hook, and is never opened, stopped or unloaded twice.
THEOREM RefinesLifecycle == Spec => ImplementsLifecycle
<1>1. Init => Lifecycle!Init
  <2> SUFFICES ASSUME Init
               PROVE  Lifecycle!Init
    OBVIOUS
  <2>1. \A s \in 1..Slots : StateOf(s) = "absent"
    BY DEF Init, HostInit, StateOf
  <2>2. Using = {}
    BY DEF Init, Using
  <2> QED
    BY <2>1, <2>2 DEF Lifecycle!Init, Lifecycle!Plugins, Using
<1>2. /\ TypeOK /\ HostInv /\ OnlyExported /\ RuntimeInv
      /\ (TypeOK /\ HostInv)' /\ [Next]_vars
      => [Lifecycle!Next]_<<[s \in 1..Slots |-> StateOf(s)],
                            {inside[w] : w \in Workers} \ {0}>>
  BY StepMaps DEF TypeOK, LifecycleStep, StateMap, Using
<1> QED
  BY <1>1, <1>2, RuntimeInvariance, PTL DEF Spec, ImplementsLifecycle, Lifecycle!Spec
=============================================================================
