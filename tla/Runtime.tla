------------------------------ MODULE Runtime ------------------------------
(***************************************************************************)
(* The runtime from start to end: Runtime::build and Runtime::run of       *)
(* crates/vakil-runtime/src/lib.rs over PluginHost. Once the plugins are   *)
(* loaded, PluginProxyHooks takes copies of their modules, in the order of *)
(* their priorities, and the HTTP, TCP and UDP services call them from     *)
(* their own threads until the process ends.                               *)
(***************************************************************************)
EXTENDS PluginHost, SequencesExt, Listing

CONSTANTS
  Workers,      \* threads and connection tasks that call hooks
  Serves        \* the protocol whose hooks each of them calls

\* Pingora's service has one thread, hooks do not await, and one task runs the UDP
\* hooks. TCP connections are tasks of their own on the threads of tokio's runtime.
RuntimeAssumption ==
  /\ Serves \in [Workers -> Protocols]
  /\ \A v, w \in Workers : Serves[v] = Serves[w] /\ Serves[v] # "tcp" => v = w
ASSUME RuntimeAssumption

VARIABLES
  run,          \* Runtime::run: not called, serving, returned; or exit called
  service,      \* the HTTP, TCP and UDP services of the nursery
  chain,        \* PluginProxyHooks: slots of the modules, per protocol
  inside        \* the slot whose hook a worker is in, 0 if in none

vars == <<hostVars, run, service, chain, inside>>

Init ==
  /\ HostInit
  /\ run = "building"
  /\ service = [p \in Protocols |-> "absent"]
  /\ chain = [p \in Protocols |-> <<>>]
  /\ inside = [w \in Workers |-> 0]

\* Loading and dropping on the main thread
Host == /\ run # "exited"
        /\ \/ SkipPath \/ EnterPath \/ ReadDirFails \/ EntryFails \/ LoadingDone
           \/ OpenLibrary \/ GetLibrary \/ ValidateManifest
           \/ LoadNoFactory \/ LoadModule \/ LoadFails \/ CloseAbandoned
           \/ DropNext \/ DropDone
        /\ UNCHANGED <<run, service, chain, inside>>

-----------------------------------------------------------------------------
(* PluginProxyHooks::from_loaded *)

\* The plugins that have a module for p, as places in the vector
Positions(p) == {i \in DOMAIN loaded : module[loaded[i]][p] = "live"}

\* Mutant: of equal priorities, the later module goes first.
AheadUnstable(p) ==
  [i \in Positions(p) |->
     {j \in Positions(p) :
        \/ priority[loaded[j]][p] < priority[loaded[i]][p]
        \/ priority[loaded[j]][p] = priority[loaded[i]][p] /\ j > i}]

\* sort_by_key is ascending and stable: what goes before the module of each plugin.
Ahead(p) ==
  [i \in Positions(p) |->
     {j \in Positions(p) :
        \/ priority[loaded[j]][p] < priority[loaded[i]][p]
        \/ priority[loaded[j]][p] = priority[loaded[i]][p] /\ j < i}]

Sorted(p) == LET order == Listing(Positions(p), Ahead(p)) IN
             [k \in DOMAIN order |-> loaded[order[k]]]

-----------------------------------------------------------------------------
(* Runtime::run *)

\* Server::new fails: self goes, and the plugins with it.
ServerFails ==
  /\ run = "building" /\ Release
  /\ run' = "returned"
  /\ UNCHANGED <<service, chain, inside>>

\* TCP and UDP are spawned only if their address parses.
SpawnServices ==
  /\ run = "building" /\ phase = "built"
  /\ run' = "serving"
  /\ chain' = [p \in Protocols |-> Sorted(p)]
  /\ \E ps \in SUBSET {"tcp", "udp"} :
       service' = [p \in Protocols |->
                     IF p \in ps \cup {"http"} THEN "starting" ELSE "absent"]
  /\ UNCHANGED <<hostVars, inside>>

Become(p, from, to) == /\ run # "exited" /\ service[p] = from
                       /\ service' = [service EXCEPT ![p] = to]
                       /\ UNCHANGED <<hostVars, run, chain, inside>>

ServiceUp(p) == Become(p, "starting", "running")

\* bind(..).expect / unwrap, or a panic in Pingora before it serves
StartPanics(p) == Become(p, "starting", "ended")

\* run_udp_server returns; it is the task that calls the UDP hooks, so it is in
\* none of them. TCP accepts for ever and run_forever never returns.
UdpEnds == /\ Become("udp", "running", "ended")
           /\ \A w \in Workers : Serves[w] = "udp" => inside[w] = 0

\* A worker of a running service calls a module of its chain.
EnterHook(w) ==
  /\ run # "exited" /\ service[Serves[w]] = "running" /\ inside[w] = 0
  /\ \E s \in ToSet(chain[Serves[w]]) : inside' = [inside EXCEPT ![w] = s]
  /\ UNCHANGED <<hostVars, run, service, chain>>

LeaveHook(w) ==
  /\ run # "exited" /\ inside[w] # 0
  /\ inside' = [inside EXCEPT ![w] = 0]
  /\ UNCHANGED <<hostVars, run, service, chain>>

\* Mutant: run waits for the first service to end only.
FirstEnded == \E p \in Protocols : service[p] = "ended"

AllEnded == \A p \in Protocols : service[p] \in {"absent", "ended"}

\* join_next returned None: run returns Ok and drops the plugins.
RunReturns ==
  /\ run = "serving" /\ AllEnded /\ Release
  /\ run' = "returned"
  /\ UNCHANGED <<service, chain, inside>>

\* A signal: Pingora stops its own threads, with a time limit, and run_forever
\* calls process::exit.
ProcessExit ==
  /\ run = "serving" /\ service["http"] = "running"
  /\ run' = "exited"
  /\ UNCHANGED <<hostVars, service, chain, inside>>

Next ==
  \/ Host \/ ServerFails \/ SpawnServices \/ UdpEnds \/ RunReturns \/ ProcessExit
  \/ \E p \in Protocols : ServiceUp(p) \/ StartPanics(p)
  \/ \E w \in Workers : EnterHook(w) \/ LeaveHook(w)

Spec == Init /\ [][Next]_vars

\* The main thread goes on loading and unloading as long as it can.
FairSpec == Spec /\ WF_vars(Host)

-----------------------------------------------------------------------------
(* Properties *)

\* Every variable stays in its type.
TypeOK ==
  /\ HostTypeOK
  /\ run \in {"building", "serving", "returned", "exited"}
  /\ service \in [Protocols -> {"absent", "starting", "running", "ended"}]
  /\ chain \in [Protocols -> Seq(1..Slots)]
  /\ inside \in [Workers -> 0..Slots]

\* A hook only ever runs in a library that is open, on a module that was
\* initialised and not shut down, with its root alive: PluginProxyHooks holds
\* copies with raw pointers and no handle, so this rests on run waiting for all.
HookOnLiveModule ==
  \A w \in Workers : inside[w] # 0 =>
    /\ handle[inside[w]] = "open" /\ root[inside[w]]
    /\ module[inside[w]][Serves[w]] = "live"

Precedes(p, s, t) == \/ priority[s][p] < priority[t][p]
                     \/ priority[s][p] = priority[t][p] /\ s < t

\* The services run, and ran when the process exits, with exactly the modules of
\* the loaded plugins, in the order of priority and, among equals, of the
\* configured paths.
ChainInOrder ==
  run \in {"serving", "exited"} => \A p \in Protocols :
    /\ ToSet(chain[p]) = {s \in ToSet(loaded) : p \in exports[s]}
    /\ \A i, j \in DOMAIN chain[p] : i < j => Precedes(p, chain[p][i], chain[p][j])

\* Whenever plugins begin to be dropped, all of them are in the end.
TeardownCompletes ==
  phase \in Dropping ~> \A s \in 1..Slots : handle[s] # "open"

\* Seen from a plugin: its place in its life, and whether a hook of it runs
StateOf(s) ==
  IF handle[s] = "closed" THEN "unloaded"
  ELSE IF handle[s] = "none" THEN "absent"
  ELSE IF s \notin ToSet(loaded) THEN "loading"
  ELSE IF drop > 1 /\ s = loaded[gone + 1] THEN "stopping"
  ELSE "ready"

Lifecycle == INSTANCE PluginLifecycle WITH
  state <- [s \in 1..Slots |-> StateOf(s)],
  using <- {inside[w] : w \in Workers} \ {0}

\* Loading, unloading and the services' threads together implement the plugin
\* lifecycle: plugins are stopped only when no hook of theirs runs, and the hooks
\* of a plugin are called only between its load and its stop.
ImplementsLifecycle == Lifecycle!Spec

\* The inductive invariant behind these. run keeps the plugins as long as services
\* may call them; a worker is in a hook only of a service that runs, in a module of
\* its chain, and ChainInOrder says what the chains are.
PluginsHeld ==
  /\ run = "building" => AllEnded /\ phase \notin {"dropping", "stopped"}
  /\ run \in {"serving", "exited"} => phase = "built"
  /\ run = "returned" => AllEnded
HookInChain ==
  \A w \in Workers : inside[w] # 0 =>
    /\ service[Serves[w]] = "running"
    /\ inside[w] \in ToSet(chain[Serves[w]])
RuntimeInv == PluginsHeld /\ HookInChain /\ ChainInOrder

-----------------------------------------------------------------------------
(* What the comment at PluginProxyHooks says and the code does not do *)

\* No two workers are in hooks of one module at the same time.
AccessSerialized ==
  \A v, w \in Workers : v # w /\ Serves[v] = Serves[w] =>
    inside[v] = 0 \/ inside[v] # inside[w]
=============================================================================
