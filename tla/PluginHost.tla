----------------------------- MODULE PluginHost -----------------------------
(***************************************************************************)
(* Loading and unloading plugin libraries: load_plugins of                 *)
(* crates/vakil-runtime/src/lib.rs and LoadedPlugin of                     *)
(* crates/vakil-plugin-host/src/lib.rs.                                    *)
(*                                                                         *)
(* Every library that is opened takes the next slot. The module says what  *)
(* happens to its handle, to the root module the library exported and to   *)
(* the protocol modules it instantiated, on every path: a load that fails  *)
(* half way, the vector of loaded plugins dropped because a later one      *)
(* failed, the vector dropped when the runtime ends.                       *)
(***************************************************************************)
EXTENDS Naturals, Sequences

CONSTANTS
  Configs,      \* plugin_paths: sequences of path entries
  Slots,        \* bound: how many libraries may be opened
  Priorities    \* priorities a module may declare

Protocols == {"http", "tcp", "udp"}
Kinds == {"file", "dir", "unreadable", "missing"}
Entries == [kind : Kinds, files : Nat]

PluginHostAssumption ==
  /\ Configs \subseteq Seq(Entries)
  /\ Slots \in Nat
  /\ Priorities \subseteq Nat
ASSUME PluginHostAssumption

VARIABLES
  phase,      \* where the process is
  plugin_paths,   \* of the RuntimeConfig
  at,         \* how many of them load_plugins has reached
  left,       \* libraries left in the entry it is at
  opened,     \* slots taken so far
  stage,      \* how far LoadedPlugin::load is with the last slot
  handle,     \* library of each slot
  root,       \* PluginRootModule of the slot is alive
  exports,    \* protocols the root module has a factory for
  module,     \* protocol modules of the slot
  priority,   \* their priorities
  loaded,     \* the vector of LoadedPlugin, as slots
  gone,       \* how many of them were dropped
  drop        \* the step of DropOrder the next one is at

hostVars == <<phase, plugin_paths, at, left, opened, stage, handle, root, exports,
              module, priority, loaded, gone, drop>>

Stages == {"idle", "symbol", "manifest", "abandoned"} \cup Protocols
Dropping == {"unwinding", "dropping"}

HostInit ==
  /\ phase = "loading"
  /\ plugin_paths \in Configs /\ at = 0
  /\ left = 0 /\ opened = 0 /\ stage = "idle"
  /\ handle = [s \in 1..Slots |-> "none"]
  /\ root = [s \in 1..Slots |-> FALSE]
  /\ exports = [s \in 1..Slots |-> {}]
  /\ module = [s \in 1..Slots |-> [p \in Protocols |-> "none"]]
  /\ priority = [s \in 1..Slots |-> [p \in Protocols |-> 0]]
  /\ loaded = <<>> /\ gone = 0 /\ drop = 1

-----------------------------------------------------------------------------
(* load_plugins: the loop over the configured paths *)

AtPath(kinds) == /\ phase = "loading" /\ stage = "idle" /\ left = 0
                 /\ at < Len(plugin_paths)
                 /\ plugin_paths[at + 1].kind \in kinds

\* A path that is neither a directory nor a file is passed over.
SkipPath ==
  /\ AtPath({"missing"})
  /\ at' = at + 1
  /\ UNCHANGED <<phase, plugin_paths, left, opened, stage, handle, root,
                 exports, module, priority, loaded, gone, drop>>

EnterPath ==
  /\ AtPath({"file", "dir"})
  /\ at' = at + 1 /\ left' = plugin_paths[at'].files
  /\ UNCHANGED <<phase, plugin_paths, opened, stage, handle, root, exports,
                 module, priority, loaded, gone, drop>>

\* fs::read_dir fails: ? drops the vector.
ReadDirFails ==
  /\ AtPath({"unreadable"})
  /\ phase' = "unwinding"
  /\ UNCHANGED <<plugin_paths, at, left, opened, stage, handle, root, exports,
                 module, priority, loaded, gone, drop>>

\* entry? fails: somewhere in a directory, after its last library too.
EntryFails ==
  /\ phase = "loading" /\ stage = "idle"
  /\ at > 0 /\ plugin_paths[at].kind = "dir"
  /\ phase' = "unwinding"
  /\ UNCHANGED <<plugin_paths, at, left, opened, stage, handle, root, exports,
                 module, priority, loaded, gone, drop>>

\* Mutant: the libraries left in the last directory are not waited for.
NoPathLeft == at = Len(plugin_paths)
AllTried == at = Len(plugin_paths) /\ left = 0

LoadingDone ==
  /\ phase = "loading" /\ stage = "idle" /\ AllTried
  /\ phase' = "built"
  /\ UNCHANGED <<plugin_paths, at, left, opened, stage, handle, root, exports,
                 module, priority, loaded, gone, drop>>

-----------------------------------------------------------------------------
(* LoadedPlugin::load *)

\* Library::new opens the next library, or fails.
OpenLibrary ==
  /\ phase = "loading" /\ stage = "idle" /\ left > 0 /\ opened < Slots
  /\ left' = left - 1
  /\ \/ /\ opened' = opened + 1 /\ stage' = "symbol"
        /\ handle' = [handle EXCEPT ![opened'] = "open"]
        /\ UNCHANGED phase
     \/ /\ phase' = "unwinding"
        /\ UNCHANGED <<opened, stage, handle>>
  /\ UNCHANGED <<plugin_paths, at, root, exports, module, priority, loaded,
                 gone, drop>>

\* Err leaves load: of its locals, root goes first.
Abandon == /\ stage' = "abandoned"
           /\ root' = [root EXCEPT ![opened] = FALSE]

\* Mutant: a failed load leaves the vector of loaded plugins in place.
CloseLast == /\ stage = "abandoned"
             /\ phase' = "failed" /\ stage' = "idle"
             /\ handle' = [handle EXCEPT ![opened] = "closed"]
             /\ UNCHANGED <<plugin_paths, at, left, opened, root, exports,
                            module, priority, loaded, gone, drop>>

\* And library last; then ? drops the vector.
CloseAbandoned ==
  /\ stage = "abandoned"
  /\ phase' = "unwinding" /\ stage' = "idle"
  /\ handle' = [handle EXCEPT ![opened] = "closed"]
  /\ UNCHANGED <<plugin_paths, at, left, opened, root, exports, module,
                 priority, loaded, gone, drop>>

GetLibrary ==
  /\ stage = "symbol"
  /\ \/ /\ stage' = "manifest"
        /\ root' = [root EXCEPT ![opened] = TRUE]
        /\ \E ps \in SUBSET Protocols :
             exports' = [exports EXCEPT ![opened] = ps]
     \/ Abandon /\ UNCHANGED exports
  /\ UNCHANGED <<phase, plugin_paths, at, left, opened, handle, module,
                 priority, loaded, gone, drop>>

ValidateManifest ==
  /\ stage = "manifest"
  /\ \/ stage' = "http" /\ UNCHANGED root
     \/ Abandon
  /\ UNCHANGED <<phase, plugin_paths, at, left, opened, handle, exports,
                 module, priority, loaded, gone, drop>>

\* load_block! for http, tcp and udp in turn; after udp the plugin is loaded.
NextStage(p) == CASE p = "http" -> "tcp"
                  [] p = "tcp" -> "udp"
                  [] OTHER -> "idle"
\* Mutant: the plugin is pushed under the slot before it.
BlockDoneOffByOne == /\ stage' = NextStage(stage)
                     /\ loaded' = IF stage = "udp" THEN Append(loaded, opened - 1)
                                  ELSE loaded
                     /\ UNCHANGED <<phase, handle, root>>

BlockDone == /\ stage' = NextStage(stage)
             /\ loaded' = IF stage = "udp" THEN Append(loaded, opened)
                          ELSE loaded
             /\ UNCHANGED <<phase, handle, root>>

LoadNoFactory ==
  /\ stage \in Protocols /\ stage \notin exports[opened]
  /\ BlockDone
  /\ UNCHANGED <<plugin_paths, at, left, opened, exports, module, priority,
                 gone, drop>>

LoadModule ==
  /\ stage \in Protocols /\ stage \in exports[opened]
  /\ BlockDone
  /\ module' = [module EXCEPT ![opened][stage] = "live"]
  /\ \E n \in Priorities :
       priority' = [priority EXCEPT ![opened][stage] = n]
  /\ UNCHANGED <<plugin_paths, at, left, opened, exports, gone, drop>>

\* The factory or init returns Err: the blocks before it are not undone.
LoadFails ==
  /\ stage \in Protocols /\ stage \in exports[opened]
  /\ Abandon
  /\ UNCHANGED <<phase, plugin_paths, at, left, opened, handle, exports,
                 module, priority, loaded, gone, drop>>

-----------------------------------------------------------------------------
(* Drop for LoadedPlugin, for each element of the vector from its front:   *)
(* shutdown of http, tcp and udp, then the fields as they are declared.    *)

\* Mutants: the library is declared before root; shutdown forgets udp; the library
\* is never closed.
LibraryFirst == <<"http", "tcp", "udp", "library", "root">>
ForgetUdp == <<"http", "tcp", "root", "root", "library">>
KeepLibrary == <<"http", "tcp", "udp", "root", "root">>

DropOrder == <<"http", "tcp", "udp", "root", "library">>

DropNext ==
  /\ phase \in Dropping /\ gone < Len(loaded)
  /\ LET s == loaded[gone + 1]
         what == DropOrder[drop] IN
       /\ module' = [module EXCEPT ![s] =
            [p \in Protocols |-> IF p = what /\ @[p] = "live" THEN "down"
                                 ELSE @[p]]]
       /\ root' = [root EXCEPT ![s] = IF what = "root" THEN FALSE ELSE @]
       /\ handle' = [handle EXCEPT ![s] = IF what = "library" THEN "closed"
                                          ELSE @]
  /\ drop' = IF drop = Len(DropOrder) THEN 1 ELSE drop + 1
  /\ gone' = IF drop = Len(DropOrder) THEN gone + 1 ELSE gone
  /\ UNCHANGED <<phase, plugin_paths, at, left, opened, stage, exports,
                 priority, loaded>>

DropDone ==
  /\ phase \in Dropping /\ gone = Len(loaded)
  /\ phase' = IF phase = "unwinding" THEN "failed" ELSE "stopped"
  /\ UNCHANGED <<plugin_paths, at, left, opened, stage, handle, root, exports,
                 module, priority, loaded, gone, drop>>

\* The runtime lets go of the plugins: Server::new failed, or run returned.
Release ==
  /\ phase = "built"
  /\ phase' = "dropping"
  /\ UNCHANGED <<plugin_paths, at, left, opened, stage, handle, root, exports,
                 module, priority, loaded, gone, drop>>

HostNext ==
  \/ SkipPath \/ EnterPath \/ ReadDirFails \/ EntryFails \/ LoadingDone
  \/ OpenLibrary \/ GetLibrary \/ ValidateManifest
  \/ LoadNoFactory \/ LoadModule \/ LoadFails \/ CloseAbandoned
  \/ DropNext \/ DropDone \/ Release

HostSpec == HostInit /\ [][HostNext]_hostVars

-----------------------------------------------------------------------------
(* Properties *)

\* Every variable of the host stays in its type.
HostTypeOK ==
  /\ phase \in {"loading", "unwinding", "failed", "built", "dropping", "stopped"}
  /\ plugin_paths \in Seq(Entries) /\ at \in 0..Len(plugin_paths)
  /\ left \in Nat /\ opened \in 0..Slots
  /\ stage \in Stages
  /\ handle \in [1..Slots -> {"none", "open", "closed"}]
  /\ root \in [1..Slots -> BOOLEAN]
  /\ exports \in [1..Slots -> SUBSET Protocols]
  /\ module \in [1..Slots -> [Protocols -> {"none", "live", "down"}]]
  /\ priority \in [1..Slots -> [Protocols -> Priorities \cup {0}]]
  /\ loaded \in Seq(1..Slots)
  /\ gone \in 0..Len(loaded) /\ drop \in 1..Len(DropOrder)

\* A closed library has no root module left whose destructor would run in it,
\* on every way out of load and of Drop.
NoRootAfterClose == \A s \in 1..Slots : handle[s] = "closed" => ~root[s]

\* A plugin that was loaded completely is never unloaded, in a failed startup or
\* at the end, before all its modules were shut down.
LoadedShutDownFirst ==
  \A i \in 1..Len(loaded) : handle[loaded[i]] = "closed" =>
    \A p \in Protocols : module[loaded[i]][p] # "live"

\* A startup that fails and a run that returns leave no library open.
NothingLeftOpen ==
  phase \in {"failed", "stopped"} => \A s \in 1..Slots : handle[s] # "open"

\* A runtime is built only over paths that could be read, with every library they
\* name loaded, in the order of the paths, and open with its exported modules
\* initialised. Paths that do not exist are left out: the code passes over them,
\* although docs/ABI.md:38 calls a path that cannot be loaded a startup error.
BuiltWithAllLoaded ==
  phase = "built" =>
    /\ at = Len(plugin_paths) /\ left = 0
    /\ \A i \in 1..Len(plugin_paths) :
         plugin_paths[i].kind \in {"file", "dir", "missing"}
    /\ loaded = [i \in 1..opened |-> i]
    /\ \A s \in 1..opened : /\ handle[s] = "open" /\ root[s]
                            /\ \A p \in exports[s] : module[s][p] = "live"

\* The inductive invariant behind these. Slots are loaded in order; a slot that is
\* being loaded is open and follows the loaded ones; up to the drop, every loaded
\* slot is open with its modules live; a drop has passed the slots before gone,
\* is at step drop of the next one and has not touched the rest.
InOrder == /\ \A i \in 1..Len(loaded) : loaded[i] = i
           /\ Len(loaded) <= opened /\ opened <= Len(loaded) + 1
           /\ phase \in {"built", "dropping", "stopped"} => Len(loaded) = opened
           /\ phase = "loading" /\ stage = "idle" => Len(loaded) = opened
LoadingOpen == stage # "idle" => /\ phase = "loading" /\ opened = Len(loaded) + 1
                                 /\ handle[opened] = "open"
                                 /\ root[opened] <=>
                                      stage \notin {"symbol", "abandoned"}
ExportsLive ==
  stage # "idle" => \A p \in exports[opened] :
    (p = "http" /\ stage \in {"tcp", "udp"}) \/ (p = "tcp" /\ stage = "udp")
      => module[opened][p] = "live"
Untouched == \A s \in 1..Slots : s > opened => handle[s] = "none" /\ ~root[s]
Kept == \A s \in 1..Len(loaded) : (gone + 1 < s \/ (gone + 1 = s /\ drop = 1)) =>
          /\ handle[s] = "open" /\ root[s]
          /\ \A p \in exports[s] : module[s][p] = "live"
StepOf(p) == CASE p = "http" -> 1 [] p = "tcp" -> 2 [] OTHER -> 3
DroppedSteps ==
  /\ \A s \in 1..Len(loaded) : s <= gone => handle[s] = "closed" /\ ~root[s]
  /\ gone < Len(loaded) => /\ handle[gone + 1] = "open"
                           /\ root[gone + 1] <=> drop < 5
  /\ \A s \in 1..Len(loaded) : \A p \in Protocols :
       s <= gone \/ (s = gone + 1 /\ StepOf(p) < drop) => module[s][p] # "live"
NotDropping ==
  /\ phase \in {"loading", "built"} => gone = 0 /\ drop = 1
  /\ phase \in {"failed", "stopped"} => gone = Len(loaded)
  /\ gone = Len(loaded) => drop = 1
  /\ phase \in {"failed", "unwinding"} =>
       \A s \in 1..opened : s > Len(loaded) => handle[s] = "closed" /\ ~root[s]
  /\ phase = "built" => at = Len(plugin_paths) /\ left = 0
HostInv == /\ InOrder /\ LoadingOpen /\ ExportsLive /\ Untouched /\ Kept
           /\ DroppedSteps /\ NotDropping

\* A load that has not failed was stopped by none of the paths it reached.
PathsRead == phase \in {"loading", "built"} =>
               \A i \in 1..at : plugin_paths[i].kind # "unreadable"

\* A module is of a protocol its library exports, and is created by the last steps
\* of a load only.
OnlyExported ==
  \A s \in 1..Slots : \A p \in Protocols : module[s][p] # "none" =>
    p \in exports[s] /\ s <= opened /\ (stage = "symbol" => s # opened)

-----------------------------------------------------------------------------
(* What docs/ABI.md says and the code does not do *)

\* Every module that was initialised is shut down before its library goes.
ShutdownBeforeUnload ==
  \A s \in 1..Slots : handle[s] = "closed" =>
    \A p \in Protocols : module[s][p] # "live"
=============================================================================
