--------------------------- MODULE PluginLifecycle ---------------------------
(***************************************************************************)
(* What a plugin may rely on, whatever the host does to load it and        *)
(* whichever threads call it: its library is loaded, becomes ready, is     *)
(* stopped and goes, in this order; hooks are called only while it is      *)
(* ready, and it is not stopped under a hook. Runtime implements this.     *)
(***************************************************************************)
EXTENDS Naturals

CONSTANT Slots

VARIABLES state,    \* where the plugin in each slot is
          using     \* plugins with a hook running

Plugins == 1..Slots

Init == /\ state = [s \in Plugins |-> "absent"]
        /\ using = {}

Change(s, from, to) == /\ state[s] = from
                       /\ state' = [state EXCEPT ![s] = to]
                       /\ UNCHANGED using

\* One library is loaded at a time, in the order of the slots.
Open(s) == /\ \A t \in Plugins : t < s => state[t] = "ready"
           /\ Change(s, "absent", "loading")
Ready(s) == Change(s, "loading", "ready")
Fail(s) == Change(s, "loading", "unloaded")
Stop(s) == s \notin using /\ Change(s, "ready", "stopping")
Unload(s) == Change(s, "stopping", "unloaded")

Call(s) == /\ state[s] = "ready" /\ s \notin using
           /\ using' = using \cup {s}
           /\ UNCHANGED state
Return(s) == /\ s \in using
             /\ using' = using \ {s}
             /\ UNCHANGED state

Next == \E s \in Plugins :
          Open(s) \/ Ready(s) \/ Fail(s) \/ Stop(s) \/ Unload(s) \/ Call(s) \/ Return(s)

Spec == Init /\ [][Next]_<<state, using>>
=============================================================================
