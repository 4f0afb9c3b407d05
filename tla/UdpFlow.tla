------------------------------- MODULE UdpFlow -------------------------------
(***************************************************************************)
(* UdpProxyService::serve of crates/vakil-l4/src/lib.rs over the plugin    *)
(* chain of crates/vakil-runtime/src/l4.rs: one session for the socket,    *)
(* whose context the datagrams of all peers share.                         *)
(***************************************************************************)
EXTENDS Naturals, Sequences

CONSTANTS
  Peers,        \* senders of datagrams
  Chains,       \* sequences of sets of implemented hooks
  Upstreams,    \* addresses a plugin may select
  None,         \* no upstream selected, no sender
  MaxDatagrams  \* bound: datagrams received

VARIABLES
  chain,        \* udp_modules
  pc,           \* where serve is
  at,           \* the module the running hook loop has reached
  context,      \* udp_ctx.meta.route.upstream_to_set
  current,      \* the same of curr_ctx, and the sender of its datagram
  received,     \* datagrams received
  sent          \* datagrams sent upstream: sender and address

vars == <<chain, pc, at, context, current, received, sent>>

Init ==
  /\ chain \in Chains
  /\ pc = "session_start" /\ at = 1
  /\ context = None
  /\ current = [upstream |-> None, peer |-> None]
  /\ received = 0 /\ sent = <<>>

HookOf == [session_start |-> "on_session_start", datagram |-> "on_datagram",
           session_close |-> "on_session_end"]

\* What follows when every module was called. After udp_session_start the clone
\* it was given is gone, and curr_ctx is a new one.
AfterHooks == [session_start |-> "receive", datagram |-> "select",
               session_close |-> "closed"]

CallModule ==
  /\ pc \in DOMAIN HookOf /\ at \in 1..Len(chain)
  /\ \E r \in (IF HookOf[pc] \in chain[at] THEN Upstreams \cup {None}
               ELSE {current.upstream}) :
       current' = [current EXCEPT !.upstream = r]
  /\ at' = at + 1
  /\ UNCHANGED <<chain, pc, context, received, sent>>

HooksDone ==
  /\ pc \in DOMAIN HookOf /\ at = Len(chain) + 1
  /\ pc' = AfterHooks[pc] /\ at' = 1
  /\ current' = IF pc = "session_start" THEN [current EXCEPT !.upstream = context]
                ELSE current
  /\ UNCHANGED <<chain, context, received, sent>>

Receive(p) ==
  /\ pc = "receive" /\ received < MaxDatagrams
  /\ received' = received + 1
  /\ current' = [current EXCEPT !.peer = p]
  /\ pc' = "datagram"
  /\ UNCHANGED <<chain, at, context, sent>>

\* An empty datagram, from whichever peer, ends the loop; a receive error ends
\* the service.
ReceiveEmpty == /\ pc = "receive" /\ pc' = "session_close"
                /\ UNCHANGED <<chain, at, context, current, received, sent>>
ReceiveFails == /\ pc = "receive" /\ pc' = "failed"
                /\ UNCHANGED <<chain, at, context, current, received, sent>>

\* The upstream is read from udp_ctx, which no hook was given.
SelectUpstream ==
  /\ pc = "select"
  /\ IF context = None THEN pc' = "refused" /\ UNCHANGED sent
     ELSE /\ pc' = "receive"
          /\ sent' = Append(sent, [peer |-> current.peer, to |-> context])
  /\ UNCHANGED <<chain, at, context, current, received>>

Next ==
  \/ CallModule \/ HooksDone \/ ReceiveEmpty \/ ReceiveFails \/ SelectUpstream
  \/ \E p \in Peers : Receive(p)

Spec == Init /\ [][Next]_vars

\* A datagram the plugins routed does not end the service for want of a route.
UdpRouteHonoured ==
  pc = "refused" => current.upstream = None
=============================================================================
