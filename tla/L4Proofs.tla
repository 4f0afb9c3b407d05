------------------------------ MODULE L4Proofs ------------------------------
(***************************************************************************)
(* What the two L4 services can never do, whatever the plugins of their    *)
(* chains return: every hook is given a clone of the context the upstream  *)
(* is then read from. This is why the models end where the relay begins.   *)
(***************************************************************************)
EXTENDS UdpFlow, TLAPS

CONSTANT Conns

VARIABLES tcp_modules, tcp_pc, tcp_at, tcp_context, tcp_copy

Tcp == INSTANCE TcpFlow WITH
  chain <- tcp_modules, pc <- tcp_pc, at <- tcp_at, context <- tcp_context,
  copy <- tcp_copy

\* A connection waits, is before its plugins, or was refused.
NeverRelayed == /\ tcp_context = [c \in Conns |-> None]
                /\ tcp_pc \in [Conns -> {"listening", "init", "refused"}]

\* TcpProxyService::serve refuses every connection its plugins have seen: none gets
\* as far as rama's connect, so tcp_transfer and tcp_connection_close never run.
THEOREM TcpNeverRelays == Tcp!Spec => []NeverRelayed
<1>1. Tcp!Init => NeverRelayed
  BY DEF Tcp!Init, NeverRelayed
<1>2. NeverRelayed /\ [Tcp!Next]_(Tcp!vars) => NeverRelayed'
  <2> SUFFICES ASSUME NeverRelayed, [Tcp!Next]_(Tcp!vars)
               PROVE  NeverRelayed'
    OBVIOUS
  <2> USE DEF NeverRelayed
  <2>1. ASSUME NEW c \in Conns, Tcp!Serve(c)
        PROVE  NeverRelayed'
    BY <2>1 DEF Tcp!Serve, Tcp!Goto
  <2>2. ASSUME NEW c \in Conns, Tcp!InitModule(c)
        PROVE  NeverRelayed'
    BY <2>2 DEF Tcp!InitModule
  <2>3. ASSUME NEW c \in Conns, Tcp!SelectUpstream(c)
        PROVE  NeverRelayed'
    BY <2>3 DEF Tcp!SelectUpstream, Tcp!Goto
  <2>4. ASSUME NEW c \in Conns, Tcp!Connect(c)
        PROVE  NeverRelayed'
    BY <2>4 DEF Tcp!Connect, Tcp!Goto
  <2>5. CASE UNCHANGED Tcp!vars
    BY <2>5 DEF Tcp!vars
  <2> QED
    BY <2>1, <2>2, <2>3, <2>4, <2>5 DEF Tcp!Next
<1> QED
  BY <1>1, <1>2, PTL DEF Tcp!Spec

\* Nothing is sent, and once a datagram was received the hooks it is for are the
\* last ones called before the service ends; no second one is received.
FirstIsLast ==
  /\ context = None /\ sent = <<>>
  /\ pc \in {"session_start", "receive", "datagram", "select", "session_close",
             "closed", "failed", "refused"}
  /\ received = IF pc \in {"datagram", "select", "refused"} THEN 1 ELSE 0

\* UdpProxyService::serve forwards no datagram of any peer, and the first one that
\* is not empty ends the service for all of them.
THEOREM UdpEndsAtFirst == Spec => []FirstIsLast
<1>1. Init => FirstIsLast
  BY DEF Init, FirstIsLast
<1>2. FirstIsLast /\ [Next]_vars => FirstIsLast'
  <2> SUFFICES ASSUME FirstIsLast, [Next]_vars
               PROVE  FirstIsLast'
    OBVIOUS
  <2> USE DEF FirstIsLast
  <2>1. CASE CallModule
    BY <2>1 DEF CallModule
  <2>2. CASE HooksDone
    BY <2>2 DEF HooksDone, HookOf, AfterHooks
  <2>3. CASE ReceiveEmpty \/ ReceiveFails
    BY <2>3 DEF ReceiveEmpty, ReceiveFails
  <2>4. CASE SelectUpstream
    BY <2>4 DEF SelectUpstream
  <2>5. ASSUME NEW p \in Peers, Receive(p)
        PROVE  FirstIsLast'
    BY <2>5 DEF Receive
  <2>6. CASE UNCHANGED vars
    BY <2>6 DEF vars
  <2> QED
    BY <2>1, <2>2, <2>3, <2>4, <2>5, <2>6 DEF Next
<1> QED
  BY <1>1, <1>2, PTL DEF Spec
=============================================================================
