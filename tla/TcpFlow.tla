------------------------------- MODULE TcpFlow -------------------------------
(***************************************************************************)
(* TCP connections in TcpProxyService::serve of crates/vakil-l4/src/lib.rs *)
(* over the plugin chain of crates/vakil-runtime/src/l4.rs, up to the      *)
(* relay. Each connection is a task of its own; the hooks get a clone of   *)
(* the connection's context.                                               *)
(***************************************************************************)
EXTENDS Naturals, Sequences

CONSTANTS
  Conns,        \* connections
  Chains,       \* sequences of sets of implemented hooks
  Upstreams,    \* addresses a plugin may select
  None          \* no upstream selected

VARIABLES
  chain,        \* tcp_modules
  pc,           \* where serve is, per connection
  at,           \* the module tcp_connection_init has reached
  context,      \* tcp_ctx.meta.route.upstream_to_set
  copy          \* the same of the clone tcp_connection_init was given

vars == <<chain, pc, at, context, copy>>

Init ==
  /\ chain \in Chains
  /\ pc = [c \in Conns |-> "listening"]
  /\ at = [c \in Conns |-> 1]
  /\ context = [c \in Conns |-> None]
  /\ copy = [c \in Conns |-> None]

Goto(c, from, to) == pc[c] = from /\ pc' = [pc EXCEPT ![c] = to]

\* A connection is accepted: its context has the default route.
Serve(c) ==
  /\ Goto(c, "listening", "init")
  /\ copy' = [copy EXCEPT ![c] = context[c]]
  /\ UNCHANGED <<chain, at, context>>

\* tcp_connection_init: on_route, then on_connect of one module; what they return
\* is discarded.
InitModule(c) ==
  /\ pc[c] = "init" /\ at[c] \in 1..Len(chain)
  /\ \E r \in (IF chain[at[c]] \cap {"on_route", "on_connect"} = {}
                 THEN {copy[c]} ELSE Upstreams \cup {None}) :
       copy' = [copy EXCEPT ![c] = r]
  /\ at' = [at EXCEPT ![c] = @ + 1]
  /\ UNCHANGED <<chain, pc, context>>

\* The clone is gone; the upstream is read from the context itself. An error
\* leaves serve here, before any on_close.
SelectUpstream(c) ==
  /\ at[c] = Len(chain) + 1
  /\ Goto(c, "init", IF context[c] = None THEN "refused" ELSE "connecting")
  /\ UNCHANGED <<chain, at, context, copy>>

\* rama's connect, with the two tcp_transfer and tcp_connection_close behind it
Connect(c) ==
  /\ \/ Goto(c, "connecting", "relaying")
     \/ Goto(c, "connecting", "unreachable")
  /\ UNCHANGED <<chain, at, context, copy>>

Next == \E c \in Conns :
          Serve(c) \/ InitModule(c) \/ SelectUpstream(c) \/ Connect(c)

Spec == Init /\ [][Next]_vars

\* A connection for which the plugins selected an upstream is not refused for
\* want of one.
TcpRouteHonoured == \A c \in Conns : pc[c] = "refused" => copy[c] = None
=============================================================================
