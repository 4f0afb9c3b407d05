----------------------------- MODULE ExampleTcp -----------------------------
(***************************************************************************)
(* The TCP plugins of the repository in the chain of TcpFlow:              *)
(* plugins/example-noop, which reads the payload in every callback, and    *)
(* plugins/example-l4-sticky, whose callbacks leave everything as it is.   *)
(***************************************************************************)
EXTENDS TcpFlow

CONSTANTS
  PluginChains  \* sequences of names of plugins: of elements of DOMAIN Implements

Implements == [p \in {"noop", "sticky"} |->
                 {"on_connect", "on_data", "on_half_close", "on_close"}]

VARIABLES
  plugins,      \* the plugins of the chain
  chunk,        \* TCPContext.chunk, per connection
  process       \* of the whole proxy: running or aborted

ExampleInit ==
  /\ plugins \in PluginChains
  /\ Init /\ chain = [i \in DOMAIN plugins |-> Implements[plugins[i]]]
  /\ chunk = [c \in Conns |-> None]
  /\ process = "running"

-----------------------------------------------------------------------------
(* on_connect of one plugin *)

\* sticky_on_tcp_connect, and example_on_tcp_event with a payload: Continue
HookReturns(c) ==
  /\ pc[c] = "init" /\ at[c] \in 1..Len(chain)
  /\ plugins[at[c]] = "noop" => chunk[c] # None
  /\ InitModule(c) /\ copy' = copy
  /\ UNCHANGED <<plugins, chunk, process>>

\* example_on_tcp_event unwraps the payload; a panic cannot leave an extern "C"
\* function.
NoopPanics(c) ==
  /\ pc[c] = "init" /\ at[c] \in 1..Len(chain)
  /\ plugins[at[c]] = "noop" /\ chunk[c] = None
  /\ process' = "aborted"
  /\ UNCHANGED <<vars, plugins, chunk>>

\* The rest of serve; no payload is read before the relay.
Host(c) == /\ Serve(c) \/ SelectUpstream(c)
           /\ UNCHANGED <<plugins, chunk, process>>

ExampleNext ==
  process = "running" /\ \E c \in Conns : HookReturns(c) \/ NoopPanics(c) \/ Host(c)

ExampleSpec == ExampleInit /\ [][ExampleNext]_<<vars, plugins, chunk, process>>

-----------------------------------------------------------------------------
(* What vakil-plugin-api demands of plugins *)

\* No callback of a plugin of the repository panics, whatever chain it is in and
\* whichever connections are open beside: the host catches no panic.
NoHookPanics == process # "aborted"
=============================================================================
