------------------------------- MODULE HttpErr -------------------------------
(***************************************************************************)
(* HttpFlow with a record of the hooks' errors, for what docs/ABI.md says  *)
(* about them. HttpFlow itself cannot tell Err from Continue, as the code. *)
(***************************************************************************)
EXTENDS HttpFlow

VARIABLE failed   \* history: a hook of the chain returned Err

ErrInit == Init /\ failed = FALSE

ErrNext ==
  \/ \E c \in Touched(ctx), o \in Outcomes :
       Hook(c, o) /\ failed' = (failed \/ o = "Err")
  \/ HostStep /\ UNCHANGED failed

ErrSpec == ErrInit /\ [][ErrNext]_<<vars, failed>>

\* An Err from any hook fails the chain for the flow: the request is not
\* forwarded afterwards.
ErrFailsChain == [][failed => UNCHANGED forwarded]_<<vars, failed>>
=============================================================================
