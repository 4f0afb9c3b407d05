----------------------------- MODULE MCTcpFlow -----------------------------
(* TcpFlow with chains of up to two modules. *)
EXTENDS TcpFlow

MCChains == { <<>>, <<{"on_route", "on_connect"}>>, <<{}, {"on_route", "on_connect"}>> }
=============================================================================
