----------------------------- MODULE MCUdpFlow -----------------------------
(* UdpFlow with chains of up to two modules. *)
EXTENDS UdpFlow

MCChains == { <<>>, <<{"on_session_start", "on_datagram", "on_session_end"}>>, <<{}, {"on_session_start", "on_datagram", "on_session_end"}>> }
=============================================================================
