------------------------------ MODULE MCHttpErr ------------------------------
(* HttpErr with one plugin that routes and one that sees the headers. *)
EXTENDS HttpErr

MCChains == { <<{"on_route"}>>, <<{"on_request_headers"}, {"on_route"}>> }
=============================================================================
