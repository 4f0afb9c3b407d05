---------------------------- MODULE MCExampleHttp ----------------------------
(* ExampleHttp with each plugin alone and with both, in both orders; two    *)
(* attempts, three numbers for other requests, one host without an address. *)
EXTENDS ExampleHttp

CONSTANTS pc

MCChains == {<<Mw>>, <<Noop>>, <<Mw, Noop>>, <<Noop, Mw>>}
MCPaths == {pc} \cup 0..MaxCount
=============================================================================
