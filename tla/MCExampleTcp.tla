---------------------------- MODULE MCExampleTcp ----------------------------
(* ExampleTcp with the sticky plugin alone and in front of the no-op plugin. *)
EXTENDS ExampleTcp

MCPluginChains == {<<"sticky">>, <<"sticky", "noop">>}
MCChains == {[i \in DOMAIN p |-> Implements[p[i]]] : p \in MCPluginChains}
=============================================================================
