--------------------------- MODULE MCRuntimeConfig ---------------------------
(* RuntimeConfig on every file of up to three lines out of nine, named on the *)
(* command line or, for three of them, by the environment.                    *)
EXTENDS RuntimeConfig

CONSTANTS addr1, addr2, noaddr, tcp, udp, p1, p2

MCLine(kind, value) == [kind |-> kind, value |-> value]

MCLines == {MCLine(k, <<>>) : k \in LineKinds \ {"http_listen_addr",
                                                 "plugin_paths"}}
  \cup {MCLine("http_listen_addr", v) : v \in {addr1, noaddr}}
  \cup {MCLine("plugin_paths", v) : v \in {<<Blank>>, <<p1>>, <<p1, Blank>>}}

MCConfigFiles == {None} \cup BoundedSeq(MCLines, 3)
MCEnvFiles == {Unset, None, <<MCLine("plugin_paths", <<p2>>)>>}

MCEnvironments ==
  {[http_listen_addr |-> addr2, tcp_listen_addr |-> tcp,
    udp_listen_addr |-> udp, plugin_paths |-> v] :
     v \in {<<Blank>>, <<p2, Blank, p1>>}}
=============================================================================
