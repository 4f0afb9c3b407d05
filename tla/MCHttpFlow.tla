----------------------------- MODULE MCHttpFlow -----------------------------
(* HttpFlow on chains of up to two modules, with two upstreams, two attempts *)
(* and two request chunks.                                                   *)
EXTENDS HttpFlow

\* No plugin at all; a module that may answer in front of one that also answers and
\* routes; a plugin that routes and is shown the request body.
MCChains == { <<>>,
              <<{"on_request_headers"},
                {"on_route", "on_request_headers", "on_local_reply"}>>,
              <<{"on_route", "on_request_body"}>> }

\* A hook may empty the body: it has used the chunk it was shown.
MCBodies == {<<>>}
=============================================================================
