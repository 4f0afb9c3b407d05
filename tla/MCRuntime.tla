----------------------------- MODULE MCRuntime -----------------------------
(* Runtime with up to two libraries and one worker for each protocol, or, in  *)
(* MCAccessSerialized, two TCP connections.                                   *)
EXTENDS Runtime

CONSTANTS h1, t1, t2, d1

MCServes == [w \in Workers |-> CASE w = h1 -> "http"
                                  [] w \in {t1, t2} -> "tcp" [] w = d1 -> "udp"]

MCFile == [kind |-> "file", files |-> 1]
MCDir == [kind |-> "dir", files |-> 2]
MCMissing == [kind |-> "missing", files |-> 0]
MCUnreadable == [kind |-> "unreadable", files |-> 0]

MCConfigs == { <<MCFile, MCMissing, MCFile>>, <<MCDir>>, <<MCFile, MCUnreadable>> }
=============================================================================
