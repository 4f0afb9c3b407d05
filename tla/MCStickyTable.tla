---------------------------- MODULE MCStickyTable ----------------------------
(* StickyTable with two modules, two callers, two listeners and two clients:  *)
(* pools that overlap, names that differ in blanks only.                      *)
EXTENDS StickyTable, TLC

CONSTANTS a, a_blank, b, blank, u1, u2, ip1, ip2

MCTrim == [r \in {a, a_blank, b, blank, u1, u2} |->
             CASE r = a_blank -> a [] r = blank -> Empty [] OTHER -> r]
MCHash == [k \in Keys |-> IF k.listener = a THEN 2
                          ELSE IF k.client_ip = ip1 THEN 3 ELSE 0]

MCFile(ttl, fallback, ls) ==
  [ttl_secs |-> ttl, fallback_backends |-> fallback, listeners |-> ls]
MCPool(name, backends) == [name |-> name, backends |-> backends]

\* A pool and a fallback; two names that are one; an empty pool beside another;
\* a TTL that overflows, one that is zero; a blank backend; nothing at all; no file.
MCFiles == { MCFile(1, <<u2, u1>>, <<MCPool(a_blank, <<u1, u2>>)>>),
             MCFile(1, <<>>, <<MCPool(a, <<u1>>), MCPool(a_blank, <<u2>>)>>),
             MCFile(2, <<>>, <<MCPool(a, <<>>), MCPool(b, <<u1, u2>>)>>),
             MCFile(9, <<u1>>, <<>>),
             MCFile(1, <<blank>>, <<>>),
             MCFile(0, <<u1>>, <<>>),
             MCFile(1, <<>>, <<>>),
             None }

MCSymmetry == Permutations(Threads)
=============================================================================
