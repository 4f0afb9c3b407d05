------------------------------ MODULE Listing ------------------------------
(***************************************************************************)
(* The elements of a finite set, listed in a given order: what is left of  *)
(* sort_by_key and of Iterator::filter when only the order of their result *)
(* counts. It is defined by counting and not by recursion.                 *)
(***************************************************************************)
EXTENDS Naturals, FiniteSets

\* before[x]: the elements of S that go before x. At place k, the element with k - 1
\* others before it.
Listing(S, before) ==
  [k \in 1..Cardinality(S) |-> CHOOSE x \in S : Cardinality(before[x]) = k - 1]

\* Of two elements one is before the other, and none before itself.
Orders(before, S) ==
  /\ \A x \in S : before[x] \subseteq S /\ x \notin before[x]
  /\ \A x, y \in S : x # y => x \in before[y] \/ y \in before[x]
  /\ \A x, y, z \in S : x \in before[y] /\ y \in before[z] => x \in before[z]
=============================================================================
