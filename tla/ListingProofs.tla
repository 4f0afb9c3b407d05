--------------------------- MODULE ListingProofs ---------------------------
(***************************************************************************)
(* A listing has every element of the set once, in the order asked for.    *)
(* The counts of the elements before one are all different, for they grow  *)
(* along the order, and there are as many counts as elements.              *)
(***************************************************************************)
EXTENDS Listing, FiniteSetTheorems, TLAPS

\* How many elements can be before one.
LEMMA BeforeCount ==
  ASSUME NEW S, IsFiniteSet(S), NEW before, Orders(before, S), NEW x \in S
  PROVE  /\ before[x] \subseteq S /\ x \notin before[x]
         /\ IsFiniteSet(before[x]) /\ Cardinality(before[x]) \in Nat
         /\ Cardinality(S) \in Nat
         /\ Cardinality(before[x]) \in 0..Cardinality(S) - 1
<1>1. x \notin before[x] /\ before[x] \subseteq S
  BY DEF Orders
<1>2. /\ IsFiniteSet(before[x])
      /\ Cardinality(before[x]) <= Cardinality(S)
      /\ Cardinality(before[x]) # Cardinality(S)
  BY <1>1, FS_Subset
<1>3. Cardinality(before[x]) \in Nat /\ Cardinality(S) \in Nat
  BY <1>2, FS_CardinalityType
<1> QED
  BY <1>1, <1>2, <1>3

\* More elements are before y than before any that is before y.
LEMMA BeforeGrows ==
  ASSUME NEW S, IsFiniteSet(S), NEW before, Orders(before, S),
         NEW x \in S, NEW y \in S, x \in before[y]
  PROVE  Cardinality(before[x]) < Cardinality(before[y])
<1>1. before[x] \subseteq before[y]
  BY DEF Orders
<1>2. x \in before[y] /\ x \notin before[x]
  BY BeforeCount
<1>3. /\ IsFiniteSet(before[y]) /\ Cardinality(before[y]) \in Nat
      /\ Cardinality(before[x]) \in Nat
  BY BeforeCount
<1>4. /\ Cardinality(before[x]) <= Cardinality(before[y])
      /\ Cardinality(before[x]) # Cardinality(before[y])
  BY <1>1, <1>2, <1>3, FS_Subset
<1> QED
  BY <1>3, <1>4

\* The counts of two elements differ.
LEMMA CountsDiffer ==
  ASSUME NEW S, IsFiniteSet(S), NEW before, Orders(before, S),
         NEW x \in S, NEW y \in S, x # y
  PROVE  Cardinality(before[x]) # Cardinality(before[y])
<1>1. x \in before[y] \/ y \in before[x]
  BY DEF Orders
<1>2. Cardinality(before[x]) \in Nat /\ Cardinality(before[y]) \in Nat
  BY BeforeCount
<1> QED
  BY <1>1, <1>2, BeforeGrows

\* Every count below the size of the set is the count of an element.
LEMMA CountsOnto ==
  ASSUME NEW S, IsFiniteSet(S), NEW before, Orders(before, S),
         NEW k \in 0..Cardinality(S) - 1
  PROVE  \E x \in S : Cardinality(before[x]) = k
<1> DEFINE Counts == 0..Cardinality(S) - 1
           count == [x \in S |-> Cardinality(before[x])]
<1>1. Cardinality(S) \in Nat
  BY FS_CardinalityType
<1>2. count \in [S -> Counts]
  BY BeforeCount
<1>3. \A x, y \in S : x # y => count[x] # count[y]
  BY CountsDiffer
<1>4. count \in Injection(S, Counts)
  <2> HIDE DEF Counts, count
  <2> QED
    BY <1>2, <1>3 DEF Injection, IsInjective
<1>5. IsFiniteSet(Counts) /\ Cardinality(Counts) = Cardinality(S)
  BY <1>1, FS_Interval
<1>6. count \in Surjection(S, Counts)
  <2> HIDE DEF Counts, count
  <2> QED
    BY <1>4, <1>5, FS_Injection
<1>7. k \in Counts
  OBVIOUS
<1>8. \E x \in S : count[x] = k
  <2> HIDE DEF Counts, count
  <2> QED
    BY <1>6, <1>7 DEF Surjection
<1> QED
  BY <1>8

\* A listing has every element of a finite set at one place, in the given order.
THEOREM ListingFacts ==
  ASSUME NEW S, IsFiniteSet(S), NEW before, Orders(before, S)
  PROVE  /\ Cardinality(S) \in Nat
         /\ Listing(S, before) \in [1..Cardinality(S) -> S]
         /\ \A x \in S : \E k \in 1..Cardinality(S) : Listing(S, before)[k] = x
         /\ \A k, l \in 1..Cardinality(S) : k < l =>
              Listing(S, before)[k] \in before[Listing(S, before)[l]]
<1> DEFINE n == Cardinality(S)
           at(k) == CHOOSE x \in S : Cardinality(before[x]) = k - 1
<1>1. n \in Nat
  BY FS_CardinalityType
<1>2. ASSUME NEW k \in 1..n
      PROVE  at(k) \in S /\ Cardinality(before[at(k)]) = k - 1
  <2>1. k - 1 \in 0..n - 1
    BY <1>1
  <2>2. \E x \in S : Cardinality(before[x]) = k - 1
    BY <2>1, CountsOnto
  <2> QED
    BY <2>2
<1>3. Listing(S, before) = [k \in 1..n |-> at(k)]
  BY DEF Listing
<1> HIDE DEF n, at
<1>4. Listing(S, before) \in [1..n -> S] /\ \A k \in 1..n : Listing(S, before)[k] = at(k)
  BY <1>2, <1>3
<1>5. ASSUME NEW x \in S
      PROVE  \E k \in 1..n : Listing(S, before)[k] = x
  <2> DEFINE k == Cardinality(before[x]) + 1
  <2>1. Cardinality(before[x]) \in 0..n - 1
    BY BeforeCount DEF n
  <2>2. k \in 1..n /\ k - 1 = Cardinality(before[x])
    BY <1>1, <2>1
  <2> HIDE DEF k
  <2>3. at(k) \in S /\ Cardinality(before[at(k)]) = Cardinality(before[x])
    BY <1>2, <2>2
  <2>4. at(k) = x
    BY <2>3, CountsDiffer
  <2> QED
    BY <1>4, <2>2, <2>4
<1>6. ASSUME NEW k \in 1..n, NEW l \in 1..n, k < l
      PROVE  Listing(S, before)[k] \in before[Listing(S, before)[l]]
  <2>1. /\ at(k) \in S /\ Cardinality(before[at(k)]) = k - 1
        /\ at(l) \in S /\ Cardinality(before[at(l)]) = l - 1
    BY <1>2
  <2>2. ~(k - 1 = l - 1) /\ ~(l - 1 < k - 1)
    BY <1>1, <1>6
  <2>3. at(k) # at(l) /\ at(l) \notin before[at(k)]
    BY <2>1, <2>2, BeforeGrows
  <2> QED
    BY <1>4, <2>1, <2>3 DEF Orders
<1> QED
  BY <1>1, <1>4, <1>5, <1>6 DEF n
=============================================================================
