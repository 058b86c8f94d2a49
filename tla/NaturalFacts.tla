---------------------------- MODULE NaturalFacts ----------------------------
(***************************************************************************)
(* Facts about naturals the proofs share.  Induction is stated for a set,  *)
(* so that a proof by induction defines the set of the naturals for which  *)
(* its claim holds.                                                        *)
(***************************************************************************)
EXTENDS Integers, TLAPS, WellFoundedInduction, FiniteSetTheorems

\* A set of naturals has a least element.
LEMMA LeastNatural ==
    ASSUME NEW S, S \subseteq Nat, S # {}
    PROVE  \E n \in S : \A m \in S : n <= m
  <1> DEFINE R == {p \in Nat \X Nat : p[1] < p[2]}
  <1>1. IsWellFoundedOn(R, Nat)
    BY NatLessThanWellFounded, Zenon DEF OpToRel
  <1>2. \A x, y \in Nat : y < x => <<y, x>> \in R
    OBVIOUS
  <1> HIDE DEF R
  <1>3. PICK n \in S : \A m \in S : <<m, n>> \notin R
    BY <1>1, WFMin
  <1>4. \A m \in S : ~(m < n)
    BY <1>2, <1>3
  <1> QED
    BY <1>3, <1>4

\* A set with 0 and with the successor of every natural it has is all of them.
LEMMA Induction ==
    ASSUME NEW S, 0 \in S, \A n \in Nat : n \in S => n + 1 \in S
    PROVE  \A n \in Nat : n \in S
  <1> DEFINE Rest == Nat \ S
  <1>1. CASE Rest = {}
    BY <1>1
  <1>2. CASE Rest # {}
    <2>1. PICK n \in Rest : \A m \in Rest : n <= m
      BY <1>2, LeastNatural
    <2>2. n - 1 \in Nat /\ n - 1 \notin Rest /\ (n - 1) + 1 = n
      BY <2>1
    <2> QED
      BY <2>2
  <1> QED
    BY <1>1, <1>2

\* A power of two counts the subsets of as many elements.
LEMMA PowerCounts ==
    ASSUME NEW n \in Nat
    PROVE  /\ IsFiniteSet(SUBSET (1..n))
           /\ Cardinality(SUBSET (1..n)) = 2 ^ n
           /\ 2 ^ n \in Nat
  <1>1. IsFiniteSet(1..n) /\ Cardinality(1..n) = n
    BY FS_Interval
  <1>2. IsFiniteSet(SUBSET (1..n)) /\ Cardinality(SUBSET (1..n)) = 2 ^ n
    BY <1>1, FS_SUBSET
  <1> QED
    BY <1>2, FS_CardinalityType

\* Each doubles the one before: a subset has the new element or has it not.
LEMMA PowerDoubles ==
    ASSUME NEW n \in Nat
    PROVE  2 ^ (n + 1) = 2 * 2 ^ n
  <1> DEFINE S == SUBSET (1..n)
             T == {A \cup {n + 1} : A \in S}
             f == [A \in S |-> A \cup {n + 1}]
  <1>1. n + 1 \notin 1..n /\ 1..(n + 1) = (1..n) \cup {n + 1}
    OBVIOUS
  <1>2. SUBSET (1..(n + 1)) = S \cup T
    <2>1. ASSUME NEW A \in SUBSET (1..(n + 1)) PROVE A \in S \cup T
      <3>1. CASE n + 1 \notin A
        BY <1>1, <3>1
      <3>2. CASE n + 1 \in A
        <4>1. A \ {n + 1} \in S /\ A = (A \ {n + 1}) \cup {n + 1}
          BY <1>1, <3>2
        <4> QED
          BY <4>1
      <3> QED
        BY <3>1, <3>2
    <2>2. ASSUME NEW A \in S PROVE A \cup {n + 1} \in SUBSET (1..(n + 1))
      BY <1>1
    <2>3. \A A \in S : A \in SUBSET (1..(n + 1))
      BY <1>1
    <2> HIDE DEF S
    <2> QED
      BY <2>1, <2>2, <2>3
  <1>3. S \cap T = {}
    BY <1>1
  <1>4. f \in Bijection(S, T)
    <2>1. \A A, B \in S : f[A] = f[B] => A = B
      BY <1>1
    <2>2. f \in [S -> T] /\ \A t \in T : \E A \in S : f[A] = t
      OBVIOUS
    <2> QED
      BY <2>1, <2>2 DEF Bijection, Injection, IsInjective, Surjection
  <1> HIDE DEF S, T, f
  <1>5. IsFiniteSet(S) /\ Cardinality(S) = 2 ^ n /\ 2 ^ n \in Nat
    BY PowerCounts DEF S
  <1>6. IsFiniteSet(T) /\ Cardinality(T) = 2 ^ n
    BY <1>4, <1>5, FS_Bijection DEF ExistsBijection
  <1>7. Cardinality(S \cup T) = 2 ^ n + 2 ^ n
    <2>1. Cardinality(S \cap T) = 0
      BY <1>3, FS_EmptySet
    <2>2. Cardinality(S \cup T) = Cardinality(S) + Cardinality(T) - Cardinality(S \cap T)
      BY <1>5, <1>6, FS_Union
    <2>3. \A a \in Int : a + a - 0 = a + a
      OBVIOUS
    <2> QED
      BY <1>5, <1>6, <2>1, <2>2, <2>3
  <1>8. Cardinality(SUBSET (1..(n + 1))) = 2 ^ (n + 1)
    BY PowerCounts
  <1> QED
    BY <1>2, <1>5, <1>7, <1>8

\* They grow beyond every number.
LEMMA PowerExceeds ==
    \A n \in Nat : 2 ^ n \in Nat /\ n < 2 ^ n
  <1> DEFINE S == {n \in Nat : n < 2 ^ n}
  <1>1. 0 \in S
    <2>1. 2 ^ 0 = 1
      OBVIOUS
    <2> QED
      BY <2>1
  <1>2. ASSUME NEW n \in Nat, n \in S PROVE n + 1 \in S
    <2>1. n < 2 ^ n /\ 2 ^ n \in Nat /\ 2 ^ (n + 1) = 2 * 2 ^ n
      BY <1>2, PowerCounts, PowerDoubles
    <2> DEFINE p == 2 ^ n
               q == 2 ^ (n + 1)
    <2>2. n < p /\ p \in Nat /\ q = 2 * p
      BY <2>1
    <2> HIDE DEF p, q
    <2>3. n + 1 < q
      BY <2>2
    <2> QED
      BY <2>3 DEF q
  <1>3. \A n \in Nat : n \in S
    <2> HIDE DEF S
    <2> QED
      BY <1>1, <1>2, Induction
  <1> QED
    BY <1>3, PowerCounts
=============================================================================
