--------------------------- MODULE NaturalLemmas ---------------------------
(***************************************************************************)
(* What the proofs of several components need of the natural numbers: the  *)
(* least of a set, what holds at every place of an interval, functions     *)
(* defined place after place, and powers of two.                           *)
(***************************************************************************)
EXTENDS Integers, FiniteSetTheorems, WellFoundedInduction, TLAPS

(* A set of numbers that is not empty has a least one.                     *)
LEMMA Least ==
  ASSUME NEW T \in SUBSET Nat, T # {}
  PROVE  \E d \in T : \A e \in T : d <= e
<1>1. PICK d \in T : \A e \in T : ~ (<<e, d>> \in OpToRel(<, Nat))
  BY WFMin, NatLessThanWellFounded
<1>2. \A e \in T : ~ (e < d)
  BY <1>1 DEF OpToRel
<1> QED
  BY <1>2

(* What holds at first and after each place holds at all of them.          *)
LEMMA Everywhere ==
  ASSUME NEW N \in Nat, NEW T, 0 \in T,
         \A i \in 1..N : i - 1 \in T => i \in T
  PROVE  \A i \in 0..N : i \in T
<1> DEFINE B == {i \in 0..N : i \notin T}
<1>1. CASE B = {}
  BY <1>1
<1>2. CASE B # {}
  <2>1. PICK d \in B : \A e \in B : d <= e
    <3>1. B \in SUBSET Nat
      OBVIOUS
    <3> HIDE DEF B
    <3> QED
      BY <1>2, <3>1, Least
  <2>2. d \in 1..N /\ d - 1 \in 0..N /\ d - 1 \notin B
    BY <2>1
  <2> QED
    BY <2>1, <2>2
<1> QED
  BY <1>1, <1>2

(* A value for the start and a step for each place make a function.        *)
Steps(N, S) == [1..N -> [S -> S]]

Follows(f, N, a, step) == f[0] = a /\ \A i \in 1..N : f[i] = step[i][f[i - 1]]

(* For every table of steps there is a function on 0..N that follows it:   *)
(* the domain on which there is one is the whole of 0..N, or the least     *)
(* number outside it would follow one inside.                              *)
LEMMA Recursive ==
  ASSUME NEW N \in Nat, NEW S, NEW a \in S, NEW step \in Steps(N, S)
  PROVE  \E f \in [0..N -> S] : Follows(f, N, a, step)
<1> USE DEF Steps, Follows
<1> DEFINE UpTo(n, f) == f[0] = a /\ \A i \in 1..n : f[i] = step[i][f[i - 1]]
           T == {n \in 0..N : \E f \in [0..N -> S] : UpTo(n, f)}
<1>1. 0 \in T
  <2> DEFINE f == [n \in 0..N |-> a]
  <2>1. f \in [0..N -> S] /\ f[0] = a /\ 0 \in 0..N
    OBVIOUS
  <2> HIDE DEF f
  <2>2. UpTo(0, f)
    BY <2>1
  <2> QED
    BY <2>1, <2>2
<1>2. ASSUME NEW i \in 1..N, i - 1 \in T PROVE i \in T
  <2>1. PICK f \in [0..N -> S] : UpTo(i - 1, f)
    BY <1>2
  <2> DEFINE g == [f EXCEPT ![i] = step[i][f[i - 1]]]
  <2>2. step[i] \in [S -> S] /\ f[i - 1] \in S
    OBVIOUS
  <2>3. step[i][f[i - 1]] \in S
    BY <2>2
  <2>4. g \in [0..N -> S]
    BY <2>3
  <2>5. \A n \in 0..N : g[n] = IF n = i THEN step[i][f[i - 1]] ELSE f[n]
    OBVIOUS
  <2> HIDE DEF g
  <2>6. UpTo(i, g)
    <3>1. g[0] = a
      BY <2>1, <2>5
    <3>2. ASSUME NEW n \in 1..i PROVE g[n] = step[n][g[n - 1]]
      <4>1. CASE n = i
        BY <2>5, <4>1
      <4>2. CASE n # i
        BY <2>1, <2>5, <4>2
      <4> QED
        BY <4>1, <4>2
    <3> QED
      BY <3>1, <3>2
  <2> HIDE DEF UpTo
  <2> QED
    BY <2>4, <2>6
<1>3. N \in T
  <2>1. \A i \in 0..N : i \in T
    <3> HIDE DEF T
    <3> QED
      BY <1>1, <1>2, Everywhere
  <2> HIDE DEF T
  <2> QED
    BY <2>1
<1> QED
  BY <1>3

(* A set of n + 1 elements has twice as many subsets as one of n.          *)
LEMMA Doubles ==
  ASSUME NEW n \in Nat
  PROVE  2^n \in Nat \ {0} /\ 2^(n + 1) = 2 * 2^n
<1> DEFINE A == SUBSET (1..n)
           B == (SUBSET (1..(n + 1))) \ A
           f == [s \in A |-> s \cup {n + 1}]
<1>1. /\ IsFiniteSet(1..n) /\ Cardinality(1..n) = n
      /\ IsFiniteSet(1..(n + 1)) /\ Cardinality(1..(n + 1)) = n + 1
  <2>1. n + 1 \in Nat /\ 1 \in Int /\ n \in Int
    OBVIOUS
  <2>2. IsFiniteSet(1..n) /\ Cardinality(1..n) = n
    BY <2>1, FS_Interval
  <2>3. IsFiniteSet(1..(n + 1)) /\ Cardinality(1..(n + 1)) = n + 1
    BY <2>1, FS_Interval
  <2> QED
    BY <2>2, <2>3
<1>2. IsFiniteSet(A) /\ Cardinality(A) = 2^n /\ 2^n \in Nat \ {0}
  <2>1. IsFiniteSet(A) /\ Cardinality(A) = 2^n
    BY <1>1, FS_SUBSET
  <2>2. A # {}
    OBVIOUS
  <2> HIDE DEF A
  <2> QED
    BY <2>1, <2>2, FS_CardinalityType, FS_EmptySet
<1>3. Cardinality(SUBSET (1..(n + 1))) = 2^(n + 1) /\ IsFiniteSet(SUBSET (1..(n + 1)))
  BY <1>1, FS_SUBSET
<1>4. f \in Bijection(A, B)
  <2>1. 1..(n + 1) = (1..n) \cup {n + 1} /\ n + 1 \notin 1..n
    OBVIOUS
  <2>2. \A s \in A : f[s] \in B
    BY <2>1
  <2>3. \A s, t \in A : f[s] = f[t] => s = t
    BY <2>1
  <2>4. ASSUME NEW t \in B PROVE \E s \in A : f[s] = t
    <3>1. n + 1 \in t /\ t \ {n + 1} \in A
      BY <2>1
    <3>2. f[t \ {n + 1}] = t
      BY <3>1
    <3> QED
      BY <3>1, <3>2
  <2>5. f \in [A -> B]
    BY <2>2
  <2> HIDE DEF f, A, B
  <2> QED
    BY <2>3, <2>4, <2>5 DEF Bijection, Injection, Surjection, IsInjective
<1>5. IsFiniteSet(B) /\ Cardinality(B) = 2^n
  <2> HIDE DEF f, A, B
  <2> QED
    BY <1>2, <1>4, FS_Bijection DEF ExistsBijection
<1>6. Cardinality(A \cup B) = Cardinality(A) + Cardinality(B) - Cardinality(A \cap B)
  <2> HIDE DEF A, B
  <2> QED
    BY <1>2, <1>5, FS_Union
<1>7. A \cup B = SUBSET (1..(n + 1)) /\ A \cap B = {}
  <2>1. 1..n \subseteq 1..(n + 1)
    OBVIOUS
  <2> QED
    BY <2>1
<1>8. Cardinality({}) = 0
  BY FS_EmptySet
<1> HIDE DEF A, B, f
<1> DEFINE p == 2^n
           q == 2^(n + 1)
<1>9. p \in Nat \ {0} /\ q = p + p - 0
  BY <1>2, <1>3, <1>5, <1>6, <1>7, <1>8
<1> HIDE DEF p, q
<1>10. q = 2 * p
  BY <1>9
<1> QED
  BY <1>9, <1>10 DEF p, q
=============================================================================
