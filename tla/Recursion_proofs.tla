--------------------------- MODULE Recursion_proofs ---------------------------
(***************************************************************************)
(* Induction over data without an operator as a parameter, and what it     *)
(* gives: least and greatest elements, and sums.                           *)
(***************************************************************************)
EXTENDS Integers, WellFoundedInduction, TLAPS

(* Every nonempty set of natural numbers has a least element. *)
LEMMA LeastNatural ==
    ASSUME NEW T \in SUBSET Nat, T # {}
    PROVE  \E x \in T : \A y \in T : x <= y
<1> DEFINE R == OpToRel(<, Nat)
<1>1. IsWellFoundedOn(R, Nat)
  BY NatLessThanWellFounded
<1>2. \A y, z \in Nat : y < z => <<y, z>> \in R
  BY DEF OpToRel
<1> HIDE DEF R
<1>3. PICK x \in T : \A y \in T : ~(<<y, x>> \in R)
  BY <1>1, WFMin
<1>4. \A y \in T : ~(y < x)
  BY <1>2, <1>3, Zenon
<1> QED
  BY <1>4

(* Induction: a set of numbers with 0 and each successor up to n.           *)
LEMMA Induction ==
    ASSUME NEW n \in Nat, NEW P, 0 \in P, \A i \in 0..(n - 1) : i \in P => i + 1 \in P
    PROVE  0..n \subseteq P
<1> SUFFICES ASSUME (0..n) \ P # {} PROVE FALSE
  OBVIOUS
<1>1. (0..n) \ P \in SUBSET Nat
  OBVIOUS
<1>2. PICK x \in (0..n) \ P : \A y \in (0..n) \ P : x <= y
  BY <1>1, LeastNatural
<1>3. x # 0 /\ x - 1 \in 0..(n - 1) /\ x - 1 \notin (0..n) \ P
  BY <1>2
<1> QED
  BY <1>2, <1>3

(* A bounded set has a greatest element. *)
LEMMA GreatestNatural ==
    ASSUME NEW n \in Nat, NEW T \in SUBSET (0..n), T # {}
    PROVE  \E x \in T : \A y \in T : y <= x
<1> DEFINE M == {n - t : t \in T}
<1>1. M \in SUBSET Nat
  <2>1. \A t \in T : n - t \in Nat
    OBVIOUS
  <2> QED
    BY <2>1
<1>0. M # {}
  OBVIOUS
<1>2. PICK m \in M : \A y \in M : m <= y
  <2> HIDE DEF M
  <2> QED
    BY <1>0, <1>1, LeastNatural
<1>3. PICK x \in T : m = n - x
  OBVIOUS
<1>4. \A y \in T : n - x <= n - y
  BY <1>2, <1>3
<1> QED
  BY <1>4

-----------------------------------------------------------------------------
(* Sums.  f is the running sum of a[1], ..., a[n]. *)
Sums(f, a, n) ==
    /\ f \in [0..n -> Nat]
    /\ f[0] = 0
    /\ \A i \in 1..n : f[i] = f[i - 1] + a[i]

LEMMA SumsExist ==
    ASSUME NEW n \in Nat, NEW a \in [1..n -> Nat]
    PROVE  \E f : Sums(f, a, n)
<1> DEFINE P == {m \in 0..n : \E f : Sums(f, a, m)}
<1>1. 0 \in P
  <2>1. Sums([i \in 0..0 |-> 0], a, 0)
    BY DEF Sums
  <2> QED
    BY <2>1
<1>2. ASSUME NEW m \in 0..(n - 1), m \in P
      PROVE  m + 1 \in P
  <2>1. PICK f : Sums(f, a, m)
    BY <1>2
  <2> DEFINE g == [i \in 0..(m + 1) |-> IF i = m + 1 THEN f[m] + a[m + 1] ELSE f[i]]
  <2>2. g \in [0..(m + 1) -> Nat]
    <3>1. ASSUME NEW i \in 0..(m + 1)
          PROVE  (IF i = m + 1 THEN f[m] + a[m + 1] ELSE f[i]) \in Nat
      <4>1. f \in [0..m -> Nat] /\ m \in 0..m /\ m + 1 \in 1..n
        BY <2>1 DEF Sums
      <4>2. f[m] \in Nat /\ a[m + 1] \in Nat
        BY <4>1
      <4>3. i # m + 1 => i \in 0..m
        OBVIOUS
      <4>4. i # m + 1 => f[i] \in Nat
        BY <4>1, <4>3
      <4> QED
        BY <4>2, <4>4
    <3> QED
      BY <3>1
  <2>3. ASSUME NEW i \in 1..(m + 1) PROVE g[i] = g[i - 1] + a[i]
    <3>1. CASE i = m + 1
      BY <3>1
    <3>2. CASE i # m + 1
      <4>1. i \in 1..m /\ i \in 0..(m + 1) /\ i - 1 \in 0..(m + 1) /\ i - 1 # m + 1
        BY <3>2
      <4>2. g[i] = f[i] /\ g[i - 1] = f[i - 1]
        BY <4>1, <3>2
      <4> QED
        BY <2>1, <4>1, <4>2 DEF Sums
    <3> QED
      BY <3>1, <3>2
  <2>4. g[0] = 0
    BY <2>1 DEF Sums
  <2>5. Sums(g, a, m + 1)
    BY <2>2, <2>3, <2>4 DEF Sums
  <2> QED
    BY <2>5
<1>3. 0..n \subseteq P
  <2> HIDE DEF P
  <2> QED
    BY <1>1, <1>2, Induction
<1> QED
  BY <1>3

LEMMA SumsAgree ==
    ASSUME NEW n \in Nat, NEW m \in Nat, n <= m, NEW a, NEW b, NEW f, NEW g,
           Sums(f, a, n), Sums(g, b, m), \A i \in 1..n : a[i] = b[i]
    PROVE  f[n] = g[n]
<1> DEFINE P == {i \in 0..n : f[i] = g[i]}
<1>1. 0 \in P
  BY DEF Sums
<1>2. ASSUME NEW i \in 0..(n - 1), i \in P
      PROVE  i + 1 \in P
  <2>1. i + 1 \in 1..n /\ i + 1 \in 1..m /\ (i + 1) - 1 = i
    OBVIOUS
  <2>2. f[i + 1] = f[i] + a[i + 1] /\ g[i + 1] = g[i] + b[i + 1]
    BY <2>1 DEF Sums
  <2> QED
    BY <1>2, <2>1, <2>2
<1>3. 0..n \subseteq P
  <2> HIDE DEF P
  <2> QED
    BY <1>1, <1>2, Induction
<1> QED
  BY <1>3

(* A recursive function that adds a[i] at each i is such a sum. *)
LEMMA FunctionAsSums ==
    ASSUME NEW n \in Nat, NEW a \in [1..n -> Nat], NEW f,
           f = [i \in 0..n |-> IF i = 0 THEN 0 ELSE f[i - 1] + a[i]]
    PROVE  Sums(f, a, n)
<1>1. f[0] = 0 /\ \A i \in 1..n : f[i] = f[i - 1] + a[i]
  OBVIOUS
<1> DEFINE P == {i \in 0..n : f[i] \in Nat}
<1>2. 0 \in P
  BY <1>1
<1>3. ASSUME NEW i \in 0..(n - 1), i \in P
      PROVE  i + 1 \in P
  <2>1. i + 1 \in 1..n /\ (i + 1) - 1 = i
    OBVIOUS
  <2>2. f[i + 1] = f[i] + a[i + 1] /\ a[i + 1] \in Nat
    BY <1>1, <2>1
  <2> QED
    BY <1>3, <2>1, <2>2
<1>4. 0..n \subseteq P
  <2> HIDE DEF P
  <2> QED
    BY <1>2, <1>3, Induction
<1>5. f \in [0..n -> Nat]
  BY <1>4
<1> QED
  BY <1>1, <1>5 DEF Sums


LEMMA SumsAppend ==
    ASSUME NEW n \in Nat, NEW a, NEW b, NEW f, NEW g,
           Sums(f, a, n), Sums(g, b, n + 1), \A i \in 1..n : a[i] = b[i]
    PROVE  g[n + 1] = f[n] + b[n + 1]
<1>1. n + 1 \in Nat /\ n <= n + 1 /\ n + 1 \in 1..(n + 1) /\ (n + 1) - 1 = n
  OBVIOUS
<1>2. f[n] = g[n]
  BY <1>1, SumsAgree
<1> QED
  BY <1>1, <1>2 DEF Sums
=============================================================================
