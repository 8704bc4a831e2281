----------------------------- MODULE NatLemmas -----------------------------
(***************************************************************************)
(* Facts about remainders and least elements that the proofs about the     *)
(* hash table and the file cache rest on.  Both scan an array from some    *)
(* place on; the hash table wraps around with %.                           *)
(*                                                                         *)
(* And induction without operators as parameters: a function that is       *)
(* computed in N steps exists (RecursiveFunction), and what the steps      *)
(* preserve holds of all its values (BoundedInduction).                    *)
(***************************************************************************)
EXTENDS Integers, FiniteSetsExt, WellFoundedInduction, TLAPS

\* Division with remainder.
LEMMA ModRange ==
    ASSUME NEW x \in Nat, NEW n \in Nat, n > 0
    PROVE  /\ x % n \in 0 .. n - 1
           /\ x \div n \in Nat
           /\ x = n * (x \div n) + (x % n)
OBVIOUS

\* A multiple of n that is not 0 or less is at least n.
LEMMA ProductBound ==
    ASSUME NEW n \in Nat, NEW q \in Int, q >= 1
    PROVE  n * q >= n
OBVIOUS

\* Adding a constant modulo n is injective on 0 .. n - 1.
LEMMA RotateInjective ==
    ASSUME NEW c \in Nat, NEW n \in Nat, n > 0,
           NEW i \in 0 .. n - 1, NEW j \in 0 .. n - 1,
           (i + c) % n = (j + c) % n
    PROVE  i = j
<1> DEFINE p == (i + c) \div n
           q == (j + c) \div n
<1>1. i + c = n * p + ((i + c) % n) /\ p \in Nat
  BY ModRange
<1>2. j + c = n * q + ((j + c) % n) /\ q \in Nat
  BY ModRange
<1>3. (i + c) % n \in Int
  BY ModRange
<1> HIDE DEF p, q
<1>4. i - j = n * (p - q)
  BY <1>1, <1>2, <1>3
<1>5. CASE p = q
  BY <1>4, <1>5, <1>1
<1>6. CASE p > q
  <2>1. n * (p - q) >= n
    BY <1>6, <1>1, <1>2, ProductBound
  <2> QED BY <2>1, <1>4
<1>7. CASE q > p
  <2>1. n * (q - p) >= n
    BY <1>7, <1>1, <1>2, ProductBound
  <2>2. j - i = n * (q - p)
    BY <1>1, <1>2, <1>3
  <2> QED BY <2>1, <2>2
<1> QED BY <1>1, <1>2, <1>5, <1>6, <1>7

\* The remainder is unique.
LEMMA ModUnique ==
    ASSUME NEW n \in Nat, n > 0, NEW q \in Nat, NEW s \in 0 .. n - 1,
           NEW x \in Nat, x = n * q + s
    PROVE  x % n = s
<1> DEFINE p == x \div n
           r == x % n
<1>1. x = n * p + r /\ p \in Nat /\ r \in 0 .. n - 1
  BY ModRange
<1> HIDE DEF p, r
<1>2. r - s = n * (q - p)
  BY <1>1
<1>3. CASE p = q
  BY <1>1, <1>2, <1>3 DEF r
<1>4. CASE q > p
  <2>1. n * (q - p) >= n
    BY <1>4, <1>1, ProductBound
  <2> QED BY <2>1, <1>2, <1>1
<1>5. CASE p > q
  <2>1. n * (p - q) >= n
    BY <1>5, <1>1, ProductBound
  <2>2. s - r = n * (p - q)
    BY <1>1
  <2> QED BY <2>1, <2>2, <1>1
<1> QED BY <1>1, <1>3, <1>4, <1>5

\* Adding a constant modulo n reaches every value in 0 .. n - 1.
LEMMA RotateSurjective ==
    ASSUME NEW c \in Nat, NEW n \in Nat, n > 0, NEW s \in 0 .. n - 1
    PROVE  \E i \in 0 .. n - 1 : (i + c) % n = s
<1> DEFINE q == c \div n
           r == c % n
<1>1. c = n * q + r /\ q \in Nat /\ r \in 0 .. n - 1
  BY ModRange
<1> HIDE DEF q, r
<1>2. CASE s >= r
  <2>1. s - r \in 0 .. n - 1 /\ (s - r) + c = n * q + s
    BY <1>1, <1>2
  <2>2. ((s - r) + c) % n = s
    BY <2>1, <1>1, ModUnique
  <2> QED BY <2>1, <2>2
<1>3. CASE s < r
  <2>1. s - r + n \in 0 .. n - 1 /\ (s - r + n) + c = n * (q + 1) + s
    BY <1>1, <1>3
  <2>2. ((s - r + n) + c) % n = s
    BY <2>1, <1>1, ModUnique
  <2> QED BY <2>1, <2>2
<1> QED BY <1>1, <1>2, <1>3

\* A non-empty set of naturals has a least element, which Min returns.
LEMMA MinNat ==
    ASSUME NEW S, S \subseteq Nat, S # {}
    PROVE  Min(S) \in S /\ \A y \in S : Min(S) <= y
<1> DEFINE R == {ss \in Nat \X Nat : ss[1] < ss[2]}
<1>1. IsWellFoundedOn(R, Nat)
  BY NatLessThanWellFounded, Zenon DEF OpToRel
<1>2. PICK x \in S : \A y \in S : ~(<<y, x>> \in R)
  <2> HIDE DEF R
  <2> QED BY <1>1, WFMin
<1>3. \A a, b \in Nat : a < b => <<a, b>> \in R
  OBVIOUS
<1>4. \A y \in S : x <= y
  <2> HIDE DEF R
  <2>1. \A y \in S : ~(y < x)
    BY <1>2, <1>3
  <2> QED BY <2>1
<1> QED BY <1>2, <1>4 DEF Min

\* f is computed in N steps from its value at 0.
ComputedFrom(f, V, a, N, G) ==
    /\ f \in [0 .. N -> V]
    /\ f[0] = a
    /\ \A n \in 1 .. N : f[n] = G[<<f[n - 1], n>>]

\* There is such a function.
LEMMA RecursiveFunction ==
    ASSUME NEW V, NEW a \in V, NEW N \in Nat, NEW G \in [V \X (1 .. N) -> V]
    PROVE  \E f : ComputedFrom(f, V, a, N, G)
<1> DEFINE Fits(f, m) == /\ f \in [0 .. m -> V]
                         /\ f[0] = a
                         /\ \A n \in 1 .. m : f[n] = G[<<f[n - 1], n>>]
           S == {m \in 0 .. N : ~\E f : Fits(f, m)}
<1>1. CASE S # {}
  <2> DEFINE m == Min(S)
  <2>1. m \in S /\ \A y \in S : m <= y
    <3>1. S \subseteq Nat
      OBVIOUS
    <3> HIDE DEF S
    <3> QED BY <1>1, <3>1, MinNat
  <2> HIDE DEF m
  <2>2. m \in 0 .. N /\ ~\E f : Fits(f, m)
    BY <2>1
  <2>3. CASE m = 0
    <3>1. Fits([n \in 0 .. 0 |-> a], 0)
      OBVIOUS
    <3> QED BY <2>2, <2>3, <3>1
  <2>4. CASE m > 0
    <3>1. m - 1 \in 0 .. N /\ m - 1 \notin S /\ m \in 1 .. N
      <4> HIDE DEF S
      <4> QED BY <2>1, <2>2, <2>4
    <3>2. PICK f : Fits(f, m - 1)
      BY <3>1
    <3>3. G[<<f[m - 1], m>>] \in V
      BY <3>1, <3>2
    <3> DEFINE g == [n \in 0 .. m |-> IF n = m THEN G[<<f[m - 1], m>>] ELSE f[n]]
    <3>4. g \in [0 .. m -> V]
      BY <3>1, <3>2, <3>3
    <3>5. \A n \in 0 .. m - 1 : g[n] = f[n]
      BY <3>1
    <3>6. g[m] = G[<<f[m - 1], m>>]
      BY <3>1
    <3> HIDE DEF g
    <3>7. g[0] = a
      BY <3>1, <3>2, <3>5
    <3>8. ASSUME NEW n \in 1 .. m PROVE g[n] = G[<<g[n - 1], n>>]
      <4>1. g[n - 1] = f[n - 1]
        BY <3>1, <3>5
      <4>2. CASE n = m
        BY <4>1, <4>2, <3>6
      <4>3. CASE n < m
        <5>1. n \in 1 .. m - 1 /\ n \in 0 .. m - 1
          BY <3>1, <4>3
        <5> QED BY <5>1, <4>1, <3>2, <3>5
      <4> QED BY <3>1, <4>2, <4>3
    <3> QED BY <3>4, <3>7, <3>8, <2>2
  <2> QED BY <2>2, <2>3, <2>4
<1>2. CASE S = {}
  <2>1. N \in 0 .. N
    OBVIOUS
  <2> QED BY <1>2, <2>1 DEF ComputedFrom
<1> QED BY <1>1, <1>2

\* What holds at 0, and at each number up to N if at the one before, holds up to N.
LEMMA BoundedInduction ==
    ASSUME NEW N \in Nat, NEW S, 0 \in S, \A n \in 1 .. N : n - 1 \in S => n \in S
    PROVE  \A n \in 0 .. N : n \in S
<1> DEFINE T == {n \in 0 .. N : n \notin S}
<1>1. SUFFICES ASSUME T # {} PROVE FALSE
  OBVIOUS
<1>2. T \subseteq Nat
  OBVIOUS
<1>3. PICK m : m \in T /\ \A y \in T : m <= y
  <2> HIDE DEF T
  <2> QED BY <1>1, <1>2, MinNat
<1>4. m \in 1 .. N /\ m - 1 \in 0 .. N /\ m - 1 \notin T
  BY <1>3
<1> QED BY <1>3, <1>4
=============================================================================
