------------------------------- MODULE Numbers -------------------------------
(***************************************************************************)
(* Facts about natural numbers that several proofs need: sets of them have *)
(* a least element, which is how these proofs use induction, and what \div *)
(* and % do to digits.                                                     *)
(***************************************************************************)
EXTENDS Integers, WellFoundedInduction, TLAPS

\* A set of numbers has a least element.
LEMMA LeastElement ==
    ASSUME NEW S \in SUBSET Nat, S # {}
    PROVE  \E n \in S : \A m \in S : n <= m
<1> DEFINE R == OpToRel(<, Nat)
<1>1. \A m, n \in Nat : m < n => <<m, n>> \in R
  BY DEF OpToRel
<1>2. IsWellFoundedOn(R, Nat)
  BY NatLessThanWellFounded, Zenon
<1> HIDE DEF R
<1>3. PICK n \in S : \A m \in S : ~(<<m, n>> \in R)
  BY <1>2, WFMin
<1>4. ASSUME NEW m \in S PROVE n <= m
  <2>1. n \in Nat /\ m \in Nat
    OBVIOUS
  <2>2. ~(m < n)
    BY <1>1, <1>3, <2>1
  <2> QED
    BY <2>1, <2>2
<1> QED
  BY <1>4

\* What holds of 0, and of n + 1 whenever it holds of n, holds up to top.
LEMMA UpTo ==
    ASSUME NEW top \in Nat, NEW S, 0 \in S, \A n \in 0 .. top - 1 : n \in S => n + 1 \in S
    PROVE  \A n \in 0 .. top : n \in S
<1> DEFINE Bad == {n \in 0 .. top : n \notin S}
<1> SUFFICES ASSUME Bad # {} PROVE FALSE
  OBVIOUS
<1>1. Bad \in SUBSET Nat
  OBVIOUS
<1>2. PICK n \in Bad : \A m \in Bad : n <= m
  <2> HIDE DEF Bad
  <2> QED
    BY <1>1, LeastElement
<1>3. n \in 0 .. top /\ n \notin S /\ n # 0
  OBVIOUS
<1>4. n - 1 \in 0 .. top - 1 /\ ~(n <= n - 1)
  BY <1>3
<1>5. n - 1 \in S
  BY <1>2, <1>4
<1> QED
  BY <1>3, <1>4, <1>5

LEMMA DivMod ==
    ASSUME NEW v \in Nat, NEW m \in Nat \ {0}
    PROVE  /\ v \div m \in Nat /\ v % m \in 0 .. m - 1
           /\ v = m * (v \div m) + (v % m)
  OBVIOUS

LEMMA DivModUnique ==
    ASSUME NEW q \in Nat, NEW m \in Nat \ {0}, NEW r \in 0 .. m - 1
    PROVE  (m * q + r) \div m = q /\ (m * q + r) % m = r
<1>1. m * q \in Nat
  OBVIOUS
<1> QED
  BY <1>1

LEMMA DivDiv ==
    ASSUME NEW v \in Nat, NEW m \in Nat \ {0}, NEW n \in Nat \ {0}
    PROVE  (v \div m) \div n = v \div (m * n)
  OBVIOUS

\* Rows of m: the x-th of row k, and the row of a place.
LEMMA PlaceInRow ==
    ASSUME NEW n \in Nat, NEW m \in Nat \ {0}, NEW k \in 1 .. n, NEW x \in 1 .. m
    PROVE  /\ (k - 1) * m + x \in 1 .. n * m
           /\ (((k - 1) * m + x) - 1) \div m = k - 1
           /\ (((k - 1) * m + x) - 1) % m = x - 1
<1> DEFINE j == k - 1
           y == x - 1
           i == j * m + x
<1>1. j \in Nat /\ y \in 0 .. m - 1 /\ x = y + 1 /\ j + 1 <= n
  OBVIOUS
<1>2. j * m \in Nat /\ j * m = m * j /\ (j + 1) * m = j * m + m
  BY <1>1
<1> HIDE DEF j, y
<1>3. (m * j + y) \div m = j /\ (m * j + y) % m = y
  BY <1>1, DivModUnique
<1>4. i - 1 = m * j + y /\ 1 <= i /\ i \in Nat /\ i <= j * m + m
  BY <1>1, <1>2
<1>5. (j + 1) * m <= n * m
  BY <1>1
<1>6. n * m \in Nat
  OBVIOUS
<1>7. i \in 1 .. n * m
  BY <1>2, <1>4, <1>5, <1>6
<1>8. (i - 1) \div m = j /\ (i - 1) % m = y
  BY <1>3, <1>4
<1> QED
  BY <1>7, <1>8 DEF i, j, y

LEMMA RowOfPlace ==
    ASSUME NEW n \in Nat, NEW m \in Nat \ {0}, NEW i \in 1 .. n * m
    PROVE  ((i - 1) \div m) + 1 \in 1 .. n /\ ((i - 1) % m) + 1 \in 1 .. m
<1> DEFINE q == (i - 1) \div m
           r == (i - 1) % m
<1>0. n * m \in Nat
  OBVIOUS
<1>1. i - 1 \in Nat /\ i - 1 < n * m
  BY <1>0
<1>2. q \in Nat /\ r \in 0 .. m - 1 /\ i - 1 = m * q + r
  BY <1>1, DivMod
<1> HIDE DEF q, r
<1>3. ASSUME n <= q PROVE FALSE
  <2>1. m * n <= m * q
    BY <1>2, <1>3
  <2>2. m * n = n * m /\ m * q \in Nat
    BY <1>2
  <2> QED
    BY <1>0, <1>1, <1>2, <2>1, <2>2
<1>4. q + 1 \in 1 .. n /\ r + 1 \in 1 .. m
  BY <1>2, <1>3
<1> QED
  BY <1>4 DEF q, r
=============================================================================
