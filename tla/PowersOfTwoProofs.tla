-------------------------- MODULE PowersOfTwoProofs -------------------------
(* Arithmetic of powers of two and least elements, on which the proofs about *)
(* the hash table, the token buffer and the parser rest.                     *)
EXTENDS PowersOfTwo, FiniteSetsExt, WellFoundedInduction, TLAPS

\* A set of naturals with no least element is empty: the form in which induction
\* is used below.
LEMMA LeastCounterexample ==
  ASSUME NEW S \in SUBSET Nat, \A x \in S : \E y \in S : y < x
  PROVE  S = {}
<1>. DEFINE R == {ss \in Nat \X Nat : ss[1] < ss[2]}
<1>1. IsWellFoundedOn(R, Nat)
  BY NatLessThanWellFounded, Zenon DEF OpToRel
<1>. HIDE DEF R
<1>2. ASSUME S # {}
      PROVE  FALSE
  <2>1. PICK x \in S : \A y \in S : ~(<<y, x>> \in R)
    BY <1>1, <1>2, WFMin
  <2>2. PICK y \in S : y < x
    BY <2>1
  <2>3. <<y, x>> \in R
    BY <2>2 DEF R
  <2>. QED
    BY <2>1, <2>3
<1>. QED
  BY <1>2

Divides(d, n) == \E q \in Int : n = d * q

\* The remainder is zero for multiples only.
LEMMA RemainderOfMultiple ==
  ASSUME NEW d \in Nat \ {0}, NEW n \in Int
  PROVE  n % d = 0 <=> Divides(d, n)
<1>1. n = d * (n \div d) + (n % d) /\ n \div d \in Int /\ n % d \in 0 .. d - 1
  OBVIOUS
<1>2. ASSUME n % d = 0
      PROVE  Divides(d, n)
  <2>1. n = d * (n \div d)
    BY <1>1, <1>2
  <2>. QED
    BY <1>1, <2>1 DEF Divides
<1>3. ASSUME NEW q \in Int, n = d * q
      PROVE  n % d = 0
  <2>. DEFINE e == q - n \div d
  <2>1. e \in Int /\ d * e = n % d
    BY <1>1, <1>3
  <2>2. e <= 0
    <3>1. ASSUME e >= 1 PROVE FALSE
      <4>. HIDE DEF e
      <4>1. d * e >= d
        BY <2>1, <3>1
      <4>. QED
        BY <1>1, <2>1, <4>1
    <3>. QED
      BY <2>1, <3>1
  <2>3. e >= 0
    <3>1. ASSUME e <= -1 PROVE FALSE
      <4>. HIDE DEF e
      <4>1. d * e <= -d
        BY <2>1, <3>1
      <4>. QED
        BY <1>1, <2>1, <4>1
    <3>. QED
      BY <2>1, <3>1
  <2>. QED
    BY <2>1, <2>2, <2>3
<1>. QED
  BY <1>2, <1>3 DEF Divides

\* The half of an even power of two is one; its double is one.
LEMMA PowerHalves ==
  ASSUME NEW n \in Nat, PowerOf2(2 * n)
  PROVE  PowerOf2(n)
<1>1. n > 0
  BY DEF PowerOf2
<1>2. ASSUME NEW d \in 1 .. n, n % d = 0
      PROVE  d = 1 \/ d % 2 = 0
  <2>. d \in Nat \ {0} /\ n \in Int /\ 2 * n \in Int
    OBVIOUS
  <2>1. PICK q \in Int : n = d * q
    BY <1>2, RemainderOfMultiple DEF Divides
  <2>2. 2 * n = d * (2 * q) /\ 2 * q \in Int
    BY <2>1
  <2>3. (2 * n) % d = 0
    BY <2>2, RemainderOfMultiple DEF Divides
  <2>. QED
    BY <2>3 DEF PowerOf2
<1>. QED
  BY <1>1, <1>2 DEF PowerOf2

\* Doubling a power of two gives one (KEFIR_HASHTABLE_CAPACITY_GROW).
LEMMA PowerDoubles ==
  ASSUME NEW n \in Nat, PowerOf2(n)
  PROVE  PowerOf2(2 * n)
<1>1. n > 0
  BY DEF PowerOf2
<1>2. ASSUME NEW d \in 1 .. 2 * n, (2 * n) % d = 0, d % 2 # 0
      PROVE  d = 1
  <2>. d \in Nat \ {0} /\ n \in Int /\ 2 * n \in Int
    OBVIOUS
  <2>1. PICK q \in Int : 2 * n = d * q
    BY <1>2, RemainderOfMultiple DEF Divides
  <2>2. PICK c \in Int : d = 2 * c + 1
    BY <1>2
  <2>3. q = 2 * (n - c * q) /\ n - c * q \in Int
    BY <2>1, <2>2
  <2>4. PICK r \in Int : q = 2 * r
    BY <2>3
  <2>5. n = d * r
    BY <2>1, <2>4
  <2>6. n % d = 0
    BY <2>5, RemainderOfMultiple DEF Divides
  <2>7. d <= n
    <3>1. r > 0
      BY <1>1, <2>5
    <3>. QED
      BY <2>5, <3>1
  <2>. QED
    BY <1>2, <2>6, <2>7 DEF PowerOf2
<1>. QED
  BY <1>1, <1>2 DEF PowerOf2

\* A power of two that divides a product with an odd number divides the other factor.
LEMMA OddFactor ==
  ASSUME NEW s \in Nat, s % 2 = 1
  PROVE  \A n \in Nat : PowerOf2(n) => \A d \in Int : Divides(n, d * s) => Divides(n, d)
<1>. DEFINE Bad == {n \in Nat : PowerOf2(n) /\ \E d \in Int : Divides(n, d * s) /\ ~Divides(n, d)}
<1>1. SUFFICES Bad = {}
  OBVIOUS
<1>2. SUFFICES ASSUME NEW n \in Bad
               PROVE  \E m \in Bad : m < n
  BY LeastCounterexample
<1>3. n \in Nat /\ PowerOf2(n) /\ n > 0
  BY DEF PowerOf2
<1>4. PICK d \in Int : Divides(n, d * s) /\ ~Divides(n, d)
  OBVIOUS
<1>5. n # 1
  <2>1. d = 1 * d
    OBVIOUS
  <2>. QED
    BY <1>4, <2>1 DEF Divides
<1>6. PICK m \in Nat : n = 2 * m
  <2>1. n % n = 0 /\ n \in 1 .. n
    BY <1>3
  <2>2. n % 2 = 0
    BY <1>3, <1>5, <2>1 DEF PowerOf2
  <2>. QED
    BY <1>3, <2>2
<1>7. PowerOf2(m) /\ m < n
  BY <1>3, <1>6, PowerHalves
<1>8. PICK q \in Int : d * s = n * q
  BY <1>4 DEF Divides
<1>9. PICK c \in Int : s = 2 * c + 1
  <2>1. s = 2 * (s \div 2) + 1 /\ s \div 2 \in Int
    OBVIOUS
  <2>. QED
    BY <2>1
<1>10. d = 2 * (m * q - c * d) /\ m * q - c * d \in Int
  <2>1. d * s = 2 * (m * q)
    BY <1>6, <1>8
  <2>2. d * s = 2 * (c * d) + d
    BY <1>9
  <2>. QED
    BY <2>1, <2>2
<1>11. PICK e \in Int : d = 2 * e
  BY <1>10
<1>12. e * s = m * q
  <2>1. 2 * (e * s) = d * s
    BY <1>11
  <2>2. 2 * (m * q) = d * s
    BY <1>6, <1>8
  <2>. QED
    BY <2>1, <2>2
<1>13. Divides(m, e * s)
  BY <1>12 DEF Divides
<1>14. ~Divides(m, e)
  <2>1. ASSUME NEW r \in Int, e = m * r
        PROVE  FALSE
    <3>1. d = n * r
      BY <1>6, <1>11, <2>1
    <3>. QED
      BY <1>4, <3>1 DEF Divides
  <2>. QED
    BY <2>1 DEF Divides
<1>. QED
  BY <1>7, <1>13, <1>14

\* Min of a non-empty set of naturals is its least element.
LEMMA MinIsLeast ==
  ASSUME NEW S \in SUBSET Nat, S # {}
  PROVE  Min(S) \in S /\ \A y \in S : Min(S) <= y
<1>1. PICK x \in S : \A y \in S : ~(y < x)
  BY LeastCounterexample
<1>2. \A y \in S : x <= y
  BY <1>1
<1>. QED
  BY <1>2 DEF Min
=============================================================================
