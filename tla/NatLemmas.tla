------------------------------ MODULE NatLemmas ------------------------------
(***************************************************************************)
(* Facts about natural numbers that the proofs of several components need. *)
(* Induction is stated with a set instead of a predicate, so that a use of *)
(* it is first-order.                                                      *)
(***************************************************************************)
EXTENDS Integers, FiniteSetTheorems, FunctionTheorems, TLAPS

\* A set with 0 and with the successor of each of its members has all natural
\* numbers.
LEMMA SetInduction ==
  ASSUME NEW S, 0 \in S, \A n \in Nat : n \in S => n + 1 \in S
  PROVE  Nat \subseteq S
<1> DEFINE T == Nat \ S
           R == OpToRel(<, Nat)
<1>1. IsWellFoundedOn(R, Nat)
  BY NatLessThanWellFounded, Zenon
<1> SUFFICES ASSUME T # {} PROVE FALSE
  OBVIOUS
<1>2. PICK x \in T : \A y \in T : ~ (<<y, x>> \in R)
  <2>1. T \subseteq Nat
    OBVIOUS
  <2> HIDE DEF R, T
  <2> QED BY <1>1, <2>1, WFMin
<1>3. \A y \in Nat : y < x => <<y, x>> \in R
  BY Zenon DEF OpToRel
<1> HIDE DEF R
<1>4. x \in Nat /\ x # 0 /\ x - 1 \in Nat /\ x - 1 < x
  OBVIOUS
<1>5. x - 1 \in S
  BY <1>2, <1>3, <1>4
<1> QED BY <1>4, <1>5

\* The numbers of a counted set that holds n cannot be told apart by more than n
\* of them.
LEMMA Pigeonhole ==
  ASSUME NEW n \in Nat, NEW m \in Nat,
         NEW f \in [0 .. m -> 0 .. (n - 1)],
         \A i, j \in 0 .. m : f[i] = f[j] => i = j
  PROVE  m < n
<1>1. f \in Injection(0 .. m, 0 .. (n - 1))
  BY Fun_IsInj
<1>2. /\ IsFiniteSet(0 .. (n - 1)) /\ Cardinality(0 .. (n - 1)) = n
      /\ Cardinality(0 .. m) = m + 1
  BY FS_Interval
<1>3. Cardinality(0 .. m) <= Cardinality(0 .. (n - 1))
  BY <1>1, <1>2, FS_Injection
<1> QED BY <1>2, <1>3

\* w has the values met when walking n steps from first, until stop is met.
IsWalk(w, n, first, step, stop) ==
  /\ w[0] = first
  /\ \A m \in 1 .. n : w[m] = IF w[m - 1] = stop THEN stop ELSE step[w[m - 1]]

\* Such a walk is possible from any first value, so a function that a program
\* computes by following links exists.
LEMMA WalkExists ==
  ASSUME NEW n \in Nat, NEW first, NEW step, NEW stop
  PROVE  \E w : IsWalk(w, n, first, step, stop)
<1> DEFINE After(x) == IF x = stop THEN stop ELSE step[x]
           S == {k \in Nat : \E w : IsWalk(w, k, first, step, stop)}
<1>1. 0 \in S
  <2>1. IsWalk([m \in 0 .. 0 |-> first], 0, first, step, stop)
    BY DEF IsWalk
  <2> QED BY <2>1
<1>2. ASSUME NEW k \in Nat, k \in S
      PROVE  k + 1 \in S
  <2>1. PICK w : IsWalk(w, k, first, step, stop)
    BY <1>2
  <2> DEFINE v == [m \in 0 .. (k + 1) |-> IF m = k + 1 THEN After(w[k]) ELSE w[m]]
  <2>2. /\ \A m \in 0 .. k : v[m] = w[m]
        /\ v[k + 1] = After(w[k])
    OBVIOUS
  <2> HIDE DEF v
  <2>3. IsWalk(v, k + 1, first, step, stop)
    BY <2>1, <2>2 DEF IsWalk
  <2> QED BY <2>3
<1> HIDE DEF S
<1>3. n \in S
  BY <1>1, <1>2, SetInduction
<1> QED BY <1>3 DEF S

-----------------------------------------------------------------------------
(***************************************************************************)
(* Places of a ring of n: a counter a that never wraps is at place a % n.  *)
(***************************************************************************)

\* A counter is its laps times n, plus its place.
LEMMA LapAndPlace ==
  ASSUME NEW n \in Nat \ {0}, NEW a \in Nat
  PROVE  /\ a \div n \in Nat
         /\ a % n \in 0 .. (n - 1)
         /\ a = (a \div n) * n + (a % n)
OBVIOUS

\* Whatever writes a as whole laps plus a place names a % n.
LEMMA PlaceUnique ==
  ASSUME NEW n \in Nat \ {0}, NEW a \in Nat, NEW q \in Int, NEW r \in 0 .. (n - 1),
         a = q * n + r
  PROVE  a % n = r
<1> DEFINE p == a \div n
<1>1. /\ p \in Nat
      /\ a % n \in 0 .. (n - 1)
      /\ a = p * n + (a % n)
  BY LapAndPlace
<1> HIDE DEF p
<1>2. (p - q) * n = r - (a % n)
  <2>1. (p - q) * n = p * n - q * n
    BY <1>1
  <2>2. p * n \in Int /\ q * n \in Int
    BY <1>1
  <2> QED BY <1>1, <2>1, <2>2
<1>3. CASE p - q >= 1
  <2>1. (p - q) * n >= n
    BY <1>1, <1>3
  <2> QED BY <1>1, <1>2, <2>1
<1>4. CASE q - p >= 1
  <2>1. (q - p) * n >= n
    BY <1>1, <1>4
  <2>2. (q - p) * n = -((p - q) * n)
    BY <1>1
  <2> QED BY <1>1, <1>2, <2>1, <2>2
<1>5. CASE p = q
  BY <1>1, <1>5
<1> QED BY <1>1, <1>3, <1>4, <1>5

\* The next place is that of the next count.
LEMMA NextPlace ==
  ASSUME NEW n \in Nat \ {0}, NEW a \in Nat
  PROVE  ((a % n) + 1) % n = (a + 1) % n
<1> DEFINE q == a \div n
           r == a % n
<1>1. /\ q \in Nat
      /\ r \in 0 .. (n - 1)
      /\ a = q * n + r
  BY LapAndPlace
<1> HIDE DEF q, r
<1>2. CASE r + 1 < n
  <2>1. a + 1 = q * n + (r + 1) /\ r + 1 \in 0 .. (n - 1) /\ r + 1 = 0 * n + (r + 1)
    BY <1>1, <1>2
  <2>2. (a + 1) % n = r + 1 /\ (r + 1) % n = r + 1
    BY <1>1, <2>1, PlaceUnique
  <2> QED BY <2>2 DEF r
<1>3. CASE r + 1 = n
  <2>1. a + 1 = (q + 1) * n + 0 /\ 0 \in 0 .. (n - 1) /\ r + 1 = 1 * n + 0
    BY <1>1, <1>3
  <2>2. (a + 1) % n = 0 /\ (r + 1) % n = 0
    BY <1>1, <2>1, PlaceUnique
  <2> QED BY <2>2 DEF r
<1> QED BY <1>1, <1>2, <1>3

\* A lap later a count is at the same place.
LEMMA LapLater ==
  ASSUME NEW n \in Nat \ {0}, NEW a \in Nat
  PROVE  (a + n) % n = a % n
<1> DEFINE q == a \div n
           r == a % n
<1>1. q \in Nat /\ r \in 0 .. (n - 1) /\ a = q * n + r
  BY LapAndPlace
<1> HIDE DEF q, r
<1>2. PICK p \in Int : p = q + 1
  BY <1>1
<1>3. a + n = p * n + r /\ a + n \in Nat
  BY <1>1, <1>2
<1>4. (a + n) % n = r
  BY <1>1, <1>3, PlaceUnique
<1> QED BY <1>4 DEF r

\* Two counts less than a lap apart are as far apart as their places.
LEMMA PlaceMinus ==
  ASSUME NEW n \in Nat \ {0}, NEW a \in Nat, NEW b \in Nat, a <= b, b < a + n
  PROVE  ((b % n) - (a % n)) % n = b - a
<1> DEFINE q == a \div n
           r == a % n
           d == b - a
<1>1. /\ q \in Nat
      /\ r \in 0 .. (n - 1)
      /\ a = q * n + r
  BY LapAndPlace
<1> HIDE DEF q, r
<1>2. d \in 0 .. (n - 1) /\ b = a + d
  OBVIOUS
<1> HIDE DEF d
<1>3. CASE r + d < n
  <2>1. b = q * n + (r + d) /\ r + d \in 0 .. (n - 1)
    BY <1>1, <1>2, <1>3
  <2>2. b % n = r + d
    BY <1>1, <1>2, <2>1, PlaceUnique
  <2>3. d = 0 * n + d
    BY <1>1, <1>2
  <2>4. d % n = d
    BY <1>1, <1>2, <2>3, PlaceUnique
  <2>5. (b % n) - r = d
    BY <1>1, <1>2, <2>2
  <2> QED BY <2>4, <2>5 DEF r, d
<1>4. CASE r + d >= n
  <2>1. PICK s \in 0 .. (n - 1) : s = r + d - n
    BY <1>1, <1>2, <1>4
  <2>2. PICK p \in Int : p = q + 1
    BY <1>1
  <2>3. b = p * n + s
    BY <1>1, <1>2, <2>1, <2>2
  <2>4. b % n = s
    BY <2>3, PlaceUnique
  <2>5. (b % n) - r = d - n
    BY <1>1, <1>2, <2>1, <2>4
  <2>6. (d - n) % n = d
    BY <1>1, <1>2
  <2> QED BY <2>5, <2>6 DEF r, d
<1> QED BY <1>1, <1>2, <1>3, <1>4

\* So they are at one place only if they are equal.
LEMMA PlaceEqual ==
  ASSUME NEW n \in Nat \ {0}, NEW a \in Nat, NEW b \in Nat, a <= b, b < a + n,
         a % n = b % n
  PROVE  a = b
<1>1. (b % n) - (a % n) = 0
  BY LapAndPlace
<1>2. 0 = 0 * n + 0
  OBVIOUS
<1>3. 0 % n = 0
  BY <1>2, PlaceUnique
<1>4. b - a = 0
  BY <1>1, <1>3, PlaceMinus
<1> QED BY <1>4
===============================================================================
