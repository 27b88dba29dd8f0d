------------------------------- MODULE Numbers -------------------------------
(***************************************************************************)
(* Facts about numbers that the proofs of several components need: that    *)
(* sets of naturals have a least element, the form in which induction is   *)
(* used here, and arithmetic modulo N, for what goes round in a buffer.    *)
(***************************************************************************)
EXTENDS Integers, WellFoundedInduction, TLAPS

(* The order of numbers has least elements.                                *)
LEMMA Least ==
  ASSUME NEW S \in SUBSET Nat, S # {}
  PROVE  \E m \in S : \A n \in S : m <= n
<1> DEFINE Less == {p \in Nat \X Nat : p[1] < p[2]}
<1>1. IsWellFoundedOn(Less, Nat)
  <2>1. Less = OpToRel(<, Nat)
    BY DEF OpToRel
  <2> QED BY <2>1, NatLessThanWellFounded
<1>2. PICK m \in S : \A n \in S : ~ (<<n, m>> \in Less)
  <2> HIDE DEF Less
  <2> QED BY <1>1, WFMin
<1>3. ASSUME NEW n \in S PROVE m <= n
  <2>1. n < m => <<n, m>> \in Less
    OBVIOUS
  <2> HIDE DEF Less
  <2> QED BY <1>2, <2>1
<1> QED BY <1>3

(* A set with 0 and with the successors of its members has all naturals.   *)
LEMMA Induction ==
  ASSUME NEW S, 0 \in S, \A n \in Nat : n \in S => n + 1 \in S
  PROVE  Nat \subseteq S
<1> SUFFICES ASSUME Nat \ S # {} PROVE FALSE
  OBVIOUS
<1>1. PICK m \in Nat \ S : \A n \in Nat \ S : m <= n
  BY Least
<1>2. m # 0 /\ m - 1 \in Nat /\ (m - 1) + 1 = m
  BY <1>1
<1>3. m - 1 \in S
  BY <1>1, <1>2
<1> QED BY <1>1, <1>2, <1>3

----------------------------------------------------------------------------
(* Quotient and remainder.                                                 *)
LEMMA DivMod ==
  ASSUME NEW N \in Nat \ {0}, NEW a \in Int
  PROVE  /\ a % N \in 0 .. N - 1 /\ a \div N \in Int
         /\ a = N * (a \div N) + (a % N)
OBVIOUS

(* A multiple of N that is nearer to 0 than N is 0.                        *)
LEMMA SmallMultiple ==
  ASSUME NEW N \in Nat \ {0}, NEW k \in Int, N * k < N, 0 - N < N * k
  PROVE  k = 0
<1>1. k >= 1 => N * k >= N
  OBVIOUS
<1>2. k <= 0 - 1 => N * k <= 0 - N
  OBVIOUS
<1> QED BY <1>1, <1>2

(* There is only one way to write a as a multiple of N and a remainder.    *)
LEMMA ModUnique ==
  ASSUME NEW N \in Nat \ {0}, NEW a \in Int, NEW k \in Int, NEW r \in 0 .. N - 1, a = N * k + r
  PROVE  a % N = r /\ a \div N = k
<1> DEFINE q == a \div N
           s == a % N
<1>1. s \in 0 .. N - 1 /\ q \in Int /\ a = N * q + s
  BY DivMod
<1> HIDE DEF q, s
<1>2. N * (q - k) = r - s /\ q - k \in Int /\ r - s < N /\ 0 - N < r - s
  BY <1>1
<1>3. q - k = 0
  BY <1>2, SmallMultiple
<1>4. q = k /\ s = r
  BY <1>1, <1>3
<1> QED BY <1>4 DEF q, s

(* Numbers with one remainder.                                             *)
Congruent(N, a, b) == a % N = b % N

(* It is an equivalence.                                                   *)
LEMMA CongruentSame ==
  ASSUME NEW N, NEW a, NEW b, NEW c
  PROVE  /\ Congruent(N, a, a)
         /\ Congruent(N, a, b) => Congruent(N, b, a)
         /\ Congruent(N, a, b) /\ Congruent(N, b, c) => Congruent(N, a, c)
BY DEF Congruent

(* Every number has the remainder of its remainder.                        *)
LEMMA CongruentMod ==
  ASSUME NEW N \in Nat \ {0}, NEW a \in Int
  PROVE  a % N \in Int /\ Congruent(N, a % N, a) /\ Congruent(N, a, a % N)
<1> DEFINE r == a % N
<1>1. r \in 0 .. N - 1
  BY DivMod
<1> HIDE DEF r
<1>2. r = N * 0 + r /\ r \in Int
  BY <1>1
<1>3. r % N = r
  BY <1>1, <1>2, ModUnique
<1> QED BY <1>2, <1>3 DEF r, Congruent

(* The same step from two numbers with one remainder ends with one.        *)
LEMMA CongruentStep ==
  ASSUME NEW N \in Nat \ {0}, NEW a \in Int, NEW b \in Int, NEW c \in Int, NEW d \in Int,
         Congruent(N, a, b), c - a = d - b
  PROVE  Congruent(N, c, d)
<1> DEFINE q == a \div N
           s == b \div N
           r == a % N
           p == d \div N
           t == d % N
<1>1. r \in 0 .. N - 1 /\ q \in Int /\ a = N * q + r /\ s \in Int /\ b = N * s + r
  BY DivMod DEF Congruent
<1>2. t \in 0 .. N - 1 /\ p \in Int /\ d = N * p + t
  BY DivMod
<1> HIDE DEF q, s, r, p, t
<1>3. c = N * (p + q - s) + t /\ p + q - s \in Int
  BY <1>1, <1>2
<1>4. c % N = t
  <2> DEFINE k == p + q - s
  <2>1. k \in Int /\ c = N * k + t
    BY <1>3
  <2> HIDE DEF k
  <2> QED BY <1>2, <2>1, ModUnique
<1> QED BY <1>4 DEF t, Congruent

(* Two numbers less than N apart with one remainder are equal.             *)
LEMMA CongruentNear ==
  ASSUME NEW N \in Nat \ {0}, NEW a \in Int, NEW b \in Int,
         Congruent(N, a, b), a - b < N, 0 - N < a - b
  PROVE  a = b
<1> DEFINE q == a \div N
           s == b \div N
           r == a % N
<1>1. r \in 0 .. N - 1 /\ q \in Int /\ a = N * q + r /\ s \in Int /\ b = N * s + r
  BY DivMod DEF Congruent
<1> HIDE DEF q, s, r
<1>2. N * (q - s) = a - b /\ q - s \in Int
  BY <1>1
<1>3. q - s = 0
  BY <1>2, SmallMultiple
<1> QED BY <1>1, <1>3

(* A number in range is its own remainder.                                 *)
LEMMA ModSmall ==
  ASSUME NEW N \in Nat \ {0}, NEW a \in 0 .. N - 1
  PROVE  a % N = a
<1>1. a \in Int /\ a = N * 0 + a
  OBVIOUS
<1> QED BY <1>1, ModUnique

(* Equal remainders: the difference has none.                              *)
LEMMA ModDifference ==
  ASSUME NEW N \in Nat \ {0}, NEW a \in Int, NEW b \in Int, Congruent(N, a, b)
  PROVE  (a - b) % N = 0
<1>1. Congruent(N, a - b, 0)
  <2>1. a - b \in Int /\ 0 \in Int /\ (a - b) - a = 0 - b
    OBVIOUS
  <2> QED BY <2>1, CongruentStep
<1>2. 0 % N = 0
  BY ModSmall
<1> QED BY <1>1, <1>2 DEF Congruent

(* Below N nothing goes round, from N to twice N once.                     *)
LEMMA ModOnce ==
  ASSUME NEW N \in Nat \ {0}, NEW a \in 0 .. 2 * N - 1
  PROVE  a % N = IF a < N THEN a ELSE a - N
<1>1. CASE a < N
  <2>1. a \in 0 .. N - 1 /\ a = N * 0 + a /\ a \in Int
    BY <1>1
  <2> QED BY <1>1, <2>1, ModUnique
<1>2. CASE a >= N
  <2>1. a - N \in 0 .. N - 1 /\ a = N * 1 + (a - N) /\ a \in Int
    BY <1>2
  <2> QED BY <1>2, <2>1, ModUnique
<1> QED BY <1>1, <1>2
=============================================================================
