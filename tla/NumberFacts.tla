---------------------------- MODULE NumberFacts ----------------------------
(* Least and greatest members of sets of numbers, and induction over the   *)
(* numbers as a fact about a set: what the other proofs count with.        *)
EXTENDS Integers, FiniteSetsExt, TLAPS, NaturalsInduction, WellFoundedInduction

(* A set of natural numbers that is not empty has a least member.          *)
LEMMA MinFacts ==
    ASSUME NEW S \in SUBSET Nat, S # {}
    PROVE  /\ Min(S) \in S
           /\ \A x \in S : Min(S) <= x
<1>1. PICK m \in S : \A x \in S : ~ <<x, m>> \in OpToRel(<, Nat)
  BY NatLessThanWellFounded, WFMin
<1>2. ASSUME NEW x \in S
      PROVE  m <= x
  <2>1. ~ (x < m)
    <3> SUFFICES ASSUME x < m
                 PROVE  <<x, m>> \in OpToRel(<, Nat)
      BY <1>1
    <3>1. <<x, m>> \in Nat \X Nat /\ <<x, m>>[1] < <<x, m>>[2]
      BY SMT
    <3> QED BY <3>1, Zenon DEF OpToRel
  <2> QED BY <2>1
<1> QED BY <1>2 DEF Min

(* A set of numbers with an upper bound has a greatest member.             *)
LEMMA MaxFacts ==
    ASSUME NEW n \in Nat, NEW S \in SUBSET (0..n), S # {}
    PROVE  /\ Max(S) \in S
           /\ \A x \in S : x <= Max(S)
<1> DEFINE T == {n - x : x \in S}
<1>0. \A x \in S : x \in 0..n
  OBVIOUS
<1>1. T \subseteq Nat /\ T # {}
  <2>1. \A x \in S : n - x \in Nat
    BY <1>0, SMT
  <2> QED BY <2>1, Zenon
<1>2. Min(T) \in T /\ \A y \in T : Min(T) <= y
  <2> HIDE DEF T
  <2> QED BY <1>1, MinFacts
<1>3. PICK m \in S : Min(T) = n - m
  BY <1>2, Zenon
<1>4. \A x \in S : n - m <= n - x
  BY <1>2, <1>3, Zenon
<1>5. \A x \in S : x <= m
  BY <1>0, <1>4, SMT
<1> QED BY <1>5 DEF Max

(* A set that has 0, and with every number the next, has all of them.      *)
LEMMA AllNumbers ==
    ASSUME NEW S, 0 \in S, \A n \in Nat : n \in S => n + 1 \in S
    PROVE  Nat \subseteq S
<1> SUFFICES ASSUME Nat \ S # {}
             PROVE  FALSE
  OBVIOUS
<1> DEFINE m == Min(Nat \ S)
<1>1. m \in Nat \ S /\ \A x \in Nat \ S : m <= x
  BY MinFacts, Zenon
<1> HIDE DEF m
<1>2. m - 1 \in Nat \ S
  BY <1>1
<1> QED BY <1>1, <1>2

(* The same up to a number.                                                *)
LEMMA AllUpTo ==
    ASSUME NEW N \in Nat, NEW S, 0 \in S, \A n \in 0..(N - 1) : n \in S => n + 1 \in S
    PROVE  0..N \subseteq S
<1> DEFINE T == S \cup {n \in Nat : n > N}
<1>1. \A n \in Nat : n \in T => n + 1 \in T
  <2> TAKE n \in Nat
  <2>1. CASE n >= N
    BY <2>1
  <2>2. CASE n < N
    BY <2>2
  <2> QED BY <2>1, <2>2
<1>2. 0 \in T
  OBVIOUS
<1>3. Nat \subseteq T
  <2> HIDE DEF T
  <2> QED BY <1>1, <1>2, AllNumbers
<1> QED BY <1>3

(* A number is a multiple of another and what remains.                     *)
LEMMA Division ==
    ASSUME NEW x \in Nat, NEW d \in Nat \ {0}
    PROVE  x % d \in 0..(d - 1) /\ \E q \in Nat : x = d * q + (x % d)
<1>1. x % d \in 0..(d - 1)
  OBVIOUS
<1>2. x = d * (x \div d) + (x % d)
  OBVIOUS
<1>3. x \div d \in Nat
  OBVIOUS
<1> QED BY <1>1, <1>2, <1>3, Zenon

(* ... in one way only.                                                    *)
LEMMA RemainderIs ==
    ASSUME NEW d \in Nat \ {0}, NEW q \in Nat, NEW r \in 0..(d - 1)
    PROVE  (d * q + r) % d = r
<1> DEFINE x == d * q + r
           s == x % d
<1>1. x \in Nat
  OBVIOUS
<1> HIDE DEF x
<1>2. s \in 0..(d - 1) /\ \E p \in Nat : x = d * p + s
  BY <1>1, Division
<1>3. PICK p \in Nat : x = d * p + s
  BY <1>2
<1> HIDE DEF s
<1>4. d * q + r = d * p + s
  BY <1>3 DEF x
<1>5. CASE q = p
  BY <1>2, <1>4, <1>5 DEF s, x
<1>6. CASE q >= p + 1
  <2>1. d * q >= d * (p + 1) /\ d * (p + 1) = d * p + d
    BY <1>6
  <2> QED BY <1>2, <1>4, <2>1
<1>7. CASE p >= q + 1
  <2>1. d * p >= d * (q + 1) /\ d * (q + 1) = d * q + d
    BY <1>7
  <2> QED BY <1>2, <1>4, <2>1
<1> QED BY <1>5, <1>6, <1>7

(* The remainder by a multiple of d says what the remainder by d is.       *)
LEMMA RemainderOfRemainder ==
    ASSUME NEW x \in Nat, NEW d \in Nat \ {0}, NEW j \in Nat \ {0}
    PROVE  (x % (j * d)) % d = x % d
<1> DEFINE r == x % (j * d)
           s == r % d
<1>1. j * d \in Nat \ {0}
  OBVIOUS
<1>2. PICK q \in Nat : x = (j * d) * q + r
  BY <1>1, Division
<1>3. r \in Nat
  BY <1>1, Division
<1> HIDE DEF r
<1>4. PICK p \in Nat : r = d * p + s
  BY <1>3, Division
<1>5. s \in 0..(d - 1)
  BY <1>3, Division
<1> HIDE DEF s
<1>6. x = d * (j * q + p) + s /\ j * q + p \in Nat
  <2>1. (j * d) * q = d * (j * q) /\ d * (j * q + p) = d * (j * q) + d * p /\ j * q \in Nat
    OBVIOUS
  <2> QED BY <1>2, <1>4, <1>5, <2>1
<1>7. x % d = s
  BY <1>5, <1>6, RemainderIs
<1> QED BY <1>7 DEF r, s


=============================================================================
