----------------------------- MODULE NaturalFacts -----------------------------
(***************************************************************************)
(* What the proofs need of the natural numbers beyond arithmetic: the       *)
(* least-number principle for sets, and from it the least element of a set  *)
(* of integers, the largest of a bounded set, and induction over a set.     *)
(***************************************************************************)
EXTENDS Integers, WellFoundedInduction, TLAPS

LEMMA SmallestExists ==
  ASSUME NEW S \in SUBSET Nat, S # {}
  PROVE  \E m \in S : \A n \in S : m <= n
<1> DEFINE R == OpToRel(<, Nat)
<1>1. \A a, b \in Nat : <<a, b>> \in R <=> a < b
  BY DEF OpToRel
<1>2. IsWellFoundedOn(R, Nat)
  BY NatLessThanWellFounded
<1> HIDE DEF R
<1>3. PICK m \in S : \A n \in S : ~ (<<n, m>> \in R)
  BY <1>2, WFMin
<1>4. ASSUME NEW n \in S PROVE m <= n
  <2>1. ~ (<<n, m>> \in R) /\ n \in Nat /\ m \in Nat
    BY <1>3
  <2>2. ~ (n < m)
    BY <1>1, <2>1
  <2> QED BY <2>1, <2>2
<1> QED BY <1>4

LEMMA SmallestAbove ==
  ASSUME NEW S \in SUBSET Int, S # {}, NEW b \in Int, \A n \in S : b <= n
  PROVE  \E m \in S : \A n \in S : m <= n
<1> DEFINE N == {n - b : n \in S}
<1>1. N \in SUBSET Nat /\ N # {}
  <2>1. \A n \in S : n - b \in Nat
    OBVIOUS
  <2>2. \E n \in S : n - b \in N
    OBVIOUS
  <2> QED BY <2>1, <2>2
<1>2. PICK k \in N : \A n \in N : k <= n
  <2> HIDE DEF N
  <2> QED BY <1>1, SmallestExists
<1>3. PICK m \in S : k = m - b
  BY <1>2
<1>4. \A n \in S : m - b <= n - b
  BY <1>2, <1>3
<1>5. \A n \in S : m <= n
  BY <1>4
<1> QED BY <1>5

LEMMA AllNaturals ==
  ASSUME NEW S \in SUBSET Nat, 0 \in S, \A n \in S : n + 1 \in S
  PROVE  S = Nat
<1> SUFFICES ASSUME Nat \ S # {} PROVE FALSE
  OBVIOUS
<1>1. PICK m \in Nat \ S : \A n \in Nat \ S : m <= n
  BY SmallestExists
<1>2. m # 0
  BY <1>1
<1>3. m - 1 \in Nat /\ ~ (m <= m - 1)
  BY <1>1, <1>2
<1>4. m - 1 \in S
  BY <1>1, <1>3
<1>5. (m - 1) + 1 \in S
  BY <1>4
<1> QED BY <1>1, <1>5

LEMMA LargestExists ==
  ASSUME NEW S \in SUBSET Nat, S # {}, NEW b \in Nat, \A n \in S : n <= b
  PROVE  \E m \in S : \A n \in S : m >= n
<1> DEFINE N == {b - n : n \in S}
<1>1. N \in SUBSET Nat /\ N # {}
  <2>1. \A n \in S : b - n \in Nat
    OBVIOUS
  <2>2. \E n \in S : b - n \in N
    OBVIOUS
  <2> QED BY <2>1, <2>2
<1>2. PICK k \in N : \A n \in N : k <= n
  <2> HIDE DEF N
  <2> QED BY <1>1, SmallestExists
<1>3. PICK m \in S : k = b - m
  BY <1>2
<1>4. \A n \in S : b - m <= b - n
  BY <1>2, <1>3
<1>5. \A n \in S : m >= n
  BY <1>4
<1> QED BY <1>5
=============================================================================
