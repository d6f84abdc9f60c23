------------------------------ MODULE DataLemmas ------------------------------
(* Facts about numbers and finite sets that several proofs rest on: least and    *)
(* greatest elements, and induction stated for a set of naturals.               *)
EXTENDS Integers, FiniteSets, FiniteSetsExt, FiniteSetTheorems, WellFoundedInduction, TLAPS

Below == {p \in Nat \X Nat : p[1] < p[2]}

\* A set of naturals that is not empty has a least element.
LEMMA LeastNatural ==
    ASSUME NEW T \in SUBSET Nat, T # {}
    PROVE  \E x \in T : \A y \in T : x <= y
<1>1. OpToRel(<, Nat) = Below
  BY DEF OpToRel, Below
<1>2. IsWellFoundedOn(Below, Nat)
  BY NatLessThanWellFounded, <1>1
<1>3. PICK x \in T : \A y \in T : ~ (<<y, x>> \in Below)
  BY <1>2, WFMin
<1>4. ASSUME NEW y \in T PROVE x <= y
  <2>1. x \in Nat /\ y \in Nat /\ <<y, x>> \in Nat \X Nat
    OBVIOUS
  <2>2. ~ (<<y, x>> \in Below)
    BY <1>3
  <2>3. <<y, x>>[1] = y /\ <<y, x>>[2] = x
    OBVIOUS
  <2> QED BY <2>1, <2>2, <2>3 DEF Below
<1> QED BY <1>4

\* A set with 0 that has the successor of each of its naturals has all naturals.
LEMMA Induction ==
    ASSUME NEW S, 0 \in S, \A n \in Nat : n \in S => n + 1 \in S
    PROVE  Nat \subseteq S
<1>1. ASSUME Nat \ S # {} PROVE FALSE
  <2>1. PICK x \in Nat \ S : \A y \in Nat \ S : x <= y
    BY <1>1, LeastNatural
  <2>2. x # 0 /\ x - 1 \in Nat /\ x - 1 \in S
    BY <2>1
  <2> QED BY <2>1, <2>2
<1> QED BY <1>1

\* A set of integers that is not empty and bounded above has a greatest element.
LEMMA GreatestBelow ==
    ASSUME NEW T \in SUBSET Int, T # {}, NEW n \in Int, \A x \in T : x <= n
    PROVE  Max(T) \in T /\ \A y \in T : y <= Max(T)
<1> DEFINE D == {n - x : x \in T}
<1>1. D \in SUBSET Nat /\ D # {}
  <2>1. ASSUME NEW x \in T PROVE n - x \in Nat
    <3>1. x \in Int /\ x <= n
      OBVIOUS
    <3> QED BY <3>1
  <2>2. PICK x \in T : TRUE
    OBVIOUS
  <2>3. n - x \in D
    BY <2>2
  <2> QED BY <2>1, <2>3
<1>2. PICK d \in D : \A e \in D : d <= e
  BY <1>1, LeastNatural
<1>3. PICK x \in T : d = n - x
  BY <1>2
<1>4. ASSUME NEW y \in T PROVE x >= y
  <2>1. n - y \in D
    OBVIOUS
  <2> QED BY <1>2, <1>3, <2>1
<1>5. \E m \in T : \A y \in T : m >= y
  BY <1>4
<1>6. Max(T) \in T /\ \A y \in T : Max(T) >= y
  BY <1>5 DEF Max
<1> QED BY <1>6

\* A finite set of integers is bounded.
LEMMA FiniteBounded ==
    ASSUME NEW T \in SUBSET Int, IsFiniteSet(T)
    PROVE  \E n \in Int : \A x \in T : x <= n
<1> DEFINE P(n) == \A S \in SUBSET Int : IsFiniteSet(S) /\ Cardinality(S) = n =>
                        \E m \in Int : \A x \in S : x <= m
           N == {n \in Nat : P(n)}
<1>1. 0 \in N
  <2>1. ASSUME NEW S \in SUBSET Int, IsFiniteSet(S), Cardinality(S) = 0 PROVE S = {}
    BY <2>1, FS_EmptySet
  <2>2. P(0)
    BY <2>1
  <2> QED BY <2>2
<1>2. ASSUME NEW n \in Nat, n \in N PROVE n + 1 \in N
  <2>1. SUFFICES ASSUME NEW S \in SUBSET Int, IsFiniteSet(S), Cardinality(S) = n + 1
                 PROVE  \E m \in Int : \A x \in S : x <= m
    OBVIOUS
  <2>2. PICK y \in S : TRUE
    <3>1. n + 1 # 0
      OBVIOUS
    <3> QED BY <2>1, <3>1, FS_EmptySet
  <2>3. IsFiniteSet(S \ {y}) /\ Cardinality(S \ {y}) = n
    BY <2>1, <2>2, FS_RemoveElement
  <2>4. PICK m \in Int : \A x \in S \ {y} : x <= m
    BY <1>2, <2>3
  <2>5. CASE m <= y
    BY <2>2, <2>4, <2>5
  <2>6. CASE y <= m
    BY <2>2, <2>4, <2>6
  <2> QED BY <2>2, <2>4, <2>5, <2>6
<1> HIDE DEF N
<1>3. Nat \subseteq N
  BY <1>1, <1>2, Induction
<1>4. Cardinality(T) \in Nat
  BY FS_CardinalityType
<1>5. P(Cardinality(T))
  BY <1>3, <1>4 DEF N
<1> QED BY <1>5

\* A finite set of integers that is not empty has a greatest element.
LEMMA GreatestFinite ==
    ASSUME NEW T \in SUBSET Int, T # {}, IsFiniteSet(T)
    PROVE  Max(T) \in T /\ \A y \in T : y <= Max(T)
BY FiniteBounded, GreatestBelow

\* A set of integers that is not empty and bounded below has a least element.
LEMMA LeastAbove ==
    ASSUME NEW T \in SUBSET Int, T # {}, \E n \in Int : \A x \in T : n <= x
    PROVE  Min(T) \in T /\ \A y \in T : Min(T) <= y
<1>1. PICK n \in Int : \A x \in T : n <= x
  OBVIOUS
<1> DEFINE D == {x - n : x \in T}
<1>2. D \in SUBSET Nat /\ D # {}
  BY <1>1
<1>3. PICK d \in D : \A e \in D : d <= e
  BY <1>2, LeastNatural
<1>4. PICK x \in T : d = x - n
  BY <1>3
<1>5. ASSUME NEW y \in T PROVE x <= y
  <2>1. y - n \in D
    OBVIOUS
  <2>2. d <= y - n
    BY <1>3, <2>1
  <2> QED BY <1>4, <2>2
<1> QED BY <1>5 DEF Min
==============================================================================
