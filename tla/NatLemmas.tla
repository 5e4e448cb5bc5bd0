----------------------------- MODULE NatLemmas -----------------------------
(* Facts about natural numbers, finite sets and positions in lists that    *)
(* proofs of several modules need.                                         *)
EXTENDS Integers, FiniteSets, FiniteSetTheorems, WellFoundedInduction, TLAPS

(* A non-empty set of natural numbers has a least element.                 *)
LEMMA LeastNatural ==
  ASSUME NEW S \in SUBSET Nat, S # {}
  PROVE  \E m \in S : \A n \in S : m <= n
<1> DEFINE R == {p \in Nat \X Nat : p[1] < p[2]}
<1>1. IsWellFoundedOn(R, Nat)
  BY NatLessThanWellFounded DEF OpToRel
<1> HIDE DEF R
<1>2. PICK m \in S : \A n \in S : ~ (<<n, m>> \in R)
  BY <1>1, WFMin
<1>3. ASSUME NEW n \in S PROVE m <= n
  <2>1. n \in Nat /\ m \in Nat
    OBVIOUS
  <2>2. ~ (n < m)
    BY <1>2, <2>1 DEF R
  <2> QED
    BY <2>1, <2>2
<1> QED
  BY <1>3

(* A non-empty set of natural numbers with a bound has a greatest one.     *)
LEMMA GreatestNatural ==
  ASSUME NEW S \in SUBSET Nat, S # {}, NEW b \in Nat, \A n \in S : n <= b
  PROVE  \E m \in S : \A n \in S : n <= m
<1> DEFINE Bounds == {m \in Nat : \A n \in S : n <= m}
<1>1. Bounds \in SUBSET Nat /\ Bounds # {}
  OBVIOUS
<1>2. PICK m \in Bounds : \A k \in Bounds : m <= k
  BY <1>1, LeastNatural
<1>3. m \in S
  <2>1. SUFFICES ASSUME m \notin S PROVE FALSE
    OBVIOUS
  <2>2. PICK n \in S : TRUE
    OBVIOUS
  <2>3. m \in Nat /\ n < m
    BY <2>1, <2>2
  <2>4. m - 1 \in Nat /\ \A k \in S : k <= m - 1
    BY <2>1, <2>3
  <2>5. m - 1 \in Bounds
    BY <2>4
  <2> QED BY <1>2, <2>3, <2>5
<1> QED
  BY <1>3

-----------------------------------------------------------------------------
(* Induction on a finite set: of the subsets with some property, if there  *)
(* are any, one has it that loses it when any one element is taken away.   *)
LEMMA SmallestSet ==
  ASSUME NEW S, IsFiniteSet(S), NEW B \in SUBSET (SUBSET S), B # {}
  PROVE  \E s \in B : \A x \in s : s \ {x} \notin B
<1> DEFINE N == {Cardinality(s) : s \in B}
<1>1. \A s \in SUBSET S : IsFiniteSet(s) /\ Cardinality(s) \in Nat
  BY FS_Subset, FS_CardinalityType
<1>2. N \in SUBSET Nat /\ N # {}
  BY <1>1
<1>3. PICK m \in N : \A n \in N : m <= n
  BY <1>2, LeastNatural
<1>4. PICK s \in B : m = Cardinality(s)
  BY <1>3
<1>5. ASSUME NEW x \in s, s \ {x} \in B PROVE FALSE
  <2>1. Cardinality(s \ {x}) = Cardinality(s) - 1
    BY <1>1, <1>4, FS_RemoveElement
  <2>2. m <= Cardinality(s \ {x})
    BY <1>3, <1>5
  <2> QED BY <2>1, <2>2, <1>1, <1>4
<1> QED BY <1>5

(* A finite set of natural numbers has a bound.                            *)
LEMMA FiniteBound ==
  ASSUME NEW S \in SUBSET Nat, IsFiniteSet(S)
  PROVE  \E b \in Nat : \A n \in S : n <= b
<1> DEFINE Bounded(s) == \E b \in Nat : \A n \in s : n <= b
           B == {s \in SUBSET S : ~ Bounded(s)}
<1>1. SUFFICES ASSUME B # {} PROVE FALSE
  <2>1. S \notin B
    BY <1>1
  <2> QED BY <2>1
<1>2. PICK s \in B : \A x \in s : s \ {x} \notin B
  <2>1. B \in SUBSET (SUBSET S)
    OBVIOUS
  <2> HIDE DEF B
  <2> QED BY <1>1, <2>1, SmallestSet
<1>3. PICK x \in s : TRUE
  BY <1>2
<1>4. PICK b \in Nat : \A n \in s \ {x} : n <= b
  BY <1>2, <1>3
<1>5. x \in Nat /\ s \in SUBSET Nat
  BY <1>2, <1>3
<1>6. \A n \in s : n <= b + x
  BY <1>4, <1>5
<1> QED BY <1>2, <1>5, <1>6

(* A recursion on a finite set that takes away one element after the other *)
(* has a solution.                                                         *)
Recursion(S, W, base, pick, step) ==
  /\ IsFiniteSet(S) /\ base \in W
  /\ \A s \in SUBSET S : s # {} => pick[s] \in s
  /\ step \in [S \X W -> W]

(* h solves it: what h says of s is made of what it says of s without the  *)
(* element picked.                                                         *)
Solution(h, S, W, base, pick, step) ==
  /\ h \in [SUBSET S -> W]
  /\ \A s \in SUBSET S : h[s] = IF s = {} THEN base ELSE step[<<pick[s], h[s \ {pick[s]}]>>]

(* Otherwise there would be a smallest subset that has none.               *)
LEMMA RecursionOnSet ==
  ASSUME NEW S, NEW W, NEW base, NEW pick, NEW step, Recursion(S, W, base, pick, step)
  PROVE  \E h : Solution(h, S, W, base, pick, step)
<1> USE DEF Recursion
<1> DEFINE D(n) == {s \in SUBSET S : Cardinality(s) <= n}
           Solves(h, n) == \A s \in D(n) : h[s] = IF s = {} THEN base ELSE step[<<pick[s], h[s \ {pick[s]}]>>]
           N == {n \in Nat : ~ \E h \in [D(n) -> W] : Solves(h, n)}
<1>1. \A s \in SUBSET S : IsFiniteSet(s) /\ Cardinality(s) \in Nat
  BY FS_Subset, FS_CardinalityType
<1>2. \A s \in SUBSET S : s # {} => s \ {pick[s]} \in SUBSET S /\ pick[s] \in S
                                    /\ Cardinality(s \ {pick[s]}) = Cardinality(s) - 1
  BY <1>1, FS_RemoveElement
<1>3. SUFFICES N = {}
  <2>1. Cardinality(S) \in Nat /\ D(Cardinality(S)) = SUBSET S
    BY <1>1, FS_Subset
  <2>2. \E h \in [D(Cardinality(S)) -> W] : Solves(h, Cardinality(S))
    BY <2>1, <1>3
  <2> QED BY <2>1, <2>2 DEF Solution
<1>4. SUFFICES ASSUME N # {} PROVE FALSE
  OBVIOUS
<1>5. N \in SUBSET Nat
  OBVIOUS
<1>6. PICK n \in N : \A k \in N : n <= k
  BY <1>4, <1>5, LeastNatural
<1>7. CASE n = 0
  <2>1. D(0) = {{}}
    BY <1>1, FS_EmptySet
  <2> DEFINE h == [s \in D(0) |-> base]
  <2>2. h \in [D(0) -> W] /\ Solves(h, 0)
    BY <2>1
  <2>3. 0 \notin N
    BY <2>2
  <2> QED BY <2>3, <1>6, <1>7
<1>8. CASE n > 0
  <2>1. n - 1 \in Nat /\ n - 1 \notin N
    <3> HIDE DEF N
    <3>1. n \in Nat
      BY <1>5
    <3> QED BY <3>1, <1>6, <1>8
  <2>2. PICK g \in [D(n - 1) -> W] : Solves(g, n - 1)
    BY <2>1
  <2> DEFINE h == [s \in D(n) |-> IF s = {} THEN base ELSE step[<<pick[s], g[s \ {pick[s]}]>>]]
  <2>3. ASSUME NEW s \in D(n), s # {} PROVE s \ {pick[s]} \in D(n - 1) /\ pick[s] \in S
    BY <2>3, <1>1, <1>2, <1>6
  <2>4. h \in [D(n) -> W]
    <3>1. \A s \in D(n) : s # {} => step[<<pick[s], g[s \ {pick[s]}]>>] \in W
      BY <2>2, <2>3
    <3> QED BY <3>1
  <2>5. \A s \in D(n - 1) : s \in D(n) /\ h[s] = g[s]
    <3>1. ASSUME NEW s \in D(n - 1) PROVE s \in D(n)
      BY <1>1, <1>6, <2>1
    <3>2. ASSUME NEW s \in D(n - 1) PROVE h[s] = g[s]
      BY <3>1, <2>2
    <3> QED BY <3>1, <3>2
  <2>6. Solves(h, n)
    <3>1. ASSUME NEW s \in D(n), s # {} PROVE h[s \ {pick[s]}] = g[s \ {pick[s]}]
      BY <3>1, <2>3, <2>5
    <3> QED BY <3>1
  <2>7. n \notin N
    BY <2>4, <2>6
  <2> QED BY <2>7, <1>6
<1> QED BY <1>6, <1>7, <1>8

(* The element that the folds of the community modules take.               *)
SomeOf(s) == CHOOSE x \in s : TRUE

(* It is one of the set.                                                   *)
LEMMA AnyIn == \A s : s # {} => SomeOf(s) \in s
  BY DEF SomeOf

-----------------------------------------------------------------------------
(* Positions in a list.                                                    *)

(* A set of positions is finite.                                           *)
LEMMA PositionsFinite ==
  ASSUME NEW n \in Nat, NEW S \in SUBSET (1 .. n)
  PROVE  IsFiniteSet(S) /\ Cardinality(S) \in Nat
<1>1. IsFiniteSet(1 .. n)
  BY FS_Interval
<1>2. IsFiniteSet(S)
  <2> DEFINE U == 1 .. n
  <2>1. IsFiniteSet(U) /\ S \in SUBSET U
    BY <1>1
  <2> HIDE DEF U
  <2> QED BY <2>1, FS_Subset
<1> QED
  BY <1>2, FS_CardinalityType

(* Every rank up to the size of S is that of one position in S.            *)
LEMMA RankExists ==
  ASSUME NEW n \in Nat, NEW S \in SUBSET (1 .. n), NEW k \in 1 .. Cardinality(S)
  PROVE  \E i \in S : Cardinality({j \in S : j <= i}) = k
<1> DEFINE below(i) == {j \in S : j <= i}
           rank == [i \in S |-> Cardinality(below(i))]
           R == 1 .. Cardinality(S)
<1>1. IsFiniteSet(S) /\ Cardinality(S) \in Nat
  BY PositionsFinite
<1>2. ASSUME NEW i \in S
      PROVE  /\ IsFiniteSet(below(i)) /\ Cardinality(below(i)) \in Nat
             /\ Cardinality(below(i)) <= Cardinality(S)
  <2>1. below(i) \in SUBSET S
    OBVIOUS
  <2> HIDE DEF below
  <2>2. IsFiniteSet(below(i)) /\ Cardinality(below(i)) <= Cardinality(S)
    BY <1>1, <2>1, FS_Subset
  <2> QED BY <2>2, FS_CardinalityType
<1>3. ASSUME NEW i \in S PROVE Cardinality(below(i)) \in R
  <2>1. below(i) # {}
    <3>1. i \in below(i)
      OBVIOUS
    <3> QED BY <3>1
  <2>2. Cardinality(below(i)) # 0
    <3> HIDE DEF below
    <3> QED BY <2>1, <1>2, FS_EmptySet
  <2> HIDE DEF below
  <2> QED BY <2>2, <1>1, <1>2
<1>4. ASSUME NEW i \in S, NEW j \in S, i < j
      PROVE  Cardinality(below(i)) # Cardinality(below(j))
  <2>1. below(i) \in SUBSET below(j)
    <3>1. ASSUME NEW m \in S, m <= i PROVE m <= j
      <4>1. m \in Int /\ i \in Int /\ j \in Int
        OBVIOUS
      <4> QED BY <3>1, <4>1, <1>4
    <3> QED BY <3>1
  <2>2. j \in below(j) /\ j \notin below(i)
    BY <1>4
  <2>3. IsFiniteSet(below(j))
    BY <1>2
  <2>4. below(i) # below(j)
    BY <2>2
  <2> HIDE DEF below
  <2> QED BY <2>1, <2>3, <2>4, FS_Subset
<1>5. rank \in Injection(S, R)
  <2>1. rank \in [S -> R]
    BY <1>3
  <2>2. ASSUME NEW i \in S, NEW j \in S, rank[i] = rank[j] PROVE i = j
    <3>1. ~ (i < j) /\ ~ (j < i)
      BY <2>2, <1>4
    <3>2. i \in Int /\ j \in Int
      OBVIOUS
    <3> QED BY <3>1, <3>2
  <2> QED BY <2>1, <2>2 DEF Injection, IsInjective
<1>6. IsFiniteSet(R) /\ Cardinality(R) = Cardinality(S)
  BY <1>1, FS_Interval
<1>7. rank \in Surjection(S, R)
  <2> HIDE DEF rank, R
  <2> QED BY <1>5, <1>6, FS_Injection
<1> QED
  BY <1>7 DEF Surjection

(* Which positions Keep takes, in the order in which it takes them.        *)
LEMMA KeptPositions ==
  ASSUME NEW n \in Nat, NEW S \in SUBSET (1 .. n)
  PROVE  LET at(k) == CHOOSE i \in S : Cardinality({j \in S : j <= i}) = k IN
         /\ Cardinality(S) \in Nat
         /\ \A k \in 1 .. Cardinality(S) : at(k) \in S
         /\ \A k, m \in 1 .. Cardinality(S) : k < m => at(k) < at(m)
<1> DEFINE below(i) == {j \in S : j <= i}
           at(k) == CHOOSE i \in S : Cardinality(below(i)) = k
<1>1. IsFiniteSet(S) /\ Cardinality(S) \in Nat
  BY PositionsFinite
<1>2. ASSUME NEW k \in 1 .. Cardinality(S)
      PROVE  at(k) \in S /\ Cardinality(below(at(k))) = k
  <2>1. \E i \in S : Cardinality(below(i)) = k
    BY RankExists
  <2> HIDE DEF below
  <2> QED BY <2>1
<1>3. ASSUME NEW k \in 1 .. Cardinality(S), NEW m \in 1 .. Cardinality(S), k < m
      PROVE  at(k) < at(m)
  <2>1. /\ at(k) \in S /\ Cardinality(below(at(k))) = k
        /\ at(m) \in S /\ Cardinality(below(at(m))) = m
    BY <1>2
  <2>4. \A i \in S : i \in Int
    OBVIOUS
  <2> HIDE DEF at
  <2>2. at(k) \in Int /\ at(m) \in Int
    <3> HIDE DEF below
    <3> QED BY <2>4, <2>1
  <2>3. ASSUME at(m) <= at(k) PROVE FALSE
    <3>1. below(at(m)) \in SUBSET below(at(k))
      <4>1. ASSUME NEW j \in S, j <= at(m) PROVE j <= at(k)
        <5>1. j \in Int
          OBVIOUS
        <5> QED BY <4>1, <5>1, <2>2, <2>3
      <4> QED BY <4>1
    <3>2. below(at(k)) \in SUBSET S
      OBVIOUS
    <3> HIDE DEF below
    <3>3. IsFiniteSet(below(at(k)))
      BY <3>2, <1>1, FS_Subset
    <3>4. Cardinality(below(at(m))) <= Cardinality(below(at(k)))
      BY <3>1, <3>3, FS_Subset
    <3> QED BY <3>4, <2>1, <1>1, <1>3
  <2> QED BY <2>2, <2>3
<1> QED
  BY <1>1, <1>2, <1>3

=============================================================================
