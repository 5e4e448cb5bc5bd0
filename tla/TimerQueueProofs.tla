-------------------------- MODULE TimerQueueProofs --------------------------
(***************************************************************************)
(* What the list operations of TimerQueue do to a list of timers: each     *)
(* returns a list of timers again, and an ordered one if it was given one, *)
(* and has as many timers of each sort as its name says.                   *)
(* T is any set of records with an integer `timeout'.                      *)
(***************************************************************************)
EXTENDS TimerQueue, NatLemmas, FiniteSetTheorems, SequenceTheorems

HasTimeouts(T) == \A t \in T : t.timeout \in Int

-----------------------------------------------------------------------------
(* insert_timer.                                                           *)

(* The walk of insert_timer ends: every list has a place for the new timer.*)
LEMMA InsertPosChosen ==
  ASSUME NEW T, HasTimeouts(T), NEW q \in Seq(T), NEW t \in T
  PROVE  LET p == InsertPos(q, t) IN
         /\ p \in 1 .. Len(q) + 1
         /\ \A i \in 1 .. p - 1 : q[i].timeout < t.timeout
         /\ p <= Len(q) => q[p].timeout >= t.timeout
<1> DEFINE Stop == {p \in 1 .. Len(q) + 1 : p <= Len(q) => q[p].timeout >= t.timeout}
<1>1. Len(q) + 1 \in Stop /\ Stop \in SUBSET Nat
  OBVIOUS
<1>2. PICK p \in Stop : \A n \in Stop : p <= n
  <2> HIDE DEF Stop
  <2> QED BY <1>1, LeastNatural
<1>3. ASSUME NEW i \in 1 .. p - 1 PROVE q[i].timeout < t.timeout
  <2>1. i \in 1 .. Len(q) /\ i \notin Stop
    BY <1>2
  <2>2. q[i] \in T
    BY <2>1, ElementOfSeq
  <2> QED
    BY <2>1, <2>2 DEF HasTimeouts
<1> QED
  BY <1>2, <1>3 DEF InsertPos

(* r is the list q with t at p, element by element.                        *)
WithAt(T, q, p, t, r) ==
  /\ r \in Seq(T) /\ Len(r) = Len(q) + 1
  /\ \A i \in 1 .. Len(q) + 1 : r[i] = IF i < p THEN q[i] ELSE IF i = p THEN t ELSE q[i - 1]

(* InsertAt is what its name says.                                         *)
LEMMA InsertedElements ==
  ASSUME NEW T, NEW q \in Seq(T), NEW t \in T, NEW p \in 1 .. Len(q) + 1
  PROVE  WithAt(T, q, p, t, InsertAt(q, p, t))
<1> DEFINE a == SubSeq(q, 1, p - 1)
           b == SubSeq(q, p, Len(q))
<1>1. Len(q) \in Nat /\ p \in Int
  OBVIOUS
<1>2. \A i \in 1 .. Len(q) : q[i] \in T
  BY ElementOfSeq
<1>3. /\ a \in Seq(T) /\ Len(a) = p - 1
      /\ \A i \in 1 .. p - 1 : a[i] = q[i]
  <2>1. \A i \in 1 .. p - 1 : q[i] \in T
    BY <1>1, <1>2
  <2>2. /\ SubSeq(q, 1, p - 1) \in Seq(T)
        /\ Len(SubSeq(q, 1, p - 1)) = IF 1 <= p - 1 THEN (p - 1) - 1 + 1 ELSE 0
        /\ \A i \in 1 .. (p - 1) - 1 + 1 : SubSeq(q, 1, p - 1)[i] = q[1 + i - 1]
    BY <2>1, SubSeqProperties
  <2> QED BY <2>2
<1>4. /\ b \in Seq(T) /\ Len(b) = Len(q) - p + 1
      /\ \A i \in 1 .. Len(q) - p + 1 : b[i] = q[p + i - 1]
  <2>1. \A i \in p .. Len(q) : q[i] \in T
    BY <1>1, <1>2
  <2>2. /\ SubSeq(q, p, Len(q)) \in Seq(T)
        /\ Len(SubSeq(q, p, Len(q))) = IF p <= Len(q) THEN Len(q) - p + 1 ELSE 0
        /\ \A i \in 1 .. Len(q) - p + 1 : SubSeq(q, p, Len(q))[i] = q[p + i - 1]
    BY <1>1, <2>1, SubSeqProperties
  <2> QED BY <2>2, <1>1
<1> HIDE DEF a, b
<1>5. /\ <<t>> \in Seq(T) /\ Len(<<t>>) = 1 /\ <<t>>[1] = t
  OBVIOUS
<1> DEFINE at  == a \o <<t>>
           atb == at \o b
<1>6. /\ at \in Seq(T) /\ Len(at) = p
      /\ \A i \in 1 .. p : at[i] = IF i < p THEN q[i] ELSE t
  BY <1>3, <1>5, ConcatProperties
<1> HIDE DEF at
<1>7. /\ atb \in Seq(T) /\ Len(atb) = Len(q) + 1
      /\ \A i \in 1 .. Len(q) + 1 : atb[i] = IF i <= p THEN at[i] ELSE b[i - p]
  <2>1. /\ at \o b \in Seq(T) /\ Len(at \o b) = Len(at) + Len(b)
        /\ \A i \in 1 .. Len(at) + Len(b) :
             (at \o b)[i] = IF i <= Len(at) THEN at[i] ELSE b[i - Len(at)]
    BY <1>4, <1>6, ConcatProperties
  <2>2. Len(at) + Len(b) = Len(q) + 1
    BY <1>1, <1>4, <1>6
  <2> QED BY <2>1, <2>2, <1>6
<1>8. InsertAt(q, p, t) = atb
  BY DEF InsertAt, a, b, at
<1> HIDE DEF atb
<1>9. ASSUME NEW i \in 1 .. Len(q) + 1
      PROVE  atb[i] = IF i < p THEN q[i] ELSE IF i = p THEN t ELSE q[i - 1]
  <2>1. CASE i <= p
    <3>1. i \in 1 .. p /\ atb[i] = at[i]
      BY <2>1, <1>1, <1>7
    <3> QED BY <2>1, <3>1, <1>1, <1>6
  <2>2. CASE i > p
    <3>1. i - p \in 1 .. Len(q) - p + 1 /\ p + (i - p) - 1 = i - 1
      BY <2>2, <1>1
    <3>2. b[i - p] = q[i - 1]
      BY <3>1, <1>4
    <3> QED BY <2>2, <3>2, <1>7, <1>1
  <2> QED BY <2>1, <2>2, <1>1
<1> QED
  BY <1>7, <1>8, <1>9 DEF WithAt

(* What insert_timer returns, element by element.                          *)
LEMMA InsertedTimer ==
  ASSUME NEW T, HasTimeouts(T), NEW q \in Seq(T), NEW t \in T
  PROVE  \E p \in 1 .. Len(q) + 1 : p = InsertPos(q, t) /\ WithAt(T, q, p, t, insert_timer(q, t))
<1> DEFINE p == InsertPos(q, t)
           r == insert_timer(q, t)
<1>1. p \in 1 .. Len(q) + 1
  BY InsertPosChosen
<1>2. r = InsertAt(q, p, t) /\ p = InsertPos(q, t)
  BY DEF insert_timer
<1> HIDE DEF p, r
<1>3. WithAt(T, q, p, t, InsertAt(q, p, t))
  BY <1>1, InsertedElements
<1> QED
  BY <1>1, <1>2, <1>3 DEF r

(* insert_timer keeps the list a list, and in order.                       *)
LEMMA InsertTimer ==
  ASSUME NEW T, HasTimeouts(T), NEW q \in Seq(T), NEW t \in T
  PROVE  /\ insert_timer(q, t) \in Seq(T)
         /\ Ordered(q) => Ordered(insert_timer(q, t))
<1> DEFINE r == insert_timer(q, t)
<1>0. PICK p \in 1 .. Len(q) + 1 : p = InsertPos(q, t) /\ WithAt(T, q, p, t, r)
  BY InsertedTimer
<1>1. /\ p \in 1 .. Len(q) + 1
      /\ \A i \in 1 .. p - 1 : q[i].timeout < t.timeout
      /\ p <= Len(q) => q[p].timeout >= t.timeout
  BY <1>0, InsertPosChosen
<1>2. /\ r \in Seq(T) /\ Len(r) = Len(q) + 1
      /\ \A i \in 1 .. Len(q) + 1 : r[i] = IF i < p THEN q[i] ELSE IF i = p THEN t ELSE q[i - 1]
  BY <1>0 DEF WithAt
<1> HIDE DEF r
<1>3. ASSUME Ordered(q) PROVE Ordered(r)
  <2>1. \A i \in 1 .. Len(q) : q[i].timeout \in Int
    BY ElementOfSeq DEF HasTimeouts
  <2>2. t.timeout \in Int
    BY DEF HasTimeouts
  <2>3. \A i, j \in 1 .. Len(q) : i < j => q[i].timeout <= q[j].timeout
    BY <1>3 DEF Ordered
  <2>4. \A j \in 1 .. Len(q) : p <= j => t.timeout <= q[j].timeout
    BY <1>1, <2>1, <2>2, <2>3
  <2>5. ASSUME NEW i \in 1 .. Len(q) + 1, NEW j \in 1 .. Len(q) + 1, i < j
        PROVE  r[i].timeout <= r[j].timeout
    <3>1. CASE j < p
      BY <3>1, <2>5, <1>1, <1>2, <2>3
    <3>2. CASE j = p
      BY <3>2, <2>5, <1>1, <1>2, <2>1, <2>2
    <3>3. CASE j > p /\ i < p
      <4>1. r[i] = q[i] /\ r[j] = q[j - 1]
        BY <3>3, <1>1, <1>2
      <4>2. q[i].timeout < t.timeout /\ t.timeout <= q[j - 1].timeout
        BY <3>3, <1>1, <2>4
      <4> QED BY <4>1, <4>2, <2>1, <2>2, <3>3, <1>1
    <3>4. CASE j > p /\ i = p
      <4>1. r[i] = t /\ r[j] = q[j - 1]
        BY <3>4, <1>1, <1>2
      <4> QED BY <4>1, <2>4, <3>4, <1>1
    <3>5. CASE j > p /\ i > p
      <4>1. r[i] = q[i - 1] /\ r[j] = q[j - 1]
        BY <3>5, <1>1, <1>2
      <4> QED BY <4>1, <2>3, <3>5, <2>5, <1>1
    <3> QED BY <3>1, <3>2, <3>3, <3>4, <3>5, <1>1
  <2> QED BY <2>5, <1>2 DEF Ordered
<1> QED
  BY <1>2, <1>3 DEF r

-----------------------------------------------------------------------------
(* Keep: the sub-list at a set of positions.                               *)

(* Unlinking keeps a list a list, in order, and adds nothing to it.        *)
LEMMA KeepList ==
  ASSUME NEW T, NEW q \in Seq(T), NEW S \in SUBSET DOMAIN q
  PROVE  /\ Keep(q, S) \in Seq(T)
         /\ Ordered(q) => Ordered(Keep(q, S))
         /\ \A k \in DOMAIN Keep(q, S) : \E i \in S : Keep(q, S)[k] = q[i]
<1> DEFINE at(k) == CHOOSE i \in S : Cardinality({j \in S : j <= i}) = k
<1>1. Len(q) \in Nat /\ DOMAIN q = 1 .. Len(q)
  OBVIOUS
<1>2. /\ Cardinality(S) \in Nat
      /\ \A k \in 1 .. Cardinality(S) : at(k) \in S
      /\ \A k, m \in 1 .. Cardinality(S) : k < m => at(k) < at(m)
  BY <1>1, KeptPositions
<1>3. Keep(q, S) = [k \in 1 .. Cardinality(S) |-> q[at(k)]]
  BY DEF Keep
<1> HIDE DEF at
<1>4. \A k \in 1 .. Cardinality(S) : q[at(k)] \in T
  BY <1>2, ElementOfSeq
<1>5. Keep(q, S) \in Seq(T) /\ DOMAIN Keep(q, S) = 1 .. Cardinality(S)
  BY <1>2, <1>3, <1>4, IsASeq
<1>6. ASSUME Ordered(q) PROVE Ordered(Keep(q, S))
  BY <1>6, <1>2, <1>3, <1>5 DEF Ordered
<1> QED
  BY <1>2, <1>3, <1>5, <1>6

-----------------------------------------------------------------------------
(* How many elements of a list are in a set, and how the operations change *)
(* that number.                                                            *)

(* Where the elements of q that are in W stand, and how many they are.     *)
Sel(q, W) == {i \in DOMAIN q : q[i] \in W}
Num(q, W) == Cardinality(Sel(q, W))

(* The number is a natural number.                                         *)
LEMMA NumType ==
  ASSUME NEW T, NEW q \in Seq(T), NEW W
  PROVE  IsFiniteSet(Sel(q, W)) /\ Num(q, W) \in Nat
<1>1. Sel(q, W) \in SUBSET (1 .. Len(q)) /\ Len(q) \in Nat
  BY DEF Sel
<1> QED
  BY <1>1, PositionsFinite DEF Num

(* It is zero when there is no such element.                               *)
LEMMA NumZero ==
  ASSUME NEW T, NEW q \in Seq(T), NEW W
  PROVE  Num(q, W) = 0 <=> \A i \in DOMAIN q : q[i] \notin W
<1>1. Num(q, W) = 0 <=> Sel(q, W) = {}
  BY NumType, FS_EmptySet DEF Num
<1> QED
  BY <1>1 DEF Sel

(* It is zero for the empty list.                                          *)
LEMMA NumEmpty == \A W : Num(<<>>, W) = 0
<1>1. \A W : Sel(<<>>, W) = {}
  BY DEF Sel
<1> QED
  BY <1>1, FS_EmptySet DEF Num

(* Two sets of positions that correspond one to one have the same size.    *)
LEMMA OneToOne ==
  ASSUME NEW A, NEW B, IsFiniteSet(A), NEW f \in [A -> B],
         \A x, y \in A : f[x] = f[y] => x = y,
         \A z \in B : \E x \in A : f[x] = z
  PROVE  Cardinality(B) = Cardinality(A)
<1>1. f \in Bijection(A, B)
  BY DEF Bijection, Injection, IsInjective, Surjection
<1> QED
  BY <1>1, FS_Bijection DEF ExistsBijection

(* insert_timer adds one element.                                          *)
LEMMA NumInsert ==
  ASSUME NEW T, HasTimeouts(T), NEW q \in Seq(T), NEW t \in T, NEW W
  PROVE  Num(insert_timer(q, t), W) = Num(q, W) + IF t \in W THEN 1 ELSE 0
<1> DEFINE r == insert_timer(q, t)
<1>0. PICK p \in 1 .. Len(q) + 1 : p = InsertPos(q, t) /\ WithAt(T, q, p, t, r)
  BY InsertedTimer
<1> DEFINE A == Sel(q, W)
           B == Sel(r, W)
           f == [i \in A |-> IF i < p THEN i ELSE i + 1]
<1>1. p \in 1 .. Len(q) + 1
  OBVIOUS
<1>2. /\ r \in Seq(T) /\ Len(r) = Len(q) + 1
      /\ \A i \in 1 .. Len(q) + 1 : r[i] = IF i < p THEN q[i] ELSE IF i = p THEN t ELSE q[i - 1]
  BY <1>0 DEF WithAt
<1> HIDE DEF r
<1>3. Len(q) \in Nat /\ DOMAIN q = 1 .. Len(q) /\ DOMAIN r = 1 .. Len(q) + 1
  BY <1>2, LenProperties
<1>4. /\ A = {i \in 1 .. Len(q) : q[i] \in W}
      /\ B = {i \in 1 .. Len(q) + 1 : r[i] \in W}
  BY <1>3 DEF Sel
<1>5. IsFiniteSet(A) /\ IsFiniteSet(B) /\ Num(q, W) = Cardinality(A) /\ Num(r, W) = Cardinality(B)
  BY <1>2, NumType DEF Num
<1> HIDE DEF A, B
<1>6. ASSUME NEW i \in A PROVE f[i] \in B \ {p}
  <2>1. i \in 1 .. Len(q) /\ q[i] \in W
    BY <1>4
  <2>2. CASE i < p
    BY <1>1, <1>2, <1>3, <1>4, <2>1, <2>2
  <2>3. CASE i >= p
    <3>1. i + 1 \in 1 .. Len(q) + 1 /\ ~(i + 1 < p) /\ i + 1 # p /\ (i + 1) - 1 = i
      BY <1>1, <1>3, <2>1, <2>3
    <3>2. r[i + 1] = q[i] /\ f[i] = i + 1
      BY <1>1, <1>2, <2>1, <2>3, <3>1
    <3> QED BY <3>1, <3>2, <2>1, <1>4
  <2> QED BY <1>1, <1>3, <2>1, <2>2, <2>3
<1>7. \A i, j \in A : f[i] = f[j] => i = j
  <2>1. \A i \in A : i \in Nat
    BY <1>4
  <2> QED BY <2>1, <1>1, <1>3
<1>8. ASSUME NEW z \in B \ {p} PROVE \E i \in A : f[i] = z
  <2>1. z \in 1 .. Len(q) + 1 /\ r[z] \in W /\ z # p
    BY <1>4
  <2>2. CASE z < p
    <3>1. z \in 1 .. Len(q) /\ r[z] = q[z]
      BY <1>1, <1>2, <1>3, <2>1, <2>2
    <3>2. z \in A
      BY <3>1, <2>1, <1>4
    <3>3. f[z] = z
      BY <3>2, <2>2
    <3> QED BY <3>2, <3>3
  <2>3. CASE z > p
    <3>1. z - 1 \in 1 .. Len(q) /\ r[z] = q[z - 1] /\ ~(z - 1 < p) /\ (z - 1) + 1 = z
      BY <1>1, <1>2, <1>3, <2>1, <2>3
    <3>2. z - 1 \in A
      BY <3>1, <2>1, <1>4
    <3>3. f[z - 1] = z
      BY <3>1, <3>2
    <3> QED BY <3>2, <3>3
  <2> QED BY <1>1, <1>3, <2>1, <2>2, <2>3
<1>9. Cardinality(B \ {p}) = Cardinality(A)
  <2>1. f \in [A -> B \ {p}]
    BY <1>6
  <2> HIDE DEF f
  <2> QED BY <2>1, <1>5, <1>7, <1>8, OneToOne
<1>10. Cardinality(B \ {p}) = IF p \in B THEN Cardinality(B) - 1 ELSE Cardinality(B)
  BY <1>5, FS_RemoveElement
<1>11. p \in B <=> t \in W
  BY <1>1, <1>2, <1>3, <1>4
<1>12. Cardinality(A) \in Nat /\ Cardinality(B) \in Nat
  BY <1>5, FS_CardinalityType
<1> QED
  BY <1>5, <1>9, <1>10, <1>11, <1>12 DEF r

(* Keep takes the positions S, one to one.                                 *)
LEMMA NumKeep ==
  ASSUME NEW T, NEW q \in Seq(T), NEW S \in SUBSET DOMAIN q, NEW W
  PROVE  Num(Keep(q, S), W) = Cardinality(S \cap Sel(q, W))
<1> DEFINE at(k) == CHOOSE i \in S : Cardinality({j \in S : j <= i}) = k
           r == Keep(q, S)
           A == Sel(r, W)
           B == S \cap Sel(q, W)
           R == 1 .. Cardinality(S)
           g == [k \in R |-> at(k)]
           f == [k \in A |-> g[k]]
<1>1. Len(q) \in Nat /\ DOMAIN q = 1 .. Len(q)
  OBVIOUS
<1>2. /\ Cardinality(S) \in Nat
      /\ \A k \in R : at(k) \in S
      /\ \A k, m \in R : k < m => at(k) < at(m)
  BY <1>1, KeptPositions
<1>3. r = [k \in R |-> q[at(k)]] /\ r \in Seq(T)
  BY KeepList DEF Keep
<1> HIDE DEF at, r
<1>4. \A k \in R : g[k] \in S /\ g[k] \in Nat /\ r[k] = q[g[k]]
  BY <1>1, <1>2, <1>3
<1>5. \A k, m \in R : k < m => g[k] < g[m]
  BY <1>2
<1>6. g \in [R -> S]
  BY <1>4
<1>7. IsFiniteSet(R) /\ Cardinality(R) = Cardinality(S) /\ IsFiniteSet(S)
  <2>1. IsFiniteSet(S)
    BY <1>1, PositionsFinite
  <2>2. IsFiniteSet(1 .. Cardinality(S)) /\ Cardinality(1 .. Cardinality(S)) = Cardinality(S)
    BY <1>2, FS_Interval
  <2> QED BY <2>1, <2>2
<1>8. A = {k \in R : r[k] \in W} /\ IsFiniteSet(A) /\ Num(r, W) = Cardinality(A)
  BY <1>3, NumType DEF Sel, Num
<1>9. \A k \in R : k \in Nat
  OBVIOUS
<1> HIDE DEF g, R, A
<1>10. \A k, m \in R : g[k] = g[m] => k = m
  <2> SUFFICES ASSUME NEW k \in R, NEW m \in R, g[k] = g[m] PROVE k = m
    OBVIOUS
  <2>1. ~(k < m) /\ ~(m < k)
    BY <1>4, <1>5
  <2> QED BY <2>1, <1>9
<1>11. g \in Surjection(R, S)
  <2>1. g \in Injection(R, S)
    BY <1>6, <1>10 DEF Injection, IsInjective
  <2> QED BY <2>1, <1>7, FS_Injection
<1>12. ASSUME NEW k \in A PROVE f[k] \in B
  <2>1. k \in R /\ r[k] \in W /\ g[k] \in S /\ r[k] = q[g[k]]
    BY <1>4, <1>8
  <2> QED BY <2>1 DEF Sel
<1>13. \A k, m \in A : f[k] = f[m] => k = m
  BY <1>8, <1>10
<1>14. ASSUME NEW i \in B PROVE \E k \in A : f[k] = i
  <2>1. PICK k \in R : g[k] = i
    BY <1>11 DEF Surjection
  <2>2. q[i] \in W
    BY DEF Sel
  <2>3. k \in A
    BY <2>1, <2>2, <1>4, <1>8
  <2> QED BY <2>1, <2>3
<1>15. Cardinality(B) = Cardinality(A)
  <2>1. f \in [A -> B]
    BY <1>12
  <2> HIDE DEF f, B
  <2> QED BY <2>1, <1>8, <1>13, <1>14, OneToOne
<1> QED
  BY <1>8, <1>15 DEF r

(* Keep without one position.                                              *)
LEMMA NumKeepBut ==
  ASSUME NEW T, NEW q \in Seq(T), NEW i \in DOMAIN q, NEW W
  PROVE  Num(Keep(q, DOMAIN q \ {i}), W) = Num(q, W) - IF q[i] \in W THEN 1 ELSE 0
<1> DEFINE S == DOMAIN q \ {i}
           A == Sel(q, W)
<1>1. S \in SUBSET DOMAIN q /\ S \cap A = A \ {i} /\ (i \in A <=> q[i] \in W)
  BY DEF Sel
<1>2. IsFiniteSet(A) /\ Num(q, W) = Cardinality(A) /\ Num(q, W) \in Nat
  BY NumType DEF Num
<1> HIDE DEF S, A
<1>3. Num(Keep(q, S), W) = Cardinality(A \ {i})
  <2>1. Num(Keep(q, S), W) = Cardinality(S \cap A)
    BY <1>1, NumKeep DEF A
  <2>2. S \cap A = A \ {i}
    BY <1>1
  <2> QED BY <2>1, <2>2, Zenon
<1>4. Cardinality(A \ {i}) = IF i \in A THEN Cardinality(A) - 1 ELSE Cardinality(A)
  BY <1>2, FS_RemoveElement
<1> QED
  <2>1. Num(Keep(q, S), W) = Num(q, W) - IF i \in A THEN 1 ELSE 0
    BY <1>2, <1>3, <1>4
  <2>2. i \in A <=> q[i] \in W
    BY <1>1
  <2> QED BY <2>1, <2>2 DEF S

(* remove_timer takes out one element, one of those that match.            *)
LEMMA NumRemove ==
  ASSUME NEW T, NEW q \in Seq(T), NEW f, NEW a, NEW W
  PROVE  \/ Matches(q, f, a) = {} /\ remove_timer(q, f, a) = q
         \/ \E i \in Matches(q, f, a) :
              Num(remove_timer(q, f, a), W) = Num(q, W) - IF q[i] \in W THEN 1 ELSE 0
<1> DEFINE M == Matches(q, f, a)
           i == Min(M)
<1>1. CASE M = {}
  BY <1>1 DEF remove_timer
<1>2. CASE M # {}
  <2>1. M \in SUBSET Nat /\ M \in SUBSET DOMAIN q
    BY DEF Matches
  <2>2. i \in M
    <3>1. \E n \in M : \A m \in M : n <= m
      <4> HIDE DEF M
      <4>1. PICK n \in M : n \in Nat
        BY <1>2, <2>1
      <4> QED BY <4>1, <2>1, LeastNatural
    <3> HIDE DEF M
    <3> QED BY <3>1 DEF Min
  <2>3. remove_timer(q, f, a) = Keep(q, DOMAIN q \ {i})
    BY <1>2 DEF remove_timer
  <2> HIDE DEF i, M
  <2> QED BY <2>1, <2>2, <2>3, NumKeepBut DEF M
<1> QED
  BY <1>1, <1>2

(* The first element apart.                                                *)
LEMMA NumTail ==
  ASSUME NEW T, NEW q \in Seq(T), q # <<>>, NEW W
  PROVE  Num(q, W) = Num(Tail(q), W) + IF Head(q) \in W THEN 1 ELSE 0
<1> DEFINE r == Tail(q)
           A == Sel(r, W)
           B == Sel(q, W)
           f == [i \in A |-> i + 1]
<1>1. /\ r \in Seq(T) /\ Len(r) = Len(q) - 1
      /\ \A i \in 1 .. Len(r) : r[i] = q[i + 1]
      /\ Head(q) = q[1] /\ Len(q) \in Nat /\ Len(q) >= 1
  BY HeadTailProperties
<1>2. DOMAIN q = 1 .. Len(q) /\ DOMAIN r = 1 .. Len(q) - 1
  BY <1>1, LenProperties
<1>3. /\ A = {i \in 1 .. Len(q) - 1 : r[i] \in W}
      /\ B = {i \in 1 .. Len(q) : q[i] \in W}
  BY <1>2 DEF Sel
<1>4. IsFiniteSet(A) /\ IsFiniteSet(B) /\ Num(q, W) = Cardinality(B) /\ Num(r, W) = Cardinality(A)
  BY <1>1, NumType DEF Num
<1> HIDE DEF r, A, B
<1>5. ASSUME NEW i \in A PROVE f[i] \in B \ {1}
  BY <1>1, <1>3
<1>6. \A i, j \in A : f[i] = f[j] => i = j
  BY <1>3
<1>7. ASSUME NEW z \in B \ {1} PROVE \E i \in A : f[i] = z
  <2>1. z - 1 \in 1 .. Len(q) - 1 /\ (z - 1) + 1 = z /\ q[z] \in W
    BY <1>1, <1>3
  <2>2. r[z - 1] = q[z]
    BY <2>1, <1>1
  <2>3. z - 1 \in A
    BY <2>1, <2>2, <1>3
  <2> QED BY <2>1, <2>3
<1>8. Cardinality(B \ {1}) = Cardinality(A)
  <2>1. f \in [A -> B \ {1}]
    BY <1>5
  <2> HIDE DEF f
  <2> QED BY <2>1, <1>4, <1>6, <1>7, OneToOne
<1>9. Cardinality(B \ {1}) = IF 1 \in B THEN Cardinality(B) - 1 ELSE Cardinality(B)
  BY <1>4, FS_RemoveElement
<1>10. 1 \in B <=> Head(q) \in W
  BY <1>1, <1>3
<1>11. Cardinality(A) \in Nat /\ Cardinality(B) \in Nat
  BY <1>4, FS_CardinalityType
<1> QED
  BY <1>4, <1>8, <1>9, <1>10, <1>11 DEF r

(* Two lists, one after the other.                                         *)
LEMMA NumConcat ==
  ASSUME NEW T, NEW q \in Seq(T), NEW r \in Seq(T), NEW W
  PROVE  Num(q \o r, W) = Num(q, W) + Num(r, W)
<1> DEFINE s == q \o r
           A == Sel(q, W)
           B == Sel(r, W)
           C == {i \in Sel(s, W) : i <= Len(q)}
           D == {i \in Sel(s, W) : i > Len(q)}
           f == [i \in B |-> i + Len(q)]
<1>1. /\ s \in Seq(T) /\ Len(s) = Len(q) + Len(r)
      /\ \A i \in 1 .. Len(s) : s[i] = IF i <= Len(q) THEN q[i] ELSE r[i - Len(q)]
      /\ Len(q) \in Nat /\ Len(r) \in Nat
  BY ConcatProperties
<1>2. DOMAIN q = 1 .. Len(q) /\ DOMAIN r = 1 .. Len(r) /\ DOMAIN s = 1 .. Len(q) + Len(r)
  BY <1>1, LenProperties
<1>3. /\ A = {i \in 1 .. Len(q) : q[i] \in W} /\ B = {i \in 1 .. Len(r) : r[i] \in W}
      /\ Sel(s, W) = {i \in 1 .. Len(q) + Len(r) : s[i] \in W}
  BY <1>2 DEF Sel
<1>4. /\ IsFiniteSet(A) /\ IsFiniteSet(B) /\ IsFiniteSet(Sel(s, W))
      /\ Num(q, W) = Cardinality(A) /\ Num(r, W) = Cardinality(B) /\ Num(s, W) = Cardinality(Sel(s, W))
  BY <1>1, NumType DEF Num
<1> HIDE DEF s, A, B
<1>5. A = C
  BY <1>1, <1>3
<1>6. ASSUME NEW i \in B PROVE f[i] \in D
  <2>1. i + Len(q) \in 1 .. Len(s) /\ i + Len(q) > Len(q) /\ (i + Len(q)) - Len(q) = i
    BY <1>1, <1>3
  <2>2. s[i + Len(q)] = r[i]
    BY <2>1, <1>1
  <2> QED BY <2>1, <2>2, <1>1, <1>3
<1>7. \A i, j \in B : f[i] = f[j] => i = j
  BY <1>1, <1>3
<1>8. ASSUME NEW z \in D PROVE \E i \in B : f[i] = z
  <2>1. z - Len(q) \in 1 .. Len(r) /\ (z - Len(q)) + Len(q) = z /\ s[z] = r[z - Len(q)] /\ s[z] \in W
    BY <1>1, <1>3
  <2>2. z - Len(q) \in B
    BY <2>1, <1>3
  <2> QED BY <2>1, <2>2
<1>9. Cardinality(D) = Cardinality(B)
  <2>1. f \in [B -> D]
    BY <1>6
  <2> HIDE DEF f, D
  <2> QED BY <2>1, <1>4, <1>7, <1>8, OneToOne
<1>10. C \cap D = {} /\ Sel(s, W) = C \cup D
  BY <1>1, <1>3
<1> HIDE DEF C, D
<1>11. IsFiniteSet(C) /\ IsFiniteSet(D) /\ Cardinality(C \cap D) = 0
  <2>1. C \in SUBSET Sel(s, W) /\ D \in SUBSET Sel(s, W)
    BY <1>10
  <2> QED BY <2>1, <1>4, <1>10, FS_Subset, FS_EmptySet
<1>12. Cardinality(C \cup D) = Cardinality(C) + Cardinality(D) - Cardinality(C \cap D)
  BY <1>11, FS_Union
<1>13. Cardinality(C) \in Nat /\ Cardinality(D) \in Nat
  BY <1>11, FS_CardinalityType
<1> QED
  BY <1>4, <1>5, <1>9, <1>10, <1>11, <1>12, <1>13 DEF s


-----------------------------------------------------------------------------
(* insert_all.                                                             *)

(* The list after the first n timers of r; it exists for every n.          *)
Started(T, q, r, m, f) ==
  /\ f \in [0 .. m -> Seq(T)] /\ f[0] = q
  /\ \A n \in 1 .. m : f[n] = insert_timer(f[n - 1], r[n])

LEMMA StartedExists ==
  ASSUME NEW T, HasTimeouts(T), NEW q \in Seq(T), NEW r \in Seq(T)
  PROVE  \E f : Started(T, q, r, Len(r), f)
<1> DEFINE Bad == {m \in 0 .. Len(r) : ~ \E f : Started(T, q, r, m, f)}
<1>1. Len(r) \in Nat /\ \A i \in 1 .. Len(r) : r[i] \in T
  BY ElementOfSeq
<1>2. 0 \notin Bad
  <2>1. Started(T, q, r, 0, [n \in 0 .. 0 |-> q])
    BY DEF Started
  <2> QED BY <2>1
<1>3. ASSUME NEW m \in 1 .. Len(r), m - 1 \notin Bad PROVE m \notin Bad
  <2>1. PICK f : Started(T, q, r, m - 1, f)
    BY <1>1, <1>3
  <2> DEFINE g == [n \in 0 .. m |-> IF n = m THEN insert_timer(f[m - 1], r[m]) ELSE f[n]]
  <2>2. f \in [0 .. m - 1 -> Seq(T)] /\ f[0] = q
        /\ \A n \in 1 .. m - 1 : f[n] = insert_timer(f[n - 1], r[n])
    BY <2>1 DEF Started
  <2>3. m \in Int /\ m >= 1 /\ m - 1 \in 0 .. m - 1 /\ r[m] \in T
    BY <1>1
  <2>4. insert_timer(f[m - 1], r[m]) \in Seq(T)
    BY <2>2, <2>3, InsertTimer
  <2>5. g \in [0 .. m -> Seq(T)] /\ g[0] = q
    BY <2>2, <2>3, <2>4
  <2>6. ASSUME NEW n \in 1 .. m PROVE g[n] = insert_timer(g[n - 1], r[n])
    <3>1. n - 1 \in 0 .. m /\ n \in 0 .. m /\ n - 1 # m
      BY <2>3
    <3>2. CASE n = m
      BY <3>1, <3>2
    <3>3. CASE n # m
      <4>1. n \in 1 .. m - 1
        BY <3>3, <2>3
      <4> QED BY <3>1, <4>1, <3>3, <2>2
    <3> QED BY <3>2, <3>3
  <2> HIDE DEF g
  <2> QED BY <2>5, <2>6 DEF Started
<1> HIDE DEF Bad
<1>4. Bad \in SUBSET Nat /\ Bad \subseteq 0 .. Len(r)
  BY <1>1 DEF Bad
<1>5. Bad = {}
  <2>1. SUFFICES ASSUME Bad # {} PROVE FALSE
    OBVIOUS
  <2>2. PICK m \in Bad : \A n \in Bad : m <= n
    BY <1>4, <2>1, LeastNatural
  <2>3. m \in 1 .. Len(r)
    BY <1>1, <1>2, <1>4
  <2>4. m - 1 \notin Bad
    BY <2>2, <2>3
  <2> QED BY <1>3, <2>3, <2>4
<1>6. Len(r) \notin Bad /\ Len(r) \in 0 .. Len(r)
  BY <1>1, <1>5
<1> QED
  BY <1>6 DEF Bad

(* insert_all returns what the last step does.                             *)
LEMMA InsertAllSteps ==
  ASSUME NEW T, HasTimeouts(T), NEW q \in Seq(T), NEW r \in Seq(T)
  PROVE  \E f : Started(T, q, r, Len(r), f) /\ insert_all(q, r) = f[Len(r)]
<1> DEFINE IsPut(p) == p = [n \in 0 .. Len(r) |-> IF n = 0 THEN q ELSE insert_timer(p[n - 1], r[n])]
           put == CHOOSE p : IsPut(p)
<1>1. Len(r) \in Nat
  OBVIOUS
<1>2. PICK f : Started(T, q, r, Len(r), f)
  BY StartedExists
<1>3. IsPut(f)
  <2>1. f = [n \in 0 .. Len(r) |-> f[n]]
    BY <1>2 DEF Started
  <2>2. \A n \in 0 .. Len(r) : f[n] = IF n = 0 THEN q ELSE insert_timer(f[n - 1], r[n])
    BY <1>1, <1>2 DEF Started
  <2> QED BY <2>1, <2>2
<1>4. IsPut(put)
  BY <1>3, Zenon
<1>5. insert_all(q, r) = put[Len(r)]
  BY DEF insert_all
<1> HIDE DEF put
<1>6. put = [n \in 0 .. Len(r) |-> IF n = 0 THEN q ELSE insert_timer(put[n - 1], r[n])]
  BY <1>4
<1> DEFINE Bad == {m \in 0 .. Len(r) : put[m] # f[m]}
<1>7. 0 \notin Bad
  BY <1>1, <1>2, <1>6 DEF Started
<1>8. ASSUME NEW m \in 1 .. Len(r), m - 1 \notin Bad PROVE m \notin Bad
  <2>1. m \in 0 .. Len(r) /\ m - 1 \in 0 .. Len(r) /\ m # 0
    BY <1>1
  <2>2. put[m] = insert_timer(put[m - 1], r[m]) /\ put[m - 1] = f[m - 1]
    BY <2>1, <1>6, <1>8
  <2>3. f[m] = insert_timer(f[m - 1], r[m])
    BY <1>2 DEF Started
  <2> QED BY <2>2, <2>3
<1> HIDE DEF Bad
<1>9. Bad \in SUBSET Nat /\ Bad \subseteq 0 .. Len(r)
  BY <1>1 DEF Bad
<1>10. Bad = {}
  <2>1. SUFFICES ASSUME Bad # {} PROVE FALSE
    OBVIOUS
  <2>2. PICK m \in Bad : \A n \in Bad : m <= n
    BY <1>9, <2>1, LeastNatural
  <2>3. m \in 1 .. Len(r)
    BY <1>1, <1>7, <1>9
  <2>4. m - 1 \notin Bad
    BY <2>2, <2>3
  <2> QED BY <1>8, <2>3, <2>4
<1>11. put[Len(r)] = f[Len(r)]
  BY <1>1, <1>10 DEF Bad
<1> QED
  BY <1>2, <1>5, <1>11

(* insert_all returns a list, in order if the first one was, with the      *)
(* timers of both.                                                         *)
LEMMA InsertAll ==
  ASSUME NEW T, HasTimeouts(T), NEW q \in Seq(T), NEW r \in Seq(T)
  PROVE  /\ insert_all(q, r) \in Seq(T)
         /\ Ordered(q) => Ordered(insert_all(q, r))
         /\ \A W : Num(insert_all(q, r), W) = Num(q, W) + Num(r, W)
<1>1. Len(r) \in Nat /\ DOMAIN r = 1 .. Len(r) /\ \A i \in 1 .. Len(r) : r[i] \in T
  BY ElementOfSeq
<1>2. PICK f : Started(T, q, r, Len(r), f) /\ insert_all(q, r) = f[Len(r)]
  BY InsertAllSteps
<1>3. /\ f \in [0 .. Len(r) -> Seq(T)] /\ f[0] = q
      /\ \A n \in 1 .. Len(r) : f[n] = insert_timer(f[n - 1], r[n])
  BY <1>2 DEF Started
<1>4. f[Len(r)] \in Seq(T)
  BY <1>1, <1>3
<1>5. ASSUME Ordered(q) PROVE Ordered(f[Len(r)])
  <2> DEFINE Bad == {m \in 0 .. Len(r) : ~Ordered(f[m])}
  <2>1. 0 \notin Bad
    BY <1>3, <1>5
  <2>2. ASSUME NEW m \in 1 .. Len(r), m - 1 \notin Bad PROVE m \notin Bad
    <3>1. m - 1 \in 0 .. Len(r) /\ r[m] \in T /\ f[m] = insert_timer(f[m - 1], r[m])
      BY <1>1, <1>3
    <3>2. f[m - 1] \in Seq(T) /\ Ordered(f[m - 1])
      BY <3>1, <2>2, <1>3
    <3> QED BY <3>1, <3>2, InsertTimer
  <2> HIDE DEF Bad
  <2>3. Bad \in SUBSET Nat /\ Bad \subseteq 0 .. Len(r)
    BY <1>1 DEF Bad
  <2>4. ASSUME Bad # {} PROVE FALSE
    <3>1. PICK m \in Bad : \A n \in Bad : m <= n
      BY <2>3, <2>4, LeastNatural
    <3>2. m \in 1 .. Len(r)
      BY <1>1, <2>1, <2>3
    <3>3. m - 1 \notin Bad
      BY <3>1, <3>2
    <3> QED BY <2>2, <3>2, <3>3
  <2> QED BY <1>1, <2>4 DEF Bad
<1>6. ASSUME NEW W PROVE Num(f[Len(r)], W) = Num(q, W) + Num(r, W)
  <2> DEFINE P(n) == {i \in 1 .. n : r[i] \in W}
             Bad == {m \in 0 .. Len(r) : Num(f[m], W) # Num(q, W) + Cardinality(P(m))}
  <2>1. 0 \notin Bad
    <3>1. P(0) = {}
      OBVIOUS
    <3>2. Cardinality(P(0)) = 0
      BY <3>1, FS_EmptySet
    <3> QED BY <3>2, <1>3, NumType
  <2>2. ASSUME NEW m \in 1 .. Len(r), m - 1 \notin Bad PROVE m \notin Bad
    <3>1. m - 1 \in 0 .. Len(r) /\ r[m] \in T /\ f[m] = insert_timer(f[m - 1], r[m])
      BY <1>1, <1>3
    <3>2. f[m - 1] \in Seq(T) /\ Num(f[m - 1], W) = Num(q, W) + Cardinality(P(m - 1))
      BY <3>1, <2>2, <1>3
    <3>3. Num(f[m], W) = Num(f[m - 1], W) + IF r[m] \in W THEN 1 ELSE 0
      BY <3>1, <3>2, NumInsert
    <3>4. P(m) = IF r[m] \in W THEN P(m - 1) \cup {m} ELSE P(m - 1)
      BY <1>1
    <3>5. m \notin P(m - 1) /\ m - 1 \in Nat /\ P(m - 1) \in SUBSET (1 .. m - 1)
      BY <1>1
    <3> HIDE DEF P
    <3>6. IsFiniteSet(P(m - 1)) /\ Cardinality(P(m - 1)) \in Nat
      BY <3>5, PositionsFinite
    <3> DEFINE A == P(m - 1)
               B == A \cup {m}
    <3>7. P(m) = IF r[m] \in W THEN B ELSE A
      BY <3>4
    <3>8. IsFiniteSet(A) /\ m \notin A
      BY <3>5, <3>6
    <3> HIDE DEF A
    <3>9. Cardinality(B) = Cardinality(A) + 1
      BY <3>8, FS_AddElement
    <3> HIDE DEF B
    <3>10. Cardinality(P(m)) = Cardinality(P(m - 1)) + IF r[m] \in W THEN 1 ELSE 0
      <4>1. Cardinality(P(m)) = Cardinality(A) + IF r[m] \in W THEN 1 ELSE 0
        BY <3>6, <3>7, <3>9 DEF A
      <4> QED BY <4>1 DEF A
    <3>11. Num(q, W) \in Nat
      BY NumType
    <3> QED BY <3>2, <3>3, <3>6, <3>10, <3>11
  <2>3. Sel(r, W) = P(Len(r))
    BY <1>1 DEF Sel
  <2> HIDE DEF Bad, P
  <2>4. Bad \in SUBSET Nat /\ Bad \subseteq 0 .. Len(r)
    BY <1>1 DEF Bad
  <2>5. ASSUME Bad # {} PROVE FALSE
    <3>1. PICK m \in Bad : \A n \in Bad : m <= n
      BY <2>4, <2>5, LeastNatural
    <3>2. m \in 1 .. Len(r)
      BY <1>1, <2>1, <2>4
    <3>3. m - 1 \notin Bad
      BY <3>1, <3>2
    <3> QED BY <2>2, <3>2, <3>3
  <2> QED BY <1>1, <2>3, <2>5 DEF Bad, Num
<1> QED
  BY <1>2, <1>4, <1>5, <1>6
=============================================================================
