--------------------------- MODULE MonstersProofs ---------------------------
(***************************************************************************)
(* Proofs about Monsters: whatever is created, killed, cut in two, given   *)
(* another shape, ridden, moved, engulfed or taken to another level, the   *)
(* chain, the map, the tails, the count of the dead and the steed stay in  *)
(* step.                                                                   *)
(*                                                                         *)
(* The invariant is MonInv: all is well on the level (Good), but for the   *)
(* steed, that is on the chain and not on the map; the hero is at a free   *)
(* square; and the steed is where the hero is.  Inside an operation it     *)
(* does not hold: a monster that has been picked up is on the chain and    *)
(* not on the map.  So Good has a parameter, the monsters S in the air,    *)
(* and what the lemmas say of a helper is which monsters are in the air    *)
(* before it and after it.                                                 *)
(***************************************************************************)
EXTENDS Monsters, NatLemmas, FiniteSetTheorems, SequenceTheorems, TLAPS

-----------------------------------------------------------------------------
(* over: a function with what another says.                                *)

(* What g says of p is written.                                            *)
Put(g, h, p) == [h EXCEPT ![p] = g[p]]

(* h writes g over f, element after element of its domain S.               *)
Writes(h, f, g, S) == h = [s \in SUBSET S |-> IF s = {} THEN f ELSE Put(g, h[s \ {SomeOf(s)}], SomeOf(s))]

(* What f becomes when g is written over it at s.                          *)
Written(f, g, D, s) == [p \in D |-> IF p \in s THEN g[p] ELSE f[p]]

(* There is such a function.                                               *)
LEMMA WritesExists ==
  ASSUME NEW S, IsFiniteSet(S), NEW D, NEW V, NEW f \in [D -> V], NEW g, \A p \in S : g[p] \in V
  PROVE  \E h : Writes(h, f, g, S)
<1> DEFINE pick == [s \in SUBSET S |-> SomeOf(s)]
           step == [p \in S \X [D -> V] |-> Put(g, p[2], p[1])]
<1>1. \A s \in SUBSET S : s # {} => pick[s] \in s
  BY AnyIn
<1>2. step \in [S \X [D -> V] -> [D -> V]]
  BY DEF Put
<1>3. \E h : Solution(h, S, [D -> V], f, pick, step)
  <2> HIDE DEF pick, step
  <2>1. Recursion(S, [D -> V], f, pick, step)
    BY <1>1, <1>2 DEF Recursion
  <2> QED BY <2>1, RecursionOnSet
<1>4. PICK h : Solution(h, S, [D -> V], f, pick, step)
  <2> HIDE DEF pick, step
  <2> QED BY <1>3
<1>5. h \in [SUBSET S -> [D -> V]]
  BY <1>4 DEF Solution
<1>6. ASSUME NEW s \in SUBSET S
      PROVE  h[s] = IF s = {} THEN f ELSE Put(g, h[s \ {SomeOf(s)}], SomeOf(s))
  <2>1. h[s] = IF s = {} THEN f ELSE step[<<pick[s], h[s \ {pick[s]}]>>]
    <3> HIDE DEF pick, step
    <3> QED BY <1>4 DEF Solution
  <2>2. s # {} => SomeOf(s) \in S /\ h[s \ {SomeOf(s)}] \in [D -> V]
    BY <1>5, AnyIn
  <2> QED BY <2>1, <2>2
<1> HIDE DEF pick, step
<1>7. h = [s \in SUBSET S |-> IF s = {} THEN f ELSE Put(g, h[s \ {SomeOf(s)}], SomeOf(s))]
  BY <1>5, <1>6
<1> QED BY <1>7 DEF Writes

(* However it is picked, all of g is written.                              *)
LEMMA WritesAll ==
  ASSUME NEW S, IsFiniteSet(S), NEW D, NEW V, NEW f \in [D -> V], NEW g, \A p \in S : g[p] \in V,
         NEW h, Writes(h, f, g, S)
  PROVE  \A s \in SUBSET S : h[s] = Written(f, g, D, s)
<1> DEFINE B == {s \in SUBSET S : h[s] # Written(f, g, D, s)}
<1>1. SUFFICES ASSUME B # {} PROVE FALSE
  OBVIOUS
<1>2. PICK s \in B : \A x \in s : s \ {x} \notin B
  <2>1. B \in SUBSET (SUBSET S)
    OBVIOUS
  <2> HIDE DEF B
  <2> QED BY <1>1, <2>1, SmallestSet
<1>3. s \in SUBSET S /\ h[s] # Written(f, g, D, s)
  OBVIOUS
<1>4. h[s] = IF s = {} THEN f ELSE Put(g, h[s \ {SomeOf(s)}], SomeOf(s))
  BY <1>3 DEF Writes
<1>5. s # {}
  <2>1. f = Written(f, g, D, {})
    BY DEF Written
  <2> QED BY <2>1, <1>3, <1>4
<1>6. SomeOf(s) \in s /\ SomeOf(s) \in S
  BY <1>3, <1>5, AnyIn
<1> DEFINE x == SomeOf(s)
<1>7. h[s \ {x}] = Written(f, g, D, s \ {x})
  BY <1>2, <1>3, <1>6
<1>8. h[s] = Put(g, Written(f, g, D, s \ {x}), x) /\ x \in s
  BY <1>4, <1>5, <1>6, <1>7
<1> HIDE DEF x, B
<1>9. Put(g, Written(f, g, D, s \ {x}), x) = Written(f, g, D, s)
  BY <1>8 DEF Written, Put
<1> QED BY <1>3, <1>8, <1>9

(* What over does to a function.                                           *)
LEMMA Overwritten ==
  ASSUME NEW D, NEW V, NEW f \in [D -> V], NEW g, IsFiniteSet(DOMAIN g), \A p \in DOMAIN g : g[p] \in V
  PROVE  over(g, f) = Written(f, g, D, DOMAIN g)
<1> DEFINE S == DOMAIN g
<1>1. IsFiniteSet(S) /\ \A p \in S : g[p] \in V
  OBVIOUS
<1>2. over(g, f) = FoldSet(LAMBDA p, e : Put(g, e, p), f, S)
  BY DEF over, Put
<1> HIDE DEF S
<1>3. PICK k : Writes(k, f, g, S)
  BY <1>1, WritesExists
<1>4. k = [s \in SUBSET S |-> IF s = {} THEN f ELSE Put(g, k[s \ {SomeOf(s)}], SomeOf(s))]
  BY <1>3 DEF Writes
<1>5. \E h : /\ h = [s \in SUBSET S |-> IF s = {} THEN f ELSE Put(g, h[s \ {SomeOf(s)}], SomeOf(s))]
             /\ FoldSet(LAMBDA p, e : Put(g, e, p), f, S) = h[S]
  BY <1>4 DEF FoldSet, MapThenFoldSet, SomeOf
<1>6. PICK h : /\ h = [s \in SUBSET S |-> IF s = {} THEN f ELSE Put(g, h[s \ {SomeOf(s)}], SomeOf(s))]
               /\ FoldSet(LAMBDA p, e : Put(g, e, p), f, S) = h[S]
  BY <1>5
<1>7. Writes(h, f, g, S)
  BY <1>6 DEF Writes
<1>8. h[S] = Written(f, g, D, S)
  <2>1. S \in SUBSET S
    OBVIOUS
  <2>2. \A s \in SUBSET S : h[s] = Written(f, g, D, s)
    BY <1>1, <1>7, WritesAll
  <2> QED BY <2>1, <2>2
<1> QED BY <1>2, <1>6, <1>8 DEF S

-----------------------------------------------------------------------------
(* Chains of structs.                                                      *)

(* unlinked leaves those that are not to go, each once if it was there     *)
(* once.                                                                   *)
LEMMA Unlinked ==
  ASSUME NEW T, NEW q \in Seq(T), NEW gone
  PROVE  /\ unlinked(q, gone) \in Seq(T)
         /\ ToSet(unlinked(q, gone)) = ToSet(q) \ gone
         /\ IsInjective(q) => IsInjective(unlinked(q, gone))
<1> DEFINE S == {i \in DOMAIN q : q[i] \notin gone}
           at(k) == CHOOSE i \in S : Cardinality({j \in S : j <= i}) = k
           K == 1 .. Cardinality(S)
           f == [k \in K |-> at(k)]
<1>1. Len(q) \in Nat /\ DOMAIN q = 1 .. Len(q) /\ S \in SUBSET (1 .. Len(q)) /\ \A i \in S : q[i] \in T /\ i \in Nat
  <2>1. Len(q) \in Nat /\ DOMAIN q = 1 .. Len(q)
    OBVIOUS
  <2> QED BY <2>1, ElementOfSeq
<1>2. IsFiniteSet(S) /\ Cardinality(S) \in Nat
  <2> HIDE DEF S
  <2> QED BY <1>1, PositionsFinite
<1>3. /\ \A k \in K : at(k) \in S
      /\ \A k, m \in K : k < m => at(k) < at(m)
  <2> HIDE DEF S
  <2> QED BY <1>1, KeptPositions
<1>4. unlinked(q, gone) = [k \in K |-> q[at(k)]]
  BY DEF unlinked, Keep
<1> HIDE DEF at, S
<1>5. IsFiniteSet(K) /\ Cardinality(K) = Cardinality(S)
  BY <1>2, FS_Interval
<1>6. f \in Surjection(K, S)
  <2>1. f \in [K -> S]
    BY <1>3
  <2>2. ASSUME NEW k \in K, NEW m \in K, k # m PROVE f[k] # f[m]
    <3>0. at(k) \in S /\ at(m) \in S
      BY <1>3
    <3>1. at(k) \in Nat /\ at(m) \in Nat
      BY <1>1, <3>0
    <3>2. at(k) < at(m) \/ at(m) < at(k)
      <4>1. k \in Int /\ m \in Int
        OBVIOUS
      <4> HIDE DEF K
      <4> QED BY <1>3, <2>2, <4>1
    <3> QED BY <3>1, <3>2
  <2>3. f \in Injection(K, S)
    BY <2>1, <2>2 DEF Injection, IsInjective
  <2> HIDE DEF f, K
  <2> QED BY <1>2, <1>5, <2>3, FS_Injection
<1>7. \A i \in S : \E k \in K : at(k) = i
  BY <1>6 DEF Surjection
<1>8. unlinked(q, gone) \in Seq(T) /\ DOMAIN unlinked(q, gone) = K
  <2>1. \A k \in K : q[at(k)] \in T
    BY <1>1, <1>3
  <2> QED BY <1>2, <1>4, <2>1, IsASeq
<1>9. ASSUME NEW x PROVE x \in ToSet(unlinked(q, gone)) <=> x \in ToSet(q) \ gone
  <2>1. x \in ToSet(unlinked(q, gone)) <=> \E k \in K : x = q[at(k)]
    BY <1>4, <1>8 DEF ToSet
  <2>2. x \in ToSet(q) \ gone <=> \E i \in S : x = q[i]
    BY DEF ToSet, S
  <2> QED BY <1>3, <1>7, <2>1, <2>2
<1>10. ASSUME IsInjective(q) PROVE IsInjective(unlinked(q, gone))
  <2> SUFFICES ASSUME NEW k \in K, NEW m \in K, q[at(k)] = q[at(m)] PROVE k = m
    BY <1>4, <1>8 DEF IsInjective
  <2>1. at(k) \in DOMAIN q /\ at(m) \in DOMAIN q
    BY <1>1, <1>3
  <2>2. at(k) = at(m)
    BY <1>10, <2>1 DEF IsInjective
  <2>3. at(k) \in Nat /\ k \in Int /\ m \in Int
    <3>1. at(k) \in S
      BY <1>3
    <3>2. at(k) \in Nat
      BY <1>1, <3>1
    <3> QED BY <3>2
  <2>4. ~(k < m) /\ ~(m < k)
    BY <1>3, <2>2, <2>3
  <2> QED BY <2>3, <2>4
<1> QED BY <1>8, <1>9, <1>10

(* A struct put in front.                                                  *)
LEMMA InFront ==
  ASSUME NEW T, NEW q \in Seq(T), NEW x \in T
  PROVE  /\ <<x>> \o q \in Seq(T) /\ ToSet(<<x>> \o q) = ToSet(q) \cup {x}
         /\ IsInjective(q) /\ x \notin ToSet(q) => IsInjective(<<x>> \o q)
<1> DEFINE r == <<x>> \o q
<1>1. r \in Seq(T) /\ Len(r) = Len(q) + 1 /\ r[1] = x /\ (\A i \in 2 .. Len(q) + 1 : r[i] = q[i - 1]) /\ Len(q) \in Nat
  OBVIOUS
<1>2. DOMAIN r = 1 .. Len(q) + 1 /\ DOMAIN q = 1 .. Len(q)
  BY <1>1
<1> HIDE DEF r
<1>3. ToSet(r) = ToSet(q) \cup {x}
  <2>1. ASSUME NEW y \in ToSet(r) PROVE y \in ToSet(q) \cup {x}
    <3>1. PICK i \in 1 .. Len(q) + 1 : y = r[i]
      BY <1>2 DEF ToSet
    <3>2. CASE i = 1
      BY <1>1, <3>1, <3>2
    <3>3. CASE i # 1
      <4>1. i \in 2 .. Len(q) + 1 /\ i - 1 \in 1 .. Len(q)
        BY <1>1, <3>3
      <4> QED BY <1>1, <1>2, <3>1, <4>1 DEF ToSet
    <3> QED BY <3>2, <3>3
  <2>2. x \in ToSet(r)
    <3>1. 1 \in DOMAIN r
      BY <1>1, <1>2
    <3> QED BY <1>1, <3>1 DEF ToSet
  <2>3. ASSUME NEW y \in ToSet(q) PROVE y \in ToSet(r)
    <3>1. PICK i \in 1 .. Len(q) : y = q[i]
      BY <1>2 DEF ToSet
    <3>2. i + 1 \in 2 .. Len(q) + 1 /\ (i + 1) - 1 = i /\ i + 1 \in DOMAIN r
      BY <1>1, <1>2
    <3>3. r[i + 1] = y
      BY <1>1, <3>1, <3>2
    <3> QED BY <3>2, <3>3 DEF ToSet
  <2> QED BY <2>1, <2>2, <2>3
<1>4. ASSUME IsInjective(q), x \notin ToSet(q) PROVE IsInjective(r)
  <2>0. \A i \in 1 .. Len(q) : q[i] # x
    BY <1>2, <1>4 DEF ToSet
  <2> SUFFICES ASSUME NEW i \in 1 .. Len(q) + 1, NEW j \in 1 .. Len(q) + 1, r[i] = r[j] PROVE i = j
    BY <1>2 DEF IsInjective
  <2>1. CASE i = 1 /\ j = 1
    BY <2>1
  <2>2. CASE i = 1 /\ j # 1
    <3>1. j \in 2 .. Len(q) + 1 /\ j - 1 \in 1 .. Len(q)
      BY <1>1, <2>2
    <3> QED BY <1>1, <2>0, <2>2, <3>1
  <2>3. CASE i # 1 /\ j = 1
    <3>1. i \in 2 .. Len(q) + 1 /\ i - 1 \in 1 .. Len(q)
      BY <1>1, <2>3
    <3> QED BY <1>1, <2>0, <2>3, <3>1
  <2>4. CASE i # 1 /\ j # 1
    <3>1. i \in 2 .. Len(q) + 1 /\ i - 1 \in 1 .. Len(q) /\ j \in 2 .. Len(q) + 1 /\ j - 1 \in 1 .. Len(q)
      BY <1>1, <2>4
    <3>2. q[i - 1] = q[j - 1]
      BY <1>1, <3>1
    <3>3. i - 1 = j - 1
      BY <1>2, <1>4, <3>1, <3>2 DEF IsInjective
    <3> QED BY <1>1, <3>1, <3>3
  <2> QED BY <2>1, <2>2, <2>3, <2>4
<1> QED BY <1>1, <1>3, <1>4 DEF r

(* Back to front, it has the same structs.                                 *)
LEMMA Reversed ==
  ASSUME NEW T, NEW q \in Seq(T)
  PROVE  /\ Reverse(q) \in Seq(T) /\ ToSet(Reverse(q)) = ToSet(q)
         /\ IsInjective(q) => IsInjective(Reverse(q))
<1> DEFINE n == Len(q)
           r == [i \in 1 .. n |-> q[(n - i) + 1]]
<1>1. n \in Nat /\ DOMAIN q = 1 .. n
  OBVIOUS
<1>2. \A i \in 1 .. n : (n - i) + 1 \in 1 .. n /\ (n - ((n - i) + 1)) + 1 = i
  BY <1>1
<1>3. r \in Seq(T) /\ DOMAIN r = 1 .. n
  <2>1. \A i \in 1 .. n : q[(n - i) + 1] \in T
    BY <1>2, ElementOfSeq
  <2> QED BY <1>1, <2>1, IsASeq
<1>4. Reverse(q) = r
  BY DEF Reverse
<1> HIDE DEF n
<1>5. ToSet(r) = ToSet(q)
  <2>1. \A x : x \in ToSet(r) <=> \E i \in 1 .. n : x = q[(n - i) + 1]
    BY <1>3 DEF ToSet
  <2>2. \A x : x \in ToSet(q) <=> \E i \in 1 .. n : x = q[i]
    BY <1>1 DEF ToSet
  <2>3. \A i \in 1 .. n : \E j \in 1 .. n : i = (n - j) + 1
    BY <1>2
  <2> HIDE DEF r
  <2> QED BY <1>2, <2>1, <2>2, <2>3
<1>6. ASSUME IsInjective(q) PROVE IsInjective(r)
  <2> SUFFICES ASSUME NEW i \in 1 .. n, NEW j \in 1 .. n, q[(n - i) + 1] = q[(n - j) + 1] PROVE i = j
    BY <1>3 DEF IsInjective
  <2>1. (n - i) + 1 = (n - j) + 1
    BY <1>1, <1>2, <1>6 DEF IsInjective
  <2> QED BY <1>1, <2>1
<1> QED BY <1>3, <1>4, <1>5, <1>6

-----------------------------------------------------------------------------
(* Lists of segments.                                                      *)

(* Where x is in a list.                                                   *)
LEMMA InList ==
  ASSUME NEW T, NEW s \in Seq(T)
  PROVE  /\ Len(s) \in Nat /\ DOMAIN s = 1 .. Len(s) /\ (s = <<>> <=> Len(s) = 0)
         /\ \A x : x \in ToSet(s) <=> \E i \in 1 .. Len(s) : x = s[i]
         /\ ToSet(s) \subseteq T /\ (s # <<>> => ToSet(s) # {})
<1>1. Len(s) \in Nat /\ DOMAIN s = 1 .. Len(s) /\ (s = <<>> <=> Len(s) = 0)
  OBVIOUS
<1>2. \A x : x \in ToSet(s) <=> \E i \in 1 .. Len(s) : x = s[i]
  BY <1>1 DEF ToSet
<1>3. ToSet(s) \subseteq T
  <2>1. ASSUME NEW x \in ToSet(s) PROVE x \in T
    <3>1. PICK i \in 1 .. Len(s) : x = s[i]
      BY <1>2
    <3> QED BY <3>1, ElementOfSeq
  <2> QED BY <2>1
<1>4. ASSUME s # <<>> PROVE s[1] \in ToSet(s)
  <2>1. 1 \in 1 .. Len(s)
    BY <1>1, <1>4
  <2> QED BY <1>2, <2>1
<1> QED BY <1>1, <1>2, <1>3, <1>4

(* The part of a list from i to j.                                         *)
LEMMA PartOfList ==
  ASSUME NEW T, NEW s \in Seq(T), NEW i \in Nat \ {0}, NEW j \in Nat, i <= j + 1, j <= Len(s)
  PROVE  /\ SubSeq(s, i, j) \in Seq(T) /\ Len(SubSeq(s, i, j)) = (j - i) + 1
         /\ \A x : x \in ToSet(SubSeq(s, i, j)) <=> \E k \in i .. j : x = s[k]
         /\ IsInjective(s) => IsInjective(SubSeq(s, i, j))
         /\ i <= j => SubSeq(s, i, j) # <<>> /\ Last(SubSeq(s, i, j)) = s[j]
<1> DEFINE n == (j - i) + 1
           r == SubSeq(s, i, j)
<1>1. Len(s) \in Nat /\ n \in Nat /\ i \in Nat /\ j \in Nat /\ DOMAIN s = 1 .. Len(s)
  OBVIOUS
<1>2. r = [k \in 1 .. n |-> s[(i + k) - 1]]
  OBVIOUS
<1>3. \A k \in 1 .. n : (i + k) - 1 \in i .. j /\ (i + k) - 1 \in 1 .. Len(s)
  BY <1>1
<1>4. r \in Seq(T) /\ Len(r) = n /\ DOMAIN r = 1 .. n
  <2>1. \A k \in 1 .. n : s[(i + k) - 1] \in T
    BY <1>3, ElementOfSeq
  <2> HIDE DEF r, n
  <2> QED BY <1>1, <1>2, <2>1, IsASeq
<1>5. \A k \in i .. j : (k - i) + 1 \in 1 .. n /\ (i + ((k - i) + 1)) - 1 = k
  BY <1>1
<1>6. ASSUME NEW x PROVE x \in ToSet(r) <=> \E k \in i .. j : x = s[k]
  <2>1. x \in ToSet(r) <=> \E k \in 1 .. n : x = r[k]
    <3> HIDE DEF r, n
    <3> QED BY <1>4 DEF ToSet
  <2>2. \A k \in 1 .. n : r[k] = s[(i + k) - 1]
    <3> HIDE DEF r
    <3> QED BY <1>2
  <2> HIDE DEF r, n
  <2> QED BY <1>3, <1>5, <2>1, <2>2
<1>7. ASSUME IsInjective(s) PROVE IsInjective(r)
  <2> SUFFICES ASSUME NEW k \in 1 .. n, NEW m \in 1 .. n, r[k] = r[m] PROVE k = m
    <3> HIDE DEF r, n
    <3> QED BY <1>4 DEF IsInjective
  <2>1. s[(i + k) - 1] = s[(i + m) - 1] /\ (i + k) - 1 \in DOMAIN s /\ (i + m) - 1 \in DOMAIN s
    BY <1>1, <1>2, <1>3
  <2>2. (i + k) - 1 = (i + m) - 1
    BY <1>7, <2>1 DEF IsInjective
  <2> QED BY <1>1, <2>2
<1>8. ASSUME i <= j PROVE r # <<>> /\ Last(r) = s[j]
  <2>1. n # 0 /\ n \in 1 .. n /\ (i + n) - 1 = j
    BY <1>1, <1>8
  <2>2. Last(r) = r[n]
    <3> HIDE DEF r, n
    <3> QED BY <1>4 DEF Last
  <2>3. r[n] = s[(i + n) - 1]
    BY <1>2, <2>1
  <2>4. r # <<>>
    <3> HIDE DEF r, n
    <3> QED BY <1>4, <2>1
  <2> QED BY <2>1, <2>2, <2>3, <2>4
<1> HIDE DEF r
<1> QED BY <1>4, <1>6, <1>7, <1>8 DEF r

(* A list cut after its i-th element.                                      *)
LEMMA CutList ==
  ASSUME NEW T, NEW s \in Seq(T), NEW i \in 1 .. Len(s)
  PROVE  LET a == SubSeq(s, 1, i)
             b == SubSeq(s, i + 1, Len(s)) IN
         /\ a \in Seq(T) /\ b \in Seq(T) /\ Len(a) = i /\ Len(b) = Len(s) - i
         /\ a # <<>> /\ Last(a) = s[i]
         /\ ToSet(s) = ToSet(a) \cup ToSet(b)
         /\ i < Len(s) => b # <<>> /\ Last(b) = Last(s)
         /\ IsInjective(s) => IsInjective(a) /\ IsInjective(b) /\ ToSet(a) \cap ToSet(b) = {}
<1> DEFINE a == SubSeq(s, 1, i)
           b == SubSeq(s, i + 1, Len(s))
<1>1. Len(s) \in Nat /\ i \in Nat /\ 1 <= i /\ i <= Len(s) /\ DOMAIN s = 1 .. Len(s) /\ i + 1 \in Nat \ {0} /\ 1 \in Nat \ {0}
      /\ 1 <= i + 1 /\ i + 1 <= Len(s) + 1 /\ Len(s) <= Len(s)
  OBVIOUS
<1>2. /\ a \in Seq(T) /\ Len(a) = (i - 1) + 1 /\ (IsInjective(s) => IsInjective(a))
      /\ \A x : x \in ToSet(a) <=> \E k \in 1 .. i : x = s[k]
      /\ a # <<>> /\ Last(a) = s[i]
  <2> HIDE DEF a
  <2> QED BY <1>1, PartOfList DEF a
<1>3. /\ b \in Seq(T) /\ Len(b) = (Len(s) - (i + 1)) + 1 /\ (IsInjective(s) => IsInjective(b))
      /\ \A x : x \in ToSet(b) <=> \E k \in (i + 1) .. Len(s) : x = s[k]
      /\ i + 1 <= Len(s) => b # <<>> /\ Last(b) = s[Len(s)]
  <2> DEFINE Part(c, j) ==
        /\ SubSeq(s, c, j) \in Seq(T) /\ Len(SubSeq(s, c, j)) = (j - c) + 1
        /\ \A x : x \in ToSet(SubSeq(s, c, j)) <=> \E k \in c .. j : x = s[k]
        /\ IsInjective(s) => IsInjective(SubSeq(s, c, j))
        /\ c <= j => SubSeq(s, c, j) # <<>> /\ Last(SubSeq(s, c, j)) = s[j]
  <2>1. ASSUME NEW c \in Nat \ {0}, NEW j \in Nat, c <= j + 1, j <= Len(s) PROVE Part(c, j)
    BY ONLY s \in Seq(T), <2>1, PartOfList
  <2> HIDE DEF Part
  <2>2. Part(i + 1, Len(s))
    BY <1>1, <2>1
  <2> QED BY <2>2 DEF Part
<1> HIDE DEF a, b
<1>4. \A x : x \in ToSet(s) <=> \E k \in 1 .. Len(s) : x = s[k]
  BY InList
<1>5. ToSet(s) = ToSet(a) \cup ToSet(b)
  <2>1. \A k \in 1 .. Len(s) : k \in 1 .. i \/ k \in (i + 1) .. Len(s)
    BY <1>1
  <2>2. \A k \in 1 .. i : k \in 1 .. Len(s)
    BY <1>1
  <2>3. \A k \in (i + 1) .. Len(s) : k \in 1 .. Len(s)
    BY <1>1
  <2>4. ASSUME NEW x PROVE x \in ToSet(s) <=> x \in ToSet(a) \/ x \in ToSet(b)
    BY <1>2, <1>3, <1>4, <2>1, <2>2, <2>3
  <2> QED BY <2>4
<1>6. ASSUME IsInjective(s) PROVE ToSet(a) \cap ToSet(b) = {}
  <2> SUFFICES ASSUME NEW x, x \in ToSet(a), x \in ToSet(b) PROVE FALSE
    OBVIOUS
  <2>1. PICK k \in 1 .. i : x = s[k]
    BY <1>2
  <2>2. PICK m \in (i + 1) .. Len(s) : x = s[m]
    BY <1>3
  <2>3. k \in DOMAIN s /\ m \in DOMAIN s /\ k # m
    BY <1>1
  <2> QED BY <1>6, <2>1, <2>2, <2>3 DEF IsInjective
<1>7. i < Len(s) => i + 1 <= Len(s)
  BY <1>1
<1>8. (i - 1) + 1 = i /\ (Len(s) - (i + 1)) + 1 = Len(s) - i
  BY <1>1
<1> QED BY <1>2, <1>3, <1>5, <1>6, <1>7, <1>8 DEF a, b, Last

(* A list is its front and its last element,                               *)
LEMMA FrontAndLast ==
  ASSUME NEW T, NEW s \in Seq(T), s # <<>>
  PROVE  /\ Front(s) \in Seq(T) /\ Last(s) \in T /\ ToSet(s) = ToSet(Front(s)) \cup {Last(s)}
         /\ \A x : x \in ToSet(Front(s)) <=> \E k \in 1 .. Len(s) - 1 : x = s[k]
<1>1. Len(s) \in Nat /\ Len(s) # 0 /\ 1 \in Nat \ {0} /\ Len(s) - 1 \in Nat /\ 1 <= (Len(s) - 1) + 1 /\ Len(s) - 1 <= Len(s)
      /\ Len(s) \in 1 .. Len(s)
  OBVIOUS
<1>2. Last(s) \in T
  BY <1>1, ElementOfSeq DEF Last
<1>3. Front(s) \in Seq(T) /\ \A x : x \in ToSet(Front(s)) <=> \E k \in 1 .. Len(s) - 1 : x = s[k]
  BY <1>1, PartOfList DEF Front
<1>4. \A x : x \in ToSet(s) <=> \E k \in 1 .. Len(s) : x = s[k]
  BY InList
<1>5. ASSUME NEW x PROVE x \in ToSet(s) <=> x \in ToSet(Front(s)) \/ x = Last(s)
  <2>1. \A k \in 1 .. Len(s) : k \in 1 .. Len(s) - 1 \/ k = Len(s)
    BY <1>1
  <2>2. \A k \in 1 .. Len(s) - 1 : k \in 1 .. Len(s)
    BY <1>1
  <2> QED BY <1>1, <1>3, <1>4, <2>1, <2>2 DEF Last
<1> QED BY <1>2, <1>3, <1>5

(* or its head and its tail.                                               *)
LEMMA HeadAndTail ==
  ASSUME NEW T, NEW s \in Seq(T), s # <<>>
  PROVE  /\ Tail(s) \in Seq(T) /\ Len(Tail(s)) = Len(s) - 1 /\ Head(s) \in T
         /\ ToSet(s) = ToSet(Tail(s)) \cup {Head(s)}
         /\ IsInjective(s) => IsInjective(Tail(s)) /\ Head(s) \notin ToSet(Tail(s))
         /\ Len(s) # 1 => Tail(s) # <<>> /\ Last(Tail(s)) = Last(s)
<1> DEFINE a == SubSeq(s, 1, 1)
           b == SubSeq(s, 1 + 1, Len(s))
<1>1. Len(s) \in Nat /\ Len(s) # 0 /\ 1 \in 1 .. Len(s)
  OBVIOUS
<1>2. /\ a \in Seq(T) /\ b \in Seq(T) /\ Len(a) = 1 /\ Len(b) = Len(s) - 1
      /\ ToSet(s) = ToSet(a) \cup ToSet(b)
      /\ 1 < Len(s) => b # <<>> /\ Last(b) = Last(s)
      /\ IsInjective(s) => IsInjective(a) /\ IsInjective(b) /\ ToSet(a) \cap ToSet(b) = {}
      /\ a # <<>> /\ Last(a) = s[1]
  <2> DEFINE IsCut(i) ==
        /\ SubSeq(s, 1, i) \in Seq(T) /\ SubSeq(s, i + 1, Len(s)) \in Seq(T)
        /\ Len(SubSeq(s, 1, i)) = i /\ Len(SubSeq(s, i + 1, Len(s))) = Len(s) - i
        /\ ToSet(s) = ToSet(SubSeq(s, 1, i)) \cup ToSet(SubSeq(s, i + 1, Len(s)))
        /\ i < Len(s) => SubSeq(s, i + 1, Len(s)) # <<>> /\ Last(SubSeq(s, i + 1, Len(s))) = Last(s)
        /\ IsInjective(s) => /\ IsInjective(SubSeq(s, 1, i)) /\ IsInjective(SubSeq(s, i + 1, Len(s)))
                             /\ ToSet(SubSeq(s, 1, i)) \cap ToSet(SubSeq(s, i + 1, Len(s))) = {}
        /\ SubSeq(s, 1, i) # <<>> /\ Last(SubSeq(s, 1, i)) = s[i]
  <2>1. ASSUME NEW i \in 1 .. Len(s) PROVE IsCut(i)
    BY CutList
  <2> HIDE DEF IsCut
  <2>2. IsCut(1)
    BY <1>1, <2>1
  <2> QED BY <2>2 DEF IsCut, a, b
<1>3. Tail(s) = b
  <2>1. Tail(s) \in Seq(T) /\ Len(Tail(s)) = Len(s) - 1
    OBVIOUS
  <2>2. \A i \in 1 .. Len(s) - 1 : Tail(s)[i] = s[i + 1]
    OBVIOUS
  <2>3. \A i \in 1 .. Len(s) - 1 : b[i] = s[i + 1]
    BY <1>1
  <2> HIDE DEF b
  <2> QED BY <1>2, <2>1, <2>2, <2>3, SeqEqual
<1>4. Head(s) = s[1] /\ s[1] \in T
  BY <1>1, ElementOfSeq
<1> HIDE DEF a, b
<1>5. ToSet(a) = {Head(s)}
  <2>1. \A x : x \in ToSet(a) <=> \E i \in 1 .. 1 : x = a[i]
    BY <1>2, InList
  <2>2. a[1] = s[1]
    BY <1>2 DEF Last
  <2>3. \A i \in 1 .. 1 : i = 1
    OBVIOUS
  <2> QED BY <1>4, <2>1, <2>2, <2>3
<1>6. Len(s) # 1 => 1 < Len(s)
  BY <1>1
<1> QED BY <1>2, <1>3, <1>4, <1>5, <1>6

(* One more at the end.                                                    *)
LEMMA OneMore ==
  ASSUME NEW T, NEW s \in Seq(T), NEW x \in T
  PROVE  /\ Append(s, x) \in Seq(T) /\ Len(Append(s, x)) = Len(s) + 1 /\ Append(s, x) # <<>>
         /\ Last(Append(s, x)) = x /\ ToSet(Append(s, x)) = ToSet(s) \cup {x}
         /\ IsInjective(s) /\ x \notin ToSet(s) => IsInjective(Append(s, x))
<1> DEFINE r == Append(s, x)
<1>1. r \in Seq(T) /\ Len(r) = Len(s) + 1 /\ Len(s) \in Nat /\ r # <<>> /\ r[Len(s) + 1] = x /\ (\A i \in 1 .. Len(s) : r[i] = s[i])
  OBVIOUS
<1> HIDE DEF r
<1>2. /\ \A y : y \in ToSet(r) <=> \E i \in 1 .. Len(r) : y = r[i]
      /\ \A y : y \in ToSet(s) <=> \E i \in 1 .. Len(s) : y = s[i]
      /\ DOMAIN r = 1 .. Len(r) /\ DOMAIN s = 1 .. Len(s)
  BY <1>1, InList
<1>3. \A i \in 1 .. Len(r) : i \in 1 .. Len(s) \/ i = Len(s) + 1
  BY <1>1
<1>4. (\A i \in 1 .. Len(s) : i \in 1 .. Len(r)) /\ Len(s) + 1 \in 1 .. Len(r)
  BY <1>1
<1>5. ASSUME NEW y PROVE y \in ToSet(r) <=> y \in ToSet(s) \/ y = x
  BY <1>1, <1>2, <1>3, <1>4
<1>6. ASSUME IsInjective(s), x \notin ToSet(s) PROVE IsInjective(r)
  <2> SUFFICES ASSUME NEW i \in 1 .. Len(r), NEW j \in 1 .. Len(r), r[i] = r[j] PROVE i = j
    BY <1>2 DEF IsInjective
  <2>1. \A k \in 1 .. Len(s) : s[k] # x
    BY <1>2, <1>6
  <2> QED BY <1>1, <1>2, <1>3, <1>6, <2>1 DEF IsInjective
<1>7. Last(r) = x
  BY <1>1 DEF Last
<1> QED BY <1>1, <1>5, <1>6, <1>7 DEF r

(* All of a list of nowheres is nowhere.                                   *)
LEMMA AllNowhere ==
  ASSUME NEW T, 0 \in T, NEW n \in Nat
  PROVE  Nowhere(n) \in Seq(T) /\ Len(Nowhere(n)) = n /\ ToSet(Nowhere(n)) \subseteq {0}
<1>1. \A i \in 1 .. n : Nowhere(n)[i] = 0
  BY DEF Nowhere
<1>2. Nowhere(n) \in Seq(T) /\ Len(Nowhere(n)) = n
  BY IsASeq DEF Nowhere
<1>3. ASSUME NEW y \in ToSet(Nowhere(n)) PROVE y = 0
  <2>1. PICK i \in 1 .. Len(Nowhere(n)) : y = Nowhere(n)[i]
    BY <1>2, InList
  <2> QED BY <1>1, <1>2, <2>1
<1> QED BY <1>2, <1>3

(* A part of it too; and the squares of a list are finitely many.          *)
LEMMA SquaresFinite ==
  ASSUME NEW T, NEW s \in Seq(T)
  PROVE  IsFiniteSet(ToSet(s))
<1> DEFINE f == [i \in 1 .. Len(s) |-> s[i]]
<1>1. Len(s) \in Nat /\ IsFiniteSet(1 .. Len(s))
  <2>1. Len(s) \in Nat
    OBVIOUS
  <2> QED BY <2>1, FS_Interval
<1>2. \A x : x \in ToSet(s) <=> \E i \in 1 .. Len(s) : x = s[i]
  BY InList
<1>3. f \in Surjection(1 .. Len(s), ToSet(s))
  BY <1>2 DEF Surjection
<1> HIDE DEF f
<1> QED BY <1>1, <1>3, FS_Surjection

-----------------------------------------------------------------------------
(* The invariant.                                                          *)

Worlds ==
  [mon : [Mon -> Struct], fmon : Seq(Mon), migrating : Seq(Mon), grid : [Square \cup {0} -> Mon \cup {None}],
   wsegs : [Slots -> Seq(Square \cup {0})], usteed : Mon \cup {None}, hero : Square, purge : Nat,
   away : [fmon : Seq(Mon), wsegs : [Slots -> Seq(Square \cup {0})]]]

(* The structs that are not on the level.                                  *)
Elsewhere(w) == ToSet(w.migrating) \cup ToSet(w.away.fmon)

(* No struct is on two chains, or twice on one.                            *)
Apart(w) ==
  /\ IsInjective(w.fmon) /\ IsInjective(w.migrating) /\ IsInjective(w.away.fmon)
  /\ ToSet(w.fmon) \cap Elsewhere(w) = {} /\ ToSet(w.migrating) \cap ToSet(w.away.fmon) = {}

(* A worm with a tail has it in a slot.                                    *)
Tailed(w, m) ==
  w.mon[m].wormno # 0 =>
    /\ w.mon[m].shape = "worm" /\ w.mon[m].wormno \in Slots
    /\ segs(w, m) # <<>> /\ Len(segs(w, m)) <= MaxTail + 1

(* m is on a square, its tail behind it.                                   *)
Lies(w, m) ==
  /\ w.mon[m].x \in Square
  /\ w.mon[m].wormno # 0 => Last(segs(w, m)) = w.mon[m].x /\ IsInjective(segs(w, m)) /\ ToSet(segs(w, m)) \subseteq Square

Owns(w, m, n) == m \in Living(w) /\ w.mon[m].wormno = n

(* Each slot in use is that of one monster.                                *)
Owned(w) ==
  \A n \in Slots : /\ w.wsegs[n] # <<>> => \E m \in Mon : Owns(w, m, n)
                   /\ \A m, k \in Mon : Owns(w, m, n) /\ Owns(w, k, n) => m = k

(* The level, when the monsters S are in the air: on the chain and not on  *)
(* the map.                                                                *)
Level(w, S) ==
  /\ \A m \in Living(w) : Tailed(w, m) /\ (m \notin S => Lies(w, m))
  /\ Owned(w)

Shows(w, S, m) == \A p \in Square \cup {0} : w.grid[p] = m <=> (m \in Living(w) \ S /\ p \in Body(w, m))
Shown(w, S)    == \A m \in Mon : Shows(w, S, m)

(* The other level, as if it were this one.                                *)
there(w) == [w EXCEPT !.fmon = w.away.fmon, !.wsegs = w.away.wsegs]

Away(w) ==
  /\ \A m \in ToSet(w.away.fmon) : w.mon[m].alive
  /\ Level(there(w), {})
  /\ \A m, k \in ToSet(w.away.fmon) : m # k => Body(there(w), m) \cap Body(there(w), k) = {}

(* Between two levels.                                                     *)
Travels(w, m) == w.mon[m].alive /\ w.mon[m].x = 0 /\ w.mon[m].wormno <= MaxTail

Dead(w)      == {m \in ToSet(w.fmon) : ~w.mon[m].alive}
PurgeFits(w) == w.purge = Cardinality(Dead(w))

(* All is well but for what is in the air and where the hero is.           *)
Good(w, S) ==
  /\ w \in Worlds /\ Apart(w) /\ S \subseteq Living(w)
  /\ Level(w, S) /\ Shown(w, S) /\ PurgeFits(w)
  /\ Away(w) /\ \A m \in ToSet(w.migrating) : Travels(w, m)

Ridden(w) == {w.usteed} \ {None}

Riding(w) == w.usteed # None =>
  /\ w.usteed \in Living(w)
  /\ w.mon[w.usteed].x = w.hero /\ w.mon[w.usteed].shape = "horse" /\ w.mon[w.usteed].wormno = 0

Rest(w) == Good(w, Ridden(w)) /\ w.grid[w.hero] = None /\ Riding(w)

NextFits == next \in ToSet(fmon) \cup {None, Hero}

MonInv == Rest(World) /\ NextFits

-----------------------------------------------------------------------------
(* The parts of a world.                                                   *)

LEMMA WorldParts ==
  ASSUME NEW w \in Worlds
  PROVE  /\ w.mon \in [Mon -> Struct] /\ w.fmon \in Seq(Mon) /\ w.migrating \in Seq(Mon)
         /\ w.grid \in [Square \cup {0} -> Mon \cup {None}] /\ w.wsegs \in [Slots -> Seq(Square \cup {0})]
         /\ w.usteed \in Mon \cup {None} /\ w.hero \in Square /\ w.purge \in Nat
         /\ w.away.fmon \in Seq(Mon) /\ w.away.wsegs \in [Slots -> Seq(Square \cup {0})]
         /\ w.away \in [fmon : Seq(Mon), wsegs : [Slots -> Seq(Square \cup {0})]]
         /\ ToSet(w.fmon) \subseteq Mon /\ Elsewhere(w) \subseteq Mon /\ Living(w) \subseteq ToSet(w.fmon)
<1>1. /\ w.mon \in [Mon -> Struct] /\ w.fmon \in Seq(Mon) /\ w.migrating \in Seq(Mon)
      /\ w.grid \in [Square \cup {0} -> Mon \cup {None}] /\ w.wsegs \in [Slots -> Seq(Square \cup {0})]
      /\ w.usteed \in Mon \cup {None} /\ w.hero \in Square /\ w.purge \in Nat
      /\ w.away \in [fmon : Seq(Mon), wsegs : [Slots -> Seq(Square \cup {0})]]
  BY DEF Worlds
<1>2. w.away.fmon \in Seq(Mon) /\ w.away.wsegs \in [Slots -> Seq(Square \cup {0})]
  BY <1>1
<1>3. ToSet(w.fmon) \subseteq Mon /\ ToSet(w.migrating) \subseteq Mon /\ ToSet(w.away.fmon) \subseteq Mon
  BY <1>1, <1>2, InList
<1> QED BY <1>1, <1>2, <1>3 DEF Elsewhere, Living

(* A struct has fields.                                                    *)
LEMMA StructParts ==
  ASSUME NEW s \in Struct
  PROVE  /\ s.alive \in BOOLEAN /\ s.x \in Square \cup {0} /\ s.shape \in Shapes /\ s.wormno \in 0 .. (MaxWorms + MaxTail)
         /\ s.wormno \in Nat /\ s.old \in Shapes /\ s.timer \in BOOLEAN
<1>1. MaxWorms + MaxTail \in Nat
  BY LevelIsFinite
<1> QED BY <1>1 DEF Struct

(* What is elsewhere is as it was if nothing there is changed.             *)
LEMMA StaysAway ==
  ASSUME NEW w \in Worlds, NEW v \in Worlds, v.away = w.away, \A k \in ToSet(w.away.fmon) : v.mon[k] = w.mon[k], Away(w)
  PROVE  Away(v)
<1> DEFINE a == there(w)
           b == there(v)
<1>1. /\ a.mon = w.mon /\ a.fmon = w.away.fmon /\ a.wsegs = w.away.wsegs
      /\ b.mon = v.mon /\ b.fmon = w.away.fmon /\ b.wsegs = w.away.wsegs
  BY DEF there, Worlds
<1> HIDE DEF a, b
<1>2. \A k \in ToSet(w.away.fmon) : b.mon[k] = a.mon[k]
  BY <1>1
<1>3. \A k \in ToSet(w.away.fmon) : Body(b, k) = Body(a, k) /\ (Tailed(b, k) <=> Tailed(a, k)) /\ (Lies(b, k) <=> Lies(a, k))
  BY <1>1, <1>2 DEF Body, Tailed, Lies, segs
<1>4. Living(b) = Living(a) /\ Living(a) \subseteq ToSet(w.away.fmon)
  BY <1>1, <1>2 DEF Living
<1>5. \A k \in Mon, n \in Slots : Owns(b, k, n) <=> Owns(a, k, n)
  BY <1>2, <1>4 DEF Owns
<1>6. Level(b, {})
  <2>1. Level(a, {})
    BY DEF Away, a
  <2>2. Owned(b)
    BY <1>1, <1>5, <2>1 DEF Level, Owned
  <2> QED BY <1>3, <1>4, <2>1, <2>2 DEF Level
<1>7. \A k \in ToSet(w.away.fmon) : w.mon[k].alive
  BY DEF Away
<1>8. \A m, k \in ToSet(w.away.fmon) : m # k => Body(a, m) \cap Body(a, k) = {}
  BY DEF Away, a
<1>9. \A m, k \in ToSet(w.away.fmon) : m # k => Body(b, m) \cap Body(b, k) = {}
  BY <1>3, <1>8
<1> QED BY <1>6, <1>7, <1>9 DEF Away, b

-----------------------------------------------------------------------------
(* One monster is changed.                                                 *)

(* Between w and v only m is another, or elsewhere on the level, or comes, *)
(* or goes: whether or not it was in the air, now T are.  Its old slot is  *)
(* free if it does not keep it, and its new one was, and it is shown where *)
(* it lies now, and nowhere else.                                          *)
KeepsSlot(w, v, m, n) ==
  \/ v.wsegs[n] = w.wsegs[n] /\ (Owns(w, m, n) <=> Owns(v, m, n))
  \/ /\ Owns(w, m, n) \/ w.wsegs[n] = <<>>
     /\ Owns(v, m, n) \/ v.wsegs[n] = <<>>

Redrawn(w, v, m, S, T) ==
  /\ v \in Worlds /\ Apart(v) /\ v.migrating = w.migrating /\ v.away = w.away
  /\ m \in Mon \ Elsewhere(w) /\ ToSet(v.fmon) \ {m} = ToSet(w.fmon) \ {m}
  /\ \A k \in Mon \ {m} : v.mon[k] = w.mon[k]
  /\ T \ {m} = S \ {m} /\ T \subseteq Living(v)
  /\ \A p \in Square \cup {0}, k \in Mon \ {m} : v.grid[p] = k <=> w.grid[p] = k
  /\ Shows(v, T, m)
  /\ m \in Living(v) => Tailed(v, m) /\ (m \notin T => Lies(v, m))
  /\ \A n \in Slots : KeepsSlot(w, v, m, n)

(* All else is as it was, and no slot is lost or shared.                   *)
LEMMA Redraw ==
  ASSUME NEW w, NEW S, Good(w, S), NEW v, NEW m, NEW T, Redrawn(w, v, m, S, T), PurgeFits(v)
  PROVE  Good(v, T)
<1>1. /\ w \in Worlds /\ v \in Worlds /\ m \in Mon /\ Apart(w) /\ Level(w, S) /\ Shown(w, S) /\ Away(w)
      /\ \A k \in Mon : k # m => v.mon[k] = w.mon[k]
  BY DEF Good, Redrawn
<1>2. /\ ToSet(w.fmon) \subseteq Mon /\ Elsewhere(w) \subseteq Mon /\ Living(w) \subseteq ToSet(w.fmon)
      /\ ToSet(v.fmon) \subseteq Mon /\ Living(v) \subseteq ToSet(v.fmon)
  BY <1>1, WorldParts
<1>3. \A k \in Mon : k # m => (k \in Living(v) <=> k \in Living(w)) /\ (k \in T <=> k \in S)
  <2>1. \A k : k # m => (k \in ToSet(v.fmon) <=> k \in ToSet(w.fmon)) /\ (k \in T <=> k \in S)
    BY DEF Redrawn
  <2> QED BY <1>1, <2>1 DEF Living
<1>4. \A k \in Mon, n \in Slots : k # m => (Owns(v, k, n) <=> Owns(w, k, n))
  BY <1>1, <1>3 DEF Owns
<1>5. Owned(w) /\ \A n \in Slots : KeepsSlot(w, v, m, n)
  BY <1>1 DEF Level, Redrawn
<1>6. ASSUME NEW k \in Living(w), k # m, w.mon[k].wormno # 0
      PROVE  w.mon[k].wormno \in Slots /\ v.wsegs[w.mon[k].wormno] = w.wsegs[w.mon[k].wormno]
  <2> DEFINE n == w.mon[k].wormno
  <2>1. n \in Slots /\ w.wsegs[n] # <<>>
    BY <1>1, <1>6 DEF Level, Tailed, segs
  <2>2. Owns(w, k, n) /\ k \in Mon
    BY <1>2 DEF Owns
  <2>3. ~Owns(w, m, n)
    BY <1>1, <1>5, <1>6, <2>1, <2>2 DEF Owned
  <2> QED BY <1>5, <2>1, <2>3 DEF KeepsSlot
<1>7. ASSUME NEW k \in Living(w), k # m
      PROVE  Body(v, k) = Body(w, k) /\ (Tailed(v, k) <=> Tailed(w, k)) /\ (Lies(v, k) <=> Lies(w, k))
  <2>1. v.mon[k] = w.mon[k] /\ k \in Mon
    BY <1>1, <1>2, <1>7
  <2>2. w.mon[k].wormno # 0 => segs(v, k) = segs(w, k)
    BY <1>6, <1>7, <2>1 DEF segs
  <2> QED BY <2>1, <2>2 DEF Body, Tailed, Lies
<1>8. Owned(v)
  <2> SUFFICES ASSUME NEW n \in Slots
               PROVE  /\ v.wsegs[n] # <<>> => \E k \in Mon : Owns(v, k, n)
                      /\ \A j, k \in Mon : Owns(v, j, n) /\ Owns(v, k, n) => j = k
    BY DEF Owned
  <2>1. ASSUME v.wsegs[n] # <<>> PROVE \E k \in Mon : Owns(v, k, n)
    <3>1. CASE v.wsegs[n] = w.wsegs[n] /\ (Owns(w, m, n) <=> Owns(v, m, n))
      BY <1>1, <1>4, <1>5, <2>1, <3>1 DEF Owned
    <3>2. CASE Owns(v, m, n)
      BY <1>1, <3>2
    <3> QED BY <1>5, <2>1, <3>1, <3>2 DEF KeepsSlot
  <2>2. ASSUME NEW k \in Mon, k # m, Owns(v, k, n), Owns(v, m, n) PROVE FALSE
    <3>1. Owns(w, k, n)
      BY <1>4, <2>2
    <3>2. ~Owns(w, m, n)
      BY <1>1, <1>5, <2>2, <3>1 DEF Owned
    <3>3. w.wsegs[n] = <<>>
      BY <1>5, <2>2, <3>2 DEF KeepsSlot
    <3>4. k \in Living(w) /\ w.mon[k].wormno = n
      BY <3>1 DEF Owns
    <3>5. n # 0
      BY LevelIsFinite DEF Slots
    <3>6. Tailed(w, k)
      BY <1>1, <3>4 DEF Level
    <3> QED BY <3>3, <3>4, <3>5, <3>6 DEF Tailed, segs
  <2>3. ASSUME NEW j \in Mon, NEW k \in Mon, Owns(v, j, n), Owns(v, k, n) PROVE j = k
    BY <1>4, <1>5, <2>2, <2>3 DEF Owned
  <2> QED BY <2>1, <2>3
<1>9. Level(v, T)
  <2> SUFFICES ASSUME NEW k \in Living(v) PROVE Tailed(v, k) /\ (k \notin T => Lies(v, k))
    BY <1>8 DEF Level
  <2>1. CASE k = m
    BY <2>1 DEF Redrawn
  <2>2. CASE k # m
    <3>1. k \in Mon /\ k \in Living(w) /\ (k \in T <=> k \in S)
      BY <1>2, <1>3, <2>2
    <3> QED BY <1>1, <1>7, <2>2, <3>1 DEF Level
  <2> QED BY <2>1, <2>2
<1>10. Shown(v, T)
  <2> SUFFICES ASSUME NEW k \in Mon PROVE Shows(v, T, k)
    BY DEF Shown
  <2>1. CASE k = m
    BY <2>1 DEF Redrawn
  <2>2. CASE k # m
    <3> SUFFICES ASSUME NEW p \in Square \cup {0} PROVE v.grid[p] = k <=> (k \in Living(v) \ T /\ p \in Body(v, k))
      BY DEF Shows
    <3>1. v.grid[p] = k <=> w.grid[p] = k
      BY <2>2 DEF Redrawn
    <3>2. w.grid[p] = k <=> (k \in Living(w) \ S /\ p \in Body(w, k))
      BY <1>1 DEF Shown, Shows
    <3> QED BY <1>3, <1>7, <2>2, <3>1, <3>2
  <2> QED BY <2>1, <2>2
<1>11. \A k \in Elsewhere(w) : v.mon[k] = w.mon[k]
  BY <1>1, <1>2 DEF Redrawn
<1>12. Away(v)
  BY <1>1, <1>11, StaysAway DEF Redrawn, Elsewhere
<1>13. \A k \in ToSet(v.migrating) : Travels(v, k)
  BY <1>11 DEF Redrawn, Good, Travels, Elsewhere
<1> QED BY <1>1, <1>9, <1>10, <1>12, <1>13 DEF Good, Redrawn

(* The dead are as many as they were if the same are dead.                 *)
LEMMA SameDead ==
  ASSUME NEW w, NEW v, PurgeFits(w), v.purge = w.purge, Dead(v) = Dead(w)
  PROVE  PurgeFits(v)
  BY DEF PurgeFits

-----------------------------------------------------------------------------
(* What the helpers of the map and of the tails change.                    *)

(* No one comes, goes or dies.                                             *)
SameChains(w, v) == v.fmon = w.fmon /\ v.migrating = w.migrating /\ v.away = w.away /\ v.purge = w.purge
SameHero(w, v)   == v.usteed = w.usteed /\ v.hero = w.hero

(* v is w with these structs, this map and these tails.                    *)
Sets(w, v, f, g, s) == v \in Worlds /\ v.mon = f /\ v.grid = g /\ v.wsegs = s /\ SameChains(w, v) /\ SameHero(w, v)

Paint(g, Q, m) == [p \in Square \cup {0} |-> IF p \in Q THEN m ELSE g[p]]
At(f, m, p)    == [f EXCEPT ![m].x = p]

(* Painting keeps the map a map.                                            *)
LEMMA PaintType ==
  ASSUME NEW g \in [Square \cup {0} -> Mon \cup {None}], NEW Q, NEW m \in Mon \cup {None}
  PROVE  Paint(g, Q, m) \in [Square \cup {0} -> Mon \cup {None}]
  BY DEF Paint

(* Where a monster is is all that changes of its struct.                    *)
LEMMA AtType ==
  ASSUME NEW f \in [Mon -> Struct], NEW m \in Mon, NEW p \in Square \cup {0}
  PROVE  /\ At(f, m, p) \in [Mon -> Struct] /\ \A k \in Mon \ {m} : At(f, m, p)[k] = f[k]
         /\ At(f, m, p)[m].x = p /\ At(f, m, p)[m].alive = f[m].alive /\ At(f, m, p)[m].shape = f[m].shape
         /\ At(f, m, p)[m].wormno = f[m].wormno /\ At(f, m, p)[m].old = f[m].old /\ At(f, m, p)[m].timer = f[m].timer
  BY DEF At, Struct

(* Nothing but one square of the map changes.                               *)
LEMMA RemoveParts ==
  ASSUME NEW w \in Worlds, NEW p \in Square \cup {0}
  PROVE  Sets(w, remove_monster(w, p), w.mon, Paint(w.grid, {p}, None), w.wsegs)
<1> DEFINE g == Paint(w.grid, {p}, None)
           v == [w EXCEPT !.grid = g]
<1>1. [w.grid EXCEPT ![p] = None] = g
  BY DEF Worlds, Paint
<1>2. remove_monster(w, p) = v
  BY <1>1 DEF remove_monster
<1>3. g \in [Square \cup {0} -> Mon \cup {None}]
  BY WorldParts, PaintType
<1> HIDE DEF g
<1>4. Sets(w, v, w.mon, g, w.wsegs)
  BY <1>3 DEF Sets, SameChains, SameHero, Worlds
<1> QED BY <1>2, <1>4 DEF g

(* over, for a map.                                                        *)
LEMMA Repaint ==
  ASSUME NEW g \in [Square \cup {0} -> Mon \cup {None}], NEW Q, IsFiniteSet(Q), NEW m \in Mon \cup {None}
  PROVE  over([p \in Q |-> m], g) = Paint(g, Q, m)
<1> DEFINE b == [p \in Q |-> m]
           D == Square \cup {0}
           V == Mon \cup {None}
<1>1. DOMAIN b = Q /\ (\A p \in Q : b[p] = m) /\ g \in [D -> V] /\ m \in V
  OBVIOUS
<1> HIDE DEF b, D, V
<1>2. IsFiniteSet(DOMAIN b) /\ \A p \in DOMAIN b : b[p] \in V
  BY <1>1
<1>3. over(b, g) = Written(g, b, D, DOMAIN b)
  BY <1>1, <1>2, Overwritten
<1>4. Written(g, b, D, DOMAIN b) = Paint(g, Q, m)
  BY <1>1 DEF Written, Paint, D
<1> QED BY <1>3, <1>4 DEF b

(* Nothing but these squares of the map change.                             *)
LEMMA ClearParts ==
  ASSUME NEW w \in Worlds, NEW Q, IsFiniteSet(Q)
  PROVE  Sets(w, Clear(w, Q), w.mon, Paint(w.grid, Q, None), w.wsegs)
<1> DEFINE g == Paint(w.grid, Q, None)
           v == [w EXCEPT !.grid = g]
           b == [p \in Q |-> None]
<1>1. over(b, w.grid) = g
  <2>1. w.grid \in [Square \cup {0} -> Mon \cup {None}] /\ None \in Mon \cup {None}
    BY WorldParts
  <2> QED BY <2>1, Repaint
<1>2. Clear(w, Q) = v
  <2>1. Clear(w, Q) = [w EXCEPT !.grid = over(b, w.grid)]
    BY DEF Clear
  <2> QED BY <1>1, <2>1
<1>3. g \in [Square \cup {0} -> Mon \cup {None}]
  BY WorldParts, PaintType
<1> HIDE DEF g
<1>4. Sets(w, v, w.mon, g, w.wsegs)
  BY <1>3 DEF Sets, SameChains, SameHero, Worlds
<1> QED BY <1>2, <1>4 DEF g

(* The monster is at p, and so says the map.                                *)
LEMMA PlaceParts ==
  ASSUME NEW w \in Worlds, NEW m \in Mon, m # w.usteed, w.mon[m].alive, NEW p \in Square \cup {0}
  PROVE  Sets(w, place_monster(w, m, p), At(w.mon, m, p), Paint(w.grid, {p}, m), w.wsegs)
<1> DEFINE f == At(w.mon, m, p)
           g == Paint(w.grid, {p}, m)
           v == [w EXCEPT !.mon = f, !.grid = g]
<1>1. [w.grid EXCEPT ![p] = m] = g
  BY DEF Worlds, Paint
<1>2. place_monster(w, m, p) = v
  <2>1. place_monster(w, m, p) = [w EXCEPT !.mon[m].x = p, !.grid[p] = m]
    BY DEF place_monster
  <2>2. [w EXCEPT !.mon[m].x = p, !.grid[p] = m] = [w EXCEPT !.mon = f, !.grid = [w.grid EXCEPT ![p] = m]]
    BY DEF At, Worlds
  <2> HIDE DEF f, g
  <2> QED BY <1>1, <2>1, <2>2
<1>3. g \in [Square \cup {0} -> Mon \cup {None}] /\ f \in [Mon -> Struct]
  <2>1. w.mon \in [Mon -> Struct] /\ w.grid \in [Square \cup {0} -> Mon \cup {None}]
    BY WorldParts
  <2> QED BY <2>1, PaintType, AtType
<1> HIDE DEF f, g
<1>4. Sets(w, v, f, g, w.wsegs)
  BY <1>3 DEF Sets, SameChains, SameHero, Worlds
<1> QED BY <1>2, <1>4 DEF f, g

(* Of the dead, and of the steed, there is nothing to place.               *)
LEMMA PlaceNothing ==
  ASSUME NEW w, NEW m, NEW p, m = w.usteed \/ ~w.mon[m].alive
  PROVE  place_monster(w, m, p) = w
  BY DEF place_monster

(* A tail is put on the map.                                                *)
LEMMA SegmentsParts ==
  ASSUME NEW w \in Worlds, NEW m \in Mon, w.mon[m].wormno \in Slots, segs(w, m) # <<>>
  PROVE  Sets(w, place_wsegs(w, m), w.mon, Paint(w.grid, ToSet(Front(segs(w, m))), m), w.wsegs)
<1> DEFINE Q == ToSet(Front(segs(w, m)))
           g == Paint(w.grid, Q, m)
           v == [w EXCEPT !.grid = g]
           b == [p \in Q |-> m]
<1>0. w.grid \in [Square \cup {0} -> Mon \cup {None}] /\ w.wsegs \in [Slots -> Seq(Square \cup {0})]
  BY WorldParts
<1>1. IsFiniteSet(Q)
  <2>1. segs(w, m) \in Seq(Square \cup {0})
    BY <1>0 DEF segs
  <2>2. Front(segs(w, m)) \in Seq(Square \cup {0})
    BY <2>1, FrontAndLast
  <2> QED BY <2>2, SquaresFinite
<1>2. place_wsegs(w, m) = [w EXCEPT !.grid = over(b, w.grid)]
  BY DEF place_wsegs
<1> HIDE DEF Q
<1>3. over(b, w.grid) = g
  BY <1>0, <1>1, Repaint
<1>4. g \in [Square \cup {0} -> Mon \cup {None}]
  BY <1>0, PaintType
<1> HIDE DEF g, b
<1>5. Sets(w, v, w.mon, g, w.wsegs)
  BY <1>4 DEF Sets, SameChains, SameHero, Worlds
<1> QED BY <1>2, <1>3, <1>5 DEF g, Q

(* The tail laid is a path to p over squares that were free, and not that  *)
(* of the hero; and nothing of the old tail is left over.                  *)
IsTail(u, m, p, t) ==
  /\ t \in Seq(Square) /\ t # <<>> /\ Len(t) <= Len(segs(u, m)) /\ Last(t) = p /\ IsInjective(t)
  /\ \A q \in ToSet(Front(t)) : u.grid[q] = None /\ q # u.hero

Laid(u, v, m, p, t) ==
  Sets(u, v, u.mon, Paint(u.grid, ToSet(Front(t)), m), [u.wsegs EXCEPT ![u.mon[m].wormno] = t])

(* What place_worm_tail_randomly may lay.                                   *)
LEMMA LayTail ==
  ASSUME "mishaps" \notin Deeds,
         NEW u \in Worlds, NEW m \in Mon, m # u.usteed, u.mon[m].wormno \in Slots, segs(u, m) # <<>>,
         NEW p \in Square, NEW v \in place_worm_tail_randomly(u, m, p)
  PROVE  \E t : IsTail(u, m, p, t) /\ Laid(u, v, m, p, t)
<1> DEFINE n == u.mon[m].wormno
           s == segs(u, m)
           z(t) == [u EXCEPT !.wsegs[n] = t]
<1>1. u.wsegs \in [Slots -> Seq(Square \cup {0})] /\ u.grid \in [Square \cup {0} -> Mon \cup {None}]
  BY WorldParts
<1>2. s \in Seq(Square \cup {0}) /\ Len(s) \in Nat
  <2>1. s \in Seq(Square \cup {0})
    BY <1>1 DEF segs
  <2> QED BY <2>1, InList
<1>3. PICK t \in tails(u, m, p) : v = toss_wsegs(place_wsegs(z(t), m), unlaid(s, t))
  BY DEF place_worm_tail_randomly
<1>4. /\ \E k \in 1 .. Len(s) : t \in [1 .. k -> Square]
      /\ Last(t) = p /\ IsInjective(t)
      /\ \A i \in 1 .. Len(t) - 1 : goodpos(u, m, t[i])
      /\ ToSet(unlaid(s, t)) \subseteq {0}
  BY DEF tails
<1>5. t \in Seq(Square) /\ t # <<>> /\ Len(t) <= Len(s)
  <2>1. PICK k \in 1 .. Len(s) : t \in [1 .. k -> Square]
    BY <1>4
  <2>2. k \in Nat /\ t \in Seq(Square)
    BY <1>2, <2>1, SeqDef
  <2>3. DOMAIN t = 1 .. k /\ DOMAIN t = 1 .. Len(t) /\ Len(t) \in Nat
    BY <2>1, <2>2, InList
  <2>4. Len(t) = k
    BY <2>2, <2>3
  <2>5. (t = <<>> <=> Len(t) = 0)
    BY <2>2, InList
  <2> QED BY <1>2, <2>2, <2>4, <2>5
<1>6. IsTail(u, m, p, t)
  <2>1. ASSUME NEW q \in ToSet(Front(t)) PROVE u.grid[q] = None /\ q # u.hero
    <3>1. PICK i \in 1 .. Len(t) - 1 : q = t[i]
      BY <1>5, FrontAndLast
    <3>2. n # 0
      BY LevelIsFinite DEF Slots
    <3> QED BY <1>4, <3>1, <3>2 DEF goodpos
  <2> QED BY <1>4, <1>5, <2>1 DEF IsTail
<1> DEFINE y == [u.wsegs EXCEPT ![n] = t]
           Q == ToSet(Front(t))
<1>7. Sets(u, z(t), u.mon, u.grid, y) /\ z(t).wsegs[n] = t
  <2>1. y \in [Slots -> Seq(Square \cup {0})] /\ y[n] = t
    <3>1. t \in Seq(Square \cup {0})
      BY <1>5, SeqMonotonic
    <3> QED BY <1>1, <3>1
  <2>2. z(t) = [u EXCEPT !.wsegs = y]
    BY DEF Worlds
  <2> HIDE DEF z, y
  <2>3. Sets(u, [u EXCEPT !.wsegs = y], u.mon, u.grid, y)
    BY <2>1 DEF Sets, SameChains, SameHero, Worlds
  <2>4. z(t).wsegs = y
    BY <2>2, <2>3 DEF Sets
  <2> QED BY <2>1, <2>2, <2>3, <2>4
<1> DEFINE a == z(t)
           b == place_wsegs(a, m)
<1>8. a \in Worlds /\ a.mon = u.mon /\ a.grid = u.grid /\ a.wsegs = y /\ segs(a, m) = t /\ SameChains(u, a) /\ SameHero(u, a)
  <2> HIDE DEF a, z
  <2> QED BY <1>7 DEF Sets, a, segs
<1> HIDE DEF z
<1>9. Sets(a, b, u.mon, Paint(u.grid, Q, m), y)
  <2>1. a.mon[m].wormno \in Slots /\ segs(a, m) # <<>>
    BY <1>5, <1>8
  <2> HIDE DEF a, y
  <2>2. Sets(a, place_wsegs(a, m), a.mon, Paint(a.grid, ToSet(Front(segs(a, m))), m), a.wsegs)
    BY <1>8, <2>1, SegmentsParts
  <2> QED BY <1>8, <2>2
<1> HIDE DEF a, b, y
<1>10. Sets(b, v, b.mon, Paint(b.grid, {}, None), b.wsegs)
  <2>1. v = Clear(b, ToSet(unlaid(s, t)) \ {0})
    BY <1>3 DEF toss_wsegs, b, a
  <2>2. ToSet(unlaid(s, t)) \ {0} = {} /\ IsFiniteSet({}) /\ b \in Worlds
    BY <1>4, <1>9, FS_EmptySet DEF Sets
  <2> QED BY <2>1, <2>2, ClearParts
<1>11. Paint(b.grid, {}, None) = Paint(u.grid, Q, m)
  BY <1>9 DEF Sets, Paint
<1>12. Laid(u, v, m, p, t)
  BY <1>8, <1>9, <1>10, <1>11 DEF Laid, Sets, SameChains, SameHero, y
<1> QED BY <1>6, <1>12

-----------------------------------------------------------------------------
(* One of the living monsters of the level is changed.                     *)

Changed(w, v, m, S, T) ==
  /\ v \in Worlds /\ SameChains(w, v) /\ m \in Living(w) /\ v.mon[m].alive
  /\ \A k \in Mon \ {m} : v.mon[k] = w.mon[k]
  /\ T \ {m} = S \ {m}
  /\ \A p \in Square \cup {0}, k \in Mon \ {m} : v.grid[p] = k <=> w.grid[p] = k
  /\ Shows(v, T, m) /\ Tailed(v, m) /\ (m \notin T => Lies(v, m))
  /\ \A n \in Slots : KeepsSlot(w, v, m, n)

(* Then all is as well as it was.                                           *)
LEMMA Change ==
  ASSUME NEW w, NEW S, Good(w, S), NEW v, NEW m, NEW T, Changed(w, v, m, S, T)
  PROVE  Good(v, T) /\ Living(v) = Living(w)
<1>1. w \in Worlds /\ v \in Worlds /\ Apart(w) /\ m \in Living(w) /\ S \subseteq Living(w) /\ SameChains(w, v)
      /\ (\A k \in Mon : k # m => v.mon[k] = w.mon[k]) /\ v.mon[m].alive
  BY DEF Good, Changed
<1>2. ToSet(w.fmon) \subseteq Mon /\ Living(w) \subseteq ToSet(w.fmon) /\ ToSet(v.fmon) = ToSet(w.fmon)
  BY <1>1, WorldParts DEF SameChains
<1>3. w.mon[m].alive
  BY <1>1 DEF Living
<1>4. Living(v) = Living(w) /\ Dead(v) = Dead(w)
  <2>1. \A k \in ToSet(w.fmon) : v.mon[k].alive <=> w.mon[k].alive
    BY <1>1, <1>2, <1>3
  <2> QED BY <1>2, <2>1 DEF Living, Dead
<1>5. Apart(v)
  BY <1>1 DEF Apart, SameChains, Elsewhere
<1>6. m \in Mon \ Elsewhere(w)
  BY <1>1, <1>2 DEF Apart
<1>7. T \subseteq Living(v)
  BY <1>1, <1>4 DEF Changed
<1>8. Redrawn(w, v, m, S, T)
  BY <1>1, <1>2, <1>5, <1>6, <1>7 DEF Redrawn, Changed, SameChains
<1>9. PurgeFits(v)
  BY <1>1, <1>4, SameDead DEF Good, SameChains
<1> QED BY <1>4, <1>8, <1>9, Redraw

-----------------------------------------------------------------------------
(* A monster is picked up, and put down.                                   *)

(* What Good says, in parts.                                                *)
LEMMA GoodParts ==
  ASSUME NEW w, NEW S, Good(w, S)
  PROVE  /\ w \in Worlds /\ Apart(w) /\ S \subseteq Living(w) /\ Level(w, S) /\ Shown(w, S) /\ PurgeFits(w) /\ Away(w)
         /\ \A m \in Living(w) : m \in Mon /\ Tailed(w, m) /\ w.mon[m].alive /\ w.mon[m] \in Struct
         /\ \A m \in Living(w) : m \notin S => Lies(w, m)
         /\ \A m \in Mon : Shows(w, S, m)
         /\ Owned(w)
<1>1. w \in Worlds /\ Apart(w) /\ S \subseteq Living(w) /\ Level(w, S) /\ Shown(w, S) /\ PurgeFits(w) /\ Away(w)
  BY DEF Good
<1>2. w.mon \in [Mon -> Struct] /\ ToSet(w.fmon) \subseteq Mon /\ Living(w) \subseteq ToSet(w.fmon)
  BY <1>1, WorldParts
<1> QED BY <1>1, <1>2 DEF Level, Shown, Living

(* Where a monster with a tail is.                                         *)
LEMMA TailParts ==
  ASSUME NEW w \in Worlds, NEW m \in Mon, Tailed(w, m), w.mon[m].wormno # 0
  PROVE  /\ w.mon[m].wormno \in Slots /\ segs(w, m) \in Seq(Square \cup {0}) /\ segs(w, m) # <<>>
         /\ Len(segs(w, m)) \in Nat /\ IsFiniteSet(ToSet(segs(w, m))) /\ ToSet(segs(w, m)) \subseteq Square \cup {0}
         /\ Lies(w, m) => Body(w, m) = ToSet(segs(w, m))
<1>1. w.mon[m].wormno \in Slots /\ segs(w, m) # <<>>
  BY DEF Tailed
<1>2. w.wsegs \in [Slots -> Seq(Square \cup {0})]
  BY WorldParts
<1>3. segs(w, m) \in Seq(Square \cup {0})
  BY <1>1, <1>2 DEF segs
<1>4. Len(segs(w, m)) \in Nat /\ IsFiniteSet(ToSet(segs(w, m))) /\ ToSet(segs(w, m)) \subseteq Square \cup {0}
  BY <1>3, InList, SquaresFinite
<1>5. Last(segs(w, m)) \in ToSet(segs(w, m))
  BY <1>1, <1>3, FrontAndLast
<1> QED BY <1>1, <1>3, <1>4, <1>5 DEF Body, Lies

(* The body of one that lies on the level is on squares of it.             *)
LEMMA BodyOnMap ==
  ASSUME NEW w, NEW m, Lies(w, m)
  PROVE  Body(w, m) \subseteq Square /\ w.mon[m].x \in Body(w, m)
  BY DEF Lies, Body

Picked(w, v, m) == Sets(w, v, w.mon, Paint(w.grid, Body(w, m), None), w.wsegs)

(* With v, from the map all of m is gone and nothing else.                 *)
LEMMA InAir ==
  ASSUME NEW w, NEW S, Good(w, S), NEW m \in Living(w), NEW v, Picked(w, v, m), m \notin S
  PROVE  Good(v, S \cup {m}) /\ Living(v) = Living(w)
<1>1. /\ w \in Worlds /\ m \in Mon /\ Tailed(w, m) /\ Shows(w, S, m) /\ w.mon[m].alive
  BY GoodParts
<1>2. /\ v \in Worlds /\ v.mon = w.mon /\ v.wsegs = w.wsegs /\ SameChains(w, v) /\ SameHero(w, v)
      /\ \A p \in Square \cup {0} : v.grid[p] = IF p \in Body(w, m) THEN None ELSE w.grid[p]
  BY DEF Picked, Sets, Paint
<1>3. \A p \in Square \cup {0} : v.grid[p] # m
  BY <1>1, <1>2, LevelIsFinite DEF Shows
<1>4. \A p \in Square \cup {0}, k \in Mon \ {m} : v.grid[p] = k <=> w.grid[p] = k
  BY <1>1, <1>2, LevelIsFinite DEF Shows
<1>5. Tailed(v, m)
  BY <1>1, <1>2 DEF Tailed, segs
<1>6. Living(v) = Living(w)
  BY <1>2 DEF Living, SameChains
<1>7. \A n \in Slots : KeepsSlot(w, v, m, n)
  BY <1>2, <1>6 DEF KeepsSlot, Owns
<1>8. Shows(v, S \cup {m}, m)
  BY <1>3 DEF Shows
<1>9. Changed(w, v, m, S, S \cup {m})
  BY <1>1, <1>2, <1>4, <1>5, <1>7, <1>8 DEF Changed
<1> QED BY <1>9, Change

(* As the code picks it up.                                                *)
pick_up(w, m) == IF w.mon[m].wormno # 0 THEN remove_worm(w, m) ELSE remove_monster(w, w.mon[m].x)

(* Picked up, it is in the air.                                             *)
LEMMA PickUp ==
  ASSUME NEW w, NEW S, Good(w, S), NEW m \in Living(w), m \notin S
  PROVE  Picked(w, pick_up(w, m), m)
<1>1. w \in Worlds /\ m \in Mon /\ Tailed(w, m) /\ Lies(w, m)
  BY GoodParts
<1>2. CASE w.mon[m].wormno # 0
  <2>1. IsFiniteSet(ToSet(segs(w, m))) /\ Body(w, m) = ToSet(segs(w, m))
    BY <1>1, <1>2, TailParts
  <2>2. pick_up(w, m) = Clear(w, ToSet(segs(w, m)))
    BY <1>2 DEF pick_up, remove_worm
  <2> QED BY <1>1, <2>1, <2>2, ClearParts DEF Picked
<1>3. CASE w.mon[m].wormno = 0
  <2>1. Body(w, m) = {w.mon[m].x} /\ w.mon[m].x \in Square \cup {0}
    BY <1>1, <1>3 DEF Body, Lies
  <2>2. pick_up(w, m) = remove_monster(w, w.mon[m].x)
    BY <1>3 DEF pick_up
  <2> QED BY <1>1, <2>1, <2>2, RemoveParts DEF Picked
<1> QED BY <1>2, <1>3

(* As the code puts it down, the head at p.                                *)
put_down(w, m, p) ==
  IF w.mon[m].wormno # 0 THEN place_worm_tail_randomly(place_monster(w, m, p), m, p) ELSE {place_monster(w, m, p)}

(* Only where m is is another.                                             *)
Shifts(w, v, m) ==
  /\ \A k \in Mon \ {m} : v.mon[k] = w.mon[k]
  /\ v.mon[m].alive = w.mon[m].alive /\ v.mon[m].shape = w.mon[m].shape /\ v.mon[m].wormno = w.mon[m].wormno
  /\ v.mon[m].old = w.mon[m].old /\ v.mon[m].timer = w.mon[m].timer

(* m is on the map of v, at free squares.                                  *)
Settled(w, v, m, S, p) ==
  /\ Good(v, S \ {m}) /\ SameChains(w, v) /\ SameHero(w, v) /\ Living(v) = Living(w)
  /\ Shifts(w, v, m) /\ v.mon[m].x = p /\ v.grid[p] = m
  /\ \A q \in Square \cup {0} : v.grid[q] = w.grid[q] \/ (w.grid[q] = None /\ v.grid[q] = m /\ (q = p \/ q # w.hero))

(* Put down on a free square, it is no longer in the air.                   *)
LEMMA PutDown ==
  ASSUME "mishaps" \notin Deeds,
         NEW w, NEW S, Good(w, S), NEW m \in S, m # w.usteed, NEW p \in Square, w.grid[p] = None, NEW v \in put_down(w, m, p)
  PROVE  Settled(w, v, m, S, p)
<1>1. w \in Worlds /\ m \in Mon /\ m \in Living(w) /\ Tailed(w, m) /\ w.mon[m].alive /\ (\A q \in Square \cup {0} : w.grid[q] # m)
  <2>1. m \in Living(w)
    BY GoodParts
  <2>2. w \in Worlds /\ m \in Mon /\ Tailed(w, m) /\ w.mon[m].alive /\ Shows(w, S, m)
    BY <2>1, GoodParts
  <2> QED BY <2>1, <2>2 DEF Shows
<1>2. w.mon \in [Mon -> Struct] /\ w.wsegs \in [Slots -> Seq(Square \cup {0})] /\ 0 \notin Square
  BY <1>1, WorldParts, LevelIsFinite
<1> DEFINE u == place_monster(w, m, p)
           n == w.mon[m].wormno
<1>3. Sets(w, u, At(w.mon, m, p), Paint(w.grid, {p}, m), w.wsegs)
  BY <1>1, PlaceParts
<1> HIDE DEF u
<1>4. /\ u \in Worlds /\ u.wsegs = w.wsegs /\ SameChains(w, u) /\ SameHero(w, u) /\ Shifts(w, u, m) /\ u.mon[m].x = p
      /\ \A q \in Square \cup {0} : u.grid[q] = IF q = p THEN m ELSE w.grid[q]
  <2>1. \A k \in Mon \ {m} : At(w.mon, m, p)[k] = w.mon[k]
    BY <1>1, <1>2, AtType
  <2>2. Shifts(w, u, m) /\ u.mon[m].x = p
    <3> DEFINE f == At(w.mon, m, p)
    <3>1. p \in Square \cup {0}
      OBVIOUS
    <3>2. /\ f[m].x = p /\ f[m].alive = w.mon[m].alive /\ f[m].shape = w.mon[m].shape /\ f[m].wormno = w.mon[m].wormno
          /\ f[m].old = w.mon[m].old /\ f[m].timer = w.mon[m].timer
      <4>1. m \in Mon /\ w.mon \in [Mon -> Struct]
        BY <1>1, <1>2
      <4> QED BY ONLY <3>1, <4>1, AtType
    <3>3. u.mon = f
      BY <1>3 DEF Sets
    <3> HIDE DEF f
    <3>4. \A k \in Mon \ {m} : f[k] = w.mon[k]
      BY <2>1 DEF f
    <3> QED BY <3>2, <3>3, <3>4 DEF Shifts
  <2>3. \A q \in Square \cup {0} : u.grid[q] = IF q = p THEN m ELSE w.grid[q]
    BY <1>3 DEF Sets, Paint
  <2> QED BY <1>3, <2>2, <2>3 DEF Sets
<1>5. \E t : /\ n # 0 => IsTail(u, m, p, t)
             /\ v \in Worlds /\ v.mon = u.mon /\ SameChains(w, v) /\ SameHero(w, v)
             /\ v.wsegs = IF n = 0 THEN w.wsegs ELSE [w.wsegs EXCEPT ![n] = t]
             /\ \A q \in Square \cup {0} : v.grid[q] = IF q = p \/ (n # 0 /\ q \in ToSet(Front(t))) THEN m ELSE w.grid[q]
  <2>1. CASE n = 0
    <3>1. v = u
      BY <2>1 DEF put_down, u
    <3> QED BY <1>4, <2>1, <3>1
  <2>2. CASE n # 0
    <3>1. v \in place_worm_tail_randomly(u, m, p)
      BY <2>2 DEF put_down, u
    <3>2. u.mon[m].wormno = n /\ n \in Slots /\ segs(u, m) # <<>> /\ m # u.usteed
      BY <1>1, <1>4, <2>2 DEF Shifts, segs, Tailed, SameHero
    <3>3. PICK t : IsTail(u, m, p, t) /\ Laid(u, v, m, p, t)
      BY <1>1, <1>4, <3>1, <3>2, LayTail
    <3>4. v \in Worlds /\ v.mon = u.mon /\ SameChains(w, v) /\ SameHero(w, v) /\ v.wsegs = [w.wsegs EXCEPT ![n] = t]
      BY <1>4, <3>2, <3>3 DEF Laid, Sets, SameChains, SameHero
    <3>5. \A q \in Square \cup {0} : v.grid[q] = IF q \in ToSet(Front(t)) THEN m ELSE u.grid[q]
      BY <3>3 DEF Laid, Sets, Paint
    <3>6. \A q \in Square \cup {0} : v.grid[q] = IF q = p \/ (n # 0 /\ q \in ToSet(Front(t))) THEN m ELSE w.grid[q]
      BY <1>4, <2>2, <3>5
    <3> QED BY <2>2, <3>3, <3>4, <3>6
  <2> QED BY <2>1, <2>2
<1>6. PICK t : /\ n # 0 => IsTail(u, m, p, t)
               /\ v \in Worlds /\ v.mon = u.mon /\ SameChains(w, v) /\ SameHero(w, v)
               /\ v.wsegs = IF n = 0 THEN w.wsegs ELSE [w.wsegs EXCEPT ![n] = t]
               /\ \A q \in Square \cup {0} : v.grid[q] = IF q = p \/ (n # 0 /\ q \in ToSet(Front(t))) THEN m ELSE w.grid[q]
  BY <1>5
<1>7. Shifts(w, v, m) /\ v.mon[m].x = p /\ v.mon[m].wormno = n
  BY <1>4, <1>6 DEF Shifts
<1>8. n # 0 => /\ n \in Slots /\ segs(v, m) = t /\ t \in Seq(Square) /\ t # <<>> /\ Len(t) <= Len(segs(w, m))
               /\ Last(t) = p /\ IsInjective(t) /\ ToSet(t) = ToSet(Front(t)) \cup {p} /\ ToSet(t) \subseteq Square
               /\ \A q \in ToSet(Front(t)) : u.grid[q] = None /\ q # w.hero
  <2> SUFFICES ASSUME n # 0 PROVE /\ n \in Slots /\ segs(v, m) = t /\ t \in Seq(Square) /\ t # <<>> /\ Len(t) <= Len(segs(w, m))
               /\ Last(t) = p /\ IsInjective(t) /\ ToSet(t) = ToSet(Front(t)) \cup {p} /\ ToSet(t) \subseteq Square
               /\ \A q \in ToSet(Front(t)) : u.grid[q] = None /\ q # w.hero
    OBVIOUS
  <2>1. IsTail(u, m, p, t) /\ n \in Slots
    BY <1>1, <1>6 DEF Tailed
  <2>2. segs(v, m) = t
    BY <1>2, <1>6, <1>7, <2>1 DEF segs
  <2>3. segs(u, m) = segs(w, m)
    BY <1>4 DEF segs, Shifts
  <2>4. t \in Seq(Square) /\ t # <<>> /\ Len(t) <= Len(segs(w, m)) /\ Last(t) = p /\ IsInjective(t)
        /\ \A q \in ToSet(Front(t)) : u.grid[q] = None /\ q # w.hero
    BY <1>4, <2>1, <2>3 DEF IsTail, SameHero
  <2>5. ToSet(t) = ToSet(Front(t)) \cup {p} /\ ToSet(t) \subseteq Square
    BY <2>4, FrontAndLast, InList
  <2> QED BY <2>1, <2>2, <2>4, <2>5
<1>9. Body(v, m) = {p} \cup (IF n = 0 THEN {} ELSE ToSet(Front(t)))
  BY <1>7, <1>8 DEF Body
<1>10. Living(v) = Living(w)
  <2>1. \A k \in Mon : v.mon[k].alive <=> w.mon[k].alive
    BY <1>7 DEF Shifts
  <2>2. ToSet(w.fmon) \subseteq Mon
    BY <1>1, WorldParts
  <2> QED BY <1>6, <2>1, <2>2 DEF Living, SameChains
<1>11. \A q \in Square \cup {0} : v.grid[q] = IF q \in Body(v, m) THEN m ELSE w.grid[q]
  BY <1>6, <1>9
<1>12. \A q \in Square \cup {0} : q \in Body(v, m) => w.grid[q] = None /\ (q = p \/ q # w.hero)
  <2>1. ASSUME NEW q \in Square \cup {0}, q \in Body(v, m), q # p PROVE w.grid[q] = None /\ q # w.hero
    <3>1. n # 0 /\ q \in ToSet(Front(t))
      BY <1>9, <2>1
    <3>2. u.grid[q] = None /\ q # w.hero
      BY <1>8, <3>1
    <3> QED BY <1>4, <2>1, <3>2
  <2> QED BY <2>1
<1>13. Lies(v, m) /\ Tailed(v, m)
  <2>1. n # 0 => /\ v.mon[m].shape = "worm" /\ Len(t) <= MaxTail + 1
    <3> SUFFICES ASSUME n # 0 PROVE v.mon[m].shape = "worm" /\ Len(t) <= MaxTail + 1
      OBVIOUS
    <3>1. w.mon[m].shape = "worm" /\ Len(segs(w, m)) <= MaxTail + 1 /\ Len(segs(w, m)) \in Nat
      BY <1>1, TailParts DEF Tailed
    <3>2. Len(t) \in Nat /\ Len(t) <= Len(segs(w, m)) /\ MaxTail \in Nat
      BY <1>8, LevelIsFinite
    <3> QED BY <1>7, <3>1, <3>2 DEF Shifts
  <2> HIDE DEF n
  <2> QED BY <1>7, <1>8, <2>1 DEF Lies, Tailed
<1>14. \A k \in Slots : KeepsSlot(w, v, m, k)
  <2> SUFFICES ASSUME NEW k \in Slots PROVE KeepsSlot(w, v, m, k)
    OBVIOUS
  <2>1. Owns(w, m, k) <=> n = k
    BY <1>1 DEF Owns
  <2>2. Owns(v, m, k) <=> n = k
    BY <1>1, <1>7, <1>10 DEF Owns
  <2>3. CASE n = k
    BY <2>1, <2>2, <2>3 DEF KeepsSlot
  <2>4. CASE n # k
    BY <1>2, <1>6, <2>1, <2>2, <2>4 DEF KeepsSlot
  <2> QED BY <2>3, <2>4
<1>15. Shows(v, S \ {m}, m)
  <2> SUFFICES ASSUME NEW q \in Square \cup {0} PROVE v.grid[q] = m <=> q \in Body(v, m)
    BY <1>1, <1>10 DEF Shows
  <2> QED BY <1>1, <1>11
<1>16. \A q \in Square \cup {0}, k \in Mon \ {m} : v.grid[q] = k <=> w.grid[q] = k
  <2>1. \A k \in Mon \ {m} : k # None
    BY LevelIsFinite
  <2> QED BY <1>11, <1>12, <2>1
<1>17. Changed(w, v, m, S, S \ {m})
  <2>1. v.mon[m].alive /\ \A k \in Mon \ {m} : v.mon[k] = w.mon[k]
    BY <1>1, <1>7 DEF Shifts
  <2> QED BY <1>1, <1>6, <1>13, <1>14, <1>15, <1>16, <2>1 DEF Changed
<1>18. Good(v, S \ {m})
  BY <1>17, Change
<1>19. v.grid[p] = m
  BY <1>9, <1>11
<1> QED BY <1>6, <1>7, <1>10, <1>11, <1>12, <1>18, <1>19 DEF Settled

-----------------------------------------------------------------------------
(* A monster is put somewhere else.                                        *)

Relocated(w, v, m, S) ==
  /\ Good(v, S \ {m}) /\ SameChains(w, v) /\ SameHero(w, v) /\ Living(v) = Living(w)
  /\ Shifts(w, v, m) /\ v.mon[m].x \in Square

(* Where it may be put.                                                    *)
Vacant(w, m, p) == p \in Square /\ (w.grid[p] = None \/ (w.grid[p] = m /\ w.mon[m].wormno = 0))

(* A monster that can be put somewhere: not the steed, and if it is in the *)
(* air it comes from nowhere.                                              *)
Movable(w, m, S) == m \in Living(w) /\ m # w.usteed /\ (m \in S => w.mon[m].x = 0)

(* One that is not moved is where it was.                                   *)
LEMMA StaysPut ==
  ASSUME NEW w, NEW S, Good(w, S), NEW m, Movable(w, m, S), w.mon[m].x \in Square
  PROVE  Relocated(w, w, m, S)
<1>1. m \in Living(w) /\ (m \in S => w.mon[m].x = 0)
  BY DEF Movable
<1>2. 0 \notin Square
  BY LevelIsFinite
<1>3. S \ {m} = S
  BY <1>1, <1>2
<1> QED BY <1>3 DEF Relocated, SameChains, SameHero, Shifts

(* rloc_to puts it at p, and nobody else elsewhere.                         *)
LEMMA RlocTo ==
  ASSUME "mishaps" \notin Deeds,
         NEW w, NEW S, Good(w, S), NEW m, Movable(w, m, S), NEW p, Vacant(w, m, p), NEW v \in rloc_to(w, m, p)
  PROVE  /\ Relocated(w, v, m, S) /\ v.mon[m].x = p
         /\ p # w.hero /\ w.grid[w.hero] \in {None, m} => v.grid[w.hero] = None
<1>1. /\ w \in Worlds /\ m \in Living(w) /\ m \in Mon /\ m # w.usteed /\ (m \in S => w.mon[m].x = 0)
      /\ p \in Square /\ (w.grid[p] = None \/ (w.grid[p] = m /\ w.mon[m].wormno = 0))
      /\ Shows(w, S, m) /\ (m \notin S => Lies(w, m)) /\ 0 \notin Square /\ m # None
  BY GoodParts, LevelIsFinite DEF Movable, Vacant
<1>2. m \in S => \A q \in Square \cup {0} : w.grid[q] # m
  BY <1>1 DEF Shows
<1>3. m \notin S => \A q \in Square \cup {0} : w.grid[q] = m <=> q \in Body(w, m)
  BY <1>1 DEF Shows
<1>4. w.hero \in Square
  BY <1>1, WorldParts
<1>5. CASE p = w.mon[m].x
  <2>1. v = w
    BY <1>5 DEF rloc_to
  <2>2. Relocated(w, v, m, S)
    BY <1>1, <1>5, <2>1, StaysPut
  <2>3. ASSUME p # w.hero, w.grid[w.hero] = m PROVE FALSE
    <3>1. m \notin S
      BY <1>1, <1>5
    <3>2. w.hero \in Body(w, m) /\ p \in Body(w, m) /\ w.grid[p] = m
      BY <1>1, <1>3, <1>4, <1>5, <2>3, <3>1 DEF Body
    <3>3. w.mon[m].wormno = 0
      BY <1>1, <3>2
    <3> QED BY <1>5, <2>3, <3>2, <3>3 DEF Body
  <2> QED BY <1>5, <2>1, <2>2, <2>3
<1>6. CASE p # w.mon[m].x /\ m \in S
  <2>1. v \in put_down(w, m, p)
    BY <1>1, <1>6 DEF rloc_to, put_down
  <2>2. w.grid[p] = None
    BY <1>1, <1>2, <1>6
  <2>3. Settled(w, v, m, S, p)
    BY <1>1, <1>6, <2>1, <2>2, PutDown
  <2>4. Relocated(w, v, m, S) /\ v.mon[m].x = p
    BY <1>1, <2>3 DEF Settled, Relocated
  <2>5. v.grid[w.hero] = w.grid[w.hero] \/ (w.grid[w.hero] = None /\ v.grid[w.hero] = m /\ (w.hero = p \/ w.hero # w.hero))
    BY <1>4, <2>3 DEF Settled
  <2> QED BY <1>2, <1>4, <1>6, <2>4, <2>5
<1>7. CASE p # w.mon[m].x /\ m \notin S
  <2> DEFINE u == pick_up(w, m)
             R == S \cup {m}
  <2>1. Picked(w, u, m)
    BY <1>1, <1>7, PickUp
  <2>2. w.mon[m].x # 0
    BY <1>1, <1>7 DEF Lies
  <2>3. v \in put_down(u, m, p)
    <3>1. u.mon = w.mon
      BY <2>1 DEF Picked, Sets
    <3>2. v \in IF w.mon[m].wormno # 0 THEN place_worm_tail_randomly(place_monster(u, m, p), m, p) ELSE {place_monster(u, m, p)}
      BY <1>7, <2>2 DEF rloc_to, pick_up
    <3> HIDE DEF u
    <3> QED BY <3>1, <3>2 DEF put_down
  <2> HIDE DEF u
  <2>4. Good(u, R) /\ Living(u) = Living(w)
    BY <1>1, <1>7, <2>1, InAir
  <2>5. u.mon = w.mon /\ SameChains(w, u) /\ SameHero(w, u) /\ \A q \in Square \cup {0} : u.grid[q] = IF q \in Body(w, m) THEN None ELSE w.grid[q]
    BY <2>1 DEF Picked, Sets, Paint
  <2>6. u.grid[p] = None
    BY <1>1, <1>3, <1>7, <2>5
  <2>7. m \in R /\ m # u.usteed /\ R \ {m} = S \ {m}
    BY <1>1, <2>5 DEF SameHero
  <2> HIDE DEF R
  <2>8. Settled(u, v, m, R, p)
    BY <1>1, <2>3, <2>4, <2>6, <2>7, PutDown
  <2>9. Relocated(w, v, m, S) /\ v.mon[m].x = p
    BY <1>1, <2>4, <2>5, <2>7, <2>8 DEF Settled, Relocated, SameChains, SameHero, Shifts
  <2>10. v.grid[w.hero] = u.grid[w.hero] \/ (v.grid[w.hero] = m /\ (w.hero = p \/ w.hero # u.hero))
    BY <1>4, <2>8 DEF Settled
  <2>11. u.grid[w.hero] = IF w.hero \in Body(w, m) THEN None ELSE w.grid[w.hero]
    BY <1>4, <2>5
  <2>12. u.hero = w.hero
    BY <2>5 DEF SameHero
  <2> QED BY <1>3, <1>4, <1>7, <2>9, <2>10, <2>11, <2>12
<1> QED BY <1>5, <1>6, <1>7

(* A good square for one that is not the steed.                            *)
LEMMA GoodSquare ==
  ASSUME NEW w, NEW m, m # w.usteed, NEW p \in Square, goodpos(w, m, p)
  PROVE  Vacant(w, m, p) /\ p # w.hero
  BY DEF goodpos, Vacant

(* rloc puts it at some good square, never that of the hero.                *)
LEMMA Rloc ==
  ASSUME "mishaps" \notin Deeds,
         NEW w, NEW S, Good(w, S), NEW m, Movable(w, m, S), NEW v \in rloc(w, m)
  PROVE  Relocated(w, v, m, S) /\ (w.grid[w.hero] \in {None, m} => v.grid[w.hero] = None)
<1>1. PICK p \in enexto(w, m) : v \in rloc_to(w, m, p)
  BY DEF rloc
<1>2. p \in Square /\ goodpos(w, m, p) /\ m # w.usteed
  BY DEF enexto, Movable
<1>3. Vacant(w, m, p) /\ p # w.hero
  BY <1>2, GoodSquare
<1> QED BY <1>1, <1>3, RlocTo

(* So does what mnearto does of its own.                                    *)
LEMMA Nears ==
  ASSUME "mishaps" \notin Deeds,
         NEW w, NEW S, Good(w, S), NEW m, Movable(w, m, S), NEW p \in Square, NEW v \in nears(w, m, p)
  PROVE  Relocated(w, v, m, S) /\ (w.grid[w.hero] = None => v.grid[w.hero] = None)
<1>1. CASE w.mon[m].x = p
  <2>1. v = w
    BY <1>1 DEF nears
  <2> QED BY <1>1, <2>1, StaysPut
<1>2. CASE w.mon[m].x # p /\ goodpos(w, m, p)
  <2>1. v \in rloc_to(w, m, p) /\ m # w.usteed
    BY <1>2 DEF nears, Movable
  <2>2. Vacant(w, m, p) /\ p # w.hero
    BY <1>2, <2>1, GoodSquare
  <2> QED BY <2>1, <2>2, RlocTo
<1>3. CASE w.mon[m].x # p /\ ~goodpos(w, m, p)
  <2>1. v \in rloc(w, m)
    BY <1>3 DEF nears
  <2> QED BY <2>1, Rloc
<1> QED BY <1>1, <1>2, <1>3

-----------------------------------------------------------------------------
(* One in the air may be anywhere.                                         *)

LEMMA Drifts ==
  ASSUME NEW w, NEW S, Good(w, S), NEW m \in S, NEW p \in Square \cup {0}, NEW v \in Worlds,
         SameChains(w, v), v.mon = At(w.mon, m, p), v.grid = w.grid, v.wsegs = w.wsegs
  PROVE  Good(v, S) /\ Living(v) = Living(w) /\ Shifts(w, v, m) /\ v.mon[m].x = p
<1>1. /\ w \in Worlds /\ m \in Living(w) /\ m \in Mon /\ Tailed(w, m) /\ w.mon[m].alive /\ Shows(w, S, m)
  BY GoodParts
<1>2. w.mon \in [Mon -> Struct]
  BY <1>1, WorldParts
<1>3. Shifts(w, v, m) /\ v.mon[m].x = p
  <2> DEFINE f == At(w.mon, m, p)
  <2>1. \A k \in Mon \ {m} : f[k] = w.mon[k]
    BY ONLY <1>1, <1>2, p \in Square \cup {0}, AtType
  <2>2. /\ f[m].x = p /\ f[m].alive = w.mon[m].alive /\ f[m].shape = w.mon[m].shape /\ f[m].wormno = w.mon[m].wormno
        /\ f[m].old = w.mon[m].old /\ f[m].timer = w.mon[m].timer
    <3>1. m \in Mon /\ w.mon \in [Mon -> Struct] /\ p \in Square \cup {0}
      BY <1>1, <1>2
    <3> QED BY ONLY <3>1, AtType
  <2>3. v.mon = f
    OBVIOUS
  <2> HIDE DEF f
  <2> QED BY <2>1, <2>2, <2>3 DEF Shifts
<1>4. v.mon[m].alive /\ v.mon[m].wormno = w.mon[m].wormno /\ v.mon[m].shape = w.mon[m].shape
      /\ \A k \in Mon \ {m} : v.mon[k] = w.mon[k]
  BY <1>1, <1>3 DEF Shifts
<1>5. Tailed(v, m)
  BY <1>1, <1>4 DEF Tailed, segs
<1>6. Living(v) = Living(w)
  <2>1. ToSet(w.fmon) \subseteq Mon
    BY <1>1, WorldParts
  <2> QED BY <1>1, <1>4, <2>1 DEF Living, SameChains
<1>7. Shows(v, S, m)
  BY <1>1, <1>6 DEF Shows
<1>8. \A n \in Slots : KeepsSlot(w, v, m, n)
  BY <1>4, <1>6 DEF KeepsSlot, Owns
<1>9. Changed(w, v, m, S, S)
  BY <1>1, <1>4, <1>5, <1>7, <1>8 DEF Changed
<1> QED BY <1>3, <1>6, <1>9, Change

-----------------------------------------------------------------------------
(* mnearto: another makes room.                                            *)

(* Both the monster and the one that makes room are on the map again.       *)
LEMMA MnearTo ==
  ASSUME "mishaps" \notin Deeds,
         NEW w, NEW S, Good(w, S), NEW m, Movable(w, m, S), w.mon[m].wormno = 0, w.usteed # None => w.usteed \in S, m \notin S,
         w.grid[w.hero] = None, NEW p \in Square, NEW v \in mnearto(w, m, p)
  PROVE  Good(v, S) /\ SameChains(w, v) /\ SameHero(w, v) /\ v.grid[v.hero] = None /\ Living(v) = Living(w)
         /\ \A k \in S : v.mon[k] = w.mon[k]
<1> DEFINE other == w.grid[p]
<1>1. /\ w \in Worlds /\ m \in Living(w) /\ m \in Mon /\ m # w.usteed /\ Shows(w, S, m) /\ S \subseteq Mon
      /\ Living(w) \subseteq Mon /\ p \in Square \cup {0}
  BY GoodParts DEF Movable
<1>2. CASE w.mon[m].x = p \/ other = None
  <2>1. v \in nears(w, m, p)
    BY <1>2 DEF mnearto
  <2>2. Relocated(w, v, m, S) /\ v.grid[w.hero] = None
    BY <2>1, Nears
  <2>3. S \ {m} = S
    OBVIOUS
  <2> QED BY <1>1, <2>2, <2>3 DEF Relocated, SameHero, Shifts
<1>3. CASE w.mon[m].x # p /\ other # None
  <2>1. other \in Mon /\ other \in Living(w) \ S /\ p \in Body(w, other)
    <3>1. other \in Mon
      BY <1>1, <1>3, WorldParts
    <3>2. Shows(w, S, other)
      BY <3>1, GoodParts
    <3> QED BY <1>1, <3>1, <3>2 DEF Shows
  <2>2. other # m /\ other # w.usteed
    <3>1. other # m
      BY <1>3, <2>1 DEF Body
    <3> QED BY <2>1, <3>1, LevelIsFinite
  <2> DEFINE u == pick_up(w, other)
             R == S \cup {other}
  <2>3. u = IF w.mon[other].wormno # 0 THEN remove_worm(w, other) ELSE remove_monster(w, p)
    BY <2>1 DEF pick_up, Body
  <2>4. PICK x \in nears(u, m, p) : v \in nears([x EXCEPT !.mon[other].x = 0], other, p)
    <3>1. v \in Each(nears(u, m, p), LAMBDA x : nears([x EXCEPT !.mon[other].x = 0], other, p))
      BY <1>3, <2>3 DEF mnearto
    <3> HIDE DEF u, other
    <3> QED BY <3>1 DEF Each
  <2>5. Picked(w, u, other)
    BY <2>1, PickUp
  <2> HIDE DEF u, other
  <2>6. Good(u, R) /\ Living(u) = Living(w)
    BY <2>1, <2>5, InAir
  <2>7. u.mon = w.mon /\ SameChains(w, u) /\ SameHero(w, u) /\ u.grid[w.hero] = None
    <3>1. w.hero \in Square \cup {0}
      BY <1>1, WorldParts
    <3> QED BY <2>5, <3>1 DEF Picked, Sets, Paint
  <2>8. Movable(u, m, R) /\ R \ {m} = R
    BY <2>2, <2>6, <2>7 DEF Movable, SameHero
  <2> HIDE DEF R
  <2>9. Relocated(u, x, m, R) /\ x.grid[u.hero] = None
    BY <2>4, <2>6, <2>7, <2>8, Nears DEF SameHero
  <2>10. Good(x, R) /\ SameChains(w, x) /\ SameHero(w, x) /\ x.grid[w.hero] = None /\ Living(x) = Living(w)
    BY <2>6, <2>7, <2>8, <2>9 DEF Relocated, SameHero, SameChains
  <2>11. \A k \in S : x.mon[k] = w.mon[k]
    BY <1>1, <2>7, <2>9 DEF Relocated, Shifts
  <2> DEFINE z == [x EXCEPT !.mon[other].x = 0]
             f == At(x.mon, other, 0)
  <2>12. x \in Worlds /\ x.mon \in [Mon -> Struct]
    BY <2>10, GoodParts, WorldParts
  <2>13. z = [x EXCEPT !.mon = f]
    BY <2>12 DEF At, Worlds
  <2>14. f \in [Mon -> Struct]
    BY <2>1, <2>12, AtType
  <2>15. z \in Worlds /\ z.mon = f /\ z.grid = x.grid /\ z.wsegs = x.wsegs /\ SameChains(x, z) /\ SameHero(x, z)
    <3> HIDE DEF z, f
    <3> QED BY <2>12, <2>13, <2>14 DEF Worlds, SameChains, SameHero
  <2>16. v \in nears(z, other, p)
    BY <2>4
  <2>17. other \in R
    BY DEF R
  <2> HIDE DEF z
  <2>18. Good(z, R) /\ Living(z) = Living(x) /\ Shifts(x, z, other) /\ z.mon[other].x = 0
    BY <2>10, <2>15, <2>17, Drifts
  <2>19. Movable(z, other, R)
    BY <2>1, <2>2, <2>10, <2>15, <2>18 DEF Movable, SameHero
  <2>20. Relocated(z, v, other, R) /\ (z.grid[z.hero] = None => v.grid[z.hero] = None)
    BY <2>16, <2>18, <2>19, Nears
  <2>21. R \ {other} = S
    BY <2>1 DEF R
  <2>22. \A k \in S : v.mon[k] = w.mon[k]
    BY <1>1, <2>1, <2>11, <2>18, <2>20 DEF Relocated, Shifts
  <2> QED BY <2>10, <2>15, <2>18, <2>20, <2>21, <2>22 DEF Relocated, SameChains, SameHero
<1> QED BY <1>2, <1>3

-----------------------------------------------------------------------------
(* The hero is somewhere else, and the steed.                              *)

Rides(w, v, p) ==
  /\ SameChains(w, v) /\ v.usteed = w.usteed /\ v.hero = p /\ v.grid = w.grid /\ v.wsegs = w.wsegs
  /\ w.usteed = None => v.mon = w.mon
  /\ w.usteed # None => Shifts(w, v, w.usteed) /\ v.mon[w.usteed].x = p

(* The level does not notice.                                               *)
LEMMA NewPos ==
  ASSUME NEW w, NEW S, Good(w, S), w.usteed # None => w.usteed \in S, NEW p \in Square
  PROVE  Good(u_on_newpos(w, p), S) /\ Living(u_on_newpos(w, p)) = Living(w) /\ Rides(w, u_on_newpos(w, p), p)
<1> DEFINE v == u_on_newpos(w, p)
<1>1. w \in Worlds /\ w.mon \in [Mon -> Struct] /\ w.usteed \in Mon \cup {None}
  BY GoodParts, WorldParts
<1>2. CASE w.usteed = None
  <2>1. v = [w EXCEPT !.hero = p]
    BY <1>2 DEF u_on_newpos
  <2>2. v \in Worlds /\ SameChains(w, v) /\ v.usteed = w.usteed /\ v.hero = p /\ v.grid = w.grid /\ v.wsegs = w.wsegs /\ v.mon = w.mon
    BY <1>1, <2>1 DEF Worlds, SameChains
  <2> HIDE DEF v
  <2>3. /\ Living(v) = Living(w) /\ Apart(v) /\ PurgeFits(v) /\ (\A k \in ToSet(v.migrating) : Travels(v, k))
    BY <2>2 DEF Living, Apart, Elsewhere, PurgeFits, Dead, Travels, Good, SameChains
  <2>4. Level(v, S)
    BY <2>2, <2>3 DEF Good, Level, Owned, Owns, Tailed, Lies, segs
  <2>5. Shown(v, S)
    BY <2>2, <2>3 DEF Good, Shown, Shows, Body, segs
  <2>6. Away(v)
    BY <1>1, <2>2, StaysAway DEF Good, SameChains
  <2>7. Rides(w, v, p)
    BY <1>2, <2>2 DEF Rides
  <2> QED BY <2>2, <2>3, <2>4, <2>5, <2>6, <2>7 DEF Good, v
<1>3. CASE w.usteed # None
  <2> DEFINE f == At(w.mon, w.usteed, p)
  <2>1. v = [w EXCEPT !.hero = p, !.mon = f]
    BY <1>1, <1>3 DEF u_on_newpos, At, Worlds
  <2>2. f \in [Mon -> Struct]
    <3>1. w.usteed \in Mon /\ p \in Square \cup {0}
      BY <1>1, <1>3
    <3> QED BY <1>1, <3>1, AtType
  <2> HIDE DEF f
  <2>3. v \in Worlds /\ SameChains(w, v) /\ v.usteed = w.usteed /\ v.hero = p /\ v.grid = w.grid /\ v.wsegs = w.wsegs /\ v.mon = f
    BY <1>1, <2>1, <2>2 DEF Worlds, SameChains
  <2> HIDE DEF v
  <2>4. w.usteed \in S /\ p \in Square \cup {0}
    BY <1>3
  <2>5. Good(v, S) /\ Living(v) = Living(w) /\ Shifts(w, v, w.usteed) /\ v.mon[w.usteed].x = p
    BY <2>3, <2>4, Drifts DEF f
  <2> QED BY <1>3, <2>3, <2>5 DEF Rides, v
<1> QED BY <1>2, <1>3

-----------------------------------------------------------------------------
(* A monster comes.                                                        *)

(* m is a new one in front of the chain.                                   *)
Comes(w, v, m) ==
  /\ v \in Worlds /\ v.fmon = <<m>> \o w.fmon /\ v.migrating = w.migrating /\ v.away = w.away /\ v.purge = w.purge
  /\ SameHero(w, v)
  /\ \A k \in Mon \ {m} : v.mon[k] = w.mon[k]

(* It lies on free squares and has a slot of its own.                      *)
Fits(w, v, m) ==
  /\ v.mon[m].alive /\ Tailed(v, m) /\ Lies(v, m)
  /\ \A q \in Square \cup {0} : v.grid[q] = IF q \in Body(v, m) THEN m ELSE w.grid[q]
  /\ \A q \in Square \cup {0} : q \in Body(v, m) => w.grid[q] = None
  /\ \A n \in Slots : IF n = v.mon[m].wormno THEN w.wsegs[n] = <<>> ELSE v.wsegs[n] = w.wsegs[n]

(* A struct that is on no chain is not on the map.                          *)
LEMMA FreeParts ==
  ASSUME NEW w, NEW S, Good(w, S), NEW m \in Free(w)
  PROVE  /\ m \in Mon /\ m \notin ToSet(w.fmon) /\ m \notin Elsewhere(w) /\ m \notin Living(w) /\ m \notin S /\ m # None
         /\ \A q \in Square \cup {0} : w.grid[q] # m
<1>1. m \in Mon /\ m \notin ToSet(w.fmon) /\ m \notin Elsewhere(w)
  BY DEF Free, Chained, Elsewhere
<1>2. m \notin Living(w) /\ m \notin S /\ Shows(w, S, m)
  BY <1>1, GoodParts DEF Living
<1> QED BY <1>1, <1>2, LevelIsFinite DEF Shows

(* Then it is of the level, and all the others are as they were.            *)
LEMMA Enter ==
  ASSUME NEW w, NEW S, Good(w, S), NEW m \in Free(w), NEW v, Comes(w, v, m), Fits(w, v, m)
  PROVE  Good(v, S) /\ Living(v) = Living(w) \cup {m} /\ ToSet(v.fmon) = ToSet(w.fmon) \cup {m}
<1>1. /\ w \in Worlds /\ v \in Worlds /\ Apart(w) /\ S \subseteq Living(w)
      /\ \A k \in Mon : k # m => v.mon[k] = w.mon[k]
  BY GoodParts DEF Comes
<1>2. m \in Mon /\ m \notin ToSet(w.fmon) /\ m \notin Elsewhere(w) /\ m \notin Living(w) /\ m \notin S /\ m # None
      /\ \A q \in Square \cup {0} : w.grid[q] # m
  BY FreeParts
<1>3. w.fmon \in Seq(Mon) /\ ToSet(w.fmon) \subseteq Mon
  BY <1>1, WorldParts
<1>4. ToSet(v.fmon) = ToSet(w.fmon) \cup {m} /\ IsInjective(v.fmon)
  BY <1>1, <1>2, <1>3, InFront DEF Comes, Apart
<1>5. Living(v) = Living(w) \cup {m} /\ Dead(v) = Dead(w)
  BY <1>1, <1>2, <1>3, <1>4 DEF Living, Dead, Fits
<1>6. Apart(v)
  BY <1>1, <1>2, <1>4 DEF Apart, Comes, Elsewhere
<1>7. Shows(v, S, m)
  BY <1>2, <1>5 DEF Shows, Fits
<1>8. \A q \in Square \cup {0}, k \in Mon \ {m} : v.grid[q] = k <=> w.grid[q] = k
  BY LevelIsFinite DEF Fits
<1>9. \A n \in Slots : KeepsSlot(w, v, m, n)
  BY <1>2, <1>5 DEF KeepsSlot, Owns, Fits
<1>10. Redrawn(w, v, m, S, S)
  BY <1>1, <1>2, <1>4, <1>5, <1>6, <1>7, <1>8, <1>9 DEF Redrawn, Comes, Fits
<1>11. PurgeFits(v)
  BY <1>5, SameDead DEF Good, Comes
<1> QED BY <1>4, <1>5, <1>10, <1>11, Redraw

-----------------------------------------------------------------------------
(* A tail for one that has none.                                           *)

(* get_wormno gives a free slot, or none.                                   *)
LEMMA WormNo ==
  ASSUME NEW w \in Worlds
  PROVE  get_wormno(w) = 0 \/ (get_wormno(w) \in Slots /\ w.wsegs[get_wormno(w)] = <<>>)
<1> DEFINE free == {n \in Slots : w.wsegs[n] = <<>>}
<1>1. CASE free = {}
  BY <1>1 DEF get_wormno
<1>2. CASE free # {}
  <2>1. free \in SUBSET Nat
    BY LevelIsFinite DEF Slots
  <2>2. get_wormno(w) = Min(free)
    BY <1>2 DEF get_wormno
  <2> HIDE DEF free
  <2>3. \E n \in free : \A k \in free : n <= k
    BY <1>2, <2>1, LeastNatural
  <2>4. Min(free) \in free
    BY <2>3 DEF Min
  <2> QED BY <2>2, <2>4 DEF free
<1> QED BY <1>1, <1>2

(* m has a tail t in slot n, over squares that were free.                  *)
Grown(w, v, m, n, t) ==
  /\ n \in Slots /\ w.wsegs[n] = <<>>
  /\ t \in Seq(Square) /\ t # <<>> /\ Len(t) <= MaxTail + 1 /\ Last(t) = w.mon[m].x /\ IsInjective(t)
  /\ \A q \in ToSet(Front(t)) : w.grid[q] = None /\ q # w.hero
  /\ Sets(w, v, [w.mon EXCEPT ![m].wormno = n], Paint(w.grid, ToSet(Front(t)), m), [w.wsegs EXCEPT ![n] = t])

(* A struct with another wormno is a struct.                                *)
LEMMA NumberType ==
  ASSUME NEW f \in [Mon -> Struct], NEW m \in Mon, NEW n \in 0 .. (MaxWorms + MaxTail)
  PROVE  LET g == [f EXCEPT ![m].wormno = n] IN
         /\ g \in [Mon -> Struct] /\ \A k \in Mon \ {m} : g[k] = f[k]
         /\ g[m].x = f[m].x /\ g[m].alive = f[m].alive /\ g[m].shape = f[m].shape
         /\ g[m].wormno = n /\ g[m].old = f[m].old /\ g[m].timer = f[m].timer
  BY DEF Struct

(* A slot is a wormno, and not 0.                                           *)
LEMMA SlotNumber == \A n \in Slots : n \in 0 .. (MaxWorms + MaxTail) /\ n # 0
  BY LevelIsFinite DEF Slots

(* What grows_tail does, if it does anything.                               *)
LEMMA Grows ==
  ASSUME "mishaps" \notin Deeds,
         NEW w, NEW S, Good(w, S), NEW m \in Living(w) \ S, m # w.usteed, w.mon[m].shape = "worm", NEW v \in grows_tail(w, m),
         v # w
  PROVE  \E n, t : Grown(w, v, m, n, t)
<1>1. w \in Worlds /\ m \in Mon /\ Lies(w, m)
  BY GoodParts
<1>2. w.mon \in [Mon -> Struct] /\ w.wsegs \in [Slots -> Seq(Square \cup {0})] /\ w.grid \in [Square \cup {0} -> Mon \cup {None}]
      /\ w.mon[m].x \in Square /\ MaxTail \in Nat
  BY <1>1, WorldParts, LevelIsFinite DEF Lies
<1> DEFINE n == get_wormno(w)
           f == [w.mon EXCEPT ![m].wormno = n]
           x == w.mon[m].x
           z == [w EXCEPT !.mon[m].wormno = n]
           i(count) == initworm(z, m, count)
<1>3. PICK count \in 0 .. MaxTail : n # 0 /\ v \in IF count = 0 THEN {i(count)} ELSE place_worm_tail_randomly(i(count), m, x)
  BY DEF grows_tail
<1>4. n \in Slots /\ w.wsegs[n] = <<>> /\ n \in 0 .. (MaxWorms + MaxTail) /\ count \in Nat
  BY <1>1, <1>3, <1>2, WormNo, SlotNumber
<1> HIDE DEF n
<1>5. f \in [Mon -> Struct] /\ f[m].x = x /\ f[m].wormno = n
  BY ONLY <1>1, <1>2, <1>4, NumberType DEF f, x
<1>6. z = [w EXCEPT !.mon = f]
  BY <1>1 DEF Worlds
<1> HIDE DEF f
<1>7. z.mon = f /\ z.wsegs = w.wsegs
  BY <1>1, <1>6 DEF Worlds
<1> DEFINE s == IF count = 0 THEN <<x>> ELSE Nowhere(count + 1)
           y == [w.wsegs EXCEPT ![n] = s]
           u == i(count)
<1>8. u = [w EXCEPT !.mon = f, !.wsegs = y]
  <2>1. u = [z EXCEPT !.wsegs[n] = s]
    <3>1. z.mon[m].wormno = n /\ z.mon[m].x = x
      BY <1>5, <1>7
    <3>2. initworm(z, m, count) = [z EXCEPT !.wsegs[z.mon[m].wormno] = IF count = 0 THEN <<z.mon[m].x>> ELSE Nowhere(count + 1)]
      BY DEF initworm
    <3> HIDE DEF z, x
    <3> QED BY <3>1, <3>2
  <2> HIDE DEF s, z, u
  <2> QED BY <1>1, <1>6, <1>7, <2>1 DEF Worlds
<1>9. s \in Seq(Square \cup {0}) /\ Len(s) = count + 1 /\ s # <<>>
  <2>1. CASE count = 0
    <3>1. s = <<x>> /\ x \in Square \cup {0}
      BY <1>2, <2>1
    <3> HIDE DEF s, x
    <3> QED BY <2>1, <3>1
  <2>2. CASE count # 0
    <3>1. s = Nowhere(count + 1) /\ count + 1 \in Nat /\ 0 \in Square \cup {0}
      BY <1>4, <2>2
    <3>2. s \in Seq(Square \cup {0}) /\ Len(s) = count + 1
      BY <3>1, AllNowhere
    <3> HIDE DEF s
    <3> QED BY <1>4, <3>2
  <2> QED BY <2>1, <2>2
<1>10. y \in [Slots -> Seq(Square \cup {0})] /\ y[n] = s
  <2> HIDE DEF s
  <2> QED BY <1>2, <1>4, <1>9
<1>11. u \in Worlds /\ u.mon = f /\ u.grid = w.grid /\ u.wsegs = y /\ SameChains(w, u) /\ SameHero(w, u)
  <2> HIDE DEF y, u, s
  <2> QED BY <1>1, <1>5, <1>8, <1>10 DEF Worlds, SameChains, SameHero
<1>12. CASE count = 0
  <2> DEFINE t == <<x>>
  <2>1. v = u /\ s = t
    BY <1>3, <1>12
  <2>2. t \in Seq(Square) /\ Len(t) = 1 /\ t # <<>> /\ Last(t) = x /\ IsInjective(t)
    BY <1>2 DEF Last, IsInjective
  <2> HIDE DEF t
  <2>3. ToSet(Front(t)) = {}
    <3>1. \A q : q \in ToSet(Front(t)) <=> \E k \in 1 .. Len(t) - 1 : q = t[k]
      BY <2>2, FrontAndLast
    <3>2. 1 .. Len(t) - 1 = {}
      BY <2>2
    <3> QED BY <3>1, <3>2
  <2>4. Paint(w.grid, {}, m) = w.grid
    BY <1>2 DEF Paint
  <2>5. y = [w.wsegs EXCEPT ![n] = t]
    BY <2>1
  <2>6. Sets(w, v, f, Paint(w.grid, ToSet(Front(t)), m), [w.wsegs EXCEPT ![n] = t])
    <3> HIDE DEF y, u
    <3> QED BY <1>11, <2>1, <2>3, <2>4, <2>5 DEF Sets
  <2>7. Len(t) <= MaxTail + 1
    BY <1>2, <2>2
  <2> QED BY <1>4, <2>2, <2>3, <2>6, <2>7 DEF Grown, f, x
<1>13. CASE count # 0
  <2> HIDE DEF i, y, s
  <2>1. v \in place_worm_tail_randomly(u, m, x)
    BY <1>3, <1>13
  <2> HIDE DEF u
  <2>2. u.mon[m].wormno = n /\ segs(u, m) = s /\ m # u.usteed
    BY <1>5, <1>10, <1>11 DEF segs, SameHero
  <2>3. x \in Square /\ u.mon[m].wormno \in Slots /\ segs(u, m) # <<>>
    BY <1>2, <1>4, <1>9, <2>2
  <2>4. PICK t : IsTail(u, m, x, t) /\ Laid(u, v, m, x, t)
    BY <1>1, <1>11, <2>1, <2>2, <2>3, LayTail
  <2>5. t \in Seq(Square) /\ t # <<>> /\ Len(t) <= count + 1 /\ Last(t) = x /\ IsInjective(t)
        /\ \A q \in ToSet(Front(t)) : w.grid[q] = None /\ q # w.hero
    BY <1>9, <1>11, <2>2, <2>4 DEF IsTail, SameHero
  <2>6. Len(t) \in Nat
    BY <2>5
  <2>7. Len(t) <= MaxTail + 1
    BY <1>2, <1>4, <2>5, <2>6
  <2>8. [u.wsegs EXCEPT ![n] = t] = [w.wsegs EXCEPT ![n] = t]
    BY <1>2, <1>11 DEF y
  <2>9. Sets(w, v, f, Paint(w.grid, ToSet(Front(t)), m), [w.wsegs EXCEPT ![n] = t])
    BY <1>11, <2>2, <2>4, <2>8 DEF Laid, Sets, SameChains, SameHero
  <2> QED BY <1>4, <2>5, <2>7, <2>9 DEF Grown, f, x
<1> QED BY <1>12, <1>13

(* Only the number of m is another.                                        *)
Numbered(w, v, m) ==
  /\ \A k \in Mon \ {m} : v.mon[k] = w.mon[k]
  /\ v.mon[m].alive = w.mon[m].alive /\ v.mon[m].shape = w.mon[m].shape /\ v.mon[m].x = w.mon[m].x
  /\ v.mon[m].old = w.mon[m].old /\ v.mon[m].timer = w.mon[m].timer

(* A tail comes to be on free squares, in a slot of its own.                *)
LEMMA GrowsTail ==
  ASSUME "mishaps" \notin Deeds,
         NEW w, NEW S, Good(w, S), NEW m \in Living(w) \ S, m # w.usteed, w.mon[m].wormno = 0, NEW v \in grows_tail(w, m)
  PROVE  /\ Good(v, S) /\ SameChains(w, v) /\ SameHero(w, v) /\ Living(v) = Living(w) /\ Numbered(w, v, m)
         /\ \A q \in Square \cup {0} : v.grid[q] = w.grid[q] \/ (w.grid[q] = None /\ v.grid[q] = m /\ q # w.hero)
<1>1. w \in Worlds /\ m \in Mon /\ Lies(w, m) /\ w.mon[m].alive /\ Shows(w, S, m)
  BY GoodParts
<1>2. w.mon \in [Mon -> Struct] /\ w.wsegs \in [Slots -> Seq(Square \cup {0})] /\ w.grid \in [Square \cup {0} -> Mon \cup {None}]
      /\ w.mon[m].x \in Square
  BY <1>1, WorldParts DEF Lies
<1>3. CASE v = w
  BY <1>3 DEF SameChains, SameHero, Numbered
<1>4. CASE v # w
  <2>1. w.mon[m].shape = "worm"
    BY <1>4 DEF grows_tail
  <2>2. PICK n, t : Grown(w, v, m, n, t)
    BY <1>4, <2>1, Grows
  <2> DEFINE Q == ToSet(Front(t))
  <2>3. /\ n \in Slots /\ w.wsegs[n] = <<>> /\ n \in 0 .. (MaxWorms + MaxTail) /\ n # 0
        /\ t \in Seq(Square) /\ t # <<>> /\ Len(t) <= MaxTail + 1 /\ Last(t) = w.mon[m].x /\ IsInjective(t)
        /\ \A q \in Q : w.grid[q] = None /\ q # w.hero
    BY <2>2, SlotNumber DEF Grown
  <2>4. /\ v \in Worlds /\ SameChains(w, v) /\ SameHero(w, v) /\ v.mon = [w.mon EXCEPT ![m].wormno = n]
        /\ v.wsegs = [w.wsegs EXCEPT ![n] = t]
        /\ \A q \in Square \cup {0} : v.grid[q] = IF q \in Q THEN m ELSE w.grid[q]
    BY <2>2 DEF Grown, Sets, Paint
  <2>5. Numbered(w, v, m) /\ v.mon[m].wormno = n /\ v.wsegs[n] = t /\ \A k \in Slots \ {n} : v.wsegs[k] = w.wsegs[k]
    <3>1. v.wsegs[n] = t /\ \A k \in Slots \ {n} : v.wsegs[k] = w.wsegs[k]
      BY <1>2, <2>3, <2>4
    <3> DEFINE f == [w.mon EXCEPT ![m].wormno = n]
    <3>2. m \in Mon /\ w.mon \in [Mon -> Struct] /\ n \in 0 .. (MaxWorms + MaxTail)
      BY <1>1, <1>2, <2>3
    <3>3. /\ \A k \in Mon \ {m} : f[k] = w.mon[k]
          /\ f[m].x = w.mon[m].x /\ f[m].alive = w.mon[m].alive /\ f[m].shape = w.mon[m].shape
          /\ f[m].wormno = n /\ f[m].old = w.mon[m].old /\ f[m].timer = w.mon[m].timer
      BY ONLY <3>2, NumberType
    <3> HIDE DEF f
    <3> QED BY <2>4, <3>1, <3>3 DEF Numbered, f
  <2>6. ToSet(t) = Q \cup {w.mon[m].x} /\ ToSet(t) \subseteq Square
    BY <2>3, FrontAndLast, InList
  <2> HIDE DEF Q
  <2>7. segs(v, m) = t /\ Body(v, m) = Q \cup {w.mon[m].x}
    BY <2>3, <2>5, <2>6 DEF Body, segs, Numbered
  <2>8. Tailed(v, m) /\ Lies(v, m)
    BY <1>2, <2>1, <2>3, <2>5, <2>6, <2>7 DEF Tailed, Lies, Numbered
  <2>9. Body(w, m) = {w.mon[m].x}
    BY DEF Body
  <2>10. Living(v) = Living(w)
    <3>1. ToSet(w.fmon) \subseteq Mon /\ \A k \in Mon : v.mon[k].alive <=> w.mon[k].alive
      BY <1>1, <2>5, WorldParts DEF Numbered
    <3> QED BY <2>4, <3>1 DEF Living, SameChains
  <2>11. \A q \in Square \cup {0}, k \in Mon \ {m} : v.grid[q] = k <=> w.grid[q] = k
    BY <2>3, <2>4, LevelIsFinite
  <2>12. Shows(v, S, m)
    <3> SUFFICES ASSUME NEW q \in Square \cup {0} PROVE v.grid[q] = m <=> q \in Body(v, m)
      BY <2>10 DEF Shows
    <3>1. w.grid[q] = m <=> q = w.mon[m].x
      BY <1>1, <2>9 DEF Shows
    <3> QED BY <2>4, <2>7, <3>1
  <2>13. \A k \in Slots : KeepsSlot(w, v, m, k)
    <3>1. \A k \in Slots : Owns(v, m, k) <=> k = n
      BY <2>5, <2>10 DEF Owns
    <3>2. \A k \in Slots : ~Owns(w, m, k)
      BY SlotNumber DEF Owns
    <3> QED BY <2>3, <2>5, <3>1, <3>2 DEF KeepsSlot
  <2>14. Changed(w, v, m, S, S)
    BY <1>1, <2>4, <2>5, <2>8, <2>11, <2>12, <2>13 DEF Changed, Numbered
  <2>15. Good(v, S)
    BY <2>14, Change
  <2> QED BY <1>1, <2>3, <2>4, <2>5, <2>10, <2>15 DEF Shows
<1> QED BY <1>3, <1>4

-----------------------------------------------------------------------------
(* Monsters go.                                                            *)

(* Without the monsters gone, whatever becomes of their structs.           *)
Departed(w, v, gone) ==
  /\ v \in Worlds /\ ToSet(v.fmon) = ToSet(w.fmon) \ gone /\ IsInjective(v.fmon)
  /\ v.migrating = w.migrating /\ v.away = w.away /\ v.purge = w.purge
  /\ \A k \in Mon \ gone : v.mon[k] = w.mon[k]
  /\ \A q \in Square \cup {0} : v.grid[q] = IF w.grid[q] \in gone THEN None ELSE w.grid[q]
  /\ \A n \in Slots : v.wsegs[n] = IF \E m \in gone : w.mon[m].wormno = n THEN <<>> ELSE w.wsegs[n]

(* Then they are gone from the level, and the others as they were.          *)
LEMMA Depart ==
  ASSUME NEW w, NEW S, Good(w, S), NEW gone \in SUBSET Living(w), NEW v, Departed(w, v, gone)
  PROVE  Good(v, S \ gone) /\ Living(v) = Living(w) \ gone
<1>1. /\ w \in Worlds /\ v \in Worlds /\ Apart(w) /\ S \subseteq Living(w) /\ Owned(w) /\ Away(w)
      /\ \A k \in Mon : k \notin gone => v.mon[k] = w.mon[k]
  BY GoodParts DEF Departed
<1>2. /\ ToSet(w.fmon) \subseteq Mon /\ Elsewhere(w) \subseteq Mon /\ Living(w) \subseteq ToSet(w.fmon)
      /\ ToSet(v.fmon) \subseteq Mon
  BY <1>1, WorldParts
<1>3. Living(v) = Living(w) \ gone
  BY <1>1, <1>2 DEF Living, Departed
<1>4. Dead(v) = Dead(w)
  BY <1>1, <1>2 DEF Dead, Living, Departed
<1>5. Apart(v) /\ Elsewhere(v) = Elsewhere(w)
  BY <1>1 DEF Apart, Departed, Elsewhere
<1>6. \A k \in Mon, n \in Slots : Owns(v, k, n) <=> (Owns(w, k, n) /\ k \notin gone)
  BY <1>1, <1>3 DEF Owns
<1>7. \A m \in gone, n \in Slots : w.mon[m].wormno = n => Owns(w, m, n) /\ m \in Mon
  BY <1>2 DEF Owns
<1>8. Owned(v)
  <2> SUFFICES ASSUME NEW n \in Slots
               PROVE  /\ v.wsegs[n] # <<>> => \E k \in Mon : Owns(v, k, n)
                      /\ \A j, k \in Mon : Owns(v, j, n) /\ Owns(v, k, n) => j = k
    BY DEF Owned
  <2>1. v.wsegs[n] # <<>> => (\A m \in gone : w.mon[m].wormno # n) /\ w.wsegs[n] # <<>>
    BY DEF Departed
  <2>2. v.wsegs[n] # <<>> => \E k \in Mon : Owns(w, k, n) /\ k \notin gone
    BY <1>1, <2>1 DEF Owned, Owns
  <2> QED BY <1>1, <1>6, <2>2 DEF Owned
<1>9. ASSUME NEW k \in Living(v)
      PROVE  /\ k \in Mon /\ v.mon[k] = w.mon[k] /\ Body(v, k) = Body(w, k)
             /\ (Tailed(v, k) <=> Tailed(w, k)) /\ (Lies(v, k) <=> Lies(w, k))
  <2>1. k \in Mon /\ k \in Living(w) /\ k \notin gone /\ v.mon[k] = w.mon[k]
    BY <1>1, <1>2, <1>3
  <2>2. w.mon[k].wormno # 0 => segs(v, k) = segs(w, k)
    <3> SUFFICES ASSUME w.mon[k].wormno # 0 PROVE segs(v, k) = segs(w, k)
      OBVIOUS
    <3>1. w.mon[k].wormno \in Slots
      BY <1>1, <2>1, GoodParts DEF Tailed
    <3>2. Owns(w, k, w.mon[k].wormno)
      BY <2>1 DEF Owns
    <3>3. \A m \in gone : w.mon[m].wormno # w.mon[k].wormno
      BY <1>1, <1>7, <2>1, <3>1, <3>2 DEF Owned
    <3> QED BY <2>1, <3>1, <3>3 DEF segs, Departed
  <2> QED BY <2>1, <2>2 DEF Body, Tailed, Lies
<1>10. Level(v, S \ gone)
  <2> SUFFICES ASSUME NEW k \in Living(v) PROVE Tailed(v, k) /\ (k \notin S \ gone => Lies(v, k))
    BY <1>8 DEF Level
  <2>1. k \in Living(w) /\ k \notin gone
    BY <1>3
  <2> QED BY <1>9, <2>1, GoodParts
<1>11. Shown(v, S \ gone)
  <2> SUFFICES ASSUME NEW k \in Mon, NEW q \in Square \cup {0}
               PROVE  v.grid[q] = k <=> (k \in Living(v) \ (S \ gone) /\ q \in Body(v, k))
    BY DEF Shown, Shows
  <2>1. w.grid[q] = k <=> (k \in Living(w) \ S /\ q \in Body(w, k))
    BY GoodParts DEF Shows
  <2>2. v.grid[q] = k <=> (w.grid[q] = k /\ k \notin gone)
    BY LevelIsFinite DEF Departed
  <2> QED BY <1>3, <1>9, <2>1, <2>2
<1>12. \A k \in Elsewhere(w) : v.mon[k] = w.mon[k]
  BY <1>1, <1>2 DEF Apart
<1>13. Away(v)
  BY <1>1, <1>12, StaysAway DEF Departed, Elsewhere
<1>14. \A k \in ToSet(v.migrating) : Travels(v, k)
  BY <1>12 DEF Departed, Good, Travels, Elsewhere
<1>15. PurgeFits(v)
  BY <1>4, SameDead DEF Departed, Good
<1> QED BY <1>1, <1>3, <1>5, <1>10, <1>11, <1>13, <1>14, <1>15 DEF Good

(* What becomes of a struct that is not on a chain is nothing to the level.*)
LEMMA Forget ==
  ASSUME NEW w, NEW S, Good(w, S), NEW m \in Free(w), NEW v \in Worlds, SameChains(w, v), v.grid = w.grid, v.wsegs = w.wsegs,
         \A k \in Mon \ {m} : v.mon[k] = w.mon[k]
  PROVE  Good(v, S) /\ Living(v) = Living(w)
<1>1. w \in Worlds /\ Apart(w) /\ S \subseteq Living(w)
  BY GoodParts
<1>2. m \in Mon /\ m \notin ToSet(w.fmon) /\ m \notin Elsewhere(w) /\ m \notin Living(w) /\ m \notin S
      /\ \A q \in Square \cup {0} : w.grid[q] # m
  BY FreeParts
<1>3. ToSet(w.fmon) \subseteq Mon
  BY <1>1, WorldParts
<1>4. Living(v) = Living(w) /\ Dead(v) = Dead(w)
  BY <1>2, <1>3 DEF Living, Dead, SameChains
<1>5. Apart(v)
  BY <1>1 DEF Apart, SameChains, Elsewhere
<1>6. Shows(v, S, m)
  BY <1>2, <1>4 DEF Shows
<1>7. \A n \in Slots : KeepsSlot(w, v, m, n)
  BY <1>2, <1>4 DEF KeepsSlot, Owns
<1>8. Redrawn(w, v, m, S, S)
  BY <1>1, <1>2, <1>4, <1>5, <1>6, <1>7 DEF Redrawn, SameChains
<1>9. PurgeFits(v)
  BY <1>4, SameDead DEF Good, SameChains
<1> QED BY <1>4, <1>8, <1>9, Redraw

-----------------------------------------------------------------------------
(* Between two actions.                                                    *)

(* What Rest says, in parts.                                                *)
LEMMA RestParts ==
  ASSUME NEW w, Rest(w)
  PROVE  /\ Good(w, Ridden(w)) /\ w \in Worlds /\ w.grid[w.hero] = None
         /\ w.usteed # None => /\ w.usteed \in Ridden(w) /\ w.usteed \in Living(w) /\ w.mon[w.usteed].x = w.hero
                               /\ w.mon[w.usteed].shape = "horse" /\ w.mon[w.usteed].wormno = 0
         /\ \A m \in Living(w) : m \in Mon /\ (m # w.usteed => m \notin Ridden(w) /\ Movable(w, m, Ridden(w)) /\ Lies(w, m))
         /\ \A m \in Free(w) : m \in Mon /\ m # w.usteed
<1>1. Good(w, Ridden(w)) /\ w.grid[w.hero] = None /\ Riding(w)
  BY DEF Rest
<1>2. \A m \in Living(w) : m \in Mon /\ (m \notin Ridden(w) => Lies(w, m))
  BY <1>1, GoodParts
<1>3. \A m \in Free(w) : m \in Mon /\ m \notin ToSet(w.fmon) /\ m # None
  BY LevelIsFinite DEF Free, Chained
<1>4. \A m \in Free(w) : m # w.usteed
  BY <1>1, <1>3 DEF Riding, Living
<1>5. w.usteed # None => w.usteed \in Ridden(w)
  BY DEF Ridden
<1>6. \A m \in Living(w) : m # w.usteed => m \notin Ridden(w) /\ Movable(w, m, Ridden(w))
  BY DEF Ridden, Movable
<1> QED BY <1>1, <1>2, <1>3, <1>4, <1>5, <1>6, GoodParts DEF Riding

(* The hero stays where the hero is, and the steed where it is.            *)
LEMMA RestMoved ==
  ASSUME NEW w, Rest(w), NEW v, Good(v, Ridden(w)), SameHero(w, v), v.grid[w.hero] = None,
         w.usteed # None => v.mon[w.usteed] = w.mon[w.usteed]
  PROVE  Rest(v)
<1>1. Ridden(v) = Ridden(w)
  BY DEF Ridden, SameHero
<1>2. Ridden(w) \subseteq Living(v)
  BY GoodParts
<1>3. Riding(v)
  BY <1>2, RestParts DEF Riding, SameHero, Ridden
<1> QED BY <1>1, <1>3 DEF Rest, SameHero

(* A monster that is put elsewhere disturbs nothing.                        *)
LEMMA RestRelocated ==
  ASSUME NEW w, Rest(w), NEW m \in Living(w), m # w.usteed, NEW v, Relocated(w, v, m, Ridden(w)), v.grid[w.hero] = None
  PROVE  Rest(v)
<1>1. Ridden(w) \ {m} = Ridden(w) /\ w.usteed \in Mon \cup {None}
  BY RestParts, WorldParts DEF Ridden
<1> QED BY <1>1, RestMoved DEF Relocated, Shifts

(* A new one.                                                              *)
Joined(w, v, m, S) ==
  /\ Good(v, S) /\ Living(v) = Living(w) \cup {m} /\ ToSet(v.fmon) = ToSet(w.fmon) \cup {m}
  /\ v.fmon = <<m>> \o w.fmon /\ v.migrating = w.migrating /\ v.away = w.away
  /\ SameHero(w, v) /\ v.grid[w.hero] = None
  /\ \A k \in Mon \ {m} : v.mon[k] = w.mon[k]

(* Nor does a new one.                                                      *)
LEMMA RestJoined ==
  ASSUME NEW w, Rest(w), NEW m \in Free(w), NEW v, Joined(w, v, m, Ridden(w))
  PROVE  Rest(v)
<1>1. w.usteed \in Mon \cup {None} /\ w.usteed # m
  BY RestParts, WorldParts
<1> QED BY <1>1, RestMoved DEF Joined

-----------------------------------------------------------------------------
(* Monsters that come into being.                                          *)

Lone(w, v, m, s, p) ==
  /\ v \in Worlds /\ v.mon = [w.mon EXCEPT ![m] = s] /\ v.fmon = <<m>> \o w.fmon
  /\ v.grid = Paint(w.grid, {p}, m) /\ v.wsegs = w.wsegs
  /\ v.migrating = w.migrating /\ v.away = w.away /\ v.purge = w.purge /\ SameHero(w, v)

(* Without a tail, on a free square that is not that of the hero.          *)
LEMMA JoinAlone ==
  ASSUME NEW w, NEW S, Good(w, S), NEW m \in Free(w), NEW s \in Struct, s.alive, s.wormno = 0, NEW p \in Square, s.x = p,
         w.grid[p] = None, NEW v, Lone(w, v, m, s, p)
  PROVE  /\ Good(v, S) /\ Living(v) = Living(w) \cup {m} /\ ToSet(v.fmon) = ToSet(w.fmon) \cup {m}
         /\ v.mon[m] = s /\ \A k \in Mon \ {m} : v.mon[k] = w.mon[k]
<1>1. w \in Worlds /\ m \in Mon /\ 0 \notin Slots
  BY GoodParts, SlotNumber DEF Free
<1>2. w.mon \in [Mon -> Struct]
  BY <1>1, WorldParts
<1>3. v.mon[m] = s /\ \A k \in Mon \ {m} : v.mon[k] = w.mon[k]
  BY <1>1, <1>2 DEF Lone
<1>4. Body(v, m) = {p}
  BY <1>3 DEF Body
<1>5. Fits(w, v, m)
  <2>1. Tailed(v, m) /\ Lies(v, m)
    BY <1>3 DEF Tailed, Lies
  <2>2. \A q \in Square \cup {0} : v.grid[q] = IF q \in Body(v, m) THEN m ELSE w.grid[q]
    BY <1>4 DEF Lone, Paint
  <2> QED BY <1>1, <1>3, <1>4, <2>1, <2>2 DEF Fits, Lone
<1>6. Comes(w, v, m)
  BY <1>3 DEF Comes, Lone
<1> QED BY <1>3, <1>5, <1>6, Enter

(* makemon adds one to the chain and to the map, with a tail or not.        *)
LEMMA MakeMon ==
  ASSUME "mishaps" \notin Deeds,
         NEW w, NEW S, Good(w, S), NEW m \in Free(w), m # w.usteed, NEW shape \in Shapes, NEW p \in Square, p # w.hero,
         w.grid[p] = None, w.grid[w.hero] = None, NEW v \in makemon(w, m, shape, p)
  PROVE  Joined(w, v, m, S)
<1>1. w \in Worlds /\ m \in Mon
  BY GoodParts DEF Free
<1>2. w.mon \in [Mon -> Struct] /\ w.fmon \in Seq(Mon) /\ w.hero \in Square
      /\ w.grid \in [Square \cup {0} -> Mon \cup {None}]
  BY <1>1, WorldParts
<1> DEFINE s == [NoMon EXCEPT !.alive = TRUE, !.shape = shape, !.old = shape]
           t == [s EXCEPT !.x = p]
           a == newmonst(w, m, shape)
           u == place_monster(a, m, p)
<1>3. s \in Struct /\ t \in Struct /\ t.alive /\ s.alive /\ t.wormno = 0 /\ t.x = p /\ t.shape = shape
  <2>1. 0 \in 0 .. (MaxWorms + MaxTail)
    BY LevelIsFinite
  <2> QED BY <2>1 DEF Struct, NoMon
<1>4. a = [w EXCEPT !.mon = [w.mon EXCEPT ![m] = s], !.fmon = <<m>> \o w.fmon]
  <2>1. a = [w EXCEPT !.mon[m] = s, !.fmon = <<m>> \o w.fmon]
    BY DEF newmonst
  <2> HIDE DEF s, a
  <2> QED BY <2>1 DEF Worlds
<1>5. [s EXCEPT !.x = p] = t
  OBVIOUS
<1> HIDE DEF s, t
<1>6. /\ a \in Worlds /\ a.mon = [w.mon EXCEPT ![m] = s] /\ a.fmon = <<m>> \o w.fmon /\ a.grid = w.grid /\ a.wsegs = w.wsegs
      /\ a.migrating = w.migrating /\ a.away = w.away /\ a.purge = w.purge /\ SameHero(w, a) /\ a.usteed = w.usteed
  <2>1. [w.mon EXCEPT ![m] = s] \in [Mon -> Struct] /\ <<m>> \o w.fmon \in Seq(Mon)
    BY <1>1, <1>2, <1>3, InFront
  <2> HIDE DEF a
  <2> QED BY <1>1, <1>4, <2>1 DEF Worlds, SameHero
<1> HIDE DEF a
<1>7. a.mon[m] = s
  BY <1>1, <1>2, <1>6
<1>8. Sets(a, u, At(a.mon, m, p), Paint(a.grid, {p}, m), a.wsegs)
  <2>1. m # a.usteed /\ a.mon[m].alive /\ p \in Square \cup {0}
    BY <1>3, <1>6, <1>7
  <2> QED BY <1>1, <1>6, <2>1, PlaceParts
<1> HIDE DEF u
<1>9. At(a.mon, m, p) = [w.mon EXCEPT ![m] = t]
  <2>1. At(a.mon, m, p) = [[w.mon EXCEPT ![m] = s] EXCEPT ![m] = [s EXCEPT !.x = p]]
    BY <1>1, <1>2, <1>6, <1>7 DEF At
  <2> QED BY <1>1, <1>2, <1>5, <2>1
<1>10. Lone(w, u, m, t, p)
  BY <1>6, <1>8, <1>9 DEF Lone, Sets, SameChains, SameHero
<1>11. /\ Good(u, S) /\ Living(u) = Living(w) \cup {m} /\ ToSet(u.fmon) = ToSet(w.fmon) \cup {m}
       /\ u.mon[m] = t /\ \A k \in Mon \ {m} : u.mon[k] = w.mon[k]
  BY <1>3, <1>10, JoinAlone
<1>12. v \in grows_tail(u, m)
  BY DEF makemon, u, a
<1>13. m \in Living(u) \ S /\ m # u.usteed /\ u.mon[m].wormno = 0
  BY <1>3, <1>10, <1>11, FreeParts DEF Lone, SameHero
<1>14. /\ Good(v, S) /\ SameChains(u, v) /\ SameHero(u, v) /\ Living(v) = Living(u) /\ Numbered(u, v, m)
       /\ \A q \in Square \cup {0} : v.grid[q] = u.grid[q] \/ (u.grid[q] = None /\ v.grid[q] = m /\ q # u.hero)
  BY <1>11, <1>12, <1>13, GrowsTail
<1>15. v.grid[w.hero] = None
  <2>1. u.grid[w.hero] = None /\ u.hero = w.hero
    BY <1>2, <1>10 DEF Lone, Paint, SameHero
  <2> QED BY <1>2, <1>14, <2>1
<1> QED BY <1>10, <1>11, <1>14, <1>15 DEF Joined, Lone, SameChains, SameHero, Numbered

(* What a clone is.                                                         *)
LEMMA CloneParts ==
  ASSUME NEW w \in Worlds, NEW m \in Mon, w.mon[m].alive, NEW by \in Mon, by # w.usteed, NEW p \in Square
  PROVE  /\ [w.mon[m] EXCEPT !.timer = FALSE, !.x = p] \in Struct
         /\ Lone(w, clone_mon(w, m, by, p), by, [w.mon[m] EXCEPT !.timer = FALSE, !.x = p], p)
<1>2. w.mon \in [Mon -> Struct] /\ w.fmon \in Seq(Mon) /\ w.grid \in [Square \cup {0} -> Mon \cup {None}] /\ w.mon[m] \in Struct
  BY WorldParts
<1> DEFINE s == [w.mon[m] EXCEPT !.timer = FALSE]
           t == [w.mon[m] EXCEPT !.timer = FALSE, !.x = p]
           a == [w EXCEPT !.mon[by] = [w.mon[m] EXCEPT !.timer = FALSE], !.fmon = <<by>> \o w.fmon]
           u == place_monster(a, by, p)
<1>3. s \in Struct /\ t \in Struct /\ t.alive /\ s.alive /\ [s EXCEPT !.x = p] = t
  BY <1>2 DEF Struct
<1>4. a = [w EXCEPT !.mon = [w.mon EXCEPT ![by] = s], !.fmon = <<by>> \o w.fmon]
  BY DEF Worlds
<1> HIDE DEF s, t
<1>6. /\ a \in Worlds /\ a.mon = [w.mon EXCEPT ![by] = s] /\ a.fmon = <<by>> \o w.fmon /\ a.grid = w.grid /\ a.wsegs = w.wsegs
      /\ a.migrating = w.migrating /\ a.away = w.away /\ a.purge = w.purge /\ SameHero(w, a) /\ a.usteed = w.usteed
  <2>1. [w.mon EXCEPT ![by] = s] \in [Mon -> Struct] /\ <<by>> \o w.fmon \in Seq(Mon)
    BY <1>2, <1>3, InFront
  <2> HIDE DEF a
  <2> QED BY <1>4, <2>1 DEF Worlds, SameHero
<1>7. clone_mon(w, m, by, p) = u
  BY DEF clone_mon
<1> HIDE DEF a
<1>8. a.mon[by] = s
  BY <1>2, <1>6
<1>9. Sets(a, u, At(a.mon, by, p), Paint(a.grid, {p}, by), a.wsegs)
  <2>1. by # a.usteed /\ a.mon[by].alive /\ p \in Square \cup {0}
    BY <1>3, <1>6, <1>8
  <2> QED BY <1>6, <2>1, PlaceParts
<1> HIDE DEF u
<1>10. At(a.mon, by, p) = [w.mon EXCEPT ![by] = t]
  <2>1. At(a.mon, by, p) = [[w.mon EXCEPT ![by] = s] EXCEPT ![by] = [s EXCEPT !.x = p]]
    BY <1>2, <1>6, <1>8 DEF At
  <2> QED BY <1>2, <1>3, <2>1
<1>11. Lone(w, u, by, t, p)
  BY <1>6, <1>9, <1>10 DEF Lone, Sets, SameChains, SameHero
<1> QED BY <1>3, <1>7, <1>11 DEF t

(* clone_mon adds one to the chain and to the map.                          *)
LEMMA CloneMon ==
  ASSUME NEW w, NEW S, Good(w, S), NEW m \in Living(w), w.mon[m].wormno = 0, NEW by \in Free(w), by # w.usteed,
         NEW p \in Square, p # w.hero, w.grid[p] = None, w.grid[w.hero] = None
  PROVE  Joined(w, clone_mon(w, m, by, p), by, S)
<1> DEFINE s == [w.mon[m] EXCEPT !.timer = FALSE, !.x = p]
           v == clone_mon(w, m, by, p)
<1>1. w \in Worlds /\ m \in Mon /\ by \in Mon /\ w.mon[m].alive /\ w.mon[m] \in Struct
  BY GoodParts DEF Free
<1>2. s \in Struct /\ Lone(w, v, by, s, p)
  BY <1>1, CloneParts
<1>3. s.alive /\ s.wormno = 0 /\ s.x = p
  BY <1>1 DEF Struct
<1> HIDE DEF s, v
<1>4. /\ Good(v, S) /\ Living(v) = Living(w) \cup {by} /\ ToSet(v.fmon) = ToSet(w.fmon) \cup {by}
      /\ \A k \in Mon \ {by} : v.mon[k] = w.mon[k]
  BY <1>2, <1>3, JoinAlone
<1>5. v.grid[w.hero] = None
  <2>1. w.hero \in Square
    BY <1>1, WorldParts
  <2> QED BY <1>2, <2>1 DEF Lone, Paint
<1> QED BY <1>2, <1>4, <1>5 DEF Joined, Lone, v

-----------------------------------------------------------------------------
(* One struct takes the place of another.                                  *)

Replaced(w, v, m, by) ==
  /\ v \in Worlds /\ v.mon = [[w.mon EXCEPT ![by] = w.mon[m]] EXCEPT ![m] = NoMon]
  /\ v.fmon = <<by>> \o unlinked(w.fmon, {m})
  /\ v.migrating = w.migrating /\ v.away = w.away /\ v.purge = w.purge /\ SameHero(w, v) /\ v.wsegs = w.wsegs
  /\ \A q \in Square \cup {0} : v.grid[q] = IF q \in Body(w, m) THEN by ELSE w.grid[q]

(* The struct that is freed.                                                *)
LEMMA NoMonIsOne == NoMon \in Struct
<1>1. 0 \in 0 .. (MaxWorms + MaxTail)
  BY LevelIsFinite
<1> QED BY <1>1 DEF NoMon, Struct, Shapes

(* The chain without some.                                                  *)
LEMMA Unlink ==
  ASSUME NEW w \in Worlds, NEW gone
  PROVE  unlinked(w.fmon, gone) \in Seq(Mon) /\ ToSet(unlinked(w.fmon, gone)) = ToSet(w.fmon) \ gone
         /\ (Apart(w) => IsInjective(unlinked(w.fmon, gone)))
<1>1. w.fmon \in Seq(Mon)
  BY WorldParts
<1> QED BY <1>1, Unlinked DEF Apart

(* What replmon does.                                                       *)
LEMMA ReplParts ==
  ASSUME NEW w, NEW S, Good(w, S), NEW m \in Living(w) \ S, m # w.usteed, NEW by \in Mon \ {m}, by # w.usteed
  PROVE  Replaced(w, replmon(w, m, by), m, by)
<1>1. w \in Worlds /\ m \in Mon /\ Tailed(w, m) /\ Lies(w, m) /\ w.mon[m].alive /\ by \in Mon /\ by # m
  BY GoodParts
<1>2. /\ w.mon \in [Mon -> Struct] /\ w.fmon \in Seq(Mon) /\ w.grid \in [Square \cup {0} -> Mon \cup {None}] /\ w.mon[m] \in Struct
      /\ w.mon[m].x \in Square \cup {0} /\ w.wsegs \in [Slots -> Seq(Square \cup {0})]
  BY <1>1, WorldParts DEF Lies
<1> DEFINE s == w.mon[m]
           x == w.mon[m].x
           n == w.mon[m].wormno
           f == [w.mon EXCEPT ![by] = s]
           a == [w EXCEPT !.mon[by] = w.mon[m]]
           b == remove_monster(a, x)
           c == unlinked(w.fmon, {m})
           v == relmon(a, m)
           p == place_monster(v, by, x)
           q == IF n # 0 THEN place_wsegs(p, by) ELSE p
           r == replmon(w, m, by)
<1>3. f \in [Mon -> Struct] /\ f[m] = s /\ f[by] = s /\ c \in Seq(Mon)
  BY <1>1, <1>2, Unlink
<1>4. a = [w EXCEPT !.mon = f]
  BY DEF Worlds
<1> HIDE DEF f, c
<1>5. a \in Worlds /\ a.mon = f /\ a.fmon = w.fmon /\ a.grid = w.grid /\ a.wsegs = w.wsegs /\ SameChains(w, a) /\ SameHero(w, a)
  <2> HIDE DEF a
  <2> QED BY <1>1, <1>3, <1>4 DEF Worlds, SameChains, SameHero
<1> HIDE DEF a
<1>6. Sets(a, b, a.mon, Paint(a.grid, {x}, None), a.wsegs)
  BY <1>2, <1>5, RemoveParts
<1>7. v = [b EXCEPT !.fmon = c]
  BY <1>3, <1>5 DEF relmon, c
<1> HIDE DEF b
<1>8. /\ v \in Worlds /\ v.mon = f /\ v.fmon = c /\ v.grid = Paint(w.grid, {x}, None) /\ v.wsegs = w.wsegs
      /\ v.migrating = w.migrating /\ v.away = w.away /\ v.purge = w.purge /\ SameHero(w, v)
  <2>1. /\ b \in Worlds /\ b.mon = f /\ b.grid = Paint(w.grid, {x}, None) /\ b.wsegs = w.wsegs
        /\ b.migrating = w.migrating /\ b.away = w.away /\ b.purge = w.purge /\ SameHero(w, b)
    BY <1>5, <1>6 DEF Sets, SameChains, SameHero
  <2> HIDE DEF v
  <2> QED BY <1>3, <1>7, <2>1 DEF Worlds, SameHero
<1> HIDE DEF v
<1>9. Sets(v, p, At(v.mon, by, x), Paint(v.grid, {x}, by), v.wsegs)
  <2>1. by # v.usteed /\ v.mon[by].alive
    BY <1>1, <1>3, <1>8 DEF SameHero
  <2> QED BY <1>1, <1>2, <1>8, <2>1, PlaceParts
<1>10. At(v.mon, by, x) = f
  <2>1. [f[by] EXCEPT !.x = x] = f[by]
    BY <1>2, <1>3 DEF Struct
  <2>2. At(v.mon, by, x) = [f EXCEPT ![by] = [f[by] EXCEPT !.x = x]]
    BY <1>8 DEF At
  <2> QED BY <1>3, <2>1, <2>2
<1> HIDE DEF p
<1>11. /\ p \in Worlds /\ p.mon = f /\ p.fmon = c /\ p.wsegs = w.wsegs
       /\ p.migrating = w.migrating /\ p.away = w.away /\ p.purge = w.purge /\ SameHero(w, p)
       /\ \A e \in Square \cup {0} : p.grid[e] = IF e = x THEN by ELSE w.grid[e]
  BY <1>8, <1>9, <1>10 DEF Sets, SameChains, SameHero, Paint
<1>12. /\ q \in Worlds /\ q.mon = f /\ q.fmon = c /\ q.wsegs = w.wsegs
       /\ q.migrating = w.migrating /\ q.away = w.away /\ q.purge = w.purge /\ SameHero(w, q)
       /\ \A e \in Square \cup {0} : q.grid[e] = IF e \in Body(w, m) THEN by ELSE w.grid[e]
  <2>1. CASE n = 0
    <3>1. Body(w, m) = {x} /\ q = p
      BY <2>1 DEF Body
    <3> QED BY <1>11, <3>1
  <2>2. CASE n # 0
    <3>1. segs(w, m) \in Seq(Square \cup {0}) /\ segs(w, m) # <<>> /\ Body(w, m) = ToSet(segs(w, m)) /\ n \in Slots
      BY <1>1, <2>2, TailParts
    <3>2. Last(segs(w, m)) = x
      BY <1>1, <2>2 DEF Lies
    <3>3. ToSet(segs(w, m)) = ToSet(Front(segs(w, m))) \cup {x}
      BY <3>1, <3>2, FrontAndLast
    <3>4. p.mon[by].wormno = n /\ segs(p, by) = segs(w, m)
      BY <1>3, <1>11 DEF segs
    <3>5. Sets(p, place_wsegs(p, by), p.mon, Paint(p.grid, ToSet(Front(segs(p, by))), by), p.wsegs)
      BY <1>1, <1>11, <3>1, <3>4, SegmentsParts
    <3>6. q = place_wsegs(p, by)
      BY <2>2
    <3> HIDE DEF q, n
    <3>7. \A e \in Square \cup {0} : q.grid[e] = IF e \in ToSet(Front(segs(w, m))) THEN by ELSE p.grid[e]
      BY <3>4, <3>5, <3>6 DEF Sets, Paint
    <3>8. \A e \in Square \cup {0} : q.grid[e] = IF e \in Body(w, m) THEN by ELSE w.grid[e]
      BY <1>11, <3>1, <3>3, <3>7
    <3> QED BY <1>11, <3>5, <3>6, <3>8 DEF Sets, SameChains, SameHero
  <2> QED BY <2>1, <2>2
<1>13. r = [q EXCEPT !.fmon = <<by>> \o q.fmon, !.mon[m] = NoMon, !.usteed = w.usteed]
  <2>1. p = IF m = w.usteed THEN v ELSE place_monster(v, by, w.mon[m].x)
    BY DEF p
  <2>2. v = relmon([w EXCEPT !.mon[by] = w.mon[m]], m)
    BY DEF v, a
  <2>3. w.usteed # m
    OBVIOUS
  <2> HIDE DEF v, p
  <2> QED BY <2>1, <2>2, <2>3 DEF replmon
<1> DEFINE g == [f EXCEPT ![m] = NoMon]
<1> HIDE DEF q
<1>14. r = [q EXCEPT !.fmon = <<by>> \o c, !.mon = g, !.usteed = w.usteed]
  <2> HIDE DEF r
  <2> QED BY <1>12, <1>13 DEF Worlds
<1>15. g \in [Mon -> Struct] /\ <<by>> \o c \in Seq(Mon) /\ w.usteed \in Mon \cup {None}
  BY <1>1, <1>3, NoMonIsOne, InFront, WorldParts
<1> HIDE DEF g, r
<1>16. /\ r \in Worlds /\ r.mon = g /\ r.fmon = <<by>> \o c /\ r.migrating = w.migrating /\ r.away = w.away /\ r.purge = w.purge
       /\ SameHero(w, r) /\ r.wsegs = w.wsegs /\ r.grid = q.grid
  BY <1>12, <1>14, <1>15 DEF Worlds, SameHero
<1> QED BY <1>12, <1>16 DEF Replaced, g, f, c, r

(* It is as if m had gone and by had come.                                 *)
LEMMA ReplMon ==
  ASSUME NEW w, NEW S, Good(w, S), NEW m \in Living(w) \ S, m # w.usteed, NEW by \in Free(w), by # w.usteed,
         w.grid[w.hero] = None
  PROVE  LET v == replmon(w, m, by) IN
         /\ Good(v, S) /\ Living(v) = (Living(w) \ {m}) \cup {by} /\ SameHero(w, v) /\ v.grid[w.hero] = None
         /\ v.migrating = w.migrating /\ v.away = w.away /\ \A k \in Mon \ {m, by} : v.mon[k] = w.mon[k]
<1> DEFINE v == replmon(w, m, by)
           n == w.mon[m].wormno
           s == w.mon[m]
           Q == Body(w, m)
<1>1. w \in Worlds /\ m \in Mon /\ m \in Living(w) /\ Tailed(w, m) /\ Lies(w, m) /\ s.alive /\ Shows(w, S, m) /\ m # None /\ S \ {m} = S
      /\ Apart(w) /\ Owned(w)
  BY GoodParts, LevelIsFinite
<1>2. /\ w.mon \in [Mon -> Struct] /\ w.fmon \in Seq(Mon) /\ w.grid \in [Square \cup {0} -> Mon \cup {None}]
      /\ w.wsegs \in [Slots -> Seq(Square \cup {0})] /\ Living(w) \subseteq ToSet(w.fmon) /\ w.hero \in Square
  BY <1>1, WorldParts
<1>3. by \in Mon /\ by \notin ToSet(w.fmon) /\ by \notin Elsewhere(w) /\ by # m /\ by \notin Living(w) /\ by \notin S
  BY <1>1, FreeParts
<1>4. Replaced(w, v, m, by)
  BY <1>1, <1>3, ReplParts
<1> HIDE DEF v
<1> DEFINE c == unlinked(w.fmon, {m})
           g == [q \in Square \cup {0} |-> IF w.grid[q] = m THEN None ELSE w.grid[q]]
           y == [k \in Slots |-> IF k = n THEN <<>> ELSE w.wsegs[k]]
           z == [w EXCEPT !.fmon = c, !.grid = g, !.wsegs = y]
<1>5. c \in Seq(Mon) /\ ToSet(c) = ToSet(w.fmon) \ {m} /\ IsInjective(c)
  BY <1>1, Unlink
<1>6. g \in [Square \cup {0} -> Mon \cup {None}] /\ y \in [Slots -> Seq(Square \cup {0})]
  BY <1>2
<1>7. \A q \in Square \cup {0} : g[q] = IF w.grid[q] = m THEN None ELSE w.grid[q]
  OBVIOUS
<1>8. \A k \in Slots : y[k] = IF k = n THEN <<>> ELSE w.wsegs[k]
  OBVIOUS
<1> HIDE DEF c, g, y
<1>9. /\ z \in Worlds /\ z.mon = w.mon /\ z.fmon = c /\ z.grid = g /\ z.wsegs = y /\ z.migrating = w.migrating /\ z.away = w.away
      /\ z.purge = w.purge /\ SameHero(w, z)
  BY <1>1, <1>5, <1>6 DEF Worlds, SameHero
<1> HIDE DEF z
<1>10. Departed(w, z, {m})
  BY <1>5, <1>7, <1>8, <1>9 DEF Departed
<1>11. Good(z, S) /\ Living(z) = Living(w) \ {m}
  BY <1>1, <1>10, Depart
<1> DEFINE f == [w.mon EXCEPT ![by] = s]
           u == [z EXCEPT !.mon = f, !.fmon = <<by>> \o c, !.grid = v.grid, !.wsegs = w.wsegs]
<1>12. f \in [Mon -> Struct] /\ <<by>> \o c \in Seq(Mon) /\ v.grid \in [Square \cup {0} -> Mon \cup {None}]
  <2>1. v \in Worlds
    BY <1>4 DEF Replaced
  <2>2. v.grid \in [Square \cup {0} -> Mon \cup {None}]
    BY <2>1, WorldParts
  <2>3. <<by>> \o c \in Seq(Mon)
    BY <1>3, <1>5, InFront
  <2> QED BY <1>1, <1>2, <1>3, <2>2, <2>3
<1>13. f[by] = s /\ \A k \in Mon \ {by} : f[k] = w.mon[k]
  BY <1>2, <1>3
<1> HIDE DEF f
<1>14. /\ u \in Worlds /\ u.mon = f /\ u.fmon = <<by>> \o c /\ u.grid = v.grid /\ u.wsegs = w.wsegs
       /\ u.migrating = w.migrating /\ u.away = w.away /\ u.purge = w.purge /\ SameHero(w, u)
  BY <1>2, <1>9, <1>12 DEF Worlds, SameHero
<1> HIDE DEF u
<1>15. by \in Free(z)
  BY <1>3, <1>5, <1>9 DEF Free, Chained, Elsewhere
<1>16. Comes(z, u, by)
  BY <1>9, <1>13, <1>14 DEF Comes, SameHero
<1>17. Body(u, by) = Q
  BY <1>13, <1>14 DEF Body, segs
<1>18. Fits(z, u, by)
  <2>1. Tailed(u, by) /\ Lies(u, by) /\ u.mon[by].alive /\ u.mon[by].wormno = n
    BY <1>1, <1>13, <1>14 DEF Tailed, Lies, segs
  <2>2. \A q \in Square \cup {0} : w.grid[q] = m <=> q \in Q
    BY <1>1 DEF Shows
  <2>3. \A q \in Square \cup {0} : u.grid[q] = IF q \in Q THEN by ELSE w.grid[q]
    BY <1>4, <1>14 DEF Replaced
  <2> HIDE DEF Q, n
  <2>4. \A q \in Square \cup {0} : u.grid[q] = IF q \in Body(u, by) THEN by ELSE z.grid[q]
    BY <1>7, <1>9, <1>17, <2>2, <2>3
  <2>5. \A q \in Square \cup {0} : q \in Body(u, by) => z.grid[q] = None
    BY <1>7, <1>9, <1>17, <2>2
  <2> QED BY <1>8, <1>9, <1>14, <2>1, <2>4, <2>5 DEF Fits
<1>19. Good(u, S) /\ Living(u) = Living(z) \cup {by}
  BY <1>11, <1>15, <1>16, <1>18, Enter
<1>20. m \in Free(u)
  <2>1. ToSet(u.fmon) = ToSet(c) \cup {by}
    BY <1>3, <1>5, <1>14, InFront
  <2>2. m \notin Elsewhere(w)
    BY <1>1, <1>2 DEF Apart
  <2> QED BY <1>1, <1>3, <1>5, <1>14, <2>1, <2>2 DEF Free, Chained, Elsewhere
<1>21. v.mon = [f EXCEPT ![m] = NoMon] /\ v \in Worlds /\ SameChains(u, v) /\ v.grid = u.grid /\ v.wsegs = u.wsegs /\ SameHero(w, v)
  BY <1>4, <1>14 DEF Replaced, SameChains, f, c
<1>22. \A k \in Mon \ {m} : v.mon[k] = u.mon[k]
  BY <1>12, <1>14, <1>21
<1>23. Good(v, S) /\ Living(v) = Living(u)
  BY <1>19, <1>20, <1>21, <1>22, Forget
<1>24. v.grid[w.hero] = None
  <2>1. w.hero \notin Q
    BY <1>1, <1>2 DEF Shows
  <2> QED BY <1>2, <1>4, <2>1 DEF Replaced
<1>25. \A k \in Mon \ {m, by} : v.mon[k] = w.mon[k]
  BY <1>13, <1>14, <1>22
<1> QED BY <1>4, <1>11, <1>19, <1>21, <1>23, <1>24, <1>25 DEF Replaced, v

-----------------------------------------------------------------------------
(* A monster dies.                                                         *)

(* m is dead, is not on the map and has no tail.                           *)
Gone(w, v, m) ==
  /\ v \in Worlds /\ v.fmon = w.fmon /\ v.migrating = w.migrating /\ v.away = w.away /\ v.purge = w.purge + 1
  /\ v.hero = w.hero /\ v.usteed = IF m = w.usteed THEN None ELSE w.usteed
  /\ \A k \in Mon \ {m} : v.mon[k] = w.mon[k]
  /\ ~v.mon[m].alive
  /\ \A q \in Square \cup {0} : v.grid[q] = IF q \in Body(w, m) THEN None ELSE w.grid[q]
  /\ v.wsegs = IF w.mon[m].wormno = 0 THEN w.wsegs ELSE [w.wsegs EXCEPT ![w.mon[m].wormno] = <<>>]

(* The squares of some segments are cleared.                                *)
LEMMA TossParts ==
  ASSUME NEW w \in Worlds, NEW s \in Seq(Square \cup {0})
  PROVE  Sets(w, toss_wsegs(w, s), w.mon, Paint(w.grid, ToSet(s) \ {0}, None), w.wsegs)
<1>1. IsFiniteSet(ToSet(s) \ {0})
  BY SquaresFinite, FS_Subset
<1> QED BY <1>1, ClearParts DEF toss_wsegs

(* What a long worm is without its tail.                                   *)
LEMMA WormGoneParts ==
  ASSUME NEW w \in Worlds, NEW m \in Mon, w.mon[m].wormno \in Slots
  PROVE  Sets(w, wormgone(w, m), [w.mon EXCEPT ![m].wormno = 0], Paint(w.grid, ToSet(segs(w, m)) \ {0}, None),
              [w.wsegs EXCEPT ![w.mon[m].wormno] = <<>>])
<1> DEFINE n == w.mon[m].wormno
           s == segs(w, m)
           a == toss_wsegs(w, s)
           f == [w.mon EXCEPT ![m].wormno = 0]
           y == [w.wsegs EXCEPT ![n] = <<>>]
           v == wormgone(w, m)
<1>1. w.mon \in [Mon -> Struct] /\ w.wsegs \in [Slots -> Seq(Square \cup {0})]
  BY WorldParts
<1>2. s \in Seq(Square \cup {0})
  BY <1>1 DEF segs
<1>3. 0 \in 0 .. (MaxWorms + MaxTail) /\ n \in Slots
  BY LevelIsFinite
<1> HIDE DEF n, s
<1>4. Sets(w, a, w.mon, Paint(w.grid, ToSet(s) \ {0}, None), w.wsegs)
  BY <1>2, TossParts
<1>5. v = [a EXCEPT !.mon[m].wormno = 0, !.wsegs[n] = <<>>]
  BY DEF wormgone, n, s
<1>6. f \in [Mon -> Struct] /\ y \in [Slots -> Seq(Square \cup {0})]
  <2>1. f \in [Mon -> Struct]
    <3>1. m \in Mon /\ w.mon \in [Mon -> Struct] /\ 0 \in 0 .. (MaxWorms + MaxTail)
      BY <1>1, <1>3
    <3> QED BY ONLY <3>1, NumberType DEF f
  <2>2. <<>> \in Seq(Square \cup {0})
    OBVIOUS
  <2> QED BY <1>1, <1>3, <2>1, <2>2
<1>7. v = [a EXCEPT !.mon = f, !.wsegs = y]
  <2> HIDE DEF a, v
  <2> QED BY <1>4, <1>5 DEF Sets, Worlds
<1> HIDE DEF a, v, f, y
<1>8. Sets(w, v, f, Paint(w.grid, ToSet(s) \ {0}, None), y)
  BY <1>4, <1>6, <1>7 DEF Sets, SameChains, SameHero, Worlds
<1> QED BY <1>8 DEF v, f, y, s, n

(* What m_detach does, part by part: m is dead, off the map, without a tail. *)
LEMMA DetachParts ==
  ASSUME NEW w \in Worlds, NEW m \in Mon, w.mon[m].wormno # 0 => w.mon[m].wormno \in Slots
  PROVE  LET v == m_detach(w, m)
             Q == {w.mon[m].x} \cup (IF w.mon[m].wormno = 0 THEN {} ELSE ToSet(segs(w, m)) \ {0}) IN
         /\ v \in Worlds /\ v.fmon = w.fmon /\ v.migrating = w.migrating /\ v.away = w.away /\ v.purge = w.purge + 1
         /\ SameHero(w, v) /\ (\A k \in Mon \ {m} : v.mon[k] = w.mon[k]) /\ ~v.mon[m].alive
         /\ \A q \in Square \cup {0} : v.grid[q] = IF q \in Q THEN None ELSE w.grid[q]
         /\ v.wsegs = IF w.mon[m].wormno = 0 THEN w.wsegs ELSE [w.wsegs EXCEPT ![w.mon[m].wormno] = <<>>]
<1> DEFINE x == w.mon[m].x
           n == w.mon[m].wormno
           a == remove_monster(w, x)
           f == [w.mon EXCEPT ![m].alive = FALSE, ![m].timer = FALSE]
           b == [a EXCEPT !.mon[m].alive = FALSE, !.mon[m].timer = FALSE, !.purge = w.purge + 1]
           v == m_detach(w, m)
<1>1. w.mon \in [Mon -> Struct] /\ x \in Square \cup {0} /\ w.purge \in Nat /\ w.wsegs \in [Slots -> Seq(Square \cup {0})]
  <2>1. w.mon \in [Mon -> Struct] /\ w.purge \in Nat /\ w.wsegs \in [Slots -> Seq(Square \cup {0})]
    BY WorldParts
  <2>2. w.mon[m] \in Struct
    BY <2>1
  <2> QED BY <2>1, <2>2, StructParts
<1>2. /\ f \in [Mon -> Struct] /\ (\A k \in Mon \ {m} : f[k] = w.mon[k]) /\ ~f[m].alive /\ f[m].wormno = n /\ f[m].x = x
  BY <1>1 DEF Struct
<1>3. Sets(w, a, w.mon, Paint(w.grid, {x}, None), w.wsegs)
  BY <1>1, RemoveParts
<1> HIDE DEF x, n
<1>4. b = [a EXCEPT !.mon = f, !.purge = w.purge + 1]
  <2> HIDE DEF a, b
  <2>1. b = [a EXCEPT !.mon[m].alive = FALSE, !.mon[m].timer = FALSE, !.purge = w.purge + 1]
    BY DEF b
  <2> QED BY <1>3, <2>1 DEF Sets, Worlds
<1> HIDE DEF a, f
<1>5. /\ b \in Worlds /\ b.mon = f /\ b.grid = Paint(w.grid, {x}, None) /\ b.wsegs = w.wsegs /\ b.purge = w.purge + 1
      /\ b.fmon = w.fmon /\ b.migrating = w.migrating /\ b.away = w.away /\ SameHero(w, b)
  <2> HIDE DEF b
  <2>1. w.purge + 1 \in Nat
    BY <1>1
  <2> QED BY <1>2, <1>3, <1>4, <2>1 DEF Sets, SameChains, SameHero, Worlds
<1>6. v = IF n # 0 THEN wormgone(b, m) ELSE b
  BY DEF m_detach, n, b, a, x
<1> HIDE DEF b, v
<1>7. \A q \in Square \cup {0} : b.grid[q] = IF q = x THEN None ELSE w.grid[q]
  BY <1>5 DEF Paint
<1>8. CASE n = 0
  <2>1. v = b
    BY <1>6, <1>8
  <2> QED BY <1>2, <1>5, <1>7, <1>8, <2>1 DEF v, n, x
<1>9. CASE n # 0
  <2> DEFINE s == segs(w, m)
             g == [f EXCEPT ![m].wormno = 0]
  <2>1. v = wormgone(b, m) /\ b.mon[m].wormno = n /\ n \in Slots /\ segs(b, m) = s
    BY <1>2, <1>5, <1>6, <1>9 DEF n, segs
  <2> HIDE DEF s
  <2>2. Sets(b, v, g, Paint(b.grid, ToSet(s) \ {0}, None), [w.wsegs EXCEPT ![n] = <<>>])
    <3>1. Sets(b, wormgone(b, m), [b.mon EXCEPT ![m].wormno = 0], Paint(b.grid, ToSet(segs(b, m)) \ {0}, None),
               [b.wsegs EXCEPT ![b.mon[m].wormno] = <<>>])
      BY <1>5, <2>1, WormGoneParts
    <3> QED BY <1>5, <2>1, <3>1
  <2>3. /\ (\A k \in Mon \ {m} : g[k] = f[k]) /\ g[m].alive = f[m].alive
    BY <1>2 DEF Struct
  <2> HIDE DEF g
  <2>4. (\A k \in Mon \ {m} : v.mon[k] = w.mon[k]) /\ ~v.mon[m].alive
    BY <1>2, <2>2, <2>3 DEF Sets
  <2>5. \A q \in Square \cup {0} : v.grid[q] = IF q \in {x} \cup (ToSet(s) \ {0}) THEN None ELSE w.grid[q]
    BY <1>7, <2>2 DEF Sets, Paint
  <2> QED BY <1>5, <1>9, <2>2, <2>4, <2>5 DEF v, n, x, s, Sets, SameChains, SameHero
<1> QED BY <1>8, <1>9

(* A dead steed is just no steed any more.                                 *)
LEMMA MonGoneParts ==
  ASSUME NEW w \in Worlds, NEW m \in Mon, Tailed(w, m), w.mon[m].wormno # 0 => Lies(w, m), NEW v \in mongone(w, m)
  PROVE  Gone(w, v, m)
<1> DEFINE f == [w.mon EXCEPT ![m].alive = FALSE]
           d == [w EXCEPT !.mon[m].alive = FALSE]
           e == [d EXCEPT !.usteed = IF m = w.usteed THEN None ELSE w.usteed]
<1>1. w.mon \in [Mon -> Struct] /\ w.usteed \in Mon \cup {None}
  BY WorldParts
<1>2. /\ f \in [Mon -> Struct] /\ (\A k \in Mon \ {m} : f[k] = w.mon[k]) /\ ~f[m].alive
      /\ f[m].wormno = w.mon[m].wormno /\ f[m].x = w.mon[m].x
  BY <1>1 DEF Struct
<1>3. d = [w EXCEPT !.mon = f]
  BY DEF Worlds
<1> HIDE DEF f
<1>4. d \in Worlds /\ d.mon = f /\ d.grid = w.grid /\ d.wsegs = w.wsegs /\ SameChains(w, d) /\ SameHero(w, d)
  <2> HIDE DEF d
  <2> QED BY <1>2, <1>3 DEF Worlds, SameChains, SameHero
<1> HIDE DEF d
<1>5. /\ e \in Worlds /\ e.mon = f /\ e.grid = w.grid /\ e.wsegs = w.wsegs /\ SameChains(w, e)
      /\ e.hero = w.hero /\ e.usteed = IF m = w.usteed THEN None ELSE w.usteed
  <2>1. (IF m = w.usteed THEN None ELSE w.usteed) \in Mon \cup {None}
    BY <1>1
  <2> QED BY <1>4, <2>1 DEF Worlds, SameChains, SameHero
<1>6. v = m_detach(e, m)
  <2>1. v \in Each(IF m = w.usteed THEN dismount_steed(d) ELSE {d}, LAMBDA u : {m_detach(u, m)})
    BY DEF mongone, d
  <2>2. CASE m = w.usteed
    <3>1. d.usteed = m /\ ~d.mon[m].alive
      BY <1>2, <1>4, <2>2 DEF SameHero
    <3>2. dismount_steed(d) = {[d EXCEPT !.usteed = None]}
      BY <3>1 DEF dismount_steed
    <3>3. e = [d EXCEPT !.usteed = None]
      BY <2>2
    <3> HIDE DEF e
    <3> QED BY <2>1, <2>2, <3>2, <3>3 DEF Each
  <2>3. CASE m # w.usteed
    <3>1. e = d
      BY <1>4, <2>3 DEF SameHero, Worlds
    <3> HIDE DEF e
    <3> QED BY <2>1, <2>3, <3>1 DEF Each
  <2> QED BY <2>2, <2>3
<1> HIDE DEF e
<1>7. e.mon[m].wormno # 0 => e.mon[m].wormno \in Slots
  BY <1>2, <1>5 DEF Tailed
<1>8. {e.mon[m].x} \cup (IF e.mon[m].wormno = 0 THEN {} ELSE ToSet(segs(e, m)) \ {0}) = Body(w, m)
  <2>1. segs(e, m) = segs(w, m) /\ e.mon[m].x = w.mon[m].x /\ e.mon[m].wormno = w.mon[m].wormno
    BY <1>2, <1>5 DEF segs
  <2>2. w.mon[m].wormno # 0 => ToSet(segs(w, m)) \ {0} = ToSet(segs(w, m))
    BY LevelIsFinite DEF Lies
  <2> QED BY <2>1, <2>2 DEF Body
<1>9. /\ v \in Worlds /\ v.fmon = e.fmon /\ v.migrating = e.migrating /\ v.away = e.away /\ v.purge = e.purge + 1
      /\ SameHero(e, v) /\ (\A k \in Mon \ {m} : v.mon[k] = e.mon[k]) /\ ~v.mon[m].alive
      /\ \A q \in Square \cup {0} : v.grid[q] = IF q \in Body(w, m) THEN None ELSE e.grid[q]
      /\ v.wsegs = IF e.mon[m].wormno = 0 THEN e.wsegs ELSE [e.wsegs EXCEPT ![e.mon[m].wormno] = <<>>]
  BY <1>5, <1>6, <1>7, <1>8, DetachParts
<1> QED BY <1>2, <1>5, <1>9 DEF Gone, SameChains, SameHero

(* One dies, in the air or on the map: all else is as well as it was.       *)
LEMMA MonGone ==
  ASSUME NEW w, NEW S, Good(w, S), NEW m \in Living(w), m \in S => w.mon[m].wormno = 0 /\ w.grid[w.mon[m].x] = None,
         NEW v \in mongone(w, m)
  PROVE  Gone(w, v, m) /\ Good(v, S \ {m}) /\ Living(v) = Living(w) \ {m}
<1>1. /\ w \in Worlds /\ m \in Mon /\ Tailed(w, m) /\ (m \notin S => Lies(w, m)) /\ w.mon[m].alive /\ Shows(w, S, m) /\ m # None
      /\ Apart(w) /\ S \subseteq Living(w) /\ PurgeFits(w)
  BY GoodParts, LevelIsFinite
<1>2. Gone(w, v, m)
  BY <1>1, MonGoneParts
<1>3. w.wsegs \in [Slots -> Seq(Square \cup {0})] /\ ToSet(w.fmon) \subseteq Mon /\ Living(w) \subseteq ToSet(w.fmon) /\ w.purge \in Nat
      /\ w.fmon \in Seq(Mon)
  BY <1>1, WorldParts
<1>4. \A k \in Mon : k # m => v.mon[k] = w.mon[k]
  BY <1>2 DEF Gone
<1>5. Living(v) = Living(w) \ {m} /\ Dead(v) = Dead(w) \cup {m} /\ m \notin Dead(w)
  BY <1>1, <1>2, <1>3, <1>4 DEF Living, Dead, Gone
<1>6. PurgeFits(v)
  <2>1. IsFiniteSet(ToSet(w.fmon))
    BY <1>3, SquaresFinite
  <2>2. IsFiniteSet(Dead(w))
    BY <2>1, FS_Subset DEF Dead
  <2>3. Cardinality(Dead(w) \cup {m}) = Cardinality(Dead(w)) + 1
    BY <1>5, <2>2, FS_AddElement
  <2> QED BY <1>1, <1>2, <1>5, <2>3 DEF PurgeFits, Gone
<1>7. Apart(v)
  BY <1>1, <1>2 DEF Apart, Gone, Elsewhere
<1>8. \A q \in Square \cup {0} : q \in Body(w, m) => w.grid[q] \in {m, None}
  BY <1>1 DEF Shows, Body
<1>9. \A q \in Square \cup {0}, k \in Mon \ {m} : v.grid[q] = k <=> w.grid[q] = k
  BY <1>2, <1>8, LevelIsFinite DEF Gone
<1>10. \A q \in Square \cup {0} : v.grid[q] # m
  BY <1>1, <1>2 DEF Gone, Shows
<1>11. Shows(v, S \ {m}, m)
  BY <1>5, <1>10 DEF Shows
<1>12. \A n \in Slots : KeepsSlot(w, v, m, n)
  <2> SUFFICES ASSUME NEW n \in Slots PROVE KeepsSlot(w, v, m, n)
    OBVIOUS
  <2>1. ~Owns(v, m, n)
    BY <1>5 DEF Owns
  <2>2. CASE w.mon[m].wormno = n
    <3>1. Owns(w, m, n) /\ n # 0
      BY <2>2, SlotNumber DEF Owns
    <3>2. v.wsegs[n] = <<>>
      BY <1>2, <1>3, <2>2, <3>1 DEF Gone
    <3> QED BY <3>1, <3>2 DEF KeepsSlot
  <2>3. CASE w.mon[m].wormno # n
    <3>1. v.wsegs[n] = w.wsegs[n]
      BY <1>2, <1>3, <2>3 DEF Gone
    <3> QED BY <2>1, <2>3, <3>1 DEF KeepsSlot, Owns
  <2> QED BY <2>2, <2>3
<1>13. m \in Mon \ Elsewhere(w)
  BY <1>1, <1>3 DEF Apart
<1>14. Redrawn(w, v, m, S, S \ {m})
  <2>1. S \ {m} \subseteq Living(v)
    BY <1>1, <1>5
  <2>2. (S \ {m}) \ {m} = S \ {m}
    OBVIOUS
  <2> QED BY <1>2, <1>4, <1>5, <1>7, <1>9, <1>11, <1>12, <1>13, <2>1, <2>2 DEF Redrawn, Gone
<1> QED BY <1>2, <1>5, <1>6, <1>14, Redraw

-----------------------------------------------------------------------------
(* The hero gets off.                                                      *)

(* Where the hero is and what is ridden is nothing to the level.           *)
LEMMA SameLevel ==
  ASSUME NEW w, NEW S, Good(w, S), NEW v \in Worlds, SameChains(w, v), v.mon = w.mon, v.grid = w.grid, v.wsegs = w.wsegs
  PROVE  Good(v, S) /\ Living(v) = Living(w)
<1>1. w \in Worlds
  BY GoodParts
<1>2. /\ Living(v) = Living(w) /\ Apart(v) /\ PurgeFits(v) /\ (\A k \in ToSet(v.migrating) : Travels(v, k))
  BY DEF Living, Apart, Elsewhere, PurgeFits, Dead, Travels, Good, SameChains
<1>3. Level(v, S)
  BY <1>2 DEF Good, Level, Owned, Owns, Tailed, Lies, segs
<1>4. Shown(v, S)
  BY <1>2 DEF Good, Shown, Shows, Body, segs
<1>5. Away(v)
  BY <1>1, StaysAway DEF Good, SameChains
<1> QED BY <1>2, <1>3, <1>4, <1>5 DEF Good

(* Squares next to one are squares.                                         *)
LEMMA NextTo == \A p \in Square : Near[p] \subseteq Square
  BY LevelIsFinite

(* Wherever the two are put, all is well.                                   *)
LEMMA DismountSteed ==
  ASSUME "mishaps" \notin Deeds,
         NEW w, w.usteed # None, Good(w, {w.usteed}), w.mon[w.usteed].wormno = 0, w.grid[w.hero] = None,
         NEW v \in dismount_steed(w)
  PROVE  /\ Rest(v) /\ SameChains(w, v) /\ Living(v) = Living(w) /\ v.usteed = None /\ Shifts(w, v, w.usteed)
<1> DEFINE m == w.usteed
           S == {m}
           a == [w EXCEPT !.usteed = None]
           b == place_monster(a, m, w.hero)
<1>1. w \in Worlds /\ m \in Living(w) /\ m \in Mon /\ w.mon[m].alive /\ w.hero \in Square /\ m # None
  <2>1. w \in Worlds /\ m \in Living(w)
    BY GoodParts
  <2> QED BY <2>1, GoodParts, WorldParts
<1> HIDE DEF m
<1>2. a \in Worlds /\ SameChains(w, a) /\ a.mon = w.mon /\ a.grid = w.grid /\ a.wsegs = w.wsegs /\ a.usteed = None /\ a.hero = w.hero
  BY <1>1 DEF Worlds, SameChains
<1> HIDE DEF a
<1>3. Good(a, S) /\ Living(a) = Living(w)
  BY <1>2, SameLevel DEF m
<1>4. b \in put_down(a, m, a.hero)
  BY <1>2 DEF put_down, m
<1> HIDE DEF b
<1>5. Settled(a, b, m, S, a.hero)
  <2>1. m \in S /\ m # a.usteed /\ a.hero \in Square /\ a.grid[a.hero] = None
    BY <1>1, <1>2
  <2> QED BY <1>3, <1>4, <2>1, PutDown
<1>6. S \ {m} = {}
  OBVIOUS
<1>7. /\ Good(b, {}) /\ SameChains(w, b) /\ Living(b) = Living(w) /\ Shifts(w, b, m) /\ b.hero = w.hero /\ b.usteed = None
      /\ b.grid[w.hero] = m
  BY <1>2, <1>3, <1>5, <1>6 DEF Settled, SameChains, SameHero, Shifts
<1>8. v \in {teleds(b, p) : p \in {p \in Near[w.hero] : b.grid[p] = None}} \cup rloc(b, m)
  BY <1>1 DEF dismount_steed, m, a, b
<1>9. CASE v \in {teleds(b, p) : p \in {p \in Near[w.hero] : b.grid[p] = None}}
  <2>1. PICK p \in Near[w.hero] : b.grid[p] = None /\ v = u_on_newpos(b, p)
    BY <1>9 DEF teleds
  <2>2. p \in Square
    BY <1>1, <2>1, NextTo
  <2>3. Good(v, {}) /\ Living(v) = Living(b) /\ Rides(b, v, p)
    BY <1>7, <2>1, <2>2, NewPos
  <2>4. v.usteed = None /\ v.grid[v.hero] = None /\ SameChains(b, v) /\ v.mon = b.mon
    BY <1>7, <2>1, <2>3 DEF Rides
  <2>5. Rest(v)
    BY <2>3, <2>4 DEF Rest, Ridden, Riding
  <2> QED BY <1>7, <2>3, <2>4, <2>5 DEF SameChains, Shifts, m
<1>10. CASE v \in rloc(b, m)
  <2>1. Movable(b, m, {})
    BY <1>1, <1>7 DEF Movable
  <2>2. Relocated(b, v, m, {}) /\ v.grid[b.hero] = None
    BY <1>7, <1>10, <2>1, Rloc
  <2>3. Good(v, {}) /\ v.usteed = None /\ v.grid[v.hero] = None /\ SameChains(b, v) /\ Living(v) = Living(b) /\ Shifts(b, v, m)
    <3>1. {} \ {m} = {}
      OBVIOUS
    <3> QED BY <1>7, <2>2, <3>1 DEF Relocated, SameHero
  <2>4. Rest(v)
    BY <2>3 DEF Rest, Ridden, Riding
  <2> QED BY <1>7, <2>3, <2>4 DEF SameChains, Shifts, m
<1> QED BY <1>8, <1>9, <1>10

-----------------------------------------------------------------------------
(* A monster takes another form.                                           *)

(* What is on the chain and what is elsewhere is as it was.                *)
Remains(w, v) == v.fmon = w.fmon /\ v.migrating = w.migrating /\ v.away = w.away

(* Only the shape, or the timer, is another.                               *)
LEMMA Mark ==
  ASSUME NEW w, Rest(w), NEW m \in Living(w), NEW b \in BOOLEAN
  PROVE  LET v == [w EXCEPT !.mon[m].timer = b] IN
         /\ Rest(v) /\ Remains(w, v) /\ Living(v) = Living(w) /\ v.mon[m].shape = w.mon[m].shape /\ v.mon[m].old = w.mon[m].old
         /\ v.mon[m].timer = b
<1> DEFINE v == [w EXCEPT !.mon[m].timer = b]
           f == [w.mon EXCEPT ![m].timer = b]
           S == Ridden(w)
<1>1. Good(w, S) /\ w \in Worlds /\ m \in Mon
  BY RestParts
<1>2. Tailed(w, m) /\ (m \notin S => Lies(w, m)) /\ w.mon[m].alive /\ Shows(w, S, m)
  BY <1>1, GoodParts
<1>3. w.mon \in [Mon -> Struct]
  BY <1>1, WorldParts
<1>4. /\ f \in [Mon -> Struct] /\ (\A k \in Mon \ {m} : f[k] = w.mon[k]) /\ f[m].alive = w.mon[m].alive
      /\ f[m].wormno = w.mon[m].wormno /\ f[m].x = w.mon[m].x /\ f[m].shape = w.mon[m].shape /\ f[m].old = w.mon[m].old
      /\ f[m].timer = b
  BY <1>1, <1>3 DEF Struct
<1>5. v = [w EXCEPT !.mon = f]
  BY <1>1 DEF Worlds
<1> HIDE DEF f
<1>6. v \in Worlds /\ v.mon = f /\ v.grid = w.grid /\ v.wsegs = w.wsegs /\ SameChains(w, v) /\ SameHero(w, v)
  <2> HIDE DEF v
  <2> QED BY <1>1, <1>4, <1>5 DEF Worlds, SameChains, SameHero
<1> HIDE DEF v
<1>7. Living(v) = Living(w)
  <2>1. ToSet(w.fmon) \subseteq Mon
    BY <1>1, WorldParts
  <2> QED BY <1>4, <1>6, <2>1 DEF Living, SameChains
<1>8. Tailed(v, m) /\ (m \notin S => Lies(v, m)) /\ Body(v, m) = Body(w, m)
  BY <1>2, <1>4, <1>6 DEF Tailed, Lies, Body, segs
<1>9. Shows(v, S, m)
  BY <1>2, <1>6, <1>7, <1>8 DEF Shows
<1>10. \A n \in Slots : KeepsSlot(w, v, m, n)
  BY <1>4, <1>6, <1>7 DEF KeepsSlot, Owns
<1>11. Changed(w, v, m, S, S)
  BY <1>2, <1>4, <1>6, <1>8, <1>9, <1>10 DEF Changed
<1>12. Good(v, S)
  BY <1>1, <1>11, Change
<1>13. Riding(v) /\ Ridden(v) = S /\ v.grid[v.hero] = None
  <2>1. w.usteed # None => w.usteed \in Mon /\ v.mon[w.usteed].x = w.mon[w.usteed].x
        /\ v.mon[w.usteed].shape = w.mon[w.usteed].shape /\ v.mon[w.usteed].wormno = w.mon[w.usteed].wormno
    BY <1>1, <1>4, <1>6, WorldParts
  <2> QED BY <1>6, <1>7, <2>1, RestParts DEF Riding, Ridden, SameHero
<1>14. Rest(v)
  BY <1>12, <1>13 DEF Rest
<1> QED BY <1>4, <1>6, <1>7, <1>14 DEF Remains, SameChains, v

(* Without its tail and of another shape.                                  *)
Reshaped(w, v, m, shape) ==
  /\ v \in Worlds /\ SameChains(w, v) /\ SameHero(w, v)
  /\ (\A k \in Mon \ {m} : v.mon[k] = w.mon[k]) /\ v.mon[m].alive = w.mon[m].alive /\ v.mon[m].x = w.mon[m].x
  /\ v.mon[m].wormno = 0 /\ v.mon[m].shape = shape
  /\ \A q \in Square \cup {0} : v.grid[q] = IF w.mon[m].wormno # 0 /\ q \in Body(w, m) /\ q # w.mon[m].x THEN None ELSE w.grid[q]
  /\ v.wsegs = IF w.mon[m].wormno = 0 THEN w.wsegs ELSE [w.wsegs EXCEPT ![w.mon[m].wormno] = <<>>]

(* What the first half of newcham does.                                     *)
LEMMA ReshapeParts ==
  ASSUME NEW w, NEW S, Good(w, S), NEW m \in Living(w), m = w.usteed => w.mon[m].wormno = 0, m \in S => w.mon[m].wormno = 0,
         NEW shape \in Shapes
  PROVE  Reshaped(w, [(IF w.mon[m].wormno # 0 THEN place_monster(wormgone(w, m), m, w.mon[m].x) ELSE w) EXCEPT !.mon[m].shape = shape],
                  m, shape)
<1> DEFINE n == w.mon[m].wormno
           x == w.mon[m].x
           a == IF n # 0 THEN place_monster(wormgone(w, m), m, x) ELSE w
           v == [a EXCEPT !.mon[m].shape = shape]
           f == [a.mon EXCEPT ![m].shape = shape]
<1>1. w \in Worlds /\ m \in Mon /\ Tailed(w, m) /\ (m \notin S => Lies(w, m)) /\ w.mon[m].alive /\ Shows(w, S, m) /\ w.mon[m] \in Struct
  BY GoodParts
<1>2. w.mon \in [Mon -> Struct] /\ x \in Square \cup {0}
  BY <1>1, WorldParts, StructParts
<1>3. /\ a \in Worlds /\ SameChains(w, a) /\ SameHero(w, a)
      /\ (\A k \in Mon \ {m} : a.mon[k] = w.mon[k]) /\ a.mon[m].alive = w.mon[m].alive /\ a.mon[m].x = x /\ a.mon[m].wormno = 0
      /\ \A q \in Square \cup {0} : a.grid[q] = IF n # 0 /\ q \in Body(w, m) /\ q # x THEN None ELSE w.grid[q]
      /\ a.wsegs = IF n = 0 THEN w.wsegs ELSE [w.wsegs EXCEPT ![n] = <<>>]
  <2>1. CASE n = 0
    <3>1. a = w
      BY <2>1
    <3> QED BY <1>1, <2>1, <3>1 DEF SameChains, SameHero
  <2>2. CASE n # 0
    <3> DEFINE g == [w.mon EXCEPT ![m].wormno = 0]
               y == [w.wsegs EXCEPT ![n] = <<>>]
               b == wormgone(w, m)
               Q == Body(w, m)
    <3>1. n \in Slots /\ m # w.usteed /\ Lies(w, m) /\ Q = ToSet(segs(w, m)) /\ Q \subseteq Square /\ x \in Q
      BY <1>1, <2>2, TailParts, BodyOnMap
    <3>2. ToSet(segs(w, m)) \ {0} = Q
      BY <3>1, LevelIsFinite
    <3>3. Sets(w, b, g, Paint(w.grid, Q, None), y)
      BY <1>1, <3>1, <3>2, WormGoneParts
    <3>4. /\ g \in [Mon -> Struct] /\ (\A k \in Mon \ {m} : g[k] = w.mon[k]) /\ g[m].alive = w.mon[m].alive /\ g[m].x = x /\ g[m].wormno = 0
      <4>1. m \in Mon /\ w.mon \in [Mon -> Struct] /\ 0 \in 0 .. (MaxWorms + MaxTail)
        BY <1>1, <1>2, LevelIsFinite
      <4> QED BY ONLY <4>1, NumberType DEF g, x
    <3>5. a = place_monster(b, m, x)
      BY <2>2
    <3>6. \A q \in Square : w.grid[q] = m <=> q \in Q
      BY <1>1, <2>2, <3>1 DEF Shows
    <3> HIDE DEF a, b, g, y, Q, n, x
    <3>7. Sets(b, a, At(b.mon, m, x), Paint(b.grid, {x}, m), b.wsegs)
      <4>1. m # b.usteed /\ b.mon[m].alive /\ b \in Worlds
        BY <1>1, <3>1, <3>3, <3>4 DEF Sets, SameHero
      <4> QED BY <1>1, <1>2, <3>5, <4>1, PlaceParts
    <3>8. /\ (\A k \in Mon \ {m} : At(g, m, x)[k] = g[k]) /\ At(g, m, x)[m].x = x /\ At(g, m, x)[m].alive = g[m].alive
          /\ At(g, m, x)[m].wormno = g[m].wormno
      <4>1. m \in Mon /\ g \in [Mon -> Struct] /\ x \in Square \cup {0}
        BY <1>1, <1>2, <3>4
      <4> QED BY ONLY <4>1, AtType
    <3>9. /\ (\A k \in Mon \ {m} : a.mon[k] = w.mon[k]) /\ a.mon[m].alive = w.mon[m].alive /\ a.mon[m].x = x /\ a.mon[m].wormno = 0
      BY <3>3, <3>4, <3>7, <3>8 DEF Sets
    <3>10. \A q \in Square \cup {0} : a.grid[q] = IF q = x THEN m ELSE IF q \in Q THEN None ELSE w.grid[q]
      BY <3>3, <3>7 DEF Sets, Paint
    <3>11. \A q \in Square \cup {0} : a.grid[q] = IF q \in Q /\ q # x THEN None ELSE w.grid[q]
      BY <3>1, <3>6, <3>10
    <3> QED BY <2>2, <3>3, <3>7, <3>9, <3>11 DEF Sets, SameChains, SameHero, Q, y
  <2> QED BY <2>1, <2>2
<1> HIDE DEF a, n, x
<1>4. a.mon \in [Mon -> Struct]
  BY <1>3, WorldParts
<1>5. /\ f \in [Mon -> Struct] /\ (\A k \in Mon \ {m} : f[k] = a.mon[k]) /\ f[m].alive = a.mon[m].alive
      /\ f[m].wormno = a.mon[m].wormno /\ f[m].x = a.mon[m].x /\ f[m].shape = shape
  BY <1>1, <1>4 DEF Struct
<1>6. v = [a EXCEPT !.mon = f]
  BY <1>3 DEF Worlds
<1> HIDE DEF f, v
<1>7. v \in Worlds /\ v.mon = f /\ v.grid = a.grid /\ v.wsegs = a.wsegs /\ SameChains(a, v) /\ SameHero(a, v)
  BY <1>3, <1>5, <1>6 DEF Worlds, SameChains, SameHero
<1>8. Reshaped(w, v, m, shape)
  <2>1. /\ (\A k \in Mon \ {m} : v.mon[k] = w.mon[k]) /\ v.mon[m].alive = w.mon[m].alive /\ v.mon[m].x = x
        /\ v.mon[m].wormno = 0 /\ v.mon[m].shape = shape
    BY <1>3, <1>5, <1>7
  <2>2. SameChains(w, v) /\ SameHero(w, v)
    BY <1>3, <1>7 DEF SameChains, SameHero
  <2> QED BY <1>3, <1>7, <2>1, <2>2 DEF Reshaped, n, x
<1> QED BY <1>8 DEF v, a, n, x

(* A monster of another shape, and without its tail, is as well off.        *)
LEMMA Reshape ==
  ASSUME NEW w, NEW S, Good(w, S), NEW m \in Living(w), m \in S => w.mon[m].wormno = 0, NEW shape, NEW v, Reshaped(w, v, m, shape)
  PROVE  Good(v, S) /\ Living(v) = Living(w)
<1>1. w \in Worlds /\ m \in Mon /\ Tailed(w, m) /\ (m \notin S => Lies(w, m)) /\ w.mon[m].alive /\ Shows(w, S, m) /\ m # None
  BY GoodParts, LevelIsFinite
<1>2. w.wsegs \in [Slots -> Seq(Square \cup {0})] /\ ToSet(w.fmon) \subseteq Mon
  BY <1>1, WorldParts
<1>3. /\ v \in Worlds /\ SameChains(w, v) /\ (\A k \in Mon : k # m => v.mon[k] = w.mon[k]) /\ v.mon[m].alive
      /\ v.mon[m].x = w.mon[m].x /\ v.mon[m].wormno = 0
  BY <1>1 DEF Reshaped
<1>4. Living(v) = Living(w)
  BY <1>1, <1>2, <1>3 DEF Living, SameChains
<1>5. Tailed(v, m) /\ (m \notin S => Lies(v, m)) /\ Body(v, m) = {w.mon[m].x}
  BY <1>1, <1>3 DEF Tailed, Lies, Body
<1>6. Shows(v, S, m)
  <2> SUFFICES ASSUME NEW q \in Square \cup {0} PROVE v.grid[q] = m <=> (m \in Living(w) \ S /\ q = w.mon[m].x)
    BY <1>4, <1>5 DEF Shows
  <2>1. w.grid[q] = m <=> (m \in Living(w) \ S /\ q \in Body(w, m))
    BY <1>1 DEF Shows
  <2>2. w.mon[m].x \in Body(w, m) /\ (w.mon[m].wormno = 0 => Body(w, m) = {w.mon[m].x})
    BY DEF Body
  <2>3. v.grid[q] = IF w.mon[m].wormno # 0 /\ q \in Body(w, m) /\ q # w.mon[m].x THEN None ELSE w.grid[q]
    BY DEF Reshaped
  <2> QED BY <1>1, <2>1, <2>2, <2>3
<1>7. \A q \in Square \cup {0}, k \in Mon \ {m} : v.grid[q] = k <=> w.grid[q] = k
  <2> SUFFICES ASSUME NEW q \in Square \cup {0}, NEW k \in Mon \ {m} PROVE v.grid[q] = k <=> w.grid[q] = k
    OBVIOUS
  <2>1. w.mon[m].wormno # 0 /\ q \in Body(w, m) => w.grid[q] = m
    BY <1>1 DEF Shows
  <2>2. v.grid[q] = IF w.mon[m].wormno # 0 /\ q \in Body(w, m) /\ q # w.mon[m].x THEN None ELSE w.grid[q]
    BY DEF Reshaped
  <2> QED BY <2>1, <2>2, LevelIsFinite
<1>8. \A n \in Slots : KeepsSlot(w, v, m, n)
  <2> SUFFICES ASSUME NEW n \in Slots PROVE KeepsSlot(w, v, m, n)
    OBVIOUS
  <2>1. ~Owns(v, m, n) /\ n # 0
    BY <1>3, SlotNumber DEF Owns
  <2>2. v.wsegs = IF w.mon[m].wormno = 0 THEN w.wsegs ELSE [w.wsegs EXCEPT ![w.mon[m].wormno] = <<>>]
    BY DEF Reshaped
  <2>3. CASE w.mon[m].wormno = n
    <3>1. v.wsegs[n] = <<>>
      BY <1>2, <2>1, <2>2, <2>3
    <3> QED BY <2>3, <3>1 DEF KeepsSlot, Owns
  <2>4. CASE w.mon[m].wormno # n
    <3>1. v.wsegs[n] = w.wsegs[n]
      BY <1>2, <2>2, <2>4
    <3> QED BY <2>1, <2>4, <3>1 DEF KeepsSlot, Owns
  <2> QED BY <2>3, <2>4
<1>9. Changed(w, v, m, S, S)
  BY <1>1, <1>3, <1>5, <1>6, <1>7, <1>8 DEF Changed
<1> QED BY <1>4, <1>9, Change

(* newcham: with the new tail, and the hero thrown off.                     *)
LEMMA NewCham ==
  ASSUME "mishaps" \notin Deeds,
         NEW w, Rest(w), NEW m \in Living(w), NEW shape \in Shapes, NEW v \in newcham(w, m, shape)
  PROVE  Rest(v) /\ Remains(w, v) /\ Living(v) = Living(w) /\ v.mon[m].alive
<1> DEFINE S == Ridden(w)
           bare == IF w.mon[m].wormno # 0 THEN place_monster(wormgone(w, m), m, w.mon[m].x) ELSE w
           f == [bare EXCEPT !.mon[m].shape = shape]
           ridden == w.usteed = m /\ shape = "worm"
<1>1. Good(w, S) /\ w \in Worlds /\ m \in Mon /\ (m = w.usteed => w.mon[m].wormno = 0) /\ (m # w.usteed => m \notin S) /\ w.hero \in Square
      /\ m # None /\ w.mon[m].alive /\ w.grid[w.hero] = None /\ w.usteed \in Mon \cup {None}
  <2>1. Good(w, S) /\ w \in Worlds /\ m \in Mon /\ (m # w.usteed => m \notin S) /\ w.grid[w.hero] = None
    BY RestParts
  <2>2. m # None
    BY <2>1, LevelIsFinite
  <2>3. m = w.usteed => w.mon[m].wormno = 0
    BY <2>2, RestParts
  <2> QED BY <2>1, <2>2, <2>3, WorldParts DEF Living
<1>2. Reshaped(w, f, m, shape)
  BY <1>1, ReshapeParts
<1>3. PICK u \in (IF ridden THEN dismount_steed(f) ELSE {f}) : v \in grows_tail(u, m)
  <2>1. v \in Each(IF ridden THEN dismount_steed(f) ELSE {f}, LAMBDA u : grows_tail(u, m))
    BY DEF newcham
  <2> HIDE DEF f, ridden
  <2> QED BY <2>1 DEF Each
<1> HIDE DEF f
<1>4. Good(f, S) /\ Living(f) = Living(w)
  BY <1>1, <1>2, Reshape
<1>5. f.mon[m].wormno = 0 /\ SameChains(w, f) /\ SameHero(w, f) /\ f.mon[m].shape = shape /\ f.mon[m].x = w.mon[m].x
      /\ \A k \in Mon \ {m} : f.mon[k] = w.mon[k]
  BY <1>2 DEF Reshaped
<1>6. f.grid[f.hero] = None
  BY <1>1, <1>2 DEF Reshaped, SameHero
<1>7. CASE ridden
  <2>1. f.usteed = m /\ f.usteed # None /\ Good(f, {f.usteed})
    BY <1>1, <1>4, <1>5, <1>7 DEF SameHero, Ridden
  <2>2. /\ Rest(u) /\ SameChains(f, u) /\ Living(u) = Living(f) /\ u.usteed = None /\ Shifts(f, u, m)
    BY <1>3, <1>5, <1>6, <1>7, <2>1, DismountSteed
  <2>3. Ridden(u) = {}
    BY <2>2 DEF Ridden
  <2>4. m \in Living(u) \ Ridden(u) /\ m # u.usteed /\ u.mon[m].wormno = 0 /\ Good(u, Ridden(u)) /\ u.grid[u.hero] = None /\ u \in Worlds
    BY <1>1, <1>4, <1>5, <2>2, <2>3, RestParts DEF Shifts
  <2>5. /\ Good(v, Ridden(u)) /\ SameChains(u, v) /\ SameHero(u, v) /\ Living(v) = Living(u) /\ Numbered(u, v, m)
        /\ \A q \in Square \cup {0} : v.grid[q] = u.grid[q] \/ (u.grid[q] = None /\ v.grid[q] = m /\ q # u.hero)
    BY <1>3, <2>4, GrowsTail
  <2>6. v.grid[u.hero] = None
    <3>1. u.hero \in Square
      BY <2>4, WorldParts
    <3> QED BY <2>4, <2>5, <3>1
  <2>7. Rest(v)
    BY <2>2, <2>5, <2>6, RestMoved
  <2>8. m \in Living(v)
    BY <1>4, <2>2, <2>5
  <2> QED BY <1>4, <1>5, <2>2, <2>5, <2>7, <2>8 DEF SameChains, Remains, Living
<1>8. CASE ~ridden /\ m = w.usteed
  <2>1. shape = "horse" /\ u = f
    BY <1>3, <1>8 DEF Shapes
  <2>2. v = f
    BY <1>3, <1>5, <2>1 DEF grows_tail
  <2>3. Riding(f) /\ Ridden(f) = S
    <3>1. w.usteed # None /\ w.mon[m].x = w.hero
      BY <1>1, <1>8, RestParts
    <3> QED BY <1>4, <1>5, <1>8, <2>1, <3>1 DEF Riding, SameHero, Ridden
  <2>4. Rest(f)
    BY <1>4, <1>6, <2>3 DEF Rest
  <2>5. m \in Living(v)
    BY <1>4, <2>2
  <2> QED BY <1>4, <1>5, <2>2, <2>4, <2>5 DEF SameChains, Remains, Living
<1>9. CASE m # w.usteed
  <2>1. u = f
    BY <1>3, <1>9
  <2>2. m \in Living(f) \ S /\ m # f.usteed
    BY <1>1, <1>4, <1>5, <1>9 DEF SameHero
  <2>3. /\ Good(v, S) /\ SameChains(f, v) /\ SameHero(f, v) /\ Living(v) = Living(f) /\ Numbered(f, v, m)
        /\ \A q \in Square \cup {0} : v.grid[q] = f.grid[q] \/ (f.grid[q] = None /\ v.grid[q] = m /\ q # f.hero)
    BY <1>3, <1>4, <1>5, <2>1, <2>2, GrowsTail
  <2>4. v.grid[w.hero] = None
    BY <1>1, <1>5, <1>6, <2>3 DEF SameHero
  <2>5. SameHero(w, v) /\ (w.usteed # None => v.mon[w.usteed] = w.mon[w.usteed])
    BY <1>1, <1>5, <1>9, <2>3 DEF SameHero, Numbered
  <2>6. Rest(v)
    BY <2>3, <2>4, <2>5, RestMoved
  <2>7. m \in Living(v)
    BY <1>4, <2>3
  <2> QED BY <1>4, <1>5, <2>3, <2>6, <2>7 DEF SameChains, Remains, Living
<1> QED BY <1>7, <1>8, <1>9

-----------------------------------------------------------------------------
(* Deaths and changes between two actions.                                 *)

(* No one comes, goes or leaves.                                           *)
Rests(w, v) == Rest(v) /\ Remains(w, v)

(* One that dies, the steed too, leaves all well.                           *)
LEMMA RestGone ==
  ASSUME NEW w, Rest(w), NEW m \in Living(w), NEW v \in mongone(w, m)
  PROVE  Rests(w, v)
<1> DEFINE S == Ridden(w)
<1>1. Good(w, S) /\ w \in Worlds /\ m \in Mon /\ (m # w.usteed => m \notin S) /\ w.hero \in Square /\ m # None /\ w.usteed \in Mon \cup {None}
      /\ w.grid[w.hero] = None
  <2>1. Good(w, S) /\ w \in Worlds /\ m \in Mon /\ (m # w.usteed => m \notin S) /\ w.grid[w.hero] = None
    BY RestParts
  <2> QED BY <2>1, LevelIsFinite, WorldParts
<1>2. m = w.usteed => w.mon[m].wormno = 0 /\ w.mon[m].x = w.hero
  BY <1>1, RestParts
<1>3. m \in S => w.mon[m].wormno = 0 /\ w.grid[w.mon[m].x] = None
  BY <1>1, <1>2
<1>4. Gone(w, v, m) /\ Good(v, S \ {m}) /\ Living(v) = Living(w) \ {m}
  BY <1>1, <1>3, MonGone
<1>5. v.grid[w.hero] = None /\ v.hero = w.hero
  BY <1>1, <1>4 DEF Gone
<1>6. CASE m = w.usteed
  <2>1. v.usteed = None
    BY <1>4, <1>6 DEF Gone
  <2>2. Ridden(v) = {} /\ S \ {m} = {} /\ Riding(v)
    BY <1>6, <2>1 DEF Ridden, Riding
  <2> QED BY <1>4, <1>5, <2>2 DEF Rest, Rests, Remains, Gone
<1>7. CASE m # w.usteed
  <2>1. SameHero(w, v) /\ S \ {m} = S
    BY <1>1, <1>4, <1>7 DEF Gone, SameHero
  <2>2. w.usteed # None => v.mon[w.usteed] = w.mon[w.usteed]
    BY <1>1, <1>4, <1>7 DEF Gone
  <2> QED BY <1>4, <1>5, <2>1, <2>2, RestMoved DEF Rests, Remains, Gone
<1> QED BY <1>6, <1>7

(* The shapes there are to turn into.                                       *)
LEMMA RestShapes ==
  ASSUME NEW w, Rest(w), NEW m \in Living(w)
  PROVE  m \in Mon /\ w.mon[m].old \in Shapes /\ w.mon[m].shape \in Shapes /\ w.mon[m].alive
<1>1. w \in Worlds /\ m \in Mon /\ w.mon[m].alive
  BY RestParts DEF Living
<1>2. w.mon[m] \in Struct
  BY <1>1, WorldParts
<1> QED BY <1>1, <1>2, StructParts

(* mondead: so does one that turns back instead.                            *)
LEMMA MonDead ==
  ASSUME "mishaps" \notin Deeds, NEW w, Rest(w), NEW m \in Living(w), NEW v \in mondead(w, m)
  PROVE  Rests(w, v)
<1>1. CASE v \in mongone(w, m)
  BY <1>1, RestGone
<1>2. CASE v \notin mongone(w, m)
  <2> DEFINE u == [w EXCEPT !.mon[m].timer = FALSE]
  <2>1. v \in newcham(u, m, w.mon[m].old)
    BY <1>2 DEF mondead
  <2>2. Rest(u) /\ Remains(w, u) /\ Living(u) = Living(w)
    <3>1. FALSE \in BOOLEAN
      OBVIOUS
    <3> QED BY <3>1, Mark
  <2> HIDE DEF u
  <2>3. w.mon[m].old \in Shapes /\ m \in Living(u)
    BY <2>2, RestShapes
  <2>4. Rest(v) /\ Remains(u, v)
    BY <2>1, <2>2, <2>3, NewCham
  <2> QED BY <2>2, <2>4 DEF Rests, Remains
<1> QED BY <1>1, <1>2

(* So does one that is polymorphed, and may die of it.                      *)
LEMMA Polymorphs ==
  ASSUME "mishaps" \notin Deeds, NEW w, Rest(w), NEW m \in Living(w), NEW shape \in Shapes, NEW v \in polymorphs(w, m, shape)
  PROVE  Rests(w, v)
<1> DEFINE F == newcham(w, m, shape)
<1>1. \A u \in F : Rest(u) /\ Remains(w, u) /\ Living(u) = Living(w) /\ u.mon[m].alive
  BY NewCham
<1>2. v \in {[u EXCEPT !.mon[m].timer = u.mon[m].alive] : u \in F} \cup Each(F, LAMBDA u : mondead(u, m))
  BY DEF polymorphs
<1> HIDE DEF F
<1>3. CASE v \in {[u EXCEPT !.mon[m].timer = u.mon[m].alive] : u \in F}
  <2>1. PICK u \in F : v = [u EXCEPT !.mon[m].timer = u.mon[m].alive]
    BY <1>3
  <2>2. Rest(u) /\ Remains(w, u) /\ m \in Living(u)
    BY <1>1
  <2>3. u.mon[m].alive \in BOOLEAN
    <3>1. u.mon[m] \in Struct
      BY <2>2, RestParts, WorldParts
    <3> QED BY <3>1, StructParts
  <2>4. Rest(v) /\ Remains(u, v)
    BY <2>1, <2>2, <2>3, Mark
  <2> QED BY <2>2, <2>4 DEF Rests, Remains
<1>4. CASE v \in Each(F, LAMBDA u : mondead(u, m))
  <2>1. PICK u \in F : v \in mondead(u, m)
    BY <1>4 DEF Each
  <2>2. Rest(u) /\ Remains(w, u) /\ m \in Living(u)
    BY <1>1
  <2>3. Rests(u, v)
    BY <2>1, <2>2, MonDead
  <2> QED BY <2>2, <2>3 DEF Rests, Remains
<1> QED BY <1>2, <1>3, <1>4

(* So does one whose time is up.                                            *)
LEMMA UnpolyMon ==
  ASSUME "mishaps" \notin Deeds, NEW w, Rest(w), NEW m \in Living(w), NEW v \in unpoly_mon(w, m)
  PROVE  Rests(w, v)
<1> DEFINE u == [w EXCEPT !.mon[m].timer = FALSE]
<1>1. v \in mondead(u, m) \cup (IF u.mon[m].shape = u.mon[m].old THEN {} ELSE newcham(u, m, u.mon[m].old))
  BY DEF unpoly_mon
<1>2. Rest(u) /\ Remains(w, u) /\ Living(u) = Living(w)
  <2>1. FALSE \in BOOLEAN
    OBVIOUS
  <2> QED BY <2>1, Mark
<1> HIDE DEF u
<1>3. u.mon[m].old \in Shapes /\ m \in Living(u)
  BY <1>2, RestShapes
<1>4. CASE v \in mondead(u, m)
  BY <1>2, <1>3, <1>4, MonDead DEF Rests, Remains
<1>5. CASE v \in newcham(u, m, u.mon[m].old)
  <2>1. Rest(v) /\ Remains(u, v)
    BY <1>2, <1>3, <1>5, NewCham
  <2> QED BY <1>2, <2>1 DEF Rests, Remains
<1> QED BY <1>1, <1>4, <1>5

(* So does one that is teleported.                                          *)
LEMMA RestRloc ==
  ASSUME "mishaps" \notin Deeds, NEW w, Rest(w), NEW m \in Living(w), m # w.usteed, NEW v \in rloc(w, m)
  PROVE  Rests(w, v)
<1>1. Good(w, Ridden(w)) /\ Movable(w, m, Ridden(w)) /\ w.grid[w.hero] = None
  BY RestParts
<1>2. Relocated(w, v, m, Ridden(w)) /\ v.grid[w.hero] = None
  BY <1>1, Rloc
<1> QED BY <1>2, RestRelocated DEF Rests, Remains, Relocated, SameChains

(* The hero goes to a free square, with the steed.                         *)
LEMMA RestRides ==
  ASSUME NEW w, Good(w, Ridden(w)), Riding(w), NEW p \in Square, w.grid[p] = None
  PROVE  Rests(w, u_on_newpos(w, p))
<1> DEFINE v == u_on_newpos(w, p)
<1>1. w.usteed # None => w.usteed \in Ridden(w)
  BY DEF Ridden
<1>2. Good(v, Ridden(w)) /\ Living(v) = Living(w) /\ Rides(w, v, p)
  BY <1>1, NewPos
<1> HIDE DEF v
<1>3. Ridden(v) = Ridden(w) /\ v.grid[v.hero] = None
  BY <1>2 DEF Ridden, Rides
<1>4. Riding(v)
  BY <1>2 DEF Riding, Rides, Shifts
<1> QED BY <1>2, <1>3, <1>4 DEF Rest, Rests, Remains, Rides, SameChains, v

(* So does the hero who is.                                                 *)
LEMMA RestTeleds ==
  ASSUME NEW w, Rest(w), NEW p \in Square, w.grid[p] = None
  PROVE  Rests(w, teleds(w, p)) /\ Rests(w, u_on_newpos(w, p))
  BY RestRides DEF Rest, teleds

-----------------------------------------------------------------------------
(* A monster moves, and its tail.                                          *)

(* m lies elsewhere, at squares that were its own or free.                 *)
Redone(w, v, m) ==
  /\ v \in Worlds /\ SameChains(w, v) /\ Shifts(w, v, m) /\ Tailed(v, m) /\ Lies(v, m)
  /\ \A q \in Square \cup {0} : v.grid[q] = IF q \in Body(v, m) THEN m ELSE IF q \in Body(w, m) THEN None ELSE w.grid[q]
  /\ \A q \in Body(v, m) \ Body(w, m) : w.grid[q] = None
  /\ \A k \in Slots : k # w.mon[m].wormno => v.wsegs[k] = w.wsegs[k]

(* Then all is as well as it was.                                           *)
LEMMA Redo ==
  ASSUME NEW w, NEW S, Good(w, S), NEW m \in Living(w) \ S, NEW v, Redone(w, v, m)
  PROVE  /\ Good(v, S) /\ Living(v) = Living(w)
         /\ \A q \in Square \cup {0} : w.grid[q] = None => v.grid[q] = None \/ q \in Body(v, m)
<1>1. w \in Worlds /\ m \in Mon /\ w.mon[m].alive /\ Shows(w, S, m) /\ m # None
  BY GoodParts, LevelIsFinite
<1>2. v \in Worlds /\ SameChains(w, v) /\ (\A k \in Mon \ {m} : v.mon[k] = w.mon[k]) /\ v.mon[m].alive
      /\ v.mon[m].wormno = w.mon[m].wormno
  BY <1>1 DEF Redone, Shifts
<1>3. Living(v) = Living(w)
  <2>1. ToSet(w.fmon) \subseteq Mon /\ \A k \in Mon : v.mon[k].alive <=> w.mon[k].alive
    BY <1>1, <1>2, WorldParts
  <2> QED BY <1>2, <2>1 DEF Living, SameChains
<1>4. \A q \in Square \cup {0} : w.grid[q] = m <=> q \in Body(w, m)
  BY <1>1 DEF Shows
<1>5. \A q \in Square \cup {0}, k \in Mon \ {m} : v.grid[q] = k <=> w.grid[q] = k
  <2>1. \A k \in Mon \ {m} : k # None /\ k # m
    BY LevelIsFinite
  <2> QED BY <1>4, <2>1 DEF Redone
<1>6. Shows(v, S, m)
  <2> SUFFICES ASSUME NEW q \in Square \cup {0} PROVE v.grid[q] = m <=> q \in Body(v, m)
    BY <1>3 DEF Shows
  <2> QED BY <1>1, <1>4 DEF Redone
<1>7. \A k \in Slots : KeepsSlot(w, v, m, k)
  BY <1>2, <1>3 DEF KeepsSlot, Owns, Redone
<1>8. Changed(w, v, m, S, S)
  BY <1>2, <1>5, <1>6, <1>7 DEF Changed, Redone
<1>9. \A q \in Square \cup {0} : w.grid[q] = None => v.grid[q] = None \/ q \in Body(v, m)
  BY DEF Redone
<1> QED BY <1>3, <1>8, <1>9, Change

(* The tail of m is t now, which ends where m is.                          *)
Retailed(w, v, m, t) ==
  /\ v \in Worlds /\ SameChains(w, v) /\ Shifts(w, v, m) /\ v.mon[m].x = Last(t)
  /\ v.wsegs = [w.wsegs EXCEPT ![w.mon[m].wormno] = t]
  /\ \A q \in Square \cup {0} : v.grid[q] = IF q \in ToSet(t) THEN m ELSE IF q \in Body(w, m) THEN None ELSE w.grid[q]

(* With such a tail it is.                                                  *)
LEMMA Retail ==
  ASSUME NEW w, NEW S, Good(w, S), NEW m \in Living(w) \ S, w.mon[m].wormno # 0,
         NEW t \in Seq(Square), t # <<>>, Len(t) <= MaxTail + 1, IsInjective(t), \A q \in ToSet(t) \ Body(w, m) : w.grid[q] = None,
         NEW v, Retailed(w, v, m, t)
  PROVE  Redone(w, v, m) /\ Body(v, m) = ToSet(t) /\ segs(v, m) = t
<1> DEFINE n == w.mon[m].wormno
<1>1. w \in Worlds /\ m \in Mon /\ Tailed(w, m) /\ n \in Slots /\ w.wsegs \in [Slots -> Seq(Square \cup {0})]
  BY GoodParts, WorldParts DEF Tailed
<1>2. v.mon[m].wormno = n /\ v.mon[m].shape = "worm"
  BY <1>1 DEF Retailed, Shifts, Tailed
<1>3. v.wsegs[n] = t /\ \A k \in Slots : k # n => v.wsegs[k] = w.wsegs[k]
  BY <1>1 DEF Retailed
<1> HIDE DEF n
<1>4. segs(v, m) = t
  BY <1>2, <1>3 DEF segs
<1>5. Last(t) \in ToSet(t) /\ ToSet(t) \subseteq Square
  BY FrontAndLast, InList
<1>6. v.mon[m].x = Last(t)
  BY DEF Retailed
<1>7. Body(v, m) = ToSet(t)
  BY <1>2, <1>4, <1>5, <1>6 DEF Body, n
<1>8. Tailed(v, m)
  BY <1>1, <1>2, <1>4 DEF Tailed
<1>9. Lies(v, m)
  BY <1>4, <1>5, <1>6 DEF Lies
<1> QED BY <1>3, <1>4, <1>7, <1>8, <1>9 DEF Redone, Retailed, n

(* shrink_worm.                                                             *)
LEMMA ShrinkParts ==
  ASSUME NEW w \in Worlds, NEW n \in Slots, w.wsegs[n] # <<>>, Len(w.wsegs[n]) # 1
  PROVE  Sets(w, shrink_worm(w, n), w.mon, Paint(w.grid, {Head(w.wsegs[n])} \ {0}, None), [w.wsegs EXCEPT ![n] = Tail(w.wsegs[n])])
<1> DEFINE s == w.wsegs[n]
           h == <<Head(s)>>
           a == toss_wsegs(w, h)
           y == [w.wsegs EXCEPT ![n] = Tail(s)]
           v == shrink_worm(w, n)
<1>1. w.wsegs \in [Slots -> Seq(Square \cup {0})] /\ s \in Seq(Square \cup {0})
  BY WorldParts
<1>2. Tail(s) \in Seq(Square \cup {0}) /\ Head(s) \in Square \cup {0}
  BY <1>1, HeadAndTail
<1>3. h \in Seq(Square \cup {0}) /\ ToSet(h) = {Head(s)}
  BY <1>2 DEF ToSet
<1>4. y \in [Slots -> Seq(Square \cup {0})]
  BY <1>1, <1>2
<1>5. v = [a EXCEPT !.wsegs[n] = Tail(s)]
  BY DEF shrink_worm
<1> HIDE DEF h, s
<1>6. Sets(w, a, w.mon, Paint(w.grid, {Head(s)} \ {0}, None), w.wsegs)
  BY <1>3, TossParts
<1>7. v = [a EXCEPT !.wsegs = y]
  <2> HIDE DEF a, v
  <2> QED BY <1>5, <1>6 DEF Sets, Worlds
<1> HIDE DEF a, v, y
<1>8. Sets(w, v, w.mon, Paint(w.grid, {Head(s)} \ {0}, None), y)
  BY <1>4, <1>6, <1>7 DEF Sets, SameChains, SameHero, Worlds
<1> QED BY <1>8 DEF v, y, s

(* Without the tip of its tail.                                            *)
LEMMA WormNoMove ==
  ASSUME NEW w, NEW S, Good(w, S), NEW m \in Living(w) \ S, w.mon[m].wormno # 0
  PROVE  LET v == shrink_worm(w, w.mon[m].wormno) IN
         /\ Good(v, S) /\ SameChains(w, v) /\ SameHero(w, v) /\ Living(v) = Living(w) /\ Shifts(w, v, m)
         /\ \A q \in Square \cup {0} : w.grid[q] = None => v.grid[q] = None
<1> DEFINE n == w.mon[m].wormno
           v == shrink_worm(w, n)
           s == w.wsegs[n]
           t == Tail(s)
<1>1. w \in Worlds /\ m \in Mon /\ Tailed(w, m) /\ Lies(w, m) /\ Shows(w, S, m)
  BY GoodParts
<1>2. n \in Slots /\ s \in Seq(Square \cup {0}) /\ s # <<>> /\ Body(w, m) = ToSet(s) /\ Len(s) <= MaxTail + 1 /\ Last(s) = w.mon[m].x
      /\ IsInjective(s) /\ ToSet(s) \subseteq Square /\ MaxTail \in Nat
  BY <1>1, TailParts, LevelIsFinite DEF Tailed, Lies, segs
<1>3. CASE Len(s) = 1
  <2>1. v = w
    BY <1>3 DEF shrink_worm
  <2> QED BY <2>1 DEF SameChains, SameHero, Shifts
<1>4. CASE Len(s) # 1
  <2>1. Sets(w, v, w.mon, Paint(w.grid, {Head(s)} \ {0}, None), [w.wsegs EXCEPT ![n] = t])
    BY <1>1, <1>2, <1>4, ShrinkParts
  <2> HIDE DEF v, s, n
  <2>2. /\ t \in Seq(Square \cup {0}) /\ Len(t) = Len(s) - 1 /\ ToSet(s) = ToSet(t) \cup {Head(s)} /\ IsInjective(t) /\ Head(s) \notin ToSet(t)
        /\ t # <<>> /\ Last(t) = Last(s) /\ Len(s) \in Nat
    BY <1>2, <1>4, HeadAndTail, InList
  <2> HIDE DEF t
  <2>3. ToSet(t) \subseteq Square /\ Head(s) \in Square /\ Head(s) # 0
    BY <1>2, <2>2, LevelIsFinite
  <2>4. t \in Seq(Square)
    <3>1. DOMAIN t = 1 .. Len(t) /\ Len(t) \in Nat /\ \A i \in 1 .. Len(t) : t[i] \in ToSet(t)
      BY <2>2, InList
    <3>2. t = [i \in 1 .. Len(t) |-> t[i]]
      BY <2>2, <3>1
    <3>3. \A i \in 1 .. Len(t) : t[i] \in Square
      BY <2>3, <3>1
    <3> QED BY <3>1, <3>2, <3>3, IsASeq
  <2>5. Retailed(w, v, m, t)
    <3>1. \A q \in Square \cup {0} : w.grid[q] = m <=> q \in ToSet(s)
      BY <1>1, <1>2 DEF Shows
    <3>2. \A q \in Square \cup {0} : v.grid[q] = IF q = Head(s) THEN None ELSE w.grid[q]
      BY <2>1, <2>3 DEF Sets, Paint
    <3>3. \A q \in Square \cup {0} : v.grid[q] = IF q \in ToSet(t) THEN m ELSE IF q \in ToSet(s) THEN None ELSE w.grid[q]
      BY <2>2, <3>1, <3>2
    <3>4. Shifts(w, v, m)
      BY <2>1 DEF Sets, Shifts
    <3> QED BY <1>2, <2>1, <2>2, <3>3, <3>4 DEF Retailed, Sets, n
  <2>6. Len(t) <= MaxTail + 1 /\ \A q \in ToSet(t) \ Body(w, m) : w.grid[q] = None
    BY <1>2, <2>2
  <2>7. Redone(w, v, m) /\ Body(v, m) = ToSet(t)
    BY <2>2, <2>4, <2>5, <2>6, Retail
  <2>8. Good(v, S) /\ Living(v) = Living(w) /\ \A q \in Square \cup {0} : w.grid[q] = None => v.grid[q] = None \/ q \in Body(v, m)
    BY <2>7, Redo
  <2>9. \A q \in Square \cup {0} : w.grid[q] = None => q \notin Body(v, m)
    BY <1>1, <1>2, <2>2, <2>7, LevelIsFinite DEF Shows
  <2> QED BY <2>1, <2>5, <2>8, <2>9 DEF Retailed, Sets, v, n
<1> QED BY <1>3, <1>4

(* A list of elements of U.                                                *)
LEMMA ListOf ==
  ASSUME NEW T, NEW U, NEW s \in Seq(T), ToSet(s) \subseteq U
  PROVE  s \in Seq(U)
<1>1. DOMAIN s = 1 .. Len(s) /\ Len(s) \in Nat /\ \A i \in 1 .. Len(s) : s[i] \in ToSet(s)
  BY InList
<1>2. s = [i \in 1 .. Len(s) |-> s[i]]
  BY <1>1
<1>3. \A i \in 1 .. Len(s) : s[i] \in U
  BY <1>1
<1> QED BY <1>1, <1>2, <1>3, IsASeq

(* m_move and worm_move.                                                   *)
MovedTo(w, v, m, p, S) ==
  /\ Good(v, S) /\ SameChains(w, v) /\ SameHero(w, v) /\ Living(v) = Living(w) /\ Shifts(w, v, m) /\ v.mon[m].x = p
  /\ \A q \in Square \cup {0} : w.grid[q] = None /\ q # p => v.grid[q] = None

(* The head has moved, and the rest not yet.                               *)
Headed(w, u, m, p) ==
  /\ u \in Worlds /\ SameChains(w, u) /\ SameHero(w, u) /\ Shifts(w, u, m) /\ u.mon[m].x = p /\ u.wsegs = w.wsegs
  /\ \A q \in Square \cup {0} : u.grid[q] = IF q = p THEN m ELSE IF q = w.mon[m].x THEN None ELSE w.grid[q]

(* The first half of m_move.                                                *)
LEMMA HeadMoves ==
  ASSUME NEW w, NEW S, Good(w, S), NEW m \in Living(w) \ S, m # w.usteed, NEW p \in Square
  PROVE  Headed(w, place_monster(remove_monster(w, w.mon[m].x), m, p), m, p)
<1> DEFINE x == w.mon[m].x
           a == remove_monster(w, x)
           u == place_monster(a, m, p)
           f == At(w.mon, m, p)
<1>1. w \in Worlds /\ m \in Mon /\ w.mon[m].alive /\ x \in Square \cup {0} /\ p \in Square \cup {0}
  BY GoodParts DEF Lies
<1>2. w.mon \in [Mon -> Struct]
  BY <1>1, WorldParts
<1>3. Sets(w, a, w.mon, Paint(w.grid, {x}, None), w.wsegs)
  BY <1>1, RemoveParts
<1> HIDE DEF a
<1>4. Sets(a, u, At(a.mon, m, p), Paint(a.grid, {p}, m), a.wsegs)
  <2>1. m # a.usteed /\ a.mon[m].alive /\ a \in Worlds
    BY <1>1, <1>3 DEF Sets, SameHero
  <2> QED BY <1>1, <2>1, PlaceParts
<1> HIDE DEF u, x
<1>5. /\ f[m].x = p /\ f[m].alive = w.mon[m].alive /\ f[m].shape = w.mon[m].shape /\ f[m].wormno = w.mon[m].wormno
      /\ f[m].old = w.mon[m].old /\ f[m].timer = w.mon[m].timer
  <2>1. m \in Mon /\ w.mon \in [Mon -> Struct] /\ p \in Square \cup {0}
    BY <1>1, <1>2
  <2> QED BY ONLY <2>1, AtType
<1>6. \A k \in Mon \ {m} : f[k] = w.mon[k]
  <2>1. m \in Mon /\ w.mon \in [Mon -> Struct] /\ p \in Square \cup {0}
    BY <1>1, <1>2
  <2> QED BY ONLY <2>1, AtType
<1>7. u.mon = f
  BY <1>3, <1>4 DEF Sets
<1> HIDE DEF f
<1>8. Shifts(w, u, m) /\ u.mon[m].x = p
  BY <1>5, <1>6, <1>7 DEF Shifts
<1>9. \A q \in Square \cup {0} : u.grid[q] = IF q = p THEN m ELSE IF q = x THEN None ELSE w.grid[q]
  BY <1>3, <1>4 DEF Sets, Paint
<1> QED BY <1>3, <1>4, <1>8, <1>9 DEF Headed, Sets, SameChains, SameHero, u, a, x

(* worm_move: a segment where the head was.                                *)
Followed(u, v, n, g) == Sets(u, v, u.mon, [u.grid EXCEPT ![Last(u.wsegs[n])] = g], [u.wsegs EXCEPT ![n] = Append(u.wsegs[n], u.mon[g].x)])

(* worm_move appends a segment, and then takes one away or not.             *)
LEMMA FollowParts ==
  ASSUME NEW u \in Worlds, NEW m \in Mon, u.mon[m].wormno \in Slots, u.wsegs[u.mon[m].wormno] # <<>>
  PROVE  \A grows \in BOOLEAN : \E v : Followed(u, v, u.mon[m].wormno, m) /\ worm_move(u, m, grows) = IF grows THEN v ELSE shrink_worm(v, u.mon[m].wormno)
<1> DEFINE n == u.mon[m].wormno
           s == u.wsegs[n]
           x == u.mon[m].x
           g == [u.grid EXCEPT ![Last(s)] = m]
           y == [u.wsegs EXCEPT ![n] = Append(s, x)]
           v == [u EXCEPT !.grid[Last(s)] = m, !.wsegs[n] = Append(s, x)]
<1>1. u.wsegs \in [Slots -> Seq(Square \cup {0})] /\ u.grid \in [Square \cup {0} -> Mon \cup {None}] /\ x \in Square \cup {0}
  <2>1. u.mon[m] \in Struct
    BY WorldParts
  <2> QED BY <2>1, WorldParts, StructParts
<1>2. s \in Seq(Square \cup {0}) /\ s # <<>>
  BY <1>1
<1> HIDE DEF s, x
<1>3. Append(s, x) \in Seq(Square \cup {0})
  BY <1>1, <1>2, OneMore
<1>4. g \in [Square \cup {0} -> Mon \cup {None}] /\ y \in [Slots -> Seq(Square \cup {0})]
  BY <1>1, <1>3
<1>5. v = [u EXCEPT !.grid = g, !.wsegs = y]
  BY DEF Worlds, s
<1>6. \A grows \in BOOLEAN : worm_move(u, m, grows) = IF grows THEN v ELSE shrink_worm(v, n)
  BY DEF worm_move, s, x
<1> HIDE DEF g, y, v
<1>7. Sets(u, v, u.mon, g, y)
  BY <1>4, <1>5 DEF Sets, SameChains, SameHero, Worlds
<1> QED BY <1>6, <1>7 DEF Followed, g, y, s, x

(* A monster that moves to a free square is there, and its tail behind it.  *)
LEMMA MMove ==
  ASSUME NEW w, NEW S, Good(w, S), NEW m \in Living(w) \ S, m # w.usteed, NEW p \in Square, w.grid[p] = None,
         NEW v \in m_move(w, m, p)
  PROVE  MovedTo(w, v, m, p, S)
<1> DEFINE x == w.mon[m].x
           n == w.mon[m].wormno
           u == place_monster(remove_monster(w, x), m, p)
<1>1. /\ w \in Worlds /\ m \in Mon /\ Tailed(w, m) /\ Lies(w, m) /\ Shows(w, S, m) /\ m # None
  BY GoodParts, LevelIsFinite
<1>2. x \in Square /\ x \in Body(w, m) /\ Body(w, m) \subseteq Square /\ \A q \in Square \cup {0} : w.grid[q] = m <=> q \in Body(w, m)
  BY <1>1, BodyOnMap DEF Shows, Lies
<1>3. p \notin Body(w, m)
  BY <1>1, <1>2
<1>4. Headed(w, u, m, p)
  BY HeadMoves
<1>5. v \in IF n = 0 THEN {u} ELSE {worm_move(u, m, grows) : grows \in (IF count_wsegs(w, m) < MaxTail THEN BOOLEAN ELSE {FALSE})}
  BY DEF m_move
<1> HIDE DEF u
<1>6. u.mon[m].wormno = n /\ u.mon[m].x = p /\ u \in Worlds
  BY <1>4 DEF Headed, Shifts
<1>7. CASE n = 0
  <2>1. v = u
    BY <1>5, <1>7
  <2>2. Body(w, m) = {x} /\ Body(u, m) = {p}
    BY <1>6, <1>7 DEF Body
  <2>3. Redone(w, u, m)
    <3>1. Tailed(u, m) /\ Lies(u, m)
      BY <1>6, <1>7 DEF Tailed, Lies
    <3>2. \A q \in Square \cup {0} : u.grid[q] = IF q \in Body(u, m) THEN m ELSE IF q \in Body(w, m) THEN None ELSE w.grid[q]
      BY <1>4, <2>2 DEF Headed
    <3> QED BY <1>4, <2>2, <3>1, <3>2 DEF Redone, Headed
  <2>4. Good(u, S) /\ Living(u) = Living(w) /\ \A q \in Square \cup {0} : w.grid[q] = None => u.grid[q] = None \/ q \in Body(u, m)
    BY <2>3, Redo
  <2> QED BY <1>4, <2>1, <2>2, <2>4 DEF MovedTo, Headed
<1>8. CASE n # 0
  <2> DEFINE s == w.wsegs[n]
             r == Append(s, p)
  <2>1. n \in Slots /\ s \in Seq(Square \cup {0}) /\ s # <<>> /\ Body(w, m) = ToSet(s) /\ Len(s) <= MaxTail + 1 /\ Last(s) = x
        /\ IsInjective(s) /\ ToSet(s) \subseteq Square /\ MaxTail \in Nat /\ Len(s) \in Nat
    BY <1>1, <1>8, TailParts, LevelIsFinite DEF Tailed, Lies, segs
  <2>2. PICK grows \in BOOLEAN : v = worm_move(u, m, grows) /\ (grows => Len(s) - 1 < MaxTail)
    <3>1. count_wsegs(w, m) = Len(s) - 1
      BY DEF count_wsegs, segs
    <3> QED BY <1>5, <1>8, <3>1
  <2>3. u.wsegs = w.wsegs
    BY <1>4 DEF Headed
  <2>4. PICK z : Followed(u, z, n, m) /\ v = IF grows THEN z ELSE shrink_worm(z, n)
    <3>1. u.mon[m].wormno \in Slots /\ u.wsegs[u.mon[m].wormno] # <<>>
      BY <1>6, <2>1, <2>3
    <3> QED BY <1>1, <1>6, <2>2, <3>1, FollowParts
  <2> HIDE DEF s, n, r
  <2>5. r \in Seq(Square \cup {0}) /\ Len(r) = Len(s) + 1 /\ r # <<>> /\ Last(r) = p /\ ToSet(r) = ToSet(s) \cup {p} /\ IsInjective(r)
    <3>1. p \in Square \cup {0} /\ p \notin ToSet(s)
      BY <1>3, <2>1
    <3> QED BY <2>1, <3>1, OneMore DEF r
  <2>6. z \in Worlds /\ z.mon = u.mon /\ SameChains(w, z) /\ SameHero(w, z) /\ z.wsegs = [w.wsegs EXCEPT ![n] = r]
    BY <1>4, <1>6, <2>3, <2>4 DEF Followed, Sets, Headed, SameChains, SameHero, r, s
  <2>7. \A q \in Square \cup {0} : z.grid[q] = IF q \in ToSet(r) THEN m ELSE w.grid[q]
    <3>1. z.grid = [u.grid EXCEPT ![x] = m]
      BY <2>1, <2>3, <2>4 DEF Followed, Sets, s
    <3>2. u.grid \in [Square \cup {0} -> Mon \cup {None}]
      BY <1>6, WorldParts
    <3>3. \A q \in Square \cup {0} : z.grid[q] = IF q = x THEN m ELSE u.grid[q]
      BY <1>2, <3>1, <3>2
    <3>4. \A q \in Square \cup {0} : u.grid[q] = IF q = p THEN m ELSE IF q = x THEN None ELSE w.grid[q]
      BY <1>4 DEF Headed
    <3> HIDE DEF x
    <3>5. \A q \in Square \cup {0} : z.grid[q] = IF q = p \/ q = x THEN m ELSE w.grid[q]
      BY <3>3, <3>4
    <3> QED BY <1>2, <2>1, <2>5, <3>5
  <2>8. w.wsegs \in [Slots -> Seq(Square \cup {0})]
    BY <1>1, WorldParts
  <2>9. CASE grows
    <3>1. v = z
      BY <2>4, <2>9
    <3>2. r \in Seq(Square)
      <4>1. ToSet(r) \subseteq Square
        BY <2>1, <2>5
      <4> QED BY <2>5, <4>1, ListOf
    <3>3. Len(r) <= MaxTail + 1
      BY <2>1, <2>2, <2>5, <2>9
    <3>4. Retailed(w, v, m, r)
      <4>1. Shifts(w, v, m) /\ v.mon[m].x = p
        BY <1>4, <2>6, <3>1 DEF Headed, Shifts
      <4>2. \A q \in Square \cup {0} : v.grid[q] = IF q \in ToSet(r) THEN m ELSE IF q \in Body(w, m) THEN None ELSE w.grid[q]
        BY <2>1, <2>5, <2>7, <3>1
      <4> QED BY <2>5, <2>6, <3>1, <4>1, <4>2 DEF Retailed, n
    <3>5. \A q \in ToSet(r) \ Body(w, m) : w.grid[q] = None
      BY <2>1, <2>5
    <3>6. Redone(w, v, m) /\ Body(v, m) = ToSet(r)
      BY <1>8, <2>5, <3>2, <3>3, <3>4, <3>5, Retail DEF n
    <3>7. Good(v, S) /\ Living(v) = Living(w) /\ \A q \in Square \cup {0} : w.grid[q] = None => v.grid[q] = None \/ q \in Body(v, m)
      BY <3>6, Redo
    <3>8. \A q \in Square \cup {0} : w.grid[q] = None /\ q # p => v.grid[q] = None
      BY <1>1, <1>2, <2>1, <2>5, <3>6, <3>7
    <3> QED BY <2>5, <2>6, <3>1, <3>4, <3>7, <3>8 DEF MovedTo, Retailed
  <2>10. CASE ~grows
    <3> DEFINE t == Tail(r)
               h == Head(r)
    <3>1. v = shrink_worm(z, n) /\ z.wsegs[n] = r
      BY <2>1, <2>4, <2>6, <2>8, <2>10
    <3>2. Len(r) # 1
      <4>1. Len(s) # 0
        BY <2>1, InList
      <4> QED BY <2>1, <2>5, <4>1
    <3>3. Sets(z, v, z.mon, Paint(z.grid, {h} \ {0}, None), [z.wsegs EXCEPT ![n] = t])
      <4>1. z.wsegs[n] # <<>> /\ Len(z.wsegs[n]) # 1
        BY <2>5, <3>1, <3>2
      <4> QED BY <2>1, <2>6, <3>1, <4>1, ShrinkParts
    <3>4. /\ t \in Seq(Square \cup {0}) /\ Len(t) = Len(r) - 1 /\ ToSet(r) = ToSet(t) \cup {h} /\ IsInjective(t) /\ h \notin ToSet(t)
          /\ t # <<>> /\ Last(t) = p
      BY <2>5, <3>2, HeadAndTail
    <3> HIDE DEF t, h
    <3>5. p \in ToSet(t)
      BY <3>4, FrontAndLast
    <3>6. h \in ToSet(s) /\ h # p /\ h # 0 /\ ToSet(t) \subseteq Square /\ ToSet(t) \subseteq ToSet(s) \cup {p}
      BY <2>1, <2>5, <3>4, <3>5, LevelIsFinite
    <3>7. t \in Seq(Square)
      BY <3>4, <3>6, ListOf
    <3>8. Len(t) <= MaxTail + 1
      BY <2>1, <2>5, <3>4
    <3>9. Retailed(w, v, m, t)
      <4>1. Shifts(w, v, m) /\ v.mon[m].x = p
        BY <1>4, <2>6, <3>3 DEF Headed, Shifts, Sets
      <4>2. \A q \in Square \cup {0} : v.grid[q] = IF q = h THEN None ELSE z.grid[q]
        BY <3>3, <3>6 DEF Sets, Paint
      <4>3. \A q \in Square \cup {0} : v.grid[q] = IF q \in ToSet(t) THEN m ELSE IF q \in Body(w, m) THEN None ELSE w.grid[q]
        BY <2>1, <2>5, <2>7, <3>4, <3>6, <4>2
      <4>4. v.wsegs = [w.wsegs EXCEPT ![n] = t]
        BY <2>6, <2>8, <3>3 DEF Sets
      <4>5. v \in Worlds /\ SameChains(w, v)
        BY <2>6, <3>3 DEF Sets, SameChains
      <4> QED BY <3>4, <4>1, <4>3, <4>4, <4>5 DEF Retailed, n
    <3>10. \A q \in ToSet(t) \ Body(w, m) : w.grid[q] = None
      BY <2>1, <3>6
    <3>11. Redone(w, v, m) /\ Body(v, m) = ToSet(t)
      BY <1>8, <3>4, <3>7, <3>8, <3>9, <3>10, Retail DEF n
    <3>12. Good(v, S) /\ Living(v) = Living(w) /\ \A q \in Square \cup {0} : w.grid[q] = None => v.grid[q] = None \/ q \in Body(v, m)
      BY <3>11, Redo
    <3>13. \A q \in Square \cup {0} : w.grid[q] = None /\ q # p => v.grid[q] = None
      BY <1>1, <1>2, <2>1, <3>6, <3>11, <3>12
    <3> QED BY <2>6, <3>3, <3>4, <3>9, <3>12, <3>13 DEF MovedTo, Retailed, Sets, SameHero
  <2> QED BY <2>9, <2>10
<1> QED BY <1>7, <1>8

-----------------------------------------------------------------------------
(* A worm is cut.                                                          *)

(* Where SelectInSeq finds what there is.                                   *)
LEMMA FoundAt ==
  ASSUME NEW T, NEW s \in Seq(T), NEW p \in ToSet(s)
  PROVE  LET i == SelectInSeq(s, LAMBDA q : q = p) IN i \in 1 .. Len(s) /\ s[i] = p
<1> DEFINE I == {i \in 1 .. Len(s) : s[i] = p}
<1>1. I # {}
  BY InList
<1>2. SelectInSeq(s, LAMBDA q : q = p) = IF I # {} THEN Min(I) ELSE 0
  BY DEF SelectInSeq, I
<1>3. I \in SUBSET Nat
  OBVIOUS
<1> HIDE DEF I
<1>4. \E i \in I : \A j \in I : i <= j
  BY <1>1, <1>3, LeastNatural
<1>5. SelectInSeq(s, LAMBDA q : q = p) = CHOOSE i \in I : \A j \in I : i <= j
  BY <1>1, <1>2 DEF Min
<1>6. SelectInSeq(s, LAMBDA q : q = p) \in I
  BY <1>4, <1>5
<1> QED BY <1>6 DEF I

(* What is behind the cut is thrown away.                                  *)
Severed(w, z, m, a, b) ==
  /\ a \in Seq(Square) /\ b \in Seq(Square) /\ a # <<>> /\ IsInjective(a) /\ Len(a) <= MaxTail + 1 /\ b # <<>>
  /\ ToSet(a) \subseteq Body(w, m)
  /\ Sets(w, z, w.mon, Paint(w.grid, ToSet(a), None), [w.wsegs EXCEPT ![w.mon[m].wormno] = b])

(* The two parts of a tail cut at p, and the worm with the part in front.  *)
CutAt(w, m, p)  == SelectInSeq(w.wsegs[w.mon[m].wormno], LAMBDA q : q = p)
Behind(w, m, p) == SubSeq(w.wsegs[w.mon[m].wormno], 1, CutAt(w, m, p))
Before(w, m, p) == SubSeq(w.wsegs[w.mon[m].wormno], CutAt(w, m, p) + 1, Len(w.wsegs[w.mon[m].wormno]))
Shorter(w, m, p) == [w EXCEPT !.wsegs[w.mon[m].wormno] = Before(w, m, p)]

Halved(w, m, p, S, a, b, u, z) ==
  /\ w.mon[m].wormno \in Slots /\ Severed(w, z, m, a, b) /\ Last(a) = p
  /\ Sets(w, u, w.mon, w.grid, [w.wsegs EXCEPT ![w.mon[m].wormno] = b])
  /\ Good(z, S) /\ Living(z) = Living(w) /\ \A q \in Square \cup {0} : w.grid[q] = None => z.grid[q] = None

(* cutworm with nothing that lives on.                                      *)
LEMMA CutParts ==
  ASSUME NEW w, NEW S, Good(w, S), NEW m \in Living(w) \ S, w.mon[m].wormno # 0, NEW p \in Body(w, m), p # w.mon[m].x
  PROVE  Halved(w, m, p, S, Behind(w, m, p), Before(w, m, p), Shorter(w, m, p), toss_wsegs(Shorter(w, m, p), Behind(w, m, p)))
<1> DEFINE n == w.mon[m].wormno
           s == w.wsegs[n]
           i == SelectInSeq(s, LAMBDA q : q = p)
           a == SubSeq(s, 1, i)
           b == SubSeq(s, i + 1, Len(s))
           u == [w EXCEPT !.wsegs[n] = b]
           z == toss_wsegs(u, a)
           y == [w.wsegs EXCEPT ![n] = b]
<1>1. /\ w \in Worlds /\ m \in Mon /\ Tailed(w, m) /\ Lies(w, m) /\ Shows(w, S, m) /\ m # None
  BY GoodParts, LevelIsFinite
<1>2. n \in Slots /\ s \in Seq(Square \cup {0}) /\ s # <<>> /\ Body(w, m) = ToSet(s) /\ Len(s) <= MaxTail + 1 /\ Last(s) = w.mon[m].x
      /\ IsInjective(s) /\ ToSet(s) \subseteq Square /\ MaxTail \in Nat /\ Len(s) \in Nat
  BY <1>1, TailParts, LevelIsFinite DEF Tailed, Lies, segs
<1> HIDE DEF n, s
<1>3. i \in 1 .. Len(s) /\ s[i] = p
  <2>1. p \in ToSet(s)
    BY <1>2
  <2> QED BY <1>2, <2>1, FoundAt
<1> HIDE DEF i
<1>4. i < Len(s)
  <2>1. Last(s) = s[Len(s)]
    BY DEF Last
  <2>2. i # Len(s)
    BY <1>2, <1>3, <2>1
  <2> QED BY <1>2, <1>3, <2>2
<1>5. /\ a \in Seq(Square \cup {0}) /\ b \in Seq(Square \cup {0}) /\ Len(a) = i /\ Len(b) = Len(s) - i
      /\ a # <<>> /\ Last(a) = p /\ ToSet(s) = ToSet(a) \cup ToSet(b) /\ b # <<>> /\ Last(b) = Last(s)
      /\ IsInjective(a) /\ IsInjective(b) /\ ToSet(a) \cap ToSet(b) = {}
  <2> DEFINE c == SubSeq(s, 1, i)
             d == SubSeq(s, i + 1, Len(s))
  <2>1. /\ c \in Seq(Square \cup {0}) /\ d \in Seq(Square \cup {0}) /\ Len(c) = i /\ Len(d) = Len(s) - i
        /\ c # <<>> /\ Last(c) = s[i]
        /\ ToSet(s) = ToSet(c) \cup ToSet(d)
        /\ i < Len(s) => d # <<>> /\ Last(d) = Last(s)
        /\ IsInjective(s) => IsInjective(c) /\ IsInjective(d) /\ ToSet(c) \cap ToSet(d) = {}
    <3>1. s \in Seq(Square \cup {0}) /\ i \in 1 .. Len(s)
      BY <1>2, <1>3
    <3> QED BY ONLY <3>1, CutList DEF c, d
  <2> HIDE DEF c, d
  <2>2. /\ c \in Seq(Square \cup {0}) /\ d \in Seq(Square \cup {0}) /\ Len(c) = i /\ Len(d) = Len(s) - i
        /\ c # <<>> /\ Last(c) = p /\ ToSet(s) = ToSet(c) \cup ToSet(d) /\ d # <<>> /\ Last(d) = Last(s)
        /\ IsInjective(c) /\ IsInjective(d) /\ ToSet(c) \cap ToSet(d) = {}
    BY <1>2, <1>3, <1>4, <2>1
  <2> QED BY <2>2 DEF c, d
<1>6. u = [w EXCEPT !.wsegs = y]
  BY <1>1 DEF Worlds
<1> HIDE DEF a, b
<1>7. ToSet(a) \subseteq Square /\ ToSet(b) \subseteq Square /\ ToSet(a) \ {0} = ToSet(a)
  BY <1>2, <1>5, LevelIsFinite
<1>8. a \in Seq(Square) /\ b \in Seq(Square)
  BY <1>5, <1>7, ListOf
<1>9. Len(a) <= MaxTail + 1 /\ Len(b) <= MaxTail + 1
  BY <1>2, <1>3, <1>4, <1>5
<1>10. w.wsegs \in [Slots -> Seq(Square \cup {0})] /\ w.grid \in [Square \cup {0} -> Mon \cup {None}]
  BY <1>1, WorldParts
<1>11. y \in [Slots -> Seq(Square \cup {0})]
  BY <1>5, <1>10
<1> HIDE DEF y, u
<1>12. Sets(w, u, w.mon, w.grid, y)
  BY <1>1, <1>6, <1>11 DEF Sets, SameChains, SameHero, Worlds
<1>13. Sets(u, z, u.mon, Paint(u.grid, ToSet(a), None), u.wsegs)
  <2>1. u \in Worlds
    BY <1>12 DEF Sets
  <2> QED BY <1>5, <1>7, <2>1, TossParts
<1> HIDE DEF z
<1>14. Sets(w, z, w.mon, Paint(w.grid, ToSet(a), None), y)
  BY <1>12, <1>13 DEF Sets, SameChains, SameHero
<1>15. Severed(w, z, m, a, b)
  BY <1>2, <1>5, <1>8, <1>9, <1>14 DEF Severed, y, n
<1>16. Retailed(w, z, m, b)
  <2>1. \A q \in Square \cup {0} : w.grid[q] = m <=> q \in ToSet(s)
    BY <1>1, <1>2 DEF Shows
  <2>2. \A q \in Square \cup {0} : z.grid[q] = IF q \in ToSet(a) THEN None ELSE w.grid[q]
    BY <1>14 DEF Sets, Paint
  <2>3. \A q \in Square \cup {0} : z.grid[q] = IF q \in ToSet(b) THEN m ELSE IF q \in Body(w, m) THEN None ELSE w.grid[q]
    BY <1>2, <1>5, <2>1, <2>2
  <2>4. Shifts(w, z, m)
    BY <1>14 DEF Sets, Shifts
  <2> QED BY <1>2, <1>5, <1>14, <2>3, <2>4 DEF Retailed, Sets, n, y
<1>17. Redone(w, z, m) /\ Body(z, m) = ToSet(b)
  <2>1. \A q \in ToSet(b) \ Body(w, m) : w.grid[q] = None
    BY <1>2, <1>5
  <2> QED BY <1>5, <1>8, <1>9, <1>16, <2>1, Retail
<1>18. Good(z, S) /\ Living(z) = Living(w) /\ \A q \in Square \cup {0} : w.grid[q] = None => z.grid[q] = None \/ q \in Body(z, m)
  BY <1>17, Redo
<1>19. \A q \in Square \cup {0} : w.grid[q] = None => z.grid[q] = None
  BY <1>1, <1>2, <1>5, <1>17, <1>18 DEF Shows
<1>20. Halved(w, m, p, S, a, b, u, z)
  BY <1>2, <1>5, <1>12, <1>15, <1>18, <1>19 DEF Halved, y, n
<1> QED BY <1>20 DEF z, u, a, b, i, s, n, Shorter, Behind, Before, CutAt

(* Or it lives on.                                                         *)
Half(u, m, by, p, a) ==
  place_wsegs([clone_mon(remove_monster(u, p), m, by, p) EXCEPT !.mon[by].wormno = get_wormno(u), !.wsegs[get_wormno(u)] = a], by)

(* The hind part, with a slot and a struct of its own, is a worm.           *)
LEMMA LivesOn ==
  ASSUME NEW w \in Worlds, NEW m \in Mon, w.mon[m].alive, w.mon[m].shape = "worm", w.mon[m].wormno \in Slots,
         NEW a, NEW b, NEW z, Severed(w, z, m, a, b), NEW S, Good(z, S), Body(w, m) \subseteq Square,
         NEW u, Sets(w, u, w.mon, w.grid, [w.wsegs EXCEPT ![w.mon[m].wormno] = b]),
         get_wormno(u) # 0, NEW by \in Free(z), by # w.usteed, NEW p \in Square, Last(a) = p
  PROVE  LET v == Half(u, m, by, p, a) IN
         Comes(z, v, by) /\ Fits(z, v, by) /\ Body(v, by) = ToSet(a)
<1> DEFINE n == w.mon[m].wormno
           k == get_wormno(u)
           y == [w.wsegs EXCEPT ![n] = b]
           r == remove_monster(u, p)
           c == clone_mon(r, m, by, p)
           d == [c EXCEPT !.mon[by].wormno = k, !.wsegs[k] = a]
           v == place_wsegs(d, by)
           s == [w.mon[m] EXCEPT !.timer = FALSE, !.x = p]
<1>1. /\ a \in Seq(Square) /\ b \in Seq(Square) /\ a # <<>> /\ IsInjective(a) /\ Len(a) <= MaxTail + 1 /\ b # <<>>
      /\ ToSet(a) \subseteq Body(w, m)
      /\ z \in Worlds /\ z.mon = w.mon /\ z.wsegs = y /\ SameChains(w, z) /\ SameHero(w, z)
      /\ \A q \in Square \cup {0} : z.grid[q] = IF q \in ToSet(a) THEN None ELSE w.grid[q]
  BY DEF Severed, Sets, Paint
<1>2. u \in Worlds /\ u.mon = w.mon /\ u.grid = w.grid /\ u.wsegs = y /\ SameChains(w, u) /\ SameHero(w, u)
  BY DEF Sets
<1>3. w.wsegs \in [Slots -> Seq(Square \cup {0})] /\ y \in [Slots -> Seq(Square \cup {0})] /\ by \in Mon /\ w.mon \in [Mon -> Struct]
      /\ w.fmon \in Seq(Mon)
  BY <1>1, WorldParts DEF Free
<1>4. k \in Slots /\ y[k] = <<>> /\ k \in 0 .. (MaxWorms + MaxTail)
  BY <1>2, WormNo, SlotNumber
<1>5. a \in Seq(Square \cup {0})
  BY <1>1, SeqMonotonic
<1> HIDE DEF k, n, y
<1>6. Sets(u, r, u.mon, Paint(u.grid, {p}, None), u.wsegs)
  BY <1>2, RemoveParts
<1>7. r \in Worlds /\ r.mon = w.mon /\ r.grid = Paint(w.grid, {p}, None) /\ r.wsegs = y /\ SameChains(w, r) /\ SameHero(w, r)
  <2> HIDE DEF r
  <2> QED BY <1>2, <1>6 DEF Sets, SameChains, SameHero
<1> HIDE DEF r
<1>8. s \in Struct /\ Lone(r, c, by, s, p)
  <2>1. r.mon[m].alive /\ by # r.usteed
    BY <1>7 DEF SameHero
  <2>2. [r.mon[m] EXCEPT !.timer = FALSE, !.x = p] \in Struct /\ Lone(r, clone_mon(r, m, by, p), by, [r.mon[m] EXCEPT !.timer = FALSE, !.x = p], p)
    BY <1>3, <1>7, <2>1, CloneParts
  <2> QED BY <1>7, <2>2
<1>9. s.alive /\ s.x = p /\ s.shape = "worm"
  <2>1. w.mon[m] \in Struct
    BY <1>3
  <2> QED BY <2>1 DEF Struct
<1> HIDE DEF s, c
<1>10. /\ c \in Worlds /\ c.mon = [w.mon EXCEPT ![by] = s] /\ c.fmon = <<by>> \o w.fmon /\ c.wsegs = y
       /\ c.migrating = w.migrating /\ c.away = w.away /\ c.purge = w.purge /\ SameHero(w, c)
       /\ \A q \in Square \cup {0} : c.grid[q] = IF q = p THEN by ELSE w.grid[q]
  BY <1>7, <1>8 DEF Lone, SameChains, SameHero, Paint
<1> DEFINE f == [c.mon EXCEPT ![by].wormno = k]
           e == [y EXCEPT ![k] = a]
<1>11. d = [c EXCEPT !.mon = f, !.wsegs = e]
  BY <1>10 DEF Worlds
<1>12. c.mon \in [Mon -> Struct] /\ c.mon[by] = s /\ \A j \in Mon \ {by} : c.mon[j] = w.mon[j]
  BY <1>3, <1>8, <1>10
<1>13. /\ f \in [Mon -> Struct] /\ (\A j \in Mon \ {by} : f[j] = c.mon[j])
       /\ f[by].x = c.mon[by].x /\ f[by].alive = c.mon[by].alive /\ f[by].shape = c.mon[by].shape /\ f[by].wormno = k
  <2>1. by \in Mon /\ c.mon \in [Mon -> Struct] /\ k \in 0 .. (MaxWorms + MaxTail)
    BY <1>3, <1>4, <1>12
  <2> QED BY ONLY <2>1, NumberType DEF f
<1>14. e \in [Slots -> Seq(Square \cup {0})] /\ e[k] = a /\ \A j \in Slots : j # k => e[j] = y[j]
  BY <1>3, <1>4, <1>5
<1> HIDE DEF f, e, d
<1>15. /\ d \in Worlds /\ d.mon = f /\ d.fmon = c.fmon /\ d.wsegs = e /\ d.grid = c.grid
       /\ d.migrating = w.migrating /\ d.away = w.away /\ d.purge = w.purge /\ SameHero(w, d)
  BY <1>10, <1>11, <1>13, <1>14 DEF Worlds, SameHero
<1>16. d.mon[by].wormno = k /\ segs(d, by) = a
  BY <1>13, <1>14, <1>15 DEF segs
<1>17. Sets(d, v, d.mon, Paint(d.grid, ToSet(Front(a)), by), d.wsegs)
  <2>1. d.mon[by].wormno \in Slots /\ segs(d, by) # <<>>
    BY <1>1, <1>4, <1>16
  <2>2. Sets(d, place_wsegs(d, by), d.mon, Paint(d.grid, ToSet(Front(segs(d, by))), by), d.wsegs)
    BY <1>3, <1>15, <2>1, SegmentsParts
  <2> QED BY <1>16, <2>2
<1> HIDE DEF v
<1>18. /\ v \in Worlds /\ v.mon = f /\ v.fmon = <<by>> \o w.fmon /\ v.wsegs = e
       /\ v.migrating = w.migrating /\ v.away = w.away /\ v.purge = w.purge /\ SameHero(w, v)
  BY <1>10, <1>15, <1>17 DEF Sets, SameChains, SameHero
<1>19. ToSet(a) = ToSet(Front(a)) \cup {p} /\ ToSet(a) \subseteq Square
  BY <1>1, FrontAndLast
<1>20. \A q \in Square \cup {0} : v.grid[q] = IF q \in ToSet(a) THEN by ELSE w.grid[q]
  <2>1. \A q \in Square \cup {0} : v.grid[q] = IF q \in ToSet(Front(a)) THEN by ELSE c.grid[q]
    BY <1>15, <1>17 DEF Sets, Paint
  <2> QED BY <1>10, <1>19, <2>1
<1>21. v.mon[by].x = p /\ v.mon[by].alive /\ v.mon[by].shape = "worm" /\ v.mon[by].wormno = k /\ segs(v, by) = a
  BY <1>9, <1>12, <1>13, <1>14, <1>18 DEF segs
<1>22. Body(v, by) = ToSet(a)
  <2>1. k # 0
    BY <1>4, SlotNumber
  <2> QED BY <1>19, <1>21, <2>1 DEF Body
<1>23. Tailed(v, by) /\ Lies(v, by)
  BY <1>1, <1>4, <1>19, <1>21 DEF Tailed, Lies
<1>24. Fits(z, v, by)
  <2>1. \A q \in Square \cup {0} : v.grid[q] = IF q \in Body(v, by) THEN by ELSE z.grid[q]
    BY <1>1, <1>20, <1>22
  <2>2. \A q \in Square \cup {0} : q \in Body(v, by) => z.grid[q] = None
    BY <1>1, <1>22
  <2>3. \A j \in Slots : IF j = v.mon[by].wormno THEN z.wsegs[j] = <<>> ELSE v.wsegs[j] = z.wsegs[j]
    BY <1>1, <1>4, <1>14, <1>18, <1>21
  <2> QED BY <1>21, <1>23, <2>1, <2>2, <2>3 DEF Fits
<1>25. Comes(z, v, by)
  <2>1. \A j \in Mon \ {by} : v.mon[j] = z.mon[j]
    BY <1>1, <1>12, <1>13, <1>18
  <2> QED BY <1>1, <1>18, <2>1 DEF Comes, SameChains, SameHero
<1> QED BY <1>22, <1>24, <1>25 DEF v, d, c, r, k, Half

-----------------------------------------------------------------------------
(* The three outcomes of cutworm.                                           *)
LEMMA CutCases ==
  ASSUME NEW w, NEW m, NEW p, NEW v \in cutworm(w, m, p)
  PROVE  LET u == Shorter(w, m, p)
             a == Behind(w, m, p) IN
         \/ v = shrink_worm(w, w.mon[m].wormno) \/ v = toss_wsegs(u, a)
         \/ get_wormno(u) # 0 /\ \E by \in Free(w) : v = Half(u, m, by, p, a)
BY DEF cutworm, Shorter, Behind, Before, CutAt, Half

(* Whatever becomes of what is behind the cut.                             *)
LEMMA CutWorm ==
  ASSUME NEW w, Rest(w), NEW m \in Living(w), w.mon[m].wormno # 0, NEW p \in Square, w.grid[p] = m, p # w.mon[m].x,
         NEW v \in cutworm(w, m, p)
  PROVE  Rest(v)
<1> DEFINE S == Ridden(w)
           n == w.mon[m].wormno
           a == Behind(w, m, p)
           b == Before(w, m, p)
           u == Shorter(w, m, p)
           z == toss_wsegs(u, a)
<1>1. /\ Good(w, S) /\ w \in Worlds /\ w.grid[w.hero] = None /\ m \in Mon /\ m # w.usteed /\ m \notin S /\ Lies(w, m)
      /\ Tailed(w, m) /\ w.mon[m].alive /\ w.hero \in Square /\ Shows(w, S, m)
  <2>1. Good(w, S) /\ w \in Worlds /\ w.grid[w.hero] = None /\ m \in Mon /\ (w.usteed # None => w.mon[w.usteed].wormno = 0)
    BY RestParts
  <2>2. m # w.usteed
    BY <2>1, LevelIsFinite
  <2>3. m \notin S /\ Lies(w, m)
    BY <2>2, RestParts
  <2>4. Tailed(w, m) /\ w.mon[m].alive /\ Shows(w, S, m)
    BY <2>1, GoodParts
  <2>5. w.hero \in Square
    BY <2>1, WorldParts
  <2> QED BY <2>1, <2>2, <2>3, <2>4, <2>5
<1>2. p \in Body(w, m) /\ Body(w, m) \subseteq Square /\ n \in Slots /\ w.mon[m].shape = "worm"
  BY <1>1, BodyOnMap DEF Shows, Tailed
<1>3. v = shrink_worm(w, n) \/ v = z \/ (get_wormno(u) # 0 /\ \E by \in Free(w) : v = Half(u, m, by, p, a))
  BY CutCases
<1>4. CASE v = shrink_worm(w, n)
  <2>1. Good(v, S) /\ SameHero(w, v) /\ Shifts(w, v, m) /\ v.grid[w.hero] = None
    BY <1>1, <1>4, WormNoMove
  <2> QED BY <1>1, <2>1, RestMoved, RestParts DEF Shifts
<1>5. Halved(w, m, p, S, a, b, u, z)
  BY <1>1, <1>2, CutParts
<1> HIDE DEF z, a, b, u
<1>6. z.mon = w.mon /\ SameHero(w, z) /\ z.grid[w.hero] = None /\ Free(z) = Free(w)
  BY <1>1, <1>5 DEF Halved, Severed, Sets, SameChains, Free, Chained
<1>7. CASE v = z
  BY <1>1, <1>5, <1>6, <1>7, RestMoved, RestParts DEF S, Halved
<1>8. ASSUME get_wormno(u) # 0, NEW by \in Free(w), v = Half(u, m, by, p, a)
      PROVE  Rest(v)
  <2>1. by \in Free(z) /\ by # w.usteed /\ by \in Mon
    BY <1>6, RestParts
  <2>2. Comes(z, v, by) /\ Fits(z, v, by) /\ Body(v, by) = ToSet(a)
    <3>1. /\ w \in Worlds /\ m \in Mon /\ w.mon[m].alive /\ w.mon[m].shape = "worm" /\ w.mon[m].wormno \in Slots
          /\ Severed(w, z, m, a, b) /\ Good(z, S) /\ Body(w, m) \subseteq Square
          /\ Sets(w, u, w.mon, w.grid, [w.wsegs EXCEPT ![w.mon[m].wormno] = b])
          /\ get_wormno(u) # 0 /\ by \in Free(z) /\ by # w.usteed /\ p \in Square /\ Last(a) = p
      BY <1>1, <1>2, <1>5, <1>8, <2>1 DEF Halved
    <3>2. Comes(z, Half(u, m, by, p, a), by) /\ Fits(z, Half(u, m, by, p, a), by) /\ Body(Half(u, m, by, p, a), by) = ToSet(a)
      BY ONLY <3>1, LivesOn
    <3> QED BY <1>8, <3>2
  <2>3. Good(v, S)
    BY <1>5, <2>1, <2>2, Enter DEF Halved
  <2>4. SameHero(w, v) /\ \A j \in Mon \ {by} : v.mon[j] = w.mon[j]
    BY <1>6, <2>2 DEF Comes, SameHero
  <2>5. v.grid[w.hero] = None
    <3>1. w.hero \notin Body(v, by)
      <4>1. ToSet(a) \subseteq Body(w, m)
        BY <1>5 DEF Halved, Severed
      <4>2. \A q \in Body(w, m) : w.grid[q] = m
        BY <1>1, <1>2 DEF Shows
      <4>3. m # None
        BY <1>1, LevelIsFinite
      <4> QED BY <1>1, <2>2, <4>1, <4>2, <4>3
    <3> QED BY <1>1, <1>6, <2>2, <3>1 DEF Fits
  <2> QED BY <1>1, <2>1, <2>3, <2>4, <2>5, RestMoved, RestParts DEF S
<1> QED BY <1>3, <1>4, <1>7, <1>8

-----------------------------------------------------------------------------
(* The dead are freed.                                                     *)

(* The living are the same, and where they are.                            *)
Alike(w, v) ==
  /\ v \in Worlds /\ Apart(v) /\ v.migrating = w.migrating /\ v.away = w.away /\ Living(v) = Living(w)
  /\ \A k \in Living(w) \cup Elsewhere(w) : v.mon[k] = w.mon[k]
  /\ v.grid = w.grid /\ v.wsegs = w.wsegs

(* Then all is as well as it was.                                           *)
LEMMA LivesAlike ==
  ASSUME NEW w, NEW S, Good(w, S), NEW v, Alike(w, v), PurgeFits(v)
  PROVE  Good(v, S)
<1>1. w \in Worlds /\ S \subseteq Living(w) /\ Away(w) /\ (\A m \in ToSet(w.migrating) : Travels(w, m)) /\ Level(w, S) /\ Owned(w)
      /\ v \in Worlds
  BY GoodParts DEF Good, Alike
<1>2. \A k \in Living(w) : /\ v.mon[k] = w.mon[k] /\ Body(v, k) = Body(w, k) /\ (Tailed(v, k) <=> Tailed(w, k)) /\ (Lies(v, k) <=> Lies(w, k))
  BY DEF Alike, Body, Tailed, Lies, segs
<1>3. \A k \in Mon, n \in Slots : Owns(v, k, n) <=> Owns(w, k, n)
  BY <1>2 DEF Owns, Alike
<1>4. Owned(v)
  <2> SUFFICES ASSUME NEW n \in Slots
               PROVE  /\ v.wsegs[n] # <<>> => \E k \in Mon : Owns(v, k, n)
                      /\ \A j, k \in Mon : Owns(v, j, n) /\ Owns(v, k, n) => j = k
    BY DEF Owned
  <2> QED BY <1>1, <1>3 DEF Owned, Alike
<1>5. Level(v, S)
  BY <1>1, <1>2, <1>4 DEF Level, Alike
<1>6. Shown(v, S)
  <2> SUFFICES ASSUME NEW k \in Mon, NEW q \in Square \cup {0}
               PROVE  v.grid[q] = k <=> (k \in Living(v) \ S /\ q \in Body(v, k))
    BY DEF Shown, Shows
  <2>1. w.grid[q] = k <=> (k \in Living(w) \ S /\ q \in Body(w, k))
    BY GoodParts DEF Shows
  <2> QED BY <1>2, <2>1 DEF Alike
<1>7. \A k \in Elsewhere(w) : v.mon[k] = w.mon[k]
  BY DEF Alike
<1>8. Away(v)
  BY <1>1, <1>7, StaysAway DEF Alike, Elsewhere
<1>9. \A m \in ToSet(v.migrating) : Travels(v, m)
  BY <1>1, <1>7 DEF Travels, Alike, Elsewhere
<1> QED BY <1>1, <1>5, <1>6, <1>8, <1>9 DEF Good, Alike

(* None of the dead is left.                                               *)
Saved(w, v, S) ==
  /\ Good(v, S) /\ Living(v) = Living(w) /\ ToSet(v.fmon) = Living(w) /\ v.purge = 0
  /\ v.migrating = w.migrating /\ v.away = w.away /\ SameHero(w, v) /\ v.grid = w.grid /\ v.wsegs = w.wsegs
  /\ \A k \in Mon : k \notin Dead(w) => v.mon[k] = w.mon[k]

(* dmonsfree.                                                               *)
LEMMA DmonsFree ==
  ASSUME NEW w, NEW S, Good(w, S)
  PROVE  Saved(w, dmonsfree(w), S)
<1> DEFINE dead == ToSet(w.fmon) \ Living(w)
           g == [m \in dead |-> NoMon]
           f == over(g, w.mon)
           c == unlinked(w.fmon, dead)
           v == [w EXCEPT !.mon = f, !.fmon = c, !.purge = 0]
<1>1. w \in Worlds /\ Apart(w) /\ dead = Dead(w) /\ w.mon \in [Mon -> Struct] /\ ToSet(w.fmon) \subseteq Mon /\ dead \subseteq Mon
      /\ Living(w) \subseteq ToSet(w.fmon) /\ Elsewhere(w) \cap ToSet(w.fmon) = {} /\ Elsewhere(w) \subseteq Mon
  BY GoodParts, WorldParts DEF Living, Dead, Apart
<1>2. dmonsfree(w) = v
  BY DEF dmonsfree
<1> HIDE DEF dead
<1>3. f \in [Mon -> Struct] /\ (\A k \in Mon : f[k] = IF k \in dead THEN NoMon ELSE w.mon[k])
  <2>1. IsFiniteSet(DOMAIN g) /\ \A p \in DOMAIN g : g[p] \in Struct
    BY <1>1, FS_Subset, LevelIsFinite, NoMonIsOne
  <2>2. DOMAIN g = dead /\ \A p \in dead : g[p] = NoMon
    OBVIOUS
  <2> HIDE DEF g
  <2>3. f = Written(w.mon, g, Mon, DOMAIN g)
    BY <1>1, <2>1, Overwritten
  <2> QED BY <1>1, <2>2, <2>3, NoMonIsOne DEF Written
<1>4. c \in Seq(Mon) /\ ToSet(c) = ToSet(w.fmon) \ dead /\ IsInjective(c)
  BY <1>1, Unlink
<1> HIDE DEF f, c
<1>5. v \in Worlds /\ v.mon = f /\ v.fmon = c /\ v.purge = 0 /\ v.migrating = w.migrating /\ v.away = w.away /\ SameHero(w, v)
      /\ v.grid = w.grid /\ v.wsegs = w.wsegs
  BY <1>1, <1>3, <1>4 DEF Worlds, SameHero
<1> HIDE DEF v
<1>6. ToSet(v.fmon) = Living(w)
  BY <1>1, <1>4, <1>5 DEF dead
<1>7. Living(v) = Living(w)
  <2>1. \A k \in Living(w) : k \in Mon /\ k \notin dead /\ w.mon[k].alive
    BY <1>1 DEF dead, Living
  <2> QED BY <1>3, <1>5, <1>6, <2>1 DEF Living
<1>8. PurgeFits(v)
  <2>1. Dead(v) = {}
    BY <1>6, <1>7 DEF Dead, Living
  <2> QED BY <1>5, <2>1, FS_EmptySet DEF PurgeFits
<1>9. Alike(w, v)
  <2>1. Apart(v)
    BY <1>1, <1>4, <1>5 DEF Apart, Elsewhere
  <2>2. \A k \in Living(w) \cup Elsewhere(w) : k \in Mon /\ k \notin dead
    BY <1>1 DEF dead
  <2> QED BY <1>3, <1>5, <1>7, <2>1, <2>2 DEF Alike
<1>10. Good(v, S)
  BY <1>8, <1>9, LivesAlike
<1> QED BY <1>1, <1>2, <1>3, <1>5, <1>6, <1>7, <1>10 DEF Saved

(* savelev frees them when there are any.                                  *)
LEMMA SaveLev ==
  ASSUME NEW w, NEW S, Good(w, S)
  PROVE  Saved(w, savelev(w), S)
<1>1. CASE w.purge = 0
  <2>1. IsFiniteSet(Dead(w))
    <3>1. Dead(w) \subseteq Mon
      BY GoodParts, WorldParts DEF Dead
    <3> QED BY <3>1, FS_Subset, LevelIsFinite
  <2>2. Dead(w) = {}
    BY <1>1, <2>1, GoodParts, FS_EmptySet DEF PurgeFits
  <2>3. ToSet(w.fmon) = Living(w)
    BY <2>2 DEF Dead, Living
  <2>4. savelev(w) = w
    BY <1>1 DEF savelev
  <2> QED BY <1>1, <2>3, <2>4 DEF Saved, SameHero
<1>2. CASE w.purge # 0
  BY <1>2, DmonsFree DEF savelev
<1> QED BY <1>1, <1>2

(* The dead are freed, and all is well.                                     *)
LEMMA RestFreed ==
  ASSUME NEW w, Rest(w)
  PROVE  Rest(dmonsfree(w))
<1>1. Saved(w, dmonsfree(w), Ridden(w))
  BY RestParts, DmonsFree
<1>2. w.usteed # None => w.usteed \in Living(w) /\ w.usteed \in Mon /\ w.usteed \notin Dead(w)
  BY RestParts DEF Living, Dead
<1> QED BY <1>1, <1>2, RestMoved, RestParts DEF Saved

-----------------------------------------------------------------------------
(* Monsters leave the level.                                               *)

(* Those that leave travel, and the others are where they were.            *)
Left(w, v, gone) ==
  /\ Departed(w, v, gone) /\ SameHero(w, v)
  /\ \A k \in gone : Travels(v, k) /\ v.mon[k].shape = w.mon[k].shape /\ (w.mon[k].wormno = 0 => v.mon[k].wormno = 0)

(* One that has left.                                                      *)
Bare(w, m, n) == [w.mon[m] EXCEPT !.x = 0, !.wormno = n]

(* One that has left is a struct.                                           *)
LEMMA BareParts ==
  ASSUME NEW w \in Worlds, NEW m \in Mon, NEW n \in 0 .. MaxTail, w.mon[m].alive
  PROVE  LET s == Bare(w, m, n) IN
         s \in Struct /\ s.alive /\ s.x = 0 /\ s.wormno = n /\ s.shape = w.mon[m].shape
<1>1. w.mon[m] \in Struct /\ n \in 0 .. (MaxWorms + MaxTail)
  BY WorldParts, LevelIsFinite
<1> QED BY <1>1 DEF Struct, Bare

(* over, when the same is said of all.                                     *)
LEMMA AllSame ==
  ASSUME NEW D, NEW V, NEW f \in [D -> V], NEW e, IsFiniteSet(DOMAIN e), NEW x \in V, \A p \in DOMAIN e : e[p] = x
  PROVE  LET y == over(e, f) IN
         y \in [D -> V] /\ \A n \in D : y[n] = IF n \in DOMAIN e THEN x ELSE f[n]
<1>1. \A p \in DOMAIN e : e[p] \in V
  OBVIOUS
<1>2. over(e, f) = Written(f, e, D, DOMAIN e)
  BY <1>1, Overwritten
<1> QED BY <1>2 DEF Written

(* leaves takes them off the map and the chain, and frees their slots.      *)
LEMMA Leaves ==
  ASSUME NEW w, NEW S, Good(w, S), NEW gone \in SUBSET Living(w),
         \A m \in gone \cap S : w.mon[m].wormno = 0 /\ w.grid[w.mon[m].x] = None
  PROVE  Left(w, leaves(w, gone), gone) /\ leaves(w, gone).fmon = unlinked(w.fmon, gone)
<1> DEFINE worms == {m \in gone : w.mon[m].wormno # 0}
           count(m) == IF m \in worms THEN count_wsegs(w, m) ELSE 0
           slots == {w.mon[m].wormno : m \in worms}
           Q == UNION {Body(w, m) : m \in gone}
           c == Clear(w, Q)
           g == [m \in gone |-> Bare(w, m, count(m))]
           e == [n \in slots |-> <<>>]
           f == over(g, w.mon)
           y == over(e, w.wsegs)
           h == unlinked(w.fmon, gone)
           v == [c EXCEPT !.mon = f, !.fmon = h, !.wsegs = y]
<1>1. /\ w \in Worlds /\ Apart(w) /\ w.mon \in [Mon -> Struct] /\ w.wsegs \in [Slots -> Seq(Square \cup {0})] /\ gone \subseteq Mon
      /\ \A m \in gone : Tailed(w, m) /\ w.mon[m].alive /\ (m \notin S => Lies(w, m)) /\ Shows(w, S, m)
  BY GoodParts, WorldParts
<1>2. \A m \in worms : /\ m \in Mon /\ w.mon[m].wormno \in Slots /\ segs(w, m) \in Seq(Square \cup {0}) /\ segs(w, m) # <<>>
                       /\ Len(segs(w, m)) <= MaxTail + 1 /\ Len(segs(w, m)) \in Nat /\ IsFiniteSet(ToSet(segs(w, m)))
  BY <1>1, TailParts DEF Tailed
<1>3. \A m \in gone : count(m) \in 0 .. MaxTail
  <2> SUFFICES ASSUME NEW m \in gone, m \in worms PROVE Len(segs(w, m)) - 1 \in 0 .. MaxTail
    BY LevelIsFinite DEF count_wsegs
  <2>1. Len(segs(w, m)) # 0
    BY <1>2, InList
  <2> QED BY <1>2, <2>1, LevelIsFinite
<1>4. IsFiniteSet(gone) /\ IsFiniteSet(slots) /\ IsFiniteSet(Q)
  <2>1. IsFiniteSet(gone)
    BY <1>1, FS_Subset, LevelIsFinite
  <2>2. slots \subseteq Slots /\ IsFiniteSet(Slots)
    <3>1. slots \subseteq Slots
      BY <1>2
    <3>2. IsFiniteSet(Slots)
      <4>1. 1 \in Int /\ MaxWorms \in Int
        BY LevelIsFinite
      <4> QED BY <4>1, FS_Interval DEF Slots
    <3> QED BY <3>1, <3>2
  <2>3. IsFiniteSet(Q)
    <3>1. Q \subseteq Square \cup {0}
      <4> SUFFICES ASSUME NEW m \in gone PROVE Body(w, m) \subseteq Square \cup {0}
        OBVIOUS
      <4>1. w.mon[m].x \in Square \cup {0}
        BY <1>1, StructParts
      <4>2. m \in worms => ToSet(segs(w, m)) \subseteq Square \cup {0}
        BY <1>2, InList
      <4> QED BY <4>1, <4>2 DEF Body
    <3>2. IsFiniteSet(Square \cup {0})
      BY FS_AddElement, LevelIsFinite
    <3> QED BY <3>1, <3>2, FS_Subset
  <2> QED BY <2>1, <2>2, <2>3, FS_Subset
<1>5. leaves(w, gone) = [c EXCEPT !.mon = over(g, @), !.fmon = h, !.wsegs = over(e, @)]
  BY DEF leaves, Bare
<1>6. \A q \in Square \cup {0} : q \in Q => w.grid[q] \in gone \cup {None}
  <2> SUFFICES ASSUME NEW m \in gone, NEW q \in Square \cup {0}, q \in Body(w, m) PROVE w.grid[q] \in gone \cup {None}
    OBVIOUS
  <2>1. CASE m \in S
    BY <2>1 DEF Body
  <2>2. CASE m \notin S
    BY <1>1, <2>2 DEF Shows
  <2> QED BY <2>1, <2>2
<1>7. \A q \in Square \cup {0} : w.grid[q] \in gone => q \in Q
  BY <1>1 DEF Shows
<1>8. \A m \in gone : w.mon[m].wormno \in slots <=> w.mon[m].wormno # 0
  BY <1>2, SlotNumber
<1>9. \A n \in Slots : n \in slots <=> \E m \in gone : w.mon[m].wormno = n
  BY SlotNumber
<1> HIDE DEF Q
<1>10. Sets(w, c, w.mon, Paint(w.grid, Q, None), w.wsegs)
  BY <1>1, <1>4, ClearParts
<1> HIDE DEF c
<1>11. f \in [Mon -> Struct] /\ \A k \in Mon : f[k] = IF k \in gone THEN Bare(w, k, count(k)) ELSE w.mon[k]
  <2>1. \A k \in gone : Bare(w, k, count(k)) \in Struct
    <3> HIDE DEF count
    <3> QED BY <1>1, <1>3, BareParts
  <2>2. DOMAIN g = gone /\ \A p \in gone : g[p] = Bare(w, p, count(p))
    OBVIOUS
  <2>3. IsFiniteSet(DOMAIN g) /\ \A p \in DOMAIN g : g[p] \in Struct
    BY <1>4, <2>1, <2>2
  <2> HIDE DEF g, count
  <2>4. f = Written(w.mon, g, Mon, DOMAIN g)
    <3>1. w.mon \in [Mon -> Struct]
      BY <1>1
    <3> QED BY ONLY <2>3, <3>1, Overwritten DEF f
  <2> QED BY <1>1, <2>1, <2>2, <2>4 DEF Written
<1>12. y \in [Slots -> Seq(Square \cup {0})] /\ \A n \in Slots : y[n] = IF n \in slots THEN <<>> ELSE w.wsegs[n]
  <2> HIDE DEF slots
  <2>1. w.wsegs \in [Slots -> Seq(Square \cup {0})]
    BY <1>1
  <2> DEFINE V == Seq(Square \cup {0})
             x == <<>>
             b == w.wsegs
  <2>2. b \in [Slots -> V] /\ x \in V
    BY <1>4, <2>1
  <2> HIDE DEF V, slots
  <2>3. DOMAIN e = slots /\ IsFiniteSet(DOMAIN e) /\ \A p \in DOMAIN e : e[p] = x
    BY <1>4
  <2> HIDE DEF e, x, b
  <2>4. over(e, b) \in [Slots -> V] /\ \A n \in Slots : over(e, b)[n] = IF n \in DOMAIN e THEN x ELSE b[n]
    BY ONLY <2>2, <2>3, AllSame
  <2> QED BY <2>3, <2>4 DEF V, b, x
<1>13. h \in Seq(Mon) /\ ToSet(h) = ToSet(w.fmon) \ gone /\ IsInjective(h)
  BY <1>1, Unlink
<1>51. leaves(w, gone) = v
  <2>1. c.mon = w.mon /\ c.wsegs = w.wsegs /\ c \in Worlds
    BY <1>10 DEF Sets
  <2> HIDE DEF g, e
  <2> QED BY <1>5, <2>1 DEF Worlds
<1> HIDE DEF f, y, h
<1>14. /\ v \in Worlds /\ v.mon = f /\ v.fmon = h /\ v.wsegs = y /\ v.grid = c.grid
       /\ v.migrating = w.migrating /\ v.away = w.away /\ v.purge = w.purge /\ SameHero(w, v)
  BY <1>10, <1>11, <1>12, <1>13 DEF Sets, SameChains, SameHero, Worlds
<1>15. \A q \in Square \cup {0} : v.grid[q] = IF w.grid[q] \in gone THEN None ELSE w.grid[q]
  <2>1. \A q \in Square \cup {0} : v.grid[q] = IF q \in Q THEN None ELSE w.grid[q]
    BY <1>10, <1>14 DEF Sets, Paint
  <2> QED BY <1>6, <1>7, <2>1
<1> HIDE DEF v, slots
<1>16. Departed(w, v, gone)
  BY <1>1, <1>9, <1>11, <1>12, <1>13, <1>14, <1>15 DEF Departed
<1>17. ASSUME NEW k \in gone
       PROVE  Travels(v, k) /\ v.mon[k].shape = w.mon[k].shape /\ (w.mon[k].wormno = 0 => v.mon[k].wormno = 0)
  <2>1. v.mon[k] = Bare(w, k, count(k)) /\ count(k) \in 0 .. MaxTail /\ k \in Mon /\ w.mon[k].alive
    BY <1>1, <1>3, <1>11, <1>14
  <2>2. w.mon[k].wormno = 0 => count(k) = 0
    OBVIOUS
  <2> HIDE DEF count
  <2> QED BY <1>1, <2>1, <2>2, BareParts, LevelIsFinite DEF Travels
<1> QED BY <1>51, <1>14, <1>16, <1>17 DEF Left, h

-----------------------------------------------------------------------------
(* One leaves for another level.                                           *)
LEMMA Migrates ==
  ASSUME NEW w, Rest(w), NEW m \in Living(w), m # w.usteed
  PROVE  LET v == migrate_to_level(w, m) IN Rest(v) /\ ToSet(v.fmon) = ToSet(w.fmon) \ {m} /\ v.fmon = unlinked(w.fmon, {m})
<1> DEFINE S == Ridden(w)
           u == leaves(w, {m})
           v == [u EXCEPT !.migrating = <<m>> \o w.migrating]
<1>1. Good(w, S) /\ w \in Worlds /\ m \notin S /\ m \in Mon /\ w.grid[w.hero] = None /\ Apart(w) /\ m \in ToSet(w.fmon)
      /\ w.hero \in Square /\ w.migrating \in Seq(Mon)
  BY RestParts, GoodParts, WorldParts
<1>2. Left(w, u, {m}) /\ u.fmon = unlinked(w.fmon, {m})
  BY <1>1, Leaves
<1>3. Good(u, S \ {m}) /\ Living(u) = Living(w) \ {m}
  BY <1>1, <1>2, Depart DEF Left
<1>4. Good(u, S)
  BY <1>1, <1>3
<1>5. /\ u \in Worlds /\ u.migrating = w.migrating /\ u.away = w.away /\ SameHero(w, u) /\ ToSet(u.fmon) = ToSet(w.fmon) \ {m}
      /\ Travels(u, m) /\ \A k \in Mon \ {m} : u.mon[k] = w.mon[k]
  BY <1>2 DEF Left, Departed
<1>6. u.grid[w.hero] = None
  BY <1>1, <1>2 DEF Left, Departed
<1> HIDE DEF u
<1>7. <<m>> \o w.migrating \in Seq(Mon) /\ ToSet(<<m>> \o w.migrating) = ToSet(w.migrating) \cup {m}
      /\ IsInjective(<<m>> \o w.migrating)
  <2>1. m \notin ToSet(w.migrating) /\ IsInjective(w.migrating)
    BY <1>1 DEF Apart, Elsewhere
  <2> QED BY <1>1, <2>1, InFront
<1>8. /\ v \in Worlds /\ v.mon = u.mon /\ v.fmon = u.fmon /\ v.grid = u.grid /\ v.wsegs = u.wsegs /\ v.purge = u.purge
      /\ v.away = u.away /\ SameHero(u, v) /\ v.migrating = <<m>> \o w.migrating
  BY <1>5, <1>7 DEF Worlds, SameHero
<1> HIDE DEF v
<1>9. Apart(v)
  <2>1. /\ IsInjective(u.fmon) /\ IsInjective(u.away.fmon)
        /\ ToSet(u.fmon) \cap (ToSet(u.migrating) \cup ToSet(u.away.fmon)) = {} /\ ToSet(u.migrating) \cap ToSet(u.away.fmon) = {}
    BY <1>4, GoodParts DEF Apart, Elsewhere
  <2>2. m \notin ToSet(u.fmon) /\ m \notin ToSet(u.away.fmon)
    BY <1>1, <1>5 DEF Apart, Elsewhere
  <2>3. ToSet(v.migrating) = ToSet(u.migrating) \cup {m} /\ IsInjective(v.migrating)
    BY <1>5, <1>7, <1>8
  <2> QED BY <1>8, <2>1, <2>2, <2>3 DEF Apart, Elsewhere
<1>10. Living(v) = Living(u) /\ Dead(v) = Dead(u)
  BY <1>8 DEF Living, Dead
<1>11. Level(v, S) /\ Shown(v, S) /\ PurgeFits(v)
  <2>1. Level(u, S) /\ Shown(u, S) /\ PurgeFits(u)
    BY <1>4, GoodParts
  <2>2. \A k : Tailed(v, k) <=> Tailed(u, k)
    BY <1>8 DEF Tailed, segs
  <2>3. \A k : Lies(v, k) <=> Lies(u, k)
    BY <1>8 DEF Lies, segs
  <2>4. \A k : Body(v, k) = Body(u, k)
    BY <1>8 DEF Body, segs
  <2>5. \A k, n : Owns(v, k, n) <=> Owns(u, k, n)
    BY <1>8, <1>10 DEF Owns
  <2>6. Owned(v)
    BY <1>8, <2>1, <2>5 DEF Level, Owned
  <2> QED BY <1>8, <1>10, <2>1, <2>2, <2>3, <2>4, <2>6 DEF Level, Shown, Shows, PurgeFits
<1>12. Away(v)
  BY <1>4, <1>5, <1>8, GoodParts, StaysAway
<1>13. \A k \in ToSet(v.migrating) : Travels(v, k)
  BY <1>4, <1>5, <1>7, <1>8 DEF Travels, Good
<1>14. Good(v, S)
  BY <1>3, <1>4, <1>8, <1>9, <1>10, <1>11, <1>12, <1>13, GoodParts DEF Good
<1>15. SameHero(w, v) /\ v.grid[w.hero] = None
  BY <1>5, <1>6, <1>8 DEF SameHero
<1>16. w.usteed # None => v.mon[w.usteed] = w.mon[w.usteed]
  BY <1>5, <1>8, RestParts, WorldParts
<1>17. Rest(v)
  BY <1>14, <1>15, <1>16, RestMoved
<1> QED BY <1>2, <1>5, <1>8, <1>17 DEF v, u, migrate_to_level

-----------------------------------------------------------------------------
(* A level is read.                                                        *)

(* u has the chain and the tails of lev, and v the map of them.            *)
Loaded(w, v, lev) ==
  /\ v \in Worlds /\ v.mon = w.mon /\ v.fmon = lev.fmon /\ v.wsegs = lev.wsegs
  /\ v.migrating = w.migrating /\ v.away = w.away /\ v.purge = w.purge /\ SameHero(w, v)
  /\ \A m \in Mon, q \in Square \cup {0} : v.grid[q] = m <=> (m \in Living(v) /\ q \in Body(v, m))

(* Nobody is on the same square as another.                                *)
Disjoint(w) == \A m, k \in Living(w) : m # k => Body(w, m) \cap Body(w, k) = {}

(* Max.                                                                     *)
LEMMA Topmost ==
  ASSUME NEW n \in Nat, NEW I \in SUBSET (1 .. n), I # {}
  PROVE  Max(I) \in I
<1>1. \E i \in I : \A j \in I : j <= i
  <2>1. I \in SUBSET Nat /\ \A j \in I : j <= n
    OBVIOUS
  <2> QED BY <2>1, GreatestNatural
<1>2. \E i \in I : \A j \in I : i >= j
  <2>1. \A j \in I : j \in Nat
    OBVIOUS
  <2> QED BY <1>1, <2>1
<1> QED BY <1>2 DEF Max

(* What getlev puts on the map.                                             *)
LEMMA GetLev ==
  ASSUME NEW w \in Worlds, NEW lev, lev.fmon \in Seq(Mon), lev.wsegs \in [Slots -> Seq(Square \cup {0})],
         Disjoint([w EXCEPT !.fmon = lev.fmon, !.wsegs = lev.wsegs])
  PROVE  Loaded(w, getlev(w, lev), lev)
<1> DEFINE u == [w EXCEPT !.fmon = lev.fmon, !.wsegs = lev.wsegs]
           at(p) == {i \in DOMAIN lev.fmon : u.mon[lev.fmon[i]].alive /\ p \in Body(u, lev.fmon[i])}
           g == [p \in DOMAIN u.grid |-> IF at(p) = {} THEN None ELSE lev.fmon[Max(at(p))]]
           h == over(g, u.grid)
           v == [u EXCEPT !.grid = h]
           n == Len(lev.fmon)
<1>1. getlev(w, lev) = v
  BY DEF getlev
<1>2. /\ u \in Worlds /\ u.mon = w.mon /\ u.fmon = lev.fmon /\ u.wsegs = lev.wsegs /\ u.grid = w.grid
      /\ u.migrating = w.migrating /\ u.away = w.away /\ u.purge = w.purge /\ SameHero(w, u)
  BY DEF Worlds, SameHero
<1>3. w.grid \in [Square \cup {0} -> Mon \cup {None}] /\ n \in Nat /\ DOMAIN lev.fmon = 1 .. n
      /\ \A m : m \in ToSet(lev.fmon) <=> \E i \in 1 .. n : m = lev.fmon[i]
  BY WorldParts, InList
<1>4. Disjoint(u)
  OBVIOUS
<1> HIDE DEF u
<1>5. \A p : at(p) \in SUBSET (1 .. n) /\ \A i \in at(p) : lev.fmon[i] \in Living(u) /\ p \in Body(u, lev.fmon[i]) /\ lev.fmon[i] \in Mon
  <2>1. \A i \in 1 .. n : lev.fmon[i] \in Mon
    OBVIOUS
  <2> QED BY <1>2, <1>3, <2>1 DEF Living
<1>6. \A p, m : m \in Living(u) /\ p \in Body(u, m) => \E i \in at(p) : lev.fmon[i] = m
  BY <1>2, <1>3 DEF Living
<1> HIDE DEF at
<1>7. \A p : at(p) # {} => Max(at(p)) \in at(p)
  BY <1>3, <1>5, Topmost
<1>8. DOMAIN u.grid = Square \cup {0} /\ IsFiniteSet(Square \cup {0})
  BY <1>2, <1>3, FS_AddElement, LevelIsFinite
<1>9. g \in [Square \cup {0} -> Mon \cup {None}] /\ \A p \in Square \cup {0} : g[p] = IF at(p) = {} THEN None ELSE lev.fmon[Max(at(p))]
  BY <1>5, <1>7, <1>8
<1> HIDE DEF g
<1>10. h = g
  <2> DEFINE D == Square \cup {0}
             V == Mon \cup {None}
             b == u.grid
  <2>1. b \in [D -> V] /\ g \in [D -> V] /\ IsFiniteSet(DOMAIN g) /\ \A p \in DOMAIN g : g[p] \in V
    BY <1>2, <1>3, <1>8, <1>9
  <2> HIDE DEF D, V, b
  <2>2. over(g, b) = Written(b, g, D, DOMAIN g)
    BY ONLY <2>1, Overwritten
  <2>3. over(g, b) = g
    BY <2>1, <2>2 DEF Written
  <2> QED BY <2>3 DEF b
<1> HIDE DEF h
<1>11. /\ v \in Worlds /\ v.mon = u.mon /\ v.fmon = u.fmon /\ v.wsegs = u.wsegs /\ v.grid = g
       /\ v.migrating = u.migrating /\ v.away = u.away /\ v.purge = u.purge /\ SameHero(u, v)
  BY <1>2, <1>9, <1>10 DEF Worlds, SameHero
<1> HIDE DEF v
<1>12. Living(v) = Living(u) /\ \A m : Body(v, m) = Body(u, m)
  BY <1>11 DEF Living, Body, segs
<1>13. ASSUME NEW m \in Mon, NEW q \in Square \cup {0}
       PROVE  v.grid[q] = m <=> (m \in Living(v) /\ q \in Body(v, m))
  <2>1. v.grid[q] = IF at(q) = {} THEN None ELSE lev.fmon[Max(at(q))]
    BY <1>9, <1>11
  <2>2. m # None
    BY LevelIsFinite
  <2>3. v.grid[q] = m => m \in Living(u) /\ q \in Body(u, m)
    BY <1>5, <1>7, <2>1, <2>2
  <2>4. ASSUME m \in Living(u), q \in Body(u, m) PROVE v.grid[q] = m
    <3>1. at(q) # {}
      BY <1>6, <2>4
    <3>2. lev.fmon[Max(at(q))] \in Living(u) /\ q \in Body(u, lev.fmon[Max(at(q))])
      BY <1>5, <1>7, <3>1
    <3> QED BY <1>4, <2>1, <2>4, <3>1, <3>2 DEF Disjoint
  <2> QED BY <1>12, <2>3, <2>4
<1> QED BY <1>1, <1>2, <1>11, <1>13 DEF Loaded, SameHero

(* Where each lies, nobody is on the same square as another.               *)
LEMMA ShownDisjoint ==
  ASSUME NEW w, Shown(w, {}), \A m \in Living(w) : m \in Mon /\ Lies(w, m)
  PROVE  Disjoint(w)
<1> SUFFICES ASSUME NEW m \in Living(w), NEW k \in Living(w), NEW q, q \in Body(w, m), q \in Body(w, k)
             PROVE  m = k
  BY DEF Disjoint
<1>1. q \in Square
  BY BodyOnMap
<1>2. w.grid[q] = m /\ w.grid[q] = k
  BY <1>1 DEF Shown, Shows
<1> QED BY <1>2

-----------------------------------------------------------------------------
(* A level that is read is in order.                                       *)
Sound(v) ==
  /\ Apart(v) /\ Away(v) /\ Owned(v) /\ v.purge = 0
  /\ \A m \in ToSet(v.fmon) : v.mon[m].alive /\ Tailed(v, m) /\ Lies(v, m)
  /\ \A m \in ToSet(v.migrating) : Travels(v, m)

(* The level that is read is sound if that which was saved is.              *)
LEMMA LoadedGood ==
  ASSUME NEW w, NEW lev, NEW v, Loaded(w, v, lev), Sound(v)
  PROVE  Good(v, {})
<1>1. Living(v) = ToSet(v.fmon) /\ Dead(v) = {}
  BY DEF Sound, Living, Dead
<1>2. Shown(v, {})
  BY <1>1 DEF Shown, Shows, Loaded
<1>3. Level(v, {})
  BY <1>1 DEF Sound, Level
<1>4. PurgeFits(v)
  BY <1>1, FS_EmptySet DEF Sound, PurgeFits
<1> QED BY <1>2, <1>3, <1>4 DEF Good, Loaded, Sound

(* Between two actions everyone lies somewhere, the steed too.             *)
LEMMA RestLies ==
  ASSUME NEW w, Rest(w)
  PROVE  Disjoint(w) /\ \A m \in Living(w) : m \in Mon /\ Tailed(w, m) /\ Lies(w, m)
<1>1. Good(w, Ridden(w)) /\ w \in Worlds /\ w.hero \in Square /\ w.grid[w.hero] = None /\ None \notin Mon
  BY RestParts, WorldParts, LevelIsFinite
<1>2. \A m \in Living(w) : m \in Mon /\ Tailed(w, m) /\ (m # w.usteed => Lies(w, m) /\ m \notin Ridden(w)) /\ Shows(w, Ridden(w), m)
  BY <1>1, RestParts, GoodParts
<1>3. w.usteed # None => Lies(w, w.usteed) /\ Body(w, w.usteed) = {w.hero}
  BY <1>1, RestParts DEF Lies, Body
<1>4. \A m \in Living(w) : Lies(w, m)
  BY <1>1, <1>2, <1>3
<1>5. ASSUME NEW m \in Living(w), NEW q \in Body(w, m)
      PROVE  q \in Square /\ (m # w.usteed => w.grid[q] = m) /\ (m = w.usteed => w.grid[q] = None)
  <2>1. q \in Square
    BY <1>4, BodyOnMap
  <2> QED BY <1>1, <1>2, <1>3, <2>1 DEF Shows
<1>6. Disjoint(w)
  <2> SUFFICES ASSUME NEW m \in Living(w), NEW k \in Living(w), NEW q, q \in Body(w, m), q \in Body(w, k)
               PROVE  m = k
    BY DEF Disjoint
  <2> QED BY <1>1, <1>2, <1>5
<1> QED BY <1>2, <1>4, <1>6

-----------------------------------------------------------------------------
(* The level is saved, and restored.                                       *)
LEMMA DoRecover ==
  ASSUME NEW w, Rest(w)
  PROVE  Rest(dorecover(w))
<1> DEFINE s == savelev(w)
           t == [s EXCEPT !.usteed = None]
           v == getlev(t, s)
           g == [v EXCEPT !.usteed = w.usteed]
           r == remove_monster(g, g.mon[w.usteed].x)
<1>1. Good(w, Ridden(w)) /\ w \in Worlds /\ w.hero \in Square /\ w.grid[w.hero] = None
  BY RestParts, WorldParts
<1>2. Saved(w, s, Ridden(w))
  BY <1>1, SaveLev
<1> HIDE DEF s
<1>3. s \in Worlds /\ Good(s, Ridden(w)) /\ SameHero(w, s) /\ s.grid = w.grid
  BY <1>2, GoodParts DEF Saved
<1>4. Rest(s)
  <2>1. w.usteed # None => s.mon[w.usteed] = w.mon[w.usteed]
    BY <1>1, <1>2, RestParts, WorldParts DEF Saved, Dead, Living
  <2> QED BY <1>1, <1>3, <2>1, RestMoved
<1>5. t \in Worlds /\ t.mon = s.mon /\ t.fmon = s.fmon /\ t.wsegs = s.wsegs /\ t.grid = s.grid /\ t.hero = s.hero
      /\ t.migrating = s.migrating /\ t.away = s.away /\ t.purge = s.purge /\ t.usteed = None
  BY <1>3 DEF Worlds
<1> HIDE DEF t
<1>6. Disjoint([t EXCEPT !.fmon = s.fmon, !.wsegs = s.wsegs])
  <2> DEFINE a == [t EXCEPT !.fmon = s.fmon, !.wsegs = s.wsegs]
  <2>1. a.mon = s.mon /\ a.fmon = s.fmon /\ a.wsegs = s.wsegs
    BY <1>5 DEF Worlds
  <2> HIDE DEF a
  <2>2. Living(a) = Living(s) /\ \A m : Body(a, m) = Body(s, m)
    BY <2>1 DEF Living, Body, segs
  <2>3. Disjoint(a)
    BY <1>4, <2>2, RestLies DEF Disjoint
  <2> QED BY <2>3 DEF a
<1>7. Loaded(t, v, s)
  <2>1. s.fmon \in Seq(Mon) /\ s.wsegs \in [Slots -> Seq(Square \cup {0})]
    BY <1>3, WorldParts
  <2> QED BY <1>5, <1>6, <2>1, GetLev
<1> HIDE DEF v
<1>8. /\ v \in Worlds /\ v.mon = s.mon /\ v.fmon = s.fmon /\ v.wsegs = s.wsegs /\ v.migrating = s.migrating /\ v.away = s.away
      /\ v.purge = s.purge /\ v.usteed = None /\ v.hero = w.hero
  BY <1>3, <1>5, <1>7 DEF Loaded, SameHero
<1>9. Living(v) = Living(s) /\ \A m : Body(v, m) = Body(s, m) /\ segs(v, m) = segs(s, m)
  BY <1>8 DEF Living, Body, segs
<1>10. Sound(v)
  <2>1. Apart(v)
    BY <1>3, <1>8, GoodParts DEF Apart, Elsewhere
  <2>2. Away(v)
    BY <1>3, <1>8, GoodParts, StaysAway
  <2>3. Owned(v)
    <3>1. Owned(s)
      BY <1>3, GoodParts
    <3>2. \A k, n : Owns(v, k, n) <=> Owns(s, k, n)
      BY <1>8, <1>9 DEF Owns
    <3> QED BY <1>8, <3>1, <3>2 DEF Owned
  <2>4. \A m \in ToSet(v.fmon) : v.mon[m].alive /\ Tailed(v, m) /\ Lies(v, m)
    <3>1. ToSet(s.fmon) = Living(s)
      BY <1>2 DEF Saved
    <3>2. \A m \in Living(s) : s.mon[m].alive /\ Tailed(s, m) /\ Lies(s, m)
      BY <1>4, RestLies DEF Living
    <3> QED BY <1>8, <1>9, <3>1, <3>2 DEF Tailed, Lies
  <2>5. \A m \in ToSet(v.migrating) : Travels(v, m)
    BY <1>3, <1>8 DEF Travels, Good
  <2> QED BY <1>2, <1>8, <2>1, <2>2, <2>3, <2>4, <2>5 DEF Sound, Saved
<1>11. Good(v, {})
  BY <1>7, <1>10, LoadedGood
<1>12. /\ g \in Worlds /\ SameChains(v, g) /\ g.mon = v.mon /\ g.grid = v.grid /\ g.wsegs = v.wsegs
       /\ g.usteed = w.usteed /\ g.hero = w.hero
  <2>1. w.usteed \in Mon \cup {None}
    BY <1>1, WorldParts
  <2> QED BY <1>8, <2>1 DEF Worlds, SameChains
<1> HIDE DEF g
<1>13. Good(g, {}) /\ Living(g) = Living(v)
  BY <1>11, <1>12, SameLevel
<1>14. CASE w.usteed = None
  <2>1. g.grid[w.hero] = None
    <3>1. g.grid[w.hero] \in Mon \cup {None}
      BY <1>1, <1>12, WorldParts
    <3>2. ASSUME NEW m \in Mon, g.grid[w.hero] = m PROVE FALSE
      <4>1. m \in Living(s) /\ w.hero \in Body(s, m)
        BY <1>1, <1>7, <1>9, <1>12, <3>2 DEF Loaded
      <4>2. s.grid[w.hero] = m
        BY <1>1, <1>3, <1>14, <4>1, GoodParts DEF Shows, Ridden
      <4> QED BY <1>1, <1>3, <4>2, LevelIsFinite
    <3> QED BY <3>1, <3>2
  <2>2. Rest(g)
    BY <1>12, <1>13, <1>14, <2>1 DEF Rest, Ridden, Riding
  <2> QED BY <1>14, <2>2 DEF dorecover, g, v, t, s
<1>15. CASE w.usteed # None
  <2> DEFINE m == w.usteed
  <2>1. m \in Living(s) /\ s.mon[m].x = w.hero /\ s.mon[m].shape = "horse" /\ s.mon[m].wormno = 0
    BY <1>3, <1>4, <1>15, RestParts DEF SameHero
  <2>2. g.mon[m].x = w.hero /\ g.mon[m].wormno = 0 /\ m \in Living(g) /\ Body(g, m) = {w.hero} /\ m \in Mon
    <3>1. m \in Living(g) /\ g.mon = s.mon
      BY <1>8, <1>9, <1>12, <1>13, <2>1
    <3> QED BY <1>13, <2>1, <3>1, GoodParts DEF Body
  <2>3. Sets(g, r, g.mon, Paint(g.grid, {w.hero}, None), g.wsegs)
    BY <1>1, <1>12, <2>2, RemoveParts
  <2> HIDE DEF r
  <2>4. Picked(g, r, m)
    BY <2>2, <2>3 DEF Picked
  <2>5. Good(r, {m}) /\ Living(r) = Living(g)
    <3>1. Good(r, {} \cup {m}) /\ Living(r) = Living(g)
      BY <1>13, <2>2, <2>4, InAir
    <3> QED BY <3>1
  <2>6. r.usteed = m /\ r.hero = w.hero /\ r.mon = s.mon /\ r.grid[w.hero] = None
    BY <1>1, <1>8, <1>12, <2>3 DEF Sets, SameHero, Paint
  <2>7. Ridden(r) = {m}
    BY <1>15, <2>6 DEF Ridden
  <2>8. Rest(r)
    BY <2>1, <2>2, <2>5, <2>6, <2>7 DEF Rest, Riding
  <2> QED BY <1>15, <2>8 DEF dorecover, r, g, v, t, s
<1> QED BY <1>14, <1>15

-----------------------------------------------------------------------------
(* Monsters arrive on a level.                                             *)

(* m is on the chain, and not on the map yet.                              *)
Boarded(w, v, m) ==
  /\ Comes(w, v, m) /\ v.grid = w.grid /\ Tailed(v, m)
  /\ v.mon[m].alive = w.mon[m].alive /\ v.mon[m].x = w.mon[m].x /\ v.mon[m].shape = w.mon[m].shape
  /\ w.mon[m].shape = "horse" => v.mon[m].wormno = 0
  /\ \A n \in Slots : IF n = v.mon[m].wormno THEN w.wsegs[n] = <<>> ELSE v.wsegs[n] = w.wsegs[n]

(* It is in the air then.                                                  *)
LEMMA Board ==
  ASSUME NEW w, NEW S, Good(w, S), NEW m \in Free(w), w.mon[m].alive, NEW v, Boarded(w, v, m)
  PROVE  Good(v, S \cup {m}) /\ Living(v) = Living(w) \cup {m} /\ ToSet(v.fmon) = ToSet(w.fmon) \cup {m}
<1>1. /\ w \in Worlds /\ v \in Worlds /\ Apart(w) /\ S \subseteq Living(w)
      /\ \A k \in Mon : k # m => v.mon[k] = w.mon[k]
  BY GoodParts DEF Comes, Boarded
<1>2. m \in Mon /\ m \notin ToSet(w.fmon) /\ m \notin Elsewhere(w) /\ m \notin Living(w) /\ m \notin S /\ m # None
      /\ \A q \in Square \cup {0} : w.grid[q] # m
  BY FreeParts
<1>3. w.fmon \in Seq(Mon) /\ ToSet(w.fmon) \subseteq Mon
  BY <1>1, WorldParts
<1>4. ToSet(v.fmon) = ToSet(w.fmon) \cup {m} /\ IsInjective(v.fmon)
  BY <1>1, <1>2, <1>3, InFront DEF Comes, Apart, Boarded
<1>5. Living(v) = Living(w) \cup {m} /\ Dead(v) = Dead(w)
  <2>1. v.mon[m].alive
    BY DEF Boarded
  <2> QED BY <1>1, <1>2, <1>3, <1>4, <2>1 DEF Living, Dead
<1>6. Apart(v)
  BY <1>1, <1>2, <1>4 DEF Apart, Comes, Elsewhere, Boarded
<1>7. Shows(v, S \cup {m}, m)
  BY <1>2 DEF Shows, Boarded
<1>8. \A q \in Square \cup {0}, k \in Mon \ {m} : v.grid[q] = k <=> w.grid[q] = k
  BY DEF Boarded
<1>9. \A n \in Slots : KeepsSlot(w, v, m, n)
  BY <1>2, <1>5 DEF KeepsSlot, Owns, Boarded
<1>10. Redrawn(w, v, m, S, S \cup {m})
  <2>1. v.migrating = w.migrating /\ v.away = w.away /\ Tailed(v, m)
    BY DEF Boarded, Comes
  <2> QED BY <1>1, <1>2, <1>4, <1>5, <1>6, <1>7, <1>8, <1>9, <2>1 DEF Redrawn
<1>11. PurgeFits(v)
  <2>1. v.purge = w.purge
    BY DEF Comes, Boarded
  <2> QED BY <1>5, <2>1, SameDead, GoodParts
<1> QED BY <1>4, <1>5, <1>10, <1>11, Redraw

(* It has come this far, on the chain.                                     *)
boards(w, m) ==
  LET n == IF w.mon[m].shape = "worm" THEN get_wormno(w) ELSE 0
      u == [w EXCEPT !.fmon = <<m>> \o w.fmon, !.mon[m].wormno = n]
  IN  IF n = 0 THEN u ELSE initworm(u, m, w.mon[m].wormno)

(* One comes onto the chain, and is given a slot.                           *)
LEMMA BoardParts ==
  ASSUME NEW w \in Worlds, NEW m \in Mon, w.mon[m].wormno <= MaxTail
  PROVE  Boarded(w, boards(w, m), m)
<1> DEFINE n == IF w.mon[m].shape = "worm" THEN get_wormno(w) ELSE 0
           f == [w.mon EXCEPT ![m].wormno = n]
           c == <<m>> \o w.fmon
           u == [w EXCEPT !.fmon = c, !.mon[m].wormno = n]
           k == w.mon[m].wormno
           s == IF k = 0 THEN <<w.mon[m].x>> ELSE Nowhere(k + 1)
           y == IF n = 0 THEN w.wsegs ELSE [w.wsegs EXCEPT ![n] = s]
           v == boards(w, m)
<1>1. w.mon \in [Mon -> Struct] /\ w.fmon \in Seq(Mon) /\ w.wsegs \in [Slots -> Seq(Square \cup {0})] /\ w.mon[m] \in Struct
      /\ k \in Nat /\ w.mon[m].x \in Square \cup {0} /\ w.mon[m].shape \in Shapes
  BY WorldParts, StructParts
<1>2. n = 0 \/ (n \in Slots /\ w.wsegs[n] = <<>> /\ w.mon[m].shape = "worm")
  BY WormNo
<1>3. n \in 0 .. (MaxWorms + MaxTail)
  BY <1>2, SlotNumber, LevelIsFinite
<1>4. s \in Seq(Square \cup {0}) /\ s # <<>> /\ Len(s) <= MaxTail + 1
  <2>1. CASE k = 0
    BY <1>1, <2>1, LevelIsFinite
  <2>2. CASE k # 0
    <3> DEFINE T == Square \cup {0}
               r == Nowhere(k + 1)
    <3>1. 0 \in T /\ k + 1 \in Nat /\ k <= MaxTail
      BY <1>1
    <3>2. s = r
      BY <2>2
    <3> HIDE DEF T, k, r, s
    <3>3. r \in Seq(T) /\ Len(r) = k + 1
      BY <3>1, AllNowhere DEF r
    <3>4. r # <<>> /\ Len(r) <= MaxTail + 1
      <4>1. Len(<<>>) = 0
        OBVIOUS
      <4> QED BY <1>1, <3>1, <3>3, <4>1, LevelIsFinite
    <3> QED BY <3>2, <3>3, <3>4 DEF T
  <2> QED BY <2>1, <2>2
<1> HIDE DEF n, s, k
<1>5. f \in [Mon -> Struct] /\ (\A j \in Mon \ {m} : f[j] = w.mon[j]) /\ f[m].x = w.mon[m].x /\ f[m].alive = w.mon[m].alive
      /\ f[m].shape = w.mon[m].shape /\ f[m].wormno = n
  <2>1. w.mon \in [Mon -> Struct] /\ m \in Mon /\ n \in 0 .. (MaxWorms + MaxTail)
    BY <1>1, <1>3
  <2> QED BY ONLY <2>1, NumberType DEF f
<1>6. y \in [Slots -> Seq(Square \cup {0})] /\ (n # 0 => y[n] = s) /\ \A j \in Slots : j # n => y[j] = w.wsegs[j]
  BY <1>1, <1>2, <1>4
<1>7. c \in Seq(Mon)
  BY <1>1, InFront
<1>8. u = [w EXCEPT !.fmon = c, !.mon = f]
  BY DEF Worlds
<1> HIDE DEF f, c, u
<1>9. /\ u \in Worlds /\ u.mon = f /\ u.fmon = c /\ u.wsegs = w.wsegs /\ u.grid = w.grid /\ u.migrating = w.migrating
      /\ u.away = w.away /\ u.purge = w.purge /\ SameHero(w, u)
  BY <1>5, <1>7, <1>8 DEF Worlds, SameHero
<1>10. v = [u EXCEPT !.wsegs = y]
  <2>1. v = IF n = 0 THEN u ELSE initworm(u, m, k)
    BY DEF boards, n, u, c, k
  <2>2. CASE n = 0
    BY <1>9, <2>1, <2>2 DEF Worlds
  <2>3. CASE n # 0
    <3>1. u.mon[m].wormno = n /\ u.mon[m].x = w.mon[m].x
      BY <1>5, <1>9
    <3>2. initworm(u, m, k) = [u EXCEPT !.wsegs[n] = s]
      BY <3>1 DEF initworm, s
    <3> QED BY <1>9, <2>1, <2>3, <3>2 DEF Worlds
  <2> QED BY <2>2, <2>3
<1> HIDE DEF y, v
<1>11. /\ v \in Worlds /\ v.mon = f /\ v.fmon = c /\ v.wsegs = y /\ v.grid = w.grid /\ v.migrating = w.migrating
       /\ v.away = w.away /\ v.purge = w.purge /\ SameHero(w, v)
  BY <1>6, <1>9, <1>10 DEF Worlds, SameHero
<1>12. Comes(w, v, m)
  BY <1>5, <1>11 DEF Comes, c
<1>13. Tailed(v, m)
  BY <1>2, <1>4, <1>5, <1>6, <1>11 DEF Tailed, segs
<1>14. v.mon[m].alive = w.mon[m].alive /\ v.mon[m].x = w.mon[m].x /\ v.mon[m].shape = w.mon[m].shape /\ v.mon[m].wormno = n
  BY <1>5, <1>11
<1>15. w.mon[m].shape = "horse" => n = 0
  BY <1>2
<1>16. \A j \in Slots : IF j = n THEN w.wsegs[j] = <<>> ELSE v.wsegs[j] = w.wsegs[j]
  BY <1>2, <1>6, <1>11, SlotNumber
<1>17. Boarded(w, v, m)
  BY <1>11, <1>12, <1>13, <1>14, <1>15, <1>16 DEF Boarded
<1> QED BY <1>17 DEF v

-----------------------------------------------------------------------------
(* One after the other.                                                    *)

(* The steed, if it is there yet, is in the air.                           *)
Aboard(w) == Ridden(w) \cap ToSet(w.fmon)

Coming(w, m) ==
  /\ w.mon[m].alive /\ w.mon[m].wormno <= MaxTail
  /\ IF m = w.usteed THEN w.mon[m].shape = "horse" /\ w.mon[m].x = w.hero ELSE w.mon[m].x = 0

(* The structs todo are still to arrive.                                   *)
Arrives(w, todo) ==
  /\ Good(w, Aboard(w)) /\ todo \subseteq Free(w) /\ \A m \in todo : Coming(w, m)
  /\ w.usteed # None =>
       \/ w.usteed \in todo
       \/ /\ w.usteed \in Living(w)
          /\ w.mon[w.usteed].x = w.hero /\ w.mon[w.usteed].shape = "horse" /\ w.mon[w.usteed].wormno = 0

(* The outcomes of mon_arrive.                                              *)
LEMMA ArriveCases ==
  ASSUME NEW w, NEW m, NEW with_you, NEW v \in mon_arrive(w, m, with_you)
  PROVE  LET u == boards(w, m) IN
         \/ m = w.usteed /\ v = u
         \/ m # w.usteed /\ u.grid[u.hero] = None /\ v \in rloc_to(u, m, u.hero)
         \/ m # w.usteed /\ v \in mnexto(u, m)
         \/ m # w.usteed /\ v \in rloc(u, m)
<1> DEFINE u == boards(w, m)
<1>1. mon_arrive(w, m, with_you) =
        IF m = w.usteed THEN {u}
        ELSE IF with_you THEN (IF u.grid[u.hero] = None THEN rloc_to(u, m, u.hero) ELSE {}) \cup mnexto(u, m)
        ELSE rloc(u, m)
  BY DEF mon_arrive, boards
<1> HIDE DEF u
<1>2. \/ m = w.usteed /\ v = u
      \/ m # w.usteed /\ u.grid[u.hero] = None /\ v \in rloc_to(u, m, u.hero)
      \/ m # w.usteed /\ v \in mnexto(u, m)
      \/ m # w.usteed /\ v \in rloc(u, m)
  BY <1>1
<1> QED BY <1>2 DEF u

(* One arrives, with its tail.                                              *)
LEMMA MonArrive ==
  ASSUME "mishaps" \notin Deeds,
         NEW w, NEW todo, Arrives(w, todo), NEW m \in todo, NEW with_you, NEW v \in mon_arrive(w, m, with_you)
  PROVE  Arrives(v, todo \ {m})
<1> DEFINE u == boards(w, m)
           S == Aboard(w)
<1>1. Good(w, S) /\ m \in Free(w) /\ Coming(w, m) /\ w \in Worlds /\ w.mon[m].alive /\ w.mon[m].wormno <= MaxTail
  BY GoodParts DEF Arrives, Coming
<1>2. m \in Mon /\ m \notin ToSet(w.fmon) /\ m # None /\ m \notin S
  BY <1>1, FreeParts
<1>3. Boarded(w, u, m)
  BY <1>1, <1>2, BoardParts
<1> HIDE DEF u, S
<1>4. Good(u, S \cup {m}) /\ Living(u) = Living(w) \cup {m} /\ ToSet(u.fmon) = ToSet(w.fmon) \cup {m}
  BY <1>1, <1>3, Board
<1>5. /\ u \in Worlds /\ SameHero(w, u) /\ u.migrating = w.migrating /\ u.away = w.away
      /\ \A k \in Mon \ {m} : u.mon[k] = w.mon[k]
      /\ u.mon[m].x = w.mon[m].x /\ u.mon[m].shape = w.mon[m].shape
      /\ w.mon[m].shape = "horse" => u.mon[m].wormno = 0
  BY <1>3 DEF Boarded, Comes
<1>6. Free(u) = Free(w) \ {m} /\ todo \subseteq Mon
  BY <1>4, <1>5 DEF Free, Chained, Arrives
<1>7. \A k \in todo \ {m} : Coming(u, k)
  BY <1>5, <1>6 DEF Coming, Arrives, SameHero
<1>8. todo \ {m} \subseteq Free(u)
  BY <1>6 DEF Arrives
<1>9. CASE m = w.usteed /\ v = u
  <2>1. Aboard(u) = {m} /\ S = {}
    BY <1>2, <1>4, <1>5, <1>9 DEF Aboard, Ridden, SameHero, S
  <2>2. Good(u, Aboard(u))
    BY <1>4, <2>1
  <2>3. m \in Living(u) /\ u.mon[m].x = u.hero /\ u.mon[m].shape = "horse" /\ u.mon[m].wormno = 0 /\ u.usteed = m
    BY <1>1, <1>4, <1>5, <1>9 DEF Coming, SameHero
  <2> QED BY <1>7, <1>8, <1>9, <2>2, <2>3 DEF Arrives
<1>10. CASE m # w.usteed
  <2>1. Movable(u, m, S \cup {m}) /\ u.hero \in Square
    BY <1>1, <1>4, <1>5, <1>10, WorldParts DEF Movable, Coming, SameHero
  <2>2. Relocated(u, v, m, S \cup {m})
    <3>1. CASE u.grid[u.hero] = None /\ v \in rloc_to(u, m, u.hero)
      BY <1>4, <2>1, <3>1, RlocTo DEF Vacant
    <3>2. CASE v \in rloc(u, m)
      BY <1>4, <2>1, <3>2, Rloc
    <3>3. v \in mnexto(u, m) => v \in rloc(u, m)
      BY <1>5, <1>10 DEF mnexto, SameHero
    <3> QED BY <1>10, <3>1, <3>2, <3>3, ArriveCases DEF u
  <2>3. /\ Good(v, (S \cup {m}) \ {m}) /\ SameChains(u, v) /\ SameHero(u, v) /\ Living(v) = Living(u)
        /\ \A k \in Mon \ {m} : v.mon[k] = u.mon[k]
    BY <2>2 DEF Relocated, Shifts
  <2>4. Aboard(v) = S /\ (S \cup {m}) \ {m} = S
    BY <1>2, <1>4, <1>5, <1>10, <2>3 DEF Aboard, Ridden, SameHero, SameChains, S
  <2>5. Good(v, Aboard(v))
    BY <2>3, <2>4
  <2>6. Free(v) = Free(u)
    BY <2>3 DEF SameChains, Free, Chained
  <2>7. \A k \in todo \ {m} : Coming(v, k)
    BY <1>6, <1>7, <2>3 DEF Coming, SameHero
  <2>8. v.usteed # None => \/ v.usteed \in todo \ {m}
                           \/ /\ v.usteed \in Living(v)
                              /\ v.mon[v.usteed].x = v.hero /\ v.mon[v.usteed].shape = "horse" /\ v.mon[v.usteed].wormno = 0
    <3> SUFFICES ASSUME v.usteed # None, v.usteed \notin todo
                 PROVE  /\ v.usteed \in Living(v)
                        /\ v.mon[v.usteed].x = v.hero /\ v.mon[v.usteed].shape = "horse" /\ v.mon[v.usteed].wormno = 0
      BY <1>5, <1>10, <2>3 DEF SameHero
    <3>1. v.usteed = w.usteed /\ v.hero = w.hero
      BY <1>5, <2>3 DEF SameHero
    <3>2. w.usteed \in Living(w) /\ w.mon[w.usteed].x = w.hero /\ w.mon[w.usteed].shape = "horse" /\ w.mon[w.usteed].wormno = 0
      BY <3>1 DEF Arrives
    <3>3. v.mon[w.usteed] = w.mon[w.usteed]
      BY <1>1, <1>5, <1>10, <2>3, <3>2, GoodParts
    <3> QED BY <1>4, <2>3, <3>1, <3>2, <3>3
  <2> QED BY <1>8, <2>5, <2>6, <2>7, <2>8 DEF Arrives
<1> QED BY <1>9, <1>10, ArriveCases DEF u

-----------------------------------------------------------------------------
(* The whole list arrives.                                                 *)

Arrivals(ws, m, with_you) == UNION {mon_arrive(w, m, with_you) : w \in ws}

(* h lets those at the positions S of a list arrive, the last one last.    *)
Lands(h, ws, q, with_you, S) ==
  h = [s \in SUBSET S |-> IF s = {} THEN ws ELSE Arrivals(h[s \ {Max(s)}], q[Max(s)], with_you)]

(* Who is still to come when those at s have arrived.                      *)
Later(todo, q, s) == todo \ {q[i] : i \in s}

AllArrive(ws, todo) == \A w \in ws : Arrives(w, todo)

(* One more of the chain arrives.                                          *)
LEMMA OneLands ==
  ASSUME "mishaps" \notin Deeds,
         NEW q \in Seq(Mon), IsInjective(q), NEW todo, ToSet(q) \subseteq todo, NEW s \in SUBSET (DOMAIN q), NEW x \in s,
         NEW ws, AllArrive(ws, Later(todo, q, s \ {x})), NEW with_you
  PROVE  AllArrive(Arrivals(ws, q[x], with_you), Later(todo, q, s))
<1>1. DOMAIN q = 1 .. Len(q) /\ \A k : k \in ToSet(q) <=> \E i \in 1 .. Len(q) : k = q[i]
  BY InList
<1>2. q[x] \in Later(todo, q, s \ {x})
  <2>1. q[x] \in todo
    BY <1>1
  <2>2. \A i \in s \ {x} : q[i] # q[x]
    BY DEF IsInjective
  <2> QED BY <2>1, <2>2 DEF Later
<1>3. Later(todo, q, s \ {x}) \ {q[x]} = Later(todo, q, s)
  BY DEF Later
<1> SUFFICES ASSUME NEW w \in ws, NEW v \in mon_arrive(w, q[x], with_you) PROVE Arrives(v, Later(todo, q, s))
  BY DEF AllArrive, Arrivals
<1>4. Arrives(w, Later(todo, q, s \ {x}))
  BY DEF AllArrive
<1>5. Arrives(v, Later(todo, q, s \ {x}) \ {q[x]})
  BY <1>2, <1>4, MonArrive
<1> QED BY <1>3, <1>5

(* All of the chain arrive, one after the other.                           *)
LEMMA LandsAll ==
  ASSUME "mishaps" \notin Deeds,
         NEW q \in Seq(Mon), IsInjective(q), NEW todo, ToSet(q) \subseteq todo, NEW ws, AllArrive(ws, todo), NEW with_you, NEW h,
         \A s \in SUBSET (DOMAIN q) :
           IF s = {} THEN h[s] = ws ELSE h[s] \subseteq Arrivals(h[s \ {Max(s)}], q[Max(s)], with_you)
  PROVE  \A s \in SUBSET (DOMAIN q) : AllArrive(h[s], Later(todo, q, s))
<1> DEFINE S == DOMAIN q
           B == {s \in SUBSET S : ~AllArrive(h[s], Later(todo, q, s))}
<1>1. SUFFICES ASSUME B # {} PROVE FALSE
  OBVIOUS
<1>2. S = 1 .. Len(q) /\ Len(q) \in Nat /\ IsFiniteSet(S)
  <2>1. S = 1 .. Len(q) /\ Len(q) \in Nat
    BY InList
  <2>2. IsFiniteSet(1 .. Len(q))
    BY <2>1, PositionsFinite
  <2> QED BY <2>1, <2>2
<1>3. PICK s \in B : \A x \in s : s \ {x} \notin B
  <2>1. B \in SUBSET (SUBSET S)
    OBVIOUS
  <2> HIDE DEF B, S
  <2> QED BY <1>1, <1>2, <2>1, SmallestSet
<1>4. s \in SUBSET S /\ ~AllArrive(h[s], Later(todo, q, s))
  OBVIOUS
<1>5. CASE s = {}
  <2>1. Later(todo, q, {}) = todo
    BY DEF Later
  <2> QED BY <1>4, <1>5, <2>1
<1>6. CASE s # {}
  <2> DEFINE x == Max(s)
  <2>1. x \in s
    <3>1. s \in SUBSET (1 .. Len(q))
      BY <1>2, <1>4
    <3> QED BY <1>2, <1>6, <3>1, Topmost
  <2>2. h[s] \subseteq Arrivals(h[s \ {x}], q[x], with_you)
    BY <1>4, <1>6
  <2>3. AllArrive(h[s \ {x}], Later(todo, q, s \ {x}))
    BY <1>3, <1>4, <2>1
  <2> HIDE DEF x, B
  <2>4. AllArrive(Arrivals(h[s \ {x}], q[x], with_you), Later(todo, q, s))
    BY <1>4, <2>1, <2>3, OneLands
  <2> QED BY <1>4, <2>2, <2>4 DEF AllArrive
<1> QED BY <1>5, <1>6

(* There is a function that says where each part of the chain arrives.     *)
LEMMA LandsExists ==
  ASSUME "mishaps" \notin Deeds,
         NEW q \in Seq(Mon), IsInjective(q), NEW todo, ToSet(q) \subseteq todo, NEW ws, AllArrive(ws, todo), NEW with_you
  PROVE  \E h : Lands(h, ws, q, with_you, DOMAIN q)
<1> DEFINE S == DOMAIN q
           W == SUBSET Worlds
           pick == [s \in SUBSET S |-> Max(s)]
           step == [p \in S \X W |-> Arrivals(p[2], q[p[1]], with_you) \cap Worlds]
<1>1. S = 1 .. Len(q) /\ Len(q) \in Nat /\ IsFiniteSet(S)
  <2>1. S = 1 .. Len(q) /\ Len(q) \in Nat
    BY InList
  <2>2. IsFiniteSet(1 .. Len(q))
    BY <2>1, PositionsFinite
  <2> QED BY <2>1, <2>2
<1>2. \A s \in SUBSET S : s # {} => Max(s) \in s
  BY <1>1, Topmost
<1>3. ws \in W
  BY GoodParts DEF AllArrive, Arrives
<1>4. step \in [S \X W -> W]
  OBVIOUS
<1>5. \A s \in SUBSET S : s # {} => pick[s] \in s
  BY <1>2
<1>6. \E h : Solution(h, S, W, ws, pick, step)
  <2> HIDE DEF pick, step, W, S
  <2>1. Recursion(S, W, ws, pick, step)
    BY <1>1, <1>3, <1>4, <1>5 DEF Recursion
  <2> QED BY <2>1, RecursionOnSet
<1>7. PICK h : Solution(h, S, W, ws, pick, step)
  <2> HIDE DEF pick, step, W, S
  <2> QED BY <1>6
<1>8. h \in [SUBSET S -> W]
  BY <1>7 DEF Solution
<1>9. ASSUME NEW s \in SUBSET S
      PROVE  h[s] = IF s = {} THEN ws ELSE Arrivals(h[s \ {Max(s)}], q[Max(s)], with_you) \cap Worlds
  <2>1. h[s] = IF s = {} THEN ws ELSE step[<<pick[s], h[s \ {pick[s]}]>>]
    <3> HIDE DEF pick, step, W, S
    <3> QED BY <1>7 DEF Solution
  <2>2. s # {} => Max(s) \in S /\ h[s \ {Max(s)}] \in W
    BY <1>2, <1>8
  <2> QED BY <2>1, <2>2
<1> HIDE DEF pick, step, W
<1>10. \A s \in SUBSET S : AllArrive(h[s], Later(todo, q, s))
  <2>1. \A s \in SUBSET S : IF s = {} THEN h[s] = ws ELSE h[s] \subseteq Arrivals(h[s \ {Max(s)}], q[Max(s)], with_you)
    BY <1>9
  <2> QED BY <2>1, LandsAll
<1>11. ASSUME NEW s \in SUBSET S, s # {}
       PROVE  Arrivals(h[s \ {Max(s)}], q[Max(s)], with_you) \subseteq Worlds
  <2>1. AllArrive(h[s \ {Max(s)}], Later(todo, q, s \ {Max(s)})) /\ Max(s) \in s
    BY <1>2, <1>10, <1>11
  <2>2. AllArrive(Arrivals(h[s \ {Max(s)}], q[Max(s)], with_you), Later(todo, q, s))
    BY <2>1, OneLands
  <2> QED BY <2>2, GoodParts DEF AllArrive, Arrives
<1>12. \A s \in SUBSET S : h[s] = IF s = {} THEN ws ELSE Arrivals(h[s \ {Max(s)}], q[Max(s)], with_you)
  <2> SUFFICES ASSUME NEW s \in SUBSET S
               PROVE  h[s] = IF s = {} THEN ws ELSE Arrivals(h[s \ {Max(s)}], q[Max(s)], with_you)
    OBVIOUS
  <2> QED BY <1>9, <1>11
<1>13. h = [s \in SUBSET S |-> IF s = {} THEN ws ELSE Arrivals(h[s \ {Max(s)}], q[Max(s)], with_you)]
  BY <1>8, <1>12
<1> QED BY <1>13 DEF Lands

(* Arrive, for a whole chain.                                               *)
LEMMA ArriveAll ==
  ASSUME "mishaps" \notin Deeds,
         NEW q \in Seq(Mon), IsInjective(q), NEW todo, ToSet(q) \subseteq todo, NEW ws, AllArrive(ws, todo), NEW with_you
  PROVE  AllArrive(Arrive(ws, q, with_you), todo \ ToSet(q))
<1> DEFINE S == DOMAIN q
<1>1. Arrive(ws, q, with_you) = FoldLeft(LAMBDA e, m : Arrivals(e, m, with_you), ws, q)
  BY DEF Arrive, Each, Arrivals
<1>2. PICK k : Lands(k, ws, q, with_you, S)
  BY LandsExists
<1>3. k = [s \in SUBSET S |-> IF s = {} THEN ws ELSE Arrivals(k[s \ {Max(s)}], q[Max(s)], with_you)]
  BY <1>2 DEF Lands
<1>4. \E h : /\ h = [s \in SUBSET S |-> IF s = {} THEN ws ELSE Arrivals(h[s \ {Max(s)}], q[Max(s)], with_you)]
             /\ FoldLeft(LAMBDA e, m : Arrivals(e, m, with_you), ws, q) = h[S]
  BY <1>3 DEF FoldLeft, MapThenFoldSet
<1>5. PICK h : /\ h = [s \in SUBSET S |-> IF s = {} THEN ws ELSE Arrivals(h[s \ {Max(s)}], q[Max(s)], with_you)]
               /\ FoldLeft(LAMBDA e, m : Arrivals(e, m, with_you), ws, q) = h[S]
  BY <1>4
<1>6. \A s \in SUBSET S : h[s] = IF s = {} THEN ws ELSE Arrivals(h[s \ {Max(s)}], q[Max(s)], with_you)
  BY <1>5
<1>7. \A s \in SUBSET S : IF s = {} THEN h[s] = ws ELSE h[s] \subseteq Arrivals(h[s \ {Max(s)}], q[Max(s)], with_you)
  BY <1>6
<1>8. \A s \in SUBSET S : AllArrive(h[s], Later(todo, q, s))
  BY <1>7, LandsAll
<1>9. AllArrive(h[S], Later(todo, q, S))
  BY <1>8
<1>10. Later(todo, q, S) = todo \ ToSet(q)
  BY DEF Later, ToSet
<1> QED BY <1>1, <1>5, <1>9, <1>10

-----------------------------------------------------------------------------
(* The hero has arrived, and the others.                                   *)
LEMMA MakesRoom ==
  ASSUME "mishaps" \notin Deeds, NEW w, Arrives(w, {}), NEW v \in makes_room(w)
  PROVE  Rest(v)
<1>1. Riding(w) /\ Good(w, Aboard(w))
  BY DEF Arrives, Riding
<1>2. Aboard(w) = Ridden(w)
  BY <1>1 DEF Aboard, Ridden, Riding, Living
<1>3. Good(w, Ridden(w)) /\ w \in Worlds /\ w.hero \in Square /\ w.grid \in [Square \cup {0} -> Mon \cup {None}]
  BY <1>1, <1>2, GoodParts, WorldParts
<1>4. CASE w.grid[w.hero] = None
  BY <1>1, <1>3, <1>4 DEF makes_room, Rest
<1>5. CASE w.grid[w.hero] # None
  <2> DEFINE m == w.grid[w.hero]
  <2>1. m \in Living(w) /\ m \notin Ridden(w) /\ m # w.usteed /\ m \in Mon
    <3>1. m \in Mon
      BY <1>3, <1>5
    <3>2. m \in Living(w) \ Ridden(w)
      BY <1>3, <3>1, GoodParts DEF Shows
    <3> QED BY <3>1, <3>2, LevelIsFinite DEF Ridden
  <2>2. \/ \E p \in Near[w.hero] : w.grid[p] = None /\ v = u_on_newpos(w, p)
        \/ v \in rloc(w, m)
    BY <1>5, <2>1 DEF makes_room, mnexto
  <2>3. ASSUME NEW p \in Near[w.hero], w.grid[p] = None, v = u_on_newpos(w, p) PROVE Rest(v)
    <3>1. p \in Square
      BY <1>3, NextTo
    <3> QED BY <1>1, <1>3, <2>3, <3>1, RestRides DEF Rests
  <2>4. CASE v \in rloc(w, m)
    <3>1. Movable(w, m, Ridden(w))
      BY <2>1 DEF Movable
    <3> HIDE DEF m
    <3>2. Relocated(w, v, m, Ridden(w)) /\ (w.grid[w.hero] \in {None, m} => v.grid[w.hero] = None)
      BY <1>3, <2>4, <3>1, Rloc
    <3>3. Good(v, Ridden(w)) /\ SameHero(w, v) /\ v.grid[w.hero] = None /\ Living(v) = Living(w)
          /\ \A k \in Mon \ {m} : v.mon[k] = w.mon[k]
      <4>1. Ridden(w) \ {m} = Ridden(w)
        BY <2>1
      <4> QED BY <3>2, <4>1 DEF Relocated, Shifts, m
    <3>4. Riding(v)
      <4>1. w.usteed # None => w.usteed \in Mon \ {m} /\ v.mon[w.usteed] = w.mon[w.usteed]
        BY <1>3, <2>1, <3>3, WorldParts
      <4> QED BY <1>1, <3>3, <4>1 DEF Riding, SameHero
    <3> QED BY <3>3, <3>4 DEF Rest, SameHero, Ridden
  <2> QED BY <2>2, <2>3, <2>4
<1> QED BY <1>4, <1>5

-----------------------------------------------------------------------------
(* The two levels change places.                                           *)

(* Levels with the same structs, chain and tails are alike.                *)
LEMMA LevelAlike ==
  ASSUME NEW w, NEW v, v.mon = w.mon, v.fmon = w.fmon, v.wsegs = w.wsegs
  PROVE  /\ Living(v) = Living(w) /\ (Owned(v) <=> Owned(w))
         /\ \A m : Body(v, m) = Body(w, m) /\ (Tailed(v, m) <=> Tailed(w, m)) /\ (Lies(v, m) <=> Lies(w, m))
         /\ \A S : Level(v, S) <=> Level(w, S)
         /\ Disjoint(v) <=> Disjoint(w)
<1>1. Living(v) = Living(w)
  BY DEF Living
<1>2. \A m : Body(v, m) = Body(w, m) /\ segs(v, m) = segs(w, m)
  BY DEF Body, segs
<1>3. \A m : (Tailed(v, m) <=> Tailed(w, m)) /\ (Lies(v, m) <=> Lies(w, m))
  BY <1>2 DEF Tailed, Lies
<1>4. \A m, n : Owns(v, m, n) <=> Owns(w, m, n)
  BY <1>1 DEF Owns
<1>5. Owned(v) <=> Owned(w)
  BY <1>4 DEF Owned
<1>6. \A S : Level(v, S) <=> Level(w, S)
  BY <1>1, <1>3, <1>5 DEF Level
<1>7. Disjoint(v) <=> Disjoint(w)
  BY <1>1, <1>2 DEF Disjoint
<1> QED BY <1>1, <1>2, <1>3, <1>5, <1>6, <1>7

(* The other level is on the map now, and this one is saved.               *)
Switched(w, v) ==
  /\ Good(v, {}) /\ v.mon = w.mon /\ v.fmon = w.away.fmon /\ v.away.fmon = w.fmon /\ v.migrating = w.migrating /\ SameHero(w, v)

(* The level is saved and another is read.                                  *)
LEMMA Switch ==
  ASSUME NEW w, Good(w, {}), ToSet(w.fmon) = Living(w), w.purge = 0
  PROVE  Switched(w, getlev([w EXCEPT !.away = [fmon |-> w.fmon, wsegs |-> w.wsegs]], w.away))
<1> DEFINE t == [w EXCEPT !.away = [fmon |-> w.fmon, wsegs |-> w.wsegs]]
           v == getlev(t, w.away)
           a == [t EXCEPT !.fmon = w.away.fmon, !.wsegs = w.away.wsegs]
           o == there(w)
<1>1. /\ w \in Worlds /\ Apart(w) /\ Away(w) /\ Level(w, {}) /\ Shown(w, {}) /\ Owned(w)
      /\ (\A m \in ToSet(w.migrating) : Travels(w, m)) /\ w.fmon \in Seq(Mon) /\ w.wsegs \in [Slots -> Seq(Square \cup {0})]
      /\ w.away.fmon \in Seq(Mon) /\ w.away.wsegs \in [Slots -> Seq(Square \cup {0})]
      /\ \A m \in Living(w) : m \in Mon /\ Lies(w, m) /\ w.mon[m].alive
  <2>1. Good(w, {}) /\ w \in Worlds
    BY GoodParts
  <2>2. \A m \in Living(w) : m \in Mon /\ Lies(w, m) /\ w.mon[m].alive
    BY <2>1, GoodParts
  <2> QED BY <2>1, <2>2, GoodParts, WorldParts DEF Good
<1>2. /\ t \in Worlds /\ t.mon = w.mon /\ t.fmon = w.fmon /\ t.wsegs = w.wsegs /\ t.migrating = w.migrating /\ t.purge = w.purge
      /\ SameHero(w, t) /\ t.away = [fmon |-> w.fmon, wsegs |-> w.wsegs]
  BY <1>1 DEF Worlds, SameHero
<1>3. o.mon = w.mon /\ o.fmon = w.away.fmon /\ o.wsegs = w.away.wsegs
  BY <1>1 DEF there, Worlds
<1> HIDE DEF o
<1>4. Level(o, {}) /\ Living(o) = ToSet(w.away.fmon) /\ Owned(o) /\ Disjoint(o)
      /\ \A m \in Living(o) : Tailed(o, m) /\ Lies(o, m) /\ o.mon[m].alive
  <2>1. Level(o, {}) /\ (\A m \in ToSet(w.away.fmon) : w.mon[m].alive)
        /\ \A m, k \in ToSet(w.away.fmon) : m # k => Body(o, m) \cap Body(o, k) = {}
    BY <1>1 DEF Away, o
  <2>2. Living(o) = ToSet(w.away.fmon)
    BY <1>3, <2>1 DEF Living
  <2> QED BY <1>3, <2>1, <2>2 DEF Level, Disjoint
<1> HIDE DEF t
<1>5. Disjoint(a)
  <2>1. a.mon = o.mon /\ a.fmon = o.fmon /\ a.wsegs = o.wsegs
    BY <1>2, <1>3 DEF Worlds
  <2> HIDE DEF a
  <2> QED BY <1>4, <2>1, LevelAlike
<1>6. Loaded(t, v, w.away)
  BY <1>1, <1>2, <1>5, GetLev
<1> HIDE DEF v, a
<1>7. /\ v \in Worlds /\ v.mon = w.mon /\ v.fmon = w.away.fmon /\ v.wsegs = w.away.wsegs /\ v.migrating = w.migrating
      /\ v.away.fmon = w.fmon /\ v.away.wsegs = w.wsegs /\ v.purge = 0 /\ SameHero(w, v)
  BY <1>2, <1>6 DEF Loaded, SameHero
<1>8. v.mon = o.mon /\ v.fmon = o.fmon /\ v.wsegs = o.wsegs
  BY <1>3, <1>7
<1>9. Apart(v)
  BY <1>1, <1>7 DEF Apart, Elsewhere
<1>10. Away(v)
  <2> DEFINE b == there(v)
  <2>1. b.mon = w.mon /\ b.fmon = w.fmon /\ b.wsegs = w.wsegs
    BY <1>7 DEF there, Worlds
  <2> HIDE DEF b
  <2>2. Disjoint(w)
    BY <1>1, ShownDisjoint
  <2>3. Level(b, {}) /\ Disjoint(b) /\ Living(b) = Living(w)
    BY <1>1, <2>1, <2>2, LevelAlike
  <2>4. \A m \in ToSet(v.away.fmon) : v.mon[m].alive
    BY <1>1, <1>7
  <2>5. \A m, k \in ToSet(v.away.fmon) : m # k => Body(b, m) \cap Body(b, k) = {}
    BY <1>7, <2>3 DEF Disjoint
  <2> QED BY <2>3, <2>4, <2>5 DEF Away, b
<1>11. Owned(v) /\ Living(v) = Living(o) /\ \A m : (Tailed(v, m) <=> Tailed(o, m)) /\ (Lies(v, m) <=> Lies(o, m))
  BY <1>4, <1>8, LevelAlike
<1>12. \A m \in ToSet(v.fmon) : v.mon[m].alive /\ Tailed(v, m) /\ Lies(v, m)
  BY <1>4, <1>7, <1>8, <1>11
<1>13. \A m \in ToSet(v.migrating) : Travels(v, m)
  BY <1>1, <1>7 DEF Travels
<1>14. Sound(v)
  BY <1>7, <1>9, <1>10, <1>11, <1>12, <1>13 DEF Sound
<1>15. Good(v, {})
  BY <1>6, <1>14, LoadedGood
<1>16. Switched(w, v)
  BY <1>7, <1>15 DEF Switched
<1> QED BY <1>16 DEF v, t

-----------------------------------------------------------------------------
(* The hero goes to the other level.                                       *)

(* Those between levels are none of the level's business.                  *)
LEMMA NoneMigrating ==
  ASSUME NEW w, NEW S, Good(w, S)
  PROVE  LET v == [w EXCEPT !.migrating = <<>>] IN
         /\ Good(v, S) /\ v.mon = w.mon /\ v.fmon = w.fmon /\ v.away = w.away /\ v.migrating = <<>> /\ SameHero(w, v)
<1> DEFINE v == [w EXCEPT !.migrating = <<>>]
<1>1. w \in Worlds /\ Apart(w) /\ S \subseteq Living(w) /\ Level(w, S) /\ Shown(w, S) /\ PurgeFits(w) /\ Away(w)
  BY GoodParts
<1>2. /\ v \in Worlds /\ v.mon = w.mon /\ v.fmon = w.fmon /\ v.wsegs = w.wsegs /\ v.grid = w.grid /\ v.away = w.away
      /\ v.purge = w.purge /\ SameHero(w, v) /\ v.migrating = <<>>
  <2> DEFINE none == <<>>
  <2>1. none \in Seq(Mon)
    OBVIOUS
  <2>2. v = [w EXCEPT !.migrating = none]
    OBVIOUS
  <2> HIDE DEF none, v
  <2>3. /\ v \in Worlds /\ v.mon = w.mon /\ v.fmon = w.fmon /\ v.wsegs = w.wsegs /\ v.grid = w.grid /\ v.away = w.away
        /\ v.purge = w.purge /\ v.usteed = w.usteed /\ v.hero = w.hero /\ v.migrating = none
    BY <1>1, <2>1, <2>2 DEF Worlds
  <2> QED BY <2>3 DEF SameHero, none
<1> HIDE DEF v
<1>3. ToSet(v.migrating) = {} /\ IsInjective(v.migrating)
  BY <1>2 DEF ToSet, IsInjective
<1>4. Apart(v)
  BY <1>1, <1>2, <1>3 DEF Apart, Elsewhere
<1>5. Living(v) = Living(w) /\ Level(v, S) /\ (\A m : Body(v, m) = Body(w, m))
  BY <1>1, <1>2, LevelAlike
<1>6. Shown(v, S)
  BY <1>1, <1>2, <1>5 DEF Shown, Shows
<1>7. PurgeFits(v)
  BY <1>1, <1>2 DEF PurgeFits, Dead
<1>8. Away(v)
  BY <1>1, <1>2, StaysAway
<1>9. Good(v, S)
  BY <1>1, <1>2, <1>3, <1>4, <1>5, <1>6, <1>7, <1>8 DEF Good
<1> QED BY <1>2, <1>9 DEF v

(* Who comes with the hero.                                                *)
LEMMA MyDogs ==
  ASSUME NEW w \in Worlds, Apart(w), NEW gone \in SUBSET ToSet(w.fmon)
  PROVE  LET q == Reverse(unlinked(w.fmon, Mon \ gone)) IN q \in Seq(Mon) /\ ToSet(q) = gone /\ IsInjective(q)
<1> DEFINE u == unlinked(w.fmon, Mon \ gone)
<1>1. u \in Seq(Mon) /\ ToSet(u) = ToSet(w.fmon) \ (Mon \ gone) /\ IsInjective(u)
  BY Unlink
<1> HIDE DEF u
<1>2. ToSet(u) = gone
  BY <1>1, WorldParts
<1> QED BY <1>1, <1>2, Reversed DEF u

(* The hero is on the level, and nobody else yet.                          *)
LEMMA Embark ==
  ASSUME NEW w, Good(w, {}), NEW gone, gone \subseteq Free(w), \A m \in gone : Travels(w, m),
         w.usteed # None => w.usteed \in gone /\ w.mon[w.usteed].shape = "horse",
         NEW p \in Square
  PROVE  LET v == u_on_newpos(w, p)
             u == [v EXCEPT !.migrating = <<>>] IN
         v.migrating = w.migrating /\ Arrives(u, gone \cup ToSet(w.migrating))
<1> DEFINE v == u_on_newpos(w, p)
           u == [v EXCEPT !.migrating = <<>>]
<1>1. /\ w \in Worlds /\ Apart(w) /\ w.mon \in [Mon -> Struct] /\ w.usteed \in Mon \cup {None}
      /\ (\A m \in ToSet(w.migrating) : Travels(w, m)) /\ ToSet(w.migrating) \subseteq Mon
  BY GoodParts, WorldParts DEF Good, Elsewhere
<1>2. /\ v \in Worlds /\ SameChains(w, v) /\ v.grid = w.grid /\ v.wsegs = w.wsegs /\ v.usteed = w.usteed /\ v.hero = p
      /\ v.mon = IF w.usteed = None THEN w.mon ELSE At(w.mon, w.usteed, p)
  <2>1. CASE w.usteed = None
    BY <1>1, <2>1 DEF u_on_newpos, Worlds, SameChains
  <2>2. CASE w.usteed # None
    <3> DEFINE f == At(w.mon, w.usteed, p)
    <3>1. f \in [Mon -> Struct]
      <4>1. w.mon \in [Mon -> Struct] /\ w.usteed \in Mon /\ p \in Square \cup {0}
        BY <1>1, <2>2
      <4> QED BY ONLY <4>1, AtType
    <3>2. v = [w EXCEPT !.hero = p, !.mon = f]
      BY <1>1, <2>2 DEF u_on_newpos, At, Worlds
    <3> HIDE DEF f, v
    <3>3. /\ v \in Worlds /\ SameChains(w, v) /\ v.grid = w.grid /\ v.wsegs = w.wsegs /\ v.usteed = w.usteed /\ v.hero = p /\ v.mon = f
      BY <1>1, <3>1, <3>2 DEF Worlds, SameChains
    <3> QED BY <2>2, <3>3 DEF f
  <2> QED BY <2>1, <2>2
<1> HIDE DEF v
<1>3. \A k \in Mon : k # w.usteed => v.mon[k] = w.mon[k]
  BY <1>1, <1>2, LevelIsFinite DEF At
<1>4. w.usteed # None => /\ v.mon[w.usteed].x = p /\ v.mon[w.usteed].alive = w.mon[w.usteed].alive
                         /\ v.mon[w.usteed].shape = w.mon[w.usteed].shape /\ v.mon[w.usteed].wormno = w.mon[w.usteed].wormno
  <2> SUFFICES ASSUME w.usteed # None
               PROVE  /\ v.mon[w.usteed].x = p /\ v.mon[w.usteed].alive = w.mon[w.usteed].alive
                      /\ v.mon[w.usteed].shape = w.mon[w.usteed].shape /\ v.mon[w.usteed].wormno = w.mon[w.usteed].wormno
    OBVIOUS
  <2>1. w.mon \in [Mon -> Struct] /\ w.usteed \in Mon /\ p \in Square \cup {0}
    BY <1>1
  <2>2. LET f == At(w.mon, w.usteed, p) IN
        /\ f[w.usteed].x = p /\ f[w.usteed].alive = w.mon[w.usteed].alive
        /\ f[w.usteed].shape = w.mon[w.usteed].shape /\ f[w.usteed].wormno = w.mon[w.usteed].wormno
    BY ONLY <2>1, AtType
  <2> QED BY <1>2, <2>2
<1>5. Good(v, {}) /\ Living(v) = Living(w)
  <2>1. CASE w.usteed = None
    BY <1>2, <2>1, SameLevel
  <2>2. CASE w.usteed # None
    <3>1. w.usteed \in Free(w)
      BY <2>2
    <3>2. \A k \in Mon \ {w.usteed} : v.mon[k] = w.mon[k]
      BY <1>3
    <3> QED BY <1>2, <3>1, <3>2, Forget
  <2> QED BY <2>1, <2>2
<1>6. Good(u, {}) /\ u.mon = v.mon /\ u.fmon = v.fmon /\ u.away = v.away /\ u.migrating = <<>> /\ SameHero(v, u)
  BY <1>5, NoneMigrating
<1> HIDE DEF u
<1>7. ToSet(u.migrating) = {}
  BY <1>6 DEF ToSet
<1>8. gone \subseteq Free(u) /\ ToSet(w.migrating) \subseteq Free(u)
  BY <1>1, <1>2, <1>6, <1>7 DEF Free, Chained, SameChains, Apart, Elsewhere
<1>9. Aboard(u) = {}
  BY <1>2, <1>6, <1>8 DEF Aboard, Ridden, SameHero, Free, Chained
<1>10. ASSUME NEW m \in gone \cup ToSet(w.migrating) PROVE Coming(u, m)
  <2>1. Travels(w, m) /\ m \in Mon
    BY <1>1 DEF Free
  <2>2. u.mon = v.mon /\ u.usteed = w.usteed /\ u.hero = p
    BY <1>2, <1>6 DEF SameHero
  <2>3. CASE m = w.usteed
    BY <1>1, <1>4, <2>1, <2>2, <2>3, LevelIsFinite DEF Coming, Travels
  <2>4. CASE m # w.usteed
    BY <1>3, <2>1, <2>2, <2>4 DEF Coming, Travels
  <2> QED BY <2>3, <2>4
<1>11. u.usteed # None => u.usteed \in gone
  BY <1>2, <1>6 DEF SameHero
<1>12. Arrives(u, gone \cup ToSet(w.migrating))
  BY <1>6, <1>8, <1>9, <1>10, <1>11 DEF Arrives
<1> QED BY <1>2, <1>12 DEF u, v, SameChains

(* The hero goes to the other level with followers, and all is well.        *)
LEMMA GotoLevel ==
  ASSUME "mishaps" \notin Deeds,
         NEW w, Rest(w), NEW followers \in SUBSET Living(w), w.usteed \notin followers, NEW p \in Stairs,
         NEW v \in goto_level(w, followers, p)
  PROVE  Rest(v)
<1> DEFINE gone == followers \cup ({w.usteed} \ {None})
           v1 == leaves(w, gone)
           q == Reverse(unlinked(w.fmon, Mon \ gone))
           v2 == savelev(v1)
           v3 == getlev([v2 EXCEPT !.away = [fmon |-> v2.fmon, wsegs |-> v2.wsegs]], w.away)
           v4 == u_on_newpos(v3, p)
           v5 == [v4 EXCEPT !.migrating = <<>>]
<1>1. /\ Good(w, Ridden(w)) /\ w \in Worlds /\ Apart(w) /\ w.grid[w.hero] = None /\ gone \subseteq Living(w) /\ gone \subseteq ToSet(w.fmon)
      /\ gone \subseteq Mon /\ Ridden(w) \subseteq gone /\ p \in Square
  <2>1. Good(w, Ridden(w)) /\ w \in Worlds /\ w.grid[w.hero] = None /\ (w.usteed # None => w.usteed \in Living(w))
    BY RestParts
  <2>2. Apart(w) /\ Living(w) \subseteq ToSet(w.fmon) /\ Living(w) \subseteq Mon
    BY <2>1, GoodParts, WorldParts
  <2> QED BY <2>1, <2>2, LevelIsFinite DEF Ridden
<1>2. v \in Each(losedogs(v4, q), makes_room)
  BY DEF goto_level, keepdogs
<1>3. q \in Seq(Mon) /\ ToSet(q) = gone /\ IsInjective(q)
  BY <1>1, MyDogs
<1> HIDE DEF q, v3
<1>4. Left(w, v1, gone)
  <2>1. \A m \in gone \cap Ridden(w) : w.mon[m].wormno = 0 /\ w.grid[w.mon[m].x] = None
    BY <1>1, RestParts DEF Ridden
  <2> HIDE DEF gone
  <2> QED BY <1>1, <2>1, Leaves
<1> HIDE DEF v1
<1>5. Good(v1, {}) /\ Living(v1) = Living(w) \ gone
  <2>1. Good(v1, Ridden(w) \ gone) /\ Living(v1) = Living(w) \ gone
    <3> HIDE DEF gone
    <3> QED BY <1>1, <1>4, Depart DEF Left
  <2>2. Ridden(w) \ gone = {}
    BY <1>1
  <2> QED BY <2>1, <2>2
<1>6. Saved(v1, v2, {})
  BY <1>5, SaveLev
<1> HIDE DEF v2, gone
<1>7. Switched(v2, v3)
  <2>1. Good(v2, {}) /\ ToSet(v2.fmon) = Living(v2) /\ v2.purge = 0 /\ v2.away = w.away
    BY <1>4, <1>6 DEF Saved, Left, Departed
  <2> QED BY <2>1, Switch DEF v3
<1>8. /\ v3.away.fmon = v2.fmon /\ v3.fmon = w.away.fmon /\ v3.migrating = w.migrating /\ v3.usteed = w.usteed
      /\ ToSet(v2.fmon) = Living(w) \ gone /\ Good(v3, {})
  BY <1>4, <1>5, <1>6, <1>7 DEF Switched, Saved, Left, Departed, SameHero
<1>9. ASSUME NEW m \in gone
      PROVE  m \in Free(v3) /\ Travels(v3, m) /\ (m = w.usteed => v3.mon[m].shape = "horse")
  <2>1. m \in Mon /\ m \in ToSet(w.fmon) /\ m \in Living(w)
    BY <1>1
  <2>2. m \in Free(v3)
    BY <1>1, <1>8, <2>1 DEF Free, Chained, Apart, Elsewhere
  <2>3. v3.mon[m] = v1.mon[m]
    <3>1. m \notin Dead(v1)
      BY <1>4 DEF Left, Departed, Dead
    <3> QED BY <1>6, <1>7, <2>1, <3>1 DEF Saved, Switched
  <2>4. Travels(v1, m) /\ v1.mon[m].shape = w.mon[m].shape
    BY <1>4 DEF Left
  <2> QED BY <1>1, <2>1, <2>2, <2>3, <2>4, RestParts, LevelIsFinite DEF Travels
<1>10. v4.migrating = w.migrating /\ Arrives(v5, gone \cup ToSet(w.migrating))
  <2>1. v3.usteed # None => v3.usteed \in gone /\ v3.mon[v3.usteed].shape = "horse"
    <3>1. w.usteed # None => w.usteed \in gone
      BY <1>1 DEF Ridden
    <3> QED BY <1>8, <1>9, <3>1
  <2>2. gone \subseteq Free(v3) /\ \A m \in gone : Travels(v3, m)
    BY <1>9
  <2>3. v4.migrating = v3.migrating /\ Arrives(v5, gone \cup ToSet(v3.migrating))
    BY <1>1, <1>8, <2>1, <2>2, Embark
  <2> QED BY <1>8, <2>3
<1> HIDE DEF v4, v5
<1>11. w.migrating \in Seq(Mon) /\ IsInjective(w.migrating) /\ ToSet(w.migrating) \cap gone = {}
  BY <1>1, WorldParts DEF Apart, Elsewhere
<1> DEFINE one == Arrive({v5}, q, TRUE)
           two == Arrive(one, w.migrating, FALSE)
<1>12. AllArrive(one, ToSet(w.migrating))
  <2>1. AllArrive({v5}, gone \cup ToSet(w.migrating)) /\ ToSet(q) \subseteq gone \cup ToSet(w.migrating)
    BY <1>3, <1>10 DEF AllArrive
  <2>2. AllArrive(one, (gone \cup ToSet(w.migrating)) \ ToSet(q))
    BY <1>3, <2>1, ArriveAll
  <2>3. (gone \cup ToSet(w.migrating)) \ ToSet(q) = ToSet(w.migrating)
    BY <1>3, <1>11
  <2> HIDE DEF one
  <2> QED BY <2>2, <2>3
<1> HIDE DEF one
<1>13. AllArrive(two, {})
  <2>1. AllArrive(two, ToSet(w.migrating) \ ToSet(w.migrating))
    BY <1>11, <1>12, ArriveAll
  <2>2. ToSet(w.migrating) \ ToSet(w.migrating) = {}
    OBVIOUS
  <2> HIDE DEF two
  <2> QED BY <2>1, <2>2
<1>14. losedogs(v4, q) = two
  BY <1>10 DEF losedogs, two, one, v5
<1> HIDE DEF two
<1>15. PICK u \in two : v \in makes_room(u)
  BY <1>2, <1>14 DEF Each
<1>16. Arrives(u, {})
  BY <1>13, <1>15 DEF AllArrive
<1> QED BY <1>15, <1>16, MakesRoom

-----------------------------------------------------------------------------
(* Monsters without tails are lifted and dropped.                          *)

Lifted(w, v, m, S) ==
  /\ Good(v, S \cup {m}) /\ Living(v) = Living(w) /\ SameChains(w, v) /\ SameHero(w, v) /\ v.mon = w.mon /\ v.wsegs = w.wsegs
  /\ \A q \in Square \cup {0} : v.grid[q] = IF q = w.mon[m].x THEN None ELSE w.grid[q]

(* remove_monster lifts it.                                                 *)
LEMMA Lift ==
  ASSUME NEW w, NEW S, Good(w, S), NEW m \in Living(w) \ S, w.mon[m].wormno = 0
  PROVE  Lifted(w, remove_monster(w, w.mon[m].x), m, S)
<1> DEFINE x == w.mon[m].x
           v == remove_monster(w, x)
<1>1. w \in Worlds /\ m \in Mon /\ Lies(w, m)
  BY GoodParts
<1>2. x \in Square /\ Body(w, m) = {x}
  BY <1>1 DEF Lies, Body
<1>3. Sets(w, v, w.mon, Paint(w.grid, {x}, None), w.wsegs)
  BY <1>1, <1>2, RemoveParts
<1> HIDE DEF v
<1>4. Picked(w, v, m)
  BY <1>2, <1>3 DEF Picked
<1>5. Good(v, S \cup {m}) /\ Living(v) = Living(w)
  BY <1>4, InAir
<1>6. \A q \in Square \cup {0} : v.grid[q] = IF q = x THEN None ELSE w.grid[q]
  BY <1>3 DEF Sets, Paint
<1> QED BY <1>3, <1>5, <1>6 DEF Lifted, Sets, v

Dropped(w, v, m, S, p) ==
  /\ Good(v, S \ {m}) /\ Living(v) = Living(w) /\ SameChains(w, v) /\ SameHero(w, v) /\ Shifts(w, v, m) /\ v.wsegs = w.wsegs
  /\ v.mon = At(w.mon, m, p) /\ v.mon[m].x = p
  /\ \A q \in Square \cup {0} : v.grid[q] = IF q = p THEN m ELSE w.grid[q]

(* place_monster drops it.                                                  *)
LEMMA Drop ==
  ASSUME "mishaps" \notin Deeds,
         NEW w, NEW S, Good(w, S), NEW m \in S, m # w.usteed, w.mon[m].wormno = 0, NEW p \in Square, w.grid[p] = None
  PROVE  Dropped(w, place_monster(w, m, p), m, S, p)
<1> DEFINE v == place_monster(w, m, p)
<1>1. w \in Worlds /\ m \in Living(w) /\ m \in Mon /\ w.mon[m].alive
  BY GoodParts
<1>2. Sets(w, v, At(w.mon, m, p), Paint(w.grid, {p}, m), w.wsegs)
  BY <1>1, PlaceParts
<1>3. v \in put_down(w, m, p)
  BY DEF put_down
<1> HIDE DEF v
<1>4. Settled(w, v, m, S, p)
  BY <1>3, PutDown
<1>5. \A q \in Square \cup {0} : v.grid[q] = IF q = p THEN m ELSE w.grid[q]
  BY <1>2 DEF Sets, Paint
<1> QED BY <1>2, <1>4, <1>5 DEF Settled, Sets, Dropped, v

(* Where the monster is that is lifted.                                    *)
LEMMA AtHome ==
  ASSUME NEW w, Rest(w), NEW m \in Living(w), m # w.usteed
  PROVE  /\ m \in Mon /\ m \notin Ridden(w) /\ w.mon[m].x \in Square /\ w.grid[w.mon[m].x] = m /\ w.mon[m].x # w.hero
         /\ w.mon[m].alive /\ m # None
<1>1. Good(w, Ridden(w)) /\ m \in Mon /\ m \notin Ridden(w) /\ Lies(w, m) /\ w.grid[w.hero] = None /\ m # None
  BY RestParts, LevelIsFinite
<1>2. w.mon[m].x \in Square /\ w.mon[m].x \in Body(w, m)
  BY <1>1, BodyOnMap DEF Lies
<1>3. w.grid[w.mon[m].x] = m /\ w.mon[m].alive
  BY <1>1, <1>2, GoodParts DEF Shows
<1> QED BY <1>1, <1>2, <1>3

-----------------------------------------------------------------------------
(* One displaces another.                                                  *)
LEMMA Displacem ==
  ASSUME "mishaps" \notin Deeds,
         NEW w, Rest(w), NEW m \in Living(w), NEW d \in Living(w), m # d, m # w.usteed, d # w.usteed,
         w.mon[m].wormno = 0, w.mon[d].wormno = 0
  PROVE  Rests(w, mdisplacem(w, m, d))
<1> DEFINE S == Ridden(w)
           a == w.mon[m].x
           p == w.mon[d].x
           r == remove_monster(w, a)
           s == remove_monster(r, p)
           t == place_monster(s, m, p)
           v == place_monster(t, d, a)
<1>1. Good(w, S) /\ w.grid[w.hero] = None /\ w.hero \in Square
  BY RestParts, WorldParts
<1>2. /\ m \in Mon /\ m \notin S /\ a \in Square /\ w.grid[a] = m /\ a # w.hero
      /\ d \in Mon /\ d \notin S /\ p \in Square /\ w.grid[p] = d /\ p # w.hero /\ a # p
  BY AtHome
<1>3. Lifted(w, r, m, S)
  BY <1>1, <1>2, Lift
<1> HIDE DEF r, S
<1>4. Good(r, S \cup {m}) /\ d \in Living(r) \ (S \cup {m}) /\ r.mon = w.mon /\ SameHero(w, r) /\ SameChains(w, r)
  BY <1>2, <1>3 DEF Lifted
<1>5. Lifted(r, s, d, S \cup {m})
  BY <1>4, Lift
<1> HIDE DEF s
<1>6. /\ Good(s, S \cup {m} \cup {d}) /\ s.mon = w.mon /\ SameHero(w, s) /\ SameChains(w, s)
      /\ \A q \in Square \cup {0} : s.grid[q] = IF q \in {a, p} THEN None ELSE w.grid[q]
  BY <1>3, <1>4, <1>5 DEF Lifted, SameHero, SameChains
<1>7. Dropped(s, t, m, S \cup {m} \cup {d}, p)
  <2>1. m \in S \cup {m} \cup {d} /\ m # s.usteed /\ s.mon[m].wormno = 0 /\ s.grid[p] = None
    BY <1>2, <1>6 DEF SameHero
  <2> QED BY <1>2, <1>6, <2>1, Drop
<1> HIDE DEF t
<1>8. /\ Good(t, S \cup {d}) /\ SameHero(w, t) /\ SameChains(w, t) /\ \A k \in Mon \ {m} : t.mon[k] = w.mon[k]
      /\ \A q \in Square \cup {0} : t.grid[q] = IF q = p THEN m ELSE s.grid[q]
  <2>1. (S \cup {m} \cup {d}) \ {m} = S \cup {d}
    BY <1>2
  <2> QED BY <1>6, <1>7, <2>1 DEF Dropped, SameHero, SameChains, Shifts
<1>9. Dropped(t, v, d, S \cup {d}, a)
  <2>1. d \in S \cup {d} /\ d # t.usteed /\ t.mon[d].wormno = 0 /\ t.grid[a] = None
    BY <1>2, <1>6, <1>8 DEF SameHero
  <2> QED BY <1>2, <1>8, <2>1, Drop
<1> HIDE DEF v
<1>10. /\ Good(v, S) /\ SameHero(w, v) /\ SameChains(w, v) /\ \A k \in Mon \ {m, d} : v.mon[k] = w.mon[k]
  <2>1. (S \cup {d}) \ {d} = S
    BY <1>2
  <2> QED BY <1>8, <1>9, <2>1 DEF Dropped, SameHero, SameChains, Shifts
<1>11. v.grid[w.hero] = None
  BY <1>1, <1>2, <1>6, <1>8, <1>9 DEF Dropped
<1>12. w.usteed # None => v.mon[w.usteed] = w.mon[w.usteed]
  BY <1>10, RestParts, WorldParts
<1>13. Rest(v)
  BY <1>10, <1>11, <1>12, RestMoved DEF S
<1> QED BY <1>10, <1>13 DEF Rests, Remains, SameChains, v, t, s, r, mdisplacem

-----------------------------------------------------------------------------
(* One engulfs another, or explodes.                                       *)

(* Put where it is, a monster is where it was.                             *)
LEMMA AtAgain ==
  ASSUME NEW f \in [Mon -> Struct], NEW m \in Mon, NEW p \in Square \cup {0}
  PROVE  At(At(f, m, p), m, f[m].x) = f /\ At(f, m, f[m].x) = f
<1>1. f[m] \in Struct
  OBVIOUS
<1>2. ASSUME NEW s \in Struct, NEW q PROVE [[s EXCEPT !.x = q] EXCEPT !.x = s.x] = s /\ [s EXCEPT !.x = s.x] = s
  BY DEF Struct
<1>3. At(f, m, p) = [f EXCEPT ![m] = [f[m] EXCEPT !.x = p]] /\ At(f, m, f[m].x) = [f EXCEPT ![m] = [f[m] EXCEPT !.x = f[m].x]]
  BY DEF At
<1>4. At(At(f, m, p), m, f[m].x) = [f EXCEPT ![m] = [[f[m] EXCEPT !.x = p] EXCEPT !.x = f[m].x]]
  BY <1>3 DEF At
<1>5. [[f[m] EXCEPT !.x = p] EXCEPT !.x = f[m].x] = f[m] /\ [f[m] EXCEPT !.x = f[m].x] = f[m]
  BY <1>1, <1>2
<1>6. [f EXCEPT ![m] = f[m]] = f
  OBVIOUS
<1> QED BY <1>3, <1>4, <1>5, <1>6

(* Maps that say the same are the same.                                     *)
LEMMA SameMap ==
  ASSUME NEW f \in [Square \cup {0} -> Mon \cup {None}], NEW g \in [Square \cup {0} -> Mon \cup {None}],
         \A q \in Square \cup {0} : f[q] = g[q]
  PROVE  f = g
  OBVIOUS

(* Without a timer there is no coming back.                                *)
LEMMA StaysGone ==
  ASSUME NEW w, NEW m, ~w.mon[m].timer
  PROVE  mondead(w, m) = mongone(w, m)
  BY DEF mondead

(* What m and d are, that are both on the map and have no tails.           *)
Pair(w, m, d, a, p) ==
  /\ m \in Mon /\ m \notin Ridden(w) /\ a \in Square /\ w.grid[a] = m /\ a # w.hero /\ w.mon[m].alive /\ w.mon[m].x = a
  /\ d \in Mon /\ d \notin Ridden(w) /\ p \in Square /\ w.grid[p] = d /\ p # w.hero /\ w.mon[d].alive /\ w.mon[d].x = p
  /\ a # p /\ m # d /\ m # w.usteed /\ d # w.usteed /\ w.mon[m].wormno = 0 /\ w.mon[d].wormno = 0
  /\ m \in Living(w) /\ d \in Living(w) /\ ~w.mon[m].timer /\ ~w.mon[d].timer

(* Such a pair is.                                                          *)
LEMMA PairParts ==
  ASSUME NEW w, Rest(w), NEW m \in Living(w), NEW d \in Living(w), m # d, m # w.usteed, d # w.usteed,
         w.mon[m].wormno = 0, w.mon[d].wormno = 0, ~w.mon[m].timer, ~w.mon[d].timer
  PROVE  Pair(w, m, d, w.mon[m].x, w.mon[d].x)
<1>1. /\ m \in Mon /\ m \notin Ridden(w) /\ w.mon[m].x \in Square /\ w.grid[w.mon[m].x] = m /\ w.mon[m].x # w.hero /\ w.mon[m].alive
      /\ d \in Mon /\ d \notin Ridden(w) /\ w.mon[d].x \in Square /\ w.grid[w.mon[d].x] = d /\ w.mon[d].x # w.hero /\ w.mon[d].alive
  BY AtHome
<1> QED BY <1>1 DEF Pair

(* The attacker is where the defender was.                                 *)
Inside(w, v, m, a, p) == Sets(w, v, At(w.mon, m, p), Paint(Paint(w.grid, {a}, None), {p}, m), w.wsegs)

(* gulpmm begins with that.                                                 *)
LEMMA GoesIn ==
  ASSUME NEW w, Rest(w), NEW m, NEW d, NEW a, NEW p, Pair(w, m, d, a, p)
  PROVE  Inside(w, place_monster(remove_monster(w, a), m, p), m, a, p)
<1> DEFINE r == remove_monster(w, a)
           v == place_monster(r, m, p)
<1>1. w \in Worlds
  BY RestParts
<1>2. Sets(w, r, w.mon, Paint(w.grid, {a}, None), w.wsegs)
  BY <1>1, RemoveParts DEF Pair
<1> HIDE DEF r
<1>3. r \in Worlds /\ m \in Mon /\ m # r.usteed /\ r.mon[m].alive /\ p \in Square
  BY <1>2 DEF Pair, Sets, SameHero
<1>4. Sets(r, v, At(r.mon, m, p), Paint(r.grid, {p}, m), r.wsegs)
  BY <1>3, PlaceParts
<1> HIDE DEF v
<1>5. Inside(w, v, m, a, p)
  BY <1>2, <1>4 DEF Sets, Inside, SameHero, SameChains
<1> QED BY <1>5 DEF v, r

(* Both live, and are where they were.                                     *)
LEMMA GulpNone ==
  ASSUME NEW w, Rest(w), NEW m, NEW d, NEW a, NEW p, Pair(w, m, d, a, p), NEW v, Inside(w, v, m, a, p)
  PROVE  Rests(w, place_monster(place_monster(v, m, a), d, p))
<1> DEFINE s == place_monster(v, m, a)
           t == place_monster(s, d, p)
<1>1. /\ w \in Worlds /\ v \in Worlds /\ v.mon = At(w.mon, m, p) /\ v.grid = Paint(Paint(w.grid, {a}, None), {p}, m) /\ v.wsegs = w.wsegs
      /\ SameHero(w, v) /\ SameChains(w, v) /\ w.mon \in [Mon -> Struct]
      /\ w.grid \in [Square \cup {0} -> Mon \cup {None}] /\ Good(w, Ridden(w)) /\ w.grid[w.hero] = None
  BY RestParts, WorldParts DEF Inside, Sets
<1>2. m \in Mon /\ d \in Mon /\ a \in Square /\ p \in Square /\ a # p /\ m # d /\ w.grid[a] = m /\ w.grid[p] = d
  BY DEF Pair
<1>3. v.mon[m].alive /\ v.mon[d] = w.mon[d] /\ m # v.usteed /\ d # v.usteed
  BY <1>1, <1>2, AtType DEF Pair, SameHero
<1>4. Sets(v, s, At(v.mon, m, a), Paint(v.grid, {a}, m), v.wsegs)
  BY <1>1, <1>2, <1>3, PlaceParts
<1> HIDE DEF s
<1>5. At(v.mon, m, a) = w.mon
  BY <1>1, <1>2, AtAgain DEF Pair
<1>6. s \in Worlds /\ s.mon = w.mon /\ s.grid = Paint(v.grid, {a}, m) /\ s.wsegs = w.wsegs /\ SameHero(w, s) /\ SameChains(w, s)
  BY <1>1, <1>4, <1>5 DEF Sets, SameHero, SameChains
<1>7. d # s.usteed /\ s.mon[d].alive
  BY <1>6 DEF Pair, SameHero
<1>8. Sets(s, t, At(s.mon, d, p), Paint(s.grid, {p}, d), s.wsegs)
  BY <1>2, <1>6, <1>7, PlaceParts
<1> HIDE DEF t
<1>9. At(s.mon, d, p) = w.mon
  BY <1>1, <1>2, <1>6, AtAgain DEF Pair
<1>10. Paint(s.grid, {p}, d) = w.grid
  <2> DEFINE g == Paint(s.grid, {p}, d)
  <2>1. s.grid \in [Square \cup {0} -> Mon \cup {None}]
    BY <1>6, WorldParts
  <2>2. g \in [Square \cup {0} -> Mon \cup {None}]
    BY <1>2, <2>1, PaintType
  <2>3. ASSUME NEW q \in Square \cup {0} PROVE g[q] = w.grid[q]
    BY <1>1, <1>2, <1>6 DEF Paint
  <2> HIDE DEF g
  <2>4. g = w.grid
    BY <1>1, <2>2, <2>3, SameMap
  <2> QED BY <2>4 DEF g
<1>11. t \in Worlds /\ t.mon = w.mon /\ t.grid = w.grid /\ t.wsegs = w.wsegs /\ SameHero(w, t) /\ SameChains(w, t)
  BY <1>6, <1>8, <1>9, <1>10 DEF Sets, SameHero, SameChains
<1>12. Good(t, Ridden(w))
  BY <1>1, <1>11, SameLevel
<1>13. Rest(t)
  BY <1>1, <1>11, <1>12, RestMoved
<1> QED BY <1>11, <1>13 DEF Rests, Remains, SameChains, t, s

(* The defender dies, with the attacker in its place but not on the map.   *)
LEMMA Digested ==
  ASSUME "mishaps" \notin Deeds,
         NEW w, Rest(w), NEW m, NEW d, NEW a, NEW p, Pair(w, m, d, a, p), NEW v, Inside(w, v, m, a, p),
         NEW u \in mondead(place_monster(remove_monster(v, p), d, p), d)
  PROVE  ~u.mon[d].alive /\ Rests(w, place_monster(u, m, p))
<1> DEFINE S == Ridden(w)
           z == remove_monster(w, a)
           r == remove_monster(v, p)
           y == place_monster(r, d, p)
           t == place_monster(u, m, p)
           A == S \cup {m}
<1>1. /\ w \in Worlds /\ v \in Worlds /\ v.mon = At(w.mon, m, p) /\ v.grid = Paint(Paint(w.grid, {a}, None), {p}, m) /\ v.wsegs = w.wsegs
      /\ SameHero(w, v) /\ SameChains(w, v) /\ w.mon \in [Mon -> Struct]
      /\ w.grid \in [Square \cup {0} -> Mon \cup {None}] /\ Good(w, S) /\ w.grid[w.hero] = None /\ w.hero \in Square
  BY RestParts, WorldParts DEF Inside, Sets
<1>2. /\ m \in Mon /\ d \in Mon /\ a \in Square /\ p \in Square /\ a # p /\ m # d /\ w.grid[a] = m /\ w.grid[p] = d
      /\ a # w.hero /\ p # w.hero /\ m \notin S /\ d \notin S /\ m # w.usteed /\ d # w.usteed
      /\ m \in Living(w) /\ d \in Living(w) /\ w.mon[m].wormno = 0 /\ w.mon[d].wormno = 0 /\ w.mon[m].x = a /\ w.mon[d].x = p
      /\ w.mon[d].alive /\ ~w.mon[d].timer
  BY DEF Pair
<1> HIDE DEF S
<1>3. Lifted(w, z, m, S)
  BY <1>1, <1>2, Lift
<1>4. Sets(w, z, w.mon, Paint(w.grid, {a}, None), w.wsegs)
  BY <1>1, <1>2, RemoveParts
<1> HIDE DEF z
<1>5. Sets(v, r, v.mon, Paint(v.grid, {p}, None), v.wsegs)
  BY <1>1, <1>2, RemoveParts
<1> HIDE DEF r
<1>6. r \in Worlds /\ r.mon = At(w.mon, m, p) /\ r.mon[d] = w.mon[d] /\ d # r.usteed /\ r.mon[d].alive /\ r.mon \in [Mon -> Struct]
  BY <1>1, <1>2, <1>5, AtType DEF Sets, SameHero
<1>7. Sets(r, y, At(r.mon, d, p), Paint(r.grid, {p}, d), r.wsegs)
  BY <1>2, <1>6, PlaceParts
<1> HIDE DEF y
<1>8. At(r.mon, d, p) = r.mon
  BY <1>2, <1>6, AtAgain
<1>9. Paint(r.grid, {p}, d) = z.grid
  BY <1>1, <1>2, <1>4, <1>5 DEF Sets, Paint
<1>10. y \in Worlds /\ y.mon = At(z.mon, m, p) /\ y.grid = z.grid /\ y.wsegs = z.wsegs /\ SameHero(w, y) /\ SameChains(z, y) /\ SameChains(w, y)
  BY <1>1, <1>4, <1>5, <1>6, <1>7, <1>8, <1>9 DEF Sets, SameHero, SameChains
<1>11. Good(z, A) /\ m \in A /\ Living(z) = Living(w)
  BY <1>3 DEF Lifted
<1> HIDE DEF A
<1>12. Good(y, A) /\ Living(y) = Living(z) /\ Shifts(z, y, m)
  BY <1>2, <1>10, <1>11, Drifts
<1>13. d \in Living(y) /\ d \notin A /\ y.mon[d] = w.mon[d] /\ y.mon[m].wormno = 0
  BY <1>2, <1>4, <1>11, <1>12 DEF Shifts, Sets, A
<1>14. u \in mongone(y, d)
  BY <1>2, <1>13, StaysGone DEF y, r
<1>15. Gone(y, u, d) /\ Good(u, A \ {d}) /\ Living(u) = Living(y) \ {d}
  BY <1>12, <1>13, <1>14, MonGone
<1>16. /\ Good(u, A) /\ u.hero = w.hero /\ u.usteed = w.usteed /\ u.fmon = w.fmon /\ u.migrating = w.migrating /\ u.away = w.away
       /\ ~u.mon[d].alive /\ \A k \in Mon \ {d} : u.mon[k] = y.mon[k]
       /\ \A q \in Square : u.grid[q] = IF q \in Body(y, d) THEN None ELSE y.grid[q]
  <2>1. A \ {d} = A
    BY <1>13
  <2> QED BY <1>2, <1>10, <1>15, <2>1 DEF Gone, SameHero, SameChains
<1>17. p \in Body(y, d)
  BY <1>2, <1>13 DEF Body
<1>18. u.grid[p] = None /\ u.mon[m].wormno = 0 /\ m # u.usteed
  BY <1>2, <1>13, <1>16, <1>17
<1>19. Dropped(u, t, m, A, p)
  BY <1>2, <1>11, <1>16, <1>18, Drop
<1> HIDE DEF t
<1>20. y.grid[w.hero] = None
  BY <1>1, <1>4, <1>10 DEF Sets, Paint
<1>21. t.grid[w.hero] = None
  BY <1>1, <1>2, <1>16, <1>19, <1>20 DEF Dropped
<1>22. A \ {m} = S
  BY <1>2 DEF A
<1>23. \A k \in Mon \ {m, d} : t.mon[k] = w.mon[k]
  BY <1>4, <1>12, <1>16, <1>19 DEF Dropped, Shifts, Sets
<1>24. w.usteed # None => t.mon[w.usteed] = w.mon[w.usteed]
  BY <1>1, <1>2, <1>23, WorldParts
<1>25. Good(t, Ridden(w)) /\ SameHero(w, t)
  BY <1>16, <1>19, <1>22 DEF Dropped, SameHero, S
<1>26. Rest(t)
  BY <1>21, <1>24, <1>25, RestMoved
<1> QED BY <1>16, <1>19, <1>26 DEF Rests, Remains, Dropped, SameChains, t

(* The attacker dies, in the place of the defender.                        *)
LEMMA Spat ==
  ASSUME "mishaps" \notin Deeds,
         NEW w, Rest(w), NEW m, NEW d, NEW a, NEW p, Pair(w, m, d, a, p), NEW v, Inside(w, v, m, a, p),
         NEW u \in mondead(v, m)
  PROVE  ~u.mon[m].alive /\ Rests(w, place_monster(u, d, p))
<1> DEFINE S == Ridden(w)
           r == remove_monster(w, a)
           s == remove_monster(r, p)
           y == place_monster(s, m, p)
           t == place_monster(u, d, p)
           A == S \cup {m}
           B == A \cup {d}
           D == S \cup {d}
<1>1. /\ w \in Worlds /\ v \in Worlds /\ v.mon = At(w.mon, m, p) /\ v.grid = Paint(Paint(w.grid, {a}, None), {p}, m) /\ v.wsegs = w.wsegs
      /\ SameHero(w, v) /\ SameChains(w, v) /\ w.mon \in [Mon -> Struct] /\ v.grid \in [Square \cup {0} -> Mon \cup {None}]
      /\ w.grid \in [Square \cup {0} -> Mon \cup {None}] /\ Good(w, S) /\ w.grid[w.hero] = None /\ w.hero \in Square
  BY RestParts, WorldParts DEF Inside, Sets
<1>2. /\ m \in Mon /\ d \in Mon /\ a \in Square /\ p \in Square /\ a # p /\ m # d /\ w.grid[a] = m /\ w.grid[p] = d
      /\ a # w.hero /\ p # w.hero /\ m \notin S /\ d \notin S /\ m # w.usteed /\ d # w.usteed
      /\ m \in Living(w) /\ d \in Living(w) /\ w.mon[m].wormno = 0 /\ w.mon[d].wormno = 0 /\ w.mon[m].x = a /\ w.mon[d].x = p
      /\ ~w.mon[m].timer
  BY DEF Pair
<1>3. A = S \cup {m} /\ B = A \cup {d} /\ m \in B /\ B \ {m} = D /\ d \notin A /\ m \notin D /\ D \ {m} = D /\ D \ {d} = S /\ d \in D
  BY <1>2
<1> HIDE DEF A, B, D, S
<1>4. Lifted(w, r, m, S)
  BY <1>1, <1>2, Lift
<1> HIDE DEF r
<1>5. Good(r, A) /\ d \in Living(r) \ A /\ r.mon = w.mon /\ SameHero(w, r) /\ SameChains(w, r) /\ r.wsegs = w.wsegs
  BY <1>2, <1>3, <1>4 DEF Lifted
<1>6. Lifted(r, s, d, A)
  BY <1>2, <1>5, Lift
<1> HIDE DEF s
<1>7. /\ Good(s, B) /\ s.mon = w.mon /\ SameHero(w, s) /\ SameChains(w, s) /\ s.wsegs = w.wsegs
      /\ \A q \in Square \cup {0} : s.grid[q] = IF q \in {a, p} THEN None ELSE w.grid[q]
  BY <1>2, <1>3, <1>4, <1>5, <1>6 DEF Lifted, SameHero, SameChains
<1>8. Dropped(s, y, m, B, p)
  <2>1. m \in B /\ m # s.usteed /\ s.mon[m].wormno = 0 /\ s.grid[p] = None
    BY <1>2, <1>3, <1>7 DEF SameHero
  <2> QED BY <1>2, <1>7, <2>1, Drop
<1> HIDE DEF y
<1>9. Good(y, D) /\ y.mon = v.mon /\ SameChains(y, v) /\ y.wsegs = v.wsegs
  BY <1>1, <1>3, <1>7, <1>8 DEF Dropped, SameChains
<1>10. y.grid = v.grid
  <2>1. y.grid \in [Square \cup {0} -> Mon \cup {None}]
    BY <1>9, GoodParts, WorldParts
  <2>2. ASSUME NEW q \in Square \cup {0} PROVE y.grid[q] = v.grid[q]
    <3>1. v.grid[q] = IF q = p THEN m ELSE IF q = a THEN None ELSE w.grid[q]
      BY <1>1 DEF Paint
    <3> QED BY <1>2, <1>7, <1>8, <3>1 DEF Dropped
  <2> QED BY <1>1, <2>1, <2>2, SameMap
<1>11. Good(v, D) /\ Living(v) = Living(y)
  BY <1>1, <1>9, <1>10, SameLevel
<1>12. Living(y) = Living(w)
  BY <1>4, <1>6, <1>8 DEF Lifted, Dropped
<1>13. v.mon[m].x = p /\ v.mon[m].timer = w.mon[m].timer /\ v.mon[m].wormno = 0 /\ \A k \in Mon \ {m} : v.mon[k] = w.mon[k]
  BY <1>1, <1>2, AtType
<1>14. u \in mongone(v, m)
  BY <1>2, <1>13, StaysGone
<1>15. Gone(v, u, m) /\ Good(u, D \ {m})
  BY <1>2, <1>3, <1>11, <1>12, <1>14, MonGone
<1>16. /\ Good(u, D) /\ u.hero = w.hero /\ u.usteed = w.usteed /\ u.fmon = w.fmon /\ u.migrating = w.migrating /\ u.away = w.away
       /\ ~u.mon[m].alive /\ \A k \in Mon \ {m} : u.mon[k] = w.mon[k]
       /\ \A q \in Square : u.grid[q] = IF q \in Body(v, m) THEN None ELSE v.grid[q]
  <2>1. u.hero = w.hero /\ u.usteed = w.usteed /\ u.fmon = w.fmon /\ u.migrating = w.migrating /\ u.away = w.away
    BY <1>1, <1>2, <1>15 DEF Gone, SameHero, SameChains
  <2>2. \A k \in Mon \ {m} : u.mon[k] = w.mon[k]
    BY <1>13, <1>15 DEF Gone
  <2>3. ~u.mon[m].alive /\ \A q \in Square : u.grid[q] = IF q \in Body(v, m) THEN None ELSE v.grid[q]
    BY <1>15 DEF Gone
  <2> QED BY <1>3, <1>15, <2>1, <2>2, <2>3
<1>17. p \in Body(v, m)
  BY <1>13 DEF Body
<1>18. u.grid[p] = None /\ u.mon[d].wormno = 0 /\ d # u.usteed
  BY <1>2, <1>16, <1>17
<1>19. Dropped(u, t, d, D, p)
  BY <1>2, <1>3, <1>16, <1>18, Drop
<1> HIDE DEF t
<1>20. v.grid[w.hero] = None
  BY <1>1, <1>2 DEF Paint
<1>21. t.grid[w.hero] = None
  BY <1>1, <1>2, <1>16, <1>19, <1>20 DEF Dropped
<1>22. \A k \in Mon \ {m, d} : t.mon[k] = w.mon[k]
  BY <1>16, <1>19 DEF Dropped, Shifts
<1>23. w.usteed # None => t.mon[w.usteed] = w.mon[w.usteed]
  BY <1>1, <1>2, <1>22, WorldParts
<1>24. Good(t, Ridden(w)) /\ SameHero(w, t)
  BY <1>3, <1>16, <1>19 DEF Dropped, SameHero, S
<1>25. Rest(t)
  BY <1>21, <1>23, <1>24, RestMoved
<1> QED BY <1>16, <1>19, <1>25 DEF Rests, Remains, Dropped, SameChains, t

(* gulpmm, whichever of the two dies.                                       *)
LEMMA GulpMm ==
  ASSUME "mishaps" \notin Deeds,
         NEW w, Rest(w), NEW m \in Living(w), NEW d \in Living(w), m # d, m # w.usteed, d # w.usteed,
         w.mon[m].wormno = 0, w.mon[d].wormno = 0, ~w.mon[m].timer, ~w.mon[d].timer, NEW x \in gulpmm(w, m, d)
  PROVE  Rests(w, x)
<1> DEFINE a == w.mon[m].x
           p == w.mon[d].x
           v == place_monster(remove_monster(w, a), m, p)
<1>1. Pair(w, m, d, a, p)
  BY PairParts
<1>2. Inside(w, v, m, a, p)
  BY <1>1, GoesIn
<1>3. \/ x = place_monster(place_monster(v, m, a), d, p)
      \/ \E u \in mondead(place_monster(remove_monster(v, p), d, p), d) :
            x = IF u.mon[d].alive THEN place_monster(place_monster(u, m, a), d, p) ELSE place_monster(u, m, p)
      \/ \E u \in mondead(v, m) :
            x = IF u.mon[m].alive THEN place_monster(place_monster(u, m, a), d, p) ELSE place_monster(u, d, p)
  BY DEF gulpmm
<1> HIDE DEF v, a, p
<1> QED BY <1>1, <1>2, <1>3, GulpNone, Digested, Spat

(* It is back where it was, if the defender, which may be the steed, dies. *)
LEMMA Burst ==
  ASSUME "mishaps" \notin Deeds,
         NEW w, Rest(w), NEW m \in Living(w), m # w.usteed, w.mon[m].wormno = 0, NEW d \in Living(w), m # d, ~w.mon[d].timer,
         NEW u \in mondead(remove_monster(w, w.mon[m].x), d)
  PROVE  Rests(w, place_monster(u, m, w.mon[m].x)) /\ m \in Living(place_monster(u, m, w.mon[m].x))
<1> DEFINE S == Ridden(w)
           a == w.mon[m].x
           v == remove_monster(w, a)
           t == place_monster(u, m, a)
           A == S \cup {m}
           B == A \ {d}
<1>1. Good(w, S) /\ w \in Worlds /\ w.grid[w.hero] = None /\ w.hero \in Square
  BY RestParts, WorldParts
<1>2. m \in Mon /\ m \notin S /\ a \in Square /\ w.grid[a] = m /\ a # w.hero /\ m # None
  BY AtHome
<1>3. S = {w.usteed} \ {None} /\ d \in Mon /\ d # None
  BY <1>1, GoodParts, LevelIsFinite DEF Ridden
<1>4. A = S \cup {m} /\ B = A \ {d} /\ m \in A /\ m \in B /\ B \ {m} = S \ {d}
  BY <1>2
<1>5. d \in S => w.mon[d].wormno = 0 /\ w.mon[d].x = w.hero /\ d = w.usteed
  BY <1>3, RestParts
<1> HIDE DEF S, A, B
<1>6. Lifted(w, v, m, S)
  BY <1>1, <1>2, Lift
<1> HIDE DEF v
<1>7. /\ Good(v, A) /\ d \in Living(v) /\ Living(v) = Living(w) /\ v.mon = w.mon /\ SameHero(w, v) /\ SameChains(w, v)
      /\ \A q \in Square \cup {0} : v.grid[q] = IF q = a THEN None ELSE w.grid[q]
  BY <1>4, <1>6 DEF Lifted
<1>8. d \in A => v.mon[d].wormno = 0 /\ v.grid[v.mon[d].x] = None
  BY <1>1, <1>2, <1>4, <1>5, <1>7
<1>9. u \in mongone(v, d)
  BY <1>7, StaysGone DEF v
<1>10. Gone(v, u, d) /\ Good(u, B) /\ Living(u) = Living(v) \ {d}
  <2>1. Gone(v, u, d) /\ Good(u, A \ {d}) /\ Living(u) = Living(v) \ {d}
    BY <1>7, <1>8, <1>9, MonGone
  <2> QED BY <1>4, <2>1
<1>11. /\ u.hero = w.hero /\ u.usteed = (IF d = w.usteed THEN None ELSE w.usteed)
       /\ u.fmon = w.fmon /\ u.migrating = w.migrating /\ u.away = w.away
       /\ \A k \in Mon \ {d} : u.mon[k] = w.mon[k]
       /\ \A q \in Square \cup {0} : u.grid[q] = IF q \in Body(v, d) THEN None ELSE v.grid[q]
  BY <1>7, <1>10 DEF Gone, SameHero, SameChains
<1>12. m # u.usteed /\ u.mon[m].wormno = 0 /\ u.grid[a] = None /\ u.grid[w.hero] = None
  BY <1>1, <1>2, <1>7, <1>11
<1>13. Dropped(u, t, m, B, a)
  BY <1>2, <1>4, <1>10, <1>12, Drop
<1> HIDE DEF t
<1>14. /\ Good(t, S \ {d}) /\ Living(t) = Living(w) \ {d} /\ t.hero = w.hero /\ t.usteed = u.usteed
       /\ t.fmon = w.fmon /\ t.migrating = w.migrating /\ t.away = w.away
       /\ \A k \in Mon \ {m, d} : t.mon[k] = w.mon[k]
  BY <1>4, <1>7, <1>10, <1>11, <1>13 DEF Dropped, Shifts, SameHero, SameChains
<1>15. t.grid[t.hero] = None
  BY <1>1, <1>2, <1>12, <1>13, <1>14 DEF Dropped
<1>16. S \ {d} = Ridden(t)
  BY <1>3, <1>11, <1>14 DEF Ridden
<1>17. Riding(t)
  <2> SUFFICES ASSUME t.usteed # None
               PROVE  /\ t.usteed \in Living(t) /\ t.mon[t.usteed].x = t.hero
                      /\ t.mon[t.usteed].shape = "horse" /\ t.mon[t.usteed].wormno = 0
    BY DEF Riding
  <2>1. t.usteed = w.usteed /\ w.usteed # None /\ w.usteed # d
    BY <1>11, <1>14
  <2>2. w.usteed \in Living(w) /\ w.usteed \in Mon /\ w.mon[w.usteed].x = w.hero /\ w.mon[w.usteed].shape = "horse" /\ w.mon[w.usteed].wormno = 0
    BY <2>1, RestParts
  <2>3. t.mon[w.usteed] = w.mon[w.usteed]
    BY <1>14, <2>1, <2>2
  <2> QED BY <1>14, <2>1, <2>2, <2>3
<1>18. Rest(t)
  BY <1>14, <1>15, <1>16, <1>17 DEF Rest
<1> QED BY <1>14, <1>18 DEF Rests, Remains, t

(* explmm, whether or not the other dies.                                   *)
LEMMA ExplMm ==
  ASSUME "mishaps" \notin Deeds,
         NEW w, Rest(w), NEW m \in Living(w), m # w.usteed, w.mon[m].wormno = 0, NEW d \in Living(w), m # d, ~w.mon[d].timer,
         NEW dies \in BOOLEAN, NEW x \in explmm(w, m, d, dies)
  PROVE  Rests(w, x)
<1> DEFINE a == w.mon[m].x
           v == remove_monster(w, a)
<1>1. PICK u \in (IF dies THEN mondead(v, d) ELSE {v}) : x \in mondead(place_monster(u, m, a), m)
  BY DEF explmm, Each
<1> DEFINE t == place_monster(u, m, a)
<1>2. Rests(w, t) /\ m \in Living(t)
  <2>1. CASE dies
    <3>1. u \in mondead(v, d)
      BY <2>1, <1>1
    <3> QED BY <3>1, Burst
  <2>2. CASE ~dies
    <3> DEFINE S == Ridden(w)
               A == S \cup {m}
    <3>1. u = v
      BY <1>1, <2>2
    <3>2. Good(w, S) /\ w.grid[w.hero] = None /\ w.hero \in Square
      BY RestParts, WorldParts
    <3>3. m \in Mon /\ m \notin S /\ a \in Square /\ w.grid[a] = m /\ a # w.hero
      BY AtHome
    <3>4. Lifted(w, v, m, S)
      BY <3>2, <3>3, Lift
    <3> HIDE DEF v
    <3>5. Good(v, A) /\ m \in A /\ A \ {m} = S
      BY <3>3, <3>4 DEF Lifted
    <3> HIDE DEF A, S
    <3>6. m # v.usteed /\ v.mon[m].wormno = 0 /\ v.grid[a] = None
      BY <3>3, <3>4 DEF Lifted, SameHero
    <3>7. Dropped(v, t, m, A, a)
      BY <3>1, <3>3, <3>5, <3>6, Drop
    <3> HIDE DEF t
    <3>8. Good(t, S) /\ SameHero(w, t) /\ SameChains(w, t) /\ Living(t) = Living(w) /\ \A k \in Mon \ {m} : t.mon[k] = w.mon[k]
      BY <3>4, <3>5, <3>7 DEF Lifted, Dropped, SameHero, SameChains, Shifts
    <3>9. t.grid[w.hero] = None
      BY <3>2, <3>3, <3>4, <3>7 DEF Lifted, Dropped
    <3>10. w.usteed # None => t.mon[w.usteed] = w.mon[w.usteed]
      BY <3>2, <3>8, GoodParts, RestParts
    <3>11. Rest(t)
      BY <3>8, <3>9, <3>10, RestMoved DEF S
    <3> QED BY <3>8, <3>11 DEF Rests, Remains, SameChains
  <2> QED BY <2>1, <2>2
<1> HIDE DEF t
<1>3. Rests(t, x)
  BY <1>1, <1>2, MonDead DEF Rests, t
<1> QED BY <1>2, <1>3 DEF Rests, Remains

-----------------------------------------------------------------------------
(* The order of the chain, which movemon goes by.                          *)

(* Where k is on the chain s.                                              *)
Pos(s, k) == SelectInSeq(s, LAMBDA i : i = k)

(* Those of s from m on.                                                   *)
From(s, m) == IF m \in Mon /\ m \in ToSet(s) THEN {k \in ToSet(s) : Pos(s, k) >= Pos(s, m)} ELSE {}

(* What a monster's turn makes of the chain: it stays, one more is put in  *)
(* front, or the monster itself is taken out.                              *)
Follows(s, t, m) ==
  t = s \/ (\E b \in Mon \ ToSet(s) : t = <<b>> \o s) \/ t = unlinked(s, {m})

(* The places on a chain.                                                   *)
LEMMA PosIs ==
  ASSUME NEW s \in Seq(Mon), IsInjective(s)
  PROVE  /\ Len(s) \in Nat
         /\ \A k \in ToSet(s) : Pos(s, k) \in 1 .. Len(s) /\ Pos(s, k) \in Int /\ s[Pos(s, k)] = k
         /\ \A i \in 1 .. Len(s) : s[i] \in ToSet(s) /\ Pos(s, s[i]) = i
<1>1. Len(s) \in Nat /\ DOMAIN s = 1 .. Len(s)
  OBVIOUS
<1>2. \A k \in ToSet(s) : Pos(s, k) \in 1 .. Len(s) /\ s[Pos(s, k)] = k
  BY FoundAt DEF Pos
<1>3. ASSUME NEW i \in 1 .. Len(s) PROVE s[i] \in ToSet(s) /\ Pos(s, s[i]) = i
  <2>1. s[i] \in ToSet(s)
    BY <1>1 DEF ToSet
  <2>2. Pos(s, s[i]) \in DOMAIN s /\ s[Pos(s, s[i])] = s[i]
    BY <1>1, <1>2, <2>1
  <2> QED BY <1>1, <2>1, <2>2 DEF IsInjective
<1> QED BY <1>1, <1>2, <1>3

(* unlinked keeps the order.                                               *)
LEMMA UnlinkedAt ==
  ASSUME NEW q \in Seq(Mon), NEW gone
  PROVE  LET t == unlinked(q, gone) IN
         \E f \in [1 .. Len(t) -> 1 .. Len(q)] :
           /\ \A k \in 1 .. Len(t) : t[k] = q[f[k]]
           /\ \A j, k \in 1 .. Len(t) : j < k => f[j] < f[k]
<1> DEFINE S == {i \in DOMAIN q : q[i] \notin gone}
           at(k) == CHOOSE i \in S : Cardinality({j \in S : j <= i}) = k
           K == 1 .. Cardinality(S)
           f == [k \in K |-> at(k)]
           t == unlinked(q, gone)
<1>1. Len(q) \in Nat /\ DOMAIN q = 1 .. Len(q) /\ S \in SUBSET (1 .. Len(q))
  OBVIOUS
<1>2. t = [k \in K |-> q[at(k)]]
  BY DEF unlinked, Keep
<1> HIDE DEF S
<1>3. /\ Cardinality(S) \in Nat
      /\ \A k \in K : at(k) \in S
      /\ \A k, m \in K : k < m => at(k) < at(m)
  BY <1>1, KeptPositions
<1> HIDE DEF at, t
<1>4. t \in Seq(Mon)
  BY Unlinked DEF t
<1>5. Len(t) = Cardinality(S)
  BY <1>2, <1>3, <1>4
<1>6. f \in [1 .. Len(t) -> 1 .. Len(q)] /\ \A k \in 1 .. Len(t) : f[k] = at(k) /\ t[k] = q[at(k)]
  BY <1>1, <1>2, <1>3, <1>5
<1> HIDE DEF f
<1>7. \A j, k \in 1 .. Len(t) : j < k => f[j] < f[k]
  BY <1>3, <1>5, <1>6
<1> QED BY <1>6, <1>7 DEF t

(* Of those that were on the chain the order is the same.                  *)
SameOrder(s, t, m) ==
  /\ \A k \in ToSet(s) \ {m} : k \in ToSet(t)
  /\ \A j, k \in ToSet(s) \ {m} : Pos(t, j) <= Pos(t, k) <=> Pos(s, j) <= Pos(s, k)
  /\ \A b \in ToSet(t), k \in ToSet(s) \ {m} :
       b \notin ToSet(s) \ {m} /\ Pos(s, m) < Pos(s, k) => Pos(t, b) < Pos(t, k)

(* So it is after any monster's turn.                                       *)
LEMMA KeepsOrder ==
  ASSUME NEW s \in Seq(Mon), IsInjective(s), NEW m \in ToSet(s), NEW t, Follows(s, t, m)
  PROVE  t \in Seq(Mon) /\ IsInjective(t) /\ SameOrder(s, t, m)
<1>1. CASE t = s
  BY <1>1 DEF SameOrder
<1>2. ASSUME NEW b \in Mon \ ToSet(s), t = <<b>> \o s PROVE t \in Seq(Mon) /\ IsInjective(t) /\ SameOrder(s, t, m)
  <2>1. t \in Seq(Mon) /\ ToSet(t) = ToSet(s) \cup {b} /\ IsInjective(t)
    BY <1>2, InFront
  <2>2. Len(t) = Len(s) + 1 /\ t[1] = b /\ \A i \in 1 .. Len(s) : t[i + 1] = s[i]
    BY <1>2
  <2>3. Pos(t, b) = 1
    BY <2>1, <2>2, PosIs
  <2>4. ASSUME NEW k \in ToSet(s) PROVE Pos(s, k) \in Int /\ Pos(s, k) > 0 /\ Pos(t, k) = Pos(s, k) + 1
    <3> DEFINE i == Pos(s, k)
    <3>1. i \in 1 .. Len(s) /\ i \in Int /\ s[i] = k /\ Len(s) \in Nat
      BY PosIs
    <3> HIDE DEF i
    <3>2. i + 1 \in 1 .. Len(t) /\ t[i + 1] = k
      BY <2>2, <3>1
    <3>3. Pos(t, k) = i + 1
      BY <2>1, <3>2, PosIs
    <3> QED BY <3>1, <3>3 DEF i
  <2>5. \A c \in ToSet(t) : c \notin ToSet(s) \ {m} => c = b \/ c = m
    BY <2>1
  <2>6. \A c \in ToSet(t), k \in ToSet(s) \ {m} :
           c \notin ToSet(s) \ {m} /\ Pos(s, m) < Pos(s, k) => Pos(t, c) < Pos(t, k)
    BY <2>3, <2>4, <2>5
  <2>7. \A j, k \in ToSet(s) \ {m} : Pos(t, j) <= Pos(t, k) <=> Pos(s, j) <= Pos(s, k)
    BY <2>4
  <2> QED BY <2>1, <2>6, <2>7 DEF SameOrder
<1>3. CASE t = unlinked(s, {m})
  <2>1. t \in Seq(Mon) /\ ToSet(t) = ToSet(s) \ {m} /\ IsInjective(t)
    BY <1>3, Unlinked
  <2>2. PICK f \in [1 .. Len(t) -> 1 .. Len(s)] :
             /\ \A k \in 1 .. Len(t) : t[k] = s[f[k]]
             /\ \A j, k \in 1 .. Len(t) : j < k => f[j] < f[k]
    <3>1. LET u == unlinked(s, {m}) IN
          \E f \in [1 .. Len(u) -> 1 .. Len(s)] :
             /\ \A k \in 1 .. Len(u) : u[k] = s[f[k]]
             /\ \A j, k \in 1 .. Len(u) : j < k => f[j] < f[k]
      BY UnlinkedAt
    <3> QED BY <1>3, <3>1
  <2>3. ASSUME NEW k \in ToSet(t) PROVE Pos(t, k) \in 1 .. Len(t) /\ Pos(t, k) \in Int /\ Pos(s, k) = f[Pos(t, k)] /\ Pos(s, k) \in Int
    <3> DEFINE i == Pos(t, k)
    <3>1. i \in 1 .. Len(t) /\ i \in Int /\ t[i] = k
      BY <2>1, PosIs
    <3> HIDE DEF i
    <3>2. f[i] \in 1 .. Len(s) /\ s[f[i]] = k /\ k \in ToSet(s)
      BY <2>1, <2>2, <3>1
    <3> QED BY <3>1, <3>2, PosIs DEF i
  <2>4. ASSUME NEW j \in ToSet(t), NEW k \in ToSet(t) PROVE Pos(t, j) <= Pos(t, k) <=> Pos(s, j) <= Pos(s, k)
    <3> DEFINE a == Pos(t, j)
               b == Pos(t, k)
    <3>1. a \in 1 .. Len(t) /\ b \in 1 .. Len(t) /\ a \in Int /\ b \in Int /\ Pos(s, j) = f[a] /\ Pos(s, k) = f[b] /\ f[a] \in Int /\ f[b] \in Int
      BY <2>3
    <3> HIDE DEF a, b
    <3>2. (a < b => f[a] < f[b]) /\ (b < a => f[b] < f[a]) /\ (a = b => f[a] = f[b])
      BY <2>2, <3>1
    <3>3. a <= b <=> f[a] <= f[b]
      BY <3>1, <3>2
    <3> QED BY <3>1, <3>3 DEF a, b
  <2> QED BY <2>1, <2>4 DEF SameOrder
<1> QED BY <1>1, <1>2, <1>3 DEF Follows

(* Due next are those that were due, but for m.                            *)
LEMMA DueNext ==
  ASSUME NEW s \in Seq(Mon), IsInjective(s), NEW m \in ToSet(s), NEW t, Follows(s, t, m)
  PROVE  From(t, After(s, m)) = From(s, m) \ {m}
<1> DEFINE i == Pos(s, m)
           n == After(s, m)
<1>1. t \in Seq(Mon) /\ IsInjective(t) /\ SameOrder(s, t, m)
  BY KeepsOrder
<1>2. i \in 1 .. Len(s) /\ i \in Int /\ Len(s) \in Nat /\ s[i] = m /\ m \in Mon
  BY PosIs, InList
<1>3. n = IF i < Len(s) THEN s[i + 1] ELSE None
  BY DEF After, Pos
<1>4. From(s, m) = {k \in ToSet(s) : Pos(s, k) >= i}
  BY <1>2 DEF From
<1> HIDE DEF i, n
<1>5. \A k \in ToSet(s) : Pos(s, k) \in 1 .. Len(s) /\ Pos(s, k) \in Int /\ s[Pos(s, k)] = k
  BY PosIs
<1>6. \A k \in ToSet(s) : k # m => Pos(s, k) # i
  BY <1>2, <1>5
<1>7. Pos(s, m) = i
  BY DEF i
<1>8. CASE ~(i < Len(s))
  <2>1. From(t, n) = {}
    BY <1>3, <1>8, LevelIsFinite DEF From
  <2>2. \A k \in ToSet(s) : Pos(s, k) >= i => k = m
    BY <1>2, <1>5, <1>6, <1>8
  <2> QED BY <1>4, <2>1, <2>2 DEF n
<1>9. CASE i < Len(s)
  <2>1. i + 1 \in 1 .. Len(s) /\ n = s[i + 1]
    BY <1>2, <1>3, <1>9
  <2>2. n \in ToSet(s) /\ Pos(s, n) = i + 1
    BY <2>1, PosIs
  <2>3. n # m /\ n \in ToSet(s) \ {m} /\ n \in Mon
    BY <1>2, <1>7, <2>2, InList
  <2>4. n \in ToSet(t)
    BY <1>1, <2>3 DEF SameOrder
  <2>5. From(t, n) = {k \in ToSet(t) : Pos(t, k) >= Pos(t, n)}
    BY <2>3, <2>4 DEF From
  <2>6. \A k \in ToSet(t) : Pos(t, k) \in Int
    BY <1>1, PosIs
  <2>7. ASSUME NEW k \in ToSet(t), Pos(t, k) >= Pos(t, n) PROVE k \in ToSet(s) \ {m} /\ Pos(s, k) >= i
    <3>1. k \in ToSet(s) \ {m}
      <4> SUFFICES ASSUME k \notin ToSet(s) \ {m} PROVE FALSE
        OBVIOUS
      <4>1. Pos(s, m) < Pos(s, n)
        BY <1>2, <1>7, <2>2
      <4>2. Pos(t, k) < Pos(t, n)
        BY <1>1, <2>3, <4>1 DEF SameOrder
      <4> QED BY <2>4, <2>6, <2>7, <4>2
    <3>2. Pos(t, n) <= Pos(t, k)
      BY <2>4, <2>6, <2>7
    <3>3. Pos(s, n) <= Pos(s, k)
      BY <1>1, <2>3, <3>1, <3>2 DEF SameOrder
    <3> QED BY <1>2, <1>5, <2>2, <3>1, <3>3
  <2>8. ASSUME NEW k \in ToSet(s) \ {m}, Pos(s, k) >= i PROVE k \in ToSet(t) /\ Pos(t, k) >= Pos(t, n)
    <3>1. k \in ToSet(t)
      BY <1>1 DEF SameOrder
    <3>2. Pos(s, n) <= Pos(s, k)
      BY <1>2, <1>5, <1>6, <2>2, <2>8
    <3>3. Pos(t, n) <= Pos(t, k)
      BY <1>1, <2>3, <3>2 DEF SameOrder
    <3> QED BY <2>4, <2>6, <3>1, <3>3
  <2> QED BY <1>4, <2>5, <2>7, <2>8 DEF n
<1> QED BY <1>8, <1>9

-----------------------------------------------------------------------------
(* Each action leads from a world at rest to a world at rest.              *)

(* The variables are the fields of World.                                   *)
LEMMA WorldIs ==
  /\ World.mon = mon /\ World.fmon = fmon /\ World.migrating = migrating /\ World.grid = grid /\ World.wsegs = wsegs
  /\ World.usteed = usteed /\ World.hero = hero /\ World.purge = purge /\ World.away = away
  BY DEF World

(* The state that follows is one in which all is well.                     *)
LEMMA Became ==
  ASSUME NEW w, Become(w), Rest(w), next' \in ToSet(w.fmon) \cup {None, Hero}
  PROVE  MonInv'
<1>1. w \in Worlds
  BY RestParts
<1>2. World' = w
  BY <1>1 DEF World, Become, Worlds
<1>3. Rest(World')
  BY <1>2
<1>4. (Rest(World))'
  BY <1>3
<1>5. fmon' = w.fmon
  BY DEF Become
<1>6. NextFits'
  BY <1>5 DEF NextFits
<1> QED BY <1>4, <1>6 DEF MonInv

(* It is the turn of the hero, and stays so.                               *)
LEMMA HeroTurn ==
  ASSUME NEW worlds, \A w \in worlds : Rest(w), Some(worlds), Turn, Stays
  PROVE  MonInv'
<1>1. PICK w \in worlds : Become(w)
  BY DEF Some
<1>2. next' = Hero
  BY DEF Turn, Stays
<1> QED BY <1>1, <1>2, Became

(* When there is one outcome.                                               *)
LEMMA HeroTurnOne ==
  ASSUME NEW w, Rest(w), Become(w), Turn, Stays
  PROVE  MonInv'
<1>1. next' = Hero
  BY DEF Turn, Stays
<1> QED BY <1>1, Became

(* The one after m on a chain is another, or none.                         *)
LEMMA AfterIs ==
  ASSUME NEW s \in Seq(Mon), IsInjective(s), NEW m \in ToSet(s)
  PROVE  After(s, m) \in (ToSet(s) \ {m}) \cup {None}
<1> DEFINE i == SelectInSeq(s, LAMBDA k : k = m)
<1>1. i \in 1 .. Len(s) /\ s[i] = m
  BY FoundAt
<1>2. After(s, m) = IF i < Len(s) THEN s[i + 1] ELSE None
  BY DEF After
<1> HIDE DEF i
<1>3. ASSUME i < Len(s) PROVE s[i + 1] \in ToSet(s) \ {m}
  <2>1. Len(s) \in Nat /\ DOMAIN s = 1 .. Len(s)
    OBVIOUS
  <2>2. i + 1 \in 1 .. Len(s) /\ i + 1 # i
    BY <1>1, <1>3, <2>1
  <2>3. s[i + 1] # s[i]
    BY <1>1, <2>1, <2>2 DEF IsInjective
  <2>4. s[i + 1] \in ToSet(s)
    BY <2>1, <2>2 DEF ToSet
  <2> QED BY <1>1, <2>3, <2>4
<1> QED BY <1>2, <1>3

(* The next monster was looked up before this one has had its turn, and   *)
(* the chain is what that turn has made of it.                             *)
Handled(m) == next' = After(fmon, m) /\ Follows(fmon, fmon', m)

(* A monster has its turn.                                                 *)
LEMMA MonTurn ==
  ASSUME MonInv, NEW m \in Mon, next = m, NEW worlds, Acts(m, worlds),
         \A w \in worlds : Rest(w) /\ Follows(fmon, w.fmon, m)
  PROVE  MonInv' /\ Handled(m)
<1>1. PICK w \in worlds : Become(w) /\ next' = After(fmon, m)
  BY DEF Acts, nmtmp
<1>2. Rest(World)
  BY DEF MonInv
<1>3. World \in Worlds /\ Apart(World)
  BY <1>2, RestParts, GoodParts
<1>4. fmon \in Seq(Mon) /\ IsInjective(fmon)
  BY <1>3, WorldParts, WorldIs DEF Apart
<1>5. m \in ToSet(fmon)
  BY LevelIsFinite DEF MonInv, NextFits
<1>6. next' \in (ToSet(fmon) \ {m}) \cup {None}
  BY <1>1, <1>4, <1>5, AfterIs
<1>7. ToSet(fmon) \ {m} \subseteq ToSet(w.fmon)
  BY <1>4, <1>5, KeepsOrder DEF SameOrder
<1>8. MonInv'
  BY <1>1, <1>6, <1>7, Became
<1>9. fmon' = w.fmon
  BY <1>1 DEF Become
<1> QED BY <1>1, <1>8, <1>9 DEF Handled

(* When the chain stays as it is.                                          *)
LEMMA MonTurnStays ==
  ASSUME MonInv, NEW m \in Mon, next = m, NEW worlds, Acts(m, worlds), \A w \in worlds : Rests(World, w)
  PROVE  MonInv' /\ Handled(m)
<1>1. \A w \in worlds : Rest(w) /\ Follows(fmon, w.fmon, m)
  BY WorldIs DEF Rests, Remains, Follows
<1> QED BY <1>1, MonTurn

(* What is true of one on the map.                                         *)
LEMMA OnMapIs ==
  ASSUME MonInv, NEW m, OnMap(m)
  PROVE  /\ Rest(World) /\ m \in Living(World) /\ m # World.usteed /\ m \in Mon /\ m \notin Ridden(World)
         /\ World.mon[m].x \in Square /\ World.grid[World.mon[m].x] = m /\ World.mon[m].x # World.hero /\ m # None
         /\ Tailed(World, m) /\ (mon[m].shape # "worm" => World.mon[m].wormno = 0)
<1>1. Rest(World) /\ m \in Living(World) /\ m # World.usteed
  BY WorldIs DEF MonInv, OnMap
<1>2. /\ m \in Mon /\ m \notin Ridden(World)
      /\ World.mon[m].x \in Square /\ World.grid[World.mon[m].x] = m /\ World.mon[m].x # World.hero /\ m # None
  BY <1>1, AtHome
<1>3. Tailed(World, m)
  BY <1>1, RestParts, GoodParts
<1> QED BY <1>1, <1>2, <1>3, WorldIs DEF Tailed

(* A good square for one that is not on the map, or next to where it is.   *)
LEMMA FreeSquare ==
  ASSUME MonInv, NEW m \in Free(World), NEW p \in Square, goodpos(World, m, p)
  PROVE  World.grid[p] = None /\ p # World.hero /\ m \in Mon /\ m # World.usteed
<1>1. Rest(World)
  BY DEF MonInv
<1>2. m \in Mon /\ m # World.usteed /\ Good(World, Ridden(World))
  BY <1>1, RestParts
<1>3. World.grid[p] # m
  BY <1>2, FreeParts
<1> QED BY <1>2, <1>3 DEF goodpos

(* It is free, and not that of the hero.                                    *)
LEMMA NextSquare ==
  ASSUME MonInv, NEW m, OnMap(m), NEW p \in Square, p \in Near[mon[m].x], goodpos(World, m, p)
  PROVE  World.grid[p] = None /\ p # World.hero
<1>1. /\ Rest(World) /\ m \in Living(World) /\ m # World.usteed /\ m \in Mon /\ m \notin Ridden(World)
      /\ World.mon[m].x \in Square /\ Good(World, Ridden(World))
  BY OnMapIs, RestParts
<1>2. p # World.mon[m].x
  BY <1>1, LevelIsFinite, WorldIs
<1>3. World.grid[p] = m => World.mon[m].wormno # 0
  <2> SUFFICES ASSUME World.grid[p] = m, World.mon[m].wormno = 0 PROVE FALSE
    OBVIOUS
  <2>1. p \in Body(World, m)
    BY <1>1, GoodParts DEF Shows
  <2> QED BY <1>2, <2>1 DEF Body
<1> QED BY <1>1, <1>3 DEF goodpos

-----------------------------------------------------------------------------
(* What the hero does.                                                     *)

(* Create.                                                                  *)
LEMMA CreateKeeps ==
  ASSUME "mishaps" \notin Deeds, MonInv, NEW m, NEW shape \in Shapes, NEW p \in Square, Create(m, shape, p)
  PROVE  MonInv'
<1> DEFINE w == World
           worlds == makemon(w, m, shape, p)
<1>1. m \in Free(w) /\ w.grid[p] = None /\ p # w.hero /\ m # w.usteed
  BY FreeSquare DEF Create
<1>2. Rest(w) /\ Good(w, Ridden(w)) /\ w.grid[w.hero] = None
  BY RestParts DEF MonInv
<1>3. Turn /\ Stays /\ Some(worlds)
  BY DEF Create
<1> HIDE DEF w
<1>4. ASSUME NEW v \in worlds PROVE Rest(v)
  <2>1. Joined(w, v, m, Ridden(w))
    BY <1>1, <1>2, <1>4, MakeMon
  <2> QED BY <1>1, <1>2, <2>1, RestJoined
<1> QED BY <1>3, <1>4, HeroTurn

(* Revive: one is made, and then replaced.                                  *)
LEMMA ReviveKeeps ==
  ASSUME "mishaps" \notin Deeds, MonInv, NEW m, NEW by, NEW shape \in Shapes, NEW p \in Square, Revive(m, by, shape, p)
  PROVE  MonInv'
<1> DEFINE w == World
           worlds == {replmon(v, m, by) : v \in makemon(w, m, shape, p)}
<1>1. m \in Free(w) /\ w.grid[p] = None /\ p # w.hero /\ m # w.usteed /\ by \in Free(w) /\ m # by
  BY FreeSquare DEF Revive
<1>2. Rest(w) /\ Good(w, Ridden(w)) /\ w.grid[w.hero] = None /\ by # w.usteed /\ by \in Mon
  BY <1>1, RestParts DEF MonInv
<1>3. Turn /\ Stays /\ Some(worlds)
  BY DEF Revive
<1> HIDE DEF w
<1>4. ASSUME NEW v \in makemon(w, m, shape, p) PROVE Rest(replmon(v, m, by))
  <2> DEFINE u == replmon(v, m, by)
             S == Ridden(w)
  <2>1. Joined(w, v, m, S)
    BY <1>1, <1>2, <1>4, MakeMon
  <2>2. Rest(v)
    BY <1>1, <1>2, <2>1, RestJoined
  <2>3. m \in Living(v) \ S /\ m # v.usteed /\ v.usteed = w.usteed /\ v.hero = w.hero /\ v.grid[w.hero] = None /\ Good(v, S)
    BY <1>1, <1>2, <2>1, FreeParts DEF Joined, SameHero
  <2>4. by \in Free(v) /\ by # v.usteed
    BY <1>1, <1>2, <2>1, <2>3 DEF Free, Chained, Joined
  <2> HIDE DEF S
  <2>5. /\ Good(u, S) /\ SameHero(v, u) /\ u.grid[v.hero] = None
        /\ \A k \in Mon \ {m, by} : u.mon[k] = v.mon[k]
    BY <2>3, <2>4, ReplMon
  <2> HIDE DEF u
  <2>6. S = Ridden(v)
    BY <2>3 DEF Ridden, S
  <2>7. v.usteed # None => u.mon[v.usteed] = v.mon[v.usteed]
    BY <2>2, <2>3, <2>4, <2>5, RestParts, WorldParts
  <2>8. Rest(u)
    BY <2>2, <2>5, <2>6, <2>7, RestMoved
  <2> QED BY <2>8 DEF u
<1>5. \A x \in worlds : Rest(x)
  BY <1>4
<1> QED BY <1>3, <1>5, HeroTurn

(* Walk.                                                                    *)
LEMMA WalkKeeps ==
  ASSUME MonInv, NEW p \in Square, Walk(p)
  PROVE  MonInv'
<1>1. Rest(World) /\ World.grid[p] = None
  BY WorldIs DEF MonInv, Walk
<1>2. Rest(u_on_newpos(World, p))
  BY <1>1, RestTeleds DEF Rests
<1> QED BY <1>2, HeroTurnOne DEF Walk

(* Kill.                                                                    *)
LEMMA KillKeeps ==
  ASSUME "mishaps" \notin Deeds, MonInv, NEW m, NEW gone, Kill(m, gone)
  PROVE  MonInv'
<1> DEFINE worlds == IF gone THEN mongone(World, m) ELSE mondead(World, m)
<1>1. Rest(World) /\ m \in Living(World) /\ Turn /\ Stays /\ Some(worlds)
  BY DEF MonInv, Kill
<1>2. \A w \in worlds : Rest(w)
  BY <1>1, RestGone, MonDead DEF Rests
<1> QED BY <1>1, <1>2, HeroTurn

(* Cut.                                                                     *)
LEMMA CutKeeps ==
  ASSUME MonInv, NEW m \in Mon, NEW p \in Square, Cut(m, p)
  PROVE  MonInv'
<1>1. Rest(World) /\ World.grid[p] = m /\ World.mon[m].wormno # 0 /\ World.mon[m].x # p
  BY WorldIs DEF MonInv, Cut
<1>2. m \in Living(World)
  BY <1>1, RestParts, GoodParts DEF Shows
<1>3. \A w \in cutworm(World, m, p) : Rest(w)
  BY <1>1, <1>2, CutWorm
<1>4. Turn /\ Stays /\ Some(cutworm(World, m, p))
  BY DEF Cut
<1> QED BY <1>3, <1>4, HeroTurn

(* Teleport.                                                                *)
LEMMA TeleportKeeps ==
  ASSUME "mishaps" \notin Deeds, MonInv, NEW m, Teleport(m)
  PROVE  MonInv'
<1> DEFINE worlds == IF m = usteed THEN {teleds(World, p) : p \in {q \in Square : grid[q] = None}} ELSE rloc(World, m)
<1>1. Rest(World) /\ m \in Living(World) /\ Turn /\ Stays /\ Some(worlds)
  BY DEF MonInv, Teleport
<1>2. \A p \in Square : grid[p] = None => Rest(teleds(World, p))
  BY <1>1, RestTeleds, WorldIs DEF Rests
<1>3. m # usteed => \A w \in rloc(World, m) : Rest(w)
  BY <1>1, RestRloc, WorldIs DEF Rests
<1>4. \A w \in worlds : Rest(w)
  BY <1>2, <1>3
<1> QED BY <1>1, <1>4, HeroTurn

(* SendsNear.                                                               *)
LEMMA SendsNearKeeps ==
  ASSUME "mishaps" \notin Deeds, MonInv, NEW m, NEW p \in Square, SendsNear(m, p)
  PROVE  MonInv'
<1> DEFINE w == World
           S == Ridden(w)
           worlds == mnearto(w, m, p)
<1>1. OnMap(m) /\ mon[m].shape # "worm" /\ Turn /\ Stays /\ Some(worlds)
  BY DEF SendsNear
<1>2. Rest(w) /\ m \in Living(w) /\ m # w.usteed /\ m \notin S /\ w.mon[m].wormno = 0
  BY <1>1, OnMapIs
<1> HIDE DEF w
<1>3. /\ Good(w, S) /\ w.grid[w.hero] = None /\ Movable(w, m, S) /\ (w.usteed # None => w.usteed \in S)
  BY <1>2, RestParts
<1> HIDE DEF S
<1>4. ASSUME NEW v \in worlds PROVE Rest(v)
  <2>1. /\ Good(v, S) /\ SameHero(w, v) /\ v.grid[v.hero] = None /\ \A k \in S : v.mon[k] = w.mon[k]
    BY <1>2, <1>3, <1>4, MnearTo
  <2>2. Good(v, Ridden(w)) /\ v.grid[w.hero] = None /\ (w.usteed # None => v.mon[w.usteed] = w.mon[w.usteed])
    BY <1>3, <2>1 DEF S, SameHero
  <2> QED BY <1>2, <2>1, <2>2, RestMoved
<1> HIDE DEF worlds
<1> QED BY <1>1, <1>4, HeroTurn

(* Polymorph.                                                               *)
LEMMA PolymorphKeeps ==
  ASSUME "mishaps" \notin Deeds, MonInv, NEW m, NEW shape \in Shapes, Polymorph(m, shape)
  PROVE  MonInv'
<1>1. Rest(World) /\ m \in Living(World) /\ Turn /\ Stays /\ Some(polymorphs(World, m, shape))
  BY DEF MonInv, Polymorph
<1>2. \A w \in polymorphs(World, m, shape) : Rest(w)
  BY <1>1, Polymorphs DEF Rests
<1> QED BY <1>1, <1>2, HeroTurn

(* Unpoly, of one on the level.                                             *)
LEMMA UnpolyKeeps ==
  ASSUME Deeds \cap {"mishaps", "limbo"} = {}, MonInv, NEW m, Unpoly(m)
  PROVE  MonInv'
<1>1. Rest(World) /\ m \in Living(World) /\ Turn /\ Stays /\ Some(unpoly_mon(World, m))
  BY DEF MonInv, Unpoly, Expires, Does
<1>2. \A w \in unpoly_mon(World, m) : Rest(w)
  BY <1>1, UnpolyMon DEF Rests
<1> QED BY <1>1, <1>2, HeroTurn

(* Dismount.                                                                *)
LEMMA DismountKeeps ==
  ASSUME "mishaps" \notin Deeds, MonInv, Dismount
  PROVE  MonInv'
<1>1. Rest(World) /\ World.usteed # None /\ Turn /\ Stays /\ Some(dismount_steed(World))
  BY WorldIs DEF MonInv, Dismount
<1>2. Good(World, {World.usteed}) /\ World.mon[World.usteed].wormno = 0 /\ World.grid[World.hero] = None
  <2>1. Ridden(World) = {World.usteed}
    BY <1>1 DEF Ridden
  <2> QED BY <1>1, <2>1, RestParts
<1>3. \A w \in dismount_steed(World) : Rest(w)
  BY <1>1, <1>2, DismountSteed
<1> QED BY <1>1, <1>3, HeroTurn

(* Clone.                                                                   *)
LEMMA CloneKeeps ==
  ASSUME MonInv, NEW m, NEW by, NEW p \in Square, Clone(m, by, p)
  PROVE  MonInv'
<1> DEFINE w == World
           v == clone_mon(w, m, by, p)
<1>1. by \in Free(w) /\ w.grid[p] = None /\ goodpos(w, m, p)
  BY WorldIs DEF Clone
<1>2. OnMap(m) /\ mon[m].shape # "worm" /\ Turn /\ Stays /\ Become(v)
  BY DEF Clone
<1>3. Rest(w) /\ m \in Living(w) /\ w.mon[m].wormno = 0 /\ p # w.hero /\ by # w.usteed
  BY <1>1, <1>2, OnMapIs, GoodSquare, RestParts
<1> HIDE DEF w
<1>4. Good(w, Ridden(w)) /\ w.grid[w.hero] = None
  BY <1>3, RestParts
<1>5. Joined(w, v, by, Ridden(w))
  BY <1>1, <1>3, <1>4, CloneMon
<1>6. Rest(v)
  BY <1>1, <1>3, <1>5, RestJoined
<1> HIDE DEF v
<1> QED BY <1>2, <1>6, HeroTurnOne

(* Goto.                                                                    *)
LEMMA GotoKeeps ==
  ASSUME "mishaps" \notin Deeds, MonInv, NEW followers, NEW p \in Stairs, Goto(followers, p)
  PROVE  MonInv'
<1>1. Rest(World) /\ Turn /\ Stays /\ Some(goto_level(World, followers, p))
  BY DEF MonInv, Goto
<1>2. followers \in SUBSET Living(World) /\ World.usteed \notin followers
  BY WorldIs DEF Goto, OnMap
<1>3. \A w \in goto_level(World, followers, p) : Rest(w)
  BY <1>1, <1>2, GotoLevel
<1> QED BY <1>1, <1>3, HeroTurn

(* SaveAndRestore.                                                          *)
LEMMA SaveAndRestoreKeeps ==
  ASSUME MonInv, SaveAndRestore
  PROVE  MonInv'
<1>1. Rest(World) /\ Turn /\ Stays /\ Become(dorecover(World))
  BY DEF MonInv, SaveAndRestore
<1>2. Rest(dorecover(World))
  BY <1>1, DoRecover
<1> QED BY <1>1, <1>2, HeroTurnOne

(* The hero, with the steed, and a pet change places.                      *)
LEMMA ChangePlaces ==
  ASSUME "mishaps" \notin Deeds,
         NEW w, Rest(w), NEW m \in Living(w), m # w.usteed, w.mon[m].wormno = 0
  PROVE  Rest(place_monster(remove_monster(u_on_newpos(w, w.mon[m].x), w.mon[m].x), m, w.hero))
<1> DEFINE S == Ridden(w)
           A == S \cup {m}
           a == w.mon[m].x
           h == w.hero
           u == u_on_newpos(w, a)
           r == remove_monster(u, a)
           t == place_monster(r, m, h)
<1>1. /\ Good(w, S) /\ w.grid[h] = None /\ h \in Square /\ (w.usteed # None => w.usteed \in S)
      /\ w.usteed # None => /\ w.usteed \in Living(w) /\ w.usteed \in Mon
                            /\ w.mon[w.usteed].shape = "horse" /\ w.mon[w.usteed].wormno = 0
  BY RestParts, WorldParts
<1>2. m \in Mon /\ m \notin S /\ a \in Square /\ w.grid[a] = m /\ a # h /\ m # None
  BY AtHome
<1>3. S = Ridden(w) /\ A = S \cup {m} /\ m \in A /\ A \ {m} = S
  BY <1>2
<1> HIDE DEF S, A
<1>4. Good(u, S) /\ Living(u) = Living(w) /\ Rides(w, u, a)
  BY <1>1, <1>2, NewPos
<1> HIDE DEF u
<1>5. u.mon[m] = w.mon[m] /\ u.grid = w.grid /\ u.hero = a /\ u.usteed = w.usteed
  BY <1>2, <1>4 DEF Rides, Shifts
<1>6. Lifted(u, r, m, S)
  BY <1>2, <1>4, <1>5, Lift
<1> HIDE DEF r
<1>7. /\ Good(r, A) /\ Living(r) = Living(w) /\ r.mon = u.mon /\ r.hero = a /\ r.usteed = w.usteed
      /\ \A q \in Square \cup {0} : r.grid[q] = IF q = a THEN None ELSE w.grid[q]
  BY <1>3, <1>4, <1>5, <1>6 DEF Lifted, SameHero
<1>8. r.mon[m].wormno = 0 /\ m # r.usteed /\ r.grid[h] = None
  BY <1>1, <1>2, <1>5, <1>7
<1>9. Dropped(r, t, m, A, h)
  BY <1>1, <1>3, <1>7, <1>8, Drop
<1> HIDE DEF t
<1>10. /\ Good(t, S) /\ Living(t) = Living(w) /\ t.hero = a /\ t.usteed = w.usteed /\ t.grid[a] = None
       /\ \A k \in Mon \ {m} : t.mon[k] = u.mon[k]
  BY <1>2, <1>3, <1>7, <1>9 DEF Dropped, SameHero, Shifts
<1>11. Riding(t)
  <2> SUFFICES ASSUME w.usteed # None
               PROVE  w.usteed \in Living(t) /\ t.mon[w.usteed].x = a /\ t.mon[w.usteed].shape = "horse" /\ t.mon[w.usteed].wormno = 0
    BY <1>10 DEF Riding
  <2>1. t.mon[w.usteed] = u.mon[w.usteed]
    BY <1>1, <1>10
  <2> QED BY <1>1, <1>4, <1>10, <2>1 DEF Rides, Shifts
<1>12. Rest(t)
  BY <1>3, <1>10, <1>11 DEF Rest, Ridden
<1> QED BY <1>12 DEF t, r, u

(* Swap, with a pet that fits.                                              *)
LEMMA SwapKeeps ==
  ASSUME Deeds \cap {"mishaps", "squeeze"} = {}, MonInv, NEW m, NEW fits \in BOOLEAN, Swap(m, fits)
  PROVE  MonInv'
<1> DEFINE t == place_monster(remove_monster(u_on_newpos(World, World.mon[m].x), World.mon[m].x), m, World.hero)
<1>1. fits /\ OnMap(m) /\ mon[m].shape # "worm" /\ Turn /\ Stays
  BY DEF Swap, MayFit, Does, Beside
<1>2. Become(t)
  BY <1>1, WorldIs DEF Swap
<1>3. Rest(t)
  BY <1>1, OnMapIs, ChangePlaces
<1> HIDE DEF t
<1> QED BY <1>1, <1>2, <1>3, HeroTurnOne

(* The hero gets on.                                                       *)
LEMMA GetsOn ==
  ASSUME NEW w, Rest(w), NEW m \in Living(w), w.usteed = None, w.mon[m].wormno = 0, w.mon[m].shape = "horse"
  PROVE  Rest(teleds([remove_monster(w, w.mon[m].x) EXCEPT !.usteed = m], w.mon[m].x))
<1> DEFINE S == Ridden(w)
           A == {m}
           a == w.mon[m].x
           r == remove_monster(w, a)
           y == [r EXCEPT !.usteed = m]
           v == u_on_newpos(y, a)
<1>1. Good(w, S) /\ w.usteed # m
  BY RestParts, LevelIsFinite, WorldParts
<1>2. m \in Mon /\ m \notin S /\ a \in Square /\ w.grid[a] = m /\ m # None
  BY <1>1, AtHome
<1>3. S \cup {m} = A /\ A = {m}
  BY DEF Ridden
<1> HIDE DEF S, A
<1>4. Lifted(w, r, m, S)
  BY <1>1, <1>2, Lift
<1> HIDE DEF r
<1>5. Good(r, A) /\ r.mon = w.mon /\ r.grid[a] = None /\ Living(r) = Living(w) /\ r \in Worlds
  BY <1>2, <1>3, <1>4, GoodParts DEF Lifted
<1>6. /\ y \in Worlds /\ SameChains(r, y) /\ y.mon = r.mon /\ y.grid = r.grid /\ y.wsegs = r.wsegs /\ y.usteed = m
  BY <1>2, <1>5 DEF Worlds, SameChains
<1> HIDE DEF y
<1>7. Good(y, A) /\ Living(y) = Living(r)
  BY <1>5, <1>6, SameLevel
<1>8. Good(v, A) /\ Living(v) = Living(y) /\ Rides(y, v, a)
  BY <1>2, <1>3, <1>6, <1>7, NewPos
<1> HIDE DEF v
<1>9. v.usteed = m /\ v.hero = a /\ v.grid[a] = None /\ v.mon[m].x = a /\ v.mon[m].shape = "horse" /\ v.mon[m].wormno = 0
  BY <1>2, <1>5, <1>6, <1>8 DEF Rides, Shifts
<1>10. Ridden(v) = A
  BY <1>2, <1>3, <1>9 DEF Ridden
<1>11. Riding(v)
  BY <1>5, <1>7, <1>8, <1>9 DEF Riding
<1>12. Rest(v)
  BY <1>8, <1>9, <1>10, <1>11 DEF Rest
<1> QED BY <1>12 DEF v, y, r, teleds

(* Mount.                                                                   *)
LEMMA MountKeeps ==
  ASSUME MonInv, NEW m, Mount(m)
  PROVE  MonInv'
<1> DEFINE v == teleds([remove_monster(World, World.mon[m].x) EXCEPT !.usteed = m], World.mon[m].x)
<1>1. OnMap(m) /\ World.mon[m].shape = "horse" /\ mon[m].shape # "worm" /\ World.usteed = None /\ Turn /\ Stays /\ Become(v)
  BY WorldIs DEF Mount, Beside
<1>2. Rest(v)
  BY <1>1, OnMapIs, GetsOn
<1> HIDE DEF v
<1> QED BY <1>1, <1>2, HeroTurnOne

(* Whatever the hero does.                                                  *)
LEMMA HeroKeeps ==
  ASSUME Deeds \cap {"mishaps", "squeeze", "limbo"} = {}, MonInv, HeroActs
  PROVE  MonInv'
<1>1. "mishaps" \notin Deeds /\ Deeds \cap {"mishaps", "squeeze"} = {} /\ Deeds \cap {"mishaps", "limbo"} = {}
  OBVIOUS
<1>2. ASSUME NEW m \in Mon, NEW shape \in Shapes,
             Polymorph(m, shape) \/ \E p \in Square : Create(m, shape, p) \/ \E by \in Mon : Revive(m, by, shape, p)
      PROVE  MonInv'
  BY <1>1, <1>2, PolymorphKeeps, CreateKeeps, ReviveKeeps
<1>3. ASSUME NEW m \in Mon, NEW yes \in BOOLEAN, Swap(m, yes) \/ Kill(m, yes)
      PROVE  MonInv'
  BY <1>1, <1>3, SwapKeeps, KillKeeps
<1>4. ASSUME NEW m \in Mon, Teleport(m) \/ Unpoly(m) \/ Mount(m)
      PROVE  MonInv'
  BY <1>1, <1>4, TeleportKeeps, UnpolyKeeps, MountKeeps
<1>5. ASSUME NEW m \in Mon, NEW p \in Square, Cut(m, p) \/ SendsNear(m, p) \/ \E by \in Mon : Clone(m, by, p)
      PROVE  MonInv'
  BY <1>1, <1>5, CutKeeps, SendsNearKeeps, CloneKeeps
<1>6. ASSUME NEW p \in Square, Walk(p) PROVE MonInv'
  BY <1>6, WalkKeeps
<1>7. CASE Dismount \/ SaveAndRestore
  BY <1>1, <1>7, DismountKeeps, SaveAndRestoreKeeps
<1>8. ASSUME NEW followers \in SUBSET Mon, NEW p \in Stairs, Goto(followers, p) PROVE MonInv'
  BY <1>1, <1>8, GotoKeeps
<1> QED BY <1>2, <1>3, <1>4, <1>5, <1>6, <1>7, <1>8 DEF HeroActs

-----------------------------------------------------------------------------
(* What the monsters do.                                                   *)

(* The one whose turn it is.                                               *)
LEMMA MovingIs ==
  ASSUME MonInv, NEW m, Moving(m)
  PROVE  m \in Mon /\ next = m /\ m \in Living(World) /\ Rest(World)
<1>1. m \in Mon /\ next = m /\ mon[m].alive
  BY DEF Moving
<1>2. m \in ToSet(fmon)
  BY <1>1, LevelIsFinite DEF MonInv, NextFits
<1> QED BY <1>1, <1>2, WorldIs DEF Living, MonInv

(* A monster that is somewhere else on the map.                             *)
LEMMA StaysAtRest ==
  ASSUME NEW w, Rest(w), NEW m \in Living(w), m # w.usteed, NEW v, Good(v, Ridden(w)), SameChains(w, v), SameHero(w, v),
         Shifts(w, v, m), v.grid[w.hero] = None
  PROVE  Rests(w, v)
<1>1. w.usteed # None => v.mon[w.usteed] = w.mon[w.usteed]
  BY RestParts, WorldParts DEF Shifts
<1>2. Rest(v)
  BY <1>1, RestMoved
<1> QED BY <1>2 DEF Rests, Remains, SameChains

(* A monster that moves.                                                    *)
LEMMA MovesAway ==
  ASSUME NEW w, Rest(w), NEW m \in Living(w), m # w.usteed, NEW p \in Square, p # w.hero, w.grid[p] = None, NEW v \in m_move(w, m, p)
  PROVE  Rests(w, v) /\ m \in Living(v) /\ m # v.usteed
<1>1. Good(w, Ridden(w)) /\ m \in Living(w) \ Ridden(w) /\ w.grid[w.hero] = None /\ w.hero \in Square
  BY RestParts, WorldParts
<1>2. MovedTo(w, v, m, p, Ridden(w))
  BY <1>1, MMove
<1>3. v.grid[w.hero] = None
  BY <1>1, <1>2 DEF MovedTo
<1> QED BY <1>2, <1>3, StaysAtRest DEF MovedTo, SameHero

(* Onto the square of the hero, who is elsewhere then.                     *)
LEMMA TakesTheSquare ==
  ASSUME NEW w, Rest(w), NEW m \in Living(w), w.usteed = None, m # None, NEW p \in Square, p # w.hero, w.grid[p] = None,
         NEW v \in m_move(w, m, w.hero)
  PROVE  Rests(w, teleds(v, p))
<1>1. Good(w, Ridden(w)) /\ m \in Living(w) \ Ridden(w) /\ w.grid[w.hero] = None /\ w.hero \in Square /\ m # w.usteed
  BY RestParts, WorldParts
<1>2. MovedTo(w, v, m, w.hero, Ridden(w))
  BY <1>1, MMove
<1>3. Good(v, Ridden(v)) /\ Riding(v) /\ v.grid[p] = None /\ Remains(w, v)
  BY <1>2 DEF MovedTo, SameHero, SameChains, Ridden, Riding, Remains
<1>4. Rests(v, u_on_newpos(v, p))
  BY <1>3, RestRides
<1> QED BY <1>3, <1>4 DEF Rests, Remains, teleds

(* Moves.                                                                   *)
LEMMA MovesKeeps ==
  ASSUME MonInv, NEW m, NEW p \in Square, Moves(m, p)
  PROVE  MonInv' /\ Handled(m)
<1> DEFINE worlds == m_move(World, m, p)
<1>1. Moving(m) /\ OnMap(m) /\ Acts(m, worlds)
  BY DEF Moves
<1>2. World.grid[p] = None /\ p # World.hero
  BY NextSquare DEF Moves
<1>3. m \in Mon /\ next = m /\ m \in Living(World) /\ Rest(World) /\ m # World.usteed
  BY <1>1, MovingIs, OnMapIs
<1>4. \A w \in worlds : Rests(World, w)
  BY <1>2, <1>3, MovesAway
<1> QED BY <1>1, <1>3, <1>4, MonTurnStays

(* Cornered.                                                                *)
LEMMA CorneredKeeps ==
  ASSUME MonInv, NEW m, Cornered(m)
  PROVE  MonInv' /\ Handled(m)
<1> DEFINE v == worm_nomove(World, m)
<1>1. Moving(m) /\ OnMap(m) /\ World.mon[m].wormno # 0 /\ Acts(m, {v})
  BY WorldIs DEF Cornered
<1>2. m \in Mon /\ next = m /\ m \in Living(World) /\ Rest(World) /\ m # World.usteed /\ m \notin Ridden(World)
  BY <1>1, MovingIs, OnMapIs
<1>3. Good(World, Ridden(World)) /\ m \in Living(World) \ Ridden(World) /\ World.grid[World.hero] = None /\ World.hero \in Square
  BY <1>2, RestParts, WorldParts
<1>4. /\ Good(v, Ridden(World)) /\ SameChains(World, v) /\ SameHero(World, v) /\ Shifts(World, v, m)
      /\ \A q \in Square \cup {0} : World.grid[q] = None => v.grid[q] = None
  BY <1>1, <1>3, WormNoMove DEF worm_nomove
<1>5. Rests(World, v)
  BY <1>2, <1>3, <1>4, StaysAtRest
<1>6. \A w \in {v} : Rests(World, w)
  BY <1>5
<1> HIDE DEF v
<1> QED BY <1>1, <1>2, <1>6, MonTurnStays

(* LeavesLevel.                                                             *)
LEMMA LeavesLevelKeeps ==
  ASSUME MonInv, NEW m, NEW p \in Square, LeavesLevel(m, p)
  PROVE  MonInv' /\ Handled(m)
<1> DEFINE worlds == {migrate_to_level(w, m) : w \in m_move(World, m, p)}
<1>1. Moving(m) /\ OnMap(m) /\ Acts(m, worlds)
  BY DEF LeavesLevel
<1>2. World.grid[p] = None /\ p # World.hero
  BY NextSquare DEF LeavesLevel
<1>3. m \in Mon /\ next = m /\ m \in Living(World) /\ Rest(World) /\ m # World.usteed
  BY <1>1, MovingIs, OnMapIs
<1>4. ASSUME NEW v \in m_move(World, m, p)
      PROVE  LET w == migrate_to_level(v, m) IN Rest(w) /\ Follows(fmon, w.fmon, m)
  <2>1. Rests(World, v) /\ m \in Living(v) /\ m # v.usteed
    BY <1>2, <1>3, <1>4, MovesAway
  <2>2. v.fmon = fmon /\ Rest(v)
    BY <2>1, WorldIs DEF Rests, Remains
  <2>3. LET w == migrate_to_level(v, m) IN Rest(w) /\ w.fmon = unlinked(v.fmon, {m})
    BY <2>1, <2>2, Migrates
  <2> QED BY <2>2, <2>3 DEF Follows
<1>5. \A w \in worlds : Rest(w) /\ Follows(fmon, w.fmon, m)
  BY <1>4
<1> HIDE DEF worlds
<1> QED BY <1>1, <1>3, <1>5, MonTurn

(* HeroFalls.                                                               *)
LEMMA HeroFallsKeeps ==
  ASSUME MonInv, NEW m, NEW p \in Square, HeroFalls(m, p)
  PROVE  MonInv' /\ Handled(m)
<1> DEFINE worlds == {teleds(w, p) : w \in m_move(World, m, World.hero)}
<1>1. /\ Moving(m) /\ OnMap(m) /\ Acts(m, worlds) /\ World.usteed = None /\ World.grid[p] = None /\ p # World.hero
  BY WorldIs DEF HeroFalls
<1>2. m \in Mon /\ next = m /\ m \in Living(World) /\ Rest(World) /\ m # None
  BY <1>1, MovingIs, OnMapIs
<1>3. \A w \in worlds : Rests(World, w)
  BY <1>1, <1>2, TakesTheSquare
<1> HIDE DEF worlds
<1> QED BY <1>1, <1>2, <1>3, MonTurnStays

(* Who can be attacked.                                                    *)
LEMMA TargetIs ==
  ASSUME MonInv, NEW m, NEW d \in Mon, Target(m, d)
  PROVE  /\ m \in Mon /\ next = m /\ m \in Living(World) /\ Rest(World) /\ m # World.usteed /\ m # d /\ OnMap(m)
         /\ d \in Living(World) /\ (mon[m].shape # "worm" => World.mon[m].wormno = 0)
<1>1. Moving(m) /\ OnMap(m) /\ m # d
  BY DEF Target
<1>2. m \in Mon /\ next = m /\ m \in Living(World) /\ Rest(World) /\ m # World.usteed /\ (mon[m].shape # "worm" => World.mon[m].wormno = 0)
  BY <1>1, MovingIs, OnMapIs
<1>3. d \in Living(World)
  <2>1. CASE OnMap(d)
    BY <2>1, OnMapIs
  <2>2. CASE d = usteed
    BY <1>2, <2>2, RestParts, LevelIsFinite, WorldIs
  <2> QED BY <2>1, <2>2 DEF Target
<1> QED BY <1>1, <1>2, <1>3

(* Displaces.                                                               *)
LEMMA DisplacesKeeps ==
  ASSUME "mishaps" \notin Deeds, MonInv, NEW m, NEW d \in Mon, Displaces(m, d)
  PROVE  MonInv' /\ Handled(m)
<1> DEFINE v == mdisplacem(World, m, d)
<1>1. Target(m, d) /\ OnMap(d) /\ World.mon[m].wormno = 0 /\ World.mon[d].wormno = 0 /\ Acts(m, {v})
  BY WorldIs DEF Displaces, HasNoTail, Does
<1>2. m \in Mon /\ next = m /\ m \in Living(World) /\ Rest(World) /\ m # World.usteed /\ m # d /\ d \in Living(World) /\ d # World.usteed
  BY <1>1, TargetIs, OnMapIs
<1>3. Rests(World, v)
  BY <1>1, <1>2, Displacem
<1>4. \A w \in {v} : Rests(World, w)
  BY <1>3
<1> HIDE DEF v
<1> QED BY <1>1, <1>2, <1>4, MonTurnStays

(* Gulps.                                                                   *)
LEMMA GulpsKeeps ==
  ASSUME "mishaps" \notin Deeds, MonInv, NEW m, NEW d \in Mon, Gulps(m, d)
  PROVE  MonInv' /\ Handled(m)
<1>1. /\ Target(m, d) /\ OnMap(d) /\ mon[m].shape # "worm" /\ mon[d].shape # "worm" /\ Acts(m, gulpmm(World, m, d))
      /\ ~World.mon[m].timer /\ ~World.mon[d].timer
  BY WorldIs DEF Gulps, StaysDead, Does
<1>2. /\ m \in Mon /\ next = m /\ m \in Living(World) /\ Rest(World) /\ m # World.usteed /\ m # d /\ d \in Living(World) /\ d # World.usteed
      /\ World.mon[m].wormno = 0 /\ World.mon[d].wormno = 0
  BY <1>1, TargetIs, OnMapIs
<1>3. \A w \in gulpmm(World, m, d) : Rests(World, w)
  BY <1>1, <1>2, GulpMm
<1> QED BY <1>1, <1>2, <1>3, MonTurnStays

(* Explodes.                                                                *)
LEMMA ExplodesKeeps ==
  ASSUME "mishaps" \notin Deeds, MonInv, NEW m, NEW d \in Mon, NEW dies \in BOOLEAN, Explodes(m, d, dies)
  PROVE  MonInv' /\ Handled(m)
<1>1. Target(m, d) /\ mon[m].shape # "worm" /\ Acts(m, explmm(World, m, d, dies)) /\ ~World.mon[d].timer
  BY WorldIs DEF Explodes, StaysDead, Does
<1>2. /\ m \in Mon /\ next = m /\ m \in Living(World) /\ Rest(World) /\ m # World.usteed /\ m # d /\ d \in Living(World)
      /\ World.mon[m].wormno = 0
  BY <1>1, TargetIs
<1>3. \A w \in explmm(World, m, d, dies) : Rests(World, w)
  BY <1>1, <1>2, ExplMm
<1> QED BY <1>1, <1>2, <1>3, MonTurnStays

(* Kills.                                                                   *)
LEMMA KillsKeeps ==
  ASSUME "mishaps" \notin Deeds, MonInv, NEW m, NEW d \in Mon, Kills(m, d)
  PROVE  MonInv' /\ Handled(m)
<1>1. Target(m, d) /\ Acts(m, mondead(World, d))
  BY DEF Kills
<1>2. m \in Mon /\ next = m /\ Rest(World) /\ d \in Living(World)
  BY <1>1, TargetIs
<1>3. \A w \in mondead(World, d) : Rests(World, w)
  BY <1>2, MonDead
<1> QED BY <1>1, <1>2, <1>3, MonTurnStays

(* Suffers.                                                                 *)
LEMMA SuffersKeeps ==
  ASSUME "mishaps" \notin Deeds, MonInv, NEW m, Suffers(m)
  PROVE  MonInv' /\ Handled(m)
<1>1. m \in Mon /\ next = m /\ m \in Living(World) /\ Rest(World)
  BY MovingIs DEF Suffers
<1>2. \A w \in mondead(World, m) : Rests(World, w)
  BY <1>1, MonDead
<1>3. OnMap(m) => \A w \in rloc(World, m) : Rests(World, w)
  BY <1>1, RestRloc, OnMapIs
<1>4. \A shape \in Shapes : \A w \in polymorphs(World, m, shape) : Rests(World, w)
  BY <1>1, Polymorphs
<1> QED BY <1>1, <1>2, <1>3, <1>4, MonTurnStays DEF Suffers

(* Summons.                                                                 *)
LEMMA SummonsKeeps ==
  ASSUME "mishaps" \notin Deeds, MonInv, NEW m, NEW by, NEW p \in Square, Summons(m, by, p)
  PROVE  MonInv' /\ Handled(m)
<1> DEFINE w == World
           worlds == makemon(w, by, "horse", p) \cup (IF mon[m].shape = "worm" THEN {} ELSE {clone_mon(w, m, by, p)})
<1>1. Moving(m) /\ OnMap(m) /\ Acts(m, worlds) /\ by \in Free(w) /\ w.grid[p] = None /\ p # w.hero /\ by # w.usteed
  BY FreeSquare DEF Summons
<1>2. m \in Mon /\ next = m /\ Rest(w) /\ m \in Living(w) /\ (mon[m].shape # "worm" => w.mon[m].wormno = 0) /\ fmon = w.fmon
  BY <1>1, MovingIs, OnMapIs, WorldIs
<1> HIDE DEF w
<1>3. Good(w, Ridden(w)) /\ w.grid[w.hero] = None
  BY <1>2, RestParts
<1>4. ASSUME NEW v \in worlds PROVE Joined(w, v, by, Ridden(w))
  <2>1. CASE v \in makemon(w, by, "horse", p)
    <3>1. "horse" \in Shapes
      BY DEF Shapes
    <3> QED BY <1>1, <1>3, <2>1, <3>1, MakeMon
  <2>2. CASE mon[m].shape # "worm" /\ v = clone_mon(w, m, by, p)
    BY <1>1, <1>2, <1>3, <2>2, CloneMon
  <2> QED BY <1>4, <2>1, <2>2
<1>5. by \in Mon \ ToSet(fmon)
  BY <1>1, <1>2, <1>3, FreeParts
<1>6. \A v \in worlds : Rest(v) /\ Follows(fmon, v.fmon, m)
  BY <1>1, <1>2, <1>4, <1>5, RestJoined DEF Joined, Follows
<1> HIDE DEF worlds
<1> QED BY <1>1, <1>2, <1>6, MonTurn

(* Waits.                                                                   *)
LEMMA WaitsKeeps ==
  ASSUME MonInv, NEW m, Waits(m)
  PROVE  MonInv' /\ Handled(m)
<1>1. m \in Mon /\ next = m /\ Acts(m, {World})
  BY DEF Waits
<1>2. \A w \in {World} : Rests(World, w)
  BY DEF Rests, Remains, MonInv
<1> QED BY <1>1, <1>2, MonTurnStays

(* StartOfTurn.                                                             *)
LEMMA StartKeeps ==
  ASSUME MonInv, StartOfTurn
  PROVE  MonInv'
<1>1. Rest(World) /\ fmon \in Seq(Mon)
  <2>1. Rest(World)
    BY DEF MonInv
  <2> QED BY <2>1, RestParts, WorldParts, WorldIs
<1>2. Become(World)
  BY WorldIs DEF StartOfTurn, Become
<1>3. next' \in ToSet(fmon) \cup {None, Hero}
  <2>1. CASE fmon = <<>>
    BY <2>1 DEF StartOfTurn
  <2>2. CASE fmon # <<>>
    BY <1>1, <2>2 DEF StartOfTurn, ToSet
  <2> QED BY <2>1, <2>2
<1> QED BY <1>1, <1>2, <1>3, Became, WorldIs

(* EndOfTurn.                                                               *)
LEMMA EndKeeps ==
  ASSUME MonInv, EndOfTurn
  PROVE  MonInv'
<1>1. Rest(dmonsfree(World))
  BY RestFreed DEF MonInv
<1> QED BY <1>1, Became DEF EndOfTurn

(* Whatever a monster does.                                                 *)
LEMMA MovemonKeeps ==
  ASSUME "mishaps" \notin Deeds, MonInv, movemon
  PROVE  MonInv' /\ (next # Hero /\ next # None => next \in Mon /\ Handled(next))
<1> DEFINE Kept(m) == MonInv' /\ next = m /\ Handled(m)
<1>1. CASE StartOfTurn \/ EndOfTurn
  BY <1>1, StartKeeps, EndKeeps DEF StartOfTurn, EndOfTurn, Turn
<1>2. ASSUME NEW m \in Mon, Waits(m) \/ Cornered(m) \/ Suffers(m) PROVE Kept(m)
  <2>1. next = m
    BY <1>2 DEF Waits, Cornered, Suffers, Moving
  <2> QED BY <1>2, <2>1, WaitsKeeps, CorneredKeeps, SuffersKeeps
<1>3. ASSUME NEW m \in Mon, NEW p \in Square, Moves(m, p) \/ LeavesLevel(m, p) \/ HeroFalls(m, p) \/ \E by \in Mon : Summons(m, by, p)
      PROVE  Kept(m)
  <2>1. next = m
    BY <1>3 DEF Moves, LeavesLevel, HeroFalls, Summons, Moving
  <2> QED BY <1>3, <2>1, MovesKeeps, LeavesLevelKeeps, HeroFallsKeeps, SummonsKeeps
<1>4. ASSUME NEW m \in Mon, NEW d \in Mon, Displaces(m, d) \/ Gulps(m, d) \/ Kills(m, d) \/ \E dies \in BOOLEAN : Explodes(m, d, dies)
      PROVE  Kept(m)
  <2>1. next = m
    BY <1>4 DEF Displaces, Gulps, Kills, Explodes, Target, Moving
  <2> QED BY <1>4, <2>1, DisplacesKeeps, GulpsKeeps, KillsKeeps, ExplodesKeeps
<1>5. (\E m \in Mon : Kept(m)) => MonInv' /\ next \in Mon /\ Handled(next)
  OBVIOUS
<1> HIDE DEF Kept
<1> QED BY <1>1, <1>2, <1>3, <1>4, <1>5 DEF movemon

-----------------------------------------------------------------------------
(* The invariant and what follows from it.                                 *)

(* At the start there is nobody.                                            *)
LEMMA InitRests ==
  ASSUME Init
  PROVE  MonInv
<1> DEFINE w == World
           e == <<>>
           f == [n \in Slots |-> <<>>]
           o == there(w)
<1>1. /\ w.mon = [m \in Mon |-> NoMon] /\ w.fmon = e /\ w.migrating = e /\ w.grid = [p \in Square \cup {0} |-> None]
      /\ w.wsegs = f /\ w.usteed = None /\ w.hero = hero /\ w.purge = 0 /\ w.away = [fmon |-> e, wsegs |-> f]
      /\ hero \in Square /\ next = Hero
  BY WorldIs, LevelIsFinite DEF Init
<1>2. e \in Seq(Mon) /\ f \in [Slots -> Seq(Square \cup {0})] /\ ToSet(e) = {} /\ IsInjective(e) /\ \A n \in Slots : f[n] = <<>>
  BY DEF ToSet, IsInjective
<1>3. World \in Worlds
  <2>1. mon \in [Mon -> Struct] /\ fmon \in Seq(Mon) /\ migrating \in Seq(Mon) /\ wsegs \in [Slots -> Seq(Square \cup {0})]
    BY <1>1, <1>2, NoMonIsOne, WorldIs
  <2>2. grid = [p \in Square \cup {0} |-> None] /\ usteed = None /\ hero \in Square /\ purge = 0 /\ away = [fmon |-> e, wsegs |-> f]
    BY <1>1 DEF Init
  <2>3. away \in [fmon : Seq(Mon), wsegs : [Slots -> Seq(Square \cup {0})]]
    <3> HIDE DEF e, f
    <3> QED BY <1>2, <2>2
  <2> QED BY <2>1, <2>2, <2>3 DEF World, Worlds
<1>4. o.fmon = e /\ o.wsegs = f
  BY <1>1, <1>3 DEF there, Worlds
<1>5. Living(w) = {} /\ Living(o) = {} /\ Dead(w) = {} /\ Elsewhere(w) = {}
  BY <1>1, <1>2, <1>4 DEF Living, Dead, Elsewhere
<1> HIDE DEF w, e, f, o
<1>6. Apart(w)
  BY <1>1, <1>2, <1>5 DEF Apart
<1>7. Level(w, {}) /\ Level(o, {})
  <2>1. \A m, n : ~Owns(w, m, n) /\ ~Owns(o, m, n)
    BY <1>5 DEF Owns
  <2> QED BY <1>1, <1>2, <1>4, <1>5, <2>1 DEF Level, Owned
<1>8. Shown(w, {})
  BY <1>1, <1>5, LevelIsFinite DEF Shown, Shows
<1>9. PurgeFits(w)
  BY <1>1, <1>5, FS_EmptySet DEF PurgeFits
<1>10. Away(w)
  <2>1. ToSet(w.away.fmon) = {}
    BY <1>1, <1>2
  <2> QED BY <1>7, <2>1 DEF Away, o
<1>11. Good(w, {})
  <2>1. ToSet(w.migrating) = {}
    BY <1>1, <1>2
  <2> QED BY <1>3, <1>6, <1>7, <1>8, <1>9, <1>10, <2>1 DEF Good, w
<1>12. Rest(w)
  <2>1. Ridden(w) = {}
    BY <1>1 DEF Ridden
  <2> QED BY <1>1, <1>11, <2>1 DEF Rest, Riding
<1> QED BY <1>1, <1>12 DEF MonInv, NextFits, w

(* When nothing happens.                                                    *)
LEMMA StutterKeeps ==
  ASSUME MonInv, UNCHANGED vars
  PROVE  MonInv'
<1>1. Become(World) /\ next' = next /\ World.fmon = fmon
  BY WorldIs DEF Become, vars
<1>2. Rest(World) /\ next' \in ToSet(World.fmon) \cup {None, Hero}
  BY <1>1 DEF MonInv, NextFits
<1> QED BY <1>1, <1>2, Became

(* Without the deeds after which the code itself leaves the level askew: a *)
(* tail that cannot be laid, a hero who does not get past a pet, and a     *)
(* timer that goes off between two levels.                                 *)
NoMishap == Deeds \cap {"mishaps", "squeeze", "limbo"} = {}

(* All is well between any two actions.                                    *)
THEOREM LevelStaysSound ==
  ASSUME NoMishap
  PROVE  Spec => []MonInv
<1>1. Init => MonInv
  BY InitRests
<1>2. MonInv /\ [Next]_vars => MonInv'
  <2> SUFFICES ASSUME MonInv, [Next]_vars PROVE MonInv'
    OBVIOUS
  <2>1. "mishaps" \notin Deeds
    BY DEF NoMishap
  <2>2. CASE HeroActs
    BY <2>2, HeroKeeps DEF NoMishap
  <2>3. CASE movemon
    BY <2>1, <2>3, MovemonKeeps
  <2>4. CASE UNCHANGED vars
    BY <2>4, StutterKeeps
  <2> QED BY <2>2, <2>3, <2>4 DEF Next
<1> QED BY <1>1, <1>2, PTL DEF Spec

(* One list after another.                                                  *)
LEMMA JoinLists ==
  ASSUME NEW T, NEW s \in Seq(T), NEW t \in Seq(T), IsInjective(s), IsInjective(t), ToSet(s) \cap ToSet(t) = {}
  PROVE  s \o t \in Seq(T) /\ IsInjective(s \o t) /\ ToSet(s \o t) = ToSet(s) \cup ToSet(t)
<1> DEFINE u == s \o t
<1>1. u \in Seq(T) /\ Len(s) \in Nat /\ Len(t) \in Nat /\ Len(u) = Len(s) + Len(t)
  OBVIOUS
<1>2. DOMAIN s = 1 .. Len(s) /\ DOMAIN t = 1 .. Len(t) /\ DOMAIN u = 1 .. Len(u)
  BY <1>1
<1>3. \A i \in 1 .. Len(u) : u[i] = IF i <= Len(s) THEN s[i] ELSE t[i - Len(s)]
  OBVIOUS
<1> HIDE DEF u
<1>4. ASSUME NEW i \in 1 .. Len(u)
      PROVE  IF i <= Len(s) THEN i \in 1 .. Len(s) /\ u[i] \in ToSet(s) ELSE i - Len(s) \in 1 .. Len(t) /\ u[i] \in ToSet(t)
  <2>1. CASE i <= Len(s)
    <3>1. i \in 1 .. Len(s) /\ u[i] = s[i]
      BY <1>1, <1>3, <2>1
    <3> QED BY <1>2, <2>1, <3>1 DEF ToSet
  <2>2. CASE ~(i <= Len(s))
    <3>1. i - Len(s) \in 1 .. Len(t)
      BY <1>1, <2>2
    <3>2. u[i] = t[i - Len(s)]
      BY <1>3, <2>2
    <3> QED BY <1>2, <2>2, <3>1, <3>2 DEF ToSet
  <2> QED BY <2>1, <2>2
<1>5. ASSUME NEW i \in 1 .. Len(u), NEW j \in 1 .. Len(u), u[i] = u[j] PROVE i = j
  <2>1. CASE i <= Len(s) /\ j <= Len(s)
    <3>1. s[i] = s[j] /\ i \in DOMAIN s /\ j \in DOMAIN s
      BY <1>2, <1>3, <1>4, <1>5, <2>1
    <3> QED BY <3>1 DEF IsInjective
  <2>2. CASE ~(i <= Len(s)) /\ ~(j <= Len(s))
    <3>1. t[i - Len(s)] = t[j - Len(s)] /\ i - Len(s) \in DOMAIN t /\ j - Len(s) \in DOMAIN t
      BY <1>2, <1>3, <1>4, <1>5, <2>2
    <3>2. i - Len(s) = j - Len(s)
      BY <3>1 DEF IsInjective
    <3> QED BY <1>1, <3>2
  <2>3. CASE i <= Len(s) /\ ~(j <= Len(s))
    BY <1>4, <1>5, <2>3
  <2>4. CASE ~(i <= Len(s)) /\ j <= Len(s)
    BY <1>4, <1>5, <2>4
  <2> QED BY <2>1, <2>2, <2>3, <2>4
<1>6. IsInjective(u)
  BY <1>2, <1>5 DEF IsInjective
<1>7. ToSet(s) \subseteq ToSet(u)
  <2> SUFFICES ASSUME NEW i \in 1 .. Len(s) PROVE s[i] \in ToSet(u)
    BY <1>2 DEF ToSet
  <2>1. i \in 1 .. Len(u) /\ u[i] = s[i]
    BY <1>1, <1>3
  <2> QED BY <1>2, <2>1 DEF ToSet
<1>8. ToSet(t) \subseteq ToSet(u)
  <2> SUFFICES ASSUME NEW i \in 1 .. Len(t) PROVE t[i] \in ToSet(u)
    BY <1>2 DEF ToSet
  <2> DEFINE j == i + Len(s)
  <2>1. j \in 1 .. Len(u) /\ ~(j <= Len(s)) /\ j - Len(s) = i
    BY <1>1
  <2> HIDE DEF j
  <2>2. j \in DOMAIN u /\ u[j] = t[i]
    BY <1>2, <1>3, <2>1
  <2> QED BY <2>2 DEF ToSet
<1>9. ToSet(u) \subseteq ToSet(s) \cup ToSet(t)
  BY <1>2, <1>4 DEF ToSet
<1> QED BY <1>1, <1>6, <1>7, <1>8, <1>9 DEF u

(* What the invariant says, in parts.                                       *)
LEMMA InvParts ==
  ASSUME MonInv
  PROVE  /\ Rest(World) /\ World \in Worlds /\ Good(World, Ridden(World)) /\ Apart(World) /\ Owned(World) /\ PurgeFits(World)
         /\ grid[hero] = None /\ DOMAIN grid = Square \cup {0} /\ None \notin Mon
         /\ ToSet(fmon) \subseteq Mon /\ \A m \in Mon : Shows(World, Ridden(World), m)
         /\ \A m \in Living(World) : m \in Mon /\ Tailed(World, m) /\ (m # usteed => Lies(World, m))
         /\ usteed # None => /\ usteed \in Living(World) /\ mon[usteed].x = hero /\ mon[usteed].wormno = 0
<1>1. Rest(World)
  BY DEF MonInv
<1>2. Good(World, Ridden(World)) /\ World \in Worlds
  BY <1>1, RestParts
<1>3. grid \in [Square \cup {0} -> Mon \cup {None}] /\ ToSet(fmon) \subseteq Mon
  BY <1>2, WorldParts, WorldIs
<1> QED BY <1>1, <1>2, <1>3, RestParts, GoodParts, WorldIs, LevelIsFinite

(* It says what TypeOK says.                                                *)
LEMMA InvTypes ==
  ASSUME MonInv
  PROVE  TypeOK
<1>1. World \in Worlds /\ Apart(World) /\ None \notin Mon
  BY InvParts
<1>2. /\ mon \in [Mon -> Struct] /\ fmon \in Seq(Mon) /\ migrating \in Seq(Mon) /\ away.fmon \in Seq(Mon)
      /\ grid \in [Square \cup {0} -> Mon \cup {None}]
      /\ usteed \in Mon \cup {None} /\ hero \in Square /\ purge \in Nat
      /\ ToSet(fmon) \subseteq Mon /\ ToSet(migrating) \cup ToSet(away.fmon) \subseteq Mon
  BY <1>1, WorldParts, WorldIs DEF Elsewhere
<1>3. /\ IsInjective(fmon) /\ IsInjective(migrating) /\ IsInjective(away.fmon)
      /\ ToSet(fmon) \cap (ToSet(migrating) \cup ToSet(away.fmon)) = {} /\ ToSet(migrating) \cap ToSet(away.fmon) = {}
  BY <1>1, WorldIs DEF Apart, Elsewhere
<1> DEFINE s == fmon \o migrating
<1>4. s \in Seq(Mon) /\ IsInjective(s) /\ ToSet(s) = ToSet(fmon) \cup ToSet(migrating)
  BY <1>2, <1>3, JoinLists
<1> HIDE DEF s
<1>5. IsInjective(s \o away.fmon) /\ ToSet(s \o away.fmon) = ToSet(s) \cup ToSet(away.fmon)
  <2>1. ToSet(s) \cap ToSet(away.fmon) = {}
    BY <1>3, <1>4
  <2> QED BY <1>2, <1>3, <1>4, <2>1, JoinLists
<1>6. next \in Mon \cup {None, Hero}
  BY <1>2 DEF MonInv, NextFits
<1> QED BY <1>2, <1>4, <1>5, <1>6 DEF TypeOK, s

(* And MapAgrees.                                                           *)
LEMMA InvMap ==
  ASSUME MonInv
  PROVE  MapAgrees
<1>1. \A m \in Mon : Shows(World, Ridden(World), m) /\ (m \in Ridden(World) <=> m = usteed)
  BY InvParts, WorldIs DEF Ridden
<1>2. \A p \in DOMAIN grid, m \in Mon : grid[p] = m <=> (m \in Living(World) \ {usteed} /\ p \in Body(World, m))
  BY <1>1, InvParts, WorldIs DEF Shows
<1> QED BY <1>2, InvParts DEF MapAgrees

(* And WormsHaveTails.                                                      *)
LEMMA InvTails ==
  ASSUME MonInv
  PROVE  WormsHaveTails
<1> SUFFICES ASSUME NEW m \in Living(World), mon[m].wormno # 0
             PROVE  /\ mon[m].shape = "worm" /\ mon[m].wormno \in Slots
                    /\ segs(World, m) # <<>> /\ Last(segs(World, m)) = mon[m].x /\ IsInjective(segs(World, m))
  BY DEF WormsHaveTails
<1>1. m # usteed /\ Tailed(World, m) /\ Lies(World, m)
  BY InvParts
<1> QED BY <1>1, WorldIs DEF Tailed, Lies

(* And TailsAreOwned.                                                       *)
LEMMA InvOwned ==
  ASSUME MonInv
  PROVE  TailsAreOwned
<1> SUFFICES ASSUME NEW n \in Slots, wsegs[n] # <<>> PROVE Cardinality({m \in Living(World) : mon[m].wormno = n}) = 1
  BY DEF TailsAreOwned
<1>1. PICK k \in Mon : Owns(World, k, n)
  BY InvParts, WorldIs DEF Owned
<1>2. {m \in Living(World) : mon[m].wormno = n} = {k}
  <2>1. \A m \in Living(World) : mon[m].wormno = n => Owns(World, m, n) /\ m \in Mon
    BY InvParts, WorldIs DEF Owns
  <2>2. \A m \in Mon : Owns(World, m, n) => m = k
    BY <1>1, InvParts DEF Owned
  <2>3. k \in Living(World) /\ mon[k].wormno = n
    BY <1>1, WorldIs DEF Owns
  <2> QED BY <2>1, <2>2, <2>3
<1> QED BY <1>2, FS_Singleton

(* Every struct, chain and map entry is one that can be, and no struct is  *)
(* on two chains.                                                          *)
THEOREM MonTypeCorrect ==
  ASSUME NoMishap
  PROVE  Spec => []TypeOK
<1>1. MonInv => TypeOK
  BY InvTypes
<1> QED BY <1>1, LevelStaysSound, PTL

(* The map shows the living monsters of the chain at their heads and tails, *)
(* and nothing else, and nobody is where the hero is.                       *)
THEOREM MapAgreesAlways ==
  ASSUME NoMishap
  PROVE  Spec => []MapAgrees
<1>1. MonInv => MapAgrees
  BY InvMap
<1> QED BY <1>1, LevelStaysSound, PTL

(* A monster whose wormno is set has a tail in that slot, which ends under  *)
(* its head and crosses itself nowhere.                                     *)
THEOREM WormsKeepTails ==
  ASSUME NoMishap
  PROVE  Spec => []WormsHaveTails
<1>1. MonInv => WormsHaveTails
  BY InvTails
<1> QED BY <1>1, LevelStaysSound, PTL

(* Each slot in use is that of one living monster.                          *)
THEOREM SlotsAreOwned ==
  ASSUME NoMishap
  PROVE  Spec => []TailsAreOwned
<1>1. MonInv => TailsAreOwned
  BY InvOwned
<1> QED BY <1>1, LevelStaysSound, PTL

(* As many of the chain are dead as purge_monsters says.                    *)
THEOREM DeadAreCounted ==
  ASSUME NoMishap
  PROVE  Spec => []PurgeAgrees
<1>1. MonInv => PurgeAgrees
  BY InvParts, WorldIs DEF PurgeFits, Dead, PurgeAgrees
<1> QED BY <1>1, LevelStaysSound, PTL

(* The steed is alive, on the chain and where the hero is.                  *)
THEOREM SteedStaysWithHero ==
  ASSUME NoMishap
  PROVE  Spec => []SteedInStep
<1>1. MonInv => SteedInStep
  BY InvParts DEF SteedInStep
<1> QED BY <1>1, LevelStaysSound, PTL

(* Due, in this state and in the next.                                     *)
LEMMA DueIs == Due(next) = From(fmon, next)
  BY DEF Due, From, Pos

(* The same of the state that follows.                                     *)
LEMMA DueThen == Due(next)' = From(fmon', next')
<1>1. (Due(next) = From(fmon, next))'
  BY DueIs, PTL
<1>2. (From(fmon, next))' = From(fmon', next')
  OBVIOUS
<1> QED BY <1>1, <1>2

(* Each monster that was on the chain when movemon began has its turn,     *)
(* once, and no other has one, whatever becomes of the chain.              *)
THEOREM EachIsHandled ==
  ASSUME NoMishap
  PROVE  Spec => HandlesEach
<1>1. MonInv /\ [Next]_vars => [next # Hero /\ next # None => Due(next)' = Due(next) \ {next}]_vars
  <2> SUFFICES ASSUME MonInv, Next, next # Hero, next # None PROVE Due(next)' = Due(next) \ {next}
    OBVIOUS
  <2>1. "mishaps" \notin Deeds
    BY DEF NoMishap
  <2>2. ~HeroActs
    BY DEF HeroActs, Polymorph, Create, Revive, Walk, Swap, Kill, Teleport, Unpoly, Mount, Cut, SendsNear, Clone, Dismount,
           SaveAndRestore, Goto, Turn
  <2>3. next \in Mon /\ next' = After(fmon, next) /\ Follows(fmon, fmon', next)
    BY <2>1, <2>2, MovemonKeeps DEF Next, Handled
  <2>4. fmon \in Seq(Mon) /\ IsInjective(fmon)
    <3>1. World \in Worlds /\ Apart(World)
      BY InvParts
    <3> QED BY <3>1, WorldParts, WorldIs DEF Apart
  <2>5. next \in ToSet(fmon)
    BY <2>3, LevelIsFinite DEF MonInv, NextFits
  <2>6. From(fmon', After(fmon, next)) = From(fmon, next) \ {next}
    BY <2>3, <2>4, <2>5, DueNext
  <2> QED BY <2>3, <2>6, DueIs, DueThen
<1> QED BY <1>1, LevelStaysSound, PTL DEF Spec, HandlesEach
=============================================================================
