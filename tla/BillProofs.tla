------------------------------ MODULE BillProofs ------------------------------
(***************************************************************************)
(* Proofs about Bill, for any structs, goods, prices, fees and purses, and *)
(* any of the deeds: every variable keeps its type (TypeCorrect); the bill *)
(* and the goods agree wherever the goods have got to (BillsAgree); there  *)
(* is a bill only while the hero and the shopkeeper are both in the shop   *)
(* (BillInside); its prices are those of the day (PricesCurrent); the loan *)
(* is part of the debit (LoansOwed); and the second pass of dopay finds    *)
(* what it counts on (SecondPassBuys).                                     *)
(*                                                                         *)
(* None of these is inductive alone.  That the bill is empty when the hero *)
(* comes in rests on who was told when he left, so the invariant has the   *)
(* room as well: whoever is in it is in u.ushops, or the shopkeeper is not *)
(* there and will look again (Watched).  BillAgrees needs what a free      *)
(* struct looks like, for splitobj and subfrombill take one, and that      *)
(* nothing is both unpaid and free of charge, for addtobill does not bill  *)
(* what is (Formed).  The second pass needs what the first one has done so *)
(* far (Looping).  BillInv is all of it.                                   *)
(*                                                                         *)
(* Each helper of the code is shown to take good worlds to good worlds:    *)
(* Quiet, if only moods, prices and money change; Sound, if goods and      *)
(* entries do; Cleared, if it empties the bill.  The deeds are then        *)
(* compositions of these.  Folds over the bill and over what the hero      *)
(* carries are unfolded by induction on finite sets, which rests on        *)
(* LeastNatural.                                                           *)
(***************************************************************************)
EXTENDS Bill, NatLemmas, FiniteSetTheorems, SequenceTheorems, TLAPS

(* rile_shk adds a third to every price of the bill, rounded, and          *)
(* pacify_shk takes a quarter off again: the two are inverse for every     *)
(* price, so that a quarrel that is made up costs the hero nothing, and    *)
(* nothing is gained by one.                                               *)
THEOREM MoodsCancel == \A p \in Nat : Pacified(Riled(p)) = p
  BY DEF Pacified, Riled

-----------------------------------------------------------------------------
(* Sums over finite sets, as the folds of the community modules make them. *)

(* h is the function that adds f up over the subsets of S.                 *)
Sums(f, S, h) == h = [s \in SUBSET S |-> IF s = {} THEN 0 ELSE h[s \ {SomeOf(s)}] + f[SomeOf(s)]]

(* Sums of natural numbers are natural numbers.                            *)
LEMMA SumsType ==
  ASSUME NEW S, IsFiniteSet(S), NEW f, \A x \in S : f[x] \in Nat, NEW h, Sums(f, S, h)
  PROVE  h \in [SUBSET S -> Nat]
<1> DEFINE B == {s \in SUBSET S : h[s] \notin Nat}
<1>1. h = [s \in SUBSET S |-> h[s]]
  <2> DEFINE e == [s \in SUBSET S |-> IF s = {} THEN 0 ELSE h[s \ {SomeOf(s)}] + f[SomeOf(s)]]
  <2>1. h = e
    BY DEF Sums
  <2>2. e = [s \in SUBSET S |-> e[s]]
    OBVIOUS
  <2> HIDE DEF e
  <2> QED BY <2>1, <2>2
<1>2. SUFFICES B = {}
  <2>1. \A s \in SUBSET S : h[s] \in Nat
    BY <1>2
  <2> HIDE DEF B
  <2> QED BY <1>1, <2>1
<1>3. SUFFICES ASSUME B # {} PROVE FALSE
  OBVIOUS
<1>4. PICK s \in B : \A x \in s : s \ {x} \notin B
  <2>1. B \in SUBSET (SUBSET S)
    OBVIOUS
  <2> HIDE DEF B
  <2> QED BY <1>3, <2>1, SmallestSet
<1>5. s \in SUBSET S /\ h[s] \notin Nat
  OBVIOUS
<1>6. h[s] = IF s = {} THEN 0 ELSE h[s \ {SomeOf(s)}] + f[SomeOf(s)]
  BY <1>5 DEF Sums
<1>7. s # {} /\ SomeOf(s) \in s
  BY <1>5, <1>6, AnyIn
<1>8. h[s \ {SomeOf(s)}] \in Nat /\ f[SomeOf(s)] \in Nat
  BY <1>4, <1>5, <1>7
<1> QED BY <1>5, <1>6, <1>7, <1>8

(* There is such a function.                                               *)
LEMMA SumsExists ==
  ASSUME NEW S, IsFiniteSet(S), NEW f, \A x \in S : f[x] \in Nat
  PROVE  \E h : Sums(f, S, h)
<1> DEFINE pick == [s \in SUBSET S |-> SomeOf(s)]
           step == [p \in S \X Nat |-> p[2] + f[p[1]]]
<1>1. \A s \in SUBSET S : s # {} => pick[s] \in s
  BY AnyIn
<1>2. step \in [S \X Nat -> Nat]
  OBVIOUS
<1>3. \E h : Solution(h, S, Nat, 0, pick, step)
  <2> HIDE DEF pick, step
  <2>1. Recursion(S, Nat, 0, pick, step)
    BY <1>1, <1>2 DEF Recursion
  <2> QED BY <2>1, RecursionOnSet
<1>4. PICK h : Solution(h, S, Nat, 0, pick, step)
  <2> HIDE DEF pick, step
  <2> QED BY <1>3
<1>5. h \in [SUBSET S -> Nat]
  BY <1>4 DEF Solution
<1>6. ASSUME NEW s \in SUBSET S PROVE h[s] = IF s = {} THEN 0 ELSE h[s \ {SomeOf(s)}] + f[SomeOf(s)]
  <2>1. h[s] = IF s = {} THEN 0 ELSE step[<<pick[s], h[s \ {pick[s]}]>>]
    <3> HIDE DEF pick, step
    <3> QED BY <1>4 DEF Solution
  <2>2. s # {} => SomeOf(s) \in S /\ h[s \ {SomeOf(s)}] \in Nat
    BY <1>5, AnyIn
  <2> QED BY <2>1, <2>2
<1> HIDE DEF pick, step
<1>7. h = [s \in SUBSET S |-> IF s = {} THEN 0 ELSE h[s \ {SomeOf(s)}] + f[SomeOf(s)]]
  BY <1>5, <1>6
<1> QED BY <1>7 DEF Sums

(* Any element may be taken first.                                         *)
LEMMA SumsTake ==
  ASSUME NEW S, IsFiniteSet(S), NEW f, \A x \in S : f[x] \in Nat, NEW h, Sums(f, S, h)
  PROVE  \A s \in SUBSET S : \A x \in s : h[s] = h[s \ {x}] + f[x]
<1> DEFINE B == {s \in SUBSET S : \E x \in s : h[s] # h[s \ {x}] + f[x]}
<1>1. h \in [SUBSET S -> Nat]
  BY SumsType
<1>2. SUFFICES B = {}
  BY <1>2
<1>3. SUFFICES ASSUME B # {} PROVE FALSE
  OBVIOUS
<1>4. PICK s \in B : \A x \in s : s \ {x} \notin B
  <2>1. B \in SUBSET (SUBSET S)
    OBVIOUS
  <2> HIDE DEF B
  <2> QED BY <1>3, <2>1, SmallestSet
<1>5. s \in SUBSET S
  OBVIOUS
<1>6. PICK x \in s : h[s] # h[s \ {x}] + f[x]
  OBVIOUS
<1> DEFINE a == SomeOf(s)
<1>7. a \in s /\ h[s] = h[s \ {a}] + f[a]
  <2>1. s # {}
    BY <1>6
  <2> QED BY <1>5, <2>1, AnyIn DEF Sums
<1> HIDE DEF a
<1>8. x # a
  BY <1>6, <1>7
<1>9. h[s \ {a}] = h[(s \ {a}) \ {x}] + f[x]
  <2>1. s \ {a} \in SUBSET S /\ s \ {a} \notin B /\ x \in s \ {a}
    <3> HIDE DEF B
    <3> QED BY <1>4, <1>5, <1>6, <1>7, <1>8
  <2> QED BY <2>1
<1>10. h[s \ {x}] = h[(s \ {x}) \ {a}] + f[a]
  <2>1. s \ {x} \in SUBSET S /\ s \ {x} \notin B /\ a \in s \ {x}
    <3> HIDE DEF B
    <3> QED BY <1>4, <1>5, <1>6, <1>7, <1>8
  <2> QED BY <2>1
<1>11. (s \ {x}) \ {a} = (s \ {a}) \ {x} /\ (s \ {x}) \ {a} \in SUBSET S
  BY <1>5
<1>12. f[x] \in Nat /\ f[a] \in Nat /\ h[(s \ {x}) \ {a}] \in Nat
  BY <1>1, <1>5, <1>6, <1>7, <1>11
<1> DEFINE u == h[(s \ {x}) \ {a}]
<1>13. h[s \ {a}] = u + f[x] /\ h[s \ {x}] = u + f[a]
  BY <1>9, <1>10, <1>11
<1>14. u \in Nat /\ f[x] \in Nat /\ f[a] \in Nat
  BY <1>12
<1> HIDE DEF u, B
<1>15. h[s] = h[s \ {x}] + f[x]
  BY <1>7, <1>13, <1>14
<1> QED BY <1>6, <1>15

(* Two functions that agree on S add up to the same.                       *)
LEMMA SumsAgree ==
  ASSUME NEW S, IsFiniteSet(S), NEW f, NEW g, \A x \in S : f[x] = g[x],
         NEW h, Sums(f, S, h), NEW k, Sums(g, S, k)
  PROVE  h[S] = k[S]
<1> DEFINE B == {s \in SUBSET S : h[s] # k[s]}
<1>1. SUFFICES B = {}
  BY <1>1
<1>2. SUFFICES ASSUME B # {} PROVE FALSE
  OBVIOUS
<1>3. PICK s \in B : \A x \in s : s \ {x} \notin B
  <2>1. B \in SUBSET (SUBSET S)
    OBVIOUS
  <2> HIDE DEF B
  <2> QED BY <1>2, <2>1, SmallestSet
<1>4. s \in SUBSET S /\ h[s] # k[s]
  OBVIOUS
<1>5. h[s] = IF s = {} THEN 0 ELSE h[s \ {SomeOf(s)}] + f[SomeOf(s)]
  BY <1>4 DEF Sums
<1>6. k[s] = IF s = {} THEN 0 ELSE k[s \ {SomeOf(s)}] + g[SomeOf(s)]
  BY <1>4 DEF Sums
<1>7. s # {} /\ SomeOf(s) \in s
  BY <1>4, <1>5, <1>6, AnyIn
<1>8. h[s \ {SomeOf(s)}] = k[s \ {SomeOf(s)}] /\ f[SomeOf(s)] = g[SomeOf(s)]
  BY <1>3, <1>4, <1>7
<1> QED BY <1>4, <1>5, <1>6, <1>7, <1>8

(* The sum of f over S.                                                    *)
Sum(f, S) == LET h == CHOOSE h : Sums(f, S, h) IN h[S]

(* f restricted to T: what is summed over a subset.                        *)
LEMMA SumRules ==
  ASSUME NEW S, IsFiniteSet(S), NEW f, \A x \in S : f[x] \in Nat
  PROVE  /\ Sum(f, S) \in Nat
         /\ S = {} => Sum(f, S) = 0
         /\ \A x \in S : Sum(f, S) = Sum(f, S \ {x}) + f[x]
<1> DEFINE h == CHOOSE h : Sums(f, S, h)
<1>1. Sums(f, S, h)
  BY SumsExists
<1>2. Sum(f, S) = h[S]
  BY DEF Sum
<1> HIDE DEF h
<1>3. h \in [SUBSET S -> Nat]
  BY <1>1, SumsType
<1>4. h[{}] = 0
  <2>1. {} \in SUBSET S
    OBVIOUS
  <2> QED BY <1>1, <2>1 DEF Sums
<1>5. ASSUME NEW x \in S PROVE Sum(f, S) = Sum(f, S \ {x}) + f[x]
  <2> DEFINE T == S \ {x}
             k == CHOOSE k : Sums(f, T, k)
             c == [s \in SUBSET T |-> h[s]]
  <2>1. IsFiniteSet(T) /\ T \in SUBSET S /\ S \in SUBSET S
    BY FS_RemoveElement
  <2>2. Sums(f, T, k)
    BY <2>1, SumsExists
  <2>3. Sum(f, T) = k[T]
    BY DEF Sum
  <2> HIDE DEF k
  <2>4. Sums(f, T, c)
    <3>1. \A s \in SUBSET T : s \in SUBSET S /\ s \ {SomeOf(s)} \in SUBSET T
      OBVIOUS
    <3>2. \A s \in SUBSET T : h[s] = IF s = {} THEN 0 ELSE h[s \ {SomeOf(s)}] + f[SomeOf(s)]
      BY <1>1, <3>1 DEF Sums
    <3>3. \A s \in SUBSET T : c[s] = IF s = {} THEN 0 ELSE c[s \ {SomeOf(s)}] + f[SomeOf(s)]
      BY <3>1, <3>2
    <3>4. c = [s \in SUBSET T |-> c[s]]
      OBVIOUS
    <3> HIDE DEF c
    <3>5. c = [s \in SUBSET T |-> IF s = {} THEN 0 ELSE c[s \ {SomeOf(s)}] + f[SomeOf(s)]]
      BY <3>3, <3>4
    <3> QED BY <3>5 DEF Sums
  <2>5. c[T] = k[T]
    <3> HIDE DEF c
    <3> QED BY <2>1, <2>2, <2>4, SumsAgree
  <2>6. c[T] = h[T]
    BY <2>1
  <2>7. h[S] = h[T] + f[x]
    BY <1>1, <2>1, SumsTake
  <2> QED BY <1>2, <2>3, <2>5, <2>6, <2>7
<1> QED BY <1>2, <1>3, <1>4, <1>5

LEMMA SumSame ==
  ASSUME NEW S, IsFiniteSet(S), NEW f, NEW g, \A x \in S : f[x] \in Nat /\ f[x] = g[x]
  PROVE  Sum(f, S) = Sum(g, S)
<1>1. Sums(f, S, CHOOSE h : Sums(f, S, h))
  BY SumsExists
<1>2. \A x \in S : g[x] \in Nat
  OBVIOUS
<1>3. Sums(g, S, CHOOSE h : Sums(g, S, h))
  BY <1>2, SumsExists
<1> QED BY <1>1, <1>3, SumsAgree DEF Sum

-----------------------------------------------------------------------------
(* The inductive invariant.                                                *)

(* The entries of a bill, the shopkeepers, and the worlds of Bill with     *)
(* their types.                                                            *)
Lines   == [bo_id : Obj, bquan : Nat, price : Nat, useup : BOOLEAN]
Keepers == [gold : Nat, credit : Nat, debit : Nat, loan : Nat, robbed : Nat, bill : Seq(Lines),
            bill_p : {"null", "own", "dump"}, peaceful : BOOLEAN, surcharge : BOOLEAN,
            following : BOOLEAN, awake : BOOLEAN, at : {"shop", "out", "dead"}]
Worlds  == [obj : [Obj -> Struct], shk : Keepers, umoney : Nat, till : Nat, ushops : BOOLEAN]

Entered(w, o) == \E i \in DOMAIN w.shk.bill : w.shk.bill[i].bo_id = o

(* A free struct is blank, and what is not paid for is not free of charge. *)
Formed(s) == /\ s.where = "none" => s = NoObj
             /\ s.where # "none" => s.quan > 0
             /\ s.unpaid => ~s.no_charge

(* The entry bp is in order if s is its object.                            *)
Backs(bp, s) == /\ bp.bquan > 0
                /\ bp.useup <=> s.where = "onbill"
                /\ bp.useup \/ (s.unpaid /\ s.quan \in 1 .. bp.bquan)

(* BillAgrees, of the structs and the entries.                             *)
Match(f, L) ==
  /\ f \in [Obj -> Struct] /\ \A o \in Obj : Formed(f[o])
  /\ L \in SUBSET Lines /\ \A l, m \in L : l.bo_id = m.bo_id => l = m
  /\ \A o \in Obj : f[o].unpaid \/ f[o].where = "onbill" => \E l \in L : l.bo_id = o
  /\ \A l \in L : Backs(l, f[l.bo_id])

(* The entries of the bill b, no two for one object, and BillAgrees for f  *)
(* and b.                                                                  *)
Lof(b)       == {b[i] : i \in DOMAIN b}
Distinct(b)  == \A i, j \in DOMAIN b : b[i].bo_id = b[j].bo_id => i = j
Agreed(f, b) == b \in Seq(Lines) /\ Distinct(b) /\ Match(f, Lof(b))

(* PricesAgree and LoanIsOwed, of a world, and the part of the invariant   *)
(* that says nothing of places.                                            *)
Priced(w) == \A i \in DOMAIN w.shk.bill : w.shk.bill[i].price = get_cost(w)
Lent(w)   == w.shk.loan <= w.shk.debit

Good(w)   == w \in Worlds /\ Agreed(w.obj, w.shk.bill) /\ Priced(w) /\ Lent(w)

(* BillStaysInside, of a world.                                            *)
Inside(w) == w.shk.bill # <<>> => w.ushops /\ w.shk.at = "shop" /\ w.shk.bill_p = "own"

(* Whoever is in the room is in the books of a shopkeeper who is there;    *)
(* one who is not will look again when he comes back.                      *)
Watched(w, p) ==
  InRoom(p) /\ ~w.ushops => w.shk.at # "shop" /\ (w.shk.at = "out" => w.shk.bill_p = "dump")

-----------------------------------------------------------------------------
(* The bill as a sequence.                                                 *)

(* drop_entry: the last entry takes the place of the one that goes.        *)
LEMMA LastGoesFirst ==
  ASSUME NEW b \in Seq(Lines), NEW i \in DOMAIN b
  PROVE  /\ Front([b EXCEPT ![i] = Last(b)]) \in Seq(Lines)
         /\ Len(Front([b EXCEPT ![i] = Last(b)])) = Len(b) - 1
         /\ \A j \in 1 .. Len(b) - 1 : Front([b EXCEPT ![i] = Last(b)])[j] = IF j = i THEN b[Len(b)] ELSE b[j]
<1> DEFINE c == [b EXCEPT ![i] = Last(b)]
<1>1. DOMAIN b = 1 .. Len(b) /\ Len(b) \in Nat /\ Len(b) > 0
  OBVIOUS
<1>2. c \in Seq(Lines) /\ Len(c) = Len(b) /\ \A j \in 1 .. Len(b) : c[j] = IF j = i THEN b[Len(b)] ELSE b[j]
  <2>1. c \in [1 .. Len(b) -> Lines]
    BY <1>1 DEF Last
  <2> QED BY <1>1, <2>1, IsASeq DEF Last
<1> HIDE DEF c
<1>3. Front(c) = SubSeq(c, 1, Len(c) - 1)
  BY DEF Front
<1>4. SubSeq(c, 1, Len(c) - 1) \in Seq(Lines) /\ Len(SubSeq(c, 1, Len(c) - 1)) = Len(c) - 1
      /\ \A j \in 1 .. Len(c) - 1 : SubSeq(c, 1, Len(c) - 1)[j] = c[j]
  BY <1>1, <1>2, SubSeqProperties
<1>5. /\ Front(c) \in Seq(Lines) /\ Len(Front(c)) = Len(b) - 1
      /\ \A j \in 1 .. Len(b) - 1 : Front(c)[j] = IF j = i THEN b[Len(b)] ELSE b[j]
  BY <1>1, <1>2, <1>3, <1>4
<1> QED BY <1>5 DEF c

(* h makes the bill over the subsets of its indices, as FoldLeft does:     *)
(* each price p becomes r[p].                                              *)
Reprices(b, r, h) ==
  h = [s \in SUBSET DOMAIN b |->
         IF s = {} THEN <<>> ELSE Append(h[s \ {Max(s)}], [b[Max(s)] EXCEPT !.price = r[b[Max(s)].price]])]

(* The greatest of 1 .. n is n.                                            *)
LEMMA LastOfMany ==
  ASSUME NEW n \in Nat, n > 0
  PROVE  Max(1 .. n) = n /\ (1 .. n) \ {n} = 1 .. n - 1
<1>1. n \in 1 .. n /\ \A y \in 1 .. n : n >= y
  OBVIOUS
<1>2. \A x \in 1 .. n : (\A y \in 1 .. n : x >= y) => x = n
  OBVIOUS
<1>3. Max(1 .. n) = n
  BY <1>1, <1>2 DEF Max
<1> QED BY <1>3

(* A set of indices has a greatest.                                        *)
LEMMA GreatestOfMany ==
  ASSUME NEW n \in Nat, NEW s \in SUBSET (1 .. n), s # {}
  PROVE  Max(s) \in s
<1>1. s \in SUBSET Nat /\ \A i \in s : i <= n
  OBVIOUS
<1>2. PICK m \in s : \A i \in s : i <= m
  BY <1>1, GreatestNatural
<1>3. \A i \in s : m >= i
  BY <1>1, <1>2
<1> QED BY <1>3 DEF Max

(* There is such a function.                                               *)
LEMMA RepricesExists ==
  ASSUME NEW b \in Seq(Lines), NEW r \in [Nat -> Nat]
  PROVE  \E h : Reprices(b, r, h)
<1>1. DOMAIN b = 1 .. Len(b) /\ Len(b) \in Nat /\ IsFiniteSet(DOMAIN b)
  BY FS_Interval
<1> DEFINE pick == [s \in SUBSET DOMAIN b |-> Max(s)]
           step == [p \in (DOMAIN b) \X Seq(Lines) |-> Append(p[2], [b[p[1]] EXCEPT !.price = r[b[p[1]].price]])]
<1>2. \A s \in SUBSET DOMAIN b : s # {} => pick[s] \in s
  BY <1>1, GreatestOfMany
<1>3. step \in [(DOMAIN b) \X Seq(Lines) -> Seq(Lines)]
  <2>1. ASSUME NEW i \in DOMAIN b, NEW c \in Seq(Lines)
        PROVE  Append(c, [b[i] EXCEPT !.price = r[b[i].price]]) \in Seq(Lines)
    <3>1. b[i] \in Lines
      OBVIOUS
    <3>2. [b[i] EXCEPT !.price = r[b[i].price]] \in Lines
      BY <3>1 DEF Lines
    <3> QED BY <3>2
  <2> QED BY <2>1
<1>4. \E h : Solution(h, DOMAIN b, Seq(Lines), <<>>, pick, step)
  <2>1. <<>> \in Seq(Lines)
    OBVIOUS
  <2> HIDE DEF pick, step
  <2>2. Recursion(DOMAIN b, Seq(Lines), <<>>, pick, step)
    BY <1>1, <1>2, <1>3, <2>1 DEF Recursion
  <2> QED BY <2>2, RecursionOnSet
<1>12. PICK h : Solution(h, DOMAIN b, Seq(Lines), <<>>, pick, step)
  <2> HIDE DEF pick, step
  <2> QED BY <1>4
<1>5. ASSUME NEW s \in SUBSET DOMAIN b, s # {}
      PROVE  h[s] = Append(h[s \ {Max(s)}], [b[Max(s)] EXCEPT !.price = r[b[Max(s)].price]])
  <2>1. pick[s] = Max(s) /\ Max(s) \in DOMAIN b
    BY <1>2, <1>5
  <2>2. h[s] = step[<<Max(s), h[s \ {Max(s)}]>>]
    <3> HIDE DEF pick, step
    <3> QED BY <1>12, <1>5, <2>1 DEF Solution
  <2>3. h[s \ {Max(s)}] \in Seq(Lines)
    <3> HIDE DEF pick, step
    <3> QED BY <1>12 DEF Solution
  <2> QED BY <2>1, <2>2, <2>3
<1>6. ASSUME NEW s \in SUBSET DOMAIN b, s = {} PROVE h[s] = <<>>
  <2> HIDE DEF pick, step
  <2> QED BY <1>12, <1>6 DEF Solution
<1> HIDE DEF pick, step
<1>7. h = [s \in SUBSET DOMAIN b |->
             IF s = {} THEN <<>> ELSE Append(h[s \ {Max(s)}], [b[Max(s)] EXCEPT !.price = r[b[Max(s)].price]])]
  <2>1. \A s \in SUBSET DOMAIN b : h[s] = IF s = {} THEN <<>>
                                   ELSE Append(h[s \ {Max(s)}], [b[Max(s)] EXCEPT !.price = r[b[Max(s)].price]])
    BY <1>5, <1>6
  <2>2. h \in [SUBSET DOMAIN b -> Seq(Lines)]
    BY <1>12 DEF Solution
  <2> QED BY <2>1, <2>2
<1> QED BY <1>7 DEF Reprices

(* It makes bills.                                                         *)
LEMMA RepricesType ==
  ASSUME NEW b \in Seq(Lines), NEW r \in [Nat -> Nat], NEW h, Reprices(b, r, h)
  PROVE  h \in [SUBSET DOMAIN b -> Seq(Lines)]
<1>1. DOMAIN b = 1 .. Len(b) /\ Len(b) \in Nat /\ IsFiniteSet(DOMAIN b)
  BY FS_Interval
<1> DEFINE B == {s \in SUBSET DOMAIN b : h[s] \notin Seq(Lines)}
<1>2. SUFFICES B = {}
  <2>1. \A s \in SUBSET DOMAIN b : h[s] \in Seq(Lines)
    BY <1>2
  <2>2. \E e : h = [s \in SUBSET DOMAIN b |-> e[s]]
    <3> DEFINE e == [s \in SUBSET DOMAIN b |->
         IF s = {} THEN <<>> ELSE Append(h[s \ {Max(s)}], [b[Max(s)] EXCEPT !.price = r[b[Max(s)].price]])]
    <3>1. h = e
      BY DEF Reprices
    <3>2. e = [s \in SUBSET DOMAIN b |-> e[s]]
      OBVIOUS
    <3> HIDE DEF e
    <3> QED BY <3>1, <3>2
  <2> HIDE DEF B
  <2> QED BY <2>1, <2>2
<1>3. SUFFICES ASSUME B # {} PROVE FALSE
  OBVIOUS
<1>4. PICK s \in B : \A x \in s : s \ {x} \notin B
  <2>1. B \in SUBSET (SUBSET DOMAIN b)
    OBVIOUS
  <2> HIDE DEF B
  <2> QED BY <1>1, <1>3, <2>1, SmallestSet
<1>5. s \in SUBSET DOMAIN b /\ h[s] \notin Seq(Lines)
  OBVIOUS
<1>6. h[{}] = <<>>
  <2>1. {} \in SUBSET DOMAIN b
    OBVIOUS
  <2> QED BY <2>1 DEF Reprices
<1>7. s # {}
  <2>1. <<>> \in Seq(Lines)
    OBVIOUS
  <2> QED BY <1>5, <1>6, <2>1
<1>8. Max(s) \in s /\ Max(s) \in DOMAIN b
  BY <1>1, <1>5, <1>7, GreatestOfMany
<1>9. h[s \ {Max(s)}] \in Seq(Lines)
  BY <1>4, <1>5, <1>8
<1>10. h[s] = Append(h[s \ {Max(s)}], [b[Max(s)] EXCEPT !.price = r[b[Max(s)].price]])
  BY <1>5, <1>7 DEF Reprices
<1>11. [b[Max(s)] EXCEPT !.price = r[b[Max(s)].price]] \in Lines
  <2>1. b[Max(s)] \in Lines
    BY <1>8
  <2> QED BY <2>1 DEF Lines
<1> QED BY <1>5, <1>9, <1>10, <1>11

(* raised and lowered change the prices and nothing else.                  *)
Mapped(b, r, c) == Len(c) = Len(b) /\ \A i \in DOMAIN b : c[i] = [b[i] EXCEPT !.price = r[b[i].price]]

(* And the bill it makes of all the indices is the old one at the new      *)
(* prices.                                                                 *)
LEMMA Repriced ==
  ASSUME NEW b \in Seq(Lines), NEW r \in [Nat -> Nat],
         NEW h \in [SUBSET DOMAIN b -> Seq(Lines)], Reprices(b, r, h)
  PROVE  Mapped(b, r, h[DOMAIN b])
<1> DEFINE Right(n) == Len(h[1 .. n]) = n /\ \A i \in 1 .. n : h[1 .. n][i] = [b[i] EXCEPT !.price = r[b[i].price]]
           Wrong == {n \in 0 .. Len(b) : ~Right(n)}
<1>1. DOMAIN b = 1 .. Len(b) /\ Len(b) \in Nat
  OBVIOUS
<1>2. SUFFICES Wrong = {}
  <2>1. Len(b) \in 0 .. Len(b) /\ Len(b) \notin Wrong
    <3> HIDE DEF Right, Wrong
    <3> QED BY <1>1, <1>2
  <2>2. Right(Len(b))
    <3> HIDE DEF Right
    <3> QED BY <2>1
  <2> QED BY <1>1, <2>2 DEF Right, Mapped
<1>3. SUFFICES ASSUME Wrong # {} PROVE FALSE
  OBVIOUS
<1>4. PICK n \in Wrong : \A k \in Wrong : n <= k
  <2>1. Wrong \in SUBSET Nat
    BY <1>1
  <2> HIDE DEF Wrong
  <2> QED BY <1>3, <2>1, LeastNatural
<1> HIDE DEF Right
<1>5. n \in 0 .. Len(b)
  OBVIOUS
<1>11. ~Right(n)
  OBVIOUS
<1> HIDE DEF Wrong
<1> n \in Nat
  BY <1>1, <1>5
<1>6. n > 0
  <2>1. 1 .. 0 = {} /\ {} \in SUBSET DOMAIN b
    OBVIOUS
  <2>2. h[1 .. 0] = <<>>
    BY <2>1 DEF Reprices
  <2>3. Right(0)
    BY <2>2 DEF Right
  <2> QED BY <1>5, <2>3, <1>11
<1>7. Right(n - 1)
  <2>1. n - 1 \notin Wrong /\ n - 1 \in 0 .. Len(b)
    <3>1. n - 1 \notin Wrong
      BY <1>4, <1>6
    <3> QED BY <3>1, <1>5, <1>6, <1>1
  <2> QED BY <2>1 DEF Wrong
<1> DEFINE s == 1 .. n
           e == [b[n] EXCEPT !.price = r[b[n].price]]
<1>8. s \in SUBSET DOMAIN b /\ s # {} /\ Max(s) = n /\ s \ {n} = 1 .. n - 1 /\ n \in DOMAIN b
  <2>1. s \in SUBSET DOMAIN b /\ n \in s /\ n \in DOMAIN b
    BY <1>1, <1>5, <1>6
  <2> QED BY <2>1, <1>6, LastOfMany
<1>9. h[s] = Append(h[1 .. n - 1], e) /\ h[1 .. n - 1] \in Seq(Lines) /\ e \in Lines
  <2>1. h[s] = Append(h[s \ {Max(s)}], [b[Max(s)] EXCEPT !.price = r[b[Max(s)].price]])
    BY <1>8 DEF Reprices
  <2>2. b[n] \in Lines
    BY <1>8
  <2>3. e \in Lines
    BY <2>2 DEF Lines
  <2>4. 1 .. n - 1 \in SUBSET DOMAIN b
    BY <1>8
  <2> QED BY <2>1, <2>3, <2>4, <1>8
<1>10. Right(n)
  <2> DEFINE g == h[1 .. n - 1]
  <2>1. Len(g) = n - 1 /\ \A i \in 1 .. n - 1 : g[i] = [b[i] EXCEPT !.price = r[b[i].price]]
    BY <1>7 DEF Right
  <2>2. g \in Seq(Lines) /\ h[s] = Append(g, e) /\ e \in Lines
    BY <1>9
  <2> HIDE DEF g, e
  <2>3. Len(Append(g, e)) = n /\ \A i \in 1 .. n : Append(g, e)[i] = IF i = n THEN e ELSE g[i]
    <3>1. Len(g) = n - 1
      BY <2>1
    <3>2. Len(Append(g, e)) = Len(g) + 1 /\ \A i \in 1 .. Len(g) : Append(g, e)[i] = g[i]
      BY <2>2, AppendProperties
    <3>3. Append(g, e)[Len(g) + 1] = e
      BY <2>2, AppendProperties
    <3>4. \A i \in 1 .. n : i = n \/ i \in 1 .. n - 1
      BY <1>6
    <3>5. Len(g) + 1 = n
      BY <3>1
    <3> QED BY <3>1, <3>2, <3>3, <3>4, <3>5
  <2>4. \A i \in 1 .. n : h[s][i] = [b[i] EXCEPT !.price = r[b[i].price]]
    <3>1. \A i \in 1 .. n : i # n => i \in 1 .. n - 1
      BY <1>6
    <3>2. ASSUME NEW i \in 1 .. n, i # n PROVE h[s][i] = [b[i] EXCEPT !.price = r[b[i].price]]
      BY <2>1, <2>2, <2>3, <3>1, <3>2
    <3>3. n \in 1 .. n /\ h[s][n] = e
      BY <2>2, <2>3, <1>6
    <3> QED BY <3>2, <3>3 DEF e
  <2> QED BY <2>2, <2>3, <2>4 DEF Right
<1> QED BY <1>11, <1>10

(* The two changes of prices as functions.                                 *)
Riling    == [p \in Nat |-> Riled(p)]
Pacifying == [p \in Nat |-> Pacified(p)]

(* They are functions on the natural numbers, and one undoes the other.    *)
LEMMA Moods == Riling \in [Nat -> Nat] /\ Pacifying \in [Nat -> Nat] /\ \A p \in Nat : Pacified(Riled(p)) = p
  BY DEF Riled, Pacified, Riling, Pacifying

(* Two bills that differ by prices only.                                   *)
Alike(b, c) ==
  /\ b \in Seq(Lines) /\ c \in Seq(Lines) /\ Len(c) = Len(b)
  /\ \A i \in DOMAIN b : c[i].bo_id = b[i].bo_id /\ c[i].bquan = b[i].bquan /\ c[i].useup = b[i].useup

(* What is repriced is alike.                                              *)
LEMMA RepricedIs ==
  ASSUME NEW b \in Seq(Lines), NEW r \in [Nat -> Nat], NEW h, Reprices(b, r, h)
  PROVE  Alike(b, h[DOMAIN b]) /\ Mapped(b, r, h[DOMAIN b])
<1>1. h \in [SUBSET DOMAIN b -> Seq(Lines)]
  BY RepricesType
<1>2. Mapped(b, r, h[DOMAIN b])
  BY <1>1, Repriced
<1>3. \A i \in DOMAIN b : h[DOMAIN b][i] = [b[i] EXCEPT !.price = r[b[i].price]] /\ b[i] \in Lines
  <2>1. \A i \in DOMAIN b : b[i] \in Lines
    OBVIOUS
  <2> QED BY ONLY <1>2, <2>1 DEF Mapped
<1>4. h[DOMAIN b] \in Seq(Lines)
  BY <1>1
<1> QED BY <1>2, <1>3, <1>4 DEF Alike, Lines, Mapped

(* The prices are numbers.                                                 *)
LEMMA KnownPrices ==
  ASSUME NEW b \in Seq(Lines)
  PROVE  \A s \in SUBSET DOMAIN b : s # {} => b[Max(s)].price \in Nat
<1>1. DOMAIN b = 1 .. Len(b) /\ Len(b) \in Nat
  OBVIOUS
<1>2. \A i \in DOMAIN b : b[i].price \in Nat
  <2>1. \A i \in DOMAIN b : b[i] \in Lines
    OBVIOUS
  <2> QED BY <2>1 DEF Lines
<1> QED BY <1>1, <1>2, GreatestOfMany

(* What rile_shk and pacify_shk make of a bill.                            *)
LEMMA RaisedIs ==
  ASSUME NEW b \in Seq(Lines)
  PROVE  Alike(b, raised(b)) /\ \A i \in DOMAIN b : raised(b)[i].price = Riled(b[i].price)
<1>1. \A h : Reprices(b, Riling, h) <=>
               h = [s \in SUBSET DOMAIN b |->
                      IF s = {} THEN <<>> ELSE Append(h[s \ {Max(s)}], [b[Max(s)] EXCEPT !.price = Riled(b[Max(s)].price)])]
  <2>1. \A s \in SUBSET DOMAIN b : s # {} => Riling[b[Max(s)].price] = Riled(b[Max(s)].price)
    BY KnownPrices DEF Riling
  <2> QED BY <2>1 DEF Reprices
<1>2. PICK f : f = [s \in SUBSET DOMAIN b |->
                      IF s = {} THEN <<>> ELSE Append(f[s \ {Max(s)}], [b[Max(s)] EXCEPT !.price = Riled(b[Max(s)].price)])]
  BY <1>1, RepricesExists, Moods
<1>3. \E h : /\ h = [s \in SUBSET DOMAIN b |->
                      IF s = {} THEN <<>> ELSE Append(h[s \ {Max(s)}], [b[Max(s)] EXCEPT !.price = Riled(b[Max(s)].price)])]
             /\ raised(b) = h[DOMAIN b]
  BY <1>2 DEF raised, FoldLeft, MapThenFoldSet
<1>4. PICK h : Reprices(b, Riling, h) /\ raised(b) = h[DOMAIN b]
  BY <1>1, <1>3
<1>5. Alike(b, h[DOMAIN b]) /\ Mapped(b, Riling, h[DOMAIN b])
  BY <1>4, Moods, RepricedIs
<1>6. \A i \in DOMAIN b : b[i] \in Lines
  OBVIOUS
<1>7. ASSUME NEW i \in DOMAIN b PROVE raised(b)[i].price = Riled(b[i].price)
  <2>1. b[i] \in Lines /\ b[i].price \in Nat
    BY ONLY <1>6, i \in DOMAIN b DEF Lines
  <2>2. raised(b)[i] = [b[i] EXCEPT !.price = Riling[b[i].price]]
    BY ONLY <1>4, <1>5, i \in DOMAIN b DEF Mapped
  <2>3. Riling[b[i].price] = Riled(b[i].price)
    BY ONLY <2>1 DEF Riling
  <2> QED BY ONLY <2>1, <2>2, <2>3 DEF Lines
<1> QED BY <1>4, <1>5, <1>7

(* pacify_shk lowers every price and changes nothing else.                 *)
LEMMA LoweredIs ==
  ASSUME NEW b \in Seq(Lines)
  PROVE  Alike(b, lowered(b)) /\ \A i \in DOMAIN b : lowered(b)[i].price = Pacified(b[i].price)
<1>1. \A h : Reprices(b, Pacifying, h) <=>
               h = [s \in SUBSET DOMAIN b |->
                      IF s = {} THEN <<>> ELSE Append(h[s \ {Max(s)}], [b[Max(s)] EXCEPT !.price = Pacified(b[Max(s)].price)])]
  <2>1. \A s \in SUBSET DOMAIN b : s # {} => Pacifying[b[Max(s)].price] = Pacified(b[Max(s)].price)
    BY KnownPrices DEF Pacifying
  <2> QED BY <2>1 DEF Reprices
<1>2. PICK f : f = [s \in SUBSET DOMAIN b |->
                      IF s = {} THEN <<>> ELSE Append(f[s \ {Max(s)}], [b[Max(s)] EXCEPT !.price = Pacified(b[Max(s)].price)])]
  BY <1>1, RepricesExists, Moods
<1>3. \E h : /\ h = [s \in SUBSET DOMAIN b |->
                      IF s = {} THEN <<>> ELSE Append(h[s \ {Max(s)}], [b[Max(s)] EXCEPT !.price = Pacified(b[Max(s)].price)])]
             /\ lowered(b) = h[DOMAIN b]
  BY <1>2 DEF lowered, FoldLeft, MapThenFoldSet
<1>4. PICK h : Reprices(b, Pacifying, h) /\ lowered(b) = h[DOMAIN b]
  BY <1>1, <1>3
<1>5. Alike(b, h[DOMAIN b]) /\ Mapped(b, Pacifying, h[DOMAIN b])
  BY <1>4, Moods, RepricedIs
<1>6. \A i \in DOMAIN b : b[i] \in Lines
  OBVIOUS
<1>7. ASSUME NEW i \in DOMAIN b PROVE lowered(b)[i].price = Pacified(b[i].price)
  <2>1. b[i] \in Lines /\ b[i].price \in Nat
    BY ONLY <1>6, i \in DOMAIN b DEF Lines
  <2>2. lowered(b)[i] = [b[i] EXCEPT !.price = Pacifying[b[i].price]]
    BY ONLY <1>4, <1>5, i \in DOMAIN b DEF Mapped
  <2>3. Pacifying[b[i].price] = Pacified(b[i].price)
    BY ONLY <2>1 DEF Pacifying
  <2> QED BY ONLY <2>1, <2>2, <2>3 DEF Lines
<1> QED BY <1>4, <1>5, <1>7

(* The place of an object on the bill.                                     *)
LEMMA OnbillIs ==
  ASSUME NEW w, w.shk.bill \in Seq(Lines), NEW o
  PROVE  /\ onbill(w, o) \in 0 .. Len(w.shk.bill)
         /\ onbill(w, o) # 0 => onbill(w, o) \in DOMAIN w.shk.bill /\ w.shk.bill[onbill(w, o)].bo_id = o
         /\ onbill(w, o) = 0 <=> ~Entered(w, o)
<1> DEFINE b == w.shk.bill
           I == {i \in 1 .. Len(b) : b[i].bo_id = o}
<1>1. DOMAIN b = 1 .. Len(b) /\ Len(b) \in Nat
  OBVIOUS
<1>2. onbill(w, o) = IF I # {} THEN Min(I) ELSE 0
  BY DEF onbill, SelectInSeq
<1>3. CASE I = {}
  BY <1>1, <1>2, <1>3 DEF Entered
<1>4. CASE I # {}
  <2>1. I \in SUBSET Nat
    BY <1>1
  <2>2. \E m \in I : \A n \in I : m <= n
    <3> HIDE DEF I
    <3> QED BY <1>4, <2>1, LeastNatural
  <2>3. Min(I) \in I
    <3> HIDE DEF I
    <3> QED BY <2>2 DEF Min
  <2> DEFINE m == Min(I)
  <2>4. m \in 1 .. Len(b) /\ b[m].bo_id = o
    BY <2>3
  <2>5. onbill(w, o) = m
    BY <1>2, <1>4
  <2> HIDE DEF m, I
  <2>6. m # 0 /\ m \in DOMAIN b
    BY <1>1, <2>4
  <2> QED BY <1>1, <2>4, <2>5, <2>6 DEF Entered
<1> QED BY <1>3, <1>4

-----------------------------------------------------------------------------
(* Moods and money.                                                        *)

(* What each entry comes to.                                               *)
Costs(bill) == [i \in DOMAIN bill |-> bill[i].price * bill[i].bquan]

(* addupbill is the sum of these, and a natural number.                    *)
LEMMA TotalIs ==
  ASSUME NEW b \in Seq(Lines)
  PROVE  IsFiniteSet(DOMAIN b) /\ (\A i \in DOMAIN b : Costs(b)[i] \in Nat) /\ Total(b) = Sum(Costs(b), DOMAIN b) /\ Total(b) \in Nat
<1>1. DOMAIN b = 1 .. Len(b) /\ Len(b) \in Nat /\ IsFiniteSet(DOMAIN b)
  BY FS_Interval
<1>2. \A i \in DOMAIN b : Costs(b)[i] = b[i].price * b[i].bquan /\ Costs(b)[i] \in Nat
  <2>1. \A i \in DOMAIN b : b[i] \in Lines
    OBVIOUS
  <2>2. \A i \in DOMAIN b : b[i].price \in Nat /\ b[i].bquan \in Nat
    BY <2>1 DEF Lines
  <2>3. \A m, n \in Nat : m * n \in Nat
    OBVIOUS
  <2> QED BY <2>2, <2>3 DEF Costs
<1>3. \A h : Sums(Costs(b), DOMAIN b, h) <=>
             h = [s \in SUBSET DOMAIN b |->
                    IF s = {} THEN 0 ELSE h[s \ {SomeOf(s)}] + b[SomeOf(s)].price * b[SomeOf(s)].bquan]
  <2>1. \A s \in SUBSET DOMAIN b : s # {} => SomeOf(s) \in DOMAIN b
    BY AnyIn
  <2> QED BY <1>2, <2>1 DEF Sums
<1>9. PICK f : Sums(Costs(b), DOMAIN b, f)
  BY <1>1, <1>2, SumsExists
<1>4. f = [s \in SUBSET DOMAIN b |->
                    IF s = {} THEN 0 ELSE f[s \ {SomeOf(s)}] + b[SomeOf(s)].price * b[SomeOf(s)].bquan]
  BY <1>3, <1>9
<1>5. \E h : /\ h = [s \in SUBSET DOMAIN b |->
                    IF s = {} THEN 0 ELSE h[s \ {SomeOf(s)}] + b[SomeOf(s)].price * b[SomeOf(s)].bquan]
             /\ Total(b) = h[DOMAIN b]
  BY <1>4 DEF Total, FoldSeq, FoldFunction, FoldFunctionOnSet, MapThenFoldSet, SomeOf
<1>6. PICK h : Sums(Costs(b), DOMAIN b, h) /\ Total(b) = h[DOMAIN b]
  BY <1>3, <1>5
<1>7. Sums(Costs(b), DOMAIN b, CHOOSE k : Sums(Costs(b), DOMAIN b, k))
  BY <1>1, <1>2, SumsExists
<1>8. Total(b) = Sum(Costs(b), DOMAIN b)
  BY <1>1, <1>6, <1>7, SumsAgree DEF Sum
<1> QED BY <1>1, <1>2, <1>8, SumRules

(* Nothing but moods, prices and money change.                             *)
Quiet(w, v) ==
  /\ w \in Worlds /\ v \in Worlds /\ v.obj = w.obj /\ v.ushops = w.ushops
  /\ v.shk.at = w.shk.at /\ v.shk.bill_p = w.shk.bill_p
  /\ Alike(w.shk.bill, v.shk.bill)
  /\ Priced(w) => Priced(v)
  /\ Lent(w) => Lent(v)

(* The types of the parts of a world.                                      *)
LEMMA WorldParts ==
  ASSUME NEW w \in Worlds
  PROVE  /\ w.shk \in Keepers /\ w.shk.bill \in Seq(Lines) /\ w.obj \in [Obj -> Struct]
         /\ w.umoney \in Nat /\ w.till \in Nat /\ w.ushops \in BOOLEAN
         /\ w.shk.gold \in Nat /\ w.shk.credit \in Nat /\ w.shk.debit \in Nat /\ w.shk.loan \in Nat /\ w.shk.robbed \in Nat
         /\ w.shk.peaceful \in BOOLEAN /\ w.shk.surcharge \in BOOLEAN
         /\ \A i \in DOMAIN w.shk.bill : w.shk.bill[i] \in Lines
         /\ DOMAIN w.shk.bill = 1 .. Len(w.shk.bill) /\ Len(w.shk.bill) \in Nat
  BY DEF Worlds, Keepers

(* A bill is like itself.                                                  *)
LEMMA AlikeSame == \A b \in Seq(Lines) : Alike(b, b)
  BY DEF Alike

(* w with its keeper and the money changed.                                *)
With(w, s, m, t) == [w EXCEPT !.shk = s, !.umoney = m, !.till = t]

(* Nothing else is.                                                        *)
LEMMA WithIs ==
  ASSUME NEW w \in Worlds, NEW s \in Keepers, NEW m \in Nat, NEW t \in Nat
  PROVE  /\ With(w, s, m, t) \in Worlds /\ With(w, s, m, t).obj = w.obj /\ With(w, s, m, t).ushops = w.ushops
         /\ With(w, s, m, t).shk = s /\ With(w, s, m, t).umoney = m /\ With(w, s, m, t).till = t
  BY DEF With, Worlds

(* The entries stay, the money may change.                                 *)
BillKept(k, s) ==
  /\ s \in Keepers /\ s.at = k.at /\ s.bill_p = k.bill_p /\ s.bill = k.bill /\ s.surcharge = k.surcharge
  /\ k.loan <= k.debit => s.loan <= s.debit

(* Taking and giving money is quiet.                                       *)
LEMMA QuietMoney ==
  ASSUME NEW w \in Worlds, NEW s, BillKept(w.shk, s), NEW m \in Nat, NEW t \in Nat
  PROVE  Quiet(w, With(w, s, m, t)) /\ With(w, s, m, t).shk = s
<1>1. Alike(w.shk.bill, s.bill)
  BY WorldParts, AlikeSame DEF BillKept
<1> QED BY <1>1, WithIs DEF Quiet, Priced, Lent, get_cost, BillKept

(* Nothing at all is quiet,                                                *)
LEMMA QuietSelf == \A w \in Worlds : Quiet(w, w)
  BY WorldParts, AlikeSame DEF Quiet

(* and so are two quiet changes in turn.                                   *)
LEMMA QuietTrans ==
  ASSUME NEW u, NEW v, NEW w, Quiet(u, v), Quiet(v, w)
  PROVE  Quiet(u, w)
<1>1. Alike(u.shk.bill, w.shk.bill)
  <2>1. DOMAIN u.shk.bill = DOMAIN v.shk.bill
    BY WorldParts DEF Quiet, Alike
  <2> QED BY <2>1 DEF Quiet, Alike
<1> QED BY <1>1 DEF Quiet

(* pacify_shk lowers the prices of the bill if he had raised them: what he *)
(* would ask is lowered as well.                                           *)
LEMMA QuietPacify ==
  ASSUME NEW w \in Worlds
  PROVE  Quiet(w, pacify_shk(w))
<1> DEFINE v == pacify_shk(w)
           b == IF w.shk.surcharge THEN lowered(w.shk.bill) ELSE w.shk.bill
           s == [w.shk EXCEPT !.peaceful = TRUE, !.surcharge = FALSE, !.bill = b]
<1>1. v = With(w, s, w.umoney, w.till)
  BY WorldParts DEF pacify_shk, With, Worlds, Keepers
<1>2. Alike(w.shk.bill, b) /\ b \in Seq(Lines)
  BY WorldParts, LoweredIs, AlikeSame DEF Alike
<1>3. Priced(w) => \A i \in DOMAIN b : b[i].price = Price
  <2>1. DOMAIN b = DOMAIN w.shk.bill
    BY <1>2 DEF Alike
  <2>2. w.shk.surcharge => \A i \in DOMAIN w.shk.bill : b[i].price = Pacified(w.shk.bill[i].price)
    BY WorldParts, LoweredIs
  <2>3. Pacified(Riled(Price)) = Price
    BY AmountsAreNatural, Moods
  <2> QED BY <2>1, <2>2, <2>3 DEF Priced, get_cost
<1> HIDE DEF b
<1>4. v \in Worlds /\ v.obj = w.obj /\ v.ushops = w.ushops /\ v.shk.at = w.shk.at /\ v.shk.bill_p = w.shk.bill_p
      /\ v.shk.bill = b /\ v.shk.surcharge = FALSE /\ v.shk.loan = w.shk.loan /\ v.shk.debit = w.shk.debit
  <2>1. s \in Keepers /\ s.at = w.shk.at /\ s.bill_p = w.shk.bill_p /\ s.bill = b /\ s.surcharge = FALSE /\ s.loan = w.shk.loan /\ s.debit = w.shk.debit
    BY <1>2, WorldParts DEF Keepers
  <2> HIDE DEF s, v
  <2> DEFINE u == With(w, s, w.umoney, w.till)
  <2>3. u \in Worlds /\ u.obj = w.obj /\ u.ushops = w.ushops /\ u.shk = s
    <3>1. w.umoney \in Nat /\ w.till \in Nat
      BY WorldParts
    <3>2. s \in Keepers
      BY <2>1
    <3> QED BY <3>1, <3>2, WithIs
  <2> HIDE DEF u
  <2>2. v \in Worlds /\ v.obj = w.obj /\ v.ushops = w.ushops /\ v.shk = s
    BY <1>1, <2>3 DEF u
  <2> QED BY <2>1, <2>2
<1> HIDE DEF v, s
<1>5. Priced(w) => Priced(v)
  BY <1>3, <1>4 DEF Priced, get_cost
<1> QED BY <1>2, <1>4, <1>5 DEF Quiet, Lent, v

(* And rile_shk raises them, once.                                         *)
LEMMA QuietRile ==
  ASSUME NEW w \in Worlds
  PROVE  Quiet(w, rile_shk(w))
<1> DEFINE v == rile_shk(w)
           b == IF w.shk.surcharge THEN w.shk.bill ELSE raised(w.shk.bill)
           s == [w.shk EXCEPT !.peaceful = FALSE, !.surcharge = TRUE, !.bill = b]
<1>1. v = With(w, s, w.umoney, w.till)
  BY WorldParts DEF rile_shk, With, Worlds, Keepers
<1>2. Alike(w.shk.bill, b) /\ b \in Seq(Lines)
  BY WorldParts, RaisedIs, AlikeSame DEF Alike
<1>3. Priced(w) => \A i \in DOMAIN b : b[i].price = Riled(Price)
  <2>1. DOMAIN b = DOMAIN w.shk.bill
    BY <1>2 DEF Alike
  <2>2. ~w.shk.surcharge => \A i \in DOMAIN w.shk.bill : b[i].price = Riled(w.shk.bill[i].price)
    BY WorldParts, RaisedIs
  <2> QED BY <2>1, <2>2 DEF Priced, get_cost
<1> HIDE DEF b
<1>4. v \in Worlds /\ v.obj = w.obj /\ v.ushops = w.ushops /\ v.shk.at = w.shk.at /\ v.shk.bill_p = w.shk.bill_p
      /\ v.shk.bill = b /\ v.shk.surcharge = TRUE /\ v.shk.loan = w.shk.loan /\ v.shk.debit = w.shk.debit
  <2>1. s \in Keepers /\ s.at = w.shk.at /\ s.bill_p = w.shk.bill_p /\ s.bill = b /\ s.surcharge = TRUE /\ s.loan = w.shk.loan /\ s.debit = w.shk.debit
    BY <1>2, WorldParts DEF Keepers
  <2> HIDE DEF s, v
  <2> DEFINE u == With(w, s, w.umoney, w.till)
  <2>3. u \in Worlds /\ u.obj = w.obj /\ u.ushops = w.ushops /\ u.shk = s
    <3>1. w.umoney \in Nat /\ w.till \in Nat
      BY WorldParts
    <3>2. s \in Keepers
      BY <2>1
    <3> QED BY <3>1, <3>2, WithIs
  <2> HIDE DEF u
  <2>2. v \in Worlds /\ v.obj = w.obj /\ v.ushops = w.ushops /\ v.shk = s
    BY <1>1, <2>3 DEF u
  <2> QED BY <2>1, <2>2
<1> HIDE DEF v, s
<1>5. Priced(w) => Priced(v)
  BY <1>3, <1>4 DEF Priced, get_cost
<1> QED BY <1>2, <1>4, <1>5 DEF Quiet, Lent, v

(* shop_keeper brings the surcharge up to date.                            *)
LEMMA QuietLook ==
  ASSUME NEW w \in Worlds
  PROVE  Quiet(w, shop_keeper(w))
  BY QuietPacify, QuietRile, QuietSelf, WorldParts DEF shop_keeper

(* Waking him and making him follow.                                       *)
LEMMA QuietMoods ==
  ASSUME NEW w \in Worlds
  PROVE  Quiet(w, rouse_shk(w)) /\ Quiet(w, hot_pursuit(w)) /\ hot_pursuit(w).shk.peaceful = FALSE
<1>1. Quiet(w, rouse_shk(w))
  <2> DEFINE s == [w.shk EXCEPT !.awake = TRUE]
  <2>1. rouse_shk(w) = With(w, s, w.umoney, w.till)
    BY DEF rouse_shk, With, Worlds
  <2>2. BillKept(w.shk, s)
    BY WorldParts DEF Keepers, BillKept
  <2> HIDE DEF s
  <2> QED BY <2>1, <2>2, QuietMoney, WorldParts
<1>2. Quiet(rile_shk(w), hot_pursuit(w))
  <2> DEFINE u == rile_shk(w)
             s == [u.shk EXCEPT !.following = TRUE]
  <2>1. u \in Worlds
    BY QuietRile DEF Quiet
  <2> HIDE DEF u
  <2>2. [u EXCEPT !.shk.following = TRUE] = With(u, s, u.umoney, u.till)
    BY <2>1 DEF With, Worlds
  <2>3. BillKept(u.shk, s)
    BY <2>1, WorldParts DEF Keepers, BillKept
  <2> HIDE DEF s
  <2>4. Quiet(u, [u EXCEPT !.shk.following = TRUE])
    BY <2>1, <2>2, <2>3, QuietMoney, WorldParts
  <2> QED BY <2>4 DEF u, hot_pursuit
<1>3. hot_pursuit(w).shk.peaceful = FALSE
  BY WorldParts DEF hot_pursuit, rile_shk, Worlds, Keepers
<1> QED BY <1>1, <1>2, <1>3, QuietRile, QuietTrans

(* The lesser of two.                                                      *)
LEMMA MinOfTwo ==
  ASSUME NEW a \in Nat, NEW b \in Nat
  PROVE  Min({a, b}) = IF a <= b THEN a ELSE b
<1> DEFINE m == IF a <= b THEN a ELSE b
<1>1. m \in {a, b} /\ \A y \in {a, b} : m <= y
  OBVIOUS
<1>2. \A x \in {a, b} : (\A y \in {a, b} : x <= y) => x = m
  OBVIOUS
<1> HIDE DEF m
<1>3. Min({a, b}) = m
  BY <1>1, <1>2 DEF Min
<1> QED BY <1>3 DEF m

(* check_credit takes from the credit what is there.                       *)
LEMMA QuietCredit ==
  ASSUME NEW w \in Worlds, NEW a \in Nat
  PROVE  /\ Quiet(w, check_credit(w, a).world) /\ check_credit(w, a).left \in Nat
         /\ w.shk.credit = 0 => check_credit(w, a).left = a
         /\ check_credit(w, a).world.shk.loan = w.shk.loan /\ check_credit(w, a).world.shk.debit = w.shk.debit
<1> DEFINE used == Min({a, w.shk.credit})
           s == [w.shk EXCEPT !.credit = @ - used]
<1>1. used = IF a <= w.shk.credit THEN a ELSE w.shk.credit
  BY WorldParts, MinOfTwo
<1>2. w.shk.credit \in Nat /\ w.umoney \in Nat /\ w.till \in Nat /\ w.shk \in Keepers
  BY WorldParts
<1>3. used \in Nat /\ a - used \in Nat /\ w.shk.credit - used \in Nat /\ (w.shk.credit = 0 => a - used = a)
  BY <1>1, <1>2
<1>4. check_credit(w, a).left = a - used /\ check_credit(w, a).world = [w EXCEPT !.shk.credit = @ - used]
  BY DEF check_credit
<1> HIDE DEF used
<1>5. [w EXCEPT !.shk.credit = @ - used] = With(w, s, w.umoney, w.till)
  BY DEF With, Worlds
<1>6. BillKept(w.shk, s) /\ s.loan = w.shk.loan /\ s.debit = w.shk.debit
  BY <1>2, <1>3 DEF Keepers, BillKept
<1> HIDE DEF s
<1>7. Quiet(w, With(w, s, w.umoney, w.till)) /\ With(w, s, w.umoney, w.till).shk = s
  BY <1>2, <1>6, QuietMoney
<1> QED BY <1>3, <1>4, <1>5, <1>6, <1>7

(* money2mon.                                                              *)
LEMMA QuietHands ==
  ASSUME NEW w \in Worlds, NEW a \in Nat
  PROVE  /\ Quiet(w, money2mon(w, a))
         /\ money2mon(w, a).shk.loan = w.shk.loan /\ money2mon(w, a).shk.debit = w.shk.debit
<1> DEFINE s == [w.shk EXCEPT !.gold = @ + a]
<1>1. w.shk.gold \in Nat /\ w.umoney \in Nat /\ w.till \in Nat /\ w.shk \in Keepers
  BY WorldParts
<1>2. CASE w.umoney < a
  BY <1>2, QuietSelf DEF money2mon
<1>3. CASE ~(w.umoney < a)
  <2>1. money2mon(w, a) = With(w, s, w.umoney - a, w.till)
    BY <1>3 DEF money2mon, With, Worlds
  <2>2. w.umoney - a \in Nat /\ w.shk.gold + a \in Nat
    BY <1>1, <1>3
  <2>3. BillKept(w.shk, s) /\ s.loan = w.shk.loan /\ s.debit = w.shk.debit
    BY <1>1, <2>2 DEF Keepers, BillKept
  <2> HIDE DEF s
  <2>4. Quiet(w, With(w, s, w.umoney - a, w.till)) /\ With(w, s, w.umoney - a, w.till).shk = s
    BY <1>1, <2>2, <2>3, QuietMoney
  <2> QED BY <2>1, <2>3, <2>4
<1> QED BY <1>2, <1>3

(* Robbed, debit or loan change, and nothing else.                         *)
LEMMA QuietDebts ==
  ASSUME NEW w \in Worlds, NEW r \in Nat, NEW d \in Nat, NEW l \in Nat, w.shk.loan <= w.shk.debit => l <= d
  PROVE  Quiet(w, [w EXCEPT !.shk.robbed = r, !.shk.debit = d, !.shk.loan = l])
<1> DEFINE s == [w.shk EXCEPT !.robbed = r, !.debit = d, !.loan = l]
<1>1. w.umoney \in Nat /\ w.till \in Nat /\ w.shk \in Keepers
  BY WorldParts
<1>2. [w EXCEPT !.shk.robbed = r, !.shk.debit = d, !.shk.loan = l] = With(w, s, w.umoney, w.till)
  BY <1>1 DEF With, Worlds, Keepers
<1>3. BillKept(w.shk, s)
  BY <1>1 DEF Keepers, BillKept
<1> HIDE DEF s
<1> QED BY <1>1, <1>2, <1>3, QuietMoney

(* A debt changed alone.                                                   *)
LEMMA SameDebts ==
  ASSUME NEW w \in Worlds, NEW r
  PROVE  /\ [w EXCEPT !.shk.robbed = r] = [w EXCEPT !.shk.robbed = r, !.shk.debit = w.shk.debit, !.shk.loan = w.shk.loan]
         /\ [w EXCEPT !.shk.debit = r] = [w EXCEPT !.shk.robbed = w.shk.robbed, !.shk.debit = r, !.shk.loan = w.shk.loan]
<1>1. w.shk \in Keepers
  BY WorldParts
<1>2. [w.shk EXCEPT !.robbed = r] = [w.shk EXCEPT !.robbed = r, !.debit = w.shk.debit, !.loan = w.shk.loan]
  BY <1>1 DEF Keepers
<1>3. [w.shk EXCEPT !.debit = r] = [w.shk EXCEPT !.robbed = w.shk.robbed, !.debit = r, !.loan = w.shk.loan]
  BY <1>1 DEF Keepers
<1> QED BY <1>2, <1>3 DEF Worlds

(* What was robbed,                                                        *)
LEMMA QuietRobbed ==
  ASSUME NEW w \in Worlds, NEW r \in Nat
  PROVE  Quiet(w, [w EXCEPT !.shk.robbed = r])
<1> DEFINE d == w.shk.debit
           l == w.shk.loan
<1>1. d \in Nat /\ l \in Nat /\ (w.shk.loan <= w.shk.debit => l <= d)
  BY WorldParts
<1>2. [w EXCEPT !.shk.robbed = r] = [w EXCEPT !.shk.robbed = r, !.shk.debit = d, !.shk.loan = l]
  BY SameDebts
<1> HIDE DEF d, l
<1>3. Quiet(w, [w EXCEPT !.shk.robbed = r, !.shk.debit = d, !.shk.loan = l])
  BY <1>1, QuietDebts
<1> QED BY <1>2, <1>3

(* and what is owed, which may only become more.                           *)
LEMMA QuietDebit ==
  ASSUME NEW w \in Worlds, NEW d \in Nat, d >= w.shk.debit
  PROVE  Quiet(w, [w EXCEPT !.shk.debit = d])
<1> DEFINE r == w.shk.robbed
           l == w.shk.loan
<1>1. r \in Nat /\ l \in Nat /\ (w.shk.loan <= w.shk.debit => l <= d)
  <2>1. w.shk.robbed \in Nat /\ w.shk.loan \in Nat /\ w.shk.debit \in Nat
    BY ONLY w \in Worlds, WorldParts
  <2> HIDE DEF r, l
  <2>2. r = w.shk.robbed /\ l = w.shk.loan
    BY DEF r, l
  <2> QED BY ONLY <2>1, <2>2, d \in Nat, d >= w.shk.debit
<1>2. [w EXCEPT !.shk.debit = d] = [w EXCEPT !.shk.robbed = r, !.shk.debit = d, !.shk.loan = l]
  BY SameDebts
<1> HIDE DEF r, l
<1>3. Quiet(w, [w EXCEPT !.shk.robbed = r, !.shk.debit = d, !.shk.loan = l])
  BY <1>1, QuietDebts
<1> QED BY <1>2, <1>3

(* pay.                                                                    *)
LEMMA QuietPay ==
  ASSUME NEW w \in Worlds, NEW a \in Nat
  PROVE  Quiet(w, pay(w, a)) 
<1> DEFINE c == check_credit(w, a)
           u == money2mon(c.world, c.left)
           r == IF u.shk.robbed > a THEN u.shk.robbed - a ELSE 0
<1>1. Quiet(w, c.world) /\ c.left \in Nat /\ c.world \in Worlds
  BY QuietCredit DEF Quiet
<1>2. pay(w, a) = [u EXCEPT !.shk.robbed = IF @ > a THEN @ - a ELSE 0]
  BY DEF pay
<1> HIDE DEF c
<1>3. Quiet(c.world, u) /\ u \in Worlds
  BY <1>1, QuietHands DEF Quiet
<1> HIDE DEF u
<1>4. r \in Nat
  BY <1>3, WorldParts
<1>5. pay(w, a) = [u EXCEPT !.shk.robbed = r]
  BY <1>2, <1>3 DEF Worlds
<1> HIDE DEF r
<1>6. Quiet(u, pay(w, a))
  BY <1>3, <1>4, <1>5, QuietRobbed
<1> QED BY <1>1, <1>3, <1>6, QuietTrans

(* get_cost asks for something.                                            *)
LEMMA CostIsNatural ==
  ASSUME NEW w PROVE get_cost(w) \in Nat /\ get_cost(w) > 0
  BY AmountsAreNatural DEF get_cost, Riled

(* stolen_value charges, and does not touch the bill.                      *)
LEMMA QuietStolen ==
  ASSUME NEW w \in Worlds, NEW o \in Obj, NEW p \in BOOLEAN
  PROVE  Quiet(w, stolen_value(w, o, p))
<1> DEFINE v     == shop_keeper(w)
           value == w.obj[o].quan * get_cost(v)
           c     == check_credit(v, value)
<1>1. Quiet(w, v) /\ v \in Worlds
  BY QuietLook DEF Quiet
<1>2. value \in Nat
  <2>1. w.obj[o].quan \in Nat
    BY WorldParts DEF Struct
  <2>2. \A m, n \in Nat : m * n \in Nat
    OBVIOUS
  <2> QED BY <2>1, <2>2, CostIsNatural
<1>3. stolen_value(w, o, p) = IF ~inhishop(w) \/ onbill(w, o) # 0 \/ w.obj[o].no_charge THEN v
      ELSE IF ~p THEN hot_pursuit([v EXCEPT !.shk.robbed = @ + value])
      ELSE IF c.world.shk.peaceful THEN [c.world EXCEPT !.shk.debit = @ + c.left]
      ELSE [c.world EXCEPT !.shk.robbed = @ + c.left]
  BY DEF stolen_value
<1> HIDE DEF value, v
<1>4. Quiet(v, c.world) /\ c.left \in Nat /\ c.world \in Worlds
  BY <1>1, <1>2, QuietCredit DEF Quiet
<1> HIDE DEF c
<1>5. Quiet(w, c.world)
  BY <1>1, <1>4, QuietTrans
<1>6. CASE ~inhishop(w) \/ onbill(w, o) # 0 \/ w.obj[o].no_charge
  BY <1>1, <1>3, <1>6
<1>7. CASE ~(~inhishop(w) \/ onbill(w, o) # 0 \/ w.obj[o].no_charge) /\ ~p
  <2> DEFINE u == [v EXCEPT !.shk.robbed = @ + value]
  <2>1. v.shk.robbed + value \in Nat
    BY <1>1, <1>2, WorldParts
  <2>2. u = [v EXCEPT !.shk.robbed = v.shk.robbed + value]
    BY <1>1 DEF Worlds
  <2>3. Quiet(v, u) /\ u \in Worlds
    BY <1>1, <2>1, <2>2, QuietRobbed DEF Quiet
  <2>4. stolen_value(w, o, p) = hot_pursuit(u)
    BY <1>3, <1>7
  <2> HIDE DEF u
  <2>5. Quiet(u, hot_pursuit(u))
    BY <2>3, QuietMoods
  <2> QED BY <1>1, <2>3, <2>4, <2>5, QuietTrans
<1>8. CASE ~(~inhishop(w) \/ onbill(w, o) # 0 \/ w.obj[o].no_charge) /\ p
  <2> DEFINE x == c.world
  <2>1. x.shk.debit \in Nat /\ x.shk.robbed \in Nat /\ x \in Worlds
    BY <1>4, WorldParts
  <2>2. stolen_value(w, o, p) = IF x.shk.peaceful THEN [x EXCEPT !.shk.debit = @ + c.left]
                                ELSE [x EXCEPT !.shk.robbed = @ + c.left]
    BY <1>3, <1>8
  <2>3. Quiet(w, x)
    BY <1>5
  <2> HIDE DEF x
  <2>4. /\ [x EXCEPT !.shk.debit = @ + c.left] = [x EXCEPT !.shk.debit = x.shk.debit + c.left]
        /\ [x EXCEPT !.shk.robbed = @ + c.left] = [x EXCEPT !.shk.robbed = x.shk.robbed + c.left]
    BY <2>1 DEF Worlds
  <2>5. x.shk.debit + c.left \in Nat /\ x.shk.debit + c.left >= x.shk.debit /\ x.shk.robbed + c.left \in Nat
    BY <1>4, <2>1
  <2>6. Quiet(x, stolen_value(w, o, p))
    BY <2>1, <2>2, <2>4, <2>5, QuietDebit, QuietRobbed
  <2> QED BY <2>3, <2>6, QuietTrans
<1> QED BY <1>6, <1>7, <1>8

-----------------------------------------------------------------------------
(* Structs and entries.                                                    *)

(* The entries of L that are not for o.                                    *)
Sans(L, o) == {k \in L : k.bo_id # o}

(* What o becomes is backed by its entry.                                  *)
LEMMA MatchPut ==
  ASSUME NEW f, NEW L, Match(f, L), NEW o \in Obj, NEW s \in Struct, Formed(s),
         NEW l \in Lines, l.bo_id = o, Backs(l, s)
  PROVE  Match([f EXCEPT ![o] = s], Sans(L, o) \cup {l})
<1> DEFINE g == [f EXCEPT ![o] = s]
           K == Sans(L, o) \cup {l}
<1>1. f \in [Obj -> Struct] /\ L \in SUBSET Lines
  BY DEF Match
<1>2. g \in [Obj -> Struct] /\ g[o] = s /\ \A x \in Obj : x # o => g[x] = f[x]
  BY <1>1
<1> HIDE DEF g
<1>3. \A x \in Obj : Formed(g[x])
  BY <1>2 DEF Match
<1>4. K \in SUBSET Lines /\ \A k, m \in K : k.bo_id = m.bo_id => k = m
  BY <1>1 DEF Match, Sans
<1>5. ASSUME NEW x \in Obj, g[x].unpaid \/ g[x].where = "onbill" PROVE \E k \in K : k.bo_id = x
  <2>1. CASE x = o
    BY <2>1
  <2>2. CASE x # o
    BY <1>2, <1>5, <2>2 DEF Match, Sans
  <2> QED BY <2>1, <2>2
<1>6. ASSUME NEW k \in K PROVE Backs(k, g[k.bo_id])
  <2>1. CASE k = l
    BY <1>2, <2>1
  <2>2. CASE k \in Sans(L, o)
    <3>1. k \in L /\ k.bo_id \in Obj /\ k.bo_id # o
      BY <1>1, <2>2 DEF Sans, Lines
    <3> QED BY <1>2, <3>1 DEF Match
  <2> QED BY <2>1, <2>2
<1> QED BY <1>2, <1>3, <1>4, <1>5, <1>6 DEF Match, g

(* What o becomes needs none.                                              *)
LEMMA MatchOff ==
  ASSUME NEW f, NEW L, Match(f, L), NEW o \in Obj, NEW s \in Struct, Formed(s),
         ~s.unpaid, s.where # "onbill"
  PROVE  Match([f EXCEPT ![o] = s], Sans(L, o))
<1> DEFINE g == [f EXCEPT ![o] = s]
           K == Sans(L, o)
<1>1. f \in [Obj -> Struct] /\ L \in SUBSET Lines
  BY DEF Match
<1>2. g \in [Obj -> Struct] /\ g[o] = s /\ \A x \in Obj : x # o => g[x] = f[x]
  BY <1>1
<1> HIDE DEF g
<1>3. \A x \in Obj : Formed(g[x])
  BY <1>2 DEF Match
<1>4. K \in SUBSET Lines /\ \A k, m \in K : k.bo_id = m.bo_id => k = m
  BY <1>1 DEF Match, Sans
<1>5. ASSUME NEW x \in Obj, g[x].unpaid \/ g[x].where = "onbill" PROVE \E k \in K : k.bo_id = x
  <2>1. x # o
    BY <1>2, <1>5
  <2> QED BY <1>2, <1>5, <2>1 DEF Match, Sans
<1>6. ASSUME NEW k \in K PROVE Backs(k, g[k.bo_id])
  <2>1. k \in L /\ k.bo_id \in Obj /\ k.bo_id # o
    BY <1>1 DEF Sans, Lines
  <2> QED BY <1>2, <2>1 DEF Match
<1> QED BY <1>2, <1>3, <1>4, <1>5, <1>6 DEF Match, g

(* An object without an entry is in nobody's debt.                         *)
LEMMA SansNone ==
  ASSUME NEW L, NEW o, \A l \in L : l.bo_id # o
  PROVE  Sans(L, o) = L
  BY DEF Sans

-----------------------------------------------------------------------------
(* The bill as a set of entries.                                           *)

(* drop_entry takes one entry out of the set, wherever it stood,           *)
LEMMA SeqDrop ==
  ASSUME NEW b \in Seq(Lines), Distinct(b), NEW i \in DOMAIN b
  PROVE  LET c == Front([b EXCEPT ![i] = Last(b)]) IN
         c \in Seq(Lines) /\ Distinct(c) /\ Lof(c) = Sans(Lof(b), b[i].bo_id)
<1> DEFINE c == Front([b EXCEPT ![i] = Last(b)])
<1>1. c \in Seq(Lines) /\ Len(c) = Len(b) - 1 /\ \A j \in 1 .. Len(b) - 1 : c[j] = IF j = i THEN b[Len(b)] ELSE b[j]
  BY LastGoesFirst
<1>2. DOMAIN b = 1 .. Len(b) /\ Len(b) \in Nat /\ DOMAIN c = 1 .. Len(b) - 1 /\ i \in 1 .. Len(b) /\ Len(b) \in DOMAIN b
  BY <1>1
<1> HIDE DEF c
<1> DEFINE from(j) == IF j = i THEN Len(b) ELSE j
<1>3. \A j \in DOMAIN c : from(j) \in DOMAIN b /\ from(j) # i /\ c[j] = b[from(j)]
  BY <1>1, <1>2
<1>4. \A j, k \in DOMAIN c : from(j) = from(k) => j = k
  BY <1>2
<1>5. \A j \in DOMAIN b : j # i => \E k \in DOMAIN c : from(k) = j
  <2> SUFFICES ASSUME NEW j \in DOMAIN b, j # i PROVE \E k \in DOMAIN c : from(k) = j
    OBVIOUS
  <2>1. CASE j = Len(b)
    <3>1. i \in DOMAIN c /\ from(i) = j
      BY <1>2, <2>1
    <3> QED BY <3>1
  <2>2. CASE j # Len(b)
    <3>1. j \in DOMAIN c /\ from(j) = j
      BY <1>2, <2>2
    <3> QED BY <3>1
  <2> QED BY <2>1, <2>2
<1> HIDE DEF from
<1>6. Distinct(c)
  BY <1>3, <1>4 DEF Distinct
<1>7. Lof(c) \subseteq Sans(Lof(b), b[i].bo_id)
  BY <1>3 DEF Lof, Sans, Distinct
<1>8. ASSUME NEW l \in Sans(Lof(b), b[i].bo_id) PROVE l \in Lof(c)
  <2>1. PICK j \in DOMAIN b : l = b[j] /\ j # i
    BY DEF Lof, Sans
  <2>2. PICK k \in DOMAIN c : from(k) = j
    BY <1>5, <2>1
  <2>3. c[k] = l
    BY <1>3, <2>1, <2>2
  <2> QED BY <2>3 DEF Lof
<1> QED BY <1>1, <1>6, <1>7, <1>8 DEF c

(* writing an entry over puts the new one for the old one,                 *)
LEMMA SeqSet ==
  ASSUME NEW b \in Seq(Lines), Distinct(b), NEW i \in DOMAIN b, NEW l \in Lines,
         \A j \in DOMAIN b : b[j].bo_id = l.bo_id => j = i
  PROVE  LET c == [b EXCEPT ![i] = l] IN
         /\ c \in Seq(Lines) /\ Distinct(c) /\ Lof(c) = Sans(Lof(b), b[i].bo_id) \cup {l}
         /\ Len(c) = Len(b) /\ DOMAIN c = DOMAIN b /\ \A j \in DOMAIN b : c[j] = IF j = i THEN l ELSE b[j]
<1> DEFINE c == [b EXCEPT ![i] = l]
<1>1. c \in Seq(Lines) /\ Len(c) = Len(b) /\ DOMAIN c = DOMAIN b /\ \A j \in DOMAIN b : c[j] = IF j = i THEN l ELSE b[j]
  <2>1. DOMAIN b = 1 .. Len(b) /\ Len(b) \in Nat
    OBVIOUS
  <2>2. c \in [1 .. Len(b) -> Lines]
    BY <2>1
  <2> QED BY <2>1, <2>2, IsASeq
<1> HIDE DEF c
<1>2. Distinct(c)
  BY <1>1 DEF Distinct
<1>3. Lof(c) \subseteq Sans(Lof(b), b[i].bo_id) \cup {l}
  BY <1>1 DEF Lof, Sans, Distinct
<1>4. ASSUME NEW k \in Sans(Lof(b), b[i].bo_id) PROVE k \in Lof(c)
  <2>1. PICK j \in DOMAIN b : k = b[j] /\ j # i
    BY DEF Lof, Sans
  <2>2. c[j] = k
    BY <1>1, <2>1
  <2> QED BY <1>1, <2>2 DEF Lof
<1>5. l \in Lof(c)
  BY <1>1 DEF Lof
<1> QED BY <1>1, <1>2, <1>3, <1>4, <1>5 DEF c

(* and extend_bill adds one.                                               *)
LEMMA SeqAdd ==
  ASSUME NEW b \in Seq(Lines), Distinct(b), NEW l \in Lines, \A j \in DOMAIN b : b[j].bo_id # l.bo_id
  PROVE  LET c == Append(b, l) IN
         c \in Seq(Lines) /\ Distinct(c) /\ Lof(c) = Lof(b) \cup {l} /\ Sans(Lof(b), l.bo_id) = Lof(b)
<1> DEFINE c == Append(b, l)
<1>1. /\ c \in Seq(Lines) /\ Len(c) = Len(b) + 1 /\ c[Len(b) + 1] = l
      /\ \A j \in 1 .. Len(b) : c[j] = b[j]
  BY AppendProperties
<1>2. DOMAIN b = 1 .. Len(b) /\ Len(b) \in Nat /\ DOMAIN c = 1 .. Len(b) + 1
  BY <1>1
<1> HIDE DEF c
<1>3. \A j \in DOMAIN c : (j \in DOMAIN b /\ c[j] = b[j]) \/ (j = Len(b) + 1 /\ c[j] = l)
  BY <1>1, <1>2
<1>4. Len(b) + 1 \in DOMAIN c /\ \A j \in DOMAIN b : j \in DOMAIN c /\ c[j] = b[j]
  BY <1>1, <1>2
<1>5. Distinct(c)
  BY <1>3 DEF Distinct
<1>6. Lof(c) = Lof(b) \cup {l}
  <2>1. Lof(c) \subseteq Lof(b) \cup {l}
    BY <1>3 DEF Lof
  <2>2. l \in Lof(c)
    BY <1>1, <1>4 DEF Lof
  <2>3. \A k \in Lof(b) : k \in Lof(c)
    BY <1>4 DEF Lof
  <2> QED BY <2>1, <2>2, <2>3
<1>7. Sans(Lof(b), l.bo_id) = Lof(b)
  BY DEF Sans, Lof
<1> QED BY <1>1, <1>5, <1>6, <1>7 DEF c

-----------------------------------------------------------------------------
(* Worlds whose structs and entries have changed.                          *)

(* w with other structs, another bill and bill_p.                          *)
At(w, f, b, q) == [w EXCEPT !.obj = f, !.shk = [w.shk EXCEPT !.bill = b, !.bill_p = q]]

(* Nothing else changes.                                                   *)
LEMMA AtIs ==
  ASSUME NEW w \in Worlds, NEW f \in [Obj -> Struct], NEW b \in Seq(Lines), NEW q \in {"null", "own", "dump"}
  PROVE  LET v == At(w, f, b, q) IN
         /\ v \in Worlds /\ v.obj = f /\ v.shk.bill = b /\ v.shk.bill_p = q /\ v.ushops = w.ushops
         /\ v.shk.at = w.shk.at /\ v.shk.surcharge = w.shk.surcharge
         /\ v.shk.loan = w.shk.loan /\ v.shk.debit = w.shk.debit
<1> DEFINE s == [w.shk EXCEPT !.bill = b, !.bill_p = q]
<1>1. /\ s \in Keepers /\ s.bill = b /\ s.bill_p = q /\ s.at = w.shk.at /\ s.surcharge = w.shk.surcharge
      /\ s.loan = w.shk.loan /\ s.debit = w.shk.debit
  BY WorldParts DEF Keepers
<1> HIDE DEF s
<1>2. [w EXCEPT !.obj = f, !.shk = s] \in Worlds /\ [w EXCEPT !.obj = f, !.shk = s].obj = f
      /\ [w EXCEPT !.obj = f, !.shk = s].shk = s /\ [w EXCEPT !.obj = f, !.shk = s].ushops = w.ushops
  BY <1>1 DEF Worlds
<1> QED BY <1>1, <1>2 DEF At, s

(* The hero and the shopkeeper stay where they are.                        *)
Frame(w, v) ==
  /\ v.ushops = w.ushops /\ v.shk.at = w.shk.at
  /\ w.shk.at # "shop" => v.shk.bill_p = w.shk.bill_p

(* And nobody is wronged.                                                  *)
Fine(w)    == Good(w) /\ Inside(w)

(* Two such changes in turn.                                               *)
LEMMA FrameTrans ==
  ASSUME NEW u, NEW v, NEW w, Frame(u, v), Frame(v, w)
  PROVE  Frame(u, w)
  BY DEF Frame

(* Who was looked after still is.                                          *)
LEMMA FrameWatched ==
  ASSUME NEW w, NEW v, NEW p, Frame(w, v), Watched(w, p)
  PROVE  Watched(v, p)
  BY DEF Frame, Watched

(* PricesAgree, of the set of entries.                                     *)
LEMMA PricedLines ==
  ASSUME NEW w
  PROVE  Priced(w) <=> \A l \in Lof(w.shk.bill) : l.price = get_cost(w)
  BY DEF Priced, Lof

(* A world is good if its structs and entries are, at the price of the     *)
(* day.                                                                    *)
LEMMA AtGood ==
  ASSUME NEW w, Good(w), NEW f, NEW b, Agreed(f, b), NEW q \in {"null", "own", "dump"},
         \A l \in Lof(b) : l.price = get_cost(w)
  PROVE  /\ Good(At(w, f, b, q)) /\ At(w, f, b, q).obj = f /\ At(w, f, b, q).shk.bill = b /\ At(w, f, b, q).shk.bill_p = q
         /\ At(w, f, b, q).ushops = w.ushops /\ At(w, f, b, q).shk.at = w.shk.at
<1> DEFINE v == At(w, f, b, q)
<1>1. w \in Worlds /\ f \in [Obj -> Struct] /\ b \in Seq(Lines)
  BY DEF Good, Agreed, Match
<1>2. /\ v \in Worlds /\ v.obj = f /\ v.shk.bill = b /\ v.shk.bill_p = q /\ v.ushops = w.ushops
      /\ v.shk.at = w.shk.at /\ v.shk.surcharge = w.shk.surcharge
      /\ v.shk.loan = w.shk.loan /\ v.shk.debit = w.shk.debit
  BY <1>1, AtIs
<1> HIDE DEF v
<1>3. Priced(v)
  BY <1>2, PricedLines DEF get_cost
<1>4. Lent(v)
  BY <1>2 DEF Lent, Good
<1> QED BY <1>2, <1>3, <1>4 DEF Good, v

(* What Good says, entry by entry.                                         *)
LEMMA GoodParts ==
  ASSUME NEW w, Good(w)
  PROVE  /\ w \in Worlds /\ w.shk.bill \in Seq(Lines) /\ Distinct(w.shk.bill) /\ Match(w.obj, Lof(w.shk.bill))
         /\ w.obj \in [Obj -> Struct] /\ w.shk.bill_p \in {"null", "own", "dump"} /\ w.ushops \in BOOLEAN
         /\ w.shk.at \in {"shop", "out", "dead"}
         /\ \A l \in Lof(w.shk.bill) : l.price = get_cost(w)
         /\ \A o \in Obj : w.obj[o] \in Struct /\ Formed(w.obj[o])
         /\ Lof(w.shk.bill) \in SUBSET Lines
<1>1. w.shk.bill_p \in {"null", "own", "dump"} /\ w.ushops \in BOOLEAN /\ w.shk.at \in {"shop", "out", "dead"}
  BY DEF Good, Worlds, Keepers
<1>2. \A l \in Lof(w.shk.bill) : l.price = get_cost(w)
  BY PricedLines DEF Good
<1> QED BY <1>1, <1>2 DEF Good, Agreed, Match

(* o is about: neither free nor on the bill.                               *)
InPlay(w, o) == w.obj[o].where \notin {"none", "onbill"}

(* What is about and on the bill is unpaid, and was not used up.           *)
LEMMA EntryIs ==
  ASSUME NEW w, Good(w), NEW o \in Obj
  PROVE  /\ onbill(w, o) = 0 => /\ ~w.obj[o].unpaid /\ w.obj[o].where # "onbill"
                                /\ \A l \in Lof(w.shk.bill) : l.bo_id # o
                                /\ \A j \in DOMAIN w.shk.bill : w.shk.bill[j].bo_id # o
         /\ onbill(w, o) # 0 => /\ onbill(w, o) \in DOMAIN w.shk.bill
                                /\ w.shk.bill[onbill(w, o)] \in Lines
                                /\ w.shk.bill[onbill(w, o)] \in Lof(w.shk.bill)
                                /\ w.shk.bill[onbill(w, o)].bo_id = o
                                /\ w.shk.bill[onbill(w, o)].price = get_cost(w)
                                /\ Backs(w.shk.bill[onbill(w, o)], w.obj[o])
                                /\ \A j \in DOMAIN w.shk.bill : w.shk.bill[j].bo_id = o => j = onbill(w, o)
                                /\ w.shk.bill # <<>>
         /\ onbill(w, o) # 0 /\ InPlay(w, o) =>
               /\ w.obj[o].unpaid /\ ~w.shk.bill[onbill(w, o)].useup
               /\ w.obj[o].quan \in 1 .. w.shk.bill[onbill(w, o)].bquan
<1> DEFINE i == onbill(w, o)
           b == w.shk.bill
<1>1. b \in Seq(Lines) /\ Distinct(b) /\ Match(w.obj, Lof(b)) /\ \A l \in Lof(b) : l.price = get_cost(w)
  BY GoodParts
<1>2. i \in 0 .. Len(b) /\ (i # 0 => i \in DOMAIN b /\ b[i].bo_id = o) /\ (i = 0 <=> ~Entered(w, o))
  BY <1>1, OnbillIs
<1> HIDE DEF i
<1>3. CASE i = 0
  <2>1. \A j \in DOMAIN b : b[j].bo_id # o
    BY <1>2, <1>3 DEF Entered
  <2>2. \A l \in Lof(b) : l.bo_id # o
    BY <2>1 DEF Lof
  <2>3. ~w.obj[o].unpaid /\ w.obj[o].where # "onbill"
    BY <1>1, <2>2 DEF Match
  <2> QED BY <1>3, <2>1, <2>2, <2>3 DEF i
<1>4. CASE i # 0
  <2>1. i \in DOMAIN b /\ b[i].bo_id = o
    BY <1>2, <1>4
  <2>2. b[i] \in Lof(b)
    BY <2>1 DEF Lof
  <2>3. b[i] \in Lines /\ b[i].price = get_cost(w)
    BY <1>1, <2>1, <2>2
  <2>4. Backs(b[i], w.obj[o])
    BY <1>1, <2>1, <2>2 DEF Match
  <2>5. \A j \in DOMAIN b : b[j].bo_id = o => j = i
    BY <1>1, <2>1 DEF Distinct
  <2>6. b # <<>>
    BY <2>1
  <2>7. InPlay(w, o) => w.obj[o].unpaid /\ ~b[i].useup /\ w.obj[o].quan \in 1 .. b[i].bquan
    BY <2>3, <2>4 DEF InPlay, Backs, Lines
  <2> QED BY <1>4, <2>1, <2>2, <2>3, <2>4, <2>5, <2>6, <2>7 DEF i
<1> QED BY <1>3, <1>4

(* What is quiet keeps everything, and every entry its place.              *)
LEMMA QuietGood ==
  ASSUME NEW w, Good(w), NEW v, Quiet(w, v)
  PROVE  /\ Good(v) /\ Frame(w, v) /\ v.obj = w.obj
         /\ v.shk.bill_p = w.shk.bill_p
         /\ (Inside(w) => Inside(v)) /\ (v.shk.bill = <<>> <=> w.shk.bill = <<>>)
         /\ \A o \in Obj : onbill(v, o) = onbill(w, o)
<1> DEFINE b == w.shk.bill
           c == v.shk.bill
<1>1. /\ b \in Seq(Lines) /\ c \in Seq(Lines) /\ DOMAIN c = DOMAIN b /\ Len(c) = Len(b)
      /\ \A i \in DOMAIN b : c[i].bo_id = b[i].bo_id /\ c[i].bquan = b[i].bquan /\ c[i].useup = b[i].useup
  BY DEF Quiet, Alike
<1>2. Distinct(b) /\ Match(w.obj, Lof(b)) /\ v.obj = w.obj
  BY GoodParts DEF Quiet
<1>3. Distinct(c)
  BY <1>1, <1>2 DEF Distinct
<1>4. Match(w.obj, Lof(c))
  <2> DEFINE f == w.obj
  <2> HIDE DEF b, c
  <2>1. f \in [Obj -> Struct] /\ \A o \in Obj : Formed(f[o])
    BY <1>2 DEF Match
  <2>2. Lof(c) \in SUBSET Lines
    BY <1>1 DEF Lof
  <2>3. \A l, m \in Lof(c) : l.bo_id = m.bo_id => l = m
    BY <1>3 DEF Lof, Distinct
  <2>4. \A o \in Obj : (f[o].unpaid \/ f[o].where = "onbill") => \E l \in Lof(c) : l.bo_id = o
    <3> SUFFICES ASSUME NEW o \in Obj, f[o].unpaid \/ f[o].where = "onbill" PROVE \E l \in Lof(c) : l.bo_id = o
      OBVIOUS
    <3>1. PICK l \in Lof(b) : l.bo_id = o
      BY <1>2 DEF Match
    <3>2. PICK i \in DOMAIN b : l = b[i]
      BY <3>1 DEF Lof
    <3>3. c[i].bo_id = o /\ c[i] \in Lof(c)
      BY <1>1, <3>1, <3>2 DEF Lof
    <3> QED BY <3>3
  <2>5. \A l \in Lof(c) : Backs(l, f[l.bo_id])
    <3> SUFFICES ASSUME NEW i \in DOMAIN c PROVE Backs(c[i], f[c[i].bo_id])
      BY DEF Lof
    <3>1. b[i] \in Lof(b)
      BY <1>1 DEF Lof
    <3>2. Backs(b[i], f[b[i].bo_id])
      BY <1>2, <3>1 DEF Match
    <3> QED BY <1>1, <3>2 DEF Backs
  <2> HIDE DEF f
  <2>6. Match(f, Lof(c))
    BY <2>1, <2>2, <2>3, <2>4, <2>5 DEF Match
  <2> QED BY <2>6 DEF f
<1>5. Good(v)
  BY <1>1, <1>2, <1>3, <1>4 DEF Good, Agreed, Quiet
<1>6. c = <<>> <=> b = <<>>
  BY <1>1
<1>7. ASSUME NEW o \in Obj PROVE onbill(v, o) = onbill(w, o)
  <2>1. {i \in 1 .. Len(c) : c[i].bo_id = o} = {i \in 1 .. Len(b) : b[i].bo_id = o}
    BY <1>1
  <2> QED BY <2>1 DEF onbill, SelectInSeq
<1>8. Frame(w, v) /\ (Inside(w) => Inside(v))
  BY <1>6 DEF Frame, Inside, Quiet
<1> QED BY <1>2, <1>5, <1>6, <1>7, <1>8 DEF Quiet

-----------------------------------------------------------------------------
(* One object changes.                                                     *)

(* What a helper keeps.                                                    *)
Sound(w, v) == Good(v) /\ Frame(w, v) /\ (Inside(w) => Inside(v))

(* Two helpers in turn,                                                    *)
LEMMA SoundTrans ==
  ASSUME NEW u, NEW v, NEW w, Sound(u, v), Sound(v, w)
  PROVE  Sound(u, w)
  BY FrameTrans DEF Sound

(* no helper at all,                                                       *)
LEMMA SoundSelf ==
  ASSUME NEW w, Good(w)
  PROVE  Sound(w, w)
  BY DEF Sound, Frame

(* and a quiet one.                                                        *)
LEMMA SoundQuiet ==
  ASSUME NEW w, Good(w), NEW v, Quiet(w, v)
  PROVE  Sound(w, v) /\ v.obj = w.obj
  BY QuietGood DEF Sound

(* w with s for the struct o.                                              *)
Put(w, o, s) == [w EXCEPT !.obj = [w.obj EXCEPT ![o] = s]]

(* Nothing else changes.                                                   *)
LEMMA PutIs ==
  ASSUME NEW w \in Worlds, NEW o \in Obj, NEW s \in Struct
  PROVE  /\ Put(w, o, s) = At(w, [w.obj EXCEPT ![o] = s], w.shk.bill, w.shk.bill_p)
         /\ Put(w, o, s) \in Worlds /\ Put(w, o, s).obj = [w.obj EXCEPT ![o] = s] /\ Put(w, o, s).shk = w.shk
         /\ Put(w, o, s).ushops = w.ushops
         /\ Put(w, o, s).obj[o] = s /\ \A x \in Obj : x # o => Put(w, o, s).obj[x] = w.obj[x]
<1>1. w.shk = [w.shk EXCEPT !.bill = w.shk.bill, !.bill_p = w.shk.bill_p]
  BY WorldParts DEF Keepers
<1>2. Put(w, o, s) = At(w, [w.obj EXCEPT ![o] = s], w.shk.bill, w.shk.bill_p)
  BY <1>1 DEF Put, At, Worlds
<1>3. [w.obj EXCEPT ![o] = s] \in [Obj -> Struct]
  BY WorldParts
<1>4. /\ Put(w, o, s) \in Worlds /\ Put(w, o, s).obj = [w.obj EXCEPT ![o] = s] /\ Put(w, o, s).shk = w.shk
      /\ Put(w, o, s).ushops = w.ushops
  BY <1>3 DEF Put, Worlds
<1> QED BY <1>2, <1>4, WorldParts

(* It is told no more or less.                                             *)
Told(s, r) == /\ r \in Struct /\ r.where \notin {"none", "onbill"} /\ r.unpaid = s.unpaid
              /\ r.quan \in 1 .. s.quan /\ (r.unpaid => ~r.no_charge)

(* What is about may be moved, and become fewer.                           *)
LEMMA PutTold ==
  ASSUME NEW w, Good(w), NEW o \in Obj, InPlay(w, o), NEW s, Told(w.obj[o], s)
  PROVE  /\ Sound(w, Put(w, o, s)) /\ Put(w, o, s).shk = w.shk /\ Put(w, o, s).ushops = w.ushops
         /\ Put(w, o, s).obj[o] = s /\ \A x \in Obj : x # o => Put(w, o, s).obj[x] = w.obj[x]
<1> DEFINE L == Lof(w.shk.bill)
           v == Put(w, o, s)
           b == w.shk.bill
           i == onbill(w, o)
           f == [w.obj EXCEPT ![o] = s]
<1>1. /\ w \in Worlds /\ b \in Seq(Lines) /\ Distinct(b) /\ Match(w.obj, L)
      /\ w.shk.bill_p \in {"null", "own", "dump"} /\ (\A l \in L : l.price = get_cost(w))
      /\ w.obj[o] \in Struct /\ Formed(w.obj[o])
  BY GoodParts
<1>2. s \in Struct /\ Formed(s)
  BY DEF Told, Formed, Struct
<1>3. Match(f, L)
  <2>1. CASE i = 0
    <3>1. ~s.unpaid /\ s.where # "onbill" /\ Sans(L, o) = L
      BY <2>1, EntryIs, SansNone DEF Told
    <3> QED BY <1>1, <1>2, <3>1, MatchOff
  <2>2. CASE i # 0
    <3> DEFINE l == b[i]
    <3>1. l \in Lines /\ l \in L /\ l.bo_id = o /\ w.obj[o].unpaid /\ ~l.useup /\ w.obj[o].quan \in 1 .. l.bquan
      BY <2>2, EntryIs
    <3>2. Backs(l, s)
      <4>1. l.bquan \in Nat /\ w.obj[o].quan \in Nat
        BY <1>1, <3>1 DEF Lines, Struct
      <4> HIDE DEF l
      <4> QED BY <3>1, <4>1 DEF Backs, Told
    <3>3. Sans(L, o) \cup {l} = L
      <4> HIDE DEF l
      <4> QED BY <1>1, <3>1 DEF Sans, Match
    <3> HIDE DEF l, f
    <3>4. Match([w.obj EXCEPT ![o] = s], Sans(L, o) \cup {l})
      <4> HIDE DEF L
      <4> QED BY <1>1, <1>2, <3>1, <3>2, MatchPut
    <3> QED BY <3>3, <3>4 DEF f
  <2> QED BY <2>1, <2>2
<1>4. v = At(w, f, b, w.shk.bill_p) /\ v.shk = w.shk /\ v.ushops = w.ushops
  BY <1>1, <1>2, PutIs
<1>5. Agreed(f, b)
  BY <1>1, <1>3 DEF Agreed
<1> HIDE DEF f, v
<1>6. Good(At(w, f, b, w.shk.bill_p))
  BY <1>1, <1>5, AtGood
<1>9. v.obj[o] = s /\ \A x \in Obj : x # o => v.obj[x] = w.obj[x]
  <2>1. v.obj = [w.obj EXCEPT ![o] = s]
    BY <1>1 DEF v, Put, Worlds
  <2>2. w.obj \in [Obj -> Struct]
    BY <1>1 DEF Match
  <2> QED BY <2>1, <2>2
<1> QED BY <1>4, <1>6, <1>9 DEF Sound, Frame, Inside, v

(* What is not on the bill may become anything that needs no entry.        *)
LEMMA PutOff ==
  ASSUME NEW w, Good(w), NEW o \in Obj, onbill(w, o) = 0, NEW s \in Struct, Formed(s), ~s.unpaid, s.where # "onbill"
  PROVE  /\ Sound(w, Put(w, o, s)) /\ Put(w, o, s).shk = w.shk /\ Put(w, o, s).ushops = w.ushops
         /\ Put(w, o, s).obj[o] = s /\ \A x \in Obj : x # o => Put(w, o, s).obj[x] = w.obj[x]
<1> DEFINE L == Lof(w.shk.bill)
           v == Put(w, o, s)
           b == w.shk.bill
           f == [w.obj EXCEPT ![o] = s]
<1>1. /\ w \in Worlds /\ b \in Seq(Lines) /\ Distinct(b) /\ Match(w.obj, L)
      /\ w.shk.bill_p \in {"null", "own", "dump"} /\ (\A l \in L : l.price = get_cost(w))
  BY GoodParts
<1>2. Sans(L, o) = L
  BY EntryIs, SansNone
<1>3. Match(f, L)
  BY <1>1, <1>2, MatchOff
<1>4. v = At(w, f, b, w.shk.bill_p) /\ v.shk = w.shk /\ v.ushops = w.ushops
  BY <1>1, PutIs
<1>5. Agreed(f, b)
  BY <1>1, <1>3 DEF Agreed
<1> HIDE DEF f, v
<1>6. Good(At(w, f, b, w.shk.bill_p))
  BY <1>1, <1>5, AtGood
<1>9. v.obj[o] = s /\ \A x \in Obj : x # o => v.obj[x] = w.obj[x]
  <2>1. v.obj = [w.obj EXCEPT ![o] = s]
    BY <1>1 DEF v, Put, Worlds
  <2>2. w.obj \in [Obj -> Struct]
    BY <1>1 DEF Match
  <2> QED BY <2>1, <2>2
<1> QED BY <1>4, <1>6, <1>9 DEF Sound, Frame, Inside, v

(* Something about is moved.                                               *)
LEMMA MoveSound ==
  ASSUME NEW w, Good(w), NEW o \in Obj, InPlay(w, o), NEW p \in Places, p \notin {"none", "onbill"}
  PROVE  /\ Sound(w, Move(w, o, p)) /\ InPlay(Move(w, o, p), o) /\ Move(w, o, p).shk = w.shk
         /\ Move(w, o, p).ushops = w.ushops
         /\ Move(w, o, p).obj[o] = [w.obj[o] EXCEPT !.where = p]
         /\ \A x \in Obj : x # o => Move(w, o, p).obj[x] = w.obj[x]
<1> DEFINE s == [w.obj[o] EXCEPT !.where = p]
<1>1. w \in Worlds /\ w.obj \in [Obj -> Struct] /\ w.obj[o] \in Struct /\ Formed(w.obj[o])
  BY GoodParts
<1>2. Move(w, o, p) = Put(w, o, s)
  BY <1>1 DEF Move, Put, Worlds
<1>3. s \in Struct /\ Told(w.obj[o], s) /\ s.where = p
  BY <1>1 DEF Struct, Told, Formed, InPlay
<1>4. /\ Sound(w, Put(w, o, s)) /\ Put(w, o, s).shk = w.shk /\ Put(w, o, s).ushops = w.ushops
      /\ Put(w, o, s).obj[o] = s /\ \A x \in Obj : x # o => Put(w, o, s).obj[x] = w.obj[x]
  <2>1. Told(w.obj[o], s)
    BY <1>3
  <2> HIDE DEF s
  <2> QED BY <2>1, PutTold
<1> QED BY <1>2, <1>3, <1>4 DEF InPlay

(* What is not unpaid may be made free of charge.                          *)
LEMMA NoChargeSound ==
  ASSUME NEW w, Good(w), NEW o \in Obj, InPlay(w, o), NEW c \in BOOLEAN, w.obj[o].unpaid => ~c
  PROVE  /\ Sound(w, [w EXCEPT !.obj[o].no_charge = c]) /\ InPlay([w EXCEPT !.obj[o].no_charge = c], o)
         /\ [w EXCEPT !.obj[o].no_charge = c].shk = w.shk
         /\ [w EXCEPT !.obj[o].no_charge = c].ushops = w.ushops
         /\ [w EXCEPT !.obj[o].no_charge = c].obj[o] = [w.obj[o] EXCEPT !.no_charge = c]
         /\ \A x \in Obj : x # o => [w EXCEPT !.obj[o].no_charge = c].obj[x] = w.obj[x]
<1> DEFINE s == [w.obj[o] EXCEPT !.no_charge = c]
<1>1. w \in Worlds /\ w.obj \in [Obj -> Struct] /\ w.obj[o] \in Struct /\ Formed(w.obj[o])
  BY GoodParts
<1>2. [w EXCEPT !.obj[o].no_charge = c] = Put(w, o, s)
  BY <1>1 DEF Put, Worlds
<1>3. s \in Struct /\ Told(w.obj[o], s) /\ s.where = w.obj[o].where
  BY <1>1 DEF Struct, Told, Formed, InPlay
<1>4. /\ Sound(w, Put(w, o, s)) /\ Put(w, o, s).shk = w.shk /\ Put(w, o, s).ushops = w.ushops
      /\ Put(w, o, s).obj[o] = s /\ \A x \in Obj : x # o => Put(w, o, s).obj[x] = w.obj[x]
  <2>1. Told(w.obj[o], s)
    BY <1>3
  <2> HIDE DEF s
  <2> QED BY <2>1, PutTold
<1> QED BY <1>2, <1>3, <1>4 DEF InPlay

-----------------------------------------------------------------------------
(* Putting on the bill.                                                    *)

(* v is w with o put on the bill: that is only right while the hero is in  *)
(* the shop.                                                               *)
Billed1(w, v, o) ==
  /\ Good(v) /\ Frame(w, v) /\ v.obj[o].where = w.obj[o].where
  /\ Inside(w) /\ w.ushops => Inside(v)
  /\ \A x \in Obj : x # o => v.obj[x] = w.obj[x]

(* addtobill of what is about, when the shopkeeper is there.               *)
LEMMA AddSound ==
  ASSUME NEW w, Good(w), NEW o \in Obj, InPlay(w, o), inhishop(w)
  PROVE  Billed1(w, addtobill(w, o, FALSE), o)
<1> DEFINE v == shop_keeper(w)
           b == v.shk.bill
           a == addtobill(w, o, FALSE)
           l == Entry(o, w.obj[o].quan, get_cost(v), FALSE)
           s == [w.obj[o] EXCEPT !.unpaid = TRUE]
           f == [v.obj EXCEPT ![o] = s]
<1>1. /\ w \in Worlds /\ w.obj \in [Obj -> Struct] /\ w.obj[o] \in Struct /\ Formed(w.obj[o])
  BY GoodParts
<1>2. Quiet(w, v)
  BY <1>1, QuietLook
<1>3. Good(v) /\ Frame(w, v) /\ v.obj = w.obj /\ (Inside(w) => Inside(v)) /\ onbill(v, o) = onbill(w, o)
  BY <1>2, QuietGood
<1>4. a = IF onbill(w, o) # 0 THEN v
          ELSE IF w.obj[o].no_charge THEN [v EXCEPT !.obj[o].no_charge = FALSE]
          ELSE extend_bill([v EXCEPT !.obj[o].unpaid = TRUE], l)
  BY DEF addtobill
<1> HIDE DEF v
<1>5. CASE onbill(w, o) # 0
  BY <1>3, <1>4, <1>5 DEF Billed1
<1>6. CASE onbill(w, o) = 0 /\ w.obj[o].no_charge
  <2> DEFINE x == [v EXCEPT !.obj[o].no_charge = FALSE]
  <2>1. InPlay(v, o) /\ FALSE \in BOOLEAN /\ (v.obj[o].unpaid => ~FALSE)
    BY <1>3 DEF InPlay
  <2>2. /\ Sound(v, x) /\ x.obj[o] = [v.obj[o] EXCEPT !.no_charge = FALSE]
        /\ \A y \in Obj : y # o => x.obj[y] = v.obj[y]
    <3> DEFINE no == FALSE
    <3>1. Good(v) /\ o \in Obj /\ InPlay(v, o) /\ no \in BOOLEAN /\ (v.obj[o].unpaid => ~no)
      BY <1>3, <2>1
    <3>2. x = [v EXCEPT !.obj[o].no_charge = no] /\ no = FALSE
      OBVIOUS
    <3>3. /\ Sound(v, [v EXCEPT !.obj[o].no_charge = no])
          /\ [v EXCEPT !.obj[o].no_charge = no].obj[o] = [v.obj[o] EXCEPT !.no_charge = no]
          /\ \A y \in Obj : y # o => [v EXCEPT !.obj[o].no_charge = no].obj[y] = v.obj[y]
      <4> HIDE DEF no, x, a, b, l, s, f
      <4> QED BY ONLY <3>1, NoChargeSound
    <3> HIDE DEF no, x
    <3> QED BY ONLY <3>2, <3>3
  <2>3. x.obj[o].where = w.obj[o].where
    BY <1>1, <1>3, <2>2 DEF Struct
  <2>4. a = x
    BY <1>4, <1>6
  <2> HIDE DEF x
  <2> QED BY <1>3, <2>2, <2>3, <2>4, FrameTrans DEF Sound, Billed1
<1>7. CASE onbill(w, o) = 0 /\ ~w.obj[o].no_charge
  <2>1. v \in Worlds /\ b \in Seq(Lines) /\ Distinct(b) /\ Match(v.obj, Lof(b)) /\ \A k \in Lof(b) : k.price = get_cost(v)
    BY <1>3, GoodParts
  <2>2. a = At(v, f, Append(b, l), "own")
    <3> DEFINE u == [v EXCEPT !.obj[o].unpaid = TRUE]
    <3>1. u = [v EXCEPT !.obj = f] /\ u.shk = v.shk /\ v.shk \in Keepers
      BY <1>1, <1>3, <2>1, WorldParts DEF Worlds
    <3>2. a = extend_bill(u, l)
      BY <1>4, <1>7
    <3> HIDE DEF u, l, f
    <3>3. extend_bill(u, l) = [u EXCEPT !.shk = [u.shk EXCEPT !.bill_p = "own", !.bill = Append(u.shk.bill, l)]]
      BY <2>1, <3>1 DEF extend_bill, Worlds, Keepers
    <3> QED BY <2>1, <3>1, <3>2, <3>3 DEF At, Worlds, Keepers
  <2>3. /\ l \in Lines /\ l.bo_id = o /\ l.price = get_cost(v) /\ l.bquan = w.obj[o].quan /\ l.useup = FALSE
        /\ w.obj[o].quan \in Nat
    BY <1>1, CostIsNatural DEF Lines, Entry, Struct
  <2>4. s \in Struct /\ Formed(s) /\ Backs(l, s) /\ s.where = w.obj[o].where
    <3>1. s \in Struct /\ s.where = w.obj[o].where /\ s.quan = w.obj[o].quan /\ s.unpaid = TRUE /\ s.no_charge = w.obj[o].no_charge
      BY <1>1 DEF Struct
    <3>2. w.obj[o].quan > 0
      BY <1>1 DEF Formed, InPlay
    <3> HIDE DEF s, l
    <3> QED BY <1>7, <2>3, <3>1, <3>2 DEF Formed, Backs, InPlay
  <2> HIDE DEF l, s
  <2>5. \A j \in DOMAIN b : b[j].bo_id # o
    BY <1>3, <1>7, EntryIs
  <2>6. /\ Append(b, l) \in Seq(Lines) /\ Distinct(Append(b, l)) /\ Lof(Append(b, l)) = Lof(b) \cup {l}
        /\ Sans(Lof(b), o) = Lof(b)
    BY <2>1, <2>3, <2>5, SeqAdd
  <2>7. Match(f, Lof(b) \cup {l})
    BY <2>1, <2>3, <2>4, <2>6, MatchPut
  <2>8. Agreed(f, Append(b, l)) /\ \A k \in Lof(Append(b, l)) : k.price = get_cost(v)
    BY <2>1, <2>3, <2>6, <2>7 DEF Agreed
  <2>9. f[o] = s /\ \A x \in Obj : x # o => f[x] = w.obj[x]
    BY <1>1, <1>3
  <2> HIDE DEF f
  <2>12. "own" \in {"null", "own", "dump"}
    OBVIOUS
  <2>13. Good(v)
    BY <1>3
  <2>14. Agreed(f, Append(b, l))
    BY <2>8
  <2>15. \A k \in Lof(Append(b, l)) : k.price = get_cost(v)
    BY <2>8
  <2> DEFINE y == At(v, f, Append(b, l), "own")
  <2>16. Good(y) /\ y.obj = f /\ y.shk.bill_p = "own" /\ y.ushops = v.ushops /\ y.shk.at = v.shk.at
    BY <2>12, <2>13, <2>14, <2>15, AtGood
  <2> HIDE DEF y
  <2>10. Good(a) /\ a.obj = f /\ a.shk.bill_p = "own" /\ a.ushops = v.ushops /\ a.shk.at = v.shk.at
    BY <2>2, <2>16 DEF y
  <2> HIDE DEF a
  <2>11. Frame(w, a) /\ (w.ushops => Inside(a))
    BY <1>3, <2>10 DEF Frame, Inside, inhishop
  <2> QED BY <2>4, <2>9, <2>10, <2>11 DEF Billed1, a
<1> QED BY <1>5, <1>6, <1>7

-----------------------------------------------------------------------------
(* Taking off the bill.                                                    *)

(* Some of o was used up that is still to be paid for.                     *)
Partly(w, o) == \E l \in Lof(w.shk.bill) : l.bo_id = o /\ l.bquan > w.obj[o].quan

(* It is what PartlyUsed counts.                                           *)
LEMMA PartlyIs ==
  ASSUME NEW w, Good(w), NEW o \in Obj
  PROVE  PartlyUsed(w, o) = IF Partly(w, o) THEN 1 ELSE 0
<1> DEFINE i == onbill(w, o)
           b == w.shk.bill
<1>1. CASE i = 0
  BY <1>1, EntryIs DEF PartlyUsed, Partly
<1>2. CASE i # 0
  <2>1. /\ b[i] \in Lof(b) /\ b[i].bo_id = o /\ i \in DOMAIN b
        /\ \A j \in DOMAIN b : b[j].bo_id = o => j = i
    BY <1>2, EntryIs
  <2>2. \A l \in Lof(b) : l.bo_id = o => l = b[i]
    BY <2>1 DEF Lof
  <2>3. PartlyUsed(w, o) = IF b[i].bquan > w.obj[o].quan THEN 1 ELSE 0
    BY <1>2 DEF PartlyUsed
  <2> HIDE DEF i
  <2> QED BY <2>1, <2>2, <2>3 DEF Partly
<1> QED BY <1>1, <1>2

(* A struct is left for what was used of it.                               *)
Covered(w, o) == Partly(w, o) => Free(w) # {}

(* A free struct is blank and not on the bill.                             *)
LEMMA FreeIs ==
  ASSUME NEW w, Good(w), NEW d \in Free(w)
  PROVE  d \in Obj /\ w.obj[d] = NoObj /\ onbill(w, d) = 0 /\ \A l \in Lof(w.shk.bill) : l.bo_id # d
<1>1. d \in Obj /\ w.obj[d] = NoObj
  BY GoodParts DEF Free, Formed
<1>2. onbill(w, d) = 0
  <2>1. onbill(w, d) # 0 => Backs(w.shk.bill[onbill(w, d)], w.obj[d])
    BY <1>1, EntryIs
  <2> QED BY <1>1, <2>1 DEF Backs, NoObj
<1> QED BY <1>1, <1>2, EntryIs

(* mksobj finds one if there is one.                                       *)
LEMMA FreshIn ==
  ASSUME NEW w, Free(w) # {}
  PROVE  Fresh(w) \in Free(w)
  BY DEF Fresh

(* o is paid for, or accounted for, and its entry is gone.                 *)
Taken(w, v, o) ==
  /\ Sound(w, v) /\ v.obj[o] = [w.obj[o] EXCEPT !.unpaid = FALSE] /\ onbill(v, o) = 0
  /\ \A x \in Obj : x # o /\ InPlay(w, x) => v.obj[x] = w.obj[x] /\ (Partly(v, x) <=> Partly(w, x))
  /\ ~Partly(w, o) => Free(v) = Free(w)
  /\ \E d \in Obj : Free(w) \ {d} \subseteq Free(v)

(* subfrombill takes o off the bill, and what was used of it stays there   *)
(* as a new object.                                                        *)
LEMMA SubSound ==
  ASSUME NEW w, Good(w), NEW o \in Obj, InPlay(w, o), Covered(w, o)
  PROVE  Taken(w, subfrombill(w, o), o)
<1> DEFINE i == onbill(w, o)
           b == w.shk.bill
           L == Lof(b)
           q == w.shk.bill_p
           s == [w.obj[o] EXCEPT !.unpaid = FALSE]
           f == [w.obj EXCEPT ![o] = s]
           u == [w EXCEPT !.obj[o].unpaid = FALSE]
           v == subfrombill(w, o)
<1>1. /\ w \in Worlds /\ b \in Seq(Lines) /\ Distinct(b) /\ Match(w.obj, L) /\ q \in {"null", "own", "dump"}
      /\ (\A l \in L : l.price = get_cost(w)) /\ w.obj \in [Obj -> Struct] /\ w.obj[o] \in Struct /\ Formed(w.obj[o])
      /\ L \in SUBSET Lines
  BY GoodParts
<1>2. /\ s \in Struct /\ s.where = w.obj[o].where /\ s.quan = w.obj[o].quan /\ s.unpaid = FALSE
      /\ s.no_charge = w.obj[o].no_charge /\ (~w.obj[o].unpaid => s = w.obj[o])
  BY <1>1 DEF Struct
<1>3. Formed(s) /\ s.where # "onbill" /\ s.where # "none" /\ ~s.unpaid
  BY <1>1, <1>2 DEF Formed, InPlay
<1>4. u = [w EXCEPT !.obj = f] /\ u.shk = w.shk /\ w.shk \in Keepers
  BY <1>1, WorldParts DEF Worlds
<1>5. v = IF i = 0 THEN w
          ELSE IF b[i].bquan = w.obj[o].quan THEN drop_entry(u, i)
          ELSE [u EXCEPT !.obj[Fresh(w)] = [u.obj[o] EXCEPT !.where = "onbill", !.quan = b[i].bquan - w.obj[o].quan],
                         !.shk.bill[i] = Entry(Fresh(w), b[i].bquan - w.obj[o].quan, b[i].price, TRUE)]
  BY DEF subfrombill
<1> HIDE DEF s, u, v
<1>6. CASE i = 0
  <2>1. v = w /\ ~w.obj[o].unpaid
    BY <1>5, <1>6, EntryIs
  <2>2. w.obj[o] = [w.obj[o] EXCEPT !.unpaid = FALSE]
    BY <1>2, <2>1 DEF s
  <2>3. Sound(w, w)
    BY SoundSelf
  <2>4. \E d \in Obj : Free(w) \ {d} \subseteq Free(w)
    OBVIOUS
  <2> QED BY <1>6, <2>1, <2>2, <2>3, <2>4 DEF Taken, v
<1>7. ASSUME i # 0
      PROVE  /\ i \in DOMAIN b /\ b[i] \in Lines /\ b[i] \in L /\ b[i].bo_id = o /\ b[i].price = get_cost(w)
             /\ w.obj[o].quan \in 1 .. b[i].bquan /\ b[i].bquan \in Nat /\ w.obj[o].quan \in Nat
             /\ \A j \in DOMAIN b : b[j].bo_id = o => j = i
             /\ Partly(w, o) <=> b[i].bquan # w.obj[o].quan
  <2>1. /\ i \in DOMAIN b /\ b[i] \in Lines /\ b[i] \in L /\ b[i].bo_id = o /\ b[i].price = get_cost(w)
        /\ w.obj[o].quan \in 1 .. b[i].bquan
        /\ \A j \in DOMAIN b : b[j].bo_id = o => j = i
    BY <1>7, EntryIs
  <2>2. b[i].bquan \in Nat /\ w.obj[o].quan \in Nat
    BY <1>1, <2>1 DEF Lines, Struct
  <2>3. \A l \in L : l.bo_id = o => l = b[i]
    BY <2>1 DEF Lof
  <2> HIDE DEF i
  <2>4. Partly(w, o) <=> b[i].bquan > w.obj[o].quan
    BY <2>1, <2>3 DEF Partly
  <2> QED BY <2>1, <2>2, <2>4
<1>8. \A c : \A x \in Obj : x # o /\ Lof(c) = Sans(L, o) =>
          (\E l \in Lof(c) : l.bo_id = x /\ l.bquan > w.obj[x].quan) <=> Partly(w, x)
  BY DEF Partly, Sans
<1>9. CASE i # 0 /\ b[i].bquan = w.obj[o].quan
  <2> DEFINE c == Front([b EXCEPT ![i] = Last(b)])
             y == At(w, f, c, q)
  <2>1. i \in DOMAIN b /\ b[i].bo_id = o /\ ~Partly(w, o)
    BY <1>7, <1>9
  <2>2. v = y
    BY <1>4, <1>5, <1>9 DEF drop_entry, At, Worlds, Keepers
  <2>3. c \in Seq(Lines) /\ Distinct(c) /\ Lof(c) = Sans(L, o)
    BY <1>1, <2>1, SeqDrop
  <2> HIDE DEF c
  <2>4. Match(f, Sans(L, o))
    <3> HIDE DEF L
    <3> QED BY <1>1, <1>2, <1>3, MatchOff
  <2>5. Agreed(f, c) /\ \A l \in Lof(c) : l.price = get_cost(w)
    BY <1>1, <2>3, <2>4 DEF Agreed, Sans
  <2>6. f[o] = s /\ \A x \in Obj : x # o => f[x] = w.obj[x]
    BY <1>1
  <2> HIDE DEF f
  <2>7. Good(y) /\ y.obj = f /\ y.shk.bill = c /\ y.shk.bill_p = q /\ y.ushops = w.ushops /\ y.shk.at = w.shk.at
    <3>1. Agreed(f, c)
      BY <2>5
    <3>2. \A l \in Lof(c) : l.price = get_cost(w)
      BY <2>5
    <3>3. q \in {"null", "own", "dump"}
      BY <1>1
    <3> HIDE DEF q
    <3> QED BY <3>1, <3>2, <3>3, AtGood
  <2> HIDE DEF y
  <2>8. Sound(w, y)
    <3>1. b # <<>>
      BY <2>1
    <3> QED BY <2>7, <3>1 DEF Sound, Frame, Inside
  <2>9. onbill(y, o) = 0
    <3>1. \A l \in Lof(c) : l.bo_id # o
      BY <2>3 DEF Sans
    <3> QED BY <2>7, <3>1, EntryIs
  <2>10. \A x \in Obj : x # o /\ InPlay(w, x) => y.obj[x] = w.obj[x] /\ (Partly(y, x) <=> Partly(w, x))
    <3> SUFFICES ASSUME NEW x \in Obj, x # o PROVE y.obj[x] = w.obj[x] /\ (Partly(y, x) <=> Partly(w, x))
      OBVIOUS
    <3>1. y.obj[x] = w.obj[x] /\ y.shk.bill = c
      BY <2>6, <2>7
    <3>2. Partly(y, x) <=> \E l \in Lof(c) : l.bo_id = x /\ l.bquan > w.obj[x].quan
      BY <3>1 DEF Partly
    <3>3. (\E l \in Lof(c) : l.bo_id = x /\ l.bquan > w.obj[x].quan) <=> Partly(w, x)
      BY <1>8, <2>3
    <3> QED BY <3>1, <3>2, <3>3
  <2>11. Free(y) = Free(w)
    BY <1>2, <2>6, <2>7 DEF Free
  <2>12. \E d \in Obj : Free(w) \ {d} \subseteq Free(y)
    BY <2>11
  <2> QED BY <2>1, <2>2, <2>6, <2>7, <2>8, <2>9, <2>10, <2>11, <2>12 DEF Taken, s, v
<1>10. CASE i # 0 /\ b[i].bquan # w.obj[o].quan
  <2> DEFINE d == Fresh(w)
             used == b[i].bquan - w.obj[o].quan
             l == Entry(d, used, b[i].price, TRUE)
             t == [s EXCEPT !.where = "onbill", !.quan = used]
             g == [f EXCEPT ![d] = t]
             c == [b EXCEPT ![i] = l]
             y == At(w, g, c, q)
  <2>1. /\ i \in DOMAIN b /\ b[i] \in Lines /\ b[i] \in L /\ b[i].bo_id = o /\ b[i].price = get_cost(w)
        /\ w.obj[o].quan \in 1 .. b[i].bquan /\ b[i].bquan \in Nat /\ w.obj[o].quan \in Nat
        /\ (\A j \in DOMAIN b : b[j].bo_id = o => j = i) /\ Partly(w, o)
    BY <1>7, <1>10
  <2>2. d \in Free(w)
    BY <2>1, FreshIn DEF Covered
  <2>3. d \in Obj /\ w.obj[d] = NoObj /\ \A k \in L : k.bo_id # d
    BY <2>2, FreeIs
  <2>4. d # o
    BY <2>3 DEF InPlay, NoObj
  <2>5. v = y
    <3>1. u.obj[o] = s
      BY <1>1, <1>4
    <3>2. v = [u EXCEPT !.obj[d] = t, !.shk.bill[i] = l]
      BY <1>5, <1>10, <3>1
    <3> HIDE DEF d, t, l
    <3>3. v = [u EXCEPT !.obj = [u.obj EXCEPT ![d] = t], !.shk = [u.shk EXCEPT !.bill = [u.shk.bill EXCEPT ![i] = l]]]
      BY <1>1, <1>4, <3>2 DEF Worlds, Keepers
    <3>4. u.obj = f
      BY <1>1, <1>4 DEF Worlds
    <3> QED BY <1>1, <1>4, <3>3, <3>4 DEF At, Worlds, Keepers
  <2>6. used \in Nat /\ used > 0
    BY <1>10, <2>1
  <2> HIDE DEF used
  <2>7. l \in Lines /\ l.bo_id = d /\ l.bquan = used /\ l.useup = TRUE /\ l.price = get_cost(w)
    BY <2>1, <2>3, <2>6 DEF Lines, Entry
  <2>8. /\ t \in Struct /\ t.where = "onbill" /\ t.quan = used /\ t.unpaid = FALSE
    BY <1>2, <2>6 DEF Struct, Places
  <2>9. Formed(t) /\ Backs(l, t)
    BY <2>6, <2>7, <2>8 DEF Formed, Backs
  <2> HIDE DEF d, l, t
  <2>10. c \in Seq(Lines) /\ Distinct(c) /\ Lof(c) = Sans(L, o) \cup {l}
    <3>1. \A j \in DOMAIN b : b[j].bo_id # d
      BY <2>3 DEF Lof
    <3>2. /\ b \in Seq(Lines) /\ Distinct(b) /\ i \in DOMAIN b /\ l \in Lines
          /\ \A j \in DOMAIN b : b[j].bo_id = l.bo_id => j = i
      BY <1>1, <2>1, <2>7, <3>1
    <3> HIDE DEF b, i
    <3>3. c \in Seq(Lines) /\ Distinct(c) /\ Lof(c) = Sans(Lof(b), b[i].bo_id) \cup {l}
      BY ONLY <3>2, SeqSet DEF c
    <3> QED BY <2>1, <3>3 DEF L
  <2> HIDE DEF c
  <2>11. Match(f, Sans(L, o))
    <3> HIDE DEF L
    <3> QED BY <1>1, <1>2, <1>3, MatchOff
  <2>12. Sans(Sans(L, o), d) = Sans(L, o)
    BY <2>3 DEF Sans
  <2>13. Match(g, Sans(L, o) \cup {l})
    <3> HIDE DEF f, L
    <3>1. Match([f EXCEPT ![d] = t], Sans(Sans(L, o), d) \cup {l})
      BY <2>3, <2>7, <2>8, <2>9, <2>11, MatchPut
    <3> QED BY <2>12, <3>1
  <2>14. Agreed(g, c) /\ \A k \in Lof(c) : k.price = get_cost(w)
    BY <1>1, <2>7, <2>10, <2>13 DEF Agreed, Sans
  <2>15. g[o] = s /\ g[d] = t /\ \A x \in Obj : x # o /\ x # d => g[x] = w.obj[x]
    BY <1>1, <2>3, <2>4
  <2> HIDE DEF g
  <2>16. Good(y) /\ y.obj = g /\ y.shk.bill = c /\ y.shk.bill_p = q /\ y.ushops = w.ushops /\ y.shk.at = w.shk.at
    <3>1. Agreed(g, c)
      BY <2>14
    <3>2. \A k \in Lof(c) : k.price = get_cost(w)
      BY <2>14
    <3>3. q \in {"null", "own", "dump"}
      BY <1>1
    <3> HIDE DEF q
    <3> QED BY <3>1, <3>2, <3>3, AtGood
  <2> HIDE DEF y
  <2>17. Sound(w, y)
    <3>1. b # <<>>
      BY <2>1
    <3> QED BY <2>16, <3>1 DEF Sound, Frame, Inside
  <2>18. onbill(y, o) = 0
    <3>1. \A k \in Lof(c) : k.bo_id # o
      BY <2>4, <2>7, <2>10 DEF Sans
    <3> QED BY <2>16, <3>1, EntryIs
  <2>19. ASSUME NEW x \in Obj, x # o, InPlay(w, x) PROVE y.obj[x] = w.obj[x] /\ (Partly(y, x) <=> Partly(w, x))
    <3>1. x # d
      BY <2>3, <2>19 DEF InPlay, NoObj
    <3>2. y.obj[x] = w.obj[x] /\ y.shk.bill = c
      BY <2>15, <2>16, <2>19, <3>1
    <3>3. Partly(y, x) <=> \E k \in Lof(c) : k.bo_id = x /\ k.bquan > w.obj[x].quan
      BY <3>2 DEF Partly
    <3>4. (\E k \in Lof(c) : k.bo_id = x /\ k.bquan > w.obj[x].quan) <=> Partly(w, x)
      BY <2>7, <2>10, <2>19, <3>1 DEF Partly, Sans
    <3> QED BY <3>2, <3>3, <3>4
  <2>20. Free(w) \ {d} \subseteq Free(y)
    <3> SUFFICES ASSUME NEW x \in Free(w), x # d PROVE x \in Free(y)
      OBVIOUS
    <3>1. x \in Obj /\ x # o
      BY DEF Free, InPlay
    <3> QED BY <2>15, <2>16, <3>1 DEF Free
  <2>21. \E e \in Obj : Free(w) \ {e} \subseteq Free(y)
    BY <2>3, <2>20
  <2> QED BY <2>1, <2>5, <2>15, <2>16, <2>17, <2>18, <2>19, <2>21 DEF Taken, s, v
<1> QED BY <1>6, <1>9, <1>10

-----------------------------------------------------------------------------
(* Splitting.                                                              *)

(* v is w with num of o split off as p, the entry with them.               *)
Halved(w, v, o, p, num) ==
  /\ Sound(w, v)
  /\ v.obj[p] = [w.obj[o] EXCEPT !.quan = num] /\ v.obj[o] = [w.obj[o] EXCEPT !.quan = w.obj[o].quan - num]
  /\ \A x \in Obj : x # o /\ x # p => v.obj[x] = w.obj[x]
  /\ ~Partly(v, p) /\ (Partly(v, o) <=> Partly(w, o)) /\ Free(v) = Free(w) \ {p}

(* Two structs and their entries.                                          *)
TwoParts(w, o, p, num, s, t, f) ==
  /\ s = [w.obj[o] EXCEPT !.quan = w.obj[o].quan - num] /\ t = [w.obj[o] EXCEPT !.quan = num]
  /\ s \in Struct /\ t \in Struct /\ Told(w.obj[o], s) /\ Formed(t)
  /\ s.where = w.obj[o].where /\ t.where = w.obj[o].where /\ t.unpaid = w.obj[o].unpaid
  /\ s.unpaid = w.obj[o].unpaid /\ s.quan = w.obj[o].quan - num /\ t.quan = num
  /\ p \in Obj /\ p # o /\ num \in Nat /\ num > 0 /\ w.obj[o].quan \in Nat /\ num < w.obj[o].quan
  /\ f \in [Obj -> Struct] /\ f[o] = s /\ f[p] = t /\ \A x \in Obj : x # o /\ x # p => f[x] = w.obj[x]
  /\ f = [[w.obj EXCEPT ![o] = s] EXCEPT ![p] = t]

(* The two stacks are right again.                                         *)
LEMMA PartsExist ==
  ASSUME NEW w, Good(w), NEW o \in Obj, InPlay(w, o), NEW p \in Free(w), NEW num \in 1 .. (w.obj[o].quan - 1)
  PROVE  \E s, t, f : TwoParts(w, o, p, num, s, t, f)
<1> DEFINE s == [w.obj[o] EXCEPT !.quan = w.obj[o].quan - num]
           t == [w.obj[o] EXCEPT !.quan = num]
           f == [[w.obj EXCEPT ![o] = s] EXCEPT ![p] = t]
<1>1. w.obj \in [Obj -> Struct] /\ w.obj[o] \in Struct /\ Formed(w.obj[o])
  BY GoodParts
<1>2. p \in Obj /\ p # o
  BY FreeIs DEF InPlay, NoObj
<1>3. num \in Nat /\ num > 0 /\ w.obj[o].quan \in Nat /\ num < w.obj[o].quan
  BY <1>1 DEF Struct
<1>4. s \in Struct /\ t \in Struct /\ Told(w.obj[o], s) /\ Formed(t)
      /\ s.where = w.obj[o].where /\ t.where = w.obj[o].where /\ t.unpaid = w.obj[o].unpaid
      /\ s.unpaid = w.obj[o].unpaid /\ s.quan = w.obj[o].quan - num /\ t.quan = num
  BY <1>1, <1>3 DEF Struct, Told, Formed, InPlay
<1>5. f \in [Obj -> Struct] /\ f[o] = s /\ f[p] = t /\ \A x \in Obj : x # o /\ x # p => f[x] = w.obj[x]
  <2> HIDE DEF s, t
  <2> QED BY <1>1, <1>2, <1>4
<1>6. TwoParts(w, o, p, num, s, t, f)
  BY <1>2, <1>3, <1>4, <1>5 DEF TwoParts
<1> HIDE DEF s, t, f
<1> QED BY <1>6

(* splitobj tells the bill, and the two entries back the two stacks.       *)
LEMMA SplitSound ==
  ASSUME NEW w, Good(w), Inside(w), NEW o \in Obj, InPlay(w, o), NEW p \in Free(w),
         NEW num \in 1 .. (w.obj[o].quan - 1)
  PROVE  Halved(w, splitobj(w, o, p, num), o, p, num)
<1> DEFINE v0 == [w EXCEPT !.obj[p] = [w.obj[o] EXCEPT !.quan = num], !.obj[o].quan = @ - num]
           v1 == shop_keeper(v0)
           v  == splitobj(w, o, p, num)
           i  == onbill(w, o)
           q  == w.shk.bill_p
<1>1. PICK s, t, f : TwoParts(w, o, p, num, s, t, f)
  BY PartsExist
<1>2. /\ w \in Worlds /\ w.obj \in [Obj -> Struct] /\ w.obj[o] \in Struct /\ Formed(w.obj[o])
  BY GoodParts
<1>3. p \in Obj /\ p # o /\ (\A l \in Lof(w.shk.bill) : l.bo_id # p) /\ w.obj[p] = NoObj /\ onbill(w, p) = 0
  BY <1>1, FreeIs DEF TwoParts
<1>4. v0 = [w EXCEPT !.obj = f]
  <2>1. [[w.obj EXCEPT ![p] = t] EXCEPT ![o] = s] = f
    BY <1>1, <1>2, <1>3 DEF TwoParts
  <2>2. v0 = [w EXCEPT !.obj = [[w.obj EXCEPT ![p] = t] EXCEPT ![o] = [[w.obj EXCEPT ![p] = t][o] EXCEPT !.quan = @ - num]]]
    BY <1>1, <1>2 DEF Worlds, TwoParts
  <2>3. [w.obj EXCEPT ![p] = t][o] = w.obj[o]
    BY <1>2, <1>3
  <2>4. [w.obj[o] EXCEPT !.quan = @ - num] = s
    BY <1>1 DEF TwoParts
  <2> QED BY <2>1, <2>2, <2>3, <2>4
<1>5. v = IF w.obj[o].unpaid THEN splitbill(v1, o, p, num) ELSE v0
  BY DEF splitobj
<1>6. v0 \in Worlds /\ v0.shk = w.shk /\ v0.obj = f /\ v0.ushops = w.ushops
  BY <1>1, <1>2, <1>4 DEF Worlds, TwoParts
<1> HIDE DEF v0, v
<1>7. \A y : y.obj = f => Free(y) = Free(w) \ {p}
  BY <1>1, <1>3, ZenonT(30) DEF Free, TwoParts, InPlay
<1>8. CASE ~w.obj[o].unpaid
  <2>1. i = 0 /\ \A l \in Lof(w.shk.bill) : l.bo_id # o
    BY <1>8, EntryIs
  <2> DEFINE x == Put(w, o, s)
             y == Put(x, p, t)
  <2>2. Sound(w, x) /\ x.shk = w.shk
    <3>1. Told(w.obj[o], s)
      BY <1>1 DEF TwoParts
    <3> QED BY <3>1, PutTold
  <2>3. x \in Worlds /\ x.obj = [w.obj EXCEPT ![o] = s]
    BY <1>1, <1>2, PutIs DEF TwoParts
  <2> HIDE DEF x
  <2>4. onbill(x, p) = 0
    BY <1>3, <2>2 DEF onbill
  <2>5. Sound(x, y) /\ y.shk = x.shk
    <3>1. Good(x)
      BY <2>2 DEF Sound
    <3>2. t \in Struct /\ Formed(t) /\ ~t.unpaid /\ t.where # "onbill"
      BY <1>1, <1>8 DEF TwoParts, InPlay
    <3>3. p \in Obj
      BY <1>3
    <3>4. t \in Struct
      BY <3>2
    <3> QED BY <2>4, <3>1, <3>2, <3>3, <3>4, PutOff
  <2>6. y = v
    <3>1. y = [x EXCEPT !.obj = f]
      BY <1>1, <2>3 DEF Put, TwoParts
    <3>2. x = [w EXCEPT !.obj = [w.obj EXCEPT ![o] = s]]
      BY DEF x, Put
    <3> QED BY <1>2, <1>4, <1>5, <1>8, <3>1, <3>2 DEF Worlds
  <2>7. Sound(w, v) /\ v.shk = w.shk /\ v.obj = f
    BY <1>5, <1>6, <1>8, <2>2, <2>5, <2>6, SoundTrans
  <2>8. ~Partly(v, p) /\ ~Partly(v, o) /\ ~Partly(w, o)
    BY <1>3, <2>1, <2>7 DEF Partly
  <2> QED BY <1>1, <1>7, <2>7, <2>8 DEF Halved, TwoParts, v
<1>9. CASE w.obj[o].unpaid
  <2> DEFINE u == [v1 EXCEPT !.obj = w.obj]
             b == u.shk.bill
             c == [b EXCEPT ![i] = [b[i] EXCEPT !.bquan = b[i].bquan - num]]
             l == Entry(p, num, b[i].price, FALSE)
             m == [b[i] EXCEPT !.bquan = b[i].bquan - num]
             L == Lof(b)
             e == Append(c, l)
             y == At(u, f, e, "own")
  <2>1. Quiet(v0, v1) /\ v1 \in Worlds
    BY <1>6, QuietLook DEF Quiet
  <2> HIDE DEF v1
  <2>2. u \in Worlds /\ u.obj = w.obj /\ u.shk = v1.shk /\ u.ushops = v1.ushops /\ v1 = [u EXCEPT !.obj = f]
    BY <1>2, <1>6, <2>1 DEF Worlds, Quiet
  <2> HIDE DEF u
  <2>3. Quiet(w, u)
    <3>1. get_cost(w) = get_cost(v0) /\ get_cost(u) = get_cost(v1)
      BY <1>6, <2>2 DEF get_cost
    <3> QED BY <1>2, <1>6, <2>1, <2>2, <3>1 DEF Quiet, Priced, Lent
  <2>4. Good(u) /\ Frame(w, u) /\ Inside(u) /\ onbill(u, o) = i /\ onbill(u, p) = 0
    BY <1>3, <2>3, QuietGood
  <2>5. i # 0
    BY <1>9, EntryIs
  <2>6. /\ InPlay(u, o) /\ Good(u)
    BY <2>2, <2>4 DEF InPlay
  <2>7. /\ i \in DOMAIN b /\ b[i] \in Lines /\ b[i] \in L /\ b[i].bo_id = o /\ b[i].price = get_cost(u)
        /\ (\A j \in DOMAIN b : b[j].bo_id = o => j = i) /\ ~b[i].useup /\ w.obj[o].quan \in 1 .. b[i].bquan
        /\ b # <<>>
    BY <2>2, <2>4, <2>5, <2>6, EntryIs
  <2>8. \A j \in DOMAIN b : b[j].bo_id # p
    BY <1>3, <2>4, EntryIs
  <2>9. \A k \in L : k.bo_id # p
    BY <2>8 DEF Lof
  <2>10. /\ b \in Seq(Lines) /\ Distinct(b) /\ Match(w.obj, L) /\ (\A k \in L : k.price = get_cost(u)) /\ L \in SUBSET Lines
    BY <2>2, <2>4, GoodParts
  <2>11. tended(v1) /\ onbill(v1, o) = i
    <3>1. onbill(v1, o) = onbill(u, o)
      BY <2>2 DEF onbill
    <3>2. u.ushops /\ u.shk.at = "shop"
      BY <2>4, <2>7 DEF Inside
    <3> QED BY <2>2, <2>4, <3>1, <3>2 DEF tended, inhishop
  <2>12. v = extend_bill([v1 EXCEPT !.shk.bill[i].bquan = @ - num], Entry(p, num, v1.shk.bill[i].price, FALSE))
    <3>1. v = splitbill(v1, o, p, num)
      BY <1>5, <1>9
    <3> HIDE DEF i
    <3> QED BY <2>5, <2>11, <3>1 DEF splitbill
  <2> HIDE DEF i
  <2>13. v = y
    <3> DEFINE z == [v1 EXCEPT !.shk.bill[i].bquan = @ - num]
    <3>1. v1.shk = u.shk /\ v1.shk \in Keepers /\ v1.shk.bill = b
      BY <2>1, <2>2, WorldParts
    <3>2. z = [v1 EXCEPT !.shk = [v1.shk EXCEPT !.bill = c]]
      BY <2>1, <3>1 DEF Worlds, Keepers
    <3>3. v = extend_bill(z, l)
      BY <2>12, <3>1
    <3> HIDE DEF z, c, l
    <3>4. z.shk.bill = c
      BY <2>1, <3>1, <3>2 DEF Worlds, Keepers
    <3>5. extend_bill(z, l) = [z EXCEPT !.shk = [z.shk EXCEPT !.bill_p = "own", !.bill = e]]
      BY <2>1, <3>1, <3>2, <3>4 DEF extend_bill, Worlds, Keepers
    <3> HIDE DEF e
    <3>6. extend_bill(z, l) = [v1 EXCEPT !.shk = [v1.shk EXCEPT !.bill = e, !.bill_p = "own"]]
      BY <2>1, <3>1, <3>2, <3>5 DEF Worlds, Keepers
    <3> QED BY <2>2, <3>1, <3>3, <3>6 DEF At, Worlds
  <2>14. /\ num \in Nat /\ num > 0 /\ b[i].bquan \in Nat /\ w.obj[o].quan \in Nat /\ num < w.obj[o].quan
    BY <1>1, <2>7 DEF TwoParts, Lines
  <2>15. /\ l \in Lines /\ l.bo_id = p /\ l.bquan = num /\ l.useup = FALSE /\ l.price = get_cost(u)
         /\ m \in Lines /\ m.bo_id = o /\ m.bquan = b[i].bquan - num /\ m.useup = FALSE /\ m.price = get_cost(u)
    BY <1>3, <2>7, <2>14 DEF Lines, Entry
  <2> HIDE DEF l, m
  <2>16. Backs(m, s) /\ Backs(l, t)
    BY <1>1, <1>9, <2>7, <2>14, <2>15 DEF Backs, TwoParts, InPlay
  <2>17. c = [b EXCEPT ![i] = m]
    BY DEF m
  <2>18. /\ c \in Seq(Lines) /\ Distinct(c) /\ Lof(c) = Sans(L, o) \cup {m}
         /\ DOMAIN c = DOMAIN b /\ \A j \in DOMAIN b : c[j] = IF j = i THEN m ELSE b[j]
    <3> HIDE DEF c
    <3> QED BY <2>7, <2>10, <2>15, <2>17, SeqSet
  <2> HIDE DEF c
  <2>19. \A j \in DOMAIN c : c[j].bo_id # p
    BY <1>3, <2>8, <2>15, <2>18
  <2>20. /\ e \in Seq(Lines) /\ Distinct(e) /\ Lof(e) = Lof(c) \cup {l} /\ Sans(Lof(c), p) = Lof(c)
    BY <2>15, <2>18, <2>19, SeqAdd
  <2> HIDE DEF e
  <2>21. Match([w.obj EXCEPT ![o] = s], Lof(c))
    <3>1. s \in Struct /\ Formed(s)
      BY <1>1 DEF TwoParts, Told, Formed
    <3> HIDE DEF L
    <3> QED BY <2>10, <2>15, <2>16, <2>18, <3>1, MatchPut
  <2>22. Match(f, Lof(e))
    <3>1. t \in Struct /\ Formed(t) /\ f = [[w.obj EXCEPT ![o] = s] EXCEPT ![p] = t]
      BY <1>1 DEF TwoParts
    <3>2. Match([[w.obj EXCEPT ![o] = s] EXCEPT ![p] = t], Sans(Lof(c), p) \cup {l})
      BY <1>3, <2>15, <2>16, <2>21, <3>1, MatchPut
    <3> QED BY <2>20, <3>1, <3>2
  <2>23. Agreed(f, e)
    BY <2>20, <2>22 DEF Agreed
  <2>24. \A k \in Lof(e) : k.price = get_cost(u)
    BY <2>10, <2>15, <2>18, <2>20 DEF Sans
  <2>25. Good(y) /\ y.obj = f /\ y.shk.bill = e /\ y.shk.bill_p = "own" /\ y.ushops = u.ushops /\ y.shk.at = u.shk.at
    <3>1. "own" \in {"null", "own", "dump"}
      OBVIOUS
    <3> QED BY <2>6, <2>23, <2>24, <3>1, AtGood
  <2> HIDE DEF y
  <2>26. Sound(w, y)
    <3>1. u.ushops /\ u.shk.at = "shop" /\ u.shk.bill_p = "own"
      BY <2>4, <2>7 DEF Inside
    <3> QED BY <2>4, <2>25, <3>1 DEF Sound, Frame, Inside
  <2>27. ~Partly(y, p)
    <3>1. \A k \in Lof(e) : k.bo_id = p => k = l
      BY <2>15, <2>18, <2>19, <2>20 DEF Lof
    <3>2. y.obj[p].quan = num
      BY <1>1, <2>25 DEF TwoParts
    <3> QED BY <2>14, <2>15, <2>25, <3>1, <3>2 DEF Partly
  <2>28. Partly(u, o) <=> Partly(w, o)
    <3>1. PartlyUsed(u, o) = PartlyUsed(w, o)
      <4>1. u.shk.bill[i].bquan = w.shk.bill[i].bquan
        <5>1. DOMAIN b = DOMAIN w.shk.bill
          BY <2>3 DEF Quiet, Alike
        <5> QED BY <2>3, <2>7, <5>1 DEF Quiet, Alike
      <4>2. onbill(u, o) = i /\ onbill(w, o) = i
        BY <2>4 DEF i
      <4> QED BY <2>2, <2>5, <4>1, <4>2 DEF PartlyUsed
    <3> QED BY <2>4, <3>1, PartlyIs
  <2>29. Partly(y, o) <=> Partly(u, o)
    <3>1. \A k \in Lof(e) : k.bo_id = o => k = m
      BY <1>3, <2>15, <2>18, <2>20 DEF Sans
    <3>2. m \in Lof(e)
      BY <2>18, <2>20
    <3>3. \A k \in L : k.bo_id = o => k = b[i]
      BY <2>7 DEF Lof
    <3>4. y.obj[o].quan = w.obj[o].quan - num /\ u.obj[o].quan = w.obj[o].quan
      BY <1>1, <2>2, <2>25 DEF TwoParts
    <3>5. Partly(y, o) <=> m.bquan > w.obj[o].quan - num
      BY <2>15, <2>25, <3>1, <3>2, <3>4 DEF Partly
    <3>6. Partly(u, o) <=> b[i].bquan > w.obj[o].quan
      BY <2>7, <3>3, <3>4 DEF Partly
    <3> QED BY <2>14, <2>15, <3>5, <3>6
  <2> QED BY <1>1, <1>7, <2>13, <2>25, <2>26, <2>27, <2>28, <2>29 DEF Halved, TwoParts, v
<1> QED BY <1>8, <1>9

-----------------------------------------------------------------------------
(* Using up, and stacking.                                                 *)

(* obfree keeps what is still to be paid for on the chain of the bill.     *)
LEMMA FreeSound ==
  ASSUME NEW w, Good(w), NEW o \in Obj, InPlay(w, o)
  PROVE  Sound(w, obfree(w, o))
<1> DEFINE i == onbill(w, o)
           u == shop_keeper(w)
           b == u.shk.bill
           L == Lof(b)
           q == u.shk.bill_p
           s == [w.obj[o] EXCEPT !.unpaid = FALSE, !.where = "onbill"]
           f == [w.obj EXCEPT ![o] = s]
           l == [b[i] EXCEPT !.useup = TRUE]
           c == [b EXCEPT ![i] = l]
           y == At(u, f, c, q)
           v == obfree(w, o)
<1>1. w \in Worlds /\ w.obj[o] \in Struct /\ Formed(w.obj[o]) /\ w.obj \in [Obj -> Struct]
  BY GoodParts
<1>2. v = IF i = 0 THEN [w EXCEPT !.obj[o] = NoObj]
          ELSE [u EXCEPT !.shk.bill[i].useup = TRUE, !.obj[o].unpaid = FALSE, !.obj[o].where = "onbill"]
  BY DEF obfree
<1> HIDE DEF v
<1>3. CASE i = 0
  <2>1. v = Put(w, o, NoObj)
    BY <1>1, <1>2, <1>3 DEF Put, Worlds
  <2>2. NoObj \in Struct /\ Formed(NoObj) /\ ~NoObj.unpaid /\ NoObj.where # "onbill"
    BY DEF NoObj, Struct, Formed, Places
  <2>3. Sound(w, Put(w, o, NoObj))
    <3>1. NoObj \in Struct
      BY <2>2
    <3> QED BY <1>3, <2>2, <3>1, PutOff
  <2> QED BY <2>1, <2>3 DEF v
<1>4. CASE i # 0
  <2>1. Quiet(w, u)
    BY <1>1, QuietLook
  <2>2. Good(u) /\ Frame(w, u) /\ (Inside(w) => Inside(u)) /\ u.obj = w.obj /\ onbill(u, o) = i
    BY <2>1, QuietGood
  <2> HIDE DEF u
  <2>3. InPlay(u, o)
    BY <2>2 DEF InPlay
  <2>4. /\ i \in DOMAIN b /\ b[i] \in Lines /\ b[i].bo_id = o /\ b[i].price = get_cost(u) /\ b[i].bquan > 0
        /\ (\A j \in DOMAIN b : b[j].bo_id = o => j = i) /\ b # <<>>
    BY <1>4, <2>2, <2>3, EntryIs DEF Backs
  <2>5. /\ b \in Seq(Lines) /\ Distinct(b) /\ Match(w.obj, L) /\ (\A k \in L : k.price = get_cost(u))
        /\ L \in SUBSET Lines /\ q \in {"null", "own", "dump"} /\ u \in Worlds
    BY <2>2, GoodParts
  <2> HIDE DEF i
  <2>6. v = y
    <3> DEFINE z == [u EXCEPT !.shk.bill[i].useup = TRUE]
    <3>1. u.shk \in Keepers
      BY <2>5, WorldParts
    <3>2. z = [u EXCEPT !.shk = [u.shk EXCEPT !.bill = c]]
      BY <2>5, <3>1 DEF Worlds, Keepers
    <3>3. z.obj = w.obj
      BY <2>2, <2>5, <3>2 DEF Worlds
    <3>4. v = [z EXCEPT !.obj[o].unpaid = FALSE, !.obj[o].where = "onbill"]
      BY <1>2, <1>4
    <3> HIDE DEF z, c
    <3>5. v = [z EXCEPT !.obj = f]
      <4>1. [z EXCEPT !.obj[o].unpaid = FALSE, !.obj[o].where = "onbill"]
            = [z EXCEPT !.obj = [[z.obj EXCEPT ![o].unpaid = FALSE] EXCEPT ![o].where = "onbill"]]
        BY <2>5, <3>2 DEF Worlds
      <4>2. [[w.obj EXCEPT ![o].unpaid = FALSE] EXCEPT ![o].where = "onbill"] = f
        BY <1>1
      <4> QED BY <3>3, <3>4, <4>1, <4>2
    <3> HIDE DEF f
    <3>6. [u.shk EXCEPT !.bill = c] = [u.shk EXCEPT !.bill = c, !.bill_p = q]
      BY <3>1 DEF Keepers
    <3> QED BY <2>5, <3>2, <3>5, <3>6 DEF At, Worlds
  <2>7. /\ s \in Struct /\ s.unpaid = FALSE /\ s.where = "onbill" /\ s.quan = w.obj[o].quan
        /\ l \in Lines /\ l.bo_id = o /\ l.useup = TRUE /\ l.bquan = b[i].bquan /\ l.price = get_cost(u)
    BY <1>1, <2>4 DEF Struct, Lines, Places
  <2>8. Formed(s) /\ Backs(l, s)
    BY <1>1, <2>4, <2>7 DEF Formed, Backs, InPlay
  <2> HIDE DEF s, l
  <2>9. c \in Seq(Lines) /\ Distinct(c) /\ Lof(c) = Sans(L, o) \cup {l}
    BY <2>4, <2>5, <2>7, SeqSet
  <2>10. Match(f, Lof(c))
    <3> HIDE DEF L, c
    <3> QED BY <2>5, <2>7, <2>8, <2>9, MatchPut
  <2>11. Agreed(f, c)
    BY <2>9, <2>10 DEF Agreed
  <2>12. \A k \in Lof(c) : k.price = get_cost(u)
    BY <2>5, <2>7, <2>9 DEF Sans
  <2>13. Good(y) /\ y.obj = f /\ y.shk.bill = c /\ y.shk.bill_p = q /\ y.ushops = u.ushops /\ y.shk.at = u.shk.at
    <3>1. q \in {"null", "own", "dump"}
      BY <2>5
    <3>2. Good(u)
      BY <2>2
    <3> HIDE DEF f, c, q
    <3> QED BY <2>11, <2>12, <3>1, <3>2, AtGood
  <2> HIDE DEF y, f, c
  <2> QED BY <2>2, <2>4, <2>6, <2>13 DEF Sound, Frame, Inside, v
<1> QED BY <1>3, <1>4

(* merged adds one entry to the other, as it does with the stacks.         *)
LEMMA MergeSound ==
  ASSUME NEW w, Good(w), NEW o \in Obj, NEW p \in Obj, InPlay(w, p), mergable(w, o, p)
  PROVE  Sound(w, merged(w, o, p))
<1> DEFINE b == w.shk.bill
           L == Lof(b)
           q == w.shk.bill_p
           i == onbill(w, p)
           j == onbill(w, o)
           s == [w.obj[o] EXCEPT !.quan = w.obj[o].quan + w.obj[p].quan]
           f == [[w.obj EXCEPT ![o] = s] EXCEPT ![p] = NoObj]
           g == [[w.obj EXCEPT ![p] = NoObj] EXCEPT ![o] = s]
           u == [w EXCEPT !.obj[o].quan = @ + w.obj[p].quan, !.obj[p] = NoObj]
           v == merged(w, o, p)
<1>1. /\ w \in Worlds /\ b \in Seq(Lines) /\ Distinct(b) /\ Match(w.obj, L) /\ (\A k \in L : k.price = get_cost(w))
      /\ w.obj \in [Obj -> Struct] /\ L \in SUBSET Lines /\ q \in {"null", "own", "dump"}
      /\ w.obj[o] \in Struct /\ w.obj[p] \in Struct /\ Formed(w.obj[o]) /\ Formed(w.obj[p])
  BY GoodParts
<1>2. /\ o # p /\ InPlay(w, o) /\ (w.obj[o].unpaid <=> w.obj[p].unpaid)
      /\ (w.obj[p].unpaid => i # 0 /\ j # 0)
  <2>1. w.obj[o].unpaid = w.obj[p].unpaid /\ w.obj[o].where = w.obj[p].where /\ o # p
    BY DEF mergable
  <2>2. w.obj[p].unpaid => i # 0 /\ j # 0
    BY DEF mergable
  <2> QED BY <2>1, <2>2 DEF InPlay
<1>3. /\ s \in Struct /\ s.where = w.obj[o].where /\ s.unpaid = w.obj[o].unpaid /\ s.no_charge = w.obj[o].no_charge
      /\ s.quan = w.obj[o].quan + w.obj[p].quan /\ w.obj[o].quan \in Nat /\ w.obj[p].quan \in Nat
  BY <1>1 DEF Struct
<1>4. Formed(s) /\ w.obj[o].quan > 0 /\ w.obj[p].quan > 0
  BY <1>1, <1>2, <1>3 DEF Formed, InPlay
<1>5. u = [w EXCEPT !.obj = f]
  <2>1. u = [w EXCEPT !.obj = [[w.obj EXCEPT ![o].quan = @ + w.obj[p].quan] EXCEPT ![p] = NoObj]]
    BY <1>1 DEF Worlds
  <2>2. [w.obj EXCEPT ![o].quan = @ + w.obj[p].quan] = [w.obj EXCEPT ![o] = s]
    BY <1>1
  <2> QED BY <2>1, <2>2
<1>6. f = g
  <2> HIDE DEF s
  <2> QED BY <1>1, <1>2, <1>3
<1>7. v = IF i = 0 THEN u ELSE drop_entry([u EXCEPT !.shk.bill[j].bquan = @ + b[i].bquan], i)
  BY DEF merged
<1>8. NoObj \in Struct /\ Formed(NoObj) /\ ~NoObj.unpaid /\ NoObj.where # "onbill"
  BY DEF NoObj, Struct, Formed, Places
<1>9. u \in Worlds /\ u.shk = w.shk /\ u.ushops = w.ushops
  <2> HIDE DEF s
  <2>1. f \in [Obj -> Struct]
    BY <1>1, <1>3, <1>8
  <2> QED BY <1>1, <1>5, <2>1 DEF Worlds
<1> HIDE DEF v, u, s
<1>10. CASE i = 0
  <2>1. ~w.obj[p].unpaid /\ ~w.obj[o].unpaid /\ j = 0
    <3>1. ~w.obj[p].unpaid
      BY <1>10, EntryIs
    <3> QED BY <1>2, <3>1, EntryIs
  <2>2. (\A k \in L : k.bo_id # p) /\ (\A k \in L : k.bo_id # o)
    BY <1>10, <2>1, EntryIs
  <2>3. Sans(L, o) = L /\ Sans(L, p) = L
    BY <2>2 DEF Sans
  <2>4. ~s.unpaid /\ s.where # "onbill"
    BY <1>2, <1>3, <2>1 DEF InPlay
  <2> HIDE DEF L
  <2>5. Match([w.obj EXCEPT ![p] = NoObj], L)
    BY <1>1, <1>8, <2>3, MatchOff
  <2>6. Match(g, L)
    BY <1>3, <1>4, <2>3, <2>4, <2>5, MatchOff
  <2>7. Agreed(f, b)
    BY <1>1, <1>6, <2>6 DEF Agreed, L
  <2> DEFINE y == At(w, f, b, q)
  <2>8. v = y
    <3>1. w.shk = [w.shk EXCEPT !.bill = b, !.bill_p = q]
      BY <1>1, WorldParts DEF Keepers
    <3>2. v = u
      BY <1>7, <1>10
    <3> HIDE DEF f
    <3> QED BY <1>1, <1>5, <3>1, <3>2 DEF At, Worlds
  <2>9. Good(y) /\ y.obj = f /\ y.shk.bill = b /\ y.shk.bill_p = q /\ y.ushops = w.ushops /\ y.shk.at = w.shk.at
    <3>1. q \in {"null", "own", "dump"}
      BY <1>1
    <3>2. \A k \in Lof(b) : k.price = get_cost(w)
      BY <1>1 DEF L
    <3> HIDE DEF f, q, b
    <3>3. Agreed(f, w.shk.bill) /\ (\A k \in Lof(w.shk.bill) : k.price = get_cost(w))
      BY <2>7, <3>2 DEF b
    <3>4. Agreed(f, b)
      BY <2>7
    <3> QED BY <3>1, <3>2, <3>4, AtGood
  <2> HIDE DEF y, f
  <2> QED BY <2>8, <2>9 DEF Sound, Frame, Inside, v
<1>11. CASE i # 0
  <2>1. /\ i \in DOMAIN b /\ b[i] \in Lines /\ b[i].bo_id = p /\ w.obj[p].unpaid
        /\ w.obj[p].quan \in 1 .. b[i].bquan /\ b # <<>>
    BY <1>11, EntryIs
  <2>2. j # 0
    BY <1>2, <2>1
  <2>3. /\ j \in DOMAIN b /\ b[j] \in Lines /\ b[j].bo_id = o /\ w.obj[o].unpaid /\ b[j].price = get_cost(w)
        /\ w.obj[o].quan \in 1 .. b[j].bquan /\ ~b[j].useup /\ \A k \in DOMAIN b : b[k].bo_id = o => k = j
    BY <1>2, <2>2, EntryIs
  <2> HIDE DEF i, j
  <2> DEFINE m == [b[j] EXCEPT !.bquan = b[j].bquan + b[i].bquan]
             c == [b EXCEPT ![j] = m]
             e == Front([c EXCEPT ![i] = Last(c)])
             y == At(w, f, e, q)
             z == [u EXCEPT !.shk.bill[j].bquan = @ + b[i].bquan]
  <2>4. v = y
    <3>1. z = [u EXCEPT !.shk = [w.shk EXCEPT !.bill = c]] /\ w.shk \in Keepers
      BY <1>1, <1>9, WorldParts DEF Worlds, Keepers
    <3>2. v = drop_entry(z, i)
      BY <1>7, <1>11
    <3> HIDE DEF z, c
    <3>3. z.shk.bill = c /\ z.shk = [w.shk EXCEPT !.bill = c]
      BY <1>9, <3>1 DEF Worlds, Keepers
    <3>4. v = [z EXCEPT !.shk = [z.shk EXCEPT !.bill = e]]
      BY <1>9, <3>1, <3>2, <3>3 DEF drop_entry, Worlds, Keepers
    <3> HIDE DEF e
    <3>5. v = [u EXCEPT !.shk = [w.shk EXCEPT !.bill = e]]
      BY <1>9, <3>1, <3>3, <3>4 DEF Worlds, Keepers
    <3>6. [w.shk EXCEPT !.bill = e] = [w.shk EXCEPT !.bill = e, !.bill_p = q]
      BY <3>1 DEF Keepers
    <3> HIDE DEF f
    <3>7. u = [w EXCEPT !.obj = f] /\ w \in Worlds
      BY <1>1, <1>5
    <3> QED BY ONLY <3>1, <3>5, <3>6, <3>7 DEF At, Worlds
  <2>5. b[i].bquan \in Nat /\ b[j].bquan \in Nat
    BY <2>1, <2>3 DEF Lines
  <2>6. m \in Lines /\ m.bo_id = o /\ m.bquan = b[j].bquan + b[i].bquan /\ m.useup = b[j].useup /\ m.price = get_cost(w)
    BY <2>3, <2>5 DEF Lines
  <2> HIDE DEF m
  <2>7. Backs(m, s)
    BY <1>2, <1>3, <1>4, <2>1, <2>3, <2>5, <2>6 DEF Backs, InPlay
  <2>8. /\ c \in Seq(Lines) /\ Distinct(c) /\ Lof(c) = Sans(L, o) \cup {m}
        /\ DOMAIN c = DOMAIN b /\ \A k \in DOMAIN b : c[k] = IF k = j THEN m ELSE b[k]
    BY <1>1, <2>3, <2>6, SeqSet, SMTT(30)
  <2> HIDE DEF c
  <2>9. i \in DOMAIN c /\ c[i].bo_id = p
    BY <1>2, <2>1, <2>3, <2>8
  <2>10. e \in Seq(Lines) /\ Distinct(e) /\ Lof(e) = Sans(Lof(c), p)
    BY <2>8, <2>9, SeqDrop
  <2> HIDE DEF e
  <2>11. Match([w.obj EXCEPT ![o] = s], Lof(c))
    <3> HIDE DEF L
    <3> QED BY <1>1, <1>3, <1>4, <2>6, <2>7, <2>8, MatchPut
  <2>12. Match(f, Lof(e))
    BY <1>8, <2>10, <2>11, MatchOff
  <2>13. Agreed(f, e)
    BY <2>10, <2>12 DEF Agreed
  <2>14. \A k \in Lof(e) : k.price = get_cost(w)
    BY <1>1, <2>6, <2>8, <2>10 DEF Sans
  <2>15. Good(y) /\ y.obj = f /\ y.shk.bill = e /\ y.shk.bill_p = q /\ y.ushops = w.ushops /\ y.shk.at = w.shk.at
    <3>1. q \in {"null", "own", "dump"}
      BY <1>1
    <3> HIDE DEF f, q
    <3> QED BY <2>13, <2>14, <3>1, AtGood
  <2> HIDE DEF y, f
  <2> QED BY <2>1, <2>4, <2>15 DEF Sound, Frame, Inside, v
<1> QED BY <1>10, <1>11

(* addinv and stackobj.                                                    *)
LEMMA StackSound ==
  ASSUME NEW w, Good(w), NEW p \in Obj, InPlay(w, p)
  PROVE  Sound(w, Stack(w, p))
<1> DEFINE v    == IF w.obj[p].unpaid THEN shop_keeper(w) ELSE w
           with == {o \in Obj : mergable(v, o, p)}
           o    == CHOOSE o \in with : TRUE
<1>1. Quiet(w, v)
  BY QuietLook, QuietSelf DEF Good
<1>2. Sound(w, v) /\ v.obj = w.obj
  BY <1>1, SoundQuiet
<1>3. Stack(w, p) = IF w.obj[p].where = "none" \/ with = {} THEN v ELSE merged(v, o, p)
  BY DEF Stack
<1> HIDE DEF v
<1>4. CASE w.obj[p].where = "none" \/ with = {}
  BY <1>2, <1>3, <1>4
<1>5. CASE ~(w.obj[p].where = "none" \/ with = {})
  <2>1. o \in Obj /\ mergable(v, o, p)
    BY <1>5
  <2> HIDE DEF o
  <2>2. InPlay(v, p) /\ Good(v)
    BY <1>2 DEF InPlay, Sound
  <2>3. Sound(v, merged(v, o, p))
    BY <2>1, <2>2, MergeSound
  <2> QED BY <1>2, <1>3, <1>5, <2>3, SoundTrans
<1> QED BY <1>4, <1>5

-----------------------------------------------------------------------------
(* Clearing the bill.                                                      *)

(* The bill is gone, and what is about is about.                           *)
Cleared(w, v) == Good(v) /\ Frame(w, v) /\ v.shk.bill = <<>> /\ \A o \in Obj : InPlay(w, o) => InPlay(v, o)

(* Clearing the bill keeps everything: an empty one is always right,       *)
LEMMA ClearedSound ==
  ASSUME NEW w, NEW v, Cleared(w, v)
  PROVE  Sound(w, v)
  BY DEF Cleared, Sound, Inside

(* whatever quiet thing happens after it,                                  *)
LEMMA ClearedQuiet ==
  ASSUME NEW u, NEW v, NEW w, Cleared(u, v), Quiet(v, w)
  PROVE  Cleared(u, w)
<1>1. Good(v) /\ Frame(u, v)
  BY DEF Cleared
<1>2. Good(w) /\ Frame(v, w) /\ w.obj = v.obj /\ w.shk.bill = <<>>
  BY <1>1, QuietGood DEF Cleared
<1> QED BY <1>1, <1>2, FrameTrans DEF Cleared, InPlay

(* or before.                                                              *)
LEMMA QuietCleared ==
  ASSUME NEW u, NEW v, NEW w, Good(u), Quiet(u, v), Cleared(v, w)
  PROVE  Cleared(u, w)
<1>1. Frame(u, v) /\ v.obj = u.obj
  BY QuietGood
<1> QED BY <1>1, FrameTrans DEF Cleared, InPlay

(* setpaid makes what is unpaid the hero's wherever it is, so that nothing *)
(* needs an entry.                                                         *)
LEMMA SetpaidCleared ==
  ASSUME NEW w \in Worlds, \A o \in Obj : Formed(w.obj[o])
  PROVE  /\ Cleared(w, setpaid(w)) /\ setpaid(w).shk.robbed = w.shk.robbed /\ setpaid(w).shk.bill_p = w.shk.bill_p
         /\ \A o \in Obj : setpaid(w).obj[o] = IF w.obj[o].where = "onbill" THEN NoObj ELSE [w.obj[o] EXCEPT !.unpaid = FALSE]
<1> DEFINE f == [o \in Obj |-> IF w.obj[o].where = "onbill" THEN NoObj ELSE [w.obj[o] EXCEPT !.unpaid = FALSE]]
           s == [w.shk EXCEPT !.bill = <<>>, !.credit = 0, !.debit = 0, !.loan = 0]
           v == setpaid(w)
<1>1. w.obj \in [Obj -> Struct] /\ w.shk \in Keepers
  BY WorldParts
<1>2. v = [w EXCEPT !.obj = f, !.shk = s]
  BY <1>1 DEF setpaid, Worlds, Keepers
<1>3. s \in Keepers /\ s.bill = <<>> /\ s.at = w.shk.at /\ s.bill_p = w.shk.bill_p /\ s.robbed = w.shk.robbed
      /\ s.loan = 0 /\ s.debit = 0
  <2>1. <<>> \in Seq(Lines)
    OBVIOUS
  <2> QED BY <1>1, <2>1 DEF Keepers
<1>4. ASSUME NEW o \in Obj
      PROVE  f[o] \in Struct /\ Formed(f[o]) /\ ~f[o].unpaid /\ f[o].where # "onbill" /\ (InPlay(w, o) => f[o].where = w.obj[o].where)
  <2>1. w.obj[o] \in Struct /\ Formed(w.obj[o])
    BY <1>1
  <2>2. CASE w.obj[o].where = "onbill"
    BY <2>2 DEF NoObj, Struct, Formed, Places, InPlay
  <2>3. CASE w.obj[o].where # "onbill"
    <3> DEFINE t == [w.obj[o] EXCEPT !.unpaid = FALSE]
    <3>1. /\ t \in Struct /\ t.where = w.obj[o].where /\ t.quan = w.obj[o].quan /\ t.unpaid = FALSE
          /\ t.no_charge = w.obj[o].no_charge
      BY <2>1 DEF Struct
    <3>2. w.obj[o].where = "none" => t = NoObj
      <4>1. ~w.obj[o].unpaid => t = w.obj[o]
        BY <2>1 DEF Struct
      <4>2. ~NoObj.unpaid
        BY DEF NoObj
      <4> HIDE DEF t
      <4> QED BY <2>1, <4>1, <4>2 DEF Formed
    <3>3. f[o] = t
      BY <2>3
    <3> HIDE DEF t, f
    <3> QED BY <2>1, <2>3, <3>1, <3>2, <3>3 DEF Formed
  <2> QED BY <2>2, <2>3
<1>5. f \in [Obj -> Struct]
  BY <1>4
<1>6. \A o \in Obj : f[o] = IF w.obj[o].where = "onbill" THEN NoObj ELSE [w.obj[o] EXCEPT !.unpaid = FALSE]
  OBVIOUS
<1> HIDE DEF f, s
<1>7. v \in Worlds /\ v.obj = f /\ v.shk = s /\ v.ushops = w.ushops
  BY <1>2, <1>3, <1>5 DEF Worlds
<1> HIDE DEF v
<1>8. Agreed(f, <<>>)
  <2>1. Lof(<<>>) = {} /\ Distinct(<<>>) /\ <<>> \in Seq(Lines)
    BY DEF Lof, Distinct
  <2> HIDE DEF Lines
  <2>2. Match(f, {})
    BY <1>4, <1>5 DEF Match
  <2> QED BY <2>1, <2>2 DEF Agreed
<1>9. Good(v)
  <2>1. Priced(v)
    BY <1>3, <1>7 DEF Priced
  <2> QED BY <1>3, <1>7, <1>8, <2>1 DEF Good, Lent
<1>10. \A o \in Obj : InPlay(w, o) => InPlay(v, o)
  BY <1>4, <1>7 DEF InPlay
<1> QED BY <1>3, <1>6, <1>7, <1>9, <1>10 DEF Cleared, Frame, v

(* rob_shop clears the bill, paid from credit or robbed,                   *)
LEMMA RobCleared ==
  ASSUME NEW w, Good(w)
  PROVE  Cleared(w, rob_shop(w))
<1> DEFINE v == rouse_shk(w)
           total == addupbill(w) + w.shk.debit
           x == setpaid(v)
           r == x.shk.robbed + total - v.shk.credit
           y == [x EXCEPT !.shk.robbed = r]
<1>1. w \in Worlds /\ w.shk.bill \in Seq(Lines) /\ w.shk.debit \in Nat
  BY WorldParts DEF Good
<1>2. total \in Nat
  BY <1>1, TotalIs DEF addupbill
<1>3. Quiet(w, v) /\ Good(v) /\ v \in Worlds /\ v.shk.credit \in Nat
  <2>1. Quiet(w, v) /\ Good(v)
    BY <1>1, QuietMoods, QuietGood
  <2> QED BY <2>1, WorldParts DEF Good
<1>4. rob_shop(w) = IF v.shk.credit >= total THEN x ELSE hot_pursuit([x EXCEPT !.shk.robbed = @ + total - v.shk.credit])
  BY DEF rob_shop
<1> HIDE DEF v, total
<1>5. Cleared(v, x)
  BY <1>3, SetpaidCleared, GoodParts
<1>6. x \in Worlds /\ x.shk.robbed \in Nat /\ Good(x)
  BY <1>5, WorldParts DEF Cleared, Good
<1> HIDE DEF x
<1>7. CASE v.shk.credit >= total
  BY <1>3, <1>4, <1>5, <1>7, QuietCleared
<1>8. CASE ~(v.shk.credit >= total)
  <2>1. r \in Nat
    BY <1>2, <1>3, <1>6, <1>8
  <2>2. rob_shop(w) = hot_pursuit(y)
    BY <1>4, <1>6, <1>8 DEF Worlds
  <2> HIDE DEF r
  <2>3. Quiet(x, y) /\ y \in Worlds
    BY <1>6, <2>1, QuietRobbed DEF Quiet
  <2> HIDE DEF y
  <2>4. Quiet(y, hot_pursuit(y))
    BY <2>3, QuietMoods
  <2>5. Cleared(v, hot_pursuit(y))
    BY <1>5, <2>3, <2>4, ClearedQuiet
  <2> QED BY <1>3, <2>2, <2>5, QuietCleared
<1> QED BY <1>7, <1>8

(* and so does make_angry_shk.                                             *)
LEMMA AngryCleared ==
  ASSUME NEW w, Good(w)
  PROVE  Cleared(w, make_angry_shk(w))
<1> DEFINE past_due == w.shk.robbed + addupbill(w) + w.shk.debit + w.shk.loan
           r == IF past_due > w.shk.credit THEN past_due - w.shk.credit ELSE 0
           x == setpaid(w)
           y == [x EXCEPT !.shk.robbed = r]
<1>1. /\ w \in Worlds /\ w.shk.bill \in Seq(Lines) /\ w.shk.debit \in Nat /\ w.shk.robbed \in Nat
      /\ w.shk.loan \in Nat /\ w.shk.credit \in Nat /\ \A o \in Obj : Formed(w.obj[o])
  BY WorldParts, GoodParts
<1>2. addupbill(w) \in Nat
  BY <1>1, TotalIs DEF addupbill
<1>3. r \in Nat
  <2>2. \A a, b, c, d \in Nat : a + b + c + d \in Nat
    OBVIOUS
  <2>1. past_due \in Nat
    BY <1>1, <1>2, <2>2
  <2> HIDE DEF past_due
  <2> QED BY <1>1, <2>1
<1>4. make_angry_shk(w) = IF Owes(w) \/ w.shk.credit > 0 THEN hot_pursuit(y) ELSE hot_pursuit(w)
  BY DEF make_angry_shk
<1> HIDE DEF r
<1>5. CASE Owes(w) \/ w.shk.credit > 0
  <2>1. Cleared(w, x) /\ x \in Worlds
    BY <1>1, SetpaidCleared DEF Cleared, Good
  <2> HIDE DEF x
  <2>2. Quiet(x, y) /\ y \in Worlds
    BY <1>3, <2>1, QuietRobbed DEF Quiet
  <2> HIDE DEF y
  <2>3. Quiet(y, hot_pursuit(y))
    BY <2>2, QuietMoods
  <2> QED BY <1>4, <1>5, <2>1, <2>2, <2>3, ClearedQuiet
<1>6. CASE ~(Owes(w) \/ w.shk.credit > 0)
  <2>1. Cleared(w, w)
    BY <1>6 DEF Cleared, Frame, Owes
  <2>2. Quiet(w, hot_pursuit(w))
    BY <1>1, QuietMoods
  <2> QED BY <1>4, <1>6, <2>1, <2>2, ClearedQuiet
<1> QED BY <1>5, <1>6

-----------------------------------------------------------------------------
(* Coming and going.                                                       *)

(* The entries stay, and so do the prices.                                 *)
Reset(w, s, u) == [w EXCEPT !.shk = s, !.ushops = u]

(* He is elsewhere or otherwise and his bill the same.                     *)
Relabelled(k, s) == s \in Keepers /\ s.bill = k.bill /\ s.surcharge = k.surcharge /\ s.loan = k.loan /\ s.debit = k.debit

(* A world stays good if that is all.                                      *)
LEMMA ResetGood ==
  ASSUME NEW w, Good(w), NEW s, Relabelled(w.shk, s), NEW u \in BOOLEAN
  PROVE  /\ Good(Reset(w, s, u)) /\ Reset(w, s, u).obj = w.obj /\ Reset(w, s, u).shk = s /\ Reset(w, s, u).ushops = u
<1> DEFINE v == Reset(w, s, u)
<1>1. v \in Worlds /\ v.obj = w.obj /\ v.shk = s /\ v.ushops = u
  BY DEF Reset, Worlds, Relabelled, Good
<1> HIDE DEF v
<1>2. Good(v)
  BY <1>1 DEF Good, Priced, Lent, get_cost, Relabelled
<1> QED BY <1>1, <1>2 DEF v

(* u.ushops alone,                                                         *)
LEMMA ShopsGood ==
  ASSUME NEW w, Good(w), NEW u \in BOOLEAN
  PROVE  LET v == [w EXCEPT !.ushops = u] IN Good(v) /\ v.obj = w.obj /\ v.shk = w.shk /\ v.ushops = u
<1>1. Relabelled(w.shk, w.shk)
  BY WorldParts DEF Good, Relabelled
<1>2. [w EXCEPT !.ushops = u] = Reset(w, w.shk, u)
  BY DEF Reset, Good, Worlds
<1> QED BY <1>1, <1>2, ResetGood

(* bill_p alone,                                                           *)
LEMMA BillpGood ==
  ASSUME NEW w, Good(w), NEW q \in {"null", "own", "dump"}
  PROVE  LET v == [w EXCEPT !.shk.bill_p = q] IN
         Good(v) /\ v.obj = w.obj /\ v.shk.bill = w.shk.bill /\ v.shk.at = w.shk.at /\ v.shk.bill_p = q /\ v.ushops = w.ushops
<1> DEFINE s == [w.shk EXCEPT !.bill_p = q]
<1>1. Relabelled(w.shk, s) /\ s.at = w.shk.at /\ s.bill_p = q /\ s.bill = w.shk.bill
  BY WorldParts DEF Good, Relabelled, Keepers
<1>2. [w EXCEPT !.shk.bill_p = q] = Reset(w, s, w.ushops)
  BY DEF Reset, Good, Worlds
<1> HIDE DEF s
<1>3. w.ushops \in BOOLEAN
  BY GoodParts
<1>4. Relabelled(w.shk, s)
  BY <1>1
<1>5. /\ Good(Reset(w, s, w.ushops)) /\ Reset(w, s, w.ushops).obj = w.obj
      /\ Reset(w, s, w.ushops).shk = s /\ Reset(w, s, w.ushops).ushops = w.ushops
  BY <1>3, <1>4, ResetGood
<1> QED BY <1>1, <1>2, <1>5

(* and the place of the shopkeeper alone.                                  *)
LEMMA AtWhereGood ==
  ASSUME NEW w, Good(w), NEW a \in {"shop", "out", "dead"}
  PROVE  LET v == [w EXCEPT !.shk.at = a] IN
         Good(v) /\ v.obj = w.obj /\ v.shk.bill = w.shk.bill /\ v.shk.at = a /\ v.shk.bill_p = w.shk.bill_p /\ v.ushops = w.ushops
<1> DEFINE s == [w.shk EXCEPT !.at = a]
<1>1. Relabelled(w.shk, s) /\ s.at = a /\ s.bill_p = w.shk.bill_p /\ s.bill = w.shk.bill
  BY WorldParts DEF Good, Relabelled, Keepers
<1>2. [w EXCEPT !.shk.at = a] = Reset(w, s, w.ushops)
  BY DEF Reset, Good, Worlds
<1> HIDE DEF s
<1>3. w.ushops \in BOOLEAN
  BY GoodParts
<1>4. Relabelled(w.shk, s)
  BY <1>1
<1>5. /\ Good(Reset(w, s, w.ushops)) /\ Reset(w, s, w.ushops).obj = w.obj
      /\ Reset(w, s, w.ushops).shk = s /\ Reset(w, s, w.ushops).ushops = w.ushops
  BY <1>3, <1>4, ResetGood
<1> QED BY <1>1, <1>2, <1>5

(* u_left_shop: when the hero is out of the shop the bill is empty,        *)
(* because it was paid from credit or robbed.                              *)
LEMMA LeftShop ==
  ASSUME NEW w, Good(w), NEW leaving, NEW from, NEW to
  PROVE  LET v == u_left_shop(w, leaving, from, to) IN
         /\ Good(v) /\ v.ushops = w.ushops /\ v.shk.at = w.shk.at
         /\ v.shk.bill = <<>> \/ (v.shk.bill_p = w.shk.bill_p /\ w.shk.bill # <<>>)
         /\ leaving /\ inhishop(w) => v.shk.bill = <<>>
<1> DEFINE x == shop_keeper(w)
           v == u_left_shop(w, leaving, from, to)
<1>1. Quiet(w, x)
  BY QuietLook DEF Good
<1>2. Good(x) /\ x.ushops = w.ushops /\ x.shk.at = w.shk.at /\ x.shk.bill_p = w.shk.bill_p /\ (x.shk.bill = <<>> <=> w.shk.bill = <<>>)
  BY <1>1, QuietGood DEF Frame
<1>3. v = IF ~leaving /\ (to # "edge" \/ from = "edge") THEN w
          ELSE IF ~inhishop(w) \/ ~Owes(x) \/ (~leaving /\ w.shk.awake) THEN x
          ELSE rob_shop(x)
  BY DEF u_left_shop
<1> HIDE DEF x, v
<1>4. CASE ~leaving /\ (to # "edge" \/ from = "edge")
  BY <1>3, <1>4 DEF v
<1>5. CASE ~(~leaving /\ (to # "edge" \/ from = "edge")) /\ (~inhishop(w) \/ ~Owes(x) \/ (~leaving /\ w.shk.awake))
  BY <1>2, <1>3, <1>5 DEF v, Owes
<1>6. CASE ~(~leaving /\ (to # "edge" \/ from = "edge")) /\ ~(~inhishop(w) \/ ~Owes(x) \/ (~leaving /\ w.shk.awake))
  <2>1. Cleared(x, rob_shop(x))
    BY <1>2, RobCleared
  <2>2. v = rob_shop(x)
    BY <1>3, <1>6
  <2> QED BY <1>2, <2>1, <2>2 DEF v, Cleared, Frame
<1> QED BY <1>4, <1>5, <1>6

(* u_entered_shop gives bill_p up, which is right because the bill is      *)
(* empty.                                                                  *)
LEMMA EnteredShop ==
  ASSUME NEW w, Good(w), w.shk.bill = <<>>, w.ushops
  PROVE  LET v == u_entered_shop(w) IN
         /\ Good(v) /\ v.shk.at = w.shk.at /\ v.shk.bill = <<>>
         /\ v.ushops <=> w.shk.at = "shop"
         /\ w.shk.at = "out" => v.shk.bill_p = "dump"
<1> DEFINE x == shop_keeper(w)
           v == u_entered_shop(w)
<1>1. Quiet(w, x)
  BY QuietLook DEF Good
<1>2. Good(x) /\ x.ushops = w.ushops /\ x.shk.at = w.shk.at /\ x.shk.bill = <<>>
  BY <1>1, QuietGood DEF Frame
<1>3. w.shk.at \in {"shop", "out", "dead"}
  BY GoodParts
<1> HIDE DEF x
<1>4. CASE w.shk.at = "dead"
  <2> DEFINE y == [w EXCEPT !.ushops = FALSE]
  <2>1. Good(y) /\ y.obj = w.obj /\ y.shk = w.shk /\ y.ushops = FALSE
    <3>1. FALSE \in BOOLEAN
      OBVIOUS
    <3> QED BY <3>1, ShopsGood
  <2>2. v = y
    BY <1>4 DEF u_entered_shop
  <2> HIDE DEF y, v
  <2> QED BY <1>4, <2>1, <2>2 DEF v
<1>5. CASE w.shk.at = "out"
  <2> DEFINE z == [x EXCEPT !.shk.bill_p = "dump"]
             y == [z EXCEPT !.ushops = FALSE]
  <2>1. Good(z) /\ z.shk.bill = x.shk.bill /\ z.shk.at = x.shk.at /\ z.shk.bill_p = "dump"
    <3>1. "dump" \in {"null", "own", "dump"}
      OBVIOUS
    <3>2. Good(x)
      BY <1>2
    <3> QED BY <3>1, <3>2, BillpGood
  <2>2. v = y
    BY <1>5 DEF u_entered_shop, x
  <2> HIDE DEF z
  <2>3. Good(y) /\ y.shk = z.shk /\ y.ushops = FALSE
    <3>1. FALSE \in BOOLEAN
      OBVIOUS
    <3>2. Good(z)
      BY <2>1
    <3> QED BY <3>1, <3>2, ShopsGood
  <2> HIDE DEF y, v
  <2> QED BY <1>2, <1>5, <2>1, <2>2, <2>3 DEF v
<1>6. CASE w.shk.at = "shop"
  <2> DEFINE z == [x EXCEPT !.shk.bill_p = "null"]
  <2>1. Good(z) /\ z.shk.bill = x.shk.bill /\ z.shk.at = x.shk.at /\ z.ushops = x.ushops
    <3>1. "null" \in {"null", "own", "dump"}
      OBVIOUS
    <3>2. Good(x)
      BY <1>2
    <3> QED BY <3>1, <3>2, BillpGood
  <2>2. v = z
    BY <1>6 DEF u_entered_shop, x
  <2> HIDE DEF z, v
  <2> QED BY <1>2, <1>6, <2>1, <2>2 DEF v
<1> QED BY <1>3, <1>4, <1>5, <1>6

(* check_special_room: there is a bill only if the hero and the shopkeeper *)
(* are both inside.                                                        *)
LEMMA CheckRoom ==
  ASSUME NEW w, Fine(w), NEW from, NEW to
  PROVE  LET v == check_special_room(w, from, to) IN Fine(v) /\ Watched(v, to) /\ v.shk.at = w.shk.at
<1> DEFINE x == [w EXCEPT !.ushops = InRoom(to)]
           l == IF w.ushops THEN u_left_shop(x, ~InRoom(to), from, to) ELSE x
           v == check_special_room(w, from, to)
<1>1. Good(w) /\ Inside(w) /\ w.ushops \in BOOLEAN
  BY GoodParts DEF Fine
<1>2. InRoom(to) \in BOOLEAN /\ (~InRoom(to)) \in BOOLEAN
  BY DEF InRoom
<1>3. Good(x) /\ x.shk = w.shk /\ x.ushops = InRoom(to)
  BY <1>1, <1>2, ShopsGood
<1>4. v = IF InRoom(to) /\ ~w.ushops THEN u_entered_shop(l) ELSE l
  BY DEF check_special_room
<1> HIDE DEF x, v
<1>5. CASE w.ushops
  <2> DEFINE g == ~InRoom(to)
             y == u_left_shop(x, g, from, to)
  <2>1. v = y
    BY <1>4, <1>5
  <2> HIDE DEF g
  <2>2. /\ Good(y) /\ y.ushops = x.ushops /\ y.shk.at = x.shk.at
        /\ y.shk.bill = <<>> \/ (y.shk.bill_p = x.shk.bill_p /\ x.shk.bill # <<>>)
        /\ g /\ inhishop(x) => y.shk.bill = <<>>
    BY <1>3, LeftShop
  <2> HIDE DEF y
  <2>3. Inside(y)
    BY <1>1, <1>3, <2>2 DEF Inside, inhishop, g
  <2>4. Watched(y, to)
    BY <1>3, <2>2 DEF Watched
  <2> QED BY <1>3, <2>1, <2>2, <2>3, <2>4 DEF Fine, v
<1>6. CASE ~w.ushops /\ InRoom(to)
  <2>1. w.shk.bill = <<>>
    BY <1>1, <1>6 DEF Inside
  <2> DEFINE y == u_entered_shop(x)
  <2>2. v = y
    BY <1>4, <1>6
  <2>3. /\ Good(y) /\ y.shk.at = x.shk.at /\ y.shk.bill = <<>>
        /\ y.ushops <=> x.shk.at = "shop"
        /\ x.shk.at = "out" => y.shk.bill_p = "dump"
    BY <1>3, <1>6, <2>1, EnteredShop
  <2> HIDE DEF y
  <2> QED BY <1>3, <2>2, <2>3 DEF Fine, v, Inside, Watched
<1>7. CASE ~w.ushops /\ ~InRoom(to)
  <2>1. v = x
    BY <1>4, <1>7
  <2> QED BY <1>1, <1>3, <1>7, <2>1 DEF Fine, v, Inside, Watched
<1> QED BY <1>1, <1>5, <1>6, <1>7

(* after_shk_move looks again at who is in the room.                       *)
LEMMA AfterMove ==
  ASSUME NEW w, Fine(w), w.shk.at = "shop", w.shk.bill_p # "dump" => Watched(w, pos)
  PROVE  Fine(after_shk_move(w)) /\ Watched(after_shk_move(w), pos) /\ after_shk_move(w).shk.at = "shop"
<1> DEFINE x == [w EXCEPT !.shk.bill_p = "null"]
           v == after_shk_move(w)
<1>1. v = IF w.shk.bill_p = "dump" /\ inhishop(w) THEN check_special_room(x, pos, pos) ELSE w
  BY DEF after_shk_move
<1>2. "null" \in {"null", "own", "dump"} /\ Good(w)
  BY DEF Fine
<1>3. Good(x) /\ x.shk.bill = w.shk.bill /\ x.shk.at = w.shk.at
  BY <1>2, BillpGood
<1> HIDE DEF x, v
<1>4. CASE w.shk.bill_p = "dump"
  <2>1. Fine(x)
    BY <1>3, <1>4 DEF Fine, Inside
  <2>2. v = check_special_room(x, pos, pos)
    BY <1>1, <1>4 DEF inhishop
  <2>3. Fine(v) /\ Watched(v, pos) /\ v.shk.at = x.shk.at
    BY <2>1, <2>2, CheckRoom
  <2> QED BY <1>3, <2>3 DEF v
<1>5. CASE w.shk.bill_p # "dump"
  BY <1>1, <1>5 DEF v
<1> QED BY <1>4, <1>5

(* He comes home,                                                          *)
LEMMA HomeFine ==
  ASSUME NEW w, Fine(w), Watched(w, pos), w.shk.at # "dead"
  PROVE  Fine(home_shk(w)) /\ Watched(home_shk(w), pos)
<1> DEFINE x == [w EXCEPT !.shk.at = "shop"]
<1>1. Good(x) /\ x.shk.bill = w.shk.bill /\ x.shk.at = "shop" /\ x.shk.bill_p = w.shk.bill_p /\ x.ushops = w.ushops
  <2>1. "shop" \in {"shop", "out", "dead"} /\ Good(w)
    BY DEF Fine
  <2> QED BY <2>1, AtWhereGood
<1>2. home_shk(w) = after_shk_move(x)
  BY DEF home_shk
<1> HIDE DEF x
<1>3. w.shk.at \in {"shop", "out"}
  BY GoodParts DEF Fine
<1>4. Fine(x) /\ (x.shk.bill_p # "dump" => Watched(x, pos))
  BY <1>1, <1>3 DEF Fine, Inside, Watched
<1> QED BY <1>1, <1>2, <1>4, AfterMove

(* and home_shk is part of make_happy_shk.                                 *)
LEMMA HappyFine ==
  ASSUME NEW w, Fine(w), Watched(w, pos), w.shk.at # "dead"
  PROVE  Fine(make_happy_shk(w)) /\ Watched(make_happy_shk(w), pos)
<1> DEFINE p == pacify_shk(w)
           s == [p.shk EXCEPT !.following = FALSE, !.robbed = 0]
           x == [p EXCEPT !.shk.following = FALSE, !.shk.robbed = 0]
<1>1. Good(w) /\ w \in Worlds
  BY DEF Fine, Good
<1>2. Quiet(w, p) /\ p \in Worlds
  BY <1>1, QuietPacify DEF Quiet
<1>3. make_happy_shk(w) = IF inhishop(w) THEN x ELSE home_shk(x)
  BY DEF make_happy_shk
<1> HIDE DEF p
<1>4. x = With(p, s, p.umoney, p.till)
  BY <1>2, WorldParts DEF With, Worlds, Keepers
<1>5. BillKept(p.shk, s)
  BY <1>2, WorldParts DEF Keepers, BillKept
<1> HIDE DEF s
<1>6. Quiet(p, x)
  <2>1. p.umoney \in Nat /\ p.till \in Nat
    BY <1>2, WorldParts
  <2> QED BY <1>2, <1>4, <1>5, <2>1, QuietMoney
<1> HIDE DEF x
<1>7. Quiet(w, x)
  BY <1>2, <1>6, QuietTrans
<1>8. Good(x) /\ Frame(w, x) /\ Inside(x)
  BY <1>1, <1>7, QuietGood DEF Fine
<1>9. Fine(x) /\ Watched(x, pos) /\ x.shk.at # "dead"
  BY <1>8, FrameWatched DEF Fine, Frame
<1> QED BY <1>3, <1>9, HomeFine

(* What is quiet uses nothing up.                                          *)
LEMMA QuietPartly ==
  ASSUME NEW w, Good(w), NEW v, Quiet(w, v), NEW o \in Obj
  PROVE  /\ Partly(v, o) <=> Partly(w, o)
         /\ InPlay(v, o) <=> InPlay(w, o)
         /\ Covered(v, o) <=> Covered(w, o)
         /\ Free(v) = Free(w)
<1>1. Good(v) /\ v.obj = w.obj /\ onbill(v, o) = onbill(w, o)
  BY QuietGood
<1>2. Partly(v, o) <=> Partly(w, o)
  <2> DEFINE i == onbill(w, o)
  <2>1. CASE i = 0
    <3>1. (\A l \in Lof(w.shk.bill) : l.bo_id # o) /\ (\A l \in Lof(v.shk.bill) : l.bo_id # o)
      BY <1>1, <2>1, EntryIs
    <3> QED BY <3>1 DEF Partly
  <2>2. CASE i # 0
    <3>1. i \in DOMAIN w.shk.bill
      BY <2>2, EntryIs
    <3>2. v.shk.bill[i].bquan = w.shk.bill[i].bquan
      BY <3>1 DEF Quiet, Alike
    <3>3. PartlyUsed(v, o) = PartlyUsed(w, o)
      BY <1>1, <3>2 DEF PartlyUsed
    <3> QED BY <1>1, <3>3, PartlyIs
  <2> QED BY <2>1, <2>2
<1>3. Free(v) = Free(w)
  BY <1>1 DEF Free
<1> QED BY <1>1, <1>2, <1>3 DEF InPlay, Covered

(* A helper that leaves the object about.                                  *)
Handled(w, v, o) == Sound(w, v) /\ InPlay(v, o)

(* A helper after another that is sound.                                   *)
LEMMA HandledTrans ==
  ASSUME NEW u, NEW v, NEW w, NEW o, Sound(u, v), Handled(v, w, o)
  PROVE  Handled(u, w, o)
  BY SoundTrans DEF Handled

(* A quiet one handles everything.                                         *)
LEMMA HandledQuiet ==
  ASSUME NEW w, Good(w), NEW v, Quiet(w, v), NEW o \in Obj, InPlay(w, o)
  PROVE  Handled(w, v, o) /\ Good(v) /\ v.obj = w.obj
  BY SoundQuiet, QuietPartly DEF Handled, Sound

(* Taking it off the bill after something quiet.                           *)
LEMMA QuietSub ==
  ASSUME NEW w, Good(w), NEW v, Quiet(w, v), NEW o \in Obj, InPlay(w, o), Covered(w, o)
  PROVE  Handled(w, subfrombill(v, o), o) /\ ~subfrombill(v, o).obj[o].unpaid
<1>1. Good(v) /\ Sound(w, v) /\ InPlay(v, o) /\ Covered(v, o) /\ v.obj[o] \in Struct
  BY SoundQuiet, QuietPartly, GoodParts DEF Sound
<1>2. Taken(v, subfrombill(v, o), o)
  BY <1>1, SubSound
<1> DEFINE x == subfrombill(v, o)
<1> HIDE DEF x
<1>3. Sound(v, x) /\ x.obj[o] = [v.obj[o] EXCEPT !.unpaid = FALSE]
  BY <1>2 DEF Taken, x
<1>4. x.obj[o].where = v.obj[o].where /\ x.obj[o].unpaid = FALSE
  BY <1>1, <1>3 DEF Struct
<1>5. Handled(v, x, o)
  BY <1>1, <1>3, <1>4 DEF Handled, InPlay
<1> QED BY <1>1, <1>4, <1>5, HandledTrans DEF x

(* What is thrown out of the shop is charged for, or not, and taken off    *)
(* the bill.                                                               *)
LEMMA StolenSound ==
  ASSUME NEW w, Good(w), NEW o \in Obj, InPlay(w, o), Covered(w, o)
  PROVE  Handled(w, Stolen(w, o), o) /\ ~Stolen(w, o).obj[o].unpaid
<1>1. w \in Worlds /\ w.shk.peaceful \in BOOLEAN
  BY WorldParts DEF Good
<1>2. CASE w.obj[o].unpaid
  <2>1. Quiet(w, stolen_value(w, o, w.shk.peaceful))
    BY <1>1, QuietStolen
  <2>2. Stolen(w, o) = subfrombill(stolen_value(w, o, w.shk.peaceful), o)
    BY <1>2 DEF Stolen
  <2> QED BY <2>1, <2>2, QuietSub
<1>3. CASE ~w.obj[o].unpaid
  BY <1>3, SoundSelf DEF Stolen, Handled
<1> QED BY <1>2, <1>3

(* Looking him up and waking him.                                          *)
LEMMA QuietLookRouse ==
  ASSUME NEW w, Good(w)
  PROVE  Quiet(w, rouse_shk(shop_keeper(w)))
<1>1. Quiet(w, shop_keeper(w)) /\ shop_keeper(w) \in Worlds
  BY QuietLook DEF Good, Quiet
<1> DEFINE v == shop_keeper(w)
<1> HIDE DEF v
<1>2. Quiet(v, rouse_shk(v))
  BY <1>1, QuietMoods DEF v
<1> QED BY <1>1, <1>2, QuietTrans DEF v

(* The money changes hands.                                                *)
LEMMA QuietGold ==
  ASSUME NEW w \in Worlds, NEW g \in Nat, NEW c \in Nat, NEW m \in Nat, NEW t \in Nat
  PROVE  Quiet(w, [w EXCEPT !.shk.gold = g, !.shk.credit = c, !.umoney = m, !.till = t])
<1> DEFINE s == [w.shk EXCEPT !.gold = g, !.credit = c]
<1>1. [w EXCEPT !.shk.gold = g, !.shk.credit = c, !.umoney = m, !.till = t] = With(w, s, m, t)
  BY WorldParts DEF With, Worlds, Keepers
<1>2. BillKept(w.shk, s)
  BY WorldParts DEF Keepers, BillKept
<1> HIDE DEF s
<1> QED BY <1>1, <1>2, QuietMoney

(* sellobj: what is unpaid is given back, what is the hero's is sold or    *)
(* left free of charge.                                                    *)
LEMMA SellSound ==
  ASSUME NEW w, Good(w), NEW o \in Obj, InPlay(w, o), Covered(w, o), NEW answer \in {"yes", "no", "dont_sell"}
  PROVE  Handled(w, sellobj(w, o, answer), o)
<1> DEFINE k     == shop_keeper(w)
           v     == rouse_shk(k)
           price == offer(w, o)
           gives == Min({price, v.shk.gold})
           x     == sellobj(w, o, answer)
<1>1. Quiet(w, k) /\ Quiet(w, v)
  BY QuietLook, QuietLookRouse DEF Good
<1>2. /\ Good(k) /\ k.obj = w.obj /\ Handled(w, k, o) /\ Good(v) /\ v.obj = w.obj /\ Handled(w, v, o)
      /\ Sound(w, k) /\ Sound(w, v) /\ InPlay(k, o) /\ InPlay(v, o) /\ v \in Worlds
  BY <1>1, HandledQuiet DEF Handled, Good
<1>3. CASE w.obj[o].unpaid
  <2>1. x = subfrombill(k, o)
    BY <1>3 DEF sellobj
  <2> HIDE DEF k
  <2> QED BY <1>1, <2>1, QuietSub
<1>4. ASSUME NEW u, u = k \/ u = v, ~w.obj[o].unpaid, x = [u EXCEPT !.obj[o].no_charge = TRUE]
      PROVE  Handled(w, x, o)
  <2>1. Good(u) /\ InPlay(u, o) /\ Sound(w, u) /\ ~u.obj[o].unpaid
    BY <1>2, <1>4
  <2>2. Sound(u, x) /\ InPlay(x, o)
    <3>1. TRUE \in BOOLEAN /\ (u.obj[o].unpaid => ~TRUE)
      BY <2>1
    <3> DEFINE y == [u EXCEPT !.obj[o].no_charge = TRUE]
    <3>2. Sound(u, y) /\ InPlay(y, o)
      BY <2>1, <3>1, NoChargeSound
    <3>3. x = y
      BY <1>4
    <3> HIDE DEF y, x
    <3> QED BY <3>2, <3>3
  <2> HIDE DEF x
  <2> QED BY <2>1, <2>2, SoundTrans DEF Handled
<1>5. CASE ~w.obj[o].unpaid /\ answer = "dont_sell"
  <2>1. x = [k EXCEPT !.obj[o].no_charge = TRUE]
    BY <1>5 DEF sellobj
  <2> HIDE DEF x, k, v
  <2> QED BY <1>4, <1>5, <2>1 DEF x
<1>6. CASE ~w.obj[o].unpaid /\ answer # "dont_sell" /\ ~v.shk.peaceful
  <2>1. x = v
    BY <1>6 DEF sellobj
  <2> HIDE DEF x, v
  <2> QED BY <1>2, <2>1 DEF x
<1>7. CASE ~w.obj[o].unpaid /\ answer # "dont_sell" /\ v.shk.peaceful /\ v.shk.robbed > 0
  <2> DEFINE y == [v EXCEPT !.shk.robbed = 0]
  <2>1. x = y
    BY <1>7 DEF sellobj
  <2> HIDE DEF x, v
  <2>2. Quiet(v, y)
    BY <1>2, QuietRobbed
  <2> HIDE DEF y
  <2>3. Handled(v, y, o)
    BY <1>2, <2>2, HandledQuiet
  <2> QED BY <1>2, <2>1, <2>3, HandledTrans DEF x
<1>8. CASE ~w.obj[o].unpaid /\ answer = "no" /\ v.shk.peaceful /\ ~(v.shk.robbed > 0)
  <2>1. v.shk.robbed = 0
    <3>1. v.shk.robbed \in Nat
      BY <1>2, WorldParts
    <3> HIDE DEF v
    <3> QED BY <1>8, <3>1
  <2>2. x = [v EXCEPT !.obj[o].no_charge = TRUE]
    BY <1>8, <2>1 DEF sellobj
  <2> HIDE DEF x, v, k
  <2> QED BY <1>4, <1>8, <2>2 DEF x
<1>9. CASE ~w.obj[o].unpaid /\ answer = "yes" /\ v.shk.peaceful /\ ~(v.shk.robbed > 0)
  <2>1. /\ v.shk.robbed \in Nat /\ v.shk.gold \in Nat /\ v.shk.credit \in Nat /\ v.umoney \in Nat /\ v.till \in Nat
        /\ v.shk \in Keepers
    BY <1>2, WorldParts
  <2>2. v.shk.robbed = 0
    <3> HIDE DEF v
    <3> QED BY <1>9, <2>1
  <2>3. x = IF v.shk.gold = 0 THEN [v EXCEPT !.shk.credit = @ + tmpcr(price)]
            ELSE [v EXCEPT !.shk.gold = @ - gives, !.umoney = @ + gives]
    BY <1>9, <2>2 DEF sellobj
  <2>4. price \in Nat
    <3>1. w.obj[o].quan \in Nat
      BY GoodParts DEF Struct
    <3>2. Price \div 2 \in Nat
      BY AmountsAreNatural
    <3>3. \A m, n \in Nat : m * n \in Nat
      OBVIOUS
    <3> QED BY <3>1, <3>2, <3>3 DEF offer
  <2>5. tmpcr(price) \in Nat
    <3> HIDE DEF price
    <3>1. (price * 9) \div 10 \in Nat
      BY <2>4
    <3> QED BY <3>1 DEF tmpcr
  <2> HIDE DEF v, price
  <2>6. gives \in Nat /\ gives <= v.shk.gold
    <3>1. gives = IF price <= v.shk.gold THEN price ELSE v.shk.gold
      BY <2>1, <2>4, MinOfTwo
    <3> HIDE DEF gives
    <3> QED BY <2>1, <2>4, <3>1
  <2> HIDE DEF gives, x
  <2> DEFINE y(g, c, m) == [v EXCEPT !.shk.gold = g, !.shk.credit = c, !.umoney = m, !.till = v.till]
  <2>7. ASSUME NEW g \in Nat, NEW c \in Nat, NEW m \in Nat, x = y(g, c, m) PROVE Handled(w, x, o)
    <3>1. Quiet(v, y(g, c, m))
      BY <1>2, <2>1, QuietGold
    <3> HIDE DEF y
    <3>2. Handled(v, y(g, c, m), o)
      BY <1>2, <3>1, HandledQuiet
    <3> QED BY <1>2, <2>7, <3>2, HandledTrans
  <2>8. CASE v.shk.gold = 0
    <3>1. x = y(v.shk.gold, v.shk.credit + tmpcr(price), v.umoney)
      <4>1. x = [v EXCEPT !.shk.credit = @ + tmpcr(price)]
        BY <2>3, <2>8
      <4> QED BY <1>2, <2>1, <4>1 DEF Worlds, Keepers
    <3>2. v.shk.credit + tmpcr(price) \in Nat
      BY <2>1, <2>5
    <3> HIDE DEF y
    <3> QED BY <2>1, <2>7, <3>1, <3>2 DEF x
  <2>9. CASE v.shk.gold # 0
    <3>1. x = y(v.shk.gold - gives, v.shk.credit, v.umoney + gives)
      <4>1. x = [v EXCEPT !.shk.gold = @ - gives, !.umoney = @ + gives]
        BY <2>3, <2>9
      <4> QED BY <1>2, <2>1, <4>1 DEF Worlds, Keepers
    <3>2. v.shk.gold - gives \in Nat /\ v.umoney + gives \in Nat
      BY <2>1, <2>6
    <3> HIDE DEF y
    <3> QED BY <2>1, <2>7, <3>1, <3>2 DEF x
  <2> QED BY <2>8, <2>9
<1> HIDE DEF x, v, k
<1> QED BY <1>3, <1>5, <1>6, <1>7, <1>8, <1>9

(* check_shop_obj.                                                         *)
LEMMA ShopObjSound ==
  ASSUME NEW w, Good(w), NEW o \in Obj, InPlay(w, o), Covered(w, o), NEW lands
  PROVE  Handled(w, check_shop_obj(w, o, lands), o)
<1> DEFINE k == shop_keeper(w)
           x == check_shop_obj(w, o, lands)
<1>1. Quiet(w, k)
  BY QuietLook DEF Good
<1>2. /\ Good(k) /\ k.obj = w.obj /\ Handled(w, k, o) /\ Sound(w, k) /\ InPlay(k, o) /\ Covered(k, o)
  BY <1>1, HandledQuiet, QuietPartly DEF Handled
<1>3. x = IF ~w.ushops \/ w.shk.at = "dead" THEN w
          ELSE IF lands = "breaks" THEN [Stolen(k, o) EXCEPT !.obj[o].no_charge = TRUE]
          ELSE IF lands = "street" \/ ~inhishop(w) THEN Stolen(k, o)
          ELSE IF ~costly_spot(w, pos) THEN k
          ELSE IF w.obj[o].unpaid THEN subfrombill(k, o) ELSE sellobj(w, o, "yes")
  BY DEF check_shop_obj
<1> HIDE DEF x, k
<1>4. Handled(k, Stolen(k, o), o) /\ ~Stolen(k, o).obj[o].unpaid
  BY <1>2, StolenSound
<1>5. Handled(w, Stolen(k, o), o)
  BY <1>2, <1>4, HandledTrans
<1>6. Handled(w, w, o)
  BY SoundSelf DEF Handled
<1>7. Handled(w, subfrombill(k, o), o)
  BY <1>1, QuietSub
<1>8. Handled(w, sellobj(w, o, "yes"), o)
  <2>1. "yes" \in {"yes", "no", "dont_sell"}
    OBVIOUS
  <2> QED BY <2>1, SellSound
<1>9. Handled(w, [Stolen(k, o) EXCEPT !.obj[o].no_charge = TRUE], o)
  <2> DEFINE s == Stolen(k, o)
             y == [s EXCEPT !.obj[o].no_charge = TRUE]
  <2>1. Good(s) /\ InPlay(s, o) /\ ~s.obj[o].unpaid /\ Sound(w, s)
    BY <1>4, <1>5 DEF Handled, Sound
  <2> HIDE DEF s
  <2>2. TRUE \in BOOLEAN /\ (s.obj[o].unpaid => ~TRUE)
    BY <2>1
  <2>3. Sound(s, y) /\ InPlay(y, o)
    BY <2>1, <2>2, NoChargeSound
  <2> HIDE DEF y
  <2>4. Handled(w, y, o)
    BY <2>1, <2>3, SoundTrans DEF Handled
  <2> QED BY <2>4 DEF y, s
<1> QED BY <1>2, <1>3, <1>5, <1>6, <1>7, <1>8, <1>9 DEF x

-----------------------------------------------------------------------------
(* The hero picks up.                                                      *)

(* remote_burglary: the entry that addtobill has just made does not stay.  *)
LEMMA RemoteCleared ==
  ASSUME NEW w, Good(w), inhishop(w)
  PROVE  Cleared(w, remote_burglary(w))
<1> DEFINE k == shop_keeper(w)
<1>1. Quiet(w, k)
  BY QuietLook DEF Good
<1>2. Good(k) /\ (k.shk.bill = <<>> <=> w.shk.bill = <<>>)
  BY <1>1, QuietGood
<1>3. remote_burglary(w) = IF Owes(k) THEN rob_shop(k) ELSE k
  BY DEF remote_burglary
<1> HIDE DEF k
<1>4. CASE Owes(k)
  BY <1>1, <1>2, <1>3, <1>4, RobCleared, QuietCleared
<1>5. CASE ~Owes(k)
  <2>1. Cleared(k, k)
    BY <1>2, <1>5 DEF Cleared, Frame, Owes
  <2> QED BY <1>1, <1>3, <1>5, <2>1, QuietCleared
<1> QED BY <1>4, <1>5

(* pick_obj: on the bill if the hero is in the shop, robbed if not.        *)
LEMMA PickSound ==
  ASSUME NEW w, Fine(w), NEW o \in Obj, InPlay(w, o)
  PROVE  Sound(w, pick_obj(w, o))
<1> DEFINE a == addtobill(w, o, FALSE)
           b == IF w.obj[o].where = "shelf" /\ inhishop(w) THEN IF w.ushops THEN a ELSE remote_burglary(a) ELSE w
           m == Move(b, o, "invent")
           n == [m EXCEPT !.obj[o].no_charge = FALSE]
<1>1. Good(w) /\ Inside(w)
  BY DEF Fine
<1>2. pick_obj(w, o) = Stack(n, o)
  BY DEF pick_obj
<1>3. Sound(w, b) /\ InPlay(b, o)
  <2>1. CASE w.obj[o].where = "shelf" /\ inhishop(w)
    <3>1. Billed1(w, a, o)
      BY <1>1, <2>1, AddSound
    <3> HIDE DEF a
    <3>2. Good(a) /\ Frame(w, a) /\ InPlay(a, o) /\ (w.ushops => Inside(a))
      BY <1>1, <3>1 DEF Billed1, InPlay
    <3>3. CASE w.ushops
      BY <2>1, <3>2, <3>3 DEF Sound
    <3>4. CASE ~w.ushops
      <4>1. inhishop(a)
        BY <2>1, <3>2 DEF Frame, inhishop
      <4>2. Cleared(a, remote_burglary(a))
        BY <3>2, <4>1, RemoteCleared
      <4>3. b = remote_burglary(a)
        BY <2>1, <3>4
      <4> HIDE DEF b
      <4> QED BY <3>2, <4>2, <4>3, FrameTrans DEF Cleared, Sound, Inside
    <3> QED BY <3>3, <3>4
  <2>2. CASE ~(w.obj[o].where = "shelf" /\ inhishop(w))
    BY <1>1, <2>2, SoundSelf
  <2> QED BY <2>1, <2>2
<1> HIDE DEF b
<1>4. Sound(b, m) /\ InPlay(m, o)
  <2>1. "invent" \in Places /\ "invent" \notin {"none", "onbill"}
    BY DEF Places
  <2>2. Good(b) /\ InPlay(b, o)
    BY <1>3 DEF Sound
  <2> QED BY <2>1, <2>2, MoveSound
<1> HIDE DEF m
<1>5. Sound(m, n) /\ InPlay(n, o)
  <2>1. FALSE \in BOOLEAN /\ (m.obj[o].unpaid => ~FALSE)
    OBVIOUS
  <2>2. Good(m)
    BY <1>4 DEF Sound
  <2> QED BY <1>4, <2>1, <2>2, NoChargeSound
<1> HIDE DEF n
<1>6. Sound(n, Stack(n, o))
  <2>1. Good(n)
    BY <1>5 DEF Sound
  <2> QED BY <1>5, <2>1, StackSound
<1>7. Sound(w, m)
  BY <1>3, <1>4, SoundTrans
<1>8. Sound(w, n)
  BY <1>5, <1>7, SoundTrans
<1> QED BY <1>2, <1>6, <1>8, SoundTrans

-----------------------------------------------------------------------------
(* One of a stack.                                                         *)

(* What Spare promises.                                                    *)
LEMMA SpareSome ==
  ASSUME NEW w, NEW n \in Nat, Spare(w, n)
  PROVE  /\ n > 0 => Free(w) # {}
         /\ n > 1 => \A d : Free(w) \ {d} # {}
<1> DEFINE F == Free(w)
<1>1. IsFiniteSet(F)
  <2>1. F \subseteq Obj
    BY DEF Free
  <2> QED BY <2>1, GoodsAreObjects, FS_Subset
<1>2. Cardinality(F) \in Nat /\ Cardinality(F) >= n
  BY <1>1, FS_CardinalityType DEF Spare
<1>3. ASSUME F = {} PROVE n = 0
  BY <1>2, <1>3, FS_EmptySet
<1>4. ASSUME NEW d, F \ {d} = {} PROVE n <= 1
  <2>1. F \subseteq {d}
    BY <1>4
  <2>2. IsFiniteSet({d}) /\ Cardinality({d}) = 1
    BY FS_Singleton
  <2>3. Cardinality(F) <= 1
    BY <2>1, <2>2, FS_Subset
  <2> QED BY <1>2, <2>3
<1> QED BY <1>3, <1>4

(* t is one of the stack o, in the world v made of w.                      *)
OneOf(w, v, o, t) ==
  /\ Handled(w, v, t) /\ t \in Obj
  /\ v.obj[t].where = w.obj[o].where /\ v.obj[t].unpaid = w.obj[o].unpaid /\ v.obj[t].no_charge = w.obj[o].no_charge
  /\ v.obj[t].quan = 1

(* Parted splits one off, or takes what is only one.                       *)
LEMMA PartSound ==
  ASSUME NEW w, Fine(w), NEW o \in Obj, InPlay(w, o), w.obj[o].quan > 1 => Free(w) # {}
  PROVE  /\ OneOf(w, Parted(w, o), o, One(w, o))
         /\ w.obj[o].quan > 1 => ~Partly(Parted(w, o), One(w, o)) /\ Free(Parted(w, o)) = Free(w) \ {Fresh(w)}
         /\ ~(w.obj[o].quan > 1) => Parted(w, o) = w /\ One(w, o) = o
<1>1. Good(w) /\ Inside(w) /\ w.obj[o] \in Struct /\ w.obj[o].quan \in Nat /\ w.obj[o].quan > 0
  BY GoodParts DEF Fine, Struct, Formed, InPlay
<1>2. CASE w.obj[o].quan > 1
  <2> DEFINE p == Fresh(w)
             v == splitobj(w, o, p, 1)
  <2>1. p \in Free(w) /\ p \in Obj
    BY <1>1, <1>2, FreshIn, FreeIs
  <2>2. 1 \in 1 .. (w.obj[o].quan - 1)
    BY <1>1, <1>2
  <2>3. Halved(w, v, o, p, 1)
    BY <1>1, <2>1, <2>2, SplitSound
  <2> HIDE DEF v
  <2>4. Sound(w, v) /\ v.obj[p] = [w.obj[o] EXCEPT !.quan = 1] /\ ~Partly(v, p) /\ Free(v) = Free(w) \ {p}
    BY <2>3 DEF Halved
  <2>5. v.obj[p].where = w.obj[o].where /\ v.obj[p].unpaid = w.obj[o].unpaid
        /\ v.obj[p].no_charge = w.obj[o].no_charge /\ v.obj[p].quan = 1
    BY <1>1, <2>4 DEF Struct
  <2>6. Handled(w, v, p)
    BY <2>4, <2>5 DEF Handled, InPlay
  <2>7. Parted(w, o) = v /\ One(w, o) = p
    BY <1>2 DEF Parted, One, v
  <2> HIDE DEF p
  <2> QED BY <1>2, <2>1, <2>4, <2>5, <2>6, <2>7 DEF OneOf, p
<1>3. CASE ~(w.obj[o].quan > 1)
  <2>1. Parted(w, o) = w /\ One(w, o) = o
    BY <1>3 DEF Parted, One
  <2>2. Sound(w, w)
    BY <1>1, SoundSelf
  <2>3. w.obj[o].quan = 1
    BY <1>1, <1>3
  <2> QED BY <1>3, <2>1, <2>2, <2>3 DEF OneOf, Handled
<1> QED BY <1>2, <1>3

(* A world that has the struct for the one has it for what follows.        *)
LEMMA PartCovered ==
  ASSUME NEW w, Fine(w), NEW o \in Obj, InPlay(w, o), Spare(w, Splits(w, o) + PartlyUsed(w, o))
  PROVE  OneOf(w, Parted(w, o), o, One(w, o)) /\ Covered(Parted(w, o), One(w, o))
<1>1. Good(w)
  BY DEF Fine
<1>2. PartlyUsed(w, o) \in {0, 1} /\ (Partly(w, o) => PartlyUsed(w, o) = 1)
  BY <1>1, PartlyIs
<1>3. Splits(w, o) = IF w.obj[o].quan > 1 THEN 1 ELSE 0
  BY DEF Splits
<1> DEFINE n == Splits(w, o) + PartlyUsed(w, o)
<1>4. n \in Nat /\ (w.obj[o].quan > 1 => n > 0) /\ (Partly(w, o) => n > 0)
  BY <1>2, <1>3
<1>5. Spare(w, n)
  OBVIOUS
<1> HIDE DEF n
<1>6. n > 0 => Free(w) # {}
  BY <1>4, <1>5, SpareSome
<1>7. w.obj[o].quan > 1 => Free(w) # {}
  BY <1>4, <1>6
<1> QED BY <1>4, <1>6, <1>7, PartSound DEF Covered

-----------------------------------------------------------------------------
(* Altering.                                                               *)

(* bill_dummy_object: the duplicate is on the bill, the object itself is   *)
(* not.                                                                    *)
LEMMA DummySound ==
  ASSUME NEW w, Fine(w), inhishop(w), w.ushops, NEW o \in Obj, InPlay(w, o), ~w.obj[o].no_charge,
         Free(w) # {}, Partly(w, o) => \A d : Free(w) \ {d} # {}
  PROVE  Sound(w, bill_dummy_object(w, o))
<1> DEFINE v == subfrombill(w, o)
           d == Fresh(v)
           x == [v EXCEPT !.obj[d] = [v.obj[o] EXCEPT !.where = "none"]]
           k == shop_keeper(x)
           u == [k EXCEPT !.obj = v.obj]
           b == u.shk.bill
           c == w.obj[o].where # "invent"
           l == Entry(d, v.obj[o].quan, get_cost(k), TRUE)
           t == [v.obj[o] EXCEPT !.where = "onbill", !.unpaid = TRUE]
           s == [v.obj[o] EXCEPT !.unpaid = FALSE, !.no_charge = c]
           f == [[v.obj EXCEPT ![d] = t] EXCEPT ![o] = s]
           e == Append(b, l)
           y == At(u, f, e, "own")
           r == bill_dummy_object(w, o)
<1>1. Good(w) /\ Inside(w) /\ w.obj[o] \in Struct
  BY GoodParts DEF Fine
<1>2. Taken(w, v, o)
  BY <1>1, SubSound DEF Covered
<1>3. r = [addtobill(x, d, TRUE) EXCEPT !.obj[o].unpaid = FALSE, !.obj[o].no_charge = c]
  BY DEF bill_dummy_object
<1> HIDE DEF r, v
<1>4. /\ Good(v) /\ Sound(w, v) /\ v.obj[o] = [w.obj[o] EXCEPT !.unpaid = FALSE] /\ onbill(v, o) = 0
      /\ (~Partly(w, o) => Free(v) = Free(w)) /\ \E g \in Obj : Free(w) \ {g} \subseteq Free(v)
  BY <1>2 DEF Taken, Sound
<1>5. Free(v) # {}
  <2>1. CASE Partly(w, o)
    <3>1. PICK g \in Obj : Free(w) \ {g} \subseteq Free(v)
      BY <1>4
    <3> QED BY <2>1, <3>1
  <2>2. CASE ~Partly(w, o)
    BY <1>4, <2>2
  <2> QED BY <2>1, <2>2
<1>6. d \in Obj /\ v.obj[d] = NoObj /\ onbill(v, d) = 0
  BY <1>4, <1>5, FreshIn, FreeIs
<1>7. /\ v.obj[o] \in Struct /\ v.obj[o].where = w.obj[o].where /\ v.obj[o].unpaid = FALSE
      /\ v.obj[o].no_charge = FALSE /\ v.obj[o].quan = w.obj[o].quan /\ v.obj[o].quan \in Nat /\ v.obj[o].quan > 0
  <2>1. w.obj[o].quan \in Nat /\ w.obj[o].quan > 0 /\ w.obj[o].no_charge = FALSE
    BY <1>1, GoodParts DEF Struct, Formed, InPlay
  <2> QED BY <1>1, <1>4, <2>1 DEF Struct
<1>8. d # o
  BY <1>6, <1>7 DEF NoObj, InPlay
<1>9. /\ v \in Worlds /\ v.obj \in [Obj -> Struct] /\ v.ushops = w.ushops /\ v.shk.at = w.shk.at /\ Inside(v)
  BY <1>1, <1>4, GoodParts DEF Sound, Frame
<1>10. c \in BOOLEAN
  OBVIOUS
<1> HIDE DEF d, c
<1>11. /\ x \in Worlds /\ x.obj = [v.obj EXCEPT ![d] = [v.obj[o] EXCEPT !.where = "none"]] /\ x.shk = v.shk
       /\ x.ushops = v.ushops /\ x = [v EXCEPT !.obj = x.obj]
  <2>1. [v.obj[o] EXCEPT !.where = "none"] \in Struct
    BY <1>7 DEF Struct, Places
  <2> QED BY <1>6, <1>9, <2>1 DEF Worlds
<1>12. x.obj[d].where = "none" /\ x.obj[d].quan = v.obj[o].quan /\ x.obj[d].unpaid = FALSE
       /\ x.obj[d].no_charge = FALSE /\ x.obj[d] = [v.obj[o] EXCEPT !.where = "none"] /\ onbill(x, d) = 0
  <2>1. x.obj[d] = [v.obj[o] EXCEPT !.where = "none"]
    BY <1>6, <1>9, <1>11
  <2>2. onbill(x, d) = 0
    BY <1>6, <1>11 DEF onbill
  <2> HIDE DEF x
  <2> QED BY <1>7, <2>1, <2>2 DEF Struct
<1>13. r = [extend_bill([Move(k, d, "onbill") EXCEPT !.obj[d].unpaid = TRUE], l) EXCEPT !.obj[o].unpaid = FALSE, !.obj[o].no_charge = c]
  <2>1. addtobill(x, d, TRUE) = extend_bill([Move(k, d, "onbill") EXCEPT !.obj[d].unpaid = TRUE], Entry(d, x.obj[d].quan, get_cost(k), TRUE))
    <3> HIDE DEF x, k
    <3> QED BY <1>12 DEF addtobill, k
  <2> HIDE DEF x, k
  <2> QED BY <1>3, <1>12, <2>1
<1>14. Quiet(x, k)
  <2> HIDE DEF x
  <2> QED BY <1>11, QuietLook
<1> HIDE DEF x, k
<1>15. /\ k \in Worlds /\ k.obj = x.obj /\ k.ushops = x.ushops
  BY <1>14 DEF Quiet
<1>16. /\ u \in Worlds /\ u.obj = v.obj /\ u.shk = k.shk /\ u.ushops = k.ushops
  BY <1>9, <1>15 DEF Worlds
<1>17. Quiet(v, u)
  <2> HIDE DEF u
  <2>1. get_cost(v) = get_cost(x) /\ get_cost(u) = get_cost(k)
    BY <1>11, <1>16 DEF get_cost
  <2> QED BY <1>9, <1>11, <1>14, <1>15, <1>16, <2>1 DEF Quiet, Priced, Lent
<1>18. r = [u EXCEPT !.obj = f, !.shk = [u.shk EXCEPT !.bill = e, !.bill_p = "own"]]
  <2> DEFINE m == Move(k, d, "onbill")
             n == [m EXCEPT !.obj[d].unpaid = TRUE]
             z == extend_bill(n, l)
  <2>1. n = [k EXCEPT !.obj = [v.obj EXCEPT ![d] = t]]
    <3>1. k.obj = [v.obj EXCEPT ![d] = [v.obj[o] EXCEPT !.where = "none"]]
      BY <1>11, <1>15
    <3>2. m = [k EXCEPT !.obj = [k.obj EXCEPT ![d].where = "onbill"]]
      BY <1>15 DEF Move, Worlds
    <3>3. [k.obj EXCEPT ![d].where = "onbill"] = [v.obj EXCEPT ![d] = [v.obj[o] EXCEPT !.where = "onbill"]]
      BY <1>6, <1>7, <1>9, <3>1
    <3>4. m = [k EXCEPT !.obj = [v.obj EXCEPT ![d] = [v.obj[o] EXCEPT !.where = "onbill"]]]
      BY <3>2, <3>3
    <3> HIDE DEF m
    <3>5. m.obj = [v.obj EXCEPT ![d] = [v.obj[o] EXCEPT !.where = "onbill"]]
      BY <1>15, <3>4 DEF Worlds
    <3>6. n = [m EXCEPT !.obj = [m.obj EXCEPT ![d].unpaid = TRUE]]
      BY <1>15, <3>4 DEF Worlds
    <3>7. [m.obj EXCEPT ![d].unpaid = TRUE] = [v.obj EXCEPT ![d] = t]
      BY <1>6, <1>7, <1>9, <3>5
    <3>8. n = [m EXCEPT !.obj = [v.obj EXCEPT ![d] = t]]
      BY ONLY <3>6, <3>7
    <3>9. [m EXCEPT !.obj = [v.obj EXCEPT ![d] = t]] = [k EXCEPT !.obj = [v.obj EXCEPT ![d] = t]]
      BY ONLY <1>15, <3>4 DEF Worlds
    <3> QED BY <3>8, <3>9
  <2> HIDE DEF n, t, l
  <2>2. u.shk \in Keepers /\ n.shk = u.shk
    BY <1>15, <1>16, <2>1, WorldParts DEF Worlds
  <2>3. z = [n EXCEPT !.shk = [u.shk EXCEPT !.bill = e, !.bill_p = "own"]]
    BY <1>15, <2>1, <2>2, ZenonT(60) DEF extend_bill, Worlds, Keepers
  <2>4. r = [z EXCEPT !.obj[o].unpaid = FALSE, !.obj[o].no_charge = c]
    BY <1>13 DEF n
  <2> HIDE DEF z, e, u
  <2> DEFINE S == [u.shk EXCEPT !.bill = e, !.bill_p = "own"]
             g == [v.obj EXCEPT ![d] = t]
  <2>10. z = [n EXCEPT !.shk = S] /\ n = [k EXCEPT !.obj = g]
    BY <2>1, <2>3
  <2> HIDE DEF S, g
  <2>5. z = [k EXCEPT !.obj = g, !.shk = S]
    BY <1>15, <2>10 DEF Worlds
  <2>6. z.obj = [v.obj EXCEPT ![d] = t]
    BY <1>15, <2>5 DEF Worlds, g
  <2>7. r = [z EXCEPT !.obj = [[z.obj EXCEPT ![o].unpaid = FALSE] EXCEPT ![o].no_charge = c]]
    <3> DEFINE h == [z.obj EXCEPT ![o].unpaid = FALSE]
               z1 == [z EXCEPT !.obj = h]
    <3>1. r = [z1 EXCEPT !.obj[o].no_charge = c]
      BY <2>4
    <3>2. [z1 EXCEPT !.obj[o].no_charge = c] = [z1 EXCEPT !.obj = [z1.obj EXCEPT ![o].no_charge = c]]
      OBVIOUS
    <3> HIDE DEF h
    <3>3. z1.obj = h /\ \A j : [z1 EXCEPT !.obj = j] = [z EXCEPT !.obj = j]
      BY <1>15, <2>5 DEF Worlds
    <3> HIDE DEF z1
    <3>4. r = [z EXCEPT !.obj = [h EXCEPT ![o].no_charge = c]]
      BY <3>1, <3>2, <3>3
    <3> QED BY <3>4 DEF h
  <2>8. [[z.obj EXCEPT ![o].unpaid = FALSE] EXCEPT ![o].no_charge = c] = f
    <3>1. z.obj[o] = v.obj[o] /\ DOMAIN z.obj = Obj
      BY <1>8, <1>9, <2>6
    <3>2. [[z.obj EXCEPT ![o].unpaid = FALSE] EXCEPT ![o].no_charge = c] = [z.obj EXCEPT ![o] = [[z.obj[o] EXCEPT !.unpaid = FALSE] EXCEPT !.no_charge = c]]
      BY <3>1
    <3>3. [[v.obj[o] EXCEPT !.unpaid = FALSE] EXCEPT !.no_charge = c] = s
      OBVIOUS
    <3> QED BY <2>6, <3>1, <3>2, <3>3
  <2> HIDE DEF f
  <2>11. r = [z EXCEPT !.obj = f]
    BY <2>7, <2>8
  <2>9. r = [k EXCEPT !.obj = f, !.shk = S]
    BY <1>15, <2>5, <2>11 DEF Worlds
  <2>12. r = [u EXCEPT !.obj = f, !.shk = S]
    BY <1>9, <1>15, <1>16, <2>9 DEF Worlds, u
  <2> QED BY <2>12 DEF S
<1> HIDE DEF u
<1>19. r = y
  BY <1>18 DEF At
<1>20. /\ Good(u) /\ Frame(v, u) /\ Inside(u) /\ onbill(u, d) = 0 /\ onbill(u, o) = 0 /\ (b = <<>> <=> v.shk.bill = <<>>)
  BY <1>4, <1>6, <1>9, <1>17, QuietGood
<1>21. /\ b \in Seq(Lines) /\ Distinct(b) /\ Match(v.obj, Lof(b)) /\ (\A m \in Lof(b) : m.price = get_cost(u))
  BY <1>16, <1>20, GoodParts
<1>22. (\A j \in DOMAIN b : b[j].bo_id # d) /\ (\A m \in Lof(b) : m.bo_id # o)
  BY <1>6, <1>20, EntryIs
<1>23. /\ l \in Lines /\ l.bo_id = d /\ l.bquan = v.obj[o].quan /\ l.useup = TRUE /\ l.price = get_cost(u)
  <2>1. get_cost(k) = get_cost(u)
    BY <1>16 DEF get_cost
  <2> QED BY <1>6, <1>7, <2>1, CostIsNatural DEF Lines, Entry
<1>24. /\ t \in Struct /\ t.where = "onbill" /\ t.quan = v.obj[o].quan /\ t.unpaid = TRUE /\ t.no_charge = FALSE
       /\ s \in Struct /\ s.where = w.obj[o].where /\ s.quan = v.obj[o].quan /\ s.unpaid = FALSE
  BY <1>7, <1>10 DEF Struct, Places
<1> HIDE DEF l, t, s
<1>25. Formed(t) /\ Backs(l, t) /\ Formed(s)
  BY <1>7, <1>23, <1>24 DEF Formed, Backs, InPlay
<1>26. e \in Seq(Lines) /\ Distinct(e) /\ Lof(e) = Lof(b) \cup {l} /\ Sans(Lof(b), d) = Lof(b)
  BY <1>21, <1>22, <1>23, SeqAdd
<1> HIDE DEF e
<1>27. Match([v.obj EXCEPT ![d] = t], Lof(b) \cup {l})
  BY <1>6, <1>21, <1>23, <1>24, <1>25, <1>26, MatchPut
<1>28. Sans(Lof(b) \cup {l}, o) = Lof(b) \cup {l}
  BY <1>8, <1>22, <1>23 DEF Sans
<1>29. ~s.unpaid /\ s.where # "onbill"
  BY <1>24 DEF InPlay
<1>30. Match(f, Lof(e))
  <2> DEFINE g == [v.obj EXCEPT ![d] = t]
             L == Lof(b) \cup {l}
  <2>1. Match(g, L)
    BY <1>27
  <2>2. s \in Struct
    BY <1>24
  <2> HIDE DEF g, L
  <2>3. Match([g EXCEPT ![o] = s], Sans(L, o))
    BY <1>25, <1>29, <2>1, <2>2, MatchOff
  <2> QED BY <1>26, <1>28, <2>3 DEF g, L
<1>31. Agreed(f, e)
  BY <1>26, <1>30 DEF Agreed
<1>32. \A m \in Lof(e) : m.price = get_cost(u)
  BY <1>21, <1>23, <1>26
<1>33. Good(y) /\ y.obj = f /\ y.shk.bill = e /\ y.shk.bill_p = "own" /\ y.ushops = u.ushops /\ y.shk.at = u.shk.at
  <2>1. "own" \in {"null", "own", "dump"}
    OBVIOUS
  <2>2. Good(u)
    BY <1>20
  <2> HIDE DEF f
  <2> QED BY <1>31, <1>32, <2>1, <2>2, AtGood
<1> HIDE DEF y, f
<1>34. Frame(w, y) /\ Inside(y)
  BY <1>9, <1>20, <1>33 DEF Frame, Inside, inhishop
<1> QED BY <1>19, <1>33, <1>34 DEF Sound, r

-----------------------------------------------------------------------------
(* The shopkeeper keeps the backpack.                                      *)

(* s of the things C are grabbed: the others are as they were, and a       *)
(* struct is left for each one that was partly used.                       *)
Left(v, C, s) == {x \in C \ s : Partly(v, x)}

(* After the things s of C.                                                *)
Grabbing(v, C, s, w) ==
  /\ Sound(v, w)
  /\ \A x \in C \ s : w.obj[x] = v.obj[x] /\ (Partly(w, x) <=> Partly(v, x))
  /\ Cardinality(Free(w)) >= Cardinality(Left(v, C, s))

(* One more is taken off the bill and kept.                                *)
LEMMA GrabOne ==
  ASSUME IsFiniteSet(Obj), NEW v, Good(v), NEW C \in SUBSET Obj, \A x \in C : InPlay(v, x),
         NEW s \in SUBSET C, NEW x \in s, NEW w, Grabbing(v, C, s \ {x}, w)
  PROVE  Grabbing(v, C, s, grabs(w, x))
<1> DEFINE u == subfrombill(w, x)
           m == Move(u, x, "kept")
<1>1. x \in C \ (s \ {x}) /\ x \in Obj /\ C \ (s \ {x}) = (C \ s) \cup {x}
  OBVIOUS
<1>2. Sound(v, w) /\ Good(w) /\ w.obj[x] = v.obj[x] /\ (Partly(w, x) <=> Partly(v, x)) /\ InPlay(w, x)
  BY <1>1 DEF Grabbing, Sound, InPlay
<1>3. IsFiniteSet(Free(w)) /\ IsFiniteSet(Left(v, C, s \ {x})) /\ IsFiniteSet(Left(v, C, s))
  BY FS_Subset DEF Free, Left
<1>4. Cardinality(Free(w)) \in Nat /\ Cardinality(Left(v, C, s \ {x})) \in Nat /\ Cardinality(Left(v, C, s)) \in Nat
      /\ Cardinality(Free(w)) >= Cardinality(Left(v, C, s \ {x}))
  BY <1>3, FS_CardinalityType DEF Grabbing
<1>5. /\ Partly(v, x) => Left(v, C, s) = Left(v, C, s \ {x}) \ {x} /\ x \in Left(v, C, s \ {x})
      /\ ~Partly(v, x) => Left(v, C, s) = Left(v, C, s \ {x})
  BY <1>1 DEF Left
<1>6. Partly(v, x) => Cardinality(Left(v, C, s)) = Cardinality(Left(v, C, s \ {x})) - 1
  <2>1. x \in Left(v, C, s \ {x}) => Cardinality(Left(v, C, s \ {x}) \ {x}) = Cardinality(Left(v, C, s \ {x})) - 1
    BY <1>3, FS_RemoveElement
  <2> QED BY <1>5, <2>1
<1>7. Partly(w, x) => Free(w) # {}
  BY <1>2, <1>4, <1>6, FS_EmptySet
<1>8. Covered(w, x)
  BY <1>7 DEF Covered
<1>9. Taken(w, u, x)
  BY <1>1, <1>2, <1>8, SubSound
<1>10. Good(u) /\ InPlay(u, x) /\ Sound(w, u)
  <2>1. Good(u) /\ u.obj[x] = [w.obj[x] EXCEPT !.unpaid = FALSE] /\ Sound(w, u)
    BY <1>9 DEF Taken, Sound
  <2>2. w.obj[x] \in Struct
    BY <1>1, <1>2, GoodParts
  <2>3. u.obj[x].where = w.obj[x].where
    BY <2>1, <2>2 DEF Struct
  <2> QED BY <1>2, <2>1, <2>3 DEF InPlay
<1> HIDE DEF u
<1>11. "kept" \in Places /\ "kept" \notin {"none", "onbill"}
  BY DEF Places
<1>12. /\ Sound(u, m) /\ InPlay(m, x) /\ m.shk = u.shk
       /\ \A y \in Obj : y # x => m.obj[y] = u.obj[y]
  <2>1. ASSUME NEW k \in Places, k \notin {"none", "onbill"}
        PROVE  /\ Sound(u, Move(u, x, k)) /\ InPlay(Move(u, x, k), x) /\ Move(u, x, k).shk = u.shk
               /\ Move(u, x, k).ushops = u.ushops
               /\ Move(u, x, k).obj[x] = [u.obj[x] EXCEPT !.where = k]
               /\ \A y \in Obj : y # x => Move(u, x, k).obj[y] = u.obj[y]
    BY ONLY <1>1, <1>10, <2>1, MoveSound
  <2> QED BY <1>11, <2>1
<1>13. Sound(v, m)
  <2> HIDE DEF m
  <2>1. Sound(w, m)
    BY <1>10, <1>12, SoundTrans
  <2> QED BY <1>2, <2>1, SoundTrans
<1> HIDE DEF m
<1>14. ASSUME NEW y \in C \ s PROVE m.obj[y] = v.obj[y] /\ (Partly(m, y) <=> Partly(v, y))
  <2>1. y \in Obj /\ y # x /\ y \in C \ (s \ {x})
    OBVIOUS
  <2>2. w.obj[y] = v.obj[y] /\ (Partly(w, y) <=> Partly(v, y))
    BY <2>1 DEF Grabbing
  <2>3. InPlay(w, y)
    BY <2>2 DEF InPlay
  <2>4. u.obj[y] = w.obj[y] /\ (Partly(u, y) <=> Partly(w, y))
    BY <1>9, <2>1, <2>3 DEF Taken
  <2>5. m.obj[y] = u.obj[y] /\ (Partly(m, y) <=> Partly(u, y))
    BY <1>12, <2>1 DEF Partly
  <2> QED BY <2>2, <2>4, <2>5
<1>15. Free(m) = Free(u)
  <2>1. ASSUME NEW y \in Obj PROVE y \in Free(m) <=> y \in Free(u)
    <3>1. CASE y = x
      BY <1>10, <1>12, <3>1 DEF Free, InPlay
    <3>2. CASE y # x
      BY <1>12, <3>2 DEF Free
    <3> QED BY <3>1, <3>2
  <2> QED BY <2>1 DEF Free
<1>16. Cardinality(Free(m)) >= Cardinality(Left(v, C, s))
  <2>1. CASE ~Partly(v, x)
    <3>1. Free(u) = Free(w)
      BY <1>2, <1>9, <2>1 DEF Taken
    <3> QED BY <1>4, <1>5, <1>15, <2>1, <3>1
  <2>2. CASE Partly(v, x)
    <3>1. PICK d \in Obj : Free(w) \ {d} \subseteq Free(u)
      BY <1>9 DEF Taken
    <3>2. Cardinality(Free(w) \ {d}) >= Cardinality(Free(w)) - 1 /\ IsFiniteSet(Free(w) \ {d}) /\ Cardinality(Free(w) \ {d}) \in Nat
      <4>1. CASE d \in Free(w)
        <5>1. IsFiniteSet(Free(w) \ {d}) /\ Cardinality(Free(w) \ {d}) = Cardinality(Free(w)) - 1
          BY <1>3, <4>1, FS_RemoveElement
        <5>2. Cardinality(Free(w) \ {d}) \in Nat
          BY <5>1, FS_CardinalityType
        <5> QED BY <1>4, <5>1, <5>2
      <4>2. CASE d \notin Free(w)
        <5>1. Free(w) \ {d} = Free(w)
          BY <4>2
        <5> QED BY <1>3, <1>4, <5>1
      <4> QED BY <4>1, <4>2
    <3>3. IsFiniteSet(Free(u)) /\ Cardinality(Free(u)) \in Nat
      BY FS_Subset, FS_CardinalityType DEF Free
    <3>4. Cardinality(Free(w) \ {d}) <= Cardinality(Free(u))
      BY <3>1, <3>3, FS_Subset
    <3> QED BY <1>4, <1>6, <1>15, <2>2, <3>2, <3>3, <3>4
  <2> QED BY <2>1, <2>2
<1>17. Grabbing(v, C, s, m)
  BY <1>13, <1>14, <1>16 DEF Grabbing
<1> QED BY <1>17 DEF grabs, m, u

(* h is the fold of grabs over the subsets of C.                           *)
Grabs(h, v, C) == h = [s \in SUBSET C |-> IF s = {} THEN v ELSE grabs(h[s \ {SomeOf(s)}], SomeOf(s))]

(* Enough to begin with.                                                   *)
Ready(v, C) == Good(v) /\ C \in SUBSET Obj /\ (\A x \in C : InPlay(v, x)) /\ Cardinality(Free(v)) >= Cardinality(Left(v, C, {}))

(* None are grabbed yet.                                                   *)
LEMMA GrabNone ==
  ASSUME NEW v, NEW C, Ready(v, C)
  PROVE  Grabbing(v, C, {}, v)
  BY SoundSelf DEF Ready, Grabbing

(* All of them in turn, whichever comes first.                             *)
LEMMA GrabMany ==
  ASSUME IsFiniteSet(Obj), NEW v, NEW C, Ready(v, C), NEW h,
         h[{}] = v,
         \A s \in SUBSET C : s # {} /\ Grabbing(v, C, s \ {SomeOf(s)}, h[s \ {SomeOf(s)}])
                               => h[s] = grabs(h[s \ {SomeOf(s)}], SomeOf(s))
  PROVE  \A s \in SUBSET C : Grabbing(v, C, s, h[s])
<1>1. Good(v) /\ C \in SUBSET Obj /\ (\A x \in C : InPlay(v, x)) /\ IsFiniteSet(C)
  BY FS_Subset DEF Ready
<1> DEFINE B == {s \in SUBSET C : ~Grabbing(v, C, s, h[s])}
<1>2. SUFFICES ASSUME B # {} PROVE FALSE
  OBVIOUS
<1>3. PICK s \in B : \A x \in s : s \ {x} \notin B
  <2>1. B \in SUBSET (SUBSET C)
    OBVIOUS
  <2> HIDE DEF B
  <2> QED BY <1>1, <1>2, <2>1, SmallestSet
<1>4. s \in SUBSET C /\ ~Grabbing(v, C, s, h[s])
  OBVIOUS
<1>5. s # {}
  BY <1>4, GrabNone
<1>6. SomeOf(s) \in s
  BY <1>5, AnyIn
<1>7. Grabbing(v, C, s \ {SomeOf(s)}, h[s \ {SomeOf(s)}])
  BY <1>3, <1>4, <1>6
<1>8. h[s] = grabs(h[s \ {SomeOf(s)}], SomeOf(s))
  BY <1>4, <1>5, <1>7
<1>9. Grabbing(v, C, s, grabs(h[s \ {SomeOf(s)}], SomeOf(s)))
  BY <1>1, <1>4, <1>6, <1>7, GrabOne
<1> QED BY <1>4, <1>8, <1>9

(* The fold exists.                                                        *)
LEMMA GrabsExists ==
  ASSUME IsFiniteSet(Obj), NEW v, NEW C, Ready(v, C)
  PROVE  \E h : Grabs(h, v, C)
<1> DEFINE pick == [s \in SUBSET C |-> SomeOf(s)]
           step == [p \in C \X Worlds |-> IF grabs(p[2], p[1]) \in Worlds THEN grabs(p[2], p[1]) ELSE p[2]]
<1>1. \A s \in SUBSET C : s # {} => pick[s] \in s
  BY AnyIn
<1>2. step \in [C \X Worlds -> Worlds]
  OBVIOUS
<1>3. Good(v) /\ v \in Worlds /\ IsFiniteSet(C)
  BY FS_Subset DEF Ready, Good
<1>4. \E h : Solution(h, C, Worlds, v, pick, step)
  <2> HIDE DEF pick, step
  <2>1. Recursion(C, Worlds, v, pick, step)
    BY <1>1, <1>2, <1>3 DEF Recursion
  <2> QED BY <2>1, RecursionOnSet
<1>5. PICK h : Solution(h, C, Worlds, v, pick, step)
  <2> HIDE DEF pick, step
  <2> QED BY <1>4
<1>6. h \in [SUBSET C -> Worlds]
  BY <1>5 DEF Solution
<1>7. ASSUME NEW s \in SUBSET C, s # {}
      PROVE  h[s] = IF grabs(h[s \ {SomeOf(s)}], SomeOf(s)) \in Worlds THEN grabs(h[s \ {SomeOf(s)}], SomeOf(s)) ELSE h[s \ {SomeOf(s)}]
  <2>1. pick[s] = SomeOf(s) /\ SomeOf(s) \in C
    BY <1>1, <1>7
  <2>2. h[s] = step[<<SomeOf(s), h[s \ {SomeOf(s)}]>>]
    <3> HIDE DEF pick, step
    <3> QED BY <1>5, <1>7, <2>1 DEF Solution
  <2>3. h[s \ {SomeOf(s)}] \in Worlds
    BY <1>6
  <2> QED BY <2>1, <2>2, <2>3
<1>8. h[{}] = v
  <2> HIDE DEF pick, step
  <2> QED BY <1>5 DEF Solution
<1> HIDE DEF pick, step
<1>9. \A s \in SUBSET C : s # {} /\ Grabbing(v, C, s \ {SomeOf(s)}, h[s \ {SomeOf(s)}]) => grabs(h[s \ {SomeOf(s)}], SomeOf(s)) \in Worlds
  <2> SUFFICES ASSUME NEW s \in SUBSET C, s # {}, Grabbing(v, C, s \ {SomeOf(s)}, h[s \ {SomeOf(s)}])
               PROVE  grabs(h[s \ {SomeOf(s)}], SomeOf(s)) \in Worlds
    OBVIOUS
  <2>1. SomeOf(s) \in s /\ C \in SUBSET Obj /\ (\A x \in C : InPlay(v, x))
    BY AnyIn DEF Ready
  <2>2. Grabbing(v, C, s, grabs(h[s \ {SomeOf(s)}], SomeOf(s)))
    BY <1>3, <2>1, GrabOne
  <2> QED BY <2>2 DEF Grabbing, Sound, Good
<1>10. \A s \in SUBSET C : Grabbing(v, C, s, h[s])
  <2>1. \A s \in SUBSET C : s # {} /\ Grabbing(v, C, s \ {SomeOf(s)}, h[s \ {SomeOf(s)}])
                               => h[s] = grabs(h[s \ {SomeOf(s)}], SomeOf(s))
    BY <1>7, <1>9
  <2> QED BY <1>8, <2>1, GrabMany
<1>11. \A s \in SUBSET C : h[s] = IF s = {} THEN v ELSE grabs(h[s \ {SomeOf(s)}], SomeOf(s))
  <2>1. \A s \in SUBSET C : s \ {SomeOf(s)} \in SUBSET C
    OBVIOUS
  <2> QED BY <1>7, <1>8, <1>9, <1>10, <2>1
<1>12. h = [s \in SUBSET C |-> IF s = {} THEN v ELSE grabs(h[s \ {SomeOf(s)}], SomeOf(s))]
  BY <1>6, <1>11
<1> QED BY <1>12 DEF Grabs

(* shopdig: the fold over what the hero carries keeps everything.          *)
LEMMA GrabsSound ==
  ASSUME IsFiniteSet(Obj), NEW v, NEW C, Ready(v, C)
  PROVE  Sound(v, FoldSet(LAMBDA o, w : grabs(w, o), v, C))
<1>1. PICK f : Grabs(f, v, C)
  BY GrabsExists
<1>2. f = [s \in SUBSET C |-> IF s = {} THEN v ELSE grabs(f[s \ {SomeOf(s)}], SomeOf(s))]
  BY <1>1 DEF Grabs
<1>3. \E h : /\ h = [s \in SUBSET C |-> IF s = {} THEN v ELSE grabs(h[s \ {SomeOf(s)}], SomeOf(s))]
             /\ FoldSet(LAMBDA o, w : grabs(w, o), v, C) = h[C]
  BY <1>2 DEF FoldSet, MapThenFoldSet, SomeOf
<1>4. PICK h : /\ h = [s \in SUBSET C |-> IF s = {} THEN v ELSE grabs(h[s \ {SomeOf(s)}], SomeOf(s))]
               /\ FoldSet(LAMBDA o, w : grabs(w, o), v, C) = h[C]
  BY <1>3
<1>5. \A s \in SUBSET C : h[s] = IF s = {} THEN v ELSE grabs(h[s \ {SomeOf(s)}], SomeOf(s))
  <2> DEFINE e == [s \in SUBSET C |-> IF s = {} THEN v ELSE grabs(h[s \ {SomeOf(s)}], SomeOf(s))]
  <2>1. \A s \in SUBSET C : e[s] = IF s = {} THEN v ELSE grabs(h[s \ {SomeOf(s)}], SomeOf(s))
    OBVIOUS
  <2>2. h = e
    BY <1>4
  <2> HIDE DEF e
  <2> QED BY <2>1, <2>2
<1>6. h[{}] = v
  <2>1. {} \in SUBSET C
    OBVIOUS
  <2> QED BY <1>5, <2>1
<1>7. Grabbing(v, C, C, h[C])
  <2>1. \A s \in SUBSET C : s # {} /\ Grabbing(v, C, s \ {SomeOf(s)}, h[s \ {SomeOf(s)}])
                               => h[s] = grabs(h[s \ {SomeOf(s)}], SomeOf(s))
    BY <1>5
  <2>2. C \in SUBSET C
    OBVIOUS
  <2> QED BY <1>6, <2>1, <2>2, GrabMany
<1> QED BY <1>4, <1>7 DEF Grabbing

-----------------------------------------------------------------------------
(* The deeds.                                                              *)

(* The world as it should be, whoever stands where.                        *)
Well(w, p) == Fine(w) /\ Watched(w, p)

(* What is sound keeps it,                                                 *)
LEMMA WellSound ==
  ASSUME NEW w, NEW v, NEW p, Well(w, p), Sound(w, v)
  PROVE  Well(v, p)
<1>1. Fine(v)
  BY DEF Well, Fine, Sound
<1>2. Watched(v, p)
  BY FrameWatched DEF Well, Sound
<1> QED BY <1>1, <1>2 DEF Well

(* A world is the record of its parts.                                     *)
LEMMA WorldIs ==
  ASSUME NEW w \in Worlds
  PROVE  w = [obj |-> w.obj, shk |-> w.shk, umoney |-> w.umoney, till |-> w.till, ushops |-> w.ushops]
  BY DEF Worlds

(* Become makes v the world of the next state.                             *)
LEMMA BecomeIs ==
  ASSUME NEW v \in Worlds, Become(v)
  PROVE  World' = v
<1>1. obj' = v.obj /\ shk' = v.shk /\ umoney' = v.umoney /\ till' = v.till /\ ushops' = v.ushops
  BY DEF Become
<1> QED BY <1>1, WorldIs DEF World

(* A deed is done well when what it becomes is well,                       *)
LEMMA DoneWell ==
  ASSUME NEW v, NEW p, Well(v, p), Become(v), pos' = p
  PROVE  Well(World, pos)'
<1>1. v \in Worlds
  BY DEF Well, Fine, Good
<1>2. World' = v
  BY <1>1, BecomeIs
<1> QED BY <1>2

(* above all when it is sound and the hero stays.                          *)
LEMMA DoneSound ==
  ASSUME NEW v, Well(World, pos), Sound(World, v), Become(v), pos' = pos
  PROVE  Well(World, pos)'
<1>1. Well(v, pos)
  BY WellSound
<1> QED BY <1>1, DoneWell

(* The world of this state and its parts.                                  *)
LEMMA WorldNow ==
  ASSUME NEW p, Well(World, p)
  PROVE  /\ Fine(World) /\ Good(World) /\ Inside(World) /\ Watched(World, p)
         /\ World.obj = obj /\ World.shk = shk /\ World.umoney = umoney /\ World.till = till /\ World.ushops = ushops
         /\ \A o \in Obj : obj[o].where \notin {"none", "onbill"} => InPlay(World, o)
  BY DEF Well, Fine, World, InPlay

-----------------------------------------------------------------------------
(* The hero walks, or is taken out of the shop.                            *)
LEMMA WalkWell ==
  ASSUME Well(World, pos), NEW to \in {"in", "edge", "out"}, Walk(to)
  PROVE  Well(World, pos)'
<1>1. Become(check_special_room(World, pos, to)) /\ pos' = to
  BY DEF Walk
<1>2. Well(check_special_room(World, pos, to), to)
  BY WorldNow, CheckRoom DEF Well
<1> QED BY <1>1, <1>2, DoneWell

(* A stack is split, and its part is about.                                *)
LEMMA HalvedIn ==
  ASSUME NEW w, Fine(w), NEW o \in Obj, InPlay(w, o), NEW p \in Free(w), NEW num \in 1 .. (w.obj[o].quan - 1)
  PROVE  LET v == splitobj(w, o, p, num) IN Sound(w, v) /\ Fine(v) /\ p \in Obj /\ InPlay(v, p)
<1>1. Good(w) /\ Inside(w) /\ p \in Obj
  BY DEF Fine, Free
<1>2. Halved(w, splitobj(w, o, p, num), o, p, num)
  BY <1>1, SplitSound
<1>3. w.obj[o] \in Struct
  BY <1>1, GoodParts
<1>4. splitobj(w, o, p, num).obj[p].where = w.obj[o].where
  BY <1>2, <1>3 DEF Halved, Struct
<1>5. Sound(w, splitobj(w, o, p, num))
  BY <1>2 DEF Halved
<1> QED BY <1>1, <1>4, <1>5 DEF InPlay, Sound, Fine

(* The deeds of the hero and of monsters, one after the other.             *)
LEMMA PickUpWell ==
  ASSUME Well(World, pos), NEW o \in Obj, NEW num, PickUp(o, num)
  PROVE  Well(World, pos)'
<1>1. /\ obj[o].where \in {"shelf", "street"} /\ num \in 1 .. obj[o].quan
      /\ num < obj[o].quan => Spare(World, 1)
      /\ IF num = obj[o].quan THEN Become(pick_obj(World, o))
         ELSE Become(pick_obj(splitobj(World, o, Fresh(World), num), Fresh(World)))
      /\ pos' = pos
  BY DEF PickUp, Stays
<1>2. Fine(World) /\ Good(World) /\ World.obj = obj /\ InPlay(World, o)
  BY <1>1, WorldNow
<1>3. CASE num = obj[o].quan
  <2>1. Sound(World, pick_obj(World, o))
    BY <1>2, PickSound
  <2> QED BY <1>1, <1>3, <2>1, DoneSound
<1>4. CASE num # obj[o].quan
  <2> DEFINE p == Fresh(World)
             v == splitobj(World, o, p, num)
  <2>1. obj[o] \in Struct
    BY <1>2, GoodParts
  <2>2. obj[o].quan \in Nat
    BY <2>1 DEF Struct
  <2>3. num < obj[o].quan /\ num \in 1 .. (World.obj[o].quan - 1)
    BY <1>1, <1>2, <1>4, <2>2
  <2>4. Free(World) # {}
    BY <1>1, <2>3, SpareSome
  <2>5. p \in Free(World)
    BY <2>4, FreshIn
  <2> HIDE DEF p
  <2>6. Sound(World, v) /\ Fine(v) /\ p \in Obj /\ InPlay(v, p)
    BY <1>2, <2>3, <2>5, HalvedIn
  <2> HIDE DEF v
  <2>7. Sound(v, pick_obj(v, p))
    BY <2>6, PickSound
  <2>8. Sound(World, pick_obj(v, p))
    BY <2>6, <2>7, SoundTrans
  <2> QED BY <1>1, <1>4, <2>8, DoneSound DEF v, p
<1> QED BY <1>3, <1>4

(* A stack is split.                                                       *)
LEMMA SplitWell ==
  ASSUME Well(World, pos), NEW o \in Obj, NEW num, Split(o, num)
  PROVE  Well(World, pos)'
<1>1. /\ obj[o].where = "invent" /\ num \in 1 .. (obj[o].quan - 1) /\ Spare(World, 1)
      /\ Become(splitobj(World, o, Fresh(World), num)) /\ pos' = pos
  BY DEF Split, Stays
<1>2. Fine(World) /\ World.obj = obj /\ InPlay(World, o)
  BY <1>1, WorldNow
<1>3. Fresh(World) \in Free(World)
  BY <1>1, SpareSome, FreshIn
<1>4. Sound(World, splitobj(World, o, Fresh(World), num))
  BY <1>1, <1>2, <1>3, HalvedIn
<1> QED BY <1>1, <1>4, DoneSound

(* A struct for what was partly used.                                      *)
LEMMA SpareCovers ==
  ASSUME NEW w, Good(w), NEW o \in Obj, Spare(w, PartlyUsed(w, o))
  PROVE  Covered(w, o)
  BY PartlyIs, SpareSome DEF Covered

(* Moving uses nothing up.                                                 *)
LEMMA MoveCovered ==
  ASSUME NEW w, Good(w), NEW o \in Obj, InPlay(w, o), NEW p \in Places, p \notin {"none", "onbill"}, Covered(w, o)
  PROVE  Covered(Move(w, o, p), o)
<1>1. /\ Move(w, o, p).shk = w.shk /\ InPlay(Move(w, o, p), o)
      /\ Move(w, o, p).obj[o] = [w.obj[o] EXCEPT !.where = p]
      /\ \A x \in Obj : x # o => Move(w, o, p).obj[x] = w.obj[x]
  BY MoveSound
<1>2. w.obj[o] \in Struct
  BY GoodParts
<1>3. Move(w, o, p).obj[o].quan = w.obj[o].quan
  BY <1>1, <1>2 DEF Struct
<1>4. Partly(Move(w, o, p), o) => Partly(w, o)
  BY <1>1, <1>3 DEF Partly
<1>5. Free(w) \subseteq Free(Move(w, o, p))
  <2>1. ASSUME NEW y \in Obj, w.obj[y].where = "none" PROVE Move(w, o, p).obj[y].where = "none"
    BY <1>1, <2>1 DEF InPlay
  <2> QED BY <2>1 DEF Free
<1> QED BY <1>4, <1>5 DEF Covered

(* dropx.                                                                  *)
LEMMA DropWell ==
  ASSUME Well(World, pos), NEW o \in Obj, NEW answer \in Answers(o), Drop(o, answer)
  PROVE  Well(World, pos)'
<1> DEFINE p == IF pos = "in" THEN "shelf" ELSE "street"
           w == Move(World, o, p)
           v == IF costly_spot(w, pos) /\ ushops THEN sellobj(w, o, answer) ELSE w
<1>1. /\ obj[o].where = "invent" /\ Spare(World, PartlyUsed(World, o))
      /\ Become(Stack(v, o)) /\ pos' = pos
  BY DEF Drop, Stays
<1>2. Good(World) /\ World.obj = obj /\ InPlay(World, o)
  BY <1>1, WorldNow
<1>3. p \in Places /\ p \notin {"none", "onbill"} /\ answer \in {"yes", "no", "dont_sell"}
  BY DEF Places, Answers
<1>4. Covered(World, o)
  BY <1>1, <1>2, SpareCovers
<1> HIDE DEF p
<1>5. Sound(World, w) /\ InPlay(w, o)
  BY <1>2, <1>3, MoveSound
<1>6. Covered(w, o)
  BY <1>2, <1>3, <1>4, MoveCovered
<1> HIDE DEF w
<1>7. Good(w) /\ Sound(w, w)
  BY <1>5, SoundSelf DEF Sound
<1>8. Handled(w, sellobj(w, o, answer), o)
  BY <1>3, <1>5, <1>6, <1>7, SellSound
<1>9. Sound(w, v) /\ InPlay(v, o)
  BY <1>5, <1>7, <1>8 DEF Handled
<1> HIDE DEF v
<1>10. Sound(World, v) /\ Good(v)
  BY <1>5, <1>9, SoundTrans DEF Sound
<1>11. Sound(v, Stack(v, o))
  BY <1>9, <1>10, StackSound
<1>12. Sound(World, Stack(v, o))
  BY <1>10, <1>11, SoundTrans
<1> QED BY <1>1, <1>12, DoneSound

(* throwit and breakobj.                                                   *)
LEMMA ThrowWell ==
  ASSUME Well(World, pos), NEW o \in Obj, NEW lands \in {"shelf", "street", "breaks"}, Throw(o, lands)
  PROVE  Well(World, pos)'
<1> DEFINE w == Parted(World, o)
           t == One(World, o)
<1>1. /\ obj[o].where = "invent" /\ Spare(World, Splits(World, o) + PartlyUsed(World, o)) /\ pos' = pos
      /\ Become(IF lands = "breaks" THEN obfree(check_shop_obj(w, t, lands), t)
                ELSE Stack(check_shop_obj(Move(w, t, lands), t, lands), t))
  BY DEF Throw, Stays
<1>2. Fine(World) /\ World.obj = obj /\ InPlay(World, o)
  BY <1>1, WorldNow
<1>3. OneOf(World, w, o, t) /\ Covered(w, t)
  BY <1>1, <1>2, PartCovered
<1> HIDE DEF w, t
<1>4. t \in Obj /\ Sound(World, w) /\ InPlay(w, t) /\ Good(w)
  BY <1>3 DEF OneOf, Handled, Sound
<1>5. CASE lands = "breaks"
  <2> DEFINE v == check_shop_obj(w, t, lands)
  <2>1. Handled(w, v, t)
    BY <1>3, <1>4, ShopObjSound
  <2> HIDE DEF v
  <2>2. Sound(w, v) /\ InPlay(v, t) /\ Good(v)
    BY <2>1 DEF Handled, Sound
  <2>3. Sound(v, obfree(v, t))
    BY <1>4, <2>2, FreeSound
  <2>4. Sound(World, obfree(v, t))
    BY <1>4, <2>2, <2>3, SoundTrans
  <2> QED BY <1>1, <1>5, <2>4, DoneSound DEF v
<1>6. CASE lands # "breaks"
  <2> DEFINE m == Move(w, t, lands)
             v == check_shop_obj(m, t, lands)
  <2>1. lands \in Places /\ lands \notin {"none", "onbill"}
    BY <1>6 DEF Places
  <2>2. Sound(w, m) /\ InPlay(m, t) /\ Covered(m, t)
    BY <1>3, <1>4, <2>1, MoveSound, MoveCovered
  <2> HIDE DEF m
  <2>3. Good(m) /\ Sound(World, m)
    BY <1>4, <2>2, SoundTrans DEF Sound
  <2>4. Handled(m, v, t)
    BY <1>4, <2>2, <2>3, ShopObjSound
  <2> HIDE DEF v
  <2>5. Sound(m, v) /\ InPlay(v, t) /\ Good(v)
    BY <2>4 DEF Handled, Sound
  <2>6. Sound(v, Stack(v, t))
    BY <1>4, <2>5, StackSound
  <2>7. Sound(World, Stack(v, t))
    BY <2>3, <2>5, <2>6, SoundTrans
  <2> QED BY <1>1, <1>6, <2>7, DoneSound DEF v, m
<1> QED BY <1>5, <1>6

(* A free struct is in order.                                              *)
LEMMA BlankForm == NoObj \in Struct /\ Formed(NoObj) /\ ~NoObj.unpaid /\ NoObj.where # "onbill"
  BY DEF NoObj, Struct, Formed, Places

(* What is not on the bill may go.                                         *)
LEMMA GoneSound ==
  ASSUME NEW w, Good(w), NEW o \in Obj, onbill(w, o) = 0
  PROVE  Sound(w, [w EXCEPT !.obj[o] = NoObj])
<1>1. w \in Worlds
  BY DEF Good
<1>2. [w EXCEPT !.obj[o] = NoObj] = Put(w, o, NoObj)
  BY <1>1 DEF Put, Worlds
<1>3. Sound(w, Put(w, o, NoObj))
  BY BlankForm, PutOff
<1> QED BY <1>2, <1>3

(* ship_object.                                                            *)
LEMMA FallsDownWell ==
  ASSUME Well(World, pos), NEW o \in Obj, FallsDown(o)
  PROVE  Well(World, pos)'
<1> DEFINE s == shop_keeper(World)
           u == subfrombill(s, o)
           v == stolen_value(u, o, TRUE)
           w == IF obj[o].unpaid THEN v ELSE World
<1>1. /\ obj[o].where = "invent" /\ Spare(World, PartlyUsed(World, o)) /\ pos' = pos
      /\ Become([w EXCEPT !.obj[o] = NoObj])
  BY DEF FallsDown, Stays
<1>2. Good(World) /\ World \in Worlds /\ World.obj = obj /\ InPlay(World, o)
  BY <1>1, WorldNow DEF Good
<1>3. Covered(World, o)
  BY <1>1, <1>2, SpareCovers
<1>4. Quiet(World, s)
  BY <1>2, QuietLook
<1> HIDE DEF s
<1>5. Good(s) /\ Sound(World, s) /\ InPlay(s, o) /\ Covered(s, o)
  BY <1>2, <1>3, <1>4, SoundQuiet, QuietPartly DEF Sound
<1>6. Taken(s, u, o)
  BY <1>5, SubSound
<1> HIDE DEF u
<1>7. Good(u) /\ Sound(World, u) /\ u \in Worlds /\ onbill(u, o) = 0
  BY <1>5, <1>6, SoundTrans DEF Taken, Sound, Good
<1>8. TRUE \in BOOLEAN
  OBVIOUS
<1>9. Quiet(u, v)
  BY <1>7, <1>8, QuietStolen
<1> HIDE DEF v
<1>10. Sound(u, v) /\ Good(v) /\ onbill(v, o) = 0
  BY <1>7, <1>9, SoundQuiet, QuietGood
<1>11. Sound(World, v)
  BY <1>7, <1>10, SoundTrans
<1>12. ~obj[o].unpaid => onbill(World, o) = 0
  BY <1>2, EntryIs
<1>13. Sound(World, w) /\ Good(w) /\ onbill(w, o) = 0
  BY <1>2, <1>10, <1>11, <1>12, SoundSelf
<1> HIDE DEF w
<1>14. Sound(w, [w EXCEPT !.obj[o] = NoObj])
  BY <1>13, GoneSound
<1>15. Sound(World, [w EXCEPT !.obj[o] = NoObj])
  BY <1>13, <1>14, SoundTrans
<1> QED BY <1>1, <1>15, DoneSound

(* There is a struct for the part.                                         *)
LEMMA SpareParts ==
  ASSUME NEW w, Good(w), NEW o \in Obj, Spare(w, Splits(w, o))
  PROVE  w.obj[o].quan > 1 => Free(w) # {}
<1>1. w.obj[o].quan > 1 => Splits(w, o) = 1
  BY DEF Splits
<1> QED BY <1>1, SpareSome

(* really_kick.                                                            *)
LEMMA KickOutWell ==
  ASSUME Well(World, pos), NEW o \in Obj, KickOut(o)
  PROVE  Well(World, pos)'
<1> DEFINE w == Parted(World, o)
           t == One(World, o)
           u == stolen_value(w, t, w.shk.peaceful)
           v == IF inhishop(w) THEN u ELSE w
           m == Move(v, t, "street")
<1>1. /\ obj[o].where = "shelf" /\ Spare(World, Splits(World, o)) /\ pos' = pos
      /\ Become(Stack(m, t))
  BY DEF KickOut, Stays
<1>2. Fine(World) /\ Good(World) /\ World.obj = obj /\ InPlay(World, o)
  BY <1>1, WorldNow
<1>3. OneOf(World, w, o, t)
  BY <1>1, <1>2, SpareParts, PartSound
<1> HIDE DEF w, t
<1>4. t \in Obj /\ Sound(World, w) /\ InPlay(w, t) /\ Good(w) /\ w \in Worlds
  BY <1>3 DEF OneOf, Handled, Sound, Good
<1>5. w.shk.peaceful \in BOOLEAN
  BY <1>4, WorldParts
<1>6. Quiet(w, u) /\ Quiet(w, w)
  BY <1>4, <1>5, QuietStolen, QuietSelf
<1> HIDE DEF u
<1>7. Handled(w, v, t)
  BY <1>4, <1>6, HandledQuiet
<1> HIDE DEF v
<1>8. Sound(w, v) /\ InPlay(v, t) /\ Good(v) /\ Sound(World, v)
  BY <1>4, <1>7, SoundTrans DEF Handled, Sound
<1>9. "street" \in Places /\ "street" \notin {"none", "onbill"}
  BY DEF Places
<1>10. Sound(v, m) /\ InPlay(m, t)
  BY <1>4, <1>8, <1>9, MoveSound
<1> HIDE DEF m
<1>11. Sound(m, Stack(m, t)) /\ Sound(World, m)
  BY <1>4, <1>8, <1>10, StackSound, SoundTrans DEF Sound
<1>12. Sound(World, Stack(m, t))
  BY <1>11, SoundTrans
<1> QED BY <1>1, <1>12, DoneSound

(* breakobj of something on the floor.                                     *)
LEMMA BreakShelfWell ==
  ASSUME Well(World, pos), NEW o \in Obj, BreakShelf(o)
  PROVE  Well(World, pos)'
<1> DEFINE v == shop_keeper(World)
           s == stolen_value(v, o, v.shk.peaceful)
           a == make_angry_shk(s)
           charged == s.shk.debit > v.shk.debit \/ s.shk.robbed > v.shk.robbed
           u == IF obj[o].no_charge \/ ~inhishop(v) THEN v ELSE IF charged /\ pos # "in" THEN a ELSE s
<1>1. obj[o].where = "shelf" /\ Become(obfree(u, o)) /\ pos' = pos
  BY DEF BreakShelf, Stays
<1>2. Good(World) /\ World \in Worlds /\ World.obj = obj /\ InPlay(World, o)
  BY <1>1, WorldNow DEF Good
<1>3. Quiet(World, v)
  BY <1>2, QuietLook
<1> HIDE DEF v
<1>4. Handled(World, v, o) /\ Good(v) /\ v \in Worlds /\ InPlay(v, o)
  BY <1>2, <1>3, HandledQuiet DEF Handled, Good
<1>5. v.shk.peaceful \in BOOLEAN
  BY <1>4, WorldParts
<1>6. Quiet(v, s)
  BY <1>4, <1>5, QuietStolen
<1> HIDE DEF s
<1>7. Handled(v, s, o) /\ Good(s) /\ InPlay(s, o)
  BY <1>4, <1>6, HandledQuiet DEF Handled
<1>8. Cleared(s, a)
  BY <1>7, AngryCleared
<1> HIDE DEF a
<1>9. Handled(s, a, o)
  BY <1>7, <1>8, ClearedSound DEF Cleared, Handled
<1>10. Handled(World, s, o) /\ Handled(World, a, o)
  BY <1>4, <1>7, <1>9, HandledTrans DEF Handled
<1>11. Handled(World, u, o)
  BY <1>4, <1>10
<1> HIDE DEF u
<1>12. Sound(World, u) /\ Good(u) /\ InPlay(u, o)
  BY <1>11 DEF Handled, Sound
<1>13. Sound(u, obfree(u, o))
  BY <1>12, FreeSound
<1>14. Sound(World, obfree(u, o))
  BY <1>12, <1>13, SoundTrans
<1> QED BY <1>1, <1>14, DoneSound

(* useupf.                                                                 *)
LEMMA UseFloorWell ==
  ASSUME Well(World, pos), NEW o \in Obj, UseFloor(o)
  PROVE  Well(World, pos)'
<1> DEFINE w == Parted(World, o)
           t == One(World, o)
           a == addtobill(w, t, FALSE)
           s == stolen_value(w, t, FALSE)
           u == IF ~inhishop(w) THEN w ELSE IF InRoom(pos) THEN a ELSE s
<1>1. /\ obj[o].where = "shelf" /\ Spare(World, Splits(World, o)) /\ pos' = pos
      /\ Become(obfree(u, t))
  BY DEF UseFloor, Stays
<1>2. Fine(World) /\ Good(World) /\ World.obj = obj /\ InPlay(World, o)
  BY <1>1, WorldNow
<1>3. OneOf(World, w, o, t)
  BY <1>1, <1>2, SpareParts, PartSound
<1> HIDE DEF w, t
<1>4. t \in Obj /\ Sound(World, w) /\ InPlay(w, t) /\ Good(w) /\ w \in Worlds
  BY <1>3 DEF OneOf, Handled, Sound, Good
<1>5. Well(w, pos)
  BY <1>4, WellSound
<1>6. inhishop(w) /\ InRoom(pos) => w.ushops
  BY <1>5 DEF Well, Watched, inhishop
<1>7. inhishop(w) => Billed1(w, a, t)
  BY <1>4, AddSound
<1>8. inhishop(w) /\ InRoom(pos) => Sound(w, a) /\ InPlay(a, t)
  BY <1>4, <1>6, <1>7 DEF Billed1, Sound, InPlay
<1> HIDE DEF a
<1>9. FALSE \in BOOLEAN
  OBVIOUS
<1>10. Quiet(w, s) /\ Quiet(w, w)
  BY <1>4, <1>9, QuietStolen, QuietSelf
<1> HIDE DEF s
<1>11. Sound(w, s) /\ InPlay(s, t) /\ Sound(w, w)
  BY <1>4, <1>10, HandledQuiet DEF Handled
<1>12. Sound(w, u) /\ InPlay(u, t)
  BY <1>4, <1>8, <1>11
<1> HIDE DEF u
<1>13. Good(u) /\ Sound(World, u)
  BY <1>4, <1>12, SoundTrans DEF Sound
<1>14. Sound(u, obfree(u, t))
  BY <1>4, <1>12, <1>13, FreeSound
<1>15. Sound(World, obfree(u, t))
  BY <1>13, <1>14, SoundTrans
<1> QED BY <1>1, <1>15, DoneSound

(* useup: the entry keeps its quantity, which is then more than what is    *)
(* left.                                                                   *)
LEMMA UseUpWell ==
  ASSUME Well(World, pos), NEW o \in Obj, UseUp(o)
  PROVE  Well(World, pos)'
<1>1. obj[o].where = "invent" /\ pos' = pos /\ Become(useup(World, o))
  BY DEF UseUp, Stays
<1>2. Good(World) /\ World \in Worlds /\ World.obj = obj /\ InPlay(World, o)
  BY <1>1, WorldNow DEF Good
<1>3. CASE ~(obj[o].quan > 1)
  <2>1. useup(World, o) = obfree(World, o)
    BY <1>2, <1>3 DEF useup
  <2>2. Sound(World, obfree(World, o))
    BY <1>2, FreeSound
  <2> QED BY <1>1, <2>1, <2>2, DoneSound
<1>4. CASE obj[o].quan > 1
  <2> DEFINE s == [World.obj[o] EXCEPT !.quan = World.obj[o].quan - 1]
  <2>1. World.obj[o] \in Struct /\ Formed(World.obj[o])
    BY <1>2, GoodParts
  <2>2. World.obj[o].quan \in Nat /\ World.obj[o].quan > 1
    BY <1>2, <1>4, <2>1 DEF Struct
  <2>3. Told(World.obj[o], s)
    <3>1. World.obj[o].quan - 1 \in 1 .. World.obj[o].quan /\ World.obj[o].quan - 1 \in Nat
      BY <2>2
    <3> QED BY <1>2, <2>1, <3>1 DEF Told, Struct, InPlay, Formed
  <2>4. useup(World, o) = Put(World, o, s)
    BY <1>2, <1>4 DEF useup, Put, Worlds
  <2> HIDE DEF s
  <2>5. Sound(World, Put(World, o, s))
    BY <1>2, <2>3, PutTold
  <2> QED BY <1>1, <2>4, <2>5, DoneSound
<1> QED BY <1>3, <1>4

(* The amounts are numbers.                                                *)
LEMMA FeesAreNatural == Fee \in Nat /\ Price \in Nat /\ Appease \in Nat /\ Purse \in Nat /\ Chest \in Nat
  BY AmountsAreNatural

(* A quiet deed is done well.                                              *)
LEMMA DoneQuiet ==
  ASSUME NEW v, Well(World, pos), Quiet(World, v), Become(v), pos' = pos
  PROVE  Well(World, pos)'
<1>1. Sound(World, v)
  BY WorldNow, SoundQuiet
<1> QED BY <1>1, DoneSound

(* check_unpaid: a fee for the use.                                        *)
LEMMA UseChargeWell ==
  ASSUME Well(World, pos), NEW o \in Obj, UseCharge(o)
  PROVE  Well(World, pos)'
<1> DEFINE s == shop_keeper(World)
<1>1. pos' = pos /\ Become([s EXCEPT !.shk.debit = s.shk.debit + Fee])
  <2>1. pos' = pos /\ Become(check_unpaid(World))
    BY DEF UseCharge, Stays
  <2> QED BY <2>1 DEF check_unpaid
<1>2. World \in Worlds
  BY WorldNow DEF Good
<1>3. Quiet(World, s)
  BY <1>2, QuietLook
<1> HIDE DEF s
<1>4. s \in Worlds
  BY <1>3 DEF Quiet
<1> DEFINE d == s.shk.debit + Fee
<1>5. d \in Nat /\ d >= s.shk.debit
  BY <1>4, FeesAreNatural, WorldParts
<1> HIDE DEF d
<1>6. Quiet(s, [s EXCEPT !.shk.debit = d])
  BY <1>4, <1>5, QuietDebit
<1>7. Quiet(World, [s EXCEPT !.shk.debit = d])
  BY <1>3, <1>6, QuietTrans
<1> QED BY <1>1, <1>7, DoneQuiet DEF d

(* touchfood and light_cocktail.                                           *)
LEMMA AlterWell ==
  ASSUME Well(World, pos), NEW o \in Obj, Alter(o)
  PROVE  Well(World, pos)'
<1> DEFINE w == Parted(World, o)
           t == One(World, o)
           n == Splits(World, o) + 1 + (IF obj[o].quan > 1 THEN 0 ELSE PartlyUsed(World, o))
<1>1. /\ \/ obj[o].where = "invent" /\ obj[o].unpaid
         \/ obj[o].where = "shelf" /\ ~obj[o].no_charge
      /\ costly_spot(World, pos) /\ Spare(World, n) /\ pos' = pos /\ Become(bill_dummy_object(w, t))
  BY DEF Alter, Stays
<1>2. Fine(World) /\ Good(World) /\ Watched(World, pos) /\ World.obj = obj /\ InPlay(World, o)
  BY <1>1, WorldNow
<1>3. pos = "in" /\ World.shk.at = "shop"
  BY <1>1 DEF costly_spot, inhishop
<1>4. World.ushops
  BY <1>2, <1>3 DEF Watched, InRoom
<1>5. ~World.obj[o].no_charge
  <2>1. Formed(World.obj[o])
    BY <1>2, GoodParts
  <2> QED BY <1>1, <1>2, <2>1 DEF Formed
<1>6. PartlyUsed(World, o) = IF Partly(World, o) THEN 1 ELSE 0
  BY <1>2, PartlyIs
<1>7. n \in Nat /\ n > 0 /\ (obj[o].quan > 1 => n > 1) /\ (~(obj[o].quan > 1) /\ Partly(World, o) => n > 1)
  BY <1>2, <1>6 DEF Splits
<1> HIDE DEF n
<1>8. Free(World) # {} /\ (n > 1 => \A d : Free(World) \ {d} # {})
  BY <1>1, <1>7, SpareSome
<1>9. /\ OneOf(World, w, o, t)
      /\ World.obj[o].quan > 1 => ~Partly(w, t) /\ Free(w) = Free(World) \ {Fresh(World)}
      /\ ~(World.obj[o].quan > 1) => w = World /\ t = o
  BY <1>2, <1>8, PartSound
<1> HIDE DEF w, t
<1>10. t \in Obj /\ Sound(World, w) /\ InPlay(w, t) /\ ~w.obj[t].no_charge
  BY <1>5, <1>9 DEF OneOf, Handled
<1>11. Fine(w) /\ inhishop(w) /\ w.ushops
  BY <1>2, <1>3, <1>4, <1>10 DEF Sound, Frame, Fine, inhishop
<1>12. Free(w) # {} /\ (Partly(w, t) => \A d : Free(w) \ {d} # {})
  <2>1. CASE World.obj[o].quan > 1
    BY <1>2, <1>7, <1>8, <1>9, <2>1
  <2>2. CASE ~(World.obj[o].quan > 1)
    BY <1>2, <1>7, <1>8, <1>9, <2>2
  <2> QED BY <2>1, <2>2
<1>13. Sound(w, bill_dummy_object(w, t))
  BY <1>10, <1>11, <1>12, DummySound
<1>14. Sound(World, bill_dummy_object(w, t))
  BY <1>10, <1>13, SoundTrans
<1> QED BY <1>1, <1>14, DoneSound DEF w, t

(* A monster takes something from the floor or the hero.                   *)
LEMMA MonsterTakesWell ==
  ASSUME Well(World, pos), NEW o \in Obj, NEW from \in {"shelf", "invent"}, NEW tells \in BOOLEAN,
         MonsterTakes(o, from, tells)
  PROVE  Well(World, pos)'
<1> DEFINE s == shop_keeper(World)
           u == subfrombill(s, o)
           v == IF tells THEN u ELSE World
<1>1. /\ obj[o].where = from /\ (tells => Spare(World, PartlyUsed(World, o))) /\ pos' = pos
      /\ Become(Move(v, o, "monst"))
  BY DEF MonsterTakes, Stays
<1>2. Good(World) /\ World \in Worlds /\ World.obj = obj /\ InPlay(World, o)
  BY <1>1, WorldNow DEF Good
<1>3. tells => Covered(World, o)
  BY <1>1, <1>2, SpareCovers
<1>4. Quiet(World, s)
  BY <1>2, QuietLook
<1> HIDE DEF s
<1>5. tells => Handled(World, u, o)
  BY <1>2, <1>3, <1>4, QuietSub
<1> HIDE DEF u
<1>6. Sound(World, v) /\ InPlay(v, o)
  BY <1>2, <1>5, SoundSelf DEF Handled
<1> HIDE DEF v
<1>7. "monst" \in Places /\ "monst" \notin {"none", "onbill"} /\ Good(v)
  BY <1>6 DEF Places, Sound
<1>8. Sound(v, Move(v, o, "monst"))
  BY <1>6, <1>7, MoveSound
<1>9. Sound(World, Move(v, o, "monst"))
  BY <1>6, <1>8, SoundTrans
<1> QED BY <1>1, <1>9, DoneSound

(* And drops it, where it may stack.                                       *)
LEMMA MonsterDropsWell ==
  ASSUME Well(World, pos), NEW o \in Obj, NEW where \in {"shelf", "street"}, MonsterDrops(o, where)
  PROVE  Well(World, pos)'
<1> DEFINE m == Move(World, o, where)
<1>1. obj[o].where = "monst" /\ pos' = pos /\ Become(Stack(m, o))
  BY DEF MonsterDrops, Stays
<1>2. Good(World) /\ World.obj = obj /\ InPlay(World, o)
  BY <1>1, WorldNow
<1>3. where \in Places /\ where \notin {"none", "onbill"}
  BY DEF Places
<1>4. Sound(World, m) /\ InPlay(m, o) /\ Good(m)
  BY <1>2, <1>3, MoveSound DEF Sound
<1> HIDE DEF m
<1>5. Sound(m, Stack(m, o))
  BY <1>4, StackSound
<1>6. Sound(World, Stack(m, o))
  BY <1>4, <1>5, SoundTrans
<1> QED BY <1>1, <1>6, DoneSound

(* shopdig.                                                                *)
LEMMA DigsWell ==
  ASSUME Well(World, pos), Digs
  PROVE  Well(World, pos)'
<1> DEFINE v == shop_keeper(World)
           a == make_angry_shk(v)
           g == FoldSet(LAMBDA o, w : grabs(w, o), v, Carried)
           r == rile_shk(v)
<1>1. /\ Spare(World, Cardinality({o \in Carried : PartlyUsed(World, o) = 1})) /\ pos' = pos
      /\ Become(IF ~inhishop(v) THEN a ELSE IF v.shk.awake /\ Owes(v) THEN g ELSE r)
  BY DEF Digs, Stays
<1>2. Good(World) /\ World \in Worlds /\ World.obj = obj /\ IsFiniteSet(Obj)
  BY WorldNow, GoodsAreObjects DEF Good
<1>3. Quiet(World, v)
  BY <1>2, QuietLook
<1> HIDE DEF v
<1>4. Good(v) /\ v \in Worlds /\ Sound(World, v)
  BY <1>2, <1>3, SoundQuiet DEF Sound, Good
<1>5. Sound(World, a)
  <2>1. Sound(v, a)
    BY <1>4, AngryCleared, ClearedSound
  <2> HIDE DEF a
  <2> QED BY <1>4, <2>1, SoundTrans
<1> HIDE DEF a
<1>6. Sound(World, r)
  <2>1. Sound(v, r)
    BY <1>4, QuietRile, SoundQuiet
  <2> HIDE DEF r
  <2> QED BY <1>4, <2>1, SoundTrans
<1> HIDE DEF r
<1>7. Ready(v, Carried)
  <2>1. Carried \in SUBSET Obj
    BY DEF Carried
  <2>2. \A x \in Carried : InPlay(v, x)
    BY <1>2, <1>3 DEF Carried, InPlay, Quiet
  <2>3. Free(v) = Free(World) /\ \A x \in Obj : Partly(v, x) <=> Partly(World, x)
    BY <1>2, <1>3, QuietPartly DEF Free, Quiet
  <2>4. {o \in Carried : PartlyUsed(World, o) = 1} = Left(v, Carried, {})
    <3>1. \A x \in Obj : PartlyUsed(World, x) = 1 <=> Partly(v, x)
      BY <1>2, <2>3, PartlyIs
    <3> QED BY <2>1, <3>1 DEF Left
  <2>5. Cardinality(Free(v)) >= Cardinality(Left(v, Carried, {}))
    BY <1>1, <2>3, <2>4 DEF Spare
  <2> QED BY <1>4, <2>1, <2>2, <2>5 DEF Ready
<1>8. Sound(v, g)
  BY <1>2, <1>7, GrabsSound
<1> HIDE DEF g
<1>9. Sound(World, g)
  BY <1>4, <1>8, SoundTrans
<1> QED BY <1>1, <1>5, <1>6, <1>9, DoneSound

-----------------------------------------------------------------------------
(* Gold.                                                                   *)

(* The keeper alone,                                                       *)
LEMMA QuietKeeper ==
  ASSUME NEW w \in Worlds, NEW s, BillKept(w.shk, s)
  PROVE  Quiet(w, [w EXCEPT !.shk = s])
<1>1. w.umoney \in Nat /\ w.till \in Nat
  BY WorldParts
<1>2. [w EXCEPT !.shk = s] = With(w, s, w.umoney, w.till)
  BY DEF With, Worlds
<1> QED BY <1>1, <1>2, QuietMoney

(* or the gold alone.                                                      *)
LEMMA QuietPurse ==
  ASSUME NEW w \in Worlds, NEW m \in Nat, NEW t \in Nat
  PROVE  Quiet(w, [w EXCEPT !.umoney = m, !.till = t]) /\ [w EXCEPT !.umoney = m, !.till = t].shk = w.shk
<1>1. BillKept(w.shk, w.shk)
  BY WorldParts DEF BillKept
<1>2. [w EXCEPT !.umoney = m, !.till = t] = With(w, w.shk, m, t)
  BY DEF With, Worlds
<1> QED BY <1>1, <1>2, QuietMoney

(* Looking him up costs nothing.                                           *)
LEMMA LookMoney ==
  ASSUME NEW w \in Worlds
  PROVE  /\ shop_keeper(w).umoney = w.umoney /\ shop_keeper(w).till = w.till
         /\ rouse_shk(shop_keeper(w)).umoney = w.umoney /\ rouse_shk(shop_keeper(w)).till = w.till
<1>1. shop_keeper(w).umoney = w.umoney /\ shop_keeper(w).till = w.till
  BY WorldParts DEF shop_keeper, pacify_shk, rile_shk, Worlds
<1>2. shop_keeper(w) \in Worlds
  BY QuietLook DEF Quiet
<1> QED BY <1>1, <1>2 DEF rouse_shk, Worlds

(* sellobj of gold: the loan is paid back before the rest of the debt.     *)
LEMMA DropGoldWell ==
  ASSUME Well(World, pos), NEW amount, DropGold(amount)
  PROVE  Well(World, pos)'
<1> DEFINE v == rouse_shk(shop_keeper(World))
           w == [v EXCEPT !.umoney = v.umoney - amount, !.till = v.till + amount]
           z == [World EXCEPT !.umoney = World.umoney - amount, !.till = World.till + amount]
           r == [w EXCEPT !.shk.robbed = 0]
           d == [w EXCEPT !.shk.debit = w.shk.debit - amount,
                          !.shk.loan = IF w.shk.loan >= amount THEN w.shk.loan - amount ELSE 0]
           c == [w EXCEPT !.shk.credit = w.shk.credit + amount - v.shk.debit, !.shk.debit = 0,
                          !.shk.loan = IF v.shk.debit > 0 THEN 0 ELSE w.shk.loan]
<1>1. /\ amount \in 1 .. umoney /\ pos' = pos
      /\ Become(IF ~tended(World) THEN z
                ELSE IF ~v.shk.peaceful THEN w
                ELSE IF v.shk.robbed > 0 THEN r
                ELSE IF v.shk.debit >= amount THEN d ELSE c)
  BY DEF DropGold, Stays
<1>2. World \in Worlds /\ World.umoney = umoney /\ Good(World)
  BY WorldNow DEF Good
<1>3. World.umoney \in Nat /\ World.till \in Nat /\ amount \in Nat /\ World.umoney - amount \in Nat /\ World.till + amount \in Nat
  BY <1>1, <1>2, WorldParts
<1>4. Quiet(World, v) /\ v.umoney = World.umoney /\ v.till = World.till
  BY <1>2, LookMoney, QuietLookRouse
<1> HIDE DEF v
<1>5. v \in Worlds
  BY <1>4 DEF Quiet
<1>6. Quiet(World, z)
  BY <1>2, <1>3, QuietPurse
<1> HIDE DEF z
<1>7. Quiet(v, w) /\ w.shk = v.shk
  <2>1. v.umoney - amount \in Nat /\ v.till + amount \in Nat
    BY <1>3, <1>4
  <2> QED BY <1>5, <2>1, QuietPurse
<1> HIDE DEF w
<1>8. w \in Worlds /\ Quiet(World, w)
  BY <1>4, <1>7, QuietTrans DEF Quiet
<1>9. w.shk \in Keepers /\ w.shk.debit \in Nat /\ w.shk.loan \in Nat /\ w.shk.credit \in Nat
  BY <1>8, WorldParts
<1>10. Quiet(World, r)
  <2>1. 0 \in Nat
    OBVIOUS
  <2>2. Quiet(w, r)
    BY <1>8, <2>1, QuietRobbed
  <2> HIDE DEF r
  <2> QED BY <1>8, <2>2, QuietTrans
<1>11. v.shk.debit >= amount => Quiet(World, d)
  <2> SUFFICES ASSUME w.shk.debit >= amount PROVE Quiet(World, d)
    BY <1>7
  <2> DEFINE n == w.shk.debit - amount
             l == IF w.shk.loan >= amount THEN w.shk.loan - amount ELSE 0
             s == [w.shk EXCEPT !.debit = n, !.loan = l]
  <2>1. n \in Nat /\ l \in Nat /\ (w.shk.loan <= w.shk.debit => l <= n)
    BY <1>3, <1>9
  <2>2. d = [w EXCEPT !.shk.debit = n, !.shk.loan = l]
    OBVIOUS
  <2> HIDE DEF n, l, d
  <2>3. d = [w EXCEPT !.shk = s]
    BY <1>8, <2>2 DEF Worlds
  <2>4. BillKept(w.shk, s)
    BY <1>9, <2>1 DEF BillKept, Keepers
  <2> HIDE DEF s
  <2>5. Quiet(w, d)
    BY <1>8, <2>3, <2>4, QuietKeeper
  <2> QED BY <1>8, <2>5, QuietTrans
<1>12. ~(v.shk.debit >= amount) => Quiet(World, c)
  <2> SUFFICES ASSUME ~(w.shk.debit >= amount) PROVE Quiet(World, c)
    BY <1>7
  <2> DEFINE n == w.shk.credit + amount - v.shk.debit
             l == IF v.shk.debit > 0 THEN 0 ELSE w.shk.loan
             s == [w.shk EXCEPT !.credit = n, !.debit = 0, !.loan = l]
  <2>1. n \in Nat /\ l \in Nat /\ (w.shk.loan <= w.shk.debit => l <= 0)
    BY <1>3, <1>7, <1>9
  <2>2. c = [w EXCEPT !.shk.credit = n, !.shk.debit = 0, !.shk.loan = l]
    OBVIOUS
  <2> HIDE DEF n, l, c
  <2>3. c = [w EXCEPT !.shk = s]
    BY <1>8, <2>2 DEF Worlds
  <2>4. BillKept(w.shk, s)
    BY <1>9, <2>1 DEF BillKept, Keepers
  <2> HIDE DEF s
  <2>5. Quiet(w, c)
    BY <1>8, <2>3, <2>4, QuietKeeper
  <2> QED BY <1>8, <2>5, QuietTrans
<1> HIDE DEF r, d, c
<1> QED BY <1>1, <1>6, <1>8, <1>10, <1>11, <1>12, DoneQuiet

(* costly_gold: the loan is part of the debit.                             *)
LEMMA QuietGoldTaken ==
  ASSUME NEW w \in Worlds, NEW a \in Nat
  PROVE  Quiet(w, costly_gold(w, a))
<1> DEFINE s == shop_keeper(w)
           l == check_credit(s, a).left
           c == check_credit(s, a).world
           d == c.shk.debit + l
           n == c.shk.loan + l
           k == [c.shk EXCEPT !.debit = d, !.loan = n]
<1>1. costly_gold(w, a) = [c EXCEPT !.shk.debit = c.shk.debit + l, !.shk.loan = c.shk.loan + l]
  BY DEF costly_gold
<1>2. Quiet(w, s)
  BY QuietLook
<1> HIDE DEF s
<1>3. s \in Worlds
  BY <1>2 DEF Quiet
<1>4. Quiet(s, c) /\ l \in Nat
  BY <1>3, QuietCredit
<1> HIDE DEF c, l
<1>5. c \in Worlds /\ Quiet(w, c)
  BY <1>2, <1>4, QuietTrans DEF Quiet
<1>6. c.shk \in Keepers /\ d \in Nat /\ n \in Nat /\ (c.shk.loan <= c.shk.debit => n <= d)
  BY <1>4, <1>5, WorldParts
<1>7. costly_gold(w, a) = [c EXCEPT !.shk.debit = d, !.shk.loan = n]
  BY <1>1
<1> HIDE DEF d, n
<1>8. costly_gold(w, a) = [c EXCEPT !.shk = k]
  BY <1>5, <1>7 DEF Worlds
<1>9. BillKept(c.shk, k)
  BY <1>6 DEF BillKept, Keepers
<1> HIDE DEF k
<1>10. Quiet(c, costly_gold(w, a))
  BY <1>5, <1>8, <1>9, QuietKeeper
<1> QED BY <1>5, <1>10, QuietTrans

(* Gold is picked up from the floor of the shop.                           *)
LEMMA PickGoldWell ==
  ASSUME Well(World, pos), NEW amount, PickGold(amount)
  PROVE  Well(World, pos)'
<1> DEFINE w == [World EXCEPT !.umoney = World.umoney + amount, !.till = World.till - amount]
           c == costly_gold(w, amount)
           b == remote_burglary(c)
<1>1. /\ amount \in 1 .. till /\ pos' = pos
      /\ Become(IF ~inhishop(w) THEN w ELSE IF ushops THEN c ELSE b)
  BY DEF PickGold, Stays
<1>2. World \in Worlds /\ World.till = till /\ Good(World)
  BY WorldNow DEF Good
<1>3. amount \in Nat /\ World.umoney + amount \in Nat /\ World.till - amount \in Nat
  BY <1>1, <1>2, WorldParts
<1>4. Quiet(World, w)
  BY <1>2, <1>3, QuietPurse
<1> HIDE DEF w
<1>5. w \in Worlds
  BY <1>4 DEF Quiet
<1>6. Quiet(w, c)
  BY <1>3, <1>5, QuietGoldTaken
<1> HIDE DEF c
<1>7. Quiet(World, c)
  BY <1>4, <1>6, QuietTrans
<1>8. Sound(World, w) /\ Sound(World, c)
  BY <1>2, <1>4, <1>7, SoundQuiet
<1>9. inhishop(w) => Sound(World, b)
  <2> SUFFICES ASSUME inhishop(w) PROVE Sound(World, b)
    OBVIOUS
  <2>1. inhishop(c) /\ Good(c)
    BY <1>6, <1>8 DEF Quiet, inhishop, Sound
  <2>2. Sound(c, b)
    BY <2>1, RemoteCleared, ClearedSound
  <2> HIDE DEF b
  <2> QED BY <1>8, <2>2, SoundTrans
<1> HIDE DEF b
<1> QED BY <1>1, <1>8, <1>9, DoneSound

(* ghitm: gold thrown at the shopkeeper.                                   *)
LEMMA ThrowGoldWell ==
  ASSUME Well(World, pos), NEW amount, NEW annoys \in BOOLEAN, ThrowGold(amount, annoys)
  PROVE  Well(World, pos)'
<1> DEFINE w == [World EXCEPT !.umoney = World.umoney - amount, !.shk.gold = World.shk.gold + amount,
                              !.shk.peaceful = World.shk.peaceful /\ ~annoys]
           r == [w EXCEPT !.shk.robbed = w.shk.robbed - amount]
           z == [w EXCEPT !.shk.robbed = 0]
           h == make_happy_shk(z)
           c == [w EXCEPT !.shk.credit = w.shk.credit + amount]
<1>1. /\ amount \in 1 .. umoney /\ shk.at # "dead" /\ pos' = pos
      /\ Become(IF shk.robbed > amount THEN r ELSE IF shk.robbed > 0 THEN h ELSE IF w.shk.peaceful THEN c ELSE w)
  BY DEF ThrowGold, Stays
<1>2. World \in Worlds /\ World.umoney = umoney /\ World.shk = shk /\ Good(World)
  BY WorldNow DEF Good
<1>3. amount \in Nat /\ World.umoney - amount \in Nat /\ World.shk.gold + amount \in Nat /\ World.shk \in Keepers
  BY <1>1, <1>2, WorldParts
<1>4. Quiet(World, w) /\ w.shk.robbed = shk.robbed
  <2> DEFINE m == World.umoney - amount
             g == World.shk.gold + amount
             p == World.shk.peaceful /\ ~annoys
             s == [World.shk EXCEPT !.gold = g, !.peaceful = p]
  <2>1. m \in Nat /\ g \in Nat /\ p \in BOOLEAN /\ World.till \in Nat
    BY <1>2, <1>3, WorldParts
  <2>2. w = [World EXCEPT !.umoney = m, !.shk.gold = g, !.shk.peaceful = p]
    OBVIOUS
  <2> HIDE DEF m, g, p, w
  <2>3. w = With(World, s, m, World.till)
    BY <1>2, <2>2 DEF With, Worlds
  <2>4. BillKept(World.shk, s) /\ s.robbed = World.shk.robbed
    BY <1>3, <2>1 DEF BillKept, Keepers
  <2> HIDE DEF s
  <2>5. Quiet(World, w) /\ w.shk = s
    BY <1>2, <2>1, <2>3, <2>4, QuietMoney
  <2> QED BY <1>2, <2>4, <2>5
<1> HIDE DEF w
<1>5. w \in Worlds /\ w.shk.at = shk.at
  BY <1>2, <1>4 DEF Quiet
<1>6. Well(w, pos)
  BY <1>2, <1>4, SoundQuiet, WellSound
<1>7. w.shk.robbed \in Nat /\ w.shk.credit \in Nat /\ 0 \in Nat /\ w.shk \in Keepers
  BY <1>5, WorldParts
<1>8. shk.robbed > amount => Quiet(World, r)
  <2> SUFFICES ASSUME w.shk.robbed > amount PROVE Quiet(World, r)
    BY <1>4
  <2> DEFINE n == w.shk.robbed - amount
  <2>1. n \in Nat
    BY <1>3, <1>7
  <2> HIDE DEF n
  <2>2. Quiet(w, [w EXCEPT !.shk.robbed = n])
    BY <1>5, <2>1, QuietRobbed
  <2>3. Quiet(World, [w EXCEPT !.shk.robbed = n])
    BY <1>4, <2>2, QuietTrans
  <2> QED BY <2>3 DEF n
<1> HIDE DEF r
<1>9. Well(h, pos)
  <2>1. Quiet(w, z)
    BY <1>5, <1>7, QuietRobbed
  <2> HIDE DEF z
  <2>2. Good(w)
    BY <1>6 DEF Well, Fine
  <2>3. Well(z, pos)
    BY <1>6, <2>1, <2>2, SoundQuiet, WellSound
  <2>4. z.shk.at # "dead"
    BY <1>1, <1>5, <2>1 DEF Quiet
  <2> QED BY <2>3, <2>4, HappyFine DEF Well
<1> HIDE DEF h
<1>10. Quiet(World, c)
  <2> DEFINE n == w.shk.credit + amount
             s == [w.shk EXCEPT !.credit = n]
  <2>1. n \in Nat
    BY <1>3, <1>7
  <2>2. c = [w EXCEPT !.shk.credit = n]
    OBVIOUS
  <2> HIDE DEF n, c
  <2>3. c = [w EXCEPT !.shk = s]
    BY <1>5, <2>2 DEF Worlds
  <2>4. BillKept(w.shk, s)
    BY <1>7, <2>1 DEF BillKept, Keepers
  <2> HIDE DEF s
  <2>5. Quiet(w, c)
    BY <1>5, <2>3, <2>4, QuietKeeper
  <2> QED BY <1>4, <2>5, QuietTrans
<1> HIDE DEF c
<1>11. CASE ~(shk.robbed > amount) /\ shk.robbed > 0
  <2>1. Become(h)
    BY <1>1, <1>11
  <2> QED BY <1>1, <1>9, <2>1, DoneWell
<1>12. CASE ~(~(shk.robbed > amount) /\ shk.robbed > 0)
  <2>1. (shk.robbed > amount /\ Become(r)) \/ Become(c) \/ Become(w)
    BY <1>1, <1>12
  <2> QED BY <1>1, <1>4, <1>8, <1>10, <2>1, DoneQuiet
<1> QED BY <1>11, <1>12

(* What is quiet keeps the world well.                                     *)
LEMMA WellQuiet ==
  ASSUME NEW w, NEW v, NEW p, Well(w, p), Quiet(w, v)
  PROVE  Well(v, p) /\ v \in Worlds /\ Good(v) /\ v.shk.at = w.shk.at
<1>1. Good(w)
  BY DEF Well, Fine
<1>2. Sound(w, v)
  BY <1>1, SoundQuiet
<1>3. Well(v, p)
  BY <1>2, WellSound
<1> QED BY <1>2, <1>3 DEF Quiet, Sound

(* pay_for_damage.                                                         *)
LEMMA PayForDamageWell ==
  ASSUME Well(World, pos), NEW answer, PayForDamage(answer)
  PROVE  Well(World, pos)'
<1> DEFINE v == shop_keeper(World)
           c == check_credit(v, Fee).world
           l == check_credit(v, Fee).left
           m == money2mon(c, l)
           h == home_shk(m)
           p == pacify_shk(h)
           q == hot_pursuit(v)
           b == ~v.shk.peaceful \/ v.shk.following \/ v.umoney + v.shk.credit < Fee \/ answer = "no"
<1>1. tended(World) /\ pos' = pos /\ Become(IF b THEN q ELSE p)
  BY DEF PayForDamage, Stays
<1>2. World \in Worlds /\ World.shk.at = "shop"
  BY <1>1, WorldNow DEF Good, tended, inhishop
<1>3. Quiet(World, v)
  BY <1>2, QuietLook
<1> HIDE DEF v, b
<1>4. v \in Worlds /\ Well(v, pos) /\ v.shk.at = "shop"
  BY <1>2, <1>3, WellQuiet
<1>5. Well(q, pos)
  BY <1>4, QuietMoods, WellQuiet
<1> HIDE DEF q
<1>6. Quiet(v, c) /\ l \in Nat
  BY <1>4, FeesAreNatural, QuietCredit
<1> HIDE DEF c, l
<1>7. c \in Worlds /\ Well(c, pos) /\ c.shk.at = "shop"
  BY <1>4, <1>6, WellQuiet
<1>8. Quiet(c, m)
  BY <1>6, <1>7, QuietHands
<1> HIDE DEF m
<1>9. Well(m, pos) /\ m.shk.at # "dead"
  BY <1>7, <1>8, WellQuiet
<1>10. Well(h, pos)
  BY <1>9, HomeFine DEF Well
<1> HIDE DEF h
<1>11. h \in Worlds
  BY <1>10 DEF Well, Fine, Good
<1>12. Quiet(h, p)
  BY <1>11, QuietPacify
<1> HIDE DEF p
<1>13. Well(p, pos)
  BY <1>10, <1>12, WellQuiet
<1> QED BY <1>1, <1>5, <1>13, DoneWell

(* What becomes of the shopkeeper, one deed after the other.               *)
LEMMA AttackWell ==
  ASSUME Well(World, pos), Attack
  PROVE  Well(World, pos)'
<1> DEFINE v == [World EXCEPT !.shk.peaceful = FALSE]
           s == [World.shk EXCEPT !.peaceful = FALSE]
<1>1. pos' = pos /\ Become(v)
  BY DEF Attack, Stays
<1>2. World \in Worlds /\ World.shk \in Keepers
  BY WorldNow, WorldParts DEF Good
<1>3. v = [World EXCEPT !.shk = s]
  BY <1>2 DEF Worlds
<1> HIDE DEF v
<1>4. BillKept(World.shk, s)
  BY <1>2 DEF BillKept, Keepers
<1> HIDE DEF s
<1>5. Quiet(World, v)
  BY <1>2, <1>3, <1>4, QuietKeeper
<1> QED BY <1>1, <1>5, DoneQuiet

(* He falls asleep.                                                        *)
LEMMA FallsAsleepWell ==
  ASSUME Well(World, pos), FallsAsleep
  PROVE  Well(World, pos)'
<1> DEFINE v == [World EXCEPT !.shk.awake = FALSE]
           s == [World.shk EXCEPT !.awake = FALSE]
<1>1. pos' = pos /\ Become(v)
  BY DEF FallsAsleep, Stays
<1>2. World \in Worlds /\ World.shk \in Keepers
  BY WorldNow, WorldParts DEF Good
<1>3. v = [World EXCEPT !.shk = s]
  BY <1>2 DEF Worlds
<1> HIDE DEF v
<1>4. BillKept(World.shk, s)
  BY <1>2 DEF BillKept, Keepers
<1> HIDE DEF s
<1>5. Quiet(World, v)
  BY <1>2, <1>3, <1>4, QuietKeeper
<1> QED BY <1>1, <1>5, DoneQuiet

(* He wakes up.                                                            *)
LEMMA WakesUpWell ==
  ASSUME Well(World, pos), WakesUp
  PROVE  Well(World, pos)'
<1>1. pos' = pos /\ Become(rouse_shk(World))
  BY DEF WakesUp, Stays
<1>2. World \in Worlds
  BY WorldNow DEF Good
<1>3. Quiet(World, rouse_shk(World))
  BY <1>2, QuietMoods
<1> QED BY <1>1, <1>3, DoneQuiet

(* make_happy_shk.                                                         *)
LEMMA AppeasedWell ==
  ASSUME Well(World, pos), Appeased
  PROVE  Well(World, pos)'
<1>1. pos' = pos /\ Become(make_happy_shk(World)) /\ shk.at # "dead"
  BY DEF Appeased, Stays
<1>2. Well(make_happy_shk(World), pos)
  BY <1>1, WorldNow, HappyFine DEF Well
<1> QED BY <1>1, <1>2, DoneWell

(* He is sent away: the bill is cleared before he goes.                    *)
LEMMA SentAwayWell ==
  ASSUME Well(World, pos), SentAway
  PROVE  Well(World, pos)'
<1> DEFINE w == [World EXCEPT !.shk.at = "out"]
           v == make_angry_shk(w)
<1>1. inhishop(World) /\ pos' = pos /\ Become(v)
  BY DEF SentAway, Stays
<1>2. Good(World) /\ Watched(World, pos)
  BY WorldNow
<1>3. Good(w) /\ w.shk.at = "out" /\ w.ushops = World.ushops
  <2>1. \A a \in {"shop", "out", "dead"} : LET u == [World EXCEPT !.shk.at = a] IN
          Good(u) /\ u.shk.at = a /\ u.ushops = World.ushops
    BY <1>2, AtWhereGood
  <2> QED BY <2>1
<1> HIDE DEF w
<1>4. Cleared(w, v)
  BY <1>3, AngryCleared
<1> HIDE DEF v
<1>5. Good(v) /\ v.shk.bill = <<>> /\ v.ushops = World.ushops
  BY <1>3, <1>4 DEF Cleared, Frame
<1>6. InRoom(pos) => v.ushops
  BY <1>1, <1>2, <1>5 DEF Watched, inhishop
<1>7. Well(v, pos)
  BY <1>5, <1>6 DEF Well, Fine, Inside, Watched
<1> QED BY <1>1, <1>7, DoneWell

(* He leaves to follow, with an empty bill.                                *)
LEMMA FollowsWell ==
  ASSUME Well(World, pos), Follows
  PROVE  Well(World, pos)'
<1> DEFINE w == [World EXCEPT !.shk.at = "out"]
<1>1. World.shk.bill = <<>> /\ pos = "out" /\ pos' = pos /\ Become(w)
  BY WorldNow DEF Follows, Stays
<1>2. Good(World)
  BY WorldNow
<1>3. Good(w) /\ w.shk.bill = <<>>
  <2>1. \A a \in {"shop", "out", "dead"} : LET u == [World EXCEPT !.shk.at = a] IN
          Good(u) /\ u.shk.bill = World.shk.bill
    BY <1>2, AtWhereGood
  <2> QED BY <1>1, <2>1
<1> HIDE DEF w
<1>4. Well(w, pos)
  BY <1>1, <1>3 DEF Well, Fine, Inside, Watched, InRoom
<1> QED BY <1>1, <1>4, DoneWell

(* He comes back and looks who is there.                                   *)
LEMMA ComesBackWell ==
  ASSUME Well(World, pos), ComesBack
  PROVE  Well(World, pos)'
<1> DEFINE w == [World EXCEPT !.shk.at = "shop"]
           c == check_special_room(w, pos, pos)
           v == after_shk_move(c)
<1>1. World.shk.at = "out" /\ pos' = pos /\ Become(v)
  BY WorldNow DEF ComesBack, Stays
<1>2. Good(World) /\ World.shk.bill = <<>>
  BY <1>1, WorldNow DEF Inside
<1>3. Good(w) /\ w.shk.bill = <<>> /\ w.shk.at = "shop"
  <2>1. \A a \in {"shop", "out", "dead"} : LET u == [World EXCEPT !.shk.at = a] IN
          Good(u) /\ u.shk.bill = World.shk.bill /\ u.shk.at = a
    BY <1>2, AtWhereGood
  <2> QED BY <1>2, <2>1
<1> HIDE DEF w
<1>4. Fine(w)
  BY <1>3 DEF Fine, Inside
<1>5. Fine(c) /\ Watched(c, pos) /\ c.shk.at = "shop"
  BY <1>3, <1>4, CheckRoom
<1> HIDE DEF c
<1>6. Well(v, pos)
  BY <1>5, AfterMove DEF Well
<1> QED BY <1>1, <1>6, DoneWell

(* An empty bill has no entries.                                           *)
LEMMA LofNone == Lof(<<>>) = {}
  BY DEF Lof

(* A world without a bill and without unpaid goods is good.                *)
LEMMA ClearGood ==
  ASSUME NEW w \in Worlds, w.shk.bill = <<>>, w.shk.loan <= w.shk.debit,
         \A o \in Obj : Formed(w.obj[o]) /\ ~w.obj[o].unpaid /\ w.obj[o].where # "onbill"
  PROVE  Good(w)
<1>1. w.obj \in [Obj -> Struct] /\ w.shk.bill \in Seq(Lines)
  BY WorldParts
<1>2. Lof(w.shk.bill) = {} /\ DOMAIN w.shk.bill = {}
  BY DEF Lof
<1>3. Match(w.obj, Lof(w.shk.bill))
  BY <1>1, <1>2 DEF Match
<1>4. Distinct(w.shk.bill) /\ Priced(w)
  BY <1>2 DEF Distinct, Priced
<1> QED BY <1>1, <1>3, <1>4 DEF Good, Agreed, Lent

(* A dead shopkeeper has no bill.                                          *)
LEMMA NoShkKnown ==
  NoShk \in Keepers /\ NoShk.bill = <<>> /\ NoShk.loan <= NoShk.debit /\ NoShk.at = "dead" /\ <<>> \in Seq(Lines)
  BY DEF NoShk, Keepers

(* He dies: what was on the bill is paid if the hero was in the shop, and  *)
(* if not there was no bill.                                               *)
LEMMA DiesWell ==
  ASSUME Well(World, pos), Dies
  PROVE  Well(World, pos)'
<1> DEFINE there == IF inhishop(World) THEN "shelf" ELSE "street"
           f == [o \in Obj |-> IF World.obj[o].where = "kept" THEN [World.obj[o] EXCEPT !.where = there] ELSE World.obj[o]]
           g == [o \in Obj |-> [f[o] EXCEPT !.no_charge = FALSE]]
           t == IF inhishop(World) THEN World.till + shk.gold ELSE World.till
           left  == [World EXCEPT !.obj = f, !.till = t, !.shk.gold = 0]
           freed == [left EXCEPT !.obj = g]
           w == IF ushops THEN [setpaid(freed) EXCEPT !.ushops = FALSE] ELSE freed
           v == [w EXCEPT !.shk = NoShk]
<1>1. /\ pos' = pos
      /\ Become([(IF ushops THEN [setpaid([left EXCEPT !.obj = [o \in Obj |-> [left.obj[o] EXCEPT !.no_charge = FALSE]]])
                                   EXCEPT !.ushops = FALSE]
                  ELSE [left EXCEPT !.obj = [o \in Obj |-> [left.obj[o] EXCEPT !.no_charge = FALSE]]]) EXCEPT !.shk = NoShk])
  BY DEF Dies, Stays
<1>2. Good(World) /\ World \in Worlds /\ Inside(World) /\ World.obj = obj /\ World.ushops = ushops /\ World.shk = shk
  BY WorldNow DEF Good
<1>3. World.obj \in [Obj -> Struct] /\ World.till \in Nat /\ shk.gold \in Nat /\ shk \in Keepers /\ ushops \in BOOLEAN
      /\ \A o \in Obj : obj[o] \in Struct /\ Formed(obj[o])
  BY <1>2, WorldParts, GoodParts
<1>4. there \in Places /\ there \notin {"none", "onbill", "kept"} /\ t \in Nat
  BY <1>3 DEF Places
<1>5. left = [World EXCEPT !.obj = f, !.till = t, !.shk = [shk EXCEPT !.gold = 0]]
  BY <1>2 DEF Worlds
<1> HIDE DEF there, t
<1>6. ASSUME NEW o \in Obj
      PROVE  /\ f[o] \in Struct /\ Formed(f[o]) /\ f[o].unpaid = obj[o].unpaid
             /\ g[o] \in Struct /\ Formed(g[o]) /\ g[o].unpaid = obj[o].unpaid
             /\ g[o].where = "onbill" => obj[o].where = "onbill"
  <2>1. obj[o] \in Struct /\ Formed(obj[o]) /\ FALSE \in BOOLEAN
    BY <1>3
  <2>2. /\ f[o] \in Struct /\ Formed(f[o]) /\ f[o].unpaid = obj[o].unpaid
        /\ f[o].where = "onbill" => obj[o].where = "onbill"
    <3>1. CASE obj[o].where = "kept"
      <4>1. f[o] = [obj[o] EXCEPT !.where = there]
        BY <1>2, <3>1
      <4> QED BY <1>4, <2>1, <3>1, <4>1 DEF Struct, Formed
    <3>2. CASE obj[o].where # "kept"
      <4>1. f[o] = obj[o]
        BY <1>2, <3>2
      <4> QED BY <2>1, <4>1
    <3> QED BY <3>1, <3>2
  <2>3. g[o] = [f[o] EXCEPT !.no_charge = FALSE]
    OBVIOUS
  <2> HIDE DEF f, g
  <2>4. g[o] \in Struct /\ g[o].where = f[o].where /\ g[o].quan = f[o].quan /\ g[o].unpaid = f[o].unpaid /\ g[o].no_charge = FALSE
    BY <2>1, <2>2, <2>3 DEF Struct
  <2>5. g[o].where = "none" => g[o] = NoObj
    <3> SUFFICES ASSUME g[o].where = "none" PROVE g[o] = NoObj
      OBVIOUS
    <3>1. f[o] = NoObj
      BY <2>2, <2>4 DEF Formed
    <3>2. [NoObj EXCEPT !.no_charge = FALSE] = NoObj
      <4>1. NoObj \in Struct
        BY BlankForm
      <4>2. NoObj.no_charge = FALSE
        BY DEF NoObj
      <4> QED BY <4>1, <4>2 DEF Struct
    <3> QED BY <2>3, <3>1, <3>2
  <2> QED BY <2>2, <2>4, <2>5 DEF Formed
<1>7. f \in [Obj -> Struct] /\ g \in [Obj -> Struct]
  BY <1>6
<1>8. [left EXCEPT !.obj = [o \in Obj |-> [left.obj[o] EXCEPT !.no_charge = FALSE]]] = freed
  <2>1. left.obj = f
    BY <1>2, <1>5 DEF Worlds
  <2> HIDE DEF left, f
  <2> QED BY <2>1
<1> HIDE DEF f, g, left
<1>9. freed \in Worlds /\ freed.obj = g /\ freed.ushops = ushops
  <2>1. [shk EXCEPT !.gold = 0] \in Keepers
    BY <1>3 DEF Keepers
  <2>2. left \in Worlds /\ left.ushops = ushops
    BY <1>2, <1>4, <1>5, <1>7, <2>1 DEF Worlds
  <2> QED BY <1>7, <2>2 DEF Worlds
<1> HIDE DEF freed
<1>10. w \in Worlds /\ \A o \in Obj : Formed(w.obj[o]) /\ ~w.obj[o].unpaid /\ w.obj[o].where # "onbill"
  <2>1. CASE ushops
    <3> DEFINE u == setpaid(freed)
    <3>1. Cleared(freed, u)
      BY <1>6, <1>9, SetpaidCleared
    <3> HIDE DEF u
    <3>2. Good(u) /\ u.shk.bill = <<>>
      BY <3>1 DEF Cleared
    <3>3. \A o \in Obj : Formed(u.obj[o]) /\ ~u.obj[o].unpaid /\ u.obj[o].where # "onbill"
      <4>1. Match(u.obj, Lof(u.shk.bill)) /\ Lof(u.shk.bill) = {}
        BY <3>2, GoodParts, LofNone
      <4> QED BY <4>1 DEF Match
    <3>4. w = [u EXCEPT !.ushops = FALSE]
      BY <2>1 DEF u
    <3>5. u \in Worlds
      BY <3>2 DEF Good
    <3> HIDE DEF w
    <3> QED BY <3>3, <3>4, <3>5 DEF Worlds
  <2>2. CASE ~ushops
    <3>1. World.shk.bill = <<>>
      BY <1>2, <2>2 DEF Inside
    <3>2. \A o \in Obj : ~obj[o].unpaid /\ obj[o].where # "onbill"
      <4>1. Match(World.obj, Lof(World.shk.bill)) /\ Lof(World.shk.bill) = {}
        BY <1>2, <3>1, GoodParts, LofNone
      <4> QED BY <1>2, <4>1 DEF Match
    <3>3. w = freed
      BY <2>2
    <3> HIDE DEF w
    <3> QED BY <1>6, <1>9, <3>2, <3>3
  <2> QED BY <2>1, <2>2
<1>11. Become(v)
  BY <1>1, <1>8
<1> HIDE DEF w
<1>12. v \in Worlds /\ v.obj = w.obj /\ v.shk = NoShk
  BY <1>10, NoShkKnown DEF Worlds
<1> HIDE DEF v
<1>13. Good(v)
  BY <1>10, <1>12, NoShkKnown, ClearGood
<1>14. Well(v, pos)
  BY <1>12, <1>13, NoShkKnown DEF Well, Fine, Inside, Watched
<1> QED BY ONLY <1>1, <1>11, <1>14, DoneWell

-----------------------------------------------------------------------------
(* dopay, before the bill.                                                 *)

(* The debt goes, and the loan with it.                                    *)
LEMMA QuietPayDebt ==
  ASSUME NEW w \in Worlds
  PROVE  Quiet(w, PayDebt(w))
<1> DEFINE a == w.shk.debit
           c == check_credit(w, a).world
           l == check_credit(w, a).left
           m == money2mon(c, l)
           d == [m EXCEPT !.shk.debit = 0, !.shk.loan = 0]
           s == [m.shk EXCEPT !.debit = 0, !.loan = 0]
<1>1. PayDebt(w) = IF w.shk.debit = 0 THEN w ELSE d
  BY DEF PayDebt
<1>2. a \in Nat /\ Quiet(w, w)
  BY WorldParts, QuietSelf
<1> HIDE DEF a
<1>3. Quiet(w, c) /\ l \in Nat
  BY <1>2, QuietCredit
<1> HIDE DEF c, l
<1>4. c \in Worlds
  BY <1>3 DEF Quiet
<1>5. Quiet(c, m)
  BY <1>3, <1>4, QuietHands
<1> HIDE DEF m
<1>6. m \in Worlds /\ Quiet(w, m) /\ m.shk \in Keepers
  BY <1>3, <1>5, QuietTrans, WorldParts DEF Quiet
<1>7. d = [m EXCEPT !.shk = s]
  BY <1>6 DEF Worlds
<1> HIDE DEF d
<1>8. BillKept(m.shk, s)
  <2>1. s \in Keepers
    BY <1>6 DEF Keepers
  <2>2. s.at = m.shk.at /\ s.bill_p = m.shk.bill_p /\ s.bill = m.shk.bill /\ s.surcharge = m.shk.surcharge
        /\ s.loan = 0 /\ s.debit = 0
    BY <1>6 DEF Keepers
  <2> HIDE DEF s
  <2>3. s.loan <= s.debit
    BY <2>2
  <2> QED BY <2>1, <2>2, <2>3 DEF BillKept
<1> HIDE DEF s
<1>9. Quiet(w, d)
  BY <1>6, <1>7, <1>8, QuietKeeper, QuietTrans
<1> QED BY <1>1, <1>2, <1>9

(* What was stolen is paid back, or he is calmed.                          *)
LEMMA PayRobberyWell ==
  ASSUME NEW w, Well(w, pos), w.shk.at # "dead", NEW calmed
  PROVE  Well(PayRobbery(w, calmed), pos)
<1> DEFINE amount == IF w.shk.robbed > 0 THEN Min({w.umoney, w.shk.robbed}) ELSE Appease
           p == pay(w, amount)
           h == make_happy_shk(p)
<1>1. PayRobbery(w, calmed) \in {w, p, h}
  BY DEF PayRobbery
<1>2. w \in Worlds
  BY DEF Well, Fine, Good
<1>3. amount \in Nat
  <2>1. w.umoney \in Nat /\ w.shk.robbed \in Nat
    BY <1>2, WorldParts
  <2>2. Min({w.umoney, w.shk.robbed}) \in Nat
    BY <2>1, MinOfTwo
  <2> QED BY <2>2, FeesAreNatural
<1> HIDE DEF amount
<1>4. Quiet(w, p)
  BY <1>2, <1>3, QuietPay
<1> HIDE DEF p
<1>5. Well(p, pos) /\ p.shk.at # "dead"
  BY <1>4, WellQuiet
<1>6. Well(h, pos)
  BY <1>5, HappyFine DEF Well
<1> HIDE DEF h
<1> QED BY <1>1, <1>5, <1>6

(* He takes anything away from his shop.                                   *)
LEMMA PayAwayWell ==
  ASSUME NEW w, Well(w, pos), w.shk.at # "dead"
  PROVE  Well(PayAway(w), pos)
<1> DEFINE amount == Min({w.umoney, w.shk.robbed})
           p == pay(w, amount)
           h == make_happy_shk(p)
<1>1. PayAway(w) \in {w, p, h}
  BY DEF PayAway
<1>2. w \in Worlds
  BY DEF Well, Fine, Good
<1>3. amount \in Nat
  <2>1. w.umoney \in Nat /\ w.shk.robbed \in Nat
    BY <1>2, WorldParts
  <2> QED BY <2>1, MinOfTwo
<1> HIDE DEF amount
<1>4. Quiet(w, p)
  BY <1>2, <1>3, QuietPay
<1> HIDE DEF p
<1>5. Well(p, pos) /\ p.shk.at # "dead"
  BY <1>4, WellQuiet
<1>6. Well(h, pos)
  BY <1>5, HappyFine DEF Well
<1> HIDE DEF h
<1> QED BY <1>1, <1>5, <1>6

-----------------------------------------------------------------------------
(* An entry is paid for.                                                   *)

(* What Good says of the entry i.                                          *)
LEMMA LineIs ==
  ASSUME NEW w, Good(w), NEW i \in DOMAIN w.shk.bill
  PROVE  /\ w.shk.bill[i] \in Lines /\ w.shk.bill[i] \in Lof(w.shk.bill) /\ w.shk.bill[i].price = get_cost(w)
         /\ w.shk.bill[i].bo_id \in Obj /\ w.shk.bill[i].bquan \in Nat /\ w.shk.bill[i].price \in Nat
         /\ w.shk.bill[i].useup \in BOOLEAN
         /\ Backs(w.shk.bill[i], w.obj[w.shk.bill[i].bo_id])
         /\ \A j \in DOMAIN w.shk.bill : w.shk.bill[j].bo_id = w.shk.bill[i].bo_id => j = i
         /\ w.shk.bill # <<>> /\ i \in Nat /\ i > 0
<1> DEFINE b == w.shk.bill
<1>1. /\ b \in Seq(Lines) /\ Distinct(b) /\ Match(w.obj, Lof(b))
      /\ \A l \in Lof(b) : l.price = get_cost(w)
  BY GoodParts
<1>2. b[i] \in Lines /\ b[i] \in Lof(b)
  BY <1>1 DEF Lof
<1>3. b[i].bo_id \in Obj /\ b[i].bquan \in Nat /\ b[i].price \in Nat /\ b[i].useup \in BOOLEAN
  BY <1>2 DEF Lines
<1>4. Backs(b[i], w.obj[b[i].bo_id]) /\ b[i].price = get_cost(w)
  BY <1>1, <1>2 DEF Match
<1>5. b # <<>> /\ i \in Nat /\ i > 0
  BY <1>1
<1> QED BY <1>1, <1>2, <1>3, <1>4, <1>5 DEF Distinct

(* The entry goes, and its object is nobody's or the hero's.               *)
LEMMA EntryGone ==
  ASSUME NEW w, Good(w), NEW i \in DOMAIN w.shk.bill,
         NEW s \in Struct, Formed(s), ~s.unpaid, s.where # "onbill"
  PROVE  LET o == w.shk.bill[i].bo_id
             z == drop_entry(Put(w, o, s), i)
         IN  Sound(w, z) /\ z.obj = [w.obj EXCEPT ![o] = s] /\ z.shk.bill = Front([w.shk.bill EXCEPT ![i] = Last(w.shk.bill)])
<1> DEFINE b == w.shk.bill
           o == b[i].bo_id
           q == w.shk.bill_p
           L == Lof(b)
           f == [w.obj EXCEPT ![o] = s]
           u == Put(w, o, s)
           z == drop_entry(u, i)
           c == Front([b EXCEPT ![i] = Last(b)])
           y == At(w, f, c, q)
<1>1. /\ w \in Worlds /\ b \in Seq(Lines) /\ Distinct(b) /\ Match(w.obj, L) /\ q \in {"null", "own", "dump"}
      /\ (\A l \in L : l.price = get_cost(w)) /\ w.obj \in [Obj -> Struct]
  BY GoodParts
<1>2. o \in Obj /\ b # <<>>
  BY LineIs
<1>3. z = y
  <2>1. u = [w EXCEPT !.obj = f] /\ w.shk \in Keepers
    BY <1>1, WorldParts DEF Put
  <2> HIDE DEF u, f
  <2>2. u.shk = w.shk
    BY <1>1, <2>1 DEF Worlds
  <2> QED BY <1>1, <2>1, <2>2 DEF drop_entry, At, Worlds, Keepers
<1> HIDE DEF z
<1>4. c \in Seq(Lines) /\ Distinct(c) /\ Lof(c) = Sans(L, o)
  BY <1>1, SeqDrop
<1> HIDE DEF c
<1>5. Match(f, Sans(L, o))
  <2> HIDE DEF L, o
  <2> QED BY <1>1, <1>2, MatchOff
<1>6. Agreed(f, c)
  BY <1>4, <1>5 DEF Agreed
<1>7. \A l \in Lof(c) : l.price = get_cost(w)
  BY <1>1, <1>4 DEF Sans
<1> HIDE DEF f
<1>8. Good(y) /\ y.obj = f /\ y.shk.bill = c /\ y.shk.bill_p = q /\ y.ushops = w.ushops /\ y.shk.at = w.shk.at
  <2> HIDE DEF q
  <2> QED BY <1>1, <1>6, <1>7, AtGood
<1> HIDE DEF y
<1>9. Sound(w, y)
  BY <1>2, <1>8 DEF Sound, Frame, Inside
<1> QED BY <1>3, <1>8, <1>9 DEF z, f, c

(* All of b costs what get_cost says.                                      *)
Costing(w, b) == \A l \in Lof(b) : l.price = get_cost(w)
Replaced(w, f, b, q, v) ==
  Good(v) /\ v.obj = f /\ v.shk.bill = b /\ v.shk.bill_p = q /\ v.ushops = w.ushops /\ v.shk.at = w.shk.at

LEMMA AtFine ==
  ASSUME NEW w, Good(w), NEW f, NEW b, Agreed(f, b), NEW q \in {"null", "own", "dump"}, Costing(w, b)
  PROVE  Replaced(w, f, b, q, At(w, f, b, q))
<1>1. \A l \in Lof(b) : l.price = get_cost(w)
  BY DEF Costing
<1>2. /\ Good(At(w, f, b, q)) /\ At(w, f, b, q).obj = f /\ At(w, f, b, q).shk.bill = b /\ At(w, f, b, q).shk.bill_p = q
      /\ At(w, f, b, q).ushops = w.ushops /\ At(w, f, b, q).shk.at = w.shk.at
  BY <1>1, AtGood
<1> QED BY ONLY <1>2 DEF Replaced

(* What was used of it is paid for.                                        *)
CutTo(w, i, n) == [w EXCEPT !.shk.bill[i].bquan = n]
Trimmed(w, v, i, n) ==
  Sound(w, v) /\ v.obj = w.obj /\ v.shk.bill = [w.shk.bill EXCEPT ![i] = [w.shk.bill[i] EXCEPT !.bquan = n]]

LEMMA EntryCut ==
  ASSUME NEW w, Good(w), NEW i \in DOMAIN w.shk.bill, NEW n, n = w.obj[w.shk.bill[i].bo_id].quan, ~w.shk.bill[i].useup
  PROVE  Trimmed(w, CutTo(w, i, n), i, n)
<1> DEFINE b == w.shk.bill
           o == b[i].bo_id
           q == w.shk.bill_p
           L == Lof(b)
           l == [b[i] EXCEPT !.bquan = n]
           c == [b EXCEPT ![i] = l]
           z == CutTo(w, i, n)
           y == At(w, w.obj, c, q)
<1>1. /\ w \in Worlds /\ b \in Seq(Lines) /\ Distinct(b) /\ Match(w.obj, L) /\ q \in {"null", "own", "dump"}
      /\ (\A k \in L : k.price = get_cost(w)) /\ w.obj \in [Obj -> Struct]
  BY GoodParts
<1>2. /\ o \in Obj /\ b # <<>> /\ b[i] \in Lines /\ b[i].price = get_cost(w) /\ Backs(b[i], w.obj[o])
      /\ \A j \in DOMAIN b : b[j].bo_id = o => j = i
  BY LineIs
<1>3. w.obj[o] \in Struct /\ Formed(w.obj[o])
  BY <1>2, GoodParts
<1>0. n = w.obj[o].quan /\ ~b[i].useup
  OBVIOUS
<1> HIDE DEF b, o, l, c, z, y, q, L
<1>4. n \in Nat /\ n > 0 /\ n = w.obj[o].quan /\ w.obj[o].unpaid /\ w.obj[o].where # "onbill"
  <2>1. w.obj[o].unpaid /\ w.obj[o].quan \in 1 .. b[i].bquan /\ w.obj[o].where # "onbill" /\ n = w.obj[o].quan
    BY ONLY <1>2, <1>0 DEF Backs
  <2>2. n \in Nat
    BY ONLY <1>3, <2>1 DEF Struct
  <2>3. b[i].bquan \in Nat
    BY ONLY <1>2 DEF Lines
  <2> QED BY ONLY <2>1, <2>2, <2>3
<1>5. l \in Lines /\ l.bo_id = o /\ l.bquan = n /\ l.useup = b[i].useup /\ l.price = get_cost(w)
  BY ONLY <1>2, <1>4 DEF Lines, l, o
<1>6. Backs(l, w.obj[o])
  <2>1. ~l.useup
    BY ONLY <1>5, <1>0
  <2>2. w.obj[o].quan \in 1 .. l.bquan
    BY ONLY <1>4, <1>5
  <2> QED BY ONLY <1>4, <1>5, <2>1, <2>2 DEF Backs
<1>7. z = y
  <2>1. w.shk \in Keepers
    BY <1>1, WorldParts
  <2>2. z = [w EXCEPT !.shk = [w.shk EXCEPT !.bill = c]]
    BY <1>1, <2>1 DEF Worlds, Keepers, z, c, b, l, CutTo
  <2>3. [w.shk EXCEPT !.bill = c] = [w.shk EXCEPT !.bill = c, !.bill_p = q]
    BY <2>1 DEF Keepers, q
  <2> QED BY <1>1, <2>2, <2>3 DEF At, Worlds, y
<1>8. c \in Seq(Lines) /\ Distinct(c) /\ Lof(c) = Sans(L, o) \cup {l}
  <2>1. /\ b \in Seq(Lines) /\ Distinct(b) /\ i \in DOMAIN b /\ l \in Lines
        /\ \A j \in DOMAIN b : b[j].bo_id = l.bo_id => j = i
    BY <1>1, <1>2, <1>5 DEF b
  <2>2. c \in Seq(Lines) /\ Distinct(c) /\ Lof(c) = Sans(Lof(b), b[i].bo_id) \cup {l}
    BY ONLY <2>1, SeqSet DEF c
  <2> QED BY ONLY <2>2 DEF L, o
<1>9. Match(w.obj, Sans(L, o) \cup {l})
  <2>1. [w.obj EXCEPT ![o] = w.obj[o]] = w.obj
    BY <1>1, <1>2
  <2>2. Match([w.obj EXCEPT ![o] = w.obj[o]], Sans(L, o) \cup {l})
    <3> QED BY <1>1, <1>2, <1>3, <1>5, <1>6, MatchPut
  <2> QED BY <2>1, <2>2
<1>10. Agreed(w.obj, c)
  BY <1>8, <1>9 DEF Agreed
<1>11. \A k \in Lof(c) : k.price = get_cost(w)
  BY <1>1, <1>5, <1>8 DEF Sans
<1>12. Good(y) /\ y.obj = w.obj /\ y.shk.bill = c /\ y.shk.bill_p = q /\ y.ushops = w.ushops /\ y.shk.at = w.shk.at
  <2>1. Good(w) /\ Costing(w, c) /\ q \in {"null", "own", "dump"}
    BY ONLY Good(w), <1>1, <1>11 DEF Costing
  <2>2. Replaced(w, w.obj, c, q, At(w, w.obj, c, q))
    BY ONLY <2>1, <1>10, AtFine
  <2> QED BY ONLY <2>2 DEF Replaced, y
<1>13. Sound(w, y)
  <2>1. y.shk.bill_p = w.shk.bill_p /\ w.shk.bill # <<>>
    BY ONLY <1>2, <1>12 DEF q, b
  <2>2. Frame(w, y) /\ (Inside(w) => Inside(y))
    BY ONLY <1>12, <2>1 DEF Frame, Inside
  <2> QED BY ONLY <1>12, <2>2 DEF Sound
<1> QED BY <1>7, <1>12, <1>13 DEF z, c, l, b, Trimmed

(* The entries that are left are as they were, and so are their objects.   *)
Like(bp, f, cp, g) ==
  cp.bo_id = bp.bo_id /\ cp.bquan = bp.bquan /\ cp.useup = bp.useup /\ g[cp.bo_id] = f[bp.bo_id]

(* drop_entry moves only the last entry, to where the other was.           *)
LEMMA GoneKeeps ==
  ASSUME NEW w, Good(w), NEW i \in DOMAIN w.shk.bill, NEW s
  PROVE  LET c == Front([w.shk.bill EXCEPT ![i] = Last(w.shk.bill)]) IN
         \A j \in DOMAIN c : \E k \in DOMAIN w.shk.bill :
           (j < i => k = j) /\ Like(w.shk.bill[k], w.obj, c[j], [w.obj EXCEPT ![w.shk.bill[i].bo_id] = s])
<1> DEFINE b == w.shk.bill
           o == b[i].bo_id
           c == Front([b EXCEPT ![i] = Last(b)])
           g == [w.obj EXCEPT ![o] = s]
<1>1. b \in Seq(Lines) /\ w.obj \in [Obj -> Struct] /\ DOMAIN b = 1 .. Len(b) /\ Len(b) \in Nat
  BY GoodParts
<1>2. c \in Seq(Lines) /\ Len(c) = Len(b) - 1 /\ \A j \in 1 .. Len(b) - 1 : c[j] = IF j = i THEN b[Len(b)] ELSE b[j]
  BY <1>1, LastGoesFirst
<1>3. \A k \in DOMAIN b : b[k].bo_id \in Obj /\ (b[k].bo_id = o => k = i)
  BY LineIs
<1>4. \A x \in Obj : x # o => g[x] = w.obj[x]
  BY <1>1
<1> HIDE DEF c, g
<1> SUFFICES ASSUME NEW j \in DOMAIN c
             PROVE  \E k \in DOMAIN b : (j < i => k = j) /\ Like(b[k], w.obj, c[j], g)
  BY DEF c, g
<1>5. j \in 1 .. Len(b) - 1
  BY <1>2
<1> DEFINE k == IF j = i THEN Len(b) ELSE j
<1>6. k \in DOMAIN b /\ k # i /\ c[j] = b[k] /\ (j < i => k = j)
  BY <1>1, <1>2, <1>5
<1> HIDE DEF k
<1>7. Like(b[k], w.obj, c[j], g)
  BY <1>3, <1>4, <1>6 DEF Like
<1> QED BY <1>6, <1>7

(* What a payment leaves.                                                  *)
Settled(w, v, i, consumed) ==
  /\ Sound(w, v)
  /\ \A j \in DOMAIN v.shk.bill : j < i => j \in DOMAIN w.shk.bill /\ Like(w.shk.bill[j], w.obj, v.shk.bill[j], v.obj)
  /\ ~consumed => \A j \in DOMAIN v.shk.bill : \E k \in DOMAIN w.shk.bill : Like(w.shk.bill[k], w.obj, v.shk.bill[j], v.obj)

(* An entry that is bought goes.                                           *)
LEMMA SettledGone ==
  ASSUME NEW w, Good(w), NEW i \in DOMAIN w.shk.bill, NEW consumed,
         NEW s \in Struct, Formed(s), ~s.unpaid, s.where # "onbill"
  PROVE  Settled(w, drop_entry(Put(w, w.shk.bill[i].bo_id, s), i), i, consumed)
<1> DEFINE v == drop_entry(Put(w, w.shk.bill[i].bo_id, s), i)
<1>1. Sound(w, v) /\ v.obj = [w.obj EXCEPT ![w.shk.bill[i].bo_id] = s]
      /\ v.shk.bill = Front([w.shk.bill EXCEPT ![i] = Last(w.shk.bill)])
  BY EntryGone
<1> HIDE DEF v
<1>2. \A j \in DOMAIN v.shk.bill : \E k \in DOMAIN w.shk.bill :
           (j < i => k = j) /\ Like(w.shk.bill[k], w.obj, v.shk.bill[j], v.obj)
  BY <1>1, GoneKeeps
<1>3. Settled(w, v, i, consumed)
  BY <1>1, <1>2, SMTT(30) DEF Settled
<1> QED BY <1>3 DEF v

(* PAY_SOME leaves an entry for what is left.                              *)
LEMMA SettledCut ==
  ASSUME NEW w, Good(w), NEW i \in DOMAIN w.shk.bill, NEW n, n = w.obj[w.shk.bill[i].bo_id].quan, ~w.shk.bill[i].useup
  PROVE  Settled(w, CutTo(w, i, n), i, TRUE)
<1> DEFINE v == CutTo(w, i, n)
           b == w.shk.bill
<1>1. Sound(w, v) /\ v.obj = w.obj /\ v.shk.bill = [b EXCEPT ![i] = [b[i] EXCEPT !.bquan = n]]
  <2>1. Good(w) /\ i \in DOMAIN w.shk.bill /\ n = w.obj[w.shk.bill[i].bo_id].quan /\ ~w.shk.bill[i].useup
    OBVIOUS
  <2>2. Trimmed(w, CutTo(w, i, n), i, n)
    BY ONLY <2>1, EntryCut
  <2> QED BY ONLY <2>2 DEF v, b, Trimmed
<1> HIDE DEF v
<1>2. ASSUME NEW j \in DOMAIN v.shk.bill, j < i PROVE j \in DOMAIN b /\ Like(b[j], w.obj, v.shk.bill[j], v.obj)
  <2>1. j \in DOMAIN b /\ i \in Nat /\ j # i
    <3>1. b \in Seq(Lines)
      BY GoodParts
    <3> QED BY <1>1, <1>2, <3>1
  <2>2. v.shk.bill[j] = b[j]
    BY <1>1, <2>1, SMTT(30)
  <2> QED BY <1>1, <2>1, <2>2 DEF Like
<1>3. Settled(w, v, i, TRUE)
  BY <1>1, <1>2 DEF Settled
<1> QED BY <1>3 DEF v

(* The money is taken before that.                                         *)
LEMMA SettledQuiet ==
  ASSUME NEW u, Good(u), NEW w, Quiet(u, w), NEW v, NEW i, NEW consumed, Settled(w, v, i, consumed)
  PROVE  Settled(u, v, i, consumed)
<1>1. Alike(u.shk.bill, w.shk.bill) /\ w.obj = u.obj
  BY DEF Quiet
<1>2. DOMAIN w.shk.bill = DOMAIN u.shk.bill
  BY <1>1 DEF Alike
<1>3. \A k \in DOMAIN u.shk.bill : \A cp, g : Like(w.shk.bill[k], w.obj, cp, g) => Like(u.shk.bill[k], u.obj, cp, g)
  BY <1>1 DEF Alike, Like
<1>4. Sound(u, w)
  BY SoundQuiet
<1>5. Sound(u, v)
  BY <1>4, SoundTrans DEF Settled
<1> QED BY <1>2, <1>3, <1>5 DEF Settled

-----------------------------------------------------------------------------
(* The loop of dopay.                                                      *)

(* In the first pass over a bill that is paid as a whole, what lies behind *)
(* was not used up.                                                        *)
Looping ==
  /\ paying \in [pass : 0 .. 2, tmp : Nat, itemize : BOOLEAN]
  /\ paying # Idle => paying.tmp > 0 /\ paying.pass \in 0 .. 1
  /\ paying.pass = 0 /\ ~paying.itemize =>
       \A i \in DOMAIN shk.bill : i < paying.tmp => ~shk.bill[i].useup /\ Whole(shk.bill[i])

(* The inductive invariant.                                                *)
BillInv == Well(World, pos) /\ pos \in {"in", "edge", "out"} /\ Looping /\ SecondPassBuysAll

(* Out of the loop nothing is promised.                                    *)
LEMMA IdleLoops ==
  ASSUME paying' = Idle
  PROVE  Looping' /\ SecondPassBuysAll'
<1>1. paying'.pass = 2 /\ paying' \in [pass : 0 .. 2, tmp : Nat, itemize : BOOLEAN]
  BY DEF Idle
<1> QED BY <1>1 DEF Looping, SecondPassBuysAll

(* What an entry comes to is a number.                                     *)
LEMMA QuantityIsNatural ==
  ASSUME Well(World, pos), NEW i \in DOMAIN shk.bill
  PROVE  Cost(shk.bill[i]) \in Nat
<1> DEFINE bp == shk.bill[i]
<1>1. Good(World) /\ World.shk = shk /\ World.obj = obj
  BY WorldNow
<1>2. bp.bo_id \in Obj /\ bp.bquan \in Nat /\ bp.price \in Nat /\ bp.useup \in BOOLEAN /\ Backs(bp, obj[bp.bo_id])
  BY <1>1, LineIs
<1>3. obj[bp.bo_id] \in Struct
  BY <1>1, <1>2, GoodParts
<1>4. obj[bp.bo_id].quan \in Nat
  BY <1>3 DEF Struct
<1>5. ~bp.useup => bp.bquan - obj[bp.bo_id].quan \in Nat
  <2> SUFFICES ASSUME ~bp.useup PROVE bp.bquan - obj[bp.bo_id].quan \in Nat
    OBVIOUS
  <2>1. obj[bp.bo_id].quan \in 1 .. bp.bquan
    BY <1>2 DEF Backs
  <2> HIDE DEF bp
  <2> QED BY <1>2, <1>4, <2>1
<1>6. Quantity(bp) \in Nat
  <2> HIDE DEF bp
  <2> QED BY <1>2, <1>4, <1>5 DEF Quantity, Whole
<1>7. \A m, n \in Nat : m * n \in Nat
  OBVIOUS
<1> HIDE DEF bp
<1>8. Cost(bp) \in Nat
  BY <1>2, <1>6, <1>7 DEF Cost
<1> QED BY <1>8 DEF bp

(* dopayobj.                                                               *)
LEMMA EntryPaid ==
  ASSUME Well(World, pos), NEW i \in DOMAIN shk.bill, ~OutOfOrder(shk.bill[i])
  PROVE  Settled(World, dopayobj(World, i), i, Consumed /\ ~shk.bill[i].useup)
<1> DEFINE bp == shk.bill[i]
           o == bp.bo_id
           a == Cost(bp)
           v == pay(World, a)
<1>1. Good(World) /\ World \in Worlds /\ World.shk = shk /\ World.obj = obj
  BY WorldNow DEF Good
<1>2. a \in Nat
  BY QuantityIsNatural
<1>3. dopayobj(World, i) = IF bp.useup THEN drop_entry([v EXCEPT !.obj[o] = NoObj], i)
                           ELSE IF Consumed THEN [v EXCEPT !.shk.bill[i].bquan = obj[o].quan]
                           ELSE drop_entry([v EXCEPT !.obj[o].unpaid = FALSE], i)
  BY DEF dopayobj
<1> HIDE DEF a
<1>4. Quiet(World, v)
  BY <1>1, <1>2, QuietPay
<1> HIDE DEF v
<1>5. Good(v) /\ v \in Worlds /\ v.obj = obj /\ v.obj \in [Obj -> Struct]
  BY <1>1, <1>4, QuietGood, GoodParts DEF Good
<1>6. i \in DOMAIN v.shk.bill /\ v.shk.bill[i].bo_id = o /\ v.shk.bill[i].useup = bp.useup
  BY <1>1, <1>4 DEF Quiet, Alike
<1>7. bp.useup \in BOOLEAN /\ Backs(bp, obj[o]) /\ o \in Obj
  BY <1>1, LineIs
<1>8. obj[o] \in Struct /\ Formed(obj[o])
  BY <1>5, <1>7, GoodParts
<1> HIDE DEF o
<1>9. CASE bp.useup
  <2>1. [v EXCEPT !.obj[o] = NoObj] = Put(v, o, NoObj)
    BY <1>5 DEF Put, Worlds
  <2>2. Settled(v, drop_entry(Put(v, o, NoObj), i), i, Consumed /\ ~bp.useup)
    BY <1>5, <1>6, BlankForm, SettledGone
  <2> QED BY <1>1, <1>3, <1>4, <1>9, <2>1, <2>2, SettledQuiet
<1>10. CASE ~bp.useup /\ Consumed
  <2>1. ~v.shk.bill[i].useup /\ obj[o].quan = v.obj[v.shk.bill[i].bo_id].quan
    BY <1>5, <1>6, <1>10
  <2>2. Settled(v, [v EXCEPT !.shk.bill[i].bquan = obj[o].quan], i, TRUE)
    BY <1>5, <1>6, <2>1, SettledCut DEF CutTo
  <2>3. (Consumed /\ ~bp.useup) = TRUE
    BY <1>10
  <2>4. Settled(World, dopayobj(World, i), i, TRUE)
    BY <1>1, <1>3, <1>4, <1>10, <2>2, SettledQuiet
  <2> QED BY <2>3, <2>4
<1>11. CASE ~bp.useup /\ ~Consumed
  <2> DEFINE s == [v.obj[o] EXCEPT !.unpaid = FALSE]
  <2>1. v.obj[o] \in Struct
    BY <1>5, <1>8
  <2>2. s \in Struct /\ ~s.unpaid /\ s.where = obj[o].where /\ s.quan = obj[o].quan
    BY <1>5, <2>1 DEF Struct
  <2>3. obj[o].where \notin {"none", "onbill"}
    BY <1>11 DEF OutOfOrder, o
  <2>4. Formed(s) /\ s.where # "onbill"
    BY <1>8, <2>2, <2>3 DEF Formed
  <2>5. [v EXCEPT !.obj[o].unpaid = FALSE] = Put(v, o, s)
    BY <1>5 DEF Put, Worlds
  <2> HIDE DEF s
  <2>6. Settled(v, drop_entry(Put(v, o, s), i), i, Consumed /\ ~bp.useup)
    BY <1>5, <1>6, <2>2, <2>4, SettledGone
  <2> QED BY <1>1, <1>3, <1>4, <1>11, <2>5, <2>6, SettledQuiet
<1> QED BY <1>7, <1>9, <1>10, <1>11

(* Nothing happens to the world.                                           *)
LEMMA StaysWell ==
  ASSUME Well(World, pos), UNCHANGED <<obj, shk, umoney, till, ushops, pos>>
  PROVE  Well(World, pos)'
<1>1. World' = World /\ pos' = pos
  BY DEF World
<1> QED BY <1>1

(* An entry is passed over.                                                *)
LEMMA SkipLoops ==
  ASSUME Looping, SecondPassBuysAll, paying # Idle, paying.tmp \in DOMAIN shk.bill, Len(shk.bill) \in Nat,
         DOMAIN shk.bill = 1 .. Len(shk.bill),
         obj' = obj, shk' = shk, paying' = [paying EXCEPT !.tmp = paying.tmp + 1],
         paying.itemize \/ Passed(shk.bill[paying.tmp])
  PROVE  Looping' /\ SecondPassBuysAll'
<1>1. paying \in [pass : 0 .. 2, tmp : Nat, itemize : BOOLEAN] /\ paying.tmp > 0 /\ paying.pass \in 0 .. 1
  BY DEF Looping
<1>2. /\ paying' \in [pass : 0 .. 2, tmp : Nat, itemize : BOOLEAN]
      /\ paying'.tmp = paying.tmp + 1 /\ paying'.pass = paying.pass /\ paying'.itemize = paying.itemize
      /\ paying'.tmp > 0 /\ paying.tmp \in Nat
  BY <1>1
<1>3. ASSUME paying.pass = 0, ~paying.itemize, NEW i \in DOMAIN shk.bill, i < paying.tmp + 1
      PROVE  ~shk.bill[i].useup /\ Whole(shk.bill[i])
  <2>1. i < paying.tmp \/ i = paying.tmp
    BY <1>2, <1>3
  <2>2. CASE i < paying.tmp
    BY <1>3, <2>2 DEF Looping
  <2>3. CASE i = paying.tmp
    BY <1>3, <2>3 DEF Passed, Consumed
  <2> QED BY <2>1, <2>2, <2>3
<1>4. Looping'
  <2>1. ASSUME paying'.pass = 0, ~paying'.itemize, NEW i \in DOMAIN shk'.bill, i < paying'.tmp
        PROVE  ~shk'.bill[i].useup /\ (shk'.bill[i].useup \/ obj'[shk'.bill[i].bo_id].quan = shk'.bill[i].bquan)
    BY <1>2, <1>3, <2>1 DEF Whole
  <2> QED BY <1>1, <1>2, <2>1 DEF Looping, Whole
<1>5. SecondPassBuysAll'
  <2>1. ~(paying.pass = 1 /\ ~paying.itemize)
    BY DEF SecondPassBuysAll, Passed, Consumed
  <2> QED BY <1>2, <2>1 DEF SecondPassBuysAll
<1> QED BY <1>4, <1>5

(* An entry is bought, and the same place is looked at again.              *)
LEMMA BuyLoops ==
  ASSUME Looping, SecondPassBuysAll, Well(World, pos), paying # Idle, NEW i, i = paying.tmp, i \in DOMAIN shk.bill,
         NEW v, Settled(World, v, i, Consumed /\ ~shk.bill[i].useup), obj' = v.obj, shk' = v.shk, paying' = paying
  PROVE  Looping' /\ SecondPassBuysAll'
<1>1. World.obj = obj /\ World.shk = shk
  BY WorldNow
<1>2. \A bp, cp : Like(bp, obj, cp, obj') /\ ~bp.useup /\ Whole(bp)
                    => ~cp.useup /\ (cp.useup \/ obj'[cp.bo_id].quan = cp.bquan)
  BY DEF Like, Whole
<1>3. \A j \in DOMAIN shk'.bill : j < i => j \in DOMAIN shk.bill /\ Like(shk.bill[j], obj, shk'.bill[j], obj')
  BY <1>1 DEF Settled
<1>4. Looping'
  <2>1. ASSUME paying.pass = 0, ~paying.itemize, NEW j \in DOMAIN shk'.bill, j < i
        PROVE  ~shk'.bill[j].useup /\ (shk'.bill[j].useup \/ obj'[shk'.bill[j].bo_id].quan = shk'.bill[j].bquan)
    <3>1. j \in DOMAIN shk.bill /\ Like(shk.bill[j], obj, shk'.bill[j], obj')
      BY <1>3, <2>1
    <3>2. ~shk.bill[j].useup /\ Whole(shk.bill[j])
      BY <2>1, <3>1 DEF Looping
    <3> QED BY <1>2, <3>1, <3>2
  <2> QED BY <2>1 DEF Looping, Whole
<1>5. SecondPassBuysAll'
  <2> SUFFICES ASSUME paying.pass = 1, ~paying.itemize
               PROVE  /\ paying.tmp = 1
                      /\ \A j \in DOMAIN shk'.bill : ~shk'.bill[j].useup
                           /\ (shk'.bill[j].useup \/ obj'[shk'.bill[j].bo_id].quan = shk'.bill[j].bquan)
    BY DEF SecondPassBuysAll, Whole
  <2>1. (paying.tmp = 1 \/ shk.bill = <<>>) /\ \A j \in DOMAIN shk.bill : ~shk.bill[j].useup /\ Whole(shk.bill[j])
    BY DEF SecondPassBuysAll
  <2>2. shk.bill # <<>>
    OBVIOUS
  <2>3. \A j \in DOMAIN shk'.bill : \E k \in DOMAIN shk.bill : Like(shk.bill[k], obj, shk'.bill[j], obj')
    BY <1>1 DEF Settled, Consumed
  <2> QED BY <1>2, <2>1, <2>2, <2>3
<1> QED BY <1>4, <1>5

(* One entry: out of order, passed over, refused, not affordable, or       *)
(* bought.                                                                 *)
LEMMA PayEntryKeeps ==
  ASSUME BillInv, NEW answer, PayEntry(answer)
  PROVE  BillInv'
<1> DEFINE i == paying.tmp
           bp == shk.bill[i]
           stay == UNCHANGED <<obj, shk, umoney, till, ushops>>
           z == setpaid(World)
           d == dopayobj(World, i)
<1>1. /\ paying # Idle /\ i <= Len(shk.bill) /\ pos' = pos
      /\ \/ Become(z) /\ paying' = Idle
         \/ Passed(bp) /\ stay /\ paying' = skipped(i)
         \/ stay /\ paying' = Idle
         \/ paying.itemize /\ stay /\ paying' = skipped(i)
         \/ ~OutOfOrder(bp) /\ Become(d) /\ paying' = bought(i)
  BY DEF PayEntry
<1>2. Well(World, pos) /\ pos \in {"in", "edge", "out"} /\ Looping /\ SecondPassBuysAll
  BY DEF BillInv
<1>3. Good(World) /\ World.shk = shk /\ World.obj = obj /\ World \in Worlds
  BY <1>2, WorldNow DEF Good
<1>4. DOMAIN shk.bill = 1 .. Len(shk.bill) /\ Len(shk.bill) \in Nat
  BY <1>3, WorldParts
<1>5. i \in DOMAIN shk.bill
  <2>1. i \in Nat /\ i > 0
    BY <1>1, <1>2 DEF Looping
  <2> QED BY <1>1, <1>4, <2>1
<1>6. CASE Become(z) /\ paying' = Idle
  <2>1. \A o \in Obj : Formed(World.obj[o])
    BY <1>3, GoodParts
  <2>2. Sound(World, z)
    BY <1>3, <2>1, SetpaidCleared, ClearedSound
  <2> HIDE DEF z
  <2>3. Well(World, pos)'
    BY <1>1, <1>2, <1>6, <2>2, DoneSound
  <2> QED BY <1>1, <1>2, <1>6, <2>3, IdleLoops DEF BillInv
<1>7. CASE stay /\ paying' = Idle
  <2>1. Well(World, pos)'
    BY <1>1, <1>2, <1>7, StaysWell
  <2> QED BY <1>1, <1>2, <1>7, <2>1, IdleLoops DEF BillInv
<1>8. CASE (paying.itemize \/ Passed(bp)) /\ stay /\ paying' = skipped(i)
  <2>1. Well(World, pos)'
    BY <1>1, <1>2, <1>8, StaysWell
  <2>2. paying' = [paying EXCEPT !.tmp = paying.tmp + 1] /\ obj' = obj /\ shk' = shk
    BY <1>8 DEF skipped
  <2>3. Looping' /\ SecondPassBuysAll'
    BY <1>1, <1>2, <1>4, <1>5, <1>8, <2>2, SkipLoops
  <2> QED BY <1>1, <1>2, <2>1, <2>3 DEF BillInv
<1>9. CASE ~OutOfOrder(bp) /\ Become(d) /\ paying' = bought(i)
  <2>1. Settled(World, d, i, Consumed /\ ~bp.useup)
    BY <1>2, <1>5, <1>9, EntryPaid
  <2> HIDE DEF d
  <2>2. Sound(World, d)
    BY <2>1 DEF Settled
  <2>3. Well(World, pos)'
    BY <1>1, <1>2, <1>9, <2>2, DoneSound
  <2>4. obj' = d.obj /\ shk' = d.shk /\ paying' = paying
    BY <1>9 DEF Become, bought
  <2> HIDE DEF i
  <2>5. i = paying.tmp
    BY DEF i
  <2>6. Looping' /\ SecondPassBuysAll'
    BY <1>1, <1>2, <1>5, <2>1, <2>4, <2>5, BuyLoops
  <2> QED BY <1>1, <1>2, <2>3, <2>6 DEF BillInv
<1> QED BY <1>1, <1>6, <1>7, <1>8, <1>9

(* The first pass ends with nothing left that was used up, unless entries  *)
(* were chosen one by one.                                                 *)
LEMMA PassEndsKeeps ==
  ASSUME BillInv, PassEnds
  PROVE  BillInv'
<1>1. /\ paying # Idle /\ paying.tmp > Len(shk.bill) /\ UNCHANGED <<obj, shk, umoney, till, ushops, pos>>
      /\ paying' = IF Consumed THEN [paying EXCEPT !.pass = 1, !.tmp = 1] ELSE Idle
  BY DEF PassEnds
<1>2. Well(World, pos) /\ pos \in {"in", "edge", "out"} /\ Looping /\ SecondPassBuysAll
  BY DEF BillInv
<1>3. Well(World, pos)'
  BY <1>1, <1>2, StaysWell
<1>4. CASE ~Consumed
  BY <1>1, <1>2, <1>3, <1>4, IdleLoops DEF BillInv
<1>5. CASE Consumed
  <2>1. paying \in [pass : 0 .. 2, tmp : Nat, itemize : BOOLEAN] /\ paying.pass = 0
    BY <1>2, <1>5 DEF Looping, Consumed
  <2>2. /\ paying' \in [pass : 0 .. 2, tmp : Nat, itemize : BOOLEAN]
        /\ paying'.tmp = 1 /\ paying'.pass = 1 /\ paying'.itemize = paying.itemize
    <3>1. paying' = [paying EXCEPT !.pass = 1, !.tmp = 1] /\ 1 \in 0 .. 2 /\ 1 \in Nat
      BY <1>1, <1>5
    <3> QED BY <2>1, <3>1
  <2>3. Looping'
    BY <2>2 DEF Looping
  <2>4. SecondPassBuysAll'
    <3> SUFFICES ASSUME ~paying.itemize
                 PROVE  \A j \in DOMAIN shk.bill : ~shk.bill[j].useup /\ Whole(shk.bill[j])
      BY <1>1, <2>2 DEF SecondPassBuysAll, Whole
    <3>1. World.shk = shk /\ Good(World)
      BY <1>2, WorldNow
    <3>2. DOMAIN shk.bill = 1 .. Len(shk.bill) /\ Len(shk.bill) \in Nat
      BY <3>1, WorldParts DEF Good
    <3>3. \A j \in DOMAIN shk.bill : j < paying.tmp
      BY <1>1, <2>1, <3>2
    <3> QED BY <1>2, <2>1, <3>3 DEF Looping
  <2> QED BY <1>1, <1>2, <1>3, <2>3, <2>4 DEF BillInv
<1> QED BY <1>4, <1>5

(* dopay up to the loop.                                                   *)
LEMMA dopayKeeps ==
  ASSUME BillInv, dopay
  PROVE  BillInv'
<1> DEFINE s == shop_keeper(World)
           v == IF s.shk.robbed > 0 \/ Owes(s) THEN rouse_shk(s) ELSE s
           d == PayDebt(v)
           b == d.shk.bill = <<>> \/ d.umoney + d.shk.credit < cheapest_item(d)
           one == Len(d.shk.bill) = 1
<1>1. /\ paying = Idle /\ v.shk.at # "dead" /\ pos' = pos
      /\ \/ Become(PayAway(v)) /\ paying' = paying
         \/ (\E calmed \in BOOLEAN : Become(PayRobbery(v, calmed))) /\ paying' = paying
         \/ Become(d) /\ (paying' = paying \/ \E itemized \in BOOLEAN : paying' = [pass |-> 0, tmp |-> 1, itemize |-> itemized \/ one])
  BY DEF dopay
<1>2. Well(World, pos) /\ pos \in {"in", "edge", "out"} /\ Looping /\ SecondPassBuysAll
  BY DEF BillInv
<1>3. World \in Worlds
  BY <1>2, WorldNow DEF Good
<1>4. Quiet(World, v)
  <2>1. Quiet(World, s)
    BY <1>3, QuietLook
  <2> HIDE DEF s
  <2>2. Quiet(s, rouse_shk(s))
    BY <2>1, QuietMoods DEF Quiet
  <2> QED BY <2>1, <2>2, QuietTrans
<1> HIDE DEF v
<1>5. Well(v, pos) /\ v \in Worlds
  BY <1>2, <1>4, WellQuiet
<1>6. Well(d, pos)
  BY <1>5, QuietPayDebt, WellQuiet
<1> HIDE DEF d
<1>7. Well(World, pos)'
  <2>1. \A calmed \in BOOLEAN : Well(PayRobbery(v, calmed), pos)
    BY <1>1, <1>5, PayRobberyWell
  <2>2. Well(PayAway(v), pos)
    BY <1>1, <1>5, PayAwayWell
  <2> QED BY <1>1, <1>6, <2>1, <2>2, DoneWell
<1>8. CASE paying' = paying
  BY <1>1, <1>2, <1>7, <1>8, IdleLoops DEF BillInv
<1>9. CASE \E itemized \in BOOLEAN : paying' = [pass |-> 0, tmp |-> 1, itemize |-> itemized \/ one]
  <2>1. PICK itemized \in BOOLEAN : paying' = [pass |-> 0, tmp |-> 1, itemize |-> itemized \/ one]
    BY <1>9
  <2>2. (itemized \/ one) \in BOOLEAN
    OBVIOUS
  <2> HIDE DEF one
  <2>3. paying' \in [pass : 0 .. 2, tmp : Nat, itemize : BOOLEAN] /\ paying'.pass = 0 /\ paying'.tmp = 1
    BY <2>1, <2>2
  <2>4. DOMAIN shk'.bill \in SUBSET Nat /\ \A j \in DOMAIN shk'.bill : ~(j < 1)
    <3>1. Good(World') /\ World'.shk = shk'
      BY <1>7 DEF Well, Fine, World
    <3>2. DOMAIN shk'.bill = 1 .. Len(shk'.bill) /\ Len(shk'.bill) \in Nat
      BY <3>1, WorldParts DEF Good
    <3> QED BY <3>2
  <2>5. Looping'
    BY <2>3, <2>4 DEF Looping
  <2>6. SecondPassBuysAll'
    BY <2>3 DEF SecondPassBuysAll
  <2> QED BY <1>1, <1>2, <1>7, <2>5, <2>6 DEF BillInv
<1> QED BY <1>1, <1>8, <1>9

(* It holds at the start,                                                  *)
LEMMA BillInit ==
  ASSUME Init
  PROVE  BillInv
<1>1. /\ obj = Goods /\ shk = [NoShk EXCEPT !.gold = Chest, !.at = "shop"] /\ umoney = Purse /\ till = 0
      /\ pos = "out" /\ ushops = FALSE /\ paying = Idle
  BY DEF Init
<1>2. shk \in Keepers /\ shk.bill = <<>> /\ shk.loan = 0 /\ shk.debit = 0
  BY <1>1, NoShkKnown, FeesAreNatural DEF Keepers, NoShk
<1>3. World \in Worlds /\ World.obj = Goods /\ World.shk = shk
  BY <1>1, <1>2, GoodsAreObjects, FeesAreNatural DEF World, Worlds
<1>4. ASSUME NEW o \in Obj PROVE Formed(Goods[o]) /\ ~Goods[o].unpaid /\ Goods[o].where # "onbill"
  <2>1. /\ Goods[o] \in Struct /\ Goods[o].where \in {"none", "shelf", "invent"} /\ ~Goods[o].unpaid /\ ~Goods[o].no_charge
        /\ Goods[o].where = "none" <=> Goods[o].quan = 0
    BY GoodsAreObjects
  <2>2. Goods[o].quan \in Nat /\ Goods[o].unpaid = FALSE /\ Goods[o].no_charge = FALSE
        /\ Goods[o] = [where |-> Goods[o].where, quan |-> Goods[o].quan, unpaid |-> Goods[o].unpaid, no_charge |-> Goods[o].no_charge]
    BY <2>1 DEF Struct
  <2>3. Goods[o].where = "none" => Goods[o] = NoObj
    BY <2>1, <2>2 DEF NoObj
  <2> QED BY <2>1, <2>2, <2>3 DEF Formed
<1>5. Good(World)
  <2>1. World.shk.loan <= World.shk.debit /\ World.shk.bill = <<>>
    BY <1>2, <1>3
  <2> QED BY <1>3, <1>4, <2>1, ClearGood
<1>6. Well(World, pos)
  BY <1>1, <1>2, <1>3, <1>5 DEF Well, Fine, Inside, Watched, InRoom
<1>7. Looping /\ SecondPassBuysAll
  BY <1>1 DEF Idle, Looping, SecondPassBuysAll
<1> QED BY <1>1, <1>6, <1>7 DEF BillInv

(* Between two payments there is no loop to keep in order.                 *)
LEMMA DeedKeeps ==
  ASSUME BillInv, Well(World, pos)', pos' \in {"in", "edge", "out"}, paying = Idle, paying' = paying
  PROVE  BillInv'
  BY IdleLoops DEF BillInv

(* Each action keeps it.                                                   *)
LEMMA HandlesKeeps ==
  ASSUME BillInv, NEW o \in Obj, Handles(o)
  PROVE  BillInv'
<1>1. Well(World, pos) /\ pos \in {"in", "edge", "out"}
  BY DEF BillInv
<1>2. ASSUME NEW num, PickUp(o, num) PROVE BillInv'
  BY <1>1, <1>2, PickUpWell, DeedKeeps DEF PickUp, Stays
<1>3. ASSUME NEW num, Split(o, num) PROVE BillInv'
  BY <1>1, <1>3, SplitWell, DeedKeeps DEF Split, Stays
<1>4. ASSUME NEW answer \in Answers(o), Drop(o, answer) PROVE BillInv'
  BY <1>1, <1>4, DropWell, DeedKeeps DEF Drop, Stays
<1>5. ASSUME UseUp(o) PROVE BillInv'
  BY <1>1, <1>5, UseUpWell, DeedKeeps DEF UseUp, Stays
<1>6. ASSUME UseCharge(o) PROVE BillInv'
  BY <1>1, <1>6, UseChargeWell, DeedKeeps DEF UseCharge, Does, Stays
<1>7. ASSUME Alter(o) PROVE BillInv'
  BY <1>1, <1>7, AlterWell, DeedKeeps DEF Alter, Does, Stays
<1>8. ASSUME UseFloor(o) PROVE BillInv'
  BY <1>1, <1>8, UseFloorWell, DeedKeeps DEF UseFloor, Does, Stays
<1>9. ASSUME NEW lands \in {"shelf", "street", "breaks"}, Throw(o, lands) PROVE BillInv'
  BY <1>1, <1>9, ThrowWell, DeedKeeps DEF Throw, Does, Stays
<1>10. ASSUME FallsDown(o) PROVE BillInv'
  BY <1>1, <1>10, FallsDownWell, DeedKeeps DEF FallsDown, Does, Stays
<1>11. ASSUME KickOut(o) PROVE BillInv'
  BY <1>1, <1>11, KickOutWell, DeedKeeps DEF KickOut, Does, Stays
<1>12. ASSUME BreakShelf(o) PROVE BillInv'
  BY <1>1, <1>12, BreakShelfWell, DeedKeeps DEF BreakShelf, Does, Stays
<1>13. ASSUME NEW from \in {"shelf", "invent"}, NEW tells \in BOOLEAN, MonsterTakes(o, from, tells) PROVE BillInv'
  BY <1>1, <1>13, MonsterTakesWell, DeedKeeps DEF MonsterTakes, Does, Stays
<1>14. ASSUME NEW where \in {"shelf", "street"}, MonsterDrops(o, where) PROVE BillInv'
  BY <1>1, <1>14, MonsterDropsWell, DeedKeeps DEF MonsterDrops, Does, Stays
<1> QED BY <1>2, <1>3, <1>4, <1>5, <1>6, <1>7, <1>8, <1>9, <1>10, <1>11, <1>12, <1>13, <1>14 DEF Handles

(* What the shopkeeper does.                                               *)
LEMMA ShopkeeperKeeps ==
  ASSUME BillInv, Shopkeeper
  PROVE  BillInv'
<1>1. Well(World, pos) /\ pos \in {"in", "edge", "out"}
  BY DEF BillInv
<1>2. CASE Attack
  <2>1. paying = Idle /\ paying' = paying /\ pos' = pos
    BY <1>2 DEF Attack, Does, Stays
  <2>2. Well(World, pos)'
    BY <1>1, <1>2, AttackWell
  <2> QED BY <1>1, <2>1, <2>2, DeedKeeps
<1>3. CASE Appeased
  <2>1. paying = Idle /\ paying' = paying /\ pos' = pos
    BY <1>3 DEF Appeased, Does, Stays
  <2>2. Well(World, pos)'
    BY <1>1, <1>3, AppeasedWell
  <2> QED BY <1>1, <2>1, <2>2, DeedKeeps
<1>4. CASE SentAway
  <2>1. paying = Idle /\ paying' = paying /\ pos' = pos
    BY <1>4 DEF SentAway, Does, Stays
  <2>2. Well(World, pos)'
    BY <1>1, <1>4, SentAwayWell
  <2> QED BY <1>1, <2>1, <2>2, DeedKeeps
<1>5. CASE Follows
  <2>1. paying = Idle /\ paying' = paying /\ pos' = pos
    BY <1>5 DEF Follows, Does, Stays
  <2>2. Well(World, pos)'
    BY <1>1, <1>5, FollowsWell
  <2> QED BY <1>1, <2>1, <2>2, DeedKeeps
<1>6. CASE ComesBack
  <2>1. paying = Idle /\ paying' = paying /\ pos' = pos
    BY <1>6, SMTT(30) DEF ComesBack, Does, Stays
  <2>2. Well(World, pos)'
    BY <1>1, <1>6, ComesBackWell
  <2> QED BY <1>1, <2>1, <2>2, DeedKeeps
<1>7. CASE Dies
  <2>1. paying = Idle /\ paying' = paying /\ pos' = pos
    BY <1>7 DEF Dies, Does, Stays
  <2>2. Well(World, pos)'
    BY <1>1, <1>7, DiesWell
  <2> QED BY <1>1, <2>1, <2>2, DeedKeeps
<1>8. CASE FallsAsleep
  <2>1. paying = Idle /\ paying' = paying /\ pos' = pos
    BY <1>8 DEF FallsAsleep, Does, Stays
  <2>2. Well(World, pos)'
    BY <1>1, <1>8, FallsAsleepWell
  <2> QED BY <1>1, <2>1, <2>2, DeedKeeps
<1>9. CASE WakesUp
  <2>1. paying = Idle /\ paying' = paying /\ pos' = pos
    BY <1>9 DEF WakesUp, Does, Stays
  <2>2. Well(World, pos)'
    BY <1>1, <1>9, WakesUpWell
  <2> QED BY <1>1, <2>1, <2>2, DeedKeeps
<1>10. CASE Digs
  <2>1. paying = Idle /\ paying' = paying /\ pos' = pos
    BY <1>10 DEF Digs, Does, Stays
  <2>2. Well(World, pos)'
    BY <1>1, <1>10, DigsWell
  <2> QED BY <1>1, <2>1, <2>2, DeedKeeps
<1> QED BY <1>2, <1>3, <1>4, <1>5, <1>6, <1>7, <1>8, <1>9, <1>10 DEF Shopkeeper

(* Gold.                                                                   *)
LEMMA GoldKeeps ==
  ASSUME BillInv, Gold
  PROVE  BillInv'
<1>1. Well(World, pos) /\ pos \in {"in", "edge", "out"}
  BY DEF BillInv
<1>2. ASSUME NEW amount, DropGold(amount) PROVE BillInv'
  <2>1. paying = Idle /\ paying' = paying /\ pos' = pos
    BY <1>2 DEF DropGold, Does, Stays
  <2>2. Well(World, pos)'
    BY <1>1, <1>2, DropGoldWell
  <2> QED BY <1>1, <2>1, <2>2, DeedKeeps
<1>3. ASSUME NEW amount, PickGold(amount) PROVE BillInv'
  <2>1. paying = Idle /\ paying' = paying /\ pos' = pos
    BY <1>3 DEF PickGold, Does, Stays
  <2>2. Well(World, pos)'
    BY <1>1, <1>3, PickGoldWell
  <2> QED BY <1>1, <2>1, <2>2, DeedKeeps
<1>4. ASSUME NEW amount, NEW annoys \in BOOLEAN, ThrowGold(amount, annoys) PROVE BillInv'
  <2>1. paying = Idle /\ paying' = paying /\ pos' = pos
    BY <1>4 DEF ThrowGold, Does, Stays
  <2>2. Well(World, pos)'
    BY <1>1, <1>4, ThrowGoldWell
  <2> QED BY <1>1, <2>1, <2>2, DeedKeeps
<1> QED BY <1>2, <1>3, <1>4 DEF Gold

(* Paying.                                                                 *)
LEMMA PaysKeeps ==
  ASSUME BillInv, Pays
  PROVE  BillInv'
<1>1. Well(World, pos) /\ pos \in {"in", "edge", "out"}
  BY DEF BillInv
<1>2. ASSUME NEW answer, PayForDamage(answer) PROVE BillInv'
  BY <1>1, <1>2, PayForDamageWell, DeedKeeps DEF PayForDamage, Does, Stays
<1> QED BY <1>2, dopayKeeps, PayEntryKeeps, PassEndsKeeps DEF Pays

(* So does every step,                                                     *)
LEMMA BillStep == BillInv /\ [Next]_vars => BillInv'
<1> SUFFICES ASSUME BillInv, [Next]_vars PROVE BillInv'
  OBVIOUS
<1>1. ASSUME NEW to \in {"in", "edge", "out"}, Walk(to) PROVE BillInv'
  <2>1. paying = Idle /\ paying' = paying /\ pos' = to
    BY <1>1 DEF Walk
  <2>2. Well(World, pos)'
    BY <1>1, WalkWell DEF BillInv
  <2> QED BY <1>1, <2>1, <2>2, DeedKeeps
<1>2. CASE UNCHANGED vars
  BY <1>2 DEF vars, BillInv, Looping, SecondPassBuysAll, Well, Fine, World, Whole
<1> QED BY <1>1, <1>2, HandlesKeeps, GoldKeeps, PaysKeeps, ShopkeeperKeeps DEF Next

(* so that it always holds.                                                *)
LEMMA BillInvariant == Spec => []BillInv
<1>1. Init => BillInv
  BY BillInit
<1> QED BY <1>1, BillStep, PTL DEF Spec

-----------------------------------------------------------------------------
(* Every variable keeps its type, in every history of the shop; no debt,   *)
(* credit or quantity is ever less than nothing, though the code subtracts *)
(* in pay, check_credit, splitbill, subfrombill and sellobj.               *)
THEOREM TypeCorrect == Spec => []TypeOK
<1>1. BillInv => TypeOK
  <2> SUFFICES ASSUME BillInv PROVE TypeOK
    OBVIOUS
  <2>1. Well(World, pos) /\ pos \in {"in", "edge", "out"} /\ Looping
    BY DEF BillInv
  <2>2. /\ World \in Worlds /\ World.obj = obj /\ World.shk = shk /\ World.umoney = umoney /\ World.till = till /\ World.ushops = ushops
    BY <2>1, WorldNow DEF Good
  <2>3. obj \in [Obj -> Struct] /\ shk \in Keepers /\ umoney \in Nat /\ till \in Nat /\ ushops \in BOOLEAN
        /\ \A i \in DOMAIN shk.bill : shk.bill[i] \in Lines
    BY <2>2, WorldParts
  <2>4. /\ shk.gold \in Nat /\ shk.credit \in Nat /\ shk.debit \in Nat /\ shk.loan \in Nat /\ shk.robbed \in Nat
        /\ shk.at \in {"shop", "out", "dead"} /\ shk.bill_p \in {"null", "own", "dump"}
    BY <2>3 DEF Keepers
  <2>5. paying.pass \in 0 .. 2 /\ paying.tmp \in Nat
    BY <2>1 DEF Looping
  <2> QED BY <2>1, <2>3, <2>4, <2>5 DEF TypeOK, Lines
<1> QED BY <1>1, BillInvariant, PTL

(* A bill without two entries for one object has as many objects as        *)
(* entries.                                                                *)
LEMMA OneIdEach ==
  ASSUME NEW b \in Seq(Lines), Distinct(b)
  PROVE  Cardinality({b[i].bo_id : i \in DOMAIN b}) = Len(b)
<1> DEFINE S == {b[i].bo_id : i \in DOMAIN b}
           f == [i \in DOMAIN b |-> b[i].bo_id]
<1>1. DOMAIN b = 1 .. Len(b) /\ Len(b) \in Nat
  OBVIOUS
<1>2. IsFiniteSet(DOMAIN b) /\ Cardinality(DOMAIN b) = Len(b)
  BY <1>1, FS_Interval
<1>3. f \in Bijection(DOMAIN b, S)
  <2>1. f \in [DOMAIN b -> S]
    OBVIOUS
  <2>2. \A i, j \in DOMAIN b : f[i] = f[j] => i = j
    BY DEF Distinct
  <2>3. \A t \in S : \E i \in DOMAIN b : f[i] = t
    OBVIOUS
  <2> HIDE DEF f, S
  <2> QED BY <2>1, <2>2, <2>3 DEF Bijection, Injection, Surjection, IsInjective
<1> HIDE DEF f
<1>4. Cardinality(S) = Cardinality(DOMAIN b)
  <2>1. ExistsBijection(DOMAIN b, S)
    BY <1>3 DEF ExistsBijection
  <2> HIDE DEF S
  <2> QED BY <1>2, <2>1, FS_Bijection
<1> QED BY <1>2, <1>4

(* onbill finds every object that is unpaid or was used up, wherever it    *)
(* has got to (shk.c, onbill: unpaid obj not on bill?), and each entry has *)
(* its object, with at least as many billed as are left of it (dopay:      *)
(* Shopkeeper administration out of order), through every split, merge,    *)
(* alteration, theft and payment.                                          *)
THEOREM BillsAgree == Spec => []BillAgrees
<1>1. BillInv => BillAgrees
  <2> SUFFICES ASSUME BillInv PROVE BillAgrees
    OBVIOUS
  <2>1. Good(World) /\ World.obj = obj /\ World.shk = shk
    BY WorldNow DEF BillInv
  <2>2. shk.bill \in Seq(Lines) /\ Distinct(shk.bill) /\ Match(obj, Lof(shk.bill))
    BY <2>1, GoodParts
  <2>3. Cardinality(ids) = Len(shk.bill)
    BY <2>2, OneIdEach DEF ids
  <2>4. \A o \in Obj : obj[o].unpaid \/ obj[o].where = "onbill" => o \in ids
    BY <2>2 DEF Match, Lof, ids
  <2>5. \A i \in DOMAIN shk.bill : Backs(shk.bill[i], obj[shk.bill[i].bo_id])
    BY <2>2 DEF Match, Lof
  <2> QED BY <2>3, <2>4, <2>5 DEF BillAgrees, Backs
<1> QED BY <1>1, BillInvariant, PTL

(* There is a bill only while the hero is in the shop and its keeper too,  *)
(* and bill_p points to it: u_left_shop, rob_shop, make_angry_shk and      *)
(* remote_burglary clear it in time, and u_entered_shop gives up no entry. *)
THEOREM BillInside == Spec => []BillStaysInside
<1>1. BillInv => BillStaysInside
  <2> SUFFICES ASSUME BillInv PROVE BillStaysInside
    OBVIOUS
  <2>1. Inside(World) /\ World.shk = shk /\ World.ushops = ushops
    BY WorldNow DEF BillInv
  <2> QED BY <2>1 DEF Inside, BillStaysInside, inhishop
<1> QED BY <1>1, BillInvariant, PTL

(* The price of each entry is the one he would ask now: rile_shk and       *)
(* pacify_shk touch the bill only when they change the surcharge,          *)
(* addtobill asks after shop_keeper has brought it up to date, and         *)
(* splitbill and subfrombill copy a price that is right.                   *)
THEOREM PricesCurrent == Spec => []PricesAgree
<1>1. BillInv => PricesAgree
  <2> SUFFICES ASSUME BillInv PROVE PricesAgree
    OBVIOUS
  <2>1. Good(World) /\ World.shk = shk
    BY WorldNow DEF BillInv
  <2> QED BY <2>1 DEF Good, Priced, PricesAgree
<1> QED BY <1>1, BillInvariant, PTL

(* The loan is never more than the debit it is part of: costly_gold adds   *)
(* the same to both, and sellobj and dopay never lower the debit by more   *)
(* than the loan while there is one.                                       *)
THEOREM LoansOwed == Spec => []LoanIsOwed
<1>1. BillInv => LoanIsOwed
  <2> SUFFICES ASSUME BillInv PROVE LoanIsOwed
    OBVIOUS
  <2>1. Good(World) /\ World.shk = shk
    BY WorldNow DEF BillInv
  <2> QED BY <2>1 DEF Good, Lent, LoanIsOwed
<1> QED BY <1>1, BillInvariant, PTL

(* When a bill is paid as a whole, the second pass of dopay finds nothing  *)
(* left of what was used up, and buys entry after entry at the front       *)
(* (dopay: the entry that comes in the place of the one paid is looked at  *)
(* next).                                                                  *)
THEOREM SecondPassBuys == Spec => []SecondPassBuysAll
<1>1. BillInv => SecondPassBuysAll
  BY DEF BillInv
<1> QED BY <1>1, BillInvariant, PTL
===============================================================================
