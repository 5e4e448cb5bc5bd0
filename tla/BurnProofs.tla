------------------------------ MODULE BurnProofs ------------------------------
(***************************************************************************)
(* Proofs about Burn, for any objects, levels, stages, fuel and number of  *)
(* turns: every variable keeps its type (TypeCorrect); what is lit has one *)
(* light and, unless it is magic, one timer, and nothing else has either   *)
(* (LitBurns); they are kept where their owner is, in memory or in a file  *)
(* (KeptWithOwners); saving knows every owner, but for two cases that are  *)
(* named (SaveKnowsOwners, SaveNeverFails); and what is lit loses a turn's *)
(* fuel a turn, wherever it is, and what is not lit none (FuelTime).       *)
(*                                                                         *)
(* The inductive invariant, Inv, says for each object and each of the      *)
(* places where lights and timers are kept how many of them there are: one *)
(* in the place where the object is, if it is lit, and none elsewhere.     *)
(* While the game runs that is a property of the world, Good, and each     *)
(* helper of the code takes good worlds to good worlds: first what it does *)
(* to one object (the lemmas named after what is done: PutOut, Alight,     *)
(* Freed), then that it is good.  Only level change, saving and restoring  *)
(* move lights and timers between the places.                              *)
(*                                                                         *)
(* For the fuel every step is followed as well: Has says by its timer what *)
(* fuel an object has in a world, Track that a helper leaves the fuel of   *)
(* each object in use as it was, but for a torch that may lose a turn's    *)
(* (or, when something merges, of each that is lit afterwards), and Spent  *)
(* says of a step, with the timers in all places, what it costs.           *)
(*                                                                         *)
(* No torch is for sale (NoTorchForSale): bill_dummy_object copies         *)
(* `lamplit' of a torch, and the copy has no light.                        *)
(***************************************************************************)
EXTENDS Burn, TimerQueueProofs

(* A timer_element of this module.                                         *)
Timer == [timeout : Nat, func : {"BURN_OBJECT"}, arg : Obj]

(* Those of o, and how many of them the list q has.                        *)
Of(o)   == {t \in Timer : t.arg = o}
N(q, o) == Num(q, Of(o))

(* No timer of the list is due.                                            *)
Prompt(q) == \A i \in DOMAIN q : q[i].timeout > monstermoves

-----------------------------------------------------------------------------
(* What the operations on the list do.                                     *)

(* Timeouts are integers, as TimerQueueProofs wants them.                  *)
LEMMA TimeoutsAreIntegers == HasTimeouts(Timer)
BY DEF HasTimeouts, Timer

(* The timers of q that are not of one of S are in r too, and r has no     *)
(* others of that sort.                                                    *)
SameBut(q, r, S) == \A W \in SUBSET Timer : (\A t \in W : t.arg \notin S) => Num(r, W) = Num(q, W)

(* Who is not of S has as many timers in r as in q.                        *)
LEMMA SameButN ==
  ASSUME NEW q, NEW r, NEW S, SameBut(q, r, S), NEW o, o \notin S
  PROVE  N(r, o) = N(q, o)
<1>1. Of(o) \in SUBSET Timer /\ \A t \in Of(o) : t.arg \notin S
  BY DEF Of
<1> HIDE DEF Of
<1> QED
  BY <1>1 DEF SameBut, N

(* Two changes in turn are one change.                                     *)
LEMMA SameButTrans ==
  ASSUME NEW q, NEW r, NEW s, NEW S, NEW T, SameBut(q, r, S), SameBut(r, s, T)
  PROVE  SameBut(q, s, S \cup T)
BY DEF SameBut

(* Some timer is of o just when their number is not 0.                     *)
LEMMA NPositive ==
  ASSUME NEW q \in Seq(Timer), NEW o
  PROVE  /\ N(q, o) \in Nat
         /\ N(q, o) = 0 <=> \A i \in DOMAIN q : q[i].arg # o
         /\ OnArg(q, o) = {} <=> N(q, o) = 0
         /\ Matches(q, "BURN_OBJECT", o) = OnArg(q, o)
<1>1. \A i \in DOMAIN q : q[i] \in Timer
  BY ElementOfSeq
<1>2. N(q, o) = 0 <=> \A i \in DOMAIN q : q[i] \notin Of(o)
  BY NumZero DEF N
<1>3. N(q, o) \in Nat
  BY NumType DEF N
<1> QED
  BY <1>1, <1>2, <1>3 DEF Of, OnArg, Matches, Timer

(* The empty list has no timers of anyone.                                 *)
LEMMA NEmpty == \A o : N(<<>>, o) = 0
BY NumEmpty DEF N

(* The timers that are due; a list is prompt when it has none.             *)
Late == {t \in Timer : t.timeout <= monstermoves}

(* A list is prompt when its number of due timers is 0.                    *)
LEMMA PromptNum ==
  ASSUME NEW q \in Seq(Timer), monstermoves \in Int
  PROVE  Prompt(q) <=> Num(q, Late) = 0
<1>1. \A i \in DOMAIN q : q[i] \in Timer
  BY ElementOfSeq
<1>2. Num(q, Late) = 0 <=> \A i \in DOMAIN q : q[i] \notin Late
  BY NumZero
<1> QED BY <1>1, <1>2 DEF Prompt, Timer, Late

(* r is q with the timer t of o.                                           *)
OneMore(q, r, t, o) ==
  /\ r \in Seq(Timer) /\ (Ordered(q) => Ordered(r))
  /\ Prompt(q) /\ t.timeout > monstermoves => Prompt(r)
  /\ SameBut(q, r, {o}) /\ N(r, o) = N(q, o) + 1
  /\ \E i \in DOMAIN r : r[i] = t

(* insert_timer adds one timer.                                            *)
LEMMA Inserted ==
  ASSUME NEW q \in Seq(Timer), NEW t \in Timer, NEW o, t.arg = o, monstermoves \in Int
  PROVE  OneMore(q, insert_timer(q, t), t, o)
<1> DEFINE r == insert_timer(q, t)
<1>1. r \in Seq(Timer) /\ (Ordered(q) => Ordered(r))
  BY InsertTimer, TimeoutsAreIntegers
<1>2. \A W : Num(r, W) = Num(q, W) + IF t \in W THEN 1 ELSE 0
  BY NumInsert, TimeoutsAreIntegers
<1>3. \A W : Num(q, W) \in Nat
  BY NumType
<1> HIDE DEF r
<1>4. ASSUME Prompt(q), t.timeout > monstermoves PROVE Prompt(r)
  <2>1. t \notin Late
    BY <1>4 DEF Timer, Late
  <2>2. Num(q, Late) = 0
    BY <1>4, PromptNum
  <2>3. Num(r, Late) = 0
    BY <1>2, <2>1, <2>2
  <2> QED BY <1>1, <2>3, PromptNum
<1>5. SameBut(q, r, {o})
  BY <1>2, <1>3 DEF SameBut
<1>6. t \in Of(o)
  BY DEF Of
<1>7. N(r, o) = N(q, o) + 1
  BY <1>2, <1>6 DEF N
<1>8. \E i \in DOMAIN r : r[i] = t
  <2>1. Num(r, {t}) # 0
    BY <1>2, <1>3
  <2> QED BY <1>1, <2>1, NumZero
<1> QED
  BY <1>1, <1>4, <1>5, <1>7, <1>8 DEF r, OneMore

(* A sub-list has no other timers, and all those that are kept.            *)
LEMMA Kept ==
  ASSUME NEW q \in Seq(Timer), NEW S \in SUBSET DOMAIN q
  PROVE  LET r == Keep(q, S) IN
         /\ r \in Seq(Timer) /\ (Ordered(q) => Ordered(r)) /\ (Prompt(q) => Prompt(r))
         /\ \A W \in SUBSET Timer : (\A i \in DOMAIN q : q[i] \in W => i \in S) => Num(r, W) = Num(q, W)
         /\ \A W : (\A i \in S : q[i] \notin W) => Num(r, W) = 0
<1> DEFINE r == Keep(q, S)
<1>1. /\ r \in Seq(Timer) /\ (Ordered(q) => Ordered(r))
      /\ \A k \in DOMAIN r : \E i \in S : r[k] = q[i]
  BY KeepList
<1>2. \A W : Num(r, W) = Cardinality(S \cap Sel(q, W))
  BY NumKeep
<1> HIDE DEF r
<1>3. Prompt(q) => Prompt(r)
  BY <1>1 DEF Prompt
<1>4. ASSUME NEW W \in SUBSET Timer, \A i \in DOMAIN q : q[i] \in W => i \in S
      PROVE  Num(r, W) = Num(q, W)
  <2>1. S \cap Sel(q, W) = Sel(q, W)
    BY <1>4 DEF Sel
  <2>2. Cardinality(S \cap Sel(q, W)) = Cardinality(Sel(q, W))
    BY <2>1, Zenon
  <2> QED BY <1>2, <2>2 DEF Num
<1>5. ASSUME NEW W, \A i \in S : q[i] \notin W PROVE Num(r, W) = 0
  <2>1. S \cap Sel(q, W) = {}
    BY <1>5 DEF Sel
  <2> QED BY <1>2, <2>1, FS_EmptySet
<1> QED
  BY <1>1, <1>3, <1>4, <1>5 DEF r

(* r has the timers of q whose owners are in S.                            *)
Those(q, r, S) ==
  /\ r \in Seq(Timer) /\ (Ordered(q) => Ordered(r)) /\ (Prompt(q) => Prompt(r))
  /\ \A W \in SUBSET Timer : (\A t \in W : t.arg \in S) => Num(r, W) = Num(q, W)
  /\ \A o : N(r, o) = IF o \in S THEN N(q, o) ELSE 0

(* save_timers.                                                            *)
LEMMA KeptOwners ==
  ASSUME NEW q \in Seq(Timer), NEW S
  PROVE  Those(q, Keep(q, {i \in DOMAIN q : q[i].arg \in S}), S)
<1> DEFINE K == {i \in DOMAIN q : q[i].arg \in S}
           r == Keep(q, K)
<1>1. /\ r \in Seq(Timer) /\ (Ordered(q) => Ordered(r)) /\ (Prompt(q) => Prompt(r))
      /\ \A W \in SUBSET Timer : (\A i \in DOMAIN q : q[i] \in W => i \in K) => Num(r, W) = Num(q, W)
      /\ \A W : (\A i \in K : q[i] \notin W) => Num(r, W) = 0
  BY Kept
<1> HIDE DEF r
<1>2. ASSUME NEW W \in SUBSET Timer, \A t \in W : t.arg \in S PROVE Num(r, W) = Num(q, W)
  BY <1>1, <1>2
<1>3. ASSUME NEW o, o \in S PROVE N(r, o) = N(q, o)
  <2>1. Of(o) \in SUBSET Timer /\ \A t \in Of(o) : t.arg \in S
    BY <1>3 DEF Of
  <2> QED BY <1>2, <2>1 DEF N
<1>4. ASSUME NEW o, o \notin S PROVE N(r, o) = 0
  <2>1. \A i \in K : q[i] \notin Of(o)
    BY <1>4 DEF Of
  <2> QED BY <1>1, <2>1 DEF N
<1> QED
  BY <1>1, <1>2, <1>3, <1>4 DEF r, K, Those

(* obj_stop_timers.                                                        *)
LEMMA StoppedAll ==
  ASSUME NEW q \in Seq(Timer), NEW o
  PROVE  LET r == stop_all(q, o) IN
         /\ r \in Seq(Timer) /\ (Ordered(q) => Ordered(r)) /\ (Prompt(q) => Prompt(r))
         /\ SameBut(q, r, {o}) /\ N(r, o) = 0
<1> DEFINE K == DOMAIN q \ OnArg(q, o)
           r == Keep(q, K)
<1>1. /\ r \in Seq(Timer) /\ (Ordered(q) => Ordered(r)) /\ (Prompt(q) => Prompt(r))
      /\ \A W \in SUBSET Timer : (\A i \in DOMAIN q : q[i] \in W => i \in K) => Num(r, W) = Num(q, W)
      /\ \A W : (\A i \in K : q[i] \notin W) => Num(r, W) = 0
  BY Kept
<1>2. r = stop_all(q, o)
  BY DEF stop_all
<1> HIDE DEF r
<1>3. SameBut(q, r, {o})
  BY <1>1 DEF SameBut, OnArg
<1>4. \A i \in K : q[i] \notin Of(o)
  BY DEF OnArg, Of
<1> QED
  BY <1>1, <1>2, <1>3, <1>4 DEF N

(* remove_timer, for the only timer of o.                                  *)
LEMMA RemovedOne ==
  ASSUME NEW q \in Seq(Timer), NEW o, N(q, o) = 1
  PROVE  LET r == remove_timer(q, "BURN_OBJECT", o) IN
         /\ r \in Seq(Timer) /\ (Ordered(q) => Ordered(r)) /\ (Prompt(q) => Prompt(r))
         /\ SameBut(q, r, {o}) /\ N(r, o) = 0
<1> DEFINE M == Matches(q, "BURN_OBJECT", o)
           K == DOMAIN q \ {Min(M)}
           r == remove_timer(q, "BURN_OBJECT", o)
<1>1. M # {} /\ \A i \in M : i \in DOMAIN q /\ q[i].arg = o
  BY NPositive DEF Matches, OnArg
<1>2. r = Keep(q, K)
  BY <1>1 DEF remove_timer
<1>3. PICK i \in M : Num(r, Of(o)) = Num(q, Of(o)) - IF q[i] \in Of(o) THEN 1 ELSE 0
  BY <1>1, NumRemove
<1>4. q[i] \in Of(o)
  BY <1>1, ElementOfSeq DEF Of
<1>5. N(r, o) = 0
  BY <1>3, <1>4 DEF N
<1>6. /\ r \in Seq(Timer) /\ (Ordered(q) => Ordered(r)) /\ (Prompt(q) => Prompt(r))
      /\ \A W \in SUBSET Timer : (\A j \in DOMAIN q : q[j] \in W => j \in K) => Num(r, W) = Num(q, W)
  BY <1>2, Kept
<1>7. M \in SUBSET Nat /\ M # {}
  BY <1>1
<1>8. Min(M) \in M
  <2>1. \E x \in M : \A y \in M : x <= y
    BY <1>7, LeastNatural
  <2> QED BY <2>1 DEF Min
<1>9. \A W \in SUBSET Timer : (\A t \in W : t.arg \notin {o}) => \A j \in DOMAIN q : q[j] \in W => j \in K
  BY <1>1, <1>8
<1> HIDE DEF r, K
<1>10. SameBut(q, r, {o})
  BY <1>6, <1>9 DEF SameBut
<1> QED
  BY <1>5, <1>6, <1>10 DEF r

(* obj_split_timers: n, which had no timer, is given those of o.           *)
LEMMA Copied ==
  ASSUME NEW q \in Seq(Timer), NEW o \in Obj, NEW n \in Obj, o # n, N(q, n) = 0
  PROVE  LET c == copies(q, o, n) IN
         /\ c \in Seq(Timer) /\ (Prompt(q) => Prompt(c)) /\ N(c, n) = N(q, o)
         /\ \A W \in SUBSET Timer : (\A t \in W : t.arg # n) => Num(c, W) = 0
<1> DEFINE r == move_timers(q, o, n)
           S == OnArg(q, o)
           c == Keep(r, S)
<1>1. Len(q) \in Nat /\ DOMAIN q = 1 .. Len(q) /\ \A i \in DOMAIN q : q[i] \in Timer
  BY ElementOfSeq
<1>2. r = [i \in DOMAIN q |-> IF q[i].arg = o THEN [q[i] EXCEPT !.arg = n] ELSE q[i]]
  BY DEF move_timers
<1>3. S \in SUBSET DOMAIN q /\ \A i \in DOMAIN q : i \in S <=> q[i].arg = o
  BY DEF OnArg
<1>4. c = copies(q, o, n)
  BY DEF copies
<1> HIDE DEF r, S
<1>5. ASSUME NEW i \in DOMAIN q
      PROVE  /\ r[i] \in Timer /\ r[i].timeout = q[i].timeout
             /\ r[i].arg = IF q[i].arg = o THEN n ELSE q[i].arg
  BY <1>1, <1>2 DEF Timer
<1>6. r \in Seq(Timer) /\ DOMAIN r = DOMAIN q
  BY <1>1, <1>2, <1>5, IsASeq
<1>7. \A i \in DOMAIN q : q[i].arg # n
  BY NPositive
<1>8. Sel(r, Of(n)) = Sel(q, Of(o))
  BY <1>1, <1>5, <1>6, <1>7 DEF Sel, Of
<1>9. N(r, n) = N(q, o)
  BY <1>8, Zenon DEF N, Num
<1>10. /\ c \in Seq(Timer) /\ (Prompt(r) => Prompt(c))
       /\ \A W \in SUBSET Timer : (\A i \in DOMAIN r : r[i] \in W => i \in S) => Num(c, W) = Num(r, W)
       /\ \A W : (\A i \in S : r[i] \notin W) => Num(c, W) = 0
  BY <1>3, <1>6, Kept
<1> HIDE DEF c
<1>11. Prompt(q) => Prompt(r)
  BY <1>5, <1>6 DEF Prompt
<1>12. Of(n) \in SUBSET Timer /\ \A i \in DOMAIN r : r[i] \in Of(n) => i \in S
  BY <1>3, <1>5, <1>6, <1>7 DEF Of
<1>13. N(c, n) = N(r, n)
  BY <1>10, <1>12 DEF N
<1>14. \A i \in S : r[i].arg = n
  BY <1>3, <1>5
<1> QED
  BY <1>4, <1>9, <1>10, <1>11, <1>13, <1>14

(* relinking.                                                              *)
LEMMA InsertedAll ==
  ASSUME NEW q \in Seq(Timer), NEW c \in Seq(Timer), monstermoves \in Int
  PROVE  LET r == insert_all(q, c) IN
         /\ r \in Seq(Timer) /\ (Ordered(q) => Ordered(r)) /\ (Prompt(q) /\ Prompt(c) => Prompt(r))
         /\ \A W : Num(r, W) = Num(q, W) + Num(c, W)
         /\ \A o : N(r, o) = N(q, o) + N(c, o)
<1> DEFINE r == insert_all(q, c)
<1>1. /\ r \in Seq(Timer) /\ (Ordered(q) => Ordered(r))
      /\ \A W : Num(r, W) = Num(q, W) + Num(c, W)
  BY InsertAll, TimeoutsAreIntegers
<1> HIDE DEF r
<1>2. Prompt(q) /\ Prompt(c) => Prompt(r)
  <2>1. Num(r, Late) = Num(q, Late) + Num(c, Late)
    BY <1>1
  <2> QED BY <1>1, <2>1, PromptNum
<1> QED
  BY <1>1, <1>2 DEF r, N

(* run_timers takes the head.                                              *)
LEMMA HeadTaken ==
  ASSUME NEW q \in Seq(Timer), q # <<>>
  PROVE  LET t == Head(q)
             r == Tail(q)
         IN  /\ t \in Timer /\ r \in Seq(Timer) /\ (Ordered(q) => Ordered(r))
             /\ SameBut(q, r, {t.arg}) /\ N(q, t.arg) = N(r, t.arg) + 1
<1> DEFINE t == Head(q)
           r == Tail(q)
<1>1. /\ t \in Timer /\ r \in Seq(Timer) /\ Len(r) = Len(q) - 1 /\ Len(q) \in Nat
      /\ \A i \in 1 .. Len(r) : r[i] = q[i + 1]
  BY HeadTailProperties
<1>2. \A W : Num(q, W) = Num(r, W) + IF t \in W THEN 1 ELSE 0
  BY NumTail
<1>3. \A W : Num(r, W) \in Nat
  BY <1>1, NumType
<1>4. Ordered(q) => Ordered(r)
  BY <1>1 DEF Ordered
<1> HIDE DEF t, r
<1>5. SameBut(q, r, {t.arg})
  BY <1>2, <1>3 DEF SameBut
<1>6. t \in Of(t.arg)
  BY <1>1 DEF Of
<1>7. N(q, t.arg) = N(r, t.arg) + 1
  BY <1>2, <1>6 DEF N
<1> QED
  BY <1>1, <1>4, <1>5, <1>7 DEF t, r

-----------------------------------------------------------------------------
(* When timers go off, and fuel.                                           *)

(* The timers of o in a list are as many as N says.                        *)
LEMMA OnArgNumber ==
  ASSUME NEW q \in Seq(Timer), NEW o
  PROVE  /\ N(q, o) = 0 => OnArg(q, o) = {}
         /\ N(q, o) = 1 => \E i : OnArg(q, o) = {i}
<1>1. \A i \in DOMAIN q : q[i] \in Timer
  BY ElementOfSeq
<1>2. Sel(q, Of(o)) = OnArg(q, o)
  BY <1>1 DEF Sel, OnArg, Of
<1>3. IsFiniteSet(OnArg(q, o)) /\ Cardinality(OnArg(q, o)) = N(q, o)
  <2>1. IsFiniteSet(Sel(q, Of(o)))
    BY NumType
  <2> QED BY <1>2, <2>1, Zenon DEF N, Num
<1>4. N(q, o) = 1 => \E i : OnArg(q, o) = {i}
  BY <1>3, FS_Singleton
<1>5. N(q, o) = 0 => OnArg(q, o) = {}
  BY NPositive
<1> QED
  BY <1>4, <1>5

(* Some timer of o goes off at x.                                          *)
GoesOff(q, o, x) == \E i \in DOMAIN q : q[i].arg = o /\ q[i].timeout = x

(* Those of o that go off at x.                                            *)
At1(o, x) == {t \in Of(o) : t.timeout = x}

(* A timer of o goes off at x just when there is one of that sort.         *)
LEMMA GoesOffNum ==
  ASSUME NEW q \in Seq(Timer), NEW o, NEW x
  PROVE  GoesOff(q, o, x) <=> Num(q, At1(o, x)) # 0
<1>1. \A i \in DOMAIN q : q[i] \in Timer
  BY ElementOfSeq
<1>2. Num(q, At1(o, x)) = 0 <=> \A i \in DOMAIN q : q[i] \notin At1(o, x)
  BY NumZero
<1>3. \A i \in DOMAIN q : q[i] \in At1(o, x) <=> q[i].arg = o /\ q[i].timeout = x
  BY <1>1 DEF At1, Of
<1> QED
  BY <1>2, <1>3 DEF GoesOff

(* Who is not of S has the same timers in r as in q.                       *)
LEMMA SameButGoesOff ==
  ASSUME NEW q \in Seq(Timer), NEW r \in Seq(Timer), NEW S, SameBut(q, r, S), NEW o, o \notin S
  PROVE  \A x : GoesOff(q, o, x) => GoesOff(r, o, x)
<1> SUFFICES ASSUME NEW x, GoesOff(q, o, x) PROVE GoesOff(r, o, x)
  OBVIOUS
<1>1. At1(o, x) \in SUBSET Timer /\ \A t \in At1(o, x) : t.arg \notin S
  BY DEF At1, Of
<1>2. Num(r, At1(o, x)) = Num(q, At1(o, x))
  BY <1>1 DEF SameBut
<1> QED
  BY <1>2, GoesOffNum

(* The only timer of o goes off but once.                                  *)
LEMMA GoesOffOnce ==
  ASSUME NEW q \in Seq(Timer), NEW o, N(q, o) = 1, NEW x, NEW y, GoesOff(q, o, x), GoesOff(q, o, y)
  PROVE  x = y
BY OnArgNumber DEF GoesOff, OnArg

(* Who is in S has the same timers in r as in q.                           *)
LEMMA ThoseGoesOff ==
  ASSUME NEW q \in Seq(Timer), NEW r, NEW S, Those(q, r, S), NEW o \in S
  PROVE  N(r, o) = N(q, o) /\ \A x : GoesOff(q, o, x) => GoesOff(r, o, x)
<1>1. r \in Seq(Timer) /\ N(r, o) = N(q, o)
  BY DEF Those
<1>2. ASSUME NEW x, GoesOff(q, o, x) PROVE GoesOff(r, o, x)
  <2>1. At1(o, x) \in SUBSET Timer /\ \A t \in At1(o, x) : t.arg \in S
    BY DEF At1, Of
  <2>2. Num(r, At1(o, x)) = Num(q, At1(o, x))
    BY <2>1 DEF Those
  <2> QED BY <1>1, <1>2, <2>2, GoesOffNum
<1> QED
  BY <1>1, <1>2

(* f is the fuel that o has left at time m, if its struct says a and its   *)
(* timers are in q: what the timer still burns down belongs to it.         *)
Fuel(m, q, o, a, f) == IF N(q, o) = 0 THEN f = a ELSE GoesOff(q, o, m + f - a)

(* It has some.                                                            *)
LEMMA FuelExists ==
  ASSUME NEW m \in Int, NEW q \in Seq(Timer), NEW o, NEW a \in Int
  PROVE  \E f \in Int : Fuel(m, q, o, a, f)
<1>1. CASE N(q, o) = 0
  BY <1>1 DEF Fuel
<1>2. CASE N(q, o) # 0
  <2>1. PICK i \in DOMAIN q : q[i].arg = o
    BY <1>2, NPositive
  <2> DEFINE x == q[i].timeout
             f == x + a - m
  <2>2. x \in Int
    <3>1. q[i] \in Timer
      BY <2>1, ElementOfSeq
    <3> QED BY <3>1 DEF Timer
  <2>3. GoesOff(q, o, x)
    BY <2>1 DEF GoesOff
  <2> HIDE DEF x
  <2>4. f \in Int /\ m + f - a = x
    BY <2>2
  <2> QED BY <1>2, <2>3, <2>4 DEF Fuel
<1> QED
  BY <1>1, <1>2

(* The fuel stays the same where the timers of o do.                       *)
LEMMA FuelStays ==
  ASSUME NEW q, NEW r, NEW o, N(r, o) = N(q, o), \A x : GoesOff(q, o, x) => GoesOff(r, o, x)
  PROVE  \A m, a, f : Fuel(m, q, o, a, f) => Fuel(m, r, o, a, f)
BY DEF Fuel

-----------------------------------------------------------------------------
(* Worlds, and what the helpers do to one object.                          *)

(* What the proofs need to know of the clock and the hero's level.         *)
Base == monstermoves \in Nat \ {0} /\ uz \in Level

(* The structs an object can have, and the worlds made of them.            *)
Ware   == [place : Places, many : BOOLEAN, unpaid : BOOLEAN, lamplit : BOOLEAN, age : Int]
Worlds == [obj : [Obj -> Ware], timers : Seq(Timer), lights : [Obj -> Nat]]

(* v is w but for the objects of S.                                        *)
Only(w, v, S) ==
  /\ v \in Worlds
  /\ \A o \in Obj \ S : v.obj[o] = w.obj[o] /\ v.lights[o] = w.lights[o]
  /\ SameBut(w.timers, v.timers, S)
  /\ Ordered(w.timers) => Ordered(v.timers)
  /\ Prompt(w.timers) => Prompt(v.timers)

(* Two changes in turn are one change.                                     *)
LEMMA OnlyTrans ==
  ASSUME NEW w, NEW v, NEW x, NEW S, NEW T, Only(w, v, S), Only(v, x, T)
  PROVE  Only(w, x, S \cup T)
BY SameButTrans DEF Only

(* The same, for one object.                                               *)
LEMMA OnlyTwice ==
  ASSUME NEW w, NEW v, NEW x, NEW o, Only(w, v, {o}), Only(v, x, {o})
  PROVE  Only(w, x, {o})
<1>1. {o} \cup {o} = {o}
  OBVIOUS
<1>2. Only(w, x, {o} \cup {o})
  BY OnlyTrans
<1> QED
  BY <1>1, <1>2, Zenon

(* No change is one, too.                                                  *)
LEMMA OnlySame ==
  ASSUME NEW w \in Worlds, NEW S
  PROVE  Only(w, w, S)
BY DEF Only, SameBut

(* Only the struct of o, only its lights, only its timers changes.         *)
LEMMA StructSet ==
  ASSUME NEW w \in Worlds, NEW o \in Obj, NEW x \in Ware
  PROVE  LET v == [w EXCEPT !.obj[o] = x] IN
         Only(w, v, {o}) /\ v.obj[o] = x /\ v.timers = w.timers /\ v.lights = w.lights
BY DEF Only, SameBut, Worlds

(* Only the lights of o change.                                            *)
LEMMA LightsSet ==
  ASSUME NEW w \in Worlds, NEW o \in Obj, NEW n \in Nat
  PROVE  LET v == [w EXCEPT !.lights[o] = n] IN
         Only(w, v, {o}) /\ v.lights[o] = n /\ v.timers = w.timers /\ v.obj = w.obj
BY DEF Only, SameBut, Worlds

(* Only the timers of o change.                                            *)
LEMMA TimersSet ==
  ASSUME NEW w \in Worlds, NEW o \in Obj, NEW q \in Seq(Timer), SameBut(w.timers, q, {o}),
         Ordered(w.timers) => Ordered(q), Prompt(w.timers) => Prompt(q)
  PROVE  LET v == [w EXCEPT !.timers = q] IN
         Only(w, v, {o}) /\ v.timers = q /\ v.lights = w.lights /\ v.obj = w.obj
BY DEF Only, Worlds

(* What a world consists of.                                               *)
LEMMA WorldParts ==
  ASSUME NEW w \in Worlds
  PROVE  /\ w.timers \in Seq(Timer) /\ w.obj \in [Obj -> Ware] /\ w.lights \in [Obj -> Nat]
         /\ \A o \in Obj : /\ w.obj[o].lamplit \in BOOLEAN /\ w.obj[o].age \in Int /\ w.obj[o] \in Ware
                           /\ w.lights[o] \in Nat /\ N(w.timers, o) \in Nat
                           /\ w.obj[o].place \in Places /\ w.obj[o].unpaid \in BOOLEAN /\ w.obj[o].many \in BOOLEAN
<1>1. w.timers \in Seq(Timer) /\ w.obj \in [Obj -> Ware] /\ w.lights \in [Obj -> Nat]
  BY DEF Worlds
<1>2. \A o \in Obj : N(w.timers, o) \in Nat
  BY <1>1, NPositive
<1> QED
  BY <1>1, <1>2 DEF Ware

(* The fuel of o in a world, and that it is the same in another.           *)
Has(w, o, f)      == Fuel(monstermoves, w.timers, o, w.obj[o].age, f)
SameFuel(w, v, o) == \A f \in Int : Has(w, o, f) => Has(v, o, f)

(* What a change leaves alone keeps its fuel.                              *)
LEMMA OnlyFuel ==
  ASSUME NEW w \in Worlds, NEW v, NEW S, Only(w, v, S), NEW o \in Obj, o \notin S
  PROVE  SameFuel(w, v, o)
<1>1. w.timers \in Seq(Timer) /\ v.timers \in Seq(Timer) /\ SameBut(w.timers, v.timers, S)
  BY WorldParts DEF Only
<1>2. N(v.timers, o) = N(w.timers, o) /\ \A x : GoesOff(w.timers, o, x) => GoesOff(v.timers, o, x)
  BY <1>1, SameButN, SameButGoesOff
<1>3. \A m, a, f : Fuel(m, w.timers, o, a, f) => Fuel(m, v.timers, o, a, f)
  BY <1>2, FuelStays
<1>4. v.obj[o] = w.obj[o]
  BY DEF Only
<1> QED
  BY <1>3, <1>4 DEF SameFuel, Has

(* So does what keeps its timers and its age.                              *)
LEMMA AgedFuel ==
  ASSUME NEW w, NEW v, NEW o, v.timers = w.timers, v.obj[o].age = w.obj[o].age
  PROVE  SameFuel(w, v, o)
BY DEF SameFuel, Has

(* The struct and the fuel of o are the same.                              *)
Untouched(w, v, o) == v.obj[o] = w.obj[o] /\ SameFuel(w, v, o)

(* A change of others leaves them alone.                                   *)
LEMMA OnlyUntouched ==
  ASSUME NEW w \in Worlds, NEW v, NEW S, Only(w, v, S)
  PROVE  \A o \in Obj \ S : Untouched(w, v, o)
BY OnlyFuel DEF Untouched, Only

(* With no timer before and none after, it is the age.                     *)
LEMMA DarkFuel ==
  ASSUME NEW w, NEW v, NEW o, N(w.timers, o) = 0, N(v.timers, o) = 0, v.obj[o].age = w.obj[o].age
  PROVE  SameFuel(w, v, o)
BY DEF SameFuel, Has, Fuel

(* The numbers of o in memory agree with its struct.                       *)
Lit(w, o)   == IF w.obj[o].lamplit THEN 1 ELSE 0
Burns(w, o) == IF w.obj[o].lamplit /\ o \notin MagicLamps THEN 1 ELSE 0
Agrees(w, o) == w.lights[o] = Lit(w, o) /\ N(w.timers, o) = Burns(w, o)

(* v is w with o put out; that costs no fuel.                              *)
PutOut(w, v, o) ==
  /\ Only(w, v, {o}) /\ SameFuel(w, v, o)
  /\ v.lights[o] = 0 /\ N(v.timers, o) = 0
  /\ \E a \in Int :
       /\ v.obj[o] = [w.obj[o] EXCEPT !.lamplit = FALSE, !.age = a]
       /\ N(w.timers, o) = 0 => a = w.obj[o].age
       /\ Prompt(w.timers) /\ w.obj[o].age >= 0 => a >= 0

(* v is w with o put out and the time up to e given back.                  *)
Unburnt(w, v, o, e) ==
  /\ Only(w, v, {o}) /\ v.timers = w.timers /\ v.lights[o] = less(w.lights[o])
  /\ v.obj[o] = [w.obj[o] EXCEPT !.lamplit = FALSE, !.age = @ + e - monstermoves]

(* cleanup_burn of a lit object.                                           *)
LEMMA CleanedUp ==
  ASSUME NEW w \in Worlds, NEW o \in Obj, NEW e \in Int, monstermoves \in Int, w.obj[o].lamplit
  PROVE  Unburnt(w, cleanup_burn(w, o, e), o, e)
<1> DEFINE a == w.obj[o].age + e - monstermoves
           x == [w.obj[o] EXCEPT !.lamplit = FALSE, !.age = a]
           u == [w EXCEPT !.lights[o] = less(w.lights[o])]
           v == [u EXCEPT !.obj[o] = x]
<1>1. a \in Int /\ less(w.lights[o]) \in Nat
  BY WorldParts DEF less
<1>2. x \in Ware
  BY <1>1, WorldParts DEF Ware
<1>3. Only(w, u, {o}) /\ u.lights[o] = less(w.lights[o]) /\ u.timers = w.timers /\ u.obj = w.obj
  BY <1>1, LightsSet
<1>4. u \in Worlds
  BY <1>3 DEF Only
<1>5. Only(u, v, {o}) /\ v.obj[o] = x /\ v.timers = u.timers /\ v.lights = u.lights
  BY <1>2, <1>4, StructSet
<1>6. v = cleanup_burn(w, o, e)
  BY <1>3 DEF cleanup_burn, del_light_source
<1> HIDE DEF u, v, x
<1>7. Only(w, v, {o})
  BY <1>3, <1>5, OnlyTwice
<1> QED
  BY <1>3, <1>5, <1>6, <1>7 DEF x, Unburnt

(* When the timer of o goes off.                                           *)
LEMMA ExpiryTime ==
  ASSUME NEW w \in Worlds, NEW o \in Obj, N(w.timers, o) # 0, monstermoves \in Int
  PROVE  BurnTimer(w, o) # {} /\ Expiry(w, o) \in Nat /\ (Prompt(w.timers) => Expiry(w, o) > monstermoves)
<1> DEFINE M == BurnTimer(w, o)
<1>1. w.timers \in Seq(Timer) /\ M = OnArg(w.timers, o) /\ M # {}
  BY WorldParts, NPositive DEF BurnTimer
<1>2. M \in SUBSET Nat /\ \A i \in M : i \in DOMAIN w.timers
  BY <1>1 DEF OnArg
<1>3. Min(M) \in M
  <2>1. \E x \in M : \A y \in M : x <= y
    BY <1>1, <1>2, LeastNatural
  <2> QED BY <2>1 DEF Min
<1>4. w.timers[Min(M)] \in Timer /\ Min(M) \in DOMAIN w.timers
  BY <1>1, <1>2, <1>3, ElementOfSeq
<1> HIDE DEF M
<1>5. Expiry(w, o) = w.timers[Min(M)].timeout
  BY DEF Expiry, M
<1> QED
  BY <1>1, <1>4, <1>5 DEF Timer, Prompt, M

(* That is when the only one goes off.                                     *)
LEMMA ExpiryOnly ==
  ASSUME NEW w \in Worlds, NEW o \in Obj, N(w.timers, o) = 1
  PROVE  GoesOff(w.timers, o, Expiry(w, o)) /\ \A x : GoesOff(w.timers, o, x) => x = Expiry(w, o)
<1>1. w.timers \in Seq(Timer)
  BY WorldParts
<1>2. PICK i : OnArg(w.timers, o) = {i}
  BY <1>1, OnArgNumber
<1>3. BurnTimer(w, o) = {i}
  BY <1>1, <1>2, NPositive DEF BurnTimer
<1>4. i \in DOMAIN w.timers /\ w.timers[i].arg = o
  BY <1>2 DEF OnArg
<1>5. i \in Nat
  BY <1>1, <1>4
<1>6. Min({i}) = i
  BY <1>5 DEF Min
<1>7. Expiry(w, o) = w.timers[i].timeout
  BY <1>3, <1>6 DEF Expiry
<1>8. GoesOff(w.timers, o, Expiry(w, o))
  BY <1>4, <1>7 DEF GoesOff
<1> QED
  BY <1>1, <1>8, GoesOffOnce

(* stop_timer finds the timer of what is lit.                              *)
LEMMA TimerStopped ==
  ASSUME NEW w \in Worlds, NEW o \in Obj, monstermoves \in Int,
         w.obj[o].lamplit, w.lights[o] = 1, N(w.timers, o) = 1
  PROVE  PutOut(w, stop_timer(w, o), o)
<1> DEFINE q == remove_timer(w.timers, "BURN_OBJECT", o)
           e == Expiry(w, o)
           u == [w EXCEPT !.timers = q]
           v == cleanup_burn(u, o, e)
<1>1. BurnTimer(w, o) # {} /\ e \in Nat /\ (Prompt(w.timers) => e > monstermoves)
  BY ExpiryTime
<1>2. v = stop_timer(w, o)
  BY <1>1 DEF stop_timer
<1>3. w.timers \in Seq(Timer) /\ w.obj[o].age \in Int
  BY WorldParts
<1>4. /\ q \in Seq(Timer) /\ (Ordered(w.timers) => Ordered(q)) /\ (Prompt(w.timers) => Prompt(q))
      /\ SameBut(w.timers, q, {o}) /\ N(q, o) = 0
  BY <1>3, RemovedOne
<1> HIDE DEF q, e
<1>5. Only(w, u, {o}) /\ u.timers = q /\ u.lights = w.lights /\ u.obj = w.obj
  BY <1>4, TimersSet
<1>6. u \in Worlds /\ u.obj[o].lamplit
  BY <1>5 DEF Only
<1> HIDE DEF u
<1>7. /\ Only(u, v, {o}) /\ v.timers = u.timers /\ v.lights[o] = less(u.lights[o])
      /\ v.obj[o] = [u.obj[o] EXCEPT !.lamplit = FALSE, !.age = @ + e - monstermoves]
  <2>1. Unburnt(u, cleanup_burn(u, o, e), o, e)
    BY <1>1, <1>6, CleanedUp
  <2> QED BY <2>1 DEF Unburnt
<1> HIDE DEF v
<1>8. Only(w, v, {o})
  BY <1>5, <1>7, OnlyTwice
<1> DEFINE a == w.obj[o].age + e - monstermoves
<1>9. a \in Int /\ (Prompt(w.timers) /\ w.obj[o].age >= 0 => a >= 0)
  BY <1>1, <1>3
<1>10. v.obj[o] = [w.obj[o] EXCEPT !.lamplit = FALSE, !.age = a]
  BY <1>5, <1>7
<1>11. v.lights[o] = 0 /\ N(v.timers, o) = 0
  BY <1>4, <1>5, <1>7 DEF less
<1> HIDE DEF a
<1>12. \E b \in Int :
         /\ v.obj[o] = [w.obj[o] EXCEPT !.lamplit = FALSE, !.age = b]
         /\ N(w.timers, o) = 0 => b = w.obj[o].age
         /\ Prompt(w.timers) /\ w.obj[o].age >= 0 => b >= 0
  <2>1. N(w.timers, o) # 0
    OBVIOUS
  <2> QED BY <1>9, <1>10, <2>1
<1>13. SameFuel(w, v, o)
  <2>1. ASSUME NEW f \in Int, Has(w, o, f) PROVE Has(v, o, f)
    <3>1. GoesOff(w.timers, o, monstermoves + f - w.obj[o].age)
      BY <2>1 DEF Has, Fuel
    <3>2. e = monstermoves + f - w.obj[o].age
      BY <3>1, ExpiryOnly DEF e
    <3>3. f = w.obj[o].age + e - monstermoves
      BY <1>3, <3>2
    <3>4. v.obj[o].age = w.obj[o].age + e - monstermoves
      BY <1>10, WorldParts DEF a, Ware
    <3> QED BY <1>11, <3>3, <3>4 DEF Has, Fuel
  <2> QED BY <2>1 DEF SameFuel
<1> QED
  BY <1>2, <1>8, <1>11, <1>12, <1>13 DEF PutOut

(* end_burn.                                                               *)
LEMMA EndedBurn ==
  ASSUME NEW w \in Worlds, NEW o \in Obj, NEW b \in BOOLEAN, monstermoves \in Int,
         w.lights[o] = Lit(w, o), N(w.timers, o) = IF b THEN Burns(w, o) ELSE 0
  PROVE  PutOut(w, end_burn(w, o, b), o)
<1> DEFINE v == end_burn(w, o, b)
<1>1. CASE ~w.obj[o].lamplit
  <2>1. v = w
    BY <1>1 DEF end_burn
  <2>2. w.obj[o] = [w.obj[o] EXCEPT !.lamplit = FALSE, !.age = w.obj[o].age] /\ w.obj[o].age \in Int
    BY <1>1, WorldParts DEF Ware
  <2>3. Only(w, w, {o})
    BY OnlySame
  <2>4. w.lights[o] = 0 /\ N(w.timers, o) = 0
    BY <1>1 DEF Lit, Burns
  <2>5. SameFuel(w, w, o)
    BY DEF SameFuel
  <2> QED BY <2>1, <2>2, <2>3, <2>4, <2>5 DEF PutOut
<1>2. CASE w.obj[o].lamplit /\ b /\ o \notin MagicLamps
  <2>1. v = stop_timer(w, o)
    BY <1>2 DEF end_burn
  <2>2. w.lights[o] = 1 /\ N(w.timers, o) = 1
    BY <1>2 DEF Lit, Burns
  <2> QED BY <1>2, <2>1, <2>2, TimerStopped
<1>3. CASE w.obj[o].lamplit /\ ~(b /\ o \notin MagicLamps)
  <2> DEFINE x == [w.obj[o] EXCEPT !.lamplit = FALSE, !.age = w.obj[o].age]
             u == [w EXCEPT !.lights[o] = 0]
  <2>1. w.lights[o] = 1 /\ N(w.timers, o) = 0
    BY <1>3 DEF Lit, Burns
  <2>2. del_light_source(w, o) = u
    BY <2>1 DEF del_light_source, less
  <2>3. v = [u EXCEPT !.obj[o].lamplit = FALSE]
    BY <1>3, <2>2 DEF end_burn
  <2>4. x \in Ware /\ x = [w.obj[o] EXCEPT !.lamplit = FALSE] /\ w.obj[o].age \in Int
    BY WorldParts DEF Ware
  <2>5. Only(w, u, {o}) /\ u.lights[o] = 0 /\ u.timers = w.timers /\ u.obj = w.obj
    BY LightsSet
  <2>6. u \in Worlds
    BY <2>5 DEF Only
  <2> DEFINE y == [u EXCEPT !.obj[o] = x]
  <2> HIDE DEF x, u
  <2>7. Only(u, y, {o}) /\ y.obj[o] = x /\ y.timers = u.timers /\ y.lights = u.lights
    BY <2>4, <2>6, StructSet
  <2>8. v = y
    BY <2>3, <2>4, <2>5
  <2> HIDE DEF u, y, v
  <2>9. Only(w, v, {o})
    BY <2>5, <2>7, <2>8, OnlyTwice
  <2>10. v.lights[o] = 0 /\ N(v.timers, o) = 0 /\ v.obj[o] = x
    BY <2>1, <2>5, <2>7, <2>8
  <2>11. v.obj[o].age = w.obj[o].age
    BY <2>4, <2>10, WorldParts DEF Ware, x
  <2>12. SameFuel(w, v, o)
    BY <2>1, <2>10, <2>11, DarkFuel
  <2> QED BY <2>4, <2>9, <2>10, <2>12 DEF PutOut, v, x
<1> QED
  BY <1>1, <1>2, <1>3

(* v is w with o gone.                                                     *)
Freed(w, v, o) == Only(w, v, {o}) /\ v.obj[o] = NoObj /\ v.lights[o] = 0 /\ N(v.timers, o) = 0

(* The struct of a free slot is one.                                       *)
LEMMA NoObjWare == NoObj \in Ware
BY DEF NoObj, Ware, Gone, At, Places

(* v is w with the timers of o stopped: it is alight only if it had none.  *)
Halted(w, v, o) ==
  /\ Only(w, v, {o}) /\ N(v.timers, o) = 0 /\ v.lights[o] = Lit(v, o)
  /\ v.obj[o].lamplit => w.obj[o].lamplit /\ N(w.timers, o) = 0
  /\ \E a \in Int :
       /\ v.obj[o] = [w.obj[o] EXCEPT !.lamplit = v.obj[o].lamplit, !.age = a]
       /\ N(w.timers, o) = 0 => a = w.obj[o].age
       /\ Prompt(w.timers) /\ w.obj[o].age >= 0 => a >= 0

(* obj_stop_timers.                                                        *)
LEMMA ObjStopped ==
  ASSUME NEW w \in Worlds, NEW o \in Obj, monstermoves \in Int, w.lights[o] = Lit(w, o)
  PROVE  Halted(w, obj_stop_timers(w, o), o)
<1> DEFINE v == obj_stop_timers(w, o)
<1>0. w.timers \in Seq(Timer) /\ w.obj[o] \in Ware /\ w.obj[o].age \in Int /\ w.obj[o].lamplit \in BOOLEAN
      /\ N(w.timers, o) \in Nat
  BY WorldParts
<1>1. CASE N(w.timers, o) = 0
  <2>1. BurnTimer(w, o) = {}
    BY <1>0, <1>1, NPositive DEF BurnTimer
  <2>2. v = w
    BY <2>1 DEF obj_stop_timers
  <2>3. w.obj[o] = [w.obj[o] EXCEPT !.lamplit = w.obj[o].lamplit, !.age = w.obj[o].age]
    BY <1>0 DEF Ware
  <2>4. Only(w, w, {o})
    BY OnlySame
  <2> HIDE DEF v
  <2> QED BY <1>0, <1>1, <2>2, <2>3, <2>4 DEF v, Halted
<1>2. CASE N(w.timers, o) # 0
  <2> DEFINE q == stop_all(w.timers, o)
             e == Expiry(w, o)
             u == [w EXCEPT !.timers = q]
  <2>1. BurnTimer(w, o) # {} /\ e \in Nat /\ (Prompt(w.timers) => e > monstermoves)
    BY <1>2, ExpiryTime
  <2>2. v = cleanup_burn(u, o, e)
    BY <2>1 DEF obj_stop_timers
  <2>3. /\ q \in Seq(Timer) /\ (Ordered(w.timers) => Ordered(q)) /\ (Prompt(w.timers) => Prompt(q))
        /\ SameBut(w.timers, q, {o}) /\ N(q, o) = 0
    BY <1>0, StoppedAll
  <2> HIDE DEF q, e, v
  <2>4. Only(w, u, {o}) /\ u.timers = q /\ u.lights = w.lights /\ u.obj = w.obj
    BY <2>3, TimersSet
  <2>5. u \in Worlds /\ u.obj[o].lamplit = w.obj[o].lamplit
    BY <2>4 DEF Only
  <2> HIDE DEF u
  <2>6. CASE ~w.obj[o].lamplit
    <3>1. v = u
      BY <2>2, <2>4, <2>6 DEF cleanup_burn
    <3>2. w.obj[o] = [w.obj[o] EXCEPT !.lamplit = FALSE, !.age = w.obj[o].age]
      BY <1>0, <2>6 DEF Ware
    <3> QED BY <1>0, <1>2, <2>3, <2>4, <2>6, <3>1, <3>2 DEF Lit, v, Halted
  <2>7. CASE w.obj[o].lamplit
    <3> DEFINE a == w.obj[o].age + e - monstermoves
    <3>1. /\ Only(u, v, {o}) /\ v.timers = u.timers /\ v.lights[o] = less(u.lights[o])
          /\ v.obj[o] = [u.obj[o] EXCEPT !.lamplit = FALSE, !.age = @ + e - monstermoves]
      <4>1. u.obj[o].lamplit /\ e \in Int
        BY <2>1, <2>5, <2>7
      <4>2. Unburnt(u, cleanup_burn(u, o, e), o, e)
        BY <2>5, <4>1, CleanedUp
      <4> QED BY <2>2, <4>2 DEF Unburnt
    <3>2. Only(w, v, {o})
      BY <2>4, <3>1, OnlyTwice
    <3>3. a \in Int /\ (Prompt(w.timers) /\ w.obj[o].age >= 0 => a >= 0)
      BY <1>0, <2>1
    <3>4. v.obj[o] = [w.obj[o] EXCEPT !.lamplit = FALSE, !.age = a]
      BY <2>4, <3>1
    <3>5. ~v.obj[o].lamplit
      BY <1>0, <3>4 DEF Ware
    <3>6. v.lights[o] = 0 /\ N(v.timers, o) = 0
      BY <2>3, <2>4, <2>7, <3>1 DEF less, Lit
    <3>7. v.obj[o] = [w.obj[o] EXCEPT !.lamplit = v.obj[o].lamplit, !.age = a]
      BY <1>0, <3>4, <3>5 DEF Ware
    <3> HIDE DEF a
    <3> QED BY <1>2, <3>2, <3>3, <3>5, <3>6, <3>7 DEF Lit, v, Halted
  <2> QED BY <1>0, <2>6, <2>7
<1> QED
  BY <1>1, <1>2

(* dealloc_obj.                                                            *)
LEMMA Deallocated ==
  ASSUME NEW w \in Worlds, NEW o \in Obj, monstermoves \in Int, w.lights[o] = Lit(w, o)
  PROVE  Freed(w, dealloc_obj(w, o), o)
<1> DEFINE v == obj_stop_timers(w, o)
           n == IF v.obj[o].lamplit THEN 0 ELSE v.lights[o]
           u == [v EXCEPT !.lights[o] = n]
           x == [u EXCEPT !.obj[o] = NoObj]
<1>1. Only(w, v, {o}) /\ N(v.timers, o) = 0 /\ v.lights[o] = Lit(v, o)
  BY ObjStopped DEF Halted
<1>2. v \in Worlds
  BY <1>1 DEF Only
<1> HIDE DEF v
<1>3. n = 0
  BY <1>1 DEF Lit
<1> HIDE DEF n
<1>4. Only(v, u, {o}) /\ u.lights[o] = n /\ u.timers = v.timers /\ u.obj = v.obj
  BY <1>2, <1>3, LightsSet
<1>5. u \in Worlds
  BY <1>4 DEF Only
<1>6. u = IF v.obj[o].lamplit THEN del_light_source(v, o) ELSE v
  <2>1. v.lights = [v.lights EXCEPT ![o] = v.lights[o]] /\ v = [v EXCEPT !.lights = v.lights]
    BY <1>2 DEF Worlds
  <2>2. CASE v.obj[o].lamplit
    BY <1>1, <1>3, <2>2 DEF del_light_source, less, Lit
  <2>3. CASE ~v.obj[o].lamplit
    BY <1>1, <1>3, <2>1, <2>3 DEF Lit
  <2> QED BY <2>2, <2>3
<1>7. x = dealloc_obj(w, o)
  BY <1>6 DEF dealloc_obj, v
<1> HIDE DEF u
<1>8. Only(u, x, {o}) /\ x.obj[o] = NoObj /\ x.timers = u.timers /\ x.lights = u.lights
  BY <1>5, NoObjWare, StructSet
<1> HIDE DEF x
<1>9. Only(w, x, {o})
  BY <1>1, <1>4, <1>8, OnlyTwice
<1> QED
  BY <1>1, <1>3, <1>4, <1>7, <1>8, <1>9 DEF Freed

-----------------------------------------------------------------------------
(* Lighting.                                                               *)

(* The next stage is at least a turn away, and not before the fuel is gone.*)
LEMMA NextStage ==
  ASSUME NEW o \in Obj, NEW fuel \in Nat \ {0}
  PROVE  Turns(o, fuel) \in 1 .. fuel
<1> DEFINE S == {s \in Stages : s < fuel}
<1>1. S \in SUBSET Nat /\ S # {} /\ \A s \in S : s <= fuel
  <2>1. Stages \in SUBSET Nat /\ 0 \in Stages
    BY FuelIsNatural
  <2>2. 0 \in S
    BY <2>1
  <2>3. S \in SUBSET Nat
    BY <2>1
  <2>4. \A s \in S : s < fuel /\ s \in Nat
    BY <2>3
  <2> HIDE DEF S
  <2>5. \A s \in S : s <= fuel
    BY <2>4
  <2> QED BY <2>2, <2>3, <2>5
<1>2. Max(S) \in S
  <2>1. \E m \in S : \A s \in S : s <= m
    BY <1>1, GreatestNatural
  <2>2. \E m \in S : \A s \in S : m >= s
    BY <1>1, <2>1
  <2> QED BY <2>2 DEF Max
<1>3. Max(S) \in Nat /\ Max(S) < fuel
  BY <1>1, <1>2
<1> QED
  BY <1>3 DEF Turns

(* v is w with o alight until its fuel is gone; b: it was lit before.      *)
Alight(w, v, o, b) ==
  /\ Only(w, v, {o})
  /\ v.lights[o] = w.lights[o] + IF b THEN 0 ELSE 1
  /\ N(v.timers, o) = N(w.timers, o) + IF o \in MagicLamps THEN 0 ELSE 1
  /\ \E a \in Int :
       /\ v.obj[o] = [w.obj[o] EXCEPT !.lamplit = TRUE, !.age = a]
       /\ w.obj[o].age >= 0 => a >= 0
       /\ o \notin MagicLamps => GoesOff(v.timers, o, monstermoves + w.obj[o].age - a)

(* What its timer burns down is what it had.                               *)
LEMMA AlightFuel ==
  ASSUME Base, NEW w \in Worlds, NEW v, NEW o \in Obj, NEW b, Alight(w, v, o, b), N(w.timers, o) = 0, o \notin MagicLamps
  PROVE  SameFuel(w, v, o)
<1>1. PICK a \in Int : /\ v.obj[o] = [w.obj[o] EXCEPT !.lamplit = TRUE, !.age = a]
                       /\ GoesOff(v.timers, o, monstermoves + w.obj[o].age - a)
  BY DEF Alight
<1>2. N(v.timers, o) # 0
  BY DEF Alight
<1>3. w.obj[o] \in Ware
  BY WorldParts
<1>4. v.obj[o].age = a
  BY <1>1, <1>3 DEF Ware
<1> QED
  BY <1>1, <1>2, <1>4 DEF SameFuel, Has, Fuel

(* begin_burn does nothing when there is no fuel.                          *)
LEMMA BurnStarted ==
  ASSUME NEW w \in Worlds, NEW o \in Obj, NEW b \in BOOLEAN, monstermoves \in Nat, w.obj[o].age >= 0,
         o \in MagicLamps \/ w.obj[o].age # 0
  PROVE  Alight(w, begin_burn(w, o, b), o, b)
<1> DEFINE v == begin_burn(w, o, b)
           fuel == w.obj[o].age
<1>1. /\ w.timers \in Seq(Timer) /\ w.obj[o] \in Ware /\ fuel \in Int /\ w.lights[o] \in Nat
      /\ N(w.timers, o) \in Nat
  BY WorldParts
<1> DEFINE lit == IF o \in MagicLamps THEN [w EXCEPT !.obj[o].lamplit = TRUE]
                  ELSE start_burn_timer(w, o, Turns(o, fuel))
<1>2. v = IF b THEN lit ELSE new_light_source(lit, o)
  BY <1>1 DEF begin_burn
<1>3. /\ Only(w, lit, {o}) /\ lit.lights = w.lights
      /\ N(lit.timers, o) = N(w.timers, o) + IF o \in MagicLamps THEN 0 ELSE 1
      /\ \E a \in Int :
           /\ lit.obj[o] = [w.obj[o] EXCEPT !.lamplit = TRUE, !.age = a]
           /\ a >= 0
           /\ o \notin MagicLamps => GoesOff(lit.timers, o, monstermoves + fuel - a)
  <2>1. CASE o \in MagicLamps
    <3> DEFINE x == [w.obj[o] EXCEPT !.lamplit = TRUE, !.age = fuel]
               u == [w EXCEPT !.obj[o] = x]
    <3>1. x \in Ware /\ x = [w.obj[o] EXCEPT !.lamplit = TRUE]
      BY <1>1 DEF Ware
    <3>2. lit = u
      BY <2>1, <3>1
    <3> HIDE DEF x
    <3>3. Only(w, u, {o}) /\ u.obj[o] = x /\ u.timers = w.timers /\ u.lights = w.lights
      BY <3>1, StructSet
    <3>4. Only(w, lit, {o}) /\ lit.obj[o] = x /\ lit.timers = w.timers /\ lit.lights = w.lights
      BY <3>2, <3>3
    <3> HIDE DEF u, lit
    <3>5. lit.obj[o] = [w.obj[o] EXCEPT !.lamplit = TRUE, !.age = fuel] /\ fuel \in Int /\ fuel >= 0
      BY <1>1, <3>4 DEF x
    <3> HIDE DEF fuel
    <3>6. N(lit.timers, o) = N(w.timers, o) + IF o \in MagicLamps THEN 0 ELSE 1
      BY <1>1, <2>1, <3>4
    <3>7. \E a \in Int :
            /\ lit.obj[o] = [w.obj[o] EXCEPT !.lamplit = TRUE, !.age = a]
            /\ a >= 0
            /\ o \notin MagicLamps => GoesOff(lit.timers, o, monstermoves + fuel - a)
      BY <2>1, <3>5
    <3> QED BY <3>4, <3>6, <3>7
  <2>2. CASE o \notin MagicLamps
    <3> DEFINE turns == Turns(o, fuel)
               t == [timeout |-> monstermoves + turns, func |-> "BURN_OBJECT", arg |-> o]
               q == insert_timer(w.timers, t)
               x == [w.obj[o] EXCEPT !.lamplit = TRUE, !.age = fuel - turns]
               u == [w EXCEPT !.timers = q]
    <3>1. turns \in 1 .. fuel
      BY <1>1, <2>2, NextStage
    <3>2. lit = [w EXCEPT !.timers = q, !.obj[o].lamplit = TRUE, !.obj[o].age = @ - turns]
      BY <2>2 DEF start_burn_timer
    <3> HIDE DEF turns
    <3>3. x \in Ware /\ fuel - turns \in Int /\ fuel - turns >= 0
      <4>1. fuel - turns \in Int /\ fuel - turns >= 0
        BY <1>1, <3>1
      <4> QED BY <1>1, <4>1 DEF Ware
    <3>4. t \in Timer /\ t.arg = o /\ t.timeout = monstermoves + turns /\ t.timeout > monstermoves
      BY <3>1 DEF Timer
    <3> HIDE DEF t
    <3>5. /\ q \in Seq(Timer) /\ (Ordered(w.timers) => Ordered(q)) /\ (Prompt(w.timers) => Prompt(q))
          /\ SameBut(w.timers, q, {o}) /\ N(q, o) = N(w.timers, o) + 1
          /\ \E i \in DOMAIN q : q[i] = t
      <4>1. OneMore(w.timers, q, t, o)
        BY <1>1, <3>4, Inserted
      <4> HIDE DEF q
      <4> QED BY <3>4, <4>1 DEF OneMore
    <3>6. lit = [u EXCEPT !.obj[o] = x]
      <4> DEFINE f == [w.obj EXCEPT ![o].lamplit = TRUE, ![o].age = @ - turns]
      <4>1. w.obj \in [Obj -> Ware] /\ w.timers \in Seq(Timer) /\ w.lights \in [Obj -> Nat]
            /\ w = [obj |-> w.obj, timers |-> w.timers, lights |-> w.lights]
        BY DEF Worlds
      <4>2. f = [w.obj EXCEPT ![o] = x]
        BY <1>1, <4>1 DEF Ware
      <4>3. lit = [w EXCEPT !.timers = q, !.obj = f]
        BY <3>2
      <4> HIDE DEF f, x
      <4> QED BY <4>1, <4>2, <4>3
    <3> HIDE DEF q, lit
    <3>7. Only(w, u, {o}) /\ u.timers = q /\ u.lights = w.lights /\ u.obj = w.obj
      BY <3>5, TimersSet
    <3>8. u \in Worlds
      BY <3>7 DEF Only
    <3> DEFINE y == [u EXCEPT !.obj[o] = x]
    <3> HIDE DEF u, x
    <3>9. Only(u, y, {o}) /\ y.obj[o] = x /\ y.timers = u.timers /\ y.lights = u.lights
      BY <3>3, <3>8, StructSet
    <3> HIDE DEF y
    <3>10. Only(w, lit, {o})
      BY <3>6, <3>7, <3>9, OnlyTwice DEF y
    <3>11. lit.timers = q /\ lit.obj[o] = x /\ lit.lights = w.lights
      BY <3>6, <3>7, <3>9 DEF y
    <3>12. monstermoves + fuel - (fuel - turns) = monstermoves + turns
      BY <1>1, <3>1
    <3>13. GoesOff(q, o, monstermoves + fuel - (fuel - turns))
      BY <3>4, <3>5, <3>12 DEF GoesOff
    <3> QED BY <2>2, <3>3, <3>5, <3>10, <3>11, <3>13 DEF x
  <2> HIDE DEF lit
  <2> QED BY <2>1, <2>2
<1> HIDE DEF lit
<1>4. CASE b
  <2>1. v = lit
    BY <1>2, <1>4
  <2> HIDE DEF v
  <2>2. v.lights[o] = w.lights[o] + IF b THEN 0 ELSE 1
    BY <1>1, <1>3, <1>4, <2>1
  <2> QED BY <1>3, <2>1, <2>2 DEF Alight, v
<1>5. CASE ~b
  <2> DEFINE u == [lit EXCEPT !.lights[o] = w.lights[o] + 1]
  <2>1. lit \in Worlds
    BY <1>3 DEF Only
  <2>2. v = u
    BY <1>2, <1>3, <1>5 DEF new_light_source
  <2>3. w.lights[o] + 1 \in Nat
    BY <1>1
  <2>4. Only(lit, u, {o}) /\ u.lights[o] = w.lights[o] + 1 /\ u.timers = lit.timers /\ u.obj = lit.obj
    BY <2>1, <2>3, LightsSet
  <2> HIDE DEF u, v
  <2>5. Only(w, v, {o})
    BY <1>3, <2>2, <2>4, OnlyTwice
  <2> QED BY <1>3, <1>5, <2>2, <2>4, <2>5 DEF Alight, v
<1> QED
  BY <1>4, <1>5

-----------------------------------------------------------------------------
(* Worlds that are as they should be.                                      *)

(* On a level that is not in memory.                                       *)
Away(p) == p.at \in {"floor", "buried"} /\ p.on # uz

(* A shopkeeper may claim a magic lamp.                                    *)
MagicSold == ForSale \cap MagicLamps # {}

(* Where something can be lit: where saving knows it, or what add_to_      *)
(* billobjs and use_torch leave alight.                                    *)
LitAt(o, p) ==
  \/ Known(p)
  \/ o \in MagicLamps /\ p = OnBill /\ MagicSold
  \/ o \in Torches /\ p = Lost

(* A struct as the code leaves it.                                         *)
Proper(o, s) ==
  /\ s.place.at \in {"floor", "buried"} => s.place.on \in Level
  /\ s.lamplit => LitAt(o, s.place)
  /\ s.unpaid => o \notin Torches /\ (o \in MagicLamps => MagicSold)

(* The same thing, but for who owns it.                                    *)
Stays(s, r) == s.place = r.place /\ s.lamplit = r.lamplit /\ s.age = r.age

(* The light and the timer of o are in memory if o is; what is elsewhere   *)
(* stays as it is.                                                         *)
Fits(w, o) ==
  /\ Proper(o, w.obj[o])
  /\ Away(w.obj[o].place) => w.lights[o] = 0 /\ N(w.timers, o) = 0
  /\ ~Away(w.obj[o].place) => Agrees(w, o)
  /\ Away(obj[o].place) \/ Away(w.obj[o].place) => Stays(w.obj[o], obj[o])

(* Every object of w is as the code leaves it, the list is in order, and   *)
(* nothing in it is overdue while the hero plays.                          *)
Good(w) ==
  /\ w \in Worlds
  /\ \A o \in Obj : Fits(w, o) /\ w.obj[o].age >= 0
  /\ Ordered(w.timers)
  /\ phase = "play" => Prompt(w.timers)

(* What is in memory.                                                      *)
Near(o) == ~Away(obj[o].place)

(* The same objects are near in every good world.                          *)
LEMMA NearHere ==
  ASSUME NEW w, Good(w), NEW o \in Obj
  PROVE  /\ Near(o) <=> ~Away(w.obj[o].place)
         /\ Near(o) => Agrees(w, o)
         /\ Proper(o, w.obj[o]) /\ w.obj[o].age >= 0 /\ w \in Worlds
BY DEF Good, Fits, Near, Stays

(* A good world is good after a step that changes one near object, and     *)
(* leaves it near and in order.                                            *)
LEMMA GoodOnly ==
  ASSUME NEW w, Good(w), NEW o \in Obj, Near(o), NEW v, Only(w, v, {o}),
         Proper(o, v.obj[o]), ~Away(v.obj[o].place), Agrees(v, o), v.obj[o].age >= 0
  PROVE  Good(v)
<1>1. v \in Worlds /\ Ordered(v.timers) /\ (phase = "play" => Prompt(v.timers))
  BY DEF Good, Only
<1>2. Fits(v, o)
  BY DEF Fits, Near
<1>3. ASSUME NEW x \in Obj, x # o PROVE Fits(v, x) /\ v.obj[x].age >= 0
  <2>1. v.obj[x] = w.obj[x] /\ v.lights[x] = w.lights[x]
    BY <1>3 DEF Only
  <2>2. N(v.timers, x) = N(w.timers, x)
    BY <1>3, SameButN DEF Only
  <2>3. Fits(w, x) /\ w.obj[x].age >= 0
    BY DEF Good
  <2> QED BY <2>1, <2>2, <2>3 DEF Fits, Agrees, Lit, Burns
<1> QED
  BY <1>1, <1>2, <1>3 DEF Good

(* The places.                                                             *)
LEMMA PlaceFacts ==
  ASSUME Base
  PROVE  /\ \A p \in {Gone, Invent, OnBill, Lost} : p \in Places /\ ~Away(p) /\ p.at \notin {"floor", "buried"}
         /\ \A p \in {Floor(uz), Buried(uz)} : p \in Places /\ ~Away(p) /\ p.on \in Level /\ Known(p)
         /\ \A l \in Level : Bound(l) \in Places /\ ~Away(Bound(l)) /\ Known(Bound(l))
                             /\ Bound(l).at \notin {"floor", "buried"}
         /\ Known(Invent) /\ ~Known(Gone) /\ ~Known(OnBill) /\ ~Known(Lost)
         /\ Gone # OnBill /\ Gone # Lost /\ Gone # Invent /\ OnBill # Lost
         /\ Invent # Floor(uz) /\ Gone # Floor(uz)
BY DEF Base, Gone, Invent, OnBill, Lost, Floor, Buried, Bound, At, Places, Away, Known

(* One kind each.                                                          *)
LEMMA KindFacts ==
  /\ \A o, n \in Obj : SameKind(o, n) => /\ o \in MagicLamps <=> n \in MagicLamps
                                         /\ o \in Torches <=> n \in Torches
  /\ \A o \in Obj : o \in Candles \cup Oils \cup Torches \cup Lamps => o \notin MagicLamps
  /\ \A o \in Obj : o \in Candles \cup Oils \cup Lamps => o \notin Torches
  /\ Stackable = Candles \cup Torches \cup Oils
BY KindsDistinct DEF SameKind, Obj, Stackable

(* A struct may change but for its light.                                  *)
LEMMA GoodStruct ==
  ASSUME NEW w, Good(w), NEW o \in Obj, Near(o), NEW x \in Ware, Proper(o, x), ~Away(x.place),
         x.lamplit = w.obj[o].lamplit, x.age >= 0
  PROVE  Good([w EXCEPT !.obj[o] = x])
<1> DEFINE v == [w EXCEPT !.obj[o] = x]
<1>1. w \in Worlds
  BY DEF Good
<1>2. Only(w, v, {o}) /\ v.obj[o] = x /\ v.timers = w.timers /\ v.lights = w.lights
  BY <1>1, StructSet
<1> HIDE DEF v
<1>3. Agrees(v, o)
  BY <1>2, NearHere DEF Agrees, Lit, Burns
<1>4. Good(v)
  BY <1>2, <1>3, GoodOnly
<1> QED
  BY <1>4 DEF v

(* A near object moves.                                                    *)
LEMMA MovedGood ==
  ASSUME NEW w, Good(w), NEW o \in Obj, Near(o), NEW p \in Places, ~Away(p),
         p.at \in {"floor", "buried"} => p.on \in Level, w.obj[o].lamplit => LitAt(o, p)
  PROVE  Good(Move(w, o, p)) /\ Move(w, o, p).obj = [w.obj EXCEPT ![o] = [w.obj[o] EXCEPT !.place = p]]
<1> DEFINE x == [w.obj[o] EXCEPT !.place = p]
<1>1. /\ w \in Worlds /\ Proper(o, w.obj[o]) /\ w.obj[o].age >= 0 /\ w.obj[o] \in Ware
      /\ w.obj \in [Obj -> Ware]
  BY NearHere, WorldParts
<1>2. /\ x \in Ware /\ x.place = p /\ x.lamplit = w.obj[o].lamplit /\ x.age = w.obj[o].age
      /\ x.unpaid = w.obj[o].unpaid
  BY <1>1 DEF Ware
<1>3. Move(w, o, p) = [w EXCEPT !.obj[o] = x]
  BY DEF Move
<1> HIDE DEF x
<1>4. Proper(o, x)
  BY <1>1, <1>2 DEF Proper
<1>5. Good([w EXCEPT !.obj[o] = x])
  BY <1>1, <1>2, <1>4, GoodStruct
<1>6. Move(w, o, p).obj = [w.obj EXCEPT ![o] = x]
  BY <1>1, <1>3 DEF Worlds
<1> QED
  BY <1>3, <1>5, <1>6 DEF x

(* Something near is put out; while the hero plays no fuel gets negative.  *)
LEMMA EndedGood ==
  ASSUME Base, NEW w, Good(w), NEW o \in Obj, Near(o), phase = "play" \/ ~w.obj[o].lamplit
  PROVE  /\ Good(end_burn(w, o, TRUE)) /\ PutOut(w, end_burn(w, o, TRUE), o)
<1> DEFINE v == end_burn(w, o, TRUE)
<1>1. /\ w \in Worlds /\ Agrees(w, o) /\ Proper(o, w.obj[o]) /\ w.obj[o].age >= 0
      /\ ~Away(w.obj[o].place) /\ w.obj[o] \in Ware
  BY NearHere, WorldParts
<1>2. PutOut(w, v, o)
  <2>1. w.lights[o] = Lit(w, o) /\ N(w.timers, o) = IF TRUE THEN Burns(w, o) ELSE 0
    BY <1>1 DEF Agrees
  <2>2. TRUE \in BOOLEAN /\ monstermoves \in Int
    BY DEF Base
  <2> HIDE DEF v
  <2>3. PutOut(w, end_burn(w, o, TRUE), o)
    BY <1>1, <2>1, <2>2, EndedBurn
  <2> QED BY <2>3 DEF v
<1> HIDE DEF v
<1>3. PICK a \in Int : /\ v.obj[o] = [w.obj[o] EXCEPT !.lamplit = FALSE, !.age = a]
                       /\ N(w.timers, o) = 0 => a = w.obj[o].age
                       /\ Prompt(w.timers) /\ w.obj[o].age >= 0 => a >= 0
  BY <1>2 DEF PutOut
<1>4. /\ v.obj[o].place = w.obj[o].place /\ ~v.obj[o].lamplit /\ v.obj[o].age = a
      /\ v.obj[o].unpaid = w.obj[o].unpaid
  BY <1>1, <1>3 DEF Ware
<1>5. a >= 0
  <2>1. CASE phase = "play"
    BY <1>1, <1>3, <2>1 DEF Good
  <2>2. CASE ~w.obj[o].lamplit
    BY <1>1, <1>3, <2>2 DEF Agrees, Burns
  <2> QED BY <2>1, <2>2
<1>6. Proper(o, v.obj[o])
  BY <1>1, <1>4 DEF Proper
<1>7. Agrees(v, o)
  BY <1>2, <1>4 DEF PutOut, Agrees, Lit, Burns
<1>8. Only(w, v, {o})
  BY <1>2 DEF PutOut
<1>9. Good(v)
  BY <1>1, <1>4, <1>5, <1>6, <1>7, <1>8, GoodOnly
<1> QED
  BY <1>2, <1>9 DEF v

(* Something near goes.                                                    *)
LEMMA FreedGood ==
  ASSUME Base, NEW w, Good(w), NEW o \in Obj, Near(o), NEW v, Freed(w, v, o)
  PROVE  Good(v)
<1>1. Only(w, v, {o}) /\ v.obj[o] = NoObj /\ v.lights[o] = 0 /\ N(v.timers, o) = 0
  BY DEF Freed
<1>2. NoObj.place = Gone /\ ~NoObj.lamplit /\ ~NoObj.unpaid /\ NoObj.age = 0
  BY DEF NoObj
<1>3. Proper(o, NoObj) /\ ~Away(NoObj.place)
  BY <1>2, PlaceFacts DEF Proper
<1>4. Agrees(v, o)
  BY <1>1, <1>2 DEF Agrees, Lit, Burns
<1> QED
  BY <1>1, <1>2, <1>3, <1>4, GoodOnly

(* dealloc_obj stops the timer and deletes the light of what it frees.     *)
LEMMA DeallocGood ==
  ASSUME Base, NEW w, Good(w), NEW o \in Obj, Near(o)
  PROVE  Good(dealloc_obj(w, o)) /\ Freed(w, dealloc_obj(w, o), o)
<1>1. w \in Worlds /\ Agrees(w, o)
  BY NearHere
<1>2. Freed(w, dealloc_obj(w, o), o)
  BY <1>1, Deallocated DEF Base, Agrees
<1> QED
  BY <1>2, FreedGood

(* Something near is lit.                                                  *)
LEMMA BegunGood ==
  ASSUME Base, NEW w, Good(w), NEW o \in Obj, Near(o), ~w.obj[o].lamplit, Known(w.obj[o].place)
  PROVE  LET v == begin_burn(w, o, FALSE) IN
         /\ Good(v) /\ Only(w, v, {o}) /\ v.obj[o].place = w.obj[o].place
         /\ o \notin MagicLamps => SameFuel(w, v, o)
<1> DEFINE v == begin_burn(w, o, FALSE)
<1>1. /\ w \in Worlds /\ Agrees(w, o) /\ Proper(o, w.obj[o]) /\ w.obj[o].age >= 0
      /\ ~Away(w.obj[o].place) /\ w.obj[o] \in Ware
  BY NearHere, WorldParts
<1>2. CASE w.obj[o].age = 0 /\ o \notin MagicLamps
  <2>1. v = w
    BY <1>2 DEF begin_burn
  <2> QED BY <1>1, <2>1, OnlySame DEF SameFuel
<1>3. CASE ~(w.obj[o].age = 0 /\ o \notin MagicLamps)
  <2>1. Alight(w, v, o, FALSE)
    BY <1>1, <1>3, BurnStarted DEF Base
  <2> HIDE DEF v
  <2>2. PICK a \in Int : /\ v.obj[o] = [w.obj[o] EXCEPT !.lamplit = TRUE, !.age = a]
                         /\ w.obj[o].age >= 0 => a >= 0
    BY <2>1 DEF Alight
  <2>3. /\ v.obj[o].place = w.obj[o].place /\ v.obj[o].lamplit /\ v.obj[o].age = a /\ a >= 0
        /\ v.obj[o].unpaid = w.obj[o].unpaid
    BY <1>1, <2>2 DEF Ware
  <2>4. Proper(o, v.obj[o])
    BY <1>1, <2>3 DEF Proper, LitAt
  <2>5. v.lights[o] = w.lights[o] + 1 /\ Only(w, v, {o})
        /\ N(v.timers, o) = N(w.timers, o) + IF o \in MagicLamps THEN 0 ELSE 1
    BY <2>1 DEF Alight
  <2>6. Agrees(v, o)
    BY <1>1, <2>3, <2>5 DEF Agrees, Lit, Burns
  <2>7. Good(v)
    BY <1>1, <2>3, <2>4, <2>5, <2>6, GoodOnly
  <2>8. o \notin MagicLamps => SameFuel(w, v, o)
    BY <1>1, <2>1, AlightFuel DEF Agrees, Burns
  <2> QED BY <2>3, <2>5, <2>7, <2>8 DEF v
<1> QED
  BY <1>2, <1>3

-----------------------------------------------------------------------------
(* Freeing and billing.                                                    *)

(* What is used up goes on the bill; only a magic lamp stays alight.       *)
LEMMA BillGood ==
  ASSUME Base, NEW w, Good(w), NEW o \in Obj, Near(o), w.obj[o].unpaid,
         phase = "play" \/ N(w.timers, o) = 0
  PROVE  LET u == add_to_billobjs(w, o) IN Good(u) /\ Only(w, u, {o}) /\ u.obj[o].place = OnBill
<1> DEFINE v == obj_stop_timers(w, o)
           x == [v.obj[o] EXCEPT !.place = OnBill, !.unpaid = FALSE]
           u == [v EXCEPT !.obj[o] = x]
<1>1. /\ w \in Worlds /\ Agrees(w, o) /\ Proper(o, w.obj[o]) /\ w.obj[o].age >= 0
      /\ w.obj[o] \in Ware /\ w.obj[o].lamplit \in BOOLEAN
  BY NearHere, WorldParts
<1>2. /\ Only(w, v, {o}) /\ N(v.timers, o) = 0 /\ v.lights[o] = Lit(v, o)
      /\ v.obj[o].lamplit => w.obj[o].lamplit /\ N(w.timers, o) = 0
      /\ \E a \in Int :
           /\ v.obj[o] = [w.obj[o] EXCEPT !.lamplit = v.obj[o].lamplit, !.age = a]
           /\ N(w.timers, o) = 0 => a = w.obj[o].age
           /\ Prompt(w.timers) /\ w.obj[o].age >= 0 => a >= 0
  <2>1. w.lights[o] = Lit(w, o) /\ monstermoves \in Int
    BY <1>1 DEF Agrees, Base
  <2>2. Halted(w, obj_stop_timers(w, o), o)
    BY <1>1, <2>1, ObjStopped
  <2> QED BY <2>2 DEF Halted
<1>3. u = add_to_billobjs(w, o)
  <2>1. v \in Worlds
    BY <1>2 DEF Only
  <2> HIDE DEF v
  <2>2. u = [v EXCEPT !.obj[o].place = OnBill, !.obj[o].unpaid = FALSE]
    BY <2>1 DEF Worlds, Ware
  <2> QED BY <2>2 DEF add_to_billobjs, v
<1> HIDE DEF v
<1>4. v.obj[o].age >= 0
  <2>1. PICK a \in Int : /\ v.obj[o] = [w.obj[o] EXCEPT !.lamplit = v.obj[o].lamplit, !.age = a]
                         /\ N(w.timers, o) = 0 => a = w.obj[o].age
                         /\ Prompt(w.timers) /\ w.obj[o].age >= 0 => a >= 0
    BY <1>2
  <2>2. v.obj[o].age = a
    BY <1>1, <2>1 DEF Ware
  <2> QED BY <1>1, <2>1, <2>2 DEF Good
<1>5. v \in Worlds /\ v.obj[o] \in Ware
  BY <1>2, WorldParts DEF Only
<1>6. OnBill \in Places /\ ~Away(OnBill) /\ OnBill.at \notin {"floor", "buried"}
  BY PlaceFacts
<1>7. /\ x \in Ware /\ x.place = OnBill /\ ~x.unpaid /\ x.lamplit = v.obj[o].lamplit
      /\ x.age = v.obj[o].age
  BY <1>5, <1>6 DEF Ware
<1> HIDE DEF x
<1>8. Only(v, u, {o}) /\ u.obj[o] = x /\ u.timers = v.timers /\ u.lights = v.lights
  BY <1>5, <1>7, StructSet
<1> HIDE DEF u
<1>9. Only(w, u, {o})
  BY <1>2, <1>8, OnlyTwice
<1>10. x.lamplit => o \in MagicLamps /\ MagicSold
  BY <1>1, <1>2, <1>7 DEF Agrees, Burns, Proper
<1>11. Proper(o, x)
  BY <1>6, <1>7, <1>10 DEF Proper, LitAt
<1>12. Agrees(u, o)
  BY <1>2, <1>7, <1>8, <1>10 DEF Agrees, Lit, Burns
<1>13. Good(u)
  BY <1>4, <1>6, <1>7, <1>8, <1>9, <1>11, <1>12, GoodOnly
<1> QED
  BY <1>3, <1>7, <1>8, <1>9, <1>13

(* obfree.                                                                 *)
LEMMA ObfreeGood ==
  ASSUME Base, NEW w, Good(w), NEW o \in Obj, Near(o), phase = "play" \/ N(w.timers, o) = 0
  PROVE  LET v == obfree(w, o) IN Good(v) /\ Only(w, v, {o}) /\ v.obj[o].place \in {Gone, OnBill}
<1>1. CASE w.obj[o].unpaid
  <2>1. obfree(w, o) = add_to_billobjs(w, o)
    BY <1>1 DEF obfree
  <2> QED BY <1>1, <2>1, BillGood
<1>2. CASE ~w.obj[o].unpaid
  <2>1. obfree(w, o) = dealloc_obj(w, o)
    BY <1>2 DEF obfree
  <2>2. Good(dealloc_obj(w, o)) /\ Freed(w, dealloc_obj(w, o), o)
    BY DeallocGood
  <2>3. NoObj.place = Gone
    BY DEF NoObj
  <2> QED BY <2>1, <2>2, <2>3 DEF Freed
<1> QED
  BY <1>1, <1>2

(* What is free is not lit.                                                *)
LEMMA GoneDark ==
  ASSUME Base, NEW w, Good(w), NEW d \in Obj, w.obj[d].place = Gone
  PROVE  Near(d) /\ ~w.obj[d].lamplit /\ w.lights[d] = 0 /\ N(w.timers, d) = 0
<1>1. ~Away(Gone) /\ ~Known(Gone) /\ Gone # OnBill /\ Gone # Lost
  BY PlaceFacts
<1>2. Near(d) /\ Agrees(w, d) /\ Proper(d, w.obj[d])
  BY <1>1, NearHere
<1>3. ~w.obj[d].lamplit
  BY <1>1, <1>2 DEF Proper, LitAt
<1> QED
  BY <1>2, <1>3 DEF Agrees, Lit, Burns

(* v is w but that o may be paid for: what may be lit is the same.         *)
Settle(w, v, o) ==
  /\ Good(v) /\ v.obj[o].place = w.obj[o].place /\ v.obj[o].lamplit = w.obj[o].lamplit
  /\ v.obj[o].many = w.obj[o].many /\ SameFuel(w, v, o)
  /\ \A x \in Obj \ {o} : \/ Untouched(w, v, x)
                          \/ w.obj[x].place = Gone /\ v.obj[x].place = OnBill

(* A dummy of something that is not lit is billed, or not.                 *)
LEMMA BilledGood ==
  ASSUME Base, NEW w, Good(w), NEW o \in Obj, Near(o), ~w.obj[o].lamplit, w.obj[o].place # Gone,
         NEW v \in Billed(w, o)
  PROVE  Settle(w, v, o)
<1>1. /\ w \in Worlds /\ Proper(o, w.obj[o]) /\ w.obj[o].age >= 0 /\ w.obj[o] \in Ware
      /\ ~Away(w.obj[o].place) /\ w.obj[o].age \in Int
  BY NearHere, WorldParts
<1>2. CASE v = w
  <2>1. \A x \in Obj : Untouched(w, v, x)
    BY <1>2 DEF Untouched, SameFuel
  <2>2. SameFuel(w, v, o)
    BY <2>1 DEF Untouched
  <2>3. /\ Good(v) /\ v.obj[o].place = w.obj[o].place /\ v.obj[o].lamplit = w.obj[o].lamplit
        /\ v.obj[o].many = w.obj[o].many
    BY <1>2
  <2> QED BY <2>1, <2>2, <2>3, Zenon DEF Settle
<1>3. CASE w.obj[o].unpaid /\ v \in bill_dummy_object(w, o)
  <2>1. PICK d \in Obj :
          /\ w.obj[d].place = Gone /\ SameKind(o, d)
          /\ v = [w EXCEPT !.obj[d] = [w.obj[o] EXCEPT !.place = OnBill, !.unpaid = FALSE, !.lamplit = @ /\ o \notin Candles],
                           !.obj[o].unpaid = FALSE]
    BY <1>3 DEF bill_dummy_object
  <2> DEFINE x == [w.obj[o] EXCEPT !.place = OnBill, !.unpaid = FALSE, !.lamplit = @ /\ o \notin Candles]
             u == [w EXCEPT !.obj[d] = x]
             y == [w.obj[o] EXCEPT !.unpaid = FALSE]
  <2>2. d # o
    BY <2>1
  <2>3. Near(d) /\ ~w.obj[d].lamplit
    BY <2>1, GoneDark
  <2>4. OnBill \in Places /\ ~Away(OnBill) /\ OnBill.at \notin {"floor", "buried"}
    BY PlaceFacts
  <2>5. x \in Ware /\ x.place = OnBill /\ ~x.unpaid /\ x.lamplit = FALSE /\ x.age = w.obj[o].age
    BY <1>1, <2>4 DEF Ware
  <2>6. w.obj[d].lamplit = FALSE
    BY <1>1, <2>3, WorldParts
  <2>7. v = [u EXCEPT !.obj[o] = y] /\ u.obj[o] = w.obj[o]
    BY <1>1, <2>1, <2>2 DEF Worlds
  <2> HIDE DEF x
  <2>8. Proper(d, x)
    BY <2>4, <2>5 DEF Proper
  <2>9. Good(u)
    BY <1>1, <2>3, <2>4, <2>5, <2>6, <2>8, GoodStruct
  <2>10. /\ y \in Ware /\ y.place = w.obj[o].place /\ y.lamplit = w.obj[o].lamplit /\ ~y.unpaid
         /\ y.age = w.obj[o].age /\ y.many = w.obj[o].many
    BY <1>1 DEF Ware
  <2> HIDE DEF u, y
  <2>11. Proper(o, y)
    BY <1>1, <2>10 DEF Proper
  <2>12. Good([u EXCEPT !.obj[o] = y])
    BY <1>1, <2>7, <2>9, <2>10, <2>11, GoodStruct
  <2>13. u \in Worlds
    BY <2>9 DEF Good
  <2>14. v.obj[o] = y
    BY <2>7, <2>13 DEF Worlds
  <2>15. v.timers = w.timers
    BY <2>7 DEF u
  <2>16. v.obj[d] = x /\ \A z \in Obj \ {d, o} : v.obj[z] = w.obj[z]
    BY <1>1, <2>2, <2>7 DEF u, Worlds
  <2>17. SameFuel(w, v, o) /\ \A z \in Obj \ {d, o} : SameFuel(w, v, z)
    BY <2>10, <2>14, <2>15, <2>16, AgedFuel
  <2>18. \A z \in Obj \ {o} : \/ Untouched(w, v, z)
                              \/ w.obj[z].place = Gone /\ v.obj[z].place = OnBill
    <3>1. w.obj[d].place = Gone /\ v.obj[d].place = OnBill
      BY <2>1, <2>5, <2>16
    <3>2. \A z \in Obj \ {d, o} : Untouched(w, v, z)
      BY <2>16, <2>17, Zenon DEF Untouched
    <3> QED BY <3>1, <3>2
  <2> QED BY <2>7, <2>10, <2>12, <2>14, <2>17, <2>18 DEF Settle
<1> QED
  BY <1>2, <1>3 DEF Billed

-----------------------------------------------------------------------------
(* Splitting.                                                              *)

(* v is w with the part n split off o.                                     *)
SplitOff(w, v, o, n) ==
  /\ Good(v) /\ n \in Obj /\ Near(n) /\ n # o /\ SameKind(o, n)
  /\ SameFuel(w, v, o) /\ w.obj[n].place = Gone /\ \A x \in Obj \ {o, n} : Untouched(w, v, x)
  /\ \A x \in {o, n} : v.obj[x].place = w.obj[o].place /\ v.obj[x].lamplit = w.obj[o].lamplit

(* splitobj gives the new part a timer and a light of its own when the     *)
(* stack is lit.                                                           *)
LEMMA SplitGood ==
  ASSUME Base, NEW w, Good(w), NEW o \in Obj, Near(o), w.obj[o].place # Gone,
         NEW n \in Obj, NEW a \in BOOLEAN, NEW b \in BOOLEAN, w.obj[n].place = Gone, SameKind(o, n)
  PROVE  SplitOff(w, splitobj(w, o, n, a, b), o, n)
<1> DEFINE c == copies(w.timers, o, n)
           q == insert_all(w.timers, c)
           x == [w.obj[o] EXCEPT !.many = b]
           y == [w.obj[o] EXCEPT !.many = a]
           k == w.lights[n] + w.lights[o]
           u1 == [w EXCEPT !.obj[n] = x]
           u2 == [u1 EXCEPT !.timers = q]
           u3 == [u2 EXCEPT !.lights[n] = k]
           u4 == [u3 EXCEPT !.obj[o] = y]
<1>1. /\ w \in Worlds /\ Agrees(w, o) /\ Proper(o, w.obj[o]) /\ w.obj[o].age >= 0 /\ w.obj[o] \in Ware
      /\ ~Away(w.obj[o].place) /\ w.obj[o].age \in Int /\ w.timers \in Seq(Timer)
      /\ w.lights \in [Obj -> Nat]
  BY NearHere, WorldParts
<1>2. n # o /\ Near(n) /\ ~w.obj[n].lamplit /\ w.lights[n] = 0 /\ N(w.timers, n) = 0
  BY GoneDark
<1>3. u4 = splitobj(w, o, n, a, b)
  <2>1. splitobj(w, o, n, a, b) =
          [w EXCEPT !.obj[n] = x, !.obj[o].many = a, !.timers = q, !.lights[n] = @ + w.lights[o]]
    BY DEF splitobj
  <2> HIDE DEF q, x
  <2> QED BY <1>1, <1>2, <2>1 DEF Worlds
<1>4. /\ c \in Seq(Timer) /\ (Prompt(w.timers) => Prompt(c)) /\ N(c, n) = N(w.timers, o)
      /\ \A W \in SUBSET Timer : (\A t \in W : t.arg # n) => Num(c, W) = 0
  BY <1>1, <1>2, Copied
<1> HIDE DEF c
<1>5. /\ q \in Seq(Timer) /\ (Ordered(w.timers) => Ordered(q)) /\ (Prompt(w.timers) /\ Prompt(c) => Prompt(q))
      /\ \A W : Num(q, W) = Num(w.timers, W) + Num(c, W)
      /\ N(q, n) = N(w.timers, n) + N(c, n)
  <2>1. monstermoves \in Int
    BY DEF Base
  <2> QED BY <1>1, <1>4, <2>1, InsertedAll
<1> HIDE DEF q
<1>6. SameBut(w.timers, q, {n})
  <2>1. \A W \in SUBSET Timer : Num(w.timers, W) \in Nat
    BY <1>1, NumType
  <2> QED BY <1>4, <1>5, <2>1 DEF SameBut
<1>7. N(q, n) = Burns(w, o)
  BY <1>1, <1>2, <1>4, <1>5 DEF Agrees, Burns
<1>8. k \in Nat /\ k = Lit(w, o)
  BY <1>1, <1>2 DEF Agrees, Lit
<1>9. /\ x \in Ware /\ x.place = w.obj[o].place /\ x.lamplit = w.obj[o].lamplit
      /\ x.unpaid = w.obj[o].unpaid /\ x.age = w.obj[o].age
  BY <1>1 DEF Ware
<1>10. /\ y \in Ware /\ y.place = w.obj[o].place /\ y.lamplit = w.obj[o].lamplit
       /\ y.unpaid = w.obj[o].unpaid /\ y.age = w.obj[o].age
  BY <1>1 DEF Ware
<1> HIDE DEF x, y, k
<1>11. Only(w, u1, {n}) /\ u1.obj[n] = x /\ u1.timers = w.timers /\ u1.lights = w.lights
  BY <1>1, <1>9, StructSet
<1>12. u1 \in Worlds /\ u1.obj[o] = w.obj[o]
  BY <1>2, <1>11 DEF Only
<1> HIDE DEF u1
<1>13. Only(u1, u2, {n}) /\ u2.timers = q /\ u2.lights = u1.lights /\ u2.obj = u1.obj
  BY <1>4, <1>5, <1>6, <1>11, <1>12, TimersSet
<1>14. u2 \in Worlds
  BY <1>13 DEF Only
<1> HIDE DEF u2
<1>15. Only(u2, u3, {n}) /\ u3.lights[n] = k /\ u3.timers = u2.timers /\ u3.obj = u2.obj
  BY <1>8, <1>14, LightsSet
<1> HIDE DEF u3
<1>16. Only(w, u3, {n})
  <2>1. Only(w, u2, {n})
    BY <1>11, <1>13, OnlyTwice
  <2> QED BY <2>1, <1>15, OnlyTwice
<1>17. u3.obj[n] = x /\ u3.obj[o] = w.obj[o]
  BY <1>11, <1>12, <1>13, <1>15
<1>18. o \in MagicLamps <=> n \in MagicLamps
  BY KindFacts
<1>19. o \in Torches <=> n \in Torches
  BY KindFacts
<1>20. Proper(n, x)
  BY <1>1, <1>9, <1>18, <1>19 DEF Proper, LitAt
<1>21. Agrees(u3, n)
  BY <1>7, <1>8, <1>9, <1>13, <1>15, <1>17, <1>18 DEF Agrees, Lit, Burns
<1>22. Good(u3)
  BY <1>1, <1>2, <1>9, <1>16, <1>17, <1>20, <1>21, GoodOnly
<1>23. Good(u4)
  <2>1. Proper(o, y)
    BY <1>1, <1>10 DEF Proper
  <2>2. y.lamplit = u3.obj[o].lamplit /\ y.age >= 0 /\ ~Away(y.place)
    BY <1>1, <1>10, <1>17
  <2> QED BY <1>10, <1>22, <2>1, <2>2, GoodStruct
<1>24. u4.obj[o] = y /\ u4.obj[n] = x
  <2>1. u3 \in Worlds
    BY <1>22 DEF Good
  <2> QED BY <1>2, <1>17, <2>1 DEF Worlds
<1>25. \A z \in Obj \ {n} : Untouched(w, u3, z)
  BY <1>1, <1>16, OnlyUntouched
<1>26. u4.timers = u3.timers /\ \A z \in Obj \ {o, n} : u4.obj[z] = u3.obj[z]
  <2>1. u3 \in Worlds
    BY <1>22 DEF Good
  <2> QED BY <2>1 DEF Worlds
<1>27. u4.obj[o].age = u3.obj[o].age
  BY <1>10, <1>17, <1>24
<1> HIDE DEF u4
<1>28. SameFuel(w, u4, o)
  <2>1. SameFuel(u3, u4, o) /\ SameFuel(w, u3, o)
    BY <1>2, <1>25, <1>26, <1>27, AgedFuel DEF Untouched
  <2> QED BY <2>1 DEF SameFuel
<1>29. \A z \in Obj \ {o, n} : Untouched(w, u4, z)
  <2>1. \A z \in Obj \ {o, n} : SameFuel(u3, u4, z)
    BY <1>26, AgedFuel
  <2> QED BY <1>25, <1>26, <2>1 DEF SameFuel, Untouched
<1> QED
  BY <1>2, <1>3, <1>9, <1>10, <1>23, <1>24, <1>28, <1>29 DEF SplitOff

(* What is taken of o, in the world t[2] that is left, is like it.         *)
PartOf(w, t, o) ==
  /\ Good(t[2]) /\ t[1] \in Obj /\ Near(t[1])
  /\ o \in Torches <=> t[1] \in Torches
  /\ SameFuel(w, t[2], o)
  /\ \A x \in Obj \ {o, t[1]} : Untouched(w, t[2], x)
  /\ t[1] # o => w.obj[t[1]].place = Gone
  /\ \A x \in {o, t[1]} : t[2].obj[x].place = w.obj[o].place /\ t[2].obj[x].lamplit = w.obj[o].lamplit

(* What splitobj and the callers leave is good, whichever part is taken.   *)
LEMMA TakenGood ==
  ASSUME Base, NEW w, Good(w), NEW o \in Obj, Near(o), w.obj[o].place # Gone
  PROVE  \A t \in Taken(w, o) \cup One(w, o) : PartOf(w, t, o)
<1>1. PartOf(w, <<o, w>>, o)
  BY DEF PartOf, Untouched, SameFuel
<1>2. ASSUME NEW x \in Splits(w, o)
      PROVE  PartOf(w, <<x[1], splitobj(w, o, x[1], x[2], x[3])>>, o)
  <2> DEFINE v == splitobj(w, o, x[1], x[2], x[3])
  <2>1. /\ x[1] \in Obj /\ x[2] \in BOOLEAN /\ x[3] \in BOOLEAN
        /\ w.obj[x[1]].place = Gone /\ SameKind(o, x[1])
    BY <1>2 DEF Splits
  <2>2. SplitOff(w, v, o, x[1])
    BY <2>1, SplitGood
  <2> HIDE DEF v
  <2>3. o \in Torches <=> x[1] \in Torches
    BY <2>1, KindFacts
  <2>4. PartOf(w, <<x[1], v>>, o)
    BY <2>2, <2>3 DEF PartOf, SplitOff
  <2> QED BY <2>4 DEF v
<1> QED
  BY <1>1, <1>2 DEF Taken, One

-----------------------------------------------------------------------------
(* Merging.                                                                *)

(* The extremes of two numbers.                                            *)
LEMMA MinMax ==
  ASSUME NEW a \in Int, NEW b \in Int
  PROVE  /\ Min({a, b}) = IF a <= b THEN a ELSE b
         /\ Max({a, b}) = IF a <= b THEN b ELSE a
<1>1. Min({a, b}) = IF a <= b THEN a ELSE b
  BY DEF Min
<1>2. Max({a, b}) = IF a <= b THEN b ELSE a
  BY DEF Max
<1> QED
  BY <1>1, <1>2

(* s is merged into d: it goes, and only the fuel of d may change, if they *)
(* are not lit.                                                            *)
MergedInto(w, v, d, s) ==
  /\ Good(v) /\ v.obj[d].many /\ v.obj[s].place = Gone
  /\ v.obj[d].place = w.obj[d].place /\ v.obj[d].lamplit = w.obj[d].lamplit
  /\ \A x \in Obj \ {d, s} : Untouched(w, v, x)
  /\ w.obj[s].lamplit => SameFuel(w, v, d)

(* merged: what is lit is put out, then freed.                             *)
LEMMA MergedGood ==
  ASSUME Base, NEW w, Good(w), NEW d \in Obj, NEW s \in Obj, d # s, Near(d), Near(s),
         NEW v \in merged(w, d, s)
  PROVE  MergedInto(w, v, d, s)
<1> DEFINE e == end_burn(w, s, TRUE)
           u == IF w.obj[s].lamplit THEN e ELSE w
           g == dealloc_obj(u, s)
<1>1. /\ w \in Worlds /\ Agrees(w, s) /\ Proper(d, w.obj[d]) /\ ~Away(w.obj[d].place)
      /\ w.obj[d].age >= 0 /\ w.obj[s].age >= 0 /\ w.obj[d].age \in Int /\ w.obj[s].age \in Int
      /\ w.obj[d] \in Ware
  BY NearHere, WorldParts
<1>2. monstermoves \in Int
  BY DEF Base
<1>3. Only(w, u, {s}) /\ u.lights[s] = Lit(u, s)
  <2>1. CASE w.obj[s].lamplit
    <3>1. w.lights[s] = Lit(w, s) /\ N(w.timers, s) = IF TRUE THEN Burns(w, s) ELSE 0
      BY <1>1 DEF Agrees
    <3>2. TRUE \in BOOLEAN
      OBVIOUS
    <3>3. PutOut(w, e, s)
      BY <1>1, <1>2, <3>1, <3>2, EndedBurn
    <3> HIDE DEF e
    <3>4. PICK a \in Int : e.obj[s] = [w.obj[s] EXCEPT !.lamplit = FALSE, !.age = a]
      BY <3>3 DEF PutOut
    <3>5. ~e.obj[s].lamplit
      BY <1>1, <3>4, WorldParts DEF Ware
    <3> QED BY <2>1, <3>3, <3>5 DEF PutOut, Lit
  <2>2. CASE ~w.obj[s].lamplit
    BY <1>1, <2>2, OnlySame DEF Agrees
  <2> QED BY <2>1, <2>2
<1>4. u \in Worlds
  BY <1>3 DEF Only
<1> HIDE DEF u
<1>5. Freed(u, g, s)
  BY <1>2, <1>3, <1>4, Deallocated
<1> HIDE DEF g
<1>6. Freed(w, g, s)
  BY <1>3, <1>5, OnlyTwice DEF Freed
<1>7. Good(g)
  BY <1>6, FreedGood
<1>8. g.obj[d] = w.obj[d] /\ g.obj[s] = NoObj /\ \A x \in Obj \ {d, s} : g.obj[x] = w.obj[x]
  BY <1>6 DEF Freed, Only
<1>9. PICK fuel \in IF w.obj[s].lamplit THEN {w.obj[d].age}
                    ELSE Min({w.obj[d].age, w.obj[s].age}) .. Max({w.obj[d].age, w.obj[s].age}) :
        v = [g EXCEPT !.obj[d].age = fuel, !.obj[d].many = TRUE]
  BY DEF merged, g, u, e
<1>10. fuel \in Int /\ fuel >= 0
  BY <1>1, <1>9, MinMax
<1> DEFINE x == [w.obj[d] EXCEPT !.age = fuel, !.many = TRUE]
           y == [g EXCEPT !.obj[d] = x]
<1>11. /\ x \in Ware /\ x.place = w.obj[d].place /\ x.lamplit = w.obj[d].lamplit
       /\ x.unpaid = w.obj[d].unpaid /\ x.age = fuel /\ x.many
  BY <1>1, <1>10 DEF Ware
<1>12. g \in Worlds
  BY <1>7 DEF Good
<1>13. v = y
  BY <1>8, <1>9, <1>12 DEF Worlds
<1> HIDE DEF x
<1>14. Proper(d, x)
  BY <1>1, <1>11 DEF Proper
<1>15. Good(y)
  BY <1>1, <1>7, <1>8, <1>10, <1>11, <1>14, GoodStruct
<1>16. y.obj[d] = x /\ y.obj[s] = NoObj /\ \A z \in Obj \ {d, s} : y.obj[z] = w.obj[z]
  BY <1>8, <1>12 DEF Worlds
<1>17. NoObj.place = Gone
  BY DEF NoObj
<1>18. y.timers = g.timers
  OBVIOUS
<1>19. \A z \in Obj \ {s} : Untouched(w, g, z)
  BY <1>1, <1>6, OnlyUntouched DEF Freed
<1> HIDE DEF y
<1>20. \A z \in Obj \ {d, s} : Untouched(w, y, z)
  <2>1. \A z \in Obj \ {d, s} : SameFuel(g, y, z)
    BY <1>8, <1>16, <1>18, AgedFuel
  <2> QED BY <1>16, <1>19, <2>1 DEF SameFuel, Untouched
<1>21. w.obj[s].lamplit => SameFuel(w, y, d)
  <2>1. SUFFICES ASSUME w.obj[s].lamplit PROVE SameFuel(w, y, d)
    OBVIOUS
  <2>2. fuel = w.obj[d].age
    BY <1>9, <2>1
  <2>3. SameFuel(g, y, d)
    BY <1>8, <1>11, <1>16, <1>18, <2>2, AgedFuel
  <2> QED BY <1>19, <2>3 DEF SameFuel, Untouched
<1> QED
  BY <1>11, <1>13, <1>15, <1>16, <1>17, <1>20, <1>21 DEF MergedInto

-----------------------------------------------------------------------------
(* Things come to the hero and to the floor.                               *)

(* o came: what it did not find on the floor is as it was, or a stack.     *)
Came(w, v, o) ==
  Good(v) /\ \A x \in Obj \ {o} : Untouched(w, v, x) \/ v.obj[x].many \/ w.obj[x].place = Floor(uz)

(* Whoever comes to rest, alone or merged into a stack that is there,      *)
(* leaves a good world.                                                    *)
LEMMA SettledGood ==
  ASSUME Base, NEW w, Good(w), NEW o \in Obj, Near(o), NEW p \in {Invent, Floor(uz)},
         NEW v \in Settled(w, o, p)
  PROVE  Came(w, v, o)
<1> DEFINE m == Move(w, o, p)
<1>1. /\ w \in Worlds /\ w.obj \in [Obj -> Ware]
  BY NearHere, WorldParts
<1>2. /\ p \in Places /\ ~Away(p) /\ Known(p) /\ (p.at \in {"floor", "buried"} => p.on \in Level)
      /\ Invent # Floor(uz)
  BY PlaceFacts
<1>3. LitAt(o, p)
  BY <1>2 DEF LitAt
<1>4. Good(m) /\ m.obj = [w.obj EXCEPT ![o] = [w.obj[o] EXCEPT !.place = p]]
  BY <1>2, <1>3, MovedGood
<1>5. \A x \in Obj \ {o} : Untouched(w, m, x)
  <2>1. \A x \in Obj \ {o} : m.obj[x] = w.obj[x]
    BY <1>1, <1>4
  <2>2. m.timers = w.timers
    BY DEF Move
  <2> QED BY <2>1, <2>2, AgedFuel DEF Untouched
<1>6. CASE v = m
  BY <1>4, <1>5, <1>6 DEF Came
<1> HIDE DEF m
<1>7. ASSUME NEW y \in {x \in Obj : w.obj[x].place = p /\ mergable(w, o, x)},
             v \in IF p = Invent THEN merged(w, y, o) ELSE merged(m, o, y)
      PROVE  Came(w, v, o)
  <2>1. y \in Obj /\ y # o /\ w.obj[y].place = p /\ Near(y)
    <3>1. y \in Obj /\ w.obj[y].place = p /\ mergable(w, o, y)
      BY <1>7
    <3>2. y # o
      BY <3>1 DEF mergable
    <3> QED BY <1>2, <3>1, <3>2, NearHere
  <2>2. CASE p = Invent
    <3>1. v \in merged(w, y, o)
      BY <1>7, <2>2
    <3>2. MergedInto(w, v, y, o)
      BY <2>1, <3>1, MergedGood
    <3> QED BY <3>2 DEF MergedInto, Came
  <2>3. CASE p # Invent
    <3>1. v \in merged(m, o, y) /\ p = Floor(uz)
      BY <1>7, <2>3
    <3>2. MergedInto(m, v, o, y)
      BY <1>4, <2>1, <3>1, MergedGood
    <3> QED BY <1>5, <2>1, <3>1, <3>2 DEF MergedInto, Came, Untouched, SameFuel
  <2> QED BY <2>2, <2>3
<1>8. v = m \/ \E y \in {x \in Obj : w.obj[x].place = p /\ mergable(w, o, x)} :
                 v \in IF p = Invent THEN merged(w, y, o) ELSE merged(m, o, y)
  BY DEF Settled, m
<1> QED
  BY <1>6, <1>7, <1>8

(* The hero takes it; the hero plays.                                      *)
LEMMA AddinvGood ==
  ASSUME Base, phase = "play", NEW w, Good(w), NEW o \in Obj, Near(o), NEW v \in addinv(w, o)
  PROVE  Came(w, v, o)
<1>1. PICK u \in Settled(w, o, Invent) : v = snuffed(u, o)
  BY DEF addinv
<1>2. Came(w, u, o)
  BY SettledGood
<1>3. CASE o \in Torches
  <2>1. Good(end_burn(u, o, TRUE)) /\ PutOut(u, end_burn(u, o, TRUE), o)
    BY <1>2, EndedGood DEF Came
  <2>2. v = end_burn(u, o, TRUE)
    BY <1>1, <1>3 DEF snuffed
  <2>3. \A x \in Obj \ {o} : Untouched(u, v, x)
    <3>1. u \in Worlds
      BY <1>2 DEF Came, Good
    <3> QED BY <2>1, <2>2, <3>1, OnlyUntouched DEF PutOut
  <2> QED BY <1>2, <2>1, <2>2, <2>3 DEF Came, Untouched, SameFuel
<1>4. CASE o \notin Torches
  <2>1. v = u
    BY <1>1, <1>4 DEF snuffed
  <2> QED BY <1>2, <2>1
<1> QED
  BY <1>3, <1>4

(* It is dropped.                                                          *)
LEMMA DropxGood ==
  ASSUME Base, NEW w, Good(w), NEW o \in Obj, Near(o), NEW v \in dropx(w, o)
  PROVE  Came(w, v, o)
<1> DEFINE x == [w.obj[o] EXCEPT !.unpaid = FALSE]
           u == [w EXCEPT !.obj[o] = x]
<1>1. /\ w \in Worlds /\ Proper(o, w.obj[o]) /\ w.obj[o].age >= 0 /\ w.obj[o] \in Ware
      /\ ~Away(w.obj[o].place)
  BY NearHere, WorldParts
<1>2. /\ x \in Ware /\ x.place = w.obj[o].place /\ x.lamplit = w.obj[o].lamplit /\ x.unpaid = FALSE
      /\ x.age = w.obj[o].age
  BY <1>1 DEF Ware
<1>3. v \in Settled(u, o, Floor(uz))
  BY DEF dropx
<1> HIDE DEF x
<1>4. Proper(o, x)
  BY <1>1, <1>2 DEF Proper
<1>5. Good(u)
  BY <1>1, <1>2, <1>4, GoodStruct
<1>6. \A y \in Obj \ {o} : Untouched(w, u, y)
  <2>1. u.timers = w.timers /\ \A y \in Obj \ {o} : u.obj[y] = w.obj[y]
    BY <1>1 DEF Worlds
  <2> HIDE DEF u
  <2> QED BY <2>1, AgedFuel DEF Untouched
<1> HIDE DEF u
<1>7. Came(u, v, o)
  BY <1>3, <1>5, SettledGood
<1> QED
  BY <1>6, <1>7 DEF Came, Untouched, SameFuel

(* hold_another_object: the same for what is snuffed, taken or dropped.    *)
LEMMA HoldGood ==
  ASSUME Base, phase = "play", NEW w, Good(w), NEW o \in Obj, Near(o),
         NEW v \in hold_another_object(w, o)
  PROVE  Came(w, v, o)
<1> DEFINE u == snuffed(w, o)
<1>1. Good(u) /\ \A x \in Obj \ {o} : Untouched(w, u, x)
  <2>1. CASE o \in Torches
    <3>1. Good(end_burn(w, o, TRUE)) /\ PutOut(w, end_burn(w, o, TRUE), o)
      BY EndedGood
    <3>2. u = end_burn(w, o, TRUE)
      BY <2>1 DEF snuffed
    <3>3. w \in Worlds
      BY DEF Good
    <3> HIDE DEF u
    <3> QED BY <3>1, <3>2, <3>3, OnlyUntouched DEF PutOut
  <2>2. CASE o \notin Torches
    BY <2>2 DEF snuffed, Untouched, SameFuel
  <2> QED BY <2>1, <2>2
<1>2. CASE v \in addinv(w, o)
  BY <1>2, AddinvGood
<1>3. CASE v \in dropx(w, o)
  BY <1>3, DropxGood
<1>4. CASE v \in dropx(u, o)
  <2> HIDE DEF u
  <2>1. Came(u, v, o)
    BY <1>1, <1>4, DropxGood
  <2> QED BY <1>1, <2>1 DEF Came, Untouched, SameFuel
<1> QED
  BY <1>2, <1>3, <1>4 DEF hold_another_object

-----------------------------------------------------------------------------
(* The shopkeeper is paid.                                                 *)

(* setpaid frees what is on the bill with its timers and lights, and makes *)
(* the rest the hero's.                                                    *)
LEMMA PaidGood ==
  ASSUME Base, NEW w, Good(w)
  PROVE  /\ Good(setpaid(w))
         /\ \A o \in Obj : /\ ~setpaid(w).obj[o].unpaid
                           /\ setpaid(w).obj[o].place.at \in {"floor", "buried"} <=> w.obj[o].place.at \in {"floor", "buried"}
                           /\ \/ w.obj[o].place = OnBill /\ setpaid(w).obj[o].place = Gone
                              \/ Stays(setpaid(w).obj[o], w.obj[o]) /\ SameFuel(w, setpaid(w), o)
<1> DEFINE v == setpaid(w)
           gone == {o \in Obj : w.obj[o].place = OnBill}
           S == Obj \ gone
           q == Keep(w.timers, {i \in DOMAIN w.timers : w.timers[i].arg \in S})
<1>1. /\ w \in Worlds /\ w.timers \in Seq(Timer) /\ w.obj \in [Obj -> Ware] /\ w.lights \in [Obj -> Nat]
  BY WorldParts DEF Good
<1>2. /\ q \in Seq(Timer) /\ (Ordered(w.timers) => Ordered(q)) /\ (Prompt(w.timers) => Prompt(q))
      /\ \A o : N(q, o) = IF o \in S THEN N(w.timers, o) ELSE 0
      /\ \A o \in S : \A x : GoesOff(w.timers, o, x) => GoesOff(q, o, x)
  <2>1. Those(w.timers, q, S)
    BY <1>1, KeptOwners
  <2> HIDE DEF q
  <2>2. \A o \in S : \A x : GoesOff(w.timers, o, x) => GoesOff(q, o, x)
    <3> HIDE DEF S
    <3> QED BY <1>1, <2>1, ThoseGoesOff
  <2> QED BY <2>1, <2>2 DEF Those
<1>3. v.timers = q
  <2>1. \A i \in DOMAIN w.timers : w.timers[i].arg \in S <=> w.timers[i].arg \notin gone
    <3>1. \A i \in DOMAIN w.timers : w.timers[i] \in Timer
      BY <1>1, ElementOfSeq
    <3>2. \A i \in DOMAIN w.timers : w.timers[i].arg \in Obj
      BY <3>1 DEF Timer
    <3> QED BY <3>2
  <2>2. {i \in DOMAIN w.timers : w.timers[i].arg \in S} = {i \in DOMAIN w.timers : w.timers[i].arg \notin gone}
    BY <2>1
  <2> QED BY <2>2 DEF setpaid
<1> HIDE DEF q
<1>4. /\ v.obj = [o \in Obj |-> IF o \in gone THEN NoObj ELSE [w.obj[o] EXCEPT !.unpaid = FALSE]]
      /\ v.lights = [o \in Obj |-> IF o \in gone /\ w.obj[o].lamplit THEN less(w.lights[o]) ELSE w.lights[o]]
      /\ v = [obj |-> v.obj, timers |-> v.timers, lights |-> v.lights]
  BY DEF setpaid
<1> HIDE DEF v
<1>5. ASSUME NEW o \in Obj
      PROVE  /\ v.obj[o] \in Ware /\ v.lights[o] \in Nat /\ Fits(v, o) /\ v.obj[o].age >= 0
             /\ ~v.obj[o].unpaid
             /\ v.obj[o].place.at \in {"floor", "buried"} <=> w.obj[o].place.at \in {"floor", "buried"}
             /\ \/ w.obj[o].place = OnBill /\ v.obj[o].place = Gone
                \/ Stays(v.obj[o], w.obj[o]) /\ SameFuel(w, v, o)
  <2>1. /\ Fits(w, o) /\ w.obj[o].age >= 0 /\ w.obj[o] \in Ware /\ w.lights[o] \in Nat
    BY <1>1 DEF Good
  <2>2. CASE o \in gone
    <3>1. ~Away(OnBill) /\ ~Away(Gone) /\ Gone.at \notin {"floor", "buried"} /\ OnBill.at \notin {"floor", "buried"}
      BY PlaceFacts
    <3>2. Near(o) /\ Agrees(w, o)
      BY <2>2, <3>1, NearHere
    <3>3. v.obj[o] = NoObj /\ N(v.timers, o) = 0
      BY <1>2, <1>3, <1>4, <2>2
    <3>4. NoObj.place = Gone /\ ~NoObj.lamplit /\ ~NoObj.unpaid /\ NoObj.age = 0
      BY DEF NoObj
    <3>5. v.lights[o] = 0
      BY <1>4, <2>1, <2>2, <3>2 DEF Agrees, Lit, less
    <3>6. Proper(o, NoObj)
      BY <3>1, <3>4 DEF Proper
    <3>7. Agrees(v, o)
      BY <3>3, <3>4, <3>5 DEF Agrees, Lit, Burns
    <3>8. Fits(v, o)
      BY <3>1, <3>2, <3>3, <3>4, <3>6, <3>7 DEF Fits, Near
    <3> QED BY <2>2, <3>1, <3>3, <3>4, <3>5, <3>8, NoObjWare
  <2>3. CASE o \notin gone
    <3>1. v.obj[o] = [w.obj[o] EXCEPT !.unpaid = FALSE] /\ v.lights[o] = w.lights[o]
          /\ N(v.timers, o) = N(w.timers, o)
      BY <1>2, <1>3, <1>4, <2>3
    <3>2. /\ v.obj[o] \in Ware /\ v.obj[o].place = w.obj[o].place /\ v.obj[o].lamplit = w.obj[o].lamplit
          /\ v.obj[o].age = w.obj[o].age /\ ~v.obj[o].unpaid
      BY <2>1, <3>1 DEF Ware
    <3>3. Fits(v, o)
      BY <2>1, <3>1, <3>2 DEF Fits, Proper, Agrees, Lit, Burns, Stays
    <3>4. Stays(v.obj[o], w.obj[o])
      BY <3>2 DEF Stays
    <3>5. SameFuel(w, v, o)
      <4>1. \A x : GoesOff(w.timers, o, x) => GoesOff(v.timers, o, x)
        BY <1>2, <1>3, <2>3
      <4>2. \A m, a, f : Fuel(m, w.timers, o, a, f) => Fuel(m, v.timers, o, a, f)
        BY <3>1, <4>1, FuelStays
      <4> QED BY <3>2, <4>2 DEF SameFuel, Has
    <3> QED BY <2>1, <3>1, <3>2, <3>3, <3>4, <3>5
  <2> QED BY <2>2, <2>3
<1>6. v \in Worlds
  <2>1. v.obj \in [Obj -> Ware]
    BY <1>4, <1>5
  <2>2. v.lights \in [Obj -> Nat]
    BY <1>4, <1>5
  <2> QED BY <1>2, <1>3, <1>4, <2>1, <2>2 DEF Worlds
<1>7. Good(v)
  BY <1>2, <1>3, <1>5, <1>6 DEF Good
<1> QED
  BY <1>5, <1>7 DEF v

-----------------------------------------------------------------------------
(* A timer goes off.                                                       *)

(* w is a good world, but that the timer of o, which is lit, is unlinked.  *)
Unlinked(g, w, o) ==
  /\ Good(g) /\ Only(g, w, {o}) /\ w.obj[o] = g.obj[o] /\ Near(o)
  /\ w.obj[o].lamplit /\ w.lights[o] = 1 /\ N(w.timers, o) = 0 /\ o \notin MagicLamps

(* After burn_object o is gone, or it has what was left, if anything was.  *)
Burnt(w, v, o, left) ==
  /\ Good(v) /\ Only(w, v, {o})
  /\ \/ v.obj[o].place \in {Gone, OnBill}
     \/ v.obj[o].place = w.obj[o].place /\ Has(v, o, IF left > 0 THEN left ELSE 0)

(* burn_object after run_timers has unlinked its timer: the object burns   *)
(* on with a new one, or is put out, or is gone.                           *)
LEMMA BurntGood ==
  ASSUME Base, NEW g, NEW w, NEW o \in Obj, Unlinked(g, w, o),
         NEW t, t.arg = o, t.timeout \in Int, NEW v \in burn_object(w, t)
  PROVE  Burnt(g, v, o, g.obj[o].age - (monstermoves - t.timeout))
<1> DEFINE left == w.obj[o].age - (monstermoves - t.timeout)
<1>1. /\ Good(g) /\ Only(g, w, {o}) /\ w \in Worlds /\ Near(o) /\ w.obj[o] \in Ware /\ w.obj[o].age \in Int
      /\ Proper(o, w.obj[o]) /\ ~Away(w.obj[o].place) /\ w.obj[o].age >= 0
  <2>1. Good(g) /\ Only(g, w, {o}) /\ w \in Worlds /\ Near(o) /\ w.obj[o] = g.obj[o]
    BY DEF Unlinked, Only
  <2>2. Proper(o, g.obj[o]) /\ ~Away(g.obj[o].place) /\ g.obj[o].age >= 0
    BY <2>1, NearHere
  <2> QED BY <2>1, <2>2, WorldParts
<1>2. left \in Int /\ monstermoves \in Nat
  BY <1>1 DEF Base
<1>3. w.obj[o].lamplit /\ w.lights[o] = 1 /\ N(w.timers, o) = 0 /\ o \notin MagicLamps /\ w.obj[o] = g.obj[o]
  BY DEF Unlinked
<1>4. CASE left > 0
  <2> DEFINE x == [w.obj[o] EXCEPT !.age = left]
             u == [w EXCEPT !.obj[o] = x]
             b == begin_burn(u, o, TRUE)
  <2>1. v = b
    <3>1. u = [w EXCEPT !.obj[o].age = left]
      OBVIOUS
    <3> QED BY <1>4, <3>1 DEF burn_object
  <2>2. /\ x \in Ware /\ x.place = w.obj[o].place /\ x.lamplit = w.obj[o].lamplit /\ x.unpaid = w.obj[o].unpaid
        /\ x.age = left
    BY <1>1, <1>2 DEF Ware
  <2> HIDE DEF x, left
  <2>3. Only(w, u, {o}) /\ u.obj[o] = x /\ u.timers = w.timers /\ u.lights = w.lights
    BY <1>1, <2>2, StructSet
  <2>4. u \in Worlds
    BY <2>3 DEF Only
  <2> HIDE DEF u
  <2>5. u.obj[o].age >= 0 /\ u.obj[o].age # 0 /\ TRUE \in BOOLEAN
    BY <1>2, <1>4, <2>2, <2>3
  <2>6. Alight(u, b, o, TRUE)
    BY <1>2, <2>4, <2>5, BurnStarted
  <2> HIDE DEF b
  <2>7. PICK a \in Int : /\ b.obj[o] = [u.obj[o] EXCEPT !.lamplit = TRUE, !.age = a]
                         /\ u.obj[o].age >= 0 => a >= 0
    BY <2>6 DEF Alight
  <2>8. /\ b.obj[o].place = w.obj[o].place /\ b.obj[o].lamplit /\ b.obj[o].age = a /\ a >= 0
        /\ b.obj[o].unpaid = w.obj[o].unpaid
    BY <2>2, <2>3, <2>5, <2>7 DEF Ware
  <2>9. Only(u, b, {o}) /\ b.lights[o] = 1 /\ N(b.timers, o) = 1
    BY <1>3, <2>3, <2>6 DEF Alight
  <2>10. Agrees(b, o)
    BY <1>3, <2>8, <2>9 DEF Agrees, Lit, Burns
  <2>11. Only(g, b, {o})
    <3>1. Only(w, b, {o})
      BY <2>3, <2>9, OnlyTwice
    <3> QED BY <1>1, <3>1, OnlyTwice
  <2>12. Proper(o, b.obj[o])
    BY <1>1, <1>3, <2>8 DEF Proper
  <2>13. ~Away(b.obj[o].place)
    BY <1>1, <2>8
  <2>14. Good(b)
    BY <1>1, <2>8, <2>10, <2>11, <2>12, <2>13, GoodOnly
  <2>15. Has(b, o, left)
    <3>1. N(u.timers, o) = 0 /\ u.obj[o].age = left
      BY <1>3, <2>2, <2>3
    <3>2. SameFuel(u, b, o)
      BY <1>3, <2>4, <2>6, <3>1, AlightFuel
    <3>3. Has(u, o, left)
      BY <3>1 DEF Has, Fuel
    <3> QED BY <1>2, <3>2, <3>3 DEF SameFuel
  <2> QED BY <1>3, <1>4, <2>1, <2>8, <2>11, <2>14, <2>15 DEF Burnt, left
<1>5. CASE ~(left > 0)
  <2> DEFINE x == [w.obj[o] EXCEPT !.age = 0]
             done == [w EXCEPT !.obj[o] = x]
             out == end_burn(done, o, FALSE)
  <2>1. /\ x \in Ware /\ x.place = w.obj[o].place /\ x.lamplit = w.obj[o].lamplit /\ x.unpaid = w.obj[o].unpaid
        /\ x.age = 0
    BY <1>1 DEF Ware
  <2>2. done = [w EXCEPT !.obj[o].age = 0]
    OBVIOUS
  <2> HIDE DEF x
  <2>3. Only(w, done, {o}) /\ done.obj[o] = x /\ done.timers = w.timers /\ done.lights = w.lights
    BY <1>1, <2>1, StructSet
  <2>4. done \in Worlds
    BY <2>3 DEF Only
  <2>5. v = IF o \in Candles \cup Oils THEN obfree(out, o) ELSE out
    <3>1. PICK r \in IF o \in Torches /\ t.timeout = monstermoves THEN Billed(done, o) ELSE {done} :
            v = LET end == end_burn(r, o, FALSE) IN IF o \in Candles \cup Oils THEN obfree(end, o) ELSE end
      BY <1>5, <2>2 DEF burn_object
    <3>2. o \in Torches => ~done.obj[o].unpaid
      BY <1>1, <2>1, <2>3 DEF Proper
    <3>3. r = done
      BY <3>1, <3>2 DEF Billed
    <3> QED BY <3>1, <3>3
  <2> HIDE DEF done, left
  <2>6. done.lights[o] = Lit(done, o) /\ N(done.timers, o) = (IF FALSE THEN Burns(done, o) ELSE 0)
        /\ FALSE \in BOOLEAN /\ monstermoves \in Int
    <3>1. done.lights[o] = 1 /\ N(done.timers, o) = 0 /\ done.obj[o].lamplit
      BY <1>3, <2>1, <2>3
    <3> QED BY <1>2, <3>1 DEF Lit
  <2>7. PutOut(done, out, o)
    BY <2>4, <2>6, EndedBurn
  <2> HIDE DEF out
  <2>8. PICK a \in Int : /\ out.obj[o] = [done.obj[o] EXCEPT !.lamplit = FALSE, !.age = a]
                         /\ N(done.timers, o) = 0 => a = done.obj[o].age
    BY <2>7 DEF PutOut
  <2>9. /\ out.obj[o].place = w.obj[o].place /\ ~out.obj[o].lamplit /\ out.obj[o].unpaid = w.obj[o].unpaid
        /\ out.obj[o].age = a /\ a = 0
    BY <1>3, <2>1, <2>3, <2>8 DEF Ware
  <2>10. Only(g, out, {o}) /\ out.lights[o] = 0 /\ N(out.timers, o) = 0
    <3>1. Only(w, out, {o})
      BY <2>3, <2>7, OnlyTwice DEF PutOut
    <3> QED BY <1>1, <2>7, <3>1, OnlyTwice DEF PutOut
  <2>11. Proper(o, out.obj[o]) /\ Agrees(out, o) /\ ~Away(out.obj[o].place)
    BY <1>1, <2>9, <2>10 DEF Proper, Agrees, Lit, Burns
  <2>12. Good(out)
    BY <1>1, <2>9, <2>10, <2>11, GoodOnly
  <2>13. Good(obfree(out, o)) /\ Only(g, obfree(out, o), {o}) /\ obfree(out, o).obj[o].place \in {Gone, OnBill}
    <3>1. Good(obfree(out, o)) /\ Only(out, obfree(out, o), {o}) /\ obfree(out, o).obj[o].place \in {Gone, OnBill}
      BY <1>1, <2>10, <2>12, ObfreeGood
    <3> QED BY <2>10, <3>1, OnlyTwice
  <2>14. Has(out, o, 0)
    BY <2>9, <2>10 DEF Has, Fuel
  <2> QED BY <1>3, <1>5, <2>5, <2>9, <2>10, <2>12, <2>13, <2>14 DEF Burnt, left
<1> QED
  BY <1>4, <1>5

-----------------------------------------------------------------------------
(* Fuel, from the state to a world.                                        *)

(* Fuel that is overdue counts as none.                                    *)
Pos(f) == IF f > 0 THEN f ELSE 0

(* o has in w the fuel that it has now, or a turn's less, if it is a torch *)
(* that is lit.                                                            *)
Answers(w, o) ==
  \A f \in Int : Has(World, o, f) =>
    \E g \in Int : /\ Has(w, o, g)
                   /\ \/ Pos(g) = Pos(f)
                      \/ o \in Torches /\ obj[o].lamplit /\ Pos(g) = Pos(f) - 1

OutOfUse(p) == p \in {Gone, OnBill}

(* So it is, or o was or is out of use, or it is not lit and was not, or   *)
(* may have shared its fuel: m.                                            *)
Accounted(w, o, m) ==
  \/ Answers(w, o)
  \/ OutOfUse(obj[o].place) \/ OutOfUse(w.obj[o].place)
  \/ ~w.obj[o].lamplit /\ (~obj[o].lamplit \/ m)

Track(w, m) == \A o \in Obj \ MagicLamps : Accounted(w, o, m)

(* Something went; a world in which fuel may be shared only if it did.     *)
Merging(w) == \E o \in Obj : obj[o].place # Gone /\ w.obj[o].place = Gone
Fair(w)    == Track(w, FALSE) \/ (Track(w, TRUE) /\ Merging(w))

(* At first every object has its fuel.                                     *)
LEMMA TrackStart == Track(World, FALSE)
<1>1. \A o : Answers(World, o)
  BY DEF Answers
<1> QED
  BY <1>1 DEF Track, Accounted

(* A step that costs o no fuel, does not light it and does not put it to   *)
(* use again.                                                              *)
LEMMA AccountedKeep ==
  ASSUME NEW w, NEW v, NEW o, NEW m, Accounted(w, o, m), SameFuel(w, v, o),
         OutOfUse(w.obj[o].place) => OutOfUse(obj[o].place) \/ OutOfUse(v.obj[o].place),
         v.obj[o].lamplit => w.obj[o].lamplit
  PROVE  Accounted(v, o, m)
<1>1. Answers(w, o) => Answers(v, o)
  BY DEF Answers, SameFuel
<1> QED
  BY <1>1 DEF Accounted

(* A step that leaves all but two alone.                                   *)
LEMMA TrackTwo ==
  ASSUME NEW w, NEW v, NEW o, NEW y, NEW m, Track(w, m), \A x \in Obj \ {o, y} : Untouched(w, v, x),
         o \notin MagicLamps => Accounted(v, o, m), y \notin MagicLamps => Accounted(v, y, m)
  PROVE  Track(v, m)
<1> SUFFICES ASSUME NEW x \in Obj \ MagicLamps, x # o, x # y PROVE Accounted(v, x, m)
  BY DEF Track
<1>1. Accounted(w, x, m) /\ v.obj[x] = w.obj[x] /\ SameFuel(w, v, x)
  BY DEF Track, Untouched
<1> QED
  BY <1>1, AccountedKeep

(* All but one.                                                            *)
LEMMA TrackOne ==
  ASSUME NEW w, NEW v, NEW o, NEW m, Track(w, m), \A x \in Obj \ {o} : Untouched(w, v, x),
         o \notin MagicLamps => Accounted(v, o, m)
  PROVE  Track(v, m)
<1>1. \A x \in Obj \ {o, o} : Untouched(w, v, x)
  OBVIOUS
<1> QED
  BY <1>1, TrackTwo

(* For all but o it is as it was, but for what was out of use.             *)
Others(w, o) ==
  \A x \in Obj \ {o} :
    \/ obj[x].place = Gone /\ w.obj[x].place # Floor(uz)
    \/ w.obj[x].place = obj[x].place /\ w.obj[x].lamplit = obj[x].lamplit

(* o can come to where others are.                                         *)
Ready(w, o) ==
  /\ Good(w) /\ Track(w, FALSE) /\ Others(w, o)
  /\ OutOfUse(w.obj[o].place) => OutOfUse(obj[o].place)

(* A struct that keeps its light and its age.                              *)
LEMMA TrackStruct ==
  ASSUME NEW w \in Worlds, NEW o \in Obj, NEW x \in Ware, NEW m, Track(w, m),
         x.lamplit = w.obj[o].lamplit, x.age = w.obj[o].age,
         OutOfUse(w.obj[o].place) => OutOfUse(obj[o].place) \/ OutOfUse(x.place)
  PROVE  LET v == [w EXCEPT !.obj[o] = x] IN
         Track(v, m) /\ SameFuel(w, v, o) /\ \A y \in Obj \ {o} : Untouched(w, v, y)
<1> DEFINE v == [w EXCEPT !.obj[o] = x]
<1>1. Only(w, v, {o}) /\ v.obj[o] = x /\ v.timers = w.timers
  BY StructSet
<1> HIDE DEF v
<1>2. SameFuel(w, v, o)
  BY <1>1, AgedFuel
<1>3. \A y \in Obj \ {o} : Untouched(w, v, y)
  BY <1>1, OnlyUntouched
<1>4. ASSUME o \notin MagicLamps PROVE Accounted(v, o, m)
  <2>1. Accounted(w, o, m)
    BY <1>4 DEF Track
  <2> QED BY <1>1, <1>2, <2>1, AccountedKeep
<1>5. Track(v, m)
  BY <1>3, <1>4, TrackOne
<1> QED
  BY <1>2, <1>3, <1>5 DEF v

(* A fair world after o has come; what was out of use has no fuel to       *)
(* share.                                                                  *)
FairFor(v, o) == Fair(v) /\ (OutOfUse(obj[o].place) => Track(v, FALSE))

(* What comes to rest shares its fuel with what it is merged with only     *)
(* when both are not lit.                                                  *)
LEMMA SettledFair ==
  ASSUME Base, NEW w, NEW o \in Obj, Near(o), Ready(w, o), NEW p \in {Invent, Floor(uz)},
         NEW v \in Settled(w, o, p)
  PROVE  FairFor(v, o)
<1> DEFINE m == Move(w, o, p)
           x == [w.obj[o] EXCEPT !.place = p]
<1>1. Good(w) /\ Track(w, FALSE) /\ Others(w, o) /\ (OutOfUse(w.obj[o].place) => OutOfUse(obj[o].place))
      /\ w \in Worlds /\ w.obj[o] \in Ware
  BY WorldParts DEF Ready, Good
<1>2. /\ p \in Places /\ ~Away(p) /\ Known(p) /\ (p.at \in {"floor", "buried"} => p.on \in Level)
      /\ ~OutOfUse(p) /\ Invent # Floor(uz) /\ Gone # Floor(uz)
  BY PlaceFacts DEF OutOfUse
<1>3. LitAt(o, p)
  BY <1>2 DEF LitAt
<1>4. Good(m)
  BY <1>1, <1>2, <1>3, MovedGood
<1>5. x \in Ware /\ x.lamplit = w.obj[o].lamplit /\ x.age = w.obj[o].age /\ x.place = p
  BY <1>1, <1>2 DEF Ware
<1>6. m = [w EXCEPT !.obj[o] = x]
  BY DEF Move
<1>7. m.obj[o] = x
  BY <1>1, <1>6 DEF Worlds
<1> HIDE DEF m, x
<1>8. Track(m, FALSE) /\ \A y \in Obj \ {o} : Untouched(w, m, y)
  BY <1>1, <1>5, <1>6, TrackStruct
<1>9. CASE v = m
  BY <1>8, <1>9 DEF Fair, FairFor
<1>10. ASSUME NEW y \in {z \in Obj : w.obj[z].place = p /\ mergable(w, o, z)},
              v \in IF p = Invent THEN merged(w, y, o) ELSE merged(m, o, y)
       PROVE  FairFor(v, o)
  <2>1. y \in Obj /\ y # o /\ w.obj[y].place = p /\ Near(y) /\ w.obj[y].lamplit = w.obj[o].lamplit
    <3>1. y \in Obj /\ w.obj[y].place = p /\ mergable(w, o, y)
      BY <1>10
    <3>2. y # o /\ w.obj[y].lamplit = w.obj[o].lamplit
      BY <3>1 DEF mergable
    <3> QED BY <1>1, <1>2, <3>1, <3>2, NearHere
  <2>2. \/ obj[y].place = Gone /\ p # Floor(uz)
        \/ p = obj[y].place /\ w.obj[y].lamplit = obj[y].lamplit
    BY <1>1, <2>1 DEF Others
  <2>3. CASE p = Invent
    <3>1. v \in merged(w, y, o)
      BY <1>10, <2>3
    <3>2. MergedInto(w, v, y, o)
      BY <1>1, <2>1, <3>1, MergedGood
    <3>3. /\ v.obj[o].place = Gone /\ v.obj[y].place = p /\ v.obj[y].lamplit = w.obj[y].lamplit
          /\ \A z \in Obj \ {y, o} : Untouched(w, v, z)
          /\ w.obj[o].lamplit => SameFuel(w, v, y)
      BY <2>1, <3>2 DEF MergedInto
    <3>4. Accounted(v, o, FALSE)
      BY <3>3 DEF Accounted, OutOfUse
    <3>5. ASSUME y \notin MagicLamps PROVE Accounted(v, y, FALSE)
      <4>1. CASE w.obj[o].lamplit
        <5>1. Accounted(w, y, FALSE)
          BY <1>1, <2>1, <3>5 DEF Track
        <5> QED BY <1>2, <2>1, <3>3, <4>1, <5>1, AccountedKeep
      <4>2. CASE ~w.obj[o].lamplit
        BY <2>1, <2>2, <3>3, <4>2 DEF Accounted, OutOfUse
      <4> QED BY <4>1, <4>2
    <3>6. Track(v, FALSE)
      <4>1. y \notin MagicLamps => Accounted(v, y, FALSE)
        BY <3>5
      <4>2. o \notin MagicLamps => Accounted(v, o, FALSE)
        BY <3>4
      <4> QED BY <1>1, <3>3, <4>1, <4>2, TrackTwo
    <3> QED BY <3>6 DEF Fair, FairFor
  <2>4. CASE p # Invent
    <3>1. v \in merged(m, o, y) /\ p = Floor(uz)
      BY <1>10, <2>4
    <3>2. MergedInto(m, v, o, y)
      BY <1>4, <2>1, <3>1, MergedGood
    <3>3. m.obj[y] = w.obj[y]
      BY <1>8, <2>1 DEF Untouched
    <3>4. /\ v.obj[y].place = Gone /\ v.obj[o].place = p /\ v.obj[o].lamplit = w.obj[o].lamplit
          /\ \A z \in Obj \ {o, y} : Untouched(m, v, z)
          /\ w.obj[y].lamplit => SameFuel(m, v, o)
      BY <1>5, <1>7, <3>2, <3>3 DEF MergedInto
    <3>5. \A k : Accounted(v, y, k)
      BY <3>4 DEF Accounted, OutOfUse
    <3>6. CASE w.obj[o].lamplit
      <4>1. ASSUME o \notin MagicLamps PROVE Accounted(v, o, FALSE)
        <5>1. Accounted(m, o, FALSE)
          BY <1>8, <4>1 DEF Track
        <5> QED BY <1>2, <1>5, <1>7, <2>1, <3>4, <3>6, <5>1, AccountedKeep
      <4>2. Track(v, FALSE)
        <5>1. o \notin MagicLamps => Accounted(v, o, FALSE)
          BY <4>1
        <5>2. y \notin MagicLamps => Accounted(v, y, FALSE)
          BY <3>5
        <5> QED BY <1>8, <3>4, <5>1, <5>2, TrackTwo
      <4> QED BY <4>2 DEF Fair, FairFor
    <3>7. CASE ~w.obj[o].lamplit
      <4>1. Track(m, TRUE)
        BY <1>8 DEF Track, Accounted
      <4>2. Accounted(v, o, TRUE)
        BY <3>4, <3>7 DEF Accounted
      <4>3. Track(v, TRUE)
        <5>1. y \notin MagicLamps => Accounted(v, y, TRUE)
          BY <3>5
        <5> QED BY <3>4, <4>1, <4>2, <5>1, TrackTwo
      <4>4. obj[y].place # Gone
        BY <1>2, <2>2, <3>1
      <4>5. Fair(v)
        BY <2>1, <3>4, <4>3, <4>4 DEF Fair, Merging
      <4>6. ASSUME OutOfUse(obj[o].place) PROVE Track(v, FALSE)
        <5>1. o \notin MagicLamps => Accounted(v, o, FALSE)
          BY <4>6 DEF Accounted
        <5>2. y \notin MagicLamps => Accounted(v, y, FALSE)
          BY <3>5
        <5> QED BY <1>8, <3>4, <5>1, <5>2, TrackTwo
      <4> QED BY <4>5, <4>6 DEF FairFor
    <3> QED BY <3>6, <3>7
  <2> QED BY <2>3, <2>4
<1>11. v = m \/ \E y \in {z \in Obj : w.obj[z].place = p /\ mergable(w, o, z)} :
                  v \in IF p = Invent THEN merged(w, y, o) ELSE merged(m, o, y)
  BY DEF Settled, m
<1> QED
  BY <1>9, <1>10, <1>11

(* What is put out keeps its fuel and its place.                           *)
LEMMA EndedTrack ==
  ASSUME NEW w \in Worlds, NEW v, NEW o \in Obj, PutOut(w, v, o)
  PROVE  /\ \A m : Track(w, m) => Track(v, m)
         /\ v.obj[o].place = w.obj[o].place /\ ~v.obj[o].lamplit
         /\ \A x \in Obj \ {o} : Untouched(w, v, x)
<1>1. SameFuel(w, v, o) /\ \A x \in Obj \ {o} : Untouched(w, v, x)
  BY OnlyUntouched DEF PutOut
<1>2. v.obj[o].place = w.obj[o].place /\ ~v.obj[o].lamplit
  BY WorldParts DEF PutOut, Ware
<1>3. ASSUME NEW m, Track(w, m) PROVE Track(v, m)
  <2>1. ASSUME o \notin MagicLamps PROVE Accounted(v, o, m)
    <3>1. Accounted(w, o, m)
      BY <1>3, <2>1 DEF Track
    <3> QED BY <1>1, <1>2, <3>1, AccountedKeep
  <2> QED BY <1>1, <1>3, <2>1, TrackOne
<1> QED
  BY <1>1, <1>2, <1>3

(* A world in which nothing else moves is as fair.                         *)
LEMMA FairStep ==
  ASSUME NEW w, NEW v, Fair(w), \A m \in BOOLEAN : Track(w, m) => Track(v, m),
         \A x \in Obj : w.obj[x].place = Gone => v.obj[x].place = Gone
  PROVE  Fair(v)
<1>1. Track(w, FALSE) => Track(v, FALSE)
  OBVIOUS
<1>2. Track(w, TRUE) => Track(v, TRUE)
  OBVIOUS
<1>3. Merging(w) => Merging(v)
  BY DEF Merging
<1> QED
  BY <1>1, <1>2, <1>3 DEF Fair

(* carry_obj_effects costs no fuel.                                        *)
LEMMA SnuffedTrack ==
  ASSUME Base, phase = "play", NEW w, Good(w), NEW o \in Obj, Near(o)
  PROVE  LET v == snuffed(w, o) IN
         /\ Good(v) /\ \A m : Track(w, m) => Track(v, m)
         /\ v.obj[o].place = w.obj[o].place
         /\ \A x \in Obj \ {o} : Untouched(w, v, x)
<1> DEFINE v == snuffed(w, o)
<1>1. CASE o \in Torches
  <2>1. v = end_burn(w, o, TRUE) /\ w \in Worlds
    BY <1>1 DEF snuffed, Good
  <2> HIDE DEF v
  <2>2. Good(v) /\ PutOut(w, v, o)
    BY <2>1, EndedGood
  <2> QED BY <2>1, <2>2, EndedTrack DEF v
<1>2. CASE o \notin Torches
  <2>1. v = w
    BY <1>2 DEF snuffed
  <2> QED BY <2>1 DEF Untouched, SameFuel
<1> QED
  BY <1>1, <1>2

(* The ways to the hero and to the floor.                                  *)
LEMMA AddinvFair ==
  ASSUME Base, phase = "play", NEW w, NEW o \in Obj, Near(o), Ready(w, o), NEW v \in addinv(w, o)
  PROVE  FairFor(v, o)
<1>1. PICK u \in Settled(w, o, Invent) : v = snuffed(u, o)
  BY DEF addinv
<1>2. FairFor(u, o)
  BY SettledFair
<1>3. Good(u)
  BY SettledGood DEF Ready, Came
<1>4. /\ \A m : Track(u, m) => Track(v, m)
      /\ v.obj[o].place = u.obj[o].place /\ \A x \in Obj \ {o} : Untouched(u, v, x)
  BY <1>1, <1>3, SnuffedTrack
<1>5. \A x \in Obj : u.obj[x].place = Gone => v.obj[x].place = Gone
  BY <1>4 DEF Untouched
<1>6. Fair(v)
  BY <1>2, <1>4, <1>5, FairStep DEF FairFor
<1> QED
  BY <1>2, <1>4, <1>6 DEF FairFor

LEMMA DropxFair ==
  ASSUME Base, NEW w, NEW o \in Obj, Near(o), Ready(w, o), NEW v \in dropx(w, o)
  PROVE  FairFor(v, o)
<1> DEFINE x == [w.obj[o] EXCEPT !.unpaid = FALSE]
           u == [w EXCEPT !.obj[o] = x]
<1>1. /\ Good(w) /\ Track(w, FALSE) /\ Others(w, o) /\ (OutOfUse(w.obj[o].place) => OutOfUse(obj[o].place))
      /\ w \in Worlds /\ w.obj[o] \in Ware /\ Proper(o, w.obj[o]) /\ w.obj[o].age >= 0 /\ ~Away(w.obj[o].place)
  BY NearHere, WorldParts DEF Ready
<1>2. /\ x \in Ware /\ x.place = w.obj[o].place /\ x.lamplit = w.obj[o].lamplit /\ x.unpaid = FALSE
      /\ x.age = w.obj[o].age
  BY <1>1 DEF Ware
<1>3. u = [w EXCEPT !.obj[o].unpaid = FALSE]
  OBVIOUS
<1>4. u.obj[o] = x
  BY <1>1 DEF Worlds
<1> HIDE DEF x
<1>5. Proper(o, x)
  BY <1>1, <1>2 DEF Proper
<1>6. Good(u)
  BY <1>1, <1>2, <1>5, GoodStruct
<1>7. Track(u, FALSE) /\ \A y \in Obj \ {o} : Untouched(w, u, y)
  BY <1>1, <1>2, TrackStruct
<1>8. v \in Settled(u, o, Floor(uz))
  BY <1>3 DEF dropx
<1> HIDE DEF u
<1>9. Others(u, o)
  BY <1>1, <1>7 DEF Others, Untouched
<1>10. Ready(u, o)
  BY <1>1, <1>2, <1>4, <1>6, <1>7, <1>9 DEF Ready
<1> QED
  BY <1>8, <1>10, SettledFair

LEMMA HoldFair ==
  ASSUME Base, phase = "play", NEW w, NEW o \in Obj, Near(o), Ready(w, o), NEW v \in hold_another_object(w, o)
  PROVE  FairFor(v, o)
<1> DEFINE u == snuffed(w, o)
<1>1. /\ Good(w) /\ Track(w, FALSE) /\ Others(w, o)
      /\ OutOfUse(w.obj[o].place) => OutOfUse(obj[o].place)
  BY DEF Ready
<1>2. /\ Good(u) /\ \A m : Track(w, m) => Track(u, m)
      /\ u.obj[o].place = w.obj[o].place /\ \A x \in Obj \ {o} : Untouched(w, u, x)
  BY <1>1, SnuffedTrack
<1>3. v \in addinv(w, o) \/ v \in dropx(w, o) \/ v \in dropx(u, o)
  BY DEF hold_another_object
<1> HIDE DEF u
<1>4. Track(u, FALSE)
  BY <1>1, <1>2
<1>5. Others(u, o)
  BY <1>1, <1>2 DEF Others, Untouched
<1>6. Ready(u, o)
  BY <1>1, <1>2, <1>4, <1>5 DEF Ready
<1> QED
  BY <1>3, <1>6, AddinvFair, DropxFair

(* From the state to a world in which only o is not as it was.             *)
LEMMA TrackFirst ==
  ASSUME NEW w, NEW o, \A x \in Obj \ {o} : Untouched(World, w, x),
         o \notin MagicLamps => Accounted(w, o, FALSE)
  PROVE  Track(w, FALSE) /\ Fair(w)
<1>1. Track(w, FALSE)
  BY TrackStart, TrackOne
<1> QED
  BY <1>1 DEF Fair

LEMMA ReadyFirst ==
  ASSUME NEW w, NEW o, Good(w), Track(w, FALSE), \A x \in Obj \ {o} : Untouched(World, w, x),
         OutOfUse(w.obj[o].place) => OutOfUse(obj[o].place)
  PROVE  Ready(w, o)
<1>1. World.obj = obj
  BY DEF World
<1>2. Others(w, o)
  BY <1>1 DEF Others, Untouched
<1> QED
  BY <1>2 DEF Ready

(* It has its fuel, if it costs none.                                      *)
LEMMA AnswersSame ==
  ASSUME NEW w, NEW o, SameFuel(World, w, o)
  PROVE  Answers(w, o)
BY DEF Answers, SameFuel

(* What is lit or put out after it may be paid for, costs no fuel.         *)
LEMMA LitTrack ==
  ASSUME Base, NEW w, Track(w, FALSE), NEW o \in Obj, o \notin MagicLamps => Answers(w, o),
         NEW v, Settle(w, v, o), NEW b, \A x \in Obj \ {o} : Untouched(v, b, x),
         o \notin MagicLamps => SameFuel(v, b, o)
  PROVE  Track(b, FALSE) /\ Fair(b)
<1>1. ASSUME o \notin MagicLamps PROVE Accounted(b, o, FALSE)
  <2>1. Answers(w, o) /\ SameFuel(w, v, o) /\ SameFuel(v, b, o)
    BY <1>1 DEF Settle
  <2>2. Answers(b, o)
    BY <2>1 DEF Answers, SameFuel
  <2> QED BY <2>2 DEF Accounted
<1>2. ASSUME NEW x \in Obj, x \notin MagicLamps, x # o PROVE Accounted(b, x, FALSE)
  <2>1. CASE Untouched(w, v, x)
    <3>1. Accounted(w, x, FALSE)
      BY <1>2 DEF Track
    <3>2. SameFuel(w, b, x) /\ b.obj[x] = w.obj[x]
      BY <1>2, <2>1 DEF Untouched, SameFuel
    <3> QED BY <3>1, <3>2, AccountedKeep
  <2>2. CASE v.obj[x].place = OnBill
    BY <1>2, <2>2 DEF Untouched, Accounted, OutOfUse
  <2> QED BY <1>2, <2>1, <2>2 DEF Settle
<1>3. Track(b, FALSE)
  BY <1>1, <1>2 DEF Track
<1> QED
  BY <1>3 DEF Fair

(* A part is taken of o, which the hero has, and lit or put out: either    *)
(* part can come to where others are.                                      *)
LEMMA PartChanged ==
  ASSUME Base, NEW o \in Obj, obj[o].place \notin {Gone, Floor(uz)}, NEW w, Settle(World, w, o),
         NEW t, PartOf(w, t, o), NEW v, Good(v), \A x \in Obj \ {t[1]} : Untouched(t[2], v, x),
         v.obj[t[1]].place = t[2].obj[t[1]].place, t[1] \notin MagicLamps => SameFuel(t[2], v, t[1])
  PROVE  Track(v, FALSE) /\ Fair(v) /\ Ready(v, t[1]) /\ Ready(v, o)
<1> DEFINE n == t[1]
<1>1. /\ n \in Obj /\ SameFuel(w, t[2], o) /\ \A x \in Obj \ {o, n} : Untouched(w, t[2], x)
      /\ n # o => w.obj[n].place = Gone
      /\ \A x \in {o, n} : t[2].obj[x].place = w.obj[o].place /\ t[2].obj[x].lamplit = w.obj[o].lamplit
  BY DEF PartOf
<1>2. /\ w.obj[o].place = obj[o].place /\ w.obj[o].lamplit = obj[o].lamplit /\ SameFuel(World, w, o)
      /\ \A x \in Obj \ {o} : Untouched(World, w, x) \/ (obj[x].place = Gone /\ w.obj[x].place = OnBill)
  <2>1. World.obj = obj
    BY DEF World
  <2>2. w.obj[o].place = obj[o].place /\ w.obj[o].lamplit = obj[o].lamplit /\ SameFuel(World, w, o)
    BY <2>1 DEF Settle
  <2>3. ASSUME NEW x \in Obj, x # o PROVE Untouched(World, w, x) \/ (obj[x].place = Gone /\ w.obj[x].place = OnBill)
    BY <2>1, <2>3 DEF Settle
  <2> QED BY <2>2, <2>3
<1>3. Gone # OnBill /\ OnBill # Floor(uz) /\ World.obj = obj
  BY DEF World, Gone, OnBill, Floor, At
<1>4. n # o => obj[n].place = Gone
  BY <1>1, <1>2, <1>3 DEF Untouched
<1> HIDE DEF n
<1>5. ASSUME o \notin MagicLamps PROVE Answers(v, o)
  <2>1. SameFuel(t[2], v, o)
    BY <1>5 DEF Untouched, n
  <2> QED BY <1>1, <1>2, <2>1 DEF Answers, SameFuel
<1>6. ASSUME NEW x \in Obj, x \notin MagicLamps PROVE Accounted(v, x, FALSE)
  <2>1. CASE x = o
    BY <1>5, <1>6, <2>1 DEF Accounted
  <2>2. CASE x = n /\ n # o
    BY <1>4, <2>2 DEF Accounted, OutOfUse
  <2>3. CASE x # o /\ x # n
    <3>1. SameFuel(w, v, x)
      BY <1>1, <2>3 DEF Untouched, SameFuel, n
    <3>2. CASE Untouched(World, w, x)
      <4>1. Answers(v, x)
        BY <3>1, <3>2 DEF Untouched, Answers, SameFuel
      <4> QED BY <4>1 DEF Accounted
    <3>3. CASE obj[x].place = Gone
      BY <3>3 DEF Accounted, OutOfUse
    <3> QED BY <1>2, <2>3, <3>2, <3>3
  <2> QED BY <2>1, <2>2, <2>3
<1>7. Track(v, FALSE)
  BY <1>6 DEF Track
<1>8. \A x \in Obj \ {o, n} : v.obj[x] = w.obj[x]
  BY <1>1 DEF Untouched, n
<1>9. \A x \in Obj \ {o, n} : \/ obj[x].place = Gone /\ v.obj[x].place # Floor(uz)
                              \/ v.obj[x] = obj[x]
  BY <1>2, <1>3, <1>8 DEF Untouched
<1>10. v.obj[n].place = obj[o].place
  BY <1>1, <1>2 DEF n
<1>11. n # o => v.obj[o].place = obj[o].place /\ v.obj[o].lamplit = obj[o].lamplit
  BY <1>1, <1>2 DEF Untouched, n
<1>12. Others(v, n)
  BY <1>9, <1>11 DEF Others
<1>13. Others(v, o)
  BY <1>4, <1>9, <1>10 DEF Others
<1>14. Ready(v, n)
  BY <1>4, <1>7, <1>10, <1>12 DEF Ready, OutOfUse
<1>15. Ready(v, o)
  BY <1>7, <1>10, <1>11, <1>13 DEF Ready
<1> QED
  BY <1>7, <1>14, <1>15 DEF Fair, n

-----------------------------------------------------------------------------
(* The inductive invariant.                                                *)

(* What is written to a file.                                              *)
Snap == [timers : Seq(Timer), lights : [Obj -> Nat]]

(* Where the light and the timer of o are.                                 *)
InMemory(o)  == phase # "saved" /\ ~Away(obj[o].place)
InGsave(o)   == phase = "saved" /\ obj[o].place.at \notin {"floor", "buried"}
OnFile(o, l) == obj[o].place \in {Floor(l), Buried(l)} /\ (l # uz \/ phase = "saved")

(* f has them just when b; s is the struct of o.                           *)
Holds(f, o, s, b) ==
  /\ f.lights[o] = IF b /\ s.lamplit THEN 1 ELSE 0
  /\ N(f.timers, o) = IF b /\ s.lamplit /\ o \notin MagicLamps THEN 1 ELSE 0

(* Every object is as the code leaves it, and its light and timer are in   *)
(* the one place where they belong.                                        *)
Inv ==
  /\ Base /\ phase \in {"play", "run", "arrive", "saved"}
  /\ World \in Worlds /\ gsave \in Snap /\ file \in [Level -> Snap]
  /\ \A o \in Obj :
       /\ Proper(o, obj[o]) /\ obj[o].age >= 0
       /\ Holds(World, o, obj[o], InMemory(o))
       /\ Holds(gsave, o, obj[o], InGsave(o))
       /\ \A l \in Level : Holds(file[l], o, obj[o], OnFile(o, l))
  /\ Ordered(timer_base)
  /\ phase = "play" => Prompt(timer_base)

(* Floor(k) and Buried(k) are the places on level k.                       *)
OnLevel(p) == p.at \in {"floor", "buried"}

(* A place is on level k by its fields, and away when it is on another     *)
(* level than the hero's.                                                  *)
LEMMA PlaceOn ==
  ASSUME NEW p \in Places, NEW k
  PROVE  /\ p \in {Floor(k), Buried(k)} <=> OnLevel(p) /\ p.on = k
         /\ Away(p) <=> OnLevel(p) /\ p.on # uz
<1>1. p = [at |-> p.at, on |-> p.on]
  BY DEF Places
<1>2. p \in {Floor(k), Buried(k)} <=> OnLevel(p) /\ p.on = k
  BY <1>1 DEF Floor, Buried, At, OnLevel
<1> QED
  BY <1>2 DEF Away, OnLevel

(* While the game runs the world is good.                                  *)
LEMMA WorldGood ==
  ASSUME Inv, phase # "saved"
  PROVE  Good(World) /\ Base
<1>1. World \in Worlds /\ World.obj = obj /\ World.timers = timer_base /\ World.lights = light_base
  BY DEF Inv, World
<1>2. ASSUME NEW o \in Obj PROVE Fits(World, o) /\ obj[o].age >= 0
  <2>1. Proper(o, obj[o]) /\ obj[o].age >= 0 /\ Holds(World, o, obj[o], InMemory(o))
    BY DEF Inv
  <2> QED BY <1>1, <2>1 DEF Fits, Holds, InMemory, Agrees, Lit, Burns, Stays
<1> QED
  BY <1>1, <1>2 DEF Good, Inv

(* A step to another good world.                                           *)
LEMMA WorldStep ==
  ASSUME Inv, phase # "saved", NEW w, Good(w), Become(w), UNCHANGED <<monstermoves, uz, file, gsave>>,
         phase' \in {"play", "run", "arrive"}, phase' = "play" => Prompt(w.timers)
  PROVE  Inv'
<1>1. w \in Worlds /\ w = [obj |-> w.obj, timers |-> w.timers, lights |-> w.lights]
  BY DEF Good, Worlds
<1>2. obj' = w.obj /\ timer_base' = w.timers /\ light_base' = w.lights /\ World' = w
  BY <1>1 DEF Become, World
<1>3. Base'
  BY DEF Inv, Base
<1>4. ASSUME NEW o \in Obj
      PROVE  /\ Proper(o, obj'[o]) /\ obj'[o].age >= 0
             /\ Holds(World', o, obj'[o], InMemory(o)')
             /\ Holds(gsave', o, obj'[o], InGsave(o)')
             /\ \A l \in Level : Holds(file'[l], o, obj'[o], OnFile(o, l)')
  <2>1. Fits(w, o) /\ w.obj[o].age >= 0
    BY DEF Good
  <2>2. /\ Away(w.obj[o].place)' <=> Away(w.obj[o].place)
        /\ InMemory(o)' <=> ~Away(w.obj[o].place)
        /\ ~InGsave(o) /\ ~InGsave(o)'
    BY <1>2 DEF InMemory, InGsave, Away
  <2>3. Holds(w, o, w.obj[o], ~Away(w.obj[o].place))
    BY <2>1 DEF Fits, Holds, Agrees, Lit, Burns
  <2>4. Holds(gsave', o, obj'[o], InGsave(o)')
    <3>1. Holds(gsave, o, obj[o], InGsave(o))
      BY DEF Inv
    <3> QED BY <2>2, <3>1 DEF Holds
  <2>5. ASSUME NEW l \in Level PROVE Holds(file'[l], o, obj'[o], OnFile(o, l)')
    <3>1. Holds(file[l], o, obj[o], OnFile(o, l))
      BY DEF Inv
    <3>2. /\ OnFile(o, l) <=> obj[o].place \in {Floor(l), Buried(l)} /\ l # uz
          /\ OnFile(o, l)' <=> w.obj[o].place \in {Floor(l), Buried(l)} /\ l # uz
      BY <1>2 DEF OnFile, Floor, Buried
    <3>3. \A p : p \in {Floor(l), Buried(l)} /\ l # uz => Away(p)
      BY DEF Floor, Buried, Away, At
    <3>4. CASE OnFile(o, l) \/ OnFile(o, l)'
      <4>1. Stays(w.obj[o], obj[o])
        BY <2>1, <3>2, <3>3, <3>4 DEF Fits
      <4>2. (OnFile(o, l)' <=> OnFile(o, l)) /\ obj'[o].lamplit = obj[o].lamplit
        BY <1>2, <3>2, <4>1 DEF Stays
      <4> QED BY <3>1, <4>2 DEF Holds
    <3>5. CASE ~OnFile(o, l) /\ ~OnFile(o, l)'
      BY <3>1, <3>5 DEF Holds
    <3> QED BY <3>4, <3>5
  <2>6. Proper(o, w.obj[o])
    BY <2>1 DEF Fits
  <2>7. Holds(World', o, obj'[o], InMemory(o)')
    BY <1>2, <2>2, <2>3 DEF Holds
  <2> QED BY <1>2, <2>1, <2>4, <2>5, <2>6, <2>7
<1>5. Ordered(timer_base') /\ (phase' = "play" => Prompt(timer_base)')
  BY <1>2 DEF Good, Prompt
<1>6. gsave' \in Snap /\ file' \in [Level -> Snap]
  BY DEF Inv
<1> QED
  BY <1>1, <1>2, <1>3, <1>4, <1>5, <1>6 DEF Inv

-----------------------------------------------------------------------------
(* Fuel, wherever the timers are.                                          *)

(* f is the fuel o has left by the timers of where it is.                  *)
FuelLeft(o, f) ==
  \/ InMemory(o) /\ Has(World, o, f)
  \/ InGsave(o) /\ Fuel(monstermoves, gsave.timers, o, obj[o].age, f)
  \/ \E l \in Level : OnFile(o, l) /\ Fuel(monstermoves, file[l].timers, o, obj[o].age, f)

(* The extremes of 0 and f, and of f alone.                                *)
LEMMA PosMax == \A f \in Int : Max({0, f}) = Pos(f) /\ Pos(f) \in Nat /\ Min({f}) = f
<1> SUFFICES ASSUME NEW f \in Int PROVE Max({0, f}) = Pos(f) /\ Pos(f) \in Nat /\ Min({f}) = f
  OBVIOUS
<1>1. Max({0, f}) = Pos(f)
  BY MinMax DEF Pos
<1>2. Min({f}) = f
  BY DEF Min
<1> QED
  BY <1>1, <1>2 DEF Pos

(* When the timers of o in the lists Q go off: q is the only one with any. *)
LEMMA DueAt ==
  ASSUME NEW Q, NEW q \in Q, NEW o, q \in Seq(Timer), \A r \in Q : r \in Seq(Timer) /\ (r = q \/ N(r, o) = 0)
  PROVE  LET due == UNION {{r[i].timeout : i \in OnArg(r, o)} : r \in Q} IN
         /\ N(q, o) = 0 => due = {}
         /\ \A x : N(q, o) = 1 /\ GoesOff(q, o, x) => due = {x}
<1> DEFINE due == UNION {{r[i].timeout : i \in OnArg(r, o)} : r \in Q}
<1>1. \A r \in Q : r = q \/ OnArg(r, o) = {}
  BY OnArgNumber
<1>2. ASSUME NEW x PROVE x \in due <=> GoesOff(q, o, x)
  <2>1. x \in due <=> \E r \in Q : \E i \in OnArg(r, o) : x = r[i].timeout
    OBVIOUS
  <2>2. (\E r \in Q : \E i \in OnArg(r, o) : x = r[i].timeout) <=> \E i \in OnArg(q, o) : x = q[i].timeout
    BY <1>1
  <2>3. (\E i \in OnArg(q, o) : x = q[i].timeout) <=> GoesOff(q, o, x)
    BY DEF OnArg, GoesOff
  <2> QED BY <2>1, <2>2, <2>3
<1> HIDE DEF due
<1>3. ASSUME N(q, o) = 0 PROVE due = {}
  <2>1. \A x : ~GoesOff(q, o, x)
    BY <1>3, OnArgNumber DEF GoesOff, OnArg
  <2> QED BY <1>2, <2>1
<1>4. ASSUME NEW x, N(q, o) = 1, GoesOff(q, o, x) PROVE due = {x}
  <2>1. \A y : GoesOff(q, o, y) => y = x
    BY <1>4, GoesOffOnce
  <2> QED BY <1>2, <1>4, <2>1
<1> QED
  BY <1>3, <1>4 DEF due

(* The fuel by the list q is what is left, when no other has a timer.      *)
LEMMA LeftBy ==
  ASSUME NEW o, NEW q \in Queues, \A r \in Queues : r \in Seq(Timer) /\ (r = q \/ N(r, o) = 0),
         N(q, o) \in {0, 1}, NEW f \in Int, Fuel(monstermoves, q, o, obj[o].age, f),
         obj[o].age \in Int, obj[o].age >= 0, monstermoves \in Int
  PROVE  Left(o) = Pos(f)
<1> DEFINE due == UNION {{r[i].timeout : i \in OnArg(r, o)} : r \in Queues}
<1>1. Left(o) = IF due = {} THEN obj[o].age ELSE Max({0, obj[o].age + Min(due) - monstermoves})
  BY DEF Left
<1>2. /\ N(q, o) = 0 => due = {}
      /\ \A x : N(q, o) = 1 /\ GoesOff(q, o, x) => due = {x}
  BY DueAt
<1> HIDE DEF due
<1>3. CASE N(q, o) = 0
  BY <1>1, <1>2, <1>3 DEF Fuel, Pos
<1>4. CASE N(q, o) = 1
  <2> DEFINE x == monstermoves + f - obj[o].age
  <2>1. GoesOff(q, o, x)
    BY <1>4 DEF Fuel
  <2>2. x \in Int /\ obj[o].age + x - monstermoves = f
    OBVIOUS
  <2> HIDE DEF x
  <2>3. due = {x} /\ due # {} /\ Min(due) = x
    BY <1>2, <1>4, <2>1, <2>2, PosMax
  <2> QED BY <1>1, <2>2, <2>3, PosMax
<1> QED
  BY <1>3, <1>4

(* The timer lists by name, and what is in them of o.                      *)
LEMMA QueueParts ==
  ASSUME Inv, NEW o \in Obj
  PROVE  /\ Base /\ obj[o].age \in Int /\ obj[o].age >= 0 /\ World.timers = timer_base /\ World.obj = obj
         /\ World \in Worlds
         /\ timer_base \in Seq(Timer) /\ gsave.timers \in Seq(Timer) /\ \A l \in Level : file[l].timers \in Seq(Timer)
         /\ N(timer_base, o) = IF InMemory(o) /\ obj[o].lamplit /\ o \notin MagicLamps THEN 1 ELSE 0
         /\ N(gsave.timers, o) = IF InGsave(o) /\ obj[o].lamplit /\ o \notin MagicLamps THEN 1 ELSE 0
         /\ \A l \in Level : N(file[l].timers, o) = IF OnFile(o, l) /\ obj[o].lamplit /\ o \notin MagicLamps THEN 1 ELSE 0
         /\ InMemory(o) => ~InGsave(o)
         /\ \A l \in Level : OnFile(o, l) => /\ ~InMemory(o) /\ ~InGsave(o)
                                             /\ \A k \in Level : OnFile(o, k) => k = l
         /\ InMemory(o) \/ InGsave(o) \/ \E l \in Level : OnFile(o, l)
<1>1. /\ Base /\ obj[o].age >= 0 /\ World.timers = timer_base /\ World.obj = obj
      /\ World \in Worlds /\ gsave \in Snap /\ file \in [Level -> Snap]
      /\ Holds(World, o, obj[o], InMemory(o))
      /\ Holds(gsave, o, obj[o], InGsave(o))
      /\ \A l \in Level : Holds(file[l], o, obj[o], OnFile(o, l))
      /\ Proper(o, obj[o])
  BY DEF Inv, World
<1>2. obj[o].age \in Int /\ timer_base \in Seq(Timer) /\ obj[o].place \in Places
  BY <1>1, WorldParts
<1>3. gsave.timers \in Seq(Timer) /\ \A l \in Level : file[l].timers \in Seq(Timer)
  BY <1>1 DEF Snap
<1>4. /\ OnLevel(obj[o].place) => obj[o].place.on \in Level
      /\ Away(obj[o].place) <=> OnLevel(obj[o].place) /\ obj[o].place.on # uz
      /\ \A l \in Level : obj[o].place \in {Floor(l), Buried(l)} <=> OnLevel(obj[o].place) /\ obj[o].place.on = l
  BY <1>1, <1>2, PlaceOn DEF Proper, OnLevel
<1>5. /\ InMemory(o) <=> phase # "saved" /\ ~Away(obj[o].place)
      /\ InGsave(o) <=> phase = "saved" /\ ~OnLevel(obj[o].place)
      /\ \A l \in Level : OnFile(o, l) <=> OnLevel(obj[o].place) /\ obj[o].place.on = l /\ (l # uz \/ phase = "saved")
  <2>1. InMemory(o) <=> phase # "saved" /\ ~Away(obj[o].place)
    BY DEF InMemory
  <2>2. InGsave(o) <=> phase = "saved" /\ ~OnLevel(obj[o].place)
    BY DEF InGsave, OnLevel
  <2>3. \A l \in Level : OnFile(o, l) <=> OnLevel(obj[o].place) /\ obj[o].place.on = l /\ (l # uz \/ phase = "saved")
    BY <1>4 DEF OnFile
  <2> QED BY <2>1, <2>2, <2>3
<1>6. /\ InMemory(o) => ~InGsave(o)
      /\ \A l \in Level : OnFile(o, l) => /\ ~InMemory(o) /\ ~InGsave(o)
                                          /\ \A k \in Level : OnFile(o, k) => k = l
      /\ InMemory(o) \/ InGsave(o) \/ \E l \in Level : OnFile(o, l)
  <2>1. InMemory(o) => ~InGsave(o)
    BY <1>5
  <2>2. ASSUME NEW l \in Level, OnFile(o, l)
        PROVE  ~InMemory(o) /\ ~InGsave(o) /\ \A k \in Level : OnFile(o, k) => k = l
    <3>1. OnLevel(obj[o].place) /\ obj[o].place.on = l /\ (l # uz \/ phase = "saved")
      BY <1>5, <2>2
    <3>2. ~InMemory(o) /\ ~InGsave(o)
      BY <1>4, <1>5, <3>1
    <3>3. \A k \in Level : OnFile(o, k) => k = l
      BY <1>5, <3>1
    <3> QED BY <3>2, <3>3
  <2>3. InMemory(o) \/ InGsave(o) \/ \E l \in Level : OnFile(o, l)
    <3>1. CASE ~OnLevel(obj[o].place)
      BY <1>4, <1>5, <3>1
    <3>2. CASE OnLevel(obj[o].place) /\ (obj[o].place.on # uz \/ phase = "saved")
      <4>1. obj[o].place.on \in Level /\ OnFile(o, obj[o].place.on)
        BY <1>4, <1>5, <3>2
      <4> QED BY <4>1
    <3>3. CASE ~(obj[o].place.on # uz \/ phase = "saved")
      BY <1>4, <1>5, <3>3
    <3> QED BY <3>1, <3>2, <3>3
  <2> QED BY <2>1, <2>2, <2>3
<1> QED
  BY <1>1, <1>2, <1>3, <1>6 DEF Holds

(* That is the fuel o has left, and it has some.                           *)
LEMMA LeftIs ==
  Inv => \A o \in Obj : /\ \E f \in Int : FuelLeft(o, f)
                        /\ \A f \in Int : FuelLeft(o, f) => Left(o) = Pos(f)
<1> SUFFICES ASSUME Inv, NEW o \in Obj
             PROVE  /\ \E f \in Int : FuelLeft(o, f)
                    /\ \A f \in Int : FuelLeft(o, f) => Left(o) = Pos(f)
  OBVIOUS
<1>1. /\ monstermoves \in Int /\ obj[o].age \in Int /\ obj[o].age >= 0 /\ World.timers = timer_base /\ World.obj = obj
      /\ timer_base \in Seq(Timer) /\ gsave.timers \in Seq(Timer) /\ \A l \in Level : file[l].timers \in Seq(Timer)
      /\ N(timer_base, o) \in {0, 1} /\ N(gsave.timers, o) \in {0, 1} /\ \A l \in Level : N(file[l].timers, o) \in {0, 1}
  BY QueueParts DEF Base
<1>2. /\ ~InMemory(o) => N(timer_base, o) = 0
      /\ ~InGsave(o) => N(gsave.timers, o) = 0
      /\ \A l \in Level : ~OnFile(o, l) => N(file[l].timers, o) = 0
  BY QueueParts
<1>3. \A r \in Queues : r = timer_base \/ r = gsave.timers \/ \E l \in Level : r = file[l].timers
  BY DEF Queues
<1>4. \A r \in Queues : r \in Seq(Timer)
  BY <1>1, <1>3
<1>5. \E f \in Int : FuelLeft(o, f)
  <2>1. CASE InMemory(o)
    BY <1>1, <2>1, FuelExists DEF FuelLeft, Has
  <2>2. CASE InGsave(o)
    BY <1>1, <2>2, FuelExists DEF FuelLeft
  <2>3. CASE \E l \in Level : OnFile(o, l)
    BY <1>1, <2>3, FuelExists DEF FuelLeft
  <2> QED BY <2>1, <2>2, <2>3, QueueParts
<1>6. ASSUME NEW f \in Int, InMemory(o), Has(World, o, f) PROVE Left(o) = Pos(f)
  <2>1. timer_base \in Queues
    BY DEF Queues
  <2>2. \A r \in Queues : r = timer_base \/ N(r, o) = 0
    BY <1>2, <1>3, <1>6, QueueParts
  <2>3. Fuel(monstermoves, timer_base, o, obj[o].age, f)
    BY <1>1, <1>6 DEF Has
  <2> QED BY <1>1, <1>4, <2>1, <2>2, <2>3, LeftBy
<1>7. ASSUME NEW f \in Int, InGsave(o), Fuel(monstermoves, gsave.timers, o, obj[o].age, f) PROVE Left(o) = Pos(f)
  <2>1. gsave.timers \in Queues
    BY DEF Queues
  <2>2. \A r \in Queues : r = gsave.timers \/ N(r, o) = 0
    BY <1>2, <1>3, <1>7, QueueParts
  <2> QED BY <1>1, <1>4, <1>7, <2>1, <2>2, LeftBy
<1>8. ASSUME NEW f \in Int, NEW l \in Level, OnFile(o, l), Fuel(monstermoves, file[l].timers, o, obj[o].age, f)
      PROVE  Left(o) = Pos(f)
  <2>1. file[l].timers \in Queues
    BY DEF Queues
  <2>2. \A r \in Queues : r = file[l].timers \/ N(r, o) = 0
    BY <1>2, <1>3, <1>8, QueueParts
  <2> QED BY <1>1, <1>4, <1>8, <2>1, <2>2, LeftBy
<1> QED
  BY <1>5, <1>6, <1>7, <1>8 DEF FuelLeft

(* What a step may do to the fuel of o.                                    *)
Spent(o) ==
  (InUse(o) /\ InUse(o)' /\ (obj'[o].lamplit \/ (obj[o].lamplit /\ ~Merges))) =>
    \A f \in Int : FuelLeft(o, f) =>
      \E g \in Int : /\ FuelLeft(o, g)'
                     /\ \/ Pos(g) = Max({0, Pos(f) - IF obj[o].lamplit THEN monstermoves' - monstermoves ELSE 0})
                        \/ o \in Torches /\ obj[o].lamplit /\ Pos(g) = Pos(f) - 1

OnlyTime == \A o \in Obj \ MagicLamps : Spent(o)

(* When the clock stands no fuel is spent.                                 *)
LEMMA NothingSpent ==
  ASSUME monstermoves \in Int, monstermoves' = monstermoves, NEW o
  PROVE  \A f \in Int : Pos(f) = Max({0, Pos(f) - IF obj[o].lamplit THEN monstermoves' - monstermoves ELSE 0})
<1> SUFFICES ASSUME NEW f \in Int
             PROVE  Pos(f) = Max({0, Pos(f) - IF obj[o].lamplit THEN monstermoves' - monstermoves ELSE 0})
  OBVIOUS
<1>1. Pos(f) \in Nat /\ Max({0, Pos(f)}) = Pos(Pos(f))
  <2>1. Pos(f) \in Int
    BY DEF Pos
  <2> HIDE DEF Pos
  <2>2. Max({0, Pos(f)}) = Pos(Pos(f))
    BY <2>1, PosMax
  <2> QED BY <2>2, PosMax
<1>2. (IF obj[o].lamplit THEN monstermoves' - monstermoves ELSE 0) = 0
  OBVIOUS
<1>3. Pos(f) - (IF obj[o].lamplit THEN monstermoves' - monstermoves ELSE 0) = Pos(f)
  BY <1>1, <1>2
<1>4. Pos(Pos(f)) = Pos(f)
  BY <1>1 DEF Pos
<1> QED
  BY <1>1, <1>3, <1>4

(* The same fuel, at the same time.                                        *)
Keeps(o) == \A f \in Int : FuelLeft(o, f) => FuelLeft(o, f)'

LEMMA KeepsSpent ==
  ASSUME monstermoves \in Int, monstermoves' = monstermoves, NEW o, InUse(o) /\ InUse(o)' => Keeps(o)
  PROVE  Spent(o)
<1>1. \A f \in Int : Pos(f) = Max({0, Pos(f) - IF obj[o].lamplit THEN monstermoves' - monstermoves ELSE 0})
  BY NothingSpent
<1> QED
  BY <1>1 DEF Spent, Keeps

(* A step to a fair world, if the clock stands.                            *)
LEMMA WorldFuel ==
  ASSUME Inv, phase # "saved", NEW w, Good(w), Fair(w), Become(w), UNCHANGED <<monstermoves, uz, file, gsave>>,
         phase' \in {"play", "run", "arrive"}
  PROVE  OnlyTime
<1>1. w \in Worlds /\ w = [obj |-> w.obj, timers |-> w.timers, lights |-> w.lights]
  BY DEF Good, Worlds
<1>2. obj' = w.obj /\ World' = w
  BY <1>1 DEF Become, World
<1> SUFFICES ASSUME NEW o \in Obj, o \notin MagicLamps PROVE Spent(o)
  BY DEF OnlyTime
<1>3. Fits(w, o) /\ monstermoves \in Int /\ World.obj = obj
  BY DEF Good, Inv, Base, World
<1>4. CASE Away(obj[o].place)
  <2>1. Stays(w.obj[o], obj[o])
    BY <1>3, <1>4 DEF Fits
  <2>2. obj'[o].place = obj[o].place /\ obj'[o].age = obj[o].age
    BY <1>2, <2>1 DEF Stays
  <2>3. ~InMemory(o) /\ ~InGsave(o) /\ \A l \in Level : OnFile(o, l) => OnFile(o, l)'
    BY <1>4, <2>2 DEF InMemory, InGsave, OnFile, Floor, Buried
  <2>4. Keeps(o)
    BY <2>2, <2>3 DEF Keeps, FuelLeft
  <2> QED BY <1>3, <2>4, KeepsSpent
<1>5. CASE ~Away(obj[o].place)
  <2>1. ~Away(w.obj[o].place)
    BY <1>3, <1>5 DEF Fits, Stays
  <2>2. InMemory(o)'
    BY <1>2, <2>1 DEF InMemory, Away
  <2>3. ~InGsave(o) /\ \A l \in Level : ~OnFile(o, l)
    BY <1>5 DEF InGsave, OnFile, Floor, Buried, At, Away
  <2>4. ASSUME InUse(o), InUse(o)', obj'[o].lamplit \/ (obj[o].lamplit /\ ~Merges) PROVE Answers(w, o)
    <3>1. ~OutOfUse(obj[o].place) /\ ~OutOfUse(w.obj[o].place)
      BY <1>2, <2>4 DEF InUse, OutOfUse, Gone, OnBill
    <3>2. Merging(w) => Merges
      BY <1>2 DEF Merging, Merges
    <3>3. CASE Track(w, FALSE)
      <4>1. Accounted(w, o, FALSE)
        BY <3>3 DEF Track
      <4> QED BY <1>2, <2>4, <3>1, <4>1 DEF Accounted
    <3>4. CASE Track(w, TRUE) /\ Merging(w)
      <4>1. Accounted(w, o, TRUE)
        BY <3>4 DEF Track
      <4> QED BY <1>2, <2>4, <3>1, <3>2, <3>4, <4>1 DEF Accounted
    <3> QED BY <3>3, <3>4 DEF Fair
  <2>5. ASSUME NEW f \in Int, FuelLeft(o, f), Answers(w, o)
        PROVE  \E g \in Int : /\ FuelLeft(o, g)'
                              /\ \/ Pos(g) = Max({0, Pos(f) - IF obj[o].lamplit THEN monstermoves' - monstermoves ELSE 0})
                                 \/ o \in Torches /\ obj[o].lamplit /\ Pos(g) = Pos(f) - 1
    <3>1. Has(World, o, f)
      BY <2>3, <2>5 DEF FuelLeft
    <3>2. PICK g \in Int : /\ Has(w, o, g)
                          /\ \/ Pos(g) = Pos(f)
                             \/ o \in Torches /\ obj[o].lamplit /\ Pos(g) = Pos(f) - 1
      BY <2>5, <3>1 DEF Answers
    <3>3. FuelLeft(o, g)'
      BY <1>2, <2>2, <3>2 DEF FuelLeft, Has
    <3>4. Pos(f) = Max({0, Pos(f) - IF obj[o].lamplit THEN monstermoves' - monstermoves ELSE 0})
      BY <1>3, NothingSpent
    <3> QED BY <3>2, <3>3, <3>4
  <2> QED BY <2>4, <2>5 DEF Spent
<1> QED
  BY <1>4, <1>5

-----------------------------------------------------------------------------
(* What the hero does.                                                     *)

(* What is for sale is no torch: of a lit torch that is not paid for,      *)
(* burn_object bills a copy that says it is lit and is not.                *)
NoTorchForSale == Torches \cap ForSale = {}

(* A step of the hero to another world that is good and fair.              *)
LEMMA PlayStep ==
  ASSUME Inv, Playing, NEW w, Good(w), Fair(w), Become(w), unchangedRest
  PROVE  Inv' /\ OnlyTime
<1>1. phase = "play" /\ phase' = "play" /\ UNCHANGED <<monstermoves, uz, file, gsave>>
  BY DEF Playing, unchangedRest
<1>2. Prompt(w.timers)
  BY <1>1 DEF Good
<1>3. Inv'
  BY <1>1, <1>2, WorldStep
<1>4. OnlyTime
  BY <1>1, WorldFuel
<1> QED
  BY <1>3, <1>4

(* What the hero starts from.                                              *)
LEMMA PlayFacts ==
  ASSUME Inv, Playing
  PROVE  /\ Base /\ Good(World) /\ phase = "play" /\ World \in Worlds
         /\ World.obj = obj /\ World.timers = timer_base /\ World.lights = light_base
         /\ \A o \in Obj : /\ obj[o].place \in {Gone, Invent, Floor(uz), Buried(uz)} => Near(o)
                           /\ obj[o].place \in {Invent, Floor(uz), Buried(uz)} =>
                                obj[o].place # Gone /\ Known(obj[o].place)
                           /\ obj[o] \in Ware /\ obj[o].lamplit \in BOOLEAN /\ obj[o].many \in BOOLEAN
                           /\ Proper(o, obj[o]) /\ obj[o].age >= 0 /\ obj[o].age \in Int
<1>1. Base /\ Good(World) /\ phase = "play" /\ World \in Worlds
  BY WorldGood DEF Playing, Good
<1>2. World.obj = obj /\ World.timers = timer_base /\ World.lights = light_base
  BY DEF World
<1>3. ASSUME NEW o \in Obj
      PROVE  /\ obj[o].place \in {Gone, Invent, Floor(uz), Buried(uz)} => Near(o)
             /\ obj[o].place \in {Invent, Floor(uz), Buried(uz)} => obj[o].place # Gone /\ Known(obj[o].place)
             /\ obj[o] \in Ware /\ obj[o].lamplit \in BOOLEAN /\ obj[o].many \in BOOLEAN
             /\ Proper(o, obj[o]) /\ obj[o].age >= 0 /\ obj[o].age \in Int
  <2>1. obj[o] \in Ware /\ obj[o].lamplit \in BOOLEAN /\ obj[o].many \in BOOLEAN /\ obj[o].age \in Int
    BY <1>1, <1>2, WorldParts
  <2>2. Proper(o, obj[o]) /\ obj[o].age >= 0
    BY <1>1, <1>2, NearHere
  <2>3. \A p \in {Gone, Invent, Floor(uz), Buried(uz)} : ~Away(p)
    BY <1>1, PlaceFacts
  <2>4. Known(Invent) /\ Known(Floor(uz)) /\ Known(Buried(uz)) /\ ~Known(Gone)
    BY <1>1, PlaceFacts
  <2> QED BY <2>1, <2>2, <2>3, <2>4 DEF Near
<1> QED
  BY <1>1, <1>2, <1>3

(* The same of the helpers, in terms of fuel: nothing else is touched, and *)
(* o keeps its place and its fuel.                                         *)
LEMMA EndedApart ==
  ASSUME Base, phase = "play", NEW w, Good(w), NEW o \in Obj, Near(o)
  PROVE  LET v == end_burn(w, o, TRUE) IN
         /\ Good(v) /\ v.obj[o].place = w.obj[o].place /\ SameFuel(w, v, o)
         /\ \A x \in Obj \ {o} : Untouched(w, v, x)
         /\ \A m : Track(w, m) => Track(v, m)
<1> DEFINE v == end_burn(w, o, TRUE)
<1>1. Good(v) /\ PutOut(w, v, o) /\ w \in Worlds
  BY EndedGood DEF Good
<1> HIDE DEF v
<1>2. /\ \A m : Track(w, m) => Track(v, m)
      /\ v.obj[o].place = w.obj[o].place
      /\ \A x \in Obj \ {o} : Untouched(w, v, x)
  BY <1>1, EndedTrack
<1> QED
  BY <1>1, <1>2 DEF PutOut, v

LEMMA BegunApart ==
  ASSUME Base, NEW w, Good(w), NEW o \in Obj, Near(o), ~w.obj[o].lamplit, Known(w.obj[o].place)
  PROVE  LET v == begin_burn(w, o, FALSE) IN
         /\ Good(v) /\ v.obj[o].place = w.obj[o].place /\ (o \notin MagicLamps => SameFuel(w, v, o))
         /\ \A x \in Obj \ {o} : Untouched(w, v, x)
<1>1. w \in Worlds
  BY DEF Good
<1> QED
  BY <1>1, BegunGood, OnlyUntouched

(* The hero puts something out.                                            *)
LEMMA EndedFirst ==
  ASSUME Base, phase = "play", Good(World), NEW o \in Obj, Near(o)
  PROVE  LET v == end_burn(World, o, TRUE) IN
         /\ Good(v) /\ Track(v, FALSE) /\ Fair(v) /\ v.obj[o].place = obj[o].place
         /\ \A x \in Obj \ {o} : Untouched(World, v, x)
<1> DEFINE v == end_burn(World, o, TRUE)
<1>1. World.obj = obj
  BY DEF World
<1>2. /\ Good(v) /\ v.obj[o].place = obj[o].place
      /\ \A x \in Obj \ {o} : Untouched(World, v, x)
      /\ \A m : Track(World, m) => Track(v, m)
  BY <1>1, EndedApart
<1> HIDE DEF v
<1>3. Track(v, FALSE)
  BY <1>2, TrackStart
<1> QED
  BY <1>2, <1>3 DEF Fair, v

(* After it may be paid for, the hero lights something.                    *)
LEMMA BegunFair ==
  ASSUME Base, NEW w, Track(w, FALSE), NEW o \in Obj, Near(o), o \notin MagicLamps => Answers(w, o),
         NEW v, Settle(w, v, o), ~v.obj[o].lamplit, Known(v.obj[o].place)
  PROVE  Fair(begin_burn(v, o, FALSE))
<1> DEFINE b == begin_burn(v, o, FALSE)
<1>1. (o \notin MagicLamps => SameFuel(v, b, o)) /\ \A x \in Obj \ {o} : Untouched(v, b, x)
  BY BegunApart DEF Settle
<1> HIDE DEF b
<1>2. Fair(b)
  BY <1>1, LitTrack
<1> QED
  BY <1>2 DEF b

(* Nothing is paid for.                                                    *)
LEMMA SettleWorld ==
  ASSUME NEW o, Good(World)
  PROVE  Settle(World, World, o)
BY DEF Settle, Untouched, SameFuel

(* Whatever there is can come to where others are.                         *)
LEMMA ReadyWorld ==
  ASSUME Good(World), NEW o
  PROVE  Ready(World, o)
<1>1. \A x \in Obj \ {o} : Untouched(World, World, x)
  BY DEF Untouched, SameFuel
<1>2. World.obj = obj
  BY DEF World
<1> QED
  BY <1>1, <1>2, TrackStart, ReadyFirst

(* What is in use is moved.                                                *)
LEMMA MovedFair ==
  ASSUME NEW w, Good(w), Track(w, FALSE), NEW o \in Obj, NEW p \in Places, ~OutOfUse(w.obj[o].place)
  PROVE  Fair(Move(w, o, p))
<1> DEFINE x == [w.obj[o] EXCEPT !.place = p]
<1>1. w \in Worlds /\ w.obj[o] \in Ware
  BY WorldParts DEF Good
<1>2. x \in Ware /\ x.lamplit = w.obj[o].lamplit /\ x.age = w.obj[o].age
  BY <1>1 DEF Ware
<1> DEFINE v == [w EXCEPT !.obj[o] = x]
<1>3. Move(w, o, p) = v
  BY DEF Move
<1> HIDE DEF x
<1>4. OutOfUse(w.obj[o].place) => OutOfUse(obj[o].place) \/ OutOfUse(x.place)
  OBVIOUS
<1>5. Track(v, FALSE)
  BY <1>1, <1>2, <1>4, TrackStruct
<1> QED
  BY <1>3, <1>5 DEF Fair

(* mksobj fills a free slot.                                               *)
LEMMA CreateObjStep ==
  ASSUME Inv, NEW o \in Obj, CreateObj(o)
  PROVE  Inv' /\ OnlyTime
<1>1. Playing /\ unchangedRest /\ obj[o].place = Gone
  BY DEF CreateObj
<1>2. Base /\ Good(World) /\ World.obj = obj /\ Near(o)
  BY <1>1, PlayFacts
<1>3. PICK n \in BOOLEAN :
        \E w \in Settled([World EXCEPT !.obj[o] = [NoObj EXCEPT !.age = Full, !.many = n]], o, Floor(uz)) : Become(w)
  BY DEF CreateObj
<1> DEFINE x == [NoObj EXCEPT !.age = Full, !.many = n]
           u == [World EXCEPT !.obj[o] = x]
<1>4. PICK w \in Settled(u, o, Floor(uz)) : Become(w)
  BY <1>3
<1>5. /\ x \in Ware /\ x.place = Gone /\ x.lamplit = FALSE /\ ~x.unpaid /\ x.age >= 0
  <2>1. Full \in Int /\ Full >= 0
    BY FuelIsNatural
  <2>2. /\ x \in Ware /\ x.place = NoObj.place /\ x.lamplit = NoObj.lamplit /\ x.unpaid = NoObj.unpaid
        /\ x.age = Full
    BY <1>3, <2>1, NoObjWare DEF Ware
  <2> HIDE DEF x
  <2> QED BY <2>1, <2>2 DEF NoObj
<1> HIDE DEF x
<1>6. World.obj[o].lamplit = FALSE
  BY <1>1, <1>2, GoneDark, PlayFacts
<1>7. ~Away(Gone) /\ Gone.at \notin {"floor", "buried"}
  BY <1>2, PlaceFacts
<1>8. Proper(o, x)
  BY <1>5, <1>7 DEF Proper
<1>9. Good(u)
  BY <1>2, <1>5, <1>6, <1>7, <1>8, GoodStruct
<1>10. \A y \in Obj \ {o} : Untouched(World, u, y)
  BY <1>1, <1>5, PlayFacts, StructSet, OnlyUntouched
<1> HIDE DEF u
<1>11. Good(w)
  BY <1>2, <1>4, <1>9, SettledGood DEF Came
<1>12. OutOfUse(obj[o].place)
  BY <1>1 DEF OutOfUse
<1>13. Track(u, FALSE)
  BY <1>10, <1>12, TrackFirst DEF Accounted
<1>14. Fair(w)
  BY <1>2, <1>4, <1>9, <1>10, <1>12, <1>13, ReadyFirst, SettledFair DEF FairFor
<1> QED
  BY <1>1, <1>4, <1>11, <1>14, PlayStep

(* What is picked up is owned or owed; a magic lamp that is sold may be    *)
(* lit.                                                                    *)
LEMMA PickUpStep ==
  ASSUME NoTorchForSale, Inv, NEW o \in Obj, PickUp(o)
  PROVE  Inv' /\ OnlyTime
<1>1. Playing /\ unchangedRest /\ obj[o].place = Floor(uz)
  BY DEF PickUp
<1>2. /\ Base /\ Good(World) /\ World.obj = obj /\ Near(o) /\ World \in Worlds /\ obj[o] \in Ware
      /\ Proper(o, obj[o]) /\ obj[o].age >= 0 /\ phase = "play"
  BY <1>1, PlayFacts
<1>3. PICK up \in BOOLEAN : /\ up => o \in ForSale
                            /\ \E w \in addinv([World EXCEPT !.obj[o].unpaid = up], o) : Become(w)
  BY DEF PickUp
<1> DEFINE x == [obj[o] EXCEPT !.unpaid = up]
           u == [World EXCEPT !.obj[o] = x]
<1>4. u = [World EXCEPT !.obj[o].unpaid = up]
  BY <1>2
<1>5. PICK w \in addinv(u, o) : Become(w)
  BY <1>3, <1>4
<1>6. /\ x \in Ware /\ x.place = obj[o].place /\ x.lamplit = obj[o].lamplit /\ x.unpaid = up
      /\ x.age = obj[o].age
  BY <1>2 DEF Ware
<1> HIDE DEF x
<1>7. Proper(o, x)
  BY <1>2, <1>3, <1>6 DEF Proper, NoTorchForSale, MagicSold
<1>8. ~Away(x.place)
  BY <1>2, <1>6 DEF Near
<1>9. Good(u)
  BY <1>2, <1>6, <1>7, <1>8, GoodStruct
<1>10. u.obj[o] = x
  BY <1>2, <1>6, StructSet
<1>11. Track(u, FALSE) /\ \A y \in Obj \ {o} : Untouched(World, u, y)
  BY <1>2, <1>6, TrackStart, TrackStruct
<1> HIDE DEF u
<1>12. Good(w)
  BY <1>2, <1>5, <1>9, AddinvGood DEF Came
<1>13. Fair(w)
  <2>1. Ready(u, o)
    BY <1>6, <1>9, <1>10, <1>11, ReadyFirst
  <2> QED BY <1>2, <1>5, <2>1, AddinvFair DEF FairFor
<1> QED
  BY <1>1, <1>5, <1>12, <1>13, PlayStep

(* drop and throw: the whole stack or a part of it.                        *)
LEMMA DropStep ==
  ASSUME Inv, NEW o \in Obj, NEW thrown \in BOOLEAN, Drop(o, thrown)
  PROVE  Inv' /\ OnlyTime
<1>1. Playing /\ unchangedRest /\ obj[o].place = Invent
  BY DEF Drop
<1>2. Base /\ Good(World) /\ World.obj = obj /\ Near(o) /\ obj[o].place # Gone /\ phase = "play"
  BY <1>1, PlayFacts
<1>3. PICK t \in Taken(World, o) :
        \E w \in dropx(IF thrown /\ t[1] \in Candles THEN end_burn(t[2], t[1], TRUE) ELSE t[2], t[1]) : Become(w)
  BY DEF Drop
<1> DEFINE u == IF thrown /\ t[1] \in Candles THEN end_burn(t[2], t[1], TRUE) ELSE t[2]
<1>4. PICK w \in dropx(u, t[1]) : Become(w)
  BY <1>3
<1>5. PartOf(World, t, o) /\ Good(t[2]) /\ t[1] \in Obj /\ Near(t[1])
  BY <1>2, TakenGood DEF PartOf
<1>6. /\ Good(u) /\ \A x \in Obj \ {t[1]} : Untouched(t[2], u, x)
      /\ u.obj[t[1]].place = t[2].obj[t[1]].place /\ SameFuel(t[2], u, t[1])
  <2>1. CASE u = end_burn(t[2], t[1], TRUE)
    BY <1>2, <1>5, <2>1, EndedApart
  <2>2. CASE u = t[2]
    BY <1>5, <2>2 DEF Untouched, SameFuel
  <2> QED BY <2>1, <2>2
<1> HIDE DEF u
<1>7. Good(w)
  BY <1>2, <1>4, <1>5, <1>6, DropxGood DEF Came
<1>8. Ready(u, t[1])
  BY <1>1, <1>2, <1>5, <1>6, SettleWorld, PlaceFacts, PartChanged
<1>9. Fair(w)
  BY <1>2, <1>4, <1>5, <1>8, DropxFair DEF FairFor
<1> QED
  BY <1>1, <1>4, <1>7, <1>9, PlayStep

(* bury_an_obj takes a lit thing under the ground with light and timer.    *)
LEMMA BuryStep ==
  ASSUME Inv, NEW o \in Obj, Bury(o)
  PROVE  Inv' /\ OnlyTime
<1>1. Playing /\ unchangedRest /\ obj[o].place = Floor(uz)
  BY DEF Bury
<1>2. Base /\ Good(World) /\ Near(o) /\ phase = "play"
  BY <1>1, PlayFacts
<1> DEFINE u == IF o \in Oils THEN World ELSE end_burn(World, o, TRUE)
<1>3. Become(Move(u, o, Buried(uz)))
  BY DEF Bury
<1>4. Good(u) /\ Track(u, FALSE) /\ u.obj[o].place = obj[o].place
  <2>1. CASE u = end_burn(World, o, TRUE)
    BY <1>2, <2>1, EndedFirst
  <2>2. CASE u = World
    BY <1>2, <2>2, TrackStart, PlayFacts, <1>1
  <2> QED BY <2>1, <2>2
<1> HIDE DEF u
<1>5. Buried(uz) \in Places /\ ~Away(Buried(uz)) /\ Buried(uz).on \in Level /\ LitAt(o, Buried(uz))
  BY <1>2, PlaceFacts DEF LitAt
<1>6. Good(Move(u, o, Buried(uz)))
  BY <1>2, <1>4, <1>5, MovedGood
<1>7. Fair(Move(u, o, Buried(uz)))
  <2>1. ~OutOfUse(Floor(uz))
    BY DEF OutOfUse, Floor, Gone, OnBill, At
  <2> QED BY <1>1, <1>4, <1>5, <2>1, MovedFair
<1> QED
  BY <1>1, <1>3, <1>6, <1>7, PlayStep

(* unearth_objs puts what was buried on the floor again.                   *)
LEMMA UnearthStep ==
  ASSUME Inv, NEW o \in Obj, Unearth(o)
  PROVE  Inv' /\ OnlyTime
<1>1. Playing /\ unchangedRest /\ obj[o].place = Buried(uz)
  BY DEF Unearth
<1>2. Base /\ Good(World) /\ Near(o)
  BY <1>1, PlayFacts
<1>3. PICK w \in Settled(World, o, Floor(uz)) : Become(w)
  BY DEF Unearth
<1>4. Good(w)
  BY <1>2, <1>3, SettledGood DEF Came
<1>5. Fair(w)
  BY <1>2, <1>3, ReadyWorld, SettledFair DEF FairFor
<1> QED
  BY <1>1, <1>3, <1>4, <1>5, PlayStep

(* ship_object: what falls goes with its light and timer, as what migrates *)
(* is in memory.                                                           *)
LEMMA FallStep ==
  ASSUME Inv, NEW o \in Obj, NEW l \in Level, Fall(o, l)
  PROVE  Inv' /\ OnlyTime
<1>1. Playing /\ unchangedRest /\ obj[o].place = Floor(uz) /\ Become(Move(World, o, Bound(l)))
  BY DEF Fall
<1>2. Base /\ Good(World) /\ Near(o)
  BY <1>1, PlayFacts
<1>3. Bound(l) \in Places /\ ~Away(Bound(l)) /\ Bound(l).at \notin {"floor", "buried"} /\ LitAt(o, Bound(l))
  BY <1>2, PlaceFacts DEF LitAt
<1>4. Good(Move(World, o, Bound(l)))
  BY <1>2, <1>3, MovedGood
<1>5. Fair(Move(World, o, Bound(l)))
  <2>1. ~OutOfUse(Floor(uz))
    BY DEF OutOfUse, Floor, Gone, OnBill, At
  <2>2. World.obj = obj
    BY DEF World
  <2> QED BY <1>1, <1>2, <1>3, <2>1, <2>2, TrackStart, MovedFair
<1> QED
  BY <1>1, <1>4, <1>5, PlayStep

(* delobj and useup.                                                       *)
LEMMA DestroyStep ==
  ASSUME Inv, NEW o \in Obj, Destroy(o)
  PROVE  Inv' /\ OnlyTime
<1>1. Playing /\ unchangedRest /\ obj[o].place \in {Invent, Floor(uz)} /\ Become(obfree(World, o))
  BY DEF Destroy, Here
<1>2. Base /\ Good(World) /\ Near(o) /\ phase = "play"
  BY <1>1, PlayFacts
<1>3. Good(obfree(World, o)) /\ Only(World, obfree(World, o), {o}) /\ obfree(World, o).obj[o].place \in {Gone, OnBill}
  BY <1>2, ObfreeGood
<1>4. Fair(obfree(World, o))
  <2>1. \A x \in Obj \ {o} : Untouched(World, obfree(World, o), x)
    BY <1>1, <1>3, PlayFacts, OnlyUntouched
  <2>2. Accounted(obfree(World, o), o, FALSE)
    BY <1>3 DEF Accounted, OutOfUse
  <2> QED BY <2>1, <2>2, TrackFirst
<1> QED
  BY <1>1, <1>3, <1>4, PlayStep

(* use_lamp.                                                               *)
LEMMA LampStep ==
  ASSUME Inv, NEW o \in Obj, use_lamp(o)
  PROVE  Inv' /\ OnlyTime
<1>1. Playing /\ unchangedRest /\ obj[o].place = Invent
      /\ Become(IF obj[o].lamplit THEN end_burn(World, o, TRUE) ELSE begin_burn(World, o, FALSE))
  BY DEF use_lamp
<1>2. Base /\ Good(World) /\ World.obj = obj /\ Near(o) /\ phase = "play" /\ Known(obj[o].place)
  BY <1>1, PlayFacts
<1>3. CASE obj[o].lamplit
  BY <1>1, <1>2, <1>3, EndedFirst, PlayStep
<1>4. CASE ~obj[o].lamplit
  <2>1. Good(begin_burn(World, o, FALSE))
    BY <1>2, <1>4, BegunGood
  <2>2. Settle(World, World, o) /\ Track(World, FALSE) /\ Answers(World, o)
    BY <1>2, SettleWorld, TrackStart DEF Answers
  <2>3. Fair(begin_burn(World, o, FALSE))
    BY <1>2, <1>4, <2>2, BegunFair
  <2> QED BY <1>1, <1>4, <2>1, <2>3, PlayStep
<1> QED
  BY <1>3, <1>4

(* use_candle: what hold_another_object merges is not the candle that is   *)
(* lit, since that one is no stack (w # World => ~w.obj[o].many).          *)
LEMMA CandleStep ==
  ASSUME Inv, NEW o \in Obj, use_candle(o)
  PROVE  Inv' /\ OnlyTime
<1>1. Playing /\ unchangedRest /\ obj[o].place = Invent
  BY DEF use_candle
<1>2. /\ Base /\ Good(World) /\ World.obj = obj /\ Near(o) /\ phase = "play" /\ Known(obj[o].place)
      /\ obj[o].place # Gone /\ obj[o].lamplit \in BOOLEAN /\ obj[o].place # Floor(uz)
  BY <1>1, PlayFacts, PlaceFacts
<1>3. CASE obj[o].lamplit /\ Become(end_burn(World, o, TRUE))
  BY <1>1, <1>2, <1>3, EndedFirst, PlayStep
<1>4. CASE /\ ~obj[o].lamplit
           /\ \E w \in {World} \cup UNION {hold_another_object(splitobj(World, o, x[1], FALSE, x[3]), x[1]) : x \in Splits(World, o)} :
                /\ w # World => ~w.obj[o].many
                /\ \E v \in Billed(w, o) : Become(begin_burn(v, o, FALSE))
  <2>1. PICK w \in {World} \cup UNION {hold_another_object(splitobj(World, o, x[1], FALSE, x[3]), x[1]) : x \in Splits(World, o)} :
          /\ w # World => ~w.obj[o].many
          /\ \E v \in Billed(w, o) : Become(begin_burn(v, o, FALSE))
    BY <1>4
  <2>2. PICK v \in Billed(w, o) : Become(begin_burn(v, o, FALSE))
    BY <2>1
  <2>3. /\ Good(w) /\ w.obj[o].place = Invent /\ ~w.obj[o].lamplit
        /\ Track(w, FALSE) /\ Answers(w, o)
    <3>1. CASE w = World
      BY <1>1, <1>2, <1>4, <3>1, TrackStart DEF Answers
    <3>2. CASE w # World
      <4>1. PICK x \in Splits(World, o) : w \in hold_another_object(splitobj(World, o, x[1], FALSE, x[3]), x[1])
        BY <2>1, <3>2
      <4> DEFINE u == splitobj(World, o, x[1], FALSE, x[3])
      <4>2. /\ x[1] \in Obj /\ x[3] \in BOOLEAN /\ FALSE \in BOOLEAN
            /\ World.obj[x[1]].place = Gone /\ SameKind(o, x[1]) /\ World.obj[o].place # Gone
        BY <1>2, <4>1 DEF Splits
      <4>3. SplitOff(World, u, o, x[1])
        BY <1>2, <4>2, SplitGood
      <4>4. w \in hold_another_object(u, x[1])
        BY <4>1
      <4> HIDE DEF u
      <4>5. Good(u) /\ x[1] # o /\ Near(x[1]) /\ u.obj[o].place = Invent /\ u.obj[o].lamplit = obj[o].lamplit
        BY <1>1, <1>2, <4>3 DEF SplitOff
      <4>6. Came(u, w, x[1])
        BY <1>2, <4>2, <4>4, <4>5, HoldGood
      <4>7. ~w.obj[o].many
        BY <2>1, <3>2
      <4>8. w.obj[o] = u.obj[o] /\ SameFuel(u, w, o)
        BY <1>1, <1>2, <4>5, <4>6, <4>7 DEF Came, Untouched
      <4>9. Answers(w, o)
        BY <4>3, <4>8 DEF Answers, SameFuel, SplitOff
      <4>10. Track(w, FALSE)
        <5> DEFINE t == <<x[1], u>>
        <5>1. t[1] = x[1] /\ t[2] = u
          OBVIOUS
        <5> HIDE DEF t
        <5>2. PartOf(World, t, o)
          BY <1>2, <4>2, <4>3, <5>1, KindFacts DEF SplitOff, PartOf
        <5>3. Settle(World, World, o)
          BY <1>2, SettleWorld
        <5>4. \A y \in Obj \ {t[1]} : Untouched(t[2], u, y)
          BY <5>1 DEF Untouched, SameFuel
        <5>5. SameFuel(t[2], u, t[1])
          BY <5>1 DEF SameFuel
        <5>6. Ready(u, x[1])
          BY <1>1, <1>2, <4>5, <5>1, <5>2, <5>3, <5>4, <5>5, PartChanged
        <5>7. FairFor(w, x[1])
          BY <1>2, <4>2, <4>4, <4>5, <5>6, HoldFair
        <5> QED BY <1>2, <4>2, <5>7 DEF FairFor, OutOfUse
      <4> QED BY <1>4, <4>5, <4>6, <4>8, <4>9, <4>10 DEF Came
    <3> QED BY <3>1, <3>2
  <2>4. Settle(w, v, o)
    BY <1>1, <1>2, <2>2, <2>3, BilledGood
  <2>5. Good(begin_burn(v, o, FALSE))
    BY <1>1, <1>2, <2>3, <2>4, BegunGood DEF Settle
  <2>6. Fair(begin_burn(v, o, FALSE))
    <3>1. ~v.obj[o].lamplit /\ Known(v.obj[o].place)
      BY <1>1, <1>2, <2>3, <2>4 DEF Settle
    <3> QED BY <1>2, <2>3, <2>4, <3>1, BegunFair
  <2> QED BY <1>1, <2>2, <2>5, <2>6, PlayStep
<1> QED
  BY <1>3, <1>4 DEF use_candle

(* use_torch: a part is held, or is nowhere when the hero cannot wield it. *)
LEMMA TorchStep ==
  ASSUME Inv, NEW o \in Obj, use_torch(o)
  PROVE  Inv' /\ OnlyTime
<1>1. Playing /\ unchangedRest /\ obj[o].place = Invent /\ o \in Torches
  BY DEF use_torch
<1>2. /\ Base /\ Good(World) /\ World.obj = obj /\ Near(o) /\ phase = "play" /\ Known(obj[o].place)
      /\ obj[o].place # Gone /\ obj[o].place # Floor(uz)
  BY <1>1, PlayFacts, PlaceFacts
<1>3. PICK t \in One(World, o) :
        \/ \E v \in IF obj[o].lamplit THEN {end_burn(t[2], t[1], TRUE)} ELSE {t[2], begin_burn(t[2], t[1], FALSE)} :
             \E x \in IF t[1] = o THEN {v} ELSE hold_another_object(v, o) : Become(x)
        \/ t[1] # o /\ Become(Move(t[2], o, Lost))
  BY DEF use_torch
<1>4. PartOf(World, t, o)
  BY <1>2, TakenGood
<1>5. /\ Good(t[2]) /\ t[1] \in Obj /\ Near(t[1])
      /\ \A x \in {o, t[1]} : t[2].obj[x].place = obj[o].place /\ t[2].obj[x].lamplit = obj[o].lamplit
  BY <1>2, <1>4 DEF PartOf
<1>6. ASSUME NEW v \in IF obj[o].lamplit THEN {end_burn(t[2], t[1], TRUE)} ELSE {t[2], begin_burn(t[2], t[1], FALSE)},
             NEW x \in IF t[1] = o THEN {v} ELSE hold_another_object(v, o), Become(x)
      PROVE  Inv' /\ OnlyTime
  <2>1. /\ Good(v) /\ \A y \in Obj \ {t[1]} : Untouched(t[2], v, y)
        /\ v.obj[t[1]].place = t[2].obj[t[1]].place /\ (t[1] \notin MagicLamps => SameFuel(t[2], v, t[1]))
    <3>1. CASE v = end_burn(t[2], t[1], TRUE)
      BY <1>2, <1>5, <3>1, EndedApart
    <3>2. CASE v = t[2]
      BY <1>5, <3>2 DEF Untouched, SameFuel
    <3>3. CASE ~obj[o].lamplit /\ v = begin_burn(t[2], t[1], FALSE)
      BY <1>2, <1>5, <3>3, BegunApart
    <3> QED BY <1>6, <3>1, <3>2, <3>3
  <2>2. Fair(v) /\ Ready(v, o)
    BY <1>1, <1>2, <1>4, <2>1, SettleWorld, PartChanged
  <2>3. Good(x) /\ Fair(x)
    <3>1. CASE x = v
      BY <2>1, <2>2, <3>1
    <3>2. CASE x \in hold_another_object(v, o)
      BY <1>2, <2>1, <2>2, <3>2, HoldGood, HoldFair DEF Came, FairFor
    <3> QED BY <1>6, <3>1, <3>2
  <2> QED BY <1>1, <1>6, <2>3, PlayStep
<1>7. CASE Become(Move(t[2], o, Lost))
  <2>1. Lost \in Places /\ ~Away(Lost) /\ Lost.at \notin {"floor", "buried"} /\ LitAt(o, Lost)
    BY <1>1, <1>2, PlaceFacts DEF LitAt
  <2>2. Good(Move(t[2], o, Lost))
    BY <1>2, <1>5, <2>1, MovedGood
  <2>3. Fair(Move(t[2], o, Lost))
    <3>1. \A y \in Obj : Untouched(t[2], t[2], y)
      BY DEF Untouched, SameFuel
    <3>2. Track(t[2], FALSE)
      BY <1>1, <1>2, <1>4, <1>5, <3>1, SettleWorld, PartChanged DEF Untouched
    <3>3. ~OutOfUse(Invent)
      BY DEF OutOfUse, Invent, Gone, OnBill, At
    <3> QED BY <1>1, <1>5, <2>1, <3>2, <3>3, MovedFair
  <2> QED BY <1>1, <1>7, <2>2, <2>3, PlayStep
<1> QED
  BY <1>3, <1>6, <1>7

(* light_cocktail: one potion of the stack.                                *)
LEMMA OilStep ==
  ASSUME Inv, NEW o \in Obj, light_cocktail(o)
  PROVE  Inv' /\ OnlyTime
<1>1. Playing /\ unchangedRest /\ obj[o].place = Invent
  BY DEF light_cocktail
<1>2. /\ Base /\ Good(World) /\ World.obj = obj /\ Near(o) /\ phase = "play" /\ Known(obj[o].place)
      /\ obj[o].place # Gone /\ obj[o].place # Floor(uz)
  BY <1>1, PlayFacts, PlaceFacts
<1>3. CASE \E w \in addinv(end_burn(World, o, TRUE), o) : Become(w)
  <2>1. PICK w \in addinv(end_burn(World, o, TRUE), o) : Become(w)
    BY <1>3
  <2>2. Good(end_burn(World, o, TRUE)) /\ Ready(end_burn(World, o, TRUE), o)
    BY <1>2, EndedFirst, ReadyFirst
  <2>3. Good(w) /\ Fair(w)
    BY <1>2, <2>1, <2>2, AddinvGood, AddinvFair DEF Came, FairFor
  <2> QED BY <1>1, <2>1, <2>3, PlayStep
<1>4. CASE /\ ~obj[o].lamplit
           /\ \E v \in Billed(World, o) : \E t \in One(v, o) :
                \E x \in IF t[1] = o THEN {begin_burn(t[2], t[1], FALSE)}
                         ELSE hold_another_object(begin_burn(t[2], t[1], FALSE), t[1]) : Become(x)
  <2>1. PICK v \in Billed(World, o) : \E t \in One(v, o) :
          \E x \in IF t[1] = o THEN {begin_burn(t[2], t[1], FALSE)}
                   ELSE hold_another_object(begin_burn(t[2], t[1], FALSE), t[1]) : Become(x)
    BY <1>4
  <2>2. PICK t \in One(v, o) :
          \E x \in IF t[1] = o THEN {begin_burn(t[2], t[1], FALSE)}
                   ELSE hold_another_object(begin_burn(t[2], t[1], FALSE), t[1]) : Become(x)
    BY <2>1
  <2> DEFINE w == begin_burn(t[2], t[1], FALSE)
  <2>3. PICK x \in IF t[1] = o THEN {w} ELSE hold_another_object(w, t[1]) : Become(x)
    BY <2>2
  <2>4. Settle(World, v, o)
    BY <1>2, <1>4, BilledGood
  <2>5. Good(v) /\ v.obj[o].place = obj[o].place /\ v.obj[o].lamplit = obj[o].lamplit
    BY <1>2, <2>4 DEF Settle
  <2>6. PartOf(v, t, o)
    BY <1>2, <2>5, TakenGood
  <2>7. /\ Good(t[2]) /\ t[1] \in Obj /\ Near(t[1])
        /\ t[2].obj[t[1]].place = obj[o].place /\ t[2].obj[t[1]].lamplit = obj[o].lamplit
    BY <2>5, <2>6 DEF PartOf
  <2>8. /\ Good(w) /\ \A y \in Obj \ {t[1]} : Untouched(t[2], w, y)
        /\ w.obj[t[1]].place = t[2].obj[t[1]].place /\ (t[1] \notin MagicLamps => SameFuel(t[2], w, t[1]))
    BY <1>2, <1>4, <2>7, BegunApart
  <2> HIDE DEF w
  <2>9. Fair(w) /\ Ready(w, t[1])
    BY <1>1, <1>2, <2>4, <2>6, <2>8, PartChanged
  <2>10. Good(x) /\ Fair(x)
    <3>1. CASE x = w
      BY <2>8, <2>9, <3>1
    <3>2. CASE x \in hold_another_object(w, t[1])
      BY <1>2, <2>7, <2>8, <2>9, <3>2, HoldGood, HoldFair DEF Came, FairFor
    <3> QED BY <2>3, <3>1, <3>2
  <2> QED BY <1>1, <2>3, <2>10, PlayStep
<1> QED
  BY <1>3, <1>4 DEF light_cocktail

(* catch_lit.                                                              *)
LEMMA CatchStep ==
  ASSUME Inv, NEW o \in Obj, catch_lit(o)
  PROVE  Inv' /\ OnlyTime
<1>1. Playing /\ unchangedRest /\ obj[o].place \in {Invent, Floor(uz)} /\ ~obj[o].lamplit
  BY DEF catch_lit, Here
<1>2. /\ Base /\ Good(World) /\ World.obj = obj /\ Near(o) /\ Known(obj[o].place) /\ obj[o].place # Gone
  BY <1>1, PlayFacts
<1>3. PICK w \in IF obj[o].place = Invent THEN Billed(World, o) ELSE {World} : Become(begin_burn(w, o, FALSE))
  BY DEF catch_lit
<1>4. Settle(World, w, o)
  <2>1. CASE w \in Billed(World, o)
    BY <1>1, <1>2, <2>1, BilledGood
  <2>2. CASE w = World
    BY <1>2, <2>2, SettleWorld
  <2> QED BY <1>3, <2>1, <2>2
<1>5. Good(w) /\ w.obj[o].place = obj[o].place /\ ~w.obj[o].lamplit
  BY <1>1, <1>2, <1>4 DEF Settle
<1>6. Good(begin_burn(w, o, FALSE))
  BY <1>2, <1>5, BegunGood
<1>7. Fair(begin_burn(w, o, FALSE))
  <2>1. Answers(World, o)
    BY DEF Answers
  <2> QED BY <1>2, <1>4, <1>5, <2>1, TrackStart, BegunFair
<1> QED
  BY <1>1, <1>3, <1>6, <1>7, PlayStep

(* snuff_lit.                                                              *)
LEMMA SnuffStep ==
  ASSUME Inv, NEW o \in Obj, snuff_lit(o)
  PROVE  Inv' /\ OnlyTime
<1>1. Playing /\ unchangedRest /\ obj[o].place \in {Invent, Floor(uz)} /\ Become(end_burn(World, o, TRUE))
  BY DEF snuff_lit, Here
<1>2. Base /\ Good(World) /\ Near(o) /\ phase = "play"
  BY <1>1, PlayFacts
<1> QED
  BY <1>1, <1>2, EndedFirst, PlayStep

(* A lamp is filled from a potion, which is used up.                       *)
LEMMA RefuelStep ==
  ASSUME Inv, NEW o \in Obj, NEW p \in Obj, Refuel(o, p)
  PROVE  Inv' /\ OnlyTime
<1>1. Playing /\ unchangedRest /\ obj[o].place = Invent /\ obj[p].place = Invent /\ o \in Lamps /\ p \in Oils
      /\ ~obj[o].lamplit
  BY DEF Refuel
<1>2. /\ Base /\ Good(World) /\ World.obj = obj /\ Near(o) /\ Near(p) /\ phase = "play" /\ World \in Worlds
      /\ obj[o] \in Ware /\ obj[p] \in Ware /\ Proper(o, obj[o]) /\ Proper(p, obj[p])
      /\ obj[o].age >= 0 /\ obj[p].age >= 0 /\ obj[o].age \in Int /\ obj[p].age \in Int
      /\ ~Away(obj[o].place) /\ ~Away(obj[p].place)
  BY <1>1, PlayFacts DEF Near
<1> DEFINE fuel == Min({obj[o].age + 2 * obj[p].age, Full})
           x == [obj[o] EXCEPT !.age = fuel]
           w == [World EXCEPT !.obj[o] = x]
<1>3. \/ Become(obfree(w, p))
      \/ \E n \in BOOLEAN : Become([w EXCEPT !.obj[p].many = n])
  <2>1. w = [World EXCEPT !.obj[o].age = Min({@ + 2 * obj[p].age, Full})]
    BY <1>2
  <2> HIDE DEF w
  <2> QED BY <2>1 DEF Refuel
<1>4. fuel \in Int /\ fuel >= 0
  <2>1. Full \in Int /\ Full >= 0 /\ obj[o].age + 2 * obj[p].age \in Int /\ obj[o].age + 2 * obj[p].age >= 0
    BY <1>2, FuelIsNatural
  <2> QED BY <2>1, MinMax
<1> HIDE DEF fuel
<1>5. /\ x \in Ware /\ x.place = obj[o].place /\ x.lamplit = obj[o].lamplit /\ x.unpaid = obj[o].unpaid
      /\ x.age = fuel
  BY <1>2, <1>4 DEF Ware
<1> HIDE DEF x
<1>6. Proper(o, x)
  BY <1>2, <1>5 DEF Proper
<1>7. Good(w)
  BY <1>2, <1>4, <1>5, <1>6, GoodStruct
<1>8. o # p
  BY <1>1, KindsDistinct
<1>9. w.obj[p] = obj[p] /\ w \in Worlds
  BY <1>2, <1>7, <1>8 DEF Worlds, Good
<1>10. Track(w, FALSE)
  <2>1. \A y \in Obj \ {o} : Untouched(World, w, y)
    BY <1>2, <1>5, StructSet, OnlyUntouched
  <2>2. ~w.obj[o].lamplit
    BY <1>1, <1>2, <1>5, StructSet
  <2> HIDE DEF w
  <2>3. Accounted(w, o, FALSE)
    BY <1>1, <2>2 DEF Accounted
  <2> QED BY <2>1, <2>3, TrackFirst
<1> HIDE DEF w
<1>11. CASE Become(obfree(w, p))
  <2>1. Good(obfree(w, p)) /\ Only(w, obfree(w, p), {p}) /\ obfree(w, p).obj[p].place \in {Gone, OnBill}
    BY <1>2, <1>7, ObfreeGood
  <2>2. Accounted(obfree(w, p), p, FALSE)
    BY <2>1 DEF Accounted, OutOfUse
  <2>3. Track(obfree(w, p), FALSE)
    BY <1>9, <1>10, <2>1, <2>2, OnlyUntouched, TrackOne
  <2>4. Fair(obfree(w, p))
    BY <2>3 DEF Fair
  <2> QED BY <1>1, <1>11, <2>1, <2>4, PlayStep
<1>12. ASSUME NEW n \in BOOLEAN, Become([w EXCEPT !.obj[p].many = n])
       PROVE  Inv' /\ OnlyTime
  <2> DEFINE y == [obj[p] EXCEPT !.many = n]
             v == [w EXCEPT !.obj[p] = y]
  <2>1. v = [w EXCEPT !.obj[p].many = n]
    BY <1>9
  <2>2. /\ y \in Ware /\ y.place = obj[p].place /\ y.lamplit = obj[p].lamplit /\ y.unpaid = obj[p].unpaid
        /\ y.age = obj[p].age
    BY <1>2 DEF Ware
  <2> HIDE DEF y
  <2>3. Proper(p, y)
    BY <1>2, <2>2 DEF Proper
  <2>4. Good(v)
    BY <1>2, <1>7, <1>9, <2>2, <2>3, GoodStruct
  <2>5. Track(v, FALSE)
    <3>1. OutOfUse(w.obj[p].place) => OutOfUse(obj[p].place) \/ OutOfUse(y.place)
      BY <1>9
    <3> QED BY <1>9, <1>10, <2>2, <3>1, TrackStruct
  <2>6. Fair(v)
    BY <2>5 DEF Fair
  <2> QED BY <1>1, <1>12, <2>1, <2>4, <2>6, PlayStep
<1> QED
  BY <1>3, <1>11, <1>12

-----------------------------------------------------------------------------
(* Time.                                                                   *)

(* What has a timer in memory is near and lit.                             *)
LEMMA TimedLit ==
  ASSUME NEW w, Good(w), NEW o \in Obj, N(w.timers, o) # 0
  PROVE  /\ Near(o) /\ w.obj[o].lamplit /\ o \notin MagicLamps
         /\ w.lights[o] = 1 /\ N(w.timers, o) = 1
<1>1. Fits(w, o)
  BY DEF Good
<1>2. ~Away(w.obj[o].place) /\ Agrees(w, o)
  BY <1>1 DEF Fits
<1>3. Near(o)
  BY <1>1, <1>2 DEF Fits, Near, Stays
<1>4. w.obj[o].lamplit /\ o \notin MagicLamps
  BY <1>2 DEF Agrees, Burns
<1> QED
  BY <1>2, <1>3, <1>4 DEF Agrees, Lit, Burns

(* What burn_object leaves has the fuel it had by when its timer went off, *)
(* or a turn's less if it is a torch whose timer was hurried.              *)
LEMMA BurntFair ==
  ASSUME Base, Good(World), NEW o \in Obj, N(World.timers, o) = 1, NEW e \in Int, GoesOff(World.timers, o, e),
         NEW d \in Int, d = e \/ (d = e - 1 /\ e > monstermoves /\ o \in Torches /\ obj[o].lamplit),
         NEW v, Burnt(World, v, o, World.obj[o].age - (monstermoves - d))
  PROVE  Fair(v)
<1> DEFINE left == World.obj[o].age - (monstermoves - d)
<1>1. /\ World \in Worlds /\ World.timers \in Seq(Timer) /\ World.obj[o].age \in Int /\ World.obj[o].age >= 0
      /\ monstermoves \in Int
  BY NearHere, WorldParts DEF Good, Base
<1>2. /\ Only(World, v, {o})
      /\ v.obj[o].place \in {Gone, OnBill} \/ Has(v, o, Pos(left))
  BY DEF Burnt, Pos
<1>3. left \in Int
  BY <1>1
<1>4. ASSUME Has(v, o, Pos(left)) PROVE Answers(v, o)
  <2> SUFFICES ASSUME NEW f \in Int, Has(World, o, f)
               PROVE  \E g \in Int : /\ Has(v, o, g)
                                     /\ \/ Pos(g) = Pos(f)
                                        \/ o \in Torches /\ obj[o].lamplit /\ Pos(g) = Pos(f) - 1
    BY DEF Answers
  <2>1. GoesOff(World.timers, o, monstermoves + f - World.obj[o].age)
    BY DEF Has, Fuel
  <2>2. monstermoves + f - World.obj[o].age = e
    BY <1>1, <2>1, GoesOffOnce
  <2>3. CASE d = e
    <3>1. left = f
      BY <1>1, <2>2, <2>3
    <3>2. Pos(left) \in Int /\ Pos(Pos(left)) = Pos(f)
      BY <1>3, <3>1 DEF Pos
    <3> HIDE DEF left
    <3> QED BY <1>4, <3>2
  <2>4. CASE d = e - 1 /\ e > monstermoves /\ o \in Torches /\ obj[o].lamplit
    <3>1. d = e - 1 /\ e > monstermoves
      BY <2>4
    <3>2. World.obj[o].age \in Int /\ World.obj[o].age >= 0 /\ monstermoves \in Int
      BY <1>1
    <3>3. left = f - 1
      BY <2>2, <3>1, <3>2
    <3>4. f >= 1
      BY <2>2, <3>1, <3>2
    <3> HIDE DEF left
    <3>5. Pos(left) \in Int /\ Pos(Pos(left)) = Pos(f) - 1
      BY <1>3, <3>3, <3>4 DEF Pos
    <3> QED BY <1>4, <2>4, <3>5
  <2> QED BY <2>3, <2>4
<1> HIDE DEF left
<1>5. Accounted(v, o, FALSE)
  BY <1>2, <1>4 DEF Accounted, OutOfUse
<1>6. \A x \in Obj \ {o} : Untouched(World, v, x)
  BY <1>1, <1>2, OnlyUntouched
<1> QED
  BY <1>5, <1>6, TrackFirst

(* burn_faster moves the timer of what is lit one turn ahead, and lets it  *)
(* go off if it is due then.                                               *)
LEMMA FasterStep ==
  ASSUME Inv, NEW o \in Obj, burn_faster(o)
  PROVE  Inv' /\ OnlyTime
<1> DEFINE e == Expiry(World, o)
           t == [timeout |-> e - 1, func |-> "BURN_OBJECT", arg |-> o]
           q == remove_timer(timer_base, "BURN_OBJECT", o)
           w == [World EXCEPT !.timers = q]
<1>1. Playing /\ unchangedRest /\ BurnTimer(World, o) # {} /\ o \in Torches /\ obj[o].lamplit
  BY DEF burn_faster
<1>2. Base /\ Good(World) /\ World.timers = timer_base /\ World \in Worlds /\ phase = "play"
  BY <1>1, PlayFacts
<1>3. \/ t.timeout <= monstermoves /\ \E v \in burn_object(w, t) : Become(v)
      \/ t.timeout > monstermoves /\ Become([w EXCEPT !.timers = insert_timer(@, t)])
  <2>1. w = [World EXCEPT !.timers = remove_timer(@, "BURN_OBJECT", o)]
    BY <1>2
  <2>2. IF t.timeout <= monstermoves THEN \E v \in burn_object(w, t) : Become(v)
        ELSE Become([w EXCEPT !.timers = insert_timer(@, t)])
    BY <2>1 DEF burn_faster
  <2>3. e \in Nat /\ monstermoves \in Int
    <3>1. timer_base \in Seq(Timer)
      BY <1>2, WorldParts
    <3>2. N(World.timers, o) # 0
      BY <1>1, <1>2, <3>1, NPositive DEF BurnTimer
    <3> QED BY <1>2, <3>2, ExpiryTime DEF Base
  <2> HIDE DEF w, e
  <2>4. t.timeout = e - 1
    OBVIOUS
  <2> HIDE DEF t
  <2> QED BY <2>2, <2>3, <2>4
<1>4. timer_base \in Seq(Timer) /\ N(timer_base, o) # 0
  <2>1. timer_base \in Seq(Timer)
    BY <1>2, WorldParts
  <2> QED BY <1>1, <1>2, <2>1, NPositive DEF BurnTimer
<1>5. Near(o) /\ World.obj[o].lamplit /\ o \notin MagicLamps /\ World.lights[o] = 1 /\ N(timer_base, o) = 1
  BY <1>2, <1>4, TimedLit
<1>6. e \in Nat /\ e > monstermoves /\ GoesOff(World.timers, o, e)
  BY <1>2, <1>4, <1>5, ExpiryTime, ExpiryOnly DEF Base, Good
<1> HIDE DEF e
<1>7. /\ q \in Seq(Timer) /\ (Ordered(timer_base) => Ordered(q)) /\ (Prompt(timer_base) => Prompt(q))
      /\ SameBut(timer_base, q, {o}) /\ N(q, o) = 0
  BY <1>4, <1>5, RemovedOne
<1> HIDE DEF q
<1>8. Only(World, w, {o}) /\ w.timers = q /\ w.lights = World.lights /\ w.obj = World.obj
  BY <1>2, <1>7, TimersSet
<1>9. Unlinked(World, w, o)
  BY <1>2, <1>5, <1>7, <1>8 DEF Unlinked
<1>10. t.arg = o /\ t.timeout \in Int /\ t.timeout = e - 1
  BY <1>6
<1> HIDE DEF w
<1>11. ASSUME NEW v \in burn_object(w, t), Become(v) PROVE Inv' /\ OnlyTime
  <2> HIDE DEF t
  <2>1. Burnt(World, v, o, World.obj[o].age - (monstermoves - t.timeout))
    BY <1>2, <1>9, <1>10, <1>11, BurntGood
  <2>2. Good(v)
    BY <2>1 DEF Burnt
  <2>3. Fair(v)
    BY <1>1, <1>2, <1>5, <1>6, <1>10, <2>1, BurntFair
  <2> QED BY <1>1, <1>11, <2>2, <2>3, PlayStep
<1>12. CASE t.timeout > monstermoves /\ Become([w EXCEPT !.timers = insert_timer(@, t)])
  <2> DEFINE r == insert_timer(q, t)
             v == [w EXCEPT !.timers = r]
  <2>1. t \in Timer
    BY <1>2, <1>6, <1>12 DEF Timer, Base
  <2> HIDE DEF t
  <2>2. OneMore(q, r, t, o)
    BY <1>2, <1>7, <1>10, <2>1, Inserted DEF Base
  <2>3. v = [w EXCEPT !.timers = insert_timer(@, t)]
    BY <1>8
  <2> HIDE DEF r
  <2>4. /\ r \in Seq(Timer) /\ (Ordered(q) => Ordered(r)) /\ (Prompt(q) => Prompt(r))
        /\ SameBut(q, r, {o}) /\ N(r, o) = 1 /\ GoesOff(r, o, e - 1)
    BY <1>7, <1>10, <1>12, <2>2 DEF OneMore, GoesOff
  <2>5. w \in Worlds
    BY <1>8 DEF Only
  <2>6. Only(w, v, {o}) /\ v.timers = r /\ v.lights = w.lights /\ v.obj = w.obj
    BY <1>8, <2>4, <2>5, TimersSet
  <2> HIDE DEF v
  <2>7. Only(World, v, {o})
    BY <1>8, <2>6, OnlyTwice
  <2>8. v.obj[o] = World.obj[o] /\ v.lights[o] = 1 /\ N(v.timers, o) = 1
    BY <1>5, <1>8, <2>4, <2>6
  <2>9. Agrees(v, o)
    BY <1>5, <2>8 DEF Agrees, Lit, Burns
  <2>10. Proper(o, World.obj[o]) /\ ~Away(World.obj[o].place) /\ World.obj[o].age >= 0
    BY <1>2, <1>5, NearHere
  <2>11. Good(v)
    BY <1>2, <1>5, <2>7, <2>8, <2>9, <2>10, GoodOnly
  <2>12. Answers(v, o)
    <3> SUFFICES ASSUME NEW f \in Int, Has(World, o, f)
                 PROVE  Has(v, o, f - 1) /\ Pos(f - 1) = Pos(f) - 1
      BY <1>1 DEF Answers
    <3>1. World.obj[o].age \in Int /\ monstermoves \in Int
      BY <1>2, <1>5, WorldParts DEF Base
    <3>2. GoesOff(World.timers, o, monstermoves + f - World.obj[o].age)
      BY <1>2, <1>5 DEF Has, Fuel
    <3>3. monstermoves + f - World.obj[o].age = e
      BY <1>2, <1>4, <1>5, <1>6, <3>2, GoesOffOnce
    <3>4. monstermoves + (f - 1) - World.obj[o].age = e - 1 /\ f >= 1
      BY <1>6, <2>10, <3>1, <3>3
    <3>5. Has(v, o, f - 1)
      BY <2>4, <2>6, <2>8, <3>4 DEF Has, Fuel
    <3> QED BY <3>4, <3>5 DEF Pos
  <2>13. Fair(v)
    <3>1. Accounted(v, o, FALSE)
      BY <2>12 DEF Accounted
    <3> QED BY <1>2, <2>7, <3>1, OnlyUntouched, TrackFirst
  <2> QED BY <1>1, <1>12, <2>3, <2>11, <2>13, PlayStep
<1> QED
  BY <1>3, <1>11, <1>12

(* dopay.                                                                  *)
LEMMA PayStep ==
  ASSUME Inv, Pay
  PROVE  Inv' /\ OnlyTime
<1>1. Playing /\ unchangedRest /\ Become(setpaid(World))
  BY DEF Pay
<1>2. Base /\ Good(World) /\ World.obj = obj
  BY <1>1, PlayFacts
<1>3. Good(setpaid(World))
  BY <1>2, PaidGood
<1>4. ASSUME NEW o \in Obj PROVE Accounted(setpaid(World), o, FALSE)
  <2>1. CASE obj[o].place = OnBill
    BY <2>1 DEF Accounted, OutOfUse
  <2>2. CASE SameFuel(World, setpaid(World), o)
    BY <2>2, AnswersSame DEF Accounted
  <2> QED BY <1>2, <2>1, <2>2, PaidGood
<1>5. Fair(setpaid(World))
  BY <1>4 DEF Fair, Track
<1> QED
  BY <1>1, <1>3, <1>5, PlayStep

(* The clock moves: timers may be due.                                     *)
LEMMA TickStep ==
  ASSUME Inv, Tick
  PROVE  Inv' /\ OnlyTime
<1>1. /\ monstermoves' = monstermoves + 1 /\ phase = "play" /\ phase' = "run"
      /\ UNCHANGED <<obj, timer_base, light_base, uz, file, gsave>>
  BY DEF Tick, Playing
<1>2. World' = World
  BY <1>1 DEF World
<1>3. Base'
  BY <1>1 DEF Inv, Base
<1>4. ASSUME NEW o \in Obj
      PROVE  /\ Proper(o, obj'[o]) /\ obj'[o].age >= 0
             /\ Holds(World', o, obj'[o], InMemory(o)')
             /\ Holds(gsave', o, obj'[o], InGsave(o)')
             /\ \A l \in Level : Holds(file'[l], o, obj'[o], OnFile(o, l)')
  <2>1. /\ Proper(o, obj[o]) /\ obj[o].age >= 0
        /\ Holds(World, o, obj[o], InMemory(o))
        /\ Holds(gsave, o, obj[o], InGsave(o))
        /\ \A l \in Level : Holds(file[l], o, obj[o], OnFile(o, l))
    BY DEF Inv
  <2>2. /\ InMemory(o)' <=> InMemory(o)
        /\ InGsave(o)' <=> InGsave(o)
    BY <1>1 DEF InMemory, InGsave, Away
  <2>3. \A l \in Level : OnFile(o, l)' <=> OnFile(o, l)
    BY <1>1 DEF OnFile, Floor, Buried
  <2> QED BY <1>1, <1>2, <2>1, <2>2, <2>3 DEF Holds
<1>5. ASSUME NEW o \in Obj, o \notin MagicLamps PROVE Spent(o)
  <2>1. ASSUME NEW q, NEW f \in Int, N(q, o) = IF obj[o].lamplit THEN 1 ELSE 0,
               Fuel(monstermoves, q, o, obj[o].age, f)
        PROVE  LET g == IF obj[o].lamplit THEN f - 1 ELSE f IN Fuel(monstermoves + 1, q, o, obj[o].age, g)
    <3>1. obj[o].age \in Int /\ monstermoves \in Int
      BY QueueParts DEF Base
    <3>2. CASE obj[o].lamplit
      <4>1. monstermoves + 1 + (f - 1) - obj[o].age = monstermoves + f - obj[o].age
        BY <3>1
      <4> QED BY <2>1, <3>2, <4>1 DEF Fuel
    <3>3. CASE ~obj[o].lamplit
      BY <2>1, <3>3 DEF Fuel
    <3> QED BY <3>2, <3>3
  <2>2. ASSUME NEW f \in Int, FuelLeft(o, f), NEW g \in Int, g = IF obj[o].lamplit THEN f - 1 ELSE f
        PROVE  FuelLeft(o, g)'
    <3>1. /\ InMemory(o)' <=> InMemory(o)
          /\ InGsave(o)' <=> InGsave(o)
          /\ \A l \in Level : OnFile(o, l)' <=> OnFile(o, l)
      BY <1>1 DEF InMemory, InGsave, OnFile, Away, Floor, Buried
    <3>2. World.obj = obj /\ World.timers = timer_base
      BY QueueParts
    <3>3. ASSUME InMemory(o), Has(World, o, f) PROVE InMemory(o)' /\ Has(World, o, g)'
      <4>1. N(World.timers, o) = IF obj[o].lamplit THEN 1 ELSE 0
        BY <1>5, <3>2, <3>3, QueueParts
      <4>2. Fuel(monstermoves, World.timers, o, obj[o].age, f)
        BY <3>2, <3>3 DEF Has
      <4>3. Fuel(monstermoves + 1, World.timers, o, obj[o].age, g)
        BY <2>1, <2>2, <4>1, <4>2
      <4> QED BY <1>1, <1>2, <3>1, <3>2, <3>3, <4>3 DEF Has
    <3>4. ASSUME InGsave(o), Fuel(monstermoves, gsave.timers, o, obj[o].age, f)
          PROVE  InGsave(o)' /\ Fuel(monstermoves', gsave'.timers, o, obj'[o].age, g)
      <4>1. N(gsave.timers, o) = IF obj[o].lamplit THEN 1 ELSE 0
        BY <1>5, <3>4, QueueParts
      <4>2. Fuel(monstermoves + 1, gsave.timers, o, obj[o].age, g)
        BY <2>1, <2>2, <3>4, <4>1
      <4> QED BY <1>1, <3>1, <3>4, <4>2
    <3>5. ASSUME NEW l \in Level, OnFile(o, l), Fuel(monstermoves, file[l].timers, o, obj[o].age, f)
          PROVE  OnFile(o, l)' /\ Fuel(monstermoves', file'[l].timers, o, obj'[o].age, g)
      <4>1. N(file[l].timers, o) = IF obj[o].lamplit THEN 1 ELSE 0
        BY <1>5, <3>5, QueueParts
      <4>2. Fuel(monstermoves + 1, file[l].timers, o, obj[o].age, g)
        BY <2>1, <2>2, <3>5, <4>1
      <4> QED BY <1>1, <3>1, <3>5, <4>2
    <3> QED BY <2>2, <3>3, <3>4, <3>5 DEF FuelLeft
  <2>3. ASSUME NEW f \in Int
        PROVE  LET g == IF obj[o].lamplit THEN f - 1 ELSE f IN
               g \in Int /\ Pos(g) = Max({0, Pos(f) - IF obj[o].lamplit THEN monstermoves' - monstermoves ELSE 0})
    <3>1. monstermoves \in Int
      BY DEF Inv, Base
    <3>2. (IF obj[o].lamplit THEN monstermoves' - monstermoves ELSE 0) = IF obj[o].lamplit THEN 1 ELSE 0
      BY <1>1, <3>1
    <3>3. Pos(f) - (IF obj[o].lamplit THEN 1 ELSE 0) \in Int
      BY DEF Pos
    <3>4. Max({0, Pos(f) - IF obj[o].lamplit THEN 1 ELSE 0}) = Pos(Pos(f) - IF obj[o].lamplit THEN 1 ELSE 0)
      BY <3>3, PosMax
    <3>5. Pos(Pos(f) - IF obj[o].lamplit THEN 1 ELSE 0) = Pos(IF obj[o].lamplit THEN f - 1 ELSE f)
      BY DEF Pos
    <3> QED BY <3>2, <3>4, <3>5
  <2>4. ASSUME NEW f \in Int, FuelLeft(o, f)
        PROVE  \E g \in Int : /\ FuelLeft(o, g)'
                              /\ Pos(g) = Max({0, Pos(f) - IF obj[o].lamplit THEN monstermoves' - monstermoves ELSE 0})
    <3>1. PICK g : g = IF obj[o].lamplit THEN f - 1 ELSE f
      OBVIOUS
    <3>2. g \in Int /\ FuelLeft(o, g)'
      BY <2>2, <2>4, <3>1
    <3> QED BY <2>3, <3>1, <3>2
  <2> QED BY <2>4 DEF Spent
<1> QED
  BY <1>1, <1>2, <1>3, <1>4, <1>5 DEF Inv, OnlyTime

(* run_timers takes the first timer that is due, or ends when there is     *)
(* none: then all are prompt.                                              *)
LEMMA RunStep ==
  ASSUME Inv, run_timers
  PROVE  Inv' /\ OnlyTime
<1>1. phase = "run" /\ UNCHANGED <<monstermoves, uz, file, gsave>>
  BY DEF run_timers
<1>2. /\ Base /\ Good(World) /\ World \in Worlds /\ World.timers = timer_base
      /\ timer_base \in Seq(Timer) /\ Ordered(timer_base)
  <2>1. Base /\ Good(World)
    BY <1>1, WorldGood
  <2>2. World.timers = timer_base
    BY DEF World
  <2>3. World \in Worlds
    BY <2>1 DEF Good
  <2> QED BY <2>1, <2>2, <2>3, WorldParts DEF Good
<1>3. CASE /\ Due /\ \E w \in burn_object([World EXCEPT !.timers = Tail(@)], Head(timer_base)) : Become(w)
           /\ UNCHANGED phase
  <2> DEFINE t == Head(timer_base)
             q == Tail(timer_base)
             o == t.arg
             w == [World EXCEPT !.timers = q]
  <2>1. timer_base # <<>> /\ w = [World EXCEPT !.timers = Tail(@)]
    BY <1>2, <1>3 DEF Due
  <2>2. PICK v \in burn_object(w, t) : Become(v)
    BY <1>3, <2>1
  <2>3. /\ t \in Timer /\ q \in Seq(Timer) /\ (Ordered(timer_base) => Ordered(q))
        /\ SameBut(timer_base, q, {o}) /\ N(timer_base, o) = N(q, o) + 1
    BY <1>2, <2>1, HeadTaken
  <2> HIDE DEF q, t
  <2>4. o \in Obj /\ t.timeout \in Int
    BY <2>3 DEF Timer
  <2>5. N(q, o) \in Nat
    BY <2>3, NPositive
  <2> HIDE DEF o
  <2>6. Near(o) /\ World.obj[o].lamplit /\ o \notin MagicLamps /\ World.lights[o] = 1 /\ N(timer_base, o) = 1
    BY <1>2, <2>3, <2>4, <2>5, TimedLit
  <2>7. N(q, o) = 0
    BY <2>3, <2>5, <2>6
  <2>8. Prompt(timer_base) => Prompt(q)
    <3>1. \A i \in DOMAIN q : i + 1 \in DOMAIN timer_base /\ q[i] = timer_base[i + 1]
      BY <1>2, <2>1, HeadTailProperties DEF q
    <3> QED BY <3>1 DEF Prompt
  <2>9. Only(World, w, {o}) /\ w.timers = q /\ w.lights = World.lights /\ w.obj = World.obj
    BY <1>2, <2>3, <2>4, <2>8, TimersSet
  <2>10. Unlinked(World, w, o)
    BY <1>2, <2>6, <2>7, <2>9 DEF Unlinked
  <2> HIDE DEF w
  <2>11. Good(v) /\ Fair(v)
    <3>1. t.arg = o
      BY DEF o
    <3>2. Burnt(World, v, o, World.obj[o].age - (monstermoves - t.timeout))
      BY <1>2, <2>2, <2>4, <2>10, <3>1, BurntGood
    <3>3. GoesOff(World.timers, o, t.timeout)
      <4>1. 1 \in DOMAIN timer_base /\ timer_base[1] = t
        BY <1>2, <2>1 DEF t
      <4> QED BY <1>2, <3>1, <4>1 DEF GoesOff
    <3>4. Fair(v)
      BY <1>2, <2>4, <2>6, <3>2, <3>3, BurntFair
    <3> QED BY <3>2, <3>4 DEF Burnt
  <2>12. phase' \in {"play", "run", "arrive"} /\ ~(phase' = "play") /\ phase # "saved"
    BY <1>1, <1>3
  <2> QED BY <1>1, <2>2, <2>11, <2>12, WorldStep, WorldFuel
<1>4. CASE ~Due /\ phase' = "play" /\ UNCHANGED <<obj, timer_base, light_base>>
  <2>1. Become(World)
    BY <1>4 DEF Become, World
  <2>2. Prompt(timer_base)
    <3>1. CASE timer_base = <<>>
      BY <3>1 DEF Prompt
    <3>2. CASE timer_base # <<>>
      <4>1. ~(Head(timer_base).timeout <= monstermoves)
        BY <1>4, <3>2 DEF Due
      <4>2. Len(timer_base) \in Nat /\ DOMAIN timer_base = 1 .. Len(timer_base)
            /\ \A i \in DOMAIN timer_base : timer_base[i] \in Timer
        BY <1>2, ElementOfSeq
      <4>3. 1 \in DOMAIN timer_base /\ Head(timer_base) = timer_base[1]
        BY <1>2, <3>2, <4>2
      <4>4. ASSUME NEW i \in DOMAIN timer_base PROVE timer_base[i].timeout > monstermoves
        <5>1. timer_base[i].timeout \in Nat /\ timer_base[1].timeout \in Nat /\ monstermoves \in Nat
          BY <1>2, <4>2, <4>3 DEF Timer, Base
        <5>2. i >= 1 /\ i \in Nat
          BY <4>2
        <5>3. timer_base[1].timeout <= timer_base[i].timeout
          BY <1>2, <4>3, <5>1, <5>2 DEF Ordered
        <5> QED BY <4>1, <4>3, <5>1, <5>3
      <4> QED BY <4>4 DEF Prompt
    <3> QED BY <3>1, <3>2
  <2>3. phase' \in {"play", "run", "arrive"} /\ phase # "saved"
    BY <1>1, <1>4
  <2>4. Fair(World)
    BY TrackStart DEF Fair
  <2> QED BY <1>1, <1>2, <2>1, <2>2, <2>3, <2>4, WorldStep, WorldFuel
<1> QED
  BY <1>3, <1>4 DEF run_timers

(* obj_delivery: what fell lands on the new level.                         *)
LEMMA ArriveStep ==
  ASSUME Inv, Arrive
  PROVE  Inv' /\ OnlyTime
<1>1. phase = "arrive" /\ UNCHANGED <<monstermoves, uz, file, gsave>>
  BY DEF Arrive
<1>2. Base /\ Good(World) /\ World.obj = obj
  BY <1>1, WorldGood DEF World
<1>3. ASSUME NEW o \in Obj, obj[o].place = Bound(uz),
             \E w \in Settled(World, o, Floor(uz)) : Become(w), UNCHANGED phase
      PROVE  Inv' /\ OnlyTime
  <2>1. PICK w \in Settled(World, o, Floor(uz)) : Become(w)
    BY <1>3
  <2>2. Near(o)
    BY <1>2, <1>3, PlaceFacts DEF Near, Base
  <2>3. Good(w) /\ Fair(w)
    BY <1>2, <2>1, <2>2, SettledGood, ReadyWorld, SettledFair DEF Came, FairFor
  <2>4. phase' \in {"play", "run", "arrive"} /\ ~(phase' = "play") /\ phase # "saved"
    BY <1>1, <1>3
  <2> QED BY <1>1, <2>1, <2>3, <2>4, WorldStep, WorldFuel
<1>4. CASE phase' = "run" /\ UNCHANGED <<obj, timer_base, light_base>>
  <2>1. Become(World)
    BY <1>4 DEF Become, World
  <2>2. phase' \in {"play", "run", "arrive"} /\ ~(phase' = "play") /\ phase # "saved"
    BY <1>1, <1>4
  <2>3. Fair(World)
    BY TrackStart DEF Fair
  <2> QED BY <1>1, <1>2, <2>1, <2>2, <2>3, WorldStep, WorldFuel
<1> QED
  BY <1>3, <1>4 DEF Arrive

-----------------------------------------------------------------------------
(* Levels, save and restore.                                               *)

(* The timers of o in q are in r, and go off when they did.                *)
Carried(q, r, o) == \A x : GoesOff(q, o, x) => GoesOff(r, o, x)

(* f has what w has of the owners in S; w is a world or a file.            *)
Portion(w, f, S) ==
  /\ f \in Snap /\ (Ordered(w.timers) => Ordered(f.timers))
  /\ \A o \in Obj : /\ f.lights[o] = IF o \in S THEN w.lights[o] ELSE 0
                    /\ N(f.timers, o) = IF o \in S THEN N(w.timers, o) ELSE 0
                    /\ o \in S => Carried(w.timers, f.timers, o)

(* save_timers and save_light_sources.                                     *)
LEMMA SavedPortion ==
  ASSUME NEW w \in Worlds, NEW S
  PROVE  Portion(w, OfOwners(w, S), S)
<1> DEFINE q == Keep(w.timers, {i \in DOMAIN w.timers : w.timers[i].arg \in S})
           g == [o \in Obj |-> IF o \in S THEN w.lights[o] ELSE 0]
<1>1. w.timers \in Seq(Timer) /\ w.lights \in [Obj -> Nat]
  BY WorldParts
<1>2. Those(w.timers, q, S)
  BY <1>1, KeptOwners
<1>3. OfOwners(w, S) = [timers |-> q, lights |-> g]
  BY DEF OfOwners
<1> HIDE DEF q
<1>4. g \in [Obj -> Nat] /\ \A o \in Obj : g[o] = IF o \in S THEN w.lights[o] ELSE 0
  BY <1>1
<1> HIDE DEF g
<1>5. [timers |-> q, lights |-> g] \in Snap
  BY <1>2, <1>4 DEF Snap, Those
<1>6. ASSUME NEW o \in Obj, o \in S PROVE Carried(w.timers, q, o)
  BY <1>1, <1>2, <1>6, ThoseGoesOff DEF Carried
<1> QED
  BY <1>2, <1>3, <1>4, <1>5, <1>6 DEF Portion, Those

(* v is w, and what f has.                                                 *)
Joined(w, f, v) ==
  /\ v \in Worlds /\ v.obj = w.obj /\ (Ordered(w.timers) => Ordered(v.timers))
  /\ \A o \in Obj : /\ v.lights[o] = w.lights[o] + f.lights[o]
                    /\ N(v.timers, o) = N(w.timers, o) + N(f.timers, o)
                    /\ Carried(w.timers, v.timers, o) /\ Carried(f.timers, v.timers, o)

(* restore_timers and restore_light_sources.                               *)
LEMMA RestoredJoined ==
  ASSUME Base, NEW w \in Worlds, NEW f \in Snap
  PROVE  Joined(w, f, Restored(w, f))
<1> DEFINE q == insert_all(w.timers, f.timers)
           g == [o \in Obj |-> w.lights[o] + f.lights[o]]
           v == [obj |-> w.obj, timers |-> q, lights |-> g]
<1>1. /\ w.timers \in Seq(Timer) /\ w.lights \in [Obj -> Nat] /\ w.obj \in [Obj -> Ware]
      /\ f.timers \in Seq(Timer) /\ f.lights \in [Obj -> Nat] /\ monstermoves \in Int
  BY WorldParts DEF Snap, Base
<1>2. /\ q \in Seq(Timer) /\ (Ordered(w.timers) => Ordered(q))
      /\ \A o : N(q, o) = N(w.timers, o) + N(f.timers, o)
      /\ \A W : Num(q, W) = Num(w.timers, W) + Num(f.timers, W)
  BY <1>1, InsertedAll
<1>3. Restored(w, f) = v
  <2>1. Restored(w, f) = [w EXCEPT !.timers = q, !.lights = g]
    BY DEF Restored
  <2> HIDE DEF q, g
  <2> QED BY <2>1 DEF Worlds
<1> HIDE DEF q
<1>4. g \in [Obj -> Nat] /\ \A o \in Obj : g[o] = w.lights[o] + f.lights[o]
  BY <1>1
<1> HIDE DEF g
<1>5. v \in Worlds
  BY <1>1, <1>2, <1>4 DEF Worlds
<1>6. ASSUME NEW o \in Obj PROVE Carried(w.timers, q, o) /\ Carried(f.timers, q, o)
  <2>1. ASSUME NEW x, GoesOff(w.timers, o, x) \/ GoesOff(f.timers, o, x) PROVE GoesOff(q, o, x)
    <3>1. Num(w.timers, At1(o, x)) \in Nat /\ Num(f.timers, At1(o, x)) \in Nat
      BY <1>1, NumType
    <3>2. Num(w.timers, At1(o, x)) # 0 \/ Num(f.timers, At1(o, x)) # 0
      BY <1>1, <2>1, GoesOffNum
    <3>3. Num(q, At1(o, x)) # 0
      BY <1>2, <3>1, <3>2
    <3> QED BY <1>2, <3>3, GoesOffNum
  <2> QED BY <2>1 DEF Carried
<1> QED
  BY <1>2, <1>3, <1>4, <1>5, <1>6 DEF Joined

(* What o has in q is its fuel by r too, if they have the same timers.     *)
LEMMA CarriedFuel ==
  ASSUME NEW q, NEW r, NEW o, N(r, o) = N(q, o), Carried(q, r, o)
  PROVE  \A m, a, f : Fuel(m, q, o, a, f) => Fuel(m, r, o, a, f)
BY FuelStays DEF Carried

(* An empty file has no light and no timer of anyone.                      *)
LEMMA NothingEmpty ==
  /\ Nothing \in Snap /\ \A o \in Obj : Nothing.lights[o] = 0 /\ N(Nothing.timers, o) = 0
  /\ NoLights \in [Obj -> Nat] /\ \A o \in Obj : NoLights[o] = 0
BY NEmpty DEF Nothing, NoLights, Snap

(* goto_level: what is on the level is left there, what is on the next one *)
(* is found there.                                                         *)
LEMMA GotoStep ==
  ASSUME Inv, NEW l \in Level, GotoLevel(l)
  PROVE  Inv' /\ OnlyTime
<1> DEFINE w == setpaid(World)
           stay == OfOwners(w, Local)
           go   == OfOwners(w, Obj \ Local)
           u == [w EXCEPT !.timers = go.timers, !.lights = go.lights]
           v == Restored(u, file[l])
<1>1. /\ Playing /\ l # uz /\ Become(v) /\ file' = [file EXCEPT ![uz] = stay, ![l] = Nothing]
      /\ uz' = l /\ phase' = "arrive" /\ UNCHANGED <<monstermoves, gsave>>
  BY DEF GotoLevel
<1>2. Base /\ Good(World) /\ phase = "play" /\ World.obj = obj /\ gsave \in Snap /\ file \in [Level -> Snap]
      /\ uz \in Level
  BY <1>1, PlayFacts DEF Inv, Base
<1>3. /\ Good(w) /\ w \in Worlds
      /\ \A o \in Obj : /\ OnLevel(w.obj[o].place) <=> OnLevel(obj[o].place)
                        /\ obj[o].place = OnBill \/ (Stays(w.obj[o], obj[o]) /\ SameFuel(World, w, o))
  BY <1>2, PaidGood DEF OnLevel, Good
<1> HIDE DEF w
<1>4. Portion(w, stay, Local) /\ Portion(w, go, Obj \ Local)
  BY <1>3, SavedPortion
<1> HIDE DEF stay, go
<1>5. u \in Worlds /\ u.obj = w.obj /\ u.timers = go.timers /\ u.lights = go.lights
  BY <1>3, <1>4 DEF Portion, Snap, Worlds
<1> HIDE DEF u
<1>6. Joined(u, file[l], v)
  BY <1>2, <1>5, RestoredJoined
<1> HIDE DEF v
<1>7. World' = v /\ obj' = v.obj /\ timer_base' = v.timers /\ light_base' = v.lights /\ v.obj = w.obj
      /\ v \in Worlds
  <2>1. v \in Worlds /\ v.obj = w.obj
    BY <1>5, <1>6 DEF Joined
  <2>2. v = [obj |-> v.obj, timers |-> v.timers, lights |-> v.lights]
    BY <2>1 DEF Worlds
  <2> QED BY <1>1, <2>1, <2>2 DEF Become, World
<1>8. file' \in [Level -> Snap] /\ \A k \in Level : file'[k] = IF k = l THEN Nothing ELSE IF k = uz THEN stay ELSE file[k]
  BY <1>1, <1>2, <1>4, NothingEmpty DEF Portion
<1>9. ASSUME NEW o \in Obj
      PROVE  /\ Proper(o, obj'[o]) /\ obj'[o].age >= 0
             /\ Holds(World', o, obj'[o], InMemory(o)')
             /\ Holds(gsave', o, obj'[o], InGsave(o)')
             /\ \A k \in Level : Holds(file'[k], o, obj'[o], OnFile(o, k)')
  <2> DEFINE s == w.obj[o]
             p == w.obj[o].place
  <2>1. Fits(w, o) /\ s.age >= 0 /\ p \in Places
    BY <1>3, WorldParts DEF Good
  <2>2. Holds(w, o, s, ~Away(p))
    BY <2>1 DEF Fits, Holds, Agrees, Lit, Burns
  <2>3. \A k \in Level : /\ p \in {Floor(k), Buried(k)} <=> OnLevel(p) /\ p.on = k
                         /\ Away(p) <=> OnLevel(p) /\ p.on # uz
    BY <2>1, PlaceOn
  <2>4. o \in Local <=> OnLevel(p)
    BY <1>3 DEF Local, obj_is_local, OnLevel
  <2>5. ASSUME NEW k \in Level PROVE Holds(file[k], o, s, OnLevel(p) /\ p.on = k /\ k # uz)
    <3>1. Holds(file[k], o, obj[o], OnFile(o, k))
      BY DEF Inv
    <3>2. OnFile(o, k) <=> obj[o].place \in {Floor(k), Buried(k)} /\ k # uz
      BY <1>2 DEF OnFile
    <3>3. \A x : x \in {Floor(k), Buried(k)} /\ k # uz => Away(x)
      BY DEF Floor, Buried, Away, At
    <3>4. CASE Away(obj[o].place) \/ Away(p)
      <4>1. Stays(s, obj[o])
        BY <2>1, <3>4 DEF Fits
      <4>2. OnFile(o, k) <=> OnLevel(p) /\ p.on = k /\ k # uz
        BY <2>3, <3>2, <4>1 DEF Stays
      <4> QED BY <3>1, <4>1, <4>2 DEF Holds, Stays
    <3>5. CASE ~Away(obj[o].place) /\ ~Away(p)
      <4>1. ~OnFile(o, k) /\ ~(OnLevel(p) /\ p.on = k /\ k # uz)
        BY <2>3, <3>2, <3>3, <3>5
      <4> QED BY <3>1, <4>1 DEF Holds
    <3> QED BY <3>4, <3>5
  <2> HIDE DEF s, p
  <2>6. Holds(stay, o, s, OnLevel(p) /\ p.on = uz)
    BY <1>2, <1>4, <2>2, <2>3, <2>4 DEF Holds, Portion
  <2>7. Holds(go, o, s, ~OnLevel(p))
    BY <1>2, <1>4, <2>2, <2>3, <2>4 DEF Holds, Portion
  <2>8. Holds(v, o, s, ~OnLevel(p) \/ (OnLevel(p) /\ p.on = l))
    <3>1. Holds(file[l], o, s, OnLevel(p) /\ p.on = l)
      <4>1. Holds(file[l], o, s, OnLevel(p) /\ p.on = l /\ l # uz)
        BY <2>5
      <4> QED BY <1>1, <4>1 DEF Holds
    <3>2. v.lights[o] = go.lights[o] + file[l].lights[o] /\ N(v.timers, o) = N(go.timers, o) + N(file[l].timers, o)
      BY <1>5, <1>6 DEF Joined
    <3> QED BY <2>7, <3>1, <3>2 DEF Holds
  <2>9. obj'[o] = s /\ obj'[o].place = p
    BY <1>7 DEF s, p
  <2>10. InMemory(o)' <=> ~OnLevel(p) \/ (OnLevel(p) /\ p.on = l)
    <3>1. Away(obj[o].place)' <=> OnLevel(p) /\ p.on # l
      BY <1>1, <2>9 DEF Away, OnLevel
    <3> QED BY <1>1, <3>1 DEF InMemory
  <2>11. ~InGsave(o) /\ ~InGsave(o)'
    BY <1>1, <1>2 DEF InGsave
  <2>12. \A k \in Level : OnFile(o, k)' <=> OnLevel(p) /\ p.on = k /\ k # l
    BY <1>1, <2>3, <2>9 DEF OnFile, Floor, Buried
  <2>13. Holds(World', o, obj'[o], InMemory(o)')
    BY <1>7, <2>8, <2>9, <2>10 DEF Holds
  <2>14. Holds(gsave', o, obj'[o], InGsave(o)')
    <3>1. Holds(gsave, o, obj[o], InGsave(o))
      BY DEF Inv
    <3> QED BY <1>1, <2>11, <3>1 DEF Holds
  <2>15. ASSUME NEW k \in Level PROVE Holds(file'[k], o, obj'[o], OnFile(o, k)')
    <3>1. CASE k = l
      BY <1>8, <2>12, <3>1, NothingEmpty DEF Holds
    <3>2. CASE k = uz
      BY <1>1, <1>8, <2>6, <2>9, <2>12, <3>2 DEF Holds
    <3>3. CASE k # l /\ k # uz
      <4>1. Holds(file[k], o, s, OnLevel(p) /\ p.on = k /\ k # uz)
        BY <2>5
      <4> QED BY <1>8, <2>9, <2>12, <3>3, <4>1 DEF Holds
    <3> QED BY <3>1, <3>2, <3>3
  <2>16. Proper(o, s) /\ s.age >= 0
    BY <2>1 DEF Fits, s
  <2> QED BY <2>9, <2>13, <2>14, <2>15, <2>16
<1>10. Ordered(timer_base')
  BY <1>3, <1>4, <1>5, <1>6, <1>7 DEF Good, Portion, Joined
<1>11. Base'
  BY <1>1, <1>2 DEF Base
<1>12. phase' \in {"play", "run", "arrive", "saved"} /\ ~(phase' = "play") /\ gsave' \in Snap /\ World' \in Worlds
  BY <1>1, <1>2, <1>7
<1>13. ASSUME NEW o \in Obj, InUse(o) PROVE Keeps(o)
  <2> DEFINE p == obj[o].place
  <2>1. Stays(w.obj[o], obj[o]) /\ SameFuel(World, w, o)
    BY <1>3, <1>13 DEF InUse
  <2>2. w.obj[o].age = obj[o].age /\ obj'[o] = w.obj[o] /\ obj'[o].place = p /\ obj'[o].age = obj[o].age
    BY <1>7, <2>1 DEF Stays
  <2>3. p \in Places /\ w.timers \in Seq(Timer)
    <3>1. World \in Worlds
      BY <1>2 DEF Good
    <3> QED BY <1>2, <1>3, <3>1, WorldParts
  <2>4. /\ Away(p) <=> OnLevel(p) /\ p.on # uz
        /\ \A k \in Level : p \in {Floor(k), Buried(k)} <=> OnLevel(p) /\ p.on = k
    BY <2>3, PlaceOn
  <2>5. o \in Local <=> OnLevel(p)
    BY DEF Local, obj_is_local, OnLevel
  <2>6. /\ InMemory(o) <=> ~(OnLevel(p) /\ p.on # uz)
        /\ ~InGsave(o)
        /\ \A k \in Level : OnFile(o, k) <=> OnLevel(p) /\ p.on = k /\ k # uz
    BY <1>2, <2>4 DEF InMemory, InGsave, OnFile
  <2>7. /\ InMemory(o)' <=> ~(OnLevel(p) /\ p.on # l)
        /\ \A k \in Level : OnFile(o, k)' <=> OnLevel(p) /\ p.on = k /\ k # l
    BY <1>1, <2>2, <2>4 DEF InMemory, OnFile, Away, OnLevel, Floor, Buried
  <2>8. N(v.timers, o) = N(go.timers, o) + N(file[l].timers, o) /\ Carried(go.timers, v.timers, o)
        /\ Carried(file[l].timers, v.timers, o)
    BY <1>5, <1>6 DEF Joined
  <2>9. /\ N(stay.timers, o) = IF o \in Local THEN N(w.timers, o) ELSE 0
        /\ N(go.timers, o) = IF o \notin Local THEN N(w.timers, o) ELSE 0
        /\ o \in Local => Carried(w.timers, stay.timers, o)
        /\ o \notin Local => Carried(w.timers, go.timers, o)
    BY <1>4 DEF Portion
  <2>10. N(w.timers, o) \in Nat /\ N(file[l].timers, o) \in Nat
    BY <1>2, <2>3, NPositive DEF Snap
  <2>11. N(file[l].timers, o) = 0 \/ OnFile(o, l)
    BY DEF Inv, Holds
  <2> HIDE DEF p
  <2>12. ASSUME NEW f \in Int, InMemory(o), Has(World, o, f) PROVE FuelLeft(o, f)'
    <3>1. Fuel(monstermoves, w.timers, o, obj[o].age, f)
      BY <2>1, <2>2, <2>12 DEF SameFuel, Has
    <3>2. CASE OnLevel(p)
      <4>1. PICK k \in Level : k = uz
        BY <1>2
      <4>3. OnFile(o, k)' /\ file'[k] = stay
        BY <1>1, <1>8, <2>6, <2>7, <2>12, <3>2, <4>1
      <4>2. Fuel(monstermoves, stay.timers, o, obj[o].age, f)
        BY <2>5, <2>9, <3>1, <3>2, CarriedFuel
      <4> QED BY <1>1, <2>2, <4>2, <4>3 DEF FuelLeft
    <3>3. CASE ~OnLevel(p)
      <4>1. ~OnFile(o, l) /\ InMemory(o)'
        BY <2>6, <2>7, <3>3
      <4>2. N(v.timers, o) = N(go.timers, o) /\ N(go.timers, o) = N(w.timers, o)
        BY <2>5, <2>8, <2>9, <2>10, <2>11, <3>3, <4>1
      <4>3. Fuel(monstermoves, go.timers, o, obj[o].age, f)
        BY <2>5, <2>9, <3>1, <3>3, <4>2, CarriedFuel
      <4>4. Fuel(monstermoves, v.timers, o, obj[o].age, f)
        BY <2>8, <4>2, <4>3, CarriedFuel
      <4> QED BY <1>1, <1>7, <2>2, <4>1, <4>4 DEF FuelLeft, Has
    <3> QED BY <3>2, <3>3
  <2>13. ASSUME NEW f \in Int, NEW k \in Level, OnFile(o, k), Fuel(monstermoves, file[k].timers, o, obj[o].age, f)
         PROVE  FuelLeft(o, f)'
    <3>1. OnLevel(p) /\ p.on = k /\ k # uz
      BY <2>6, <2>13
    <3>2. CASE k = l
      <4>1. N(v.timers, o) = N(file[l].timers, o)
        BY <2>5, <2>8, <2>9, <2>10, <3>1
      <4>2. Fuel(monstermoves, v.timers, o, obj[o].age, f)
        BY <2>8, <2>13, <3>2, <4>1, CarriedFuel
      <4>3. InMemory(o)'
        BY <2>7, <3>1, <3>2
      <4> QED BY <1>1, <1>7, <2>2, <4>2, <4>3 DEF FuelLeft, Has
    <3>3. CASE k # l
      <4>1. OnFile(o, k)' /\ file'[k] = file[k]
        BY <1>8, <2>7, <3>1, <3>3
      <4> QED BY <1>1, <2>2, <2>13, <4>1 DEF FuelLeft
    <3> QED BY <3>2, <3>3
  <2> QED BY <2>6, <2>12, <2>13 DEF Keeps, FuelLeft
<1>14. OnlyTime
  BY <1>1, <1>2, <1>13, KeepsSpent DEF OnlyTime, Base
<1> QED
  BY <1>8, <1>9, <1>10, <1>11, <1>12, <1>14 DEF Inv

(* dosave0: all goes to the two files.                                     *)
LEMMA SaveStep ==
  ASSUME Inv, dosave0
  PROVE  Inv' /\ OnlyTime
<1> DEFINE stay == OfOwners(World, Local)
           go   == OfOwners(World, Obj \ Local)
           v    == [World EXCEPT !.timers = <<>>, !.lights = NoLights]
<1>1. /\ Playing /\ Become(v) /\ file' = [file EXCEPT ![uz] = stay] /\ gsave' = go
      /\ phase' = "saved" /\ UNCHANGED <<monstermoves, uz>>
  BY DEF dosave0
<1>2. /\ Base /\ Good(World) /\ World \in Worlds /\ phase = "play" /\ World.obj = obj
      /\ file \in [Level -> Snap] /\ uz \in Level
  BY <1>1, PlayFacts DEF Inv, Base
<1>3. Portion(World, stay, Local) /\ Portion(World, go, Obj \ Local)
  BY <1>2, SavedPortion
<1> HIDE DEF stay, go
<1>4. v \in Worlds /\ v.obj = obj /\ v.timers = <<>> /\ v.lights = NoLights
  <2>1. <<>> \in Seq(Timer)
    OBVIOUS
  <2> QED BY <1>2, <2>1, NothingEmpty DEF Worlds
<1> HIDE DEF v
<1>5. World' = v /\ obj' = obj /\ timer_base' = <<>>
  <2>1. v = [obj |-> v.obj, timers |-> v.timers, lights |-> v.lights]
    BY <1>4 DEF Worlds
  <2> QED BY <1>1, <1>4, <2>1 DEF Become, World
<1>6. file' \in [Level -> Snap] /\ \A k \in Level : file'[k] = IF k = uz THEN stay ELSE file[k]
  BY <1>1, <1>2, <1>3 DEF Portion
<1>7. ASSUME NEW o \in Obj
      PROVE  /\ Proper(o, obj'[o]) /\ obj'[o].age >= 0
             /\ Holds(World', o, obj'[o], InMemory(o)')
             /\ Holds(gsave', o, obj'[o], InGsave(o)')
             /\ \A k \in Level : Holds(file'[k], o, obj'[o], OnFile(o, k)')
  <2> DEFINE s == obj[o]
             p == obj[o].place
  <2>1. Proper(o, s) /\ s.age >= 0 /\ p \in Places /\ Holds(World, o, s, InMemory(o))
        /\ \A k \in Level : Holds(file[k], o, s, OnFile(o, k))
    BY <1>2, WorldParts DEF Inv
  <2>2. \A k \in Level : /\ p \in {Floor(k), Buried(k)} <=> OnLevel(p) /\ p.on = k
                         /\ Away(p) <=> OnLevel(p) /\ p.on # uz
    BY <2>1, PlaceOn
  <2>3. o \in Local <=> OnLevel(p)
    BY DEF Local, obj_is_local, OnLevel
  <2>4. InMemory(o) <=> ~(OnLevel(p) /\ p.on # uz)
    BY <1>2, <2>2 DEF InMemory
  <2>5. \A k \in Level : OnFile(o, k) <=> OnLevel(p) /\ p.on = k /\ k # uz
    BY <1>2, <2>2 DEF OnFile
  <2>6. ~InMemory(o)' /\ (InGsave(o)' <=> ~OnLevel(p))
    BY <1>1, <1>5 DEF InMemory, InGsave, OnLevel
  <2>7. \A k \in Level : OnFile(o, k)' <=> OnLevel(p) /\ p.on = k
    BY <1>1, <1>5, <2>2 DEF OnFile, Floor, Buried
  <2> HIDE DEF p
  <2>8. Holds(World', o, s, InMemory(o)')
    BY <1>4, <1>5, <2>6, NothingEmpty, NEmpty DEF Holds
  <2>9. Holds(gsave', o, s, InGsave(o)')
    BY <1>1, <1>3, <2>1, <2>3, <2>4, <2>6 DEF Holds, Portion
  <2>10. ASSUME NEW k \in Level PROVE Holds(file'[k], o, s, OnFile(o, k)')
    <3>1. CASE k = uz
      BY <1>3, <1>6, <2>1, <2>3, <2>4, <2>7, <3>1 DEF Holds, Portion
    <3>2. CASE k # uz
      <4>1. OnFile(o, k)' <=> OnFile(o, k)
        BY <2>5, <2>7, <3>2
      <4> QED BY <1>6, <2>1, <3>2, <4>1 DEF Holds
    <3> QED BY <3>1, <3>2
  <2> QED BY <1>5, <2>1, <2>8, <2>9, <2>10
<1>8. Ordered(timer_base') /\ gsave' \in Snap /\ World' \in Worlds
  BY <1>1, <1>3, <1>4, <1>5 DEF Ordered, Portion
<1>9. Base' /\ phase' \in {"play", "run", "arrive", "saved"} /\ ~(phase' = "play")
  BY <1>1, <1>2 DEF Base
<1>10. ASSUME NEW o \in Obj PROVE Keeps(o)
  <2> DEFINE p == obj[o].place
  <2>1. p \in Places
    BY <1>2, WorldParts
  <2>2. /\ Away(p) <=> OnLevel(p) /\ p.on # uz
        /\ \A k \in Level : p \in {Floor(k), Buried(k)} <=> OnLevel(p) /\ p.on = k
    BY <2>1, PlaceOn
  <2>3. o \in Local <=> OnLevel(p)
    BY DEF Local, obj_is_local, OnLevel
  <2>4. /\ InMemory(o) <=> ~(OnLevel(p) /\ p.on # uz)
        /\ ~InGsave(o)
        /\ \A k \in Level : OnFile(o, k) <=> OnLevel(p) /\ p.on = k /\ k # uz
    BY <1>2, <2>2 DEF InMemory, InGsave, OnFile
  <2>5. /\ InGsave(o)' <=> ~OnLevel(p)
        /\ \A k \in Level : OnFile(o, k)' <=> OnLevel(p) /\ p.on = k
    BY <1>1, <1>5, <2>2 DEF InGsave, OnFile, OnLevel, Floor, Buried
  <2>6. /\ o \in Local => N(stay.timers, o) = N(World.timers, o) /\ Carried(World.timers, stay.timers, o)
        /\ o \notin Local => N(go.timers, o) = N(World.timers, o) /\ Carried(World.timers, go.timers, o)
    BY <1>3 DEF Portion
  <2> HIDE DEF p
  <2>7. ASSUME NEW f \in Int, InMemory(o), Has(World, o, f) PROVE FuelLeft(o, f)'
    <3>1. Fuel(monstermoves, World.timers, o, obj[o].age, f)
      BY <1>2, <2>7 DEF Has
    <3>2. CASE OnLevel(p)
      <4>1. PICK k \in Level : k = uz
        BY <1>2
      <4>2. OnFile(o, k)' /\ file'[k] = stay
        BY <1>6, <2>4, <2>5, <2>7, <3>2, <4>1
      <4>3. Fuel(monstermoves, stay.timers, o, obj[o].age, f)
        BY <2>3, <2>6, <3>1, <3>2, CarriedFuel
      <4> QED BY <1>1, <1>5, <4>2, <4>3 DEF FuelLeft
    <3>3. CASE ~OnLevel(p)
      <4>1. Fuel(monstermoves, go.timers, o, obj[o].age, f)
        BY <2>3, <2>6, <3>1, <3>3, CarriedFuel
      <4> QED BY <1>1, <1>5, <2>5, <3>3, <4>1 DEF FuelLeft
    <3> QED BY <3>2, <3>3
  <2>8. ASSUME NEW f \in Int, NEW k \in Level, OnFile(o, k), Fuel(monstermoves, file[k].timers, o, obj[o].age, f)
        PROVE  FuelLeft(o, f)'
    <3>1. OnFile(o, k)' /\ file'[k] = file[k]
      BY <1>6, <2>4, <2>5, <2>8
    <3> QED BY <1>1, <1>5, <2>8, <3>1 DEF FuelLeft
  <2> QED BY <2>4, <2>7, <2>8 DEF Keeps, FuelLeft
<1>11. OnlyTime
  BY <1>1, <1>2, <1>10, KeepsSpent DEF OnlyTime, Base
<1> QED
  BY <1>6, <1>7, <1>8, <1>9, <1>11 DEF Inv

(* dorecover: they come back.                                              *)
LEMMA RecoverStep ==
  ASSUME Inv, dorecover
  PROVE  Inv' /\ OnlyTime
<1> DEFINE u == Restored(World, gsave)
           v == Restored(u, file[uz])
<1>1. /\ phase = "saved" /\ Become(v) /\ file' = [file EXCEPT ![uz] = Nothing] /\ gsave' = Nothing
      /\ phase' = "run" /\ UNCHANGED <<monstermoves, uz>>
  BY DEF dorecover
<1>2. /\ Base /\ World \in Worlds /\ World.obj = obj /\ World.timers = timer_base /\ Ordered(timer_base)
      /\ file \in [Level -> Snap] /\ gsave \in Snap /\ uz \in Level
  BY DEF Inv, Base, World
<1>3. Joined(World, gsave, u)
  BY <1>2, RestoredJoined
<1> HIDE DEF u
<1>4. Joined(u, file[uz], v)
  BY <1>2, <1>3, RestoredJoined DEF Joined
<1> HIDE DEF v
<1>5. World' = v /\ obj' = obj /\ timer_base' = v.timers /\ v \in Worlds
  <2>1. v \in Worlds /\ v.obj = obj
    BY <1>2, <1>3, <1>4 DEF Joined
  <2>2. v = [obj |-> v.obj, timers |-> v.timers, lights |-> v.lights]
    BY <2>1 DEF Worlds
  <2> QED BY <1>1, <2>1, <2>2 DEF Become, World
<1>6. file' \in [Level -> Snap] /\ \A k \in Level : file'[k] = IF k = uz THEN Nothing ELSE file[k]
  BY <1>1, <1>2, NothingEmpty
<1>7. ASSUME NEW o \in Obj
      PROVE  /\ Proper(o, obj'[o]) /\ obj'[o].age >= 0
             /\ Holds(World', o, obj'[o], InMemory(o)')
             /\ Holds(gsave', o, obj'[o], InGsave(o)')
             /\ \A k \in Level : Holds(file'[k], o, obj'[o], OnFile(o, k)')
  <2> DEFINE s == obj[o]
             p == obj[o].place
  <2>1. Proper(o, s) /\ s.age >= 0 /\ p \in Places /\ Holds(World, o, s, InMemory(o))
        /\ Holds(gsave, o, s, InGsave(o)) /\ \A k \in Level : Holds(file[k], o, s, OnFile(o, k))
    BY <1>2, WorldParts DEF Inv
  <2>2. \A k \in Level : /\ p \in {Floor(k), Buried(k)} <=> OnLevel(p) /\ p.on = k
                         /\ Away(p) <=> OnLevel(p) /\ p.on # uz
    BY <2>1, PlaceOn
  <2>3. ~InMemory(o) /\ (InGsave(o) <=> ~OnLevel(p))
    BY <1>1 DEF InMemory, InGsave, OnLevel
  <2>4. \A k \in Level : OnFile(o, k) <=> OnLevel(p) /\ p.on = k
    BY <1>1, <2>2 DEF OnFile
  <2>5. InMemory(o)' <=> ~(OnLevel(p) /\ p.on # uz)
    BY <1>1, <1>5 DEF InMemory, Away, OnLevel
  <2>6. ~InGsave(o)'
    BY <1>1 DEF InGsave
  <2>7. \A k \in Level : OnFile(o, k)' <=> OnLevel(p) /\ p.on = k /\ k # uz
    BY <1>1, <1>5, <2>2 DEF OnFile, Floor, Buried
  <2> HIDE DEF p
  <2>8. Holds(World', o, s, InMemory(o)')
    <3>1. /\ v.lights[o] = World.lights[o] + gsave.lights[o] + file[uz].lights[o]
          /\ N(v.timers, o) = N(World.timers, o) + N(gsave.timers, o) + N(file[uz].timers, o)
      BY <1>3, <1>4 DEF Joined
    <3>2. Holds(file[uz], o, s, OnLevel(p) /\ p.on = uz) /\ Holds(gsave, o, s, ~OnLevel(p)) /\ Holds(World, o, s, FALSE)
      BY <1>2, <2>1, <2>3, <2>4 DEF Holds
    <3>3. Holds(v, o, s, ~(OnLevel(p) /\ p.on # uz))
      BY <3>1, <3>2 DEF Holds
    <3> QED BY <1>5, <2>5, <3>3 DEF Holds
  <2>9. Holds(gsave', o, s, InGsave(o)')
    BY <1>1, <2>6, NothingEmpty DEF Holds
  <2>10. ASSUME NEW k \in Level PROVE Holds(file'[k], o, s, OnFile(o, k)')
    <3>1. CASE k = uz
      BY <1>6, <2>7, <3>1, NothingEmpty DEF Holds
    <3>2. CASE k # uz
      <4>1. OnFile(o, k)' <=> OnFile(o, k)
        BY <2>4, <2>7, <3>2
      <4> QED BY <1>6, <2>1, <3>2, <4>1 DEF Holds
    <3> QED BY <3>1, <3>2
  <2> QED BY <1>5, <2>1, <2>8, <2>9, <2>10
<1>8. Ordered(timer_base') /\ gsave' \in Snap /\ World' \in Worlds
  BY <1>1, <1>2, <1>3, <1>4, <1>5, NothingEmpty DEF Joined
<1>9. Base' /\ phase' \in {"play", "run", "arrive", "saved"} /\ ~(phase' = "play")
  BY <1>1, <1>2 DEF Base
<1>10. ASSUME NEW o \in Obj PROVE Keeps(o)
  <2> DEFINE p == obj[o].place
  <2>1. p \in Places
    BY <1>2, WorldParts
  <2>2. /\ Away(p) <=> OnLevel(p) /\ p.on # uz
        /\ \A k \in Level : p \in {Floor(k), Buried(k)} <=> OnLevel(p) /\ p.on = k
    BY <2>1, PlaceOn
  <2>3. /\ ~InMemory(o)
        /\ InGsave(o) <=> ~OnLevel(p)
        /\ \A k \in Level : OnFile(o, k) <=> OnLevel(p) /\ p.on = k
    BY <1>1, <2>2 DEF InMemory, InGsave, OnFile, OnLevel
  <2>4. /\ InMemory(o)' <=> ~(OnLevel(p) /\ p.on # uz)
        /\ \A k \in Level : OnFile(o, k)' <=> OnLevel(p) /\ p.on = k /\ k # uz
    BY <1>1, <1>5, <2>2 DEF InMemory, OnFile, Away, OnLevel, Floor, Buried
  <2>5. /\ N(u.timers, o) = N(World.timers, o) + N(gsave.timers, o)
        /\ N(v.timers, o) = N(u.timers, o) + N(file[uz].timers, o)
        /\ Carried(gsave.timers, u.timers, o) /\ Carried(u.timers, v.timers, o)
        /\ Carried(file[uz].timers, v.timers, o)
    BY <1>3, <1>4 DEF Joined
  <2>6. /\ N(World.timers, o) = 0
        /\ OnLevel(p) => N(gsave.timers, o) = 0
        /\ ~OnLevel(p) => N(file[uz].timers, o) = 0
    BY <1>2, <2>3 DEF Inv, Holds
  <2>7. N(gsave.timers, o) \in Nat /\ N(file[uz].timers, o) \in Nat
    BY <1>2, NPositive DEF Snap
  <2> HIDE DEF p
  <2>8. ASSUME NEW f \in Int, InGsave(o), Fuel(monstermoves, gsave.timers, o, obj[o].age, f) PROVE FuelLeft(o, f)'
    <3>1. N(u.timers, o) = N(gsave.timers, o) /\ N(v.timers, o) = N(u.timers, o)
      BY <2>3, <2>5, <2>6, <2>7, <2>8
    <3>2. Fuel(monstermoves, u.timers, o, obj[o].age, f)
      BY <2>5, <2>8, <3>1, CarriedFuel
    <3>3. Fuel(monstermoves, v.timers, o, obj[o].age, f)
      BY <2>5, <3>1, <3>2, CarriedFuel
    <3>4. InMemory(o)' /\ v.obj = obj
      BY <1>2, <1>3, <1>4, <2>3, <2>4, <2>8 DEF Joined
    <3> QED BY <1>1, <1>5, <3>3, <3>4 DEF FuelLeft, Has
  <2>9. ASSUME NEW f \in Int, NEW k \in Level, OnFile(o, k), Fuel(monstermoves, file[k].timers, o, obj[o].age, f)
        PROVE  FuelLeft(o, f)'
    <3>1. OnLevel(p) /\ p.on = k
      BY <2>3, <2>9
    <3>2. CASE k = uz
      <4>1. N(v.timers, o) = N(file[uz].timers, o)
        BY <2>5, <2>6, <2>7, <3>1
      <4>2. Fuel(monstermoves, v.timers, o, obj[o].age, f)
        BY <2>5, <2>9, <3>2, <4>1, CarriedFuel
      <4>3. InMemory(o)' /\ v.obj = obj
        BY <1>2, <1>3, <1>4, <2>4, <3>1, <3>2 DEF Joined
      <4> QED BY <1>1, <1>5, <4>2, <4>3 DEF FuelLeft, Has
    <3>3. CASE k # uz
      <4>1. OnFile(o, k)' /\ file'[k] = file[k]
        BY <1>6, <2>4, <3>1, <3>3
      <4> QED BY <1>1, <1>5, <2>9, <4>1 DEF FuelLeft
    <3> QED BY <3>2, <3>3
  <2> QED BY <2>3, <2>8, <2>9 DEF Keeps, FuelLeft
<1>11. OnlyTime
  BY <1>1, <1>2, <1>10, KeepsSpent DEF OnlyTime, Base
<1> QED
  BY <1>6, <1>7, <1>8, <1>9, <1>11 DEF Inv

-----------------------------------------------------------------------------
(* The invariant holds.                                                    *)

(* The game starts with no object, so with no light and no timer.          *)
LEMMA InvInit == Init => Inv
<1> SUFFICES ASSUME Init PROVE Inv
  OBVIOUS
<1>1. Base /\ phase = "play"
  BY DEF Init, Base
<1>2. /\ World = [obj |-> obj, timers |-> <<>>, lights |-> NoLights]
      /\ obj = [o \in Obj |-> NoObj] /\ gsave = Nothing /\ timer_base = <<>>
      /\ file = [l \in Level |-> Nothing]
  BY DEF Init, World
<1>3. World \in Worlds /\ gsave \in Snap /\ file \in [Level -> Snap]
  <2>1. obj \in [Obj -> Ware]
    BY <1>2, NoObjWare
  <2> QED BY <1>2, <2>1, NothingEmpty DEF Worlds
<1>4. ASSUME NEW o \in Obj
      PROVE  /\ Proper(o, obj[o]) /\ obj[o].age >= 0
             /\ Holds(World, o, obj[o], InMemory(o))
             /\ Holds(gsave, o, obj[o], InGsave(o))
             /\ \A l \in Level : Holds(file[l], o, obj[o], OnFile(o, l))
  <2>1. obj[o] = NoObj
    BY <1>2
  <2>2. NoObj.place = Gone /\ ~NoObj.lamplit /\ ~NoObj.unpaid /\ NoObj.age = 0
    BY DEF NoObj
  <2>3. Gone.at \notin {"floor", "buried"}
    BY <1>1, PlaceFacts
  <2>4. World.lights[o] = 0 /\ N(World.timers, o) = 0
    BY <1>2, NothingEmpty, NEmpty
  <2> QED BY <1>2, <2>1, <2>2, <2>3, <2>4, NothingEmpty DEF Proper, Holds
<1>5. Ordered(timer_base) /\ Prompt(timer_base)
  BY <1>2 DEF Ordered, Prompt
<1> QED
  BY <1>1, <1>3, <1>4, <1>5 DEF Inv

(* Every step of Next keeps the invariant.                                 *)
LEMMA InvNext ==
  ASSUME NoTorchForSale, Inv, [Next]_vars
  PROVE  Inv' /\ OnlyTime
<1>1. ASSUME NEW o \in Obj, Objects(o) PROVE Inv' /\ OnlyTime
  <2>1. CASE CreateObj(o)   BY <2>1, CreateObjStep
  <2>2. CASE PickUp(o)      BY <2>2, PickUpStep
  <2>3. CASE \E thrown \in BOOLEAN : Drop(o, thrown)  BY <2>3, DropStep
  <2>4. CASE Bury(o)        BY <2>4, BuryStep
  <2>5. CASE Unearth(o)     BY <2>5, UnearthStep
  <2>6. CASE Destroy(o)     BY <2>6, DestroyStep
  <2>7. CASE \E l \in Level : Fall(o, l)  BY <2>7, FallStep
  <2>8. CASE use_lamp(o)    BY <2>8, LampStep
  <2>9. CASE use_candle(o)  BY <2>9, CandleStep
  <2>10. CASE use_torch(o)  BY <2>10, TorchStep
  <2>11. CASE light_cocktail(o)  BY <2>11, OilStep
  <2>12. CASE catch_lit(o)  BY <2>12, CatchStep
  <2>13. CASE snuff_lit(o)  BY <2>13, SnuffStep
  <2>14. CASE burn_faster(o)  BY <2>14, FasterStep
  <2>15. CASE \E p \in Obj : Refuel(o, p)  BY <2>15, RefuelStep
  <2> QED
    BY <1>1, <2>1, <2>2, <2>3, <2>4, <2>5, <2>6, <2>7, <2>8, <2>9, <2>10, <2>11, <2>12, <2>13, <2>14,
       <2>15 DEF Objects
<1>2. CASE Pay         BY <1>2, PayStep
<1>3. CASE Tick        BY <1>3, TickStep
<1>4. CASE run_timers  BY <1>4, RunStep
<1>5. CASE \E l \in Level : GotoLevel(l)  BY <1>5, GotoStep
<1>6. CASE Arrive      BY <1>6, ArriveStep
<1>7. CASE dosave0     BY <1>7, SaveStep
<1>8. CASE dorecover   BY <1>8, RecoverStep
<1>9. CASE UNCHANGED vars
  <2>1. World' = World
    BY <1>9 DEF vars, World
  <2>2. Base'
    BY <1>9 DEF vars, Inv, Base
  <2>3. ASSUME NEW o \in Obj
        PROVE  /\ InMemory(o)' <=> InMemory(o)
               /\ InGsave(o)' <=> InGsave(o)
               /\ \A l \in Level : OnFile(o, l)' <=> OnFile(o, l)
    BY <1>9 DEF vars, InMemory, InGsave, OnFile, Away, Floor, Buried
  <2>4. ASSUME NEW o \in Obj
        PROVE  /\ Proper(o, obj'[o]) /\ obj'[o].age >= 0
               /\ Holds(World', o, obj'[o], InMemory(o)')
               /\ Holds(gsave', o, obj'[o], InGsave(o)')
               /\ \A l \in Level : Holds(file'[l], o, obj'[o], OnFile(o, l)')
    BY <1>9, <2>1, <2>3 DEF vars, Inv, Holds
  <2>5. Prompt(timer_base)' <=> Prompt(timer_base)
    BY <1>9 DEF vars, Prompt
  <2>6. \A o \in Obj : Keeps(o)
    BY <1>9, <2>1, <2>3 DEF vars, Keeps, FuelLeft, Has
  <2>7. OnlyTime
    BY <1>9, <2>6, KeepsSpent DEF OnlyTime, vars, Inv, Base
  <2> QED BY <1>9, <2>1, <2>2, <2>4, <2>5, <2>7 DEF vars, Inv
<1> QED
  BY <1>1, <1>2, <1>3, <1>4, <1>5, <1>6, <1>7, <1>8, <1>9 DEF Next

(* So it holds always.                                                     *)
LEMMA Invariant ==
  ASSUME NoTorchForSale
  PROVE  Spec => []Inv
<1>1. Inv /\ [Next]_vars => Inv'
  BY InvNext
<1> QED
  BY InvInit, <1>1, PTL DEF Spec

-----------------------------------------------------------------------------
(* What the invariant says.                                                *)

(* Every variable keeps its type, and no fuel is negative.                 *)
LEMMA InvTypes == Inv => TypeOK
<1> SUFFICES ASSUME Inv PROVE TypeOK
  OBVIOUS
<1>1. /\ Base /\ World \in Worlds /\ gsave \in Snap /\ file \in [Level -> Snap]
      /\ phase \in {"play", "run", "arrive", "saved"}
      /\ World.obj = obj /\ World.timers = timer_base /\ World.lights = light_base
  BY DEF Inv, World
<1>2. obj \in [Obj -> Struct]
  <2>1. obj \in [Obj -> Ware]
    BY <1>1, WorldParts
  <2>2. ASSUME NEW o \in Obj PROVE obj[o] \in Struct
    <3>1. obj[o] \in Ware /\ obj[o].age >= 0
      BY <2>1 DEF Inv
    <3> QED BY <3>1 DEF Ware, Struct
  <2> QED BY <2>1, <2>2
<1>3. \A q \in Queues : q \in Seq(Timer)
  <2>1. timer_base \in Seq(Timer)
    BY <1>1, WorldParts
  <2> QED BY <1>1, <2>1 DEF Queues, Snap
<1>4. \A q \in Queues : \A i \in DOMAIN q : q[i].arg \in Obj /\ q[i].timeout \in Nat
  <2>1. ASSUME NEW q \in Queues, NEW i \in DOMAIN q PROVE q[i].arg \in Obj /\ q[i].timeout \in Nat
    <3>1. q[i] \in Timer
      BY <1>3, <2>1, ElementOfSeq
    <3> QED BY <3>1 DEF Timer
  <2> QED BY <2>1
<1>5. \A f \in {light_base, gsave.lights} \cup {file[l].lights : l \in Level} : f \in [Obj -> Nat]
  <2>1. light_base \in [Obj -> Nat]
    BY <1>1, WorldParts
  <2> QED BY <1>1, <2>1 DEF Snap
<1> QED
  BY <1>1, <1>2, <1>4, <1>5 DEF TypeOK, Base

(* Only the store s has a light or a timer of o, and each at most once.    *)
OnlyIn(o, s) ==
  \A r \in Stores :
    /\ Store(r).lights[o] = IF r = s /\ obj[o].lamplit THEN 1 ELSE 0
    /\ N(Store(r).timers, o) = IF r = s /\ obj[o].lamplit /\ o \notin MagicLamps THEN 1 ELSE 0
    /\ Store(r).timers \in Seq(Timer)

(* There is one store that has the light and the timer of o.               *)
LEMMA OneStore ==
  ASSUME Inv, NEW o \in Obj
  PROVE  \E s \in Stores : OnlyIn(o, s)
<1> DEFINE p == obj[o].place
           s == IF phase = "saved"
                THEN IF OnLevel(p) THEN <<"file", p.on>> ELSE <<"gsave">>
                ELSE IF Away(p) THEN <<"file", p.on>> ELSE <<"memory">>
<1>1. /\ Base /\ World \in Worlds /\ gsave \in Snap /\ file \in [Level -> Snap]
      /\ World.timers = timer_base /\ World.lights = light_base /\ World.obj = obj
  BY DEF Inv, World
<1>2. /\ Proper(o, obj[o]) /\ p \in Places
      /\ Holds(World, o, obj[o], InMemory(o))
      /\ Holds(gsave, o, obj[o], InGsave(o))
      /\ \A l \in Level : Holds(file[l], o, obj[o], OnFile(o, l))
  BY <1>1, WorldParts DEF Inv
<1>3. /\ OnLevel(p) => p.on \in Level
      /\ Away(p) <=> OnLevel(p) /\ p.on # uz
      /\ \A l \in Level : p \in {Floor(l), Buried(l)} <=> OnLevel(p) /\ p.on = l
  BY <1>2, PlaceOn DEF Proper, OnLevel
<1>4. s \in Stores
  BY <1>3 DEF Stores
<1>5. ASSUME NEW r \in Stores
      PROVE  /\ Holds(Store(r), o, obj[o], r = s)
             /\ Store(r).timers \in Seq(Timer)
  <2>1. CASE r = <<"memory">>
    <3>1. Store(r) = [timers |-> timer_base, lights |-> light_base]
      BY <2>1 DEF Store
    <3>2. InMemory(o) <=> r = s
      BY <1>3, <2>1 DEF InMemory
    <3>3. timer_base \in Seq(Timer)
      BY <1>1, WorldParts
    <3> QED BY <1>1, <1>2, <3>1, <3>2, <3>3 DEF Holds
  <2>2. CASE r = <<"gsave">>
    <3>1. Store(r) = gsave
      BY <2>2 DEF Store
    <3>2. InGsave(o) <=> r = s
      BY <1>3, <2>2 DEF InGsave, OnLevel
    <3> QED BY <1>1, <1>2, <3>1, <3>2 DEF Holds, Snap
  <2>3. ASSUME NEW l \in Level, r = <<"file", l>>
        PROVE  /\ Holds(Store(r), o, obj[o], r = s)
               /\ Store(r).timers \in Seq(Timer)
    <3>1. Store(r) = file[l]
      BY <2>3 DEF Store
    <3>2. OnFile(o, l) <=> OnLevel(p) /\ p.on = l /\ (l # uz \/ phase = "saved")
      BY <1>3 DEF OnFile
    <3>3. r = s <=> OnLevel(p) /\ p.on = l /\ (l # uz \/ phase = "saved")
      BY <1>3, <2>3
    <3>4. OnFile(o, l) <=> r = s
      BY <3>2, <3>3
    <3>5. Holds(file[l], o, obj[o], OnFile(o, l)) /\ file[l].timers \in Seq(Timer)
      BY <1>1, <1>2 DEF Snap
    <3> HIDE DEF s
    <3> QED BY <3>1, <3>4, <3>5 DEF Holds
  <2> QED BY <2>1, <2>2, <2>3 DEF Stores
<1> HIDE DEF s
<1>6. OnlyIn(o, s)
  BY <1>5 DEF OnlyIn, Holds
<1> QED
  BY <1>4, <1>6

(* A lit object has exactly one light and, unless it is magic, one timer.  *)
LEMMA InvLit == Inv => LitMeansBurning
<1> SUFFICES ASSUME Inv, NEW o \in Obj
             PROVE  /\ Cardinality(LightsOf(o)) = IF obj[o].lamplit THEN 1 ELSE 0
                    /\ Cardinality(TimersOf(o)) = IF obj[o].lamplit /\ o \notin MagicLamps THEN 1 ELSE 0
  BY DEF LitMeansBurning
<1>1. PICK s \in Stores : OnlyIn(o, s)
  BY OneStore
<1>2. Cardinality(LightsOf(o)) = IF obj[o].lamplit THEN 1 ELSE 0
  <2>1. CASE obj[o].lamplit
    <3>1. (1 .. 1) = {1} /\ (1 .. 0) = {}
      OBVIOUS
    <3>2. 1 .. Store(s).lights[o] = {1}
      BY <1>1, <2>1, <3>1 DEF OnlyIn
    <3>3. \A r \in Stores : r # s => 1 .. Store(r).lights[o] = {}
      BY <1>1, <2>1, <3>1 DEF OnlyIn
    <3>4. LightsOf(o) = {<<s, 1>>}
      BY <1>1, <3>2, <3>3 DEF LightsOf
    <3> QED BY <2>1, <3>4, FS_Singleton
  <2>2. CASE ~obj[o].lamplit
    <3>1. \A r \in Stores : (1 .. Store(r).lights[o]) = {}
      BY <1>1, <2>2 DEF OnlyIn
    <3>2. LightsOf(o) = {}
      BY <3>1 DEF LightsOf
    <3> QED BY <2>2, <3>2, FS_EmptySet
  <2> QED BY <2>1, <2>2
<1>3. Cardinality(TimersOf(o)) = IF obj[o].lamplit /\ o \notin MagicLamps THEN 1 ELSE 0
  <2>1. CASE obj[o].lamplit /\ o \notin MagicLamps
    <3>1. \A r \in Stores : r # s => OnArg(Store(r).timers, o) = {}
      BY <1>1, OnArgNumber DEF OnlyIn
    <3>2. \E i : OnArg(Store(s).timers, o) = {i}
      BY <1>1, <2>1, OnArgNumber DEF OnlyIn
    <3>3. PICK i : OnArg(Store(s).timers, o) = {i}
      BY <3>2
    <3>4. TimersOf(o) = {<<s, i>>}
      BY <1>1, <3>1, <3>3 DEF TimersOf
    <3> QED BY <2>1, <3>4, FS_Singleton
  <2>2. CASE ~(obj[o].lamplit /\ o \notin MagicLamps)
    <3>1. \A r \in Stores : OnArg(Store(r).timers, o) = {}
      BY <1>1, <2>2, OnArgNumber DEF OnlyIn
    <3>2. TimersOf(o) = {}
      BY <3>1 DEF TimersOf
    <3> QED BY <2>2, <3>2, FS_EmptySet
  <2> QED BY <2>1, <2>2
<1> QED
  BY <1>2, <1>3

(* The invariant says it, store by store.                                  *)
LEMMA InvKept == Inv => KeptWithOwner
<1> SUFFICES ASSUME Inv, NEW o \in Obj
             PROVE  /\ \A l \in Level : (file[l].lights[o] > 0 \/ OnArg(file[l].timers, o) # {}) =>
                         (obj[o].place \in {Floor(l), Buried(l)} /\ (l # uz \/ phase = "saved"))
                    /\ (light_base[o] > 0 \/ OnArg(timer_base, o) # {}) =>
                         obj[o].place \notin {Floor(l) : l \in Level \ {uz}} \cup {Buried(l) : l \in Level \ {uz}}
  BY DEF KeptWithOwner
<1>1. /\ World \in Worlds /\ file \in [Level -> Snap]
      /\ World.timers = timer_base /\ World.lights = light_base
      /\ Holds(World, o, obj[o], InMemory(o))
      /\ \A l \in Level : Holds(file[l], o, obj[o], OnFile(o, l))
  BY DEF Inv, World
<1>2. ASSUME NEW l \in Level, file[l].lights[o] > 0 \/ OnArg(file[l].timers, o) # {}
      PROVE  obj[o].place \in {Floor(l), Buried(l)} /\ (l # uz \/ phase = "saved")
  <2>1. file[l].timers \in Seq(Timer)
    BY <1>1 DEF Snap
  <2>2. file[l].lights[o] # 0 \/ N(file[l].timers, o) # 0
    BY <1>2, <2>1, OnArgNumber
  <2>3. OnFile(o, l)
    BY <1>1, <2>2 DEF Holds
  <2> QED BY <2>3 DEF OnFile
<1>3. ASSUME light_base[o] > 0 \/ OnArg(timer_base, o) # {}
      PROVE  obj[o].place \notin {Floor(l) : l \in Level \ {uz}} \cup {Buried(l) : l \in Level \ {uz}}
  <2>1. timer_base \in Seq(Timer)
    BY <1>1, WorldParts
  <2>2. light_base[o] # 0 \/ N(timer_base, o) # 0
    BY <1>3, <2>1, OnArgNumber
  <2>3. ~Away(obj[o].place)
    BY <1>1, <2>2 DEF Holds, InMemory
  <2> QED BY <2>3 DEF Away, Floor, Buried, At
<1> QED
  BY <1>2, <1>3

(* Whoever has a light or a timer in memory is where something can be lit. *)
LEMMA InvOwners ==
  ASSUME Inv, NEW o \in Obj, World.lights[o] > 0 \/ OnArg(World.timers, o) # {}
  PROVE  LitAt(o, obj[o].place) /\ obj[o].lamplit
<1>1. World \in Worlds /\ Holds(World, o, obj[o], InMemory(o)) /\ Proper(o, obj[o])
  BY DEF Inv
<1>2. World.timers \in Seq(Timer)
  BY <1>1, WorldParts
<1>3. World.lights[o] # 0 \/ N(World.timers, o) # 0
  BY <1>2, OnArgNumber
<1>4. obj[o].lamplit
  BY <1>1, <1>3 DEF Holds
<1> QED
  BY <1>1, <1>4 DEF Proper

(* A step that keeps the invariant and spends but time: what is left now   *)
(* and what was left are what FuelIsTime says.                             *)
LEMMA FuelSpent ==
  ASSUME Inv, OnlyTime, NEW o \in Obj \ MagicLamps,
         \A x \in Obj : /\ \E f \in Int : FuelLeft(x, f)
                        /\ \A f \in Int : FuelLeft(x, f) => Left(x) = Pos(f),
         (\A x \in Obj : /\ \E f \in Int : FuelLeft(x, f)
                         /\ \A f \in Int : FuelLeft(x, f) => Left(x) = Pos(f))',
         InUse(o) /\ InUse(o)' /\ (obj'[o].lamplit \/ (obj[o].lamplit /\ ~Merges))
  PROVE  \/ Left(o)' = Max({0, Left(o) - IF obj[o].lamplit THEN monstermoves' - monstermoves ELSE 0})
         \/ o \in Torches /\ obj[o].lamplit /\ Left(o)' = Left(o) - 1
<1>1. PICK f \in Int : FuelLeft(o, f)
  OBVIOUS
<1>2. Left(o) = Pos(f)
  BY <1>1
<1>3. PICK g \in Int : /\ FuelLeft(o, g)'
                      /\ \/ Pos(g) = Max({0, Pos(f) - IF obj[o].lamplit THEN monstermoves' - monstermoves ELSE 0})
                         \/ o \in Torches /\ obj[o].lamplit /\ Pos(g) = Pos(f) - 1
  BY <1>1 DEF OnlyTime, Spent
<1>4. Left(o)' = Pos(g)
  BY <1>3
<1> QED
  BY <1>2, <1>3, <1>4

-----------------------------------------------------------------------------
(* The theorems.                                                           *)

(* Every variable keeps its type; the fuel that cleanup_burn gives back    *)
(* and burn_object takes never leaves a negative age.                      *)
THEOREM TypeCorrect ==
  ASSUME NoTorchForSale
  PROVE  Spec => []TypeOK
BY Invariant, InvTypes, PTL

(* A lit object has exactly one light source, in memory or on file, and    *)
(* exactly one timer unless it is magic; what is not lit has neither.      *)
THEOREM LitBurns ==
  ASSUME NoTorchForSale
  PROVE  Spec => []LitMeansBurning
BY Invariant, InvLit, PTL

(* Lights and timers are where their owners are, in memory or in the file  *)
(* of the level on which the owner was left.                               *)
THEOREM KeptWithOwners ==
  ASSUME NoTorchForSale
  PROVE  Spec => []KeptWithOwner
BY Invariant, InvKept, PTL

(* A lit object loses a turn's fuel a turn, wherever it and the hero are;  *)
(* an unlit one none; being lit, put out, split, merged, saved and left    *)
(* behind costs nothing.  Only a torch may burn faster.                    *)
THEOREM FuelTime ==
  ASSUME NoTorchForSale
  PROVE  Spec => FuelIsTime
<1> DEFINE Measured == \A x \in Obj : /\ \E f \in Int : FuelLeft(x, f)
                                      /\ \A f \in Int : FuelLeft(x, f) => Left(x) = Pos(f)
           FuelGoes == \A o \in Obj \ MagicLamps :
                         (InUse(o) /\ InUse(o)' /\ (obj'[o].lamplit \/ (obj[o].lamplit /\ ~Merges))) =>
                           \/ Left(o)' = Max({0, Left(o) - IF obj[o].lamplit THEN monstermoves' - monstermoves ELSE 0})
                           \/ o \in Torches /\ obj[o].lamplit /\ Left(o)' = Left(o) - 1
<1>1. Inv => Measured
  BY LeftIs
<1>2. Inv /\ Measured /\ Measured' /\ [Next]_vars => FuelGoes
  BY InvNext, FuelSpent
<1>3. FuelIsTime <=> [][FuelGoes]_vars
  BY DEF FuelIsTime
<1> HIDE DEF Measured, FuelGoes
<1> QED
  BY <1>1, <1>2, <1>3, Invariant, PTL DEF Spec

(* What breaks a save: a lit magic lamp that was for sale and is on the    *)
(* bill, or a lit stack of torches that use_torch left.                    *)
SaveSpoilt ==
  \E o \in Obj : /\ obj[o].lamplit
                 /\ \/ o \in MagicLamps /\ MagicSold /\ obj[o].place = OnBill
                    \/ o \in Torches /\ obj[o].place = Lost

(* What has a light or a timer is lit, and what is lit is where find_oid   *)
(* looks, with two exceptions.                                             *)
LEMMA InvSave == Inv => SaveSpoilt \/ SaveNeverPanics
<1> SUFFICES ASSUME Inv, ~SaveSpoilt, NEW o \in Obj, World.lights[o] > 0 \/ OnArg(World.timers, o) # {}
             PROVE  Known(World.obj[o].place)
  BY DEF SaveNeverPanics, OwnersKnown
<1>1. LitAt(o, obj[o].place) /\ obj[o].lamplit
  BY InvOwners
<1> QED
  BY <1>1 DEF LitAt, SaveSpoilt, World

(* Nothing but that makes obj_is_local panic when the game is saved while  *)
(* the hero plays.                                                         *)
THEOREM SaveKnowsOwners ==
  ASSUME NoTorchForSale
  PROVE  Spec => [](SaveSpoilt \/ SaveNeverPanics)
BY Invariant, InvSave, PTL

(* Without torches, and where no magic lamp is for sale, the game can      *)
(* always be saved.                                                        *)
THEOREM SaveNeverFails ==
  ASSUME Torches = {}, ForSale \cap MagicLamps = {}
  PROVE  Spec => []SaveNeverPanics
<1>1. NoTorchForSale
  BY DEF NoTorchForSale
<1>2. ~SaveSpoilt
  BY DEF SaveSpoilt, MagicSold
<1>3. Inv => SaveNeverPanics
  BY <1>2, InvSave
<1> QED
  BY <1>1, <1>3, Invariant, PTL

=============================================================================
