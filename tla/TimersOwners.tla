---------------------------- MODULE TimersOwners ----------------------------
(***************************************************************************)
(* Timers and their owners: a timer is where its owner is, in memory or in *)
(* a level file or in the save file (KeptWithOwner), obj->timed is the     *)
(* number of timers an object has (TimedIsCount), what changes levels,     *)
(* saves and restores loses no timer (TimersSurvive), and no owner has two *)
(* timers of a kind or one it may not have where it is (UniquePairs,       *)
(* OneDecay, RotOrganicInGround).                                          *)
(*                                                                         *)
(* KeptWithOwner is not inductive: a callback takes one timer off the list *)
(* and lowers the count, obfree looks for timers only if the count is not  *)
(* 0, so that the count must be right for a freed object to leave no timer *)
(* behind, and the count is right only if no timer of the object is out of *)
(* reach in a file.  OwnInv is the two together, by numbers, with what the *)
(* program may rely on when it moves an object: boxes do not hold boxes,   *)
(* what is in a file is not in memory, what a dying monster carries is     *)
(* dropped before anything else happens.                                   *)
(*                                                                         *)
(* The last three need the limits of all kinds at once, with what waits to *)
(* be inserted counted in (Limits): obj_timer_checks and the callbacks     *)
(* start a timer of decay, which is the only one because none of the other *)
(* two ran, and a split copies what the old stack has, so that one twin    *)
(* would breed others.  They rest on OwnInv: what is read from a file is   *)
(* not also in memory because its owner is not.                            *)
(*                                                                         *)
(* One callback does break it: moldy_corpse may start the rot of a stack   *)
(* that revive() has freed.  The theorems about owners are about the       *)
(* behaviours in which it does not (NothingRotsFreed).                     *)
(***************************************************************************)
EXTENDS TimersProofs

(* The timers of a that call one of K back.                                *)
Of(K, a) == {t \in Timer : t.func \in K /\ t.arg = a}

(* How many of them the list q has, and how many timers of a altogether.   *)
N(q, K, a)  == Num(q, Of(K, a))
Count(q, a) == N(q, Funcs, a)

(* One function only; the set has a name so that the provers see it as one.*)
Just(f) == {f}

(* Whatever may have a timer.                                              *)
Owners == Obj \cup Mon

-----------------------------------------------------------------------------
(* What the operations on the list do to these numbers.                    *)

(* Numbers are natural numbers, and 0 for the empty list.                  *)
LEMMA NType ==
  ASSUME NEW q \in Seq(Timer), NEW K, NEW a
  PROVE  N(q, K, a) \in Nat
BY NumType DEF N

(* An empty list has none.                                                 *)
LEMMA NEmpty == \A K, a : N(<<>>, K, a) = 0
BY NumEmpty DEF N

(* Some timer of a calls one of K back just when the number is not 0.      *)
LEMMA NPositive ==
  ASSUME NEW q \in Seq(Timer), NEW K, NEW a
  PROVE  /\ N(q, K, a) = 0 <=> \A i \in DOMAIN q : ~(q[i].func \in K /\ q[i].arg = a)
         /\ N(q, K, a) > 0 <=> \E i \in DOMAIN q : q[i].func \in K /\ q[i].arg = a
<1>1. \A i \in DOMAIN q : q[i] \in Timer
  BY ElementOfSeq
<1>2. N(q, K, a) = 0 <=> \A i \in DOMAIN q : q[i] \notin Of(K, a)
  BY NumZero DEF N
<1>3. N(q, K, a) \in Nat
  BY NType
<1> QED
  BY <1>1, <1>2, <1>3 DEF Of

(* A timer has a function: the timers of a are those of all functions.     *)
LEMMA CountPositive ==
  ASSUME NEW q \in Seq(Timer), NEW a
  PROVE  /\ Count(q, a) \in Nat
         /\ Count(q, a) > 0 <=> \E i \in DOMAIN q : q[i].arg = a
<1>1. \A i \in DOMAIN q : q[i].func \in Funcs
  <2>1. \A i \in DOMAIN q : q[i] \in Timer
    BY ElementOfSeq
  <2> QED BY <2>1 DEF Timer
<1> QED
  BY <1>1, NType, NPositive DEF Count

(* insert_timer adds one to the numbers of the timer's owner.              *)
LEMMA NInsert ==
  ASSUME NEW q \in Seq(Timer), NEW t \in Timer, NEW K, NEW a
  PROVE  N(insert_timer(q, t), K, a)
           = N(q, K, a) + IF t.func \in K /\ t.arg = a THEN 1 ELSE 0
<1>1. t \in Of(K, a) <=> t.func \in K /\ t.arg = a
  BY DEF Of
<1>2. N(insert_timer(q, t), K, a) = N(q, K, a) + IF t \in Of(K, a) THEN 1 ELSE 0
  BY TimeoutsAreIntegers, NumInsert DEF N
<1> QED
  BY <1>1, <1>2

(* So does start_timer.                                                    *)
LEMMA NStart ==
  ASSUME ClockOK, NEW q \in Queue, NEW d \in Delays \cup LateDelays, NEW f \in Funcs,
         NEW o \in Owners, NEW K, NEW a
  PROVE  N(start_timer(q, d, f, o), K, a)
           = N(q, K, a) + IF f \in K /\ o = a THEN 1 ELSE 0
<1> DEFINE t == Expiring(d, f, o)
<1>1. t \in Timer
  BY ExpiringTimer DEF Owners
<1>2. t.func = f /\ t.arg = o
  BY DEF Expiring
<1> HIDE DEF t
<1>3. N(insert_timer(q, t), K, a) = N(q, K, a) + IF t.func \in K /\ t.arg = a THEN 1 ELSE 0
  BY <1>1, NInsert DEF Queue
<1> QED
  BY <1>2, <1>3 DEF start_timer, t

(* Unlinking positions leaves the others.                                  *)
LEMMA NKeep ==
  ASSUME NEW q \in Seq(Timer), NEW S \in SUBSET DOMAIN q, NEW K, NEW a
  PROVE  /\ (\A i \in DOMAIN q : q[i].arg = a => i \in S) => N(Keep(q, S), K, a) = N(q, K, a)
         /\ (\A i \in S : q[i].arg # a) => N(Keep(q, S), K, a) = 0
<1> DEFINE A == Sel(q, Of(K, a))
           B == S \cap A
<1>1. N(Keep(q, S), K, a) = Cardinality(B) /\ N(q, K, a) = Cardinality(A)
  BY NumKeep DEF N, Num
<1>2. A \in SUBSET DOMAIN q /\ \A i \in A : q[i].arg = a
  BY DEF Sel, Of
<1> HIDE DEF A
<1>3. ASSUME \A i \in DOMAIN q : q[i].arg = a => i \in S PROVE Cardinality(B) = Cardinality(A)
  <2>1. B = A
    BY <1>2, <1>3
  <2> QED BY <2>1, Zenon
<1>4. ASSUME \A i \in S : q[i].arg # a PROVE Cardinality(B) = 0
  <2>1. B = {}
    BY <1>2, <1>4
  <2> QED BY <2>1, FS_EmptySet, Zenon
<1> QED
  BY <1>1, <1>3, <1>4

(* obj_stop_timers and mon_stop_timers.                                    *)
LEMMA NStopAll ==
  ASSUME NEW q \in Seq(Timer), NEW o, NEW K, NEW a
  PROVE  N(stop_all(q, o), K, a) = IF a = o THEN 0 ELSE N(q, K, a)
<1> DEFINE S == DOMAIN q \ OnArg(q, o)
<1>1. /\ S \in SUBSET DOMAIN q
      /\ a # o => \A i \in DOMAIN q : q[i].arg = a => i \in S
      /\ a = o => \A i \in S : q[i].arg # a
  BY DEF OnArg
<1> HIDE DEF S
<1>2. N(Keep(q, S), K, a) = IF a = o THEN 0 ELSE N(q, K, a)
  BY <1>1, NKeep
<1> QED
  BY <1>2 DEF stop_all, S

(* dealloc_obj of each object of F.                                        *)
LEMMA NFree ==
  ASSUME NEW q \in Seq(Timer), NEW F, NEW K, NEW a
  PROVE  N(Keep(q, {i \in DOMAIN q : q[i].arg \notin F}), K, a)
           = IF a \in F THEN 0 ELSE N(q, K, a)
<1> DEFINE S == {i \in DOMAIN q : q[i].arg \notin F}
<1>1. /\ S \in SUBSET DOMAIN q
      /\ a \notin F => \A i \in DOMAIN q : q[i].arg = a => i \in S
      /\ a \in F => \A i \in S : q[i].arg # a
  OBVIOUS
<1> HIDE DEF S
<1>2. N(Keep(q, S), K, a) = IF a \in F THEN 0 ELSE N(q, K, a)
  BY <1>1, NKeep
<1> QED
  BY <1>2 DEF S

(* There is none of o with the function f if their number is 0.            *)
LEMMA NMatches ==
  ASSUME NEW q \in Seq(Timer), NEW f, NEW o
  PROVE  Matches(q, f, o) = {} <=> N(q, Just(f), o) = 0
BY NPositive DEF Matches, Just

(* remove_timer takes one timer of o with the function f, if there is one. *)
LEMMA NRemove ==
  ASSUME NEW q \in Seq(Timer), NEW f, NEW o, NEW K, NEW a
  PROVE  N(remove_timer(q, f, o), K, a)
           = N(q, K, a) - IF f \in K /\ o = a /\ N(q, Just(f), o) # 0 THEN 1 ELSE 0
<1>1. CASE Matches(q, f, o) = {} /\ remove_timer(q, f, o) = q
  BY <1>1, NMatches, NType
<1>2. CASE \E i \in Matches(q, f, o) :
             Num(remove_timer(q, f, o), Of(K, a)) = Num(q, Of(K, a)) - IF q[i] \in Of(K, a) THEN 1 ELSE 0
  <2>1. PICK i \in Matches(q, f, o) :
             Num(remove_timer(q, f, o), Of(K, a)) = Num(q, Of(K, a)) - IF q[i] \in Of(K, a) THEN 1 ELSE 0
    BY <1>2
  <2>2. i \in DOMAIN q /\ q[i].func = f /\ q[i].arg = o /\ Matches(q, f, o) # {}
    BY DEF Matches
  <2>3. q[i] \in Timer
    BY <2>2, ElementOfSeq
  <2>4. q[i] \in Of(K, a) <=> f \in K /\ o = a
    BY <2>2, <2>3 DEF Of
  <2> QED BY <2>1, <2>2, <2>4, NMatches DEF N
<1> QED
  BY <1>1, <1>2, NumRemove

(* Taking the head off, as run_timers does.                                *)
LEMMA NTail ==
  ASSUME NEW q \in Seq(Timer), q # <<>>, NEW K, NEW a
  PROVE  N(q, K, a) = N(Tail(q), K, a)
                        + IF Head(q).func \in K /\ Head(q).arg = a THEN 1 ELSE 0
<1>1. Head(q) \in Timer
  BY HeadTailProperties
<1>2. Head(q) \in Of(K, a) <=> Head(q).func \in K /\ Head(q).arg = a
  BY <1>1 DEF Of
<1>3. N(q, K, a) = N(Tail(q), K, a) + IF Head(q) \in Of(K, a) THEN 1 ELSE 0
  BY NumTail DEF N
<1> QED
  BY <1>2, <1>3

(* One list after the other.                                               *)
LEMMA NConcat ==
  ASSUME NEW q \in Seq(Timer), NEW r \in Seq(Timer), NEW K, NEW a
  PROVE  N(q \o r, K, a) = N(q, K, a) + N(r, K, a)
BY NumConcat DEF N

(* obj_move_timers: dest, which had none, has the timers src had.          *)
LEMMA NMove ==
  ASSUME NEW q \in Seq(Timer), NEW src \in Obj, NEW dest \in Obj, src # dest,
         Count(q, dest) = 0, NEW K, NEW a
  PROVE  N(move_timers(q, src, dest), K, a)
           = IF a = dest THEN N(q, K, src) ELSE IF a = src THEN 0 ELSE N(q, K, a)
<1> DEFINE r == move_timers(q, src, dest)
<1>1. Len(q) \in Nat /\ DOMAIN q = 1 .. Len(q) /\ \A i \in DOMAIN q : q[i] \in Timer
  BY ElementOfSeq
<1>2. r = [i \in DOMAIN q |-> IF q[i].arg = src THEN [q[i] EXCEPT !.arg = dest] ELSE q[i]]
  BY DEF move_timers
<1> HIDE DEF r
<1>3. ASSUME NEW i \in DOMAIN q
      PROVE  /\ r[i] \in Timer /\ r[i].func = q[i].func
             /\ r[i].arg = IF q[i].arg = src THEN dest ELSE q[i].arg
  BY <1>1, <1>2 DEF Timer
<1>4. r \in Seq(Timer) /\ DOMAIN r = DOMAIN q
  BY <1>1, <1>2, <1>3, IsASeq
<1>5. \A i \in DOMAIN q : q[i].arg # dest
  BY CountPositive
<1> DEFINE b == IF a = dest THEN src ELSE a
<1>6. CASE a = src
  <2>1. \A i \in DOMAIN r : r[i].arg # a
    BY <1>3, <1>4, <1>6
  <2> QED BY <2>1, <1>4, <1>6, NPositive DEF r
<1>7. CASE a # src
  <2>1. \A i \in DOMAIN q : r[i] \in Of(K, a) <=> q[i] \in Of(K, b)
    <3> SUFFICES ASSUME NEW i \in DOMAIN q PROVE r[i] \in Of(K, a) <=> q[i] \in Of(K, b)
      OBVIOUS
    <3>1. q[i].arg # dest /\ q[i] \in Timer
      BY <1>1, <1>5
    <3> QED BY <3>1, <1>3, <1>7 DEF Of
  <2>2. Sel(r, Of(K, a)) = Sel(q, Of(K, b))
    BY <2>1, <1>4 DEF Sel
  <2>3. Num(r, Of(K, a)) = Num(q, Of(K, b))
    BY <2>2, Zenon DEF Num
  <2> QED BY <2>3, <1>7 DEF N, r
<1> QED
  BY <1>6, <1>7

(* obj_split_timers: what dest is given is what src has.                   *)
LEMMA NCopies ==
  ASSUME NEW q \in Seq(Timer), NEW src \in Obj, NEW dest \in Obj, src # dest,
         Count(q, dest) = 0, NEW K, NEW a
  PROVE  N(copies(q, src, dest), K, a) = IF a = dest THEN N(q, K, src) ELSE 0
<1> DEFINE r == move_timers(q, src, dest)
           S == OnArg(q, src)
<1>1. Len(q) \in Nat /\ DOMAIN q = 1 .. Len(q) /\ \A i \in DOMAIN q : q[i] \in Timer
  BY ElementOfSeq
<1>2. r = [i \in DOMAIN q |-> IF q[i].arg = src THEN [q[i] EXCEPT !.arg = dest] ELSE q[i]]
  BY DEF move_timers
<1>3. S \in SUBSET DOMAIN q /\ \A i \in DOMAIN q : i \in S <=> q[i].arg = src
  BY DEF OnArg
<1>4. N(r, K, dest) = N(q, K, src)
  BY NMove
<1> HIDE DEF r, S
<1>5. ASSUME NEW i \in DOMAIN q
      PROVE  r[i] \in Timer /\ r[i].arg = IF q[i].arg = src THEN dest ELSE q[i].arg
  BY <1>1, <1>2 DEF Timer
<1>6. r \in Seq(Timer) /\ DOMAIN r = DOMAIN q
  BY <1>1, <1>2, <1>5, IsASeq
<1>7. \A i \in DOMAIN q : q[i].arg # dest
  BY CountPositive
<1>8. \A i \in DOMAIN r : r[i].arg = dest <=> i \in S
  BY <1>3, <1>5, <1>6, <1>7
<1>9. N(Keep(r, S), K, a) = IF a = dest THEN N(r, K, a) ELSE 0
  BY <1>3, <1>6, <1>8, NKeep
<1> QED
  BY <1>4, <1>9 DEF copies, r, S

-----------------------------------------------------------------------------
(* Where owners are.                                                       *)

(* The operators take places and monsters as arguments, so that they speak *)
(* of the state after a step as well as of the one before it.              *)

(* The place of the outermost container, or of what is in none.            *)
Outer(o, pl) == pl[IF pl[o].at = "contained" THEN pl[o].by ELSE o]

(* A monster on the level l; a place on it; a place that goes where the    *)
(* hero, who is on u, goes; either one.                                    *)
MonsterOn(m, l, mp) == mp[m] \in {OnLevel(l), Dying(l)}
PlaceOn(p, l, mp)   == p \in {Floor(l), Buried(l)} \/ (p.at = "minvent" /\ MonsterOn(p.by, l, mp))
PlaceGoes(p, mp)    == \/ p.at \in {"invent", "migrating", "trailing"}
                       \/ p.at = "minvent" /\ mp[p.by].at = "migrating"
PlaceHere(p, u, mp) == PlaceOn(p, u, mp) \/ PlaceGoes(p, mp)

(* In memory, with the hero on the level uz; on a level that is in a file. *)
Here(a) == LocalTo(a, uz) \/ Global(a)
Away(a) == \E l \in Level \ {uz} : LocalTo(a, l)

(* The owners of a kind of place are the objects whose outermost place it is. *)
LEMMA OwnersPlace ==
  ASSUME NEW o \in Obj
  PROVE  /\ \A l : LocalTo(o, l) <=> PlaceOn(Outer(o, place), l, mplace)
         /\ Global(o) <=> PlaceGoes(Outer(o, place), mplace)
         /\ Here(o) <=> PlaceHere(Outer(o, place), uz, mplace)
<1>1. o \notin Mon
  BY OwnersDistinct
<1> QED
  BY <1>1 DEF LocalTo, Global, PlaceOn, PlaceGoes, PlaceHere, Outer, Here, Outermost,
              MonOn, MonInLimbo, MonsterOn

(* The same after a step.                                                  *)
LEMMA OwnersPlaceNext ==
  ASSUME NEW o \in Obj
  PROVE  /\ \A l \in Level : LocalTo(o, l)' <=> PlaceOn(Outer(o, place'), l, mplace')
         /\ Global(o)' <=> PlaceGoes(Outer(o, place'), mplace')
         /\ Here(o)' <=> PlaceHere(Outer(o, place'), uz', mplace')
<1>1. o \notin Mon
  BY OwnersDistinct
<1> QED
  BY <1>1 DEF LocalTo, Global, PlaceOn, PlaceGoes, PlaceHere, Outer, Here, Outermost,
              MonOn, MonInLimbo, MonsterOn

(* And for monsters.                                                       *)
LEMMA MonsterOwners ==
  ASSUME NEW m \in Mon
  PROVE  /\ \A l : LocalTo(m, l) <=> MonsterOn(m, l, mplace)
         /\ \A l \in Level : LocalTo(m, l)' <=> MonsterOn(m, l, mplace')
         /\ Global(m) <=> mplace[m].at = "migrating"
         /\ Global(m)' <=> mplace'[m].at = "migrating"
         /\ Here(m) <=> MonsterOn(m, uz, mplace) \/ mplace[m].at = "migrating"
         /\ Here(m)' <=> MonsterOn(m, uz', mplace') \/ mplace'[m].at = "migrating"
BY DEF LocalTo, Global, Here, MonOn, MonInLimbo, MonsterOn

(* A monster is on one level, or on none.                                  *)
LEMMA OneLevel ==
  ASSUME NEW mp, NEW m, NEW k \in Level, MonsterOn(m, k, mp)
  PROVE  mp[m].at # "migrating" /\ \A l \in Level : MonsterOn(m, l, mp) => k = l
BY DEF MonsterOn, OnLevel, Dying, At

(* So is a place, and what is gone is nowhere.                             *)
LEMMA OnePlace ==
  ASSUME NEW mp, NEW p, NEW k \in Level
  PROVE  /\ PlaceOn(p, k, mp) => ~PlaceGoes(p, mp)
         /\ \A l \in Level : PlaceOn(p, k, mp) /\ PlaceOn(p, l, mp) => k = l
         /\ ~PlaceOn(Gone, k, mp) /\ ~PlaceGoes(Gone, mp)
<1>1. ASSUME p \in {Floor(k), Buried(k)}
      PROVE  /\ ~PlaceGoes(p, mp)
             /\ \A l \in Level : PlaceOn(p, l, mp) => k = l
  BY <1>1 DEF PlaceOn, PlaceGoes, Floor, Buried, At
<1>2. ASSUME p.at = "minvent", MonsterOn(p.by, k, mp)
      PROVE  /\ ~PlaceGoes(p, mp)
             /\ \A l \in Level : PlaceOn(p, l, mp) => k = l
  BY <1>2, OneLevel DEF PlaceOn, PlaceGoes, Floor, Buried, At
<1>3. ~PlaceOn(Gone, k, mp) /\ ~PlaceGoes(Gone, mp)
  BY DEF PlaceOn, PlaceGoes, Gone, Floor, Buried, At
<1> QED
  BY <1>1, <1>2, <1>3 DEF PlaceOn

(* An owner is in memory, or on one level that is away, or neither.        *)
LEMMA HereOrAway ==
  ASSUME NEW a \in Owners, uz \in Level
  PROVE  /\ Here(a) => ~Away(a)
         /\ \A k, l \in Level : LocalTo(a, k) /\ LocalTo(a, l) => k = l
<1>1. CASE a \in Mon
  BY <1>1, OneLevel, MonsterOwners DEF Here, Away
<1>2. CASE a \in Obj
  BY <1>2, OwnersPlace, OnePlace DEF PlaceHere, Away
<1> QED
  BY <1>1, <1>2 DEF Owners

-----------------------------------------------------------------------------
(* The invariant.                                                          *)

(* Boxes do not hold boxes, and only monsters carry.                       *)
Shape ==
  \A o \in Obj :
    /\ place[o].at = "contained" => place[o].by \in Boxes /\ o \notin Boxes
    /\ place[o].at = "minvent" => place[o].by \in Mon

(* What is in the files is not in memory as well.                          *)
Storage ==
  /\ phase # "saved" => gsave = <<>> /\ file[uz] = <<>>
  /\ phase = "saved" => timer_base = <<>> /\ todo = <<>>

(* A dying monster has no timers, and its objects are dropped before       *)
(* anything else happens.                                                  *)
Dropping ==
  \A m \in Mon : mplace[m].at = "dying" =>
    /\ todo = <<>> /\ phase \in {"play", "run", "arrive"}
    /\ Count(timer_base, m) = 0

(* KeptWithOwner, by numbers.                                              *)
Kept ==
  \A a \in Owners :
    /\ Count(timer_base, a) > 0 => Here(a)
    /\ Count(todo, a) > 0 => Here(a)
    /\ Count(gsave, a) > 0 => Global(a)
    /\ \A l \in Level : Count(file[l], a) > 0 => LocalTo(a, l)

(* The timers of an object that are started and not away: those of a level *)
(* that is being read are counted already.                                 *)
Live(o) ==
  Count(timer_base, o) + (IF Restoring THEN Count(todo, o) ELSE 0)
    + Count(gsave, o) + Count(file[uz], o)

(* obj->timed counts them.                                                 *)
Counted ==
  \A o \in Obj :
    /\ ~Away(o) => timed[o] = Live(o)
    /\ \A l \in Level \ {uz} : LocalTo(o, l) => timed[o] = Count(file[l], o)

OwnInv == IInv /\ Shape /\ Storage /\ Dropping /\ Kept /\ Counted

(* Facts about the lists of a state of the right type.                     *)
LEMMA ListTypes ==
  ASSUME IInv
  PROVE  /\ timer_base \in Seq(Timer) /\ todo \in Seq(Timer) /\ gsave \in Seq(Timer)
         /\ \A l \in Level : file[l] \in Seq(Timer)
         /\ uz \in Level
BY DEF IInv, ObjectsOK, Queue, FilesOK, LoopOK

(* Kept is KeptWithOwner.                                                  *)
LEMMA KeptMeaning ==
  ASSUME IInv
  PROVE  Kept <=> KeptWithOwner
<1>1. ASSUME NEW q \in Seq(Timer), NEW i \in DOMAIN q PROVE q[i].arg \in Owners
  <2>1. q[i] \in Timer
    BY ElementOfSeq
  <2> QED BY <2>1 DEF Timer, Owners
<1>2. ASSUME Kept PROVE KeptWithOwner
  <2>1. ASSUME NEW i \in DOMAIN timer_base PROVE Here(timer_base[i].arg)
    BY <1>1, <1>2, ListTypes, CountPositive DEF Kept
  <2>2. ASSUME NEW i \in DOMAIN todo PROVE Here(todo[i].arg)
    BY <1>1, <1>2, ListTypes, CountPositive DEF Kept
  <2>3. ASSUME NEW i \in DOMAIN gsave PROVE Global(gsave[i].arg)
    BY <1>1, <1>2, ListTypes, CountPositive DEF Kept
  <2>4. ASSUME NEW l \in Level, NEW i \in DOMAIN file[l] PROVE LocalTo(file[l][i].arg, l)
    BY <1>1, <1>2, ListTypes, CountPositive DEF Kept
  <2> QED BY <2>1, <2>2, <2>3, <2>4 DEF KeptWithOwner, Here
<1>3. ASSUME KeptWithOwner, NEW a \in Owners
      PROVE  /\ Count(timer_base, a) > 0 => Here(a)
             /\ Count(todo, a) > 0 => Here(a)
             /\ Count(gsave, a) > 0 => Global(a)
             /\ \A l \in Level : Count(file[l], a) > 0 => LocalTo(a, l)
  <2>1. Count(timer_base, a) > 0 => Here(a)
    BY <1>3, ListTypes, CountPositive DEF KeptWithOwner, Here
  <2>2. Count(todo, a) > 0 => Here(a)
    BY <1>3, ListTypes, CountPositive DEF KeptWithOwner, Here
  <2>3. Count(gsave, a) > 0 => Global(a)
    BY <1>3, ListTypes, CountPositive DEF KeptWithOwner
  <2>4. ASSUME NEW l \in Level PROVE Count(file[l], a) > 0 => LocalTo(a, l)
    BY <1>3, ListTypes, CountPositive DEF KeptWithOwner
  <2> QED BY <2>1, <2>2, <2>3, <2>4
<1> QED
  BY <1>2, <1>3 DEF Kept

-----------------------------------------------------------------------------
(* Steps that touch no file.                                               *)

(* Such a step keeps OwnInv if it keeps what is away where it is, and the  *)
(* books of what is not.                                                   *)
LEMMA QuietStep ==
  ASSUME OwnInv, IInv', Shape', Dropping', UNCHANGED <<uz, file, gsave>>,
         phase # "saved", phase' # "saved",
         \A a \in Owners, l \in Level \ {uz} : LocalTo(a, l)' <=> LocalTo(a, l),
         \A a \in Owners : Count(timer_base', a) > 0 \/ Count(todo', a) > 0 => Here(a)',
         \A o \in Obj :
           timed'[o] = IF Away(o) THEN timed[o]
                       ELSE Count(timer_base', o) + IF phase' \in {"getlev", "restore"} THEN Count(todo', o) ELSE 0
  PROVE  OwnInv'
<1>1. gsave = <<>> /\ file[uz] = <<>> /\ uz \in Level
  BY ListTypes DEF OwnInv, Storage
<1>2. Storage'
  BY <1>1 DEF Storage
<1>3. \A a : Count(<<>>, a) = 0
  BY NEmpty DEF Count
<1>4. Kept'
  <2>1. ASSUME NEW a \in Owners, NEW l \in Level, Count(file[l], a) > 0 PROVE LocalTo(a, l)'
    <3>1. l # uz /\ LocalTo(a, l)
      BY <1>1, <1>3, <2>1 DEF OwnInv, Kept
    <3> QED BY <3>1
  <2>2. \A a \in Owners : ~(Count(gsave', a) > 0)
    BY <1>1, <1>3
  <2>3. \A a \in Owners : (Count(timer_base', a) > 0 => Here(a)') /\ (Count(todo', a) > 0 => Here(a)')
    OBVIOUS
  <2>4. \A a \in Owners, l \in Level : Count(file'[l], a) > 0 => LocalTo(a, l)'
    BY <2>1
  <2> QED BY <2>2, <2>3, <2>4 DEF Kept
<1>5. ASSUME NEW o \in Obj
      PROVE  /\ ~Away(o)' => timed'[o] = Live(o)'
             /\ \A l \in Level \ {uz'} : LocalTo(o, l)' => timed'[o] = Count(file'[l], o)
  <2>1. o \in Owners
    BY DEF Owners
  <2>2. Away(o)' <=> Away(o)
    BY <2>1, <1>1 DEF Away
  <2>3. Live(o)' = Count(timer_base', o) + IF phase' \in {"getlev", "restore"} THEN Count(todo', o) ELSE 0
    <3>1. Count(gsave', o) = 0 /\ Count(file'[uz'], o) = 0
      BY <1>1, <1>3
    <3>2. Count(timer_base', o) \in Nat /\ Count(todo', o) \in Nat
      <4>1. timer_base' \in Seq(Timer) /\ todo' \in Seq(Timer)
        BY DEF IInv, ObjectsOK, Queue, LoopOK
      <4> QED BY <4>1, CountPositive
    <3> QED BY <3>1, <3>2 DEF Live, Restoring
  <2>4. ASSUME NEW l \in Level \ {uz}, LocalTo(o, l)' PROVE timed'[o] = Count(file[l], o)
    <3>1. LocalTo(o, l) /\ Away(o)
      BY <2>1, <2>4 DEF Away
    <3> QED BY <3>1 DEF OwnInv, Counted
  <2> QED BY <2>2, <2>3, <2>4
<1>6. Counted'
  BY <1>5 DEF Counted
<1> QED
  BY <1>2, <1>4, <1>6 DEF OwnInv

(* What is away stays away if objects are moved from and to memory only.   *)
LEMMA StaysAway ==
  ASSUME Shape, Shape', uz \in Level, uz' = uz, NEW o \in Obj,
         \A m \in Mon, l \in Level \ {uz} : MonsterOn(m, l, mplace') <=> MonsterOn(m, l, mplace),
         \/ Outer(o, place') = Outer(o, place)
         \/ /\ Outer(o, place) = Gone \/ PlaceHere(Outer(o, place), uz, mplace)
            /\ Outer(o, place') = Gone \/ PlaceHere(Outer(o, place'), uz, mplace')
  PROVE  \A l \in Level \ {uz} : LocalTo(o, l)' <=> LocalTo(o, l)
<1> SUFFICES ASSUME NEW l \in Level \ {uz} PROVE LocalTo(o, l)' <=> LocalTo(o, l)
  OBVIOUS
<1>1. /\ LocalTo(o, l) <=> PlaceOn(Outer(o, place), l, mplace)
      /\ LocalTo(o, l)' <=> PlaceOn(Outer(o, place'), l, mplace')
  BY OwnersPlace, OwnersPlaceNext
<1>2. CASE Outer(o, place') = Outer(o, place)
  <2> DEFINE p == Outer(o, place)
  <2>1. p.at = "minvent" => p.by \in Mon
    BY DEF Shape, Outer, Boxes, Obj
  <2> HIDE DEF p
  <2>2. PlaceOn(p, l, mplace') <=> PlaceOn(p, l, mplace)
    BY <2>1 DEF PlaceOn
  <2> QED BY <1>1, <1>2, <2>2 DEF p
<1>3. ASSUME NEW p, NEW mp, p = Gone \/ PlaceHere(p, uz, mp)
      PROVE  ~PlaceOn(p, l, mp)
  BY <1>3, OnePlace DEF PlaceHere
<1> QED
  BY <1>1, <1>2, <1>3

(* So a step keeps OwnInv if the objects it touches, O, are in memory and  *)
(* stay there or are freed with their timers, and it keeps the books.      *)
LEMMA TouchStep ==
  ASSUME OwnInv, IInv', Shape', Dropping', unchangedWorld, phase' = phase,
         phase # "saved", todo = <<>>, phase \in {"getlev", "restore"} => todo' = <<>>,
         NEW O \in SUBSET Obj,
         \A m \in Mon, l \in Level \ {uz} : MonsterOn(m, l, mplace') <=> MonsterOn(m, l, mplace),
         \A m \in Mon : Count(timer_base', m) > 0 => Here(m)',
         \A a \in Owners : Count(todo', a) > 0 => Here(a)',
         \A x \in Obj \ O :
           /\ Outer(x, place') = Outer(x, place)
           /\ PlaceHere(Outer(x, place), uz, mplace) => PlaceHere(Outer(x, place), uz, mplace')
           /\ Count(timer_base', x) > 0 => Count(timer_base, x) > 0,
         \A x \in O :
           /\ Outer(x, place) = Gone \/ PlaceHere(Outer(x, place), uz, mplace)
           /\ \/ Outer(x, place') = Gone /\ Count(timer_base', x) = 0
              \/ PlaceHere(Outer(x, place'), uz, mplace'),
         \A x \in Obj : timed'[x] - Count(timer_base', x) = timed[x] - Count(timer_base, x)
  PROVE  OwnInv'
<1>1. gsave = <<>> /\ file[uz] = <<>> /\ uz \in Level /\ uz' = uz /\ UNCHANGED <<file, gsave>>
  BY ListTypes DEF OwnInv, Storage, unchangedWorld
<1>2. \A a : Count(<<>>, a) = 0
  BY NEmpty DEF Count
<1>3. ASSUME NEW a \in Owners
      PROVE  /\ Count(timer_base, a) \in Nat /\ Count(timer_base', a) \in Nat
             /\ Count(todo', a) \in Nat
  <2>1. timer_base \in Seq(Timer) /\ timer_base' \in Seq(Timer) /\ todo' \in Seq(Timer)
    BY DEF OwnInv, IInv, ObjectsOK, Queue, LoopOK
  <2> QED BY <2>1, CountPositive
<1>4. ASSUME NEW a \in Owners, NEW l \in Level \ {uz} PROVE LocalTo(a, l)' <=> LocalTo(a, l)
  <2>1. CASE a \in Mon
    BY <2>1, MonsterOwners
  <2>2. CASE a \in Obj
    BY <2>2, <1>1, StaysAway DEF OwnInv
  <2> QED BY <2>1, <2>2 DEF Owners
<1>5. ASSUME NEW a \in Owners, Count(timer_base', a) > 0 PROVE Here(a)'
  <2>1. CASE a \in Mon
    BY <2>1, <1>5
  <2>2. CASE a \in O
    <3>1. PlaceHere(Outer(a, place'), uz, mplace')
      BY <2>2, <1>5
    <3> QED BY <3>1, <2>2, <1>1, OwnersPlaceNext
  <2>3. CASE a \in Obj \ O
    <3>1. Here(a)
      BY <2>3, <1>5 DEF OwnInv, Kept
    <3>2. PlaceHere(Outer(a, place), uz, mplace)
      BY <3>1, <2>3, OwnersPlace
    <3> QED BY <3>2, <2>3, <1>1, OwnersPlaceNext
  <2> QED BY <2>1, <2>2, <2>3 DEF Owners
<1>6. ASSUME NEW o \in Obj
      PROVE  timed'[o] = IF Away(o) THEN timed[o]
                         ELSE Count(timer_base', o) + IF phase' \in {"getlev", "restore"} THEN Count(todo', o) ELSE 0
  <2>1. o \in Owners /\ timed[o] \in Int /\ timed'[o] \in Int
    BY DEF Owners, OwnInv, IInv, ObjectsOK
  <2>2. /\ Count(timer_base, o) \in Nat /\ Count(timer_base', o) \in Nat
        /\ Count(todo, o) = 0 /\ Count(gsave, o) = 0 /\ Count(file[uz], o) = 0
        /\ phase' \in {"getlev", "restore"} => Count(todo', o) = 0
    BY <2>1, <1>1, <1>2, <1>3
  <2>3. CASE ~Away(o)
    <3>1. timed[o] = Count(timer_base, o)
      BY <2>2, <2>3 DEF OwnInv, Counted, Live, Restoring
    <3> QED BY <3>1, <2>1, <2>2, <2>3
  <2>4. CASE Away(o)
    <3>1. ~Here(o)
      BY <2>1, <2>4, <1>1, HereOrAway
    <3>2. ~(Count(timer_base, o) > 0)
      BY <2>1, <3>1 DEF OwnInv, Kept
    <3>3. ~Here(o)'
      <4>1. PICK l \in Level \ {uz} : LocalTo(o, l)'
        BY <2>1, <2>4, <1>4 DEF Away
      <4>2. PlaceOn(Outer(o, place'), l, mplace')
        BY <4>1, OwnersPlaceNext
      <4>3. ~PlaceHere(Outer(o, place'), uz, mplace')
        BY <4>2, <1>1, OnePlace DEF PlaceHere
      <4> QED BY <4>3, <1>1, OwnersPlaceNext
    <3>4. ~(Count(timer_base', o) > 0)
      BY <2>1, <3>3, <1>5
    <3> QED BY <3>2, <3>4, <2>1, <2>2, <2>4
  <2> QED BY <2>3, <2>4
<1> QED
  BY <1>1, <1>4, <1>5, <1>6, QuietStep

-----------------------------------------------------------------------------
(* Freeing and settling objects.                                           *)

(* What obfree does.                                                       *)
LEMMA ObfreeEffect ==
  ASSUME NEW S, NEW pl \in [Obj -> Place], NEW q \in Queue, NEW tm, obfree(S, pl, q, tm)
  PROVE  /\ \A K, a : N(timer_base', K, a) = IF a \in Freed(S, pl) THEN 0 ELSE N(q, K, a)
         /\ \A x \in Obj : /\ timed'[x] = IF x \in Freed(S, pl) THEN 0 ELSE tm[x]
                           /\ place'[x] = IF x \in Freed(S, pl) THEN Gone ELSE pl[x]
<1>1. timer_base' = Keep(q, {i \in DOMAIN q : q[i].arg \notin Freed(S, pl)})
  BY DEF obfree
<1>2. \A K, a : N(timer_base', K, a) = IF a \in Freed(S, pl) THEN 0 ELSE N(q, K, a)
  BY <1>1, NFree DEF Queue
<1> QED
  BY <1>2 DEF obfree

(* What is in a box is in a box.                                           *)
LEMMA InABox ==
  ASSUME Shape, NEW x \in Obj, NEW b, place[x] = In(b)
  PROVE  b \in Boxes /\ x \notin Boxes /\ place[x].at = "contained" /\ place[x].by = b
BY DEF Shape, In, At

(* What Settle does: o comes to p, or is freed, all alone.                 *)
LEMMA SettleEffect ==
  ASSUME IInv, Shape, NEW o \in Obj, NEW n, NEW p, NEW q \in Queue, NEW tm, Settle(o, n, p, q, tm)
  PROVE  \E F \in {{}, {o}} :
           /\ o \in F => o \notin Boxes
           /\ \A K, a : N(timer_base', K, a) = IF a \in F THEN 0 ELSE N(q, K, a)
           /\ \A x \in Obj : timed'[x] = IF x \in F THEN 0 ELSE tm[x]
           /\ place'[o] = IF o \in F THEN Gone ELSE p
           /\ \A x \in Obj \ {o} : place'[x] = place[x]
<1>1. CASE place' = [place EXCEPT ![o] = p] /\ timer_base' = q /\ timed' = tm
  BY <1>1, InvUnfolded
<1>2. CASE \E o2 \in Obj : mergable(o, o2, q, tm) /\ obfree({o}, place, q, tm)
  <2>1. o \notin Boxes
    BY <1>2 DEF mergable
  <2>2. Freed({o}, place) = {o}
    BY <2>1, InABox DEF Freed
  <2> DEFINE F == {o}
  <2>3. F \in {{}, {o}} /\ \A x : x \in F <=> x = o
    OBVIOUS
  <2> HIDE DEF F
  <2>4. \A x : x \in F <=> x \in Freed({o}, place)
    BY <2>2, <2>3
  <2>5. place \in [Obj -> Place] /\ obfree({o}, place, q, tm)
    BY <1>2, InvUnfolded
  <2>6. /\ \A K, a : N(timer_base', K, a) = IF a \in F THEN 0 ELSE N(q, K, a)
        /\ \A x \in Obj : /\ timed'[x] = IF x \in F THEN 0 ELSE tm[x]
                          /\ place'[x] = IF x \in F THEN Gone ELSE place[x]
    BY <2>4, <2>5, ObfreeEffect
  <2> QED BY <2>1, <2>3, <2>6
<1> QED
  BY <1>1, <1>2 DEF Settle

(* The count of an object in memory, or gone, is that of the list.         *)
LEMMA NearCounted ==
  ASSUME OwnInv, phase # "saved", todo = <<>>, NEW o \in Obj,
         Outer(o, place) = Gone \/ PlaceHere(Outer(o, place), uz, mplace)
  PROVE  timed[o] = Count(timer_base, o) /\ timed[o] \in Nat
<1>1. uz \in Level /\ Count(timer_base, o) \in Nat
  BY ListTypes, CountPositive DEF OwnInv
<1>2. ~Away(o)
  <2>1. ~\E l \in Level \ {uz} : PlaceOn(Outer(o, place), l, mplace)
    BY <1>1, OnePlace DEF PlaceHere
  <2> QED BY <2>1, OwnersPlace DEF Away
<1>3. Count(todo, o) = 0 /\ Count(gsave, o) = 0 /\ Count(file[uz], o) = 0
  BY NEmpty DEF Count, OwnInv, Storage
<1> QED
  BY <1>1, <1>2, <1>3 DEF OwnInv, Counted, Live

(* The queue q and the counts tm, when only timers of o were started and   *)
(* stopped, with their count.                                              *)
Books(q, tm, o) ==
  /\ q \in Queue /\ tm \in [Obj -> Int]
  /\ \A a \in Owners \ {o} : Count(q, a) = Count(timer_base, a)
  /\ \A x \in Obj \ {o} : tm[x] = timed[x]
  /\ tm[o] - Count(q, o) = timed[o] - Count(timer_base, o)

(* A place in memory where an object can be, in a box or not.              *)
GoodPlace(o, p, mp) ==
  \/ p.at # "contained" /\ PlaceHere(p, uz, mp) /\ (p.at = "minvent" => p.by \in Mon)
  \/ \E b \in Boxes : p = In(b) /\ o \notin Boxes /\ PlaceHere(place[b], uz, mp)

(* An object that comes to a place in memory, and may merge there.         *)
LEMMA SettleStep ==
  ASSUME OwnInv, IInv', Dropping', unchangedWorld, unchangedLoop, phase # "saved", todo = <<>>,
         NEW o \in Obj, NEW n, NEW p, NEW q, NEW tm, Settle(o, n, p, q, tm), Books(q, tm, o),
         \A m \in Mon, l \in Level \ {uz} : MonsterOn(m, l, mplace') <=> MonsterOn(m, l, mplace),
         \A m \in Mon : Count(timer_base, m) > 0 => Here(m)',
         \A x \in Obj \ {o} : PlaceHere(place[x], uz, mplace) => PlaceHere(place[x], uz, mplace'),
         Outer(o, place) = Gone \/ PlaceHere(Outer(o, place), uz, mplace),
         GoodPlace(o, p, mplace')
  PROVE  OwnInv'
<1>1. IInv /\ Shape /\ uz \in Level /\ o \notin Mon
  BY ListTypes, OwnersDistinct DEF OwnInv
<1>2. PICK F \in {{}, {o}} :
           /\ o \in F => o \notin Boxes
           /\ \A K, a : N(timer_base', K, a) = IF a \in F THEN 0 ELSE N(q, K, a)
           /\ \A x \in Obj : timed'[x] = IF x \in F THEN 0 ELSE tm[x]
           /\ place'[o] = IF o \in F THEN Gone ELSE p
           /\ \A x \in Obj \ {o} : place'[x] = place[x]
  BY <1>1, SettleEffect DEF Books
<1>3. Gone.at = "free" /\ \A b : In(b).at = "contained" /\ In(b).by = b
  BY DEF Gone, In, At
<1>4. \A a : Count(timer_base', a) = IF a \in F THEN 0 ELSE Count(q, a)
  BY <1>2 DEF Count
<1>5. Shape'
  BY <1>1, <1>2, <1>3 DEF Shape, GoodPlace
<1> DEFINE O == {o} \cup {x \in Obj : place[x].at = "contained" /\ place[x].by = o}
<1>6. ASSUME NEW x \in Obj, x \notin O
      PROVE  /\ Outer(x, place') = Outer(x, place)
             /\ PlaceHere(Outer(x, place), uz, mplace) => PlaceHere(Outer(x, place), uz, mplace')
             /\ Count(timer_base', x) > 0 => Count(timer_base, x) > 0
  <2>1. x # o /\ place'[x] = place[x] /\ x \in Owners /\ x \notin F
    BY <1>2, <1>6 DEF Owners
  <2>2. CASE place[x].at # "contained"
    BY <2>1, <2>2, <1>4, <1>6 DEF Outer, Books
  <2>3. CASE place[x].at = "contained"
    <3>1. place[x].by \in Obj /\ place[x].by # o
      BY <2>3, <1>1, <1>6 DEF Shape, Boxes, Obj
    <3> QED BY <2>1, <2>3, <3>1, <1>2, <1>4 DEF Outer, Books
  <2> QED BY <2>2, <2>3
<1>7. \/ Outer(o, place') = Gone /\ o \in F
      \/ PlaceHere(Outer(o, place'), uz, mplace') /\ o \notin F
  <2>1. CASE o \in F
    BY <2>1, <1>2, <1>3 DEF Outer
  <2>2. CASE o \notin F /\ p.at # "contained"
    BY <2>2, <1>2, <1>3 DEF Outer, GoodPlace
  <2>3. CASE o \notin F /\ p.at = "contained"
    <3>1. PICK b \in Boxes : p = In(b) /\ o \notin Boxes /\ PlaceHere(place[b], uz, mplace')
      BY <2>3, <1>1 DEF GoodPlace
    <3>2. b # o /\ b \in Obj
      BY <3>1 DEF Boxes, Obj
    <3> QED BY <2>3, <3>1, <3>2, <1>2, <1>3 DEF Outer
  <2> QED BY <2>1, <2>2, <2>3
<1>8. ASSUME NEW x \in O
      PROVE  /\ Outer(x, place) = Gone \/ PlaceHere(Outer(x, place), uz, mplace)
             /\ \/ Outer(x, place') = Gone /\ Count(timer_base', x) = 0
                \/ PlaceHere(Outer(x, place'), uz, mplace')
  <2>1. CASE x = o
    BY <2>1, <1>4, <1>7
  <2>2. CASE x # o
    <3>1. x \in Obj /\ place[x].at = "contained" /\ place[x].by = o /\ place'[x] = place[x] /\ o \in Boxes
      BY <2>2, <1>1, <1>2 DEF Shape
    <3>2. o \notin F /\ place'[o].at # "contained" /\ place[o].at # "contained"
      BY <3>1, <1>1, <1>2, <1>3 DEF GoodPlace, Shape
    <3>3. Outer(x, place) = Outer(o, place) /\ Outer(x, place') = Outer(o, place')
      BY <3>1, <3>2 DEF Outer
    <3> QED BY <3>2, <3>3, <1>7
  <2> QED BY <2>1, <2>2
<1>9. ASSUME NEW x \in Obj
      PROVE  timed'[x] - Count(timer_base', x) = timed[x] - Count(timer_base, x)
  <2>1. x \in Owners /\ o \in Owners
    BY DEF Owners
  <2>2. CASE x \notin F
    BY <2>1, <2>2, <1>2, <1>4 DEF Books
  <2>3. CASE x \in F
    <3>3. timed[o] = Count(timer_base, o)
      BY NearCounted
    <3>4. x = o /\ timed'[o] = 0 /\ Count(timer_base', o) = 0
      BY <2>3, <1>2, <1>4
    <3>5. timed[o] \in Int
      BY <1>1, InvUnfolded
    <3> QED BY <3>3, <3>4, <3>5
  <2> QED BY <2>2, <2>3
<1>10. \A m \in Mon : Count(timer_base', m) > 0 => Here(m)'
  <2>1. \A m \in Mon : m \in Owners \ {o} /\ m \notin F
    BY <1>1, <1>2 DEF Owners
  <2> QED BY <2>1, <1>4 DEF Books
<1>11. \A a \in Owners : ~(Count(todo', a) > 0)
  BY NEmpty DEF Count, unchangedLoop
<1> HIDE DEF O
<1>12. O \in SUBSET Obj
  BY DEF O
<1> QED
  BY <1>5, <1>6, <1>8, <1>9, <1>10, <1>11, <1>12, TouchStep DEF unchangedLoop

(* What may be freed: S, with its contents, after moves from place to pl,  *)
(* with the queue q and the counts tm.  O are the objects touched, with    *)
(* what is in them; what is not freed ends in memory.                      *)
Freeable(S, pl, q, tm, O) ==
  /\ pl \in [Obj -> Place] /\ q \in Queue /\ tm \in [Obj -> Int]
  /\ O \in SUBSET Obj /\ S \subseteq O
  /\ \A x \in Obj : place[x].at = "contained" /\ place[x].by \in O => x \in O
  /\ \A x \in Obj \ O : pl[x] = place[x] /\ Count(q, x) = Count(timer_base, x)
  /\ \A x \in O : Outer(x, place) = Gone \/ PlaceHere(Outer(x, place), uz, mplace)
  /\ \A x \in O : x \notin Freed(S, pl) => PlaceHere(Outer(x, pl), uz, mplace')
  /\ \A x \in Obj : /\ pl[x].at = "contained" => pl[x].by \in Boxes /\ x \notin Boxes
                    /\ pl[x].at = "minvent" => pl[x].by \in Mon
  /\ \A x \in Obj : tm[x] - Count(q, x) = timed[x] - Count(timer_base, x)
  /\ \A m \in Mon : Count(q, m) > 0 => Here(m)'

(* Monsters elsewhere stay as they are, and what monsters here carry stays *)
(* in memory.                                                              *)
MonstersStay ==
  /\ \A m \in Mon, l \in Level \ {uz} : MonsterOn(m, l, mplace') <=> MonsterOn(m, l, mplace)
  /\ \A x \in Obj : PlaceHere(place[x], uz, mplace) => PlaceHere(place[x], uz, mplace')

(* Objects that are freed, with what is in them; others may be moved first.*)
LEMMA FreeStep ==
  ASSUME OwnInv, IInv', Dropping', unchangedWorld, phase' = phase, phase # "saved", todo = <<>>,
         phase \in {"getlev", "restore"} => todo' = <<>>,
         NEW S, NEW pl, NEW q, NEW tm, NEW O, Freeable(S, pl, q, tm, O),
         obfree(S, pl, q, tm), MonstersStay,
         \A a \in Owners : Count(todo', a) > 0 => Here(a)'
  PROVE  OwnInv'
<1>a. pl \in [Obj -> Place] /\ q \in Queue /\ tm \in [Obj -> Int] /\ O \in SUBSET Obj /\ S \subseteq O
  BY DEF Freeable
<1>b. \A x \in Obj \ O : pl[x] = place[x] /\ Count(q, x) = Count(timer_base, x)
  BY DEF Freeable
<1>c. \A x \in O : Outer(x, place) = Gone \/ PlaceHere(Outer(x, place), uz, mplace)
  BY DEF Freeable
<1>d. \A x \in O : x \notin Freed(S, pl) => PlaceHere(Outer(x, pl), uz, mplace')
  BY DEF Freeable
<1>e. \A x \in Obj : /\ pl[x].at = "contained" => pl[x].by \in Boxes /\ x \notin Boxes
                     /\ pl[x].at = "minvent" => pl[x].by \in Mon
  BY DEF Freeable
<1>f. \A x \in Obj : tm[x] - Count(q, x) = timed[x] - Count(timer_base, x)
  BY DEF Freeable
<1>g. \A m \in Mon : Count(q, m) > 0 => Here(m)'
  BY DEF Freeable
<1>h. \A x \in Obj : place[x].at = "contained" /\ place[x].by \in O => x \in O
  BY DEF Freeable
<1> DEFINE F == Freed(S, pl)
<1>1. /\ \A K, a : N(timer_base', K, a) = IF a \in F THEN 0 ELSE N(q, K, a)
      /\ \A x \in Obj : /\ timed'[x] = IF x \in F THEN 0 ELSE tm[x]
                        /\ place'[x] = IF x \in F THEN Gone ELSE pl[x]
  BY <1>a, ObfreeEffect
<1>2. \A x : x \in F <=> x \in S \/ (x \in Obj /\ pl[x].at = "contained" /\ pl[x].by \in S)
  <2>1. ASSUME NEW x \in Obj, NEW b PROVE pl[x] = In(b) <=> pl[x].at = "contained" /\ pl[x].by = b
    <3>1. pl[x] \in Place
      BY <1>a
    <3> QED BY <3>1 DEF Place, In, At
  <2> QED BY <2>1 DEF Freed
<1> HIDE DEF F
<1>3. IInv /\ Shape /\ uz \in Level /\ Gone.at = "free"
  BY ListTypes DEF OwnInv, Gone, At
<1>4. \A a : Count(timer_base', a) = IF a \in F THEN 0 ELSE Count(q, a)
  BY <1>1 DEF Count
<1>5. F \subseteq O
  BY <1>2, <1>a, <1>b, <1>h
<1>6. Shape'
  BY <1>1, <1>3, <1>e DEF Shape
<1>7. \A b \in Boxes : b \in F => b \in S
  BY <1>2, <1>e
<1>8. ASSUME NEW x \in Obj \ O
      PROVE  /\ Outer(x, place') = Outer(x, place)
             /\ PlaceHere(Outer(x, place), uz, mplace) => PlaceHere(Outer(x, place), uz, mplace')
             /\ Count(timer_base', x) > 0 => Count(timer_base, x) > 0
  <2>1. place'[x] = place[x] /\ x \notin F /\ Count(q, x) = Count(timer_base, x)
    BY <1>1, <1>5, <1>b
  <2>2. CASE place[x].at # "contained"
    BY <2>1, <2>2, <1>4 DEF Outer, MonstersStay
  <2>3. CASE place[x].at = "contained"
    <3>1. place[x].by \in Obj /\ place[x].by \notin O
      BY <2>3, <1>3, <1>h DEF Shape, Boxes, Obj
    <3>2. place'[place[x].by] = place[place[x].by]
      BY <3>1, <1>1, <1>5, <1>b
    <3> QED BY <2>1, <2>3, <3>1, <3>2, <1>4 DEF Outer, MonstersStay
  <2> QED BY <2>2, <2>3
<1>9. ASSUME NEW x \in O
      PROVE  /\ Outer(x, place) = Gone \/ PlaceHere(Outer(x, place), uz, mplace)
             /\ \/ Outer(x, place') = Gone /\ Count(timer_base', x) = 0
                \/ PlaceHere(Outer(x, place'), uz, mplace')
  <2>1. CASE x \in F
    BY <2>1, <1>1, <1>3, <1>4, <1>5, <1>a, <1>c DEF Outer
  <2>2. CASE x \notin F
    <3>1. Outer(x, place') = Outer(x, pl)
      <4>1. CASE pl[x].at # "contained"
        BY <2>2, <4>1, <1>1, <1>a DEF Outer
      <4>2. CASE pl[x].at = "contained"
        <5>1. pl[x].by \in Boxes /\ pl[x].by \notin F /\ pl[x].by \in Obj
          BY <2>2, <4>2, <1>2, <1>7, <1>a, <1>e DEF Boxes, Obj
        <5> QED BY <2>2, <4>2, <5>1, <1>1, <1>a DEF Outer
      <4> QED BY <4>1, <4>2
    <3> QED BY <2>2, <3>1, <1>c, <1>d DEF F
  <2> QED BY <2>1, <2>2
<1>10. ASSUME NEW x \in Obj
       PROVE  timed'[x] - Count(timer_base', x) = timed[x] - Count(timer_base, x)
  <2>1. CASE x \notin F
    BY <2>1, <1>1, <1>4, <1>f
  <2>2. CASE x \in F
    <3>1. timed[x] = Count(timer_base, x) /\ timed[x] \in Nat
      BY <2>2, <1>5, <1>a, <1>c, NearCounted
    <3> QED BY <2>2, <3>1, <1>1, <1>4
  <2> QED BY <2>1, <2>2
<1>11. \A m \in Mon : Count(timer_base', m) > 0 => Here(m)'
  <2>1. \A m \in Mon : m \notin F
    BY <1>5, <1>a, OwnersDistinct
  <2> QED BY <2>1, <1>4, <1>g
<1> QED
  BY <1>6, <1>8, <1>9, <1>10, <1>11, <1>a, TouchStep DEF MonstersStay

(* An object is freed, with what is in it.                                 *)
LEMMA DestroyStep ==
  ASSUME OwnInv, IInv', Dropping', unchangedWorld, unchangedLoop, phase # "saved", todo = <<>>,
         NEW o \in Obj, NEW q, NEW tm, Books(q, tm, o), obfree({o}, place, q, tm),
         MonstersStay, \A m \in Mon : Count(timer_base, m) > 0 => Here(m)',
         Outer(o, place) = Gone \/ PlaceHere(Outer(o, place), uz, mplace)
  PROVE  OwnInv'
<1> DEFINE O == {o} \cup {x \in Obj : place[x].at = "contained" /\ place[x].by = o}
<1>1. IInv /\ Shape /\ o \notin Mon /\ place \in [Obj -> Place]
  BY InvUnfolded, OwnersDistinct DEF OwnInv
<1>2. \A x \in O : x # o => place[x].at = "contained" /\ place[x].by = o /\ x \notin Boxes /\ o \in Boxes
  BY <1>1 DEF Shape
<1>3. \A x \in O : Outer(x, place) = Outer(o, place)
  <2>1. ASSUME NEW x \in O, x # o PROVE Outer(x, place) = Outer(o, place)
    <3>1. place[x].at = "contained" /\ place[x].by = o /\ o \in Boxes
      BY <1>2, <2>1
    <3>2. place[o].at # "contained"
      BY <3>1, <1>1 DEF Shape
    <3> QED BY <3>1, <3>2 DEF Outer
  <2> QED BY <2>1
<1>4. \A x \in Obj : place[x].at = "contained" /\ place[x].by \in O => x \in O
  BY <1>1, <1>2 DEF Shape
<1>5. O \subseteq Freed({o}, place)
  <2>1. ASSUME NEW x \in O, x # o PROVE place[x] = In(o)
    <3>1. place[x] \in Place
      BY <1>1
    <3> QED BY <2>1, <3>1, <1>2 DEF Place, In, At
  <2> QED BY <2>1 DEF Freed
<1>6. o \in O /\ O \in SUBSET Obj
  OBVIOUS
<1> HIDE DEF O
<1>7. q \in Queue /\ tm \in [Obj -> Int]
  BY DEF Books
<1>8. \A a \in Owners \ {o} : Count(q, a) = Count(timer_base, a)
  BY DEF Books
<1>9. \A x \in Obj \ O : Count(q, x) = Count(timer_base, x)
  BY <1>6, <1>8 DEF Owners
<1>10. \A m \in Mon : Count(q, m) > 0 => Here(m)'
  BY <1>1, <1>8 DEF Owners
<1>11. \A x \in Obj : tm[x] - Count(q, x) = timed[x] - Count(timer_base, x)
  BY <1>8 DEF Owners, Books
<1>12. \A x \in Obj : /\ place[x].at = "contained" => place[x].by \in Boxes /\ x \notin Boxes
                      /\ place[x].at = "minvent" => place[x].by \in Mon
  BY <1>1 DEF Shape
<1>13. \A x \in O : Outer(x, place) = Gone \/ PlaceHere(Outer(x, place), uz, mplace)
  BY <1>3
<1> DEFINE S == {o}
<1>14. S \subseteq O /\ obfree(S, place, q, tm)
  BY <1>6
<1>15. \A x \in O : x \notin Freed(S, place) => PlaceHere(Outer(x, place), uz, mplace')
  BY <1>5
<1> HIDE DEF S
<1>16. Freeable(S, place, q, tm, O)
  BY <1>1, <1>4, <1>6, <1>7, <1>9, <1>10, <1>11, <1>12, <1>13, <1>14, <1>15 DEF Freeable
<1>17. phase' = phase /\ todo' = <<>>
  BY DEF unchangedLoop
<1>18. \A a \in Owners : ~(Count(todo', a) > 0)
  BY <1>17, NEmpty DEF Count
<1> QED
  BY <1>14, <1>16, <1>17, <1>18, FreeStep

-----------------------------------------------------------------------------
(* Keeping the books.                                                      *)

(* Counting up and down.                                                   *)
LEMMA UpAndDown ==
  ASSUME NEW tm \in [Obj -> Int], NEW o \in Obj
  PROVE  /\ [tm EXCEPT ![o] = @ - 1] = [tm EXCEPT ![o] = @ + (-1)]
         /\ [tm EXCEPT ![o] = @ + 0] = tm
         /\ [[tm EXCEPT ![o] = @ - 1] EXCEPT ![o] = @ + 1] = tm
<1>1. tm[o] - 1 = tm[o] + (-1) /\ tm[o] + 0 = tm[o] /\ (tm[o] - 1) + 1 = tm[o]
  OBVIOUS
<1>2. [tm EXCEPT ![o] = tm[o] - 1] = [tm EXCEPT ![o] = tm[o] + (-1)]
  BY <1>1, Zenon
<1>3. [tm EXCEPT ![o] = @ + 0] = tm
  BY <1>1
<1>4. [[tm EXCEPT ![o] = @ - 1] EXCEPT ![o] = @ + 1] = tm
  <2> DEFINE t1 == [tm EXCEPT ![o] = @ - 1]
  <2>1. t1 \in [Obj -> Int] /\ t1[o] = tm[o] - 1 /\ \A x \in Obj \ {o} : t1[x] = tm[x]
    OBVIOUS
  <2> HIDE DEF t1
  <2> DEFINE t2 == [t1 EXCEPT ![o] = @ + 1]
  <2>2. t2 \in [Obj -> Int] /\ t2[o] = t1[o] + 1 /\ \A x \in Obj \ {o} : t2[x] = t1[x]
    BY <2>1
  <2> HIDE DEF t2
  <2>3. t2 = tm
    BY <1>1, <2>1, <2>2
  <2> QED BY <2>3 DEF t1, t2
<1> QED
  BY <1>2, <1>3, <1>4

(* Nothing done yet.                                                       *)
LEMMA BooksAsTheyAre ==
  ASSUME IInv, NEW o \in Obj
  PROVE  Books(timer_base, timed, o)
<1>1. timer_base \in Seq(Timer) /\ timed[o] \in Int
  BY InvUnfolded DEF Queue
<1>2. Count(timer_base, o) \in Nat
  BY <1>1, CountPositive
<1> QED
  BY <1>1, <1>2, InvUnfolded DEF Books

(* The numbers behind Books.                                               *)
LEMMA BooksNumbers ==
  ASSUME IInv, NEW o \in Obj, NEW q, NEW tm, Books(q, tm, o)
  PROVE  /\ q \in Queue /\ q \in Seq(Timer) /\ tm \in [Obj -> Int]
         /\ o \in Owners /\ \A a \in Owners : Count(q, a) \in Nat /\ Count(timer_base, a) \in Nat
         /\ \A x \in Obj : x \in Owners /\ tm[x] \in Int /\ timed[x] \in Int
         /\ \A x \in Obj : tm[x] - Count(q, x) = timed[x] - Count(timer_base, x)
<1>1. /\ q \in Queue /\ q \in Seq(Timer) /\ tm \in [Obj -> Int]
      /\ timer_base \in Seq(Timer) /\ timed \in [Obj -> Int]
  BY InvUnfolded DEF Books, Queue
<1>2. \A a \in Owners : Count(q, a) \in Nat /\ Count(timer_base, a) \in Nat
  BY <1>1, CountPositive
<1> QED
  BY <1>1, <1>2 DEF Books, Owners

(* What keeps them.                                                        *)
LEMMA BooksStep ==
  ASSUME IInv, NEW o \in Obj, NEW q, NEW tm, Books(q, tm, o),
         NEW q2 \in Queue, NEW k \in Int,
         \A a \in Owners : Count(q2, a) = Count(q, a) + IF a = o THEN k ELSE 0
  PROVE  Books(q2, [tm EXCEPT ![o] = @ + k], o)
<1> DEFINE t2 == [tm EXCEPT ![o] = @ + k]
<1>1. /\ q \in Queue /\ tm \in [Obj -> Int] /\ o \in Owners
      /\ \A a \in Owners : Count(q, a) \in Nat /\ Count(timer_base, a) \in Nat
      /\ tm[o] \in Int /\ timed[o] \in Int
  BY BooksNumbers
<1>2. t2 \in [Obj -> Int] /\ t2[o] = tm[o] + k /\ \A x \in Obj \ {o} : t2[x] = tm[x]
  BY <1>1
<1> HIDE DEF t2
<1>3. t2[o] - Count(q2, o) = timed[o] - Count(timer_base, o)
  <2>1. tm[o] - Count(q, o) = timed[o] - Count(timer_base, o)
    BY DEF Books
  <2> QED BY <1>1, <1>2, <2>1
<1>4. \A a \in Owners \ {o} : Count(q2, a) = Count(timer_base, a)
  BY <1>1 DEF Books
<1>5. \A x \in Obj \ {o} : t2[x] = timed[x]
  BY <1>2 DEF Books
<1> QED
  BY <1>2, <1>3, <1>4, <1>5 DEF Books, t2

(* start_timer counts the timer.                                           *)
LEMMA BooksStart ==
  ASSUME IInv, NEW o \in Obj, NEW q, NEW tm, Books(q, tm, o),
         NEW d \in Delays \cup LateDelays, NEW f \in Funcs
  PROVE  Books(start_timer(q, d, f, o), [tm EXCEPT ![o] = @ + 1], o)
<1>1. q \in Queue /\ o \in Owners /\ ClockOK
  BY BooksNumbers DEF IInv
<1>2. start_timer(q, d, f, o) \in Queue
  BY <1>1, StartQueue
<1>3. \A a \in Owners : Count(start_timer(q, d, f, o), a) = Count(q, a) + IF a = o THEN 1 ELSE 0
  BY <1>1, NStart DEF Count
<1> QED
  BY <1>2, <1>3, BooksStep

(* stop_timer counts what it stops.                                        *)
LEMMA BooksRemove ==
  ASSUME IInv, NEW o \in Obj, NEW q, NEW tm, Books(q, tm, o), NEW f \in Funcs
  PROVE  Books(remove_timer(q, f, o), Less(tm, q, f, o), o)
<1>1. q \in Queue /\ q \in Seq(Timer) /\ tm \in [Obj -> Int]
      /\ \A a \in Owners : Count(q, a) \in Nat
  BY BooksNumbers
<1>2. remove_timer(q, f, o) \in Queue
  BY <1>1, RemoveQueue
<1>3. Matches(q, f, o) = {} <=> N(q, Just(f), o) = 0
  BY <1>1, NMatches
<1> DEFINE q2 == remove_timer(q, f, o)
           t2 == Less(tm, q, f, o)
<1>4. ASSUME NEW a
      PROVE  Count(q2, a) = Count(q, a) - IF o = a /\ N(q, Just(f), o) # 0 THEN 1 ELSE 0
  <2>1. N(q2, Funcs, a) = N(q, Funcs, a) - IF f \in Funcs /\ o = a /\ N(q, Just(f), o) # 0 THEN 1 ELSE 0
    BY <1>1, NRemove
  <2> HIDE DEF q2
  <2> QED BY <2>1 DEF Count
<1>5. CASE N(q, Just(f), o) = 0
  <2>1. \A a \in Owners : Count(q2, a) = Count(q, a) + IF a = o THEN 0 ELSE 0
    <3> HIDE DEF q2
    <3> QED BY <1>1, <1>4, <1>5
  <2>2. t2 = [tm EXCEPT ![o] = @ + 0]
    BY <1>1, <1>3, <1>5, UpAndDown DEF Less
  <2> HIDE DEF q2, t2
  <2>3. Books(q2, [tm EXCEPT ![o] = @ + 0], o)
    BY <2>1, <1>2, BooksStep DEF q2
  <2> QED BY <2>2, <2>3, Zenon DEF q2, t2
<1>6. CASE N(q, Just(f), o) # 0
  <2>1. \A a \in Owners : Count(q2, a) = Count(q, a) + IF a = o THEN -1 ELSE 0
    <3> HIDE DEF q2
    <3> QED BY <1>1, <1>4, <1>6
  <2>2. t2 = [tm EXCEPT ![o] = @ + (-1)]
    BY <1>1, <1>3, <1>6, UpAndDown DEF Less
  <2> HIDE DEF q2, t2
  <2>3. Books(q2, [tm EXCEPT ![o] = @ + (-1)], o)
    BY <2>1, <1>2, BooksStep DEF q2
  <2> QED BY <2>2, <2>3, Zenon DEF q2, t2
<1> QED
  BY <1>5, <1>6

(* start_corpse_timeout starts one timer at most, and says so.             *)
LEMMA BooksCorpse ==
  ASSUME IInv, NEW o \in Obj, NEW q, NEW tm, Books(q, tm, o),
         NEW D \in SUBSET (Delays \cup LateDelays), NEW r \in start_corpse_timeout(q, o, D)
  PROVE  Books(r[1], [tm EXCEPT ![o] = @ + r[2]], o)
<1>1. CASE r = <<q, 0>>
  <2>1. tm \in [Obj -> Int] /\ tm[o] \in Int
    BY BooksNumbers
  <2>2. r[1] = q /\ [tm EXCEPT ![o] = @ + r[2]] = tm
    BY <1>1, <2>1
  <2> QED BY <2>2, Zenon
<1>2. CASE \E d \in D, f \in DecayOf(o) : r = <<start_timer(q, d, f, o), 1>>
  <2>1. PICK d \in D, f \in DecayOf(o) : r[1] = start_timer(q, d, f, o) /\ r[2] = 1
    BY <1>2
  <2>2. f \in Funcs
    BY DEF DecayOf, Decay, Funcs, ObjFuncs
  <2>3. Books(start_timer(q, d, f, o), [tm EXCEPT ![o] = @ + 1], o)
    BY <2>2, BooksStart
  <2> QED BY <2>1, <2>3
<1> QED
  BY <1>1, <1>2 DEF start_corpse_timeout

(* What mksobj starts for an object that was gone.                         *)
LEMMA BooksMksobj ==
  ASSUME IInv, NEW o \in Obj, NEW q, NEW tm, Books(q, tm, o), NEW init,
         NEW r \in mksobj(q, o, init)
  PROVE  Books(r[1], [tm EXCEPT ![o] = @ + r[2]], o)
<1>1. CASE r \in start_corpse_timeout(q, o, Delays)
  BY <1>1, BooksCorpse
<1>2. CASE r = <<q, 0>>
  <2>1. tm \in [Obj -> Int] /\ tm[o] \in Int
    BY BooksNumbers
  <2>2. r[1] = q /\ [tm EXCEPT ![o] = @ + r[2]] = tm
    BY <1>2, <2>1
  <2> QED BY <2>2, Zenon
<1>3. CASE \E d \in Delays : r = <<start_timer(q, d, "HATCH_EGG", o), 1>>
  <2>1. PICK d \in Delays : r[1] = start_timer(q, d, "HATCH_EGG", o) /\ r[2] = 1
    BY <1>3
  <2>2. "HATCH_EGG" \in Funcs
    BY DEF Funcs, ObjFuncs
  <2>3. Books(start_timer(q, d, "HATCH_EGG", o), [tm EXCEPT ![o] = @ + 1], o)
    BY <2>2, BooksStart
  <2> QED BY <2>1, <2>3
<1> QED
  BY <1>1, <1>2, <1>3 DEF mksobj

(* obj_timer_checks stops a timer that is there and starts it again.       *)
LEMMA BooksChecks ==
  ASSUME IInv, NEW o \in Obj, NEW q, NEW tm, Books(q, tm, o), NEW r \in obj_timer_checks(q, o)
  PROVE  Books(r, tm, o)
<1>1. CASE r = q
  BY <1>1
<1>2. ASSUME NEW d \in LateDelays, NEW f \in RunningDecay(q, o),
             r = start_timer(remove_timer(q, f, o), d, f, o)
      PROVE  Books(r, tm, o)
  <2>1. f \in Funcs /\ Matches(q, f, o) # {}
    BY DEF RunningDecay, Funcs, ObjFuncs, Decay
  <2> DEFINE t1 == Less(tm, q, f, o)
  <2>2. Books(remove_timer(q, f, o), t1, o)
    BY <2>1, BooksRemove
  <2>3. t1 = [tm EXCEPT ![o] = @ - 1] /\ tm \in [Obj -> Int] /\ tm[o] \in Int
    BY <2>1, BooksNumbers DEF Less
  <2>4. [t1 EXCEPT ![o] = @ + 1] = tm
    BY <2>3, UpAndDown, Zenon
  <2> HIDE DEF t1
  <2>5. Books(r, [t1 EXCEPT ![o] = @ + 1], o)
    BY <1>2, <2>1, <2>2, BooksStart
  <2> QED BY <2>4, <2>5, Zenon
<1> QED
  BY <1>1, <1>2 DEF obj_timer_checks

(* The timer that fired is counted off.                                    *)
LEMMA BooksPopped ==
  ASSUME IInv, NEW o \in Obj, NEW f, Fires(f, o)
  PROVE  Books(Popped, Uncounted(o), o)
<1>1. timer_base \in Seq(Timer) /\ timer_base \in Queue /\ timer_base # <<>> /\ Head(timer_base).arg = o
  BY InvUnfolded DEF Queue, Fires, Due
<1>2. Popped \in Queue
  BY <1>1, TailQueue DEF Popped
<1>3. Popped \in Seq(Timer) /\ Head(timer_base) \in Timer
  BY <1>1, HeadTailProperties DEF Popped
<1>4. Head(timer_base).func \in Funcs
  BY <1>3 DEF Timer
<1>5. \A a : Count(timer_base, a) = Count(Popped, a) + IF a = o THEN 1 ELSE 0
  BY <1>1, <1>4, NTail DEF Count, Popped
<1>6. \A a \in Owners : Count(Popped, a) \in Nat /\ Count(timer_base, a) \in Nat
  BY <1>1, <1>3, CountPositive
<1>7. \A a \in Owners : Count(Popped, a) = Count(timer_base, a) + IF a = o THEN -1 ELSE 0
  BY <1>5, <1>6
<1>8. Books(Popped, [timed EXCEPT ![o] = @ + (-1)], o)
  BY <1>2, <1>7, BooksAsTheyAre, BooksStep
<1>9. Uncounted(o) = [timed EXCEPT ![o] = @ + (-1)]
  BY InvUnfolded, UpAndDown, Zenon DEF Uncounted
<1> QED
  BY <1>8, <1>9, Zenon

(* What rots instead keeps its count.                                      *)
LEMMA BooksAgain ==
  ASSUME IInv, NEW o \in Obj, NEW f, Fires(f, o),
         NEW d \in Delays \cup LateDelays, NEW g \in Funcs
  PROVE  Books(start_timer(Popped, d, g, o), timed, o)
<1> DEFINE t1 == Uncounted(o)
<1>1. Books(Popped, t1, o)
  BY BooksPopped
<1>2. timed \in [Obj -> Int] /\ t1 = [timed EXCEPT ![o] = @ - 1]
  BY InvUnfolded DEF Uncounted
<1>3. [t1 EXCEPT ![o] = @ + 1] = timed
  BY <1>2, UpAndDown, Zenon
<1> HIDE DEF t1
<1>4. Books(start_timer(Popped, d, g, o), [t1 EXCEPT ![o] = @ + 1], o)
  BY <1>1, BooksStart
<1> QED
  BY <1>3, <1>4, Zenon

(* obj_stop_timers: none is left.                                          *)
LEMMA BooksStopAll ==
  ASSUME OwnInv, NEW o \in Obj, timed[o] = Count(timer_base, o)
  PROVE  Books(stop_all(timer_base, o), [timed EXCEPT ![o] = 0], o)
<1>1. IInv /\ timer_base \in Queue /\ timer_base \in Seq(Timer) /\ timed \in [Obj -> Int]
  BY InvUnfolded DEF OwnInv, Queue
<1> DEFINE k == -Count(timer_base, o)
<1>2. Count(timer_base, o) \in Nat /\ k \in Int /\ timed[o] \in Int
  BY <1>1, CountPositive
<1>3. \A a \in Owners : Count(stop_all(timer_base, o), a) = Count(timer_base, a) + IF a = o THEN k ELSE 0
  <2>1. \A a \in Owners : Count(timer_base, a) \in Nat
    BY <1>1, CountPositive
  <2>2. \A a \in Owners : Count(stop_all(timer_base, o), a) = IF a = o THEN 0 ELSE Count(timer_base, a)
    BY <1>1, NStopAll DEF Count
  <2> QED BY <1>2, <2>1, <2>2
<1>4. stop_all(timer_base, o) \in Queue
  BY <1>1, StopAllQueue
<1>5. [timed EXCEPT ![o] = 0] = [timed EXCEPT ![o] = timed[o] + k]
  <2>1. timed[o] + k = 0
    BY <1>2
  <2> QED BY <2>1, Zenon
<1> HIDE DEF k
<1>6. Books(stop_all(timer_base, o), [timed EXCEPT ![o] = @ + k], o)
  BY <1>1, <1>2, <1>3, <1>4, BooksAsTheyAre, BooksStep
<1> QED
  BY <1>5, <1>6, Zenon

-----------------------------------------------------------------------------
(* Steps that leave the monsters alone.                                    *)

(* No loop runs, no monster dies.                                          *)
LEMMA MonstersAsTheyAre ==
  ASSUME OwnInv, UNCHANGED <<mplace, uz>>, \A m \in Mon : mplace[m].at # "dying"
  PROVE  /\ Dropping' /\ MonstersStay
         /\ \A m \in Mon : Count(timer_base, m) > 0 => Here(m)'
<1>1. Dropping' /\ MonstersStay
  BY DEF Dropping, MonstersStay
<1>2. ASSUME NEW m \in Mon, Count(timer_base, m) > 0 PROVE Here(m)'
  <2>1. Here(m)
    BY <1>2 DEF OwnInv, Kept, Owners
  <2> QED BY <2>1, MonsterOwners
<1> QED
  BY <1>1, <1>2

(* While no loop runs, or one that delivers objects.                       *)
Still == phase # "saved" /\ todo = <<>> /\ \A m \in Mon : mplace[m].at # "dying"

(* The player acts, and timers fire, only then.                            *)
LEMMA PlayingStill == Playing \/ Due => Still
BY DEF Playing, Due, Idle, Still

(* An object comes to a place in memory.                                   *)
LEMMA PlaySettle ==
  ASSUME OwnInv, IInv', Still, UNCHANGED mplace, unchangedWorld, unchangedLoop,
         NEW o \in Obj, NEW n, NEW p, NEW q, NEW tm, Settle(o, n, p, q, tm), Books(q, tm, o),
         Outer(o, place) = Gone \/ PlaceHere(Outer(o, place), uz, mplace),
         GoodPlace(o, p, mplace)
  PROVE  OwnInv'
<1>1. Dropping' /\ MonstersStay /\ \A m \in Mon : Count(timer_base, m) > 0 => Here(m)'
  BY MonstersAsTheyAre DEF Still, unchangedWorld
<1>2. \A m \in Mon, l \in Level \ {uz} : MonsterOn(m, l, mplace') <=> MonsterOn(m, l, mplace)
  BY <1>1 DEF MonstersStay
<1>3. \A x \in Obj \ {o} : PlaceHere(place[x], uz, mplace) => PlaceHere(place[x], uz, mplace')
  BY <1>1 DEF MonstersStay
<1>4. GoodPlace(o, p, mplace') /\ phase # "saved" /\ todo = <<>>
  BY DEF Still
<1> QED
  BY <1>1, <1>2, <1>3, <1>4, SettleStep

(* An object is freed.                                                     *)
LEMMA PlayDestroy ==
  ASSUME OwnInv, IInv', Still, UNCHANGED mplace, unchangedWorld, unchangedLoop,
         NEW o \in Obj, NEW q, NEW tm, Books(q, tm, o), obfree({o}, place, q, tm),
         Outer(o, place) = Gone \/ PlaceHere(Outer(o, place), uz, mplace)
  PROVE  OwnInv'
<1>1. Dropping' /\ MonstersStay /\ \A m \in Mon : Count(timer_base, m) > 0 => Here(m)'
  BY MonstersAsTheyAre DEF Still, unchangedWorld
<1> QED
  BY <1>1, DestroyStep DEF Still

(* Only the timers of objects in memory, or of monsters, change.           *)
LEMMA ListStep ==
  ASSUME OwnInv, IInv', Dropping', unchangedWorld, unchangedLoop, phase # "saved", todo = <<>>,
         UNCHANGED place, MonstersStay,
         \A m \in Mon : Count(timer_base', m) > 0 => Here(m)',
         \A x \in Obj : Count(timer_base', x) > 0 =>
             Count(timer_base, x) > 0 \/ PlaceHere(Outer(x, place), uz, mplace),
         \A x \in Obj : timed'[x] - Count(timer_base', x) = timed[x] - Count(timer_base, x)
  PROVE  OwnInv'
<1>1. Shape /\ Shape' /\ uz' = uz /\ phase' = phase /\ todo' = <<>>
  BY DEF OwnInv, Shape, unchangedWorld, unchangedLoop
<1> DEFINE O == {x \in Obj : PlaceHere(Outer(x, place), uz, mplace)}
<1>2. ASSUME NEW x \in Obj
      PROVE  PlaceHere(Outer(x, place), uz, mplace) => PlaceHere(Outer(x, place), uz, mplace')
  <2>1. (IF place[x].at = "contained" THEN place[x].by ELSE x) \in Obj
    BY <1>1 DEF Shape, Boxes, Obj
  <2> QED BY <2>1 DEF Outer, MonstersStay
<1>3. \A x \in Obj \ O : /\ Outer(x, place') = Outer(x, place)
                         /\ PlaceHere(Outer(x, place), uz, mplace) => PlaceHere(Outer(x, place), uz, mplace')
                         /\ Count(timer_base', x) > 0 => Count(timer_base, x) > 0
  BY <1>2
<1>4. \A x \in O : /\ Outer(x, place) = Gone \/ PlaceHere(Outer(x, place), uz, mplace)
                   /\ \/ Outer(x, place') = Gone /\ Count(timer_base', x) = 0
                      \/ PlaceHere(Outer(x, place'), uz, mplace')
  BY <1>2
<1>5. O \in SUBSET Obj
  OBVIOUS
<1>6. \A a \in Owners : ~(Count(todo', a) > 0)
  BY <1>1, NEmpty DEF Count
<1> HIDE DEF O
<1> QED
  BY <1>1, <1>3, <1>4, <1>5, <1>6, TouchStep DEF MonstersStay

(* The same, when they are the timers of one object.                       *)
LEMMA PlayList ==
  ASSUME OwnInv, IInv', Dropping', unchangedWorld, unchangedLoop, phase # "saved", todo = <<>>,
         UNCHANGED place, MonstersStay, \A m \in Mon : Count(timer_base, m) > 0 => Here(m)',
         NEW o \in Obj, Books(timer_base', timed', o),
         PlaceHere(Outer(o, place), uz, mplace)
  PROVE  OwnInv'
<1>1. IInv /\ o \notin Mon
  BY OwnersDistinct DEF OwnInv
<1>2. \A m \in Mon : Count(timer_base', m) > 0 => Here(m)'
  BY <1>1 DEF Books, Owners
<1>3. \A x \in Obj : Count(timer_base', x) > 0 =>
             Count(timer_base, x) > 0 \/ PlaceHere(Outer(x, place), uz, mplace)
  BY DEF Books, Owners
<1>4. \A x \in Obj : timed'[x] - Count(timer_base', x) = timed[x] - Count(timer_base, x)
  BY <1>1, BooksNumbers
<1> QED
  BY <1>2, <1>3, <1>4, ListStep

-----------------------------------------------------------------------------
(* Where objects are handled.                                              *)

(* At hand is in memory.                                                   *)
LEMMA HandyHere ==
  ASSUME uz \in Level, NEW p \in Handy \cup {Buried(uz)} \cup {Floor(uz), Invent}
  PROVE  /\ p.at # "contained" /\ PlaceHere(p, uz, mplace)
         /\ p.at = "minvent" => p.by \in Mon
         /\ \A o : GoodPlace(o, p, mplace)
BY DEF Handy, PlaceHere, PlaceOn, PlaceGoes, MonsterOn, GoodPlace, Floor, Buried, Invent,
       Minvent, OnLevel, At

(* So is what is on its way.                                               *)
LEMMA BoundHere ==
  ASSUME NEW l, NEW p \in {Bound(l), Trailing(l)}, NEW mp
  PROVE  p.at # "contained" /\ PlaceHere(p, uz, mp) /\ \A o : GoodPlace(o, p, mp)
BY DEF PlaceHere, PlaceGoes, GoodPlace, Bound, Trailing, At

(* What is in no box is where it is.                                       *)
LEMMA OuterSelf ==
  ASSUME NEW pl, NEW o, pl[o].at # "contained"
  PROVE  Outer(o, pl) = pl[o]
BY DEF Outer

(* What is gone has no timers.                                             *)
LEMMA GoneCounted ==
  ASSUME OwnInv, Still, NEW o \in Obj, place[o] = Gone
  PROVE  Outer(o, place) = Gone /\ timed[o] = 0 /\ Count(timer_base, o) = 0
<1>1. Outer(o, place) = Gone
  BY DEF Outer, Gone, At
<1>2. timed[o] = Count(timer_base, o) /\ timed[o] \in Nat
  BY <1>1, NearCounted DEF Still
<1>3. ~Here(o)
  <2>1. uz \in Level
    BY ListTypes DEF OwnInv
  <2> QED BY <1>1, <2>1, OwnersPlace, OnePlace DEF PlaceHere
<1>4. ~(Count(timer_base, o) > 0)
  BY <1>3 DEF OwnInv, Kept, Owners
<1> QED
  BY <1>1, <1>2, <1>4

(* What is in a box at hand is in memory, and so is the box.               *)
LEMMA BoxedHere ==
  ASSUME uz \in Level, NEW b \in Boxes, place[b] \in {Invent, Floor(uz)}
  PROVE  /\ PlaceHere(place[b], uz, mplace)
         /\ \A o : o \notin Boxes => GoodPlace(o, In(b), mplace)
         /\ \A o : place[o].at = "contained" /\ place[o].by = b => PlaceHere(Outer(o, place), uz, mplace)
<1>1. PlaceHere(place[b], uz, mplace)
  BY HandyHere
<1> QED
  BY <1>1 DEF GoodPlace, Outer

(* What has a timer that fires is in memory.                               *)
LEMMA FiresHere ==
  ASSUME OwnInv, NEW a \in Owners, NEW f, Fires(f, a)
  PROVE  Here(a) /\ (a \in Obj => PlaceHere(Outer(a, place), uz, mplace))
<1>1. timer_base \in Seq(Timer) /\ timer_base # <<>> /\ timer_base[1].arg = a
  BY ListTypes DEF OwnInv, Fires, Due
<1>2. 1 \in DOMAIN timer_base
  BY <1>1
<1>3. Count(timer_base, a) > 0
  BY <1>1, <1>2, CountPositive
<1>4. Here(a)
  BY <1>3 DEF OwnInv, Kept
<1> QED
  BY <1>4, OwnersPlace

-----------------------------------------------------------------------------
(* The actions on objects.                                                 *)

(* CreateObj keeps OwnInv.                                                 *)
LEMMA CreateObjOwn ==
  ASSUME OwnInv, IInv', NEW o \in Obj, NEW p \in {Invent, Floor(uz)}, CreateObj(o, p)
  PROVE  OwnInv'
<1>1. Still /\ place[o] = Gone /\ UNCHANGED mplace /\ unchangedWorld /\ unchangedLoop
  BY PlayingStill DEF CreateObj
<1>2. PICK r \in mksobj(timer_base, o, TRUE), n \in BOOLEAN :
            Settle(o, n, p, r[1], [timed EXCEPT ![o] = r[2]])
  BY DEF CreateObj
<1>3. IInv /\ timed[o] = 0 /\ Outer(o, place) = Gone /\ uz \in Level
  BY <1>1, GoneCounted, ListTypes DEF OwnInv
<1>4. Books(r[1], [timed EXCEPT ![o] = @ + r[2]], o)
  BY <1>3, BooksAsTheyAre, BooksMksobj
<1>5. [timed EXCEPT ![o] = timed[o] + r[2]] = [timed EXCEPT ![o] = r[2]]
  <2>1. r[2] \in Int
    BY <1>3, InvUnfolded, MksobjQueue
  <2>2. timed[o] + r[2] = r[2]
    BY <1>3, <2>1
  <2> QED BY <2>2, Zenon
<1>6. Books(r[1], [timed EXCEPT ![o] = r[2]], o)
  BY <1>4, <1>5, Zenon
<1>7. GoodPlace(o, p, mplace)
  BY <1>3, HandyHere
<1> QED
  BY <1>1, <1>2, <1>3, <1>6, <1>7, PlaySettle

(* MoveObj keeps OwnInv.                                                   *)
LEMMA MoveObjOwn ==
  ASSUME OwnInv, IInv', NEW o \in Obj, NEW p \in Handy, MoveObj(o, p)
  PROVE  OwnInv'
<1>1. Still /\ place[o] \in Handy /\ UNCHANGED mplace /\ unchangedWorld /\ unchangedLoop
  BY PlayingStill DEF MoveObj
<1>2. PICK q \in obj_timer_checks(timer_base, o) \cup {timer_base} :
            Settle(o, many[o], p, q, timed)
  BY DEF MoveObj
<1>3. IInv /\ uz \in Level
  BY ListTypes DEF OwnInv
<1>4. Books(q, timed, o)
  BY <1>3, BooksAsTheyAre, BooksChecks
<1>5. PlaceHere(Outer(o, place), uz, mplace) /\ GoodPlace(o, p, mplace)
  BY <1>1, <1>3, HandyHere, OuterSelf
<1> QED
  BY <1>1, <1>2, <1>4, <1>5, PlaySettle

(* PutInBox keeps OwnInv.                                                  *)
LEMMA PutInBoxOwn ==
  ASSUME OwnInv, IInv', NEW o \in Obj, NEW b \in Boxes, PutInBox(o, b)
  PROVE  OwnInv'
<1> DEFINE q1 == remove_timer(timer_base, "ROT_CORPSE", o)
           q2 == remove_timer(q1, "MOLDY_CORPSE", o)
           q3 == remove_timer(q2, "REVIVE_MON", o)
           t1 == Less(timed, timer_base, "ROT_CORPSE", o)
           t2 == Less(t1, q1, "MOLDY_CORPSE", o)
           t3 == Less(t2, q2, "REVIVE_MON", o)
<1>1. /\ Still /\ place[o] = Invent /\ o \notin Boxes /\ place[b] \in {Invent, Floor(uz)}
      /\ UNCHANGED mplace /\ unchangedWorld /\ unchangedLoop
  BY PlayingStill DEF PutInBox
<1>2. Settle(o, many[o], In(b), q3, t3) \/ Settle(o, many[o], In(b), timer_base, timed)
  BY DEF PutInBox
<1>3. IInv /\ uz \in Level
  BY ListTypes DEF OwnInv
<1>4. Decay \in SUBSET Funcs /\ Decay = {"ROT_CORPSE", "MOLDY_CORPSE", "REVIVE_MON"}
  BY FuncsOfDecay DEF Decay
<1>5. Books(timer_base, timed, o)
  BY <1>3, BooksAsTheyAre
<1>6. Books(q1, t1, o)
  BY <1>3, <1>4, <1>5, BooksRemove
<1> HIDE DEF q1, t1
<1>7. Books(q2, t2, o)
  BY <1>3, <1>4, <1>6, BooksRemove
<1> HIDE DEF q2, t2
<1>8. Books(q3, t3, o)
  BY <1>3, <1>4, <1>7, BooksRemove
<1> HIDE DEF q3, t3
<1>9. PlaceHere(Outer(o, place), uz, mplace) /\ GoodPlace(o, In(b), mplace)
  BY <1>1, <1>3, HandyHere, OuterSelf, BoxedHere
<1> QED
  BY <1>1, <1>2, <1>5, <1>8, <1>9, PlaySettle

(* TakeOut keeps OwnInv.                                                   *)
LEMMA TakeOutOwn ==
  ASSUME OwnInv, IInv', NEW o \in Obj, TakeOut(o)
  PROVE  OwnInv'
<1> DEFINE b == place[o].by
<1>1. /\ Still /\ place[o].at = "contained" /\ place[b] \in {Invent, Floor(uz)}
      /\ UNCHANGED mplace /\ unchangedWorld /\ unchangedLoop
  BY PlayingStill DEF TakeOut
<1>2. PICK r \in start_corpse_timeout(timer_base, o, LateDelays) \cup {<<timer_base, 0>>} :
            Settle(o, many[o], Invent, r[1], [timed EXCEPT ![o] = @ + r[2]])
  BY DEF TakeOut
<1>3. IInv /\ uz \in Level /\ b \in Boxes
  BY <1>1, ListTypes DEF OwnInv, Shape
<1>4. Books(r[1], [timed EXCEPT ![o] = @ + r[2]], o)
  <2>1. Books(timer_base, timed, o)
    BY <1>3, BooksAsTheyAre
  <2>2. CASE r \in start_corpse_timeout(timer_base, o, LateDelays)
    BY <1>3, <2>1, <2>2, BooksCorpse
  <2>3. CASE r = <<timer_base, 0>>
    <3>1. r[1] = timer_base /\ r[2] = 0 /\ timed \in [Obj -> Int]
      BY <1>3, <2>3, InvUnfolded
    <3>2. [timed EXCEPT ![o] = @ + 0] = timed
      BY <3>1, UpAndDown
    <3> QED BY <2>1, <3>1, <3>2, Zenon
  <2> QED BY <2>2, <2>3
<1>5. PlaceHere(Outer(o, place), uz, mplace) /\ GoodPlace(o, Invent, mplace)
  BY <1>1, <1>3, HandyHere, BoxedHere
<1> QED
  BY <1>1, <1>2, <1>4, <1>5, PlaySettle

(* Bury keeps OwnInv.                                                      *)
LEMMA BuryOwn ==
  ASSUME OwnInv, IInv', NEW o \in Obj, Bury(o)
  PROVE  OwnInv'
<1>1. /\ Still /\ place[o] = Floor(uz) /\ UNCHANGED mplace /\ unchangedWorld /\ unchangedLoop
      /\ many' = many /\ place' = [place EXCEPT ![o] = Buried(uz)]
  BY PlayingStill DEF Bury
<1>2. IInv /\ uz \in Level /\ many \in [Obj -> BOOLEAN] /\ timed \in [Obj -> Int]
  BY InvUnfolded DEF OwnInv
<1>3. Books(timer_base', timed', o)
  <2>1. Books(timer_base, timed, o)
    BY <1>2, BooksAsTheyAre
  <2>2. ASSUME NEW d \in Delays, timer_base' = start_timer(timer_base, d, "ROT_ORGANIC", o),
               timed' = [timed EXCEPT ![o] = @ + 1]
        PROVE  Books(timer_base', timed', o)
    <3>1. "ROT_ORGANIC" \in Funcs
      BY DEF Funcs, ObjFuncs
    <3>2. Books(start_timer(timer_base, d, "ROT_ORGANIC", o), [timed EXCEPT ![o] = @ + 1], o)
      BY <1>2, <2>1, <3>1, BooksStart
    <3> QED BY <2>2, <3>2, Zenon
  <2>3. CASE timer_base' \in obj_timer_checks(timer_base, o) /\ timed' = timed
    BY <1>2, <2>1, <2>3, BooksChecks
  <2> QED BY <2>2, <2>3 DEF Bury
<1> DEFINE q == timer_base'
           tm == timed'
<1>4. Settle(o, many[o], Buried(uz), q, tm)
  <2>1. many' = [many EXCEPT ![o] = many[o]]
    BY <1>1, <1>2
  <2> QED BY <1>1, <2>1 DEF Settle
<1> HIDE DEF q, tm
<1>5. PlaceHere(Outer(o, place), uz, mplace) /\ GoodPlace(o, Buried(uz), mplace)
  BY <1>1, <1>2, HandyHere, OuterSelf
<1>6. Books(q, tm, o)
  BY <1>3 DEF q, tm
<1> QED
  BY <1>1, <1>4, <1>5, <1>6, PlaySettle

(* Unearth keeps OwnInv.                                                   *)
LEMMA UnearthOwn ==
  ASSUME OwnInv, IInv', NEW o \in Obj, Unearth(o)
  PROVE  OwnInv'
<1> DEFINE q == remove_timer(timer_base, "ROT_ORGANIC", o)
           tm == Less(timed, timer_base, "ROT_ORGANIC", o)
<1>1. Still /\ place[o] = Buried(uz) /\ UNCHANGED mplace /\ unchangedWorld /\ unchangedLoop
  BY PlayingStill DEF Unearth
<1>2. \/ \E r \in obj_timer_checks(q, o) : Settle(o, many[o], Floor(uz), r, tm)
      \/ Settle(o, many[o], Floor(uz), timer_base, timed)
  BY DEF Unearth
<1>3. IInv /\ uz \in Level
  BY ListTypes DEF OwnInv
<1>4. Books(timer_base, timed, o)
  BY <1>3, BooksAsTheyAre
<1>5. Books(q, tm, o)
  <2>1. "ROT_ORGANIC" \in Funcs
    BY DEF Funcs, ObjFuncs
  <2> QED BY <1>3, <1>4, <2>1, BooksRemove
<1> HIDE DEF q, tm
<1>6. \A r \in obj_timer_checks(q, o) : Books(r, tm, o)
  BY <1>3, <1>5, BooksChecks
<1>7. PlaceHere(Outer(o, place), uz, mplace) /\ GoodPlace(o, Floor(uz), mplace)
  BY <1>1, <1>3, HandyHere, OuterSelf
<1> QED
  BY <1>1, <1>2, <1>4, <1>6, <1>7, PlaySettle

(* DestroyObj keeps OwnInv.                                                *)
LEMMA DestroyObjOwn ==
  ASSUME OwnInv, IInv', NEW o \in Obj, DestroyObj(o)
  PROVE  OwnInv'
<1>1. Still /\ place[o] \in Handy /\ UNCHANGED mplace /\ unchangedWorld /\ unchangedLoop
  BY PlayingStill DEF DestroyObj
<1>2. IInv /\ uz \in Level
  BY ListTypes DEF OwnInv
<1>3. PlaceHere(Outer(o, place), uz, mplace)
  BY <1>1, <1>2, HandyHere, OuterSelf
<1>4. Books(timer_base, timed, o)
  BY <1>2, BooksAsTheyAre
<1>5. CASE obfree({o}, place, timer_base, timed)
  BY <1>1, <1>3, <1>4, <1>5, PlayDestroy
<1>6. CASE UNCHANGED <<timer_base, timed, place>>
  <2>1. Books(timer_base', timed', o)
    BY <1>4, <1>6
  <2>2. Dropping' /\ MonstersStay /\ \A m \in Mon : Count(timer_base, m) > 0 => Here(m)'
    BY <1>1, MonstersAsTheyAre DEF Still, unchangedWorld
  <2> QED BY <1>1, <1>3, <1>6, <2>1, <2>2, PlayList DEF Still
<1> QED
  BY <1>5, <1>6 DEF DestroyObj

(* StopTimers keeps OwnInv.                                                *)
LEMMA StopTimersOwn ==
  ASSUME OwnInv, IInv', NEW o \in Obj, StopTimers(o)
  PROVE  OwnInv'
<1>1. /\ Still /\ place[o] \in Handy /\ UNCHANGED <<place, mplace>>
      /\ unchangedWorld /\ unchangedLoop
  BY PlayingStill DEF StopTimers
<1>2. IInv /\ uz \in Level
  BY ListTypes DEF OwnInv
<1>3. PlaceHere(Outer(o, place), uz, mplace)
  BY <1>1, <1>2, HandyHere, OuterSelf
<1>4. Books(timer_base', timed', o)
  <2>1. CASE timer_base' = stop_all(timer_base, o) /\ timed' = [timed EXCEPT ![o] = 0]
    <3>1. timed[o] = Count(timer_base, o)
      BY <1>1, <1>3, NearCounted DEF Still
    <3>2. Books(stop_all(timer_base, o), [timed EXCEPT ![o] = 0], o)
      BY <3>1, BooksStopAll
    <3> QED BY <2>1, <3>2, Zenon
  <2>2. ASSUME NEW f \in {"UNPOLY_OBJ", "HATCH_EGG"},
               timer_base' = remove_timer(timer_base, f, o), timed' = Less(timed, timer_base, f, o)
        PROVE  Books(timer_base', timed', o)
    <3>1. f \in Funcs
      BY DEF Funcs, ObjFuncs
    <3>2. Books(remove_timer(timer_base, f, o), Less(timed, timer_base, f, o), o)
      BY <1>2, <3>1, BooksAsTheyAre, BooksRemove
    <3> QED BY <2>2, <3>2, Zenon
  <2> QED BY <2>1, <2>2 DEF StopTimers
<1>5. Dropping' /\ MonstersStay /\ \A m \in Mon : Count(timer_base, m) > 0 => Here(m)'
  BY <1>1, MonstersAsTheyAre DEF Still, unchangedWorld
<1> QED
  BY <1>1, <1>3, <1>4, <1>5, PlayList DEF Still

(* MigrateObj keeps OwnInv.                                                *)
LEMMA MigrateObjOwn ==
  ASSUME OwnInv, IInv', NEW o \in Obj, NEW l \in Level, MigrateObj(o, l)
  PROVE  OwnInv'
<1>1. /\ Still /\ place[o] = Floor(uz) /\ UNCHANGED mplace /\ unchangedWorld /\ unchangedLoop
      /\ many' = many /\ timed' = timed
  BY PlayingStill DEF MigrateObj
<1>2. PICK p \in {Bound(l), Trailing(l)} : place' = [place EXCEPT ![o] = p]
  BY DEF MigrateObj
<1>3. IInv /\ uz \in Level /\ many \in [Obj -> BOOLEAN]
  BY InvUnfolded DEF OwnInv
<1> DEFINE q == timer_base'
<1>4. q \in obj_timer_checks(timer_base, o) \cup {timer_base}
  BY DEF MigrateObj
<1>5. Settle(o, many[o], p, q, timed)
  <2>1. many' = [many EXCEPT ![o] = many[o]]
    BY <1>1, <1>3
  <2> QED BY <1>1, <1>2, <2>1 DEF Settle
<1> HIDE DEF q
<1>6. Books(q, timed, o)
  BY <1>3, <1>4, BooksAsTheyAre, BooksChecks
<1>7. PlaceHere(Outer(o, place), uz, mplace) /\ GoodPlace(o, p, mplace)
  BY <1>1, <1>3, HandyHere, OuterSelf, BoundHere
<1> QED
  BY <1>1, <1>5, <1>6, <1>7, PlaySettle

-----------------------------------------------------------------------------
(* One object takes the place of another.                                  *)

(* What replace_object makes of a place in memory.                         *)
LEMMA ReplacedHere ==
  ASSUME NEW p \in Place, NEW mp
  PROVE  /\ replace_object(p) \in Place
         /\ PlaceHere(p, uz, mp) => PlaceHere(replace_object(p), uz, mp)
         /\ replace_object(p).at = "contained" <=> p.at = "contained"
         /\ p.at \in {"contained", "minvent"} \/ replace_object(p).at = "minvent"
              => replace_object(p) = p
<1>1. CASE p.at \in {"migrating", "trailing"}
  <2>1. replace_object(p) = Bound(Nobody) /\ Bound(Nobody).at = "migrating"
    BY <1>1 DEF replace_object, Bound, At
  <2>2. Bound(Nobody) \in Place /\ \A v : PlaceHere(Bound(Nobody), v, mp)
    BY Places DEF PlaceHere, PlaceGoes, Bound, At
  <2> QED BY <1>1, <2>1, <2>2
<1>2. CASE p.at \notin {"migrating", "trailing"}
  BY <1>2 DEF replace_object
<1> QED
  BY <1>1, <1>2

(* o is freed with what is in it, and o2, which was gone, is where it was. *)
LEMMA ReplaceStep ==
  ASSUME OwnInv, IInv', Still, UNCHANGED mplace, unchangedWorld, unchangedLoop,
         NEW o \in Obj, NEW o2 \in Obj, place[o2] = Gone, o2 # o, SameClass(o, o2),
         PlaceHere(Outer(o, place), uz, mplace),
         NEW q \in Queue, NEW tm \in [Obj -> Int],
         obfree({o}, [place EXCEPT ![o2] = replace_object(place[o])], q, tm),
         \A a \in Owners \ {o, o2} : Count(q, a) = Count(timer_base, a),
         \A x \in Obj : tm[x] - Count(q, x) = timed[x] - Count(timer_base, x)
  PROVE  OwnInv'
<1> DEFINE pl == [place EXCEPT ![o2] = replace_object(place[o])]
           S == {o}
           O == {o, o2} \cup {x \in Obj : place[x].at = "contained" /\ place[x].by \in {o, o2}}
<1>1. IInv /\ Shape /\ place \in [Obj -> Place] /\ uz \in Level /\ Gone.at = "free"
  BY InvUnfolded DEF OwnInv, Gone, At
<1>2. place[o] \in Place
  BY <1>1
<1>3. pl \in [Obj -> Place] /\ pl[o2] = replace_object(place[o]) /\ \A x \in Obj \ {o2} : pl[x] = place[x]
  BY <1>1, <1>2, ReplacedHere
<1>4. S = {o} /\ obfree(S, pl, q, tm)
  OBVIOUS
<1>5. /\ o \in O /\ o2 \in O /\ O \in SUBSET Obj
      /\ \A x \in O : x \in {o, o2} \/ (place[x].at = "contained" /\ place[x].by \in {o, o2})
      /\ \A x \in Obj : place[x].at = "contained" /\ place[x].by \in {o, o2} => x \in O
  OBVIOUS
<1> HIDE DEF pl, S, O
<1>6. o \in Boxes <=> o2 \in Boxes
  BY DEF SameClass
<1>7. /\ \A x : place[o].at = "contained" /\ x = place[o].by => x \in Boxes /\ x \in Obj /\ x # o /\ x # o2
      /\ o \in Boxes => place[o].at # "contained"
  <2>1. \A x \in Boxes : x \in Obj
    BY DEF Boxes, Obj
  <2>2. place[o].at = "contained" => place[o].by \in Boxes /\ o \notin Boxes
    BY <1>1 DEF Shape
  <2> QED BY <1>6, <2>1, <2>2
<1>8. \A x \in O : x \notin {o, o2} =>
          x \in Obj /\ x \notin Boxes /\ place[x].at = "contained" /\ place[x].by \in {o, o2}
          /\ o \in Boxes /\ o2 \in Boxes
  BY <1>1, <1>5, <1>6 DEF Shape
<1>9. \A x \in Obj : place[x].at = "contained" /\ place[x].by \in O => x \in O
  BY <1>1, <1>5, <1>8 DEF Shape
<1>10. \A x \in Obj \ O : pl[x] = place[x] /\ Count(q, x) = Count(timer_base, x)
  BY <1>3, <1>5 DEF Owners
<1>11. \A x \in O : Outer(x, place) = Gone \/ PlaceHere(Outer(x, place), uz, mplace)
  <2>1. Outer(o2, place) = Gone
    BY <1>1 DEF Outer
  <2>2. ASSUME NEW x \in O, x \notin {o, o2}
        PROVE  Outer(x, place) = Outer(o, place) \/ Outer(x, place) = Gone
    <3>1. place[o].at # "contained" /\ place[x].at = "contained" /\ place[x].by \in {o, o2}
      BY <1>7, <1>8, <2>2
    <3> QED BY <3>1 DEF Outer
  <2> QED BY <2>1, <2>2
<1>12. PlaceHere(Outer(o2, pl), uz, mplace)
  <2>1. CASE place[o].at = "contained"
    <3>1. pl[o2] = place[o] /\ pl[place[o].by] = place[place[o].by]
      BY <1>2, <1>3, <1>7, <2>1, ReplacedHere
    <3>2. Outer(o2, pl) = Outer(o, place)
      BY <2>1, <3>1 DEF Outer
    <3> QED BY <3>2
  <2>2. CASE place[o].at # "contained"
    <3>1. Outer(o, place) = place[o] /\ Outer(o2, pl) = pl[o2] /\ pl[o2] = replace_object(place[o])
      BY <1>2, <1>3, <2>2, ReplacedHere DEF Outer
    <3> QED BY <3>1, <1>2, ReplacedHere
  <2> QED BY <2>1, <2>2
<1>13. \A x \in O : x \notin Freed(S, pl) => PlaceHere(Outer(x, pl), uz, mplace')
  <2>1. ASSUME NEW x \in O, x \notin Freed(S, pl), x # o2
        PROVE  Outer(x, pl) = Outer(o2, pl)
    <3>1. x # o /\ pl[x] = place[x]
      BY <1>3, <1>4, <1>5, <2>1 DEF Freed
    <3>2. x \in Obj /\ place[x].at = "contained" /\ place[x].by \in {o, o2} /\ o \in Boxes
      BY <1>8, <2>1, <3>1
    <3>3. place[x] # In(o)
      BY <1>4, <2>1, <3>1, <3>2 DEF Freed
    <3>4. place[x].by = o2
      <4>1. place[x] \in Place
        BY <1>1, <3>2
      <4> QED BY <3>2, <3>3, <4>1 DEF Place, In, At
    <3>5. pl[o2].at # "contained"
      BY <1>2, <1>3, <1>7, <3>2, ReplacedHere
    <3> QED BY <3>1, <3>2, <3>4, <3>5 DEF Outer
  <2> QED BY <1>12, <2>1
<1>14. \A x \in Obj : /\ pl[x].at = "contained" => pl[x].by \in Boxes /\ x \notin Boxes
                      /\ pl[x].at = "minvent" => pl[x].by \in Mon
  <2>1. CASE place[o].at \in {"contained", "minvent"} \/ replace_object(place[o]).at = "minvent"
    <3>1. pl[o2] = place[o]
      BY <1>2, <1>3, <2>1, ReplacedHere
    <3> QED BY <3>1, <1>1, <1>3, <1>6 DEF Shape
  <2>2. CASE ~(place[o].at \in {"contained", "minvent"} \/ replace_object(place[o]).at = "minvent")
    <3>1. pl[o2].at # "contained" /\ pl[o2].at # "minvent"
      BY <1>2, <1>3, <2>2, ReplacedHere
    <3> QED BY <3>1, <1>1, <1>3 DEF Shape
  <2> QED BY <2>1, <2>2
<1>15. Dropping' /\ MonstersStay /\ \A m \in Mon : Count(timer_base, m) > 0 => Here(m)'
  BY MonstersAsTheyAre DEF Still, unchangedWorld
<1>16. \A m \in Mon : Count(q, m) > 0 => Here(m)'
  <2>1. \A m \in Mon : m \in Owners \ {o, o2}
    BY OwnersDistinct DEF Owners
  <2> QED BY <2>1, <1>15
<1>17. S \subseteq O
  BY <1>4, <1>5
<1>18. Freeable(S, pl, q, tm, O)
  BY <1>3, <1>5, <1>9, <1>10, <1>11, <1>13, <1>14, <1>16, <1>17 DEF Freeable
<1>19. phase' = phase /\ todo' = <<>> /\ phase # "saved" /\ todo = <<>>
  BY DEF unchangedLoop, Still
<1>20. \A a \in Owners : ~(Count(todo', a) > 0)
  BY <1>19, NEmpty DEF Count
<1> QED
  BY <1>4, <1>15, <1>18, <1>19, <1>20, FreeStep

(* PolyObj keeps OwnInv.                                                   *)
LEMMA PolyObjOwn ==
  ASSUME OwnInv, IInv', NEW o \in Obj, NEW o2 \in Obj, PolyObj(o, o2)
  PROVE  OwnInv'
<1>1. /\ Still /\ place[o] \in {Invent, Floor(uz)} /\ place[o2] = Gone /\ SameClass(o, o2)
      /\ UNCHANGED mplace /\ unchangedWorld /\ unchangedLoop
  BY PlayingStill DEF PolyObj
<1>2. IInv /\ uz \in Level /\ timed[o2] = 0 /\ Count(timer_base, o2) = 0 /\ timed \in [Obj -> Int]
  BY <1>1, GoneCounted, InvUnfolded DEF OwnInv
<1>3. PlaceHere(Outer(o, place), uz, mplace) /\ o # o2
  <2>1. place[o] # Gone
    BY <1>1 DEF Gone, Invent, Floor, At
  <2> QED BY <1>1, <1>2, <2>1, HandyHere, OuterSelf
<1>4. PICK r \in mksobj(timer_base, o2, TRUE), d \in Delays, h \in BOOLEAN :
       obfree({o}, [place EXCEPT ![o2] = replace_object(place[o])],
              IF h THEN start_timer(r[1], d, "UNPOLY_OBJ", o2) ELSE r[1],
              [timed EXCEPT ![o2] = r[2] + IF h THEN 1 ELSE 0])
  BY DEF PolyObj, set_obj_poly
<1> DEFINE q == IF h THEN start_timer(r[1], d, "UNPOLY_OBJ", o2) ELSE r[1]
           t1 == [timed EXCEPT ![o2] = @ + r[2]]
           tm == [timed EXCEPT ![o2] = r[2] + IF h THEN 1 ELSE 0]
<1>5. Books(r[1], t1, o2)
  BY <1>2, BooksAsTheyAre, BooksMksobj
<1>6. r[2] \in Int
  BY <1>2, InvUnfolded, MksobjQueue
<1>7. Books(q, tm, o2)
  <2>1. CASE h
    <3>1. "UNPOLY_OBJ" \in Funcs
      BY DEF Funcs, ObjFuncs
    <3>2. t1 \in [Obj -> Int] /\ t1[o2] = r[2] /\ \A x \in Obj \ {o2} : t1[x] = timed[x]
      BY <1>2, <1>6
    <3>3. tm \in [Obj -> Int] /\ tm[o2] = r[2] + 1 /\ \A x \in Obj \ {o2} : tm[x] = timed[x]
      BY <1>2, <1>6, <2>1
    <3>4. q = start_timer(r[1], d, "UNPOLY_OBJ", o2)
      BY <2>1
    <3> HIDE DEF t1, tm, q
    <3>5. [t1 EXCEPT ![o2] = @ + 1] = tm
      <4> DEFINE t2 == [t1 EXCEPT ![o2] = @ + 1]
      <4>1. t2 \in [Obj -> Int] /\ t2[o2] = r[2] + 1 /\ \A x \in Obj \ {o2} : t2[x] = timed[x]
        BY <3>2, <1>6
      <4> HIDE DEF t2
      <4>2. t2 = tm
        BY <3>3, <4>1
      <4> QED BY <4>2 DEF t2
    <3>6. Books(start_timer(r[1], d, "UNPOLY_OBJ", o2), [t1 EXCEPT ![o2] = @ + 1], o2)
      BY <1>2, <1>5, <3>1, BooksStart
    <3> QED BY <3>4, <3>5, <3>6, Zenon
  <2>2. CASE ~h
    <3>1. q = r[1]
      BY <2>2
    <3>2. t1 \in [Obj -> Int] /\ t1[o2] = r[2] /\ \A x \in Obj \ {o2} : t1[x] = timed[x]
      BY <1>2, <1>6
    <3>3. tm \in [Obj -> Int] /\ tm[o2] = r[2] /\ \A x \in Obj \ {o2} : tm[x] = timed[x]
      BY <1>2, <1>6, <2>2
    <3> HIDE DEF t1, tm, q
    <3>4. t1 = tm
      BY <3>2, <3>3
    <3> QED BY <1>5, <3>1, <3>4, Zenon
  <2> QED BY <2>1, <2>2
<1>8. obfree({o}, [place EXCEPT ![o2] = replace_object(place[o])], q, tm)
  BY <1>4
<1> HIDE DEF q, tm
<1>9. \A a \in Owners \ {o, o2} : Count(q, a) = Count(timer_base, a)
  BY <1>7 DEF Books
<1>10. q \in Queue /\ tm \in [Obj -> Int]
       /\ \A x \in Obj : tm[x] - Count(q, x) = timed[x] - Count(timer_base, x)
  BY <1>2, <1>7, BooksNumbers
<1> QED
  BY <1>1, <1>3, <1>8, <1>9, <1>10, ReplaceStep

-----------------------------------------------------------------------------
(* Boxes that break or rot, stacks that split, objects that move.          *)

(* The timers that start when bodies leave an ice box are theirs.          *)
LEMMA ThawOwners ==
  ASSUME ClockOK, NEW S \in SUBSET Obj, NEW w \in ThawTimers(S), NEW a, Count(w, a) > 0
  PROVE  a \in S
<1>1. PICK s \in SetToSeqs(S), d \in LateDelays, f \in [S -> Decay] :
            w = [i \in DOMAIN s |-> Expiring(d, f[s[i]], s[i])]
  BY DEF ThawTimers
<1>2. s \in [1 .. Cardinality(S) -> S]
  BY DEF SetToSeqs
<1>3. w \in Seq(Timer)
  BY ThawOK
<1>4. PICK i \in DOMAIN w : w[i].arg = a
  BY <1>3, CountPositive
<1>5. i \in DOMAIN s /\ w[i].arg = s[i]
  BY <1>1, <1>4 DEF Expiring
<1> QED
  BY <1>2, <1>4, <1>5

(* So are those of what a rotten container buries.                         *)
LEMMA SpillOwners ==
  ASSUME ClockOK, NEW S \in SUBSET Obj, NEW s \in SetToSeqs(S), NEW d \in Delays,
         NEW w, w = [i \in DOMAIN s |-> Expiring(d, "ROT_ORGANIC", s[i])], NEW a, Count(w, a) > 0
  PROVE  a \in S
<1>1. s \in [1 .. Cardinality(S) -> S]
  BY DEF SetToSeqs
<1>2. w \in Seq(Timer)
  BY SpillOK
<1>3. PICK i \in DOMAIN w : w[i].arg = a
  BY <1>2, CountPositive
<1>4. i \in DOMAIN s /\ w[i].arg = s[i]
  BY <1>3 DEF Expiring
<1> QED
  BY <1>1, <1>3, <1>4

(* A box is freed; some of what was in it comes out, and may get timers.   *)
LEMMA SpillStep ==
  ASSUME OwnInv, IInv', Still, UNCHANGED mplace, unchangedWorld, phase' = phase,
         phase \notin {"getlev", "restore"},
         NEW b \in Obj, NEW p \in Place, NEW out \in SUBSET Contents(b), NEW pl,
         pl = [x \in Obj |-> IF x \in out THEN p ELSE place[x]],
         NEW q, NEW tm, Books(q, tm, b), obfree({b}, pl, q, tm),
         PlaceHere(Outer(b, place), uz, mplace), PlaceHere(p, uz, mplace),
         p.at # "contained", p.at = "minvent" => p.by \in Mon,
         \A a \in Owners : Count(todo', a) > 0 => a \in out
  PROVE  OwnInv'
<1> DEFINE S == {b}
           O == {b} \cup {x \in Obj : place[x].at = "contained" /\ place[x].by = b}
<1>1. IInv /\ Shape /\ place \in [Obj -> Place] /\ uz \in Level
  BY InvUnfolded DEF OwnInv
<1>2. pl \in [Obj -> Place] /\ \A x \in Obj : pl[x] = IF x \in out THEN p ELSE place[x]
  BY <1>1
<1>3. \A x \in Contents(b) : /\ x \in Obj /\ place[x].at = "contained" /\ place[x].by = b
                             /\ b \in Boxes /\ x # b
  BY <1>1, InABox DEF Contents
<1>4. out \in SUBSET O /\ b \notin out /\ out \in SUBSET Obj
  BY <1>3
<1>5. S = {b} /\ obfree(S, pl, q, tm)
  OBVIOUS
<1>6. /\ b \in O /\ O \in SUBSET Obj
      /\ \A x \in O : x # b => place[x].at = "contained" /\ place[x].by = b /\ b \in Boxes
      /\ \A x \in Obj : place[x].at = "contained" /\ place[x].by \in O => x \in O
  BY <1>1 DEF Shape
<1> HIDE DEF S, O
<1>7. q \in Queue /\ tm \in [Obj -> Int] /\ \A x \in Obj : tm[x] - Count(q, x) = timed[x] - Count(timer_base, x)
  BY <1>1, BooksNumbers
<1>8. \A x \in Obj \ O : pl[x] = place[x] /\ Count(q, x) = Count(timer_base, x)
  <2>1. \A x \in Obj \ O : x \in Owners \ {b} /\ x \notin out
    BY <1>4, <1>6 DEF Owners
  <2> QED BY <2>1, <1>2 DEF Books
<1>9. \A x \in O : PlaceHere(Outer(x, place), uz, mplace)
  <2>1. ASSUME NEW x \in O, x # b PROVE Outer(x, place) = Outer(b, place)
    <3>1. place[x].at = "contained" /\ place[x].by = b /\ place[b].at # "contained"
      BY <1>1, <1>6, <2>1 DEF Shape
    <3> QED BY <3>1 DEF Outer
  <2> QED BY <2>1
<1>10. \A x \in out : Outer(x, pl) = p /\ pl[x] = p
  BY <1>2, <1>4 DEF Outer
<1>11. ASSUME NEW x \in O PROVE x \in Freed(S, pl) \/ x \in out
  <2>1. CASE x = b
    BY <2>1, <1>5 DEF Freed
  <2>2. CASE x # b /\ x \notin out
    <3>1. x \in Obj /\ pl[x] = place[x] /\ place[x].at = "contained" /\ place[x].by = b
      BY <1>2, <1>6, <2>2
    <3>2. pl[x] = In(b)
      <4>1. place[x] \in Place
        BY <1>1, <3>1
      <4> QED BY <3>1, <4>1 DEF Place, In, At
    <3> QED BY <3>1, <3>2, <1>5 DEF Freed
  <2> QED BY <2>1, <2>2
<1>12. \A x \in O : x \notin Freed(S, pl) => PlaceHere(Outer(x, pl), uz, mplace')
  BY <1>10, <1>11
<1>13. \A x \in Obj : /\ pl[x].at = "contained" => pl[x].by \in Boxes /\ x \notin Boxes
                      /\ pl[x].at = "minvent" => pl[x].by \in Mon
  BY <1>1, <1>2 DEF Shape
<1>14. Dropping' /\ MonstersStay /\ \A m \in Mon : Count(timer_base, m) > 0 => Here(m)'
  BY MonstersAsTheyAre DEF Still, unchangedWorld
<1>15. \A m \in Mon : Count(q, m) > 0 => Here(m)'
  <2>1. \A m \in Mon : m \in Owners \ {b}
    BY OwnersDistinct DEF Owners
  <2> QED BY <2>1, <1>14 DEF Books
<1>a. S \subseteq O /\ pl \in [Obj -> Place]
  BY <1>2, <1>5, <1>6
<1>16. Freeable(S, pl, q, tm, O)
  BY <1>a, <1>6, <1>7, <1>8, <1>9, <1>12, <1>13, <1>15 DEF Freeable
<1>17. \A a \in Owners : Count(todo', a) > 0 => Here(a)'
  <2> SUFFICES ASSUME NEW a \in Owners, Count(todo', a) > 0 PROVE Here(a)'
    OBVIOUS
  <2>1. a \in out /\ a \in Obj /\ a # b
    BY <1>4
  <2>2. pl[a] = p /\ p # In(b)
    BY <2>1, <1>10 DEF In, At
  <2>3. a \notin Freed(S, pl)
    BY <2>1, <2>2, <1>5 DEF Freed
  <2>4. place'[a] = p
    BY <2>1, <2>2, <2>3, <1>5 DEF obfree
  <2>5. PlaceHere(Outer(a, place'), uz', mplace')
    BY <2>4 DEF Outer, unchangedWorld
  <2> QED BY <2>1, <2>5, OwnersPlaceNext
<1> QED
  BY <1>5, <1>14, <1>16, <1>17, FreeStep DEF Still

(* BreakBox keeps OwnInv.                                                  *)
LEMMA BreakBoxOwn ==
  ASSUME OwnInv, IInv', NEW b \in Boxes, NEW p \in Handy, BreakBox(b, p)
  PROVE  OwnInv'
<1>1. /\ Still /\ phase = "play" /\ place[b] = Floor(uz) /\ b \in Obj
      /\ UNCHANGED <<mplace, phase>> /\ unchangedWorld
  BY PlayingStill DEF BreakBox, Playing, Boxes, Obj
<1>2. PICK out \in SUBSET Contents(b) :
            /\ obfree({b}, [o \in Obj |-> IF o \in out THEN p ELSE place[o]], timer_base, timed)
            /\ IF b \in LargeBoxes THEN todo' = <<>>
               ELSE \E S \in SUBSET (out \cap Bodies) :
                      /\ out \cap Revivers \subseteq S
                      /\ todo' \in ThawTimers(S)
  BY DEF BreakBox
<1>3. IInv /\ uz \in Level /\ ClockOK /\ p \in Place
  BY ListTypes, HandyPlaces DEF OwnInv, IInv
<1>4. \A a \in Owners : Count(todo', a) > 0 => a \in out
  <2>1. CASE todo' = <<>>
    BY <2>1, NEmpty DEF Count
  <2>2. CASE \E S \in SUBSET (out \cap Bodies) : todo' \in ThawTimers(S)
    <3>1. PICK S \in SUBSET (out \cap Bodies) : todo' \in ThawTimers(S)
      BY <2>2
    <3>2. S \in SUBSET Obj /\ S \subseteq out
      BY DEF Bodies, Obj
    <3> QED BY <1>3, <3>1, <3>2, ThawOwners
  <2> QED BY <1>2, <2>1, <2>2
<1>5. Books(timer_base, timed, b)
  BY <1>1, <1>3, BooksAsTheyAre
<1>6. PlaceHere(Outer(b, place), uz, mplace)
  BY <1>1, <1>3, HandyHere, OuterSelf
<1>7. p.at # "contained" /\ PlaceHere(p, uz, mplace) /\ (p.at = "minvent" => p.by \in Mon)
  BY <1>3, HandyHere
<1> DEFINE pl == [o \in Obj |-> IF o \in out THEN p ELSE place[o]]
<1>8. obfree({b}, pl, timer_base, timed) /\ pl = [o \in Obj |-> IF o \in out THEN p ELSE place[o]]
  BY <1>2
<1> HIDE DEF pl
<1> QED
  BY <1>1, <1>3, <1>4, <1>5, <1>6, <1>7, <1>8, SpillStep

(* rot_organic keeps OwnInv.                                               *)
LEMMA RotOrganicOwn ==
  ASSUME OwnInv, IInv', NEW o \in Obj, rot_organic(o)
  PROVE  OwnInv'
<1> DEFINE out == Contents(o)
           pl == [x \in Obj |-> IF place[x] = In(o) THEN Buried(uz) ELSE place[x]]
<1>1. /\ Still /\ phase \in {"run", "arrive"} /\ UNCHANGED <<mplace, phase>> /\ unchangedWorld
      /\ Fires("ROT_ORGANIC", o)
  BY PlayingStill DEF rot_organic, Fires, Due
<1>2. IInv /\ uz \in Level /\ ClockOK /\ Buried(uz) \in Place
  BY ListTypes, Places DEF OwnInv, IInv
<1>3. \A a \in Owners : Count(todo', a) > 0 => a \in out
  <2>1. PICK S \in SUBSET (Contents(o) \cap Organic) : \E s \in SetToSeqs(S), d \in Delays :
               todo' = [i \in DOMAIN s |-> Expiring(d, "ROT_ORGANIC", s[i])]
    BY DEF rot_organic
  <2>2. S \in SUBSET Obj /\ S \subseteq out
    BY DEF Contents
  <2> QED BY <1>2, <2>1, <2>2, SpillOwners
<1>4. Books(Popped, Uncounted(o), o)
  BY <1>1, <1>2, BooksPopped
<1>5. PlaceHere(Outer(o, place), uz, mplace)
  BY <1>1, FiresHere DEF Owners
<1>6. obfree({o}, pl, Popped, Uncounted(o))
  BY DEF rot_organic
<1>7. pl = [x \in Obj |-> IF x \in out THEN Buried(uz) ELSE place[x]]
  BY DEF Contents
<1>8. /\ Buried(uz).at # "contained" /\ Buried(uz).at # "minvent"
      /\ PlaceHere(Buried(uz), uz, mplace)
  BY <1>2, HandyHere DEF Buried, At
<1> HIDE DEF pl
<1> DEFINE p == Buried(uz)
<1>9. p \in Place /\ p.at # "contained" /\ p.at # "minvent" /\ PlaceHere(p, uz, mplace)
      /\ pl = [x \in Obj |-> IF x \in out THEN p ELSE place[x]]
  BY <1>2, <1>7, <1>8
<1> HIDE DEF p
<1>10. out \in SUBSET Contents(o)
  OBVIOUS
<1> HIDE DEF out
<1> DEFINE q == Popped
           tm == Uncounted(o)
<1>11. Books(q, tm, o) /\ obfree({o}, pl, q, tm)
  BY <1>4, <1>6
<1> HIDE DEF q, tm
<1> QED
  BY <1>1, <1>3, <1>5, <1>9, <1>10, <1>11, SpillStep

(* SplitObj keeps OwnInv.                                                  *)
LEMMA SplitObjOwn ==
  ASSUME OwnInv, IInv', NEW o \in Obj, NEW o2 \in Obj, SplitObj(o, o2)
  PROVE  OwnInv'
<1>1. /\ Still /\ phase = "play" /\ place[o] \in {Invent, Floor(uz)} /\ place[o2] = Gone
      /\ UNCHANGED <<timer_base, mplace, phase>> /\ unchangedWorld
      /\ place' = [place EXCEPT ![o2] = place[o]] /\ timed' = [timed EXCEPT ![o2] = 0]
      /\ todo' = IF timed[o] > 0 THEN copies(timer_base, o, o2) ELSE <<>>
  BY PlayingStill DEF SplitObj, Playing
<1>2. /\ IInv /\ Shape /\ uz \in Level /\ place \in [Obj -> Place] /\ timed \in [Obj -> Int]
      /\ timer_base \in Queue /\ timer_base \in Seq(Timer)
  BY InvUnfolded DEF OwnInv, Queue
<1>3. /\ timed[o2] = 0 /\ Count(timer_base, o2) = 0 /\ Outer(o2, place) = Gone /\ o # o2
      /\ Gone.at = "free"
  BY <1>1, GoneCounted DEF Gone, Invent, Floor, At
<1>4. place[o].at # "contained" /\ place[o].at # "minvent" /\ PlaceHere(place[o], uz, mplace)
  BY <1>1, <1>2, HandyHere DEF Invent, Floor, At
<1>5. place'[o2] = place[o] /\ \A x \in Obj \ {o2} : place'[x] = place[x]
  BY <1>1, <1>2
<1>6. Shape'
  BY <1>2, <1>4, <1>5 DEF Shape
<1> DEFINE O == {o2} \cup {x \in Obj : place[x].at = "contained" /\ place[x].by = o2}
<1>7. Outer(o2, place') = place[o]
  BY <1>4, <1>5 DEF Outer
<1>8. ASSUME NEW x \in O
      PROVE  Outer(x, place) = Gone /\ PlaceHere(Outer(x, place'), uz, mplace')
  <2>1. CASE x = o2
    BY <2>1, <1>1, <1>3, <1>4, <1>7
  <2>2. CASE x # o2
    <3>1. place[x].at = "contained" /\ place[x].by = o2 /\ place'[x] = place[x]
      BY <2>2, <1>5
    <3> QED BY <3>1, <1>1, <1>4, <1>5 DEF Outer
  <2> QED BY <2>1, <2>2
<1>9. ASSUME NEW x \in Obj \ O PROVE Outer(x, place') = Outer(x, place)
  <2>1. place'[x] = place[x] /\ x # o2
    BY <1>5
  <2>2. CASE place[x].at = "contained"
    <3>1. place[x].by \in Obj /\ place[x].by # o2
      BY <1>2, <2>2, <1>9 DEF Shape, Boxes, Obj
    <3> QED BY <2>1, <2>2, <3>1, <1>5 DEF Outer
  <2>3. CASE place[x].at # "contained"
    BY <2>1, <2>3 DEF Outer
  <2> QED BY <2>2, <2>3
<1>10. Dropping' /\ MonstersStay /\ \A m \in Mon : Count(timer_base, m) > 0 => Here(m)'
  <2>1. MonstersStay /\ \A m \in Mon : Count(timer_base, m) > 0 => Here(m)'
    BY <1>1, MonstersAsTheyAre DEF Still, unchangedWorld
  <2> QED BY <2>1, <1>1 DEF Dropping, Still
<1>11. \A a \in Owners : Count(todo', a) > 0 => Here(a)'
  <2> SUFFICES ASSUME NEW a \in Owners, Count(todo', a) > 0 PROVE Here(a)'
    OBVIOUS
  <2>1. Count(<<>>, a) = 0
    BY NEmpty DEF Count
  <2>2. Count(copies(timer_base, o, o2), a) = IF a = o2 THEN Count(timer_base, o) ELSE 0
    BY <1>2, <1>3, NCopies DEF Count
  <2>3. a = o2
    BY <2>1, <2>2, <1>1
  <2>4. PlaceHere(Outer(o2, place'), uz', mplace')
    BY <1>1, <1>4, <1>7 DEF unchangedWorld
  <2> QED BY <2>3, <2>4, OwnersPlaceNext
<1>12. \A x \in Obj : timed'[x] - Count(timer_base', x) = timed[x] - Count(timer_base, x)
  <2>1. timed' = timed
    BY <1>1, <1>2, <1>3
  <2> QED BY <2>1, <1>1
<1>13. O \in SUBSET Obj
  OBVIOUS
<1> HIDE DEF O
<1>14. \A x \in Obj \ O :
         /\ Outer(x, place') = Outer(x, place)
         /\ PlaceHere(Outer(x, place), uz, mplace) => PlaceHere(Outer(x, place), uz, mplace')
         /\ Count(timer_base', x) > 0 => Count(timer_base, x) > 0
  BY <1>1, <1>9
<1>15. \A m \in Mon : Count(timer_base', m) > 0 => Here(m)'
  BY <1>1, <1>10
<1>16. phase' = phase /\ phase # "saved" /\ phase \notin {"getlev", "restore"} /\ todo = <<>>
  BY <1>1 DEF Still
<1> QED
  BY <1>1, <1>6, <1>8, <1>10, <1>11, <1>12, <1>13, <1>14, <1>15, <1>16, TouchStep DEF MonstersStay

(* Cardinality(OnArg) is the number of timers.                             *)
LEMMA OnArgCount ==
  ASSUME NEW q \in Seq(Timer), NEW o
  PROVE  Cardinality(OnArg(q, o)) = Count(q, o)
<1>1. \A i \in DOMAIN q : q[i] \in Timer
  BY ElementOfSeq
<1>2. \A i \in DOMAIN q : q[i] \in Of(Funcs, o) <=> q[i].arg = o
  BY <1>1 DEF Of, Timer
<1>3. OnArg(q, o) = Sel(q, Of(Funcs, o))
  BY <1>2 DEF OnArg, Sel
<1> QED
  BY <1>3, Zenon DEF Count, N, Num

(* ReallocObj keeps OwnInv.                                                *)
LEMMA ReallocObjOwn ==
  ASSUME OwnInv, IInv', NEW o \in Obj, NEW o2 \in Obj, ReallocObj(o, o2)
  PROVE  OwnInv'
<1>1. /\ Still /\ phase = "play" /\ place[o] \in {Invent, Floor(uz)} /\ place[o2] = Gone
      /\ o # o2 /\ SameType(o, o2) /\ UNCHANGED mplace /\ unchangedLoop /\ unchangedWorld
  BY PlayingStill DEF ReallocObj, Playing
<1>2. /\ IInv /\ Shape /\ uz \in Level /\ place \in [Obj -> Place] /\ timed \in [Obj -> Int]
      /\ timer_base \in Queue /\ timer_base \in Seq(Timer)
  BY InvUnfolded DEF OwnInv, Queue
<1>3. /\ timed[o2] = 0 /\ Count(timer_base, o2) = 0 /\ Outer(o2, place) = Gone
      /\ Gone.at = "free" /\ \A b : In(b).at = "contained" /\ In(b).by = b
  BY <1>1, GoneCounted DEF Gone, In, At
<1>4. place[o].at # "contained" /\ place[o].at # "minvent" /\ PlaceHere(place[o], uz, mplace)
  BY <1>1, <1>2, HandyHere DEF Invent, Floor, At
<1>5. timed[o] = Count(timer_base, o) /\ timed[o] \in Nat
  BY <1>1, <1>4, NearCounted, OuterSelf DEF Still
<1>6. ASSUME NEW x \in Obj
      PROVE  x \in Contents(o) <=> place[x].at = "contained" /\ place[x].by = o
  <2>1. place[x] \in Place
    BY <1>2
  <2> QED BY <2>1, <1>3 DEF Contents, Place, In, At
<1>7. /\ place'[o2] = place[o] /\ place'[o] = Gone
      /\ \A x \in Obj \ {o, o2} :
           place'[x] = IF place[x].at = "contained" /\ place[x].by = o THEN In(o2) ELSE place[x]
  <2>1. place' = [x \in Obj |-> CASE x = o2 -> place[o]
                                  [] x = o  -> Gone
                                  [] x \in Contents(o) -> In(o2)
                                  [] OTHER  -> place[x]]
    BY DEF ReallocObj
  <2>2. \A x \in Obj \ {o, o2} : place'[x] = IF x \in Contents(o) THEN In(o2) ELSE place[x]
    BY <2>1
  <2>a. o \notin Contents(o) /\ o2 \notin Contents(o)
    BY <1>1, <1>3, <1>4, <1>6
  <2>3. place'[o2] = place[o]
    BY <2>1, <2>a, <1>1
  <2>4. place'[o] = Gone
    BY <2>1, <2>a, <1>1
  <2>5. \A x \in Obj \ {o, o2} :
          place'[x] = IF place[x].at = "contained" /\ place[x].by = o THEN In(o2) ELSE place[x]
    BY <2>2, <1>6
  <2> QED BY <2>3, <2>4, <2>5
<1>8. o \in Boxes <=> o2 \in Boxes
  BY <1>1, OwnersDistinct DEF SameType, Boxes, Bodies
<1>9. \A x \in Obj : place[x].at = "contained" => place[x].by \in Boxes /\ x \notin Boxes
  BY <1>2 DEF Shape
<1>10. Shape'
  BY <1>2, <1>3, <1>4, <1>7, <1>8, <1>9 DEF Shape
<1> DEFINE O == {o, o2} \cup {x \in Obj : place[x].at = "contained" /\ place[x].by \in {o, o2}}
<1>11. /\ Outer(o, place) = place[o] /\ Outer(o2, place') = place[o] /\ Outer(o, place') = Gone
  BY <1>3, <1>4, <1>7 DEF Outer
<1>12. ASSUME NEW x \in O, x \notin {o, o2}
       PROVE  /\ Outer(x, place) \in {Gone, place[o]}
              /\ Outer(x, place') = place[o]
  <2>1. x \in Obj /\ place[x].at = "contained" /\ place[x].by \in {o, o2}
    BY <1>12
  <2>2. place'[x].at = "contained" /\ place'[x].by = o2
    BY <2>1, <1>3, <1>7, <1>12
  <2> QED BY <2>1, <2>2, <1>1, <1>7 DEF Outer
<1>13. ASSUME NEW x \in Obj \ O PROVE Outer(x, place') = Outer(x, place)
  <2>1. place'[x] = place[x]
    BY <1>7
  <2>2. CASE place[x].at = "contained"
    <3>1. place[x].by \in Obj \ {o, o2} /\ place[x].by \in Boxes
      BY <1>9, <1>13, <2>2 DEF Boxes, Obj
    <3>2. place'[place[x].by] = place[place[x].by]
      BY <1>7, <1>9, <3>1
    <3> QED BY <2>1, <2>2, <3>2 DEF Outer
  <2>3. CASE place[x].at # "contained"
    BY <2>1, <2>3 DEF Outer
  <2> QED BY <2>2, <2>3
<1>14. /\ Count(timer_base', o) = 0 /\ timed'[o] = 0 /\ timed'[o2] = Count(timer_base', o2)
       /\ \A a \in Owners \ {o, o2} : Count(timer_base', a) = Count(timer_base, a)
       /\ \A x \in Obj \ {o, o2} : timed'[x] = timed[x]
  <2>1. CASE timed[o] > 0
    <3>1. /\ timer_base' = move_timers(timer_base, o, o2)
          /\ timed' = [timed EXCEPT ![o2] = Cardinality(OnArg(timer_base, o)), ![o] = 0]
      BY <2>1 DEF ReallocObj
    <3>2. /\ timed'[o] = 0 /\ timed'[o2] = Cardinality(OnArg(timer_base, o))
          /\ \A x \in Obj \ {o, o2} : timed'[x] = timed[x]
      BY <3>1, <1>1, <1>2
    <3>3. Cardinality(OnArg(timer_base, o)) = Count(timer_base, o)
      BY <1>2, OnArgCount
    <3>4. \A a : Count(timer_base', a) = IF a = o2 THEN Count(timer_base, o)
                                         ELSE IF a = o THEN 0 ELSE Count(timer_base, a)
      BY <3>1, <1>1, <1>2, <1>3, NMove DEF Count
    <3> QED BY <3>2, <3>3, <3>4, <1>1
  <2>2. CASE ~(timed[o] > 0)
    <3>1. timer_base' = timer_base /\ timed' = timed
      BY <2>2 DEF ReallocObj
    <3> QED BY <2>2, <3>1, <1>3, <1>5
  <2> QED BY <2>1, <2>2
<1>15. Dropping' /\ MonstersStay /\ \A m \in Mon : Count(timer_base, m) > 0 => Here(m)'
  BY <1>1, MonstersAsTheyAre DEF Still, unchangedWorld
<1>16. \A m \in Mon : Count(timer_base', m) > 0 => Here(m)'
  <2>1. \A m \in Mon : m \in Owners \ {o, o2}
    BY OwnersDistinct DEF Owners
  <2> QED BY <2>1, <1>14, <1>15
<1>17. \A x \in Obj : timed'[x] - Count(timer_base', x) = timed[x] - Count(timer_base, x)
  <2>1. \A x \in Obj : x \in Owners
    BY DEF Owners
  <2>2. Count(timer_base', o2) \in Nat
    <3>1. timer_base' \in Seq(Timer)
      BY DEF IInv, ObjectsOK, Queue
    <3> QED BY <3>1, CountPositive
  <2> QED BY <2>1, <2>2, <1>3, <1>5, <1>14
<1>18. O \in SUBSET Obj
  OBVIOUS
<1>19. \A x \in Obj \ O :
         /\ Outer(x, place') = Outer(x, place)
         /\ PlaceHere(Outer(x, place), uz, mplace) => PlaceHere(Outer(x, place), uz, mplace')
         /\ Count(timer_base', x) > 0 => Count(timer_base, x) > 0
  <2>1. \A x \in Obj \ O : x \in Owners \ {o, o2}
    BY DEF Owners
  <2> QED BY <2>1, <1>1, <1>13, <1>14
<1>20. \A x \in O :
         /\ Outer(x, place) = Gone \/ PlaceHere(Outer(x, place), uz, mplace)
         /\ \/ Outer(x, place') = Gone /\ Count(timer_base', x) = 0
            \/ PlaceHere(Outer(x, place'), uz, mplace')
  <2>1. \A x \in O : x = o \/ x = o2 \/ x \notin {o, o2}
    OBVIOUS
  <2> QED BY <2>1, <1>1, <1>3, <1>4, <1>11, <1>12, <1>14
<1> HIDE DEF O
<1>21. /\ phase' = phase /\ phase # "saved" /\ todo = <<>> /\ todo' = <<>>
       /\ \A a \in Owners : ~(Count(todo', a) > 0)
  <2>1. phase' = phase /\ todo' = <<>> /\ todo = <<>>
    BY <1>1 DEF unchangedLoop, Still
  <2> QED BY <2>1, <1>1, NEmpty DEF Count
<1> QED
  BY <1>1, <1>10, <1>15, <1>16, <1>17, <1>18, <1>19, <1>20, <1>21, TouchStep DEF MonstersStay

-----------------------------------------------------------------------------
(* Monsters.                                                               *)

(* makemon puts a monster on the hero's level.                             *)
LEMMA MonstersMade ==
  ASSUME OwnInv, Still, uz' = uz, makemon \/ UNCHANGED mplace
  PROVE  /\ Dropping' /\ MonstersStay
         /\ \A m \in Mon : Count(timer_base, m) > 0 => Here(m)'
<1>1. CASE UNCHANGED mplace
  BY <1>1, MonstersAsTheyAre DEF Still
<1>2. CASE makemon
  <2>1. PICK m \in Mon : mplace[m] = Gone /\ mplace' = [mplace EXCEPT ![m] = OnLevel(uz)]
    BY <1>2 DEF makemon
  <2>2. mplace \in [Mon -> MonPlace] /\ uz \in Level
    BY InvUnfolded DEF OwnInv
  <2>3. mplace'[m] = OnLevel(uz) /\ \A n \in Mon \ {m} : mplace'[n] = mplace[n]
    BY <2>1, <2>2
  <2>4. /\ Gone.at = "free" /\ OnLevel(uz).at = "level"
        /\ \A l \in Level \ {uz} : OnLevel(uz) # OnLevel(l) /\ OnLevel(uz) # Dying(l)
        /\ \A l : Gone # OnLevel(l) /\ Gone # Dying(l)
    BY DEF Gone, OnLevel, Dying, At
  <2>5. Dropping'
    BY <2>3, <2>4 DEF Dropping, Still
  <2>6. \A n \in Mon, l \in Level \ {uz} : MonsterOn(n, l, mplace') <=> MonsterOn(n, l, mplace)
    BY <2>1, <2>3, <2>4 DEF MonsterOn
  <2>7. \A n \in Mon : /\ MonsterOn(n, uz, mplace) => MonsterOn(n, uz, mplace')
                       /\ mplace[n].at = "migrating" => mplace'[n].at = "migrating"
    BY <2>1, <2>3, <2>4 DEF MonsterOn
  <2>8. \A x \in Obj : PlaceHere(place[x], uz, mplace) => PlaceHere(place[x], uz, mplace')
    BY <2>7 DEF OwnInv, Shape, PlaceHere, PlaceOn, PlaceGoes
  <2>9. ASSUME NEW n \in Mon, Count(timer_base, n) > 0 PROVE Here(n)'
    <3>1. Here(n)
      BY <2>9 DEF OwnInv, Kept, Owners
    <3> QED BY <3>1, <2>7, MonsterOwners
  <2> QED BY <2>5, <2>6, <2>8, <2>9 DEF MonstersStay
<1> QED
  BY <1>1, <1>2

(* Only the timers of a monster change.                                    *)
LEMMA MonsterList ==
  ASSUME OwnInv, IInv', Dropping', unchangedWorld, unchangedLoop, phase # "saved", todo = <<>>,
         UNCHANGED <<place, timed>>, MonstersStay, NEW m \in Mon,
         \A a \in Owners \ {m} : Count(timer_base', a) = Count(timer_base, a),
         \A n \in Mon \ {m} : Count(timer_base, n) > 0 => Here(n)',
         Count(timer_base', m) > 0 => Here(m)'
  PROVE  OwnInv'
<1>1. \A x \in Obj : x \in Owners \ {m}
  BY OwnersDistinct DEF Owners
<1>2. \A n \in Mon : Count(timer_base', n) > 0 => Here(n)'
  BY DEF Owners
<1>3. \A x \in Obj : /\ Count(timer_base', x) = Count(timer_base, x)
                     /\ timed'[x] = timed[x]
  BY <1>1
<1>4. \A x \in Obj : timed'[x] - Count(timer_base', x) = timed[x] - Count(timer_base, x)
  BY <1>3
<1>5. \A x \in Obj : Count(timer_base', x) > 0 =>
             Count(timer_base, x) > 0 \/ PlaceHere(Outer(x, place), uz, mplace)
  BY <1>3
<1> QED
  BY <1>2, <1>4, <1>5, ListStep

(* What is done to the timers of a monster concerns no one else.           *)
LEMMA MonsterTimers ==
  ASSUME IInv, NEW q \in Queue, NEW m \in Mon, NEW a \in Owners \ {m}
  PROVE  /\ Count(remove_timer(q, "UNPOLY_MON", m), a) = Count(q, a)
         /\ Count(stop_all(q, m), a) = Count(q, a)
         /\ \A d \in Delays : Count(start_timer(q, d, "UNPOLY_MON", m), a) = Count(q, a)
<1>1. q \in Seq(Timer) /\ Count(q, a) \in Nat /\ m \in Owners /\ ClockOK
  <2>1. q \in Seq(Timer)
    BY DEF Queue
  <2> QED BY <2>1, CountPositive DEF Owners, IInv
<1>2. Count(remove_timer(q, "UNPOLY_MON", m), a) = Count(q, a)
  <2>1. N(remove_timer(q, "UNPOLY_MON", m), Funcs, a) = N(q, Funcs, a) - 0
    BY <1>1, NRemove
  <2> QED BY <1>1, <2>1 DEF Count
<1>3. Count(stop_all(q, m), a) = Count(q, a)
  BY <1>1, NStopAll DEF Count
<1>4. ASSUME NEW d \in Delays PROVE Count(start_timer(q, d, "UNPOLY_MON", m), a) = Count(q, a)
  <2>1. "UNPOLY_MON" \in Funcs
    BY DEF Funcs
  <2>2. N(start_timer(q, d, "UNPOLY_MON", m), Funcs, a) = N(q, Funcs, a) + 0
    BY <1>1, <2>1, NStart
  <2> QED BY <1>1, <2>2 DEF Count
<1> QED
  BY <1>2, <1>3, <1>4

(* m_detach of a monster that has, or has just had, a place on the level:  *)
(* no timer of it is left.                                                 *)
LEMMA DetachStep ==
  ASSUME OwnInv, IInv', Still, phase \in {"play", "run", "arrive"}, NEW m \in Mon, NEW q \in Queue,
         Here(m), m_detach(m, q), UNCHANGED timed, unchangedWorld, unchangedLoop,
         \A a \in Owners \ {m} : Count(q, a) = Count(timer_base, a)
  PROVE  OwnInv'
<1>1. /\ IInv /\ Shape /\ mplace \in [Mon -> MonPlace] /\ uz \in Level
  BY InvUnfolded DEF OwnInv
<1> DEFINE p == IF \E o \in Obj : place[o] = Minvent(m) THEN Dying(uz) ELSE Gone
<1>2. /\ timer_base' = stop_all(q, m) /\ mplace' = [mplace EXCEPT ![m] = p] /\ place' = place
  BY DEF m_detach
<1>3. mplace'[m] = p /\ \A n \in Mon \ {m} : mplace'[n] = mplace[n]
  BY <1>1, <1>2
<1>4. \A a \in Owners \ {m} : Count(timer_base', a) = Count(timer_base, a)
  BY <1>1, <1>2, MonsterTimers
<1>5. Count(timer_base', m) = 0
  <2>1. q \in Seq(Timer)
    BY DEF Queue
  <2> QED BY <2>1, <1>2, NStopAll DEF Count
<1>6. phase' = phase /\ todo' = <<>> /\ todo = <<>> /\ uz' = uz
  BY DEF unchangedLoop, Still, unchangedWorld
<1>7. Dropping'
  BY <1>3, <1>5, <1>6 DEF Dropping, Still
<1>8. MonsterOn(m, uz, mplace) \/ mplace[m].at = "migrating"
  BY MonsterOwners
<1>9. /\ \A l \in Level \ {uz} : Dying(uz) # OnLevel(l) /\ Dying(uz) # Dying(l)
      /\ \A l : Gone # OnLevel(l) /\ Gone # Dying(l)
      /\ \A k, l : OnLevel(k).at # "migrating" /\ Dying(k).at # "migrating"
      /\ \A l \in Level \ {uz} : OnLevel(uz) # OnLevel(l) /\ OnLevel(uz) # Dying(l)
  BY DEF Gone, OnLevel, Dying, At
<1>10. \A n \in Mon, l \in Level \ {uz} : MonsterOn(n, l, mplace') <=> MonsterOn(n, l, mplace)
  BY <1>3, <1>8, <1>9 DEF MonsterOn
<1>11. ASSUME NEW x \in Obj, PlaceHere(place[x], uz, mplace) PROVE PlaceHere(place[x], uz, mplace')
  <2>1. CASE place[x].at # "minvent"
    BY <2>1, <1>11 DEF PlaceHere, PlaceOn, PlaceGoes
  <2>2. CASE place[x].at = "minvent" /\ place[x].by # m
    <3>1. mplace'[place[x].by] = mplace[place[x].by]
      BY <2>2, <1>1, <1>3 DEF Shape
    <3> QED BY <3>1, <1>11 DEF PlaceHere, PlaceOn, PlaceGoes, MonsterOn
  <2>3. CASE place[x].at = "minvent" /\ place[x].by = m
    <3>1. place[x] \in Place
      BY InvUnfolded, <1>1
    <3>2. place[x] = Minvent(m)
      BY <2>3, <3>1 DEF Place, Minvent, At
    <3>3. mplace'[m] = Dying(uz)
      BY <3>2, <1>3
    <3> QED BY <2>3, <3>3 DEF PlaceHere, PlaceOn, MonsterOn
  <2> QED BY <2>1, <2>2, <2>3
<1>12. ASSUME NEW n \in Mon \ {m}, Count(timer_base, n) > 0 PROVE Here(n)'
  <2>1. Here(n) /\ mplace'[n] = mplace[n]
    BY <1>3, <1>12 DEF OwnInv, Kept, Owners
  <2> QED BY <2>1, <1>6, MonsterOwners DEF MonsterOn
<1> HIDE DEF p
<1>13. phase # "saved" /\ UNCHANGED <<place, timed>> /\ MonstersStay
  BY <1>2, <1>10, <1>11 DEF MonstersStay
<1> QED
  BY <1>4, <1>5, <1>6, <1>7, <1>12, <1>13, MonsterList

(* The actions on monsters keep OwnInv.                                    *)
LEMMA HandleMonOwn ==
  ASSUME OwnInv, IInv', HandleMon
  PROVE  OwnInv'
<1>1. /\ IInv /\ uz \in Level /\ timer_base \in Queue /\ timer_base \in Seq(Timer)
      /\ mplace \in [Mon -> MonPlace]
  BY InvUnfolded DEF OwnInv, Queue
<1>2. ASSUME NEW m \in Mon, MakeMon(m) PROVE OwnInv'
  <2>1. /\ Still /\ unchangedWorld /\ unchangedLoop /\ UNCHANGED <<timer_base, timed, place>>
        /\ makemon
    BY <1>2, PlayingStill DEF MakeMon, makemon
  <2>2. Dropping' /\ MonstersStay /\ \A n \in Mon : Count(timer_base, n) > 0 => Here(n)'
    BY <2>1, MonstersMade DEF unchangedWorld
  <2> QED BY <2>1, <2>2, MonsterList DEF Still
<1>3. ASSUME NEW m \in Mon, StopUnpoly(m) \/ \E d \in Delays : PolyMon(m, d) PROVE OwnInv'
  <2>1. /\ Still /\ unchangedWorld /\ unchangedLoop /\ UNCHANGED <<mplace, timed, place>>
        /\ mplace[m] = OnLevel(uz) /\ uz' = uz
    BY <1>3, PlayingStill DEF StopUnpoly, PolyMon, unchangedWorld
  <2>2. remove_timer(timer_base, "UNPOLY_MON", m) \in Queue
    BY <1>1, RemoveQueue
  <2>3. \A a \in Owners \ {m} : Count(timer_base', a) = Count(timer_base, a)
    <3>1. CASE StopUnpoly(m)
      BY <3>1, <1>1, MonsterTimers DEF StopUnpoly
    <3>2. CASE \E d \in Delays : PolyMon(m, d)
      <4>1. PICK d \in Delays :
                 timer_base' = start_timer(remove_timer(timer_base, "UNPOLY_MON", m), d, "UNPOLY_MON", m)
        BY <3>2 DEF PolyMon
      <4> QED BY <4>1, <1>1, <2>2, MonsterTimers
    <3> QED BY <1>3, <3>1, <3>2
  <2>4. Here(m)'
    BY <2>1, MonsterOwners DEF MonsterOn
  <2>5. Dropping' /\ MonstersStay /\ \A n \in Mon : Count(timer_base, n) > 0 => Here(n)'
    BY <2>1, MonstersAsTheyAre DEF Still
  <2> QED BY <2>1, <2>3, <2>4, <2>5, MonsterList DEF Still
<1>4. ASSUME NEW m \in Mon, KillMon(m) PROVE OwnInv'
  <2>1. /\ Still /\ unchangedWorld /\ unchangedLoop /\ UNCHANGED timed /\ phase = "play"
        /\ mplace[m] = OnLevel(uz) /\ m_detach(m, timer_base)
    BY <1>4, PlayingStill DEF KillMon, Playing
  <2>2. Here(m)
    BY <2>1, MonsterOwners DEF MonsterOn
  <2> QED BY <1>1, <2>1, <2>2, DetachStep
<1>5. ASSUME NEW m \in Mon, NEW l \in Level, MigrateMon(m, l) PROVE OwnInv'
  <2>1. /\ Still /\ unchangedWorld /\ unchangedLoop /\ UNCHANGED <<timer_base, timed, place>>
        /\ mplace[m] = OnLevel(uz) /\ mplace' = [mplace EXCEPT ![m] = Bound(l)] /\ uz' = uz
    BY <1>5, PlayingStill DEF MigrateMon, unchangedWorld
  <2>2. mplace'[m] = Bound(l) /\ \A n \in Mon \ {m} : mplace'[n] = mplace[n]
    BY <1>1, <2>1
  <2>3. /\ Bound(l).at = "migrating"
        /\ \A k \in Level \ {uz} : OnLevel(uz) # OnLevel(k) /\ OnLevel(uz) # Dying(k)
        /\ \A k : Bound(l) # OnLevel(k) /\ Bound(l) # Dying(k)
    BY DEF Bound, OnLevel, Dying, At
  <2>4. Dropping'
    BY <2>1, <2>2, <2>3 DEF Dropping, Still
  <2>5. \A n \in Mon, k \in Level \ {uz} : MonsterOn(n, k, mplace') <=> MonsterOn(n, k, mplace)
    BY <2>1, <2>2, <2>3 DEF MonsterOn
  <2>6. \A n \in Mon : MonsterOn(n, uz, mplace) \/ mplace[n].at = "migrating"
                         => MonsterOn(n, uz, mplace') \/ mplace'[n].at = "migrating"
    BY <2>2, <2>3 DEF MonsterOn
  <2>7. \A x \in Obj : PlaceHere(place[x], uz, mplace) => PlaceHere(place[x], uz, mplace')
    BY <2>6 DEF OwnInv, Shape, PlaceHere, PlaceOn, PlaceGoes
  <2>8. ASSUME NEW n \in Mon, Count(timer_base, n) > 0 PROVE Here(n)'
    <3>1. Here(n)
      BY <2>8 DEF OwnInv, Kept, Owners
    <3> QED BY <3>1, <2>1, <2>6, MonsterOwners
  <2> QED BY <2>1, <2>4, <2>5, <2>7, <2>8, MonsterList DEF Still, MonstersStay
<1> QED
  BY <1>2, <1>3, <1>4, <1>5 DEF HandleMon

(* relobj keeps OwnInv.                                                    *)
LEMMA RelobjOwn ==
  ASSUME OwnInv, IInv', NEW m \in Mon, NEW o \in Obj, relobj(m, o)
  PROVE  OwnInv'
<1>1. /\ mplace[m] = Dying(uz) /\ place[o] = Minvent(m) /\ unchangedWorld /\ unchangedLoop
      /\ mplace' = [mplace EXCEPT ![m] = IF \E x \in Obj \ {o} : place[x] = Minvent(m) THEN @ ELSE Gone]
  BY DEF relobj
<1>2. PICK q \in obj_timer_checks(timer_base, o) \cup {timer_base} :
            Settle(o, many[o], Floor(uz), q, timed)
  BY DEF relobj
<1>3. /\ IInv /\ Shape /\ uz \in Level /\ mplace \in [Mon -> MonPlace] /\ timed \in [Obj -> Int]
      /\ timer_base \in Queue /\ place \in [Obj -> Place]
  BY InvUnfolded DEF OwnInv
<1>4. Dying(uz).at = "dying" /\ Gone.at = "free" /\ Minvent(m).at = "minvent" /\ Minvent(m).by = m
  BY DEF Dying, Gone, Minvent, At
<1>5. todo = <<>> /\ phase \in {"play", "run", "arrive"} /\ phase # "saved"
      /\ \A n \in Mon : mplace[n].at = "dying" => Count(timer_base, n) = 0
  BY <1>1, <1>4 DEF OwnInv, Dropping
<1>6. Books(q, timed, o)
  BY <1>3, BooksAsTheyAre, BooksChecks
<1>7. /\ \A n \in Mon \ {m} : mplace'[n] = mplace[n]
      /\ mplace'[m] \in {Dying(uz), Gone}
      /\ (\E x \in Obj \ {o} : place[x] = Minvent(m)) => mplace'[m] = Dying(uz)
  BY <1>1, <1>3
<1>8. PICK F \in {{}, {o}} :
           /\ o \in F => o \notin Boxes
           /\ \A K, a : N(timer_base', K, a) = IF a \in F THEN 0 ELSE N(q, K, a)
           /\ \A x \in Obj : timed'[x] = IF x \in F THEN 0 ELSE timed[x]
           /\ place'[o] = IF o \in F THEN Gone ELSE Floor(uz)
           /\ \A x \in Obj \ {o} : place'[x] = place[x]
  BY <1>2, <1>3, <1>6, SettleEffect DEF Books
<1>9. \A n \in Mon : n \in Owners \ {o} /\ n \notin F
  BY OwnersDistinct DEF Owners
<1>10. Dropping'
  <2>1. ASSUME NEW n \in Mon, mplace'[n].at = "dying" PROVE Count(timer_base', n) = 0
    <3>1. Count(timer_base, n) = 0
      BY <2>1, <1>1, <1>4, <1>5, <1>7
    <3>2. Count(q, n) = 0
      BY <3>1, <1>6, <1>9 DEF Books
    <3> QED BY <3>2, <1>8, <1>9 DEF Count
  <2> QED BY <2>1, <1>1, <1>5 DEF Dropping, unchangedLoop
<1>11. \A n \in Mon, l \in Level \ {uz} : MonsterOn(n, l, mplace') <=> MonsterOn(n, l, mplace)
  <2>1. /\ \A l \in Level \ {uz} : Dying(uz) # OnLevel(l) /\ Dying(uz) # Dying(l)
        /\ \A l : Gone # OnLevel(l) /\ Gone # Dying(l)
    BY DEF Gone, OnLevel, Dying, At
  <2> QED BY <2>1, <1>1, <1>7 DEF MonsterOn
<1>12. ASSUME NEW n \in Mon, Count(timer_base, n) > 0 PROVE Here(n)'
  <2>1. n # m
    BY <1>1, <1>4, <1>5, <1>12
  <2>2. Here(n)
    BY <1>12 DEF OwnInv, Kept, Owners
  <2> QED BY <2>1, <2>2, <1>1, <1>7, MonsterOwners DEF MonsterOn, unchangedWorld
<1>13. ASSUME NEW x \in Obj \ {o}, PlaceHere(place[x], uz, mplace)
       PROVE  PlaceHere(place[x], uz, mplace')
  <2>1. CASE place[x].at # "minvent"
    BY <2>1, <1>13 DEF PlaceHere, PlaceOn, PlaceGoes
  <2>2. CASE place[x].at = "minvent" /\ place[x].by # m
    <3>1. mplace'[place[x].by] = mplace[place[x].by]
      BY <2>2, <1>3, <1>7 DEF Shape
    <3> QED BY <3>1, <1>13 DEF PlaceHere, PlaceOn, PlaceGoes, MonsterOn
  <2>3. CASE place[x].at = "minvent" /\ place[x].by = m
    <3>1. place[x] = Minvent(m)
      <4>1. place[x] \in Place
        BY <1>3
      <4> QED BY <2>3, <4>1 DEF Place, Minvent, At
    <3>2. mplace'[m] = Dying(uz)
      BY <3>1, <1>7
    <3> QED BY <2>3, <3>2 DEF PlaceHere, PlaceOn, MonsterOn
  <2> QED BY <2>1, <2>2, <2>3
<1>14. PlaceHere(Outer(o, place), uz, mplace)
  BY <1>1, <1>4 DEF Outer, PlaceHere, PlaceOn, MonsterOn
<1>15. GoodPlace(o, Floor(uz), mplace')
  BY DEF GoodPlace, PlaceHere, PlaceOn, Floor, At
<1> QED
  BY <1>1, <1>2, <1>5, <1>6, <1>10, <1>11, <1>12, <1>13, <1>14, <1>15, SettleStep

(* obj_delivery keeps OwnInv.                                              *)
LEMMA DeliveryOwn ==
  ASSUME OwnInv, IInv', NEW o \in Obj, obj_delivery(o)
  PROVE  OwnInv'
<1>1. /\ Still /\ UNCHANGED mplace /\ unchangedWorld /\ unchangedLoop
      /\ place[o] \in {Bound(uz), Trailing(uz)}
  BY DEF obj_delivery, Delivered, Still, OwnInv, Dropping
<1>2. IInv /\ uz \in Level
  BY ListTypes DEF OwnInv
<1>3. PlaceHere(Outer(o, place), uz, mplace) /\ GoodPlace(o, Floor(uz), mplace)
  BY <1>1, <1>2, HandyHere, BoundHere, OuterSelf
<1>4. Books(timer_base, timed, o)
  BY <1>2, BooksAsTheyAre
<1>5. CASE \E q \in obj_timer_checks(timer_base, o) \cup {timer_base} :
             Settle(o, many[o], Floor(uz), q, timed)
  <2>1. PICK q \in obj_timer_checks(timer_base, o) \cup {timer_base} :
             Settle(o, many[o], Floor(uz), q, timed)
    BY <1>5
  <2>2. Books(q, timed, o)
    BY <1>2, <1>4, BooksChecks
  <2> QED BY <1>1, <1>3, <2>1, <2>2, PlaySettle
<1>6. CASE obfree({o}, place, timer_base, timed)
  BY <1>1, <1>3, <1>4, <1>6, PlayDestroy
<1> QED
  BY <1>5, <1>6 DEF obj_delivery

-----------------------------------------------------------------------------
(* The callbacks.                                                          *)

(* What the callbacks do with the object whose timer has gone off.         *)
LEMMA OutcomesOwn ==
  ASSUME OwnInv, IInv', NEW f, NEW o \in Obj, Fires(f, o), makemon \/ UNCHANGED mplace,
         unchangedWorld, unchangedLoop,
         \/ RotInstead(o)
         \/ TimerSpent(o)
         \/ obfree({o}, place, Popped, Uncounted(o))
         \/ UNCHANGED <<timed, place>> /\ \E d \in Delays, g \in Funcs :
                                             timer_base' = start_timer(Popped, d, g, o)
  PROVE  OwnInv'
<1>1. Still /\ IInv /\ uz' = uz
  BY PlayingStill DEF Fires, OwnInv, unchangedWorld
<1>2. PlaceHere(Outer(o, place), uz, mplace)
  BY FiresHere DEF Owners
<1>3. Dropping' /\ MonstersStay /\ \A m \in Mon : Count(timer_base, m) > 0 => Here(m)'
  BY <1>1, MonstersMade
<1>4. Books(Popped, Uncounted(o), o)
  BY <1>1, BooksPopped
<1>5. CASE UNCHANGED <<timed, place>> /\ \E d \in Delays \cup LateDelays, g \in Funcs :
                                            timer_base' = start_timer(Popped, d, g, o)
  <2>1. PICK d \in Delays \cup LateDelays, g \in Funcs : timer_base' = start_timer(Popped, d, g, o)
    BY <1>5
  <2>2. Books(start_timer(Popped, d, g, o), timed, o)
    BY <1>1, BooksAgain
  <2>3. Books(timer_base', timed', o)
    BY <2>1, <2>2, <1>5, Zenon
  <2> QED BY <1>1, <1>2, <1>3, <1>5, <2>3, PlayList DEF Still
<1>6. CASE RotInstead(o)
  <2>1. "ROT_CORPSE" \in Funcs
    BY DEF Funcs, ObjFuncs, Decay
  <2> QED BY <1>5, <1>6, <2>1 DEF RotInstead
<1>7. CASE TimerSpent(o)
  <2>1. Books(timer_base', timed', o)
    BY <1>4, <1>7, Zenon DEF TimerSpent
  <2> QED BY <1>1, <1>2, <1>3, <1>7, <2>1, PlayList DEF Still, TimerSpent
<1>8. CASE obfree({o}, place, Popped, Uncounted(o))
  BY <1>1, <1>2, <1>3, <1>4, <1>8, DestroyStep DEF Still
<1> QED
  BY <1>5, <1>6, <1>7, <1>8

(* unpoly_mon keeps OwnInv.                                                *)
LEMMA UnpolyMonOwn ==
  ASSUME OwnInv, IInv', NEW m \in Mon, unpoly_mon(m)
  PROVE  OwnInv'
<1> DEFINE q == remove_timer(Popped, "UNPOLY_MON", m)
<1>1. /\ Still /\ Fires("UNPOLY_MON", m) /\ unchangedWorld /\ unchangedLoop
      /\ phase \in {"run", "arrive"} /\ UNCHANGED timed
  BY PlayingStill DEF unpoly_mon, Fires, Due
<1>2. IInv /\ timer_base \in Queue /\ timer_base \in Seq(Timer) /\ timer_base # <<>>
      /\ Head(timer_base).arg = m
  BY <1>1, InvUnfolded DEF OwnInv, Queue, Fires, Due
<1>3. Popped \in Queue /\ q \in Queue
  BY <1>2, TailQueue, RemoveQueue DEF Popped
<1>4. Here(m)
  BY <1>1, FiresHere DEF Owners
<1>5. ASSUME NEW a \in Owners \ {m} PROVE Count(q, a) = Count(timer_base, a)
  <2>1. Count(timer_base, a) = Count(Popped, a) + 0
    BY <1>2, NTail DEF Count, Popped
  <2>2. Count(Popped, a) \in Nat
    BY <1>3, CountPositive DEF Queue
  <2>3. Count(q, a) = Count(Popped, a)
    BY <1>2, <1>3, MonsterTimers
  <2> QED BY <2>1, <2>2, <2>3
<1>6. (timer_base' = q /\ UNCHANGED <<place, mplace>>) \/ m_detach(m, q)
  BY DEF unpoly_mon
<1> HIDE DEF q
<1>7. CASE timer_base' = q /\ UNCHANGED <<place, mplace>>
  <2>1. uz' = uz
    BY <1>1 DEF unchangedWorld
  <2>2. Here(m)'
    BY <1>4, <1>7, <2>1, MonsterOwners
  <2>3. Dropping' /\ MonstersStay /\ \A n \in Mon : Count(timer_base, n) > 0 => Here(n)'
    BY <1>1, <1>7, <2>1, MonstersAsTheyAre DEF Still
  <2> QED BY <1>1, <1>5, <1>7, <2>2, <2>3, MonsterList DEF Still
<1>8. CASE m_detach(m, q)
  BY <1>1, <1>3, <1>4, <1>5, <1>8, DetachStep
<1> QED
  BY <1>6, <1>7, <1>8

(* unpoly_obj keeps OwnInv.                                                *)
LEMMA UnpolyObjOwn ==
  ASSUME OwnInv, IInv', NEW o \in Obj, unpoly_obj(o)
  PROVE  OwnInv'
<1> DEFINE q  == remove_timer(Popped, "UNPOLY_OBJ", o)
           tm == Less(Uncounted(o), Popped, "UNPOLY_OBJ", o)
<1>1. /\ Still /\ Fires("UNPOLY_OBJ", o) /\ UNCHANGED mplace /\ unchangedWorld /\ unchangedLoop
  BY PlayingStill DEF unpoly_obj, Fires
<1>2. IInv /\ uz \in Level
  BY ListTypes DEF OwnInv
<1>3. PlaceHere(Outer(o, place), uz, mplace)
  BY <1>1, FiresHere DEF Owners
<1>4. Books(q, tm, o)
  <2>1. "UNPOLY_OBJ" \in Funcs
    BY DEF Funcs, ObjFuncs
  <2>2. Books(Popped, Uncounted(o), o)
    BY <1>1, <1>2, BooksPopped
  <2> QED BY <1>2, <2>1, <2>2, BooksRemove
<1>5. \/ \E o2 \in Obj \ Bodies : \E r \in mksobj(q, o2, FALSE) :
           /\ place[o2] = Gone /\ SameClass(o, o2)
           /\ obfree({o}, [place EXCEPT ![o2] = replace_object(place[o])],
                     r[1], [tm EXCEPT ![o2] = r[2]])
      \/ obfree({o}, place, q, tm)
  BY DEF unpoly_obj
<1> HIDE DEF q, tm
<1>6. CASE obfree({o}, place, q, tm)
  BY <1>1, <1>3, <1>4, <1>6, PlayDestroy
<1>7. ASSUME NEW o2 \in Obj \ Bodies, NEW r \in mksobj(q, o2, FALSE),
             place[o2] = Gone, SameClass(o, o2),
             obfree({o}, [place EXCEPT ![o2] = replace_object(place[o])],
                    r[1], [tm EXCEPT ![o2] = r[2]])
      PROVE  OwnInv'
  <2>1. r[1] = q /\ r[2] = 0
    BY <1>7 DEF mksobj
  <2>2. /\ q \in Queue /\ tm \in [Obj -> Int]
        /\ \A x \in Obj : tm[x] - Count(q, x) = timed[x] - Count(timer_base, x)
    BY <1>2, <1>4, BooksNumbers
  <2>3. timed[o2] = 0 /\ Outer(o2, place) = Gone
    BY <1>1, <1>7, GoneCounted
  <2>4. o2 # o
    BY <1>2, <1>3, <2>3, OnePlace DEF PlaceHere
  <2>5. tm[o2] = 0
    BY <1>4, <2>3, <2>4 DEF Books
  <2>6. [tm EXCEPT ![o2] = r[2]] = tm
    BY <2>1, <2>2, <2>5
  <2>7. obfree({o}, [place EXCEPT ![o2] = replace_object(place[o])], q, tm)
    BY <1>7, <2>1, <2>6, Zenon
  <2>8. \A a \in Owners \ {o, o2} : Count(q, a) = Count(timer_base, a)
    BY <1>4 DEF Books
  <2> QED BY <1>1, <1>3, <1>7, <2>2, <2>4, <2>7, <2>8, ReplaceStep
<1> QED
  BY <1>5, <1>6, <1>7

(* The callbacks keep OwnInv, but for the one that starts the rot of what  *)
(* it has just freed.                                                      *)
LEMMA CallbacksOwn ==
  ASSUME OwnInv, IInv', NEW o \in Obj, ~(moldy_corpse(o) /\ RotOfTheFreed(o)),
         rot_corpse(o) \/ revive_mon(o) \/ moldy_corpse(o) \/ hatch_egg(o)
  PROVE  OwnInv'
<1>1. CASE rot_corpse(o)
  BY <1>1, OutcomesOwn DEF rot_corpse
<1>2. CASE revive_mon(o)
  BY <1>2, OutcomesOwn DEF revive_mon, LastGone
<1>3. CASE moldy_corpse(o)
  BY <1>3, OutcomesOwn DEF moldy_corpse, LastGone
<1>4. CASE hatch_egg(o)
  <2>1. "HATCH_EGG" \in Funcs
    BY DEF Funcs, ObjFuncs
  <2> QED BY <1>4, <2>1, OutcomesOwn DEF hatch_egg
<1> QED
  BY <1>1, <1>2, <1>3, <1>4

-----------------------------------------------------------------------------
(* The loops.                                                              *)

(* Owners stay where they are if nothing moves.                            *)
LEMMA SamePlaces ==
  ASSUME UNCHANGED <<place, mplace, uz>>, NEW a \in Owners
  PROVE  /\ Here(a)' <=> Here(a)
         /\ \A l \in Level : LocalTo(a, l)' <=> LocalTo(a, l)
         /\ Global(a)' <=> Global(a)
<1>1. CASE a \in Mon
  BY <1>1, MonsterOwners DEF MonsterOn
<1>2. CASE a \in Obj
  BY <1>2, OwnersPlace, OwnersPlaceNext
<1> QED
  BY <1>1, <1>2 DEF Owners

(* The program goes on to something else; monsters may arrive.             *)
LEMMA PhaseStep ==
  ASSUME OwnInv, IInv', Dropping', MonstersStay, todo = <<>>, phase # "saved", phase' # "saved",
         UNCHANGED <<timer_base, timed, place, uz, file, gsave, todo>>,
         \A m \in Mon : Count(timer_base, m) > 0 => Here(m)'
  PROVE  OwnInv'
<1>1. Shape /\ Shape' /\ uz \in Level
  BY ListTypes DEF OwnInv, Shape
<1>2. ASSUME NEW a \in Owners, NEW l \in Level \ {uz} PROVE LocalTo(a, l)' <=> LocalTo(a, l)
  <2>1. CASE a \in Mon
    BY <2>1, MonsterOwners DEF MonstersStay
  <2>2. CASE a \in Obj
    <3>1. Outer(a, place') = Outer(a, place)
      OBVIOUS
    <3> QED BY <2>2, <3>1, <1>1, StaysAway DEF MonstersStay
  <2> QED BY <2>1, <2>2 DEF Owners
<1>3. ASSUME NEW a \in Owners, Count(timer_base, a) > 0 PROVE Here(a)'
  <2>1. CASE a \in Mon
    BY <2>1, <1>3
  <2>2. CASE a \in Obj
    <3>1. PlaceHere(Outer(a, place), uz, mplace)
      BY <2>2, <1>3, OwnersPlace DEF OwnInv, Kept
    <3>2. (IF place[a].at = "contained" THEN place[a].by ELSE a) \in Obj
      BY <2>2, <1>1 DEF Shape, Boxes, Obj
    <3>3. PlaceHere(Outer(a, place), uz, mplace')
      BY <3>1, <3>2 DEF MonstersStay, Outer
    <3> QED BY <2>2, <3>3, OwnersPlaceNext
  <2> QED BY <2>1, <2>2 DEF Owners
<1>4. \A a : Count(<<>>, a) = 0
  BY NEmpty DEF Count
<1>5. \A a \in Owners : Count(timer_base', a) > 0 \/ Count(todo', a) > 0 => Here(a)'
  BY <1>3, <1>4
<1>6. ASSUME NEW o \in Obj
      PROVE  timed'[o] = IF Away(o) THEN timed[o]
                         ELSE Count(timer_base', o) + IF phase' \in {"getlev", "restore"} THEN Count(todo', o) ELSE 0
  <2>1. gsave = <<>> /\ file[uz] = <<>>
    BY DEF OwnInv, Storage
  <2>2. Count(timer_base, o) \in Nat
    BY ListTypes, CountPositive DEF OwnInv
  <2>3. ~Away(o) => timed[o] = Count(timer_base, o)
    BY <1>4, <2>1, <2>2 DEF OwnInv, Counted, Live
  <2> QED BY <1>4, <2>2, <2>3
<1> QED
  BY <1>1, <1>2, <1>5, <1>6, QuietStep

(* Starting, or linking, the next timer of a loop.                         *)
LEMMA NextTimerOwn ==
  ASSUME OwnInv, IInv', StartNext \/ restore_timers
  PROVE  OwnInv'
<1> DEFINE t == Head(todo)
           b == t.arg
<1>1. /\ todo # <<>> /\ timer_base' = insert_timer(timer_base, t) /\ todo' = Tail(todo)
      /\ phase # "saved" /\ phase' = phase
      /\ UNCHANGED <<place, mplace, uz, file, gsave>>
  BY DEF StartNext, restore_timers, unchangedWorld
<1>2. IInv /\ timer_base \in Seq(Timer) /\ todo \in Seq(Timer) /\ timed \in [Obj -> Int] /\ uz \in Level
  BY ListTypes, InvUnfolded DEF OwnInv
<1>3. t \in Timer /\ todo' \in Seq(Timer) /\ timer_base' \in Seq(Timer)
  BY <1>1, <1>2, HeadTailProperties DEF IInv, ObjectsOK, Queue, LoopOK
<1>4. t.func \in Funcs /\ b \in Owners
  BY <1>3 DEF Timer, Owners
<1> HIDE DEF t
<1>5. \A a : Count(todo, a) = Count(todo', a) + IF b = a THEN 1 ELSE 0
  <2>1. \A a : N(todo, Funcs, a) = N(Tail(todo), Funcs, a) + IF t.func \in Funcs /\ t.arg = a THEN 1 ELSE 0
    BY <1>1, <1>2, NTail DEF t
  <2> QED BY <2>1, <1>1, <1>4 DEF Count
<1>6. \A a : Count(timer_base', a) = Count(timer_base, a) + IF b = a THEN 1 ELSE 0
  <2>1. \A a : N(insert_timer(timer_base, t), Funcs, a)
                 = N(timer_base, Funcs, a) + IF t.func \in Funcs /\ t.arg = a THEN 1 ELSE 0
    BY <1>2, <1>3, NInsert
  <2> QED BY <2>1, <1>1, <1>4 DEF Count
<1>7. \A a : Count(todo, a) \in Nat /\ Count(todo', a) \in Nat /\ Count(timer_base, a) \in Nat
  BY <1>2, <1>3, CountPositive
<1> HIDE DEF b
<1>8. \A a \in Owners : Count(timer_base', a) > 0 \/ Count(todo', a) > 0 => Here(a)
  <2>1. \A a \in Owners : Count(timer_base', a) > 0 \/ Count(todo', a) > 0
                            => Count(timer_base, a) > 0 \/ Count(todo, a) > 0
    BY <1>5, <1>6, <1>7
  <2> QED BY <2>1 DEF OwnInv, Kept
<1>9. \A a \in Owners : Count(timer_base', a) > 0 \/ Count(todo', a) > 0 => Here(a)'
  BY <1>1, <1>8, SamePlaces
<1>10. \A a \in Owners, l \in Level \ {uz} : LocalTo(a, l)' <=> LocalTo(a, l)
  BY <1>1, SamePlaces
<1>11. Shape' /\ Dropping'
  BY <1>1 DEF OwnInv, Shape, Dropping
<1>12. ASSUME NEW o \in Obj
       PROVE  timed'[o] = IF Away(o) THEN timed[o]
                          ELSE Count(timer_base', o) + IF phase' \in {"getlev", "restore"} THEN Count(todo', o) ELSE 0
  <2>1. o \in Owners /\ timed[o] \in Int
    BY <1>2 DEF Owners
  <2>2. /\ Count(gsave, o) = 0 /\ Count(file[uz], o) = 0
    BY <1>1, NEmpty DEF Count, OwnInv, Storage
  <2>3. ~Away(o) => timed[o] = Count(timer_base, o) + (IF phase \in {"getlev", "restore"} THEN Count(todo, o) ELSE 0)
    BY <1>7, <2>2 DEF OwnInv, Counted, Live, Restoring
  <2>4. CASE StartNext
    <3>1. phase \in {"play", "run", "arrive"} /\ timed' = [timed EXCEPT ![b] = @ + 1]
      BY <2>4 DEF StartNext, b, t
    <3>2. timed'[o] = timed[o] + IF b = o THEN 1 ELSE 0
      BY <3>1, <1>2, <2>1
    <3>3. b = o => ~Away(o)
      <4>1. Count(todo, b) > 0
        BY <1>5, <1>7
      <4>2. Here(b)
        BY <4>1, <1>4 DEF OwnInv, Kept, b
      <4> QED BY <4>2, <1>2, <2>1, HereOrAway
    <3>4. phase' \notin {"getlev", "restore"} /\ phase \notin {"getlev", "restore"}
      BY <1>1, <3>1
    <3> QED BY <2>1, <2>3, <3>2, <3>3, <3>4, <1>6, <1>7
  <2>5. CASE restore_timers
    <3>1. phase \in {"getlev", "restore"} /\ timed' = timed
      BY <2>5 DEF restore_timers
    <3> QED BY <2>1, <2>3, <3>1, <1>1, <1>5, <1>6, <1>7
  <2> QED BY <2>4, <2>5
<1>13. phase' # "saved" /\ UNCHANGED <<uz, file, gsave>> /\ phase # "saved"
  BY <1>1
<1> QED
  BY <1>9, <1>10, <1>11, <1>12, <1>13, QuietStep

(* losedogs, the end of run_timers and of goto_level, and the next turn.   *)
LEMMA PhasesOwn ==
  ASSUME OwnInv, IInv', losedogs \/ EndRunTimers \/ BackToPlay \/ NewTurn
  PROVE  OwnInv'
<1>1. /\ todo = <<>> /\ phase # "saved" /\ phase' # "saved"
      /\ UNCHANGED <<timer_base, timed, place, uz, file, gsave, todo>>
  BY DEF losedogs, EndRunTimers, BackToPlay, NewTurn, Idle, Playing
<1>2. \A m \in Mon : mplace[m].at # "dying"
  BY DEF losedogs, EndRunTimers, BackToPlay, NewTurn, Idle, Playing, OwnInv, Dropping
<1>3. CASE UNCHANGED mplace
  <2>1. Dropping' /\ MonstersStay /\ \A m \in Mon : Count(timer_base, m) > 0 => Here(m)'
    BY <1>1, <1>2, <1>3, MonstersAsTheyAre
  <2> QED BY <1>1, <2>1, PhaseStep
<1>4. CASE losedogs
  <2>1. /\ uz \in Level
        /\ \A m \in Mon : mplace'[m] = IF mplace[m] = Bound(uz) THEN OnLevel(uz) ELSE mplace[m]
    BY <1>4, ListTypes DEF losedogs, OwnInv
  <2>2. /\ OnLevel(uz).at = "level"
        /\ \A l \in Level \ {uz} : OnLevel(uz) # OnLevel(l) /\ OnLevel(uz) # Dying(l)
        /\ \A l : Bound(uz) # OnLevel(l) /\ Bound(uz) # Dying(l)
    BY DEF Bound, OnLevel, Dying, At
  <2>3. Dropping'
    BY <1>2, <2>1, <2>2 DEF Dropping
  <2>4. \A n \in Mon, k \in Level \ {uz} : MonsterOn(n, k, mplace') <=> MonsterOn(n, k, mplace)
    BY <2>1, <2>2 DEF MonsterOn
  <2>5. \A n \in Mon : MonsterOn(n, uz, mplace) \/ mplace[n].at = "migrating"
                         => MonsterOn(n, uz, mplace') \/ mplace'[n].at = "migrating"
    BY <2>1, <2>2 DEF MonsterOn
  <2>6. \A x \in Obj : PlaceHere(place[x], uz, mplace) => PlaceHere(place[x], uz, mplace')
    BY <2>5 DEF OwnInv, Shape, PlaceHere, PlaceOn, PlaceGoes
  <2>7. ASSUME NEW n \in Mon, Count(timer_base, n) > 0 PROVE Here(n)'
    <3>1. Here(n)
      BY <2>7 DEF OwnInv, Kept, Owners
    <3> QED BY <3>1, <1>1, <2>5, MonsterOwners
  <2> QED BY <1>1, <2>3, <2>4, <2>6, <2>7, PhaseStep DEF MonstersStay
<1> QED
  BY <1>3, <1>4 DEF EndRunTimers, BackToPlay, NewTurn

-----------------------------------------------------------------------------
(* Levels and games.                                                       *)

(* What save_timers and unlinking take for local.                          *)
Staying(a, dogs) == IF a \in Mon THEN mon_is_local(a, dogs) ELSE obj_is_local(a, dogs)

(* The timers are parted by their owners.                                  *)
LEMMA Parted ==
  ASSUME OwnInv, NEW dogs, NEW a
  PROVE  /\ Count(Keep(timer_base, LocalTimers(dogs)), a)
              = IF Staying(a, dogs) THEN Count(timer_base, a) ELSE 0
         /\ Count(Keep(timer_base, DOMAIN timer_base \ LocalTimers(dogs)), a)
              = IF Staying(a, dogs) THEN 0 ELSE Count(timer_base, a)
<1> DEFINE q == timer_base
           S == LocalTimers(dogs)
           R == DOMAIN q \ S
<1>1. q \in Seq(Timer)
  BY ListTypes DEF OwnInv
<1>2. S \in SUBSET DOMAIN q /\ \A i \in DOMAIN q : i \in S <=> Staying(q[i].arg, dogs)
  BY DEF LocalTimers, timer_is_local, Staying
<1> HIDE DEF q, S
<1>3. R \in SUBSET DOMAIN q /\ \A i \in DOMAIN q : i \in R <=> ~Staying(q[i].arg, dogs)
  BY <1>2
<1> HIDE DEF R
<1>4. Count(Keep(q, S), a) = IF Staying(a, dogs) THEN Count(q, a) ELSE 0
  <2>1. CASE Staying(a, dogs)
    <3>1. \A i \in DOMAIN q : q[i].arg = a => i \in S
      BY <2>1, <1>2
    <3> QED BY <2>1, <3>1, <1>1, <1>2, NKeep DEF Count
  <2>2. CASE ~Staying(a, dogs)
    <3>1. \A i \in S : q[i].arg # a
      BY <2>2, <1>2
    <3> QED BY <2>2, <3>1, <1>1, <1>2, NKeep DEF Count
  <2> QED BY <2>1, <2>2
<1>5. Count(Keep(q, R), a) = IF Staying(a, dogs) THEN 0 ELSE Count(q, a)
  <2>1. CASE ~Staying(a, dogs)
    <3>1. \A i \in DOMAIN q : q[i].arg = a => i \in R
      BY <2>1, <1>3
    <3> QED BY <2>1, <3>1, <1>1, <1>3, NKeep DEF Count
  <2>2. CASE Staying(a, dogs)
    <3>1. \A i \in R : q[i].arg # a
      BY <2>2, <1>3
    <3> QED BY <2>2, <3>1, <1>1, <1>3, NKeep DEF Count
  <2> QED BY <2>1, <2>2
<1> QED
  BY <1>4, <1>5 DEF q, S, R

(* Who stays on the level k that the hero leaves, and who does not.        *)
LEMMA Leaving ==
  ASSUME OwnInv, NEW dogs \in SUBSET Mon, NEW l, NEW k \in Level, uz = k, place' = place,
         \A m \in dogs : mplace[m] = OnLevel(k), \A m \in Mon : mplace[m].at # "dying",
         \A m \in Mon : mplace'[m] = IF m \in dogs THEN Bound(l) ELSE mplace[m],
         NEW a \in Owners
  PROVE  /\ Here(a) /\ ~Staying(a, dogs) => Global(a)'
         /\ Here(a) /\ Staying(a, dogs) <=> LocalTo(a, k)'
         /\ \A j \in Level \ {k} : LocalTo(a, j)' <=> LocalTo(a, j)
         /\ Global(a)' => \A j \in Level : ~LocalTo(a, j)'
<1>1. /\ Bound(l).at = "migrating"
      /\ \A j : /\ Bound(l) # OnLevel(j) /\ Bound(l) # Dying(j)
                /\ OnLevel(j).at = "level" /\ Dying(j).at = "dying"
      /\ \A j \in Level \ {k} : OnLevel(k) # OnLevel(j) /\ OnLevel(k) # Dying(j)
  BY DEF Bound, OnLevel, Dying, At
<1> DEFINE here(m) == MonsterOn(m, k, mplace)
           goes(m) == mplace[m].at = "migrating"
           stays(m) == mon_is_local(m, dogs)
<1>2. ASSUME NEW m \in Mon
      PROVE  /\ here(m) \/ goes(m) => (stays(m) <=> MonsterOn(m, k, mplace'))
             /\ here(m) \/ goes(m) => (~stays(m) <=> mplace'[m].at = "migrating")
             /\ MonsterOn(m, k, mplace') => here(m)
             /\ \A j \in Level \ {k} : MonsterOn(m, j, mplace') <=> MonsterOn(m, j, mplace)
             /\ mplace'[m].at = "migrating" => \A j \in Level : ~MonsterOn(m, j, mplace')
             /\ stays(m) => ~goes(m)
  BY <1>1 DEF MonsterOn, mon_is_local
<1>3. CASE a \in Mon
  <2>1. /\ \A j \in Level : LocalTo(a, j)' <=> MonsterOn(a, j, mplace')
        /\ \A j \in Level : LocalTo(a, j) <=> MonsterOn(a, j, mplace)
        /\ Global(a)' <=> mplace'[a].at = "migrating"
        /\ Here(a) <=> here(a) \/ goes(a)
        /\ Staying(a, dogs) <=> stays(a)
    BY <1>3, MonsterOwners DEF Staying
  <2> HIDE DEF here, goes, stays
  <2> QED BY <1>2, <1>3, <2>1
<1>4. CASE a \in Obj
  <2> DEFINE p == Outer(a, place)
  <2>1. /\ \A j \in Level : LocalTo(a, j)' <=> PlaceOn(p, j, mplace')
        /\ \A j \in Level : LocalTo(a, j) <=> PlaceOn(p, j, mplace)
        /\ Global(a)' <=> PlaceGoes(p, mplace')
        /\ Here(a) <=> PlaceHere(p, k, mplace)
    BY <1>4, OwnersPlace, OwnersPlaceNext
  <2>2. /\ p.at = "minvent" => p.by \in Mon
    BY <1>4 DEF OwnInv, Shape, Outer, Boxes, Obj
  <2>3. Staying(a, dogs) <=> p.at \in {"floor", "buried"} \/ (p.at = "minvent" /\ stays(p.by))
    BY <1>4, OwnersDistinct DEF Staying, obj_is_local, Outer, Outermost
  <2>4. /\ \A j : Floor(j).at = "floor" /\ Buried(j).at = "buried"
        /\ \A j \in Level \ {k} : {Floor(j), Buried(j)} \cap {Floor(k), Buried(k)} = {}
    BY DEF Floor, Buried, At
  <2> HIDE DEF p, here, goes, stays
  <2>5. CASE p.at = "minvent"
    <3>1. /\ \A j \in Level : PlaceOn(p, j, mplace') <=> MonsterOn(p.by, j, mplace')
          /\ \A j \in Level : PlaceOn(p, j, mplace) <=> MonsterOn(p.by, j, mplace)
          /\ PlaceGoes(p, mplace') <=> mplace'[p.by].at = "migrating"
          /\ PlaceHere(p, k, mplace) <=> here(p.by) \/ goes(p.by)
      BY <2>4, <2>5 DEF PlaceOn, PlaceGoes, PlaceHere, here, goes
    <3> QED BY <1>2, <2>1, <2>2, <2>3, <2>5, <3>1
  <2>6. CASE p.at # "minvent"
    <3>1. /\ \A j \in Level : PlaceOn(p, j, mplace') <=> p \in {Floor(j), Buried(j)}
          /\ \A j \in Level : PlaceOn(p, j, mplace) <=> p \in {Floor(j), Buried(j)}
          /\ PlaceGoes(p, mplace') <=> p.at \in {"invent", "migrating", "trailing"}
          /\ PlaceHere(p, k, mplace)
               <=> p \in {Floor(k), Buried(k)} \/ p.at \in {"invent", "migrating", "trailing"}
      BY <2>6 DEF PlaceOn, PlaceGoes, PlaceHere
    <3> QED BY <2>1, <2>3, <2>4, <2>6, <3>1
  <2> QED BY <2>5, <2>6
<1> QED
  BY <1>3, <1>4 DEF Owners

(* No monster is dying while the player may act.                           *)
LEMMA NobodyDies ==
  ASSUME OwnInv, Playing
  PROVE  /\ phase = "play" /\ todo = <<>> /\ gsave = <<>> /\ file[uz] = <<>> /\ uz \in Level
         /\ \A m \in Mon : mplace[m].at # "dying"
         /\ \A a : Count(todo, a) = 0 /\ Count(gsave, a) = 0 /\ Count(file[uz], a) = 0
         /\ \A o \in Obj : ~Away(o) => timed[o] = Count(timer_base, o)
<1>1. phase = "play" /\ todo = <<>> /\ \A m \in Mon : mplace[m].at # "dying"
  BY DEF Playing, Idle
<1>2. gsave = <<>> /\ file[uz] = <<>> /\ uz \in Level
  BY <1>1, ListTypes DEF OwnInv, Storage
<1>3. \A a : Count(todo, a) = 0 /\ Count(gsave, a) = 0 /\ Count(file[uz], a) = 0
  BY <1>1, <1>2, NEmpty DEF Count
<1>4. ASSUME NEW o \in Obj, ~Away(o) PROVE timed[o] = Count(timer_base, o)
  <2>1. Count(timer_base, o) \in Nat
    BY ListTypes, CountPositive DEF OwnInv
  <2> QED BY <2>1, <1>1, <1>3, <1>4 DEF OwnInv, Counted, Live, Restoring
<1> QED
  BY <1>1, <1>2, <1>3, <1>4

(* goto_level, from the level k: what stays behind takes its timers into   *)
(* the file.                                                               *)
LEMMA GotoLevelFrom ==
  ASSUME OwnInv, IInv', NEW k \in Level, uz = k, NEW l \in Level, NEW dogs \in SUBSET Mon,
         GotoLevel(l, dogs)
  PROVE  OwnInv'
<1> DEFINE B(a) == Count(timer_base, a)
           F(j, a) == Count(file[j], a)
           S(a) == Staying(a, dogs)
           stay == Keep(timer_base, LocalTimers(dogs))
           rest == Keep(timer_base, DOMAIN timer_base \ LocalTimers(dogs))
<1>1. /\ Playing /\ l # k /\ \A m \in dogs : mplace[m] = OnLevel(k)
      /\ file' = [file EXCEPT ![k] = stay, ![l] = <<>>]
      /\ timer_base' = rest /\ uz' = l /\ todo' = file[l] /\ phase' = "getlev"
      /\ \A m \in Mon : mplace'[m] = IF m \in dogs THEN Bound(l) ELSE mplace[m]
      /\ UNCHANGED <<timed, place, gsave>>
  BY DEF GotoLevel
<1>2. /\ phase = "play" /\ gsave = <<>>
      /\ \A m \in Mon : mplace[m].at # "dying"
      /\ \A a : Count(gsave, a) = 0
      /\ \A o \in Obj : ~Away(o) => timed[o] = B(o)
  BY <1>1, NobodyDies
<1>3. \A a : /\ Count(stay, a) = IF S(a) THEN B(a) ELSE 0
             /\ Count(rest, a) = IF S(a) THEN 0 ELSE B(a)
  BY Parted
<1>4. ASSUME NEW a \in Owners
      PROVE  /\ Here(a) /\ ~S(a) => Global(a)'
             /\ Here(a) /\ S(a) <=> LocalTo(a, k)'
             /\ \A j \in Level \ {k} : LocalTo(a, j)' <=> LocalTo(a, j)
             /\ Global(a)' => \A j \in Level : ~LocalTo(a, j)'
  BY <1>1, <1>2, <1>4, Leaving
<1>5. /\ \A j \in Level : file[j] \in Seq(Timer)
      /\ timer_base \in Seq(Timer) /\ file \in [Level -> Seq(Timer)]
  BY ListTypes DEF OwnInv, IInv, FilesOK
<1>6. \A a : B(a) \in Nat /\ \A j \in Level : F(j, a) \in Nat
  BY <1>5, CountPositive
<1>7. /\ file'[k] = stay /\ file'[l] = <<>>
      /\ \A j \in Level \ {k, l} : file'[j] = file[j]
  BY <1>1, <1>2, <1>5
<1>8. \A a : /\ Count(file'[k], a) = IF S(a) THEN B(a) ELSE 0
             /\ Count(file'[l], a) = 0
             /\ \A j \in Level \ {k, l} : Count(file'[j], a) = F(j, a)
             /\ Count(timer_base', a) = IF S(a) THEN 0 ELSE B(a)
             /\ Count(todo', a) = F(l, a)
             /\ Count(gsave', a) = 0
  <2>1. \A a : Count(<<>>, a) = 0
    BY NEmpty DEF Count
  <2>2. \A a : Count(file'[k], a) = Count(stay, a) /\ Count(file'[l], a) = Count(<<>>, a)
    BY <1>7
  <2>3. gsave' = <<>>
    BY <1>1, <1>2
  <2>4. \A a : Count(timer_base', a) = Count(rest, a) /\ Count(todo', a) = F(l, a) /\ Count(gsave', a) = 0
    BY <1>1, <2>1, <2>3
  <2>5. \A a : \A j \in Level \ {k, l} : Count(file'[j], a) = F(j, a)
    BY <1>7
  <2> HIDE DEF B, F, S, stay, rest
  <2> QED BY <1>3, <2>1, <2>2, <2>4, <2>5
<1>9. ASSUME NEW a \in Owners
      PROVE  /\ B(a) > 0 => Here(a)
             /\ \A j \in Level \ {k} : F(j, a) > 0 => LocalTo(a, j)
             /\ Here(a) => \A j \in Level \ {k} : ~LocalTo(a, j)
             /\ Away(a) => \E j \in Level \ {k} : LocalTo(a, j)
             /\ (\A j \in Level \ {k} : ~LocalTo(a, j)) => ~Away(a)
             /\ Here(a)' <=> LocalTo(a, l)' \/ Global(a)'
             /\ ~Away(a)' => \A j \in Level \ {l} : ~LocalTo(a, j)'
  BY <1>1, <1>2, HereOrAway DEF OwnInv, Kept, Here, Away
<1>10. \A o \in Obj : \A j \in Level \ {k} : LocalTo(o, j) => timed[o] = F(j, o)
  BY DEF OwnInv, Counted
<1>11. Shape' /\ Storage' /\ Dropping'
  <2>1. Shape' /\ Storage'
    BY <1>1, <1>2, <1>7 DEF OwnInv, Shape, Storage
  <2>2. Bound(l).at # "dying"
    BY DEF Bound, At
  <2>3. Dropping'
    BY <1>1, <1>2, <2>2 DEF Dropping
  <2> QED BY <2>1, <2>3
<1>12. Kept'
  <2> SUFFICES ASSUME NEW a \in Owners
               PROVE  /\ Count(timer_base', a) > 0 => Here(a)'
                      /\ Count(todo', a) > 0 => Here(a)'
                      /\ Count(gsave', a) > 0 => Global(a)'
                      /\ \A j \in Level : Count(file'[j], a) > 0 => LocalTo(a, j)'
    BY DEF Kept
  <2> HIDE DEF B, F, S
  <2>1. Count(timer_base', a) > 0 => Here(a)'
    BY <1>4, <1>6, <1>8, <1>9
  <2>2. Count(todo', a) > 0 => Here(a)'
    BY <1>1, <1>4, <1>6, <1>8, <1>9
  <2>3. ASSUME NEW j \in Level PROVE Count(file'[j], a) > 0 => LocalTo(a, j)'
    BY <1>4, <1>6, <1>8, <1>9
  <2>4. ~(Count(gsave', a) > 0)
    BY <1>8
  <2> QED BY <2>1, <2>2, <2>3, <2>4
<1>13. Counted'
  <2> SUFFICES ASSUME NEW o \in Obj
               PROVE  /\ ~Away(o)' => timed'[o] = Live(o)'
                      /\ \A j \in Level \ {l} : LocalTo(o, j)' => timed'[o] = Count(file'[j], o)
    BY <1>1 DEF Counted
  <2>1. o \in Owners
    BY DEF Owners
  <2>2. Live(o)' = Count(timer_base', o) + F(l, o)
    <3>1. Live(o)' = Count(timer_base', o) + Count(todo', o) + Count(gsave', o) + Count(file'[l], o)
      BY <1>1 DEF Live, Restoring
    <3>2. Count(timer_base', o) \in Nat
      BY <1>6, <1>8
    <3>3. Count(todo', o) = F(l, o) /\ Count(gsave', o) = 0 /\ Count(file'[l], o) = 0 /\ F(l, o) \in Nat
      BY <1>6, <1>8
    <3> HIDE DEF F
    <3> QED BY <3>1, <3>2, <3>3
  <2>3. timed' = timed
    BY <1>1
  <2> HIDE DEF B, F, S
  <2>4. ASSUME ~Away(o)' PROVE timed'[o] = Live(o)'
    <3>1. CASE LocalTo(o, l)
      <4>1. B(o) = 0
        BY <2>1, <3>1, <1>1, <1>6, <1>9
      <4>2. Count(timer_base', o) = 0
        BY <4>1, <1>8
      <4>3. timed[o] = F(l, o) /\ F(l, o) \in Nat
        BY <3>1, <1>1, <1>6, <1>10
      <4> QED BY <4>2, <4>3, <2>2, <2>3
    <3>2. CASE ~LocalTo(o, l)
      <4>1. F(l, o) = 0
        BY <2>1, <3>2, <1>1, <1>6, <1>9
      <4>2. \A j \in Level \ {l} : ~LocalTo(o, j)'
        BY <2>1, <2>4, <1>9
      <4>3. ~Away(o)
        BY <2>1, <3>2, <4>2, <1>1, <1>4, <1>9
      <4>4. S(o) => B(o) = 0
        BY <2>1, <4>2, <1>1, <1>2, <1>4, <1>6, <1>9
      <4> QED BY <4>1, <4>3, <4>4, <2>2, <2>3, <1>2, <1>6, <1>8
    <3> QED BY <3>1, <3>2
  <2>5. ASSUME NEW j \in Level \ {l}, LocalTo(o, j)' PROVE timed'[o] = Count(file'[j], o)
    <3>1. CASE j = k
      <4>1. Here(o) /\ S(o)
        BY <2>1, <2>5, <3>1, <1>4
      <4>2. ~Away(o)
        BY <2>1, <4>1, <1>9
      <4> QED BY <4>1, <4>2, <3>1, <2>3, <1>2, <1>8
    <3>2. CASE j # k
      <4>1. LocalTo(o, j)
        BY <2>1, <2>5, <3>2, <1>4
      <4> QED BY <4>1, <3>2, <2>3, <1>8, <1>10
    <3> QED BY <3>1, <3>2
  <2> QED BY <2>4, <2>5
<1> QED
  BY <1>11, <1>12, <1>13 DEF OwnInv

(* The same from any level.                                                *)
LEMMA GotoLevelOwn ==
  ASSUME OwnInv, IInv', NEW l \in Level, NEW dogs \in SUBSET Mon, GotoLevel(l, dogs)
  PROVE  OwnInv'
<1>1. PICK k \in Level : uz = k
  BY ListTypes DEF OwnInv
<1> QED
  BY <1>1, GotoLevelFrom

(* dosave0: every timer is written, with its level or with the game.       *)
LEMMA SaveGameOwn ==
  ASSUME OwnInv, IInv', dosave0
  PROVE  OwnInv'
<1> DEFINE B(a) == Count(timer_base, a)
           F(j, a) == Count(file[j], a)
           S(a) == Staying(a, {})
           stay == Keep(timer_base, LocalTimers({}))
           rest == Keep(timer_base, DOMAIN timer_base \ LocalTimers({}))
<1>1. /\ Playing /\ file' = [file EXCEPT ![uz] = stay] /\ gsave' = rest
      /\ timer_base' = <<>> /\ phase' = "saved"
      /\ UNCHANGED <<timed, place, mplace, uz, todo>>
  BY DEF dosave0
<1>2. /\ todo = <<>> /\ \A m \in Mon : mplace[m].at # "dying"
      /\ \A o \in Obj : ~Away(o) => timed[o] = B(o)
      /\ \A a : Count(todo, a) = 0
  BY <1>1, NobodyDies
<1>3. \A a : /\ Count(stay, a) = IF S(a) THEN B(a) ELSE 0
             /\ Count(rest, a) = IF S(a) THEN 0 ELSE B(a)
  BY Parted
<1>4. PICK k \in Level : uz = k
  BY ListTypes DEF OwnInv
<1>5. ASSUME NEW a \in Owners
      PROVE  /\ Here(a) /\ ~S(a) => Global(a)'
             /\ Here(a) /\ S(a) => LocalTo(a, k)'
             /\ \A j \in Level : LocalTo(a, j)' <=> LocalTo(a, j)
             /\ Away(a)' <=> Away(a)
  <2>1. {} \in SUBSET Mon /\ (\A m \in {} : mplace[m] = OnLevel(k)) /\ place' = place
        /\ \A m \in Mon : mplace'[m] = IF m \in {} THEN Bound(k) ELSE mplace[m]
    BY <1>1
  <2>2. /\ Here(a) /\ ~S(a) => Global(a)'
        /\ Here(a) /\ S(a) <=> LocalTo(a, k)'
    BY <1>2, <1>4, <1>5, <2>1, Leaving
  <2>3. \A j \in Level : LocalTo(a, j)' <=> LocalTo(a, j)
    BY <1>1, <1>5, SamePlaces
  <2>4. Away(a)' <=> Away(a)
    BY <1>1, <2>3 DEF Away
  <2> QED BY <2>2, <2>3, <2>4
<1>6. timer_base \in Seq(Timer) /\ file \in [Level -> Seq(Timer)]
  BY ListTypes DEF OwnInv, IInv, FilesOK
<1>7. file'[k] = stay /\ \A j \in Level \ {k} : file'[j] = file[j]
  BY <1>1, <1>4, <1>6
<1>8. \A a : B(a) \in Nat
  BY <1>6, CountPositive
<1>9. \A a : /\ Count(file'[k], a) = IF S(a) THEN B(a) ELSE 0
             /\ \A j \in Level \ {k} : Count(file'[j], a) = F(j, a)
             /\ Count(gsave', a) = IF S(a) THEN 0 ELSE B(a)
             /\ Count(timer_base', a) = 0
             /\ Count(todo', a) = 0
  <2>1. \A a : Count(file'[k], a) = Count(stay, a) /\ Count(gsave', a) = Count(rest, a)
    BY <1>1, <1>7
  <2>2. \A a : Count(timer_base', a) = 0 /\ Count(todo', a) = 0
    BY <1>1, <1>2, NEmpty DEF Count
  <2>3. \A a : \A j \in Level \ {k} : Count(file'[j], a) = F(j, a)
    BY <1>7
  <2> HIDE DEF B, F, S, stay, rest
  <2> QED BY <1>3, <2>1, <2>2, <2>3
<1>10. Shape' /\ Storage' /\ Dropping'
  BY <1>1, <1>2 DEF OwnInv, Shape, Storage, Dropping
<1>11. Kept'
  <2> SUFFICES ASSUME NEW a \in Owners
               PROVE  /\ Count(timer_base', a) > 0 => Here(a)'
                      /\ Count(todo', a) > 0 => Here(a)'
                      /\ Count(gsave', a) > 0 => Global(a)'
                      /\ \A j \in Level : Count(file'[j], a) > 0 => LocalTo(a, j)'
    BY DEF Kept
  <2>1. B(a) > 0 => Here(a)
    BY DEF OwnInv, Kept
  <2>2. \A j \in Level : F(j, a) > 0 => LocalTo(a, j)
    BY DEF OwnInv, Kept
  <2> HIDE DEF B, F, S
  <2>3. Count(gsave', a) > 0 => Global(a)'
    BY <1>5, <1>9, <2>1
  <2>4. ASSUME NEW j \in Level PROVE Count(file'[j], a) > 0 => LocalTo(a, j)'
    BY <1>5, <1>9, <2>1, <2>2
  <2>5. ~(Count(timer_base', a) > 0) /\ ~(Count(todo', a) > 0)
    BY <1>9
  <2> QED BY <2>3, <2>4, <2>5
<1>12. Counted'
  <2> SUFFICES ASSUME NEW o \in Obj
               PROVE  /\ ~Away(o)' => timed'[o] = Live(o)'
                      /\ \A j \in Level \ {k} : LocalTo(o, j)' => timed'[o] = Count(file'[j], o)
    BY <1>1, <1>4 DEF Counted
  <2>1. o \in Owners
    BY DEF Owners
  <2>2. Live(o)' = B(o)
    <3>1. Live(o)' = Count(timer_base', o) + 0 + Count(gsave', o) + Count(file'[k], o)
      BY <1>1, <1>4 DEF Live, Restoring
    <3> HIDE DEF B, S
    <3> QED BY <3>1, <1>8, <1>9
  <2>3. ~Away(o)' => timed'[o] = Live(o)'
    BY <1>1, <1>2, <1>5, <2>1, <2>2
  <2>4. ASSUME NEW j \in Level \ {k}, LocalTo(o, j)' PROVE timed'[o] = Count(file'[j], o)
    <3>1. timed[o] = F(j, o)
      BY <1>4, <1>5, <2>1, <2>4 DEF OwnInv, Counted
    <3> QED BY <3>1, <1>1, <1>9
  <2> QED BY <2>3, <2>4
<1> QED
  BY <1>10, <1>11, <1>12 DEF OwnInv

(* dorecover: what was written is to be linked again.                      *)
LEMMA RestoreGameOwn ==
  ASSUME OwnInv, IInv', dorecover
  PROVE  OwnInv'
<1> DEFINE G(a) == Count(gsave, a)
           F(j, a) == Count(file[j], a)
<1>1. /\ phase = "saved" /\ todo' = gsave \o file[uz]
      /\ file' = [file EXCEPT ![uz] = <<>>] /\ gsave' = <<>> /\ phase' = "restore"
      /\ UNCHANGED <<timer_base, timed, place, mplace, uz>>
  BY DEF dorecover
<1>2. PICK k \in Level : uz = k
  BY ListTypes DEF OwnInv
<1>3. timer_base = <<>> /\ todo = <<>>
  BY <1>1 DEF OwnInv, Storage
<1>4. /\ gsave \in Seq(Timer) /\ \A j \in Level : file[j] \in Seq(Timer)
      /\ file \in [Level -> Seq(Timer)]
  BY ListTypes DEF OwnInv, IInv, FilesOK
<1>5. \A a : G(a) \in Nat /\ \A j \in Level : F(j, a) \in Nat
  BY <1>4, CountPositive
<1>6. file'[k] = <<>> /\ \A j \in Level \ {k} : file'[j] = file[j]
  BY <1>1, <1>2, <1>4
<1>7. \A a : Count(<<>>, a) = 0
  BY NEmpty DEF Count
<1>8. \A a : /\ Count(todo', a) = G(a) + F(k, a)
             /\ \A j \in Level \ {k} : Count(file'[j], a) = F(j, a)
             /\ Count(file'[k], a) = 0
             /\ Count(gsave', a) = 0
             /\ Count(timer_base', a) = 0
  <2>1. \A a : Count(todo', a) = G(a) + F(k, a)
    BY <1>1, <1>2, <1>4, NConcat DEF Count
  <2>2. \A a : Count(file'[k], a) = 0 /\ Count(gsave', a) = 0 /\ Count(timer_base', a) = 0
    BY <1>1, <1>3, <1>6, <1>7
  <2>3. \A a : \A j \in Level \ {k} : Count(file'[j], a) = F(j, a)
    BY <1>6
  <2> QED BY <2>1, <2>2, <2>3
<1>9. ASSUME NEW a \in Owners
      PROVE  /\ Here(a)' <=> Here(a)
             /\ \A j \in Level : LocalTo(a, j)' <=> LocalTo(a, j)
             /\ Away(a)' <=> Away(a)
  <2>1. /\ Here(a)' <=> Here(a)
        /\ \A j \in Level : LocalTo(a, j)' <=> LocalTo(a, j)
    BY <1>1, <1>9, SamePlaces
  <2>2. Away(a)' <=> Away(a)
    BY <1>1, <2>1 DEF Away
  <2> QED BY <2>1, <2>2
<1>10. Shape' /\ Storage' /\ Dropping'
  <2>1. Shape' /\ Storage'
    BY <1>1, <1>2, <1>6 DEF OwnInv, Shape, Storage
  <2>2. Dropping'
    BY <1>1 DEF OwnInv, Dropping
  <2> QED BY <2>1, <2>2
<1>11. Kept'
  <2> SUFFICES ASSUME NEW a \in Owners
               PROVE  /\ Count(timer_base', a) > 0 => Here(a)'
                      /\ Count(todo', a) > 0 => Here(a)'
                      /\ Count(gsave', a) > 0 => Global(a)'
                      /\ \A j \in Level : Count(file'[j], a) > 0 => LocalTo(a, j)'
    BY DEF Kept
  <2>1. (G(a) > 0 => Here(a)) /\ (F(k, a) > 0 => Here(a))
        /\ \A j \in Level : F(j, a) > 0 => LocalTo(a, j)
    BY <1>2 DEF OwnInv, Kept, Here
  <2> HIDE DEF G, F
  <2>2. Count(todo', a) > 0 => Here(a)'
    BY <1>5, <1>8, <1>9, <2>1
  <2>3. ASSUME NEW j \in Level PROVE Count(file'[j], a) > 0 => LocalTo(a, j)'
    BY <1>8, <1>9, <2>1
  <2>4. ~(Count(timer_base', a) > 0) /\ ~(Count(gsave', a) > 0)
    BY <1>8
  <2> QED BY <2>2, <2>3, <2>4
<1>12. Counted'
  <2> SUFFICES ASSUME NEW o \in Obj
               PROVE  /\ ~Away(o)' => timed'[o] = Live(o)'
                      /\ \A j \in Level \ {k} : LocalTo(o, j)' => timed'[o] = Count(file'[j], o)
    BY <1>1, <1>2 DEF Counted
  <2>1. o \in Owners
    BY DEF Owners
  <2>2. Live(o)' = G(o) + F(k, o)
    <3>1. Live(o)' = Count(timer_base', o) + Count(todo', o) + Count(gsave', o) + Count(file'[k], o)
      BY <1>1, <1>2 DEF Live, Restoring
    <3> HIDE DEF G, F
    <3> QED BY <3>1, <1>5, <1>8
  <2>3. Live(o) = G(o) + F(k, o)
    <3>1. Live(o) = Count(timer_base, o) + 0 + G(o) + F(k, o)
      BY <1>1, <1>2 DEF Live, Restoring
    <3>2. Count(timer_base, o) = 0
      BY <1>3, <1>7
    <3> HIDE DEF G, F
    <3> QED BY <3>1, <3>2, <1>5
  <2>4. ~Away(o)' => timed'[o] = Live(o)'
    BY <1>1, <1>9, <2>1, <2>2, <2>3 DEF OwnInv, Counted
  <2>5. ASSUME NEW j \in Level \ {k}, LocalTo(o, j)' PROVE timed'[o] = Count(file'[j], o)
    <3>1. timed[o] = F(j, o)
      BY <1>2, <1>9, <2>1, <2>5 DEF OwnInv, Counted
    <3> QED BY <3>1, <1>1, <1>8
  <2> QED BY <2>4, <2>5
<1> QED
  BY <1>10, <1>11, <1>12 DEF OwnInv

-----------------------------------------------------------------------------
(* The invariant of the specification.                                     *)

(* What the player's commands do to objects keeps OwnInv.                  *)
LEMMA HandleObjOwn ==
  ASSUME OwnInv, IInv', HandleObj
  PROVE  OwnInv'
<1>1. ASSUME NEW o \in Obj, NEW p \in {Invent, Floor(uz)}, CreateObj(o, p) PROVE OwnInv'
  BY <1>1, CreateObjOwn
<1>2. ASSUME NEW o \in Obj, NEW p \in Handy, MoveObj(o, p) PROVE OwnInv'
  BY <1>2, MoveObjOwn
<1>3. ASSUME NEW o \in Obj, NEW b \in Boxes, PutInBox(o, b) PROVE OwnInv'
  BY <1>3, PutInBoxOwn
<1>4. ASSUME NEW b \in Boxes, NEW p \in Handy, BreakBox(b, p) PROVE OwnInv'
  BY <1>4, BreakBoxOwn
<1>5. ASSUME NEW o \in Obj, TakeOut(o) \/ Bury(o) \/ Unearth(o) PROVE OwnInv'
  BY <1>5, TakeOutOwn, BuryOwn, UnearthOwn
<1>6. ASSUME NEW o \in Obj, DestroyObj(o) \/ StopTimers(o) PROVE OwnInv'
  BY <1>6, DestroyObjOwn, StopTimersOwn
<1>7. ASSUME NEW o \in Obj, NEW o2 \in Obj, SplitObj(o, o2) \/ ReallocObj(o, o2) \/ PolyObj(o, o2)
      PROVE  OwnInv'
  BY <1>7, SplitObjOwn, ReallocObjOwn, PolyObjOwn
<1>8. ASSUME NEW o \in Obj, NEW l \in Level, MigrateObj(o, l) PROVE OwnInv'
  BY <1>8, MigrateObjOwn
<1> QED
  BY <1>1, <1>2, <1>3, <1>4, <1>5, <1>6, <1>7, <1>8 DEF HandleObj

(* The one thing that breaks it: moldy_corpse starts the rot of the corpse *)
(* that the call before has freed.                                         *)
RotsFreed == \E o \in Obj : moldy_corpse(o) /\ RotOfTheFreed(o)

(* The callbacks keep it.                                                  *)
LEMMA RunTimersOwn ==
  ASSUME OwnInv, IInv', run_timers, ~RotsFreed
  PROVE  OwnInv'
<1>1. ASSUME NEW o \in Obj, rot_corpse(o) \/ revive_mon(o) \/ moldy_corpse(o) \/ hatch_egg(o)
      PROVE  OwnInv'
  BY <1>1, CallbacksOwn DEF RotsFreed
<1>2. ASSUME NEW o \in Obj, rot_organic(o) \/ unpoly_obj(o) PROVE OwnInv'
  BY <1>2, RotOrganicOwn, UnpolyObjOwn
<1>3. ASSUME NEW m \in Mon, unpoly_mon(m) PROVE OwnInv'
  BY <1>3, UnpolyMonOwn
<1>4. CASE EndRunTimers
  BY <1>4, PhasesOwn
<1> QED
  BY <1>1, <1>2, <1>3, <1>4 DEF run_timers

(* So do the loops.                                                        *)
LEMMA LoopsOwn ==
  ASSUME OwnInv, IInv', Loops
  PROVE  OwnInv'
<1>1. ASSUME NEW o \in Obj, obj_delivery(o) PROVE OwnInv'
  BY <1>1, DeliveryOwn
<1>2. ASSUME NEW m \in Mon, NEW o \in Obj, relobj(m, o) PROVE OwnInv'
  BY <1>2, RelobjOwn
<1>3. CASE StartNext \/ restore_timers
  BY <1>3, NextTimerOwn
<1>4. CASE losedogs \/ BackToPlay
  BY <1>4, PhasesOwn
<1> QED
  BY <1>1, <1>2, <1>3, <1>4 DEF Loops

(* OwnInv holds to begin with: nothing is anywhere yet.                    *)
LEMMA InitOwn == Init => OwnInv
<1> SUFFICES ASSUME Init PROVE OwnInv
  OBVIOUS
<1>1. \A a : Count(<<>>, a) = 0
  BY NEmpty DEF Count
<1>2. /\ timer_base = <<>> /\ todo = <<>> /\ gsave = <<>> /\ phase = "play"
      /\ \A l \in Level : file[l] = <<>>
      /\ \A o \in Obj : timed[o] = 0
      /\ uz \in Level
  BY DEF Init
<1>3. \A o \in Obj : place[o].at = "free"
  BY DEF Init, Gone, At
<1>4. \A m \in Mon : mplace[m].at = "free"
  BY DEF Init, Gone, At
<1>5. Shape /\ Dropping
  BY <1>3, <1>4 DEF Shape, Dropping
<1>6. Storage
  BY <1>2 DEF Storage
<1>7. /\ \A a : Count(timer_base, a) = 0 /\ Count(todo, a) = 0 /\ Count(gsave, a) = 0
      /\ \A l \in Level : \A a : Count(file[l], a) = 0
  BY <1>1, <1>2
<1>8. Kept
  BY <1>7 DEF Kept
<1>9. \A o \in Obj : Live(o) = 0
  BY <1>2, <1>7 DEF Live, Restoring
<1>10. Counted
  BY <1>2, <1>7, <1>9 DEF Counted
<1> QED
  BY <1>5, <1>6, <1>8, <1>10, InitInv DEF OwnInv

(* Nothing changes, nothing is broken.                                     *)
LEMMA StutterOwn ==
  ASSUME OwnInv, IInv', UNCHANGED vars
  PROVE  OwnInv'
<1>1. UNCHANGED <<timer_base, timed, place, mplace, uz, file, gsave, todo, phase>>
  BY DEF vars
<1>2. ASSUME NEW a \in Owners
      PROVE  /\ Here(a)' <=> Here(a)
             /\ \A l \in Level : LocalTo(a, l)' <=> LocalTo(a, l)
             /\ Global(a)' <=> Global(a)
             /\ Away(a)' <=> Away(a)
  <2>1. /\ Here(a)' <=> Here(a)
        /\ \A l \in Level : LocalTo(a, l)' <=> LocalTo(a, l)
        /\ Global(a)' <=> Global(a)
    BY <1>1, <1>2, SamePlaces
  <2> QED BY <1>1, <2>1 DEF Away
<1>3. Shape' /\ Storage' /\ Dropping'
  BY <1>1 DEF OwnInv, Shape, Storage, Dropping
<1>4. Kept'
  BY <1>1, <1>2 DEF OwnInv, Kept
<1>5. Counted'
  <2>1. \A o \in Obj : o \in Owners /\ Live(o)' = Live(o)
    BY <1>1 DEF Owners, Live, Restoring
  <2> QED BY <1>1, <1>2, <2>1 DEF OwnInv, Counted
<1> QED
  BY <1>3, <1>4, <1>5 DEF OwnInv

(* Every other step keeps OwnInv.                                          *)
LEMMA NextOwn == OwnInv /\ [Next]_vars /\ [~RotsFreed]_vars => OwnInv'
<1> SUFFICES ASSUME OwnInv, [Next]_vars, [~RotsFreed]_vars PROVE OwnInv'
  OBVIOUS
<1>1. IInv'
  BY NextInv DEF OwnInv
<1>2. CASE UNCHANGED vars
  BY <1>1, <1>2, StutterOwn
<1>3. CASE ~RotsFreed /\ Next
  <2>1. CASE HandleObj
    BY <1>1, <2>1, HandleObjOwn
  <2>2. CASE HandleMon
    BY <1>1, <2>2, HandleMonOwn
  <2>3. CASE run_timers
    BY <1>1, <1>3, <2>3, RunTimersOwn
  <2>4. CASE Loops
    BY <1>1, <2>4, LoopsOwn
  <2>5. CASE ChangeLevel
    BY <1>1, <2>5, GotoLevelOwn DEF ChangeLevel
  <2>6. CASE dosave0 \/ dorecover
    BY <1>1, <2>6, SaveGameOwn, RestoreGameOwn
  <2>7. CASE NewTurn
    BY <1>1, <2>7, PhasesOwn
  <2> QED BY <1>3, <2>1, <2>2, <2>3, <2>4, <2>5, <2>6, <2>7 DEF Next
<1> QED
  BY <1>2, <1>3

(* A behaviour in which moldy_corpse never does so.                        *)
NothingRotsFreed == [][~RotsFreed]_vars

(* Of such a behaviour OwnInv is an invariant.                             *)
LEMMA Ownership == Spec /\ NothingRotsFreed => []OwnInv
<1> QED
  BY InitOwn, NextOwn, PTL DEF Spec, NothingRotsFreed

(* Whatever happens to owners, a timer is where its owner is, in memory or *)
(* in the file of the owner's level: no callback gets a dangling pointer,  *)
(* and relink_timers finds every owner.                                    *)
THEOREM TimersKept == Spec /\ NothingRotsFreed => []KeptWithOwner
<1>1. OwnInv => KeptWithOwner
  BY KeptMeaning DEF OwnInv
<1> QED
  BY <1>1, Ownership, PTL

-----------------------------------------------------------------------------
(* What obj->timed counts.                                                 *)

(* The timers of o that the list x has.                                    *)
Part(x, o) == {x} \X OnArg(List(x), o)

(* The lists by their names.                                               *)
LEMMA ListsByName ==
  /\ List(<<"base">>) = timer_base /\ List(<<"todo">>) = todo /\ List(<<"gsave">>) = gsave
  /\ \A l \in Level : List(<<"file", l>>) = file[l]
<1>1. <<"base">>[1] = "base" /\ <<"todo">>[1] = "todo" /\ <<"gsave">>[1] = "gsave"
  OBVIOUS
<1>2. \A l \in Level : <<"file", l>>[1] = "file" /\ <<"file", l>>[2] = l
  OBVIOUS
<1> QED
  BY <1>1, <1>2 DEF List

(* A part has as many elements as the list has timers of o.                *)
LEMMA PartSize ==
  ASSUME NEW x, List(x) \in Seq(Timer), NEW o
  PROVE  IsFiniteSet(Part(x, o)) /\ Cardinality(Part(x, o)) = Count(List(x), o)
<1> DEFINE q == List(x)
           A == Sel(q, Of(Funcs, o))
           B == Part(x, o)
           f == [i \in A |-> <<x, i>>]
<1>1. IsFiniteSet(A) /\ Cardinality(A) = Count(q, o)
  BY NumType DEF Num, N, Count
<1>2. A = OnArg(q, o)
  <2>1. \A i \in DOMAIN q : q[i] \in Timer
    BY ElementOfSeq
  <2> QED BY <2>1 DEF Sel, Of, OnArg, Timer
<1>3. f \in [A -> B] /\ \A i, j \in A : f[i] = f[j] => i = j
  BY <1>2 DEF Part
<1>4. \A z \in B : \E i \in A : f[i] = z
  BY <1>2 DEF Part
<1> HIDE DEF A, B, f
<1>5. Cardinality(B) = Cardinality(A)
  BY <1>1, <1>3, <1>4, OneToOne
<1>6. IsFiniteSet(B)
  <2>1. f \in Surjection(A, B)
    BY <1>3, <1>4 DEF Surjection
  <2> QED BY <1>1, <2>1, FS_Surjection
<1> QED
  BY <1>1, <1>5, <1>6 DEF B

(* Slots in terms of the parts.                                            *)
LEMMA SlotsOfOwner ==
  ASSUME NEW o
  PROVE  {s \in Slots : TimerAt(s).arg = o /\ ~Unstarted(s)}
           = UNION {Part(x, o) : x \in {y \in Lists : y = <<"todo">> => Restoring}}
BY DEF Slots, TimerAt, Unstarted, Part, OnArg

(* Of finite disjoint sets the sizes add up.                               *)
LEMMA DisjointSizes ==
  ASSUME NEW A, NEW B, IsFiniteSet(A), IsFiniteSet(B), \A x \in A : x \notin B
  PROVE  IsFiniteSet(A \cup B) /\ Cardinality(A \cup B) = Cardinality(A) + Cardinality(B)
<1>1. IsFiniteSet(A \cup B) /\ Cardinality(A \cup B) = Cardinality(A) + Cardinality(B) - Cardinality(A \cap B)
  BY FS_Union
<1>2. A \cap B = {}
  OBVIOUS
<1>3. Cardinality(A \cap B) = 0
  BY <1>2, FS_EmptySet
<1>4. Cardinality(A) \in Nat /\ Cardinality(B) \in Nat
  BY FS_CardinalityType
<1> QED
  BY <1>1, <1>3, <1>4

(* Counted says what TimedIsCount says.                                    *)
LEMMA CountedMeaning ==
  ASSUME OwnInv
  PROVE  TimedIsCount
<1> SUFFICES ASSUME NEW o \in Obj
             PROVE  timed[o] = Cardinality({s \in Slots : TimerAt(s).arg = o /\ ~Unstarted(s)})
  BY DEF TimedIsCount
<1> DEFINE all == {y \in Lists : y = <<"todo">> => Restoring}
           P(x) == Part(x, o)
           A == P(<<"base">>)
           B == IF Restoring THEN P(<<"todo">>) ELSE {}
           C == P(<<"gsave">>)
           D == P(<<"file", uz>>)
<1>1. PICK k \in Level : uz = k
  BY ListTypes DEF OwnInv
<1>2. \A x \in Lists : List(x) \in Seq(Timer) /\ IsFiniteSet(P(x)) /\ Cardinality(P(x)) = Count(List(x), o)
  <2>1. \A x \in Lists : List(x) \in Seq(Timer)
    BY ListsByName, ListTypes DEF OwnInv, Lists
  <2> QED BY <2>1, PartSize
<1>3. \A x \in Lists : Count(List(x), o) = 0 => P(x) = {}
  BY <1>2, FS_EmptySet
<1>4. \A x, y : x # y => \A s \in P(x) : s \notin P(y)
  BY DEF Part
<1>5. o \in Owners
  BY DEF Owners
<1>6. \A l \in Level : <<"file", l>> \in Lists /\ Count(List(<<"file", l>>), o) = Count(file[l], o)
  BY ListsByName DEF Lists
<1>7. /\ <<"base">> \in Lists /\ Count(List(<<"base">>), o) = Count(timer_base, o)
      /\ <<"todo">> \in Lists /\ Count(List(<<"todo">>), o) = Count(todo, o)
      /\ <<"gsave">> \in Lists /\ Count(List(<<"gsave">>), o) = Count(gsave, o)
  BY ListsByName DEF Lists
<1>8. /\ \A x \in Lists : \/ x = <<"base">> \/ x = <<"todo">> \/ x = <<"gsave">>
                          \/ \E l \in Level : x = <<"file", l>>
      /\ \A l \in Level : /\ <<"file", l>> # <<"base">> /\ <<"file", l>> # <<"todo">>
                          /\ <<"file", l>> # <<"gsave">>
      /\ <<"base">> # <<"todo">> /\ <<"base">> # <<"gsave">> /\ <<"todo">> # <<"gsave">>
  BY DEF Lists
<1>9. \A q \in Seq(Timer) : Count(q, o) \in Nat
  BY CountPositive
<1>10. /\ Count(timer_base, o) \in Nat /\ Count(todo, o) \in Nat /\ Count(gsave, o) \in Nat
       /\ \A l \in Level : Count(file[l], o) \in Nat
  BY <1>9, ListTypes DEF OwnInv
<1>11. timed[o] = Cardinality(UNION {P(x) : x \in all})
  <2>1. CASE ~Away(o)
    <3>1. \A l \in Level \ {k} : P(<<"file", l>>) = {}
      <4>1. ASSUME NEW l \in Level \ {k} PROVE Count(file[l], o) = 0
        <5>1. ~LocalTo(o, l)
          BY <1>1, <2>1 DEF Away
        <5> QED BY <5>1, <1>5, <1>10 DEF OwnInv, Kept
      <4> QED BY <4>1, <1>3, <1>6
    <3>2. UNION {P(x) : x \in all} = A \cup (B \cup (C \cup D))
      <4>1. ASSUME NEW x \in all PROVE P(x) \subseteq A \cup (B \cup (C \cup D))
        <5>1. ASSUME NEW l \in Level, x = <<"file", l>>
              PROVE  P(x) \subseteq A \cup (B \cup (C \cup D))
          BY <1>1, <3>1, <5>1
        <5>2. x = <<"todo">> => P(x) = B
          OBVIOUS
        <5> HIDE DEF B, P
        <5> QED BY <5>1, <5>2, <1>8
      <4>2. A \cup (B \cup (C \cup D)) \subseteq UNION {P(x) : x \in all}
        <5>1. /\ <<"base">> \in all /\ <<"gsave">> \in all /\ <<"file", uz>> \in all
              /\ Restoring => <<"todo">> \in all
          BY <1>1, <1>6, <1>7, <1>8
        <5> HIDE DEF P, all
        <5> QED BY <5>1
      <4> HIDE DEF A, B, C, D, P, all
      <4> QED BY <4>1, <4>2
    <3>3. /\ IsFiniteSet(A) /\ Cardinality(A) = Count(timer_base, o)
          /\ IsFiniteSet(C) /\ Cardinality(C) = Count(gsave, o)
          /\ IsFiniteSet(D) /\ Cardinality(D) = Count(file[uz], o)
      BY <1>1, <1>2, <1>6, <1>7
    <3>4. IsFiniteSet(B) /\ Cardinality(B) = IF Restoring THEN Count(todo, o) ELSE 0
      BY <1>2, <1>7, FS_EmptySet
    <3>5. \A s \in A : s \notin B \cup (C \cup D)
      BY <1>1, <1>4, <1>8
    <3>6. \A s \in B : s \notin C \cup D
      BY <1>1, <1>4, <1>8
    <3>7. \A s \in C : s \notin D
      BY <1>1, <1>4, <1>8
    <3> HIDE DEF A, B, C, D, P, all
    <3>8. IsFiniteSet(C \cup D) /\ Cardinality(C \cup D) = Cardinality(C) + Cardinality(D)
      BY <3>3, <3>7, DisjointSizes
    <3>9. /\ IsFiniteSet(B \cup (C \cup D))
          /\ Cardinality(B \cup (C \cup D)) = Cardinality(B) + Cardinality(C \cup D)
      BY <3>4, <3>6, <3>8, DisjointSizes
    <3>10. Cardinality(A \cup (B \cup (C \cup D))) = Cardinality(A) + Cardinality(B \cup (C \cup D))
      BY <3>3, <3>5, <3>9, DisjointSizes
    <3>11. timed[o] = Count(timer_base, o) + (IF Restoring THEN Count(todo, o) ELSE 0)
                        + Count(gsave, o) + Count(file[uz], o)
      BY <2>1 DEF OwnInv, Counted, Live
    <3>12. timed[o] = Cardinality(A \cup (B \cup (C \cup D)))
      BY <3>3, <3>4, <3>8, <3>9, <3>10, <3>11, <1>1, <1>10
    <3> QED
      BY <3>2, <3>12, Zenon
  <2>2. ASSUME NEW l \in Level \ {k}, LocalTo(o, l)
        PROVE  timed[o] = Cardinality(UNION {P(x) : x \in all})
    <3>1. \A j \in Level : LocalTo(o, j) => j = l
      BY <1>1, <1>5, <2>2, HereOrAway
    <3>2. ~Here(o) /\ ~Global(o)
      BY <1>1, <1>5, <2>2, HereOrAway DEF Away, Here
    <3>3. Count(timer_base, o) = 0 /\ Count(todo, o) = 0 /\ Count(gsave, o) = 0
      BY <1>5, <1>10, <3>2 DEF OwnInv, Kept
    <3>4. \A j \in Level \ {l} : Count(file[j], o) = 0
      BY <1>5, <1>10, <3>1 DEF OwnInv, Kept
    <3>5. \A x \in Lists : x # <<"file", l>> => P(x) = {}
      <4>1. P(<<"base">>) = {} /\ P(<<"todo">>) = {} /\ P(<<"gsave">>) = {}
        BY <1>3, <1>7, <3>3
      <4>2. \A j \in Level \ {l} : P(<<"file", j>>) = {}
        BY <1>3, <1>6, <3>4
      <4> HIDE DEF P
      <4> QED BY <4>1, <4>2, <1>8
    <3>6. <<"file", l>> \in all
      BY <1>6, <1>8
    <3> HIDE DEF P
    <3>7. UNION {P(x) : x \in all} = P(<<"file", l>>)
      BY <3>5, <3>6
    <3>8. timed[o] = Count(file[l], o)
      BY <1>1, <2>2 DEF OwnInv, Counted
    <3> QED BY <3>7, <3>8, <1>2, <1>6
  <2> QED BY <1>1, <2>1, <2>2 DEF Away
<1> QED
  BY <1>11, SlotsOfOwner

(* obj->timed is the number of timers the object has, wherever they are    *)
(* kept: code that skips an object whose count is 0 skips no timer, and    *)
(* obj_move_timers, which counts the timers it finds, never panics.        *)
THEOREM TimedCounts == Spec /\ NothingRotsFreed => []TimedIsCount
<1>1. OwnInv => TimedIsCount
  BY CountedMeaning
<1> QED
  BY <1>1, Ownership, PTL

-----------------------------------------------------------------------------
(* No timer is lost, added or changed by saving and restoring.             *)

(* The list q has the timer t.                                             *)
Has(q, t) == \E i \in DOMAIN q : q[i] = t

(* To have it is to have some of it.                                       *)
LEMMA HasNum ==
  ASSUME NEW q \in Seq(Timer), NEW t
  PROVE  Has(q, t) <=> Num(q, {t}) > 0
<1>1. Num(q, {t}) = 0 <=> \A i \in DOMAIN q : q[i] \notin {t}
  BY NumZero
<1>2. Num(q, {t}) \in Nat
  BY NumType
<1> QED
  BY <1>1, <1>2 DEF Has

(* What the operations on lists have.                                      *)
LEMMA HasInsert ==
  ASSUME NEW q \in Seq(Timer), NEW x \in Timer, NEW t
  PROVE  Has(insert_timer(q, x), t) <=> x = t \/ Has(q, t)
<1>1. insert_timer(q, x) \in Seq(Timer)
  BY InsertTimer, TimeoutsAreIntegers
<1>2. Num(insert_timer(q, x), {t}) = Num(q, {t}) + IF x \in {t} THEN 1 ELSE 0
  BY NumInsert, TimeoutsAreIntegers
<1>3. Num(q, {t}) \in Nat
  BY NumType
<1>4. Num(insert_timer(q, x), {t}) > 0 <=> x \in {t} \/ Num(q, {t}) > 0
  BY <1>2, <1>3
<1> QED
  BY <1>1, <1>4, HasNum

(* A list has its head and what its tail has.                              *)
LEMMA HasTail ==
  ASSUME NEW q \in Seq(Timer), q # <<>>, NEW t
  PROVE  Has(q, t) <=> Head(q) = t \/ Has(Tail(q), t)
<1>1. Tail(q) \in Seq(Timer)
  BY HeadTailProperties
<1>2. Num(q, {t}) = Num(Tail(q), {t}) + IF Head(q) \in {t} THEN 1 ELSE 0
  BY NumTail
<1>3. Num(Tail(q), {t}) \in Nat
  BY <1>1, NumType
<1>4. Num(q, {t}) > 0 <=> Head(q) \in {t} \/ Num(Tail(q), {t}) > 0
  BY <1>2, <1>3
<1> QED
  BY <1>1, <1>4, HasNum

(* Two lists together have what one of them has.                           *)
LEMMA HasConcat ==
  ASSUME NEW q \in Seq(Timer), NEW r \in Seq(Timer), NEW t
  PROVE  Has(q \o r, t) <=> Has(q, t) \/ Has(r, t)
<1>1. q \o r \in Seq(Timer)
  BY ConcatProperties
<1>2. Num(q \o r, {t}) = Num(q, {t}) + Num(r, {t})
  BY NumConcat
<1>3. Num(q, {t}) \in Nat /\ Num(r, {t}) \in Nat
  BY NumType
<1>4. Num(q \o r, {t}) > 0 <=> Num(q, {t}) > 0 \/ Num(r, {t}) > 0
  BY <1>2, <1>3
<1> QED
  BY <1>1, <1>4, HasNum

(* The empty list has nothing.                                             *)
LEMMA HasNothing == \A t : ~Has(<<>>, t)
BY DEF Has

(* What a walk leaves in a list.                                           *)
LEMMA HasKeep ==
  ASSUME NEW q \in Seq(Timer), NEW S \in SUBSET DOMAIN q, NEW t
  PROVE  Has(Keep(q, S), t) <=> \E i \in S : q[i] = t
<1> DEFINE r == Keep(q, S)
           A == S \cap Sel(q, {t})
<1>1. r \in Seq(Timer) /\ Num(r, {t}) = Cardinality(A)
  BY KeepList, NumKeep
<1>2. IsFiniteSet(A)
  BY NumType, FS_Subset
<1>3. Cardinality(A) \in Nat /\ (Cardinality(A) = 0 <=> A = {})
  BY <1>2, FS_CardinalityType, FS_EmptySet
<1>4. A # {} <=> \E i \in S : q[i] = t
  BY DEF Sel
<1>5. Has(r, t) <=> Num(r, {t}) > 0
  BY <1>1, HasNum
<1> HIDE DEF A, r
<1>6. Has(r, t) <=> \E i \in S : q[i] = t
  BY <1>1, <1>3, <1>4, <1>5
<1> QED
  BY <1>6 DEF r

(* All timers are those that one of the lists has.                         *)
LEMMA AllTimersMeaning ==
  \A t : t \in AllTimers
           <=> \/ Has(timer_base, t) \/ Has(todo, t) \/ Has(gsave, t)
               \/ \E l \in Level : Has(file[l], t)
<1>1. \A t : t \in AllTimers <=> \E x \in Lists : Has(List(x), t)
  <2>1. \A s : s \in Slots <=> \E x \in Lists : \E i \in DOMAIN List(x) : s = <<x, i>>
    BY DEF Slots
  <2>2. \A x, i : TimerAt(<<x, i>>) = List(x)[i]
    BY DEF TimerAt
  <2>3. \A t : t \in AllTimers <=> \E s \in Slots : TimerAt(s) = t
    BY DEF AllTimers
  <2>4. ASSUME NEW x \in Lists, NEW i \in DOMAIN List(x) PROVE List(x)[i] \in AllTimers
    <3>1. <<x, i>> \in Slots
      BY <2>1
    <3> QED BY <2>2, <2>3, <3>1
  <2>5. ASSUME NEW t \in AllTimers PROVE \E x \in Lists : \E i \in DOMAIN List(x) : List(x)[i] = t
    <3>1. PICK s \in Slots : TimerAt(s) = t
      BY <2>3
    <3>2. PICK x \in Lists : \E i \in DOMAIN List(x) : s = <<x, i>>
      BY <2>1
    <3>3. PICK i \in DOMAIN List(x) : s = <<x, i>>
      BY <3>2
    <3> QED BY <2>2, <3>1, <3>3
  <2> QED BY <2>4, <2>5 DEF Has
<1>2. \A x : x \in Lists <=> \/ x = <<"base">> \/ x = <<"todo">> \/ x = <<"gsave">>
                             \/ \E l \in Level : x = <<"file", l>>
  BY DEF Lists
<1> QED
  BY <1>1, <1>2, ListsByName

(* The same after a step.                                                  *)
LEMMA AllTimersMeaningNext ==
  \A t : t \in AllTimers'
           <=> \/ Has(timer_base', t) \/ Has(todo', t) \/ Has(gsave', t)
               \/ \E l \in Level : Has(file'[l], t)
<1>1. \A t : t \in AllTimers' <=> \E x \in Lists : Has(List(x)', t)
  <2>1. \A s : s \in Slots' <=> \E x \in Lists : \E i \in DOMAIN List(x)' : s = <<x, i>>
    BY DEF Slots, Lists
  <2>2. \A x, i : TimerAt(<<x, i>>)' = List(x)'[i]
    BY DEF TimerAt
  <2>3. \A t : t \in AllTimers' <=> \E s \in Slots' : TimerAt(s)' = t
    BY DEF AllTimers
  <2>4. ASSUME NEW x \in Lists, NEW i \in DOMAIN List(x)' PROVE List(x)'[i] \in AllTimers'
    <3>1. <<x, i>> \in Slots'
      BY <2>1
    <3> QED BY <2>2, <2>3, <3>1
  <2>5. ASSUME NEW t \in AllTimers' PROVE \E x \in Lists : \E i \in DOMAIN List(x)' : List(x)'[i] = t
    <3>1. PICK s \in Slots' : TimerAt(s)' = t
      BY <2>3
    <3>2. PICK x \in Lists : \E i \in DOMAIN List(x)' : s = <<x, i>>
      BY <2>1
    <3>3. PICK i \in DOMAIN List(x)' : s = <<x, i>>
      BY <3>2
    <3> QED BY <2>2, <3>1, <3>3
  <2> QED BY <2>4, <2>5 DEF Has
<1>2. \A x : x \in Lists <=> \/ x = <<"base">> \/ x = <<"todo">> \/ x = <<"gsave">>
                             \/ \E l \in Level : x = <<"file", l>>
  BY DEF Lists
<1>3. /\ <<"base">>[1] = "base" /\ <<"todo">>[1] = "todo" /\ <<"gsave">>[1] = "gsave"
      /\ \A l \in Level : <<"file", l>>[1] = "file" /\ <<"file", l>>[2] = l
  OBVIOUS
<1>4. /\ List(<<"base">>)' = timer_base' /\ List(<<"todo">>)' = todo'
      /\ List(<<"gsave">>)' = gsave'
      /\ \A l \in Level : List(<<"file", l>>)' = file'[l]
  BY <1>3 DEF List
<1> QED
  BY <1>1, <1>2, <1>4

(* Nothing is being dropped while a level or a game is read or written.    *)
DroppingEarly == \A m \in Mon : mplace[m].at = "dying" => phase \in {"play", "run", "arrive"}

(* What is in the files is not in memory: this much holds in any case.     *)
FilesInv == IInv /\ Storage /\ DroppingEarly

(* The steps but these neither touch a file nor change the phase nor       *)
(* insert what was read; and there are none in a saved game.               *)
LEMMA OtherSteps ==
  ASSUME DroppingEarly, uz \in Level, Next, ~EndRunTimers, ~NewTurn, ~restore_timers, ~losedogs, ~BackToPlay,
         ~ChangeLevel, ~dosave0, ~dorecover
  PROVE  /\ UNCHANGED <<uz, file, gsave, phase>> /\ phase # "saved"
         /\ Restoring => todo' = todo
         /\ phase \in {"play", "run", "arrive"} \/ mplace' = mplace
<1> DEFINE P == /\ UNCHANGED <<uz, file, gsave, phase>> /\ phase # "saved"
                /\ Restoring => todo' = todo
                /\ phase \in {"play", "run", "arrive"} \/ mplace' = mplace
<1>1. CASE HandleObj
  <2>1. ASSUME NEW o \in Obj, NEW p, CreateObj(o, p) \/ MoveObj(o, p) PROVE P
    BY <2>1 DEF CreateObj, MoveObj, Playing, Idle, unchangedWorld, unchangedLoop, Restoring
  <2>2. ASSUME NEW o, NEW b, PutInBox(o, b) PROVE P
    BY <2>2 DEF PutInBox, Playing, Idle, unchangedWorld, unchangedLoop, Restoring
  <2>3. ASSUME NEW b, NEW p, BreakBox(b, p) PROVE P
    BY <2>3 DEF BreakBox, Playing, Idle, unchangedWorld, unchangedLoop, Restoring
  <2>4. ASSUME NEW o, TakeOut(o) \/ Bury(o) \/ Unearth(o) \/ DestroyObj(o) \/ StopTimers(o) PROVE P
    BY <2>4 DEF TakeOut, Bury, Unearth, DestroyObj, StopTimers, Playing, Idle,
                unchangedWorld, unchangedLoop, Restoring
  <2>5. ASSUME NEW o, NEW o2, SplitObj(o, o2) \/ ReallocObj(o, o2) \/ PolyObj(o, o2) PROVE P
    BY <2>5 DEF SplitObj, ReallocObj, PolyObj, Playing, Idle, unchangedWorld, unchangedLoop, Restoring
  <2>6. ASSUME NEW o, NEW l, MigrateObj(o, l) PROVE P
    BY <2>6 DEF MigrateObj, Playing, Idle, unchangedWorld, unchangedLoop, Restoring
  <2> QED BY <1>1, <2>1, <2>2, <2>3, <2>4, <2>5, <2>6 DEF HandleObj
<1>2. CASE HandleMon
  <2>1. phase = "play" /\ UNCHANGED <<uz, file, gsave, phase>>
    BY <1>2 DEF HandleMon, MakeMon, StopUnpoly, KillMon, PolyMon, MigrateMon, Playing, Idle,
                unchangedWorld, unchangedLoop
  <2> QED BY <2>1 DEF Restoring
<1>3. CASE run_timers
  <2>1. phase \in {"run", "arrive"} /\ UNCHANGED <<uz, file, gsave, phase>>
    BY <1>3 DEF run_timers, rot_corpse, rot_organic, revive_mon, moldy_corpse, hatch_egg, unpoly_obj,
                unpoly_mon, Fires, Due, unchangedWorld, unchangedLoop
  <2> QED BY <2>1 DEF Restoring
<1>4. CASE Loops
  <2>1. ASSUME NEW o, obj_delivery(o) PROVE P
    BY <2>1 DEF obj_delivery, unchangedWorld, unchangedLoop, Restoring
  <2>2. ASSUME NEW m \in Mon, NEW o, relobj(m, o) PROVE P
    <3>1. phase \in {"play", "run", "arrive"}
      BY <2>2 DEF relobj, DroppingEarly, Dying, At
    <3> QED BY <2>2, <3>1 DEF relobj, unchangedWorld, unchangedLoop, Restoring
  <2>3. CASE StartNext
    BY <2>3 DEF StartNext, unchangedWorld, Restoring
  <2> QED BY <1>4, <2>1, <2>2, <2>3 DEF Loops
<1> QED
  BY <1>1, <1>2, <1>3, <1>4 DEF Next

(* FilesInv holds to begin with.                                           *)
LEMMA InitFiles == Init => FilesInv
<1> SUFFICES ASSUME Init PROVE FilesInv
  OBVIOUS
<1>1. Storage /\ DroppingEarly
  BY DEF Init, Storage, DroppingEarly
<1> QED
  BY <1>1, InitInv DEF FilesInv

(* Every step keeps it.                                                    *)
LEMMA NextFiles == FilesInv /\ [Next]_vars => FilesInv'
<1> SUFFICES ASSUME FilesInv, [Next]_vars PROVE FilesInv'
  OBVIOUS
<1>1. IInv' /\ uz \in Level /\ file \in [Level -> Seq(Timer)]
  BY NextInv, ListTypes DEF FilesInv, IInv, FilesOK
<1>2. CASE UNCHANGED vars
  BY <1>1, <1>2 DEF FilesInv, vars, Storage, DroppingEarly
<1>3. CASE EndRunTimers \/ NewTurn \/ restore_timers \/ losedogs \/ BackToPlay
  <2>1. /\ phase # "saved" /\ phase' # "saved" /\ UNCHANGED <<uz, file, gsave>>
    BY <1>3 DEF EndRunTimers, NewTurn, restore_timers, losedogs, BackToPlay, Playing, unchangedWorld
  <2>2. Storage'
    BY <2>1 DEF FilesInv, Storage
  <2>3. \A m \in Mon : mplace'[m].at = "dying" => mplace[m].at = "dying"
    BY <1>3 DEF EndRunTimers, NewTurn, restore_timers, losedogs, BackToPlay, OnLevel, At
  <2>4. phase' = phase \/ (\A m \in Mon : mplace[m].at # "dying")
    BY <1>3 DEF EndRunTimers, NewTurn, restore_timers, losedogs, BackToPlay, Playing, Idle,
                FilesInv, DroppingEarly
  <2> QED BY <1>1, <2>2, <2>3, <2>4 DEF FilesInv, DroppingEarly
<1>4. ASSUME NEW l \in Level, NEW dogs \in SUBSET Mon, GotoLevel(l, dogs) PROVE FilesInv'
  <2>1. Storage'
    BY <1>1, <1>4 DEF GotoLevel, Playing, FilesInv, Storage
  <2>2. DroppingEarly'
    BY <1>4 DEF GotoLevel, Playing, Idle, DroppingEarly, Bound, At
  <2> QED BY <1>1, <2>1, <2>2 DEF FilesInv
<1>5. CASE dosave0
  BY <1>1, <1>5 DEF dosave0, Playing, Idle, FilesInv, Storage, DroppingEarly
<1>6. CASE dorecover
  BY <1>1, <1>6 DEF dorecover, FilesInv, Storage, DroppingEarly
<1>7. CASE Next /\ ~(EndRunTimers \/ NewTurn \/ restore_timers \/ losedogs \/ BackToPlay)
             /\ ~ChangeLevel /\ ~dosave0 /\ ~dorecover
  BY <1>1, <1>7, OtherSteps DEF FilesInv, Storage, DroppingEarly
<1> QED
  BY <1>2, <1>3, <1>4, <1>5, <1>6, <1>7 DEF ChangeLevel

(* So it is an invariant.                                                  *)
LEMMA Filed == Spec => []FilesInv
<1> QED
  BY InitFiles, NextFiles, PTL DEF Spec

(* What is unlinked to be written, with the rest, is all there was.        *)
LEMMA PartedTimers ==
  ASSUME FilesInv, NEW dogs, NEW t
  PROVE  Has(timer_base, t)
           <=> \/ Has(Keep(timer_base, LocalTimers(dogs)), t)
               \/ Has(Keep(timer_base, DOMAIN timer_base \ LocalTimers(dogs)), t)
<1> DEFINE q == timer_base
           S == LocalTimers(dogs)
<1>1. q \in Seq(Timer)
  BY ListTypes DEF FilesInv
<1>2. S \in SUBSET DOMAIN q
  BY DEF LocalTimers
<1> HIDE DEF q, S
<1>3. DOMAIN q \ S \in SUBSET DOMAIN q
  OBVIOUS
<1>4. /\ Has(Keep(q, S), t) <=> \E i \in S : q[i] = t
      /\ Has(Keep(q, DOMAIN q \ S), t) <=> \E i \in DOMAIN q \ S : q[i] = t
  BY <1>1, <1>2, <1>3, HasKeep
<1>5. Has(q, t) <=> \E i \in DOMAIN q : q[i] = t
  BY DEF Has
<1>6. Has(q, t) <=> Has(Keep(q, S), t) \/ Has(Keep(q, DOMAIN q \ S), t)
  BY <1>2, <1>4, <1>5
<1> QED
  BY <1>6 DEF q, S

(* The steps that go on to another phase, or insert what was read.         *)
LEMMA SameTimers ==
  ASSUME FilesInv, [Next]_vars, phase' # phase \/ (Restoring /\ todo' # todo)
  PROVE  AllTimers' = AllTimers
<1> DEFINE B(t) == Has(timer_base, t)
           T(t) == Has(todo, t)
           G(t) == Has(gsave, t)
           F(l, t) == Has(file[l], t)
<1>1. /\ uz \in Level /\ file \in [Level -> Seq(Timer)]
      /\ timer_base \in Seq(Timer) /\ todo \in Seq(Timer) /\ gsave \in Seq(Timer)
  BY ListTypes DEF FilesInv, IInv, FilesOK
<1>2. SUFFICES ASSUME NEW t
               PROVE  B(t) \/ T(t) \/ G(t) \/ (\E l \in Level : F(l, t))
                        <=> \/ Has(timer_base', t) \/ Has(todo', t) \/ Has(gsave', t)
                            \/ \E l \in Level : Has(file'[l], t)
  <2>1. \A t : t \in AllTimers <=> B(t) \/ T(t) \/ G(t) \/ (\E l \in Level : F(l, t))
    BY AllTimersMeaning
  <2>2. \A t : t \in AllTimers'
                 <=> \/ Has(timer_base', t) \/ Has(todo', t) \/ Has(gsave', t)
                     \/ \E l \in Level : Has(file'[l], t)
    BY AllTimersMeaningNext
  <2>3. \A t : t \in AllTimers' <=> t \in AllTimers
    BY <1>2, <2>1, <2>2
  <2> QED BY <2>3
<1>3. CASE EndRunTimers \/ NewTurn \/ losedogs \/ BackToPlay
  BY <1>3 DEF EndRunTimers, NewTurn, losedogs, BackToPlay
<1>4. CASE restore_timers
  <2>1. /\ todo # <<>> /\ timer_base' = insert_timer(timer_base, Head(todo)) /\ todo' = Tail(todo)
        /\ UNCHANGED <<gsave, file>>
    BY <1>4 DEF restore_timers, unchangedWorld
  <2>2. Head(todo) \in Timer
    BY <1>1, <2>1, HeadTailProperties
  <2>3. T(t) <=> Head(todo) = t \/ Has(todo', t)
    BY <1>1, <2>1, HasTail
  <2>4. Has(timer_base', t) <=> Head(todo) = t \/ B(t)
    BY <1>1, <2>1, <2>2, HasInsert
  <2> QED BY <2>1, <2>3, <2>4
<1>5. ASSUME NEW l \in Level, NEW dogs \in SUBSET Mon, GotoLevel(l, dogs)
      PROVE  B(t) \/ T(t) \/ G(t) \/ (\E j \in Level : F(j, t))
               <=> \/ Has(timer_base', t) \/ Has(todo', t) \/ Has(gsave', t)
                   \/ \E j \in Level : Has(file'[j], t)
  <2>1. PICK k \in Level : uz = k
    BY <1>1
  <2> DEFINE stay == Keep(timer_base, LocalTimers(dogs))
  <2>2. /\ todo = <<>> /\ gsave = <<>> /\ file[k] = <<>> /\ l # k /\ gsave' = gsave
        /\ file' = [file EXCEPT ![k] = stay, ![l] = <<>>] /\ todo' = file[l]
        /\ timer_base' = Keep(timer_base, DOMAIN timer_base \ LocalTimers(dogs))
    BY <1>5, <2>1 DEF GotoLevel, Playing, Idle, FilesInv, Storage
  <2>3. B(t) <=> Has(stay, t) \/ Has(timer_base', t)
    BY <2>2, PartedTimers
  <2>4. ~T(t) /\ ~G(t) /\ ~Has(gsave', t) /\ ~F(k, t)
    BY <2>2, HasNothing
  <2>5. /\ file'[k] = stay /\ file'[l] = <<>> /\ \A j \in Level \ {k, l} : file'[j] = file[j]
    BY <1>1, <2>1, <2>2
  <2>6. ~Has(file'[l], t)
    BY <2>5, HasNothing
  <2>7. Has(todo', t) <=> F(l, t)
    BY <2>2
  <2>8. Has(file'[k], t) <=> Has(stay, t)
    BY <2>5
  <2>9. \A j \in Level \ {k, l} : Has(file'[j], t) <=> F(j, t)
    BY <2>5
  <2> HIDE DEF B, T, G, F, stay
  <2> QED BY <2>1, <2>3, <2>4, <2>6, <2>7, <2>8, <2>9
<1>6. CASE dosave0
  <2>1. PICK k \in Level : uz = k
    BY <1>1
  <2> DEFINE stay == Keep(timer_base, LocalTimers({}))
  <2>2. /\ todo = <<>> /\ gsave = <<>> /\ file[k] = <<>> /\ todo' = todo /\ timer_base' = <<>>
        /\ file' = [file EXCEPT ![k] = stay]
        /\ gsave' = Keep(timer_base, DOMAIN timer_base \ LocalTimers({}))
    BY <1>6, <2>1 DEF dosave0, Playing, Idle, FilesInv, Storage
  <2>3. B(t) <=> Has(stay, t) \/ Has(gsave', t)
    BY <2>2, PartedTimers
  <2>4. ~T(t) /\ ~G(t) /\ ~Has(timer_base', t) /\ ~Has(todo', t) /\ ~F(k, t)
    BY <2>2, HasNothing
  <2>5. file'[k] = stay /\ \A j \in Level \ {k} : file'[j] = file[j]
    BY <1>1, <2>1, <2>2
  <2>6. (Has(file'[k], t) <=> Has(stay, t)) /\ \A j \in Level \ {k} : Has(file'[j], t) <=> F(j, t)
    BY <2>5
  <2> HIDE DEF B, T, G, F, stay
  <2> QED BY <2>1, <2>3, <2>4, <2>6
<1>7. CASE dorecover
  <2>1. PICK k \in Level : uz = k
    BY <1>1
  <2>2. /\ todo = <<>> /\ gsave' = <<>> /\ timer_base' = timer_base
        /\ file' = [file EXCEPT ![k] = <<>>] /\ todo' = gsave \o file[k]
    BY <1>7, <2>1 DEF dorecover, FilesInv, Storage
  <2>3. file[k] \in Seq(Timer)
    BY <1>1, <2>1
  <2>4. Has(todo', t) <=> G(t) \/ F(k, t)
    BY <1>1, <2>2, <2>3, HasConcat
  <2>5. file'[k] = <<>> /\ \A j \in Level \ {k} : file'[j] = file[j]
    BY <1>1, <2>1, <2>2
  <2>6. ~T(t) /\ ~Has(gsave', t) /\ ~Has(file'[k], t)
    BY <2>2, <2>5, HasNothing
  <2>7. \A j \in Level \ {k} : Has(file'[j], t) <=> F(j, t)
    BY <2>5
  <2>8. Has(timer_base', t) <=> B(t)
    BY <2>2
  <2> HIDE DEF B, T, G, F
  <2> QED BY <2>1, <2>4, <2>6, <2>7, <2>8
<1>8. \/ EndRunTimers \/ NewTurn \/ losedogs \/ BackToPlay \/ restore_timers
      \/ ChangeLevel \/ dosave0 \/ dorecover
  <2>1. Next
    BY DEF vars
  <2> QED BY <1>1, <2>1, OtherSteps DEF FilesInv
<1> QED
  BY <1>3, <1>4, <1>5, <1>6, <1>7, <1>8 DEF ChangeLevel

(* Changing levels, saving the game and restoring it lose no timer, add    *)
(* none and change none, at any moment at which the player may do so.      *)
THEOREM TimersUnharmed == Spec => TimersSurvive
<1>1. FilesInv /\ [Next]_vars
        => [(phase' # phase \/ (Restoring /\ todo' # todo) => AllTimers' = AllTimers)]_vars
  BY SameTimers
<1> QED
  BY <1>1, Filed, PTL DEF Spec, TimersSurvive

-----------------------------------------------------------------------------
(* One of a kind.                                                          *)

(* Of each of these kinds of timers an owner has one at most.              *)
Kinds == {Just(f) : f \in Funcs} \cup {Decay}

Iced(p) == p.at = "contained" /\ p.by \in IceBoxes

(* How many of the kind K the owner a may have at the place p: only bodies *)
(* decay, and not on ice, and what rots in the ground is in the ground.    *)
Barred(K, a, p) ==
  \/ K \in SUBSET Decay /\ (a \notin Bodies \/ Iced(p))
  \/ K = Just("ROT_ORGANIC") /\ p.at # "buried"

Limit(K, a, p) == IF Barred(K, a, p) THEN 0 ELSE 1

(* The place of an owner; that of a monster does not matter.               *)
Spot(a) == IF a \in Obj THEN place[a] ELSE Gone

(* No list has more timers of an owner than it may have, nor what is in    *)
(* memory together with what is still to be inserted.                      *)
Limits ==
  \A K \in Kinds, a \in Owners :
    /\ N(timer_base, K, a) + N(todo, K, a) <= Limit(K, a, Spot(a))
    /\ N(gsave, K, a) <= Limit(K, a, Spot(a))
    /\ \A l \in Level : N(file[l], K, a) <= Limit(K, a, Spot(a))

(* The invariant.                                                          *)
OneInv == OwnInv /\ Limits

(* A kind is a set of functions, and a function of it makes it that kind.  *)
LEMMA KindsOf ==
  ASSUME NEW K \in Kinds
  PROVE  /\ \A f : f \in K => \/ K = Just(f)
                              \/ K = Decay /\ f \in Decay
         /\ K \in SUBSET Decay => \E f \in Decay : f \in K
         /\ K \in SUBSET Decay <=> K = Decay \/ \E f \in Decay : K = Just(f)
         /\ K = Just("ROT_ORGANIC") => K \notin SUBSET Decay /\ "ROT_ORGANIC" \in K
BY DEF Kinds, Just, Decay

(* There are as many timers of a kind as of a larger one, or fewer, and    *)
(* none if there are none of the parts.                                    *)
LEMMA NParts ==
  ASSUME NEW q \in Seq(Timer), NEW a
  PROVE  /\ \A K : N(q, K, a) \in Nat
         /\ \A K : N(q, K, a) > 0 => Count(q, a) > 0
         /\ \A K, L : K \subseteq L /\ N(q, L, a) = 0 => N(q, K, a) = 0
         /\ \A K : (\A f \in K : N(q, Just(f), a) = 0) => N(q, K, a) = 0
<1>1. \A K : N(q, K, a) \in Nat
  BY NType
<1>2. \A K : N(q, K, a) = 0 <=> \A i \in DOMAIN q : ~(q[i].func \in K /\ q[i].arg = a)
  BY NPositive
<1>3. \A K : N(q, K, a) > 0 <=> \E i \in DOMAIN q : q[i].func \in K /\ q[i].arg = a
  BY NPositive
<1>4. Count(q, a) > 0 <=> \E i \in DOMAIN q : q[i].arg = a
  BY CountPositive
<1>5. \A f : f \in Just(f)
  BY DEF Just
<1> QED
  BY <1>1, <1>2, <1>3, <1>4, <1>5

(* What is kept of a list is not more.                                     *)
LEMMA NKeepLess ==
  ASSUME NEW q \in Seq(Timer), NEW S \in SUBSET DOMAIN q, NEW K, NEW a
  PROVE  N(Keep(q, S), K, a) \in Nat /\ N(Keep(q, S), K, a) <= N(q, K, a)
<1> DEFINE A == Sel(q, Of(K, a))
<1>1. N(Keep(q, S), K, a) = Cardinality(S \cap A) /\ N(q, K, a) = Cardinality(A)
  BY NumKeep DEF N, Num
<1>2. IsFiniteSet(A)
  BY NumType
<1>3. S \cap A \subseteq A
  OBVIOUS
<1> HIDE DEF A
<1>4. IsFiniteSet(S \cap A) /\ Cardinality(S \cap A) <= Cardinality(A)
  BY <1>2, <1>3, FS_Subset
<1>5. Cardinality(S \cap A) \in Nat
  BY <1>4, FS_CardinalityType
<1> QED
  BY <1>1, <1>4, <1>5

(* Nor what is left when one is taken out.                                 *)
LEMMA NRemoveLess ==
  ASSUME NEW q \in Queue, NEW f, NEW o, NEW K, NEW a
  PROVE  /\ remove_timer(q, f, o) \in Queue
         /\ N(remove_timer(q, f, o), K, a) <= N(q, K, a)
         /\ a # o => N(remove_timer(q, f, o), K, a) = N(q, K, a)
         /\ N(q, Just(f), o) <= 1 => N(remove_timer(q, f, o), Just(f), o) = 0
<1>1. remove_timer(q, f, o) \in Queue /\ q \in Seq(Timer)
  BY RemoveQueue DEF Queue
<1>2. /\ N(remove_timer(q, f, o), K, a)
           = N(q, K, a) - IF f \in K /\ o = a /\ N(q, Just(f), o) # 0 THEN 1 ELSE 0
      /\ N(remove_timer(q, f, o), Just(f), o)
           = N(q, Just(f), o) - IF f \in Just(f) /\ o = o /\ N(q, Just(f), o) # 0 THEN 1 ELSE 0
  BY <1>1, NRemove
<1>3. N(q, K, a) \in Nat /\ N(q, Just(f), o) \in Nat
  BY <1>1, NType
<1> QED
  BY <1>1, <1>2, <1>3 DEF Just

-----------------------------------------------------------------------------
(* Steps that keep the limits.                                             *)

(* What is in a file is away, and stays as it is; so it is enough to look  *)
(* at what is in memory.                                                   *)
LEMMA FewStep ==
  ASSUME OwnInv, Limits, UNCHANGED <<file, gsave>>, phase # "saved",
         \A x \in Obj : Away(x) => place'[x] = place[x],
         \A K \in Kinds, a \in Owners :
           N(timer_base', K, a) + N(todo', K, a) <= Limit(K, a, Spot(a)')
  PROVE  Limits'
<1>1. /\ gsave = <<>> /\ file[uz] = <<>> /\ uz \in Level /\ file' = file /\ gsave' = gsave
      /\ \A l \in Level : file[l] \in Seq(Timer)
  BY ListTypes DEF OwnInv, Storage
<1>2. \A K, a : N(<<>>, K, a) = 0
  BY NEmpty
<1>3. \A K, a, p : Limit(K, a, p) \in {0, 1}
  BY DEF Limit
<1>4. ASSUME NEW K \in Kinds, NEW a \in Owners, NEW l \in Level
      PROVE  N(file[l], K, a) <= Limit(K, a, Spot(a)')
  <2>1. CASE N(file[l], K, a) = 0
    BY <2>1, <1>3
  <2>2. CASE N(file[l], K, a) # 0
    <3>1. N(file[l], K, a) > 0 /\ Count(file[l], a) > 0
      BY <2>2, <1>1, NParts
    <3>2. LocalTo(a, l) /\ l # uz
      BY <3>1, <1>1, <1>2 DEF OwnInv, Kept
    <3>3. Spot(a)' = Spot(a)
      BY <3>2 DEF Spot, Away
    <3>4. N(file[l], K, a) <= Limit(K, a, Spot(a))
      BY DEF Limits
    <3> QED BY <3>3, <3>4
  <2> QED BY <2>1, <2>2
<1>5. \A K \in Kinds, a \in Owners : N(gsave', K, a) <= Limit(K, a, Spot(a)')
  BY <1>1, <1>2, <1>3
<1> QED
  BY <1>1, <1>4, <1>5 DEF Limits

(* An object in memory, or gone, is not away.                              *)
LEMMA NotAway ==
  ASSUME uz \in Level, NEW o \in Obj, Outer(o, place) = Gone \/ PlaceHere(Outer(o, place), uz, mplace)
  PROVE  ~Away(o)
<1> SUFFICES ASSUME NEW l \in Level \ {uz}, LocalTo(o, l) PROVE FALSE
  BY DEF Away
<1>1. PlaceOn(Outer(o, place), l, mplace)
  BY OwnersPlace
<1> QED
  BY <1>1, OnePlace DEF PlaceHere

(* A list in which others than o have the timers they had, and o no more   *)
(* than it may have at p.                                                  *)
Fit(q, o, p) ==
  /\ q \in Queue
  /\ \A K \in Kinds, a \in Owners \ {o} : N(q, K, a) = N(timer_base, K, a)
  /\ \A K \in Kinds : N(q, K, o) <= Limit(K, o, p)

(* The list is one, for an object or a monster where it is.                *)
LEMMA FitAsIs ==
  ASSUME OwnInv, Limits, todo = <<>>, NEW o \in Owners
  PROVE  /\ Fit(timer_base, o, Spot(o))
         /\ \A K \in Kinds, a \in Owners : N(timer_base, K, a) <= Limit(K, a, Spot(a))
         /\ timer_base \in Queue
<1>1. timer_base \in Queue /\ timer_base \in Seq(Timer)
  BY InvUnfolded DEF OwnInv, Queue
<1>2. ASSUME NEW K \in Kinds, NEW a \in Owners
      PROVE  N(timer_base, K, a) <= Limit(K, a, Spot(a))
  <2>1. N(timer_base, K, a) + N(todo, K, a) <= Limit(K, a, Spot(a))
    BY DEF Limits
  <2>2. N(todo, K, a) = 0 /\ N(timer_base, K, a) \in Nat
    BY <1>1, NEmpty, NType
  <2> QED BY <2>1, <2>2
<1> QED
  BY <1>1, <1>2 DEF Fit

(* Elsewhere it fits as well, if it has none of what it may not have there.*)
LEMMA FitMoved ==
  ASSUME NEW q, NEW o, NEW p, NEW r, Fit(q, o, p),
         Iced(r) => Iced(p) \/ o \notin Bodies \/ N(q, Decay, o) = 0,
         p.at = "buried" => r.at = "buried" \/ N(q, Just("ROT_ORGANIC"), o) = 0
  PROVE  Fit(q, o, r)
<1>1. q \in Seq(Timer) /\ \A K : N(q, K, o) \in Nat
  BY NType DEF Fit, Queue
<1>2. ASSUME NEW K \in Kinds, Barred(K, o, r) PROVE N(q, K, o) = 0
  <2>1. CASE K \in SUBSET Decay /\ N(q, Decay, o) = 0
    BY <1>1, <2>1, NParts
  <2>2. CASE K = Just("ROT_ORGANIC") /\ N(q, Just("ROT_ORGANIC"), o) = 0
    BY <2>2
  <2>3. CASE Barred(K, o, p)
    BY <1>1, <2>3 DEF Fit, Limit
  <2> QED BY <1>2, <2>1, <2>2, <2>3 DEF Barred
<1>3. ASSUME NEW K \in Kinds PROVE N(q, K, o) <= 1
  BY <1>1 DEF Fit, Limit
<1>4. \A K \in Kinds : N(q, K, o) <= Limit(K, o, r)
  BY <1>2, <1>3 DEF Limit
<1> QED
  BY <1>4 DEF Fit

(* Taking a timer of o out.                                                *)
LEMMA FitRemove ==
  ASSUME NEW q, NEW o, NEW p, Fit(q, o, p), NEW f \in Funcs, o \in Owners
  PROVE  /\ Fit(remove_timer(q, f, o), o, p)
         /\ N(remove_timer(q, f, o), Just(f), o) = 0
         /\ \A K : N(remove_timer(q, f, o), K, o) <= N(q, K, o)
<1>1. q \in Queue /\ q \in Seq(Timer) /\ remove_timer(q, f, o) \in Queue
  BY RemoveQueue DEF Fit, Queue
<1>2. \A K : N(q, K, o) \in Nat /\ N(remove_timer(q, f, o), K, o) \in Nat
  BY <1>1, NType DEF Queue
<1>3. \A K, a : /\ N(remove_timer(q, f, o), K, a) <= N(q, K, a)
                /\ a # o => N(remove_timer(q, f, o), K, a) = N(q, K, a)
  BY <1>1, NRemoveLess
<1>4. Just(f) \in Kinds /\ \A K : Limit(K, o, p) \in {0, 1}
  BY DEF Kinds, Limit
<1>5. N(q, Just(f), o) <= 1
  BY <1>2, <1>4 DEF Fit
<1>6. N(remove_timer(q, f, o), Just(f), o) = 0
  BY <1>1, <1>5, NRemoveLess
<1> QED
  BY <1>1, <1>2, <1>3, <1>4, <1>6 DEF Fit

(* Where o may have a timer that calls f back.                             *)
Allowed(f, o, p) ==
  /\ f \in Decay => o \in Bodies /\ ~Iced(p)
  /\ f = "ROT_ORGANIC" => p.at = "buried"

(* There is none of a kind with f in it.                                   *)
Clear(q, f, o) ==
  /\ N(q, Just(f), o) = 0
  /\ f \in Decay => N(q, Decay, o) = 0

(* Starting one, when o has none of the kind.                              *)
LEMMA FitStart ==
  ASSUME ClockOK, NEW q, NEW o \in Owners, NEW p, Fit(q, o, p), NEW f \in Funcs,
         Clear(q, f, o), Allowed(f, o, p), NEW d \in Delays \cup LateDelays
  PROVE  Fit(start_timer(q, d, f, o), o, p)
<1>1. q \in Queue /\ start_timer(q, d, f, o) \in Queue
  BY StartQueue DEF Fit, Owners
<1>2. \A K, a : N(start_timer(q, d, f, o), K, a) = N(q, K, a) + IF f \in K /\ o = a THEN 1 ELSE 0
  BY <1>1, NStart
<1>3. \A K, a : N(q, K, a) \in Nat
  BY <1>1, NType DEF Queue
<1>4. ASSUME NEW K \in Kinds, f \in K
      PROVE  N(q, K, o) = 0 /\ Limit(K, o, p) = 1
  <2>1. N(q, K, o) = 0
    BY <1>4, KindsOf DEF Clear
  <2>2. ~Barred(K, o, p)
    BY <1>4, KindsOf DEF Barred, Allowed, Just
  <2> QED BY <2>1, <2>2 DEF Limit
<1> QED
  BY <1>1, <1>2, <1>3, <1>4 DEF Fit

(* Owners that have no timers are allowed anywhere.                        *)
LEMMA FitNone ==
  ASSUME NEW q, NEW o, NEW p, Fit(q, o, p), NEW r, Count(q, o) = 0
  PROVE  Fit(q, o, r) /\ \A K : N(q, K, o) = 0
<1>1. q \in Seq(Timer)
  BY DEF Fit, Queue
<1>2. \A K : N(q, K, o) = 0
  BY <1>1, NParts
<1>3. \A K : Limit(K, o, r) \in {0, 1}
  BY DEF Limit
<1> QED
  BY <1>2, <1>3 DEF Fit

(* Decay has three timers.                                                 *)
LEMMA NoDecay ==
  ASSUME NEW q \in Seq(Timer), NEW o
  PROVE  /\ (\A f \in Decay : N(q, Just(f), o) = 0) => N(q, Decay, o) = 0
         /\ N(q, Decay, o) = 0 => \A f \in Decay : Clear(q, f, o)
<1>1. \A f \in Decay : Just(f) \subseteq Decay
  BY DEF Just
<1> QED
  BY <1>1, NParts DEF Clear

(* start_corpse_timeout, for a corpse that does not decay.                 *)
LEMMA FitCorpse ==
  ASSUME ClockOK, NEW q, NEW o \in Bodies, NEW p, Fit(q, o, p), N(q, Decay, o) = 0, ~Iced(p),
         NEW D \in SUBSET (Delays \cup LateDelays), NEW r \in start_corpse_timeout(q, o, D)
  PROVE  Fit(r[1], o, p)
<1>1. CASE r = <<q, 0>>
  BY <1>1
<1>2. CASE \E d \in D, f \in DecayOf(o) : r = <<start_timer(q, d, f, o), 1>>
  <2>1. PICK d \in D, f \in DecayOf(o) : r = <<start_timer(q, d, f, o), 1>>
    BY <1>2
  <2>2. f \in Decay /\ f \in Funcs /\ o \in Owners /\ d \in Delays \cup LateDelays
    BY <2>1, FuncsOfDecay DEF DecayOf, Owners, Obj, Bodies
  <2>3. Clear(q, f, o)
    BY <2>2, NoDecay DEF Fit, Queue
  <2>4. Allowed(f, o, p)
    BY <2>2 DEF Allowed, Decay
  <2> QED BY <2>1, <2>2, <2>3, <2>4, FitStart
<1> QED
  BY <1>1, <1>2 DEF start_corpse_timeout

(* mksobj, for what had no timers.                                         *)
LEMMA FitMksobj ==
  ASSUME ClockOK, NEW q, NEW o \in Obj, NEW p, Fit(q, o, p), Count(q, o) = 0,
         o \in Bodies => ~Iced(p), NEW init, NEW r \in mksobj(q, o, init)
  PROVE  Fit(r[1], o, p)
<1>1. \A K : N(q, K, o) = 0
  BY FitNone
<1>2. CASE o \in Bodies
  <2>1. r \in start_corpse_timeout(q, o, Delays)
    BY <1>2 DEF mksobj
  <2>2. Delays \in SUBSET (Delays \cup LateDelays)
    OBVIOUS
  <2> QED BY <1>1, <1>2, <2>1, <2>2, FitCorpse
<1>3. CASE r = <<q, 0>>
  BY <1>3
<1>4. CASE \E d \in Delays : r = <<start_timer(q, d, "HATCH_EGG", o), 1>>
  <2>1. PICK d \in Delays : r = <<start_timer(q, d, "HATCH_EGG", o), 1>>
    BY <1>4
  <2>2. Clear(q, "HATCH_EGG", o) /\ Allowed("HATCH_EGG", o, p) /\ "HATCH_EGG" \in Funcs /\ o \in Owners
    BY <1>1 DEF Clear, Allowed, Decay, Funcs, ObjFuncs, Owners
  <2> QED BY <2>1, <2>2, FitStart
<1> QED
  BY <1>2, <1>3, <1>4 DEF mksobj

(* obj_timer_checks: one stops, one starts.                                *)
LEMMA FitChecks ==
  ASSUME ClockOK, NEW q, NEW o \in Obj, NEW p, Fit(q, o, p), NEW r \in obj_timer_checks(q, o)
  PROVE  Fit(r, o, p)
<1>1. CASE r = q
  BY <1>1
<1>2. CASE \E d \in LateDelays, f \in RunningDecay(q, o) : r = start_timer(remove_timer(q, f, o), d, f, o)
  <2>1. PICK d \in LateDelays, f \in RunningDecay(q, o) : r = start_timer(remove_timer(q, f, o), d, f, o)
    BY <1>2
  <2>2. f \in Decay /\ f \in Funcs /\ o \in Owners /\ Matches(q, f, o) # {}
    BY <2>1, FuncsOfDecay DEF RunningDecay, Owners, Decay
  <2> DEFINE u == remove_timer(q, f, o)
  <2>3. q \in Queue /\ q \in Seq(Timer) /\ u \in Queue /\ u \in Seq(Timer)
    BY RemoveQueue DEF Fit, Queue
  <2>4. \A K, a : /\ N(q, K, a) \in Nat /\ N(u, K, a) \in Nat
                  /\ N(u, K, a) = N(q, K, a) - IF f \in K /\ o = a /\ N(q, Just(f), o) # 0 THEN 1 ELSE 0
    BY <2>3, NRemove, NType
  <2>5. N(q, Just(f), o) # 0
    BY <2>2, <2>3, NMatches
  <2> HIDE DEF u
  <2>6. start_timer(u, d, f, o) \in Queue
    BY <2>2, <2>3, StartQueue DEF Owners
  <2>7. \A K, a : N(start_timer(u, d, f, o), K, a) = N(u, K, a) + IF f \in K /\ o = a THEN 1 ELSE 0
    BY <2>2, <2>3, NStart
  <2>8. \A K, a : N(start_timer(u, d, f, o), K, a) = N(q, K, a)
    BY <2>4, <2>5, <2>7
  <2>9. Fit(start_timer(u, d, f, o), o, p)
    BY <2>6, <2>8 DEF Fit
  <2> QED BY <2>1, <2>9 DEF u
<1> QED
  BY <1>1, <1>2 DEF obj_timer_checks

(* obj_stop_timers and mon_stop_timers.                                    *)
LEMMA FitStopAll ==
  ASSUME NEW q, NEW o, NEW p, Fit(q, o, p), NEW r
  PROVE  Fit(stop_all(q, o), o, r)
<1>1. q \in Queue /\ q \in Seq(Timer) /\ stop_all(q, o) \in Queue
  BY StopAllQueue DEF Fit, Queue
<1>2. \A K, a : N(stop_all(q, o), K, a) = IF a = o THEN 0 ELSE N(q, K, a)
  BY <1>1, NStopAll
<1>3. \A K : Limit(K, o, r) \in {0, 1}
  BY DEF Limit
<1> QED
  BY <1>1, <1>2, <1>3 DEF Fit

(* run_timers takes the head off: its owner has no other of the kind.      *)
LEMMA FitPopped ==
  ASSUME OwnInv, Limits, todo = <<>>, NEW o \in Owners, NEW f, Fires(f, o)
  PROVE  /\ Fit(Popped, o, Spot(o)) /\ f \in Funcs
         /\ Clear(Popped, f, o) /\ Allowed(f, o, Spot(o))
         /\ \A K, a : N(Popped, K, a) <= N(timer_base, K, a)
<1>1. /\ timer_base \in Queue /\ timer_base \in Seq(Timer) /\ timer_base # <<>>
      /\ Head(timer_base).func = f /\ Head(timer_base).arg = o
  BY FitAsIs DEF Queue, Fires, Due
<1>2. Popped \in Queue /\ Popped \in Seq(Timer)
  BY <1>1, TailQueue DEF Popped, Queue
<1>3. \A K, a : /\ N(timer_base, K, a) = N(Popped, K, a) + IF f \in K /\ o = a THEN 1 ELSE 0
                /\ N(Popped, K, a) \in Nat /\ N(timer_base, K, a) \in Nat
  BY <1>1, <1>2, NTail, NType DEF Popped
<1>4. f \in Funcs
  <2>1. Head(timer_base) \in Timer
    BY <1>1, HeadTailProperties
  <2> QED BY <1>1, <2>1 DEF Timer
<1>5. \A K \in Kinds : N(timer_base, K, o) <= Limit(K, o, Spot(o))
  BY FitAsIs
<1>6. \A K, a, p : Limit(K, a, p) \in {0, 1}
  BY DEF Limit
<1>7. Fit(Popped, o, Spot(o))
  BY <1>2, <1>3, <1>5, <1>6 DEF Fit
<1>8. ASSUME NEW K \in Kinds, f \in K PROVE N(Popped, K, o) = 0 /\ ~Barred(K, o, Spot(o))
  BY <1>3, <1>5, <1>8 DEF Limit
<1>9. Just(f) \in Kinds /\ Decay \in Kinds /\ f \in Just(f)
  BY <1>4 DEF Kinds, Just
<1>10. Clear(Popped, f, o)
  BY <1>8, <1>9 DEF Clear
<1>11. Allowed(f, o, Spot(o))
  BY <1>8, <1>9 DEF Allowed, Barred, Just
<1> QED
  BY <1>3, <1>4, <1>7, <1>10, <1>11

(* One object or monster changes; with FewStep.                            *)
LEMMA OneStep ==
  ASSUME OwnInv, Limits, UNCHANGED <<file, gsave>>, phase # "saved", todo = <<>>, todo' = <<>>,
         NEW o \in Owners, Fit(timer_base', o, Spot(o)'),
         o \in Obj => ~Away(o), \A x \in Obj \ {o} : place'[x] = place[x]
  PROVE  Limits'
<1>1. \A K, a : N(todo', K, a) = 0
  BY NEmpty
<1>2. \A K \in Kinds, a \in Owners : N(timer_base, K, a) <= Limit(K, a, Spot(a))
  BY FitAsIs
<1>3. \A a \in Owners \ {o} : Spot(a)' = Spot(a)
  BY DEF Spot
<1>4. \A K \in Kinds, a \in Owners : N(timer_base', K, a) \in Nat
  BY NType DEF Fit, Queue
<1>5. ASSUME NEW K \in Kinds, NEW a \in Owners
      PROVE  N(timer_base', K, a) + N(todo', K, a) <= Limit(K, a, Spot(a)')
  <2>1. N(timer_base', K, a) <= Limit(K, a, Spot(a)')
    BY <1>2, <1>3 DEF Fit
  <2> QED BY <1>1, <1>4, <2>1
<1>6. \A x \in Obj : Away(x) => place'[x] = place[x]
  OBVIOUS
<1> QED
  BY <1>5, <1>6, FewStep

(* o comes to p, or merges there.                                          *)
LEMMA SettleFew ==
  ASSUME OwnInv, Limits, UNCHANGED <<file, gsave>>, phase # "saved", todo = <<>>, todo' = <<>>,
         NEW o \in Obj, Outer(o, place) = Gone \/ PlaceHere(Outer(o, place), uz, mplace),
         NEW n, NEW p, NEW q, NEW tm, Fit(q, o, p), Settle(o, n, p, q, tm), IInv'
  PROVE  Limits'
<1>1. IInv /\ Shape /\ uz \in Level /\ q \in Queue /\ o \in Owners
  BY InvUnfolded DEF OwnInv, Fit, Owners
<1>2. PICK F \in {{}, {o}} :
           /\ o \in F => o \notin Boxes
           /\ \A K, a : N(timer_base', K, a) = IF a \in F THEN 0 ELSE N(q, K, a)
           /\ \A x \in Obj : timed'[x] = IF x \in F THEN 0 ELSE tm[x]
           /\ place'[o] = IF o \in F THEN Gone ELSE p
           /\ \A x \in Obj \ {o} : place'[x] = place[x]
  BY <1>1, SettleEffect
<1>3. Spot(o)' = IF o \in F THEN Gone ELSE p
  BY <1>2 DEF Spot
<1>4. timer_base' \in Queue
  BY InvUnfolded DEF IInv, ObjectsOK
<1>5. \A K, a, r : Limit(K, a, r) \in {0, 1}
  BY DEF Limit
<1>6. Fit(timer_base', o, Spot(o)')
  BY <1>2, <1>3, <1>4, <1>5 DEF Fit
<1>7. ~Away(o)
  BY <1>1, NotAway
<1> QED
  BY <1>1, <1>2, <1>6, <1>7, OneStep

(* What is away is not touched, and what is not freed has room for its     *)
(* timers, with those that wait, where it is.                              *)
Room(S, pl, q) ==
  /\ \A x \in Obj : Away(x) => x \notin Freed(S, pl) /\ pl[x] = place[x]
  /\ \A K \in Kinds, a \in Owners :
       IF a \in Freed(S, pl) THEN N(todo', K, a) = 0
       ELSE N(q, K, a) + N(todo', K, a) <= Limit(K, a, IF a \in Obj THEN pl[a] ELSE Gone)

(* What is freed leaves no timers; what is not may move, or have some      *)
(* started that wait.                                                      *)
LEMMA FreeFew ==
  ASSUME OwnInv, Limits, UNCHANGED <<file, gsave>>, phase # "saved", todo = <<>>,
         NEW S, NEW pl \in [Obj -> Place], NEW q \in Queue, NEW tm, obfree(S, pl, q, tm), Room(S, pl, q)
  PROVE  Limits'
<1>1. /\ \A K, a : N(timer_base', K, a) = IF a \in Freed(S, pl) THEN 0 ELSE N(q, K, a)
      /\ \A x \in Obj : place'[x] = IF x \in Freed(S, pl) THEN Gone ELSE pl[x]
  BY ObfreeEffect
<1>2. \A K, a, r : Limit(K, a, r) \in {0, 1}
  BY DEF Limit
<1>3. ASSUME NEW K \in Kinds, NEW a \in Owners
      PROVE  N(timer_base', K, a) + N(todo', K, a) <= Limit(K, a, Spot(a)')
  <2>1. CASE a \in Freed(S, pl)
    BY <2>1, <1>1, <1>2 DEF Room
  <2>2. CASE a \notin Freed(S, pl)
    <3>1. Spot(a)' = IF a \in Obj THEN pl[a] ELSE Gone
      BY <2>2, <1>1 DEF Spot
    <3> QED BY <2>2, <3>1, <1>1 DEF Room
  <2> QED BY <2>1, <2>2
<1>4. \A x \in Obj : Away(x) => place'[x] = place[x]
  BY <1>1 DEF Room
<1> QED
  BY <1>3, <1>4, FewStep

(* An object is freed with what is in it.                                  *)
LEMMA DestroyFew ==
  ASSUME OwnInv, Limits, UNCHANGED <<file, gsave>>, phase # "saved", todo = <<>>, todo' = <<>>,
         NEW o \in Obj, Outer(o, place) = Gone \/ PlaceHere(Outer(o, place), uz, mplace),
         NEW q, NEW tm, NEW p, Fit(q, o, p), obfree({o}, place, q, tm)
  PROVE  Limits'
<1>1. IInv /\ Shape /\ uz \in Level /\ q \in Queue /\ place \in [Obj -> Place]
  BY InvUnfolded DEF OwnInv, Fit
<1>2. ASSUME NEW x \in Freed({o}, place)
      PROVE  x \in Obj /\ ~Away(x)
  <2>1. CASE x = o
    BY <2>1, <1>1, NotAway
  <2>2. CASE x \in Obj /\ place[x] = In(o)
    <3>1. o \in Boxes /\ place[x].at = "contained" /\ place[x].by = o /\ place[o].at # "contained"
      BY <2>2, <1>1, InABox DEF Shape
    <3>2. Outer(x, place) = Outer(o, place)
      BY <3>1 DEF Outer
    <3> QED BY <2>2, <3>2, <1>1, NotAway
  <2> QED BY <2>1, <2>2 DEF Freed
<1>3. ASSUME NEW K \in Kinds, NEW a \in Owners
      PROVE  /\ N(todo', K, a) = 0
             /\ a \notin Freed({o}, place) =>
                  N(q, K, a) + N(todo', K, a) <= Limit(K, a, IF a \in Obj THEN place[a] ELSE Gone)
  <2>1. N(todo', K, a) = 0
    BY NEmpty
  <2>2. a # o => N(q, K, a) = N(timer_base, K, a)
    BY DEF Fit
  <2>3. o \in Freed({o}, place)
    BY DEF Freed
  <2>4. N(timer_base, K, a) <= Limit(K, a, Spot(a))
    BY FitAsIs
  <2>5. N(q, K, a) \in Nat
    BY <1>1, NType DEF Queue
  <2> QED BY <2>1, <2>2, <2>3, <2>4, <2>5 DEF Spot
<1>4. \A x \in Obj : Away(x) => x \notin Freed({o}, place) /\ place[x] = place[x]
  BY <1>2
<1>5. Room({o}, place, q)
  BY <1>3, <1>4 DEF Room
<1> QED
  BY <1>1, <1>5, FreeFew

-----------------------------------------------------------------------------
(* The actions on objects keep the limits.                                 *)

(* Nothing that the limits look at changes.                                *)
LEMMA SameFew == Limits /\ UNCHANGED <<timer_base, todo, place, file, gsave>> => Limits'
BY DEF Limits, Spot

(* Places at hand are neither in a box nor in the ground.                  *)
LEMMA HandyOpen ==
  /\ \A p \in Handy \cup {Floor(uz), Invent} : ~Iced(p) /\ p.at # "buried"
  /\ ~Iced(Buried(uz)) /\ Buried(uz).at = "buried"
  /\ \A l : ~Iced(Bound(l)) /\ ~Iced(Trailing(l))
BY DEF Handy, Floor, Invent, Minvent, Buried, Bound, Trailing, At, Iced

(* An object comes to a place in memory.                                   *)
LEMMA PlaySettleFew ==
  ASSUME OneInv, IInv', Still, unchangedWorld, unchangedLoop,
         NEW o \in Obj, NEW n, NEW p, NEW q, NEW tm, Settle(o, n, p, q, tm), Fit(q, o, p),
         Outer(o, place) = Gone \/ PlaceHere(Outer(o, place), uz, mplace)
  PROVE  Limits'
<1>1. /\ OwnInv /\ Limits /\ UNCHANGED <<file, gsave>> /\ phase # "saved"
      /\ todo = <<>> /\ todo' = <<>>
  BY DEF OneInv, Still, unchangedWorld, unchangedLoop
<1> QED
  BY <1>1, SettleFew

(* CreateObj.                                                              *)
LEMMA CreateObjFew ==
  ASSUME OneInv, IInv', NEW o \in Obj, NEW p \in {Invent, Floor(uz)}, CreateObj(o, p)
  PROVE  Limits'
<1>1. Still /\ place[o] = Gone /\ unchangedWorld /\ unchangedLoop /\ OwnInv /\ Limits /\ ClockOK
  BY PlayingStill DEF CreateObj, OneInv, OwnInv, IInv
<1>2. PICK r \in mksobj(timer_base, o, TRUE), n \in BOOLEAN :
            Settle(o, n, p, r[1], [timed EXCEPT ![o] = r[2]])
  BY DEF CreateObj
<1>3. Outer(o, place) = Gone /\ Count(timer_base, o) = 0 /\ o \in Owners /\ todo = <<>>
  BY <1>1, GoneCounted DEF Owners, Still
<1>4. Fit(timer_base, o, p)
  BY <1>1, <1>3, FitAsIs, FitNone
<1>5. ~Iced(p)
  BY HandyOpen
<1>6. Fit(r[1], o, p)
  BY <1>1, <1>3, <1>4, <1>5, FitMksobj
<1> QED
  BY <1>1, <1>2, <1>3, <1>6, PlaySettleFew

(* MoveObj.                                                                *)
LEMMA MoveObjFew ==
  ASSUME OneInv, IInv', NEW o \in Obj, NEW p \in Handy, MoveObj(o, p)
  PROVE  Limits'
<1>1. /\ Still /\ place[o] \in Handy /\ unchangedWorld /\ unchangedLoop
      /\ OwnInv /\ Limits /\ ClockOK /\ uz \in Level /\ o \in Owners /\ todo = <<>>
  BY PlayingStill, ListTypes DEF MoveObj, OneInv, OwnInv, IInv, Owners, Still
<1>2. PICK q \in obj_timer_checks(timer_base, o) \cup {timer_base} :
            Settle(o, many[o], p, q, timed)
  BY DEF MoveObj
<1>3. Fit(timer_base, o, place[o])
  BY <1>1, FitAsIs DEF Spot
<1>4. Fit(timer_base, o, p)
  BY <1>1, <1>3, HandyOpen, FitMoved
<1>5. Fit(q, o, p)
  BY <1>1, <1>4, FitChecks
<1>6. PlaceHere(Outer(o, place), uz, mplace)
  BY <1>1, HandyHere, OuterSelf
<1> QED
  BY <1>1, <1>2, <1>5, <1>6, PlaySettleFew

(* PutInBox: on ice, the three timers of decay are gone.                   *)
LEMMA PutInBoxFew ==
  ASSUME OneInv, IInv', NEW o \in Obj, NEW b \in Boxes, PutInBox(o, b)
  PROVE  Limits'
<1> DEFINE q1 == remove_timer(timer_base, "ROT_CORPSE", o)
           q2 == remove_timer(q1, "MOLDY_CORPSE", o)
           q3 == remove_timer(q2, "REVIVE_MON", o)
           t1 == Less(timed, timer_base, "ROT_CORPSE", o)
           t2 == Less(t1, q1, "MOLDY_CORPSE", o)
           t3 == Less(t2, q2, "REVIVE_MON", o)
<1>1. /\ Still /\ place[o] = Invent /\ o \notin Boxes /\ unchangedWorld /\ unchangedLoop
      /\ OwnInv /\ Limits /\ uz \in Level /\ o \in Owners /\ todo = <<>> /\ phase # "saved"
  BY PlayingStill, ListTypes DEF PutInBox, OneInv, OwnInv, Owners, Still
<1>2. \/ Settle(o, many[o], In(b), q3, t3)
      \/ /\ Settle(o, many[o], In(b), timer_base, timed)
         /\ b \notin IceBoxes \/ o \notin Bodies \/ ~(timed[o] > 0)
  BY DEF PutInBox
<1>3. PlaceHere(Outer(o, place), uz, mplace)
  BY <1>1, HandyHere, OuterSelf
<1>4. Fit(timer_base, o, Invent)
  BY <1>1, FitAsIs DEF Spot
<1>5. Decay \in SUBSET Funcs /\ Decay = {"ROT_CORPSE", "MOLDY_CORPSE", "REVIVE_MON"}
  BY FuncsOfDecay DEF Decay
<1>6. /\ Fit(q1, o, Invent) /\ N(q1, Just("ROT_CORPSE"), o) = 0
  BY <1>1, <1>4, <1>5, FitRemove
<1> HIDE DEF q1, t1
<1>7. /\ Fit(q2, o, Invent) /\ N(q2, Just("MOLDY_CORPSE"), o) = 0
      /\ \A K : N(q2, K, o) <= N(q1, K, o)
  BY <1>1, <1>5, <1>6, FitRemove
<1> HIDE DEF q2, t2
<1>8. /\ Fit(q3, o, Invent) /\ N(q3, Just("REVIVE_MON"), o) = 0
      /\ \A K : N(q3, K, o) <= N(q2, K, o)
  BY <1>1, <1>5, <1>7, FitRemove
<1> HIDE DEF q3, t3
<1>9. q1 \in Seq(Timer) /\ q2 \in Seq(Timer) /\ q3 \in Seq(Timer)
  BY <1>6, <1>7, <1>8 DEF Fit, Queue
<1>10. \A K : N(q1, K, o) \in Nat /\ N(q2, K, o) \in Nat /\ N(q3, K, o) \in Nat
  BY <1>9, NType
<1>11. \A f \in Decay : N(q3, Just(f), o) = 0
  BY <1>5, <1>6, <1>7, <1>8, <1>10
<1>12. N(q3, Decay, o) = 0
  BY <1>9, <1>11, NoDecay
<1>13. Invent.at # "buried"
  BY HandyOpen
<1>14. Fit(q3, o, In(b))
  BY <1>8, <1>12, <1>13, FitMoved
<1>15. ASSUME b \notin IceBoxes \/ o \notin Bodies \/ ~(timed[o] > 0)
       PROVE  Fit(timer_base, o, In(b))
  <2>1. CASE b \notin IceBoxes
    <3>1. ~Iced(In(b))
      BY <2>1 DEF Iced, In, At
    <3> QED BY <3>1, <1>4, <1>13, FitMoved
  <2>2. CASE o \notin Bodies
    BY <2>2, <1>4, <1>13, FitMoved
  <2>3. CASE ~(timed[o] > 0)
    <3>1. timed[o] = Count(timer_base, o) /\ timed[o] \in Nat
      BY <1>1, <1>3, NearCounted
    <3>2. Count(timer_base, o) = 0
      BY <2>3, <3>1
    <3> QED BY <3>2, <1>4, FitNone
  <2> QED BY <1>15, <2>1, <2>2, <2>3
<1> QED
  BY <1>1, <1>2, <1>3, <1>14, <1>15, PlaySettleFew

(* TakeOut: a corpse on ice has no timer of decay.                         *)
LEMMA TakeOutFew ==
  ASSUME OneInv, IInv', NEW o \in Obj, TakeOut(o)
  PROVE  Limits'
<1> DEFINE b == place[o].by
<1>1. /\ Still /\ place[o].at = "contained" /\ place[b] \in {Invent, Floor(uz)}
      /\ unchangedWorld /\ unchangedLoop /\ OwnInv /\ Limits /\ ClockOK
      /\ uz \in Level /\ o \in Owners /\ todo = <<>>
  BY PlayingStill, ListTypes DEF TakeOut, OneInv, OwnInv, IInv, Owners, Still
<1>2. PICK r \in IF b \in IceBoxes /\ o \in Bodies
                 THEN start_corpse_timeout(timer_base, o, LateDelays) ELSE {<<timer_base, 0>>} :
            Settle(o, many[o], Invent, r[1], [timed EXCEPT ![o] = @ + r[2]])
  BY DEF TakeOut
<1>3. Fit(timer_base, o, place[o])
  BY <1>1, FitAsIs DEF Spot
<1>4. Fit(timer_base, o, Invent) /\ ~Iced(Invent)
  BY <1>1, <1>3, HandyOpen, FitMoved
<1>5. Fit(r[1], o, Invent)
  <2>1. CASE b \in IceBoxes /\ o \in Bodies
    <3>1. N(timer_base, Decay, o) = 0
      <4>1. Iced(place[o]) /\ Decay \in Kinds
        BY <1>1, <2>1 DEF Iced, Kinds
      <4>2. Limit(Decay, o, place[o]) = 0
        BY <4>1 DEF Limit, Barred
      <4>3. N(timer_base, Decay, o) <= 0
        BY <1>3, <4>1, <4>2 DEF Fit
      <4>4. N(timer_base, Decay, o) \in Nat
        BY <1>3, NType DEF Fit, Queue
      <4> QED BY <4>3, <4>4
    <3>2. LateDelays \in SUBSET (Delays \cup LateDelays)
      OBVIOUS
    <3> QED BY <1>1, <1>2, <1>4, <2>1, <3>1, <3>2, FitCorpse
  <2>2. CASE ~(b \in IceBoxes /\ o \in Bodies)
    BY <1>2, <1>4, <2>2
  <2> QED BY <2>1, <2>2
<1>6. PlaceHere(Outer(o, place), uz, mplace)
  <2>1. b \in Boxes
    BY <1>1 DEF OwnInv, Shape
  <2> QED BY <1>1, <2>1, BoxedHere
<1> QED
  BY <1>1, <1>2, <1>5, <1>6, PlaySettleFew

(* What has been said of Still, and what may be said of an object at hand. *)
LEMMA AtHand ==
  ASSUME OneInv, Still, unchangedWorld, unchangedLoop, NEW o \in Obj
  PROVE  /\ OwnInv /\ Limits /\ ClockOK /\ uz \in Level /\ o \in Owners
         /\ todo = <<>> /\ todo' = <<>> /\ phase # "saved" /\ UNCHANGED <<file, gsave>>
         /\ place \in [Obj -> Place] /\ Fit(timer_base, o, place[o])
<1>1. /\ OwnInv /\ Limits /\ ClockOK /\ uz \in Level /\ o \in Owners
      /\ todo = <<>> /\ todo' = <<>> /\ phase # "saved" /\ UNCHANGED <<file, gsave>>
  BY ListTypes DEF OneInv, OwnInv, IInv, Owners, Still, unchangedWorld, unchangedLoop
<1>2. place \in [Obj -> Place]
  BY <1>1, InvUnfolded DEF OwnInv
<1>3. Fit(timer_base, o, place[o])
  BY <1>1, FitAsIs DEF Spot
<1> QED
  BY <1>1, <1>2, <1>3

(* An object that is not away gets a new list, and perhaps a new place.    *)
LEMMA PlayListFew ==
  ASSUME OneInv, Still, unchangedWorld, unchangedLoop, NEW o \in Obj,
         Outer(o, place) = Gone \/ PlaceHere(Outer(o, place), uz, mplace),
         NEW p, place' = [place EXCEPT ![o] = p], Fit(timer_base', o, p)
  PROVE  Limits'
<1>1. /\ OwnInv /\ Limits /\ uz \in Level /\ o \in Owners /\ place \in [Obj -> Place]
      /\ todo = <<>> /\ todo' = <<>> /\ phase # "saved" /\ UNCHANGED <<file, gsave>>
  BY AtHand
<1>2. Spot(o)' = p /\ \A x \in Obj \ {o} : place'[x] = place[x]
  BY <1>1 DEF Spot
<1>3. ~Away(o)
  BY <1>1, NotAway
<1>4. Fit(timer_base', o, Spot(o)')
  BY <1>2
<1> QED
  BY <1>1, <1>2, <1>3, <1>4, OneStep

(* Bury.                                                                   *)
LEMMA BuryFew ==
  ASSUME OneInv, NEW o \in Obj, Bury(o)
  PROVE  Limits'
<1>1. /\ Still /\ place[o] = Floor(uz) /\ unchangedWorld /\ unchangedLoop
      /\ place' = [place EXCEPT ![o] = Buried(uz)]
  BY PlayingStill DEF Bury
<1>2. ClockOK /\ uz \in Level /\ o \in Owners /\ Fit(timer_base, o, Floor(uz))
  BY <1>1, AtHand
<1>3. Fit(timer_base, o, Buried(uz))
  BY <1>2, HandyOpen, FitMoved
<1>4. Fit(timer_base', o, Buried(uz))
  <2>1. ASSUME NEW d \in Delays, timer_base' = start_timer(timer_base, d, "ROT_ORGANIC", o)
        PROVE  Fit(timer_base', o, Buried(uz))
    <3>1. "ROT_ORGANIC" \in Funcs /\ "ROT_ORGANIC" \notin Decay
      BY DEF Funcs, ObjFuncs, Decay
    <3>2. Just("ROT_ORGANIC") \in Kinds
      BY <3>1 DEF Kinds
    <3>3. Limit(Just("ROT_ORGANIC"), o, Floor(uz)) = 0
      BY HandyOpen DEF Limit, Barred
    <3>4. N(timer_base, Just("ROT_ORGANIC"), o) <= 0
      BY <1>2, <3>2, <3>3 DEF Fit
    <3>5. N(timer_base, Just("ROT_ORGANIC"), o) \in Nat
      BY <1>2, NType DEF Fit, Queue
    <3>6. Clear(timer_base, "ROT_ORGANIC", o)
      BY <3>1, <3>4, <3>5 DEF Clear
    <3>7. Allowed("ROT_ORGANIC", o, Buried(uz))
      BY <3>1, HandyOpen DEF Allowed
    <3>8. Fit(start_timer(timer_base, d, "ROT_ORGANIC", o), o, Buried(uz))
      BY <1>2, <1>3, <3>1, <3>6, <3>7, FitStart
    <3> QED BY <2>1, <3>8
  <2>2. CASE timer_base' \in obj_timer_checks(timer_base, o)
    BY <1>2, <1>3, <2>2, FitChecks
  <2> QED BY <2>1, <2>2 DEF Bury
<1>5. PlaceHere(Outer(o, place), uz, mplace)
  BY <1>1, <1>2, HandyHere, OuterSelf
<1> DEFINE p == Buried(uz)
<1>6. place' = [place EXCEPT ![o] = p] /\ Fit(timer_base', o, p)
  BY <1>1, <1>4
<1> HIDE DEF p
<1> QED
  BY <1>1, <1>5, <1>6, PlayListFew

(* Unearth: the timer that rots is stopped.                                *)
LEMMA UnearthFew ==
  ASSUME OneInv, IInv', NEW o \in Obj, Unearth(o)
  PROVE  Limits'
<1> DEFINE q == remove_timer(timer_base, "ROT_ORGANIC", o)
           tm == Less(timed, timer_base, "ROT_ORGANIC", o)
<1>1. Still /\ place[o] = Buried(uz) /\ unchangedWorld /\ unchangedLoop
  BY PlayingStill DEF Unearth
<1>2. \/ \E r \in obj_timer_checks(q, o) : Settle(o, many[o], Floor(uz), r, tm)
      \/ Settle(o, many[o], Floor(uz), timer_base, timed) /\ ~(timed[o] > 0)
  BY DEF Unearth
<1>3. OwnInv /\ ClockOK /\ uz \in Level /\ o \in Owners /\ Fit(timer_base, o, Buried(uz))
  BY <1>1, AtHand
<1>4. PlaceHere(Outer(o, place), uz, mplace)
  BY <1>1, <1>3, HandyHere, OuterSelf
<1>5. Fit(q, o, Buried(uz)) /\ N(q, Just("ROT_ORGANIC"), o) = 0
  <2>1. "ROT_ORGANIC" \in Funcs
    BY DEF Funcs, ObjFuncs
  <2> QED BY <1>3, <2>1, FitRemove
<1> HIDE DEF q, tm
<1>6. Fit(q, o, Floor(uz))
  BY <1>5, HandyOpen, FitMoved
<1>7. \A r \in obj_timer_checks(q, o) : Fit(r, o, Floor(uz))
  BY <1>3, <1>6, FitChecks
<1>8. ~(timed[o] > 0) => Fit(timer_base, o, Floor(uz))
  <2>1. timed[o] = Count(timer_base, o) /\ timed[o] \in Nat
    BY <1>1, <1>3, <1>4, NearCounted DEF Still
  <2> QED BY <1>3, <2>1, FitNone
<1> QED
  BY <1>1, <1>2, <1>4, <1>7, <1>8, PlaySettleFew

(* DestroyObj.                                                             *)
LEMMA DestroyObjFew ==
  ASSUME OneInv, NEW o \in Obj, DestroyObj(o)
  PROVE  Limits'
<1>1. Still /\ place[o] \in Handy /\ unchangedWorld /\ unchangedLoop
  BY PlayingStill DEF DestroyObj
<1>2. /\ OwnInv /\ Limits /\ uz \in Level /\ Fit(timer_base, o, place[o])
      /\ todo = <<>> /\ todo' = <<>> /\ phase # "saved" /\ UNCHANGED <<file, gsave>>
  BY <1>1, AtHand
<1>3. PlaceHere(Outer(o, place), uz, mplace)
  BY <1>1, <1>2, HandyHere, OuterSelf
<1>4. CASE obfree({o}, place, timer_base, timed)
  BY <1>2, <1>3, <1>4, DestroyFew
<1>5. CASE UNCHANGED <<timer_base, timed, place>>
  BY <1>2, <1>5, SameFew
<1> QED
  BY <1>4, <1>5 DEF DestroyObj

(* StopTimers.                                                             *)
LEMMA StopTimersFew ==
  ASSUME OneInv, NEW o \in Obj, StopTimers(o)
  PROVE  Limits'
<1>1. Still /\ place[o] \in Handy /\ UNCHANGED place /\ unchangedWorld /\ unchangedLoop
  BY PlayingStill DEF StopTimers
<1>2. /\ uz \in Level /\ o \in Owners /\ Fit(timer_base, o, place[o]) /\ place \in [Obj -> Place]
  BY <1>1, AtHand
<1>3. PlaceHere(Outer(o, place), uz, mplace)
  BY <1>1, <1>2, HandyHere, OuterSelf
<1> DEFINE p == place[o]
<1>4. Fit(timer_base', o, p)
  <2>1. CASE timer_base' = stop_all(timer_base, o)
    BY <1>2, <2>1, FitStopAll
  <2>2. ASSUME NEW f \in {"UNPOLY_OBJ", "HATCH_EGG"}, timer_base' = remove_timer(timer_base, f, o)
        PROVE  Fit(timer_base', o, p)
    <3>1. f \in Funcs
      BY DEF Funcs, ObjFuncs
    <3> QED BY <1>2, <2>2, <3>1, FitRemove
  <2> QED BY <2>1, <2>2 DEF StopTimers
<1>5. place' = [place EXCEPT ![o] = p]
  BY <1>1, <1>2
<1> HIDE DEF p
<1> QED
  BY <1>1, <1>3, <1>4, <1>5, PlayListFew

(* MigrateObj.                                                             *)
LEMMA MigrateObjFew ==
  ASSUME OneInv, NEW o \in Obj, NEW l \in Level, MigrateObj(o, l)
  PROVE  Limits'
<1>1. Still /\ place[o] = Floor(uz) /\ unchangedWorld /\ unchangedLoop
  BY PlayingStill DEF MigrateObj
<1>2. PICK p \in {Bound(l), Trailing(l)} : place' = [place EXCEPT ![o] = p]
  BY DEF MigrateObj
<1>3. ClockOK /\ uz \in Level /\ o \in Owners /\ Fit(timer_base, o, Floor(uz))
  BY <1>1, AtHand
<1>4. Fit(timer_base, o, p)
  BY <1>3, HandyOpen, FitMoved
<1>5. timer_base' \in obj_timer_checks(timer_base, o) \cup {timer_base}
  BY DEF MigrateObj
<1>6. Fit(timer_base', o, p)
  BY <1>3, <1>4, <1>5, FitChecks
<1>7. PlaceHere(Outer(o, place), uz, mplace)
  BY <1>1, <1>3, HandyHere, OuterSelf
<1> QED
  BY <1>1, <1>2, <1>6, <1>7, PlayListFew

(* What may have timers of one type may have the timers of another of it.  *)
LEMMA SameLimits ==
  ASSUME NEW o \in Obj, NEW o2 \in Obj, SameType(o, o2)
  PROVE  /\ \A K, p : Limit(K, o, p) = Limit(K, o2, p)
         /\ o \in IceBoxes <=> o2 \in IceBoxes
<1>1. (o \in Bodies <=> o2 \in Bodies) /\ (o \in IceBoxes <=> o2 \in IceBoxes)
  BY OwnersDistinct DEF SameType, Bodies, Boxes
<1> QED
  BY <1>1 DEF Limit, Barred

(* SplitObj: the copies are all the new stack has.                         *)
LEMMA SplitObjFew ==
  ASSUME OneInv, NEW o \in Obj, NEW o2 \in Obj, SplitObj(o, o2)
  PROVE  Limits'
<1>1. /\ Still /\ place[o] \in {Invent, Floor(uz)} /\ place[o2] = Gone /\ SameType(o, o2)
      /\ UNCHANGED <<timer_base, file, gsave>> /\ place' = [place EXCEPT ![o2] = place[o]]
      /\ todo' = IF timed[o] > 0 THEN copies(timer_base, o, o2) ELSE <<>>
  BY PlayingStill DEF SplitObj, unchangedWorld
<1>2. /\ OwnInv /\ Limits /\ uz \in Level /\ place \in [Obj -> Place]
      /\ timer_base \in Seq(Timer) /\ phase # "saved" /\ todo = <<>> /\ o2 \in Owners /\ o \in Owners
  BY <1>1, InvUnfolded DEF OneInv, OwnInv, Queue, Still, Owners
<1>3. o # o2 /\ Count(timer_base, o2) = 0 /\ Outer(o2, place) = Gone
  BY <1>1, <1>2, GoneCounted DEF Gone, Invent, Floor, At
<1>4. /\ \A a \in Owners \ {o2} : Spot(a)' = Spot(a)
      /\ Spot(o2)' = Spot(o)
  BY <1>1, <1>2, <1>3 DEF Spot
<1>5. \A K : N(timer_base, K, o2) = 0
  BY <1>2, <1>3, NParts
<1>6. \A K, a : N(todo', K, a) = 0 \/ (a = o2 /\ N(todo', K, a) = N(timer_base, K, o))
  <2>1. \A K, a : N(copies(timer_base, o, o2), K, a) = IF a = o2 THEN N(timer_base, K, o) ELSE 0
    BY <1>2, <1>3, NCopies
  <2> QED BY <1>1, <2>1, NEmpty
<1>7. \A K \in Kinds, a \in Owners : N(timer_base, K, a) <= Limit(K, a, Spot(a))
  BY <1>2, FitAsIs
<1>8. \A K, a : N(timer_base, K, a) \in Nat
  BY <1>2, NType
<1>9. \A K, p : Limit(K, o, p) = Limit(K, o2, p) /\ Limit(K, o2, p) \in {0, 1}
  BY <1>1, SameLimits DEF Limit
<1>10. ASSUME NEW K \in Kinds, NEW a \in Owners
       PROVE  N(timer_base', K, a) + N(todo', K, a) <= Limit(K, a, Spot(a)')
  <2>1. N(timer_base', K, a) = N(timer_base, K, a)
    BY <1>1
  <2>2. CASE a # o2
    BY <2>1, <2>2, <1>4, <1>6, <1>7, <1>8
  <2>3. CASE a = o2
    <3>1. N(timer_base, K, o) <= Limit(K, o2, Spot(o)) /\ Limit(K, o2, Spot(o)) \in {0, 1}
      BY <1>2, <1>7, <1>9
    <3> QED BY <2>1, <2>3, <3>1, <1>4, <1>5, <1>6, <1>8
  <2> QED BY <2>2, <2>3
<1>11. \A x \in Obj : Away(x) => place'[x] = place[x]
  <2>1. ~Away(o2)
    BY <1>2, <1>3, NotAway
  <2> QED BY <2>1, <1>1, <1>2
<1> QED
  BY <1>1, <1>2, <1>10, <1>11, FewStep

(* ReallocObj: the timers move with what is in the object.                 *)
LEMMA ReallocObjFew ==
  ASSUME OneInv, NEW o \in Obj, NEW o2 \in Obj, ReallocObj(o, o2)
  PROVE  Limits'
<1>1. /\ Still /\ place[o] \in {Invent, Floor(uz)} /\ place[o2] = Gone /\ SameType(o, o2)
      /\ o # o2 /\ unchangedWorld /\ unchangedLoop
  BY PlayingStill DEF ReallocObj
<1>2. /\ OwnInv /\ Limits /\ uz \in Level /\ place \in [Obj -> Place] /\ o \in Owners /\ o2 \in Owners
      /\ timer_base \in Seq(Timer) /\ phase # "saved" /\ todo = <<>> /\ todo' = <<>>
      /\ UNCHANGED <<file, gsave>>
  BY <1>1, AtHand, InvUnfolded DEF OwnInv, Queue, Owners
<1>3. /\ Count(timer_base, o2) = 0 /\ Outer(o2, place) = Gone /\ Gone.at = "free"
      /\ \A b : In(b).at = "contained" /\ In(b).by = b
  BY <1>1, <1>2, GoneCounted DEF In, Gone, At
<1>4. place[o].at # "contained" /\ PlaceHere(place[o], uz, mplace)
  BY <1>1, <1>2, HandyHere
<1>5. place' = [x \in Obj |-> CASE x = o2 -> place[o]
                                [] x = o  -> Gone
                                [] x \in Contents(o) -> In(o2)
                                [] OTHER  -> place[x]]
  BY DEF ReallocObj
<1>6. o \notin Contents(o) /\ o2 \notin Contents(o) /\ \A x \in Contents(o) : x \in Obj /\ place[x] = In(o)
  BY <1>1, <1>3, <1>4 DEF Contents
<1>7. /\ place'[o2] = place[o]
      /\ \A x \in Obj \ {o, o2} : place'[x] = IF x \in Contents(o) THEN In(o2) ELSE place[x]
  <2>1. place'[o2] = place[o]
    BY <1>1, <1>5, <1>6
  <2>2. \A x \in Obj \ {o, o2} : place'[x] = IF x \in Contents(o) THEN In(o2) ELSE place[x]
    BY <1>5
  <2> QED BY <2>1, <2>2
<1>8. \A K, p : /\ Limit(K, o, p) = Limit(K, o2, p) /\ Limit(K, o, p) \in {0, 1}
                /\ \A a : Limit(K, a, p) \in {0, 1}
  BY <1>1, SameLimits DEF Limit
<1>9. ASSUME NEW a \in Owners \ {o, o2}, NEW K PROVE Limit(K, a, Spot(a)') = Limit(K, a, Spot(a))
  <2>1. CASE a \in Contents(o)
    <3>1. Spot(a) = In(o) /\ Spot(a)' = In(o2)
      BY <1>6, <1>7, <2>1 DEF Spot
    <3>2. Iced(In(o)) <=> Iced(In(o2))
      BY <1>1, <1>3, SameLimits DEF Iced
    <3> QED BY <3>1, <3>2, <1>3 DEF Limit, Barred
  <2>2. CASE a \notin Contents(o)
    <3>1. Spot(a)' = Spot(a)
      BY <1>7, <2>2 DEF Spot
    <3> QED BY <3>1
  <2> QED BY <2>1, <2>2
<1>10. \A K \in Kinds, a \in Owners : N(timer_base, K, a) <= Limit(K, a, Spot(a))
  BY <1>2, FitAsIs
<1>11. \A K : /\ \A a : N(timer_base, K, a) \in Nat
              /\ N(timer_base, K, o2) = 0
  BY <1>2, <1>3, NType, NParts
<1>12. \A K, a : N(timer_base', K, a) = IF a = o2 THEN N(timer_base, K, o)
                                        ELSE IF a = o THEN 0 ELSE N(timer_base, K, a)
  <2>1. CASE timed[o] > 0
    <3>1. timer_base' = move_timers(timer_base, o, o2)
      BY <2>1 DEF ReallocObj
    <3> QED BY <3>1, <1>1, <1>2, <1>3, NMove
  <2>2. CASE ~(timed[o] > 0)
    <3>1. timer_base' = timer_base
      BY <2>2 DEF ReallocObj
    <3>2. timed[o] = Count(timer_base, o) /\ timed[o] \in Nat
      BY <1>1, <1>2, <1>4, NearCounted, OuterSelf
    <3>3. Count(timer_base, o) = 0
      BY <2>2, <3>2
    <3>4. \A K : N(timer_base, K, o) = 0
      BY <1>2, <3>3, NParts
    <3> QED BY <3>1, <3>4, <1>11
  <2> QED BY <2>1, <2>2
<1>13. ASSUME NEW K \in Kinds, NEW a \in Owners
       PROVE  N(timer_base', K, a) + N(todo', K, a) <= Limit(K, a, Spot(a)')
  <2>1. N(todo', K, a) = 0
    BY <1>2, NEmpty
  <2>2. CASE a = o2
    <3>1. Spot(o2)' = place[o] /\ Spot(o) = place[o]
      BY <1>7 DEF Spot
    <3>2. N(timer_base, K, o) <= Limit(K, o2, place[o])
      BY <1>2, <1>8, <1>10, <3>1
    <3>3. N(timer_base', K, a) = N(timer_base, K, o)
      BY <1>12, <2>2
    <3> QED BY <2>1, <2>2, <3>1, <3>2, <3>3, <1>11
  <2>3. CASE a = o
    <3>1. N(timer_base', K, a) = 0
      BY <1>1, <1>12, <2>3
    <3> QED BY <2>1, <3>1, <1>8
  <2>4. CASE a \notin {o, o2}
    <3>1. N(timer_base', K, a) = N(timer_base, K, a)
      BY <1>12, <2>4
    <3>2. Limit(K, a, Spot(a)') = Limit(K, a, Spot(a))
      BY <1>9, <2>4
    <3> QED BY <2>1, <3>1, <3>2, <1>10, <1>11
  <2> QED BY <2>2, <2>3, <2>4
<1>14. ASSUME NEW x \in Obj, Away(x) PROVE place'[x] = place[x]
  <2>1. ~Away(o) /\ ~Away(o2)
    BY <1>2, <1>3, <1>4, NotAway, OuterSelf
  <2>2. x \notin Contents(o)
    <3>1. ASSUME x \in Contents(o) PROVE FALSE
      <4>1. place[x].at = "contained" /\ place[x].by = o
        BY <1>3, <1>6, <3>1
      <4>2. Outer(x, place) = place[o]
        BY <4>1 DEF Outer
      <4> QED BY <4>2, <1>2, <1>4, <1>14, NotAway
    <3> QED BY <3>1
  <2> QED BY <2>1, <2>2, <1>7, <1>14
<1> QED
  BY <1>2, <1>13, <1>14, FewStep

(* What is in an object that is not away is not away either.               *)
LEMMA InsideHere ==
  ASSUME Shape, uz \in Level, NEW o \in Obj,
         Outer(o, place) = Gone \/ PlaceHere(Outer(o, place), uz, mplace),
         NEW x \in Obj, x = o \/ place[x] = In(o)
  PROVE  ~Away(x)
<1>1. CASE x = o
  BY <1>1, NotAway
<1>2. CASE place[x] = In(o)
  <2>1. o \in Boxes /\ place[x].at = "contained" /\ place[x].by = o /\ place[o].at # "contained"
    BY <1>2, InABox DEF Shape
  <2>2. Outer(x, place) = Outer(o, place)
    BY <2>1 DEF Outer
  <2> QED BY <2>2, NotAway
<1> QED
  BY <1>1, <1>2

(* o is freed with what is in it; o2, which was gone, is at p.             *)
LEMMA ReplaceFew ==
  ASSUME OneInv, Still, unchangedWorld, unchangedLoop,
         NEW o \in Obj, NEW o2 \in Obj, o # o2, place[o2] = Gone,
         PlaceHere(Outer(o, place), uz, mplace), NEW p \in Place,
         NEW q \in Queue, NEW tm, obfree({o}, [place EXCEPT ![o2] = p], q, tm),
         \A K \in Kinds, a \in Owners \ {o, o2} : N(q, K, a) = N(timer_base, K, a),
         \A K \in Kinds : N(q, K, o2) <= Limit(K, o2, p)
  PROVE  Limits'
<1> DEFINE pl == [place EXCEPT ![o2] = p]
           S == {o}
<1>1. /\ OwnInv /\ Limits /\ Shape /\ uz \in Level /\ place \in [Obj -> Place]
      /\ phase # "saved" /\ todo = <<>> /\ todo' = <<>> /\ UNCHANGED <<file, gsave>>
      /\ q \in Seq(Timer) /\ o \in Owners
  BY AtHand DEF OwnInv, Queue
<1>2. pl \in [Obj -> Place] /\ pl[o2] = p /\ \A x \in Obj \ {o2} : pl[x] = place[x]
  BY <1>1
<1>3. obfree(S, pl, q, tm) /\ S = {o}
  OBVIOUS
<1> HIDE DEF pl, S
<1>4. ASSUME NEW x \in Obj, Away(x) PROVE x \notin Freed(S, pl) /\ pl[x] = place[x]
  <2>1. ~Away(o2)
    <3>1. Outer(o2, place) = Gone
      BY DEF Outer, Gone, At
    <3> QED BY <1>1, <3>1, NotAway
  <2>2. x # o2 /\ x # o /\ place[x] # In(o)
    BY <1>1, <1>4, <2>1, InsideHere
  <2> QED BY <2>2, <1>2, <1>3 DEF Freed
<1>5. \A K \in Kinds, a \in Owners : N(timer_base, K, a) <= Limit(K, a, Spot(a))
  BY <1>1, FitAsIs
<1>6. \A K, a : N(q, K, a) \in Nat /\ N(todo', K, a) = 0
  BY <1>1, NType, NEmpty
<1>7. o \in Freed(S, pl)
  BY <1>3 DEF Freed
<1>8. ASSUME NEW K \in Kinds, NEW a \in Owners \ Freed(S, pl)
      PROVE  N(q, K, a) + N(todo', K, a) <= Limit(K, a, IF a \in Obj THEN pl[a] ELSE Gone)
  <2>1. CASE a = o2
    BY <2>1, <1>2, <1>6
  <2>2. CASE a # o2
    <3>1. a \in Owners \ {o, o2} /\ (IF a \in Obj THEN pl[a] ELSE Gone) = Spot(a)
      BY <1>2, <1>7, <2>2 DEF Spot
    <3>2. N(q, K, a) = N(timer_base, K, a) /\ N(timer_base, K, a) <= Limit(K, a, Spot(a))
      BY <3>1, <1>5
    <3> QED BY <3>1, <3>2, <1>6
  <2> QED BY <2>1, <2>2
<1>9. Room(S, pl, q)
  BY <1>4, <1>6, <1>8 DEF Room
<1> QED
  BY <1>1, <1>2, <1>3, <1>9, FreeFew

(* mksobj starts the rot of a body or the hatching of an egg only.         *)
LEMMA MksobjOnly ==
  ASSUME ClockOK, NEW q \in Queue, NEW o \in Obj, NEW init, NEW r \in mksobj(q, o, init), NEW f,
         f \notin Decay \cup {"HATCH_EGG"}
  PROVE  N(r[1], Just(f), o) = N(q, Just(f), o)
<1>1. ASSUME NEW d \in Delays \cup LateDelays, NEW g \in Decay \cup {"HATCH_EGG"}
      PROVE  N(start_timer(q, d, g, o), Just(f), o) = N(q, Just(f), o)
  <2>1. g \in Funcs /\ g \notin Just(f) /\ o \in Owners
    BY FuncsOfDecay DEF Funcs, ObjFuncs, Just, Owners, Decay
  <2>2. N(start_timer(q, d, g, o), Just(f), o)
          = N(q, Just(f), o) + IF g \in Just(f) /\ o = o THEN 1 ELSE 0
    BY <2>1, NStart
  <2>3. N(q, Just(f), o) \in Nat
    BY NType DEF Queue
  <2> QED BY <2>1, <2>2, <2>3
<1>2. CASE r = <<q, 0>>
  BY <1>2
<1>3. CASE \E d \in Delays, g \in Decay \cup {"HATCH_EGG"} : r = <<start_timer(q, d, g, o), 1>>
  BY <1>1, <1>3
<1>4. r = <<q, 0>> \/ \E d \in Delays, g \in Decay \cup {"HATCH_EGG"} : r = <<start_timer(q, d, g, o), 1>>
  BY DEF mksobj, start_corpse_timeout, DecayOf
<1> QED
  BY <1>2, <1>3, <1>4

(* PolyObj: the new object has at most one timer of its own, and the haze. *)
LEMMA PolyObjFew ==
  ASSUME OneInv, NEW o \in Obj, NEW o2 \in Obj, PolyObj(o, o2)
  PROVE  Limits'
<1>1. /\ Still /\ place[o] \in {Invent, Floor(uz)} /\ place[o2] = Gone
      /\ unchangedWorld /\ unchangedLoop
  BY PlayingStill DEF PolyObj
<1>2. PICK r \in mksobj(timer_base, o2, TRUE), d \in Delays, h \in BOOLEAN :
       obfree({o}, [place EXCEPT ![o2] = replace_object(place[o])],
              IF h THEN start_timer(r[1], d, "UNPOLY_OBJ", o2) ELSE r[1],
              [timed EXCEPT ![o2] = r[2] + IF h THEN 1 ELSE 0])
  BY DEF PolyObj, set_obj_poly
<1>3. /\ OwnInv /\ ClockOK /\ uz \in Level /\ place \in [Obj -> Place] /\ o2 \in Owners
      /\ Fit(timer_base, o2, Gone)
  BY <1>1, AtHand
<1>4. PlaceHere(Outer(o, place), uz, mplace) /\ o # o2 /\ replace_object(place[o]) = place[o]
  BY <1>1, <1>3, HandyHere, OuterSelf DEF replace_object, Gone, Invent, Floor, At
<1>5. Count(timer_base, o2) = 0
  BY <1>1, <1>3, GoneCounted
<1>6. Fit(timer_base, o2, place[o]) /\ (\A K : N(timer_base, K, o2) = 0) /\ ~Iced(place[o])
  BY <1>1, <1>3, <1>5, FitNone, HandyOpen
<1>7. Fit(r[1], o2, place[o])
  BY <1>3, <1>5, <1>6, FitMksobj
<1> DEFINE q == IF h THEN start_timer(r[1], d, "UNPOLY_OBJ", o2) ELSE r[1]
           tm == [timed EXCEPT ![o2] = r[2] + IF h THEN 1 ELSE 0]
           p == place[o]
<1>8. Fit(q, o2, p)
  <2>1. "UNPOLY_OBJ" \in Funcs /\ "UNPOLY_OBJ" \notin Decay \cup {"HATCH_EGG"}
    BY DEF Funcs, ObjFuncs, Decay
  <2>2. timer_base \in Queue
    BY <1>6 DEF Fit
  <2>3. N(r[1], Just("UNPOLY_OBJ"), o2) = N(timer_base, Just("UNPOLY_OBJ"), o2)
    BY <1>3, <2>1, <2>2, MksobjOnly
  <2>4. Clear(r[1], "UNPOLY_OBJ", o2) /\ Allowed("UNPOLY_OBJ", o2, p)
    BY <1>6, <2>1, <2>3 DEF Clear, Allowed
  <2>5. Fit(start_timer(r[1], d, "UNPOLY_OBJ", o2), o2, p)
    BY <1>3, <1>7, <2>1, <2>4, FitStart
  <2> QED BY <1>7, <2>5
<1>9. obfree({o}, [place EXCEPT ![o2] = p], q, tm) /\ p \in Place
  BY <1>2, <1>3, <1>4
<1> HIDE DEF q, tm, p
<1>10. /\ q \in Queue
       /\ \A K \in Kinds, a \in Owners \ {o, o2} : N(q, K, a) = N(timer_base, K, a)
       /\ \A K \in Kinds : N(q, K, o2) <= Limit(K, o2, p)
  BY <1>8 DEF Fit
<1> QED
  BY <1>1, <1>4, <1>9, <1>10, ReplaceFew

(* Of timers that belong to different owners an owner has one at most.     *)
LEMMA NEach ==
  ASSUME NEW q \in Seq(Timer), \A i, j \in DOMAIN q : q[i].arg = q[j].arg => i = j
  PROVE  \A K, a : N(q, K, a) \in {0, 1}
<1> SUFFICES ASSUME NEW K, NEW a PROVE N(q, K, a) \in {0, 1}
  OBVIOUS
<1> DEFINE A == Sel(q, Of(K, a))
<1>1. A = {} \/ \E i : A = {i}
  <2>1. \A i, j \in A : i = j
    BY DEF Sel, Of
  <2> QED BY <2>1
<1> HIDE DEF A
<1>2. Cardinality(A) \in {0, 1}
  BY <1>1, FS_EmptySet, FS_Singleton
<1> QED
  BY <1>2, Zenon DEF N, Num, A

(* Timers that start one for each of the objects S are such.               *)
LEMMA ThawEach ==
  ASSUME ClockOK, NEW S \in SUBSET Obj, NEW w \in ThawTimers(S)
  PROVE  /\ w \in Seq(Timer) /\ \A K, a : N(w, K, a) \in {0, 1}
         /\ \A K, a : N(w, K, a) > 0 => a \in S /\ \E f \in Decay : f \in K
<1>1. PICK s \in SetToSeqs(S), d \in LateDelays, f \in [S -> Decay] :
            w = [i \in DOMAIN s |-> Expiring(d, f[s[i]], s[i])]
  BY DEF ThawTimers
<1>2. s \in [1 .. Cardinality(S) -> S] /\ \A i, j \in DOMAIN s : s[i] = s[j] => i = j
  BY DEF SetToSeqs, IsInjective
<1>3. w \in Seq(Timer)
  BY ThawOK
<1>4. DOMAIN w = DOMAIN s /\ \A i \in DOMAIN s : w[i].arg = s[i] /\ w[i].func = f[s[i]]
  BY <1>1 DEF Expiring
<1>5. \A K, a : N(w, K, a) \in {0, 1}
  <2>1. \A i, j \in DOMAIN w : w[i].arg = w[j].arg => i = j
    BY <1>2, <1>4
  <2> QED BY <2>1, <1>3, NEach
<1>6. ASSUME NEW K, NEW a, N(w, K, a) > 0 PROVE a \in S /\ \E g \in Decay : g \in K
  <2>1. PICK i \in DOMAIN w : w[i].func \in K /\ w[i].arg = a
    BY <1>3, <1>6, NPositive
  <2>2. a = s[i] /\ f[a] \in K /\ a \in S
    BY <1>2, <1>4, <2>1
  <2> QED BY <2>2
<1> QED
  BY <1>3, <1>5, <1>6

(* The rot of what is spilled into the ground, too.                        *)
LEMMA SpillEach ==
  ASSUME ClockOK, NEW S \in SUBSET Obj, NEW s \in SetToSeqs(S), NEW d \in Delays,
         NEW w, w = [i \in DOMAIN s |-> Expiring(d, "ROT_ORGANIC", s[i])]
  PROVE  /\ w \in Seq(Timer) /\ \A K, a : N(w, K, a) \in {0, 1}
         /\ \A K, a : N(w, K, a) > 0 => a \in S /\ "ROT_ORGANIC" \in K
<1>1. s \in [1 .. Cardinality(S) -> S] /\ \A i, j \in DOMAIN s : s[i] = s[j] => i = j
  BY DEF SetToSeqs, IsInjective
<1>2. w \in Seq(Timer)
  BY SpillOK
<1>3. DOMAIN w = DOMAIN s /\ \A i \in DOMAIN s : w[i].arg = s[i] /\ w[i].func = "ROT_ORGANIC"
  BY DEF Expiring
<1>4. \A K, a : N(w, K, a) \in {0, 1}
  <2>1. \A i, j \in DOMAIN w : w[i].arg = w[j].arg => i = j
    BY <1>1, <1>3
  <2> QED BY <2>1, <1>2, NEach
<1>5. ASSUME NEW K, NEW a, N(w, K, a) > 0 PROVE a \in S /\ "ROT_ORGANIC" \in K
  <2>1. PICK i \in DOMAIN w : w[i].func \in K /\ w[i].arg = a
    BY <1>2, <1>5, NPositive
  <2> QED BY <1>1, <1>3, <2>1
<1> QED
  BY <1>2, <1>4, <1>5

(* What waits to start is at most one timer of a kind for what comes out,  *)
(* which had none of the kind and may have it at p.                        *)
Waiting(out, p) ==
  /\ \A K, a : N(todo', K, a) \in {0, 1}
  /\ \A K, a : N(todo', K, a) > 0 => a \in out
  /\ \A K \in Kinds, a \in out : N(todo', K, a) > 0 => N(timer_base, K, a) = 0 /\ Limit(K, a, p) = 1

(* A box is freed; what comes out of it has the timers it may have there.  *)
LEMMA SpillFew ==
  ASSUME OwnInv, Limits, Still, UNCHANGED <<file, gsave>>,
         NEW b \in Obj, PlaceHere(Outer(b, place), uz, mplace),
         NEW p \in Place, p.at # "contained", NEW out \in SUBSET Contents(b), NEW pl,
         pl = [x \in Obj |-> IF x \in out THEN p ELSE place[x]],
         NEW q \in Queue, NEW tm, obfree({b}, pl, q, tm),
         \A K \in Kinds, a \in Owners \ {b} : N(q, K, a) = N(timer_base, K, a),
         Waiting(out, p)
  PROVE  Limits'
<1> DEFINE S == {b}
<1>1. /\ Shape /\ uz \in Level /\ place \in [Obj -> Place] /\ todo = <<>> /\ phase # "saved"
      /\ q \in Seq(Timer)
  BY InvUnfolded DEF OwnInv, Still, Queue
<1>2. pl \in [Obj -> Place] /\ \A x \in Obj : pl[x] = IF x \in out THEN p ELSE place[x]
  BY <1>1
<1>3. \A x \in out : /\ x \in Obj /\ place[x] = In(b) /\ place[x].at = "contained" /\ x # b
                     /\ x \in Owners
  BY <1>1, InABox DEF Contents, Owners
<1>4. obfree(S, pl, q, tm) /\ S = {b}
  OBVIOUS
<1> HIDE DEF S
<1>5. b \in Freed(S, pl)
  BY <1>4 DEF Freed
<1>6. \A x \in out : x \notin Freed(S, pl)
  BY <1>2, <1>3, <1>4 DEF Freed, In, At
<1>7. ASSUME NEW x \in Obj, Away(x) PROVE x \notin Freed(S, pl) /\ pl[x] = place[x]
  <2>1. x # b /\ place[x] # In(b)
    BY <1>1, <1>7, InsideHere
  <2>2. x \notin out
    BY <1>3, <2>1
  <2> QED BY <2>1, <2>2, <1>2, <1>4, <1>7 DEF Freed
<1>8. \A K \in Kinds, a \in Owners : N(timer_base, K, a) <= Limit(K, a, Spot(a))
  BY <1>1, FitAsIs
<1>9. \A K, a : N(q, K, a) \in Nat
  BY <1>1, NType
<1>10. \A K \in Kinds, a \in Owners \cap Freed(S, pl) : N(todo', K, a) = 0
  BY <1>6 DEF Waiting
<1>11. ASSUME NEW K \in Kinds, NEW a \in Owners \ Freed(S, pl)
       PROVE  N(q, K, a) + N(todo', K, a) <= Limit(K, a, IF a \in Obj THEN pl[a] ELSE Gone)
  <2>1. N(q, K, a) = N(timer_base, K, a)
    BY <1>5
  <2>2. CASE a \notin out
    <3>1. (IF a \in Obj THEN pl[a] ELSE Gone) = Spot(a)
      BY <1>2, <2>2 DEF Spot
    <3>2. N(todo', K, a) = 0
      BY <2>2 DEF Waiting
    <3> QED BY <2>1, <3>1, <3>2, <1>8, <1>9
  <2>3. CASE a \in out
    <3>1. (IF a \in Obj THEN pl[a] ELSE Gone) = p /\ Spot(a) = place[a]
      BY <1>2, <1>3, <2>3 DEF Spot
    <3>2. Limit(K, a, place[a]) <= Limit(K, a, p)
      BY <1>3, <2>3 DEF Limit, Barred, Iced
    <3>3. N(timer_base, K, a) <= Limit(K, a, place[a]) /\ N(timer_base, K, a) \in Nat
      BY <1>8, <1>9, <2>1, <3>1
    <3>4. Limit(K, a, place[a]) \in {0, 1} /\ Limit(K, a, p) \in {0, 1}
      BY DEF Limit
    <3>5. CASE N(todo', K, a) = 0
      BY <2>1, <3>1, <3>2, <3>3, <3>4, <3>5
    <3>6. CASE N(todo', K, a) = 1
      <4>1. N(timer_base, K, a) = 0 /\ Limit(K, a, p) = 1
        BY <2>3, <3>6 DEF Waiting
      <4> QED BY <2>1, <3>1, <3>6, <4>1
    <3> QED BY <3>5, <3>6 DEF Waiting
  <2> QED BY <2>2, <2>3
<1>12. Room(S, pl, q)
  BY <1>7, <1>10, <1>11 DEF Room
<1> QED
  BY <1>1, <1>2, <1>4, <1>12, FreeFew

(* BreakBox: decay resumes for bodies that had no timer of decay on ice.   *)
LEMMA BreakBoxFew ==
  ASSUME OneInv, NEW b \in Boxes, NEW p \in Handy, BreakBox(b, p)
  PROVE  Limits'
<1>1. /\ Still /\ place[b] = Floor(uz) /\ b \in Obj /\ UNCHANGED <<file, gsave>> /\ todo = <<>>
      /\ OwnInv /\ Limits /\ ClockOK /\ uz \in Level /\ p \in Place /\ place \in [Obj -> Place]
  BY PlayingStill, HandyPlaces, InvUnfolded DEF BreakBox, Boxes, Obj, OneInv, OwnInv, unchangedWorld, Still
<1>2. PICK out \in SUBSET Contents(b) :
            /\ obfree({b}, [o \in Obj |-> IF o \in out THEN p ELSE place[o]], timer_base, timed)
            /\ IF b \in LargeBoxes THEN todo' = <<>>
               ELSE \E S \in SUBSET (out \cap Bodies) :
                      /\ out \cap Revivers \subseteq S
                      /\ todo' \in ThawTimers(S)
  BY DEF BreakBox
<1>3. PlaceHere(Outer(b, place), uz, mplace) /\ p.at # "contained" /\ ~Iced(p)
  BY <1>1, HandyHere, OuterSelf, HandyOpen
<1>4. /\ timer_base \in Queue /\ timer_base \in Seq(Timer)
      /\ \A K \in Kinds, a \in Owners : N(timer_base, K, a) <= Limit(K, a, Spot(a))
  BY <1>1, FitAsIs, InvUnfolded DEF OwnInv, Queue
<1>5. CASE todo' = <<>>
  <2>1. \A K, a : N(todo', K, a) = 0
    BY <1>5, NEmpty
  <2>2. Waiting(out, p)
    BY <2>1 DEF Waiting
  <2> QED BY <1>1, <1>2, <1>3, <1>4, <2>2, SpillFew
<1>6. CASE b \notin LargeBoxes /\ \E S \in SUBSET (out \cap Bodies) : todo' \in ThawTimers(S)
  <2>1. PICK S \in SUBSET (out \cap Bodies) : todo' \in ThawTimers(S)
    BY <1>6
  <2>2. S \in SUBSET Obj /\ b \in IceBoxes
    BY <1>6 DEF Bodies, Obj, Boxes
  <2>3. /\ \A K, a : N(todo', K, a) \in {0, 1}
        /\ \A K, a : N(todo', K, a) > 0 => a \in S /\ \E f \in Decay : f \in K
    BY <1>1, <2>1, <2>2, ThawEach
  <2>4. ASSUME NEW K \in Kinds, NEW a \in out, N(todo', K, a) > 0
        PROVE  N(timer_base, K, a) = 0 /\ Limit(K, a, p) = 1
    <3>1. a \in Bodies /\ a \in Owners /\ a \in Obj /\ place[a] = In(b)
      BY <2>1, <2>3, <2>4 DEF Contents, Owners
    <3>2. K \in SUBSET Decay /\ K # Just("ROT_ORGANIC")
      <4>1. PICK f \in Decay : f \in K
        BY <2>3, <2>4
      <4>2. K = Just(f) \/ K = Decay
        BY <4>1, KindsOf
      <4> QED BY <4>1, <4>2 DEF Just, Decay
    <3>3. Iced(place[a])
      BY <2>2, <3>1 DEF Iced, In, At
    <3>4. Limit(K, a, Spot(a)) = 0
      BY <3>1, <3>2, <3>3 DEF Limit, Barred, Spot
    <3>5. Limit(K, a, p) = 1
      BY <1>3, <3>1, <3>2 DEF Limit, Barred
    <3>6. N(timer_base, K, a) <= 0 /\ N(timer_base, K, a) \in Nat
      BY <1>4, <3>1, <3>4, NType
    <3> QED BY <3>5, <3>6
  <2>5. Waiting(out, p)
    BY <2>1, <2>3, <2>4 DEF Waiting
  <2> QED BY <1>1, <1>2, <1>3, <1>4, <2>5, SpillFew
<1> QED
  BY <1>2, <1>5, <1>6

(* rot_organic: what was in the box was not in the ground, and had no such *)
(* timer.                                                                  *)
LEMMA RotOrganicFew ==
  ASSUME OneInv, NEW o \in Obj, rot_organic(o)
  PROVE  Limits'
<1>1. /\ Still /\ Fires("ROT_ORGANIC", o) /\ UNCHANGED <<file, gsave>> /\ todo = <<>> /\ o \in Owners
      /\ OwnInv /\ Limits /\ ClockOK /\ uz \in Level /\ place \in [Obj -> Place]
  BY PlayingStill, InvUnfolded DEF rot_organic, Fires, OneInv, OwnInv, unchangedWorld, Still, Owners
<1>2. PICK S \in SUBSET (Contents(o) \cap Organic) : \E s \in SetToSeqs(S), d \in Delays :
             todo' = [i \in DOMAIN s |-> Expiring(d, "ROT_ORGANIC", s[i])]
  BY DEF rot_organic
<1>3. PICK s \in SetToSeqs(S), d \in Delays :
             todo' = [i \in DOMAIN s |-> Expiring(d, "ROT_ORGANIC", s[i])]
  BY <1>2
<1>4. S \in SUBSET Obj
  BY DEF Contents
<1>5. /\ \A K, a : N(todo', K, a) \in {0, 1}
      /\ \A K, a : N(todo', K, a) > 0 => a \in S /\ "ROT_ORGANIC" \in K
  BY <1>1, <1>3, <1>4, SpillEach
<1>6. /\ timer_base \in Queue /\ timer_base \in Seq(Timer)
      /\ \A K \in Kinds, a \in Owners : N(timer_base, K, a) <= Limit(K, a, Spot(a))
  BY <1>1, FitAsIs, InvUnfolded DEF OwnInv, Queue
<1>7. Fit(Popped, o, Spot(o))
  BY <1>1, FitPopped
<1>8. PlaceHere(Outer(o, place), uz, mplace)
  BY <1>1, FiresHere
<1> DEFINE p == Buried(uz)
           out == Contents(o)
           pl == [x \in Obj |-> IF place[x] = In(o) THEN Buried(uz) ELSE place[x]]
           q == Popped
           tm == Uncounted(o)
<1>9. /\ p \in Place /\ p.at = "buried" /\ p.at # "contained"
      /\ out \in SUBSET Contents(o) /\ \A x \in out : x \in Obj /\ place[x] = In(o) /\ x \in Owners
      /\ pl = [x \in Obj |-> IF x \in out THEN p ELSE place[x]]
      /\ obfree({o}, pl, q, tm)
      /\ S \subseteq out
  BY <1>1, Places DEF rot_organic, Contents, Buried, At, Owners
<1>10. q \in Queue /\ \A K \in Kinds, a \in Owners \ {o} : N(q, K, a) = N(timer_base, K, a)
  BY <1>7 DEF Fit
<1> HIDE DEF p, out, pl, q, tm
<1>11. ASSUME NEW K \in Kinds, NEW a \in out, N(todo', K, a) > 0
       PROVE  N(timer_base, K, a) = 0 /\ Limit(K, a, p) = 1
  <2>1. K = Just("ROT_ORGANIC") /\ K \notin SUBSET Decay
    <3>1. "ROT_ORGANIC" \in K /\ "ROT_ORGANIC" \notin Decay
      BY <1>5, <1>11 DEF Decay
    <3> QED BY <3>1, KindsOf
  <2>2. Spot(a).at = "contained"
    BY <1>9 DEF Spot, In, At
  <2>3. Limit(K, a, Spot(a)) = 0
    BY <2>1, <2>2 DEF Limit, Barred
  <2>4. Limit(K, a, p) = 1
    BY <2>1, <1>9 DEF Limit, Barred
  <2>5. N(timer_base, K, a) <= 0 /\ N(timer_base, K, a) \in Nat
    BY <1>6, <1>9, <2>3, NType
  <2> QED BY <2>4, <2>5
<1>12. \A K, a : N(todo', K, a) > 0 => a \in out
  BY <1>5, <1>9
<1>13. Waiting(out, p)
  BY <1>5, <1>11, <1>12 DEF Waiting
<1> QED
  BY <1>1, <1>8, <1>9, <1>10, <1>13, SpillFew

(* A monster gets a new list.                                              *)
LEMMA MonListFew ==
  ASSUME OneInv, Still, UNCHANGED <<place, file, gsave, todo>>, NEW m \in Mon,
         Fit(timer_base', m, Gone)
  PROVE  Limits'
<1>1. /\ OwnInv /\ Limits /\ m \in Owners /\ m \notin Obj
      /\ todo = <<>> /\ todo' = <<>> /\ phase # "saved" /\ UNCHANGED <<file, gsave>>
  BY OwnersDistinct DEF OneInv, Still, Owners
<1>2. Spot(m)' = Gone /\ \A x \in Obj \ {m} : place'[x] = place[x]
  BY <1>1 DEF Spot
<1>3. Fit(timer_base', m, Spot(m)')
  BY <1>2
<1> QED
  BY <1>1, <1>2, <1>3, OneStep

(* A monster may have one UNPOLY_MON anywhere.                             *)
LEMMA UnpolyAllowed ==
  ASSUME NEW q, NEW a, NEW p, NEW f \in {"UNPOLY_MON", "UNPOLY_OBJ", "HATCH_EGG"}
  PROVE  /\ f \in Funcs /\ f \notin Decay /\ Allowed(f, a, p)
         /\ N(q, Just(f), a) = 0 => Clear(q, f, a)
BY DEF Funcs, ObjFuncs, Decay, Allowed, Clear

(* The actions on monsters.                                                *)
LEMMA HandleMonFew ==
  ASSUME OneInv, HandleMon
  PROVE  Limits'
<1>1. /\ OwnInv /\ Limits /\ ClockOK
  BY DEF OneInv, OwnInv, IInv
<1>2. ASSUME NEW m \in Mon, MakeMon(m) PROVE Limits'
  BY <1>1, <1>2, SameFew DEF MakeMon, unchangedWorld, unchangedLoop
<1>3. ASSUME NEW m \in Mon, NEW l \in Level, MigrateMon(m, l) PROVE Limits'
  BY <1>1, <1>3, SameFew DEF MigrateMon, unchangedWorld, unchangedLoop
<1>4. ASSUME NEW m \in Mon, Still
      PROVE  /\ m \in Owners /\ Fit(timer_base, m, Gone)
             /\ Fit(remove_timer(timer_base, "UNPOLY_MON", m), m, Gone)
             /\ N(remove_timer(timer_base, "UNPOLY_MON", m), Just("UNPOLY_MON"), m) = 0
  <2>1. m \in Owners /\ m \notin Obj /\ todo = <<>>
    BY <1>4, OwnersDistinct DEF Owners, Still
  <2>2. Fit(timer_base, m, Gone)
    BY <1>1, <2>1, FitAsIs DEF Spot
  <2>3. "UNPOLY_MON" \in Funcs
    BY UnpolyAllowed
  <2> QED BY <2>1, <2>2, <2>3, FitRemove
<1>5. ASSUME NEW m \in Mon, StopUnpoly(m) PROVE Limits'
  <2>1. Still /\ UNCHANGED <<place, file, gsave, todo>>
        /\ timer_base' = remove_timer(timer_base, "UNPOLY_MON", m)
    BY <1>5, PlayingStill DEF StopUnpoly, unchangedWorld, unchangedLoop
  <2>2. Fit(timer_base', m, Gone)
    BY <1>4, <2>1
  <2> QED BY <2>1, <2>2, MonListFew
<1>6. ASSUME NEW m \in Mon, NEW d \in Delays, PolyMon(m, d) PROVE Limits'
  <2> DEFINE q == remove_timer(timer_base, "UNPOLY_MON", m)
  <2>1. Still /\ UNCHANGED <<place, file, gsave, todo>>
        /\ timer_base' = start_timer(q, d, "UNPOLY_MON", m)
    BY <1>6, PlayingStill DEF PolyMon, unchangedWorld, unchangedLoop
  <2>2. Fit(q, m, Gone) /\ N(q, Just("UNPOLY_MON"), m) = 0 /\ m \in Owners
    BY <1>4, <2>1
  <2> HIDE DEF q
  <2>3. Clear(q, "UNPOLY_MON", m) /\ Allowed("UNPOLY_MON", m, Gone) /\ "UNPOLY_MON" \in Funcs
    BY <2>2, UnpolyAllowed
  <2>4. Fit(start_timer(q, d, "UNPOLY_MON", m), m, Gone)
    BY <1>1, <2>2, <2>3, FitStart
  <2>5. Fit(timer_base', m, Gone)
    BY <2>1, <2>4
  <2> QED BY <2>1, <2>5, MonListFew
<1>7. ASSUME NEW m \in Mon, KillMon(m) PROVE Limits'
  <2>1. Still /\ UNCHANGED <<place, file, gsave, todo>> /\ timer_base' = stop_all(timer_base, m)
    BY <1>7, PlayingStill DEF KillMon, m_detach, unchangedWorld, unchangedLoop
  <2>2. Fit(stop_all(timer_base, m), m, Gone)
    BY <1>4, <2>1, FitStopAll
  <2>3. Fit(timer_base', m, Gone)
    BY <2>1, <2>2
  <2> QED BY <2>1, <2>3, MonListFew
<1> QED
  BY <1>2, <1>3, <1>5, <1>6, <1>7 DEF HandleMon

(* What the callbacks do with the object whose timer has gone off.         *)
LEMMA OutcomesFew ==
  ASSUME OneInv, NEW f, NEW o \in Obj, Fires(f, o), unchangedWorld, unchangedLoop,
         \/ RotInstead(o) /\ f \in Decay
         \/ TimerSpent(o)
         \/ obfree({o}, place, Popped, Uncounted(o))
         \/ UNCHANGED <<timed, place>> /\ \E d \in Delays : timer_base' = start_timer(Popped, d, f, o)
  PROVE  Limits'
<1>1. Still
  BY PlayingStill DEF Fires
<1>2. /\ OwnInv /\ Limits /\ ClockOK /\ uz \in Level /\ o \in Owners /\ place \in [Obj -> Place]
      /\ todo = <<>> /\ todo' = <<>> /\ phase # "saved" /\ UNCHANGED <<file, gsave>>
  BY <1>1, AtHand
<1>3. PlaceHere(Outer(o, place), uz, mplace)
  BY <1>2, FiresHere
<1>4. /\ Fit(Popped, o, place[o]) /\ f \in Funcs
      /\ Clear(Popped, f, o) /\ Allowed(f, o, place[o])
  BY <1>2, FitPopped DEF Spot
<1>5. CASE obfree({o}, place, Popped, Uncounted(o))
  BY <1>2, <1>3, <1>4, <1>5, DestroyFew
<1>6. ASSUME UNCHANGED place, Fit(timer_base', o, place[o]) PROVE Limits'
  <2> DEFINE p == place[o]
  <2>1. place' = [place EXCEPT ![o] = p] /\ Fit(timer_base', o, p)
    BY <1>2, <1>6
  <2> HIDE DEF p
  <2> QED BY <1>1, <1>3, <2>1, PlayListFew
<1>7. CASE TimerSpent(o)
  BY <1>4, <1>6, <1>7 DEF TimerSpent
<1>8. ASSUME NEW d \in Delays \cup LateDelays, NEW g \in {f} \cup {"ROT_CORPSE" : x \in Decay \cap {f}}
      PROVE  Fit(start_timer(Popped, d, g, o), o, place[o])
  <2>1. CASE g = f
    BY <1>2, <1>4, <2>1, FitStart
  <2>2. CASE g = "ROT_CORPSE" /\ f \in Decay
    <3>1. "ROT_CORPSE" \in Decay /\ "ROT_CORPSE" # "ROT_ORGANIC" /\ "ROT_CORPSE" \in Funcs
      BY DEF Decay, Funcs, ObjFuncs
    <3>2. Popped \in Seq(Timer)
      BY <1>4 DEF Fit, Queue
    <3>3. Clear(Popped, "ROT_CORPSE", o)
      BY <1>4, <2>2, <3>1, <3>2, NoDecay DEF Clear
    <3>4. Allowed("ROT_CORPSE", o, place[o])
      BY <1>4, <2>2, <3>1 DEF Allowed
    <3> QED BY <1>2, <1>4, <2>2, <3>1, <3>3, <3>4, FitStart
  <2> QED BY <1>8, <2>1, <2>2
<1>9. CASE RotInstead(o) /\ f \in Decay
  <2>1. PICK d \in LateDelays : timer_base' = start_timer(Popped, d, "ROT_CORPSE", o)
    BY <1>9 DEF RotInstead
  <2>2. Fit(start_timer(Popped, d, "ROT_CORPSE", o), o, place[o])
    BY <1>8, <1>9
  <2> QED BY <1>6, <1>9, <2>1, <2>2 DEF RotInstead
<1>10. CASE UNCHANGED <<timed, place>> /\ \E d \in Delays : timer_base' = start_timer(Popped, d, f, o)
  <2>1. PICK d \in Delays : timer_base' = start_timer(Popped, d, f, o)
    BY <1>10
  <2>2. Fit(start_timer(Popped, d, f, o), o, place[o])
    BY <1>8
  <2> QED BY <1>6, <1>10, <2>1, <2>2
<1> QED
  BY <1>5, <1>7, <1>9, <1>10

(* The callbacks, but for the one that starts the rot of what it has freed.*)
LEMMA CallbacksFew ==
  ASSUME OneInv, NEW o \in Obj, ~(moldy_corpse(o) /\ RotOfTheFreed(o)),
         rot_corpse(o) \/ revive_mon(o) \/ moldy_corpse(o) \/ hatch_egg(o)
  PROVE  Limits'
<1>0. {"REVIVE_MON", "MOLDY_CORPSE"} \subseteq Decay
  BY DEF Decay
<1>1. CASE rot_corpse(o)
  BY <1>1, OutcomesFew DEF rot_corpse
<1>2. CASE revive_mon(o)
  BY <1>0, <1>2, OutcomesFew DEF revive_mon, LastGone
<1>3. CASE moldy_corpse(o)
  BY <1>0, <1>3, OutcomesFew DEF moldy_corpse, LastGone
<1>4. CASE hatch_egg(o)
  BY <1>4, OutcomesFew DEF hatch_egg
<1> QED
  BY <1>1, <1>2, <1>3, <1>4

(* unpoly_mon.                                                             *)
LEMMA UnpolyMonFew ==
  ASSUME OneInv, NEW m \in Mon, unpoly_mon(m)
  PROVE  Limits'
<1> DEFINE q == remove_timer(Popped, "UNPOLY_MON", m)
<1>1. /\ Still /\ Fires("UNPOLY_MON", m) /\ UNCHANGED <<place, file, gsave, todo>>
      /\ timer_base' = q \/ timer_base' = stop_all(q, m)
  BY PlayingStill DEF unpoly_mon, Fires, m_detach, unchangedWorld, unchangedLoop
<1>2. OwnInv /\ Limits /\ m \in Owners /\ m \notin Obj /\ todo = <<>>
  BY <1>1, OwnersDistinct DEF OneInv, Still, Owners
<1>3. Fit(Popped, m, Gone)
  BY <1>1, <1>2, FitPopped DEF Spot
<1>4. Fit(q, m, Gone)
  <2>1. "UNPOLY_MON" \in Funcs
    BY UnpolyAllowed
  <2> QED BY <1>2, <1>3, <2>1, FitRemove
<1> HIDE DEF q
<1>5. Fit(stop_all(q, m), m, Gone)
  BY <1>4, FitStopAll
<1>6. Fit(timer_base', m, Gone)
  BY <1>1, <1>4, <1>5
<1> QED
  BY <1>1, <1>6, MonListFew

(* unpoly_obj: the new object has no timer.                                *)
LEMMA UnpolyObjFew ==
  ASSUME OneInv, NEW o \in Obj, unpoly_obj(o)
  PROVE  Limits'
<1> DEFINE q  == remove_timer(Popped, "UNPOLY_OBJ", o)
           tm == Less(Uncounted(o), Popped, "UNPOLY_OBJ", o)
<1>1. /\ Still /\ Fires("UNPOLY_OBJ", o) /\ unchangedWorld /\ unchangedLoop
  BY PlayingStill DEF unpoly_obj, Fires
<1>2. /\ OwnInv /\ Limits /\ ClockOK /\ uz \in Level /\ o \in Owners /\ place \in [Obj -> Place]
      /\ todo = <<>> /\ todo' = <<>> /\ phase # "saved" /\ UNCHANGED <<file, gsave>>
  BY <1>1, AtHand
<1>3. PlaceHere(Outer(o, place), uz, mplace)
  BY <1>1, <1>2, FiresHere
<1>4. Fit(Popped, o, place[o])
  BY <1>1, <1>2, FitPopped DEF Spot
<1>5. Fit(q, o, place[o])
  <2>1. "UNPOLY_OBJ" \in Funcs
    BY UnpolyAllowed
  <2> QED BY <1>2, <1>4, <2>1, FitRemove
<1>6. \/ \E o2 \in Obj \ Bodies : \E r \in mksobj(q, o2, FALSE) :
           /\ place[o2] = Gone
           /\ obfree({o}, [place EXCEPT ![o2] = replace_object(place[o])],
                     r[1], [tm EXCEPT ![o2] = r[2]])
      \/ obfree({o}, place, q, tm)
  BY DEF unpoly_obj
<1> HIDE DEF q, tm
<1>7. CASE obfree({o}, place, q, tm)
  BY <1>2, <1>3, <1>5, <1>7, DestroyFew
<1>8. ASSUME NEW o2 \in Obj \ Bodies, NEW r \in mksobj(q, o2, FALSE), place[o2] = Gone,
             obfree({o}, [place EXCEPT ![o2] = replace_object(place[o])],
                    r[1], [tm EXCEPT ![o2] = r[2]])
      PROVE  Limits'
  <2> DEFINE u == [tm EXCEPT ![o2] = r[2]]
             p == replace_object(place[o])
  <2>1. r[1] = q
    BY <1>8 DEF mksobj
  <2>2. Outer(o2, place) = Gone /\ Count(timer_base, o2) = 0 /\ o2 \in Owners
    BY <1>1, <1>2, <1>8, GoneCounted DEF Owners
  <2>3. o2 # o
    BY <1>2, <1>3, <2>2, OnePlace DEF PlaceHere
  <2>4. \A K : N(timer_base, K, o2) = 0
    <3>1. timer_base \in Seq(Timer)
      BY <1>2, ListTypes DEF OwnInv
    <3> QED BY <2>2, <3>1, NParts
  <2>5. obfree({o}, [place EXCEPT ![o2] = p], q, u) /\ p \in Place
    BY <1>2, <1>8, <2>1, ReplacedHere
  <2> HIDE DEF u, p
  <2>6. \A K \in Kinds : N(q, K, o2) <= Limit(K, o2, p)
    BY <1>5, <2>2, <2>3, <2>4 DEF Fit, Limit
  <2>7. /\ \A K \in Kinds, a \in Owners \ {o, o2} : N(q, K, a) = N(timer_base, K, a)
        /\ q \in Queue
    BY <1>5 DEF Fit
  <2> QED BY <1>1, <1>3, <1>8, <2>3, <2>5, <2>6, <2>7, ReplaceFew
<1> QED
  BY <1>6, <1>7, <1>8

(* StartNext and restore_timers: from one list into the other.             *)
LEMMA NextTimerFew ==
  ASSUME OneInv, StartNext \/ restore_timers
  PROVE  Limits'
<1> DEFINE t == Head(todo)
<1>1. /\ todo # <<>> /\ timer_base' = insert_timer(timer_base, t) /\ todo' = Tail(todo)
      /\ phase # "saved" /\ UNCHANGED <<place, file, gsave>> /\ OwnInv /\ Limits
  BY DEF StartNext, restore_timers, unchangedWorld, OneInv
<1>2. timer_base \in Seq(Timer) /\ todo \in Seq(Timer)
  BY <1>1, ListTypes DEF OwnInv
<1>3. t \in Timer
  BY <1>1, <1>2, HeadTailProperties
<1>4. \A K, a : N(todo, K, a) = N(Tail(todo), K, a) + IF t.func \in K /\ t.arg = a THEN 1 ELSE 0
  BY <1>1, <1>2, NTail
<1>5. Tail(todo) \in Seq(Timer)
  BY <1>1, <1>2, HeadTailProperties
<1> HIDE DEF t
<1>6. \A K, a : N(insert_timer(timer_base, t), K, a)
                  = N(timer_base, K, a) + IF t.func \in K /\ t.arg = a THEN 1 ELSE 0
  BY <1>2, <1>3, NInsert
<1>7. \A K, a : N(timer_base, K, a) \in Nat /\ N(Tail(todo), K, a) \in Nat
  BY <1>2, <1>5, NType
<1>8. \A K, a : N(timer_base', K, a) + N(todo', K, a) = N(timer_base, K, a) + N(todo, K, a)
  BY <1>1, <1>4, <1>6, <1>7
<1>9. \A K \in Kinds, a \in Owners : N(timer_base', K, a) + N(todo', K, a) <= Limit(K, a, Spot(a)')
  BY <1>1, <1>8 DEF Limits, Spot
<1> QED
  BY <1>1, <1>9, FewStep

(* relobj.                                                                 *)
LEMMA RelobjFew ==
  ASSUME OneInv, IInv', NEW m \in Mon, NEW o \in Obj, relobj(m, o)
  PROVE  Limits'
<1>1. /\ mplace[m] = Dying(uz) /\ place[o] = Minvent(m) /\ unchangedWorld /\ unchangedLoop
  BY DEF relobj
<1>2. PICK q \in obj_timer_checks(timer_base, o) \cup {timer_base} :
            Settle(o, many[o], Floor(uz), q, timed)
  BY DEF relobj
<1>3. Dying(uz).at = "dying" /\ Minvent(m).at = "minvent" /\ Minvent(m).by = m
  BY DEF Dying, Minvent, At
<1>4. /\ OwnInv /\ Limits /\ ClockOK /\ o \in Owners /\ UNCHANGED <<file, gsave>>
      /\ todo = <<>> /\ todo' = <<>> /\ phase # "saved"
  BY <1>1, <1>3 DEF OneInv, OwnInv, IInv, Dropping, Owners, unchangedWorld, unchangedLoop
<1>5. PlaceHere(Outer(o, place), uz, mplace)
  BY <1>1, <1>3 DEF Outer, PlaceHere, PlaceOn, MonsterOn
<1>6. Fit(timer_base, o, Minvent(m))
  BY <1>1, <1>4, FitAsIs DEF Spot
<1>7. ~Iced(Floor(uz))
  BY HandyOpen
<1>8. Fit(timer_base, o, Floor(uz))
  BY <1>3, <1>6, <1>7, FitMoved
<1>9. Fit(q, o, Floor(uz))
  BY <1>4, <1>8, FitChecks
<1> QED
  BY <1>2, <1>4, <1>5, <1>9, SettleFew

(* obj_delivery.                                                           *)
LEMMA DeliveryFew ==
  ASSUME OneInv, IInv', NEW o \in Obj, obj_delivery(o)
  PROVE  Limits'
<1>1. /\ Still /\ unchangedWorld /\ unchangedLoop /\ place[o] \in {Bound(uz), Trailing(uz)}
  BY DEF obj_delivery, Delivered, Still, OneInv, OwnInv, Dropping
<1>2. /\ OwnInv /\ Limits /\ ClockOK /\ uz \in Level /\ o \in Owners
      /\ todo = <<>> /\ todo' = <<>> /\ phase # "saved" /\ UNCHANGED <<file, gsave>>
      /\ Fit(timer_base, o, place[o])
  BY <1>1, AtHand
<1>3. PlaceHere(Outer(o, place), uz, mplace)
  BY <1>1, BoundHere, OuterSelf
<1>4. place[o].at # "buried" /\ ~Iced(Floor(uz))
  BY <1>1, HandyOpen DEF Bound, Trailing, At
<1>5. Fit(timer_base, o, Floor(uz))
  BY <1>2, <1>4, FitMoved
<1>6. CASE \E q \in obj_timer_checks(timer_base, o) \cup {timer_base} :
             Settle(o, many[o], Floor(uz), q, timed)
  <2>1. PICK q \in obj_timer_checks(timer_base, o) \cup {timer_base} :
             Settle(o, many[o], Floor(uz), q, timed)
    BY <1>6
  <2>2. Fit(q, o, Floor(uz))
    BY <1>2, <1>5, FitChecks
  <2> QED BY <1>1, <1>3, <2>1, <2>2, PlaySettleFew
<1>7. CASE obfree({o}, place, timer_base, timed)
  BY <1>2, <1>3, <1>7, DestroyFew
<1> QED
  BY <1>6, <1>7 DEF obj_delivery

(* An owner has its timers in one store: memory, the game's part of the    *)
(* save file, or the file of one level.                                    *)
LEMMA OneStore ==
  ASSUME OwnInv, NEW a \in Owners
  PROVE  /\ \A l \in Level : ~(Count(gsave, a) > 0 /\ Count(file[l], a) > 0)
         /\ \A k, l \in Level : Count(file[k], a) > 0 /\ Count(file[l], a) > 0 => k = l
         /\ \A l \in Level : Count(timer_base, a) > 0 \/ Count(todo, a) > 0 => ~(Count(file[l], a) > 0)
         /\ Count(timer_base, a) > 0 \/ Count(todo, a) > 0 => ~(Count(gsave, a) > 0)
<1>1. uz \in Level /\ Kept /\ Storage
  BY ListTypes DEF OwnInv
<1>2. \A b : Count(<<>>, b) = 0
  BY NEmpty DEF Count
<1>3. \A l \in Level : ~(Global(a) /\ LocalTo(a, l))
  <2>1. CASE a \in Mon
    BY <2>1, MonsterOwners, OneLevel
  <2>2. CASE a \in Obj
    BY <2>2, OwnersPlace, OnePlace
  <2> QED BY <2>1, <2>2 DEF Owners
<1>4. \A k, l \in Level : LocalTo(a, k) /\ LocalTo(a, l) => k = l
  BY <1>1, HereOrAway
<1>5. \A l \in Level \ {uz} : ~(Here(a) /\ LocalTo(a, l))
  BY <1>1, HereOrAway DEF Away
<1>6. Count(timer_base, a) > 0 \/ Count(todo, a) > 0 => gsave = <<>> /\ file[uz] = <<>>
  BY <1>1, <1>2 DEF Storage
<1> QED
  BY <1>1, <1>2, <1>3, <1>4, <1>5, <1>6 DEF Kept

(* GotoLevel: what the file had was not of those in memory.                *)
LEMMA GotoLevelFew ==
  ASSUME OneInv, NEW l \in Level, NEW dogs \in SUBSET Mon, GotoLevel(l, dogs)
  PROVE  Limits'
<1> DEFINE stay == Keep(timer_base, LocalTimers(dogs))
           rest == Keep(timer_base, DOMAIN timer_base \ LocalTimers(dogs))
<1>1. /\ OwnInv /\ Limits /\ Playing /\ l # uz
      /\ file' = [file EXCEPT ![uz] = stay, ![l] = <<>>]
      /\ timer_base' = rest /\ todo' = file[l] /\ UNCHANGED <<place, gsave>>
  BY DEF GotoLevel, OneInv
<1>2. /\ timer_base \in Seq(Timer) /\ uz \in Level /\ file \in [Level -> Seq(Timer)]
      /\ todo = <<>>
  BY <1>1, ListTypes DEF OwnInv, IInv, FilesOK, Playing, Idle
<1>3. /\ LocalTimers(dogs) \in SUBSET DOMAIN timer_base
      /\ DOMAIN timer_base \ LocalTimers(dogs) \in SUBSET DOMAIN timer_base
  BY DEF LocalTimers
<1>4. \A K, a : /\ N(stay, K, a) \in Nat /\ N(stay, K, a) <= N(timer_base, K, a)
                /\ N(rest, K, a) \in Nat /\ N(rest, K, a) <= N(timer_base, K, a)
  BY <1>2, <1>3, NKeepLess
<1> HIDE DEF stay, rest
<1>5. \A a : Spot(a)' = Spot(a)
  BY <1>1 DEF Spot
<1>6. \A K \in Kinds, a \in Owners : N(timer_base, K, a) <= Limit(K, a, Spot(a))
  BY <1>1, <1>2, FitAsIs
<1>7. \A K, a : N(timer_base, K, a) \in Nat /\ \A j \in Level : N(file[j], K, a) \in Nat
  BY <1>2, NType
<1>8. \A K, a, p : N(<<>>, K, a) = 0 /\ Limit(K, a, p) \in {0, 1}
  BY NEmpty DEF Limit
<1>9. ASSUME NEW K \in Kinds, NEW a \in Owners
      PROVE  N(rest, K, a) + N(file[l], K, a) <= Limit(K, a, Spot(a))
  <2>1. N(timer_base, K, a) = 0 \/ N(file[l], K, a) = 0
    <3>1. /\ N(timer_base, K, a) > 0 => Count(timer_base, a) > 0
          /\ N(file[l], K, a) > 0 => Count(file[l], a) > 0
      BY <1>2, NParts
    <3>2. Count(timer_base, a) > 0 => ~(Count(file[l], a) > 0)
      BY <1>1, OneStore
    <3> QED BY <3>1, <3>2, <1>7
  <2>2. N(file[l], K, a) <= Limit(K, a, Spot(a)) /\ N(timer_base, K, a) <= Limit(K, a, Spot(a))
    BY <1>1, <1>6 DEF Limits
  <2>3. /\ N(rest, K, a) \in Nat /\ N(rest, K, a) <= N(timer_base, K, a)
        /\ N(file[l], K, a) \in Nat /\ N(timer_base, K, a) \in Nat /\ Limit(K, a, Spot(a)) \in Nat
    BY <1>4, <1>7, <1>8
  <2> QED BY <2>1, <2>2, <2>3
<1>10. ASSUME NEW K \in Kinds, NEW a \in Owners, NEW j \in Level
       PROVE  N(file'[j], K, a) <= Limit(K, a, Spot(a))
  <2>1. CASE j = uz
    <3>1. file'[j] = stay
      BY <2>1, <1>1, <1>2
    <3>2. N(stay, K, a) \in Nat /\ N(stay, K, a) <= N(timer_base, K, a)
          /\ N(timer_base, K, a) <= Limit(K, a, Spot(a)) /\ N(timer_base, K, a) \in Nat
      BY <1>4, <1>6, <1>7
    <3> QED BY <3>1, <3>2, <1>8
  <2>2. CASE j = l
    <3>1. file'[j] = <<>>
      BY <2>2, <1>1, <1>2
    <3> QED BY <3>1, <1>8
  <2>3. CASE j # uz /\ j # l
    <3>1. file'[j] = file[j]
      BY <2>3, <1>1, <1>2
    <3> QED BY <3>1, <1>1 DEF Limits
  <2> QED BY <2>1, <2>2, <2>3
<1>11. \A K \in Kinds, a \in Owners : N(gsave', K, a) <= Limit(K, a, Spot(a))
  BY <1>1 DEF Limits
<1>12. \A K \in Kinds, a \in Owners : N(timer_base', K, a) + N(todo', K, a) <= Limit(K, a, Spot(a))
  BY <1>1, <1>9
<1> QED
  BY <1>5, <1>10, <1>11, <1>12 DEF Limits

(* dosave0.                                                                *)
LEMMA SaveGameFew ==
  ASSUME OneInv, dosave0
  PROVE  Limits'
<1> DEFINE stay == Keep(timer_base, LocalTimers({}))
           rest == Keep(timer_base, DOMAIN timer_base \ LocalTimers({}))
<1>1. /\ OwnInv /\ Limits /\ Playing /\ file' = [file EXCEPT ![uz] = stay] /\ gsave' = rest
      /\ timer_base' = <<>> /\ UNCHANGED <<place, todo>>
  BY DEF dosave0, OneInv
<1>2. /\ timer_base \in Seq(Timer) /\ uz \in Level /\ file \in [Level -> Seq(Timer)]
      /\ todo = <<>> /\ todo' = <<>>
  BY <1>1, ListTypes DEF OwnInv, IInv, FilesOK, Playing, Idle
<1>3. /\ LocalTimers({}) \in SUBSET DOMAIN timer_base
      /\ DOMAIN timer_base \ LocalTimers({}) \in SUBSET DOMAIN timer_base
  BY DEF LocalTimers
<1>4. \A K, a : /\ N(stay, K, a) \in Nat /\ N(stay, K, a) <= N(timer_base, K, a)
                /\ N(rest, K, a) \in Nat /\ N(rest, K, a) <= N(timer_base, K, a)
                /\ N(timer_base, K, a) \in Nat
  BY <1>2, <1>3, NKeepLess, NType
<1> HIDE DEF stay, rest
<1>5. \A a : Spot(a)' = Spot(a)
  BY <1>1 DEF Spot
<1>6. \A K \in Kinds, a \in Owners : N(timer_base, K, a) <= Limit(K, a, Spot(a))
  BY <1>1, <1>2, FitAsIs
<1>7. \A K, a, p : N(<<>>, K, a) = 0 /\ Limit(K, a, p) \in {0, 1}
  BY NEmpty DEF Limit
<1>8. \A K \in Kinds, a \in Owners : /\ N(stay, K, a) <= Limit(K, a, Spot(a))
                                     /\ N(rest, K, a) <= Limit(K, a, Spot(a))
  BY <1>4, <1>6, <1>7
<1>9. \A K \in Kinds, a \in Owners, j \in Level : N(file'[j], K, a) <= Limit(K, a, Spot(a))
  BY <1>1, <1>2, <1>8 DEF Limits
<1>10. \A K \in Kinds, a \in Owners : N(timer_base', K, a) + N(todo', K, a) <= Limit(K, a, Spot(a))
  BY <1>1, <1>2, <1>7
<1> QED
  BY <1>1, <1>5, <1>8, <1>9, <1>10 DEF Limits

(* dorecover: what goes with the hero is not on the level.                 *)
LEMMA RestoreGameFew ==
  ASSUME OneInv, dorecover
  PROVE  Limits'
<1>1. /\ OwnInv /\ Limits /\ phase = "saved" /\ todo' = gsave \o file[uz]
      /\ file' = [file EXCEPT ![uz] = <<>>] /\ gsave' = <<>> /\ UNCHANGED <<timer_base, place>>
  BY DEF dorecover, OneInv
<1>2. /\ gsave \in Seq(Timer) /\ uz \in Level /\ file \in [Level -> Seq(Timer)]
      /\ timer_base = <<>> /\ timer_base' = <<>>
  BY <1>1, ListTypes DEF OwnInv, IInv, FilesOK, Storage
<1>3. \A a : Spot(a)' = Spot(a)
  BY <1>1 DEF Spot
<1>4. \A K, a, p : N(<<>>, K, a) = 0 /\ Limit(K, a, p) \in {0, 1}
  BY NEmpty DEF Limit
<1>5. \A K, a : N(gsave, K, a) \in Nat /\ N(file[uz], K, a) \in Nat
  BY <1>2, NType
<1>6. \A K, a : N(todo', K, a) = N(gsave, K, a) + N(file[uz], K, a)
  BY <1>1, <1>2, NConcat
<1>7. ASSUME NEW K \in Kinds, NEW a \in Owners
      PROVE  N(timer_base', K, a) + N(todo', K, a) <= Limit(K, a, Spot(a))
  <2>1. N(gsave, K, a) = 0 \/ N(file[uz], K, a) = 0
    <3>1. /\ N(gsave, K, a) > 0 => Count(gsave, a) > 0
          /\ N(file[uz], K, a) > 0 => Count(file[uz], a) > 0
      BY <1>2, NParts
    <3>2. ~(Count(gsave, a) > 0 /\ Count(file[uz], a) > 0)
      BY <1>1, <1>2, OneStore
    <3> QED BY <3>1, <3>2, <1>5
  <2>2. N(gsave, K, a) <= Limit(K, a, Spot(a)) /\ N(file[uz], K, a) <= Limit(K, a, Spot(a))
    BY <1>1, <1>2 DEF Limits
  <2>3. N(timer_base', K, a) = 0
    BY <1>2, <1>4
  <2> QED BY <2>1, <2>2, <2>3, <1>4, <1>5, <1>6
<1>8. \A K \in Kinds, a \in Owners, j \in Level : N(file'[j], K, a) <= Limit(K, a, Spot(a))
  BY <1>1, <1>2, <1>4 DEF Limits
<1>9. \A K \in Kinds, a \in Owners : N(gsave', K, a) <= Limit(K, a, Spot(a))
  BY <1>1, <1>4
<1> QED
  BY <1>3, <1>7, <1>8, <1>9 DEF Limits

-----------------------------------------------------------------------------
(* The limits of the specification.                                        *)

(* What the player's commands do to objects.                               *)
LEMMA HandleObjFew ==
  ASSUME OneInv, IInv', HandleObj
  PROVE  Limits'
<1>1. ASSUME NEW o \in Obj, NEW p \in {Invent, Floor(uz)}, CreateObj(o, p) PROVE Limits'
  BY <1>1, CreateObjFew
<1>2. ASSUME NEW o \in Obj, NEW p \in Handy, MoveObj(o, p) PROVE Limits'
  BY <1>2, MoveObjFew
<1>3. ASSUME NEW o \in Obj, NEW b \in Boxes, PutInBox(o, b) PROVE Limits'
  BY <1>3, PutInBoxFew
<1>4. ASSUME NEW b \in Boxes, NEW p \in Handy, BreakBox(b, p) PROVE Limits'
  BY <1>4, BreakBoxFew
<1>5. ASSUME NEW o \in Obj, TakeOut(o) \/ Bury(o) \/ Unearth(o) PROVE Limits'
  BY <1>5, TakeOutFew, BuryFew, UnearthFew
<1>6. ASSUME NEW o \in Obj, DestroyObj(o) \/ StopTimers(o) PROVE Limits'
  BY <1>6, DestroyObjFew, StopTimersFew
<1>7. ASSUME NEW o \in Obj, NEW o2 \in Obj, SplitObj(o, o2) \/ ReallocObj(o, o2) \/ PolyObj(o, o2)
      PROVE  Limits'
  BY <1>7, SplitObjFew, ReallocObjFew, PolyObjFew
<1>8. ASSUME NEW o \in Obj, NEW l \in Level, MigrateObj(o, l) PROVE Limits'
  BY <1>8, MigrateObjFew
<1> QED
  BY <1>1, <1>2, <1>3, <1>4, <1>5, <1>6, <1>7, <1>8 DEF HandleObj

(* Steps that only go on to something else.                                *)
LEMMA PhasesFew ==
  ASSUME OneInv, losedogs \/ EndRunTimers \/ BackToPlay \/ NewTurn \/ UNCHANGED vars
  PROVE  Limits'
BY SameFew DEF OneInv, losedogs, EndRunTimers, BackToPlay, NewTurn, vars

(* The callbacks.                                                          *)
LEMMA RunTimersFew ==
  ASSUME OneInv, run_timers, ~RotsFreed
  PROVE  Limits'
<1>1. ASSUME NEW o \in Obj, rot_corpse(o) \/ revive_mon(o) \/ moldy_corpse(o) \/ hatch_egg(o)
      PROVE  Limits'
  BY <1>1, CallbacksFew DEF RotsFreed
<1>2. ASSUME NEW o \in Obj, rot_organic(o) \/ unpoly_obj(o) PROVE Limits'
  BY <1>2, RotOrganicFew, UnpolyObjFew
<1>3. ASSUME NEW m \in Mon, unpoly_mon(m) PROVE Limits'
  BY <1>3, UnpolyMonFew
<1>4. CASE EndRunTimers
  BY <1>4, PhasesFew
<1> QED
  BY <1>1, <1>2, <1>3, <1>4 DEF run_timers

(* The loops.                                                              *)
LEMMA LoopsFew ==
  ASSUME OneInv, IInv', Loops
  PROVE  Limits'
<1>1. ASSUME NEW o \in Obj, obj_delivery(o) PROVE Limits'
  BY <1>1, DeliveryFew
<1>2. ASSUME NEW m \in Mon, NEW o \in Obj, relobj(m, o) PROVE Limits'
  BY <1>2, RelobjFew
<1>3. CASE StartNext \/ restore_timers
  BY <1>3, NextTimerFew
<1>4. CASE losedogs \/ BackToPlay
  BY <1>4, PhasesFew
<1> QED
  BY <1>1, <1>2, <1>3, <1>4 DEF Loops

(* To begin with there are no timers.                                      *)
LEMMA InitOne == Init => OneInv
<1> SUFFICES ASSUME Init PROVE Limits
  BY InitOwn DEF OneInv
<1>1. timer_base = <<>> /\ todo = <<>> /\ gsave = <<>> /\ \A l \in Level : file[l] = <<>>
  BY DEF Init
<1>2. \A K, a, p : N(<<>>, K, a) = 0 /\ Limit(K, a, p) \in {0, 1}
  BY NEmpty DEF Limit
<1> QED
  BY <1>1, <1>2 DEF Limits

(* Every step but moldy_corpse's rot of the freed keeps the limits.        *)
LEMMA NextOne == OneInv /\ [Next]_vars /\ [~RotsFreed]_vars => OneInv'
<1> SUFFICES ASSUME OneInv, [Next]_vars, [~RotsFreed]_vars PROVE Limits'
  BY NextOwn DEF OneInv
<1>1. IInv'
  BY NextInv DEF OneInv, OwnInv
<1>2. CASE UNCHANGED vars
  BY <1>2, PhasesFew
<1>3. CASE ~RotsFreed /\ Next
  <2>1. CASE HandleObj
    BY <1>1, <2>1, HandleObjFew
  <2>2. CASE HandleMon
    BY <2>2, HandleMonFew
  <2>3. CASE run_timers
    BY <1>3, <2>3, RunTimersFew
  <2>4. CASE Loops
    BY <1>1, <2>4, LoopsFew
  <2>5. CASE ChangeLevel
    BY <2>5, GotoLevelFew DEF ChangeLevel
  <2>6. CASE dosave0 \/ dorecover
    BY <2>6, SaveGameFew, RestoreGameFew
  <2>7. CASE NewTurn
    BY <2>7, PhasesFew
  <2> QED BY <1>3, <2>1, <2>2, <2>3, <2>4, <2>5, <2>6, <2>7 DEF Next
<1> QED
  BY <1>2, <1>3

(* Of a behaviour in which it never does so the limits are invariant.      *)
LEMMA Limited == Spec /\ NothingRotsFreed => []OneInv
<1> QED
  BY InitOne, NextOne, PTL DEF Spec, NothingRotsFreed

-----------------------------------------------------------------------------
(* What the limits mean.                                                   *)

(* At most one of a kind is in one position at most.                       *)
LEMMA OneIndex ==
  ASSUME NEW q \in Seq(Timer), NEW K, NEW a, N(q, K, a) <= 1,
         NEW i \in DOMAIN q, NEW j \in DOMAIN q,
         q[i].func \in K, q[i].arg = a, q[j].func \in K, q[j].arg = a
  PROVE  i = j
<1> DEFINE A == Sel(q, Of(K, a))
<1>1. q[i] \in Timer /\ q[j] \in Timer
  BY ElementOfSeq
<1>2. i \in A /\ j \in A
  BY <1>1 DEF Sel, Of
<1>3. IsFiniteSet(A) /\ Cardinality(A) <= 1 /\ Cardinality(A) \in Nat
  BY NumType DEF N, Num
<1> HIDE DEF A
<1>4. IsFiniteSet(A \ {i}) /\ Cardinality(A \ {i}) = Cardinality(A) - 1
  BY <1>2, <1>3, FS_RemoveElement
<1>5. Cardinality(A \ {i}) \in Nat
  BY <1>4, FS_CardinalityType
<1>6. A \ {i} = {}
  <2>1. Cardinality(A \ {i}) = 0
    BY <1>3, <1>4, <1>5
  <2> QED BY <1>4, <2>1, FS_EmptySet
<1> QED
  BY <1>2, <1>6

(* The limits hold of each of the lists where timers are kept.             *)
LEMMA ListFew ==
  ASSUME OneInv, NEW x \in Lists, NEW K \in Kinds, NEW a \in Owners
  PROVE  /\ List(x) \in Seq(Timer) /\ N(List(x), K, a) \in Nat
         /\ N(List(x), K, a) <= Limit(K, a, Spot(a))
<1>1. /\ OwnInv /\ timer_base \in Seq(Timer) /\ todo \in Seq(Timer) /\ gsave \in Seq(Timer)
      /\ \A l \in Level : file[l] \in Seq(Timer)
  BY ListTypes DEF OneInv, OwnInv
<1>2. List(x) \in {timer_base, todo, gsave} \cup {file[l] : l \in Level}
  BY ListsByName DEF Lists
<1>3. /\ N(timer_base, K, a) \in Nat /\ N(todo, K, a) \in Nat /\ N(gsave, K, a) \in Nat
      /\ \A l \in Level : N(file[l], K, a) \in Nat
  BY <1>1, NType
<1>4. /\ N(timer_base, K, a) + N(todo, K, a) <= Limit(K, a, Spot(a))
      /\ N(gsave, K, a) <= Limit(K, a, Spot(a))
      /\ \A l \in Level : N(file[l], K, a) <= Limit(K, a, Spot(a))
  BY DEF OneInv, Limits
<1>5. Limit(K, a, Spot(a)) \in {0, 1}
  BY DEF Limit
<1> QED
  BY <1>1, <1>2, <1>3, <1>4, <1>5

(* The timers of a kind that an owner has are in one list.                 *)
LEMMA OneList ==
  ASSUME OneInv, NEW K \in Kinds, NEW a \in Owners, NEW x \in Lists, NEW y \in Lists,
         N(List(x), K, a) > 0, N(List(y), K, a) > 0
  PROVE  x = y
<1>1. Count(List(x), a) > 0 /\ Count(List(y), a) > 0
  BY ListFew, NParts
<1>2. ~(N(timer_base, K, a) > 0 /\ N(todo, K, a) > 0)
  <2>1. N(timer_base, K, a) \in Nat /\ N(todo, K, a) \in Nat
    BY ListTypes, NType DEF OneInv, OwnInv
  <2>2. N(timer_base, K, a) + N(todo, K, a) <= Limit(K, a, Spot(a)) /\ Limit(K, a, Spot(a)) \in {0, 1}
    BY DEF OneInv, Limits, Limit
  <2> QED BY <2>1, <2>2
<1>3. /\ \A l \in Level : ~(Count(gsave, a) > 0 /\ Count(file[l], a) > 0)
      /\ \A k, l \in Level : Count(file[k], a) > 0 /\ Count(file[l], a) > 0 => k = l
      /\ \A l \in Level : Count(timer_base, a) > 0 \/ Count(todo, a) > 0 => ~(Count(file[l], a) > 0)
      /\ Count(timer_base, a) > 0 \/ Count(todo, a) > 0 => ~(Count(gsave, a) > 0)
  BY OneStore DEF OneInv
<1>4. \A z \in Lists : \/ z = <<"base">> /\ List(z) = timer_base
                       \/ z = <<"todo">> /\ List(z) = todo
                       \/ z = <<"gsave">> /\ List(z) = gsave
                       \/ \E l \in Level : z = <<"file", l>> /\ List(z) = file[l]
  BY ListsByName DEF Lists
<1> QED
  BY <1>1, <1>2, <1>3, <1>4

(* A slot is an index of a list, and what is there belongs to an owner.    *)
LEMMA SlotOf ==
  ASSUME OneInv, NEW s \in Slots
  PROVE  \E x \in Lists : \E i \in DOMAIN List(x) :
           /\ s = <<x, i>> /\ TimerAt(s) = List(x)[i]
           /\ TimerAt(s).arg \in Owners /\ TimerAt(s).func \in Funcs
           /\ List(x) \in Seq(Timer)
<1>1. PICK x \in Lists : \E i \in DOMAIN List(x) : s = <<x, i>>
  BY DEF Slots
<1>2. PICK i \in DOMAIN List(x) : s = <<x, i>>
  BY <1>1
<1>3. TimerAt(s) = List(x)[i]
  BY <1>2 DEF TimerAt
<1>4. List(x) \in Seq(Timer)
  BY ListsByName, ListTypes DEF OneInv, OwnInv, Lists
<1>5. List(x)[i] \in Timer
  BY <1>4, ElementOfSeq
<1>6. TimerAt(s).arg \in Owners /\ TimerAt(s).func \in Funcs
  BY <1>3, <1>5 DEF Timer, Owners
<1> QED
  BY <1>2, <1>3, <1>4, <1>6

(* The timer in a slot is one that its owner may have where it is.         *)
LEMMA SlotFew ==
  ASSUME OneInv, NEW s \in Slots, NEW K \in Kinds, TimerAt(s).func \in K
  PROVE  ~Barred(K, TimerAt(s).arg, Spot(TimerAt(s).arg))
<1> DEFINE a == TimerAt(s).arg
<1>1. PICK x \in Lists : \E i \in DOMAIN List(x) :
             TimerAt(s) = List(x)[i] /\ a \in Owners /\ List(x) \in Seq(Timer)
  BY SlotOf
<1>2. PICK i \in DOMAIN List(x) : List(x)[i].func \in K /\ List(x)[i].arg = a
  BY <1>1
<1> HIDE DEF a
<1>3. N(List(x), K, a) > 0
  BY <1>1, <1>2, NPositive
<1>4. N(List(x), K, a) <= Limit(K, a, Spot(a)) /\ N(List(x), K, a) \in Nat
  BY <1>1, ListFew
<1>5. ~Barred(K, a, Spot(a))
  BY <1>3, <1>4 DEF Limit
<1> QED
  BY <1>5 DEF a

(* Two timers of a kind that an owner has are one.                         *)
LEMMA OneOfAKind ==
  ASSUME OneInv, NEW K \in Kinds, NEW s \in Slots, NEW t \in Slots,
         TimerAt(s).func \in K, TimerAt(t).func \in K, TimerAt(s).arg = TimerAt(t).arg
  PROVE  s = t
<1> DEFINE a == TimerAt(s).arg
<1>1. PICK x \in Lists : \E i \in DOMAIN List(x) :
             /\ s = <<x, i>> /\ TimerAt(s) = List(x)[i] /\ a \in Owners /\ List(x) \in Seq(Timer)
  BY SlotOf
<1>2. PICK i \in DOMAIN List(x) : s = <<x, i>> /\ List(x)[i].func \in K /\ List(x)[i].arg = a
  BY <1>1
<1>3. PICK y \in Lists : \E j \in DOMAIN List(y) :
             /\ t = <<y, j>> /\ TimerAt(t) = List(y)[j] /\ List(y) \in Seq(Timer)
  BY SlotOf
<1>4. PICK j \in DOMAIN List(y) : t = <<y, j>> /\ List(y)[j].func \in K /\ List(y)[j].arg = a
  BY <1>3
<1> HIDE DEF a
<1>5. N(List(x), K, a) > 0 /\ N(List(y), K, a) > 0
  BY <1>1, <1>2, <1>3, <1>4, NPositive
<1>6. x = y
  BY <1>1, <1>5, OneList
<1>7. N(List(x), K, a) <= 1
  <2>1. N(List(x), K, a) <= Limit(K, a, Spot(a)) /\ N(List(x), K, a) \in Nat
    BY <1>1, ListFew
  <2> QED BY <2>1 DEF Limit
<1>8. i = j
  BY <1>1, <1>2, <1>4, <1>6, <1>7, OneIndex
<1> QED
  BY <1>2, <1>4, <1>6, <1>8

(* stop_timer may stop at the first timer it finds, and start_timer need   *)
(* not look for duplicates: an owner has no two timers of one function.    *)
THEOREM PairsUnique == Spec /\ NothingRotsFreed => []UniquePairs
<1>1. OneInv => UniquePairs
  <2> SUFFICES ASSUME OneInv, NEW s \in Slots, NEW t \in Slots,
                      TimerAt(s).func = TimerAt(t).func, TimerAt(s).arg = TimerAt(t).arg
               PROVE  s = t
    BY DEF UniquePairs
  <2> DEFINE K == Just(TimerAt(s).func)
  <2>1. TimerAt(s).func \in Funcs
    BY SlotOf
  <2>2. K \in Kinds /\ TimerAt(s).func \in K /\ TimerAt(t).func \in K
    BY <2>1 DEF Kinds, Just
  <2> HIDE DEF K
  <2> QED BY <2>2, OneOfAKind
<1> QED
  BY <1>1, Limited, PTL

(* A corpse meets one end, and none while it is on ice, however often its  *)
(* decay is stopped, resumed, rescaled, copied, saved and restored.        *)
THEOREM OneEnd == Spec /\ NothingRotsFreed => []OneDecay
<1>1. OneInv => OneDecay
  <2> SUFFICES ASSUME OneInv, NEW o \in Bodies,
                      NEW A, A = {s \in Slots : TimerAt(s).arg = o /\ TimerAt(s).func \in Decay}
               PROVE  /\ Cardinality(A) <= 1
                      /\ place[o].at = "contained" /\ place[o].by \in IceBoxes => A = {}
    BY DEF OneDecay
  <2>1. Decay \in Kinds
    BY DEF Kinds
  <2>2. \A s, t \in A : s = t
    BY <2>1, OneOfAKind
  <2>3. A = {} \/ \E s : A = {s}
    BY <2>2
  <2>4. Cardinality(A) <= 1
    <3>1. Cardinality(A) \in {0, 1}
      BY <2>3, FS_EmptySet, FS_Singleton
    <3> QED BY <3>1
  <2>5. ASSUME place[o].at = "contained" /\ place[o].by \in IceBoxes, NEW s \in A PROVE FALSE
    <3>1. ~Barred(Decay, o, Spot(o))
      BY <2>1, SlotFew
    <3>2. Spot(o) = place[o]
      BY DEF Spot, Bodies, Obj
    <3> QED BY <2>5, <3>1, <3>2 DEF Barred, Iced
  <2> QED BY <2>4, <2>5
<1> QED
  BY <1>1, Limited, PTL

(* What rots in the ground is in the ground: nothing that is dug up, boxed *)
(* or replaced keeps the timer that would destroy it in the open.          *)
THEOREM RotsInGround == Spec /\ NothingRotsFreed => []RotOrganicInGround
<1>1. OneInv => RotOrganicInGround
  <2> SUFFICES ASSUME OneInv, NEW s \in Slots, TimerAt(s).func = "ROT_ORGANIC"
               PROVE  place[TimerAt(s).arg].at = "buried"
    BY DEF RotOrganicInGround
  <2> DEFINE K == Just("ROT_ORGANIC")
  <2>1. K \in Kinds /\ TimerAt(s).func \in K
    BY DEF Kinds, Just, Funcs, ObjFuncs
  <2>2. ~Barred(K, TimerAt(s).arg, Spot(TimerAt(s).arg))
    BY <2>1, SlotFew
  <2>3. Spot(TimerAt(s).arg).at = "buried"
    BY <2>2 DEF Barred
  <2>4. Gone.at # "buried"
    BY DEF Gone, At
  <2> QED BY <2>3, <2>4 DEF Spot
<1> QED
  BY <1>1, Limited, PTL

=============================================================================
