---------------------------- MODULE TimersProofs ----------------------------
(***************************************************************************)
(* For every set of objects, monsters and levels, and every delay: the     *)
(* variables keep their types, the timer list stays in order, and          *)
(* run_timers leaves no timer that is due.  The first two are inductive    *)
(* together (IInv); the third follows from them.                           *)
(***************************************************************************)
EXTENDS Timers, TimerQueueProofs

(* What timer_base is: a list of timers, in order.                         *)
Queue == {q \in Seq(Timer) : Ordered(q)}

(* The part of the state that the operations on objects change, and the    *)
(* rest of it.                                                             *)
ObjectsOK ==
  /\ timer_base \in Queue
  /\ timed \in [Obj -> Int] /\ many \in [Obj -> BOOLEAN] /\ place \in [Obj -> Place]

ClockOK == monstermoves \in Nat \ {0}
MonstersOK == mplace \in [Mon -> MonPlace]
FilesOK == file \in [Level -> Seq(Timer)] /\ gsave \in Seq(Timer) /\ uz \in Level
LoopOK == todo \in Seq(Timer) /\ phase \in Phases

IInv == ObjectsOK /\ ClockOK /\ MonstersOK /\ FilesOK /\ LoopOK

(* IInv is TypeOK and SortedTimers, arranged for the proof.                *)
LEMMA IInvMeaning == IInv <=> TypeOK /\ SortedTimers
BY DEF IInv, ObjectsOK, ClockOK, MonstersOK, FilesOK, LoopOK, Queue, TypeOK, SortedTimers

-----------------------------------------------------------------------------
(* Lists of timers.                                                        *)

(* Timers are what the lemmas on ordered lists are about.                  *)
LEMMA TimeoutsAreIntegers == HasTimeouts(Timer)
BY DEF HasTimeouts, Timer

(* A game starts with no timers.                                           *)
LEMMA EmptyQueue == <<>> \in Queue
BY DEF Queue, Ordered

(* insert_timer keeps the list a list in order.                            *)
LEMMA InsertQueue ==
  ASSUME NEW q \in Queue, NEW t \in Timer
  PROVE  insert_timer(q, t) \in Queue
BY InsertTimer, TimeoutsAreIntegers DEF Queue

(* Unlinking elements does.                                                *)
LEMMA KeepQueue ==
  ASSUME NEW q \in Queue, NEW S \in SUBSET DOMAIN q
  PROVE  Keep(q, S) \in Queue
BY KeepList DEF Queue

(* remove_timer does.                                                      *)
LEMMA RemoveQueue ==
  ASSUME NEW q \in Queue, NEW f, NEW a
  PROVE  remove_timer(q, f, a) \in Queue
<1> DEFINE S == DOMAIN q \ {Min(Matches(q, f, a))}
<1>1. S \in SUBSET DOMAIN q
  OBVIOUS
<1>2. Keep(q, S) \in Queue
  <2> HIDE DEF S
  <2> QED BY <1>1, KeepQueue
<1> QED
  BY <1>2 DEF remove_timer

(* obj_stop_timers and mon_stop_timers do.                                 *)
LEMMA StopAllQueue ==
  ASSUME NEW q \in Queue, NEW a
  PROVE  stop_all(q, a) \in Queue
<1> DEFINE S == DOMAIN q \ OnArg(q, a)
<1>1. S \in SUBSET DOMAIN q
  OBVIOUS
<1>2. Keep(q, S) \in Queue
  <2> HIDE DEF S
  <2> QED BY <1>1, KeepQueue
<1> QED
  BY <1>2 DEF stop_all

(* Taking the first element off, as run_timers does.                       *)
LEMMA TailQueue ==
  ASSUME NEW q \in Queue, q # <<>>
  PROVE  Tail(q) \in Queue
<1>1. q \in Seq(Timer) /\ Ordered(q)
  BY DEF Queue
<1>2. /\ Tail(q) \in Seq(Timer) /\ Len(Tail(q)) = Len(q) - 1
      /\ \A i \in 1 .. Len(Tail(q)) : Tail(q)[i] = q[i + 1]
  BY <1>1, HeadTailProperties
<1>3. \A i, j \in 1 .. Len(q) : i < j => q[i].timeout <= q[j].timeout
  BY <1>1 DEF Ordered
<1>4. ASSUME NEW i \in 1 .. Len(Tail(q)), NEW j \in 1 .. Len(Tail(q)), i < j
      PROVE  Tail(q)[i].timeout <= Tail(q)[j].timeout
  <2>1. /\ i + 1 \in 1 .. Len(q) /\ j + 1 \in 1 .. Len(q) /\ i + 1 < j + 1
        /\ Tail(q)[i] = q[i + 1] /\ Tail(q)[j] = q[j + 1]
    BY <1>1, <1>2, <1>4
  <2> QED BY <2>1, <1>3
<1> DEFINE r == Tail(q)
<1>5. r \in Seq(Timer) /\ DOMAIN r = 1 .. Len(r)
  BY <1>2, LenProperties
<1>6. \A i, j \in 1 .. Len(r) : i < j => r[i].timeout <= r[j].timeout
  BY <1>4
<1> HIDE DEF r
<1>7. r \in Queue
  BY <1>5, <1>6 DEF Queue, Ordered
<1> QED
  BY <1>7 DEF r

(* obj_move_timers changes owners only.                                    *)
LEMMA MoveQueue ==
  ASSUME NEW q \in Queue, NEW src, NEW dest \in Obj
  PROVE  move_timers(q, src, dest) \in Queue
<1> DEFINE r == move_timers(q, src, dest)
<1>1. q \in Seq(Timer) /\ Ordered(q) /\ Len(q) \in Nat
  BY DEF Queue
<1>2. r = [i \in 1 .. Len(q) |-> IF q[i].arg = src THEN [q[i] EXCEPT !.arg = dest] ELSE q[i]]
  BY <1>1 DEF move_timers
<1> HIDE DEF r
<1>3. ASSUME NEW i \in 1 .. Len(q) PROVE r[i] \in Timer /\ r[i].timeout = q[i].timeout
  <2>1. q[i] \in Timer
    BY <1>1, ElementOfSeq
  <2> QED BY <2>1, <1>2 DEF Timer
<1>4. r \in Seq(Timer) /\ DOMAIN r = 1 .. Len(q)
  BY <1>1, <1>2, <1>3, IsASeq
<1> QED
  BY <1>1, <1>3, <1>4 DEF Queue, Ordered, r

-----------------------------------------------------------------------------
(* Starting timers.                                                        *)

(* The callbacks named by groups are callbacks.                            *)
LEMMA FuncsOfDecay == Decay \in SUBSET Funcs /\ ObjFuncs \in SUBSET Funcs
BY DEF Decay, ObjFuncs, Funcs

(* Delays are numbers, and may be negative.                                *)
LEMMA DelayTypes == \A d \in Delays \cup LateDelays : d \in Int
BY BoundsAreNaturals, OverdueAreNumbers DEF LateDelays

(* What start_timer inserts is a timer.                                    *)
LEMMA ExpiringTimer ==
  ASSUME ClockOK, NEW d \in Delays \cup LateDelays, NEW f \in Funcs, NEW a \in Obj \cup Mon
  PROVE  Expiring(d, f, a) \in Timer
<1>1. d \in Int
  BY DelayTypes
<1>2. monstermoves + d \in Int
  BY <1>1 DEF ClockOK
<1> QED
  BY <1>2 DEF Expiring, Timer

(* start_timer, with any delay the program passes.                         *)
LEMMA StartQueue ==
  ASSUME ClockOK, NEW q \in Queue, NEW d \in Delays \cup LateDelays,
         NEW f \in Funcs, NEW a \in Obj \cup Mon
  PROVE  start_timer(q, d, f, a) \in Queue
BY ExpiringTimer, InsertQueue DEF start_timer

(* What start_corpse_timeout leaves behind, with 0 or 1 timer more.        *)
LEMMA CorpseTimeout ==
  ASSUME ClockOK, NEW q \in Queue, NEW o \in Obj, NEW delays \in SUBSET (Delays \cup LateDelays),
         NEW r \in start_corpse_timeout(q, o, delays)
  PROVE  r[1] \in Queue /\ r[2] \in Int
<1>1. CASE r = <<q, 0>>
  BY <1>1
<1>2. CASE \E d \in delays, f \in DecayOf(o) : r = <<start_timer(q, d, f, o), 1>>
  <2>1. PICK d \in delays, f \in DecayOf(o) : r = <<start_timer(q, d, f, o), 1>>
    BY <1>2
  <2>2. f \in Funcs
    BY FuncsOfDecay DEF DecayOf
  <2>3. start_timer(q, d, f, o) \in Queue
    BY <2>2, StartQueue
  <2> QED BY <2>1, <2>3
<1> QED
  BY <1>1, <1>2 DEF start_corpse_timeout

(* What mksobj leaves behind.                                              *)
LEMMA MksobjQueue ==
  ASSUME ClockOK, NEW q \in Queue, NEW o \in Obj, NEW init, NEW r \in mksobj(q, o, init)
  PROVE  r[1] \in Queue /\ r[2] \in Int
<1>1. CASE o \in Bodies
  <2>1. r \in start_corpse_timeout(q, o, Delays)
    BY <1>1 DEF mksobj
  <2> QED BY <2>1, CorpseTimeout
<1>2. CASE r = <<q, 0>>
  BY <1>2
<1>3. CASE \E d \in Delays : r = <<start_timer(q, d, "HATCH_EGG", o), 1>>
  <2>1. PICK d \in Delays : r = <<start_timer(q, d, "HATCH_EGG", o), 1>>
    BY <1>3
  <2>2. "HATCH_EGG" \in Funcs
    BY DEF Funcs, ObjFuncs
  <2>3. start_timer(q, d, "HATCH_EGG", o) \in Queue
    BY <2>2, StartQueue
  <2> QED BY <2>1, <2>3
<1> QED
  BY <1>1, <1>2, <1>3 DEF mksobj

(* What obj_timer_checks leaves behind.                                    *)
LEMMA ChecksQueue ==
  ASSUME ClockOK, NEW q \in Queue, NEW o \in Obj, NEW r \in obj_timer_checks(q, o)
  PROVE  r \in Queue
<1>1. CASE r = q
  BY <1>1
<1>2. CASE \E d \in LateDelays, f \in RunningDecay(q, o) :
             r = start_timer(remove_timer(q, f, o), d, f, o)
  <2>1. PICK d \in LateDelays, f \in RunningDecay(q, o) :
               r = start_timer(remove_timer(q, f, o), d, f, o)
    BY <1>2
  <2>2. f \in Funcs
    BY DEF RunningDecay, Funcs, ObjFuncs, Decay
  <2>3. remove_timer(q, f, o) \in Queue
    BY RemoveQueue
  <2> QED BY <2>1, <2>2, <2>3, StartQueue
<1> QED
  BY <1>1, <1>2 DEF obj_timer_checks

-----------------------------------------------------------------------------
(* Freeing and settling objects.                                           *)

(* The places operations name are places.                                  *)
LEMMA Places ==
  /\ Gone \in Place /\ Invent \in Place /\ Gone \in MonPlace
  /\ \A l \in Level : /\ Floor(l) \in Place /\ Buried(l) \in Place
                       /\ Bound(l) \in Place /\ Trailing(l) \in Place
                       /\ OnLevel(l) \in MonPlace /\ Bound(l) \in MonPlace
                       /\ Dying(l) \in MonPlace
  /\ \A m \in Mon : Minvent(m) \in Place
  /\ \A b \in Boxes : In(b) \in Place
  /\ Bound(Nobody) \in Place
BY DEF Place, MonPlace, At, Gone, Invent, Floor, Buried, Bound, Trailing, OnLevel, Dying,
       Minvent, In

(* So are those an object can be handled at.                               *)
LEMMA HandyPlaces == ASSUME uz \in Level PROVE Handy \in SUBSET Place
BY Places DEF Handy

(* obfree keeps the types of all it changes.                               *)
LEMMA ObfreeOK ==
  ASSUME NEW S, NEW pl \in [Obj -> Place], NEW q \in Queue, NEW tm \in [Obj -> Int],
         obfree(S, pl, q, tm)
  PROVE  timer_base' \in Queue /\ timed' \in [Obj -> Int] /\ place' \in [Obj -> Place]
<1> DEFINE K == {i \in DOMAIN q : q[i].arg \notin Freed(S, pl)}
<1>1. K \in SUBSET DOMAIN q
  OBVIOUS
<1>2. timer_base' = Keep(q, K)
  BY DEF obfree
<1> HIDE DEF K
<1>3. timer_base' \in Queue
  BY <1>1, <1>2, KeepQueue
<1>4. timed' \in [Obj -> Int] /\ place' \in [Obj -> Place]
  BY Places DEF obfree
<1> QED
  BY <1>3, <1>4

(* quan_kept keeps the type of `many'.                                     *)
LEMMA QuanKept == quan_kept => many' \in [Obj -> BOOLEAN]
BY DEF quan_kept

(* Settle keeps the types, merging or not.                                 *)
LEMMA SettleOK ==
  ASSUME ObjectsOK, NEW o \in Obj, NEW n \in BOOLEAN, NEW p \in Place, NEW q \in Queue,
         NEW tm \in [Obj -> Int], Settle(o, n, p, q, tm)
  PROVE  ObjectsOK'
<1>1. many \in [Obj -> BOOLEAN] /\ place \in [Obj -> Place]
  BY DEF ObjectsOK
<1>2. CASE /\ place' = [place EXCEPT ![o] = p]
           /\ timer_base' = q /\ timed' = tm
           /\ many' = [many EXCEPT ![o] = n]
  BY <1>1, <1>2 DEF ObjectsOK
<1>3. ASSUME NEW o2 \in Obj, obfree({o}, place, q, tm),
             many' = [many EXCEPT ![o] = FALSE, ![o2] = TRUE]
      PROVE  ObjectsOK'
  <2>1. timer_base' \in Queue /\ timed' \in [Obj -> Int] /\ place' \in [Obj -> Place]
    BY <1>1, <1>3, ObfreeOK
  <2>2. many' \in [Obj -> BOOLEAN]
    BY <1>1, <1>3
  <2> QED BY <2>1, <2>2 DEF ObjectsOK
<1> QED
  BY <1>2, <1>3 DEF Settle

-----------------------------------------------------------------------------
(* The actions.  Most change the objects and their timers only.            *)

(* A step that changes objects only need keep ObjectsOK.                   *)
LEMMA OnlyObjects ==
  ASSUME IInv, ObjectsOK', UNCHANGED mplace, unchangedWorld, unchangedLoop
  PROVE  IInv'
BY DEF IInv, ClockOK, MonstersOK, FilesOK, LoopOK, unchangedWorld, unchangedLoop

(* The facts about single variables that leaves use.                       *)
LEMMA InvUnfolded ==
  ASSUME IInv
  PROVE  /\ ObjectsOK /\ ClockOK /\ MonstersOK /\ FilesOK /\ LoopOK
         /\ timer_base \in Queue /\ timed \in [Obj -> Int]
         /\ many \in [Obj -> BOOLEAN] /\ place \in [Obj -> Place]
         /\ uz \in Level /\ mplace \in [Mon -> MonPlace]
BY DEF IInv, ObjectsOK, MonstersOK, FilesOK

(* CreateObj keeps IInv.                                                   *)
LEMMA CreateObjInv ==
  ASSUME IInv, NEW o \in Obj, NEW p \in {Invent, Floor(uz)}, CreateObj(o, p)
  PROVE  IInv'
<1>1. PICK r \in mksobj(timer_base, o, TRUE), n \in BOOLEAN :
            Settle(o, n, p, r[1], [timed EXCEPT ![o] = r[2]])
  BY DEF CreateObj
<1>2. r[1] \in Queue /\ r[2] \in Int
  BY InvUnfolded, MksobjQueue
<1>3. p \in Place
  BY InvUnfolded, Places
<1>4. [timed EXCEPT ![o] = r[2]] \in [Obj -> Int]
  BY <1>2, InvUnfolded
<1>5. ObjectsOK'
  BY <1>1, <1>2, <1>3, <1>4, InvUnfolded, SettleOK
<1> QED
  BY <1>5, OnlyObjects DEF CreateObj

(* MoveObj keeps IInv.                                                     *)
LEMMA MoveObjInv ==
  ASSUME IInv, NEW o \in Obj, NEW p \in Handy, MoveObj(o, p)
  PROVE  IInv'
<1>1. PICK q \in obj_timer_checks(timer_base, o) \cup {timer_base} :
            Settle(o, many[o], p, q, timed)
  BY DEF MoveObj
<1>2. q \in Queue
  BY InvUnfolded, ChecksQueue
<1>3. p \in Place /\ many[o] \in BOOLEAN
  BY InvUnfolded, HandyPlaces
<1>4. ObjectsOK'
  BY <1>1, <1>2, <1>3, InvUnfolded, SettleOK
<1> QED
  BY <1>4, OnlyObjects DEF MoveObj

(* stop_timer keeps the type of the counts.                                *)
LEMMA LessTimed ==
  ASSUME NEW tm \in [Obj -> Int], NEW q, NEW f, NEW o \in Obj
  PROVE  Less(tm, q, f, o) \in [Obj -> Int]
BY DEF Less

(* PutInBox keeps IInv.                                                    *)
LEMMA PutInBoxInv ==
  ASSUME IInv, NEW o \in Obj, NEW b \in Boxes, PutInBox(o, b)
  PROVE  IInv'
<1> DEFINE q1 == remove_timer(timer_base, "ROT_CORPSE", o)
           q2 == remove_timer(q1, "MOLDY_CORPSE", o)
           q3 == remove_timer(q2, "REVIVE_MON", o)
           t1 == Less(timed, timer_base, "ROT_CORPSE", o)
           t2 == Less(t1, q1, "MOLDY_CORPSE", o)
           t3 == Less(t2, q2, "REVIVE_MON", o)
<1>1. Settle(o, many[o], In(b), q3, t3) \/ Settle(o, many[o], In(b), timer_base, timed)
  BY DEF PutInBox
<1>2. q1 \in Queue /\ t1 \in [Obj -> Int]
  BY InvUnfolded, RemoveQueue, LessTimed
<1> HIDE DEF q1, t1
<1>3. q2 \in Queue /\ t2 \in [Obj -> Int]
  BY <1>2, RemoveQueue, LessTimed
<1> HIDE DEF q2, t2
<1>4. q3 \in Queue /\ t3 \in [Obj -> Int]
  BY <1>3, RemoveQueue, LessTimed
<1> HIDE DEF q3, t3
<1>5. In(b) \in Place /\ many[o] \in BOOLEAN
  BY InvUnfolded, Places
<1>6. ObjectsOK'
  BY <1>1, <1>4, <1>5, InvUnfolded, SettleOK
<1> QED
  BY <1>6, OnlyObjects DEF PutInBox

(* TakeOut keeps IInv.                                                     *)
LEMMA TakeOutInv ==
  ASSUME IInv, NEW o \in Obj, TakeOut(o)
  PROVE  IInv'
<1>1. PICK r \in start_corpse_timeout(timer_base, o, LateDelays) \cup {<<timer_base, 0>>} :
            Settle(o, many[o], Invent, r[1], [timed EXCEPT ![o] = @ + r[2]])
  BY DEF TakeOut
<1>2. r[1] \in Queue /\ r[2] \in Int
  BY InvUnfolded, CorpseTimeout
<1>3. [timed EXCEPT ![o] = @ + r[2]] \in [Obj -> Int]
  BY <1>2, InvUnfolded
<1>4. Invent \in Place /\ many[o] \in BOOLEAN
  BY InvUnfolded, Places
<1>5. ObjectsOK'
  BY <1>1, <1>2, <1>3, <1>4, InvUnfolded, SettleOK
<1> QED
  BY <1>5, OnlyObjects DEF TakeOut

(* Bury keeps IInv.                                                        *)
LEMMA BuryInv ==
  ASSUME IInv, NEW o \in Obj, Bury(o)
  PROVE  IInv'
<1>1. place' \in [Obj -> Place] /\ many' \in [Obj -> BOOLEAN]
  BY InvUnfolded, Places DEF Bury
<1>2. timer_base' \in Queue /\ timed' \in [Obj -> Int]
  <2>1. CASE \E d \in Delays : /\ timer_base' = start_timer(timer_base, d, "ROT_ORGANIC", o)
                              /\ timed' = [timed EXCEPT ![o] = @ + 1]
    <3>1. PICK d \in Delays : timer_base' = start_timer(timer_base, d, "ROT_ORGANIC", o)
      BY <2>1
    <3>2. "ROT_ORGANIC" \in Funcs
      BY DEF Funcs, ObjFuncs
    <3>3. timer_base' \in Queue
      BY <3>1, <3>2, InvUnfolded, StartQueue
    <3> QED BY <2>1, <3>3, InvUnfolded
  <2>2. CASE timer_base' \in obj_timer_checks(timer_base, o) /\ UNCHANGED timed
    BY <2>2, InvUnfolded, ChecksQueue
  <2> QED BY <2>1, <2>2 DEF Bury
<1> QED
  BY <1>1, <1>2, OnlyObjects DEF Bury, ObjectsOK

(* Unearth keeps IInv.                                                     *)
LEMMA UnearthInv ==
  ASSUME IInv, NEW o \in Obj, Unearth(o)
  PROVE  IInv'
<1> DEFINE q == remove_timer(timer_base, "ROT_ORGANIC", o)
           tm == Less(timed, timer_base, "ROT_ORGANIC", o)
<1>1. (\E q2 \in obj_timer_checks(q, o) : Settle(o, many[o], Floor(uz), q2, tm))
        \/ Settle(o, many[o], Floor(uz), timer_base, timed)
  BY DEF Unearth
<1>2. q \in Queue /\ tm \in [Obj -> Int]
  BY InvUnfolded, RemoveQueue, LessTimed
<1> HIDE DEF q, tm
<1>3. \A q2 \in obj_timer_checks(q, o) : q2 \in Queue
  BY <1>2, InvUnfolded, ChecksQueue
<1>4. Floor(uz) \in Place /\ many[o] \in BOOLEAN
  BY InvUnfolded, Places
<1>5. ObjectsOK'
  BY <1>1, <1>2, <1>3, <1>4, InvUnfolded, SettleOK
<1> QED
  BY <1>5, OnlyObjects DEF Unearth

(* Lists of timers still to be inserted.                                   *)

(* The timers that wait for an ice box to be emptied are timers.           *)
LEMMA ThawOK ==
  ASSUME ClockOK, NEW S \in SUBSET Obj, NEW w \in ThawTimers(S)
  PROVE  w \in Seq(Timer)
<1>1. PICK s \in SetToSeqs(S), d \in LateDelays, f \in [S -> Decay] :
            w = [i \in DOMAIN s |-> Expiring(d, f[s[i]], s[i])]
  BY DEF ThawTimers
<1>2. IsFiniteSet(S) /\ Cardinality(S) \in Nat
  BY ObjectsFinite, FS_Subset, FS_CardinalityType
<1>3. s \in [1 .. Cardinality(S) -> S]
  BY DEF SetToSeqs
<1>4. ASSUME NEW i \in 1 .. Cardinality(S) PROVE Expiring(d, f[s[i]], s[i]) \in Timer
  <2>1. s[i] \in Obj /\ f[s[i]] \in Funcs
    BY <1>3, FuncsOfDecay
  <2> QED BY <2>1, ExpiringTimer
<1> QED
  BY <1>1, <1>2, <1>3, <1>4, IsASeq

(* So are those of what a rotten container buries.                         *)
LEMMA SpillOK ==
  ASSUME ClockOK, NEW S \in SUBSET Obj, NEW s \in SetToSeqs(S), NEW d \in Delays
  PROVE  [i \in DOMAIN s |-> Expiring(d, "ROT_ORGANIC", s[i])] \in Seq(Timer)
<1>1. IsFiniteSet(S) /\ Cardinality(S) \in Nat
  BY ObjectsFinite, FS_Subset, FS_CardinalityType
<1>2. s \in [1 .. Cardinality(S) -> S]
  BY DEF SetToSeqs
<1>3. ASSUME NEW i \in 1 .. Cardinality(S) PROVE Expiring(d, "ROT_ORGANIC", s[i]) \in Timer
  <2>1. s[i] \in Obj /\ "ROT_ORGANIC" \in Funcs
    BY <1>2 DEF Funcs, ObjFuncs
  <2> QED BY <2>1, ExpiringTimer
<1> QED
  BY <1>1, <1>2, <1>3, IsASeq

(* So are those a split object is given.                                   *)
LEMMA CopiesOK ==
  ASSUME NEW q \in Queue, NEW src, NEW dest \in Obj
  PROVE  copies(q, src, dest) \in Seq(Timer)
<1> DEFINE r == move_timers(q, src, dest)
           S == OnArg(q, src)
<1>1. r \in Queue
  BY MoveQueue
<1>2. S \in SUBSET DOMAIN r
  BY DEF move_timers, OnArg
<1> HIDE DEF r, S
<1>3. Keep(r, S) \in Queue
  BY <1>1, <1>2, KeepQueue
<1> QED
  BY <1>3 DEF copies, Queue, r, S

(* BreakBox keeps IInv.                                                    *)
LEMMA BreakBoxInv ==
  ASSUME IInv, NEW b \in Boxes, NEW p \in Handy, BreakBox(b, p)
  PROVE  IInv'
<1>1. PICK out \in SUBSET Contents(b) :
            /\ obfree({b}, [o \in Obj |-> IF o \in out THEN p ELSE place[o]], timer_base, timed)
            /\ \E onto \in SUBSET Obj :
                 many' = [o \in Obj |-> (many[o] \/ o \in onto) /\ place'[o] # Gone]
            /\ IF b \in LargeBoxes THEN todo' = <<>>
               ELSE \E S \in SUBSET (out \cap Bodies) :
                      /\ out \cap Revivers \subseteq S
                      /\ todo' \in ThawTimers(S)
  BY DEF BreakBox
<1>2. [o \in Obj |-> IF o \in out THEN p ELSE place[o]] \in [Obj -> Place]
  BY InvUnfolded, HandyPlaces
<1>3. ObjectsOK'
  <2>1. many' \in [Obj -> BOOLEAN]
    BY <1>1
  <2> QED BY <1>1, <1>2, <2>1, InvUnfolded, ObfreeOK DEF ObjectsOK
<1>4. todo' \in Seq(Timer)
  <2>1. CASE todo' = <<>>
    BY <2>1
  <2>2. CASE \E S \in SUBSET (out \cap Bodies) : todo' \in ThawTimers(S)
    <3>1. PICK S \in SUBSET (out \cap Bodies) : todo' \in ThawTimers(S)
      BY <2>2
    <3>2. S \in SUBSET Obj
      BY DEF Bodies, Obj
    <3> QED BY <3>1, <3>2, InvUnfolded, ThawOK
  <2> QED BY <1>1, <2>1, <2>2
<1> QED
  BY <1>3, <1>4 DEF BreakBox, unchangedWorld, IInv, ClockOK, MonstersOK, FilesOK, LoopOK

(* SplitObj keeps IInv.                                                    *)
LEMMA SplitObjInv ==
  ASSUME IInv, NEW o \in Obj, NEW o2 \in Obj, SplitObj(o, o2)
  PROVE  IInv'
<1>1. ObjectsOK'
  BY InvUnfolded DEF SplitObj, ObjectsOK
<1>2. todo' \in Seq(Timer)
  BY InvUnfolded, CopiesOK DEF SplitObj
<1> QED
  BY <1>1, <1>2 DEF SplitObj, unchangedWorld, IInv, ClockOK, MonstersOK, FilesOK, LoopOK

(* ReallocObj keeps IInv.                                                  *)
LEMMA ReallocObjInv ==
  ASSUME IInv, NEW o \in Obj, NEW o2 \in Obj, ReallocObj(o, o2)
  PROVE  IInv'
<1>1. ASSUME NEW x \in Obj, place[x] = In(o) PROVE o2 \in Boxes
  <2>1. place[x] \in Place
    BY InvUnfolded
  <2>2. o \in {Nobody} \cup Level \cup Mon \cup Boxes
    BY <2>1, <1>1 DEF Place, In, At
  <2>3. o \in Boxes
    BY <2>2, OwnersDistinct
  <2> QED BY <2>3, OwnersDistinct DEF ReallocObj, SameType, Boxes, Bodies
<1>2. place' \in [Obj -> Place]
  <2>1. \A x \in Contents(o) : In(o2) \in Place
    BY <1>1, Places DEF Contents
  <2>2. Gone \in Place /\ place \in [Obj -> Place]
    BY Places, InvUnfolded
  <2> QED BY <2>1, <2>2 DEF ReallocObj
<1>3. many' \in [Obj -> BOOLEAN]
  BY InvUnfolded DEF ReallocObj
<1>4. timer_base' \in Queue /\ timed' \in [Obj -> Int]
  <2>1. Len(timer_base) \in Nat /\ OnArg(timer_base, o) \in SUBSET (1 .. Len(timer_base))
    BY InvUnfolded DEF Queue, OnArg
  <2>2. Cardinality(OnArg(timer_base, o)) \in Nat
    BY <2>1, PositionsFinite
  <2>3. move_timers(timer_base, o, o2) \in Queue
    BY InvUnfolded, MoveQueue
  <2> QED BY <2>2, <2>3, InvUnfolded DEF ReallocObj
<1> QED
  BY <1>2, <1>3, <1>4, OnlyObjects DEF ReallocObj, ObjectsOK

(* PolyObj keeps IInv.                                                     *)
LEMMA PolyObjInv ==
  ASSUME IInv, NEW o \in Obj, NEW o2 \in Obj, PolyObj(o, o2)
  PROVE  IInv'
<1> DEFINE pl == [place EXCEPT ![o2] = replace_object(place[o])]
<1>1. PICK r \in mksobj(timer_base, o2, TRUE), d \in Delays, h \in set_obj_poly(o, o2) :
            obfree({o}, pl,
                   IF h THEN start_timer(r[1], d, "UNPOLY_OBJ", o2) ELSE r[1],
                   [timed EXCEPT ![o2] = r[2] + IF h THEN 1 ELSE 0])
  BY DEF PolyObj
<1> DEFINE q  == IF h THEN start_timer(r[1], d, "UNPOLY_OBJ", o2) ELSE r[1]
           tm == [timed EXCEPT ![o2] = r[2] + IF h THEN 1 ELSE 0]
<1>2. r[1] \in Queue /\ r[2] \in Int
  BY InvUnfolded, MksobjQueue
<1>3. q \in Queue
  <2>1. "UNPOLY_OBJ" \in Funcs
    BY DEF Funcs, ObjFuncs
  <2> QED BY <1>2, <2>1, InvUnfolded, StartQueue
<1>4. tm \in [Obj -> Int]
  BY <1>2, InvUnfolded
<1>5. pl \in [Obj -> Place]
  BY InvUnfolded, Places DEF replace_object
<1>6. obfree({o}, pl, q, tm)
  BY <1>1
<1> HIDE DEF q, tm, pl
<1>7. timer_base' \in Queue /\ timed' \in [Obj -> Int] /\ place' \in [Obj -> Place]
  BY <1>3, <1>4, <1>5, <1>6, ObfreeOK
<1>8. many' \in [Obj -> BOOLEAN]
  BY InvUnfolded DEF PolyObj, quan_poly
<1> QED
  BY <1>7, <1>8, OnlyObjects DEF PolyObj, ObjectsOK

(* DestroyObj keeps IInv.                                                  *)
LEMMA DestroyObjInv ==
  ASSUME IInv, NEW o \in Obj, DestroyObj(o)
  PROVE  IInv'
<1>1. CASE obfree({o}, place, timer_base, timed) /\ quan_kept
  BY <1>1, InvUnfolded, ObfreeOK, QuanKept, OnlyObjects DEF DestroyObj, ObjectsOK
<1>2. CASE many' = [many EXCEPT ![o] = FALSE] /\ UNCHANGED <<timer_base, timed, place>>
  BY <1>2, InvUnfolded, OnlyObjects DEF DestroyObj, ObjectsOK
<1> QED
  BY <1>1, <1>2 DEF DestroyObj

(* StopTimers keeps IInv.                                                  *)
LEMMA StopTimersInv ==
  ASSUME IInv, NEW o \in Obj, StopTimers(o)
  PROVE  IInv'
<1>1. timer_base' \in Queue
  BY InvUnfolded, RemoveQueue, StopAllQueue DEF StopTimers
<1>2. timed' \in [Obj -> Int]
  BY InvUnfolded, LessTimed DEF StopTimers
<1> QED
  BY <1>1, <1>2, InvUnfolded, OnlyObjects DEF StopTimers, ObjectsOK

(* MigrateObj keeps IInv.                                                  *)
LEMMA MigrateObjInv ==
  ASSUME IInv, NEW o \in Obj, NEW l \in Level, MigrateObj(o, l)
  PROVE  IInv'
<1>1. place' \in [Obj -> Place]
  BY InvUnfolded, Places DEF MigrateObj
<1>2. timer_base' \in Queue
  BY InvUnfolded, ChecksQueue DEF MigrateObj
<1> QED
  BY <1>1, <1>2, InvUnfolded, OnlyObjects DEF MigrateObj, ObjectsOK

(* Monsters.                                                               *)

(* m_detach keeps the types of all it changes.                             *)
LEMMA DetachOK ==
  ASSUME IInv, NEW m \in Mon, NEW q \in Queue, m_detach(m, q), UNCHANGED <<timed, many>>
  PROVE  ObjectsOK' /\ MonstersOK'
<1>1. timer_base' \in Queue
  BY StopAllQueue DEF m_detach
<1>2. place' \in [Obj -> Place] /\ mplace' \in [Mon -> MonPlace]
  BY InvUnfolded, Places DEF m_detach
<1> QED
  BY <1>1, <1>2, InvUnfolded DEF ObjectsOK, MonstersOK

(* A step of objects and monsters need keep their types only.              *)
LEMMA ObjectsAndMonsters ==
  ASSUME IInv, ObjectsOK', MonstersOK', unchangedWorld, unchangedLoop
  PROVE  IInv'
BY DEF IInv, ClockOK, FilesOK, LoopOK, unchangedWorld, unchangedLoop

(* HandleMon keeps IInv.                                                   *)
LEMMA HandleMonInv ==
  ASSUME IInv, HandleMon
  PROVE  IInv'
<1>1. ASSUME NEW m \in Mon, MakeMon(m) PROVE IInv'
  <2>1. ObjectsOK' /\ MonstersOK'
    BY <1>1, InvUnfolded, Places DEF MakeMon, ObjectsOK, MonstersOK
  <2> QED BY <1>1, <2>1, ObjectsAndMonsters DEF MakeMon
<1>2. ASSUME NEW m \in Mon, KillMon(m) PROVE IInv'
  BY <1>2, InvUnfolded, DetachOK, ObjectsAndMonsters DEF KillMon
<1>3. ASSUME NEW m \in Mon, NEW d \in Delays, PolyMon(m, d) PROVE IInv'
  <2>1. remove_timer(timer_base, "UNPOLY_MON", m) \in Queue
    BY InvUnfolded, RemoveQueue
  <2>2. "UNPOLY_MON" \in Funcs
    BY DEF Funcs
  <2>3. timer_base' \in Queue
    BY <1>3, <2>1, <2>2, InvUnfolded, StartQueue DEF PolyMon
  <2> QED BY <1>3, <2>3, InvUnfolded, OnlyObjects DEF PolyMon, ObjectsOK
<1>4. ASSUME NEW m \in Mon, NEW l \in Level, MigrateMon(m, l) PROVE IInv'
  <2>1. ObjectsOK' /\ MonstersOK'
    BY <1>4, InvUnfolded, Places DEF MigrateMon, ObjectsOK, MonstersOK
  <2> QED BY <1>4, <2>1, ObjectsAndMonsters DEF MigrateMon
<1>5. ASSUME NEW m \in Mon, StopUnpoly(m) PROVE IInv'
  BY <1>5, InvUnfolded, RemoveQueue, OnlyObjects DEF StopUnpoly, ObjectsOK
<1> QED
  BY <1>1, <1>2, <1>3, <1>4, <1>5 DEF HandleMon

(* HandleObj keeps IInv.                                                   *)
LEMMA HandleObjInv ==
  ASSUME IInv, HandleObj
  PROVE  IInv'
<1>1. CASE \E o \in Obj, p \in {Invent, Floor(uz)} : CreateObj(o, p)
  BY <1>1, CreateObjInv
<1>2. CASE \E o \in Obj, p \in Handy : MoveObj(o, p)
  BY <1>2, MoveObjInv
<1>3. CASE \E o \in Obj, b \in Boxes : PutInBox(o, b)
  BY <1>3, PutInBoxInv
<1>4. CASE \E b \in Boxes, p \in Handy : BreakBox(b, p)
  BY <1>4, BreakBoxInv
<1>5. CASE \E o \in Obj : TakeOut(o) \/ Bury(o) \/ Unearth(o) \/ DestroyObj(o)
                         \/ StopTimers(o)
  BY <1>5, TakeOutInv, BuryInv, UnearthInv, DestroyObjInv, StopTimersInv
<1>6. CASE \E o, o2 \in Obj : SplitObj(o, o2) \/ ReallocObj(o, o2) \/ PolyObj(o, o2)
  BY <1>6, SplitObjInv, ReallocObjInv, PolyObjInv
<1>7. CASE \E o \in Obj, l \in Level : MigrateObj(o, l)
  BY <1>7, MigrateObjInv
<1> QED
  BY <1>1, <1>2, <1>3, <1>4, <1>5, <1>6, <1>7 DEF HandleObj

-----------------------------------------------------------------------------
(* The callbacks of run_timers.                                            *)

(* run_timers pops the head of a list that is not empty.                   *)
LEMMA PoppedOK ==
  ASSUME IInv, NEW f, NEW a, Fires(f, a)
  PROVE  Popped \in Queue
BY InvUnfolded, TailQueue DEF Fires, Due, Popped

(* It decrements a count.                                                  *)
LEMMA UncountedOK ==
  ASSUME IInv, NEW o \in Obj
  PROVE  Uncounted(o) \in [Obj -> Int]
BY InvUnfolded DEF Uncounted

(* makemon keeps the type of the monsters.                                 *)
LEMMA MakemonOK ==
  ASSUME IInv, makemon \/ UNCHANGED mplace
  PROVE  MonstersOK'
BY InvUnfolded, Places DEF makemon, MonstersOK

(* What the callbacks do with the object whose timer has gone off.         *)
LEMMA OutcomesOK ==
  ASSUME IInv, NEW f, NEW o \in Obj, Fires(f, o)
  PROVE  /\ RotInstead(o) /\ (Fewer(o) \/ OneMore(o) \/ UNCHANGED many) => ObjectsOK'
         /\ TimerSpent(o) /\ (Fewer(o) \/ UNCHANGED many) => ObjectsOK'
         /\ obfree({o}, place, Popped, Uncounted(o)) /\ quan_kept => ObjectsOK'
         /\ RotOfTheFreed(o) => ObjectsOK'
<1>1. Popped \in Queue /\ Uncounted(o) \in [Obj -> Int]
  BY PoppedOK, UncountedOK
<1>2. Fewer(o) \/ OneMore(o) \/ UNCHANGED many => many' \in [Obj -> BOOLEAN]
  BY InvUnfolded DEF Fewer, OneMore
<1>3. RotInstead(o) => timer_base' \in Queue
  <2>1. "ROT_CORPSE" \in Funcs
    BY DEF Funcs, ObjFuncs, Decay
  <2> QED BY <1>1, <2>1, InvUnfolded, StartQueue DEF RotInstead
<1>4. RotInstead(o) /\ (Fewer(o) \/ OneMore(o) \/ UNCHANGED many) => ObjectsOK'
  BY <1>2, <1>3, InvUnfolded DEF RotInstead, ObjectsOK
<1>5. TimerSpent(o) /\ (Fewer(o) \/ UNCHANGED many) => ObjectsOK'
  BY <1>1, <1>2, InvUnfolded DEF TimerSpent, ObjectsOK
<1>6. ASSUME obfree({o}, place, Popped, Uncounted(o)), quan_kept PROVE ObjectsOK'
  <2>1. timer_base' \in Queue /\ timed' \in [Obj -> Int] /\ place' \in [Obj -> Place]
    BY <1>1, <1>6, InvUnfolded, ObfreeOK
  <2> QED BY <2>1, <1>6, QuanKept DEF ObjectsOK
<1>7. ASSUME RotOfTheFreed(o) PROVE ObjectsOK'
  <2>1. "ROT_CORPSE" \in Funcs
    BY DEF Funcs, ObjFuncs, Decay
  <2>2. timer_base' \in Queue
    BY <1>1, <1>7, <2>1, InvUnfolded, StopAllQueue, StartQueue DEF RotOfTheFreed
  <2>3. place' \in [Obj -> Place]
    BY <1>7, InvUnfolded, Places DEF RotOfTheFreed
  <2> QED BY <1>7, <2>2, <2>3, InvUnfolded DEF RotOfTheFreed, ObjectsOK
<1> QED
  BY <1>4, <1>5, <1>6, <1>7

(* rot_corpse, revive_mon and moldy_corpse keep IInv.                      *)
LEMMA CorpseCallbacksInv ==
  ASSUME IInv, NEW o \in Obj, rot_corpse(o) \/ revive_mon(o) \/ moldy_corpse(o)
  PROVE  IInv'
<1>1. CASE rot_corpse(o)
  <2>1. ObjectsOK'
    BY <1>1, OutcomesOK DEF rot_corpse
  <2> QED BY <1>1, <2>1, OnlyObjects DEF rot_corpse
<1>2. CASE revive_mon(o)
  <2>1. ObjectsOK'
    BY <1>2, OutcomesOK DEF revive_mon, LastGone
  <2>2. MonstersOK'
    BY <1>2, MakemonOK DEF revive_mon
  <2> QED BY <1>2, <2>1, <2>2, ObjectsAndMonsters DEF revive_mon
<1>3. CASE moldy_corpse(o)
  <2>1. ObjectsOK'
    BY <1>3, OutcomesOK DEF moldy_corpse, LastGone
  <2>2. MonstersOK'
    BY <1>3, MakemonOK DEF moldy_corpse
  <2> QED BY <1>3, <2>1, <2>2, ObjectsAndMonsters DEF moldy_corpse
<1> QED
  BY <1>1, <1>2, <1>3

(* hatch_egg keeps IInv.                                                   *)
LEMMA HatchEggInv ==
  ASSUME IInv, NEW o \in Obj, hatch_egg(o)
  PROVE  IInv'
<1>1. ASSUME NEW d \in Delays, Fewer(o), timer_base' = start_timer(Popped, d, "HATCH_EGG", o),
             UNCHANGED <<timed, place>>
      PROVE  ObjectsOK'
  <2>1. "HATCH_EGG" \in Funcs /\ Popped \in Queue
    BY PoppedOK DEF hatch_egg, Funcs, ObjFuncs
  <2>2. timer_base' \in Queue
    BY <1>1, <2>1, InvUnfolded, StartQueue
  <2> QED BY <1>1, <2>2, InvUnfolded DEF ObjectsOK, Fewer
<1>2. ObjectsOK'
  BY <1>1, OutcomesOK DEF hatch_egg
<1>3. MonstersOK'
  BY MakemonOK DEF hatch_egg
<1> QED
  BY <1>2, <1>3, ObjectsAndMonsters DEF hatch_egg

(* rot_organic keeps IInv.                                                 *)
LEMMA RotOrganicInv ==
  ASSUME IInv, NEW o \in Obj, rot_organic(o)
  PROVE  IInv'
<1> DEFINE pl == [x \in Obj |-> IF place[x] = In(o) THEN Buried(uz) ELSE place[x]]
<1>1. pl \in [Obj -> Place]
  BY InvUnfolded, Places
<1>2. Popped \in Queue /\ Uncounted(o) \in [Obj -> Int]
  BY PoppedOK, UncountedOK DEF rot_organic
<1>3. obfree({o}, pl, Popped, Uncounted(o))
  BY DEF rot_organic
<1> HIDE DEF pl
<1>4. ObjectsOK'
  <2>1. timer_base' \in Queue /\ timed' \in [Obj -> Int] /\ place' \in [Obj -> Place]
    BY <1>1, <1>2, <1>3, ObfreeOK
  <2> QED BY <2>1, QuanKept DEF rot_organic, ObjectsOK
<1>5. todo' \in Seq(Timer)
  <2>1. PICK S \in SUBSET (Contents(o) \cap Organic) : \E s \in SetToSeqs(S), d \in Delays :
               todo' = [i \in DOMAIN s |-> Expiring(d, "ROT_ORGANIC", s[i])]
    BY DEF rot_organic
  <2>2. S \in SUBSET Obj
    BY DEF Contents
  <2> QED BY <2>1, <2>2, InvUnfolded, SpillOK
<1> QED
  BY <1>4, <1>5 DEF rot_organic, unchangedWorld, IInv, ClockOK, MonstersOK, FilesOK, LoopOK

(* unpoly_mon keeps IInv.                                                  *)
LEMMA UnpolyMonInv ==
  ASSUME IInv, NEW m \in Mon, unpoly_mon(m)
  PROVE  IInv'
<1> DEFINE q == remove_timer(Popped, "UNPOLY_MON", m)
<1>1. q \in Queue
  BY PoppedOK, RemoveQueue DEF unpoly_mon
<1>2. \/ timer_base' = q /\ UNCHANGED <<place, mplace>>
      \/ m_detach(m, q)
  BY DEF unpoly_mon
<1> HIDE DEF q
<1>3. ObjectsOK' /\ MonstersOK'
  BY <1>1, <1>2, InvUnfolded, DetachOK DEF unpoly_mon, ObjectsOK, MonstersOK
<1> QED
  BY <1>3, ObjectsAndMonsters DEF unpoly_mon

(* unpoly_obj keeps IInv.                                                  *)
LEMMA UnpolyObjInv ==
  ASSUME IInv, NEW o \in Obj, unpoly_obj(o)
  PROVE  IInv'
<1> DEFINE q  == remove_timer(Popped, "UNPOLY_OBJ", o)
           tm == Less(Uncounted(o), Popped, "UNPOLY_OBJ", o)
<1>1. q \in Queue /\ tm \in [Obj -> Int]
  <2>1. Popped \in Queue /\ Uncounted(o) \in [Obj -> Int]
    BY PoppedOK, UncountedOK DEF unpoly_obj
  <2> QED BY <2>1, RemoveQueue, LessTimed
<1>2. \/ \E o2 \in Obj \ Bodies : \E r \in mksobj(q, o2, FALSE) :
           /\ obfree({o}, [place EXCEPT ![o2] = replace_object(place[o])],
                     r[1], [tm EXCEPT ![o2] = r[2]])
           /\ quan_poly(o, o2)
      \/ obfree({o}, place, q, tm) /\ quan_kept
  BY DEF unpoly_obj
<1> HIDE DEF q, tm
<1>3. CASE obfree({o}, place, q, tm) /\ quan_kept
  BY <1>1, <1>3, InvUnfolded, ObfreeOK, QuanKept, OnlyObjects DEF unpoly_obj, ObjectsOK
<1>4. ASSUME NEW o2 \in Obj, NEW r \in mksobj(q, o2, FALSE), quan_poly(o, o2),
             obfree({o}, [place EXCEPT ![o2] = replace_object(place[o])],
                    r[1], [tm EXCEPT ![o2] = r[2]])
      PROVE  IInv'
  <2>1. r[1] \in Queue /\ r[2] \in Int
    BY <1>1, InvUnfolded, MksobjQueue
  <2>2. [place EXCEPT ![o2] = replace_object(place[o])] \in [Obj -> Place]
    BY InvUnfolded, Places DEF replace_object
  <2>3. [tm EXCEPT ![o2] = r[2]] \in [Obj -> Int]
    BY <1>1, <2>1
  <2>4. timer_base' \in Queue /\ timed' \in [Obj -> Int] /\ place' \in [Obj -> Place]
    BY <1>4, <2>1, <2>2, <2>3, ObfreeOK
  <2>5. many' \in [Obj -> BOOLEAN]
    BY <1>4, InvUnfolded DEF quan_poly
  <2> QED BY <2>4, <2>5, OnlyObjects DEF unpoly_obj, ObjectsOK
<1> QED
  BY <1>2, <1>3, <1>4

(* run_timers, with any callback, keeps IInv.                              *)
LEMMA RunTimersInv ==
  ASSUME IInv, run_timers
  PROVE  IInv'
<1>1. ASSUME NEW o \in Obj, rot_corpse(o) \/ rot_organic(o) \/ revive_mon(o)
                              \/ moldy_corpse(o) \/ hatch_egg(o) \/ unpoly_obj(o)
      PROVE  IInv'
  BY <1>1, CorpseCallbacksInv, RotOrganicInv, HatchEggInv, UnpolyObjInv
<1>2. ASSUME NEW m \in Mon, unpoly_mon(m) PROVE IInv'
  BY <1>2, UnpolyMonInv
<1>3. CASE EndRunTimers
  BY <1>3 DEF EndRunTimers, Phases, IInv, ObjectsOK, ClockOK, MonstersOK, FilesOK, LoopOK
<1> QED
  BY <1>1, <1>2, <1>3 DEF run_timers

-----------------------------------------------------------------------------
(* The loops, the turn, and the changes of level.                          *)

(* Every step of a loop keeps IInv.                                        *)
LEMMA LoopsInv ==
  ASSUME IInv, Loops
  PROVE  IInv'
<1>1. ASSUME todo # <<>>
      PROVE  Head(todo) \in Timer /\ Tail(todo) \in Seq(Timer)
                /\ insert_timer(timer_base, Head(todo)) \in Queue
  <2>1. todo \in Seq(Timer)
    BY DEF IInv, LoopOK
  <2>2. Head(todo) \in Timer /\ Tail(todo) \in Seq(Timer)
    BY <1>1, <2>1, HeadTailProperties
  <2> QED BY <2>2, InvUnfolded, InsertQueue
<1>2. CASE StartNext
  <2>1. timed' \in [Obj -> Int]
    <3> DEFINE a == Head(todo).arg
    <3>1. timed' = [timed EXCEPT ![a] = timed[a] + 1]
      BY <1>2 DEF StartNext
    <3> HIDE DEF a
    <3>2. \A o \in Obj : timed'[o] = timed[o] \/ timed'[o] = timed[o] + 1
      BY <3>1, InvUnfolded
    <3>3. timed \in [Obj -> Int]
      BY InvUnfolded
    <3>4. \A o \in Obj : timed'[o] \in Int
      BY <3>2, <3>3
    <3>5. timed' = [o \in Obj |-> timed'[o]]
      BY <3>1, <3>3
    <3> QED BY <3>4, <3>5
  <2>2. ObjectsOK'
    BY <1>1, <1>2, <2>1, InvUnfolded DEF StartNext, ObjectsOK
  <2> QED
    BY <1>1, <1>2, <2>2 DEF StartNext, unchangedWorld, IInv, ClockOK, MonstersOK, FilesOK, LoopOK
<1>3. CASE restore_timers
  <2>1. ObjectsOK'
    BY <1>1, <1>3, InvUnfolded DEF restore_timers, ObjectsOK
  <2> QED
    BY <1>1, <1>3, <2>1
       DEF restore_timers, unchangedWorld, IInv, ClockOK, MonstersOK, FilesOK, LoopOK
<1>4. CASE losedogs
  <2>1. MonstersOK'
    BY <1>4, InvUnfolded, Places DEF losedogs, MonstersOK
  <2> QED BY <1>4, <2>1 DEF losedogs, Phases, IInv, ObjectsOK, ClockOK, FilesOK, LoopOK
<1>5. CASE BackToPlay
  BY <1>5 DEF BackToPlay, Phases, IInv, ObjectsOK, ClockOK, MonstersOK, FilesOK, LoopOK
<1>6. ASSUME NEW o \in Obj, obj_delivery(o) PROVE IInv'
  <2>1. CASE obfree({o}, place, timer_base, timed) /\ quan_kept
    BY <1>6, <2>1, InvUnfolded, ObfreeOK, QuanKept, OnlyObjects DEF obj_delivery, ObjectsOK
  <2>2. CASE \E q \in obj_timer_checks(timer_base, o) \cup {timer_base} :
               Settle(o, many[o], Floor(uz), q, timed)
    <3>1. PICK q \in obj_timer_checks(timer_base, o) \cup {timer_base} :
                 Settle(o, many[o], Floor(uz), q, timed)
      BY <2>2
    <3>2. q \in Queue
      BY InvUnfolded, ChecksQueue
    <3>3. Floor(uz) \in Place /\ many[o] \in BOOLEAN
      BY InvUnfolded, Places
    <3>4. ObjectsOK'
      BY <3>1, <3>2, <3>3, InvUnfolded, SettleOK
    <3> QED BY <1>6, <3>4, OnlyObjects DEF obj_delivery
  <2> QED BY <1>6, <2>1, <2>2 DEF obj_delivery
<1>7. ASSUME NEW m \in Mon, NEW o \in Obj, relobj(m, o) PROVE IInv'
  <2>1. PICK q \in obj_timer_checks(timer_base, o) \cup {timer_base} :
               Settle(o, many[o], Floor(uz), q, timed)
    BY <1>7 DEF relobj
  <2>2. q \in Queue
    BY InvUnfolded, ChecksQueue
  <2>3. Floor(uz) \in Place /\ many[o] \in BOOLEAN
    BY InvUnfolded, Places
  <2>4. ObjectsOK'
    BY <2>1, <2>2, <2>3, InvUnfolded, SettleOK
  <2>5. MonstersOK'
    BY <1>7, InvUnfolded, Places DEF relobj, MonstersOK
  <2> QED BY <1>7, <2>4, <2>5, ObjectsAndMonsters DEF relobj
<1> QED
  BY <1>2, <1>3, <1>4, <1>5, <1>6, <1>7 DEF Loops

(* save_timers splits the list in two lists of timers.                     *)
LEMMA SplitQueue ==
  ASSUME IInv, NEW dogs
  PROVE  /\ Keep(timer_base, LocalTimers(dogs)) \in Queue
         /\ Keep(timer_base, DOMAIN timer_base \ LocalTimers(dogs)) \in Queue
<1> DEFINE S == LocalTimers(dogs)
           R == DOMAIN timer_base \ S
<1>1. S \in SUBSET DOMAIN timer_base /\ R \in SUBSET DOMAIN timer_base
  BY DEF LocalTimers
<1> HIDE DEF S, R
<1>2. Keep(timer_base, S) \in Queue /\ Keep(timer_base, R) \in Queue
  BY <1>1, InvUnfolded, KeepQueue
<1> QED
  BY <1>2 DEF S, R

(* What changes levels, saves and restores keep IInv.                      *)
LEMMA LevelsInv ==
  ASSUME IInv, ChangeLevel \/ dosave0 \/ dorecover \/ NewTurn
  PROVE  IInv'
<1>1. ASSUME NEW l \in Level, NEW dogs \in SUBSET Mon, GotoLevel(l, dogs) PROVE IInv'
  <2>1. timer_base' \in Queue /\ Keep(timer_base, LocalTimers(dogs)) \in Seq(Timer)
    BY <1>1, SplitQueue DEF GotoLevel, Queue
  <2>2. FilesOK'
    BY <1>1, <2>1 DEF GotoLevel, FilesOK, IInv
  <2>3. MonstersOK'
    BY <1>1, InvUnfolded, Places DEF GotoLevel, MonstersOK
  <2>4. LoopOK'
    BY <1>1 DEF GotoLevel, LoopOK, FilesOK, IInv, Phases
  <2>5. ObjectsOK' /\ ClockOK'
    BY <1>1, <2>1 DEF GotoLevel, ObjectsOK, ClockOK, IInv
  <2> QED BY <2>2, <2>3, <2>4, <2>5 DEF IInv
<1>2. CASE dosave0
  <2>1. /\ Keep(timer_base, LocalTimers({})) \in Seq(Timer)
        /\ Keep(timer_base, DOMAIN timer_base \ LocalTimers({})) \in Seq(Timer)
    BY SplitQueue DEF Queue
  <2>2. FilesOK'
    BY <1>2, <2>1 DEF dosave0, FilesOK, IInv
  <2>3. ObjectsOK' /\ ClockOK' /\ MonstersOK' /\ LoopOK'
    BY <1>2, EmptyQueue DEF dosave0, ObjectsOK, ClockOK, MonstersOK, LoopOK, Phases, IInv
  <2> QED BY <2>2, <2>3 DEF IInv
<1>3. CASE dorecover
  <2>1. gsave \in Seq(Timer) /\ file[uz] \in Seq(Timer)
    BY DEF IInv, FilesOK
  <2>2. gsave \o file[uz] \in Seq(Timer)
    BY <2>1, ConcatProperties
  <2>3. FilesOK' /\ LoopOK'
    BY <1>3, <2>2 DEF dorecover, FilesOK, LoopOK, Phases, IInv
  <2> QED BY <1>3, <2>3 DEF dorecover, ObjectsOK, ClockOK, MonstersOK, IInv
<1>4. CASE NewTurn
  BY <1>4 DEF NewTurn, Phases, IInv, ObjectsOK, ClockOK, MonstersOK, FilesOK, LoopOK
<1> QED
  BY <1>1, <1>2, <1>3, <1>4 DEF ChangeLevel

-----------------------------------------------------------------------------
(* The theorems.                                                           *)

(* IInv holds to begin with.                                               *)
LEMMA InitInv == Init => IInv
<1> SUFFICES ASSUME Init PROVE IInv
  OBVIOUS
<1>1. ObjectsOK
  BY EmptyQueue, Places DEF Init, ObjectsOK
<1>2. MonstersOK
  BY Places DEF Init, MonstersOK
<1> QED
  BY <1>1, <1>2 DEF Init, IInv, ClockOK, FilesOK, LoopOK, Phases

(* Every step keeps IInv.                                                  *)
LEMMA NextInv == IInv /\ [Next]_vars => IInv'
<1> SUFFICES ASSUME IInv, [Next]_vars PROVE IInv'
  OBVIOUS
<1>1. CASE HandleObj
  BY <1>1, HandleObjInv
<1>2. CASE HandleMon
  BY <1>2, HandleMonInv
<1>3. CASE run_timers
  BY <1>3, RunTimersInv
<1>4. CASE Loops
  BY <1>4, LoopsInv
<1>5. CASE ChangeLevel \/ dosave0 \/ dorecover \/ NewTurn
  BY <1>5, LevelsInv
<1>6. CASE UNCHANGED vars
  BY <1>6 DEF vars, IInv, ObjectsOK, ClockOK, MonstersOK, FilesOK, LoopOK
<1> QED
  BY <1>1, <1>2, <1>3, <1>4, <1>5, <1>6 DEF Next

(* IInv holds in every reachable state: from it follow the theorems below.  *)
THEOREM Invariance == Spec => []IInv
<1> QED
  BY InitInv, NextInv, PTL DEF Spec

(* Every reachable state is of the right shape, for any objects, monsters  *)
(* and levels and whatever the delays: the timers in memory, in the level  *)
(* files and in the save file are of functions that timeout_funcs has.     *)
THEOREM TypeCorrect == Spec => []TypeOK
<1>1. IInv => TypeOK
  BY IInvMeaning
<1> QED
  BY <1>1, Invariance, PTL

(* The list that insert_timer keeps is always in order: whatever starts,   *)
(* stops, copies, moves, saves or restores timers leaves it so.            *)
THEOREM TimersSorted == Spec => []SortedTimers
<1>1. IInv => SortedTimers
  BY IInvMeaning
<1> QED
  BY <1>1, Invariance, PTL

(* In an ordered list whose head is not due nothing is due.                *)
LEMMA NothingDue ==
  ASSUME IInv, ~Due, phase \in {"run", "arrive"}, Idle,
         NEW i \in DOMAIN timer_base
  PROVE  timer_base[i].timeout > monstermoves
<1>1. timer_base \in Seq(Timer) /\ Ordered(timer_base) /\ timer_base # <<>>
  BY InvUnfolded DEF Queue
<1>2. i \in 1 .. Len(timer_base) /\ 1 \in 1 .. Len(timer_base) /\ 1 \in DOMAIN timer_base
  BY <1>1
<1>3. timer_base[1].timeout \in Int /\ timer_base[i].timeout \in Int
  <2>1. timer_base[1] \in Timer /\ timer_base[i] \in Timer
    BY <1>1, <1>2, ElementOfSeq
  <2> QED BY <2>1 DEF Timer
<1>4. timer_base[1].timeout > monstermoves
  BY <1>1, <1>3 DEF Due, IInv, ClockOK
<1>5. timer_base[1].timeout <= timer_base[i].timeout
  BY <1>1, <1>2, <1>3 DEF Ordered
<1> QED
  BY <1>3, <1>4, <1>5 DEF IInv, ClockOK

(* run_timers looks at the head of the list only, and yet when it returns  *)
(* no timer anywhere in the list is due.                                   *)
THEOREM TimersDrained == Spec => RunTimersDrains
<1>1. ASSUME IInv, [Next]_vars, phase \in {"run", "arrive"}, phase' # phase
      PROVE  \A i \in DOMAIN timer_base : timer_base[i].timeout > monstermoves
  <2>1. phase # "play" /\ ~Playing
    BY <1>1 DEF Playing
  <2>2. EndRunTimers
    <3>1. ~HandleObj
      BY <2>1 DEF HandleObj, CreateObj, MoveObj, PutInBox, BreakBox, TakeOut, Bury, Unearth,
                  DestroyObj, StopTimers, SplitObj, ReallocObj, PolyObj, MigrateObj
    <3>2. ~HandleMon /\ ~NewTurn /\ ~ChangeLevel /\ ~dosave0 /\ ~dorecover
      BY <1>1, <2>1 DEF HandleMon, MakeMon, StopUnpoly, KillMon, PolyMon, MigrateMon, NewTurn, ChangeLevel,
                        GotoLevel, dosave0, dorecover
    <3>3. ~Loops
      BY <1>1 DEF Loops, StartNext, restore_timers, losedogs, BackToPlay, obj_delivery,
                  relobj, unchangedLoop
    <3>4. run_timers
      BY <1>1, <3>1, <3>2, <3>3 DEF Next, vars
    <3> QED BY <1>1, <3>4 DEF run_timers, rot_corpse, rot_organic, revive_mon, moldy_corpse,
                              hatch_egg, unpoly_obj, unpoly_mon, unchangedLoop
  <2> QED BY <1>1, <2>2, NothingDue DEF EndRunTimers
<1>2. IInv /\ [Next]_vars
        => [(phase \in {"run", "arrive"} /\ phase' # phase
               => \A i \in DOMAIN timer_base : timer_base[i].timeout > monstermoves)]_vars
  BY <1>1
<1> QED
  BY <1>2, Invariance, PTL DEF Spec, RunTimersDrains

=============================================================================
