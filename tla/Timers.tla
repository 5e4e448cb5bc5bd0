------------------------------- MODULE Timers -------------------------------
(***************************************************************************)
(* The timer package of timeout.c together with the objects and monsters   *)
(* that own the timers: corpses that rot, go moldy or revive, eggs that    *)
(* hatch, organic things that rot while buried, polymorphed objects and    *)
(* monsters that change back.  Owners are carried, dropped, buried, boxed, *)
(* split, merged, reallocated, destroyed, left behind on a level, sent     *)
(* ahead to one, and saved.                                                *)
(*                                                                         *)
(* An element of Obj is one struct obj, an element of Mon one struct       *)
(* monst.  What the code does in one call is one step, except that         *)
(* run_timers takes a step per callback and the loops that insert several  *)
(* timers a step per timer: `todo' is what such a loop has still to        *)
(* insert, `phase' where the program is.                                   *)
(***************************************************************************)
EXTENDS TimerQueue

CONSTANTS
  Revivers,    \* corpses that is_reviver() accepts: trolls, fungi, Riders
  Corpses,     \* the other corpses
  Eggs,        \* food but corpses; an egg is one that has a HATCH_EGG timer
  LargeBoxes,  \* organic tools, containers among them
  IceBoxes,
  Mon,
  Level,
  Delays,      \* the relative timeouts passed to start_timer
  Overdue,     \* those of a rot that is resumed when its time is over
  MaxMoves,    \* bound: the last turn
  Nobody       \* the `by' of a place that needs none

Obj    == Revivers \cup Corpses \cup Eggs \cup LargeBoxes \cup IceBoxes
Boxes  == LargeBoxes \cup IceBoxes
Bodies == Revivers \cup Corpses

ASSUME OwnersDistinct ==
  /\ Obj \cap Mon = {}
  /\ Bodies \cap (Eggs \cup Boxes) = {}
  /\ Revivers \cap Corpses = {} /\ Eggs \cap Boxes = {} /\ LargeBoxes \cap IceBoxes = {}
  /\ Nobody \notin Obj \cup Mon \cup Level /\ (Obj \cup Mon) \cap Level = {}

ASSUME ObjectsFinite == IsFiniteSet(Obj)

ASSUME BoundsAreNaturals == Delays \subseteq Nat \ {0} /\ MaxMoves \in Nat

ASSUME OverdueAreNumbers == Overdue \subseteq Int

VARIABLES
  monstermoves,  \* the turn counter
  timer_base,    \* the active timers, sooner first
  timed,         \* obj->timed: how many timers an object has
  many,          \* whether obj->quan > 1
  place,         \* obj->where with ocarry, ocontainer or the level
  mplace,        \* which chain a monster is on, with its level
  uz,            \* the hero's level
  file,          \* the timers in each level file
  gsave,         \* the RANGE_GLOBAL timers in the save file
  todo,          \* timers the running loop has still to insert
  phase          \* "play"; "run": in run_timers, for the turn or a restore;
                 \* "getlev", "arrive", "near": goto_level reads the level,
                 \* is in run_timers, delivers what came with the hero;
                 \* "saved"; "restore": dorecover reads the save file

vars == <<monstermoves, timer_base, timed, many, place, mplace, uz, file, gsave, todo, phase>>

Decay == {"ROT_CORPSE", "MOLDY_CORPSE", "REVIVE_MON"}
ObjFuncs == Decay \cup {"ROT_ORGANIC", "HATCH_EGG", "UNPOLY_OBJ"}
Funcs == ObjFuncs \cup {"UNPOLY_MON"}

Timer == [timeout : Int, func : Funcs, arg : Obj \cup Mon]

Phases == {"play", "run", "getlev", "arrive", "near", "saved", "restore"}

-----------------------------------------------------------------------------
(* Where things are.                                                       *)

At(where, who) == [at |-> where, by |-> who]

Place == [at : {"free", "invent", "floor", "buried", "minvent",
                "contained", "migrating", "trailing"},
          by : {Nobody} \cup Level \cup Mon \cup Boxes]

MonPlace == [at : {"free", "level", "dying", "migrating"}, by : {Nobody} \cup Level]

Gone      == At("free", Nobody)          \* OBJ_FREE, a dead monster: not allocated
Invent    == At("invent", Nobody)
Floor(l)  == At("floor", l)
Buried(l) == At("buried", l)
Minvent(m) == At("minvent", m)
In(b)     == At("contained", b)
Bound(l)  == At("migrating", l)          \* on migrating_objs or migrating_mons
Trailing(l) == At("trailing", l)         \* the same, sent MIGR_NEAR_PLAYER
OnLevel(l) == At("level", l)             \* on the fmon chain of that level
Dying(l)   == At("dying", l)             \* m_detach is dropping what it carries

Contents(b) == {o \in Obj : place[o] = In(b)}

Outermost(o) == IF place[o].at = "contained" THEN place[o].by ELSE o

(* Mutant: mydogs is forgotten, a pet's timers stay on the level it left.  *)
mon_is_local_no_dogs(m, dogs) == mplace[m].at = "level"

(* mon_is_local: true unless on migrating_mons, or on mydogs (dogs) while  *)
(* the hero is changing levels.                                            *)
mon_is_local(m, dogs) == mplace[m].at = "level" /\ m \notin dogs

(* obj_is_local, with the recursion through the container unfolded once:   *)
(* boxes do not hold boxes here.                                           *)
obj_is_local(o, dogs) ==
  LET p == place[Outermost(o)] IN
  \/ p.at \in {"floor", "buried"}
  \/ p.at = "minvent" /\ mon_is_local(p.by, dogs)

timer_is_local(t, dogs) ==
  IF t.arg \in Mon THEN mon_is_local(t.arg, dogs) ELSE obj_is_local(t.arg, dogs)

LocalTimers(dogs) == {i \in DOMAIN timer_base : timer_is_local(timer_base[i], dogs)}

(* Where the hero or a monster on this level can handle an object.         *)
Handy == {Invent, Floor(uz)} \cup {Minvent(m) : m \in {n \in Mon : mplace[n] = OnLevel(uz)}}

-----------------------------------------------------------------------------
(* start_timer, stop_timer and dealloc_obj on the queue and the counts.    *)

Expiring(d, f, a) == [timeout |-> monstermoves + d, func |-> f, arg |-> a]

start_timer(q, d, f, a) == insert_timer(q, Expiring(d, f, a))

(* Mutant: the count is decremented whether or not the timer was found.    *)
Less_always(tm, q, f, o) == [tm EXCEPT ![o] = @ - 1]

(* stop_timer decrements the count only if it found the timer.             *)
Less(tm, q, f, o) == IF Matches(q, f, o) = {} THEN tm ELSE [tm EXCEPT ![o] = @ - 1]

(* obfree of the objects S, contents included: dealloc_obj stops all their *)
(* timers.  pl, q and tm are the places, queue and counts it starts from.  *)

Freed(S, pl) == S \cup {o \in Obj : \E b \in S : pl[o] = In(b)}

obfree(S, pl, q, tm) ==
  /\ place' = [o \in Obj |-> IF o \in Freed(S, pl) THEN Gone ELSE pl[o]]
  /\ timer_base' = Keep(q, {i \in DOMAIN q : q[i].arg \notin Freed(S, pl)})
  /\ timed' = [o \in Obj |-> IF o \in Freed(S, pl) THEN 0 ELSE tm[o]]

(* The stacks keep their size, but for what is freed.                      *)
quan_kept == many' = [o \in Obj |-> many[o] /\ place'[o] # Gone]

(* m_detach: stop the monster's timers; relobj then drops what it carries. *)
m_detach(m, q) ==
  /\ timer_base' = stop_all(q, m)
  /\ mplace' = [mplace EXCEPT ![m] = IF \E o \in Obj : place[o] = Minvent(m) THEN Dying(uz) ELSE Gone]
  /\ UNCHANGED place

(* Mutant: `action' has no default, a body that stays dead has any value.  *)
DecayOf_unset(o) == IF o \in Revivers THEN Decay ELSE {"unset"}

(* The decay timers start_corpse_timeout may choose for a body; a lizard   *)
(* or a lichen (any of Corpses) gets none.                                 *)
DecayOf(o) == IF o \in Revivers THEN Decay ELSE Decay \ {"REVIVE_MON"}

(* The rot of an old corpse may be due, or overdue, when it is started:    *)
(* start_corpse_timeout adds rnz(10) - 10 to what is left, which may be 0, *)
(* and revive_mon and moldy_corpse take the age from 250 whatever it is.   *)
LateDelays == Delays \cup Overdue

(* What start_corpse_timeout can do: the queues it leaves behind, each     *)
(* with whether it started a timer.                                        *)
start_corpse_timeout(q, o, delays) ==
  {<<start_timer(q, d, f, o), 1>> : d \in delays, f \in DecayOf(o)}
    \cup {<<q, 0>> : c \in {o} \cap Corpses}

(* The timers mksobj starts, the same way.  Only with `init' does an egg   *)
(* get attach_egg_hatch_timeout, which may decide that it never hatches.   *)
mksobj(q, o, init) ==
  IF o \in Bodies THEN start_corpse_timeout(q, o, Delays)
  ELSE {<<q, 0>>}
       \cup {<<start_timer(q, d, "HATCH_EGG", o), 1>> : d \in Delays, c \in {o} \cap (IF init THEN Eggs ELSE {})}

(* The decay timer obj_timer_checks finds first.                           *)
RunningDecay(q, o) ==
  CASE Matches(q, "ROT_CORPSE", o) # {}   -> {"ROT_CORPSE"}
    [] Matches(q, "MOLDY_CORPSE", o) # {} -> {"MOLDY_CORPSE"}
    [] Matches(q, "REVIVE_MON", o) # {}   -> {"REVIVE_MON"}
    [] OTHER -> {}

(* obj_timer_checks: a corpse put on ice, or taken off it, has its decay   *)
(* stopped and started again with twice, or half, the time left.           *)
obj_timer_checks(q, o) ==
  {q} \cup {start_timer(remove_timer(q, f, o), d, f, o) :
              d \in LateDelays, f \in (IF o \in Bodies THEN RunningDecay(q, o) ELSE {})}

Hazy(q, o) == Matches(q, "UNPOLY_OBJ", o) # {}

SameType(o, o2) ==
  \E T \in {Revivers, Corpses, Eggs, LargeBoxes, IceBoxes} : {o, o2} \subseteq T

(* mergable, as far as timers decide it: no timed eggs, no timed revivers, *)
(* and oldtyp must agree.                                                  *)
mergable(o, o2, q, tm) ==
  /\ o # o2 /\ SameType(o, o2) /\ o \notin Boxes
  /\ o \in Eggs \cup Revivers => tm[o] = 0 /\ tm[o2] = 0
  /\ Hazy(q, o) <=> Hazy(q, o2)

(* Mutant: the timers of a merged object go on, for the stack.             *)
Settle_merges_timers(o, n, p, q, tm) ==
  \/ /\ place' = [place EXCEPT ![o] = p]
     /\ timer_base' = q /\ timed' = tm
     /\ many' = [many EXCEPT ![o] = n]
  \/ \E o2 \in Obj : /\ place[o2] = p /\ mergable(o, o2, q, tm)
                     /\ place' = [place EXCEPT ![o] = Gone]
                     /\ timer_base' = move_timers(q, o, o2)
                     /\ timed' = [tm EXCEPT ![o2] = @ + tm[o], ![o] = 0]
                     /\ many' = [many EXCEPT ![o] = FALSE, ![o2] = TRUE]

(* o, a stack if n, comes to p, where add_to_container, addinv,            *)
(* add_to_minv or stackobj may merge it into a stack: merged() frees o     *)
(* with its timers, those of the stack are the ones that count.            *)
Settle(o, n, p, q, tm) ==
  \/ /\ place' = [place EXCEPT ![o] = p]
     /\ timer_base' = q /\ timed' = tm
     /\ many' = [many EXCEPT ![o] = n]
  \/ \E o2 \in Obj : /\ place[o2] = p /\ mergable(o, o2, q, tm)
                     /\ obfree({o}, place, q, tm)
                     /\ many' = [many EXCEPT ![o] = FALSE, ![o2] = TRUE]

unchangedWorld == UNCHANGED <<monstermoves, uz, file, gsave>>
unchangedLoop  == UNCHANGED <<todo, phase>>

(* No loop that starts timers or drops objects is under way.               *)
Idle == todo = <<>> /\ \A m \in Mon : mplace[m].at # "dying"

Playing == phase = "play" /\ Idle

-----------------------------------------------------------------------------
(* The hero and the monsters act.                                          *)

(* mksobj_at and friends.                                                  *)
CreateObj(o, p) ==
  /\ Playing /\ place[o] = Gone /\ p \in {Invent, Floor(uz)}
  /\ \E r \in mksobj(timer_base, o, TRUE), n \in BOOLEAN :
       /\ o \in Boxes => ~n
       /\ Settle(o, n, p, r[1], [timed EXCEPT ![o] = r[2]])
  /\ UNCHANGED mplace /\ unchangedWorld /\ unchangedLoop

(* Picking up, dropping, stealing: extraction and insertion in a chain.    *)
(* remove_object and place_object look for ice.                            *)
MoveObj(o, p) ==
  /\ Playing /\ place[o] \in Handy /\ p \in Handy \ {place[o]}
  /\ \E q \in IF Floor(uz) \in {place[o], p} /\ timed[o] > 0
              THEN obj_timer_checks(timer_base, o) ELSE {timer_base} :
       Settle(o, many[o], p, q, timed)
  /\ UNCHANGED mplace /\ unchangedWorld /\ unchangedLoop

(* in_container: a corpse put in an ice box has its decay stopped.         *)
PutInBox(o, b) ==
  LET q1 == remove_timer(timer_base, "ROT_CORPSE", o)
      q2 == remove_timer(q1, "MOLDY_CORPSE", o)
      t1 == Less(timed, timer_base, "ROT_CORPSE", o)
      t2 == Less(t1, q1, "MOLDY_CORPSE", o)
  IN
  /\ Playing /\ place[o] = Invent /\ o \notin Boxes
  /\ b \in Boxes /\ place[b] \in {Invent, Floor(uz)}
  /\ IF b \in IceBoxes /\ o \in Bodies /\ timed[o] > 0
     THEN Settle(o, many[o], In(b), remove_timer(q2, "REVIVE_MON", o), Less(t2, q2, "REVIVE_MON", o))
     ELSE Settle(o, many[o], In(b), timer_base, timed)
  /\ UNCHANGED mplace /\ unchangedWorld /\ unchangedLoop

(* out_container: decay resumes when a corpse leaves an ice box.           *)
TakeOut(o) ==
  LET b == place[o].by IN
  /\ Playing /\ place[o].at = "contained" /\ place[b] \in {Invent, Floor(uz)}
  /\ \E r \in IF b \in IceBoxes /\ o \in Bodies
              THEN start_corpse_timeout(timer_base, o, LateDelays) ELSE {<<timer_base, 0>>} :
       Settle(o, many[o], Invent, r[1], [timed EXCEPT ![o] = @ + r[2]])
  /\ UNCHANGED mplace /\ unchangedWorld /\ unchangedLoop

(* The timers that start when the bodies S leave an ice box together.      *)
ThawTimers(S) ==
  {[i \in DOMAIN s |-> Expiring(d, f[s[i]], s[i])] :
     s \in SetToSeqs(S), d \in LateDelays,
     f \in {g \in [S -> Decay] : \A o \in S : g[o] \in DecayOf(o)}}

(* forcelock with a blunt weapon, a gelatinous cube that eats a box: the   *)
(* contents come out (those not in `out' shatter, or merge into one of the *)
(* stacks `onto' that are there), decay resumes if it was an ice box, and  *)
(* the box goes.                                                           *)
BreakBox(b, p) ==
  /\ Playing /\ b \in Boxes /\ place[b] = Floor(uz) /\ p \in Handy \ {Invent}
  /\ \E out \in SUBSET Contents(b) :
       /\ obfree({b}, [o \in Obj |-> IF o \in out THEN p ELSE place[o]], timer_base, timed)
       /\ \E onto \in SUBSET {o \in Obj \ Boxes : place[o] = p /\ \E c \in Contents(b) \ out : SameType(o, c)} :
            many' = [o \in Obj |-> (many[o] \/ o \in onto) /\ place'[o] # Gone]
       /\ IF b \in LargeBoxes THEN todo' = <<>>
          ELSE \E S \in SUBSET (out \cap Bodies) :
                 /\ out \cap Revivers \subseteq S
                 /\ todo' \in ThawTimers(S)
  /\ UNCHANGED <<mplace, phase>> /\ unchangedWorld

Organic == Eggs \cup LargeBoxes    \* is_organic, corpses apart

(* bury_an_obj: rot starts on organic things unless obj_resists() lets     *)
(* them off; corpses keep their own timer.                                 *)
Bury(o) ==
  /\ Playing /\ place[o] = Floor(uz)
  /\ place' = [place EXCEPT ![o] = Buried(uz)]
  /\ \/ /\ o \in Organic
        /\ \E d \in Delays : timer_base' = start_timer(timer_base, d, "ROT_ORGANIC", o)
        /\ timed' = [timed EXCEPT ![o] = @ + 1]
     \/ /\ timer_base' \in obj_timer_checks(timer_base, o)
        /\ UNCHANGED timed
  /\ UNCHANGED <<many, mplace>> /\ unchangedWorld /\ unchangedLoop

(* Mutant: what is dug up keeps its rot.                                   *)
Unearth_rots(o) ==
  /\ Playing /\ place[o] = Buried(uz)
  /\ \E q \in obj_timer_checks(timer_base, o) : Settle(o, many[o], Floor(uz), q, timed)
  /\ UNCHANGED mplace /\ unchangedWorld /\ unchangedLoop

(* unearth_objs: if the object is timed, stop ROT_ORGANIC.                 *)
Unearth(o) ==
  LET q == remove_timer(timer_base, "ROT_ORGANIC", o) IN
  /\ Playing /\ place[o] = Buried(uz)
  /\ IF timed[o] > 0
     THEN \E q2 \in obj_timer_checks(q, o) :
            Settle(o, many[o], Floor(uz), q2, Less(timed, timer_base, "ROT_ORGANIC", o))
     ELSE Settle(o, many[o], Floor(uz), timer_base, timed)
  /\ UNCHANGED mplace /\ unchangedWorld /\ unchangedLoop

(* splitobj: the new stack gets a copy of every timer of the old one, if   *)
(* obj->timed says there are any.                                          *)
SplitObj(o, o2) ==
  /\ Playing /\ SameType(o, o2) /\ many[o]
  /\ place[o] \in {Invent, Floor(uz)} /\ place[o2] = Gone
  /\ place' = [place EXCEPT ![o2] = place[o]]
  /\ \E n, n2 \in BOOLEAN : many' = [many EXCEPT ![o] = n, ![o2] = n2]
  /\ timed' = [timed EXCEPT ![o2] = 0]
  /\ todo' = IF timed[o] > 0 THEN copies(timer_base, o, o2) ELSE <<>>
  /\ UNCHANGED <<timer_base, mplace, phase>> /\ unchangedWorld

(* realloc_obj: o moves to a bigger allocation o2, contents and timers too.*)
ReallocObj(o, o2) ==
  /\ Playing /\ o # o2 /\ SameType(o, o2)
  /\ place[o] \in {Invent, Floor(uz)} /\ place[o2] = Gone
  /\ place' = [x \in Obj |-> CASE x = o2 -> place[o]
                               [] x = o  -> Gone
                               [] x \in Contents(o) -> In(o2)
                               [] OTHER  -> place[x]]
  /\ many' = [many EXCEPT ![o2] = many[o], ![o] = FALSE]
  /\ IF timed[o] > 0
     THEN /\ timer_base' = move_timers(timer_base, o, o2)
          /\ timed' = [timed EXCEPT ![o2] = Cardinality(OnArg(timer_base, o)), ![o] = 0]
     ELSE UNCHANGED <<timer_base, timed>>
  /\ UNCHANGED mplace /\ unchangedWorld /\ unchangedLoop

(* replace_object copies the coordinates for the floor only: a replaced    *)
(* object that was migrating has no destination level any more.            *)
replace_object(p) == IF p.at \in {"migrating", "trailing"} THEN Bound(Nobody) ELSE p

(* poly_obj "preserves the symbol": food becomes food, a tool a tool.      *)
SameClass(o, o2) == (o \in Boxes) <=> (o2 \in Boxes)

(* Whether set_obj_poly starts a timer on o2, which o became: not if o was *)
(* a corpse, and otherwise if o2 is not of the type o was made from (its   *)
(* oldtyp if it is hazy already).  Foods and tools have many types.        *)
set_obj_poly(o, o2) ==
  LET old == Hazy(timer_base, o) IN
  {h \in BOOLEAN :
     /\ o \in Bodies => ~h
     /\ {o, o2} \subseteq IceBoxes => (h <=> old)
     /\ ~old /\ o \in Boxes /\ ~SameType(o, o2) => h}

(* "preserve quantity", unless the objects do not merge or are fused.      *)
quan_poly(o, o2) ==
  \E n \in {FALSE, many[o]} :
    /\ o2 \in Boxes => ~n
    /\ many' = [x \in Obj |-> IF x = o2 THEN n ELSE many[x] /\ place'[x] # Gone]

(* bhito with a wand of polymorph, or a dip: poly_obj makes a new object   *)
(* in the place of the old one and deletes that with what it contains.     *)
PolyObj(o, o2) ==
  /\ Playing /\ place[o] \in {Invent, Floor(uz)} /\ place[o2] = Gone /\ SameClass(o, o2)
  /\ \E r \in mksobj(timer_base, o2, TRUE), d \in Delays, h \in set_obj_poly(o, o2) :
       obfree({o}, [place EXCEPT ![o2] = replace_object(place[o])],
              IF h THEN start_timer(r[1], d, "UNPOLY_OBJ", o2) ELSE r[1],
              [timed EXCEPT ![o2] = r[2] + IF h THEN 1 ELSE 0])
  /\ quan_poly(o, o2)
  /\ UNCHANGED mplace /\ unchangedWorld /\ unchangedLoop

(* Eaten, burnt up, used up: one of a stack, or all, which ends in obfree. *)
DestroyObj(o) ==
  /\ Playing /\ place[o] \in Handy
  /\ \/ obfree({o}, place, timer_base, timed) /\ quan_kept
     \/ many[o] /\ many' = [many EXCEPT ![o] = FALSE] /\ UNCHANGED <<timer_base, timed, place>>
  /\ UNCHANGED mplace /\ unchangedWorld /\ unchangedLoop

(* Food that is all but eaten loses all its timers, an egg of a genocided  *)
(* kind does not hatch, restore ability takes the haze off an object.      *)
StopTimers(o) ==
  /\ Playing /\ place[o] \in Handy
  /\ \/ o \in Bodies \cup Eggs /\ timed[o] > 0
        /\ timer_base' = stop_all(timer_base, o)
        /\ timed' = [timed EXCEPT ![o] = 0]
     \/ \E f \in {"UNPOLY_OBJ"} \cup {"HATCH_EGG" : e \in {o} \cap Eggs} :
          /\ timer_base' = remove_timer(timer_base, f, o)
          /\ timed' = Less(timed, timer_base, f, o)
  /\ UNCHANGED <<place, many, mplace>> /\ unchangedWorld /\ unchangedLoop

MakeMon(m) ==
  /\ Playing /\ mplace[m] = Gone
  /\ mplace' = [mplace EXCEPT ![m] = OnLevel(uz)]
  /\ UNCHANGED <<timer_base, timed, many, place>> /\ unchangedWorld /\ unchangedLoop

(* Mutant: the timer of an earlier polymorph is not stopped.               *)
PolyMon_again(m, d) ==
  /\ Playing /\ mplace[m] = OnLevel(uz)
  /\ timer_base' = start_timer(timer_base, d, "UNPOLY_MON", m)
  /\ UNCHANGED <<timed, many, place, mplace>> /\ unchangedWorld /\ unchangedLoop

(* mon_spec_poly: stop any old timer, start a new one.                     *)
PolyMon(m, d) ==
  /\ Playing /\ mplace[m] = OnLevel(uz)
  /\ timer_base' =
       start_timer(remove_timer(timer_base, "UNPOLY_MON", m), d, "UNPOLY_MON", m)
  /\ UNCHANGED <<timed, many, place, mplace>> /\ unchangedWorld /\ unchangedLoop

(* A polymorphed monster that is killed changes back instead, and one that *)
(* turns to slime stays as it is: UNPOLY_MON is stopped.                   *)
StopUnpoly(m) ==
  /\ Playing /\ mplace[m] = OnLevel(uz)
  /\ timer_base' = remove_timer(timer_base, "UNPOLY_MON", m)
  /\ UNCHANGED <<timed, many, place, mplace>> /\ unchangedWorld /\ unchangedLoop

KillMon(m) ==
  /\ Playing /\ mplace[m] = OnLevel(uz)
  /\ m_detach(m, timer_base)
  /\ UNCHANGED <<timed, many>> /\ unchangedWorld /\ unchangedLoop

(* migrate_to_level: the monster leaves ahead of the hero.                 *)
MigrateMon(m, l) ==
  /\ Playing /\ mplace[m] = OnLevel(uz) /\ l # uz
  /\ mplace' = [mplace EXCEPT ![m] = Bound(l)]
  /\ UNCHANGED <<timer_base, timed, many, place>> /\ unchangedWorld /\ unchangedLoop

(* ship_object, obj_drops down stairs or a hole; impact_drop when the hero *)
(* falls through the same hole.                                            *)
MigrateObj(o, l) ==
  /\ Playing /\ place[o] = Floor(uz) /\ l # uz
  /\ \E p \in {Bound(l), Trailing(l)} : place' = [place EXCEPT ![o] = p]
  /\ timer_base' \in IF timed[o] > 0 THEN obj_timer_checks(timer_base, o) ELSE {timer_base}
  /\ UNCHANGED <<timed, many, mplace>> /\ unchangedWorld /\ unchangedLoop

-----------------------------------------------------------------------------
(* The turn ends: moveloop advances monstermoves and nh_timeout calls      *)
(* run_timers, which fires the head of the list while it is due.           *)

NewTurn ==
  /\ Playing /\ monstermoves < MaxMoves
  /\ monstermoves' = monstermoves + 1
  /\ phase' = "run"
  /\ UNCHANGED <<timer_base, timed, many, place, mplace, uz, file, gsave, todo>>

(* Mutant: a timer goes off the turn after it is due.                      *)
Due_later ==
  /\ phase \in {"run", "arrive"} /\ Idle
  /\ timer_base # <<>> /\ Head(timer_base).timeout < monstermoves

Due ==
  /\ phase \in {"run", "arrive"} /\ Idle
  /\ timer_base # <<>> /\ Head(timer_base).timeout <= monstermoves

(* run_timers pops the head and, for an object, decrements its count,      *)
(* before it calls the function.                                           *)
Fires(f, a) == Due /\ Head(timer_base).func = f /\ Head(timer_base).arg = a
Popped      == Tail(timer_base)
Uncounted_not(o) == timed    \* mutant: run_timers leaves the count alone
Uncounted(o) == [timed EXCEPT ![o] = @ - 1]

rot_corpse(o) ==
  /\ Fires("ROT_CORPSE", o)
  /\ obfree({o}, place, Popped, Uncounted(o)) /\ quan_kept
  /\ UNCHANGED mplace /\ unchangedWorld /\ unchangedLoop

(* A rotted container spills its contents into the ground; each is buried  *)
(* in turn, so the ones in S get a rot timer of their own.                 *)
rot_organic(o) ==
  /\ Fires("ROT_ORGANIC", o)
  /\ obfree({o}, [x \in Obj |-> IF place[x] = In(o) THEN Buried(uz) ELSE place[x]],
            Popped, Uncounted(o))
  /\ quan_kept
  /\ \E S \in SUBSET (Contents(o) \cap Organic) : \E s \in SetToSeqs(S), d \in Delays :
       todo' = [i \in DOMAIN s |-> Expiring(d, "ROT_ORGANIC", s[i])]
  /\ UNCHANGED <<mplace, phase>> /\ unchangedWorld

(* Where revive() finds map coordinates for the corpse.                    *)
Revivable(o) ==
  LET p == place[Outermost(o)] IN
  p \in {Invent, Floor(uz)} \/ (p.at = "minvent" /\ mplace[p.by] = OnLevel(uz))

(* makemon, in the callbacks.                                              *)
makemon == \E m \in Mon : mplace[m] = Gone /\ mplace' = [mplace EXCEPT ![m] = OnLevel(uz)]

(* The corpse stays and will rot away normally, at once if it is old.      *)
RotInstead(o) ==
  /\ \E d \in LateDelays : timer_base' = start_timer(Popped, d, "ROT_CORPSE", o)
  /\ UNCHANGED <<timed, place>>

(* The object stays, with no timer of this kind any more.                  *)
TimerSpent(o) == timer_base' = Popped /\ timed' = Uncounted(o) /\ UNCHANGED place

(* The only object of its stack is gone, or the whole stack in a box; or   *)
(* one less, or several, of many.                                          *)
LastGone(o) ==
  (many[o] => place[o].at = "contained") /\ obfree({o}, place, Popped, Uncounted(o)) /\ quan_kept

Fewer(o) ==
  many[o] /\ place[o].at # "contained" /\ \E n \in BOOLEAN : many' = [many EXCEPT ![o] = n]

(* Mutant: a corpse that cannot revive tries again at once.                *)
revive_mon_retries(o) ==
  /\ Fires("REVIVE_MON", o)
  /\ timer_base' = start_timer(Popped, 0, "REVIVE_MON", o)
  /\ UNCHANGED <<timed, many, place, mplace>>
  /\ unchangedWorld /\ unchangedLoop

(* revive_mon: the corpse becomes a monster, or rots.  revive() takes one  *)
(* corpse off a stack; nothing starts a timer for the others.              *)
revive_mon(o) ==
  /\ Fires("REVIVE_MON", o)
  /\ \/ /\ Revivable(o) /\ makemon
        /\ LastGone(o) \/ (Fewer(o) /\ TimerSpent(o))
     \/ RotInstead(o) /\ UNCHANGED <<many, mplace>>
  /\ unchangedWorld /\ unchangedLoop

(* A stack in a box is freed whole by revive(), and moldy_corpse starts    *)
(* the rot of what it takes to remain, on the freed object.                *)
RotOfTheFreed(o) ==
  /\ many[o] /\ place[o].at = "contained"
  /\ place' = [place EXCEPT ![o] = Gone] /\ many' = [many EXCEPT ![o] = FALSE]
  /\ \E d \in LateDelays : timer_base' = start_timer(stop_all(Popped, o), d, "ROT_CORPSE", o)
  /\ timed' = [timed EXCEPT ![o] = 1]

(* moldy_corpse counts one more of a carried corpse before it tries, and   *)
(* does not take it back if nothing grows.                                 *)
OneMore(o) == place[o] = Invent /\ many' = [many EXCEPT ![o] = TRUE]

(* moldy_corpse: as above, but what is left of a stack rots.               *)
moldy_corpse(o) ==
  /\ Fires("MOLDY_CORPSE", o)
  /\ \/ /\ Revivable(o) /\ makemon
        /\ \/ ~many[o] /\ LastGone(o)
           \/ Fewer(o) /\ RotInstead(o)
           \/ RotOfTheFreed(o)
     \/ RotInstead(o) /\ (OneMore(o) \/ UNCHANGED many) /\ UNCHANGED mplace
  /\ unchangedWorld /\ unchangedLoop

(* hatch_egg: a sterile egg, one with no map location, or one that finds   *)
(* no room stays as it is; if some of a stack hatch the others may get a   *)
(* new timer (stopped first: it never finds any).                          *)
hatch_egg(o) ==
  /\ Fires("HATCH_EGG", o)
  /\ \/ TimerSpent(o) /\ UNCHANGED <<many, mplace>>
     \/ /\ place[o] \in Handy /\ makemon
        /\ \/ obfree({o}, place, Popped, Uncounted(o)) /\ quan_kept
           \/ Fewer(o) /\ TimerSpent(o)
           \/ /\ Fewer(o)
              /\ \E d \in Delays : timer_base' = start_timer(Popped, d, "HATCH_EGG", o)
              /\ UNCHANGED <<timed, place>>
  /\ unchangedWorld /\ unchangedLoop

(* unpoly_mon: stop_timer finds nothing more; the monster changes back, or *)
(* dies of it.                                                             *)
unpoly_mon(m) ==
  LET q == remove_timer(Popped, "UNPOLY_MON", m) IN
  /\ Fires("UNPOLY_MON", m)
  /\ \/ timer_base' = q /\ UNCHANGED <<place, mplace>>
     \/ m_detach(m, q)
  /\ UNCHANGED <<timed, many>> /\ unchangedWorld /\ unchangedLoop

(* unpoly_obj: poly_obj makes an object of the old type, never a corpse,   *)
(* in its place; it may be of a kind that no timer concerns, outside Obj.  *)
unpoly_obj(o) ==
  LET q  == remove_timer(Popped, "UNPOLY_OBJ", o)
      tm == Less(Uncounted(o), Popped, "UNPOLY_OBJ", o)
  IN
  /\ Fires("UNPOLY_OBJ", o)
  /\ \/ \E o2 \in Obj \ Bodies : \E r \in mksobj(q, o2, FALSE) :
          /\ place[o2] = Gone /\ SameClass(o, o2) /\ ~({o, o2} \subseteq IceBoxes)
          /\ obfree({o}, [place EXCEPT ![o2] = replace_object(place[o])],
                    r[1], [tm EXCEPT ![o2] = r[2]])
          /\ quan_poly(o, o2)
     \/ obfree({o}, place, q, tm) /\ quan_kept
  /\ UNCHANGED mplace /\ unchangedWorld /\ unchangedLoop

(* Nothing more is due: back to the main loop, or on with goto_level.      *)
EndRunTimers ==
  /\ phase \in {"run", "arrive"} /\ Idle /\ ~Due
  /\ phase' = IF phase = "run" THEN "play" ELSE "near"
  /\ UNCHANGED <<monstermoves, timer_base, timed, many, place, mplace, uz, file, gsave, todo>>

-----------------------------------------------------------------------------
(* obj_split_timers, the burials of rot_organic and the thawing of an ice  *)
(* box start one timer at a time; restore_timers inserts one at a time and *)
(* counts nothing: the counts were saved with the objects.                 *)

StartNext ==
  /\ phase \in {"play", "run", "arrive"} /\ todo # <<>>
  /\ timer_base' = insert_timer(timer_base, Head(todo))
  /\ timed' = [timed EXCEPT ![Head(todo).arg] = @ + 1]
  /\ todo' = Tail(todo)
  /\ UNCHANGED <<many, place, mplace, phase>> /\ unchangedWorld

(* relobj, in m_detach: one object after the other falls to the floor.     *)
relobj(m, o) ==
  /\ mplace[m] = Dying(uz) /\ place[o] = Minvent(m)
  /\ \E q \in IF timed[o] > 0 THEN obj_timer_checks(timer_base, o) ELSE {timer_base} :
       Settle(o, many[o], Floor(uz), q, timed)
  /\ mplace' = [mplace EXCEPT ![m] = IF \E x \in Obj \ {o} : place[x] = Minvent(m) THEN @ ELSE Gone]
  /\ unchangedWorld /\ unchangedLoop

restore_timers ==
  /\ phase \in {"getlev", "restore"} /\ todo # <<>>
  /\ timer_base' = insert_timer(timer_base, Head(todo))
  /\ todo' = Tail(todo)
  /\ UNCHANGED <<timed, many, place, mplace, phase>> /\ unchangedWorld

(* goto_level: keepdogs takes the adjacent pets off the level, savelev     *)
(* writes the level's timers and unlinks them (save_timers, RANGE_LEVEL),  *)
(* getlev reads those of the new level.                                    *)
GotoLevel(l, dogs) ==
  /\ Playing /\ l # uz /\ \A m \in dogs : mplace[m] = OnLevel(uz)
  /\ file' = [file EXCEPT ![uz] = Keep(timer_base, LocalTimers(dogs)), ![l] = <<>>]
  /\ timer_base' = Keep(timer_base, DOMAIN timer_base \ LocalTimers(dogs))
  /\ mplace' = [m \in Mon |-> IF m \in dogs THEN Bound(l) ELSE mplace[m]]
  /\ uz' = l
  /\ todo' = file[l] /\ phase' = "getlev"
  /\ UNCHANGED <<monstermoves, timed, many, place, gsave>>

(* obj_delivery(FALSE) before losedogs, obj_delivery(TRUE) near the end of *)
(* goto_level: an object falls on the new level, or breaks.                *)
Delivered(p) == IF phase = "near" THEN p = Trailing(uz) ELSE p = Bound(uz)

obj_delivery(o) ==
  /\ phase \in {"getlev", "near"} /\ todo = <<>> /\ Delivered(place[o])
  /\ \/ \E q \in IF timed[o] > 0 THEN obj_timer_checks(timer_base, o) ELSE {timer_base} :
          Settle(o, many[o], Floor(uz), q, timed)
     \/ obfree({o}, place, timer_base, timed) /\ quan_kept
  /\ UNCHANGED mplace /\ unchangedWorld /\ unchangedLoop

(* losedogs, then run_timers for all that fell due while the hero was away.*)
losedogs ==
  /\ phase = "getlev" /\ todo = <<>> /\ \A o \in Obj : ~Delivered(place[o])
  /\ mplace' = [m \in Mon |-> IF mplace[m] = Bound(uz) THEN OnLevel(uz) ELSE mplace[m]]
  /\ phase' = "arrive"
  /\ UNCHANGED <<monstermoves, timer_base, timed, many, place, uz, file, gsave, todo>>

(* goto_level returns to the main loop; dorecover first calls run_timers.  *)
BackToPlay ==
  /\ \/ phase = "restore" /\ phase' = "run"
     \/ phase = "near" /\ phase' = "play" /\ \A o \in Obj : ~Delivered(place[o])
  /\ todo = <<>>
  /\ UNCHANGED <<monstermoves, timer_base, timed, many, place, mplace, uz, file, gsave, todo>>

(* Mutant: the timers that go with the hero are not written.               *)
dosave0_level_only ==
  /\ Playing
  /\ file' = [file EXCEPT ![uz] = Keep(timer_base, LocalTimers({}))]
  /\ gsave' = <<>> /\ timer_base' = <<>>
  /\ phase' = "saved"
  /\ UNCHANGED <<monstermoves, timed, many, place, mplace, uz, todo>>

(* dosave0: the level's timers go with the level, the others with the game *)
(* state (save_timers, RANGE_GLOBAL); nothing is left in memory.           *)
dosave0 ==
  /\ Playing
  /\ file' = [file EXCEPT ![uz] = Keep(timer_base, LocalTimers({}))]
  /\ gsave' = Keep(timer_base, DOMAIN timer_base \ LocalTimers({}))
  /\ timer_base' = <<>>
  /\ phase' = "saved"
  /\ UNCHANGED <<monstermoves, timed, many, place, mplace, uz, todo>>

(* dorecover: the game state's timers first, then the level's.             *)
dorecover ==
  /\ phase = "saved"
  /\ todo' = gsave \o file[uz]
  /\ file' = [file EXCEPT ![uz] = <<>>] /\ gsave' = <<>>
  /\ phase' = "restore"
  /\ UNCHANGED <<monstermoves, timer_base, timed, many, place, mplace, uz>>

-----------------------------------------------------------------------------
Init ==
  /\ monstermoves = 1
  /\ timer_base = <<>> /\ gsave = <<>> /\ todo = <<>>
  /\ timed = [o \in Obj |-> 0]
  /\ many = [o \in Obj |-> FALSE]
  /\ place = [o \in Obj |-> Gone]
  /\ mplace = [m \in Mon |-> Gone]
  /\ uz \in Level
  /\ file = [l \in Level |-> <<>>]
  /\ phase = "play"

HandleObj ==
  \/ \E o \in Obj, p \in {Invent, Floor(uz)} : CreateObj(o, p)
  \/ \E o \in Obj, p \in Handy : MoveObj(o, p)
  \/ \E o \in Obj, b \in Boxes : PutInBox(o, b)
  \/ \E b \in Boxes, p \in Handy : BreakBox(b, p)
  \/ \E o \in Obj : TakeOut(o) \/ Bury(o) \/ Unearth(o) \/ DestroyObj(o) \/ StopTimers(o)
  \/ \E o, o2 \in Obj : SplitObj(o, o2) \/ ReallocObj(o, o2) \/ PolyObj(o, o2)
  \/ \E o \in Obj, l \in Level : MigrateObj(o, l)

HandleMon ==
  \/ \E m \in Mon : MakeMon(m) \/ StopUnpoly(m) \/ KillMon(m)
  \/ \E m \in Mon, d \in Delays : PolyMon(m, d)
  \/ \E m \in Mon, l \in Level : MigrateMon(m, l)

run_timers ==
  \/ \E o \in Obj : \/ rot_corpse(o) \/ rot_organic(o) \/ revive_mon(o)
                    \/ moldy_corpse(o) \/ hatch_egg(o) \/ unpoly_obj(o)
  \/ \E m \in Mon : unpoly_mon(m)
  \/ EndRunTimers

Loops ==
  StartNext \/ restore_timers \/ losedogs \/ BackToPlay
    \/ \E o \in Obj : obj_delivery(o) \/ \E m \in Mon : relobj(m, o)

ChangeLevel == \E l \in Level, dogs \in SUBSET Mon : GotoLevel(l, dogs)

Next ==
  HandleObj \/ HandleMon \/ NewTurn \/ run_timers \/ Loops \/ ChangeLevel \/ dosave0 \/ dorecover

(* A loop of the program that has been entered runs on; nothing obliges    *)
(* the player to act.                                                      *)
Spec == Init /\ [][Next]_vars /\ WF_vars(run_timers \/ Loops)

-----------------------------------------------------------------------------
(* Properties.                                                             *)

Restoring == phase \in {"getlev", "restore"}

(* A slot is one place where a timer is kept: in memory, still to insert,  *)
(* in the save file or in a level file.                                    *)
Lists == {<<"base">>, <<"todo">>, <<"gsave">>} \cup {<<"file", l>> : l \in Level}

List(x) ==
  CASE x[1] = "base"  -> timer_base
    [] x[1] = "todo"  -> todo
    [] x[1] = "gsave" -> gsave
    [] OTHER          -> file[x[2]]

Slots      == UNION {{x} \X DOMAIN List(x) : x \in Lists}
TimerAt(s) == List(s[1])[s[2]]

(* Not started yet: copies of a split object, rot of what was spilled.     *)
Unstarted(s) == s[1] = <<"todo">> /\ ~Restoring

MonOn(m, l) == mplace[m] \in {OnLevel(l), Dying(l)}
MonInLimbo(m) == mplace[m].at = "migrating"

(* The thing a is stored with level l, or goes where the hero goes.        *)
LocalTo(a, l) ==
  IF a \in Mon THEN MonOn(a, l)
  ELSE LET p == place[Outermost(a)] IN
       \/ p \in {Floor(l), Buried(l)}
       \/ p.at = "minvent" /\ MonOn(p.by, l)

Global(a) ==
  IF a \in Mon THEN MonInLimbo(a)
  ELSE LET p == place[Outermost(a)] IN
       \/ p.at \in {"invent", "migrating", "trailing"}
       \/ p.at = "minvent" /\ MonInLimbo(p.by)

(* The state is of the right shape.  A timeout may be below 0: what        *)
(* start_corpse_timeout resumes may be overdue by more than the game is    *)
(* old (obj->timed may be anything here: TimedIsCount says what it is).    *)
TypeOK ==
  /\ monstermoves \in Nat \ {0}
  /\ timer_base \in Seq(Timer) /\ todo \in Seq(Timer) /\ gsave \in Seq(Timer)
  /\ file \in [Level -> Seq(Timer)]
  /\ timed \in [Obj -> Int] /\ many \in [Obj -> BOOLEAN]
  /\ place \in [Obj -> Place] /\ mplace \in [Mon -> MonPlace]
  /\ uz \in Level /\ phase \in Phases

(* The list insert_timer keeps is in the order run_timers relies on, when  *)
(* timers are inserted, copied, unlinked, saved and restored.              *)
SortedTimers == Ordered(timer_base)

(* run_timers looks at the head only, and yet when it returns no timer     *)
(* anywhere in the list is overdue.                                        *)
RunTimersDrains ==
  [][(phase \in {"run", "arrive"} /\ phase' # phase
        => \A i \in DOMAIN timer_base : timer_base[i].timeout > monstermoves)]_vars

(* obj->timed is the number of timers the object has, wherever they are    *)
(* kept: code decides by it whether to look for timers at all, and         *)
(* obj_move_timers panics when it disagrees with the list.                 *)
TimedIsCount ==
  \A o \in Obj :
    timed[o] = Cardinality({s \in Slots : TimerAt(s).arg = o /\ ~Unstarted(s)})

(* A timer is kept with its owner: those in memory belong to what is in    *)
(* memory, those in a level file to what is on that level, those of the    *)
(* save file to what leaves with the hero.  run_timers would call back     *)
(* with a dangling pointer, relink_timers panic ("cant find o_id").        *)
KeptWithOwner ==
  /\ \A i \in DOMAIN timer_base : LocalTo(timer_base[i].arg, uz) \/ Global(timer_base[i].arg)
  /\ \A i \in DOMAIN todo : LocalTo(todo[i].arg, uz) \/ Global(todo[i].arg)
  /\ \A i \in DOMAIN gsave : Global(gsave[i].arg)
  /\ \A l \in Level : \A i \in DOMAIN file[l] : LocalTo(file[l][i].arg, l)

(* stop_timer assumes that a (function, argument) pair is unique, and      *)
(* start_timer does not look for duplicates.                               *)
UniquePairs ==
  \A s, t \in Slots :
    TimerAt(s).func = TimerAt(t).func /\ TimerAt(s).arg = TimerAt(t).arg => s = t

(* A corpse meets one end: at most one of rotting, going moldy and         *)
(* reviving is ahead of it, and none of them in an ice box.                *)
OneDecay ==
  \A o \in Bodies :
    LET running == {s \in Slots : TimerAt(s).arg = o /\ TimerAt(s).func \in Decay} IN
    /\ Cardinality(running) <= 1
    /\ place[o].at = "contained" /\ place[o].by \in IceBoxes => running = {}

(* What rots in the ground is in the ground: no object that was dug up,    *)
(* polymorphed or spilled keeps the timer that would destroy it.           *)
RotOrganicInGround ==
  \A s \in Slots : TimerAt(s).func = "ROT_ORGANIC" => place[TimerAt(s).arg].at = "buried"

(* Changing levels, saving and restoring neither lose, add nor change a    *)
(* timer.                                                                  *)
AllTimers == {TimerAt(s) : s \in Slots}

TimersSurvive ==
  [][(phase' # phase \/ (Restoring /\ todo' # todo) => AllTimers' = AllTimers)]_vars

(* run_timers always returns, although its callbacks start new timers, and *)
(* so does goto_level.                                                     *)
CallsReturn == phase \in Phases \ {"play", "saved"} ~> Playing

(* replace_object: "This function does a literal swap", so that an object  *)
(* on its way to a level still has a destination.                          *)
MigrantsHaveDestination ==
  \A o \in Obj : place[o].at \in {"migrating", "trailing"} => place[o].by \in Level

(* moldy_corpse: "If there was more than one corpse, or the revive failed, *)
(* set the remaining corpse(s) to rot away normally": what is set to rot   *)
(* is there to rot.                                                        *)
RemainingCorpsesRot ==
  \A i \in DOMAIN timer_base : timer_base[i].func = "ROT_CORPSE" => place[timer_base[i].arg] # Gone

(* revive_mon: "if we succeed, the corpse is gone, otherwise, rot it       *)
(* away", so that a troll's corpse outside an ice box never stays for ever.*)
RevivedOrRotting ==
  \A o \in Revivers :
    Playing /\ place[o] # Gone /\ ~(place[o].at = "contained" /\ place[o].by \in IceBoxes)
      => \E s \in Slots : TimerAt(s).arg = o /\ TimerAt(s).func \in Decay

=============================================================================
