-------------------------------- MODULE Burn --------------------------------
(***************************************************************************)
(* Things that burn: candles, torches, lamps, potions of oil and magic     *)
(* lamps.  A lit one has an element in the list of light sources (light.c) *)
(* and, unless it is magic, a BURN_OBJECT timer (timeout.c); `age' is the  *)
(* fuel that will be left when that timer goes off.  They are lit, snuffed,*)
(* split, merged, buried, left on a level, sold, used up and destroyed.    *)
(*                                                                         *)
(* An element of Obj is one struct obj.  The helpers of the code are       *)
(* operators from worlds to worlds: the objects, the timers, the lights.   *)
(* Artifact lights, lightsabers, dynamite and the candelabrum are left out.*)
(***************************************************************************)
EXTENDS TimerQueue

CONSTANTS
  Candles, Torches, Lamps, Oils, MagicLamps,
  ForSale,   \* what a shopkeeper may claim when it is picked up
  Level,
  Stages,    \* begin_burn's magic times: 150, 100, 50, 25 and 0; 75, 15 and 0
  Full,      \* the fuel of a new object, and the most a lamp holds
  Bracket,   \* candles merge when their ages agree up to this: 20
  MaxMoves,  \* bound: the last turn
  Nowhere    \* the level of what is on none

Obj       == Candles \cup Torches \cup Lamps \cup Oils \cup MagicLamps
Stackable == Candles \cup Torches \cup Oils    \* oc_merge

ASSUME KindsDistinct ==
  /\ Candles \cap (Torches \cup Lamps \cup Oils \cup MagicLamps) = {}
  /\ Torches \cap (Lamps \cup Oils \cup MagicLamps) = {}
  /\ Lamps \cap (Oils \cup MagicLamps) = {} /\ Oils \cap MagicLamps = {}
  /\ ForSale \subseteq Obj /\ Nowhere \notin Level /\ IsFiniteSet(Obj)

ASSUME FuelIsNatural ==
  /\ Stages \subseteq Nat /\ 0 \in Stages /\ IsFiniteSet(Stages)
  /\ Full \in Nat \ {0} /\ Bracket \in Nat \ {0} /\ MaxMoves \in Nat

VARIABLES
  monstermoves,
  obj,         \* the structs
  timer_base,
  light_base,  \* how many elements of that list belong to each object
  uz,
  file,        \* the timers and lights in each level file
  gsave,       \* those of RANGE_GLOBAL in the save file
  phase        \* "play", "run" in run_timers, "arrive" in obj_delivery, "saved"

vars == <<monstermoves, obj, timer_base, light_base, uz, file, gsave, phase>>

-----------------------------------------------------------------------------
(* Where objects are.                                                      *)

At(where, level) == [at |-> where, on |-> level]

Gone      == At("free", Nowhere)
Invent    == At("invent", Nowhere)
OnBill    == At("onbill", Nowhere)      \* used up, still to be paid for
Floor(l)  == At("floor", l)
Buried(l) == At("buried", l)
Bound(l)  == At("migrating", l)         \* fallen to that level, or on the way
Lost      == At("lost", Nowhere)        \* OBJ_FREE, and nothing points to it

Places == [at : {"free", "invent", "onbill", "floor", "buried", "migrating", "lost"}, on : Level \cup {Nowhere}]

Struct == [place : Places, many : BOOLEAN, unpaid : BOOLEAN, lamplit : BOOLEAN, age : Nat]
NoObj  == [place |-> Gone, many |-> FALSE, unpaid |-> FALSE, lamplit |-> FALSE, age |-> 0]

SameKind(o, o2) == \E K \in {Candles, Torches, Lamps, Oils, MagicLamps} : {o, o2} \subseteq K

(* Mutant: what falls to another level counts as on this one.              *)
obj_is_local_bound(o) == obj[o].place.at \in {"floor", "buried", "migrating"}

obj_is_local(o) == obj[o].place.at \in {"floor", "buried"}

(* obj_is_local knows no other: it panics.                                 *)
Known(place) == place.at \in {"invent", "migrating", "floor", "buried"}

(* World: what the helpers change.                                         *)
World     == [obj |-> obj, timers |-> timer_base, lights |-> light_base]
Become(w) == obj' = w.obj /\ timer_base' = w.timers /\ light_base' = w.lights

Move(w, o, p) == [w EXCEPT !.obj[o].place = p]

-----------------------------------------------------------------------------
(* Lighting and putting out.                                               *)

BurnTimer(w, o) == Matches(w.timers, "BURN_OBJECT", o)

(* One light fewer, if there is one.                                       *)
less(n) == IF n = 0 THEN 0 ELSE n - 1

new_light_source(w, o) == [w EXCEPT !.lights[o] = @ + 1]
del_light_source(w, o) == [w EXCEPT !.lights[o] = less(@)]

(* How long until there is something to say about it.                      *)
Turns(o, fuel) == IF o \in Oils THEN fuel ELSE fuel - Max({s \in Stages : s < fuel})

start_burn_timer(w, o, turns) ==
  [w EXCEPT !.timers = insert_timer(@, [timeout |-> monstermoves + turns, func |-> "BURN_OBJECT", arg |-> o]),
            !.obj[o].lamplit = TRUE, !.obj[o].age = @ - turns]

begin_burn(w, o, already_lit) ==
  LET lit == IF o \in MagicLamps THEN [w EXCEPT !.obj[o].lamplit = TRUE]
             ELSE start_burn_timer(w, o, Turns(o, w.obj[o].age))
  IN  IF w.obj[o].age = 0 /\ o \notin MagicLamps THEN w
      ELSE IF already_lit THEN lit ELSE new_light_source(lit, o)

(* Mutant: unused time is not restored.                                    *)
cleanup_burn_lost(w, o, expire_time) ==
  IF ~w.obj[o].lamplit THEN w
  ELSE [del_light_source(w, o) EXCEPT !.obj[o].lamplit = FALSE]

(* Mutant: the unused time is taken off once more.                         *)
cleanup_burn_sign(w, o, expire_time) ==
  IF ~w.obj[o].lamplit THEN w
  ELSE [del_light_source(w, o) EXCEPT !.obj[o].age = @ + monstermoves - expire_time, !.obj[o].lamplit = FALSE]

cleanup_burn(w, o, expire_time) ==
  IF ~w.obj[o].lamplit THEN w
  ELSE [del_light_source(w, o) EXCEPT !.obj[o].age = @ + expire_time - monstermoves, !.obj[o].lamplit = FALSE]

Expiry(w, o) == w.timers[Min(BurnTimer(w, o))].timeout

stop_timer(w, o) ==
  IF BurnTimer(w, o) = {} THEN w
  ELSE cleanup_burn([w EXCEPT !.timers = remove_timer(@, "BURN_OBJECT", o)], o, Expiry(w, o))

(* If there are several, only the first finds the object lit.              *)
obj_stop_timers(w, o) ==
  IF BurnTimer(w, o) = {} THEN w
  ELSE cleanup_burn([w EXCEPT !.timers = stop_all(@, o)], o, Expiry(w, o))

end_burn(w, o, timer_attached) ==
  CASE ~w.obj[o].lamplit -> w
    [] w.obj[o].lamplit /\ timer_attached /\ o \notin MagicLamps -> stop_timer(w, o)
    [] OTHER -> [del_light_source(w, o) EXCEPT !.obj[o].lamplit = FALSE]

-----------------------------------------------------------------------------
(* Freeing, billing, splitting and merging.                                *)

dealloc_obj(w, o) ==
  LET v == obj_stop_timers(w, o) IN
  [(IF v.obj[o].lamplit THEN del_light_source(v, o) ELSE v) EXCEPT !.obj[o] = NoObj]

(* Mutant: what goes on the bill keeps its timer.                          *)
add_to_billobjs_timed(w, o) == [w EXCEPT !.obj[o].place = OnBill, !.obj[o].unpaid = FALSE]

add_to_billobjs(w, o) ==
  [obj_stop_timers(w, o) EXCEPT !.obj[o].place = OnBill, !.obj[o].unpaid = FALSE]

(* obfree without a merge: an unpaid object moves to the bill.             *)
obfree(w, o) == IF w.obj[o].unpaid THEN add_to_billobjs(w, o) ELSE dealloc_obj(w, o)

(* Copies of o on the bill: the shopkeeper makes the hero pay.             *)
bill_dummy_object(w, o) ==
  {[w EXCEPT !.obj[d] = [w.obj[o] EXCEPT !.place = OnBill, !.unpaid = FALSE, !.lamplit = @ /\ o \notin Candles],
             !.obj[o].unpaid = FALSE] :
     d \in {d \in Obj : w.obj[d].place = Gone /\ SameKind(o, d)}}

(* With `unpaid && costly_spot()' a dummy is billed.                       *)
Billed(w, o) == {w} \cup IF w.obj[o].unpaid THEN bill_dummy_object(w, o) ELSE {}

(* What was used up is freed (dealloc_obj, each by itself), the rest the   *)
(* hero's own.                                                             *)
setpaid(w) ==
  LET gone == {o \in Obj : w.obj[o].place = OnBill} IN
  [obj    |-> [o \in Obj |-> IF o \in gone THEN NoObj ELSE [w.obj[o] EXCEPT !.unpaid = FALSE]],
   timers |-> Keep(w.timers, {i \in DOMAIN w.timers : w.timers[i].arg \notin gone}),
   lights |-> [o \in Obj |-> IF o \in gone /\ w.obj[o].lamplit THEN less(w.lights[o]) ELSE w.lights[o]]]

(* The structs that a split of o may use, with what each part is then.     *)
Splits(w, o) ==
  {n \in Obj : w.obj[o].many /\ w.obj[n].place = Gone /\ SameKind(o, n)} \X BOOLEAN \X BOOLEAN

(* n is split off o, with copies of its timers and lights; a and b say     *)
(* whether they are stacks.                                                *)
splitobj(w, o, n, a, b) ==
  [w EXCEPT !.obj[n] = [w.obj[o] EXCEPT !.many = b], !.obj[o].many = a,
            !.timers = insert_all(@, copies(@, o, n)),
            !.lights[n] = @ + w.lights[o]]

(* What is applied, thrown or dropped of o: all, or a part split off.      *)
Taken(w, o) == {<<o, w>>} \cup {<<x[1], splitobj(w, o, x[1], x[2], x[3])>> : x \in Splits(w, o)}

(* The same where only one will do.                                        *)
One(w, o) ==
  IF w.obj[o].many THEN {<<x[1], splitobj(w, o, x[1], x[2], x[3])>> : x \in {y \in Splits(w, o) : ~y[3]}}
  ELSE {<<o, w>>}

(* mergable, as far as burning decides it.                                 *)
mergable(w, o, o2) ==
  /\ o # o2 /\ SameKind(o, o2) /\ o \in Stackable
  /\ w.obj[o].unpaid = w.obj[o2].unpaid /\ w.obj[o].lamplit = w.obj[o2].lamplit
  /\ o \in Candles \cup Torches => w.obj[o].age \div Bracket = w.obj[o2].age \div Bracket
  /\ ~(w.obj[o].lamplit /\ o \in Oils \cup Torches)

(* Mutant: the lit object is freed with its light on.                      *)
merged_lit(w, d, s) ==
  {[w EXCEPT !.obj[d].age = fuel, !.obj[d].many = TRUE, !.obj[s] = NoObj,
             !.timers = stop_all(@, s)] : fuel \in {w.obj[d].age}}

(* d takes in s.  Unlit, they share their fuel; lit, s is put out and d    *)
(* keeps its own.                                                          *)
merged(w, d, s) ==
  LET ages == {w.obj[d].age, w.obj[s].age}
      v == dealloc_obj(IF w.obj[s].lamplit THEN end_burn(w, s, TRUE) ELSE w, s)
  IN  {[v EXCEPT !.obj[d].age = fuel, !.obj[d].many = TRUE] :
         fuel \in IF w.obj[s].lamplit THEN {w.obj[d].age} ELSE Min(ages) .. Max(ages)}

(* o comes to p: addinv may merge it into a stack there, stackobj a stack  *)
(* there into it.                                                          *)
Settled(w, o, p) ==
  {Move(w, o, p)} \cup
    UNION {IF p = Invent THEN merged(w, o2, o) ELSE merged(Move(w, o, p), o, o2) :
             o2 \in {x \in Obj : w.obj[x].place = p /\ mergable(w, o, x)}}

snuffed(w, o) == IF o \in Torches THEN end_burn(w, o, TRUE) ELSE w

(* carry_obj_effects: a lit torch is put out before it is put away.        *)
addinv(w, o) == {snuffed(v, o) : v \in Settled(w, o, Invent)}

(* dropx: what is unpaid goes back to the shopkeeper.                      *)
dropx(w, o) == Settled([w EXCEPT !.obj[o].unpaid = FALSE], o, Floor(uz))

(* The hero may be fumbling, or find no room for it.                       *)
hold_another_object(w, o) == addinv(w, o) \cup dropx(w, o) \cup dropx(snuffed(w, o), o)

unchangedRest == UNCHANGED <<monstermoves, uz, file, gsave, phase>>

Playing == phase = "play"

Here == {Invent, Floor(uz)}

-----------------------------------------------------------------------------
(* The hero, and what happens to things.                                   *)

(* mksobj_at.                                                              *)
CreateObj(o) ==
  /\ Playing /\ obj[o].place = Gone
  /\ \E n \in IF o \in Stackable THEN BOOLEAN ELSE {FALSE} :
       \E w \in Settled([World EXCEPT !.obj[o] = [NoObj EXCEPT !.age = Full, !.many = n]], o, Floor(uz)) : Become(w)
  /\ unchangedRest

(* pick_obj: in a shop it may have a price.                                *)
PickUp(o) ==
  /\ Playing /\ obj[o].place = Floor(uz)
  /\ \E up \in {FALSE} \cup {x \in {TRUE} : o \in ForSale} :
       \E w \in addinv([World EXCEPT !.obj[o].unpaid = up], o) : Become(w)
  /\ unchangedRest

(* Dropping, throwing and kicking; the last two put out candles.           *)
Drop(o, thrown) ==
  /\ Playing /\ obj[o].place = Invent
  /\ \E t \in Taken(World, o) :
       \E w \in dropx(IF thrown /\ t[1] \in Candles THEN end_burn(t[2], t[1], TRUE) ELSE t[2], t[1]) : Become(w)
  /\ unchangedRest

(* bury_an_obj: oil burns on under ground.                                 *)
Bury(o) ==
  /\ Playing /\ obj[o].place = Floor(uz)
  /\ Become(Move(IF o \in Oils THEN World ELSE end_burn(World, o, TRUE), o, Buried(uz)))
  /\ unchangedRest

(* unearth_objs.                                                           *)
Unearth(o) ==
  /\ Playing /\ obj[o].place = Buried(uz)
  /\ \E w \in Settled(World, o, Floor(uz)) : Become(w)
  /\ unchangedRest

(* ship_object: down a hole, lit or not.                                   *)
Fall(o, l) ==
  /\ Playing /\ obj[o].place = Floor(uz) /\ l # uz
  /\ Become(Move(World, o, Bound(l)))
  /\ unchangedRest

(* delobj, useupall: eaten, polymorphed into something else, destroyed.    *)
Destroy(o) ==
  /\ Playing /\ obj[o].place \in Here
  /\ Become(obfree(World, o))
  /\ unchangedRest

(* use_lamp: lamps and magic lamps.                                        *)
use_lamp(o) ==
  /\ Playing /\ obj[o].place = Invent /\ o \in Lamps \cup MagicLamps
  /\ Become(IF obj[o].lamplit THEN end_burn(World, o, TRUE) ELSE begin_burn(World, o, FALSE))
  /\ unchangedRest

(* use_lamp for candles: all of them, or one that is split off; spe is     *)
(* raised so that the rest does not merge with it at once.                 *)
use_candle(o) ==
  /\ Playing /\ obj[o].place = Invent /\ o \in Candles
  /\ \/ obj[o].lamplit /\ Become(end_burn(World, o, TRUE))
     \/ /\ ~obj[o].lamplit
        /\ \E w \in {World} \cup UNION {hold_another_object(splitobj(World, o, x[1], FALSE, x[3]), x[1]) : x \in Splits(World, o)} :
             /\ w # World => ~w.obj[o].many
             /\ \E v \in Billed(w, o) : Become(begin_burn(v, o, FALSE))
  /\ unchangedRest

(* use_torch: a torch of a stack is wielded, and lit unless it flickers;   *)
(* the others are picked up again.  If it cannot be wielded, use_torch     *)
(* returns without them.                                                   *)
use_torch(o) ==
  /\ Playing /\ obj[o].place = Invent /\ o \in Torches
  /\ \E t \in One(World, o) :
       LET n == t[1]
           w == t[2]
       IN  \/ \E v \in IF obj[o].lamplit THEN {end_burn(w, n, TRUE)} ELSE {w, begin_burn(w, n, FALSE)} :
                \E x \in IF n = o THEN {v} ELSE hold_another_object(v, o) : Become(x)
           \/ n # o /\ Become(Move(w, o, Lost))
  /\ unchangedRest

(* light_cocktail: put out, potions merge again; one of a stack is lit.    *)
light_cocktail(o) ==
  /\ Playing /\ obj[o].place = Invent /\ o \in Oils
  /\ \/ obj[o].lamplit /\ \E w \in addinv(end_burn(World, o, TRUE), o) : Become(w)
     \/ /\ ~obj[o].lamplit
        /\ \E v \in Billed(World, o) : \E t \in One(v, o) :
             LET w == begin_burn(t[2], t[1], FALSE) IN
             \E x \in IF t[1] = o THEN {w} ELSE hold_another_object(w, t[1]) : Become(x)
  /\ unchangedRest

(* catch_lit: fire sets it alight; if the hero holds it, it is billed.     *)
catch_lit(o) ==
  /\ Playing /\ obj[o].place \in Here /\ ~obj[o].lamplit
  /\ \E w \in IF obj[o].place = Invent THEN Billed(World, o) ELSE {World} : Become(begin_burn(w, o, FALSE))
  /\ unchangedRest

(* snuff_lit: water, a container, the inside of a monster.                 *)
snuff_lit(o) ==
  /\ Playing /\ obj[o].place \in Here /\ obj[o].lamplit
  /\ Become(end_burn(World, o, TRUE))
  /\ unchangedRest

(* dodip: oil into a lamp that is not full, neither of them lit (what is   *)
(* lit explodes: Destroy).                                                 *)
Refuel(o, p) ==
  /\ Playing /\ obj[o].place = Invent /\ obj[p].place = Invent
  /\ o \in Lamps /\ p \in Oils /\ ~obj[o].lamplit /\ ~obj[p].lamplit
  /\ 3 * obj[o].age <= 2 * Full    \* 1000 of 1500
  /\ LET w == [World EXCEPT !.obj[o].age = Min({@ + 2 * obj[p].age, Full})] IN
     \/ Become(obfree(w, p)) /\ ~obj[p].many
     \/ obj[p].many /\ \E n \in BOOLEAN : Become([w EXCEPT !.obj[p].many = n])
  /\ unchangedRest

(* dopay, or the hero is taken to have robbed the shop.                    *)
Pay == Playing /\ Become(setpaid(World)) /\ unchangedRest

-----------------------------------------------------------------------------
(* Time.                                                                   *)

(* Mutant: what burnt while the hero was away is not subtracted.           *)
burn_object_away(w, t) ==
  LET o == t.arg IN
  IF w.obj[o].age = 0
  THEN {LET out == end_burn(w, o, FALSE) IN IF o \in Candles \cup Oils THEN obfree(out, o) ELSE out}
  ELSE {begin_burn(w, o, TRUE)}

(* burn_object, for a timer t that has been unlinked: t may have been due  *)
(* while the hero was away.  What is consumed goes; a torch that was not   *)
(* paid for is billed; what has fuel left burns on.                        *)
burn_object(w, t) ==
  LET o    == t.arg
      left == w.obj[o].age - (monstermoves - t.timeout)
      done == [w EXCEPT !.obj[o].age = 0]
  IN  IF left > 0 THEN {begin_burn([w EXCEPT !.obj[o].age = left], o, TRUE)}
      ELSE {LET out == end_burn(v, o, FALSE) IN IF o \in Candles \cup Oils THEN obfree(out, o) ELSE out :
              v \in IF o \in Torches /\ t.timeout = monstermoves THEN Billed(done, o) ELSE {done}}

(* burn_faster, accelerate_timer: each hit with a lit torch is a turn's    *)
(* fuel; it may be the last.                                               *)
burn_faster(o) ==
  /\ Playing /\ obj[o].place = Invent /\ o \in Torches /\ obj[o].lamplit /\ BurnTimer(World, o) # {}
  /\ LET t == [timeout |-> Expiry(World, o) - 1, func |-> "BURN_OBJECT", arg |-> o]
         w == [World EXCEPT !.timers = remove_timer(@, "BURN_OBJECT", o)]
     IN  IF t.timeout <= monstermoves THEN \E v \in burn_object(w, t) : Become(v)
         ELSE Become([w EXCEPT !.timers = insert_timer(@, t)])
  /\ unchangedRest

Tick ==
  /\ Playing /\ monstermoves < MaxMoves
  /\ monstermoves' = monstermoves + 1 /\ phase' = "run"
  /\ UNCHANGED <<obj, timer_base, light_base, uz, file, gsave>>

Due == timer_base # <<>> /\ Head(timer_base).timeout <= monstermoves

run_timers ==
  /\ phase = "run"
  /\ \/ /\ Due /\ \E w \in burn_object([World EXCEPT !.timers = Tail(@)], Head(timer_base)) : Become(w)
        /\ UNCHANGED phase
     \/ /\ ~Due /\ phase' = "play"
        /\ UNCHANGED <<obj, timer_base, light_base>>
  /\ UNCHANGED <<monstermoves, uz, file, gsave>>

-----------------------------------------------------------------------------
(* Levels, save and restore.                                               *)

NoLights == [o \in Obj |-> 0]
Nothing  == [timers |-> <<>>, lights |-> NoLights]

(* save_timers and save_light_sources with the owners S.                   *)
OfOwners(w, S) ==
  [timers |-> Keep(w.timers, {i \in DOMAIN w.timers : w.timers[i].arg \in S}),
   lights |-> [o \in Obj |-> IF o \in S THEN w.lights[o] ELSE 0]]

(* restore_timers and restore_light_sources of what was written to f.      *)
Restored(w, f) ==
  [w EXCEPT !.timers = insert_all(@, f.timers), !.lights = [o \in Obj |-> @[o] + f.lights[o]]]

Local == {o \in Obj : obj_is_local(o)}

(* No owner makes obj_is_local panic.                                      *)
OwnersKnown(w) ==
  \A o \in Obj : (w.lights[o] > 0 \/ OnArg(w.timers, o) # {}) => Known(w.obj[o].place)

(* goto_level: the shopkeeper has been left, and its bill with him.        *)
GotoLevel(l) ==
  /\ Playing /\ l # uz
  /\ LET w == setpaid(World)
         stay == OfOwners(w, Local)
         go   == OfOwners(w, Obj \ Local)
     IN  /\ OwnersKnown(w)
         /\ Become(Restored([w EXCEPT !.timers = go.timers, !.lights = go.lights], file[l]))
         /\ file' = [file EXCEPT ![uz] = stay, ![l] = Nothing]
  /\ uz' = l /\ phase' = "arrive"
  /\ UNCHANGED <<monstermoves, gsave>>

(* obj_delivery, then run_timers.                                          *)
Arrive ==
  /\ phase = "arrive"
  /\ \/ \E o \in Obj : /\ obj[o].place = Bound(uz)
                       /\ \E w \in Settled(World, o, Floor(uz)) : Become(w)
                       /\ UNCHANGED phase
     \/ /\ \A o \in Obj : obj[o].place # Bound(uz)
        /\ phase' = "run" /\ UNCHANGED <<obj, timer_base, light_base>>
  /\ UNCHANGED <<monstermoves, uz, file, gsave>>

dosave0 ==
  /\ Playing /\ OwnersKnown(World)
  /\ file' = [file EXCEPT ![uz] = OfOwners(World, Local)]
  /\ gsave' = OfOwners(World, Obj \ Local)
  /\ Become([World EXCEPT !.timers = <<>>, !.lights = NoLights])
  /\ phase' = "saved"
  /\ UNCHANGED <<monstermoves, uz>>

dorecover ==
  /\ phase = "saved"
  /\ Become(Restored(Restored(World, gsave), file[uz]))
  /\ file' = [file EXCEPT ![uz] = Nothing] /\ gsave' = Nothing
  /\ phase' = "run"
  /\ UNCHANGED <<monstermoves, uz>>

-----------------------------------------------------------------------------
Init ==
  /\ monstermoves = 1 /\ uz \in Level
  /\ obj = [o \in Obj |-> NoObj]
  /\ timer_base = <<>> /\ light_base = NoLights
  /\ file = [l \in Level |-> Nothing] /\ gsave = Nothing
  /\ phase = "play"

Objects(o) ==
  \/ CreateObj(o) \/ PickUp(o) \/ \E thrown \in BOOLEAN : Drop(o, thrown)
  \/ Bury(o) \/ Unearth(o) \/ Destroy(o)
  \/ \E l \in Level : Fall(o, l)
  \/ use_lamp(o) \/ use_candle(o) \/ use_torch(o) \/ light_cocktail(o)
  \/ catch_lit(o) \/ snuff_lit(o) \/ burn_faster(o)
  \/ \E p \in Obj : Refuel(o, p)

Next ==
  \/ \E o \in Obj : Objects(o)
  \/ Pay \/ Tick \/ run_timers
  \/ \E l \in Level : GotoLevel(l)
  \/ Arrive \/ dosave0 \/ dorecover

Spec == Init /\ [][Next]_vars

-----------------------------------------------------------------------------
(* Properties.                                                             *)

Queues == {timer_base, gsave.timers} \cup {file[l].timers : l \in Level}

(* Every variable keeps its type; fuel is never negative.                  *)
TypeOK ==
  /\ monstermoves \in Nat /\ uz \in Level
  /\ obj \in [Obj -> Struct]
  /\ \A q \in Queues : \A i \in DOMAIN q : q[i].arg \in Obj /\ q[i].timeout \in Nat
  /\ \A f \in {light_base, gsave.lights} \cup {file[l].lights : l \in Level} : f \in [Obj -> Nat]
  /\ phase \in {"play", "run", "arrive", "saved"}

(* Where timers and lights are kept, by name.                              *)
Stores == {<<"memory">>, <<"gsave">>} \cup {<<"file", l>> : l \in Level}

Store(s) ==
  CASE s[1] = "memory" -> [timers |-> timer_base, lights |-> light_base]
    [] s[1] = "gsave"  -> gsave
    [] s[1] = "file"   -> file[s[2]]

(* The timers and the lights of o, wherever they are.                      *)
TimersOf(o) == UNION {{s} \X OnArg(Store(s).timers, o) : s \in Stores}
LightsOf(o) == UNION {{s} \X (1 .. Store(s).lights[o]) : s \in Stores}

(* A lit object has exactly one light source, in memory or on file, and    *)
(* one timer that burns it down ("There had better not be a burn already   *)
(* running on the object"), unless it is magic.  What is not lit, or no    *)
(* longer there, has neither: otherwise del_light_source finds nothing, or *)
(* leaves a light that points to freed memory (begin_burn, end_burn,       *)
(* splitobj, merged, burn_object, dealloc_obj).                            *)
LitMeansBurning ==
  \A o \in Obj :
    /\ Cardinality(LightsOf(o)) = IF obj[o].lamplit THEN 1 ELSE 0
    /\ Cardinality(TimersOf(o)) = IF obj[o].lamplit /\ o \notin MagicLamps THEN 1 ELSE 0

(* Lights and timers are where their owners are: those on file belong to   *)
(* what stayed on that level, those in memory to what is on this one or    *)
(* goes with the hero (save_light_sources, save_timers).                   *)
KeptWithOwner ==
  \A o \in Obj :
    /\ \A l \in Level : (file[l].lights[o] > 0 \/ OnArg(file[l].timers, o) # {}) =>
         (obj[o].place \in {Floor(l), Buried(l)} /\ (l # uz \/ phase = "saved"))
    /\ (light_base[o] > 0 \/ OnArg(timer_base, o) # {}) =>
         obj[o].place \notin {Floor(l) : l \in Level \ {uz}} \cup {Buried(l) : l \in Level \ {uz}}

(* The game can be saved whenever the hero plays: no light and no timer    *)
(* belongs to what is nowhere or on a bill (panic("obj_is_local")).        *)
SaveNeverPanics == phase = "play" => OwnersKnown(World)

(* The fuel o has left, lit or not, whether or not its timer is in memory. *)
Left(o) ==
  LET due == UNION {{q[i].timeout : i \in OnArg(q, o)} : q \in Queues} IN
  IF due = {} THEN obj[o].age ELSE Max({0, obj[o].age + Min(due) - monstermoves})

InUse(o) == obj[o].place \notin {Gone, OnBill}

(* Something is merged into something else.                                *)
Merges == \E o \in Obj : obj[o].place # Gone /\ obj'[o].place = Gone

(* A lit object loses a turn's fuel a turn, wherever it and the hero are,  *)
(* through all stages, splits, merges, saves and changes of level, and an  *)
(* unlit one none; being lit or put out costs nothing.  A torch may be     *)
(* used up faster (begin_burn, cleanup_burn, burn_object, burn_faster).    *)
FuelIsTime ==
  [][\A o \in Obj \ MagicLamps :
       (InUse(o) /\ InUse(o)' /\ (obj'[o].lamplit \/ (obj[o].lamplit /\ ~Merges))) =>
         \/ Left(o)' = Max({0, Left(o) - IF obj[o].lamplit THEN monstermoves' - monstermoves ELSE 0})
         \/ o \in Torches /\ obj[o].lamplit /\ Left(o)' = Left(o) - 1]_vars

=============================================================================
