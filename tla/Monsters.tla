------------------------------- MODULE Monsters -------------------------------
(***************************************************************************)
(* The monsters of a level, in the places the code keeps them: the chain   *)
(* fmon, the map level.monsters, which holds a monster at its head and at  *)
(* each square of its tail, the tails of long worms (worm.c), and the      *)
(* hero's steed, which is on the chain and not on the map.  They are       *)
(* created, move, are moved, change shape, are cut in two, die, go to      *)
(* another level and come back with it, and each such operation has to     *)
(* keep all of these in step.  The dead stay on the chain until the end of *)
(* movemon's pass over it.                                                 *)
(*                                                                         *)
(* Two levels.  Helpers of the code that choose at random are operators    *)
(* from a world to the set of worlds they may leave.                       *)
(***************************************************************************)
EXTENDS Chains, FiniteSetsExt

CONSTANTS
  Mon,        \* the structs
  None,       \* no monster: a null pointer
  Hero,       \* in place of movemon's loop pointer: it is the hero's turn
  Square,     \* the squares of a level; 0 is off the map
  Near,       \* [Square -> SUBSET Square]: those next to it
  MaxWorms,   \* MAX_NUM_WORMS - 1, the slots for tails
  MaxTail,    \* bound: on the length of a tail
  Stairs,     \* where the hero arrives on a level
  Deeds       \* which of the deeds below happen

ASSUME LevelIsFinite ==
  /\ IsFiniteSet(Mon) /\ IsFiniteSet(Square) /\ None \notin Mon /\ Hero \notin Mon \cup {None}
  /\ Square \subseteq Nat \ {0} /\ Near \in [Square -> SUBSET Square] /\ Stairs \subseteq Square
  /\ \A p \in Square : p \notin Near[p] /\ \A q \in Near[p] : p \in Near[q]
  /\ MaxWorms \in Nat /\ MaxTail \in Nat

ASSUME DeedsAreKnown ==
  Deeds \subseteq {"worms", "ride", "polymorph", "clone", "displace", "engulf", "levels", "revive", "nearto",
                   "mishaps", "squeeze", "limbo"}

VARIABLES
  mon,        \* the structs
  fmon,       \* the chain
  migrating,  \* migrating_mons
  grid,       \* level.monsters
  wsegs,      \* wtails to wheads of each slot, <<>> when NULL
  usteed,
  hero,       \* where the hero is
  purge,      \* iflags.purge_monsters
  away,       \* the other level, as it was saved
  next        \* movemon's nmtmp, or Hero

vars == <<mon, fmon, migrating, grid, wsegs, usteed, hero, purge, away, next>>

Shapes == {"worm", "horse"}
Struct == [alive : BOOLEAN, x : Square \cup {0}, shape : Shapes, wormno : 0 .. (MaxWorms + MaxTail),
           old : Shapes, timer : BOOLEAN]
NoMon  == [alive |-> FALSE, x |-> 0, shape |-> "horse", wormno |-> 0, old |-> "horse", timer |-> FALSE]

World == [mon |-> mon, fmon |-> fmon, migrating |-> migrating, grid |-> grid, wsegs |-> wsegs,
          usteed |-> usteed, hero |-> hero, purge |-> purge, away |-> away]

Become(w) ==
  /\ mon' = w.mon /\ fmon' = w.fmon /\ migrating' = w.migrating /\ grid' = w.grid /\ wsegs' = w.wsegs
  /\ usteed' = w.usteed /\ hero' = w.hero /\ purge' = w.purge /\ away' = w.away

(* Each of a set of worlds, through an operation with several outcomes.    *)
Each(worlds, Op(_)) == UNION {Op(w) : w \in worlds}

Chained(w) == ToSet(w.fmon) \cup ToSet(w.migrating) \cup ToSet(w.away.fmon)
Free(w)    == Mon \ Chained(w)
Living(w)  == {m \in ToSet(w.fmon) : w.mon[m].alive}

-----------------------------------------------------------------------------
(* The map.                                                                *)

remove_monster(w, p) == [w EXCEPT !.grid[p] = None]

place_monster(w, m, p) ==
  IF m = w.usteed \/ ~w.mon[m].alive THEN w ELSE [w EXCEPT !.mon[m].x = p, !.grid[p] = m]

Clear(w, squares) == [w EXCEPT !.grid = over([p \in squares |-> None], @)]

(* Not a square of its own, for a worm.                                    *)
goodpos(w, m, p) ==
  /\ p # w.hero \/ m = w.usteed
  /\ w.grid[p] = None \/ (w.grid[p] = m /\ w.mon[m].wormno = 0)

(* The code takes one of the nearest.                                      *)
enexto(w, m) == {p \in Square : goodpos(w, m, p)}

-----------------------------------------------------------------------------
(* worm.c.  The list of segments goes from the tip of the tail to a dummy  *)
(* under the head.                                                         *)

Slots    == 1 .. MaxWorms
segs(w, m) == w.wsegs[w.mon[m].wormno]

get_wormno(w) == LET free == {n \in Slots : w.wsegs[n] = <<>>} IN IF free = {} THEN 0 ELSE Min(free)

(* All but the dummy.                                                      *)
count_wsegs(w, m) == Len(segs(w, m)) - 1

(* The squares a monster is on.                                            *)
Body(w, m) == {w.mon[m].x} \cup (IF w.mon[m].wormno = 0 THEN {} ELSE ToSet(segs(w, m)))

Nowhere(n) == [i \in 1 .. n |-> 0]

initworm(w, m, count) ==
  [w EXCEPT !.wsegs[w.mon[m].wormno] = IF count = 0 THEN <<w.mon[m].x>> ELSE Nowhere(count + 1)]

toss_wsegs(w, s) == Clear(w, ToSet(s) \ {0})

shrink_worm(w, n) ==
  IF Len(w.wsegs[n]) = 1 THEN w
  ELSE [toss_wsegs(w, <<Head(w.wsegs[n])>>) EXCEPT !.wsegs[n] = Tail(w.wsegs[n])]

(* The head has moved already, and a segment takes its place.              *)
worm_move(w, m, grows) ==
  LET n == w.mon[m].wormno
      v == [w EXCEPT !.grid[Last(w.wsegs[n])] = m, !.wsegs[n] = Append(w.wsegs[n], w.mon[m].x)]
  IN  IF grows THEN v ELSE shrink_worm(v, n)

worm_nomove(w, m) == shrink_worm(w, w.mon[m].wormno)

(* Mutant: the slot is kept.                                               *)
wormgone_kept(w, m) == [toss_wsegs(w, segs(w, m)) EXCEPT !.mon[m].wormno = 0]

(* The head goes from the map with the tail.                               *)
wormgone(w, m) ==
  [toss_wsegs(w, segs(w, m)) EXCEPT !.mon[m].wormno = 0, !.wsegs[w.mon[m].wormno] = <<>>]

remove_worm(w, m) == Clear(w, ToSet(segs(w, m)))

place_wsegs(w, m) ==
  [w EXCEPT !.grid = over([p \in ToSet(Front(segs(w, m))) |-> m], @)]

(* A tail is laid from the head at p on, each segment on a good square     *)
(* next to the one before.  When there is none, what is not laid yet of    *)
(* the old tail is tossed, which clears the squares it had.                *)
unlaid(s, t) == SubSeq(s, Len(t) + 1, Len(s))

tails(w, m, p) ==
  LET s == segs(w, m) IN
  {t \in UNION {[1 .. n -> Square] : n \in 1 .. Len(s)} :
     /\ Last(t) = p /\ IsInjective(t)
     /\ \A i \in 1 .. Len(t) - 1 : t[i] \in Near[t[i + 1]] /\ goodpos(w, m, t[i])
     /\ "mishaps" \in Deeds \/ ToSet(unlaid(s, t)) \subseteq {0}}

place_worm_tail_randomly(w, m, p) ==
  IF segs(w, m) = <<>> THEN {w}
  ELSE {toss_wsegs(place_wsegs([w EXCEPT !.wsegs[w.mon[m].wormno] = t], m), unlaid(segs(w, m), t)) : t \in tails(w, m, p)}

-----------------------------------------------------------------------------
(* Putting a monster somewhere.                                            *)

(* Mutant: of a worm only the head is picked up.                           *)
rloc_to_head(w, m, p) ==
  LET picked == IF w.mon[m].x = 0 THEN w ELSE remove_monster(w, w.mon[m].x)
      placed == place_monster(picked, m, p)
  IN  IF p = w.mon[m].x THEN {w}
      ELSE IF w.mon[m].wormno # 0 THEN place_worm_tail_randomly(placed, m, p) ELSE {placed}

rloc_to(w, m, p) ==
  LET picked == IF w.mon[m].x = 0 THEN w
                ELSE IF w.mon[m].wormno # 0 THEN remove_worm(w, m) ELSE remove_monster(w, w.mon[m].x)
      placed == place_monster(picked, m, p)
  IN  IF p = w.mon[m].x THEN {w}
      ELSE IF w.mon[m].wormno # 0 THEN place_worm_tail_randomly(placed, m, p) ELSE {placed}

rloc(w, m) == UNION {rloc_to(w, m, p) : p \in enexto(w, m)}

mnexto(w, m) == IF m = w.usteed THEN {[w EXCEPT !.mon[m].x = w.hero]} ELSE rloc(w, m)

(* Where it is to be if that is good, or near there.                       *)
nears(w, m, p) == IF w.mon[m].x = p THEN {w} ELSE IF goodpos(w, m, p) THEN rloc_to(w, m, p) ELSE rloc(w, m)

(* With move_other: whoever is there makes room.                           *)
mnearto(w, m, p) ==
  LET other == w.grid[p]
      cleared == IF w.mon[other].wormno # 0 THEN remove_worm(w, other) ELSE remove_monster(w, p)
  IN  IF w.mon[m].x = p \/ other = None THEN nears(w, m, p)
      ELSE Each(nears(cleared, m, p), LAMBDA v : nears([v EXCEPT !.mon[other].x = 0], other, p))

(* Mutant: the steed is left behind.                                       *)
u_on_newpos_alone(w, p) == [w EXCEPT !.hero = p]

u_on_newpos(w, p) == IF w.usteed = None THEN [w EXCEPT !.hero = p] ELSE [w EXCEPT !.hero = p, !.mon[w.usteed].x = p]

teleds(w, p) == u_on_newpos(w, p)

-----------------------------------------------------------------------------
(* The chain.                                                              *)

relmon(w, m) == [remove_monster(w, w.mon[m].x) EXCEPT !.fmon = unlinked(w.fmon, {m})]

(* Alive, off the map, at the front of the chain.                          *)
newmonst(w, m, shape) == [w EXCEPT !.mon[m] = [NoMon EXCEPT !.alive = TRUE, !.shape = shape, !.old = shape], !.fmon = <<m>> \o w.fmon]

(* A tail of up to MaxTail for one that has just become a long worm.       *)
grows_tail(w, m) ==
  LET n == get_wormno(w)
      v == [w EXCEPT !.mon[m].wormno = n]
  IN  IF w.mon[m].shape # "worm" \/ n = 0 THEN {w}
      ELSE UNION {LET i == initworm(v, m, count)
                  IN  IF count = 0 THEN {i} ELSE place_worm_tail_randomly(i, m, w.mon[m].x) : count \in 0 .. MaxTail}

makemon(w, m, shape, p) == grows_tail(place_monster(newmonst(w, m, shape), m, p), m)

(* The struct kept with a corpse takes the place of the one just made.     *)
replmon(w, m, by) ==
  LET v == relmon([w EXCEPT !.mon[by] = w.mon[m]], m)
      p == IF m = w.usteed THEN v ELSE place_monster(v, by, w.mon[m].x)
      q == IF w.mon[m].wormno # 0 THEN place_wsegs(p, by) ELSE p
  IN  [q EXCEPT !.fmon = <<by>> \o q.fmon, !.mon[m] = NoMon, !.usteed = IF w.usteed = m THEN by ELSE w.usteed]

clone_mon(w, m, by, p) ==
  place_monster([w EXCEPT !.mon[by] = [w.mon[m] EXCEPT !.timer = FALSE], !.fmon = <<by>> \o w.fmon], by, p)

(* Mutant: the dead are counted when they are freed.                       *)
m_detach_uncounted(w, m) ==
  LET v == [remove_monster(w, w.mon[m].x) EXCEPT !.mon[m].alive = FALSE, !.mon[m].timer = FALSE]
  IN  IF w.mon[m].wormno # 0 THEN wormgone(v, m) ELSE v

m_detach(w, m) ==
  LET v == [remove_monster(w, w.mon[m].x) EXCEPT !.mon[m].alive = FALSE, !.mon[m].timer = FALSE, !.purge = w.purge + 1]
  IN  IF w.mon[m].wormno # 0 THEN wormgone(v, m) ELSE v

(* The steed stays and the hero gets a square next to it; or, when there   *)
(* is none, or something holds the hero, the steed is put elsewhere.       *)
dismount_steed(w) ==
  LET m == w.usteed
      v == [w EXCEPT !.usteed = None]
      placed == place_monster(v, m, w.hero)
      spots  == {p \in Near[w.hero] : placed.grid[p] = None}
  IN  IF ~w.mon[m].alive THEN {v} ELSE {teleds(placed, p) : p \in spots} \cup rloc(placed, m)

(* Mutant: the tail of the old form is left behind.                        *)
newcham_tailed(w, m, shape) ==
  LET formed == [w EXCEPT !.mon[m].shape = shape, !.mon[m].wormno = 0]
      ridden == w.usteed = m /\ shape = "worm"
  IN  Each(IF ridden THEN dismount_steed(formed) ELSE {formed}, LAMBDA v : grows_tail(v, m))

(* Nothing happens to one that has the form already.  Another throws its   *)
(* tail away, takes the form, throws off a hero who cannot ride that, and  *)
(* may grow a tail.                                                        *)
newcham(w, m, shape) ==
  LET bare   == IF w.mon[m].wormno # 0 THEN place_monster(wormgone(w, m), m, w.mon[m].x) ELSE w
      formed == [bare EXCEPT !.mon[m].shape = shape]
      ridden == w.usteed = m /\ shape = "worm"
  IN  Each(IF ridden THEN dismount_steed(formed) ELSE {formed}, LAMBDA v : grows_tail(v, m))

mongone(w, m) ==
  LET dead == [w EXCEPT !.mon[m].alive = FALSE]
  IN  Each(IF m = w.usteed THEN dismount_steed(dead) ELSE {dead}, LAMBDA v : {m_detach(v, m)})

(* A polymorphed one is itself again, unless its kind is no more.          *)
mondead(w, m) ==
  mongone(w, m)
  \cup (IF ~w.mon[m].timer THEN {} ELSE newcham([w EXCEPT !.mon[m].timer = FALSE], m, w.mon[m].old))

dmonsfree(w) ==
  LET dead == ToSet(w.fmon) \ Living(w) IN
  [w EXCEPT !.mon = over([m \in dead |-> NoMon], @), !.fmon = unlinked(w.fmon, dead), !.purge = 0]

(* cutworm, at a segment p of m.  The tip is lost; or what is behind p     *)
(* dies, or lives on as a worm of its own.                                 *)
cutworm(w, m, p) ==
  LET n   == w.mon[m].wormno
      i   == SelectInSeq(w.wsegs[n], LAMBDA q : q = p)
      new == SubSeq(w.wsegs[n], 1, i)
      v   == [w EXCEPT !.wsegs[n] = SubSeq(w.wsegs[n], i + 1, Len(w.wsegs[n]))]
      n2  == get_wormno(v)
  IN  IF i = 1 THEN {shrink_worm(w, n)}
      ELSE {toss_wsegs(v, new)}
           \cup (IF n2 = 0 THEN {}
                 ELSE {place_wsegs([clone_mon(remove_monster(v, p), m, by, p) EXCEPT !.mon[by].wormno = n2, !.wsegs[n2] = new], by)
                         : by \in Free(w)})

-----------------------------------------------------------------------------
(* Levels.                                                                 *)

(* keepdogs and migrate_to_level: in wormno goes the length of the tail.   *)
leaves(w, gone) ==
  LET worms == {m \in gone : w.mon[m].wormno # 0}
      bare(m) == [w.mon[m] EXCEPT !.x = 0, !.wormno = IF m \in worms THEN count_wsegs(w, m) ELSE 0]
      slots == {w.mon[m].wormno : m \in worms}
  IN  [Clear(w, UNION {Body(w, m) : m \in gone})
         EXCEPT !.mon = over([m \in gone |-> bare(m)], @), !.fmon = unlinked(w.fmon, gone),
                !.wsegs = over([n \in slots |-> <<>>], @)]

(* Mutant: it stays on the chain of the level.                             *)
migrate_to_level_chained(w, m) == [leaves(w, {m}) EXCEPT !.fmon = w.fmon, !.migrating = <<m>> \o w.migrating]

migrate_to_level(w, m) == [leaves(w, {m}) EXCEPT !.migrating = <<m>> \o w.migrating]

(* mydogs has the last that left in front.                                 *)
keepdogs(w, followers) ==
  LET gone == followers \cup ({w.usteed} \ {None})
  IN  [world |-> leaves(w, gone), mydogs |-> Reverse(unlinked(w.fmon, Mon \ gone))]

(* Mutant: a worm comes with its tail on the map of the level it left.     *)
mon_arrive_slot(w, m, with_you) ==
  LET v == [w EXCEPT !.fmon = <<m>> \o w.fmon]
  IN  IF m = w.usteed THEN {v}
      ELSE IF with_you THEN (IF v.grid[v.hero] = None THEN rloc_to(v, m, v.hero) ELSE {}) \cup mnexto(v, m)
      ELSE rloc(v, m)

mon_arrive(w, m, with_you) ==
  LET n == IF w.mon[m].shape = "worm" THEN get_wormno(w) ELSE 0
      u == [w EXCEPT !.fmon = <<m>> \o w.fmon, !.mon[m].wormno = n]
      v == IF n = 0 THEN u ELSE initworm(u, m, w.mon[m].wormno)
  IN  IF m = w.usteed THEN {v}
      ELSE IF with_you THEN (IF v.grid[v.hero] = None THEN rloc_to(v, m, v.hero) ELSE {}) \cup mnexto(v, m)
      ELSE rloc(v, m)

Arrive(worlds, chain, with_you) ==
  FoldLeft(LAMBDA ws, m : Each(ws, LAMBDA w : mon_arrive(w, m, with_you)), worlds, chain)

losedogs(w, mydogs) == Arrive(Arrive({[w EXCEPT !.migrating = <<>>]}, mydogs, TRUE), w.migrating, FALSE)

savelev(w) == IF w.purge = 0 THEN w ELSE dmonsfree(w)

(* Each of the chain is placed on the map, and its tail.                   *)
getlev(w, lev) ==
  LET v     == [w EXCEPT !.fmon = lev.fmon, !.wsegs = lev.wsegs]
      at(p) == {i \in DOMAIN lev.fmon : v.mon[lev.fmon[i]].alive /\ p \in Body(v, lev.fmon[i])}
  IN  [v EXCEPT !.grid = over([p \in DOMAIN @ |-> IF at(p) = {} THEN None ELSE lev.fmon[Max(at(p))]], @)]

(* Where the hero arrives there may be someone: one of the two makes room. *)
makes_room(w) ==
  IF w.grid[w.hero] = None THEN {w}
  ELSE {u_on_newpos(w, p) : p \in {q \in Near[w.hero] : w.grid[q] = None}} \cup mnexto(w, w.grid[w.hero])

goto_level(w, followers, p) ==
  LET kept  == keepdogs(w, followers)
      saved == savelev(kept.world)
      there == getlev([saved EXCEPT !.away = [fmon |-> saved.fmon, wsegs |-> saved.wsegs]], w.away)
  IN  Each(losedogs(u_on_newpos(there, p), kept.mydogs), makes_room)

(* dosave and dorecover: the steed is placed with the others, and then     *)
(* taken off the map by restlevelstate.                                    *)
dorecover(w) ==
  LET s == savelev(w)
      g == [getlev([s EXCEPT !.usteed = None], s) EXCEPT !.usteed = w.usteed]
  IN  IF w.usteed = None THEN g ELSE remove_monster(g, g.mon[w.usteed].x)

-----------------------------------------------------------------------------
(* What the hero does.                                                     *)

Init ==
  /\ mon = [m \in Mon |-> NoMon] /\ fmon = <<>> /\ migrating = <<>>
  /\ grid = [p \in Square \cup {0} |-> None] /\ wsegs = [n \in Slots |-> <<>>]
  /\ usteed = None /\ hero \in Stairs /\ purge = 0
  /\ away = [fmon |-> <<>>, wsegs |-> [n \in Slots |-> <<>>]]
  /\ next = Hero

Does(deed) == deed \in Deeds
Turn       == next = Hero
Some(worlds) == \E w \in worlds : Become(w)
Stays      == UNCHANGED next

OnMap(m)   == m \in Living(World) /\ mon[m].x # 0 /\ m # usteed
Beside(m)  == OnMap(m) /\ \E p \in Near[hero] : grid[p] = m

Create(m, shape, p) ==
  /\ Turn /\ m \in Free(World) /\ goodpos(World, m, p)
  /\ shape = "worm" => Does("worms")
  /\ Some(makemon(World, m, shape, p)) /\ Stays

(* montraits.                                                              *)
Revive(m, by, shape, p) ==
  /\ Turn /\ Does("revive") /\ {m, by} \subseteq Free(World) /\ m # by /\ goodpos(World, m, p)
  /\ shape = "worm" => Does("worms")
  /\ Some({replmon(w, m, by) : w \in makemon(World, m, shape, p)}) /\ Stays

Walk(p) ==
  /\ Turn /\ p \in Near[hero] /\ grid[p] = None
  /\ Become(u_on_newpos(World, p)) /\ Stays

(* A pet that is big, or laden, does not get into a tight corner.          *)
MayFit(fits) == fits \/ Does("squeeze")

(* domove, with a pet or for a displacer.  The hero has moved, with the    *)
(* steed, when it turns out that the pet does not fit where the hero was.  *)
Swap(m, fits) ==
  /\ Turn /\ Beside(m) /\ mon[m].shape # "worm" /\ mon[m].x \in Near[hero]
  /\ MayFit(fits)
  /\ LET w == u_on_newpos(World, mon[m].x) IN
     Become(IF fits THEN place_monster(remove_monster(w, mon[m].x), m, hero) ELSE [w EXCEPT !.hero = hero])
  /\ Stays

(* Killed, by the hero or in any other way, or made to disappear.          *)
Kill(m, gone) ==
  /\ Turn /\ m \in Living(World)
  /\ Some(IF gone THEN mongone(World, m) ELSE mondead(World, m)) /\ Stays

Cut(m, p) ==
  /\ Turn /\ p \in Near[hero] /\ grid[p] = m /\ mon[m].wormno # 0 /\ mon[m].x # p
  /\ Some(cutworm(World, m, p)) /\ Stays

(* rloc, mnexto; with a steed it is the hero who is teleported.            *)
Teleport(m) ==
  /\ Turn /\ m \in Living(World)
  /\ Some(IF m = usteed THEN {teleds(World, p) : p \in {q \in Square : grid[q] = None}} ELSE rloc(World, m)) /\ Stays

SendsNear(m, p) ==
  /\ Turn /\ Does("nearto") /\ OnMap(m) /\ mon[m].shape # "worm" /\ p # hero
  /\ Some(mnearto(World, m, p)) /\ Stays

(* mon_spec_poly: the shock may kill the new form.                         *)
polymorphs(w, m, shape) ==
  LET formed == newcham(w, m, shape) IN
  {[v EXCEPT !.mon[m].timer = v.mon[m].alive] : v \in formed} \cup Each(formed, LAMBDA v : mondead(v, m))

Polymorph(m, shape) ==
  /\ Turn /\ Does("polymorph") /\ m \in Living(World) /\ shape # mon[m].shape
  /\ Some(polymorphs(World, m, shape)) /\ Stays

(* unpoly_mon, the timer.  It is not stopped while the monster is between  *)
(* two levels.                                                             *)
unpoly_mon(w, m) ==
  LET v == [w EXCEPT !.mon[m].timer = FALSE]
  IN  mondead(v, m) \cup (IF v.mon[m].shape = v.mon[m].old THEN {} ELSE newcham(v, m, v.mon[m].old))

Expires(m) == mon[m].timer /\ (m \in Living(World) \/ (Does("limbo") /\ m \in ToSet(migrating)))

Unpoly(m) ==
  /\ Turn /\ Expires(m)
  /\ Some(unpoly_mon(World, m)) /\ Stays

Mount(m) ==
  /\ Turn /\ Does("ride") /\ usteed = None /\ Beside(m) /\ mon[m].shape = "horse"
  /\ Become(teleds([remove_monster(World, mon[m].x) EXCEPT !.usteed = m], mon[m].x)) /\ Stays

Dismount ==
  /\ Turn /\ usteed # None
  /\ Some(dismount_steed(World)) /\ Stays

Clone(m, by, p) ==
  /\ Turn /\ Does("clone") /\ OnMap(m) /\ mon[m].shape # "worm" /\ by \in Free(World) /\ goodpos(World, m, p) /\ grid[p] = None
  /\ Become(clone_mon(World, m, by, p)) /\ Stays

Goto(followers, p) ==
  /\ Turn /\ Does("levels") /\ \A m \in followers : OnMap(m) /\ mon[m].x \in Near[hero]
  /\ Some(goto_level(World, followers, p)) /\ Stays

SaveAndRestore ==
  /\ Turn /\ Does("levels")
  /\ Become(dorecover(World)) /\ Stays

-----------------------------------------------------------------------------
(* movemon: each of the chain in turn.                                     *)

After(chain, m) == LET i == SelectInSeq(chain, LAMBDA k : k = m) IN IF i < Len(chain) THEN chain[i + 1] ELSE None

(* Mutant: the next is looked up when this one has moved.                  *)
nmtmp_late(w, m) == After(IF m \in ToSet(w.migrating) THEN w.migrating ELSE w.fmon, m)

nmtmp(w, m) == After(fmon, m)

StartOfTurn ==
  /\ Turn
  /\ next' = IF fmon = <<>> THEN None ELSE Head(fmon)
  /\ UNCHANGED <<mon, fmon, migrating, grid, wsegs, usteed, hero, purge, away>>

EndOfTurn ==
  /\ next = None
  /\ Become(dmonsfree(World)) /\ next' = Hero

Moving(m)  == next = m /\ m \in Mon /\ mon[m].alive
Acts(m, worlds) == \E w \in worlds : Become(w) /\ next' = nmtmp(w, m)

(* The dead are passed over, and some do nothing.                          *)
Waits(m) ==
  /\ next = m /\ m \in Mon
  /\ Acts(m, {World})

(* m_move: onto p, with the tail.                                          *)
m_move(w, m, p) ==
  LET v == place_monster(remove_monster(w, w.mon[m].x), m, p)
  IN  IF w.mon[m].wormno = 0 THEN {v}
      ELSE {worm_move(v, m, grows) : grows \in (IF count_wsegs(w, m) < MaxTail THEN BOOLEAN ELSE {FALSE})}

Moves(m, p) ==
  /\ Moving(m) /\ OnMap(m) /\ p \in Near[mon[m].x] /\ goodpos(World, m, p)
  /\ Acts(m, m_move(World, m, p))

Cornered(m) ==
  /\ Moving(m) /\ OnMap(m) /\ mon[m].wormno # 0
  /\ Acts(m, {worm_nomove(World, m)})

(* It falls through a trap door, or takes the stairs.                      *)
LeavesLevel(m, p) ==
  /\ Moving(m) /\ Does("levels") /\ OnMap(m) /\ p \in Near[mon[m].x] /\ goodpos(World, m, p)
  /\ Acts(m, {migrate_to_level(w, m) : w \in m_move(World, m, p)})

(* mattacku: a hero who hides above falls, and it takes the square.        *)
HeroFalls(m, p) ==
  /\ Moving(m) /\ OnMap(m) /\ usteed = None /\ mon[m].x \in Near[hero] /\ grid[p] = None /\ p # hero
  /\ Acts(m, {teleds(w, p) : w \in m_move(World, m, hero)})

(* Whom it can attack: a monster at a square next to it, or the steed.     *)
Target(m, d) ==
  /\ Moving(m) /\ OnMap(m) /\ m # d
  /\ \/ OnMap(d) /\ \E p \in Near[mon[m].x] : grid[p] = d
     \/ d = usteed /\ hero \in Near[mon[m].x]

mdisplacem(w, m, d) ==
  LET v == remove_monster(remove_monster(w, w.mon[m].x), w.mon[d].x)
  IN  place_monster(place_monster(v, m, w.mon[d].x), d, w.mon[m].x)

(* The code lets a long worm be displaced that has lost its tail.          *)
HasNoTail(d) == mon[d].wormno = 0 \/ (Does("mishaps") /\ count_wsegs(World, d) = 0)

Displaces(m, d) ==
  /\ Does("displace") /\ Target(m, d) /\ OnMap(d) /\ mon[m].wormno = 0
  /\ HasNoTail(d)
  /\ Acts(m, {mdisplacem(World, m, d)})

(* One that comes back to life with a tail would be in the way.            *)
StaysDead(d) == ~mon[d].timer \/ Does("mishaps")

(* gulpmm: the attacker stands where the defender is on the chain, but not *)
(* on the map.                                                             *)
gulpmm(w, m, d) ==
  LET a == w.mon[m].x
      p == w.mon[d].x
      v == place_monster(remove_monster(w, a), m, p)
      both(u)    == place_monster(place_monster(u, m, a), d, p)
      digests(u) == IF u.mon[d].alive THEN both(u) ELSE place_monster(u, m, p)
      spits(u)   == IF u.mon[m].alive THEN both(u) ELSE place_monster(u, d, p)
  IN  {both(v)} \cup {digests(u) : u \in mondead(place_monster(remove_monster(v, p), d, p), d)}
                \cup {spits(u) : u \in mondead(v, m)}

Gulps(m, d) ==
  /\ Does("engulf") /\ Target(m, d) /\ OnMap(d) /\ mon[m].shape # "worm" /\ mon[d].shape # "worm"
  /\ StaysDead(m) /\ StaysDead(d)
  /\ Acts(m, gulpmm(World, m, d))

(* explmm: it is off the map while it does its damage.                     *)
explmm(w, m, d, dies) ==
  LET v == remove_monster(w, w.mon[m].x)
  IN  Each(IF dies THEN mondead(v, d) ELSE {v}, LAMBDA u : mondead(place_monster(u, m, w.mon[m].x), m))

Explodes(m, d, dies) ==
  /\ Does("engulf") /\ Target(m, d) /\ mon[m].shape # "worm" /\ StaysDead(d)
  /\ Acts(m, explmm(World, m, d, dies))

Kills(m, d) ==
  /\ Target(m, d)
  /\ Acts(m, mondead(World, d))

(* Of what a trap, a wand or an attack does.                               *)
Suffers(m) ==
  /\ Moving(m)
  /\ \/ Acts(m, mondead(World, m))
     \/ OnMap(m) /\ Acts(m, rloc(World, m))
     \/ Does("polymorph") /\ \E shape \in Shapes \ {mon[m].shape} : Acts(m, polymorphs(World, m, shape))

(* It summons another, or divides.                                         *)
Summons(m, by, p) ==
  /\ Moving(m) /\ OnMap(m) /\ Does("clone") /\ by \in Free(World) /\ goodpos(World, by, p)
  /\ Acts(m, makemon(World, by, "horse", p) \cup (IF mon[m].shape = "worm" THEN {} ELSE {clone_mon(World, m, by, p)}))

-----------------------------------------------------------------------------
HeroActs ==
  \/ \E m \in Mon, shape \in Shapes :
       \/ Polymorph(m, shape)
       \/ \E p \in Square : Create(m, shape, p) \/ \E by \in Mon : Revive(m, by, shape, p)
  \/ \E p \in Square : Walk(p)
  \/ \E m \in Mon : \/ \E yes \in BOOLEAN : Swap(m, yes) \/ Kill(m, yes)
                   \/ Teleport(m) \/ Unpoly(m) \/ Mount(m)
                   \/ \E p \in Square : Cut(m, p) \/ SendsNear(m, p) \/ \E by \in Mon : Clone(m, by, p)
  \/ Dismount \/ SaveAndRestore
  \/ \E followers \in SUBSET Mon, p \in Stairs : Goto(followers, p)

movemon ==
  \/ StartOfTurn \/ EndOfTurn
  \/ \E m \in Mon : \/ Waits(m) \/ Cornered(m) \/ Suffers(m)
                   \/ \E p \in Square : \/ Moves(m, p) \/ LeavesLevel(m, p) \/ HeroFalls(m, p)
                                        \/ \E by \in Mon : Summons(m, by, p)
                   \/ \E d \in Mon : \/ Displaces(m, d) \/ Gulps(m, d) \/ Kills(m, d)
                                     \/ \E dies \in BOOLEAN : Explodes(m, d, dies)

Next == HeroActs \/ movemon

Spec == Init /\ [][Next]_vars

-----------------------------------------------------------------------------
(* Properties.                                                             *)

TypeOK ==
  /\ mon \in [Mon -> Struct]
  /\ usteed \in Mon \cup {None} /\ hero \in Square /\ purge \in Nat /\ next \in Mon \cup {None, Hero}
  /\ grid \in [Square \cup {0} -> Mon \cup {None}]
  /\ IsInjective(fmon \o migrating \o away.fmon) /\ ToSet(fmon \o migrating \o away.fmon) \subseteq Mon

(* The map shows the living monsters of the chain, but for the steed, at   *)
(* the squares of their heads and tails, and nothing else; no two are on   *)
(* the same square, and none is where the hero is.                         *)
MapAgrees ==
  /\ \A p \in DOMAIN grid, m \in Mon : grid[p] = m <=> (m \in Living(World) \ {usteed} /\ p \in Body(World, m))
  /\ grid[hero] = None

(* A monster of the level whose wormno is set has a tail in that slot,     *)
(* which ends under its head and crosses itself nowhere (worm.c: wormno is *)
(* set without a tail!).                                                   *)
WormsHaveTails ==
  \A m \in Living(World) : mon[m].wormno # 0 =>
    /\ mon[m].shape = "worm" /\ mon[m].wormno \in Slots
    /\ segs(World, m) # <<>> /\ Last(segs(World, m)) = mon[m].x /\ IsInjective(segs(World, m))

(* Whatever is cut, grows back, dies, leaves or changes shape, no slot is  *)
(* lost and none is shared: each in use is that of one living monster.     *)
TailsAreOwned ==
  \A n \in Slots : wsegs[n] # <<>> => Cardinality({m \in Living(World) : mon[m].wormno = n}) = 1

(* dmonsfree frees as many as have died since it last ran (dmonsfree: %d   *)
(* removed doesn't match %d pending).                                      *)
PurgeAgrees == purge = Cardinality({m \in ToSet(fmon) : ~mon[m].alive})

(* The hero and the steed are in the same place (dungeon.c: ridden steed   *)
(* always shares hero's location), and it is alive and on the chain.       *)
SteedInStep == usteed # None => usteed \in Living(World) /\ mon[usteed].x = hero

(* Each monster that was on the chain when movemon began, and no other,    *)
(* gets its turn, once, whatever the others do to it and to the chain.     *)
Due(m) == IF m \in Mon /\ m \in ToSet(fmon)
          THEN {k \in ToSet(fmon) : SelectInSeq(fmon, LAMBDA i : i = k) >= SelectInSeq(fmon, LAMBDA i : i = m)} ELSE {}

HandlesEach == [][next # Hero /\ next # None => Due(next)' = Due(next) \ {next}]_vars
=============================================================================
