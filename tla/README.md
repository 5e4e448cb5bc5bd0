# A verification of SLASH'EM 9 in TLA+

SLASH'EM 9 is a single-player game, 157 000 lines of C, a descendant of NetHack 3.4.3. This directory holds TLA+
models of the parts of it whose state outlives a call and where the order of steps matters, the TLC configurations
that check them on small instances, and proofs of what holds for every size. Paths are relative to the repository's
root with its own `src/` left out: `src/timeout.c:2012` is line 2012 of the file that PROJECT.json calls
`src/src/timeout.c`. PROJECT.json has, for every definition, the lines it models.

Contents: [the system](#the-system) · [what is hard](#what-is-hard-in-it) · [modules](#modules) ·
[Timers](#timers) · [Burn](#burn) · [Bill](#bill) · [Monsters](#monsters) · [Checkpoint](#checkpoint) · [proofs](#proofs) · [what the code does otherwise than it
says](#what-the-code-does-otherwise-than-it-says) · [not modelled](#not-modelled) · [plan](#plan)

## The system

One process, one thread, one player. `moveloop` (allmain.c) takes turns: the hero acts, the monsters act
(`movemon`), the turn ends (`nh_timeout`, `run_timers`, regions, regeneration). The only asynchronous events are
signals: SIGHUP and SIGXCPU enter `hangup`, which saves the game wherever the program was. One level is in
memory; the others are in files, and so is a checkpoint of the rest of the game. What makes it a system rather
than a calculation is that structures are linked to each other, and that the links are cut and restored when
levels come and go.

| component | state it keeps | operations | talks to | what makes it correct |
|---|---|---|---|---|
| timer package (timeout.c) | `timer_base`, an ordered list; `obj->timed` | start, stop, remove, move, split; `run_timers`; save, restore, relink | owners by pointer, callbacks by table | ordered; the counts agree; a timer lives where its owner does; no duplicates |
| object allocation and chains (mkobj.c, invent.c) | `obj->where` and nine kinds of chain | create, extract, place, split, merge, replace, reallocate, free | timers, lights, shop bill, worn items | an object is on one chain; freed ones have no timers, lights or bill entries |
| corpses, decay, burial (mkobj.c, pickup.c, dig.c, do.c) | which decay timer runs | ice box in and out, ice, burial, revival, mold | timers, monsters | a corpse has one end ahead of it |
| stacking (invent.c) | `quan` | `merged`, `mergable`, `useup` | timers, shops | nothing that differs is merged |
| object polymorph, revival (zap.c) | `oldtyp`, UNPOLY timers | `poly_obj`, `revive`, `cancel_item` | objects, timers, shops | the new object takes all roles of the old |
| monster chains (mon.c, makemon.c, dog.c) | `fmon`, `migrating_mons`, `mydogs`, dead monsters with `mhp < 1` | create, detach, replace, purge, migrate, arrive | timers, objects, worms, lights | dead monsters are unlinked once, and never used after |
| level change, migration (do.c, dog.c, mkobj.c) | `u.uz`, migrating chains | `goto_level`, `keepdogs`, `losedogs`, `obj_delivery` | all of the above, level files | everything is on one level, or on its way to one |
| save and restore (save.c, restore.c) | the save file; id maps | `savelev`, `getlev`, `dosave0`, `dorecover` | all of the above | what comes back is what was saved; pointers are relinked |
| lock files and checkpoints (files.c, save.c, unixunix.c, util/recover.c) | level files, file 0, the save file; `havestate`, `LFILE_EXISTS` | `savestateinlock`, `dosave0`, `clearlocks`, `hangup`, recover | level change, save | a game survives crashes and hangups, and comes back once |
| light sources, burning (light.c, timeout.c, apply.c) | `light_base`, `lamplit`, BURN_OBJECT timers | `begin_burn`, `end_burn`, new, delete, split, merge, save, relink | timers, objects | a lit object has one light and one timer, an unlit one none |
| shops (shk.c, shknam.c) | the bill, `unpaid`, debit, credit, `billobjs` | add, split, sub, pay, usage, rob | objects, stacking, `obfree` | an object is unpaid iff it is on a bill; nothing is billed twice |
| regions (region.c) | gas clouds with callbacks and time to live | create, run, enter, leave, save | monsters by id | whoever is inside is noted as inside |
| long worms (worm.c) | `wtails`, `wheads`: a list of segments per slot; `wormno` | grow, cut, move, place, toss | monster chains, map, level change | each slot in use is one living worm's, which is on the map wherever its segments are |
| steeds (steed.c) | `u.usteed`, on the chain and not on the map | mount, dismount, move along | monsters, hero, save | the steed is where the hero is |
| vault guard (vault.c), leashes, ball (apply.c, ball.c) | a fake corridor; a few links between hero and monster or object | summon, follow, clear; tie, drag | monsters, level change | the links are cut when an end disappears |
| worn, wielded, applied items (worn.c, do_wear.c, wield.c) | `owornmask`, delayed `afternmv` | put on, take off, interrupted | objects | a worn object is carried, one per slot |
| traps, doors, drawbridges, locks (trap.c, lock.c, dbridge.c) | terrain, traps, an interrupted lock-picking | set off, open, destroy | objects, monsters | what is destroyed is no longer referred to |
| quest, temples, minions, were (quest.c, priest.c, minion.c, were.c, wizard.c) | flags set once | speak, bribe, summon | monsters | story flags change in order |
| hero (allmain.c, attrib.c, exper.c, spell.c, tech.c, potion.c, eat.c, pray.c, polyself.c) | `u`, intrinsics with timeouts | turn, gain, lose, cast | everything | arithmetic in range |
| combat, monster movement (uhitm.c, mhitu.c, mhitm.c, monmove.c, dogmove.c, muse.c) | none of its own | one attack or move; swallow, explode, displace | monsters, map, objects | no use of a dead attacker or defender; whoever is picked up is put down |
| level generation, overview (mklev.c, mkmaze.c, mkmap.c, sp_lev.c, rect.c, dungeon.c) | the level being made; free rectangles | make, join, place | objects, monsters | rooms are disjoint and joined |
| bones, score (bones.c, topten.c, end.c) | bones and record files | save, get, rank | level files | identity of the dead hero is removed |
| vision, display, detection, messages, options, naming | derived screen state; text | recompute, format | window port | geometry, wording |
| random numbers, tables (rnd.c, objects.c, monst.c, role.c) | the generator's state | draw | – | tables well formed |
| window ports (win/tty, win/curses, win/proxy), scripting (s7), regular expressions (libtre) | terminal; vendored code | – | – | – |
| build tools (util/), start-up (sys/unix) | – | parse level descriptions; parse options | – | – |

PROJECT.json lists the same components file by file with what is modelled of each.

## What is hard in it

There are no threads. What a test would hardly reach is, in order of how much of it there is:

- **Stale links**: a timer, a light, a bill entry or a monster id that refers to what has been freed, merged,
  replaced, polymorphed or left on another level. The damage shows hundreds of turns later.
- **Long sequences of legal calls**: decay of a corpse is stopped and restarted by six places that know nothing of
  each other; objects are split, merged and replaced while timers run.
- **Two records of one fact**: what is unpaid and the shopkeeper's bill, the chain of monsters and the map, a worm's
  number and its tail, the steed's square and the hero's. Each is written in a dozen files.
- **Order at level change, save and restore**: timers, monsters and objects are divided between what goes along
  and what stays, written in one order and put together in another.
- **Crashes and hangups between two file operations**.
- **Callbacks that change what the loop that calls them walks**: `run_timers`, `movemon`, `dmonsfree`.
- **Boundaries**: an ice box left for so long that what is left of the rot is negative.

The hazards in PROJECT.json give each at its line with the properties that would catch it going wrong.

## Modules

| module | what it is |
|---|---|
| `Chains` | linked lists as sequences: what unlinking leaves; a function with what another says |
| `TimerQueue` | the operations on the timer list, as pure operators on sequences |
| `Timers` | the timer package with its owners: state machine over objects, monsters, levels, level change, save, restore |
| `MCTimers` | symmetry sets for TLC; four configurations `Timers*.cfg` |
| `Burn` | light sources and BURN_OBJECT timers, on the same list: state machine over what burns |
| `MCBurn` | symmetry set; two configurations `Burn*.cfg` |
| `Bill` | a shop: unpaid goods, the keeper and his bill, money, fees, theft, and paying entry by entry |
| `MCBill` | the goods at the start; two configurations `Bill*.cfg` |
| `Monsters` | the monsters of a level and its neighbour: chain, map, worm tails, steed, movemon's pass |
| `MCMonsters` | the squares; three configurations `Monsters*.cfg` |
| `AtomicGame` | what the files promise: a game that runs, is saved, checkpointed and loaded, each in one step |
| `Checkpoint` | the files of a game, file operation by file operation, with crashes, hangups and the recover utility; implements `AtomicGame` |
| `MCCheckpoint` | the sets of places where disaster strikes; `CheckpointHarmless.cfg` |
| `NatLemmas` | facts about numbers, finite sets and recursion on them |
| `TimerQueueProofs` | facts about lists of timers: order, and how many there are of a sort |
| `TimersProofs`, `TimersOwners` | proofs about `Timers`: types, order and `run_timers`; timers and their owners |
| `CheckpointProofs` | proofs about `Checkpoint`: types, flags; what is in the files, the save file, no level file missed, and `AtomicGame` implemented |
| `BurnProofs` | proofs about `Burn`: types, lights and timers with their owners, saving, and fuel |
| `BillProofs` | proofs about `Bill`: types, the bill and the goods, where there is a bill, prices, loans, the second pass |
| `MonstersProofs` | proofs about `Monsters`: types, the map, tails and their slots, the dead, the steed, and `movemon`'s pass |

To check one run: `tlc -config TimersLevels.cfg MCTimers`. To check the proofs: `tlapm TimersProofs.tla`.

An operator whose comment begins with "Mutant:" is a wrong version of the definition that follows it. The
specifications do not use them. They serve to show that the property named with them in PROJECT.json fails when the
code has that bug.

## Timers

### State and actions

| model | code |
|---|---|
| `timer_base` | the list of that name in timeout.c, as a sequence of records `[timeout, func, arg]` |
| `timed[o]`, `many[o]` | `obj->timed`; whether `obj->quan > 1` |
| `place[o]` | `obj->where` with `ocarry`, `ocontainer`, or the level: on the floor of a level, buried, in the pack, carried by a monster, in a box, on `migrating_objs` (`trailing` when sent MIGR_NEAR_PLAYER), or not allocated |
| `mplace[m]` | the chain a monster is on: `fmon` of a level, `migrating_mons`, not allocated; `dying` while `m_detach` drops what it carried |
| `uz`, `monstermoves` | `u.uz`, `monstermoves` |
| `file[l]`, `gsave` | the timers written in level l's file (RANGE_LEVEL) and in the game state (RANGE_GLOBAL) |
| `todo`, `phase` | the loop the program is in and what it has still to insert |

One struct is one model value, and a freed one may be allocated again, so that a timer that outlived its
owner would be seen to belong to somebody else.

What the code does in one call is one step, but for the loops whose steps are worth seeing: `run_timers` takes one
step per callback (with a step per burial or thawing that a callback causes); `restore_timers`,
`obj_split_timers` and the emptying of an ice box take one per timer; `obj_delivery` and `relobj` one per object.
Helpers are operators: `obj_is_local` and `mon_is_local`, `start_corpse_timeout`, `obj_timer_checks`, `merged`
(`Settle`), `obfree`, `replace_object`, `mksobj`, `m_detach`.

`goto_level` is `GotoLevel` (keepdogs, savelev, getlev), `restore_timers` per timer, `obj_delivery(FALSE)` per
object, `losedogs`, `run_timers` for all that fell due while the hero was away, `obj_delivery(TRUE)`, `BackToPlay`:
the order of do.c:977–1207. Saving is `dosave0` and `dorecover`, which inserts the game state's timers before the level's.

Callbacks modelled: ROT_ORGANIC, ROT_CORPSE, MOLDY_CORPSE, REVIVE_MON, UNPOLY_MON, UNPOLY_OBJ, HATCH_EGG;
BURN_OBJECT is the subject of `Burn`. Not yet: BOMB_BLOW, FIG_TRANSFORM, MELT_ICE.

Abstractions, each on the side of more behaviour unless it says otherwise:

- Delays are members of `Delays`; where the code computes what is left of a decay (rnz(10) − 10 added to a
  difference of ages, mkobj.c:741–745, or 250 minus an age of any size, do.c:1484 and 1557) they are members of
  `LateDelays`, which has those of `Overdue` as well: any numbers at all to the proofs, 0 and −300 to TLC.
- Which decay a corpse gets, whether a monster finds room, whether an egg is sterile, is chosen freely, within what
  the kind of corpse allows.
- Kinds of food and tool are told apart only so far as timers do: `SameType` and `set_obj_poly`.
- Boxes do not hold boxes (less behaviour): `obj_is_local` recurses through containers in the code and is unfolded
  once here.
- A monster always arrives (less behaviour): the branches of `mon_arrive` that place it elsewhere are left out.
- The magic-bag explosion inside `unpoly_obj` is left out.

### What is checked

| run | instance | distinct states | shows |
|---|---|---|---|
| timers_levels | a reviver's corpse, ice box, monster, two levels, 3 turns | 632 000 | SortedTimers, TimedIsCount, KeptWithOwner, UniquePairs; action properties RunTimersDrains, TimersSurvive; liveness CallsReturn |
| timers_rot | 2 ordinary corpses, ice box, monster, one level, 2 turns | 423 000 | TypeOK, and OneDecay where stacks merge and are iced while they rot |
| timers_ground | 2 eggs, chest, 3 turns | 593 000 | RotOrganicInGround |
| timers_mold | 2 corpses, a chest, a monster | – | a finding, below |

- `SortedTimers`, `RunTimersDrains`: the list is in order whatever inserts into it, so that looking at the head is
  enough; when `run_timers` returns, nothing anywhere in the list is due.
- `TimedIsCount`: `obj->timed` is the number of the object's timers wherever they are kept. Code skips looking for
  timers by it, and `obj_move_timers` panics over it.
- `KeptWithOwner`: a timer in memory belongs to something in memory, one in a level file to something on that level, one
  in the game state to something that leaves with the hero. Its negation is a dangling pointer in a callback or a
  panic in `relink_timers`.
- `UniquePairs`: `stop_timer` assumes it and `start_timer` does not look.
- `OneDecay`: at most one of rotting, going moldy and reviving is ahead of a corpse, none in an ice box.
- `RotOrganicInGround`: nothing dug up, polymorphed or spilled keeps the timer that would destroy it.
- `TimersSurvive`: changing levels, saving and restoring lose, add and change no timer.
- `CallsReturn`: `run_timers`, whose callbacks start timers, returns, and so do `goto_level` and `dorecover`.

**Bounds.** `MaxMoves` bounds the turns. With delays of 1 a timer started on the first turn goes off on the
second and one started by a callback, or by a restart, on the third: each property needs at most a start, a stop or a
move, and a firing. Two objects of a kind are enough to split, merge, reallocate and polymorph; one box
to contain and spill; one monster to carry, drop, migrate and revive; two levels to leave and come back to. No run
has a corpse and a large box together but timers_mold: the finding there breaks `KeptWithOwner`, `TimedIsCount` and
`UniquePairs` by itself, and the passing runs check these where that error does not reach. Deadlock is not checked:
the last turn is a bound of the model.

**Fairness** is weak fairness of `run_timers \/ Loops`: a loop of the program that has been entered runs on, as
it is sequential code that waits for nobody. Nothing obliges the player to act, and no callback is preferred to another: at
each step only the head of the list can fire.

## Burn

What burns has two things attached to it: an element of `light_base`, which lights the map, and a BURN_OBJECT
timer, which uses the fuel up. `obj->age` is the fuel; while it burns it is what will be left when the timer goes off,
at the next stage at which there is something to say ("is getting dim").

### State and actions

| model | code |
|---|---|
| `obj[o]` | `struct obj`: place (`where`), whether it is a stack, `unpaid`, `lamplit`, `age` |
| `timer_base` | the list of timers, with the operators of `TimerQueue` |
| `light_base[o]` | how many elements of `light_base` point to o |
| `file[l]`, `gsave` | timers and lights written with a level or with the game state |
| `phase` | playing, in `run_timers`, in `obj_delivery`, saved |

A world is the objects, the timers and the lights together; the helpers of the code are operators from worlds to worlds, which
an action composes in the order in which the handler calls them. begin_burn, end_burn, cleanup_burn, stop_timer,
obj_stop_timers, dealloc_obj, obfree, bill_dummy_object, setpaid, splitobj, merged, addinv and
hold_another_object keep their names. The actions are
what happens to a thing: it is created, picked up (perhaps with a price), dropped, thrown, buried, dug up, falls to
another level, is destroyed; `use_lamp`, `use_candle`, `use_torch`, `light_cocktail`, `catch_lit`, `snuff_lit`, `Refuel`;
and time, paying, level change, save and restore.

Where an object without a known owner makes `obj_is_local` panic, `GotoLevel` and `dosave0` cannot be taken.

Abstractions: whether something flickers, falls, is billed or is held is chosen freely; two merged heaps have any fuel
between theirs (the code weighs it by quantity); kinds of candle are one kind. Left out (less behaviour): what
monsters carry and containers hold, the candelabrum, lightsabers, artifact lights, dynamite, the range of lights.

### What is checked

| run | instance | distinct states | shows |
|---|---|---|---|
| burn_stacks | two candle structs, magic lamp, two levels, fuel 3, stages at 2 and 0, 3 turns | 461 000 | TypeOK, LitMeansBurning, KeptWithOwner, SaveNeverPanics, FuelIsTime |
| burn_kinds | two torch structs, lamp, oil, one level, fuel 1, 2 turns | 348 000 | FuelIsTime |

- `LitMeansBurning`: a lit object has exactly one light source and, unless it is magic, exactly one timer, wherever they
  are kept; one that is not lit, or freed, has neither.
- `KeptWithOwner`: lights and timers are in memory or in the file where their owner is.
- `SaveNeverPanics`: while the hero plays, every light and timer belongs to something that saving knows where to put.
- `FuelIsTime`: the fuel that is really left (`Left`: `age` and what the timer has still to run) falls by one a turn while a
  thing is lit, wherever it and the hero are, and by nothing while it is not; lighting, putting out, splitting, saving and
  changing levels cost and give nothing.

**Bounds.** Two structs of a kind are a stack and what is split off it, or two stacks that merge; a stack may be split
again as often as a struct is free. Fuel 3 with stages 2 and 0 lets a candle be put out before and after a stage,
burn on through one, and burn out, here or while the hero is away. The runs check torches and oil on one level, candles
on two: saving, restoring and falling do not look at the kind. burn_kinds leaves SaveNeverPanics out, as it fails
there (the torches that are lost, below), and prices on torches and magic lamps, as the properties fail with them: see the end of the
findings. Deadlock is not checked: the last turn is a bound.

## Bill

What the hero carries without having paid for it is marked `unpaid`, and nothing more; how many of it there were and at
what price is in the bill, an array of (object id, quantity, price) with the shopkeeper. Whatever splits, merges, uses up,
alters or moves such an object has to keep the two in step, and most of it is not in shk.c.

### State and actions

| model | code |
|---|---|
| `obj[o]` | a struct obj: on the `shelf`, the `street`, in the pack, on `billobjs`, with a monster, kept by the shopkeeper, or free (`none`); `quan`, `unpaid`, `no_charge` |
| `shk` | `struct eshk` (`bill`, `bill_p`, `credit`, `debit`, `loan`, `robbed`, `surcharge`, `following`), the gold of the shopkeeper, whether he is peaceful, awake, in his shop, out or dead |
| `umoney`, `till` | the hero's gold; gold on the floor of the shop |
| `pos`, `ushops` | the hero inside, at the edge (door or free spot) or out; whether the shop is in `u.ushops` |
| `paying` | `dopay`'s two passes over the bill: pass, index, whether item by item |

addtobill, subfrombill, splitbill, splitobj, obfree, merged, stolen_value, check_shop_obj, sellobj, costly_gold,
bill_dummy_object, rob_shop, make_angry_shk, make_happy_shk, pacify_shk, rile_shk, setpaid, u_entered_shop, u_left_shop and
shkgone are operators or actions of the same name or purpose. `shop_keeper` is one as well: it looks the shopkeeper up
and, on the way, brings the prices of the bill up to date with his mood, so each handler that calls it does so here. The
actions are the hero's: walk, pick up some, drop (with each answer to the offer), throw, kick, break, eat, use up, use a
charge, alter, split, dig out, let fall; gold dropped, picked up and thrown; `dopay`, then an entry at a time
(`PayEntry`, `PassEnds`); and what happens to the shopkeeper: attacked, appeased, sent away, following, back, dead,
asleep. Monsters take and drop goods. `Deeds` says which of them a run has.

Abstractions: one shop and one kind of goods at one list price; containers and what is in them are left out; which of two
stacks is merged into is fixed; the position is one of three.

### What is checked

| run | instance | distinct states | shows |
|---|---|---|---|
| bill_goods | a stack of 2 goods, 3 structs, price 2, purse 2, a chest of 1; floor, throw, hole, thieves, vandal, sleep; `MaxOwed` 4 | 228 000 | TypeOK, BillAgrees, SecondPassBuysAll, NothingForFree |
| bill_keeper | a stack of 2, 2 structs; gold, fees, food, fight; `MaxOwed` 3 | 241 000 | BillStaysInside, PricesAgree, LoanIsOwed, NothingForFree, PayReturns |

- `BillAgrees`: each unpaid or used-up object, wherever it has got to, has one entry, for at least as many as are left of it;
  each entry has an object, on `billobjs` if it was used up and unpaid somewhere else if not. Its failure is "unpaid obj not on bill?" or
  "Shopkeeper administration out of order".
- `BillStaysInside`: there is a bill only while the hero and the shopkeeper are both inside, and `bill_p` points to it.
  `u_entered_shop` resets `bill_p` without a look at `billct`, and `setpaid` clears the unpaid goods of every shop in
  the game (a FIXME there says so): this property is why neither does harm.
- `PricesAgree`: the price of each entry is what the shopkeeper would ask now, although his mood changes in one place and his
  bill is brought up to date in another.
- `SecondPassBuysAll`: when the bill is paid as a whole, nothing used up is left for the second pass, and the second pass buys
  entry after entry at the front of an array that is compacted under it.
- `NothingForFree`: while the shopkeeper keeps his shop and was not robbed, whatever leaves the shop, is eaten, broken, used or
  altered is paid, billed or owed.
- `LoanIsOwed`: what was picked up from the floor is part of the debt.
- `PayReturns`: the loop of `dopay` comes to an end.

**Bounds.** A stack of two is enough to be partly used, split, merged and billed in two entries; the third struct is for
the part of a split stack that was used up and stays to be paid when the rest is put back. The goods and the moods are in
runs of their own, and each deed is in one of the two; one run with all of them is too large to be run often. With price 2 the hero can pay for one of two; price 2 also
rises to 3 for one who is angry, so that prices tell the moods apart. `MaxOwed` bounds debit,
credit and what was robbed: both goods at list price in one run, one that is surcharged in the other.

**Fairness** is weak fairness of `PayEntry` and `PassEnds`: the loop, once entered, runs on whatever the player answers.

## Monsters

A monster is on the chain `fmon` and, with its head, on the map `level.monsters`; a long worm with a tail also holds a
square of the map with each segment, and the segments are in the list `wtails[wormno]`. A steed is on the chain and not
on the map. The dead stay on the chain, off the map, until `dmonsfree` at the end of `movemon`.

### State and actions

| model | code |
|---|---|
| `mon[m]` | a struct monst: alive (`mhp`), `x`, its shape (a long worm or something that can be ridden), `wormno`, `old` (`oldmonnm`), whether an UNPOLY_MON timer runs |
| `fmon`, `migrating` | the chains of that name |
| `grid` | `level.monsters`; square 0 is (0,0), where `remove_monster` writes for one who is nowhere |
| `wsegs[n]` | `wtails[n]` to `wheads[n]`, with the dummy segment under the head |
| `usteed`, `hero`, `purge` | `u.usteed`; the hero's square; `iflags.purge_monsters` |
| `away` | chain and segments in the file of the other level |
| `next` | `nmtmp` of `movemon`, or the hero's turn |

A world is all of it but `next`; a helper of the code that chooses at random is an operator from a world to the set of worlds it may
leave. So place_monster, remove_monster, the functions of worm.c, rloc_to, mnexto, mnearto, makemon, clone_mon, replmon,
relmon, newcham, mondead, mongone, m_detach, dmonsfree, dismount_steed, keepdogs, migrate_to_level, mon_arrive,
losedogs, savelev and getlev keep their names. Actions: what the hero does or undergoes (create, revive, walk, swap with a pet, kill, cut a worm,
teleport, polymorph, mount, dismount, clone, change levels, save and restore, timers), and movemon: each monster in turn moves,
waits, falls through a trap door, displaces, swallows, kills, explodes, divides, dies.

Abstractions: `enexto` gives any good square, not one of the nearest; arrivals are anywhere. Less behaviour: no water, lava
or walls; the hero is not swallowed or held; no saving of life, no chameleons or vampires that change by themselves; a level
is never too full for who arrives; the hero does not die.

### What is checked

| run | instance | distinct states | shows |
|---|---|---|---|
| monsters_worms | 2 monsters, 5 squares, 2 slots, tails of up to 2; levels, clone, revive, nearto, displace | 160 000 | TypeOK, MapAgrees, WormsHaveTails, TailsAreOwned, HandlesEach |
| monsters_shapes | 2 monsters, 4 squares, 2 slots, tails of 1; polymorph, ride, engulf, levels | 187 000 | MapAgrees, PurgeAgrees, SteedInStep |
| monsters_limbo | the same, with timers that go off between levels | – | a finding, below |

- `MapAgrees`: the map shows the living monsters of the chain but for the steed, at the squares of their heads and
  tails, and nothing else; none is where the hero is.
- `WormsHaveTails`, `TailsAreOwned`: a `wormno` that is set is a slot with a tail that ends under the head; each slot in
  use is that of one living worm.
- `PurgeAgrees`: `purge_monsters` counts the dead of the chain, which `dmonsfree` relies on.
- `SteedInStep`: "ridden steed always shares hero's location" (dungeon.c:1034).
- `HandlesEach`: `movemon` gives each monster that was on the chain its turn, once, although it takes the next one from
  the chain before the current one moves, dies, divides, kills that next one or leaves.

**Bounds.** Two monsters are one and another: to be in the way of, to swallow, to be cut off from, to share a slot with.
Two columns of squares and one more make a level in which a tail can lie around a corner and be truncated for want of
room. A tail of two segments can be cut at either. The state space is finite without any bound on steps, and deadlock is checked.

## Checkpoint

### State and actions

`lfile[l]` is the file of level l, `file0` the file of level 0 (only a pid; or, with `checkpoint` on, the state of
the game), `save` the save file. Creating a file and completing it are two steps: what happens in between leaves it
torn. A loop that deletes files takes a step per file. A game is the items in the hero's pack and on each level; `fobj`
and `state` are what is in memory. `at` says where in which handler the program is, so that each handler is several
actions:

| code | actions |
|---|---|
| main: `getlock`, `eraseoldlocks`, `restore_saved_game` | `getlock`, `Answer` ("Destroy old game?"), `EraseLevel` per level, `EraseEnd`; then `newgame` or `dorecover` |
| `goto_level` | `goto_level(l)` (currentlevel_rewrite), `LeaveLevel` (savelev), `DeleteLevel` per level and `Discarded` (on the way to the endgame), `Arrive` (getlev or mklev) |
| `save_currentstate`, `savestateinlock` | `save_currentstate`, `WriteLevel`, `savestateinlock`, `WriteLock` (the head), `WriteState` |
| `dosave0` | `Save` (with the prompt "Overwrite the old file?"), `SaveState`, `SaveLevel` per level, `DeleteCurrent`, `Unlock` |
| `dorecover`, `restlevelfile` | `dorecover`, `RestoreLevel` and `WriteRestored` per level, `EndRestore`, `BackToPlay` |
| main: "Do you want to keep the save file?" | `KeepSave` |
| the recover utility | `recover`, `RecoverCurrent`, `RecoverState`, `RecoverLevel` per level, `EndRecover` |
| `hangup`, `done`, `clearlocks` | `hangup`, `done`, then `DeleteLevel` per level and `ClearEnd` |
| power failure, kill -9 | `Crash` |

`havestate` is the static variable of `savestateinlock`: file 0 is written once more after checkpointing is
turned off. `something_worth_saving` decides what `hangup` does. `Strikes` says where disaster may strike: a set of pairs
of "crash" or "hangup" and a value of `at`; MCCheckpoint has two such sets. `last` is history: the game as last
checkpointed, saved or restored.

Three things the code does that one would not expect of it are in the model as they are:

- **Explore and debug mode** (`state.explore`, entered at the start, at a restore or in play, never left). A restored
  game's save file is deleted only in normal games (restore.c:661). Otherwise it stays, with mode 0, until main
  asks whether to keep it (unixmain.c:204–209); kept, it lies beside the running game, and the next `dosave0` asks before it
  overwrites it, a hangup does not.
- **What recover takes for a game** (util/recover.c:184–203). File 0 must have its head: pid, level number, name,
  version. Of the state behind it nothing is asked, and of the level files only that the current one can be opened. So the
  states of `file0` are "torn" (no head yet), "pid", "headed" (the state cut short) and "full", and recover starts
  from the last two; what it copies is what there is.
- **Reading a torn save file.** `mread` (restore.c:982) notices only that a file ends. In a save file in which a piece is cut
  short the next piece's bytes are taken for the rest of it: the result may be anything (`Read`, and the second
  disjunct of `dorecover`), may be found out by `getlev` (`Strange`: `trickery`), or may come to the end of the file
  (`ReadError`: the save file is deleted). A save file that ends between two levels is complete to `dorecover`, and the
  levels that are missing are missed when the hero goes there.

### Refinement

`AtomicGame` has a game that runs, one that is saved and one that is checkpointed, each a set of at most one game;
`loading`, whether the saved one is being brought back; and `explore`. A new game starts only where there is nothing
to come back; a saved game is given up only when it is loaded, and stays only in explore mode. `Checkpoint`
instantiates it (`Atomic`) with `Running`, `Saved`, `Checkpointed` and `Restoring`, which put together a game from the
pieces: what is in memory and what is in the files of levels that the hero is not on; file 0 and the level files, or the
save file. `Atomically` is `Atomic!Spec`: each file operation is one step of the abstract game, or none. For instance
`goto_level` and `save_currentstate`, a dozen file operations, change the checkpoint only at `savestateinlock`, and
recover turns it into a saved game when it unlinks the current level's file. The refinement says which operation commits; the invariants do not.

### What is checked

| run | instance | distinct states | shows |
|---|---|---|---|
| checkpoint_harmless | three levels, one in the endgame, one item, both modes; `Harmless` | 1 102 000 | TypeOK, CrashRecoverable, NeverTricked, FilesAreFlagged, NoStaleFiles, SaveKept, Atomically |

- `CrashRecoverable`: when the program is gone and recover would take file 0, file 0 and the level files make up the last
  checkpoint, or a complete save file has it.
- `NeverTricked`: `goto_level` and `dosave0` never miss a level file nor read a torn one, and `dorecover` reads no piece of the
  save file for another.
- `SaveKept`: a complete save file is given up only when its game is back in memory and in the level files, or
  refused ("not yours", "not healthy enough"); when it is overwritten by a game in explore mode, or by recover with one; or when
  it is locked, because a restore was interrupted, and a later game is saved. So two normal games never meet.
- `Atomically`: the handlers, file operation by file operation, implement `AtomicGame`. A game that comes back is
  the one that was saved or checkpointed last: nothing lost, nothing doubled, nothing of an older game; and a normal
  game comes back from a save file once.
- `FilesAreFlagged`, `NoStaleFiles`: the program knows of every level file there is, and where there
  is no file 0 there are no level files that a later game could take for its own. The two hold for nearly all strikes, and
  the proofs have them so. TLC agrees: with `Strikes <- Anywhere` (a crash at every place but one, a hangup at every place
  but two), two levels, no endgame and no items it finds 369 000 states, torn files taken by recover and misread by
  `dorecover` among them, and neither is violated.

**Bounds.** Three levels: the one the hero is on, one visited, and one from which there is no return; the loops over
levels go round twice. One item is enough to be lost or doubled; which of two items it is would make no difference,
as no action compares them. The state is finite without any other bound. Deadlock is checked.

**Where disaster does harm.** A game does not survive everything. The run checkpoint_harmless and the theorems about the
contents of files (`HarmlessStrikes` in `CheckpointProofs`) leave out these places. With any one of them put back, but for the last,
TLC finds a counterexample to the property that is named:

| strike | while | what is lost | violated |
|---|---|---|---|
| crash at "leave", "discard", "left", "checkpoint", "write_level", "lock" | the level changes, until `savestateinlock` truncates file 0 | two moments of the game are mixed: file 0 has the last state, the level files may be newer or torn, on the way to the endgame gone | CrashRecoverable |
| crash at "write_lock", "write_state" | `savestateinlock` writes file 0 | the checkpoint: without its head recover refuses file 0, with its head and half a state recover makes a save file of it that is misread, and unlinks the original | CrashRecoverable |
| crash at "save", "save_levels", "unlock" | `dosave0` | it deletes level files as it copies them and file 0 last: file 0 is left with a state whose levels are gone; if the save file was complete already, recover creates it anew before it notices that the current level is missing (util/recover.c:208–224) | Atomically, CrashRecoverable |
| crash at "clear" | `clearlocks`, when the hero has died or after `hangup` | file 0 goes last: a full file 0 is left with levels missing, of which recover makes a game | CrashRecoverable |
| crash at "erase" | `eraseoldlocks`, likewise | likewise | Atomically |
| crash at "recover_state", "recover_levels" | recover, after the first unlink | it unlinks each file as it has copied it; "You may wish to retry" (util/recover.c:252) cannot be followed | CrashRecoverable, NoStaleFiles |
| hangup at "getlock", "erase" | main, before `init_dungeons` | `clearlocks` deletes file 0 only, as `n_dgns` is 0 (files.c:321): a checkpoint is lost and its level files stay | NoStaleFiles |
| hangup at "left" | `goto_level`, after `savelev` and before `u.uz` is assigned | `dosave0` writes the freed, empty level as the current one and then deletes its file | Atomically |
| hangup at "discard" | the same, on the way to the endgame | `dosave0` saves a dungeon of which part has been thrown away | none: what the abstract game calls a step of play allows it |

`Anywhere` and the theorems about flags (`LevelsFirst`) have all of these but the crash at "recover_levels" and the
hangups at "getlock" and "erase".

What the properties allow, though a player would not:

- A hangup at "restored" loses a normal game: the save file has been deleted (restore.c:662) but
  `something_worth_saving` is set only at restore.c:705, so that `hangup` clears the locks. A read error does, too.
  `AtomicGame` has a step for it (`Fail`): a game may be lost while it is being loaded.
- A crash during a restore leaves the save file with mode 0; the next game can neither restore it nor save over it:
  `dosave0` deletes it and gives up, once (save.c:169). `SaveKept` and `Saved` count such a file as given up.
- In explore and debug mode a hangup at "Do you want to keep the save file?" finds it locked, and deletes it.

**Abstractions.** One game at a time uses a lock name. No write fails. `panic` saves nothing. Of the signals that
enter `hangup` the model has SIGHUP, which `dosave0` ignores; SIGXCPU and SIGPIPE (unixmain.c:121–125) would reach it again
inside `dosave0`. After "n" to "Overwrite the old file?" SIGHUP stays ignored; the model lets it strike again (more
behaviour). While TRICKED is on display no hangup strikes (less). A level is copied and its file deleted in one step of
`SaveLevel` and `RecoverLevel`; a crash in between is in `Cut`. In debug mode the program goes on after TRICKED as far as
"Cannot continue this game." (do.c:1029).

## Proofs

`TimerQueueProofs` has the facts about the list: `insert_timer` returns a list in order when given one, wherever
the new timeout falls (InsertTimer); unlinking any set of elements keeps a list a list and in order (KeepList), of
which `remove_timer`, `obj_stop_timers`, `save_timers` are instances; moving timers to another owner keeps the order.

`TimersProofs`, for all sets of objects, monsters and levels, all delays and any number of turns:

- `TypeCorrect`: TypeOK. A timeout is any whole number: what `start_corpse_timeout` resumes may be overdue by more than
  the game is old;
- `TimersSorted`: SortedTimers;
- `TimersDrained`: RunTimersDrains, from the two.

The inductive invariant `IInv` is TypeOK and SortedTimers together, grouped by what steps change (ObjectsOK, ClockOK,
MonstersOK, FilesOK, LoopOK). Neither half can do without the other: an insertion keeps the order only in a list of timers
with numbers for timeouts. Nothing is assumed of the delays but that they are numbers, so that a timer may be started
before, between and after those that `run_timers` is working on. There is one lemma per action; most reduce to facts about `obfree` and `Settle`, which nearly all
operations on objects end in. RunTimersDrains then follows: the loop ends when the head is not due, and in an
ordered list nothing behind it is sooner.

`CheckpointProofs`, for any levels, items, endgame and modes:

- `TypeCorrect`: TypeOK, whatever strikes;
- `AllFilesFlagged`: FilesAreFlagged, and `NothingStale`: NoStaleFiles, whatever strikes but a crash in the last loop of
  recover, where file 0 is gone and level files are still there, and a hangup where `clearlocks` does not know of
  the old game's levels (`LevelsFirst`).

NoStaleFiles is not inductive. What makes it so is `FInv`: every file is flagged in every handler (Flagged); the loops of
`clearlocks`, `eraseoldlocks`, `dosave0` and recover still have ahead of them what is left (SaveDone, EraseDone,
RecoverDone); a file that is about to be written was created and flagged before (Created); file 0 is there as long as a game
runs (LockHeld); and a game starts from no files (CleanStart). Nothing in it depends on what is in a file, which is why torn
files that are misread do no harm to it.

And, for any strikes where a disaster is survived at all (`HarmlessStrikes`, the table above):

- `NeverMissed`: NeverTricked;
- `CheckpointRecoverable`: CrashRecoverable;
- `SaveNotSpoilt`: SaveKept;
- `FilesImplementGame`: Atomically, that is, every file operation is a step of `AtomicGame` or none.

They rest on `HInv`, on top of the types and FInv, which says where the contents of each level are and which file
will be believed next:

- between programs (Disk) and between commands (Checked), file 0 and the level files are the last checkpoint, or the save
  file is complete and has what was being restored;
- each level file is whole but the one that is being written (FlagsFull), and file 0 torn only while it is written, with
  `havestate` saying whether it has a state (LockAgrees);
- in the loops of `dosave0` and recover, what has been copied together with what is left is the game as it was played or
  checkpointed (CopyAgrees); in `dorecover`, what has been restored together with what is still to come is what the save file
  has (RestoreAgrees, Restored);
- who may open which save file: a normal game is played only where there is none that could be opened (SaveOpen), and where
  file 0 and an open save file both hold a game, it is in explore mode (KeptMode).

Since every torn file is excluded by HarmlessStrikes, dorecover's misreadings are shown not to occur rather than assumed
away: CleanSave and CutSave say for which save files `mread` cannot go wrong. The refinement is then one lemma per
action: which of the places that may hold a game holds it before and after.

`TimersOwners`, for all sets of objects, monsters and levels, all delays and any number of turns:

- `TimersKept`: KeptWithOwner, and `TimedCounts`: TimedIsCount, in every behaviour in which `moldy_corpse` does not start
  the rot of a corpse it has freed (`NothingRotsFreed`). That is what the run timers_mold shows the code to do, and
  the hypothesis says no more: it is about the one step of the one callback. All else that happens to owners, in a box, in
  a pack, under the ground, between levels or in a file, is covered.
- `PairsUnique`: UniquePairs, `OneEnd`: OneDecay and `RotsInGround`: RotOrganicInGround, in the same behaviours;
- `TimersUnharmed`: TimersSurvive, without any hypothesis.

The first two need each other. `obfree`, through `dealloc_obj`, looks for an object's timers only if its count is not
0, so that a freed object leaves no timer behind only if the count is right; and the count is right only as long as no
timer of the object is in a file while it is in memory. OwnInv states both by numbers (Kept, Counted), for which
`TimerQueueProofs` has what each operation on the list adds to or takes from the number of timers of any sort, and adds
three things that hold wherever the code moves an object: what is contained is in a box and boxes hold no
boxes (Shape), what is in a file is not in memory (Storage), a dying monster has no timers and the objects it carries are
dropped before anything else happens (Dropping). A few lemmas say what the helpers `Settle`, `obfree` and `merged` do to
places and numbers; each action is an instance of one of them. TimersSurvive needs Storage alone.

UniquePairs, OneDecay and RotOrganicInGround are one statement about numbers, Limits: of each kind of timer (one
function, or the three that end an object together) no list has more for an owner than it may have where it is,
counting memory together with what `run_timers` has still to call. None of the three can be proved alone: a corpse
gets a rot in place of a mold in `moldy_corpse`, `obj_timer_checks` starts again what it stopped, taken out of an ice box a corpse gets
its rot because none runs on ice, and `splitobj` copies all that the original has. The inductive invariant is OneInv,
Limits with OwnInv. It needs OwnInv where two lists are put together: in `getlev` and `dorecover` no owner is
in both, because an owner is in one place. The lemmas Fit, Room and Waiting say when there is room for another timer.
TLC checked OneInv before it was proved, with the constants of timers_levels, timers_rot and timers_ground.

`BurnProofs`, for any candles, torches, lamps, potions and levels, any stages and fuel and any number of turns, if no torch is
for sale (`NoTorchForSale`; with one, LitMeansBurning is false, see the third configuration of `BurnKinds` below):

- `TypeCorrect`: TypeOK; in particular what `cleanup_burn` gives back and `burn_object` takes never leaves an `age` below 0;
- `LitBurns`: LitMeansBurning, and `KeptWithOwners`: KeptWithOwner;
- `SaveKnowsOwners`: SaveNeverPanics, unless the save is already spoilt by one of the two things that the code is known
  to do wrong (`SaveSpoilt`: a lit magic lamp on the bill, a lit stack of torches that `use_torch` left);
- `SaveNeverFails`: SaveNeverPanics without any such proviso, if there are no torches and no magic lamp is for sale. That is
  every game with candles, oil lamps and potions of oil, whatever is bought, used up, thrown or left behind;
- `FuelTime`: FuelIsTime, for any number of stages and turns: what is lit loses a turn's fuel a turn, on this level, on a
  level file or in a saved game, and what is not lit none.

LitMeansBurning is not inductive: that a light is somewhere once says nothing of whether `del_light_source` will find it, and
an object on another level is freed by nobody only because it is not in memory. The inductive invariant `Inv` has a line for
each of the places where lights and timers are kept (memory, the game state, each level file): it has one of o if o belongs
there and is lit, and none otherwise (Holds, with InMemory, InGsave, OnFile). To these come the shapes of the structs
(Proper: what can be lit, what is for sale, and that a freed one is dark), the order of the list, and that no timer is
overdue while the hero plays (Prompt), without which `cleanup_burn` would take fuel instead of giving it back. Inv was
checked by TLC before it was proved: with two candle structs and a magic lamp, all for sale, on two levels
(206 278 states), and with two torch structs and a potion of oil on two levels (2 683 876).

The argument goes through worlds. A world is good (Good) if each object near the hero has its light and timer in it and
nothing else has. Each helper of the code is shown to take a good world to a good one: first what it does to the one
object it is called for (PutOut, Alight, Freed, SplitOff, Came), as equations between numbers of timers from
`TimerQueueProofs`, then that this is good. An action is a composition of helpers, and its lemma the composition of
theirs. Only `GotoLevel`, `dosave0` and `dorecover` move lights and timers between stores, and have proofs of their own.

FuelIsTime is about two states, and `age` alone means nothing while a timer runs. Fuel(m, q, o, a, f) says without an extreme of a set that f is
left of o at turn m, by the list q and an `age` of a: either q has no timer of o and f is a, or it has one that goes off at m + f - a.
Each helper is followed by how it changes that (Track): `begin_burn` takes from `age` what it adds to the timer, `cleanup_burn`
gives it back, `splitobj` copies both, `merged` keeps those of the stack that stays, `burn_object` lights again with what is left, also when the timer was due
long ago, and only `burn_faster` costs a torch a turn. Only a merge may change the fuel of what stays unlit, and the property says so: Fair keeps the two cases apart.
Which timer goes off when, and not only how many there are, has to be carried through the lists: GoesOff, counted like the rest
as the timers of o with that timeout (At1). A step of the hero leaves the clock alone, so that it suffices that the worlds are
fair; `Tick` moves the clock and nothing else; and `GotoLevel`, `dosave0` and `dorecover` carry each timer from one store to the one
where it is looked for next (Carried, Keeps). Inv says that there is but one store to look in, which makes the least timeout of Left the only one (LeftIs).

`BillProofs`, for any objects and any stock, any price, fee, purse and chest, and any set of deeds:

- `TypeCorrect`: TypeOK; what the code subtracts (in `pay`, `check_credit`, `splitbill`, `subfrombill`, `sellobj`) leaves
  no debt, credit, quantity or price below nothing;
- `BillsAgree`: BillAgrees; `BillInside`: BillStaysInside; `PricesCurrent`: PricesAgree; `LoansOwed`: LoanIsOwed;
- `SecondPassBuys`: SecondPassBuysAll;
- `MoodsCancel`: what `rile_shk` adds, a third rounded, is what `pacify_shk` takes off, a quarter rounded.

Only SecondPassBuysAll is about the loop of `dopay`, and needs what the first pass has done so far (Looping). The others
need each other, and so there is one invariant, `BillInv`. An entry can be given up by `u_entered_shop` without harm only because
there is none when the hero enters (Inside); that there is none takes that whoever is in the room is in `u.ushops`,
unless the shopkeeper is not there to see it (Watched), and that a shopkeeper who is away comes back with `bill_p` at the dump if the
hero is in his shop. The prices agree because an object is billed only by handlers that have looked the shopkeeper up, which brings the
bill up to date, and because of MoodsCancel. TLC checked BillInv with the constants of both runs before it was proved.

The argument goes through worlds. Good says of a world what does not depend on where anybody is: types, BillAgrees as a matter of
the set of entries (Agreed, with Match and Backs), prices (Priced), loan (Lent). The helpers come in three sorts: those that
move only money (Quiet), those that keep a good world good and leave everybody where he is (Sound), and those that
clear the bill (Cleared). Each helper of the code is shown to be one of them: what `drop_entry`, `splitbill`, `addtobill` and
`subfrombill` do to the bill as a sequence (SeqDrop, SeqSet, SeqAdd), then to the set of its entries, then that every entry is backed.
The handlers are compositions. Where the model folds an operator (the prices of all entries in `rile_shk` and `pacify_shk`, the sum of the
bill, the whole backpack in `Digs`) there has to be a function that says what the fold makes of each subset:
`RecursionOnSet` shows that there is one, and what holds of it is shown of a smallest subset that would be a counterexample
(SmallestSet), as induction rules with an operator for a parameter are beyond the provers.

`MonstersProofs`, for any finite sets of monsters and squares, any neighbourhood and stairs, any number of slots and lengths of tails, and any
deeds but three:

- `LevelStaysSound`: the inductive invariant MonInv; and from it
- `MonTypeCorrect`: TypeOK; `MapAgreesAlways`: MapAgrees;
- `WormsKeepTails`: WormsHaveTails; `SlotsAreOwned`: TailsAreOwned;
- `DeadAreCounted`: PurgeAgrees; `SteedStaysWithHero`: SteedInStep;
- `EachIsHandled`: HandlesEach, for a chain of any length.

The deeds left out (`NoMishap`) are "mishaps", "squeeze" and "limbo". That is no convenience: with any of them the code itself makes
MapAgrees, SteedInStep or WormsHaveTails false, and the next section has the instances. All else that the model has is in: worms that grow, are cut,
lose their tails, change shape and turn back as they die, monsters that divide, swallow, explode, displace and are displaced,
are ridden, fall, follow and come back, levels left and read in again.

None of the properties is inductive, and none can be had without the others. The map agrees with a worm only if its tail is
where the slot says, and is still right after `toss_wsegs` only if the slot is nobody else's and the segments are under nobody else; a
new worm gets a free slot only if no dead or absent monster is taken for an owner; the level that is read in again is right only if its file
was (Away), and what comes from `migrating_mons` only if it has a length for a `wormno` and is on no chain (Travels). MonInv
says this of the current world and, for `movemon`, that the next monster is on the chain (NextFits).

Inside an operation even MonInv is false: `rloc_to`, `mdisplacem`, `newcham`, `gulpmm`, `keepdogs` all pick monsters up, do
something, and put them down. So Good, the part of it that is about the chain, the map and the tails, has a parameter S,
the monsters in the air: on the chain, and with their tails not on the map. There is a lemma for each helper that says who is in
the air before and after: `remove_monster` with `remove_worm` lifts one (from S to S with it), `place_monster` and `place_worm_tail_randomly` land one, and what creates,
kills, replaces, sends away or brings back a monster is shown to keep Good as it is. Between two actions nobody but the steed is in the
air. An operation is then the composition of its helpers, and an action of its operations, through `mattackm` and its deaths that are none.

HandlesEach is about the order of the chain: in its turn a monster leaves it, or puts a new one in front, or
neither (Follows); the others stay in the order they were in (KeepsOrder), the dead until `dmonsfree`, so that `nmtmp`, read before the monster moves,
is then the first of those still due (DueNext). TLC checked MonInv before it was proved, with the constants of both runs,
and by simulation with three monsters.

The definitions of `Monsters` that go through a chain or a set of squares write a function over another (`over`) or unlink a set
(`unlinked`): what such a fold makes is proved once, in the way described above for `Bill`.

The assumptions on constants are those named in the modules: kinds of objects are disjoint and finite, delays are
positive, levels are natural numbers of which the first is not in the endgame.

Only model-checked: NothingForFree of `Bill`, which compares sums over the goods and the
bill; and liveness (CallsReturn, PayReturns), which the prover cannot do; nor can it do ENABLED, induction on recursive
definitions, or RECURSIVE operators, of which the modules have none.

## What the code does otherwise than it says

Two runs have a property that TLC finds violated; PROJECT.json quotes the lines.

1. **timers_mold** – `moldy_corpse` (do.c:1535 ff) goes on with a corpse that `revive()` freed, when a stack goes moldy
   in a container: a write to freed memory, and a timer for an object that is gone.
2. **monsters_limbo** – `unpoly_mon` (timeout.c:547) does not ask whether its monster is between two levels, where `wormno` is the
   length of its tail and not a slot: `newcham` or `m_detach` throws away the tail of another worm, which is left with a
   `wormno` and no tail.

These instances violate a property too and have no run of their own. Each is a configuration of PROJECT.json's runs with the
constants that are given, and the rest as there.

| configuration | constants | violated | what happens |
|---|---|---|---|
| TimersMold | `Corpses`, `LargeBoxes`, `Mon` empty, `Eggs = {e1, e2}`, `Level = {l1, l2}` | MigrantsHaveDestination | `replace_object` (mkobj.c:270), "a literal swap", does not copy the destination of a migrating object: a polymorphed object that changes back while it falls down a hole is never delivered |
| TimersMold | `Revivers = {t1}, Mon = {m1}`, the rest empty | RevivedOrRotting | "If we succeed, the corpse is gone, otherwise, rot it away" (do.c:1480); but of a stack of troll corpses one revives and `revive_mon` starts no timer for the rest, which never rot |
| BurnKinds | `Lamps`, `Oils`, `ForSale` empty | SaveNeverPanics | `use_torch` (apply.c:1376) returns without the rest of the stack when the torch it split off cannot be wielded: the torches are gone, and if the stack was lit, its light and timer remain and saving panics |
| BurnKinds | `MagicLamps = {m1}, ForSale = {m1}`, the rest empty | SaveNeverPanics | an unpaid lit magic lamp that is destroyed goes on the bill with its light: `add_to_billobjs` (shk.c:2195) stops timers only, and a magic lamp has none. "There should not be any timeouts on the billobjs chain" (shk.c:1909) holds; of lights nobody thought |
| BurnKinds | `Lamps`, `Oils` empty, `ForSale = {t1, t2}` | LitMeansBurning | a torch that burns out in the shop is billed as a dummy (timeout.c:1164), and `bill_dummy_object` (mkobj.c:359) resets `lamplit` of candles only: the dummy is lit without a light, and `del_light_source` complains when the bill is paid |
| CheckpointHarmless | `Strikes` with `<<"crash", "left">>` added | CrashRecoverable | a crash while a level changes cannot be recovered "at the point of the last level change"; more such places [above](#checkpoint) |
| BillGoods | `Deeds = {"throw_out"}` | NothingForFree | `check_shop_obj` (dothrow.c:681–711) asks `stolen_value` for the price of an unpaid object before it takes it off the bill; what is on the bill is not billable, nothing is charged, and the entry goes. `ship_object` (dokick.c:1347–1349) does it in the other order; doc/fixes0.9.txt:160 lists "shopkeepers would not always charge you" as fixed |
| MonstersShapes | `Deeds = {"ride", "squeeze"}` | SteedInStep | in `domove` the hero and the steed have moved (hack.c:1584–1590) when it turns out that a pet does not fit where they were; only the hero is put back (hack.c:1651, 1657) |
| MonstersWorms | `Deeds = {"worms", "mishaps"}` | MapAgrees | when a worm that is teleported finds no room for its tail, `place_worm_tail_randomly` tosses the rest by the coordinates it had before, which may by now be those of its own new head |
| MonstersShapes | `Deeds = {"worms", "polymorph", "engulf", "mishaps"}` | MapAgrees | the victim of `gulpmm` that dies and turns back into a long worm grows a tail; the two are then put back on the map as if it had died, or had none |

`MonstersWorms` and `MonstersShapes` leave "mishaps" and "squeeze" out, `BillGoods` "throw_out", for that reason.

Seen while reading, and in no run:

- `mergable` means to merge candles only "if their ages are close" (invent.c:2324), but the `age` of a lit candle
  is the next stage, not its fuel: lit candles merge with any difference between two stages. (Modelled; FuelIsTime
  exempts what is merged.)

- The comment at do.c:1155–1159 says that `run_timers` comes after objects have been delivered; `obj_delivery(TRUE)`
  comes later still (do.c:1207), so that a corpse that follows the hero down a hole cannot revive on arrival.
- `moldy_corpse` raises `quan` of a carried corpse before it tries and does not lower it when nothing grows
  (do.c:1531): a corpse becomes two. Modelled (`OneMore`); no property forbids it.
- A lightsaber whose power ends while it is not wielded is deactivated twice in one callback (timeout.c:1310–1345);
  the second time `end_burn` complains that it is not lit (timeout.c:1532).
- Around the shop: `sellobj` forgets everything that was robbed, whatever little is given back (shk.c:2649: `robbed -= offer <
  0L` subtracts the truth value of a comparison); `pay_for_damage` ends with a payment of 0; `make_angry_shk` adds the loan to a debit that contains
  it. Modelled as the code is.
- `mnexto` does nothing and says nothing when there is no room; a displaced long worm that has lost its tail keeps its
  slot, with a dummy segment where it was (mon.c:1310, mhitm.c:451; "mishaps").
- `savelev` skips `dmonsfree` when it only frees the level (save.c:391): dead monsters go with the level while
  `purge_monsters` still counts them, and the next `dmonsfree` reports a mismatch.
- `replmon` (mon.c:1381) starts the new monster's UNPOLY_MON timer with what `stop_timer` returned, the turn on which
  the old one would have gone off; `start_timer` wants a delay.

## Not modelled

PROJECT.json says for each component why. In short: level generation, vision, display and the rules of combat are
geometry or numbers with random outcomes, out of TLC's reach and without protocols; window ports, options, names and
messages are input, output and wording; the level and dungeon compilers are build tools; scripting (100 000 lines) and
regular expressions are vendored. Of what is modelled, these parts are left out: containers in containers, the
remaining timer callbacks, what burns in containers and monsters' packs, several shops, monsters that swallow the hero,
failing writes, panic's own save, and two processes that race for one lock name.

## Plan

The order is that of how much depends on the part.

1. *Done*: Timers with its owners, level change, save and restore; Checkpoint; types, order and file invariants proved.
2. *Done*: `Burn`, the timers and lights of what burns. Left: containers and monsters that carry it, the candelabrum.
3. *Done*: `Monsters`, with long worms and steeds. Left: the hero swallowed (`ustuck`), lifesaving, water; who does not
   arrive.
4. *Done*: `Bill`. Left: containers, and a second shop, for `setpaid`.
5. *Done*: `AtomicGame`, and Checkpoint shown and proved to implement it where strikes are harmless. Left: an abstract set
   of timers, implemented by the ordered list.
6. `GetLock`: two processes and one lock name (unixunix.c), composed with the abstraction of Checkpoint that one
   game owns its files; `Regions`; `Rects`.
7. Proofs. *Done*: all of `Checkpoint`, and of `Timers` all but liveness; all of `Monsters` and of `Burn`; the invariants of
   `Bill`. Left: NothingForFree.
