-------------------------------- MODULE Bill --------------------------------
(***************************************************************************)
(* A shop: its keeper, his bill, and the goods the hero carries about      *)
(* without having paid for them (shk.c).  The bill is an array of entries  *)
(* (object id, quantity, price) kept beside the objects: an object says    *)
(* only `unpaid'.  Every operation that splits, merges, alters, uses up or *)
(* moves an object has to keep the two in step, wherever it is written.    *)
(*                                                                         *)
(* One shop and one kind of goods, all at one price; containers are left   *)
(* out.  An element of Obj is one struct obj; `none' is a free one.  The   *)
(* helpers of the code are operators from worlds to worlds.                *)
(***************************************************************************)
EXTENDS Naturals, FiniteSets, SequencesExt, FiniteSetsExt

CONSTANTS
  Obj,        \* the structs
  Goods,      \* [Obj -> Struct]: what there is at the start
  Price,      \* get_cost without a surcharge
  Fee,        \* cost_per_charge, and what damage to the shop costs
  Purse,      \* the gold of the hero at the start
  Chest,      \* that of the shopkeeper
  Appease,    \* what an angry shopkeeper takes who was not robbed: 1000
  MaxOwed,    \* bound: on what is owed, robbed or credited
  Deeds       \* which of the deeds below the hero and the others do

Places == {"none", "shelf", "street", "invent", "onbill", "monst", "kept"}
Struct == [where : Places, quan : Nat, unpaid : BOOLEAN, no_charge : BOOLEAN]
NoObj  == [where |-> "none", quan |-> 0, unpaid |-> FALSE, no_charge |-> FALSE]

ASSUME GoodsAreObjects ==
  /\ IsFiniteSet(Obj) /\ Goods \in [Obj -> Struct]
  /\ \A o \in Obj : /\ Goods[o].where \in {"none", "shelf", "invent"} /\ ~Goods[o].unpaid /\ ~Goods[o].no_charge
                    /\ Goods[o].where = "none" <=> Goods[o].quan = 0

ASSUME AmountsAreNatural ==
  /\ Price \in Nat \ {0} /\ Fee \in Nat \ {0} /\ Appease \in Nat \ {0}
  /\ Purse \in Nat /\ Chest \in Nat /\ MaxOwed \in Nat

ASSUME DeedsAreKnown ==
  Deeds \subseteq {"gold", "fees", "food", "floor", "vandal", "thieves", "fight", "sleep", "hole", "throw", "throw_out"}

VARIABLES
  obj,      \* the structs
  shk,      \* struct eshk, and where and in what mood its monster is
  umoney,   \* money_cnt(invent)
  till,     \* the gold on the floor of the shop
  pos,      \* the hero: "in" strictly inside, at the "edge", or "out"
  ushops,   \* whether the shop is in u.ushops
  paying    \* dopay's loop over the bill, or Idle

vars == <<obj, shk, umoney, till, pos, ushops, paying>>

NoShk == [gold |-> 0, credit |-> 0, debit |-> 0, loan |-> 0, robbed |-> 0, bill |-> <<>>, bill_p |-> "null",
          peaceful |-> TRUE, surcharge |-> FALSE, following |-> FALSE, awake |-> TRUE, at |-> "dead"]

Idle == [pass |-> 2, tmp |-> 0, itemize |-> FALSE]

(* World: what the helpers change.                                         *)
World == [obj |-> obj, shk |-> shk, umoney |-> umoney, till |-> till, ushops |-> ushops]

(* The bound on what can pile up.                                          *)
Bounded(w) == w.shk.debit <= MaxOwed /\ w.shk.robbed <= MaxOwed /\ w.shk.credit <= MaxOwed

(* The one world there is then, worked out once.                           *)
Become(world) ==
  \E w \in {world} :
    /\ Bounded(w)
    /\ obj' = w.obj /\ shk' = w.shk /\ umoney' = w.umoney /\ till' = w.till /\ ushops' = w.ushops

Move(w, o, where) == [w EXCEPT !.obj[o].where = where]

Free(w)  == {o \in Obj : w.obj[o].where = "none"}
Fresh(w) == CHOOSE o \in Free(w) : TRUE

-----------------------------------------------------------------------------
(* The shopkeeper and the bill.                                            *)

inhishop(w)    == w.shk.at = "shop"
tended(w)      == inhishop(w) /\ w.ushops
costly_spot(w, p) == p = "in" /\ inhishop(w)

Total(bill) == FoldSeq(LAMBDA bp, sum : sum + bp.price * bp.bquan, 0, bill)
addupbill(w) == Total(w.shk.bill)
cheapest_item(w) == Min({bp.price * bp.bquan : bp \in ToSet(w.shk.bill)})

(* Where o is on the bill, or 0.                                           *)
onbill(w, o) == SelectInSeq(w.shk.bill, LAMBDA bp : bp.bo_id = o)

(* The last entry takes the place of the one that goes.                    *)
drop_entry(w, i) == LET b == w.shk.bill IN [w EXCEPT !.shk.bill = Front([b EXCEPT ![i] = Last(b)])]

Riled(price)    == price + (price + 2) \div 3
Pacified(price) == price - (price + 3) \div 4

raised(bill)  == FoldLeft(LAMBDA b, bp : Append(b, [bp EXCEPT !.price = Riled(bp.price)]), <<>>, bill)
lowered(bill) == FoldLeft(LAMBDA b, bp : Append(b, [bp EXCEPT !.price = Pacified(bp.price)]), <<>>, bill)

(* Mutant: the bill keeps its old prices.                                  *)
pacify_no_bill(w) == [w EXCEPT !.shk.peaceful = TRUE, !.shk.surcharge = FALSE]

pacify_shk(w) ==
  [w EXCEPT !.shk.peaceful = TRUE, !.shk.surcharge = FALSE,
            !.shk.bill = IF w.shk.surcharge THEN lowered(@) ELSE @]

rile_shk(w) ==
  [w EXCEPT !.shk.peaceful = FALSE, !.shk.surcharge = TRUE,
            !.shk.bill = IF w.shk.surcharge THEN @ ELSE raised(@)]

(* Whoever looks the shopkeeper up brings the surcharge up to date.        *)
shop_keeper(w) ==
  CASE w.shk.at = "dead" -> w
    [] w.shk.at # "dead" /\ w.shk.peaceful  -> pacify_shk(w)
    [] w.shk.at # "dead" /\ ~w.shk.peaceful -> rile_shk(w)

get_cost(w) == IF w.shk.surcharge THEN Riled(Price) ELSE Price

hot_pursuit(w) == [rile_shk(w) EXCEPT !.shk.following = TRUE]

rouse_shk(w) == [w EXCEPT !.shk.awake = TRUE]

(* Everything unpaid becomes the hero's, wherever it is.                   *)
setpaid(w) ==
  [w EXCEPT !.obj = [o \in Obj |-> IF @[o].where = "onbill" THEN NoObj ELSE [@[o] EXCEPT !.unpaid = FALSE]],
            !.shk.bill = <<>>, !.shk.credit = 0, !.shk.debit = 0, !.shk.loan = 0]

check_credit(w, amount) ==
  LET used == Min({amount, w.shk.credit}) IN [left |-> amount - used, world |-> [w EXCEPT !.shk.credit = @ - used]]

(* Nothing is moved when there is not enough.                              *)
money2mon(w, amount) ==
  IF w.umoney < amount THEN w ELSE [w EXCEPT !.umoney = @ - amount, !.shk.gold = @ + amount]

pay(w, amount) ==
  LET c == check_credit(w, amount) IN
  [money2mon(c.world, c.left) EXCEPT !.shk.robbed = IF @ > amount THEN @ - amount ELSE 0]

-----------------------------------------------------------------------------
(* Putting on the bill, and taking off.                                    *)

extend_bill(w, bp) == [w EXCEPT !.shk.bill_p = "own", !.shk.bill = Append(@, bp)]

Entry(o, quan, price, useup) == [bo_id |-> o, bquan |-> quan, price |-> price, useup |-> useup]

addtobill(w, o, dummy) ==
  LET v == shop_keeper(w) IN
  IF onbill(w, o) # 0 THEN v
  ELSE IF w.obj[o].no_charge THEN [v EXCEPT !.obj[o].no_charge = FALSE]
  ELSE extend_bill([(IF dummy THEN Move(v, o, "onbill") ELSE v) EXCEPT !.obj[o].unpaid = TRUE],
                   Entry(o, w.obj[o].quan, get_cost(v), dummy))

(* Mutant: what was used of it is forgotten with the rest.                 *)
subfrombill_all(w, o) ==
  LET i == onbill(w, o) IN IF i = 0 THEN w ELSE drop_entry([w EXCEPT !.obj[o].unpaid = FALSE], i)

(* What was used of it stays to be paid, under a new object.               *)
subfrombill(w, o) ==
  LET i == onbill(w, o)
      v == [w EXCEPT !.obj[o].unpaid = FALSE]
      d == Fresh(w)
  IN  IF i = 0 THEN w
      ELSE IF w.shk.bill[i].bquan = w.obj[o].quan THEN drop_entry(v, i)
      ELSE LET used == w.shk.bill[i].bquan - w.obj[o].quan IN
           [v EXCEPT !.obj[d] = [v.obj[o] EXCEPT !.where = "onbill", !.quan = used],
                     !.shk.bill[i] = Entry(d, used, w.shk.bill[i].price, TRUE)]

(* A struct is at hand for each one that may be needed.                    *)
Spare(w, n) == Cardinality(Free(w)) >= n

(* How many of them subfrombill wants.                                     *)
PartlyUsed(w, o) == LET i == onbill(w, o) IN IF i # 0 /\ w.shk.bill[i].bquan > w.obj[o].quan THEN 1 ELSE 0

splitbill(w, o, p, num) ==
  LET i == onbill(w, o) IN
  IF ~tended(w) \/ i = 0 THEN w
  ELSE extend_bill([w EXCEPT !.shk.bill[i].bquan = @ - num], Entry(p, num, w.shk.bill[i].price, FALSE))

(* Mutant: the bill is not told.                                           *)
splitobj_silent(w, o, p, num) ==
  [w EXCEPT !.obj[p] = [w.obj[o] EXCEPT !.quan = num], !.obj[o].quan = @ - num]

splitobj(w, o, p, num) ==
  LET v == [w EXCEPT !.obj[p] = [w.obj[o] EXCEPT !.quan = num], !.obj[o].quan = @ - num]
  IN  IF w.obj[o].unpaid THEN splitbill(shop_keeper(v), o, p, num) ELSE v

(* Freed, unless it is still to be paid for.                               *)
obfree(w, o) ==
  LET i == onbill(w, o) IN
  IF i = 0 THEN [w EXCEPT !.obj[o] = NoObj]
  ELSE [shop_keeper(w) EXCEPT !.shk.bill[i].useup = TRUE, !.obj[o].unpaid = FALSE, !.obj[o].where = "onbill"]

same_price(w, o, p) == w.shk.bill[onbill(w, o)].price = w.shk.bill[onbill(w, p)].price

mergable(w, o, p) ==
  /\ o # p /\ w.obj[o].where = w.obj[p].where
  /\ w.obj[o].unpaid = w.obj[p].unpaid /\ w.obj[o].no_charge = w.obj[p].no_charge
  /\ w.obj[p].unpaid => onbill(w, o) # 0 /\ onbill(w, p) # 0 /\ same_price(w, o, p)

(* Mutant: the entry of what was merged stays on the bill.                 *)
merge_entry_stays(w, o, p) ==
  LET v == [w EXCEPT !.obj[o].quan = @ + w.obj[p].quan, !.obj[p] = NoObj] IN
  IF onbill(w, p) = 0 THEN v
  ELSE [v EXCEPT !.shk.bill[onbill(w, o)].bquan = @ + w.shk.bill[onbill(w, p)].bquan]

(* p becomes part of o, and its entry part of o's.                         *)
merged(w, o, p) ==
  LET v == [w EXCEPT !.obj[o].quan = @ + w.obj[p].quan, !.obj[p] = NoObj]
      i == onbill(w, p)
  IN  IF i = 0 THEN v
      ELSE drop_entry([v EXCEPT !.shk.bill[onbill(w, o)].bquan = @ + w.shk.bill[i].bquan], i)

(* addinv, stackobj: with the first that it stacks with.                   *)
Stack(w, p) ==
  LET v    == IF w.obj[p].unpaid THEN shop_keeper(w) ELSE w
      with == {o \in Obj : mergable(v, o, p)}
  IN  IF w.obj[p].where = "none" \/ with = {} THEN v ELSE merged(v, CHOOSE o \in with : TRUE, p)

-----------------------------------------------------------------------------
(* What is past due.                                                       *)

(* Mutant: the debt is forgotten with the bill.                            *)
rob_shop_bill_only(w) ==
  LET v == rouse_shk(w)
      total == addupbill(w)
  IN  IF v.shk.credit >= total THEN setpaid(v)
      ELSE hot_pursuit([setpaid(v) EXCEPT !.shk.robbed = @ + total - v.shk.credit])

rob_shop(w) ==
  LET v == rouse_shk(w)
      total == addupbill(w) + w.shk.debit
  IN  IF v.shk.credit >= total THEN setpaid(v)
      ELSE hot_pursuit([setpaid(v) EXCEPT !.shk.robbed = @ + total - v.shk.credit])

Owes(w) == w.shk.bill # <<>> \/ w.shk.debit > 0

(* The loan is part of the debit, and is added to it.                      *)
make_angry_shk(w) ==
  LET past_due == w.shk.robbed + addupbill(w) + w.shk.debit + w.shk.loan IN
  IF Owes(w) \/ w.shk.credit > 0
  THEN hot_pursuit([setpaid(w) EXCEPT !.shk.robbed = IF past_due > w.shk.credit THEN past_due - w.shk.credit ELSE 0])
  ELSE hot_pursuit(w)

(* Nothing is charged for what is on the bill.                             *)
stolen_value(w, o, peaceful) ==
  LET v     == shop_keeper(w)
      c     == check_credit(v, w.obj[o].quan * get_cost(v))
      value == w.obj[o].quan * get_cost(v)
  IN  IF ~inhishop(w) \/ onbill(w, o) # 0 \/ w.obj[o].no_charge THEN v
      ELSE IF ~peaceful THEN hot_pursuit([v EXCEPT !.shk.robbed = @ + value])
      ELSE IF c.world.shk.peaceful THEN [c.world EXCEPT !.shk.debit = @ + c.left]
      ELSE [c.world EXCEPT !.shk.robbed = @ + c.left]

(* Mutant: what credit covers is lent as well.                             *)
costly_gold_all(w, amount) ==
  LET c == check_credit(shop_keeper(w), amount) IN
  [c.world EXCEPT !.shk.debit = @ + c.left, !.shk.loan = @ + amount]

costly_gold(w, amount) ==
  LET c == check_credit(shop_keeper(w), amount) IN
  [c.world EXCEPT !.shk.debit = @ + c.left, !.shk.loan = @ + c.left]

-----------------------------------------------------------------------------
(* Coming and going.                                                       *)

InRoom(p) == p \in {"in", "edge"}

(* Mutant: one who is awake lets the hero go.                              *)
u_left_shop_awake(w, leaving, from, to) ==
  LET v == shop_keeper(w) IN
  IF ~leaving /\ (to # "edge" \/ from = "edge") THEN w
  ELSE IF ~inhishop(w) \/ ~Owes(v) \/ w.shk.awake THEN v
  ELSE rob_shop(v)

(* leaving: the shop is in u.ushops_left.  A shopkeeper who can protests   *)
(* at the boundary; one who cannot is robbed there.                        *)
u_left_shop(w, leaving, from, to) ==
  LET v == shop_keeper(w) IN
  IF ~leaving /\ (to # "edge" \/ from = "edge") THEN w
  ELSE IF ~inhishop(w) \/ ~Owes(v) \/ (~leaving /\ w.shk.awake) THEN v
  ELSE rob_shop(v)

(* bill_p is given up, and the entries are not looked at.                  *)
u_entered_shop(w) ==
  CASE w.shk.at = "dead" -> [w EXCEPT !.ushops = FALSE]
    [] w.shk.at = "out"  -> [shop_keeper(w) EXCEPT !.shk.bill_p = "dump", !.ushops = FALSE]
    [] w.shk.at = "shop" -> [shop_keeper(w) EXCEPT !.shk.bill_p = "null"]

check_special_room(w, from, to) ==
  LET was == w.ushops
      v   == [w EXCEPT !.ushops = InRoom(to)]
      l   == IF was THEN u_left_shop(v, ~InRoom(to), from, to) ELSE v
  IN  IF InRoom(to) /\ ~was THEN u_entered_shop(l) ELSE l

(* He is back: what the hero carries in is looked at again.                *)
after_shk_move(w) ==
  IF w.shk.bill_p = "dump" /\ inhishop(w)
  THEN check_special_room([w EXCEPT !.shk.bill_p = "null"], pos, pos) ELSE w

home_shk(w) == after_shk_move([w EXCEPT !.shk.at = "shop"])

make_happy_shk(w) ==
  LET v == [pacify_shk(w) EXCEPT !.shk.following = FALSE, !.shk.robbed = 0] IN
  IF inhishop(w) THEN v ELSE home_shk(v)

-----------------------------------------------------------------------------
Init ==
  /\ obj = Goods
  /\ shk = [NoShk EXCEPT !.gold = Chest, !.at = "shop"]
  /\ umoney = Purse /\ till = 0
  /\ pos = "out" /\ ushops = FALSE /\ paying = Idle

(* Between two questions of dopay nothing else happens.                    *)
Does(deed) == paying = Idle /\ deed \in Deeds
Stays      == UNCHANGED <<pos, paying>>

(* domove and what follows; the hero may also be taken out of the shop.    *)
Walk(to) ==
  /\ paying = Idle
  /\ to # "out" \/ pos # "out"
  /\ Become(check_special_room(World, pos, to))
  /\ pos' = to /\ UNCHANGED paying

(* remote_burglary: whoever is outside takes it from there.                *)
remote_burglary(w) ==
  IF inhishop(w) /\ Owes(shop_keeper(w)) THEN rob_shop(shop_keeper(w)) ELSE shop_keeper(w)

pick_obj(w, o) ==
  LET b == IF w.obj[o].where = "shelf" /\ inhishop(w)
           THEN LET a == addtobill(w, o, FALSE) IN IF w.ushops THEN a ELSE remote_burglary(a)
           ELSE w
  IN  Stack([Move(b, o, "invent") EXCEPT !.obj[o].no_charge = FALSE], o)

(* pickup_object: num of them.                                             *)
PickUp(o, num) ==
  /\ paying = Idle
  /\ obj[o].where \in {"shelf", "street"} /\ num \in 1 .. obj[o].quan
  /\ obj[o].where = "street" => pos # "in"
  /\ num < obj[o].quan => Spare(World, 1)
  /\ IF num = obj[o].quan THEN Become(pick_obj(World, o))
     ELSE Become(pick_obj(splitobj(World, o, Fresh(World), num), Fresh(World)))
  /\ Stays

(* What he gives for it, and what the hero answers.                        *)
offer(w, o)  == w.obj[o].quan * (Price \div 2)
tmpcr(price) == ((price * 9) \div 10) + (IF price <= 1 THEN 1 ELSE 0)

sellobj(w, o, answer) ==
  LET v     == rouse_shk(shop_keeper(w))
      price == offer(w, o)
      gives == Min({price, v.shk.gold})
  IN  CASE w.obj[o].unpaid -> subfrombill(shop_keeper(w), o)
        [] ~w.obj[o].unpaid /\ answer = "dont_sell" -> [shop_keeper(w) EXCEPT !.obj[o].no_charge = TRUE]
        [] ~w.obj[o].unpaid /\ answer # "dont_sell" /\ ~v.shk.peaceful -> v
        [] ~w.obj[o].unpaid /\ answer # "dont_sell" /\ v.shk.peaceful /\ v.shk.robbed > 0 ->
             [v EXCEPT !.shk.robbed = 0]
        [] ~w.obj[o].unpaid /\ answer = "no" /\ v.shk.peaceful /\ v.shk.robbed = 0 ->
             [v EXCEPT !.obj[o].no_charge = TRUE]
        [] ~w.obj[o].unpaid /\ answer = "yes" /\ v.shk.peaceful /\ v.shk.robbed = 0 ->
             IF v.shk.gold = 0 THEN [v EXCEPT !.shk.credit = @ + tmpcr(price)]
             ELSE [v EXCEPT !.shk.gold = @ - gives, !.umoney = @ + gives]

(* Nobody is asked about what is unpaid.                                   *)
Answers(o) == IF costly_spot(World, pos) /\ ~obj[o].unpaid THEN {"yes", "no", "dont_sell"} ELSE {"no"}

(* dropx: the floor next to the shopkeeper's place is not costly.          *)
Drop(o, answer) ==
  /\ paying = Idle
  /\ obj[o].where = "invent" /\ Spare(World, PartlyUsed(World, o))
  /\ LET w == Move(World, o, IF pos = "in" THEN "shelf" ELSE "street") IN
     Become(Stack(IF costly_spot(w, pos) /\ ushops THEN sellobj(w, o, answer) ELSE w, o))
  /\ Stays

-----------------------------------------------------------------------------
(* Throwing, kicking, falling.                                             *)

(* One of a stack, and the world it was split off in.                      *)
Splits(w, o) == IF w.obj[o].quan > 1 THEN 1 ELSE 0
One(w, o)    == IF w.obj[o].quan > 1 THEN Fresh(w) ELSE o
Parted(w, o) == IF w.obj[o].quan > 1 THEN splitobj(w, o, Fresh(w), 1) ELSE w

Stolen(w, o) == IF w.obj[o].unpaid THEN subfrombill(stolen_value(w, o, w.shk.peaceful), o) ELSE w

(* stolen_value comes first, and finds it on the bill.                     *)
check_shop_obj(w, o, lands) ==
  IF ~w.ushops \/ w.shk.at = "dead" THEN w
  ELSE IF lands = "breaks" THEN [Stolen(shop_keeper(w), o) EXCEPT !.obj[o].no_charge = TRUE]
  ELSE IF lands = "street" \/ ~inhishop(w) THEN Stolen(shop_keeper(w), o)
  ELSE IF ~costly_spot(w, pos) THEN shop_keeper(w)
  ELSE IF w.obj[o].unpaid THEN subfrombill(shop_keeper(w), o) ELSE sellobj(w, o, "yes")

(* throwit, breakobj.                                                      *)
Throw(o, lands) ==
  /\ Does(IF obj[o].unpaid /\ lands # "shelf" THEN "throw_out" ELSE "throw")
  /\ obj[o].where = "invent"
  /\ Spare(World, Splits(World, o) + PartlyUsed(World, o))
  /\ LET w == Parted(World, o)
         t == One(World, o)
     IN  Become(IF lands = "breaks" THEN obfree(check_shop_obj(w, t, lands), t)
                ELSE Stack(check_shop_obj(Move(w, t, lands), t, lands), t))
  /\ Stays

(* ship_object: down a hole, out of the hero's hands.                      *)
FallsDown(o) ==
  /\ Does("hole")
  /\ obj[o].where = "invent"
  /\ Spare(World, PartlyUsed(World, o))
  /\ LET w == IF obj[o].unpaid THEN stolen_value(subfrombill(shop_keeper(World), o), o, TRUE) ELSE World
     IN  Become([w EXCEPT !.obj[o] = NoObj])
  /\ Stays

(* really_kick, of something on the floor of the shop, out of it.          *)
KickOut(o) ==
  /\ Does("vandal")
  /\ obj[o].where = "shelf" /\ Spare(World, Splits(World, o))
  /\ LET w == Parted(World, o)
         t == One(World, o)
     IN  Become(Stack(Move(IF inhishop(w) THEN stolen_value(w, t, w.shk.peaceful) ELSE w, t, "street"), t))
  /\ Stays

(* breakobj: angry at once if the hero is not strictly inside.             *)
BreakShelf(o) ==
  /\ Does("vandal")
  /\ obj[o].where = "shelf"
  /\ LET v == shop_keeper(World)
         s == stolen_value(v, o, v.shk.peaceful)
         charged == s.shk.debit > v.shk.debit \/ s.shk.robbed > v.shk.robbed
     IN  Become(obfree(IF obj[o].no_charge \/ ~inhishop(v) THEN v
                       ELSE IF charged /\ pos # "in" THEN make_angry_shk(s) ELSE s, o))
  /\ Stays

(* useupf, of one on the floor; from outside it is theft.                  *)
UseFloor(o) ==
  /\ Does("floor")
  /\ obj[o].where = "shelf" /\ Spare(World, Splits(World, o))
  /\ LET w == Parted(World, o)
         t == One(World, o)
     IN  Become(obfree(IF ~inhishop(w) THEN w
                       ELSE IF InRoom(pos) THEN addtobill(w, t, FALSE) ELSE stolen_value(w, t, FALSE), t))
  /\ Stays

-----------------------------------------------------------------------------
(* Using, eating, altering what is carried.                                *)

(* splitobj of a stack.                                                    *)
Split(o, num) ==
  /\ paying = Idle
  /\ obj[o].where = "invent" /\ num \in 1 .. (obj[o].quan - 1) /\ Spare(World, 1)
  /\ Become(splitobj(World, o, Fresh(World), num))
  /\ Stays

useup(w, o) == IF w.obj[o].quan > 1 THEN [w EXCEPT !.obj[o].quan = @ - 1] ELSE obfree(w, o)

UseUp(o) ==
  /\ paying = Idle
  /\ obj[o].where = "invent"
  /\ Become(useup(World, o))
  /\ Stays

check_unpaid(w) == [shop_keeper(w) EXCEPT !.shk.debit = @ + Fee]

UseCharge(o) ==
  /\ Does("fees")
  /\ obj[o].where = "invent" /\ obj[o].unpaid /\ tended(World)
  /\ Become(check_unpaid(World))
  /\ Stays

(* The bill gets a duplicate, and the object itself is the hero's.         *)
bill_dummy_object(w, o) ==
  LET v == subfrombill(w, o)
      d == Fresh(v)
  IN  [addtobill([v EXCEPT !.obj[d] = [v.obj[o] EXCEPT !.where = "none"]], d, TRUE) EXCEPT
         !.obj[o].unpaid = FALSE, !.obj[o].no_charge = w.obj[o].where # "invent"]

(* touchfood, light_cocktail: one of the stack is split off first.         *)
Alter(o) ==
  /\ Does("food")
  /\ \/ obj[o].where = "invent" /\ obj[o].unpaid /\ costly_spot(World, pos)
     \/ obj[o].where = "shelf" /\ ~obj[o].no_charge /\ costly_spot(World, pos)
  /\ Spare(World, Splits(World, o) + 1 + (IF obj[o].quan > 1 THEN 0 ELSE PartlyUsed(World, o)))
  /\ Become(bill_dummy_object(Parted(World, o), One(World, o)))
  /\ Stays

-----------------------------------------------------------------------------
(* Gold.                                                                   *)

DropGold(amount) ==
  /\ Does("gold")
  /\ pos = "in" /\ amount \in 1 .. umoney
  /\ LET v    == rouse_shk(shop_keeper(World))
         w    == [v EXCEPT !.umoney = @ - amount, !.till = @ + amount]
         owed == v.shk.debit
     IN  Become(IF ~tended(World) THEN [World EXCEPT !.umoney = @ - amount, !.till = @ + amount]
                ELSE IF ~v.shk.peaceful THEN w
                ELSE IF v.shk.robbed > 0 THEN [w EXCEPT !.shk.robbed = 0]
                ELSE IF owed >= amount
                     THEN [w EXCEPT !.shk.debit = @ - amount, !.shk.loan = IF @ >= amount THEN @ - amount ELSE 0]
                ELSE [w EXCEPT !.shk.credit = @ + amount - owed, !.shk.debit = 0, !.shk.loan = IF owed > 0 THEN 0 ELSE @])
  /\ Stays

PickGold(amount) ==
  /\ Does("gold")
  /\ amount \in 1 .. till
  /\ LET w == [World EXCEPT !.umoney = @ + amount, !.till = @ - amount]
         c == costly_gold(w, amount)
     IN  Become(IF ~inhishop(w) THEN w ELSE IF ushops THEN c ELSE remote_burglary(c))
  /\ Stays

(* ghitm: now and then it makes him angry first.                           *)
ThrowGold(amount, annoys) ==
  /\ Does("gold")
  /\ shk.at # "dead" /\ amount \in 1 .. umoney /\ shk.awake
  /\ LET w == [World EXCEPT !.umoney = @ - amount, !.shk.gold = @ + amount, !.shk.peaceful = @ /\ ~annoys]
     IN  Become(IF shk.robbed > amount THEN [w EXCEPT !.shk.robbed = @ - amount]
                ELSE IF shk.robbed > 0 THEN make_happy_shk([w EXCEPT !.shk.robbed = 0])
                ELSE IF w.shk.peaceful THEN [w EXCEPT !.shk.credit = @ + amount] ELSE w)
  /\ Stays

(* pay_for_damage: he stands next to the hero, and asks.                   *)
PayForDamage(answer) ==
  /\ Does("fees")
  /\ tended(World)
  /\ LET v == shop_keeper(World) IN
     Become(IF ~v.shk.peaceful \/ v.shk.following \/ v.umoney + v.shk.credit < Fee \/ answer = "no"
            THEN hot_pursuit(v)
            ELSE LET c == check_credit(v, Fee) IN pacify_shk(home_shk(money2mon(c.world, c.left))))
  /\ Stays

-----------------------------------------------------------------------------
(* What becomes of the shopkeeper, and what others take.                   *)

(* setmangry: the surcharge follows when he is next looked up.             *)
Attack ==
  /\ Does("fight")
  /\ shk.at # "dead" /\ shk.peaceful
  /\ Become([World EXCEPT !.shk.peaceful = FALSE])
  /\ Stays

(* A scroll of taming, #chat with a bard, and the like.                    *)
Appeased ==
  /\ Does("fight")
  /\ shk.at # "dead"
  /\ Become(make_happy_shk(World))
  /\ Stays

(* rloc_to, dighole, potions and traps that send him away.                 *)
SentAway ==
  /\ Does("fight")
  /\ inhishop(World)
  /\ Become(make_angry_shk([World EXCEPT !.shk.at = "out"]))
  /\ Stays

(* shk_move: he leaves to follow only when there is nothing on the bill.   *)
Follows ==
  /\ Does("fight")
  /\ inhishop(World) /\ shk.following /\ shk.bill = <<>> /\ pos = "out"
  /\ Become([World EXCEPT !.shk.at = "out"])
  /\ Stays

(* move_special, and after_shk_move.                                       *)
ComesBack ==
  /\ Does("fight")
  /\ shk.at = "out"
  /\ Become(after_shk_move(check_special_room([World EXCEPT !.shk.at = "shop"], pos, pos)))
  /\ Stays

(* m_detach and shkgone: his things lie where he stood, and nothing in the *)
(* shop is for sale any more.                                              *)
Dies ==
  /\ Does("fight")
  /\ shk.at # "dead"
  /\ LET there == IF inhishop(World) THEN "shelf" ELSE "street"
         left  == [World EXCEPT !.obj = [o \in Obj |-> IF @[o].where = "kept" THEN [@[o] EXCEPT !.where = there] ELSE @[o]],
                                !.till = IF inhishop(World) THEN @ + shk.gold ELSE @, !.shk.gold = 0]
         freed == [left EXCEPT !.obj = [o \in Obj |-> [@[o] EXCEPT !.no_charge = FALSE]]]
         w     == IF ushops THEN [setpaid(freed) EXCEPT !.ushops = FALSE] ELSE freed
     IN  Become([w EXCEPT !.shk = NoShk])
  /\ Stays

FallsAsleep == Does("sleep") /\ shk.at = "shop" /\ shk.awake /\ Become([World EXCEPT !.shk.awake = FALSE]) /\ Stays
WakesUp     == Does("sleep") /\ ~shk.awake /\ Become(rouse_shk(World)) /\ Stays

(* shopdig: the hero falls, and the shopkeeper keeps the backpack.         *)
grabs(w, o) == Move(subfrombill(w, o), o, "kept")
Carried     == {o \in Obj : obj[o].where = "invent"}

Digs ==
  /\ Does("hole")
  /\ ushops /\ shk.at # "dead"
  /\ Spare(World, Cardinality({o \in Carried : PartlyUsed(World, o) = 1}))
  /\ LET v == shop_keeper(World) IN
     Become(IF ~inhishop(v) THEN make_angry_shk(v)
            ELSE IF v.shk.awake /\ Owes(v) THEN FoldSet(LAMBDA o, w : grabs(w, o), v, Carried) ELSE rile_shk(v))
  /\ Stays

(* A monster picks up, steals (stealarm, and not steal, tells the bill),   *)
(* and drops what it has.                                                  *)
MonsterTakes(o, from, tells) ==
  /\ Does("thieves")
  /\ obj[o].where = from
  /\ tells => from = "invent" /\ obj[o].unpaid /\ ushops
  /\ tells => Spare(World, PartlyUsed(World, o))
  /\ Become(Move(IF tells THEN subfrombill(shop_keeper(World), o) ELSE World, o, "monst"))
  /\ Stays

MonsterDrops(o, where) ==
  /\ Does("thieves")
  /\ obj[o].where = "monst"
  /\ Become(Stack(Move(World, o, where), o))
  /\ Stays

-----------------------------------------------------------------------------
(* dopay.  The hero stands next to the shopkeeper, or in his shop.         *)

resident(w) == tended(w)

(* What he takes for what was stolen, or to calm down.                     *)
PayRobbery(w, calmed) ==
  LET amount == IF w.shk.robbed > 0 THEN Min({w.umoney, w.shk.robbed}) ELSE Appease
      enough == IF w.shk.robbed > 0 THEN w.umoney >= w.shk.robbed \div 2 ELSE w.umoney >= Appease
  IN  IF ~enough THEN w
      ELSE IF calmed \/ w.shk.robbed > 0 THEN make_happy_shk(pay(w, amount)) ELSE pay(w, amount)

(* One who is not angry, away from his shop, takes anything.               *)
PayAway(w) ==
  LET v == pay(w, Min({w.umoney, w.shk.robbed})) IN
  IF w.shk.robbed = 0 \/ w.umoney = 0 THEN w
  ELSE IF w.umoney < w.shk.robbed \div 2 THEN v ELSE make_happy_shk(v)

(* The debt goes first, all of it or nothing.                              *)
CanPayDebt(w) == w.umoney + w.shk.credit >= w.shk.debit
PayDebt(w) ==
  LET c == check_credit(w, w.shk.debit) IN
  IF w.shk.debit = 0 THEN w ELSE [money2mon(c.world, c.left) EXCEPT !.shk.debit = 0, !.shk.loan = 0]

dopay ==
  LET s == shop_keeper(World)
      v == IF s.shk.robbed > 0 \/ Owes(s) THEN rouse_shk(s) ELSE s
      d == PayDebt(v)
  IN  /\ paying = Idle
      /\ v.shk.at # "dead" /\ v.shk.awake
      /\ \/ /\ ~resident(v) /\ v.shk.peaceful
            /\ Become(PayAway(v)) /\ UNCHANGED paying
         \/ /\ ~Owes(v) /\ (resident(v) \/ ~v.shk.peaceful)
            /\ v.shk.robbed > 0 \/ ~v.shk.peaceful
            /\ \E calmed \in BOOLEAN : Become(PayRobbery(v, calmed))
            /\ UNCHANGED paying
         \/ /\ Owes(v) /\ resident(v) /\ CanPayDebt(v)
            /\ Become(d)
            /\ IF d.shk.bill = <<>> \/ d.umoney + d.shk.credit < cheapest_item(d) THEN UNCHANGED paying
               ELSE \E itemized \in BOOLEAN :
                      paying' = [pass |-> 0, tmp |-> 1, itemize |-> itemized \/ Len(d.shk.bill) = 1]
      /\ UNCHANGED pos

-----------------------------------------------------------------------------
(* dopay's loop over the bill, an entry at a time.  What was used up is    *)
(* paid for in the first pass, the rest in the second.                     *)

Whole(bp)    == bp.useup \/ obj[bp.bo_id].quan = bp.bquan
Consumed     == paying.pass = 0
Passed(bp)   == Whole(bp) /\ (bp.useup <=> ~Consumed)
Quantity(bp) == IF ~Consumed \/ Whole(bp) THEN (IF bp.useup THEN bp.bquan ELSE obj[bp.bo_id].quan)
                ELSE bp.bquan - obj[bp.bo_id].quan
Cost(bp)     == bp.price * Quantity(bp)

(* bp_to_obj finds nothing.                                                *)
OutOfOrder(bp) == IF bp.useup THEN obj[bp.bo_id].where # "onbill" ELSE obj[bp.bo_id].where \in {"none", "onbill"}

(* PAY_SOME when the rest of the stack is still unpaid, or PAY_BUY.        *)
dopayobj(w, i) ==
  LET bp == shk.bill[i]
      v  == pay(w, Cost(bp))
  IN  IF bp.useup THEN drop_entry([v EXCEPT !.obj[bp.bo_id] = NoObj], i)
      ELSE IF Consumed THEN [v EXCEPT !.shk.bill[i].bquan = obj[bp.bo_id].quan]
      ELSE drop_entry([v EXCEPT !.obj[bp.bo_id].unpaid = FALSE], i)

(* Mutant: the entry that takes the place of the one paid is passed over.  *)
bought_skips(i) == [paying EXCEPT !.tmp = i + 1]

bought(i) == paying

(* Mutant: an entry that is left out is looked at again.                   *)
skipped_stays(i) == paying

skipped(i) == [paying EXCEPT !.tmp = i + 1]

PayEntry(answer) ==
  LET i     == paying.tmp
      bp    == shk.bill[i]
      funds == umoney + shk.credit
      stay  == UNCHANGED <<obj, shk, umoney, till, ushops>>
      refused == paying.itemize /\ (answer = "no" \/ (~Consumed /\ ~Whole(bp)))
  IN  /\ paying # Idle /\ i <= Len(shk.bill)
      /\ IF OutOfOrder(bp) THEN Become(setpaid(World)) /\ paying' = Idle
         ELSE IF Passed(bp) THEN stay /\ paying' = skipped(i)
         ELSE IF paying.itemize /\ funds = 0 THEN stay /\ paying' = Idle
         ELSE IF refused \/ funds < Cost(bp) THEN stay /\ paying' = IF paying.itemize THEN skipped(i) ELSE Idle
         ELSE Become(dopayobj(World, i)) /\ paying' = bought(i)
      /\ UNCHANGED pos

PassEnds ==
  /\ paying # Idle /\ paying.tmp > Len(shk.bill)
  /\ paying' = IF Consumed THEN [paying EXCEPT !.pass = 1, !.tmp = 1] ELSE Idle
  /\ UNCHANGED <<obj, shk, umoney, till, ushops, pos>>

-----------------------------------------------------------------------------
Handles(o) ==
  \/ \E num \in 1 .. obj[o].quan : PickUp(o, num) \/ Split(o, num)
  \/ \E answer \in Answers(o) : Drop(o, answer)
  \/ UseUp(o) \/ UseCharge(o) \/ Alter(o) \/ UseFloor(o)
  \/ \E lands \in {"shelf", "street", "breaks"} : Throw(o, lands)
  \/ FallsDown(o) \/ KickOut(o) \/ BreakShelf(o)
  \/ \E from \in {"shelf", "invent"}, tells \in BOOLEAN : MonsterTakes(o, from, tells)
  \/ \E where \in {"shelf", "street"} : MonsterDrops(o, where)

Shopkeeper == Attack \/ Appeased \/ SentAway \/ Follows \/ ComesBack \/ Dies \/ FallsAsleep \/ WakesUp \/ Digs

Gold == \E amount \in 1 .. (umoney + till) :
          DropGold(amount) \/ PickGold(amount) \/ \E annoys \in BOOLEAN : ThrowGold(amount, annoys)

Pays == \/ dopay
        \/ \E answer \in {"yes", "no"} : PayEntry(answer) \/ PayForDamage(answer)
        \/ PassEnds

Next ==
  \/ \E to \in {"in", "edge", "out"} : Walk(to)
  \/ \E o \in Obj : Handles(o)
  \/ Gold \/ Pays \/ Shopkeeper

(* The loop of dopay runs on by itself, whatever is answered.              *)
Spec == Init /\ [][Next]_vars /\ WF_vars(\E answer \in {"yes", "no"} : PayEntry(answer)) /\ WF_vars(PassEnds)

-----------------------------------------------------------------------------
(* Properties.                                                             *)

ids == {shk.bill[i].bo_id : i \in DOMAIN shk.bill}

TypeOK ==
  /\ obj \in [Obj -> Struct]
  /\ \A i \in DOMAIN shk.bill : shk.bill[i] \in [bo_id : Obj, bquan : Nat, price : Nat, useup : BOOLEAN]
  /\ {umoney, till, shk.gold, shk.credit, shk.debit, shk.loan, shk.robbed} \subseteq Nat
  /\ shk.at \in {"shop", "out", "dead"} /\ shk.bill_p \in {"null", "own", "dump"}
  /\ pos \in {"in", "edge", "out"} /\ ushops \in BOOLEAN
  /\ paying.pass \in 0 .. 2 /\ paying.tmp \in Nat

(* Each object that is unpaid or was used up, wherever it has got to, has  *)
(* one entry of the bill, for at least as many as are left of it (shk.c,   *)
(* onbill: unpaid obj not on bill?), and each entry has an object: on the  *)
(* bill's own chain when it was used up, unpaid and somewhere else when it *)
(* was not (dopay: Shopkeeper administration out of order).                *)
BillAgrees ==
  /\ Cardinality(ids) = Len(shk.bill)
  /\ \A o \in Obj : obj[o].unpaid \/ obj[o].where = "onbill" => o \in ids
  /\ \A i \in DOMAIN shk.bill : LET bp == shk.bill[i] IN
       /\ bp.bquan > 0
       /\ bp.useup <=> obj[bp.bo_id].where = "onbill"
       /\ bp.useup \/ (obj[bp.bo_id].unpaid /\ obj[bp.bo_id].quan \in 1 .. bp.bquan)

(* What is on the bill is in the shop, or went out of it without the hero: *)
(* there is a bill only while both are inside.  So setpaid, which clears   *)
(* one shop's bill and the unpaid goods of all of them, harms no other.    *)
(* And the entries are where bill_p says.                                  *)
BillStaysInside == shk.bill # <<>> => ushops /\ inhishop(World) /\ shk.bill_p = "own"

(* Whatever happened to his mood since an object was billed, its price is  *)
(* the one he would ask for it now.                                        *)
PricesAgree == \A i \in DOMAIN shk.bill : shk.bill[i].price = get_cost(World)

(* The gold picked up from the floor is part of the debt.                  *)
LoanIsOwed == shk.loan <= shk.debit

(* The second pass over a bill that is paid as a whole starts when nothing *)
(* is left that was used up, and buys entry after entry at the front.      *)
SecondPassBuysAll ==
  paying.pass = 1 /\ ~paying.itemize =>
    /\ paying.tmp = 1 \/ shk.bill = <<>>
    /\ \A i \in DOMAIN shk.bill : ~shk.bill[i].useup /\ Whole(shk.bill[i])

(* What the shop has and is owed, at the list price.                       *)
ForSale(o) == IF obj[o].where \in {"shelf", "kept"} /\ ~obj[o].unpaid /\ ~obj[o].no_charge THEN obj[o].quan ELSE 0
Billed     == FoldSeq(LAMBDA bp, sum : sum + bp.bquan, 0, shk.bill)
Worth      == shk.gold + till + shk.debit + shk.robbed + Price * (Billed + MapThenSumSet(ForSale, Obj))

ByAMonster == \E o \in Obj : obj[o].where # "monst" /\ obj'[o].where = "monst"

(* While he keeps his shop and was not robbed, nothing the hero does costs *)
(* him anything that he does not charge for: what leaves the shop, breaks, *)
(* is eaten, used up or altered is paid, billed, or owed (fixes0.9.txt:    *)
(* shopkeepers would not always charge you for destroying their objects).  *)
NothingForFree ==
  [][inhishop(World) /\ inhishop(World)' /\ shk.robbed = 0 /\ ~ByAMonster
     => Worth' + shk.credit >= Worth + shk.credit']_vars

(* The loop of dopay comes to an end.                                      *)
PayReturns == paying # Idle ~> paying = Idle
=============================================================================
