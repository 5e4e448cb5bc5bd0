----------------------------- MODULE TimerQueue -----------------------------
(***************************************************************************)
(* The ordered timer list of timeout.c (timer_base) as a sequence, and the *)
(* list operations the rest of the timer package is built from.            *)
(*                                                                         *)
(* A timer_element is a record [timeout, func, arg].  Its `kind' is not    *)
(* kept: every caller of start_timer passes the kind that belongs to the   *)
(* callback (TIMER_OBJECT with ROT_CORPSE, TIMER_MONSTER with UNPOLY_MON), *)
(* so func and arg determine it.  Its `tid' is only printed.               *)
(***************************************************************************)
EXTENDS Chains

(* "ordered timer list", timeout.c: the sooner timer comes first.          *)
Ordered(q) == \A i, j \in DOMAIN q : i < j => q[i].timeout <= q[j].timeout

(* Where insert_timer stops walking: at the first element that is not      *)
(* sooner than the new one, so of two equal timeouts the newer one is      *)
(* ahead.                                                                  *)
InsertPos(q, t) ==
  CHOOSE p \in 1 .. Len(q) + 1 :
    /\ \A i \in 1 .. p - 1 : q[i].timeout < t.timeout
    /\ p <= Len(q) => q[p].timeout >= t.timeout

(* Mutant: the new timer goes to the end of the list.                      *)
insert_timer_last(q, t) == Append(q, t)

insert_timer(q, t) == InsertAt(q, InsertPos(q, t), t)

(* The timers of r are started one after the other.                        *)
insert_all(q, r) ==
  LET put[n \in 0 .. Len(r)] == IF n = 0 THEN q ELSE insert_timer(put[n - 1], r[n])
  IN  put[Len(r)]

(* The elements of q a test on (func, arg) selects.                        *)
Matches(q, f, a) == {i \in DOMAIN q : q[i].func = f /\ q[i].arg = a}

OnArg(q, a) == {i \in DOMAIN q : q[i].arg = a}

(* remove_timer unlinks the first element with this (func, arg) pair.      *)
remove_timer(q, f, a) ==
  IF Matches(q, f, a) = {} THEN q ELSE Keep(q, DOMAIN q \ {Min(Matches(q, f, a))})

(* obj_stop_timers and mon_stop_timers: unlink every timer of a.           *)
stop_all(q, a) == Keep(q, DOMAIN q \ OnArg(q, a))

(* obj_move_timers: the timers of src now belong to dest.                  *)
move_timers(q, src, dest) ==
  [i \in DOMAIN q |-> IF q[i].arg = src THEN [q[i] EXCEPT !.arg = dest] ELSE q[i]]

(* What obj_split_timers starts, in the order it starts it: a copy of      *)
(* every timer of src, for dest, with the same absolute timeout.           *)
copies(q, src, dest) == Keep(move_timers(q, src, dest), OnArg(q, src))

=============================================================================
