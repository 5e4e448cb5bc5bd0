------------------------------ MODULE MCTimers ------------------------------
(* Timers for TLC: objects of one kind are interchangeable.                *)
EXTENDS Timers

(* Due now, and as late as the age of an old corpse makes it.              *)
LongOverdue == {-300, 0}

Interchangeable == Permutations(Revivers) \cup Permutations(Corpses) \cup Permutations(Eggs)

=============================================================================
