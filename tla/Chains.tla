------------------------------- MODULE Chains -------------------------------
(* The linked lists of the program as sequences, and what unlinking leaves *)
(* of them.                                                                *)
EXTENDS Integers, Sequences, FiniteSets, SequencesExt, FiniteSetsExt

(* The sub-list of q at the indices S, in list order: what is left when a  *)
(* walk of the list unlinks every element outside S.                       *)
Keep(q, S) ==
  [k \in 1 .. Cardinality(S) |->
     q[CHOOSE i \in S : Cardinality({j \in S : j <= i}) = k]]

(* The function f with what g says where g says something.                  *)
over(g, f) == FoldSet(LAMBDA p, h : [h EXCEPT ![p] = g[p]], f, DOMAIN g)

(* What is left of a chain of structs without those in gone.               *)
unlinked(chain, gone) == Keep(chain, {i \in DOMAIN chain : chain[i] \notin gone})
=============================================================================
