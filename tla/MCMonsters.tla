----------------------------- MODULE MCMonsters -----------------------------
(* Monsters for TLC.                                                       *)
EXTENDS Monsters, TLC

CONSTANTS m1, m2

(* Two rows: the columns are {1, 2}, {3, 4} and {5, 6}.                    *)
Column(p) == (p - 1) \div 2
Rows == [p \in Square |-> {q \in Square \ {p} : Column(q) \in {Column(p), Column(p) + 1} \/ Column(p) = Column(q) + 1}]

Interchangeable == Permutations(Mon)
=============================================================================
