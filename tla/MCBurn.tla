------------------------------- MODULE MCBurn -------------------------------
(* Burn for TLC: objects of one kind are interchangeable (a configuration  *)
(* has all of a kind for sale or none).                                    *)
EXTENDS Burn

Interchangeable == Permutations(Candles) \cup Permutations(Torches) \cup Permutations(Oils)

=============================================================================
