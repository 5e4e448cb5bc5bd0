----------------------------- MODULE AtomicGame -----------------------------
(***************************************************************************)
(* What the files of Checkpoint are for, without the files: at most one    *)
(* game is running, at most one is saved and at most one checkpointed.  A  *)
(* game is saved or checkpointed whole or not at all, what runs is new or  *)
(* what was saved, and a crash leaves both alone.                          *)
(***************************************************************************)
CONSTANT Games

VARIABLES
  running,     \* the game that is being played, if any, as a set
  saved,       \* the game in the save file, if any
  checkpoint,  \* the game that recover can make a saved one
  loading,     \* whether the saved game is on its way back
  explore      \* whether a game is running in explore mode

vars == <<running, saved, checkpoint, loading, explore>>

One == {{g} : g \in Games}

Init == running = {} /\ saved = {} /\ checkpoint = {} /\ loading = FALSE /\ explore = FALSE

Idle == running = {} /\ ~loading

(* A new game; there must be none to come back.                            *)
New ==
  /\ Idle /\ saved = {} /\ checkpoint = {}
  /\ running' \in One /\ explore' \in BOOLEAN
  /\ UNCHANGED <<saved, checkpoint, loading>>

(* "Destroy old game?"                                                     *)
Discard ==
  /\ Idle /\ checkpoint # {}
  /\ checkpoint' = {} /\ UNCHANGED <<running, saved, loading, explore>>

(* recover, which begins by making the save file anew.                     *)
Overwrite ==
  /\ Idle /\ checkpoint # {}
  /\ saved' = {} /\ UNCHANGED <<running, checkpoint, loading, explore>>

Recover ==
  /\ Idle /\ checkpoint # {}
  /\ saved' = checkpoint /\ checkpoint' = {} /\ UNCHANGED <<running, loading, explore>>

(* There is no way out of explore mode.                                    *)
Play ==
  /\ running # {} /\ running' \in One /\ explore' \in {explore, TRUE}
  /\ UNCHANGED <<saved, checkpoint, loading>>

(* The running game is checkpointed, as it is, and runs on; or no longer   *)
(* is, since checkpointing has been turned off.                            *)
Checkpoint ==
  /\ running # {} /\ checkpoint' \in {running, {}}
  /\ UNCHANGED <<running, saved, loading, explore>>

(* The running game is saved and ends.  Only in explore mode can there be  *)
(* a saved game already.                                                   *)
Save ==
  /\ running # {} /\ (saved = {} \/ explore)
  /\ saved' = running /\ running' = {} /\ checkpoint' = {} /\ explore' = FALSE
  /\ UNCHANGED loading

(* A crash.                                                                *)
Stop ==
  /\ running # {} /\ running' = {} /\ explore' = FALSE
  /\ UNCHANGED <<saved, checkpoint, loading>>

(* The game ends, or the program with nothing to save.                     *)
End ==
  /\ running # {} /\ running' = {} /\ checkpoint' = {} /\ explore' = FALSE
  /\ UNCHANGED <<saved, loading>>

Load ==
  /\ Idle /\ saved # {} /\ checkpoint = {}
  /\ loading' = TRUE /\ UNCHANGED <<running, saved, checkpoint, explore>>

(* The game is back as it was saved.  It stays saved only in explore mode, *)
(* and may be checkpointed already.                                        *)
Loaded ==
  /\ loading /\ loading' = FALSE /\ running' = saved
  /\ explore' \in BOOLEAN /\ saved' \in {{}, saved} /\ (saved' # {} => explore')
  /\ checkpoint' \in {{}, saved}

(* The program ends while it loads the game, which may then be lost.       *)
Fail ==
  /\ loading /\ loading' = FALSE
  /\ saved' \in {saved, {}} /\ checkpoint' \in {{}, saved} /\ UNCHANGED <<running, explore>>

Next ==
  \/ New \/ Discard \/ Overwrite \/ Recover \/ Play \/ Checkpoint
  \/ Save \/ Stop \/ End \/ Load \/ Loaded \/ Fail

Spec == Init /\ [][Next]_vars

=============================================================================
