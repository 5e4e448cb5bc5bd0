---------------------------- MODULE MCCheckpoint ----------------------------
(* Checkpoint for TLC: where disaster may strike.                          *)
EXTENDS Checkpoint

Crashes(S) == {"crash"} \X S
Hangups(S) == {"hangup"} \X S

(* Where a crash or a hangup does no harm: HarmlessStrikes of              *)
(* CheckpointProofs.                                                       *)
Harmful ==
  {"erase", "clear", "leave", "discard", "left", "checkpoint", "write_level", "lock", "write_lock", "write_state",
   "recover_state", "recover_levels"} \cup Saving
Harmless == Crashes(Phases \ Harmful) \cup Hangups(Phases \ {"getlock", "erase", "discard", "left"})

(* Anywhere but in the last loop of recover, and where clearlocks does not *)
(* know of the levels.                                                     *)
Anywhere == Crashes(Phases \ {"recover_levels"}) \cup Hangups(Phases \ {"getlock", "erase"})

=============================================================================
