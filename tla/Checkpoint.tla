----------------------------- MODULE Checkpoint -----------------------------
(***************************************************************************)
(* The files in which a game lives: one per level that is not in memory,   *)
(* file 0 (getlock, and with `checkpoint' on the game state) and the save  *)
(* file; what goto_level, save_currentstate, dosave0, dorecover, hangup    *)
(* and clearlocks do to them, and what the recover utility makes of them.  *)
(*                                                                         *)
(* A file is created in one step and complete in a later one: a disaster   *)
(* in between leaves it torn.  Files are deleted one by one.  The contents *)
(* of a game are the items on its levels and in the hero's pack.  One game *)
(* at a time uses the lock name; no write fails.                           *)
(***************************************************************************)
EXTENDS Integers, FiniteSets, FiniteSetsExt

CONSTANTS
  Levels,    \* ledger numbers; the game starts on level 1
  Endgame,   \* the levels from which there is no way back
  Items,
  Modes,     \* FALSE: normal games, TRUE: games in explore or debug mode
  Strikes    \* <<what, at>>: a "crash" or a "hangup" may strike there

ASSUME LevelsAreNumbers == Levels \subseteq Nat /\ 1 \in Levels \ Endgame /\ IsFiniteSet(Levels)
ASSUME ModesAreBooleans == Modes \subseteq BOOLEAN

VARIABLES
  at,         \* where the program is: "off", "play" or inside a handler
  fobj,       \* the items on the level in memory
  state,      \* what savegamestate writes
  havestate,  \* the static variable of savestateinlock
  something_worth_saving,
  restoring,
  newlevel,   \* where goto_level is going
  todo,       \* levels that a loop over the level files has left
  lfile,      \* the level files
  file0,      \* the file of level 0
  save,       \* the save file
  last        \* history: the game at the last checkpoint, save or restore

process == <<havestate, something_worth_saving, restoring, newlevel>>
memory  == <<fobj, state>>
files   == <<lfile, file0, save>>
vars == <<at, memory, process, todo, files, last>>

-----------------------------------------------------------------------------
(* Contents of files.                                                      *)

GameState ==
  [uz : Levels, invent : SUBSET Items, lfile_exists : SUBSET Levels, ins_chkpt : BOOLEAN, explore : BOOLEAN]
NoState   == [uz |-> 1, invent |-> {}, lfile_exists |-> {}, ins_chkpt |-> FALSE, explore |-> FALSE]

Full(items) == [st |-> "full", has |-> items]
Torn        == [st |-> "torn", has |-> {}]
Absent      == [st |-> "absent", has |-> {}]

(* A level file of another process, which getlev tells by its pid.         *)
Stale(f) == IF f.st = "full" THEN [f EXCEPT !.st = "stale"] ELSE f
Own(f)   == IF f.st = "stale" THEN [f EXCEPT !.st = "full"] ELSE f

LevelFile == {Torn, Absent} \cup [st : {"full", "stale"}, has : SUBSET Items]

NoLevels == [l \in Levels |-> Absent]
Present  == {l \in Levels : lfile[l].st # "absent"}

(* What savestateinlock writes: "torn" before the pid, the level number    *)
(* and the names are in the file, "headed" before the state is.            *)
Lock(st, gs) == [st |-> st, state |-> gs]
NoLock       == Lock("absent", NoState)
Pid          == Lock("pid", NoState)

(* A save file: the current level, the state, the other levels.  `locked'  *)
(* is mode 0, in which it can neither be opened nor created anew.          *)
NoSave    == [st |-> "absent", locked |-> FALSE, level |-> Absent, state |-> NoLock, others |-> NoLevels]
EmptySave == [NoSave EXCEPT !.st = "there"]

(* All that the game needs is in the save file.                            *)
Complete(s) ==
  /\ s.level.st = "full" /\ s.state.st = "full"
  /\ \A l \in Levels : s.others[l].st # "torn"
  /\ \A l \in s.state.state.lfile_exists \ {s.state.state.uz} : s.others[l].st = "full"

Game(uz, invent, on) == [uz |-> uz, invent |-> invent, on |-> on]

(* The game being played: where goto_level has freed the level it is on    *)
(* file already.                                                           *)
InPlay ==
  Game(state.uz, state.invent,
       [l \in Levels |-> IF l = state.uz /\ at \notin {"discard", "left"} THEN fobj ELSE lfile[l].has])

(* The level files that file 0 knows of are all there.                     *)
AllFull == \A l \in {file0.state.uz} \cup file0.state.lfile_exists : lfile[l].st = "full"

InFiles == Game(file0.state.uz, file0.state.invent, [l \in Levels |-> lfile[l].has])

InSave ==
  LET gs == save.state.state
  IN Game(gs.uz, gs.invent, [l \in Levels |-> IF l = gs.uz THEN save.level.has ELSE save.others[l].has])

-----------------------------------------------------------------------------
(* Parts of the handlers.                                                  *)

(* Mutant: that there is a file now is not noted.                          *)
create_levelfile_unflagged(l) == lfile' = [lfile EXCEPT ![l] = Torn] /\ UNCHANGED state

(* LFILE_EXISTS is how the program knows of a file.                        *)
create_levelfile(l) ==
  /\ lfile' = [lfile EXCEPT ![l] = Torn]
  /\ state' = [state EXCEPT !.lfile_exists = @ \cup {l}]

delete_levelfile(l) ==
  /\ lfile' = IF l \in state.lfile_exists THEN [lfile EXCEPT ![l] = Absent] ELSE lfile
  /\ state' = [state EXCEPT !.lfile_exists = @ \ {l}]

(* The process ends and with it what was in memory.                        *)
Exit ==
  /\ at' = "off"
  /\ fobj' = {} /\ state' = NoState
  /\ havestate' = TRUE /\ newlevel' = 1 /\ todo' = {}
  /\ something_worth_saving' = FALSE /\ restoring' = FALSE

(* Mutant: only the level the hero is on is thought of.                    *)
clearlocks_current ==
  /\ todo' = state.lfile_exists \cap {state.uz} /\ at' = "clear"
  /\ something_worth_saving' = FALSE
  /\ UNCHANGED <<memory, havestate, restoring, newlevel, lfile, file0>>

(* clearlocks, and the end of the process: the levels that are known to    *)
(* have a file, then file 0.                                               *)
clearlocks ==
  /\ todo' = state.lfile_exists /\ at' = "clear"
  /\ something_worth_saving' = FALSE
  /\ UNCHANGED <<memory, havestate, restoring, newlevel, lfile, file0>>

(* What dosave0 does first, if the save file can be created.               *)
BeginSave ==
  /\ save' = EmptySave /\ at' = "save" /\ last' = InPlay
  /\ UNCHANGED <<memory, process, todo, lfile, file0>>

(* The end of savestateinlock: back to dorecover, or to the game.          *)
AfterLock ==
  IF restoring THEN at' = "restore_levels" /\ UNCHANGED something_worth_saving
  ELSE at' = "play" /\ something_worth_saving' = TRUE

(* What a loop over levels takes next: clearlocks counts down, dorecover   *)
(* begins with the current level, which comes first in the save file.      *)
Level ==
  CASE at \in {"clear", "discard"} -> Max(todo)
    [] restoring /\ state.uz \in todo -> state.uz
    [] OTHER -> Min(todo)

-----------------------------------------------------------------------------
(* main: getlock, which asks "Destroy old game?" if there is a file 0,     *)
(* and restore_saved_game.                                                 *)

gotlock(levels) ==
  /\ file0' = Pid /\ lfile' = levels
  /\ \/ /\ save.st = "absent" \/ save.locked
        /\ at' = "new" /\ UNCHANGED save
     \/ /\ save.st = "there" /\ ~save.locked /\ save.level.st = "absent"   \* not uptodate
        /\ at' = "new" /\ save' = NoSave
     \/ /\ save.st = "there" /\ ~save.locked
        /\ at' = "restore" /\ save' = [save EXCEPT !.locked = TRUE]

getlock ==
  /\ at = "off"
  /\ \/ file0.st = "absent" /\ gotlock([l \in Levels |-> Stale(lfile[l])])
     \/ file0.st # "absent" /\ at' = "getlock" /\ UNCHANGED files
  /\ UNCHANGED <<memory, process, todo, last>>

Answer ==
  /\ at = "getlock"
  /\ \/ at' = "erase" /\ todo' = Present
     \/ at' = "off" /\ UNCHANGED todo
  /\ UNCHANGED <<memory, process, files, last>>

(* eraseoldlocks.                                                          *)
EraseLevel ==
  /\ at = "erase" /\ todo # {}
  /\ lfile' = [lfile EXCEPT ![Level] = Absent] /\ todo' = todo \ {Level}
  /\ UNCHANGED <<at, memory, process, file0, save, last>>

EraseEnd ==
  /\ at = "erase" /\ todo = {} /\ gotlock(lfile)
  /\ UNCHANGED <<memory, process, todo, last>>

newgame ==
  /\ at = "new"
  /\ \E made \in SUBSET Items, chk \in BOOLEAN, mode \in Modes :
       fobj' = made /\ state' = [NoState EXCEPT !.ins_chkpt = chk, !.explore = mode]
  /\ at' = "checkpoint"
  /\ UNCHANGED <<process, todo, files, last>>

(* The game goes on: items change place, options are set, the player       *)
(* enters explore mode.                                                    *)
Play ==
  /\ at = "play"
  /\ \/ \E i \in fobj :
          fobj' = fobj \ {i} /\ state' = [state EXCEPT !.invent = @ \cup {i}]
     \/ \E i \in state.invent :
          fobj' = fobj \cup {i} /\ state' = [state EXCEPT !.invent = @ \ {i}]
     \/ state' = [state EXCEPT !.ins_chkpt = ~@] /\ UNCHANGED fobj
     \/ TRUE \in Modes /\ state' = [state EXCEPT !.explore = TRUE] /\ UNCHANGED fobj
  /\ UNCHANGED <<at, process, todo, files, last>>

(* The hero dies, or a file is not what it should be.  In debug mode the   *)
(* latter is survived, up to "Cannot continue this game."                  *)
done ==
  /\ \/ at \in {"play", "tricked"} /\ clearlocks
     \/ at = "tricked" /\ state.explore /\ Exit /\ UNCHANGED <<lfile, file0>>
  /\ UNCHANGED <<save, last>>

(* clearlocks, and the way to the endgame.                                 *)
DeleteLevel ==
  /\ at \in {"clear", "discard"} /\ todo # {}
  /\ delete_levelfile(Level) /\ todo' = todo \ {Level}
  /\ UNCHANGED <<at, fobj, process, file0, save, last>>

ClearEnd ==
  /\ at = "clear" /\ todo = {}
  /\ file0' = NoLock /\ Exit
  /\ UNCHANGED <<lfile, save, last>>

-----------------------------------------------------------------------------
(* goto_level.                                                             *)

(* Mutant: the dungeon's own level numbers, from 0, for ledger numbers.    *)
goto_level_dlevel(l) ==
  /\ at = "play" /\ l # state.uz /\ (state.uz \in Endgame => l \in Endgame)
  /\ create_levelfile(state.uz)
  /\ newlevel' = l - 1 /\ at' = "leave"
  /\ UNCHANGED <<fobj, havestate, something_worth_saving, restoring, todo, file0, save, last>>

(* currentlevel_rewrite, for the level that is left.                       *)
goto_level(l) ==
  /\ at = "play" /\ l # state.uz /\ (state.uz \in Endgame => l \in Endgame)
  /\ create_levelfile(state.uz)
  /\ newlevel' = l /\ at' = "leave"
  /\ UNCHANGED <<fobj, havestate, something_worth_saving, restoring, todo, file0, save, last>>

cant_go_back == newlevel \in Endgame /\ state.uz \notin Endgame

(* savelev writes the level and frees it; on the way to the endgame all    *)
(* level files are to go.                                                  *)
LeaveLevel ==
  /\ at = "leave"
  /\ IF cant_go_back
     THEN at' = "discard" /\ todo' = state.lfile_exists /\ UNCHANGED lfile
     ELSE at' = "left" /\ lfile' = [lfile EXCEPT ![state.uz] = Full(fobj)] /\ UNCHANGED todo
  /\ fobj' = {}
  /\ UNCHANGED <<state, process, file0, save, last>>

Discarded ==
  /\ at = "discard" /\ todo = {} /\ at' = "left"
  /\ UNCHANGED <<memory, process, todo, files, last>>

Unmade == Items \ (state.invent \cup UNION {lfile[l].has : l \in Levels})

(* u.uz changes; mklev makes the level or getlev reads it.  A file that is *)
(* missing, torn or not ours ends the game.                                *)
Arrive ==
  /\ at = "left"
  /\ state' = [state EXCEPT !.uz = newlevel]
  /\ \/ /\ newlevel \notin state.lfile_exists
        /\ \E made \in SUBSET Unmade : fobj' = made
        /\ at' = "checkpoint"
     \/ /\ newlevel \in state.lfile_exists /\ lfile[newlevel].st = "full"
        /\ fobj' = lfile[newlevel].has
        /\ at' = "checkpoint"
     \/ /\ newlevel \in state.lfile_exists /\ lfile[newlevel].st # "full"
        /\ at' = "tricked" /\ UNCHANGED fobj
  /\ UNCHANGED <<process, todo, files, last>>

-----------------------------------------------------------------------------
(* save_currentstate: the level just reached, then savestateinlock.        *)

save_currentstate ==
  /\ at = "checkpoint"
  /\ IF state.ins_chkpt THEN create_levelfile(state.uz) /\ at' = "write_level"
     ELSE at' = "lock" /\ UNCHANGED <<state, lfile>>
  /\ UNCHANGED <<fobj, process, todo, file0, save, last>>

WriteLevel ==
  /\ at = "write_level"
  /\ lfile' = [lfile EXCEPT ![state.uz] = Full(fobj)]
  /\ at' = "lock"
  /\ UNCHANGED <<memory, process, todo, file0, save, last>>

(* Mutant: without checkpointing file 0 is left as it is.                  *)
savestateinlock_only_on ==
  /\ at = "lock"
  /\ IF state.ins_chkpt
     THEN file0' = Lock("torn", NoState) /\ at' = "write_lock" /\ UNCHANGED <<havestate, something_worth_saving>>
     ELSE havestate' = state.ins_chkpt /\ AfterLock /\ UNCHANGED file0
  /\ UNCHANGED <<memory, restoring, newlevel, todo, lfile, save, last>>

(* savestateinlock: file 0 is there, with our pid.  It is rewritten when   *)
(* checkpointing is on and once after it has been turned off.              *)
savestateinlock ==
  /\ at = "lock" /\ file0.st # "absent"
  /\ IF state.ins_chkpt \/ havestate
     THEN file0' = Lock("torn", NoState) /\ at' = "write_lock" /\ UNCHANGED <<havestate, something_worth_saving>>
     ELSE havestate' = state.ins_chkpt /\ AfterLock /\ UNCHANGED file0
  /\ UNCHANGED <<memory, restoring, newlevel, todo, lfile, save, last>>

(* The pid, and with checkpointing the rest of what recover needs.         *)
WriteLock ==
  /\ at = "write_lock"
  /\ IF state.ins_chkpt
     THEN file0' = Lock("headed", state) /\ at' = "write_state" /\ UNCHANGED <<havestate, something_worth_saving>>
     ELSE file0' = Pid /\ havestate' = FALSE /\ AfterLock
  /\ UNCHANGED <<memory, restoring, newlevel, todo, lfile, save, last>>

WriteState ==
  /\ at = "write_state"
  /\ file0' = Lock("full", state) /\ havestate' = state.ins_chkpt /\ AfterLock
  /\ last' = IF restoring THEN last ELSE InPlay
  /\ UNCHANGED <<memory, restoring, newlevel, todo, lfile, save>>

-----------------------------------------------------------------------------
(* dosave0, for the player or for hangup.  An old save file that can be    *)
(* read is overwritten, if the player agrees; one that is locked cannot be *)
(* created anew: dosave0 deletes it and gives up.                          *)

Save ==
  /\ at = "play"
  /\ \/ ~save.locked /\ BeginSave
     \/ ~save.locked /\ save.st = "there" /\ UNCHANGED vars      \* "Overwrite the old file?"
     \/ /\ save.locked /\ save' = NoSave
        /\ UNCHANGED <<at, memory, process, todo, lfile, file0, last>>

(* The current level, which is freed, and the state of the game.           *)
SaveState ==
  /\ at = "save"
  /\ save' = [save EXCEPT !.level = Full(fobj), !.state = Lock("full", state)]
  /\ fobj' = {} /\ state' = [state EXCEPT !.invent = {}]
  /\ todo' = state.lfile_exists \ {state.uz}
  /\ at' = "save_levels"
  /\ UNCHANGED <<process, lfile, file0, last>>

(* The other levels, each deleted when it has been copied.                 *)
SaveLevel ==
  /\ at = "save_levels" /\ todo # {}
  /\ \/ /\ lfile[Level].st = "full"
        /\ save' = [save EXCEPT !.others[Level] = lfile[Level]]
        /\ delete_levelfile(Level)
        /\ todo' = todo \ {Level} /\ UNCHANGED at
     \/ /\ lfile[Level].st # "full"
        /\ save' = IF lfile[Level].st = "absent" THEN NoSave ELSE save
        /\ at' = "tricked" /\ UNCHANGED <<state, todo, lfile>>
  /\ UNCHANGED <<fobj, process, file0, last>>

(* The files of the current level and of level 0 go last.                  *)
DeleteCurrent ==
  /\ at = "save_levels" /\ todo = {}
  /\ delete_levelfile(state.uz) /\ at' = "unlock"
  /\ UNCHANGED <<fobj, process, todo, file0, save, last>>

(* Mutant: the file of level 0 is forgotten.                               *)
Unlock_not ==
  /\ at = "unlock" /\ Exit
  /\ UNCHANGED <<files, last>>

Unlock ==
  /\ at = "unlock"
  /\ file0' = NoLock /\ Exit
  /\ UNCHANGED <<lfile, save, last>>

-----------------------------------------------------------------------------
(* dorecover.  Reading knows only whether the file ends: where a piece is  *)
(* torn the next one is taken for the rest of it.                          *)

(* The pieces of a save file in their order.                               *)
Pieces == {-2, -1} \cup Levels
Piece(p) ==
  CASE p = -2 -> save.level.st
    [] p = -1 -> save.state.st
    [] OTHER -> save.others[p].st

(* Nothing is torn up to the piece p.                                      *)
Clean(p) == Piece(p) = "full" /\ \A q \in Pieces : q < p => Piece(q) # "torn"

(* There are bytes to be taken for the torn ones.                          *)
Filled == \E p, q \in Pieces : p < q /\ Piece(p) = "torn" /\ Piece(q) # "absent"

(* "Error restoring old game."                                             *)
ReadError == save' = NoSave /\ Exit /\ UNCHANGED <<lfile, file0, last>>

(* trickery.                                                               *)
Strange == at' = "tricked" /\ UNCHANGED <<memory, process, todo, files, last>>

Misread(p) == ~Clean(p) /\ (ReadError \/ (Filled /\ Strange))

(* What may be read for the level piece p.                                 *)
Read(p) == IF Clean(p) THEN {IF p = -2 THEN save.level ELSE save.others[p]} ELSE {Full(s) : s \in SUBSET Items}

(* The program may have been started in explore or debug mode.             *)
InMode(gs) == {[gs EXCEPT !.explore = mode] : mode \in {m \in Modes \cup {gs.explore} : gs.explore => m}}

(* Mutant: only the current level is put back in a file.                   *)
dorecover_current ==
  /\ at = "restore"
  /\ Clean(-1) /\ state' \in InMode(save.state.state) /\ fobj' = save.level.has
  /\ todo' = {save.state.state.uz}
  /\ restoring' = TRUE /\ at' = "lock" /\ last' = InSave
  /\ UNCHANGED <<havestate, something_worth_saving, newlevel, files>>

(* The current level and the state of the game.                            *)
dorecover ==
  /\ at = "restore"
  /\ \/ /\ Clean(-1) /\ state' \in InMode(save.state.state) /\ fobj' = save.level.has
        /\ todo' = {save.state.state.uz} \cup {l \in Levels : save.others[l].st # "absent"}
        /\ restoring' = TRUE /\ at' = "lock" /\ last' = InSave
        /\ UNCHANGED <<havestate, something_worth_saving, newlevel, files>>
     \/ /\ ~Clean(-1) /\ Filled
        /\ state' \in GameState /\ fobj' \in SUBSET Items /\ todo' \in SUBSET Levels
        /\ restoring' = TRUE /\ at' = "lock"
        /\ UNCHANGED <<havestate, something_worth_saving, newlevel, files, last>>
     \/ Misread(-1)
     \/ /\ save' = NoSave /\ at' = "new"          \* "not yours", or "not healthy enough"
        /\ UNCHANGED <<memory, process, todo, lfile, file0, last>>

(* restlevelfile.                                                          *)
RestoreLevel ==
  /\ at = "restore_levels" /\ todo # {}
  /\ \/ /\ Level = state.uz \/ Clean(Level) \/ Filled
        /\ create_levelfile(Level) /\ at' = "restore_level"
        /\ UNCHANGED <<fobj, process, todo, file0, save, last>>
     \/ Level # state.uz /\ Misread(Level)

(* Mutant: every file gets the level that is in memory.                    *)
WriteRestored_current ==
  /\ at = "restore_level"
  /\ lfile' = [lfile EXCEPT ![Level] = save.level]
  /\ todo' = todo \ {Level} /\ fobj' = {} /\ at' = "restore_levels"
  /\ UNCHANGED <<state, process, file0, save, last>>

WriteRestored ==
  /\ at = "restore_level"
  /\ \E f \in IF Level = state.uz THEN {Full(fobj)} ELSE Read(Level) :
       lfile' = [lfile EXCEPT ![Level] = f]
  /\ todo' = todo \ {Level} /\ fobj' = {} /\ at' = "restore_levels"
  /\ UNCHANGED <<state, process, file0, save, last>>

(* The current level is read once more.  The save file is deleted, but for *)
(* a game in explore mode.                                                 *)
EndRestore ==
  /\ at = "restore_levels" /\ todo = {}
  /\ \E f \in Read(-2) : fobj' = f.has
  /\ save' = IF state.explore THEN save ELSE NoSave
  /\ at' = "restored"
  /\ UNCHANGED <<state, process, todo, lfile, file0, last>>

(* Back in main, where a program started in debug mode is in it again.     *)
BackToPlay ==
  /\ at = "restored"
  /\ state' \in InMode(state)
  /\ something_worth_saving' = TRUE /\ restoring' = FALSE
  /\ at' = IF state'.explore THEN "keep_save" ELSE "play"
  /\ UNCHANGED <<fobj, havestate, newlevel, todo, files, last>>

(* "Do you want to keep the save file?"                                    *)
KeepSave ==
  /\ at = "keep_save"
  /\ save' \in {NoSave, [save EXCEPT !.locked = FALSE]} /\ at' = "play"
  /\ UNCHANGED <<memory, process, todo, lfile, file0, last>>

-----------------------------------------------------------------------------
(* recover, run on what a crash has left.                                  *)

(* File 0 needs what savestateinlock writes before the state.  The save    *)
(* file is created first, then the current level is looked for.            *)
recover ==
  /\ at = "off" /\ file0.st \in {"headed", "full"} /\ ~save.locked
  /\ save' = EmptySave
  /\ at' = IF lfile[file0.state.uz].st = "absent" THEN "off" ELSE "recover"
  /\ UNCHANGED <<memory, process, todo, lfile, file0, last>>

(* copy_bytes, whatever there is, and unlink.                              *)
RecoverCurrent ==
  /\ at = "recover"
  /\ save' = [save EXCEPT !.level = Own(lfile[file0.state.uz])]
  /\ lfile' = [lfile EXCEPT ![file0.state.uz] = Absent]
  /\ at' = "recover_state"
  /\ UNCHANGED <<memory, process, todo, file0, last>>

(* The state in file 0, as far as it was written.                          *)
CopiedState == IF file0.st = "full" THEN file0 ELSE Lock("torn", file0.state)

RecoverState ==
  /\ at = "recover_state"
  /\ save' = [save EXCEPT !.state = CopiedState]
  /\ file0' = NoLock
  /\ todo' = Present
  /\ at' = "recover_levels"
  /\ UNCHANGED <<memory, process, lfile, last>>

RecoverLevel ==
  /\ at = "recover_levels" /\ todo # {}
  /\ save' = [save EXCEPT !.others[Level] = Own(lfile[Level])]
  /\ lfile' = [lfile EXCEPT ![Level] = Absent]
  /\ todo' = todo \ {Level}
  /\ UNCHANGED <<at, memory, process, file0, last>>

EndRecover ==
  /\ at = "recover_levels" /\ todo = {} /\ at' = "off"
  /\ UNCHANGED <<memory, process, todo, files, last>>

-----------------------------------------------------------------------------
(* Disasters.                                                              *)

Saving     == {"save", "save_levels", "unlock"}
Recovering == {"recover", "recover_state", "recover_levels"}

(* What a crash may leave of the save file: as it was, with the next piece *)
(* torn, or with the piece but before the file it comes from is deleted.   *)
Cut ==
  CASE at = "save" ->
         {[save EXCEPT !.level = Torn], [save EXCEPT !.level = Full(fobj)],
          [save EXCEPT !.level = Full(fobj), !.state = Lock("torn", state)]}
    [] at = "recover" -> {[save EXCEPT !.level = f] : f \in {Torn, Own(lfile[file0.state.uz])}}
    [] at = "recover_state" -> {[save EXCEPT !.state = s] : s \in {Lock("torn", file0.state), CopiedState}}
    [] at \in {"save_levels", "recover_levels"} /\ todo # {} ->
         {[save EXCEPT !.others[Level] = f] : f \in {Torn, Own(lfile[Level])}}
    [] OTHER -> {save}

Crash ==
  /\ at # "off" /\ <<"crash", at>> \in Strikes
  /\ save' \in {save} \cup Cut /\ Exit
  /\ UNCHANGED <<lfile, file0, last>>

(* hangup, which dosave0 and the end of the game ignore: save if there is  *)
(* something worth it, without a question, then clearlocks.                *)
hangup ==
  /\ at \notin Saving \cup Recovering \cup {"off", "tricked", "clear"}
  /\ <<"hangup", at>> \in Strikes
  /\ \/ something_worth_saving /\ ~save.locked /\ BeginSave
     \/ something_worth_saving /\ save.locked /\ save' = NoSave /\ clearlocks /\ UNCHANGED last
     \/ ~something_worth_saving /\ clearlocks /\ UNCHANGED <<save, last>>

-----------------------------------------------------------------------------
Init ==
  /\ at = "off" /\ fobj = {} /\ state = NoState
  /\ havestate = TRUE /\ something_worth_saving = FALSE /\ restoring = FALSE
  /\ newlevel = 1 /\ todo = {}
  /\ lfile = NoLevels /\ file0 = NoLock /\ save = NoSave
  /\ last = Game(1, {}, [l \in Levels |-> {}])

(* What a handler does once it has been entered.                           *)
Handlers ==
  \/ EraseLevel \/ EraseEnd \/ newgame \/ DeleteLevel \/ ClearEnd
  \/ LeaveLevel \/ Discarded \/ Arrive
  \/ save_currentstate \/ WriteLevel \/ savestateinlock \/ WriteLock \/ WriteState
  \/ SaveState \/ SaveLevel \/ DeleteCurrent \/ Unlock
  \/ dorecover \/ RestoreLevel \/ WriteRestored \/ EndRestore \/ BackToPlay
  \/ RecoverCurrent \/ RecoverState \/ RecoverLevel \/ EndRecover

Player ==
  \/ getlock \/ Answer \/ KeepSave \/ Play \/ done \/ Save \/ recover
  \/ \E l \in Levels : goto_level(l)

Next == Handlers \/ Player \/ Crash \/ hangup

Spec == Init /\ [][Next]_vars

-----------------------------------------------------------------------------
(* Properties.                                                             *)

Phases ==
  {"off", "getlock", "erase", "new", "play", "tricked", "clear", "leave", "discard", "left",
   "checkpoint", "write_level", "lock", "write_lock", "write_state",
   "save", "save_levels", "unlock", "restore", "restore_levels", "restore_level", "restored", "keep_save",
   "recover", "recover_state", "recover_levels"}

Games == [uz : Levels, invent : SUBSET Items, on : [Levels -> SUBSET Items]]

(* The state is of the right shape, and a level to go to is a level.       *)
TypeOK ==
  /\ at \in Phases
  /\ fobj \in SUBSET Items /\ state \in GameState
  /\ {havestate, something_worth_saving, restoring} \subseteq BOOLEAN
  /\ newlevel \in Levels /\ todo \in SUBSET Levels
  /\ lfile \in [Levels -> LevelFile]
  /\ file0 \in [st : {"absent", "torn", "pid", "headed", "full"}, state : GameState]
  /\ save \in [st : {"absent", "there"}, locked : BOOLEAN, level : LevelFile,
               state : [st : {"absent", "torn", "full"}, state : GameState], others : [Levels -> LevelFile]]
  /\ last \in Games

(* "such games can be recovered at the point of the last level change"     *)
(* (recover.txt): when the program is gone and recover would take file 0,  *)
(* it holds a state, and with the level files it is the last checkpoint;   *)
(* or, if dorecover was interrupted, the save file is still complete.      *)
CrashRecoverable ==
  at = "off" /\ file0.st \notin {"absent", "pid"} =>
    \/ file0.st = "full" /\ AllFull /\ InFiles = last
    \/ Complete(save) /\ InSave = last

(* goto_level and dosave0 never miss a level file ("Probably someone       *)
(* removed it."), nor find one that was not written to the end; dorecover  *)
(* never takes one piece of the save file for another.                     *)
NeverTricked ==
  /\ at # "tricked"
  /\ at = "left" /\ newlevel \in state.lfile_exists => lfile[newlevel].st = "full"
  /\ at = "save_levels" => \A l \in todo : lfile[l].st = "full"
  /\ at \in {"lock", "restore_levels"} /\ restoring => \A l \in todo \ {state.uz} : Clean(l)

(* A complete save file is given up only when its game is back in memory   *)
(* and in the level files, or cannot be; when it is overwritten by a game  *)
(* in explore mode, or by recover with one; or when it is locked because a *)
(* restore was interrupted.  Two normal games under the name never meet.   *)
SaveKept ==
  [][Complete(save) /\ ~Complete(save') =>
       \/ at = "restore" /\ at' = "new"
       \/ at = "restore_levels" /\ InPlay' = InSave /\ \A l \in state.lfile_exists : lfile[l].st = "full"
       \/ state.explore
       \/ at = "off" /\ file0.state.explore
       \/ save.locked /\ something_worth_saving]_vars

(* Whatever strikes, a level file that the program does not know of is     *)
(* never left in its way: clearlocks and dosave0 could not delete it.      *)
FilesAreFlagged ==
  at \in {"play", "leave", "left", "checkpoint", "write_level"} => Present \subseteq state.lfile_exists

(* Whatever strikes, where there is no file 0 there are no level files: a  *)
(* game that ended or was saved leaves nothing behind that a later game    *)
(* under the same name could mistake for its own.                          *)
NoStaleFiles == at = "off" /\ file0.st = "absent" => lfile = NoLevels

-----------------------------------------------------------------------------
(* Refinement: the files as one game that runs, one that is saved and one  *)
(* that is checkpointed.                                                   *)

Restoring == at \in {"restore", "restored", "keep_save"} \/ (restoring /\ at # "clear")

(* The game that is played.                                                *)
Running ==
  IF at \in {"off", "getlock", "erase", "new", "clear"} \cup Saving \cup Recovering \/ Restoring THEN {} ELSE {InPlay}

(* The game in the save file, or on its way in or out.                     *)
Saved ==
  CASE at \in Saving \cup {"recover_state", "recover_levels"} \/ (Restoring /\ at # "restore") -> {last}
    [] OTHER -> IF Complete(save) /\ (save.locked => at = "restore") THEN {InSave} ELSE {}

(* The game that recover would find in the level files.                    *)
Checkpointed ==
  CASE at \in {"off", "getlock", "recover"} ->
         IF file0.st = "full" /\ AllFull THEN {InFiles} ELSE {}
    [] at \in {"erase", "new", "clear", "recover_state", "recover_levels"} \cup Saving \/ Restoring -> {}
    [] at \in {"write_lock", "write_state"} /\ ~Restoring -> IF state.ins_chkpt THEN {InPlay} ELSE {}
    [] OTHER -> IF file0.st = "full" THEN {last} ELSE {}

Atomic ==
  INSTANCE AtomicGame WITH
    running <- Running, saved <- Saved, checkpoint <- Checkpointed,
    loading <- Restoring /\ Saved # {}, explore <- Running # {} /\ state.explore

(* Many files, written, read and deleted one by one, implement one game    *)
(* that is saved, checkpointed and restored at a stroke: it comes back     *)
(* whole, and a normal game from a save file once (dosave0,                *)
(* savestateinlock, dorecover, recover).                                   *)
Atomically == Atomic!Spec

=============================================================================
