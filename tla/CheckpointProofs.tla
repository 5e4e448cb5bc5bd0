-------------------------- MODULE CheckpointProofs --------------------------
(***************************************************************************)
(* For any levels, items and modes, and whatever strikes, but for a crash  *)
(* in the last loop of recover and a hangup where clearlocks does not know *)
(* of the old levels (LevelsFirst): the program knows of every level file  *)
(* that there is, and where there is no file 0 there are no level files.   *)
(*                                                                         *)
(* And, with whatever strikes where a disaster is survived at all          *)
(* (HarmlessStrikes): no file is missed or taken for another, a complete   *)
(* save file is not given up without a reason, a crash leaves the last     *)
(* checkpoint, and the files implement one game that is played, saved,     *)
(* checkpointed and restored at a stroke (AtomicGame).  What makes it so   *)
(* is where the contents of each level are at every step of dosave0,       *)
(* dorecover and recover.                                                  *)
(***************************************************************************)
EXTENDS Checkpoint, NatLemmas

(* A game starts from no level files at all.                               *)
CleanStart == at \in {"new", "restore"} => lfile = NoLevels

(* The loop of eraseoldlocks gets to every file there is,                  *)
EraseDone == at = "erase" => Present \subseteq todo

(* and so does that of recover, which has no flags to go by either.        *)
RecoverDone == at = "recover_levels" => Present \subseteq todo

(* Once a game has begun LFILE_EXISTS is set for every file there is.      *)
Flagged == at \notin {"off", "getlock", "erase"} \cup Recovering => Present \subseteq state.lfile_exists

(* The loop of dosave0 gets to every level but the current one, which      *)
(* comes last; that of clearlocks gets to every level.                     *)
SaveDone ==
  /\ at = "save_levels" => state.lfile_exists \subseteq todo \cup {state.uz}
  /\ at = "unlock" => state.lfile_exists = {}
  /\ at \in {"clear", "discard"} => state.lfile_exists \subseteq todo

(* restlevelfile and currentlevel_rewrite have created the file that is    *)
(* then written.                                                           *)
Created ==
  /\ at = "restore_level" => todo # {} /\ Level \in state.lfile_exists
  /\ at \in {"leave", "write_level"} => state.uz \in state.lfile_exists

(* Only recover deletes file 0 before the level files.                     *)
LockHeld == at \notin {"off", "recover_levels"} => file0.st # "absent"

(* The conjuncts together are inductive, given the types.                  *)
FInv ==
  /\ CleanStart /\ EraseDone /\ RecoverDone /\ Flagged
  /\ SaveDone /\ Created /\ LockHeld /\ NoStaleFiles

-----------------------------------------------------------------------------
(* Types.                                                                  *)

(* What a loop takes next is one of the levels left, and for dorecover the *)
(* current level comes first.                                              *)
LEMMA LoopLevel ==
  ASSUME todo \in SUBSET Levels, todo # {}
  PROVE  /\ Level \in todo
         /\ at \notin {"clear", "discard"} /\ restoring /\ state.uz \in todo => Level = state.uz
<1>1. todo \in SUBSET Nat /\ Levels \in SUBSET Nat /\ IsFiniteSet(Levels)
  BY LevelsAreNumbers
<1>2. PICK m \in todo : \A n \in todo : m <= n
  BY <1>1, LeastNatural
<1>3. Min(todo) \in todo
  BY <1>2 DEF Min
<1>4. PICK b \in Nat : \A n \in Levels : n <= b
  BY <1>1, FiniteBound
<1>5. PICK g \in todo : \A n \in todo : n <= g
  BY <1>1, <1>4, GreatestNatural
<1>6. Max(todo) \in todo
  BY <1>5 DEF Max
<1> QED
  BY <1>3, <1>6 DEF Level

(* The contents of level files have their type.                            *)
LEMMA FileTypes ==
  /\ Torn \in LevelFile /\ Absent \in LevelFile /\ NoLevels \in [Levels -> LevelFile]
  /\ \A s \in SUBSET Items : Full(s) \in LevelFile
  /\ \A f \in LevelFile :
       /\ f.has \in SUBSET Items /\ f.st \in {"absent", "torn", "full", "stale"}
       /\ f.st = "absent" => f = Absent
       /\ f.st = "torn" => f = Torn
       /\ f.st = "full" => f = Full(f.has)
       /\ Own(f) \in LevelFile /\ Stale(f) \in LevelFile
<1>1. Torn \in LevelFile /\ Absent \in LevelFile /\ \A s \in SUBSET Items : Full(s) \in LevelFile
  BY DEF LevelFile, Full
<1>2. ASSUME NEW f \in LevelFile
      PROVE  /\ f.has \in SUBSET Items /\ f.st \in {"absent", "torn", "full", "stale"}
             /\ f.st = "absent" => f = Absent
             /\ f.st = "torn" => f = Torn
             /\ f.st = "full" => f = Full(f.has)
             /\ Own(f) \in LevelFile /\ Stale(f) \in LevelFile
  BY DEF LevelFile, Torn, Absent, Full, Own, Stale
<1> QED
  BY <1>1, <1>2 DEF NoLevels

(* So has the empty game state,                                            *)
LEMMA StateTypes == NoState \in GameState
BY LevelsAreNumbers DEF NoState, GameState

LockFile == [st : {"absent", "torn", "pid", "headed", "full"}, state : GameState]

SaveFile ==
  [st : {"absent", "there"}, locked : BOOLEAN, level : LevelFile,
   state : [st : {"absent", "torn", "full"}, state : GameState], others : [Levels -> LevelFile]]

(* what is in file 0,                                                      *)
LEMMA LockTypes ==
  /\ \A st \in {"absent", "torn", "pid", "headed", "full"}, gs \in GameState : Lock(st, gs) \in LockFile
  /\ NoLock \in LockFile /\ Pid \in LockFile
BY StateTypes DEF Lock, LockFile, NoLock, Pid

(* and what is in the save file.                                           *)
LEMMA SaveTypes == NoSave \in SaveFile /\ EmptySave \in SaveFile
BY FileTypes, StateTypes DEF NoSave, EmptySave, SaveFile, NoLock, Lock

ProcessOK ==
  havestate \in BOOLEAN /\ something_worth_saving \in BOOLEAN /\ restoring \in BOOLEAN /\ newlevel \in Levels
MemoryOK  == fobj \in SUBSET Items /\ state \in GameState
LastOK    == last \in Games
TodoOK    == todo \in SUBSET Levels
LfileOK   == lfile \in [Levels -> LevelFile]
LockOK    == file0 \in LockFile
SaveOK    == save \in SaveFile
AtOK      == at \in Phases

TypeInv == AtOK /\ ProcessOK /\ MemoryOK /\ LastOK /\ TodoOK /\ LfileOK /\ LockOK /\ SaveOK

(* TypeOK, part by part.                                                   *)
LEMMA TypeParts == TypeInv <=> TypeOK
BY DEF TypeInv, TypeOK, AtOK, ProcessOK, MemoryOK, LastOK, TodoOK, LfileOK, LockOK, SaveOK, LockFile, SaveFile

(* A part is kept by what leaves its variables alone.                      *)
LEMMA KeptParts ==
  ASSUME TypeInv
  PROVE  /\ at' = at => AtOK'
         /\ process' = process => ProcessOK'
         /\ memory' = memory => MemoryOK'
         /\ last' = last => LastOK'
         /\ todo' = todo => TodoOK'
         /\ lfile' = lfile => LfileOK'
         /\ file0' = file0 => LockOK'
         /\ save' = save => SaveOK'
BY DEF TypeInv, AtOK, ProcessOK, MemoryOK, LastOK, TodoOK, LfileOK, LockOK, SaveOK, process, memory

(* The fields of the records.                                              *)
LEMMA Fields ==
  ASSUME TypeInv
  PROVE  /\ state.uz \in Levels /\ state.invent \in SUBSET Items /\ state.lfile_exists \in SUBSET Levels
         /\ state.ins_chkpt \in BOOLEAN /\ state.explore \in BOOLEAN
         /\ file0.state \in GameState /\ file0.state.uz \in Levels /\ file0.state.lfile_exists \in SUBSET Levels
         /\ save.state.state \in GameState /\ save.state.state.uz \in Levels
         /\ save.level \in LevelFile /\ save.state.state.lfile_exists \in SUBSET Levels
         /\ \A l \in Levels : save.others[l] \in LevelFile /\ lfile[l] \in LevelFile
BY DEF TypeInv, MemoryOK, LfileOK, LockOK, LockFile, SaveOK, SaveFile, GameState

(* The games have their type.                                              *)
LEMMA GameTypes ==
  ASSUME TypeInv
  PROVE  InPlay \in Games /\ InFiles \in Games /\ InSave \in Games
<1>1. \A l \in Levels : lfile[l].has \in SUBSET Items /\ save.others[l].has \in SUBSET Items
  BY Fields, FileTypes
<1>2. save.level.has \in SUBSET Items /\ fobj \in SUBSET Items /\ state \in GameState
  BY Fields, FileTypes DEF TypeInv, MemoryOK
<1> QED
  BY <1>1, <1>2, Fields DEF InPlay, InFiles, InSave, Games, Game, GameState

(* The same of the game in play after a step.                              *)
LEMMA GameTypesNext == TypeInv' => (InPlay \in Games)'
<1>1. TypeInv => InPlay \in Games
  BY GameTypes
<1> QED
  BY <1>1, PTL

(* The types hold to begin with.                                           *)
LEMMA InitType == Init => TypeInv
<1> SUFFICES ASSUME Init PROVE TypeInv
  OBVIOUS
<1>1. MemoryOK /\ LfileOK
  BY FileTypes, StateTypes DEF Init, MemoryOK, LfileOK
<1>2. LockOK /\ SaveOK
  BY LockTypes, SaveTypes DEF Init, LockOK, SaveOK
<1>3. AtOK /\ ProcessOK /\ LastOK /\ TodoOK
  BY LevelsAreNumbers DEF Init, AtOK, Phases, ProcessOK, LastOK, TodoOK, Game, Games
<1> QED
  BY <1>1, <1>2, <1>3 DEF TypeInv

(* create_levelfile keeps the types,                                       *)
LEMMA CreateType ==
  ASSUME TypeInv, NEW l \in Levels, create_levelfile(l)
  PROVE  LfileOK' /\ state' \in GameState
BY FileTypes DEF TypeInv, MemoryOK, LfileOK, create_levelfile, GameState

(* delete_levelfile does,                                                  *)
LEMMA DeleteType ==
  ASSUME TypeInv, NEW l, delete_levelfile(l)
  PROVE  LfileOK' /\ state' \in GameState
BY FileTypes DEF TypeInv, MemoryOK, LfileOK, delete_levelfile, GameState

(* the end of the process does,                                            *)
LEMMA ExitType ==
  ASSUME Exit
  PROVE  AtOK' /\ ProcessOK' /\ MemoryOK' /\ TodoOK'
BY StateTypes, LevelsAreNumbers DEF Exit, AtOK, Phases, ProcessOK, MemoryOK, TodoOK

(* clearlocks does,                                                        *)
LEMMA ClearType ==
  ASSUME TypeInv, clearlocks
  PROVE  AtOK' /\ ProcessOK' /\ MemoryOK' /\ TodoOK' /\ LfileOK' /\ LockOK'
<1>1. AtOK' /\ ProcessOK' /\ TodoOK'
  BY Fields DEF clearlocks, AtOK, Phases, ProcessOK, TodoOK, TypeInv
<1> QED
  BY <1>1, KeptParts DEF clearlocks

(* the start of dosave0 does.                                              *)
LEMMA BeginSaveType ==
  ASSUME TypeInv, BeginSave
  PROVE  TypeInv'
<1>1. SaveOK' /\ LastOK' /\ AtOK'
  BY SaveTypes, GameTypes DEF BeginSave, SaveOK, LastOK, AtOK, Phases
<1> QED
  BY <1>1, KeptParts DEF BeginSave, TypeInv

(* So does a piece that is put in the save file.                           *)
LEMMA PieceType ==
  ASSUME TypeInv
  PROVE  /\ \A f \in LevelFile : [save EXCEPT !.level = f] \in SaveFile
         /\ \A f \in LevelFile, l \in Levels : [save EXCEPT !.others[l] = f] \in SaveFile
         /\ \A st \in {"absent", "torn", "full"}, gs \in GameState, f \in LevelFile :
              /\ [save EXCEPT !.state = Lock(st, gs)] \in SaveFile
              /\ [save EXCEPT !.level = f, !.state = Lock(st, gs)] \in SaveFile
         /\ \A b \in BOOLEAN : [save EXCEPT !.locked = b] \in SaveFile
BY DEF TypeInv, SaveOK, SaveFile, Lock

(* So does what recover makes of file 0.                                   *)
LEMMA CopiedType ==
  ASSUME TypeInv
  PROVE  \E st \in {"torn", "full"} : CopiedState = Lock(st, file0.state)
BY DEF TypeInv, LockOK, LockFile, CopiedState, Lock

(* The steps named keep the types.                                         *)
LEMMA TypeStart ==
  ASSUME TypeInv, getlock \/ Answer \/ EraseLevel \/ EraseEnd
  PROVE  TypeInv'
<1>1. ASSUME NEW levels \in [Levels -> LevelFile], gotlock(levels)
      PROVE  AtOK' /\ LfileOK' /\ LockOK' /\ SaveOK'
  <2>1. SaveOK'
    BY <1>1, SaveTypes, PieceType, KeptParts DEF gotlock, SaveOK
  <2> QED
    BY <1>1, <2>1, LockTypes DEF gotlock, AtOK, Phases, LfileOK, LockOK
<1>2. CASE getlock
  <2>1. CASE gotlock([l \in Levels |-> Stale(lfile[l])])
    <3>1. [l \in Levels |-> Stale(lfile[l])] \in [Levels -> LevelFile]
      BY Fields, FileTypes
    <3>2. AtOK' /\ LfileOK' /\ LockOK' /\ SaveOK'
      BY <1>1, <2>1, <3>1
    <3> QED
      BY <1>2, <3>2, KeptParts DEF getlock, TypeInv
  <2>2. CASE at' = "getlock" /\ UNCHANGED files
    BY <1>2, <2>2, KeptParts DEF getlock, files, AtOK, Phases, TypeInv
  <2> QED
    BY <1>2, <2>1, <2>2 DEF getlock
<1>3. CASE Answer
  <2>1. AtOK' /\ TodoOK'
    BY <1>3 DEF Answer, AtOK, Phases, TodoOK, Present, TypeInv
  <2> QED
    BY <1>3, <2>1, KeptParts DEF Answer, files, TypeInv
<1>4. CASE EraseLevel
  <2>1. TodoOK' /\ LfileOK'
    BY <1>4, FileTypes DEF EraseLevel, TodoOK, LfileOK, TypeInv
  <2> QED
    BY <1>4, <2>1, KeptParts DEF EraseLevel, TypeInv
<1>5. CASE EraseEnd
  <2>1. AtOK' /\ LfileOK' /\ LockOK' /\ SaveOK'
    BY <1>1, <1>5 DEF EraseEnd, TypeInv, LfileOK
  <2> QED
    BY <1>5, <2>1, KeptParts DEF EraseEnd, TypeInv
<1> QED
  BY <1>2, <1>3, <1>4, <1>5

(* The steps named keep the types.                                         *)
LEMMA TypePlayer ==
  ASSUME TypeInv, newgame \/ Play \/ done \/ Save \/ \E l \in Levels : goto_level(l)
  PROVE  TypeInv'
<1>1. CASE newgame
  <2>1. MemoryOK' /\ AtOK'
    BY <1>1, StateTypes, ModesAreBooleans DEF newgame, GameState, MemoryOK, AtOK, Phases
  <2> QED
    BY <1>1, <2>1, KeptParts DEF newgame, files, TypeInv
<1>2. CASE Play
  <2>1. MemoryOK'
    BY <1>2 DEF Play, TypeInv, MemoryOK, GameState
  <2> QED
    BY <1>2, <2>1, KeptParts DEF Play, files, TypeInv
<1>3. CASE done
  BY <1>3, ExitType, ClearType, KeptParts DEF done, TypeInv
<1>4. CASE Save
  <2>1. CASE BeginSave
    BY <2>1, BeginSaveType
  <2>2. CASE UNCHANGED vars
    BY <2>2, KeptParts DEF vars, files, TypeInv
  <2>3. CASE save' = NoSave /\ UNCHANGED <<at, memory, process, todo, lfile, file0, last>>
    <3>1. SaveOK'
      BY <2>3, SaveTypes DEF SaveOK
    <3> QED
      BY <2>3, <3>1, KeptParts DEF TypeInv
  <2> QED
    BY <1>4, <2>1, <2>2, <2>3 DEF Save
<1>5. ASSUME NEW l \in Levels, goto_level(l) PROVE TypeInv'
  <2>1. LfileOK' /\ state' \in GameState
    BY <1>5, Fields, CreateType DEF goto_level
  <2>2. MemoryOK' /\ ProcessOK' /\ AtOK'
    BY <1>5, <2>1 DEF goto_level, MemoryOK, ProcessOK, AtOK, Phases, TypeInv
  <2> QED
    BY <1>5, <2>1, <2>2, KeptParts DEF goto_level, TypeInv
<1> QED
  BY <1>1, <1>2, <1>3, <1>4, <1>5

(* The steps named keep the types.                                         *)
LEMMA TypeDelete ==
  ASSUME TypeInv, DeleteLevel \/ ClearEnd \/ Discarded
  PROVE  TypeInv'
<1>1. CASE DeleteLevel
  <2>1. LfileOK' /\ state' \in GameState
    BY <1>1, DeleteType DEF DeleteLevel
  <2>2. MemoryOK' /\ TodoOK'
    BY <1>1, <2>1 DEF DeleteLevel, MemoryOK, TodoOK, TypeInv
  <2> QED
    BY <1>1, <2>1, <2>2, KeptParts DEF DeleteLevel, TypeInv
<1>2. CASE ClearEnd
  <2>1. LockOK'
    BY <1>2, LockTypes DEF ClearEnd, LockOK
  <2> QED
    BY <1>2, <2>1, ExitType, KeptParts DEF ClearEnd, TypeInv
<1>3. CASE Discarded
  <2>1. AtOK'
    BY <1>3 DEF Discarded, AtOK, Phases
  <2> QED
    BY <1>3, <2>1, KeptParts DEF Discarded, files, TypeInv
<1> QED
  BY <1>1, <1>2, <1>3

(* The steps named keep the types.                                         *)
LEMMA TypeLevelChange ==
  ASSUME TypeInv, LeaveLevel \/ Arrive
  PROVE  TypeInv'
<1>1. CASE LeaveLevel
  <2>1. LfileOK' /\ MemoryOK'
    BY <1>1, FileTypes DEF LeaveLevel, TypeInv, LfileOK, MemoryOK, GameState
  <2>2. AtOK' /\ TodoOK'
    BY <1>1, Fields DEF LeaveLevel, AtOK, Phases, TodoOK, TypeInv
  <2> QED
    BY <1>1, <2>1, <2>2, KeptParts DEF LeaveLevel, TypeInv
<1>2. CASE Arrive
  <2>1. fobj' \in SUBSET Items
    BY <1>2, Fields, FileTypes DEF Arrive, Unmade, TypeInv, ProcessOK, MemoryOK
  <2>2. state' \in GameState
    BY <1>2 DEF Arrive, TypeInv, ProcessOK, MemoryOK, GameState
  <2>3. AtOK'
    BY <1>2 DEF Arrive, AtOK, Phases
  <2> QED
    BY <1>2, <2>1, <2>2, <2>3, KeptParts DEF Arrive, files, MemoryOK, TypeInv
<1> QED
  BY <1>1, <1>2

(* The steps named keep the types.                                         *)
LEMMA TypeCheckpoint ==
  ASSUME TypeInv, save_currentstate \/ WriteLevel \/ savestateinlock \/ WriteLock \/ WriteState
  PROVE  TypeInv'
<1>1. CASE save_currentstate
  <2>1. LfileOK' /\ state' \in GameState
    BY <1>1, Fields, CreateType DEF save_currentstate, TypeInv, LfileOK, MemoryOK
  <2>2. AtOK'
    BY <1>1 DEF save_currentstate, AtOK, Phases
  <2> QED
    BY <1>1, <2>1, <2>2, KeptParts DEF save_currentstate, MemoryOK, TypeInv
<1>2. CASE WriteLevel
  <2>1. LfileOK'
    BY <1>2, FileTypes DEF WriteLevel, TypeInv, LfileOK, MemoryOK
  <2>2. AtOK'
    BY <1>2 DEF WriteLevel, AtOK, Phases
  <2> QED
    BY <1>2, <2>1, <2>2, KeptParts DEF WriteLevel, TypeInv
<1>3. CASE savestateinlock
  <2>1. LockOK'
    BY <1>3, LockTypes, StateTypes DEF savestateinlock, LockOK, TypeInv
  <2>2. AtOK' /\ ProcessOK'
    BY <1>3, Fields DEF savestateinlock, AfterLock, AtOK, Phases, ProcessOK, TypeInv
  <2> QED
    BY <1>3, <2>1, <2>2, KeptParts DEF savestateinlock, TypeInv
<1>4. CASE WriteLock
  <2>1. LockOK'
    BY <1>4, LockTypes DEF WriteLock, LockOK, MemoryOK, TypeInv
  <2>2. AtOK' /\ ProcessOK'
    BY <1>4 DEF WriteLock, AfterLock, AtOK, Phases, ProcessOK, TypeInv
  <2> QED
    BY <1>4, <2>1, <2>2, KeptParts DEF WriteLock, TypeInv
<1>5. CASE WriteState
  <2>1. LockOK'
    BY <1>5, LockTypes DEF WriteState, LockOK, MemoryOK, TypeInv
  <2>2. AtOK' /\ ProcessOK' /\ LastOK'
    BY <1>5, Fields, GameTypes DEF WriteState, AfterLock, AtOK, Phases, ProcessOK, LastOK, TypeInv
  <2> QED
    BY <1>5, <2>1, <2>2, KeptParts DEF WriteState, TypeInv
<1> QED
  BY <1>1, <1>2, <1>3, <1>4, <1>5

(* The steps named keep the types.                                         *)
LEMMA TypeSave ==
  ASSUME TypeInv, SaveState \/ SaveLevel \/ DeleteCurrent \/ Unlock
  PROVE  TypeInv'
<1>1. CASE SaveState
  <2>1. SaveOK'
    BY <1>1, FileTypes, PieceType DEF SaveState, SaveOK, MemoryOK, TypeInv
  <2>2. MemoryOK' /\ TodoOK' /\ AtOK'
    BY <1>1 DEF SaveState, MemoryOK, TodoOK, AtOK, Phases, TypeInv, GameState
  <2> QED
    BY <1>1, <2>1, <2>2, KeptParts DEF SaveState, TypeInv
<1>2. CASE SaveLevel
  <2>1. Level \in Levels
    BY <1>2, LoopLevel DEF SaveLevel, TypeInv, TodoOK
  <2>2. LfileOK' /\ MemoryOK'
    BY <1>2, DeleteType DEF SaveLevel, LfileOK, MemoryOK, TypeInv
  <2>3. SaveOK'
    <3>1. lfile[Level] \in LevelFile
      BY <2>1, Fields
    <3>2. save' = NoSave \/ save' = save \/ save' = [save EXCEPT !.others[Level] = lfile[Level]]
      BY <1>2 DEF SaveLevel
    <3> HIDE DEF Level
    <3> QED
      BY <2>1, <3>1, <3>2, SaveTypes, PieceType, KeptParts DEF SaveOK
  <2>4. AtOK' /\ TodoOK'
    BY <1>2 DEF SaveLevel, AtOK, Phases, TodoOK, TypeInv
  <2> QED
    BY <1>2, <2>2, <2>3, <2>4, KeptParts DEF SaveLevel, TypeInv
<1>3. CASE DeleteCurrent
  <2>1. LfileOK' /\ state' \in GameState
    BY <1>3, DeleteType DEF DeleteCurrent
  <2>2. AtOK' /\ MemoryOK'
    BY <1>3, <2>1 DEF DeleteCurrent, AtOK, Phases, MemoryOK, TypeInv
  <2> QED
    BY <1>3, <2>1, <2>2, KeptParts DEF DeleteCurrent, TypeInv
<1>4. CASE Unlock
  <2>1. LockOK'
    BY <1>4, LockTypes DEF Unlock, LockOK
  <2> QED
    BY <1>4, <2>1, ExitType, KeptParts DEF Unlock, TypeInv
<1> QED
  BY <1>1, <1>2, <1>3, <1>4

(* What may be read is of the type of what was written.                    *)
LEMMA ReadTypes ==
  ASSUME TypeInv
  PROVE  /\ \A gs \in GameState : InMode(gs) \subseteq GameState
         /\ Read(-2) \subseteq LevelFile
         /\ \A l \in Levels : Read(l) \subseteq LevelFile
<1>1. \A gs \in GameState : InMode(gs) \subseteq GameState
  BY ModesAreBooleans DEF InMode, GameState
<1>2. ASSUME NEW p, p = -2 \/ p \in Levels PROVE Read(p) \subseteq LevelFile
  BY <1>2, Fields, FileTypes DEF Read
<1> QED
  BY <1>1, <1>2

(* The steps named keep the types.                                         *)
LEMMA TypeRestore ==
  ASSUME TypeInv, dorecover \/ RestoreLevel \/ WriteRestored \/ EndRestore \/ BackToPlay \/ KeepSave
  PROVE  TypeInv'
<1>0. ASSUME NEW p, Misread(p) PROVE TypeInv'
  <2>1. CASE ReadError
    <3>1. SaveOK'
      BY <2>1, SaveTypes DEF ReadError, SaveOK
    <3> QED
      BY <2>1, <3>1, ExitType, KeptParts DEF ReadError, TypeInv
  <2>2. CASE Strange
    <3>1. AtOK'
      BY <2>2 DEF Strange, AtOK, Phases
    <3> QED
      BY <2>2, <3>1, KeptParts DEF Strange, files, TypeInv
  <2> QED
    BY <1>0, <2>1, <2>2 DEF Misread
<1>1. CASE dorecover
  <2>1. CASE /\ state' \in InMode(save.state.state) /\ fobj' = save.level.has
             /\ todo' = {save.state.state.uz} \cup {l \in Levels : save.others[l].st # "absent"}
             /\ restoring' = TRUE /\ at' = "lock" /\ last' = InSave
             /\ UNCHANGED <<havestate, something_worth_saving, newlevel, files>>
    <3>1. MemoryOK' /\ TodoOK' /\ LastOK'
      BY <2>1, Fields, ReadTypes, FileTypes, GameTypes DEF MemoryOK, TodoOK, LastOK
    <3>2. ProcessOK' /\ AtOK'
      BY <2>1 DEF ProcessOK, AtOK, Phases, TypeInv
    <3> QED
      BY <2>1, <3>1, <3>2, KeptParts DEF files, TypeInv
  <2>2. CASE /\ state' \in GameState /\ fobj' \in SUBSET Items /\ todo' \in SUBSET Levels
             /\ restoring' = TRUE /\ at' = "lock"
             /\ UNCHANGED <<havestate, something_worth_saving, newlevel, files, last>>
    <3>1. MemoryOK' /\ TodoOK' /\ ProcessOK' /\ AtOK'
      BY <2>2 DEF MemoryOK, TodoOK, ProcessOK, AtOK, Phases, TypeInv
    <3> QED
      BY <2>2, <3>1, KeptParts DEF files, TypeInv
  <2>3. CASE save' = NoSave /\ at' = "new" /\ UNCHANGED <<memory, process, todo, lfile, file0, last>>
    <3>1. SaveOK' /\ AtOK'
      BY <2>3, SaveTypes DEF SaveOK, AtOK, Phases
    <3> QED
      BY <2>3, <3>1, KeptParts DEF TypeInv
  <2> QED
    BY <1>0, <1>1, <2>1, <2>2, <2>3 DEF dorecover
<1>2. CASE RestoreLevel
  <2>1. CASE create_levelfile(Level) /\ at' = "restore_level" /\ UNCHANGED <<fobj, process, todo, file0, save, last>>
    <3>1. Level \in Levels
      BY <1>2, LoopLevel DEF RestoreLevel, TypeInv, TodoOK
    <3>2. LfileOK' /\ state' \in GameState
      BY <2>1, <3>1, CreateType
    <3>3. AtOK' /\ MemoryOK'
      BY <2>1, <3>2 DEF AtOK, MemoryOK, Phases, TypeInv
    <3> QED
      BY <2>1, <3>2, <3>3, KeptParts DEF TypeInv
  <2> QED
    BY <1>0, <1>2, <2>1 DEF RestoreLevel
<1>3. CASE WriteRestored
  <2>1. PICK f \in IF Level = state.uz THEN {Full(fobj)} ELSE Read(Level) : lfile' = [lfile EXCEPT ![Level] = f]
    BY <1>3 DEF WriteRestored
  <2>2. LfileOK'
    <3>1. Level \in Levels => f \in LevelFile
      BY <2>1, ReadTypes, FileTypes DEF TypeInv, MemoryOK
    <3>2. lfile \in [Levels -> LevelFile]
      BY DEF TypeInv, LfileOK
    <3> HIDE DEF Level
    <3> QED
      BY <2>1, <3>1, <3>2 DEF LfileOK
  <2>3. AtOK' /\ TodoOK' /\ MemoryOK'
    BY <1>3 DEF WriteRestored, AtOK, TodoOK, MemoryOK, Phases, TypeInv
  <2> QED
    BY <1>3, <2>2, <2>3, KeptParts DEF WriteRestored, TypeInv
<1>4. CASE EndRestore
  <2>1. fobj' \in SUBSET Items
    BY <1>4, ReadTypes, FileTypes DEF EndRestore
  <2>2. SaveOK'
    BY <1>4, SaveTypes, KeptParts DEF EndRestore, SaveOK
  <2>3. MemoryOK' /\ AtOK'
    BY <1>4, <2>1 DEF EndRestore, MemoryOK, AtOK, Phases, TypeInv
  <2> QED
    BY <1>4, <2>2, <2>3, KeptParts DEF EndRestore, TypeInv
<1>5. CASE BackToPlay
  <2>1. ProcessOK' /\ AtOK' /\ MemoryOK'
    BY <1>5, ReadTypes DEF BackToPlay, ProcessOK, AtOK, Phases, MemoryOK, TypeInv
  <2> QED
    BY <1>5, <2>1, KeptParts DEF BackToPlay, files, TypeInv
<1>6. CASE KeepSave
  <2>1. SaveOK' /\ AtOK'
    BY <1>6, SaveTypes, PieceType DEF KeepSave, SaveOK, AtOK, Phases
  <2> QED
    BY <1>6, <2>1, KeptParts DEF KeepSave, TypeInv
<1> QED
  BY <1>1, <1>2, <1>3, <1>4, <1>5, <1>6

(* The steps named keep the types.                                         *)
LEMMA TypeRecover ==
  ASSUME TypeInv, recover \/ RecoverCurrent \/ RecoverState \/ RecoverLevel \/ EndRecover
  PROVE  TypeInv'
<1>1. CASE recover
  <2>1. SaveOK' /\ AtOK'
    BY <1>1, SaveTypes DEF recover, SaveOK, AtOK, Phases
  <2> QED
    BY <1>1, <2>1, KeptParts DEF recover, TypeInv
<1>2. CASE RecoverCurrent
  <2>1. SaveOK'
    BY <1>2, Fields, FileTypes, PieceType DEF RecoverCurrent, SaveOK
  <2>2. LfileOK' /\ AtOK'
    BY <1>2, FileTypes DEF RecoverCurrent, LfileOK, AtOK, Phases, TypeInv
  <2> QED
    BY <1>2, <2>1, <2>2, KeptParts DEF RecoverCurrent, TypeInv
<1>3. CASE RecoverState
  <2>1. SaveOK'
    BY <1>3, Fields, CopiedType, PieceType DEF RecoverState, SaveOK
  <2>2. LockOK' /\ TodoOK' /\ AtOK'
    BY <1>3, LockTypes DEF RecoverState, LockOK, TodoOK, Present, AtOK, Phases
  <2> QED
    BY <1>3, <2>1, <2>2, KeptParts DEF RecoverState, TypeInv
<1>4. CASE RecoverLevel
  <2>1. Level \in Levels
    BY <1>4, LoopLevel DEF RecoverLevel, TypeInv, TodoOK
  <2>2. SaveOK'
    BY <1>4, <2>1, Fields, FileTypes, PieceType DEF RecoverLevel, SaveOK
  <2>3. LfileOK' /\ TodoOK'
    BY <1>4, FileTypes DEF RecoverLevel, LfileOK, TodoOK, TypeInv
  <2> QED
    BY <1>4, <2>2, <2>3, KeptParts DEF RecoverLevel, TypeInv
<1>5. CASE EndRecover
  <2>1. AtOK'
    BY <1>5 DEF EndRecover, AtOK, Phases
  <2> QED
    BY <1>5, <2>1, KeptParts DEF EndRecover, files, TypeInv
<1> QED
  BY <1>1, <1>2, <1>3, <1>4, <1>5

(* What a crash leaves of the save file is one.                            *)
LEMMA CutType ==
  ASSUME TypeInv, NEW s \in Cut
  PROVE  s \in SaveFile
<1>0. fobj \in SUBSET Items /\ state \in GameState /\ save \in SaveFile
  BY DEF TypeInv, MemoryOK, SaveOK
<1>1. CASE at = "save"
  <2>1. \/ s = [save EXCEPT !.level = Torn] \/ s = [save EXCEPT !.level = Full(fobj)]
        \/ s = [save EXCEPT !.level = Full(fobj), !.state = Lock("torn", state)]
    BY <1>1, ZenonT(20) DEF Cut
  <2>2. Torn \in LevelFile /\ Full(fobj) \in LevelFile
    BY <1>0, FileTypes
  <2> QED
    BY <1>0, <2>1, <2>2, PieceType
<1>2. CASE at = "recover"
  <2>1. PICK f \in {Torn, Own(lfile[file0.state.uz])} : s = [save EXCEPT !.level = f]
    BY <1>2 DEF Cut
  <2>2. f \in LevelFile
    BY <2>1, Fields, FileTypes
  <2> QED
    BY <2>1, <2>2, PieceType
<1>3. CASE at = "recover_state"
  <2>1. PICK st \in {"torn", "full"} : s = [save EXCEPT !.state = Lock(st, file0.state)]
    BY <1>3, CopiedType DEF Cut
  <2> QED
    BY <2>1, Fields, PieceType
<1>4. CASE at \in {"save_levels", "recover_levels"} /\ todo # {}
  <2>1. Level \in Levels
    BY <1>4, LoopLevel DEF TypeInv, TodoOK
  <2>2. PICK f \in {Torn, Own(lfile[Level])} : s = [save EXCEPT !.others[Level] = f]
    BY <1>4 DEF Cut
  <2>3. f \in LevelFile
    BY <2>1, <2>2, Fields, FileTypes
  <2> HIDE DEF Level
  <2> QED
    BY <2>1, <2>2, <2>3, PieceType
<1>5. CASE at \notin {"save", "recover", "recover_state"} /\ ~(at \in {"save_levels", "recover_levels"} /\ todo # {})
  BY <1>0, <1>5 DEF Cut
<1> QED
  BY <1>1, <1>2, <1>3, <1>4, <1>5

(* The steps named keep the types.                                         *)
LEMMA TypeDisaster ==
  ASSUME TypeInv, Crash \/ hangup
  PROVE  TypeInv'
<1>1. CASE Crash
  <2>1. SaveOK'
    BY <1>1, CutType, KeptParts DEF Crash, SaveOK
  <2> QED
    BY <1>1, <2>1, ExitType, KeptParts DEF Crash, TypeInv
<1>2. CASE hangup
  <2>1. CASE BeginSave
    BY <2>1, BeginSaveType
  <2>2. CASE (save' = NoSave \/ save' = save) /\ clearlocks /\ UNCHANGED last
    <3>1. SaveOK'
      BY <2>2, SaveTypes, KeptParts DEF SaveOK
    <3> QED
      BY <2>2, <3>1, ClearType, KeptParts DEF TypeInv
  <2> QED
    BY <1>2, <2>1, <2>2 DEF hangup
<1> QED
  BY <1>1, <1>2

(* Every step keeps the types.                                             *)
LEMMA TypeStep == TypeInv /\ [Next]_vars => TypeInv'
<1> SUFFICES ASSUME TypeInv, [Next]_vars PROVE TypeInv'
  OBVIOUS
<1>1. CASE Next
  BY <1>1, TypeStart, TypePlayer, TypeDelete, TypeLevelChange, TypeCheckpoint, TypeSave, TypeRestore,
     TypeRecover, TypeDisaster
  DEF Next, Handlers, Player
<1>2. CASE UNCHANGED vars
  BY <1>2, KeptParts DEF vars, files, TypeInv
<1> QED
  BY <1>1, <1>2

(* Every variable keeps its type, whatever strikes.                        *)
THEOREM TypeCorrect == Spec => []TypeOK
<1>1. Init => TypeInv
  BY InitType
<1> QED
  BY <1>1, TypeStep, TypeParts, PTL DEF Spec

-----------------------------------------------------------------------------
(* The level files.                                                        *)

(* A game has begun, and has not ended.                                    *)
InHandler == at \notin {"off", "getlock", "erase"} \cup Recovering

(* Where every file is absent there are no level files.                    *)
LEMMA NoFiles ==
  ASSUME TypeInv
  PROVE  Present = {} <=> lfile = NoLevels
<1>1. lfile \in [Levels -> LevelFile]
  BY DEF TypeInv, LfileOK
<1>2. ASSUME Present = {} PROVE lfile = NoLevels
  BY <1>1, <1>2, FileTypes DEF Present, NoLevels
<1>3. ASSUME lfile = NoLevels PROVE Present = {}
  BY <1>3 DEF Present, NoLevels, Absent
<1> QED
  BY <1>2, <1>3

(* create_levelfile sets the flag with the file,                           *)
LEMMA CreateFlags ==
  ASSUME TypeInv, Flagged, InHandler, NEW l \in Levels, create_levelfile(l)
  PROVE  Present' \subseteq state'.lfile_exists
BY DEF TypeInv, MemoryOK, GameState, LfileOK, Flagged, InHandler, Present, create_levelfile

(* and delete_levelfile takes it off with the file.                        *)
LEMMA DeleteFlags ==
  ASSUME TypeInv, Flagged, InHandler, NEW l, delete_levelfile(l)
  PROVE  Present' \subseteq state'.lfile_exists /\ state'.lfile_exists = state.lfile_exists \ {l}
BY DEF TypeInv, MemoryOK, GameState, LfileOK, Flagged, InHandler, Present, delete_levelfile, Absent

(* A file that is written after it was created has its flag.               *)
LEMMA WriteFlags ==
  ASSUME TypeInv, Flagged, InHandler, NEW l \in state.lfile_exists, NEW f,
         lfile' = [lfile EXCEPT ![l] = f], state' = state
  PROVE  Present' \subseteq state'.lfile_exists
<1>1. \A k \in Levels : k # l => lfile'[k] = lfile[k]
  BY DEF TypeInv, LfileOK
<1>2. Present' \subseteq Present \cup {l}
  BY <1>1 DEF Present
<1> QED
  BY <1>2 DEF Flagged, InHandler

(* Flags and files stay as they are.                                       *)
LEMMA SameFlags ==
  ASSUME Flagged, InHandler, state'.lfile_exists = state.lfile_exists, lfile' = lfile
  PROVE  Present' \subseteq state'.lfile_exists
BY DEF Flagged, InHandler, Present

(* A file that is deleted is no longer there.                              *)
LEMMA LosesFile ==
  ASSUME TypeInv, NEW l, lfile' = [lfile EXCEPT ![l] = Absent]
  PROVE  Present' \subseteq Present \ {l}
BY DEF Present, TypeInv, LfileOK, Absent

(* The program ends, leaving no level files or a file 0.                   *)
LEMMA ExitFiles ==
  ASSUME Exit, file0'.st # "absent" \/ lfile' = NoLevels
  PROVE  FInv'
BY DEF Exit, FInv, CleanStart, EraseDone, Flagged, SaveDone, RecoverDone, Created, LockHeld, NoStaleFiles

(* A handler goes on with the flags in order, and no loop is concerned.    *)
LEMMA HandlerGoesOn ==
  ASSUME at' \in Phases \ ({"off", "getlock", "erase", "new", "restore", "save_levels", "unlock", "clear", "discard",
                            "restore_level"} \cup Recovering),
         at' \in {"leave", "write_level"} => state'.uz \in state'.lfile_exists,
         Present' \subseteq state'.lfile_exists, file0'.st # "absent"
  PROVE  FInv'
BY DEF FInv, CleanStart, EraseDone, Flagged, SaveDone, RecoverDone, Created, LockHeld, NoStaleFiles, Recovering

(* One of the loops that delete level files goes on.                       *)
LEMMA LoopGoesOn ==
  ASSUME at' \in {"save_levels", "unlock", "clear", "discard"}, SaveDone',
         Present' \subseteq state'.lfile_exists, file0'.st # "absent"
  PROVE  FInv'
BY DEF FInv, CleanStart, EraseDone, Flagged, RecoverDone, Created, LockHeld, NoStaleFiles, Recovering

(* clearlocks begins its loop.                                             *)
LEMMA ClearFiles ==
  ASSUME FInv, InHandler, clearlocks
  PROVE  FInv'
<1>1. /\ at' = "clear" /\ file0' = file0 /\ file0.st # "absent"
      /\ state' = state /\ lfile' = lfile /\ todo' = state.lfile_exists
  BY DEF clearlocks, memory, FInv, LockHeld, InHandler, Recovering
<1>2. Present' \subseteq state'.lfile_exists
  BY <1>1, SameFlags DEF FInv
<1> QED
  BY <1>1, <1>2, LoopGoesOn DEF SaveDone

(* dosave0 begins.                                                         *)
LEMMA BeginSaveFiles ==
  ASSUME FInv, InHandler, BeginSave
  PROVE  FInv'
<1>1. at' = "save" /\ file0' = file0 /\ file0.st # "absent" /\ state' = state /\ lfile' = lfile
  BY DEF BeginSave, memory, FInv, LockHeld, InHandler, Recovering
<1>2. Present' \subseteq state'.lfile_exists
  BY <1>1, SameFlags DEF FInv
<1> QED
  BY <1>1, <1>2, HandlerGoesOn DEF Phases, Recovering

(* FInv holds to begin with.                                               *)
LEMMA FilesInit == Init => FInv
BY DEF Init, FInv, CleanStart, EraseDone, Flagged, SaveDone, RecoverDone, Created, LockHeld, NoStaleFiles

(* The steps named keep FInv.                                              *)
LEMMA FilesStart ==
  ASSUME TypeInv, FInv, getlock \/ Answer \/ EraseLevel \/ EraseEnd
  PROVE  FInv'
<1>0. ASSUME gotlock(NoLevels) PROVE FInv'
  <2>1. lfile' = NoLevels /\ file0'.st # "absent" /\ at' \in {"new", "restore"}
    BY <1>0 DEF gotlock, Pid, Lock
  <2>2. Present' = {}
    BY <2>1 DEF Present, NoLevels, Absent
  <2> QED
    BY <2>1, <2>2
    DEF FInv, CleanStart, EraseDone, Flagged, SaveDone, RecoverDone, Created, LockHeld, NoStaleFiles, Recovering
<1>1. CASE getlock
  <2>1. CASE file0.st = "absent" /\ gotlock([l \in Levels |-> Stale(lfile[l])])
    <3>1. lfile = NoLevels
      BY <1>1, <2>1 DEF getlock, FInv, NoStaleFiles
    <3>2. [l \in Levels |-> Stale(lfile[l])] = NoLevels
      BY <3>1 DEF NoLevels, Stale, Absent
    <3> QED
      BY <1>0, <2>1, <3>2
  <2>2. CASE file0.st # "absent" /\ at' = "getlock" /\ UNCHANGED files
    BY <2>2 DEF files, FInv, CleanStart, EraseDone, Flagged, SaveDone, RecoverDone, Created, LockHeld, NoStaleFiles
  <2> QED
    BY <1>1, <2>1, <2>2 DEF getlock
<1>2. CASE Answer
  <2>1. file0' = file0 /\ file0.st # "absent" /\ lfile' = lfile
        /\ (at' = "off" \/ (at' = "erase" /\ todo' = Present))
    BY <1>2 DEF Answer, files, FInv, LockHeld
  <2>2. Present' = Present
    BY <2>1 DEF Present
  <2> QED
    BY <2>1, <2>2
    DEF FInv, CleanStart, EraseDone, Flagged, SaveDone, RecoverDone, Created, LockHeld, NoStaleFiles
<1>3. CASE EraseLevel
  <2>1. /\ at' = "erase" /\ file0' = file0 /\ file0.st # "absent" /\ Present \subseteq todo
        /\ lfile' = [lfile EXCEPT ![Level] = Absent] /\ todo' = todo \ {Level}
    BY <1>3 DEF EraseLevel, FInv, LockHeld, EraseDone
  <2>2. Present' \subseteq todo'
    <3> HIDE DEF Level
    <3> QED
      BY <2>1, LosesFile
  <2> QED
    BY <2>1, <2>2
    DEF FInv, CleanStart, EraseDone, Flagged, SaveDone, RecoverDone, Created, LockHeld, NoStaleFiles
<1>4. CASE EraseEnd
  <2>1. Present = {}
    BY <1>4 DEF EraseEnd, FInv, EraseDone
  <2>2. gotlock(NoLevels)
    BY <1>4, <2>1, NoFiles DEF EraseEnd
  <2> QED
    BY <1>0, <2>2
<1> QED
  BY <1>1, <1>2, <1>3, <1>4

(* The steps named keep FInv.                                              *)
LEMMA FilesPlay ==
  ASSUME TypeInv, FInv, newgame \/ Play \/ done \/ Save \/ \E l \in Levels : goto_level(l)
  PROVE  FInv'
<1>0. InHandler /\ file0.st # "absent"
  BY DEF newgame, Play, done, Save, goto_level, InHandler, Recovering, FInv, LockHeld
<1>1. CASE newgame
  <2>1. Present = {} /\ lfile' = lfile /\ at' = "checkpoint" /\ file0' = file0
    BY <1>1, NoFiles DEF newgame, files, FInv, CleanStart
  <2>2. Present' = {}
    BY <2>1 DEF Present
  <2> QED
    BY <1>0, <2>1, <2>2, HandlerGoesOn DEF Phases, Recovering
<1>2. CASE Play
  <2>1. state'.lfile_exists = state.lfile_exists /\ lfile' = lfile /\ at' = "play" /\ file0' = file0
    BY <1>2 DEF Play, files, TypeInv, MemoryOK, GameState
  <2> QED
    BY <1>0, <2>1, SameFlags, HandlerGoesOn DEF FInv, Phases, Recovering
<1>3. CASE done
  <2>1. CASE clearlocks
    BY <1>0, <2>1, ClearFiles
  <2>2. CASE Exit /\ UNCHANGED <<lfile, file0>>
    BY <1>0, <2>2, ExitFiles
  <2> QED
    BY <1>3, <2>1, <2>2 DEF done
<1>4. CASE Save
  <2>1. CASE BeginSave
    BY <1>0, <2>1, BeginSaveFiles
  <2>2. CASE UNCHANGED <<at, memory, lfile, file0>>
    <3>1. at = "play" /\ at' = "play" /\ state' = state /\ file0' = file0
      BY <1>4, <2>2 DEF Save, memory
    <3> QED
      BY <1>0, <2>2, <3>1, SameFlags, HandlerGoesOn DEF FInv, Phases, Recovering
  <2> QED
    BY <1>4, <2>1, <2>2 DEF Save, vars, files
<1>5. ASSUME NEW l \in Levels, goto_level(l) PROVE FInv'
  <2>1. Present' \subseteq state'.lfile_exists
    BY <1>0, <1>5, Fields, CreateFlags DEF goto_level, FInv
  <2>2. at' = "leave" /\ file0' = file0 /\ state'.uz \in state'.lfile_exists
    BY <1>5, Fields DEF goto_level, create_levelfile, TypeInv, MemoryOK, GameState
  <2> QED
    BY <1>0, <2>1, <2>2, HandlerGoesOn DEF Phases, Recovering
<1> QED
  BY <1>1, <1>2, <1>3, <1>4, <1>5

(* The steps named keep FInv.                                              *)
LEMMA FilesDelete ==
  ASSUME TypeInv, FInv, DeleteLevel \/ ClearEnd \/ Discarded
  PROVE  FInv'
<1>0. InHandler /\ file0.st # "absent" /\ state.lfile_exists \subseteq todo
  BY DEF DeleteLevel, ClearEnd, Discarded, InHandler, Recovering, FInv, LockHeld, SaveDone
<1>1. CASE DeleteLevel
  <2>1. /\ at' \in {"clear", "discard"} /\ file0' = file0
        /\ delete_levelfile(Level) /\ todo' = todo \ {Level}
    BY <1>1 DEF DeleteLevel
  <2>2. Present' \subseteq state'.lfile_exists /\ state'.lfile_exists = state.lfile_exists \ {Level}
    BY <1>0, <2>1, DeleteFlags DEF FInv
  <2>3. SaveDone'
    <3> HIDE DEF Level
    <3> QED
      BY <1>0, <2>1, <2>2 DEF SaveDone
  <2> QED
    BY <1>0, <2>1, <2>2, <2>3, LoopGoesOn
<1>2. CASE ClearEnd
  <2>1. Present = {}
    BY <1>0, <1>2 DEF ClearEnd, FInv, Flagged, InHandler
  <2>2. lfile' = NoLevels
    BY <1>2, <2>1, NoFiles DEF ClearEnd
  <2> QED
    BY <1>2, <2>2, ExitFiles DEF ClearEnd
<1>3. CASE Discarded
  <2>1. state' = state /\ lfile' = lfile /\ at' = "left" /\ file0' = file0
    BY <1>3 DEF Discarded, memory, files
  <2> QED
    BY <1>0, <2>1, SameFlags, HandlerGoesOn DEF FInv, Phases, Recovering
<1> QED
  BY <1>1, <1>2, <1>3

(* The steps named keep FInv.                                              *)
LEMMA FilesLevelChange ==
  ASSUME TypeInv, FInv, LeaveLevel \/ Arrive
  PROVE  FInv'
<1>0. InHandler /\ file0.st # "absent" /\ file0' = file0
  BY DEF LeaveLevel, Arrive, files, InHandler, Recovering, FInv, LockHeld
<1>1. CASE LeaveLevel
  <2>1. state.uz \in state.lfile_exists /\ state' = state
    BY <1>1 DEF LeaveLevel, FInv, Created
  <2>2. CASE cant_go_back
    <3>1. at' = "discard" /\ todo' = state.lfile_exists /\ lfile' = lfile
      BY <1>1, <2>2 DEF LeaveLevel
    <3> QED
      BY <1>0, <2>1, <3>1, SameFlags, LoopGoesOn DEF FInv, SaveDone
  <2>3. CASE ~cant_go_back
    <3>1. at' = "left" /\ lfile' = [lfile EXCEPT ![state.uz] = Full(fobj)]
      BY <1>1, <2>3 DEF LeaveLevel
    <3> QED
      BY <1>0, <2>1, <3>1, WriteFlags, HandlerGoesOn DEF FInv, Phases, Recovering
  <2> QED
    BY <2>2, <2>3
<1>2. CASE Arrive
  <2>1. state'.lfile_exists = state.lfile_exists /\ lfile' = lfile /\ at' \in {"checkpoint", "tricked"}
    BY <1>2 DEF Arrive, files, TypeInv, MemoryOK, GameState
  <2> QED
    BY <1>0, <2>1, SameFlags, HandlerGoesOn DEF FInv, Phases, Recovering
<1> QED
  BY <1>1, <1>2

(* The steps named keep FInv.                                              *)
LEMMA FilesCheckpoint ==
  ASSUME TypeInv, FInv, save_currentstate \/ WriteLevel \/ savestateinlock \/ WriteLock \/ WriteState
  PROVE  FInv'
<1>0. InHandler /\ file0.st # "absent"
  BY DEF save_currentstate, WriteLevel, savestateinlock, WriteLock, WriteState, InHandler, Recovering, FInv,
     LockHeld
<1>1. CASE save_currentstate
  <2>1. CASE create_levelfile(state.uz) /\ at' = "write_level"
    <3>1. Present' \subseteq state'.lfile_exists
      BY <1>0, <2>1, Fields, CreateFlags DEF FInv
    <3>2. state'.uz \in state'.lfile_exists /\ file0' = file0
      BY <1>1, <2>1, Fields DEF save_currentstate, create_levelfile, TypeInv, MemoryOK, GameState
    <3> QED
      BY <1>0, <2>1, <3>1, <3>2, HandlerGoesOn DEF Phases, Recovering
  <2>2. CASE at' = "lock" /\ UNCHANGED <<state, lfile>>
    BY <1>0, <1>1, <2>2, SameFlags, HandlerGoesOn DEF save_currentstate, FInv, Phases, Recovering
  <2> QED
    BY <1>1, <2>1, <2>2 DEF save_currentstate
<1>2. CASE WriteLevel
  <2>1. /\ state.uz \in state.lfile_exists /\ file0' = file0 /\ state' = state
        /\ at' = "lock" /\ lfile' = [lfile EXCEPT ![state.uz] = Full(fobj)]
    BY <1>2 DEF WriteLevel, memory, FInv, Created
  <2> QED
    BY <1>0, <2>1, WriteFlags, HandlerGoesOn DEF FInv, Phases, Recovering
<1>3. CASE savestateinlock \/ WriteLock \/ WriteState
  <2>1. state' = state /\ lfile' = lfile
    BY <1>3 DEF savestateinlock, WriteLock, WriteState, memory
  <2>2. file0'.st # "absent"
    <3>1. Lock("torn", NoState).st = "torn" /\ Lock("full", state).st = "full" /\ Lock("headed", state).st = "headed"
          /\ Pid.st = "pid"
      BY DEF Lock, Pid
    <3>2. CASE savestateinlock
      BY <3>1, <3>2 DEF savestateinlock
    <3>3. CASE WriteLock
      BY <3>1, <3>3 DEF WriteLock
    <3>4. CASE WriteState
      BY <3>1, <3>4 DEF WriteState
    <3> QED
      BY <1>3, <3>2, <3>3, <3>4
  <2>3. at' \in {"write_lock", "write_state", "restore_levels", "play"}
    BY <1>3 DEF savestateinlock, WriteLock, WriteState, AfterLock
  <2> QED
    BY <1>0, <2>1, <2>2, <2>3, SameFlags, HandlerGoesOn DEF FInv, Phases, Recovering
<1> QED
  BY <1>1, <1>2, <1>3

(* The steps named keep FInv.                                              *)
LEMMA FilesSave ==
  ASSUME TypeInv, FInv, SaveState \/ SaveLevel \/ DeleteCurrent \/ Unlock
  PROVE  FInv'
<1>0. InHandler /\ Flagged /\ file0.st # "absent" /\ SaveDone
  BY DEF SaveState, SaveLevel, DeleteCurrent, Unlock, FInv, LockHeld, InHandler, Recovering
<1>1. CASE SaveState
  <2>1. /\ state'.lfile_exists = state.lfile_exists /\ state'.uz = state.uz /\ lfile' = lfile
        /\ todo' = state.lfile_exists \ {state.uz} /\ at' = "save_levels" /\ file0' = file0
    BY <1>1 DEF SaveState, TypeInv, MemoryOK, GameState
  <2>2. SaveDone'
    BY <2>1 DEF SaveDone
  <2> QED
    BY <1>0, <2>1, <2>2, SameFlags, LoopGoesOn
<1>2. CASE SaveLevel
  <2> HIDE DEF Level
  <2>1. CASE delete_levelfile(Level) /\ todo' = todo \ {Level} /\ UNCHANGED at
    <3>1. /\ Present' \subseteq state'.lfile_exists /\ state'.lfile_exists = state.lfile_exists \ {Level}
          /\ at' = "save_levels" /\ file0' = file0
      BY <1>0, <1>2, <2>1, DeleteFlags DEF SaveLevel
    <3>2. state'.uz = state.uz
      BY <2>1 DEF delete_levelfile, TypeInv, MemoryOK, GameState
    <3>3. SaveDone'
      BY <1>0, <1>2, <2>1, <3>1, <3>2 DEF SaveDone, SaveLevel
    <3> QED
      BY <1>0, <3>1, <3>3, LoopGoesOn
  <2>2. CASE at' = "tricked" /\ UNCHANGED <<state, todo, lfile>>
    <3>1. file0' = file0
      BY <1>2 DEF SaveLevel
    <3> QED
      BY <1>0, <2>2, <3>1, SameFlags, HandlerGoesOn DEF Phases, Recovering
  <2> QED
    BY <1>2, <2>1, <2>2 DEF SaveLevel
<1>3. CASE DeleteCurrent
  <2>1. /\ Present' \subseteq state'.lfile_exists /\ state'.lfile_exists = state.lfile_exists \ {state.uz}
        /\ at' = "unlock" /\ file0' = file0
    BY <1>0, <1>3, DeleteFlags DEF DeleteCurrent
  <2>2. SaveDone'
    BY <1>0, <1>3, <2>1 DEF DeleteCurrent, SaveDone
  <2> QED
    BY <1>0, <2>1, <2>2, LoopGoesOn
<1>4. CASE Unlock
  <2>1. Present = {}
    BY <1>0, <1>4 DEF Unlock, SaveDone, Flagged, InHandler
  <2>2. lfile' = NoLevels
    BY <1>4, <2>1, NoFiles DEF Unlock
  <2> QED
    BY <1>4, <2>2, ExitFiles DEF Unlock
<1> QED
  BY <1>1, <1>2, <1>3, <1>4

(* The steps named keep FInv.                                              *)
LEMMA FilesRestore ==
  ASSUME TypeInv, FInv, dorecover \/ RestoreLevel \/ WriteRestored \/ EndRestore \/ BackToPlay \/ KeepSave
  PROVE  FInv'
<1>0. file0.st # "absent" /\ InHandler /\ Flagged
  BY DEF dorecover, RestoreLevel, WriteRestored, EndRestore, BackToPlay, KeepSave, FInv, LockHeld, InHandler,
     Recovering
<1>a. ASSUME NEW p, Misread(p) PROVE FInv'
  <2>1. CASE ReadError
    BY <1>0, <2>1, ExitFiles DEF ReadError
  <2>2. CASE Strange
    <3>1. state' = state /\ lfile' = lfile /\ file0' = file0 /\ at' = "tricked"
      BY <2>2 DEF Strange, memory, files
    <3> QED
      BY <1>0, <3>1, SameFlags, HandlerGoesOn DEF Phases, Recovering
  <2> QED
    BY <1>a, <2>1, <2>2 DEF Misread
<1>1. CASE dorecover
  <2>1. Present = {} /\ lfile = NoLevels
    BY <1>1, NoFiles DEF dorecover, FInv, CleanStart
  <2>2. CASE at' = "lock" /\ UNCHANGED files
    <3>1. Present' = {} /\ file0' = file0
      BY <2>1, <2>2 DEF Present, files
    <3> QED
      BY <1>0, <2>2, <3>1, HandlerGoesOn DEF Phases, Recovering
  <2>3. CASE at' = "new" /\ UNCHANGED <<memory, process, todo, lfile, file0, last>>
    <3>1. Present' = {}
      BY <2>1, <2>3 DEF Present
    <3> QED
      BY <1>0, <2>1, <2>3, <3>1
      DEF FInv, CleanStart, EraseDone, Flagged, SaveDone, RecoverDone, Created, LockHeld, NoStaleFiles
  <2> QED
    BY <1>1, <1>a, <2>2, <2>3 DEF dorecover, files
<1>2. CASE RestoreLevel
  <2>1. CASE create_levelfile(Level) /\ at' = "restore_level" /\ UNCHANGED <<fobj, process, todo, file0, save, last>>
    <3>1. Level \in Levels /\ todo # {}
      BY <1>2, LoopLevel DEF RestoreLevel, TypeInv, TodoOK
    <3>2. Present' \subseteq state'.lfile_exists
      BY <1>0, <2>1, <3>1, CreateFlags
    <3>3. state'.uz = state.uz /\ Level \in state'.lfile_exists
      BY <2>1, <3>1 DEF create_levelfile, TypeInv, MemoryOK, GameState
    <3>4. Level' = Level
      BY <1>2, <2>1, <3>3 DEF RestoreLevel, Level, process
    <3> QED
      BY <1>0, <2>1, <3>1, <3>2, <3>3, <3>4
      DEF FInv, CleanStart, EraseDone, Flagged, SaveDone, RecoverDone, Created, LockHeld, NoStaleFiles, Recovering
  <2> QED
    BY <1>2, <1>a, <2>1 DEF RestoreLevel
<1>3. CASE WriteRestored
  <2>1. Level \in state.lfile_exists /\ state' = state /\ at' = "restore_levels" /\ file0' = file0
    BY <1>3 DEF WriteRestored, FInv, Created
  <2>2. PICK f : lfile' = [lfile EXCEPT ![Level] = f]
    BY <1>3 DEF WriteRestored
  <2>3. Present' \subseteq state'.lfile_exists
    <3> HIDE DEF Level
    <3> QED
      BY <1>0, <2>1, <2>2, WriteFlags
  <2> QED
    BY <1>0, <2>1, <2>3, HandlerGoesOn DEF Phases, Recovering
<1>4. CASE EndRestore \/ BackToPlay \/ KeepSave
  <2>1. state'.lfile_exists = state.lfile_exists
    BY <1>4, Fields DEF EndRestore, BackToPlay, KeepSave, memory, InMode, TypeInv, MemoryOK, GameState
  <2>2. lfile' = lfile /\ file0' = file0 /\ at' \in {"restored", "keep_save", "play"}
    BY <1>4 DEF EndRestore, BackToPlay, KeepSave, files
  <2> QED
    BY <1>0, <2>1, <2>2, SameFlags, HandlerGoesOn DEF Phases, Recovering
<1> QED
  BY <1>1, <1>2, <1>3, <1>4

(* The steps named keep FInv.                                              *)
LEMMA FilesRecover ==
  ASSUME TypeInv, FInv, recover \/ RecoverCurrent \/ RecoverState \/ RecoverLevel \/ EndRecover
  PROVE  FInv'
<1> USE DEF FInv, CleanStart, EraseDone, Flagged, SaveDone, Created, LockHeld, Recovering
<1>1. CASE recover \/ RecoverCurrent
  <2>1. at' \in {"off", "recover", "recover_state"} /\ file0' = file0 /\ file0.st # "absent"
    BY <1>1 DEF recover, RecoverCurrent
  <2> QED
    BY <2>1 DEF RecoverDone, NoStaleFiles
<1>2. CASE RecoverState
  <2>1. at' = "recover_levels" /\ Present' \subseteq todo'
    BY <1>2 DEF RecoverState, Present
  <2> QED
    BY <2>1 DEF RecoverDone, NoStaleFiles
<1>3. CASE RecoverLevel
  <2>1. Present \subseteq todo /\ lfile' = [lfile EXCEPT ![Level] = Absent]
        /\ todo' = todo \ {Level} /\ at' = "recover_levels"
    BY <1>3 DEF RecoverLevel, RecoverDone
  <2>2. Present' \subseteq todo'
    <3> HIDE DEF Level
    <3> QED
      BY <2>1, LosesFile
  <2> QED
    BY <2>1, <2>2 DEF RecoverDone, NoStaleFiles
<1>4. CASE EndRecover
  <2>1. Present = {} /\ lfile' = lfile /\ at' = "off"
    BY <1>4 DEF EndRecover, files, RecoverDone
  <2>2. lfile' = NoLevels
    BY <2>1, NoFiles
  <2> QED
    BY <2>1, <2>2 DEF RecoverDone, NoStaleFiles
<1> QED
  BY <1>1, <1>2, <1>3, <1>4

(* The places where a disaster can leave level files without a file 0:     *)
(* recover has deleted it and still has level files to copy; or clearlocks *)
(* runs before the program knows of the old game's levels.                 *)
LevelsFirst ==
  /\ <<"crash", "recover_levels">> \notin Strikes
  /\ <<"hangup", "getlock">> \notin Strikes /\ <<"hangup", "erase">> \notin Strikes

(* The steps named keep FInv.                                              *)
LEMMA FilesDisaster ==
  ASSUME TypeInv, FInv, LevelsFirst, Crash \/ hangup
  PROVE  FInv'
<1>1. CASE Crash
  <2>1. file0'.st # "absent"
    BY <1>1 DEF Crash, FInv, LockHeld, LevelsFirst
  <2> QED
    BY <1>1, <2>1, ExitFiles DEF Crash
<1>2. CASE hangup
  <2>1. InHandler
    BY <1>2 DEF hangup, LevelsFirst, InHandler
  <2> QED
    BY <1>2, <2>1, BeginSaveFiles, ClearFiles DEF hangup
<1> QED
  BY <1>1, <1>2

(* Every step keeps FInv.                                                  *)
LEMMA FilesStep == TypeInv /\ FInv /\ LevelsFirst /\ [Next]_vars => FInv'
<1> SUFFICES ASSUME TypeInv, FInv, LevelsFirst, [Next]_vars PROVE FInv'
  OBVIOUS
<1>1. CASE Next
  BY <1>1, FilesStart, FilesPlay, FilesDelete, FilesLevelChange, FilesCheckpoint, FilesSave, FilesRestore,
     FilesRecover, FilesDisaster
  DEF Next, Handlers, Player
<1>2. CASE UNCHANGED vars
  <2>1. Level' = Level /\ Present' = Present
    BY <1>2 DEF vars, memory, process, files, Level, Present
  <2> QED
    BY <1>2, <2>1
    DEF vars, memory, files, FInv, CleanStart, EraseDone, Flagged, SaveDone, RecoverDone, Created, LockHeld,
        NoStaleFiles
<1> QED
  BY <1>1, <1>2

(* FInv and the types hold in every reachable state.                       *)
LEMMA FilesInvariant ==
  ASSUME LevelsFirst
  PROVE  Spec => [](TypeInv /\ FInv)
<1>1. Init => TypeInv /\ FInv
  BY InitType, FilesInit
<1>2. TypeInv /\ FInv /\ [Next]_vars => (TypeInv /\ FInv)'
  BY TypeStep, FilesStep
<1> QED
  BY <1>1, <1>2, PTL DEF Spec

(* Wherever else disaster strikes, the program knows of every level file   *)
(* that there is.                                                          *)
THEOREM AllFilesFlagged ==
  ASSUME LevelsFirst
  PROVE  Spec => []FilesAreFlagged
<1>1. FInv => FilesAreFlagged
  BY DEF FInv, Flagged, FilesAreFlagged, Recovering
<1> QED
  BY <1>1, FilesInvariant, PTL

(* Wherever else disaster strikes, no level file is left without a file 0: *)
(* a later game under the same name starts from none.                      *)
THEOREM NothingStale ==
  ASSUME LevelsFirst
  PROVE  Spec => []NoStaleFiles
<1>1. FInv => NoStaleFiles
  BY DEF FInv
<1> QED
  BY <1>1, FilesInvariant, PTL

-----------------------------------------------------------------------------
(* The contents of the files.                                              *)

(* Where a disaster is survived: not while files are written, deleted or   *)
(* moved in a loop, nor where hangup finds a game whose levels it does not *)
(* have.                                                                   *)
HarmlessStrikes ==
  \A p \in Phases :
    /\ <<"crash", p>> \in Strikes =>
         p \notin {"erase", "clear", "leave", "discard", "left", "checkpoint", "write_level", "lock", "write_lock",
                   "write_state", "recover_state", "recover_levels"} \cup Saving
    /\ <<"hangup", p>> \in Strikes => p \notin {"getlock", "erase", "discard", "left"}

(* Phases of savestateinlock.                                              *)
Locking == {"lock", "write_lock", "write_state"}

(* Phases of the game on its way from one level to another.                *)
Levelling == {"play", "leave", "discard", "left", "checkpoint", "write_level"}

(* File 0 knows of all the level files that there are.                     *)
Known   == Present \subseteq file0.state.lfile_exists \cup {file0.state.uz}

(* There is no game in memory.                                             *)
Off ==
  at \in {"off", "getlock", "erase", "new", "restore"} \cup Recovering =>
    state = NoState /\ havestate /\ ~restoring /\ ~something_worth_saving

(* The static variables: restoring from dorecover until the game is back   *)
(* in main, something_worth_saving while it is played.                     *)
Process ==
  /\ at \in {"restore_levels", "restore_level", "restored"} => restoring
  /\ restoring => at \in Locking \cup {"restore_levels", "restore_level", "restored", "clear"}
  /\ restoring => ~something_worth_saving
  /\ at \in {"play", "keep_save"} => something_worth_saving
  /\ at \in Levelling /\ save # NoSave /\ ~save.locked => something_worth_saving

(* No file is missed, and none is found torn.                              *)
NoTricks == at # "tricked"

(* Every level file is whole, but for one that is being written.           *)
FlagsFull ==
  at \in (Levelling \ {"discard"}) \cup {"save", "restored", "keep_save"} \/ (at \in Locking /\ ~restoring) =>
    \A l \in state.lfile_exists :
      lfile[l].st = "full" \/ (l = state.uz /\ at \in {"leave", "write_level", "save"})

(* File 0 is torn only while it is written; where it holds a state,        *)
(* havestate says so.                                                      *)
LockAgrees ==
  /\ file0.st \in {"torn", "headed"} => at \in {"write_lock", "write_state"} \cup {"save", "save_levels", "unlock", "clear"}
  /\ file0.st = "full" => havestate
  /\ at \in {"new", "restore"} => file0.st = "pid"
  /\ at = "write_lock" => file0.st = "torn"
  /\ at = "write_state" => file0.st = "headed" /\ state.ins_chkpt

(* With checkpointing on the level just reached is on file before file 0   *)
(* is written.                                                             *)
CurrentFull ==
  at \in Locking /\ ~restoring /\ state.ins_chkpt => lfile[state.uz] = Full(fobj) /\ state.uz \in state.lfile_exists

(* Between the loops of dosave0 and recover a save file is complete, or    *)
(* has nothing behind the current level.                                   *)
SaveShape ==
  at \notin {"save_levels", "recover_levels"} =>
    IF Complete(save) THEN \A l \in Levels : save.others[l].st # "absent" => l \in save.state.state.lfile_exists
    ELSE save.state.st = "absent" /\ save.others = NoLevels

(* While a normal game is played, there is no save file that could be      *)
(* opened.                                                                 *)
Once ==
  at \in {"new"} \cup Levelling \/ (at \in Locking /\ ~restoring) =>
    save.locked \/ save = NoSave \/ state.explore

(* A save file is written under its own name, and read when it is locked.  *)
SaveOpen ==
  /\ save.st = "absent" => save = NoSave
  /\ at \in Saving \cup Recovering => save.st = "there" /\ ~save.locked
  /\ at = "restore" => save.locked

(* Where both file 0 and an open save file hold a game, it is in explore   *)
(* mode.                                                                   *)
KeptMode ==
  /\ file0.st = "full" /\ ~file0.state.explore /\ at \notin {"save_levels", "unlock"} => ~Complete(save) \/ save.locked
  /\ at \in {"restored", "keep_save"} => save = NoSave \/ (file0.st = "full" => file0.state.explore)

(* What is on disk between programs: the level files are the last          *)
(* checkpoint, or the save file has what was being restored.               *)
Disk ==
  at \in {"off", "getlock", "recover"} /\ file0.st = "full" =>
    IF AllFull THEN InFiles = last /\ Known ELSE Complete(save) /\ save.locked /\ InSave = last

(* The level files are the last checkpoint in the game too, between        *)
(* commands.                                                               *)
Checked ==
  at \in {"play", "restored", "keep_save", "recover"} /\ file0.st = "full" => AllFull /\ InFiles = last /\ Known

(* recover has file 0 until it has copied it.                              *)
RecoverOn ==
  /\ at \in {"recover", "recover_state"} => file0.st = "full"
  /\ at = "recover_levels" => file0.st = "absent"

(* dosave0 and recover begin with an empty save file.                      *)
ToSave ==
  /\ at \in {"save", "recover"} => save = EmptySave
  /\ at = "save" => last = InPlay

(* recover has copied the current level and nothing else.                  *)
RecoverHalf ==
  at = "recover_state" =>
    /\ save.level.st = "full" /\ save.state.st = "absent" /\ save.others = NoLevels
    /\ last.uz = file0.state.uz /\ last.invent = file0.state.invent
    /\ lfile[last.uz] = Absent /\ last.on[last.uz] = save.level.has
    /\ \A l \in Levels \ {last.uz} :
         /\ lfile[l].has = last.on[l]
         /\ IF l \in file0.state.lfile_exists THEN lfile[l].st = "full" ELSE lfile[l].st = "absent"

(* Each level is in its file, or in the save file if the loop of dosave0   *)
(* or recover has been there, as it was in the last game.                  *)
CopyAgrees ==
  at \in {"save_levels", "recover_levels"} =>
    LET gs == save.state.state
    IN /\ save.state.st = "full" /\ save.level.st = "full"
       /\ last.uz = gs.uz /\ last.invent = gs.invent /\ last.on[gs.uz] = save.level.has
       /\ gs.uz \notin todo /\ save.others[gs.uz] = Absent
       /\ at = "save_levels" => state.uz = gs.uz
       /\ \A l \in Levels \ {gs.uz} :
            IF l \in todo
            THEN lfile[l].st = "full" /\ lfile[l].has = last.on[l] /\ l \in gs.lfile_exists /\ save.others[l] = Absent
            ELSE /\ save.others[l].has = last.on[l]
                 /\ IF l \in gs.lfile_exists THEN save.others[l].st = "full" ELSE save.others[l].st = "absent"

(* dosave0 has saved the game that was played.                             *)
SavedLast == at = "unlock" => Complete(save) /\ InSave = last

(* dorecover has each level in its file, or still in the save file, and    *)
(* leaves the save file alone.                                             *)
RestoreAgrees ==
  restoring /\ at \in Locking \cup {"restore_levels", "restore_level"} =>
    LET gs == save.state.state
    IN /\ Complete(save) /\ save.locked /\ InSave = last
       /\ state.uz = gs.uz /\ state.invent = gs.invent
       /\ gs.lfile_exists \subseteq state.lfile_exists /\ state.lfile_exists \subseteq gs.lfile_exists \cup {gs.uz}
       /\ todo \subseteq gs.lfile_exists \cup {gs.uz}
       /\ gs.uz \in todo => fobj = save.level.has
       /\ at \in Locking => lfile = NoLevels /\ state.lfile_exists = gs.lfile_exists /\ gs.uz \in todo
       /\ \A l \in Levels :
            IF l \in todo THEN lfile[l].st # "full"
            ELSE IF l = gs.uz THEN lfile[l] = save.level ELSE lfile[l] = save.others[l]
       /\ at \notin Locking /\ file0.st = "full" =>
            /\ file0.state.uz = gs.uz /\ file0.state.invent = gs.invent
            /\ file0.state.lfile_exists = gs.lfile_exists /\ file0.state.explore = state.explore

(* The game that dorecover has read is the one that was saved.             *)
Restored ==
  /\ at \in {"restored", "keep_save"} => InPlay = last /\ (save # NoSave => Complete(save) /\ InSave = last /\ save.locked /\ state.explore)
  /\ at = "keep_save" => state.explore

(* The conjuncts together are inductive, given the types and FInv.         *)
HInv ==
  /\ Off
  /\ Process
  /\ NoTricks
  /\ FlagsFull
  /\ LockAgrees
  /\ CurrentFull
  /\ SaveShape
  /\ Once
  /\ SaveOpen
  /\ KeptMode
  /\ Disk
  /\ Checked
  /\ RecoverOn
  /\ ToSave
  /\ RecoverHalf
  /\ CopyAgrees
  /\ SavedLast
  /\ RestoreAgrees
  /\ Restored

(* What an operator that is not expanded says stays as it is.              *)
LEMMA Stays ==
  /\ save' = save => InSave' = InSave
  /\ lfile' = lfile /\ file0' = file0 => InFiles' = InFiles /\ (AllFull' <=> AllFull) /\ (Known' <=> Known)
  /\ state' = state /\ fobj' = fobj /\ lfile' = lfile /\ (at' \in {"discard", "left"} <=> at \in {"discard", "left"})
     => InPlay' = InPlay
<1>1. save' = save => InSave' = InSave
  BY DEF InSave
<1>2. lfile' = lfile /\ file0' = file0 => InFiles' = InFiles /\ (AllFull' <=> AllFull) /\ (Known' <=> Known)
  BY DEF InFiles, AllFull, Known, Present
<1>3. state' = state /\ fobj' = fobj /\ lfile' = lfile /\ (at' \in {"discard", "left"} <=> at \in {"discard", "left"})
      => InPlay' = InPlay
  BY DEF InPlay
<1> QED
  BY <1>1, <1>2, <1>3

(* A save file in which there is nothing is not complete.                  *)
LEMMA EmptySaves ==
  /\ \A s \in {NoSave, EmptySave} :
       ~Complete(s) /\ ~s.locked /\ s.level = Absent /\ s.state.st = "absent" /\ s.others = NoLevels
  /\ NoSave.st = "absent" /\ EmptySave.st = "there"
BY DEF NoSave, EmptySave, NoLock, Lock, Absent, Complete

(* The fields of what is written to file 0.                                *)
LEMMA Locks ==
  /\ \A st, gs : Lock(st, gs).st = st /\ Lock(st, gs).state = gs
  /\ NoLock.st = "absent" /\ Pid.st = "pid"
BY DEF Lock, NoLock, Pid

(* It does not matter to the contents who may open the save file.          *)
LEMMA Relocked ==
  ASSUME TypeInv, NEW b \in BOOLEAN, save' = [save EXCEPT !.locked = b]
  PROVE  /\ save'.st = save.st /\ save'.level = save.level /\ save'.state = save.state /\ save'.others = save.others
         /\ save'.locked = b /\ (Complete(save') <=> Complete(save)) /\ InSave' = InSave
<1>1. save'.st = save.st /\ save'.level = save.level /\ save'.state = save.state /\ save'.others = save.others
      /\ save'.locked = b
  BY DEF TypeInv, SaveOK, SaveFile
<1> QED
  BY <1>1 DEF Complete, InSave

(* The fields of the state that a handler does not set.                    *)
LEMMA StateFields ==
  ASSUME TypeInv
  PROVE  /\ \A s : [state EXCEPT !.lfile_exists = s].uz = state.uz
         /\ \A s : [state EXCEPT !.lfile_exists = s].invent = state.invent
         /\ \A s : [state EXCEPT !.lfile_exists = s].explore = state.explore
         /\ \A s : [state EXCEPT !.lfile_exists = s].ins_chkpt = state.ins_chkpt
         /\ \A s : [state EXCEPT !.lfile_exists = s].lfile_exists = s
BY DEF TypeInv, MemoryOK, GameState

(* What is in a game.                                                      *)
LEMMA GameParts ==
  /\ InPlay.uz = state.uz /\ InPlay.invent = state.invent
  /\ \A l \in Levels :
       IF l = state.uz /\ at \notin {"discard", "left"} THEN InPlay.on[l] = fobj ELSE InPlay.on[l] = lfile[l].has
  /\ InFiles.uz = file0.state.uz /\ InFiles.invent = file0.state.invent
  /\ \A l \in Levels : InFiles.on[l] = lfile[l].has
  /\ InSave.uz = save.state.state.uz /\ InSave.invent = save.state.state.invent
  /\ \A l \in Levels :
       IF l = save.state.state.uz THEN InSave.on[l] = save.level.has ELSE InSave.on[l] = save.others[l].has
BY DEF InPlay, InFiles, InSave, Game

(* Games with the same in them are the same.                               *)
LEMMA SameGame ==
  ASSUME NEW g \in Games, NEW h \in Games, g.uz = h.uz, g.invent = h.invent, \A l \in Levels : g.on[l] = h.on[l]
  PROVE  g = h
BY DEF Games

(* Nothing in a complete save file is taken for something else.            *)
LEMMA CleanSave ==
  ASSUME TypeInv, Complete(save)
  PROVE  /\ Clean(-2) /\ Clean(-1) /\ ~Filled
         /\ \A l \in Levels : save.others[l].st = "full" => Clean(l)
<1>1. \A l \in Levels : l \in Nat /\ l # -1 /\ l # -2
  BY LevelsAreNumbers
<1>2. /\ Piece(-2) = "full" /\ Piece(-1) = "full"
      /\ \A l \in Levels : Piece(l) = save.others[l].st /\ Piece(l) # "torn"
  BY <1>1 DEF Complete, Piece
<1>3. \A p \in Pieces : Piece(p) # "torn"
  BY <1>2 DEF Pieces
<1> QED
  BY <1>2, <1>3 DEF Clean, Filled

(* In one that has been cut there is nothing to be taken for something.    *)
LEMMA CutSave ==
  ASSUME save.state.st = "absent", save.others = NoLevels
  PROVE  ~Clean(-1) /\ ~Filled
<1>1. \A l \in Levels : l \in Nat /\ l # -1 /\ l # -2
  BY LevelsAreNumbers
<1>2. Piece(-1) = "absent" /\ \A l \in Levels : Piece(l) = "absent"
  BY <1>1 DEF Piece, NoLevels, Absent
<1> QED
  BY <1>1, <1>2 DEF Clean, Filled, Pieces

(* When the last level has been copied, the game is in the save file.      *)
LEMMA CopyDone ==
  ASSUME TypeInv, CopyAgrees, at \in {"save_levels", "recover_levels"}, todo = {}
  PROVE  /\ Complete(save) /\ InSave = last
         /\ \A l \in Levels : save.others[l].st # "absent" => l \in save.state.state.lfile_exists
<1> DEFINE gs == save.state.state
<1>1. /\ save.state.st = "full" /\ save.level.st = "full"
      /\ last.uz = gs.uz /\ last.invent = gs.invent /\ last.on[gs.uz] = save.level.has
      /\ save.others[gs.uz] = Absent
      /\ \A l \in Levels \ {gs.uz} :
           /\ save.others[l].has = last.on[l]
           /\ IF l \in gs.lfile_exists THEN save.others[l].st = "full" ELSE save.others[l].st = "absent"
  BY DEF CopyAgrees
<1>2. Complete(save)
  BY <1>1, Fields DEF Complete, Absent
<1>3. InSave = last
  <2>1. InSave \in Games /\ last \in Games
    BY GameTypes DEF TypeInv, LastOK
  <2> QED
    BY <1>1, <2>1, GameParts, SameGame
<1>4. \A l \in Levels : save.others[l].st # "absent" => l \in gs.lfile_exists
  BY <1>1 DEF Absent
<1> QED
  BY <1>2, <1>3, <1>4

-----------------------------------------------------------------------------
(* What each action does to it.                                            *)

(* A new program has the lock name: an old save file is left, locked or    *)
(* deleted.                                                                *)
LEMMA HarmlessGotlock ==
  ASSUME TypeInv, FInv, HInv, at \in {"off", "erase"}, NEW levels, gotlock(levels),
         UNCHANGED <<memory, process, todo, last>>
  PROVE  HInv'
<1>1. /\ Off' /\ Process' /\ NoTricks' /\ FlagsFull' /\ CurrentFull' /\ Disk' /\ Checked' /\ RecoverOn'
      /\ ToSave' /\ RecoverHalf' /\ CopyAgrees' /\ SavedLast' /\ RestoreAgrees' /\ Restored'
  BY Stays, Fields
     DEF HInv, Off, Process, NoTricks, FlagsFull, CurrentFull, Disk, Checked, RecoverOn, ToSave, RecoverHalf,
         CopyAgrees, SavedLast, RestoreAgrees, Restored, gotlock, Locking, Levelling, Saving, Recovering,
         process, memory, files
<1>2. LockAgrees' /\ SaveShape' /\ Once' /\ SaveOpen' /\ KeptMode'
  <2>1. /\ file0'.st = "pid" /\ at' \in {"new", "restore"}
        /\ at' = "new" => (save' = save /\ (save.st = "absent" \/ save.locked)) \/ save' = NoSave
        /\ at' = "restore" => save.st = "there" /\ save' = [save EXCEPT !.locked = TRUE]
    BY Locks DEF gotlock
  <2>2. LockAgrees' /\ Once' /\ SaveOpen' /\ KeptMode'
    BY <2>1, Relocked, EmptySaves
       DEF HInv, LockAgrees, Once, SaveOpen, KeptMode, Locking, Levelling, Saving, Recovering
  <2>3. SaveShape'
    BY <2>1, Relocked, EmptySaves DEF HInv, SaveShape
  <2> QED
    BY <2>2, <2>3
<1> QED
  BY <1>1, <1>2 DEF HInv

(* A new game has no level files, and no save file that could be opened.   *)
LEMMA HarmlessNewgame ==
  ASSUME TypeInv, FInv, HInv, newgame
  PROVE  HInv'
<1>1. /\ Off' /\ NoTricks' /\ LockAgrees' /\ CurrentFull' /\ SaveShape' /\ SaveOpen' /\ KeptMode' /\ Disk'
      /\ Checked' /\ RecoverOn' /\ ToSave' /\ RecoverHalf' /\ CopyAgrees' /\ SavedLast' /\ RestoreAgrees'
      /\ Restored'
  BY Stays, Fields
     DEF HInv, Off, NoTricks, LockAgrees, CurrentFull, SaveShape, SaveOpen, KeptMode, Disk, Checked, RecoverOn,
         ToSave, RecoverHalf, CopyAgrees, SavedLast, RestoreAgrees, Restored, newgame, Locking, Levelling,
         Saving, Recovering, process, memory, files
<1>2. Process' /\ FlagsFull' /\ Once'
  <2>1. /\ state = NoState /\ ~restoring /\ ~something_worth_saving
        /\ save.locked \/ save = NoSave \/ NoState.explore
    BY DEF newgame, HInv, Off, Once
  <2>2. state'.lfile_exists = {} /\ at' = "checkpoint" /\ process' = process /\ save' = save
    BY DEF newgame, files, NoState
  <2> QED
    BY <2>1, <2>2 DEF NoState, process, Process, FlagsFull, Once, Locking, Levelling
<1> QED
  BY <1>1, <1>2 DEF HInv

(* In the game no file changes; explore mode is never left.                *)
LEMMA HarmlessPlay ==
  ASSUME TypeInv, FInv, HInv, Play
  PROVE  HInv'
<1>1. /\ Off' /\ Process' /\ NoTricks' /\ LockAgrees' /\ CurrentFull' /\ SaveShape' /\ SaveOpen'
      /\ KeptMode' /\ Disk' /\ Checked' /\ RecoverOn' /\ ToSave' /\ RecoverHalf' /\ CopyAgrees'
      /\ SavedLast' /\ RestoreAgrees' /\ Restored'
  BY Stays, Fields
     DEF HInv, Off, Process, NoTricks, LockAgrees, CurrentFull, SaveShape, SaveOpen, KeptMode, Disk, Checked,
         RecoverOn, ToSave, RecoverHalf, CopyAgrees, SavedLast, RestoreAgrees, Restored, Play, Locking,
         Levelling, Saving, Recovering, process, memory, files
<1>2. FlagsFull' /\ Once'
  BY DEF Play, TypeInv, MemoryOK, GameState, HInv, FlagsFull, Once, Locking, Levelling, files
<1> QED
  BY <1>1, <1>2 DEF HInv

(* At the end of a game file 0 is still there, but no longer counts.       *)
LEMMA HarmlessClearlocks ==
  ASSUME TypeInv, FInv, HInv, clearlocks, UNCHANGED last, save' = save \/ save' = NoSave,
         at \notin Saving \cup Recovering
  PROVE  HInv'
<1>1. /\ Off' /\ Process' /\ NoTricks' /\ FlagsFull' /\ CurrentFull' /\ Once' /\ Disk' /\ Checked'
      /\ RecoverOn' /\ ToSave' /\ RecoverHalf' /\ CopyAgrees' /\ SavedLast' /\ RestoreAgrees' /\ Restored'
  BY Stays, Fields
     DEF HInv, Off, Process, NoTricks, FlagsFull, CurrentFull, Once, Disk, Checked, RecoverOn, ToSave,
         RecoverHalf, CopyAgrees, SavedLast, RestoreAgrees, Restored, clearlocks, Locking, Levelling, Saving,
         Recovering, process, memory, files
<1>2. LockAgrees' /\ SaveOpen' /\ KeptMode'
  BY EmptySaves DEF clearlocks, HInv, SaveOpen, KeptMode, LockAgrees, Saving, Recovering
<1>3. SaveShape'
  BY EmptySaves DEF clearlocks, HInv, SaveShape, Saving, Recovering
<1> QED
  BY <1>1, <1>2, <1>3 DEF HInv

(* dosave0 begins with the game as it is, every level of it in memory or   *)
(* whole on file.                                                          *)
LEMMA HarmlessBeginSave ==
  ASSUME TypeInv, FInv, HInv, BeginSave, at \in Levelling \cup Locking \cup {"keep_save"}, ~restoring,
         at \notin {"discard", "left"}
  PROVE  HInv'
<1>1. /\ Off' /\ NoTricks' /\ CurrentFull' /\ Once' /\ Disk' /\ Checked' /\ RecoverOn' /\ ToSave'
      /\ RecoverHalf' /\ CopyAgrees' /\ SavedLast' /\ RestoreAgrees' /\ Restored'
  BY Stays, Fields
     DEF HInv, Off, NoTricks, CurrentFull, Once, Disk, Checked, RecoverOn, ToSave, RecoverHalf, CopyAgrees,
         SavedLast, RestoreAgrees, Restored, BeginSave, Locking, Levelling, Saving, Recovering, process,
         memory, files
<1>2. SaveOpen' /\ KeptMode' /\ Process'
  BY EmptySaves DEF BeginSave, process, HInv, SaveOpen, KeptMode, Process, Locking, Levelling, Saving, Recovering
<1>3. SaveShape'
  BY EmptySaves DEF BeginSave, SaveShape
<1>4. LockAgrees' /\ FlagsFull'
  BY DEF BeginSave, process, memory, HInv, LockAgrees, FlagsFull, Locking, Levelling
<1> QED
  BY <1>1, <1>2, <1>3, <1>4 DEF HInv

(* goto_level creates the file of the level that is left.                  *)
LEMMA HarmlessGotoLevel ==
  ASSUME TypeInv, FInv, HInv, NEW l \in Levels, goto_level(l)
  PROVE  HInv'
<1>1. /\ Off' /\ Process' /\ NoTricks' /\ LockAgrees' /\ CurrentFull' /\ SaveShape' /\ SaveOpen'
      /\ KeptMode' /\ Disk' /\ Checked' /\ RecoverOn' /\ ToSave' /\ RecoverHalf' /\ CopyAgrees'
      /\ SavedLast' /\ RestoreAgrees' /\ Restored'
  BY Stays, Fields
     DEF HInv, Off, Process, NoTricks, LockAgrees, CurrentFull, SaveShape, SaveOpen, KeptMode, Disk, Checked,
         RecoverOn, ToSave, RecoverHalf, CopyAgrees, SavedLast, RestoreAgrees, Restored, goto_level,
         create_levelfile, Locking, Levelling, Saving, Recovering, process, memory, files
<1>2. FlagsFull' /\ Once'
  <2>1. /\ lfile' = [lfile EXCEPT ![state.uz] = Torn] /\ state'.lfile_exists = state.lfile_exists \cup {state.uz}
        /\ state'.uz = state.uz /\ state'.explore = state.explore
    BY StateFields DEF goto_level, create_levelfile
  <2> QED
    BY <2>1 DEF goto_level, TypeInv, LfileOK, HInv, FlagsFull, Once, Locking, Levelling
<1> QED
  BY <1>1, <1>2 DEF HInv

(* A level file less, and its flag with it.                                *)
LEMMA HarmlessDeleteLevel ==
  ASSUME TypeInv, FInv, HInv, DeleteLevel
  PROVE  HInv'
<1>1. /\ Off' /\ Process' /\ NoTricks' /\ FlagsFull' /\ LockAgrees' /\ CurrentFull' /\ SaveShape'
      /\ SaveOpen' /\ KeptMode' /\ Disk' /\ Checked' /\ RecoverOn' /\ ToSave' /\ RecoverHalf' /\ CopyAgrees'
      /\ SavedLast' /\ RestoreAgrees' /\ Restored'
  BY Stays, Fields
     DEF HInv, Off, Process, NoTricks, FlagsFull, LockAgrees, CurrentFull, SaveShape, SaveOpen, KeptMode, Disk,
         Checked, RecoverOn, ToSave, RecoverHalf, CopyAgrees, SavedLast, RestoreAgrees, Restored, DeleteLevel,
         Locking, Levelling, Saving, Recovering, process, memory, files
<1>2. Once'
  BY StateFields DEF DeleteLevel, delete_levelfile, HInv, Once, Locking, Levelling
<1> QED
  BY <1>1, <1>2 DEF HInv

(* Without file 0 nothing can be asked of the level files.                 *)
LEMMA HarmlessClearEnd ==
  ASSUME TypeInv, FInv, HInv, ClearEnd
  PROVE  HInv'
<1>1. /\ Off' /\ Process' /\ NoTricks' /\ FlagsFull' /\ CurrentFull' /\ SaveShape' /\ Once' /\ SaveOpen'
      /\ Checked' /\ RecoverOn' /\ ToSave' /\ RecoverHalf' /\ CopyAgrees' /\ SavedLast' /\ RestoreAgrees'
      /\ Restored'
  BY Stays, Fields
     DEF HInv, Off, Process, NoTricks, FlagsFull, CurrentFull, SaveShape, Once, SaveOpen, Checked, RecoverOn,
         ToSave, RecoverHalf, CopyAgrees, SavedLast, RestoreAgrees, Restored, ClearEnd, Exit, Locking,
         Levelling, Saving, Recovering, process, memory, files
<1>2. LockAgrees' /\ KeptMode' /\ Disk'
  BY Locks DEF ClearEnd, Exit, HInv, LockAgrees, KeptMode, Disk, Locking, Levelling
<1> QED
  BY <1>1, <1>2 DEF HInv

(* On the way to the endgame no file is left.                              *)
LEMMA HarmlessDiscarded ==
  ASSUME TypeInv, FInv, HInv, Discarded
  PROVE  HInv'
<1>1. /\ Off' /\ Process' /\ NoTricks' /\ LockAgrees' /\ CurrentFull' /\ SaveShape' /\ Once' /\ SaveOpen'
      /\ KeptMode' /\ Disk' /\ Checked' /\ RecoverOn' /\ ToSave' /\ RecoverHalf' /\ CopyAgrees'
      /\ SavedLast' /\ RestoreAgrees' /\ Restored'
  BY Stays, Fields
     DEF HInv, Off, Process, NoTricks, LockAgrees, CurrentFull, SaveShape, Once, SaveOpen, KeptMode, Disk,
         Checked, RecoverOn, ToSave, RecoverHalf, CopyAgrees, SavedLast, RestoreAgrees, Restored, Discarded,
         Locking, Levelling, Saving, Recovering, process, memory, files
<1>2. FlagsFull'
  BY DEF Discarded, memory, files, FInv, SaveDone, FlagsFull, Locking, Levelling
<1> QED
  BY <1>1, <1>2 DEF HInv

(* The level that is left is whole on file.                                *)
LEMMA HarmlessLeaveLevel ==
  ASSUME TypeInv, FInv, HInv, LeaveLevel
  PROVE  HInv'
<1>1. /\ Off' /\ Process' /\ NoTricks' /\ LockAgrees' /\ CurrentFull' /\ SaveShape' /\ Once' /\ SaveOpen'
      /\ KeptMode' /\ Disk' /\ Checked' /\ RecoverOn' /\ ToSave' /\ RecoverHalf' /\ CopyAgrees'
      /\ SavedLast' /\ RestoreAgrees' /\ Restored'
  BY Stays, Fields
     DEF HInv, Off, Process, NoTricks, LockAgrees, CurrentFull, SaveShape, Once, SaveOpen, KeptMode, Disk,
         Checked, RecoverOn, ToSave, RecoverHalf, CopyAgrees, SavedLast, RestoreAgrees, Restored, LeaveLevel,
         Locking, Levelling, Saving, Recovering, process, memory, files
<1>2. FlagsFull'
  <2>1. CASE cant_go_back
    BY <2>1 DEF LeaveLevel, FlagsFull, Locking, Levelling
  <2>2. CASE ~cant_go_back
    <3>1. at = "leave" /\ at' = "left" /\ state' = state /\ lfile' = [lfile EXCEPT ![state.uz] = Full(fobj)]
      BY <2>2 DEF LeaveLevel
    <3>2. lfile'[state.uz].st = "full" /\ \A l \in Levels \ {state.uz} : lfile'[l] = lfile[l]
      BY <3>1, Fields DEF TypeInv, LfileOK, Full
    <3> QED
      BY <3>1, <3>2, Fields DEF HInv, FlagsFull, Levelling
  <2> QED
    BY <2>1, <2>2
<1> QED
  BY <1>1, <1>2 DEF HInv

(* The level that is reached is new, or whole on file.                     *)
LEMMA HarmlessArrive ==
  ASSUME TypeInv, FInv, HInv, Arrive
  PROVE  HInv'
<1>1. /\ Off' /\ Process' /\ LockAgrees' /\ CurrentFull' /\ SaveShape' /\ SaveOpen' /\ KeptMode' /\ Disk'
      /\ Checked' /\ RecoverOn' /\ ToSave' /\ RecoverHalf' /\ CopyAgrees' /\ SavedLast' /\ RestoreAgrees'
      /\ Restored'
  BY Stays, Fields
     DEF HInv, Off, Process, LockAgrees, CurrentFull, SaveShape, SaveOpen, KeptMode, Disk, Checked, RecoverOn,
         ToSave, RecoverHalf, CopyAgrees, SavedLast, RestoreAgrees, Restored, Arrive, Locking, Levelling,
         Saving, Recovering, process, memory, files
<1>2. NoTricks' /\ FlagsFull' /\ Once'
  <2>1. newlevel \in state.lfile_exists => lfile[newlevel].st = "full"
    BY DEF Arrive, HInv, FlagsFull, Levelling
  <2>2. at' = "checkpoint" /\ state'.lfile_exists = state.lfile_exists /\ state'.explore = state.explore
    BY <2>1 DEF Arrive, TypeInv, MemoryOK, GameState
  <2> QED
    BY <2>2 DEF Arrive, files, HInv, NoTricks, FlagsFull, Once, Locking, Levelling
<1> QED
  BY <1>1, <1>2 DEF HInv

(* A checkpoint begins with the file of the current level.                 *)
LEMMA HarmlessCheckpoint ==
  ASSUME TypeInv, FInv, HInv, save_currentstate
  PROVE  HInv'
<1>1. /\ Off' /\ Process' /\ NoTricks' /\ LockAgrees' /\ CurrentFull' /\ SaveShape' /\ SaveOpen'
      /\ KeptMode' /\ Disk' /\ Checked' /\ RecoverOn' /\ ToSave' /\ RecoverHalf' /\ CopyAgrees'
      /\ SavedLast' /\ Restored'
  BY Stays, Fields
     DEF HInv, Off, Process, NoTricks, LockAgrees, CurrentFull, SaveShape, SaveOpen, KeptMode, Disk, Checked,
         RecoverOn, ToSave, RecoverHalf, CopyAgrees, SavedLast, Restored, save_currentstate, Locking,
         Levelling, Saving, Recovering, process, memory, files
<1>2. FlagsFull' /\ Once' /\ RestoreAgrees'
  <2>1. CASE create_levelfile(state.uz) /\ at' = "write_level"
    <3>1. /\ lfile' = [lfile EXCEPT ![state.uz] = Torn] /\ state'.lfile_exists = state.lfile_exists \cup {state.uz}
          /\ state'.uz = state.uz /\ state'.explore = state.explore
      BY <2>1, StateFields DEF create_levelfile
    <3>2. \A l \in Levels \ {state.uz} : lfile'[l] = lfile[l]
      BY <3>1 DEF TypeInv, LfileOK
    <3>3. FlagsFull'
      BY <2>1, <3>1, <3>2, Fields DEF save_currentstate, HInv, FlagsFull, Levelling
    <3> QED
      BY <2>1, <3>1, <3>3 DEF save_currentstate, HInv, Once, RestoreAgrees, Locking, Levelling
  <2>2. CASE at' = "lock" /\ UNCHANGED <<state, lfile>>
    BY <2>2 DEF save_currentstate, process, HInv, Process, FlagsFull, Once, RestoreAgrees, Locking, Levelling
  <2> QED
    BY <2>1, <2>2 DEF save_currentstate
<1> QED
  BY <1>1, <1>2 DEF HInv

(* The current level is on file as it is in memory.                        *)
LEMMA HarmlessWriteLevel ==
  ASSUME TypeInv, FInv, HInv, WriteLevel
  PROVE  HInv'
<1>1. /\ Off' /\ Process' /\ NoTricks' /\ LockAgrees' /\ SaveShape' /\ Once' /\ SaveOpen' /\ KeptMode'
      /\ Disk' /\ Checked' /\ RecoverOn' /\ ToSave' /\ RecoverHalf' /\ CopyAgrees' /\ SavedLast'
      /\ Restored'
  BY Stays, Fields
     DEF HInv, Off, Process, NoTricks, LockAgrees, SaveShape, Once, SaveOpen, KeptMode, Disk, Checked,
         RecoverOn, ToSave, RecoverHalf, CopyAgrees, SavedLast, Restored, WriteLevel, Locking, Levelling,
         Saving, Recovering, process, memory, files
<1>2. FlagsFull' /\ CurrentFull' /\ RestoreAgrees'
  <2>1. /\ ~restoring /\ state.uz \in state.lfile_exists /\ state' = state /\ fobj' = fobj /\ restoring' = restoring
        /\ at' = "lock" /\ lfile' = [lfile EXCEPT ![state.uz] = Full(fobj)]
    BY DEF WriteLevel, memory, process, HInv, Process, FInv, Created, Locking
  <2>2. lfile'[state.uz] = Full(fobj) /\ \A l \in Levels \ {state.uz} : lfile'[l] = lfile[l]
    BY <2>1, Fields DEF TypeInv, LfileOK
  <2>3. \A l \in state.lfile_exists : l # state.uz => lfile[l].st = "full"
    BY DEF WriteLevel, HInv, FlagsFull, Levelling
  <2> QED
    BY <2>1, <2>2, <2>3, Fields DEF Full, FlagsFull, CurrentFull, RestoreAgrees, Locking, Levelling
<1> QED
  BY <1>1, <1>2 DEF HInv

(* Without havestate there is no state in file 0 to be removed.            *)
LEMMA HarmlessStateInLock ==
  ASSUME TypeInv, FInv, HInv, savestateinlock
  PROVE  HInv'
<1>1. /\ Off' /\ Process' /\ NoTricks' /\ FlagsFull' /\ CurrentFull' /\ SaveShape' /\ Once' /\ SaveOpen'
      /\ Disk' /\ RecoverOn' /\ ToSave' /\ RecoverHalf' /\ CopyAgrees' /\ SavedLast' /\ Restored'
  BY Stays, Fields
     DEF HInv, Off, Process, NoTricks, FlagsFull, CurrentFull, SaveShape, Once, SaveOpen, Disk, RecoverOn,
         ToSave, RecoverHalf, CopyAgrees, SavedLast, Restored, savestateinlock, AfterLock, Locking, Levelling,
         Saving, Recovering, process, memory, files
<1>2. LockAgrees' /\ KeptMode' /\ Checked'
  BY Locks, Stays DEF savestateinlock, AfterLock, memory, HInv, LockAgrees, KeptMode, Checked, Locking, Levelling
<1>3. RestoreAgrees'
  BY Locks, Stays DEF savestateinlock, AfterLock, memory, HInv, LockAgrees, RestoreAgrees, Locking
<1> QED
  BY <1>1, <1>2, <1>3 DEF HInv

(* File 0 has lost its state, or is to have a new one.                     *)
LEMMA HarmlessWriteLock ==
  ASSUME TypeInv, FInv, HInv, WriteLock
  PROVE  HInv'
<1>1. /\ Off' /\ Process' /\ NoTricks' /\ FlagsFull' /\ CurrentFull' /\ SaveShape' /\ Once' /\ SaveOpen'
      /\ Disk' /\ RecoverOn' /\ ToSave' /\ RecoverHalf' /\ CopyAgrees' /\ SavedLast' /\ Restored'
  BY Stays, Fields
     DEF HInv, Off, Process, NoTricks, FlagsFull, CurrentFull, SaveShape, Once, SaveOpen, Disk, RecoverOn,
         ToSave, RecoverHalf, CopyAgrees, SavedLast, Restored, WriteLock, AfterLock, Locking, Levelling,
         Saving, Recovering, process, memory, files
<1>2. LockAgrees' /\ KeptMode' /\ Checked'
  <2>1. file0'.st \in {"headed", "pid"} /\ (file0'.st = "headed" => at' = "write_state" /\ state'.ins_chkpt)
        /\ at' \in {"write_state", "restore_levels", "play"} /\ (at' = "write_state" => file0'.st = "headed")
    BY Locks DEF WriteLock, AfterLock, memory
  <2> QED
    BY <2>1 DEF LockAgrees, KeptMode, Checked
<1>3. RestoreAgrees'
  BY Locks, Stays DEF WriteLock, AfterLock, memory, HInv, LockAgrees, RestoreAgrees, Locking
<1> QED
  BY <1>1, <1>2, <1>3 DEF HInv

(* What is in file 0 and the level files now is the game in play; while a  *)
(* game is restored, what was saved.                                       *)
LEMMA HarmlessWriteState ==
  ASSUME TypeInv, FInv, HInv, WriteState
  PROVE  HInv'
<1>1. /\ Off' /\ Process' /\ NoTricks' /\ FlagsFull' /\ CurrentFull' /\ SaveShape' /\ Once' /\ SaveOpen'
      /\ Disk' /\ RecoverOn' /\ ToSave' /\ RecoverHalf' /\ CopyAgrees' /\ SavedLast' /\ Restored'
  BY Stays, Fields
     DEF HInv, Off, Process, NoTricks, FlagsFull, CurrentFull, SaveShape, Once, SaveOpen, Disk, RecoverOn,
         ToSave, RecoverHalf, CopyAgrees, SavedLast, Restored, WriteState, AfterLock, Locking, Levelling,
         Saving, Recovering, process, memory, files
<1>2. LockAgrees' /\ KeptMode'
  <2>1. /\ file0'.st = "full" /\ file0'.state = state /\ at' \in {"restore_levels", "play"}
        /\ save' = save /\ havestate' = state.ins_chkpt
    BY Locks DEF WriteState, AfterLock
  <2>2. state.ins_chkpt /\ (restoring => save.locked) /\ (~restoring => save.locked \/ save = NoSave \/ state.explore)
    BY DEF WriteState, HInv, LockAgrees, RestoreAgrees, Once, Locking
  <2> QED
    BY <2>1, <2>2, EmptySaves DEF LockAgrees, KeptMode
<1>3. Checked'
  <2>1. CASE restoring
    BY <2>1 DEF WriteState, AfterLock, Checked
  <2>2. CASE ~restoring
    <3>1. file0' = Lock("full", state) /\ last' = InPlay /\ lfile' = lfile /\ at' = "play"
      BY <2>2 DEF WriteState, AfterLock
    <3>2. lfile[state.uz] = Full(fobj) /\ \A l \in {state.uz} \cup state.lfile_exists : lfile[l].st = "full"
      BY <2>2 DEF WriteState, HInv, LockAgrees, CurrentFull, FlagsFull, Locking
    <3>3. Present \subseteq state.lfile_exists
      BY DEF WriteState, FInv, Flagged, Recovering
    <3>4. InFiles' = InPlay
      <4>1. InFiles' = Game(state.uz, state.invent, [l \in Levels |-> lfile[l].has])
        BY <3>1, Locks DEF InFiles
      <4>2. InPlay = Game(state.uz, state.invent, [l \in Levels |-> IF l = state.uz THEN fobj ELSE lfile[l].has])
        BY DEF WriteState, InPlay
      <4>3. \A l \in Levels : lfile[l].has = IF l = state.uz THEN fobj ELSE lfile[l].has
        BY <3>2 DEF Full
      <4> QED
        BY <4>1, <4>2, <4>3 DEF Game
    <3>5. AllFull' /\ Known'
      BY <3>1, <3>2, <3>3, Locks DEF AllFull, Known, Present
    <3> QED
      BY <3>1, <3>4, <3>5 DEF Checked
  <2> QED
    BY <2>1, <2>2
<1>4. RestoreAgrees'
  <2>1. CASE restoring
    <3>1. /\ file0'.state = state /\ at' = "restore_levels" /\ last' = last
          /\ UNCHANGED <<save, state, fobj, todo, lfile, restoring>>
      BY <2>1, Locks DEF WriteState, AfterLock, memory
    <3> QED
      BY <2>1, <3>1, Stays DEF WriteState, HInv, RestoreAgrees, Locking
  <2>2. CASE ~restoring
    BY <2>2 DEF WriteState, RestoreAgrees
  <2> QED
    BY <2>1, <2>2
<1> QED
  BY <1>1, <1>2, <1>3, <1>4 DEF HInv

(* The current level and the state are in the save file, the other levels  *)
(* whole in theirs.                                                        *)
LEMMA HarmlessSaveState ==
  ASSUME TypeInv, FInv, HInv, SaveState
  PROVE  HInv'
<1>1. /\ Off' /\ Process' /\ NoTricks' /\ FlagsFull' /\ LockAgrees' /\ CurrentFull' /\ SaveShape' /\ Once'
      /\ KeptMode' /\ Disk' /\ Checked' /\ RecoverOn' /\ ToSave' /\ RecoverHalf' /\ SavedLast'
      /\ RestoreAgrees' /\ Restored'
  BY Stays, Fields
     DEF HInv, Off, Process, NoTricks, FlagsFull, LockAgrees, CurrentFull, SaveShape, Once, KeptMode, Disk,
         Checked, RecoverOn, ToSave, RecoverHalf, SavedLast, RestoreAgrees, Restored, SaveState, Locking,
         Levelling, Saving, Recovering, process, memory, files
<1>2. SaveOpen'
  BY DEF SaveState, TypeInv, SaveOK, SaveFile, HInv, SaveOpen, Saving
<1>3. CopyAgrees'
  <2> DEFINE gs == save'.state.state
  <2>1. /\ at = "save" /\ at' = "save_levels" /\ lfile' = lfile /\ last' = last
        /\ todo' = state.lfile_exists \ {state.uz} /\ state'.uz = state.uz
    BY DEF SaveState, TypeInv, MemoryOK, GameState
  <2>2. /\ save'.level = Full(fobj) /\ save'.state.st = "full" /\ gs = state /\ save'.others = NoLevels
    BY EmptySaves, Locks DEF SaveState, TypeInv, SaveOK, SaveFile, HInv, ToSave
  <2>3. /\ last.uz = state.uz /\ last.invent = state.invent /\ last.on[state.uz] = fobj
        /\ \A l \in Levels \ {state.uz} : last.on[l] = lfile[l].has
    BY <2>1, GameParts, Fields DEF HInv, ToSave
  <2>4. ASSUME NEW l \in Levels \ {state.uz}
        PROVE  IF l \in state.lfile_exists THEN lfile[l].st = "full" ELSE lfile[l] = Absent
    <3>1. l \in state.lfile_exists => lfile[l].st = "full"
      BY <2>1 DEF HInv, FlagsFull
    <3>2. l \notin state.lfile_exists => lfile[l].st = "absent"
      BY <2>1 DEF FInv, Flagged, Present, Recovering
    <3> QED
      BY <3>1, <3>2, Fields, FileTypes
  <2>5. \A l \in Levels : save'.others[l] = Absent
    BY <2>2 DEF NoLevels
  <2> QED
    BY <2>1, <2>2, <2>3, <2>4, <2>5, Fields DEF CopyAgrees, Full, Absent
<1> QED
  BY <1>1, <1>2, <1>3 DEF HInv

(* A level moves from its file to the save file.                           *)
LEMMA HarmlessSaveLevel ==
  ASSUME TypeInv, FInv, HInv, SaveLevel
  PROVE  HInv'
<1>1. /\ Off' /\ Process' /\ FlagsFull' /\ CurrentFull' /\ Once' /\ Disk' /\ Checked' /\ RecoverOn'
      /\ ToSave' /\ RecoverHalf' /\ SavedLast' /\ RestoreAgrees' /\ Restored'
  BY Stays, Fields
     DEF HInv, Off, Process, FlagsFull, CurrentFull, Once, Disk, Checked, RecoverOn, ToSave, RecoverHalf,
         SavedLast, RestoreAgrees, Restored, SaveLevel, delete_levelfile, Locking, Levelling, Saving,
         Recovering, process, memory, files
<1>2. NoTricks' /\ LockAgrees' /\ SaveShape' /\ SaveOpen' /\ KeptMode' /\ CopyAgrees'
  <2> DEFINE gs == save.state.state
             k == Level
  <2>0. /\ at = "save_levels" /\ k \in todo /\ k \in Levels
    BY LoopLevel DEF SaveLevel, TypeInv, TodoOK
  <2>1. /\ gs.uz \notin todo /\ lfile[k].st = "full" /\ CopyAgrees
    BY <2>0 DEF HInv, CopyAgrees
  <2>2. /\ at' = "save_levels" /\ save' = [save EXCEPT !.others[k] = lfile[k]] /\ delete_levelfile(k)
        /\ todo' = todo \ {k} /\ file0' = file0 /\ last' = last /\ process' = process
    BY <2>0, <2>1 DEF SaveLevel
  <2> HIDE DEF k
  <2>3. /\ save'.st = save.st /\ save'.locked = save.locked /\ save'.level = save.level
        /\ save'.state = save.state /\ save'.others = [save.others EXCEPT ![k] = lfile[k]]
    BY <2>2 DEF TypeInv, SaveOK, SaveFile
  <2>4. save'.others[k] = lfile[k] /\ \A l \in Levels \ {k} : save'.others[l] = save.others[l]
    BY <2>0, <2>3 DEF TypeInv, SaveOK, SaveFile
  <2>5. state'.uz = state.uz /\ \A l \in Levels \ {k} : lfile'[l] = lfile[l]
    BY <2>2, StateFields DEF delete_levelfile, TypeInv, LfileOK
  <2>6. CopyAgrees'
    BY <2>0, <2>1, <2>2, <2>3, <2>4, <2>5 DEF CopyAgrees
  <2>7. SaveOpen'
    BY <2>0, <2>2, <2>3 DEF HInv, SaveOpen, Saving
  <2> QED
    BY <2>0, <2>2, <2>6, <2>7 DEF process, HInv, NoTricks, LockAgrees, SaveShape, KeptMode
<1> QED
  BY <1>1, <1>2 DEF HInv

(* When the loop is done all of the game is in the save file.              *)
LEMMA HarmlessDeleteCurrent ==
  ASSUME TypeInv, FInv, HInv, DeleteCurrent
  PROVE  HInv'
<1>1. /\ Off' /\ Process' /\ NoTricks' /\ FlagsFull' /\ LockAgrees' /\ CurrentFull' /\ Once' /\ SaveOpen'
      /\ KeptMode' /\ Disk' /\ Checked' /\ RecoverOn' /\ ToSave' /\ RecoverHalf' /\ CopyAgrees'
      /\ RestoreAgrees' /\ Restored'
  BY Stays, Fields
     DEF HInv, Off, Process, NoTricks, FlagsFull, LockAgrees, CurrentFull, Once, SaveOpen, KeptMode, Disk,
         Checked, RecoverOn, ToSave, RecoverHalf, CopyAgrees, RestoreAgrees, Restored, DeleteCurrent, Locking,
         Levelling, Saving, Recovering, process, memory, files
<1>2. SaveShape' /\ SavedLast'
  <2>1. at' = "unlock" /\ save' = save /\ last' = last /\ InSave' = InSave
    BY Stays DEF DeleteCurrent
  <2> QED
    BY <2>1, CopyDone DEF DeleteCurrent, HInv, SaveShape, SavedLast
<1> QED
  BY <1>1, <1>2 DEF HInv

(* When file 0 is deleted the save file is complete.                       *)
LEMMA HarmlessUnlock ==
  ASSUME TypeInv, FInv, HInv, Unlock
  PROVE  HInv'
<1>1. /\ Off' /\ Process' /\ NoTricks' /\ FlagsFull' /\ CurrentFull' /\ SaveShape' /\ Once' /\ SaveOpen'
      /\ Checked' /\ RecoverOn' /\ ToSave' /\ RecoverHalf' /\ CopyAgrees' /\ SavedLast' /\ RestoreAgrees'
      /\ Restored'
  BY Stays, Fields
     DEF HInv, Off, Process, NoTricks, FlagsFull, CurrentFull, SaveShape, Once, SaveOpen, Checked, RecoverOn,
         ToSave, RecoverHalf, CopyAgrees, SavedLast, RestoreAgrees, Restored, Unlock, Exit, Locking, Levelling,
         Saving, Recovering, process, memory, files
<1>2. LockAgrees' /\ KeptMode' /\ Disk'
  BY Locks DEF Unlock, Exit, HInv, LockAgrees, KeptMode, Disk
<1> QED
  BY <1>1, <1>2 DEF HInv

(* A level file is created, to be written with what is in the save file.   *)
LEMMA HarmlessRestoreLevel ==
  ASSUME TypeInv, FInv, HInv, RestoreLevel
  PROVE  HInv'
<1> DEFINE k == Level
<1>a. at = "restore_levels" /\ restoring /\ RestoreAgrees
  BY DEF RestoreLevel, HInv, Process
<1>b. k \in Levels /\ k \in todo /\ todo # {}
  BY LoopLevel DEF RestoreLevel, TypeInv, TodoOK
<1>c. create_levelfile(k) /\ at' = "restore_level" /\ UNCHANGED <<fobj, process, todo, file0, save, last>>
  <2>1. k = state.uz \/ Clean(k)
    BY <1>a, <1>b, CleanSave DEF RestoreAgrees, Complete
  <2> QED
    BY <2>1 DEF RestoreLevel, Misread
<1> HIDE DEF k
<1>1. /\ Off' /\ NoTricks' /\ FlagsFull' /\ LockAgrees' /\ CurrentFull' /\ SaveShape' /\ SaveOpen'
      /\ KeptMode' /\ Disk' /\ Checked' /\ RecoverOn' /\ ToSave' /\ RecoverHalf' /\ CopyAgrees'
      /\ SavedLast' /\ Restored'
  BY <1>a, <1>c, Stays, Fields
     DEF HInv, Off, NoTricks, FlagsFull, LockAgrees, CurrentFull, SaveShape, SaveOpen, KeptMode, Disk, Checked,
         RecoverOn, ToSave, RecoverHalf, CopyAgrees, SavedLast, Restored, create_levelfile, Locking, Levelling,
         Saving, Recovering, process, memory, files
<1>2. RestoreAgrees' /\ Process' /\ Once'
  <2> DEFINE gs == save.state.state
  <2>4. state'.lfile_exists = state.lfile_exists \cup {k} /\ state'.uz = state.uz /\ state'.invent = state.invent
        /\ state'.explore = state.explore
    BY <1>c, StateFields DEF create_levelfile
  <2>5. lfile'[k].st = "torn" /\ \A l \in Levels \ {k} : lfile'[l] = lfile[l]
    BY <1>b, <1>c DEF create_levelfile, TypeInv, LfileOK, Torn
  <2>6. InSave' = InSave
    BY <1>c, Stays
  <2>7. RestoreAgrees'
    BY <1>a, <1>b, <1>c, <2>4, <2>5, <2>6 DEF RestoreAgrees, Locking, process
  <2> QED
    BY <1>a, <1>c, <2>4, <2>7 DEF HInv, Process, Once, Locking, Levelling, process
<1> QED
  BY <1>1, <1>2 DEF HInv

(* The level in the file is the one in the save file: the one in memory is *)
(* the current level while it is left to be written.                       *)
LEMMA HarmlessWriteRestored ==
  ASSUME TypeInv, FInv, HInv, WriteRestored
  PROVE  HInv'
<1>1. /\ Off' /\ Process' /\ NoTricks' /\ FlagsFull' /\ LockAgrees' /\ CurrentFull' /\ SaveShape' /\ Once'
      /\ SaveOpen' /\ KeptMode' /\ Disk' /\ Checked' /\ RecoverOn' /\ ToSave' /\ RecoverHalf' /\ CopyAgrees'
      /\ SavedLast' /\ Restored'
  BY Stays, Fields
     DEF HInv, Off, Process, NoTricks, FlagsFull, LockAgrees, CurrentFull, SaveShape, Once, SaveOpen, KeptMode,
         Disk, Checked, RecoverOn, ToSave, RecoverHalf, CopyAgrees, SavedLast, Restored, WriteRestored,
         Locking, Levelling, Saving, Recovering, process, memory, files
<1>2. RestoreAgrees'
  <2> DEFINE gs == save.state.state
             k == Level
  <2>1. at = "restore_level" /\ restoring /\ RestoreAgrees
    BY DEF WriteRestored, HInv, Process
  <2>2. k \in Levels /\ k \in todo /\ (state.uz \in todo => k = state.uz)
    BY <2>1, LoopLevel DEF FInv, Created, TypeInv, TodoOK
  <2>3. PICK f \in IF k = state.uz THEN {Full(fobj)} ELSE Read(k) : lfile' = [lfile EXCEPT ![k] = f]
    BY DEF WriteRestored
  <2>4. /\ todo' = todo \ {k} /\ at' = "restore_levels"
        /\ UNCHANGED <<state, process, file0, save, last>>
    BY DEF WriteRestored
  <2>5. IF k = gs.uz THEN f = save.level ELSE f = save.others[k]
    <3>1. CASE k = gs.uz
      <4>1. f = Full(save.level.has) /\ save.level.st = "full"
        BY <2>1, <2>2, <2>3, <3>1 DEF RestoreAgrees, Complete
      <4> QED
        BY <3>1, <4>1, Fields, FileTypes
    <3>2. CASE k # gs.uz
      <4>1. save.others[k].st = "full" /\ Complete(save) /\ state.uz = gs.uz
        BY <2>1, <2>2, <3>2 DEF RestoreAgrees, Complete
      <4>2. Clean(k) /\ k # -2
        BY <2>2, <4>1, CleanSave, LevelsAreNumbers
      <4> HIDE DEF k
      <4> QED
        BY <2>3, <3>2, <4>1, <4>2 DEF Read
    <3> QED
      BY <3>1, <3>2
  <2> HIDE DEF k
  <2>6. lfile'[k] = f /\ \A l \in Levels \ {k} : lfile'[l] = lfile[l]
    BY <2>2, <2>3 DEF TypeInv, LfileOK
  <2> QED
    BY <2>1, <2>2, <2>4, <2>5, <2>6, Stays DEF process, RestoreAgrees, Locking
<1> QED
  BY <1>1, <1>2 DEF HInv

(* When dorecover is done the game is in memory and in the level files.    *)
LEMMA GameIsBack ==
  ASSUME TypeInv, FInv, HInv, EndRestore
  PROVE  LET gs == save.state.state
         IN /\ at = "restore_levels" /\ restoring /\ RestoreAgrees /\ Complete(save) /\ state.uz = gs.uz
            /\ lfile[gs.uz] = save.level /\ \A l \in Levels \ {gs.uz} : lfile[l] = save.others[l]
            /\ fobj' = save.level.has /\ save' = IF state.explore THEN save ELSE NoSave
            /\ at' = "restored" /\ UNCHANGED <<state, process, todo, lfile, file0, last>>
            /\ InPlay' = InSave
            /\ \A l \in state.lfile_exists : lfile[l].st = "full"
<1> DEFINE gs == save.state.state
<1>a. /\ at = "restore_levels" /\ restoring /\ RestoreAgrees /\ Complete(save) /\ state.uz = gs.uz
      /\ lfile[gs.uz] = save.level /\ \A l \in Levels \ {gs.uz} : lfile[l] = save.others[l]
  BY Fields DEF EndRestore, HInv, Process, RestoreAgrees
<1>b. /\ fobj' = save.level.has /\ save' = IF state.explore THEN save ELSE NoSave
      /\ at' = "restored" /\ UNCHANGED <<state, process, todo, lfile, file0, last>>
  BY <1>a, CleanSave DEF EndRestore, Read
<1>c. InPlay' = InSave
  <2>1. InPlay' \in Games /\ InSave \in Games
    BY GameTypes, GameTypesNext, TypeRestore
  <2>2. /\ InPlay'.uz = gs.uz /\ InPlay'.invent = gs.invent
        /\ \A l \in Levels : IF l = gs.uz THEN InPlay'.on[l] = save.level.has ELSE InPlay'.on[l] = save.others[l].has
    BY <1>a, <1>b, GameParts DEF RestoreAgrees, InPlay, Game
  <2> QED
    BY <2>1, <2>2, GameParts, SameGame
<1>d. \A l \in state.lfile_exists : lfile[l].st = "full"
  BY <1>a, Fields DEF Complete, RestoreAgrees
<1> QED
  BY <1>a, <1>b, <1>c, <1>d

(* The save file is deleted, or kept in explore mode, when all of it is    *)
(* back.                                                                   *)
LEMMA HarmlessEndRestore ==
  ASSUME TypeInv, FInv, HInv, EndRestore
  PROVE  HInv'
<1> DEFINE gs == save.state.state
<1>a. /\ at = "restore_levels" /\ restoring /\ RestoreAgrees /\ Complete(save) /\ state.uz = gs.uz
      /\ lfile[gs.uz] = save.level /\ \A l \in Levels \ {gs.uz} : lfile[l] = save.others[l]
  BY GameIsBack
<1>b. /\ fobj' = save.level.has /\ save' = IF state.explore THEN save ELSE NoSave
      /\ at' = "restored" /\ UNCHANGED <<state, process, todo, lfile, file0, last>>
  BY GameIsBack
<1>1. /\ Off' /\ Process' /\ NoTricks' /\ LockAgrees' /\ CurrentFull' /\ Once' /\ SaveOpen' /\ Disk'
      /\ RecoverOn' /\ ToSave' /\ RecoverHalf' /\ CopyAgrees' /\ SavedLast' /\ RestoreAgrees'
  BY <1>a, <1>b, Stays, Fields
     DEF HInv, Off, Process, NoTricks, LockAgrees, CurrentFull, Once, SaveOpen, Disk, RecoverOn, ToSave,
         RecoverHalf, CopyAgrees, SavedLast, RestoreAgrees, EndRestore, EmptySaves, Locking, Levelling, Saving,
         Recovering, process, memory, files
<1>2. FlagsFull'
  <2>1. \A l \in state.lfile_exists : lfile[l].st = "full"
    BY GameIsBack
  <2> QED
    BY <1>b, <2>1 DEF FlagsFull
<1>3. SaveShape'
  <2>1. save' = save \/ save' = NoSave
    BY <1>b
  <2> QED
    BY <1>a, <2>1, EmptySaves DEF HInv, SaveShape
<1>4. KeptMode'
  BY <1>a, <1>b, EmptySaves DEF HInv, KeptMode, RestoreAgrees, Locking
<1>5. Checked'
  <2>1. SUFFICES ASSUME file0.st = "full" PROVE AllFull /\ InFiles = last /\ Known
    BY <1>b, Stays DEF Checked
  <2>2. file0.state.uz = gs.uz /\ file0.state.invent = gs.invent /\ file0.state.lfile_exists = gs.lfile_exists
    BY <1>a, <2>1 DEF RestoreAgrees, Locking
  <2>3. AllFull
    BY <1>a, <2>2, Fields DEF AllFull, Complete, RestoreAgrees
  <2>4. InFiles = InSave
    BY <1>a, <2>2, GameTypes, GameParts, SameGame
  <2>5. Known
    BY <1>a, <2>2 DEF FInv, Flagged, Recovering, Known, RestoreAgrees
  <2> QED
    BY <1>a, <2>3, <2>4, <2>5 DEF RestoreAgrees
<1>6. Restored'
  <2>1. InPlay' = InSave
    BY GameIsBack
  <2> QED
    BY <1>a, <1>b, <2>1, EmptySaves, Stays DEF Restored, RestoreAgrees
<1> QED
  BY <1>1, <1>2, <1>3, <1>4, <1>5, <1>6 DEF HInv

(* Back in main nothing but the mode may change.                           *)
LEMMA HarmlessBackToPlay ==
  ASSUME TypeInv, FInv, HInv, BackToPlay
  PROVE  HInv'
<1>a. /\ state'.uz = state.uz /\ state'.invent = state.invent /\ state'.lfile_exists = state.lfile_exists
      /\ state.explore => state'.explore
  BY DEF BackToPlay, InMode, TypeInv, MemoryOK, GameState
<1>1. /\ Off' /\ NoTricks' /\ LockAgrees' /\ CurrentFull' /\ SaveShape' /\ SaveOpen' /\ KeptMode' /\ Disk'
      /\ Checked' /\ RecoverOn' /\ ToSave' /\ RecoverHalf' /\ CopyAgrees' /\ SavedLast' /\ RestoreAgrees'
  BY Stays, Fields
     DEF HInv, Off, NoTricks, LockAgrees, CurrentFull, SaveShape, SaveOpen, KeptMode, Disk, Checked, RecoverOn,
         ToSave, RecoverHalf, CopyAgrees, SavedLast, RestoreAgrees, BackToPlay, Locking, Levelling, Saving,
         Recovering, process, memory, files
<1>2. FlagsFull' /\ Once' /\ Process'
  BY <1>a, Stays DEF BackToPlay, files, HInv, FlagsFull, Once, Restored, Process, Locking, Levelling
<1>3. Restored'
  BY <1>a, Stays DEF BackToPlay, files, HInv, Restored, InPlay
<1> QED
  BY <1>1, <1>2, <1>3 DEF HInv

(* Only in explore mode is a save file kept and opened.                    *)
LEMMA HarmlessKeepSave ==
  ASSUME TypeInv, FInv, HInv, KeepSave
  PROVE  HInv'
<1>1. /\ Off' /\ NoTricks' /\ FlagsFull' /\ LockAgrees' /\ CurrentFull' /\ Disk' /\ Checked' /\ RecoverOn'
      /\ ToSave' /\ RecoverHalf' /\ CopyAgrees' /\ SavedLast' /\ RestoreAgrees'
  BY Stays, Fields
     DEF HInv, Off, NoTricks, FlagsFull, LockAgrees, CurrentFull, Disk, Checked, RecoverOn, ToSave,
         RecoverHalf, CopyAgrees, SavedLast, RestoreAgrees, KeepSave, Locking, Levelling, Saving, Recovering,
         process, memory, files
<1>2. Process' /\ SaveShape' /\ Once' /\ KeptMode' /\ SaveOpen' /\ Restored'
  <2>1. save' = NoSave \/ save' = [save EXCEPT !.locked = FALSE]
    BY DEF KeepSave
  <2>3. /\ at = "keep_save" /\ at' = "play" /\ state.explore /\ something_worth_saving /\ ~restoring
        /\ save = NoSave \/ (file0.st = "full" => file0.state.explore)
        /\ UNCHANGED <<memory, process, todo, lfile, file0, last>>
    BY DEF KeepSave, HInv, Restored, Process, KeptMode, Locking
  <2>4. CASE save' = NoSave
    BY <2>3, <2>4, EmptySaves
       DEF memory, process, SaveOpen, SaveShape, KeptMode, Process, Once, Restored, Saving, Recovering
  <2>5. CASE save' # NoSave
    <3>1. /\ save'.st = save.st /\ save'.state = save.state /\ save'.others = save.others
          /\ Complete(save') <=> Complete(save)
      BY <2>1, <2>5, Relocked
    <3>2. save.st # "absent"
      <4>1. SUFFICES ASSUME save.st = "absent" PROVE FALSE
        OBVIOUS
      <4>2. save = NoSave
        BY <4>1 DEF HInv, SaveOpen
      <4>3. NoSave.locked = FALSE /\ NoSave \in SaveFile
        BY SaveTypes DEF NoSave
      <4>4. [NoSave EXCEPT !.locked = FALSE] = NoSave
        BY <4>3 DEF SaveFile
      <4> QED
        BY <2>1, <2>5, <4>2, <4>4
    <3>3. SaveOpen'
      BY <2>3, <3>1, <3>2 DEF SaveOpen, Saving, Recovering
    <3>4. SaveShape'
      BY <2>3, <3>1 DEF HInv, SaveShape
    <3>5. KeptMode'
      BY <2>3, <2>5, <3>1, <3>2, EmptySaves DEF KeptMode
    <3> QED
      BY <2>3, <3>3, <3>4, <3>5 DEF memory, process, Process, Once, Restored
  <2> QED
    BY <2>4, <2>5
<1> QED
  BY <1>1, <1>2 DEF HInv

(* recover finds the last checkpoint whole, and may overwrite a save file  *)
(* only of a game in explore mode.                                         *)
LEMMA HarmlessRecover ==
  ASSUME TypeInv, FInv, HInv, recover
  PROVE  HInv'
<1>a. /\ at = "off" /\ at' = "recover" /\ file0.st = "full" /\ save' = EmptySave
      /\ AllFull /\ InFiles = last /\ Known
      /\ UNCHANGED <<memory, process, todo, lfile, file0, last>>
  <2>1. at = "off" /\ file0.st = "full" /\ ~save.locked
    BY DEF recover, HInv, LockAgrees
  <2>2. AllFull /\ InFiles = last /\ Known
    BY <2>1 DEF HInv, Disk
  <2>3. lfile[file0.state.uz].st = "full"
    BY <2>2 DEF AllFull
  <2> QED
    BY <2>1, <2>2, <2>3 DEF recover
<1>1. /\ Off' /\ Process' /\ NoTricks' /\ FlagsFull' /\ LockAgrees' /\ CurrentFull' /\ Once' /\ ToSave'
      /\ RecoverHalf' /\ CopyAgrees' /\ SavedLast' /\ RestoreAgrees' /\ Restored'
  BY Stays, Fields
     DEF HInv, Off, Process, NoTricks, FlagsFull, LockAgrees, CurrentFull, Once, ToSave, RecoverHalf,
         CopyAgrees, SavedLast, RestoreAgrees, Restored, recover, Locking, Levelling, Saving, Recovering,
         process, memory, files
<1>2. SaveShape' /\ SaveOpen' /\ KeptMode'
  BY <1>a, EmptySaves DEF SaveShape, SaveOpen, KeptMode, Saving
<1>3. Disk' /\ Checked' /\ RecoverOn'
  BY <1>a, Stays DEF Disk, Checked, RecoverOn
<1> QED
  BY <1>1, <1>2, <1>3 DEF HInv

(* The current level moves to the save file.                               *)
LEMMA HarmlessRecoverCurrent ==
  ASSUME TypeInv, FInv, HInv, RecoverCurrent
  PROVE  HInv'
<1>1. /\ Off' /\ Process' /\ NoTricks' /\ FlagsFull' /\ LockAgrees' /\ CurrentFull' /\ Once' /\ Disk'
      /\ Checked' /\ RecoverOn' /\ ToSave' /\ CopyAgrees' /\ SavedLast' /\ RestoreAgrees' /\ Restored'
  BY Stays, Fields
     DEF HInv, Off, Process, NoTricks, FlagsFull, LockAgrees, CurrentFull, Once, Disk, Checked, RecoverOn,
         ToSave, CopyAgrees, SavedLast, RestoreAgrees, Restored, RecoverCurrent, Locking, Levelling, Saving,
         Recovering, process, memory, files
<1>2. SaveShape' /\ SaveOpen' /\ KeptMode' /\ RecoverHalf'
  <2> DEFINE uz == file0.state.uz
  <2>1. /\ at = "recover" /\ save = EmptySave /\ file0.st = "full" /\ AllFull /\ InFiles = last /\ Known
    BY DEF RecoverCurrent, HInv, ToSave, RecoverOn, Checked
  <2>2. /\ save'.level = lfile[uz] /\ save'.st = "there" /\ save'.locked = FALSE
        /\ save'.state.st = "absent" /\ save'.others = NoLevels /\ lfile[uz].st = "full"
    <3>1. lfile[uz].st = "full" /\ save' = [save EXCEPT !.level = lfile[uz]]
      BY <2>1 DEF RecoverCurrent, AllFull, Own
    <3> QED
      BY <2>1, <3>1, EmptySaves DEF TypeInv, SaveOK, SaveFile
  <2>3. ~Complete(save')
    BY <2>2 DEF Complete
  <2>4. last.uz = uz /\ last.invent = file0.state.invent /\ \A l \in Levels : lfile[l].has = last.on[l]
    BY <2>1, GameParts
  <2>5. lfile'[uz] = Absent /\ \A l \in Levels \ {uz} : lfile'[l] = lfile[l]
    BY Fields DEF RecoverCurrent, TypeInv, LfileOK
  <2>6. \A l \in Levels \ {uz} :
          IF l \in file0.state.lfile_exists THEN lfile[l].st = "full" ELSE lfile[l].st = "absent"
    BY <2>1 DEF AllFull, Known, Present
  <2>7. RecoverHalf'
    BY <2>2, <2>4, <2>5, <2>6, Fields DEF RecoverCurrent, RecoverHalf
  <2> QED
    BY <2>2, <2>3, <2>7 DEF RecoverCurrent, SaveShape, SaveOpen, KeptMode, Saving
<1> QED
  BY <1>1, <1>2 DEF HInv

(* The state in file 0 names all the levels that are left to be copied.    *)
LEMMA HarmlessRecoverState ==
  ASSUME TypeInv, FInv, HInv, RecoverState
  PROVE  HInv'
<1>1. /\ Off' /\ Process' /\ NoTricks' /\ FlagsFull' /\ CurrentFull' /\ SaveShape' /\ Once' /\ Disk'
      /\ Checked' /\ RecoverOn' /\ ToSave' /\ RecoverHalf' /\ SavedLast' /\ RestoreAgrees' /\ Restored'
  BY Stays, Fields, Locks
     DEF HInv, Off, Process, NoTricks, FlagsFull, CurrentFull, SaveShape, Once, Disk, Checked, RecoverOn,
         ToSave, RecoverHalf, SavedLast, RestoreAgrees, Restored, RecoverState, Locking, Levelling, Saving,
         Recovering, process, memory, files
<1>2. LockAgrees' /\ SaveOpen' /\ KeptMode' /\ CopyAgrees'
  <2> DEFINE uz == file0.state.uz
  <2>1. at = "recover_state" /\ at' = "recover_levels" /\ file0.st = "full" /\ RecoverHalf /\ ~save.locked
        /\ save.st = "there" /\ file0' = NoLock /\ todo' = Present /\ lfile' = lfile /\ last' = last
    BY DEF RecoverState, HInv, RecoverOn, SaveOpen, Recovering
  <2>2. /\ save'.state = file0 /\ save'.level = save.level /\ save'.others = NoLevels
        /\ save'.st = save.st /\ save'.locked = save.locked
    BY <2>1 DEF RecoverState, CopiedState, RecoverHalf, TypeInv, SaveOK, SaveFile
  <2>3. \A l \in Levels : save'.others[l] = Absent
    BY <2>2 DEF NoLevels
  <2>4. \A l \in Levels : l \in todo' <=> lfile[l].st # "absent"
    BY <2>1 DEF Present
  <2>5. CopyAgrees'
    <3>1. \A l \in Levels : lfile[l].st = "absent" => lfile[l].has = {}
      BY Fields, FileTypes DEF Absent
    <3>2. /\ save.level.st = "full" /\ last.uz = uz /\ last.invent = file0.state.invent
          /\ lfile[uz] = Absent /\ last.on[uz] = save.level.has
          /\ \A l \in Levels \ {uz} :
               /\ lfile[l].has = last.on[l]
               /\ IF l \in file0.state.lfile_exists THEN lfile[l].st = "full" ELSE lfile[l].st = "absent"
      BY <2>1 DEF RecoverHalf
    <3>3. uz \notin todo'
      BY <2>4, <3>2, Fields DEF Absent
    <3> QED
      <4>1. save'.state.state = file0.state /\ save'.others[uz] = Absent
        BY <2>2, <2>3, Fields
      <4>2. ASSUME NEW l \in Levels \ {uz}
            PROVE  IF l \in todo'
                   THEN /\ lfile'[l].st = "full" /\ lfile'[l].has = last'.on[l]
                        /\ l \in file0.state.lfile_exists /\ save'.others[l] = Absent
                   ELSE /\ save'.others[l].has = last'.on[l]
                        /\ IF l \in file0.state.lfile_exists THEN save'.others[l].st = "full"
                           ELSE save'.others[l].st = "absent"
        <5>1. /\ lfile[l].has = last.on[l] /\ save'.others[l] = Absent
              /\ l \in todo' <=> l \in file0.state.lfile_exists
          BY <2>3, <2>4, <3>2
        <5>2. CASE l \in todo'
          BY <2>1, <3>2, <5>1, <5>2
        <5>3. CASE l \notin todo'
          <6>1. lfile[l].st = "absent"
            BY <2>4, <5>3
          <6>2. save'.others[l].has = last'.on[l] /\ save'.others[l].st = "absent"
            BY <2>1, <3>1, <5>1, <6>1 DEF Absent
          <6> QED
            BY <5>1, <5>3, <6>2
        <5> QED
          BY <5>2, <5>3
      <4> QED
        BY <2>1, <2>2, <3>2, <3>3, <4>1, <4>2 DEF CopyAgrees
  <2> QED
    BY <2>1, <2>2, <2>5, Locks DEF LockAgrees, SaveOpen, KeptMode, Saving
<1> QED
  BY <1>1, <1>2 DEF HInv

(* A level moves from its file to the save file.                           *)
LEMMA HarmlessRecoverLevel ==
  ASSUME TypeInv, FInv, HInv, RecoverLevel
  PROVE  HInv'
<1>1. /\ Off' /\ Process' /\ NoTricks' /\ FlagsFull' /\ LockAgrees' /\ CurrentFull' /\ SaveShape' /\ Once'
      /\ Disk' /\ Checked' /\ RecoverOn' /\ ToSave' /\ RecoverHalf' /\ SavedLast' /\ RestoreAgrees'
      /\ Restored'
  BY Stays, Fields
     DEF HInv, Off, Process, NoTricks, FlagsFull, LockAgrees, CurrentFull, SaveShape, Once, Disk, Checked,
         RecoverOn, ToSave, RecoverHalf, SavedLast, RestoreAgrees, Restored, RecoverLevel, Locking, Levelling,
         Saving, Recovering, process, memory, files
<1>2. SaveOpen' /\ KeptMode' /\ CopyAgrees'
  <2> DEFINE gs == save.state.state
             k == Level
  <2>0. /\ at = "recover_levels" /\ k \in todo /\ k \in Levels
    BY LoopLevel DEF RecoverLevel, TypeInv, TodoOK
  <2>1. /\ gs.uz \notin todo /\ lfile[k].st = "full" /\ CopyAgrees
    BY <2>0 DEF HInv, CopyAgrees
  <2>2. /\ at' = "recover_levels" /\ save' = [save EXCEPT !.others[k] = lfile[k]]
        /\ lfile' = [lfile EXCEPT ![k] = Absent]
        /\ todo' = todo \ {k} /\ file0' = file0 /\ last' = last
    BY <2>0, <2>1 DEF RecoverLevel, Own
  <2> HIDE DEF k
  <2>3. /\ save'.st = save.st /\ save'.locked = save.locked /\ save'.level = save.level
        /\ save'.state = save.state /\ save'.others = [save.others EXCEPT ![k] = lfile[k]]
    BY <2>2 DEF TypeInv, SaveOK, SaveFile
  <2>4. save'.others[k] = lfile[k] /\ \A l \in Levels \ {k} : save'.others[l] = save.others[l]
    BY <2>0, <2>3 DEF TypeInv, SaveOK, SaveFile
  <2>5. \A l \in Levels \ {k} : lfile'[l] = lfile[l]
    BY <2>2 DEF TypeInv, LfileOK
  <2>6. CopyAgrees'
    BY <2>0, <2>1, <2>2, <2>3, <2>4, <2>5 DEF CopyAgrees
  <2>7. SaveOpen' /\ KeptMode'
    BY <2>0, <2>2, <2>3 DEF HInv, RecoverOn, SaveOpen, KeptMode, Saving, Recovering
  <2> QED
    BY <2>6, <2>7
<1> QED
  BY <1>1, <1>2 DEF HInv

(* When the loop is done the save file is complete.                        *)
LEMMA HarmlessEndRecover ==
  ASSUME TypeInv, FInv, HInv, EndRecover
  PROVE  HInv'
<1>1. /\ Off' /\ Process' /\ NoTricks' /\ FlagsFull' /\ LockAgrees' /\ CurrentFull' /\ Once' /\ SaveOpen'
      /\ KeptMode' /\ Checked' /\ RecoverOn' /\ ToSave' /\ RecoverHalf' /\ CopyAgrees' /\ SavedLast'
      /\ RestoreAgrees' /\ Restored'
  BY Stays, Fields
     DEF HInv, Off, Process, NoTricks, FlagsFull, LockAgrees, CurrentFull, Once, SaveOpen, KeptMode, Checked,
         RecoverOn, ToSave, RecoverHalf, CopyAgrees, SavedLast, RestoreAgrees, Restored, EndRecover, Locking,
         Levelling, Saving, Recovering, process, memory, files
<1>2. SaveShape' /\ Disk'
  <2>1. at' = "off" /\ save' = save /\ file0' = file0 /\ file0.st = "absent"
    BY DEF EndRecover, files, HInv, RecoverOn
  <2> QED
    BY <2>1, CopyDone DEF EndRecover, HInv, SaveShape, Disk
<1> QED
  BY <1>1, <1>2 DEF HInv

(* dorecover takes a complete save file for what it is, and an incomplete  *)
(* one for one that is too short.                                          *)
LEMMA RestoreChoices ==
  ASSUME TypeInv, FInv, HInv, dorecover
  PROVE  LET gs == save.state.state
             Written == {l \in Levels : save.others[l].st # "absent"}
         IN \/ /\ Complete(save) /\ state' \in InMode(gs) /\ fobj' = save.level.has /\ todo' = {gs.uz} \cup Written
               /\ restoring' = TRUE /\ at' = "lock" /\ last' = InSave
               /\ UNCHANGED <<havestate, something_worth_saving, newlevel, files>>
            \/ ReadError /\ ~Complete(save)
            \/ save' = NoSave /\ at' = "new" /\ UNCHANGED <<memory, process, todo, lfile, file0, last>>
<1>1. CASE Complete(save)
  <2>1. Clean(-1)
    BY <1>1, CleanSave
  <2> QED
    BY <1>1, <2>1 DEF dorecover, Misread
<1>2. CASE ~Complete(save)
  <2>1. ~Clean(-1) /\ ~Filled
    BY <1>2, CutSave DEF dorecover, HInv, SaveShape
  <2> QED
    BY <1>2, <2>1 DEF dorecover, Misread
<1> QED
  BY <1>1, <1>2

(* dorecover has the current level and the state of the saved game, or     *)
(* ends.                                                                   *)
LEMMA HarmlessDorecover ==
  ASSUME TypeInv, FInv, HInv, dorecover
  PROVE  HInv'
<1> DEFINE gs == save.state.state
           Written == {l \in Levels : save.others[l].st # "absent"}
<1>a. /\ at = "restore" /\ state = NoState /\ havestate /\ ~restoring /\ ~something_worth_saving
      /\ file0.st = "pid" /\ save.locked /\ lfile = NoLevels
  BY DEF dorecover, HInv, Off, LockAgrees, SaveOpen, FInv, CleanStart
<1>b. \/ /\ Complete(save) /\ state' \in InMode(gs) /\ fobj' = save.level.has /\ todo' = {gs.uz} \cup Written
         /\ restoring' = TRUE /\ at' = "lock" /\ last' = InSave
         /\ UNCHANGED <<havestate, something_worth_saving, newlevel, files>>
      \/ ReadError
      \/ save' = NoSave /\ at' = "new" /\ UNCHANGED <<memory, process, todo, lfile, file0, last>>
  BY RestoreChoices
<1> HIDE DEF Written
<1>1. NoTricks' /\ LockAgrees' /\ Once' /\ SaveOpen' /\ KeptMode'
  BY <1>a, <1>b, EmptySaves, Stays, Fields
     DEF HInv, NoTricks, LockAgrees, Once, SaveOpen, KeptMode, ReadError, Exit, Locking, Levelling, Saving,
         Recovering, process, memory, files
<1>2. Disk' /\ Checked' /\ RecoverOn' /\ ToSave' /\ RecoverHalf'
  BY <1>a, <1>b, EmptySaves, Stays, Fields
     DEF HInv, Disk, Checked, RecoverOn, ToSave, RecoverHalf, ReadError, Exit, Locking, Levelling, Saving,
         Recovering, process, memory, files
<1>3. CopyAgrees' /\ SavedLast' /\ Restored'
  BY <1>a, <1>b, EmptySaves, Stays, Fields
     DEF HInv, CopyAgrees, SavedLast, Restored, ReadError, Exit, Locking, Levelling, Saving, Recovering,
         process, memory, files
<1>4. Off'
  BY <1>a, <1>b DEF ReadError, Exit, Off, Recovering, process, memory
<1>5. Process' /\ FlagsFull' /\ CurrentFull'
  <2>1. \/ restoring' /\ at' = "lock" /\ ~something_worth_saving'
        \/ ~restoring' /\ at' \in {"off", "new"}
    BY <1>a, <1>b DEF ReadError, Exit, process
  <2> QED
    BY <2>1 DEF Process, FlagsFull, CurrentFull, Locking, Levelling
<1>6. SaveShape'
  <2>1. save' = save \/ save' = NoSave
    BY <1>b DEF files, ReadError
  <2> QED
    BY <1>a, <2>1, EmptySaves DEF HInv, SaveShape
<1>7. RestoreAgrees'
  <2>1. SUFFICES ASSUME restoring' PROVE RestoreAgrees'
    BY DEF RestoreAgrees
  <2>2. /\ Complete(save) /\ state' \in InMode(gs) /\ fobj' = save.level.has /\ todo' = {gs.uz} \cup Written
        /\ at' = "lock" /\ last' = InSave /\ save' = save /\ lfile' = lfile
    BY <1>a, <1>b, <2>1 DEF process, files, ReadError, Exit
  <2>3. /\ state'.uz = gs.uz /\ state'.invent = gs.invent /\ state'.lfile_exists = gs.lfile_exists
    BY <2>2, Fields DEF InMode, GameState
  <2>4. \A l \in Levels : lfile[l] = Absent
    BY <1>a DEF NoLevels
  <2>5. Written \subseteq gs.lfile_exists
    BY <1>a, <2>2 DEF HInv, SaveShape, Written
  <2>6. ASSUME NEW l \in Levels, l \notin todo' PROVE lfile[l] = save.others[l] /\ l # gs.uz
    BY <2>2, <2>4, <2>6, Fields, FileTypes DEF Absent, Written
  <2>7. InSave' = InSave
    BY <2>2, Stays
  <2> HIDE DEF Written
  <2> QED
    BY <1>a, <2>2, <2>3, <2>4, <2>5, <2>6, <2>7 DEF RestoreAgrees, Locking, Absent
<1> QED
  BY <1>1, <1>2, <1>3, <1>4, <1>5, <1>6, <1>7 DEF HInv

(* getlock has the lock name, or asks and leaves all files alone.          *)
LEMMA HarmlessGetlock ==
  ASSUME TypeInv, FInv, HInv, getlock
  PROVE  HInv'
<1>1. CASE gotlock([l \in Levels |-> Stale(lfile[l])])
  BY <1>1, HarmlessGotlock DEF getlock
<1>2. CASE at' = "getlock" /\ UNCHANGED files
  <2>1. at = "off" /\ UNCHANGED <<memory, process, todo, files, last>>
    BY <1>2 DEF getlock
  <2> QED
    BY <1>2, <2>1, Stays
       DEF HInv, Off, Process, NoTricks, FlagsFull, LockAgrees, CurrentFull, SaveShape, Once, SaveOpen, KeptMode, Disk,
           Checked, RecoverOn, ToSave, RecoverHalf, CopyAgrees, SavedLast, RestoreAgrees, Restored, Locking, Levelling,
           Saving, Recovering, process, memory, files
<1> QED
  BY <1>1, <1>2 DEF getlock

(* The answer itself changes no file.                                      *)
LEMMA HarmlessAnswer ==
  ASSUME TypeInv, FInv, HInv, Answer
  PROVE  HInv'
<1>1. /\ Off' /\ Process' /\ NoTricks' /\ FlagsFull' /\ LockAgrees' /\ CurrentFull' /\ SaveShape' /\ Once'
      /\ SaveOpen' /\ KeptMode' /\ Disk' /\ Checked' /\ RecoverOn' /\ ToSave' /\ RecoverHalf' /\ CopyAgrees'
      /\ SavedLast' /\ RestoreAgrees' /\ Restored'
  BY Stays, Fields
     DEF HInv, Off, Process, NoTricks, FlagsFull, LockAgrees, CurrentFull, SaveShape, Once, SaveOpen, KeptMode,
         Disk, Checked, RecoverOn, ToSave, RecoverHalf, CopyAgrees, SavedLast, RestoreAgrees, Restored, Answer,
         Locking, Levelling, Saving, Recovering, process, memory, files
<1> QED
  BY <1>1 DEF HInv

(* Once the old game is being erased nothing depends on its levels.        *)
LEMMA HarmlessEraseLevel ==
  ASSUME TypeInv, FInv, HInv, EraseLevel
  PROVE  HInv'
<1>1. /\ Off' /\ Process' /\ NoTricks' /\ FlagsFull' /\ LockAgrees' /\ CurrentFull' /\ SaveShape' /\ Once'
      /\ SaveOpen' /\ KeptMode' /\ Disk' /\ Checked' /\ RecoverOn' /\ ToSave' /\ RecoverHalf' /\ CopyAgrees'
      /\ SavedLast' /\ RestoreAgrees' /\ Restored'
  BY Stays, Fields
     DEF HInv, Off, Process, NoTricks, FlagsFull, LockAgrees, CurrentFull, SaveShape, Once, SaveOpen, KeptMode,
         Disk, Checked, RecoverOn, ToSave, RecoverHalf, CopyAgrees, SavedLast, RestoreAgrees, Restored,
         EraseLevel, Locking, Levelling, Saving, Recovering, process, memory, files
<1> QED
  BY <1>1 DEF HInv

(* When it is erased the lock name is had.                                 *)
LEMMA HarmlessEraseEnd ==
  ASSUME TypeInv, FInv, HInv, EraseEnd
  PROVE  HInv'
BY HarmlessGotlock DEF EraseEnd

(* A game ends where it is played: there are no tricks.                    *)
LEMMA HarmlessDone ==
  ASSUME TypeInv, FInv, HInv, done
  PROVE  HInv'
<1>1. at = "play" /\ clearlocks /\ UNCHANGED <<save, last>>
  BY DEF done, HInv, NoTricks
<1> QED
  BY <1>1, HarmlessClearlocks DEF Saving, Recovering

(* dosave0 deletes a locked save file and the game goes on.                *)
LEMMA HarmlessSaveRefused ==
  ASSUME TypeInv, FInv, HInv, at = "play", save.locked, save' = NoSave,
         UNCHANGED <<at, memory, process, todo, lfile, file0, last>>
  PROVE  HInv'
<1>1. /\ Off' /\ NoTricks' /\ FlagsFull' /\ LockAgrees' /\ CurrentFull' /\ Disk' /\ Checked' /\ RecoverOn'
      /\ ToSave' /\ RecoverHalf' /\ CopyAgrees' /\ SavedLast' /\ RestoreAgrees' /\ Restored'
  BY Stays, Fields
     DEF HInv, Off, NoTricks, FlagsFull, LockAgrees, CurrentFull, Disk, Checked, RecoverOn, ToSave,
         RecoverHalf, CopyAgrees, SavedLast, RestoreAgrees, Restored, Locking, Levelling, Saving, Recovering,
         process, memory, files
<1>2. Process' /\ Once' /\ SaveOpen' /\ KeptMode'
  BY EmptySaves DEF HInv, process, memory, Process, Once, SaveOpen, KeptMode, Locking, Levelling, Saving, Recovering
<1>3. SaveShape'
  BY EmptySaves DEF SaveShape
<1> QED
  BY <1>1, <1>2, <1>3 DEF HInv

(* Where nothing changes all stays as it is.                               *)
LEMMA HarmlessStutter ==
  ASSUME TypeInv, FInv, HInv, UNCHANGED vars
  PROVE  HInv'
<1>1. /\ Off' /\ Process' /\ NoTricks' /\ FlagsFull' /\ LockAgrees' /\ CurrentFull' /\ SaveShape' /\ Once'
      /\ SaveOpen' /\ KeptMode' /\ Disk' /\ Checked' /\ RecoverOn' /\ ToSave' /\ RecoverHalf' /\ CopyAgrees'
      /\ SavedLast' /\ RestoreAgrees' /\ Restored'
  BY Stays, Fields
     DEF HInv, Off, Process, NoTricks, FlagsFull, LockAgrees, CurrentFull, SaveShape, Once, SaveOpen, KeptMode,
         Disk, Checked, RecoverOn, ToSave, RecoverHalf, CopyAgrees, SavedLast, RestoreAgrees, Restored, vars,
         Locking, Levelling, Saving, Recovering, process, memory, files
<1> QED
  BY <1>1 DEF HInv

(* The player's command to save.                                           *)
LEMMA HarmlessSave ==
  ASSUME TypeInv, FInv, HInv, Save
  PROVE  HInv'
<1>1. at = "play" /\ ~restoring
  BY DEF Save, HInv, Process, Locking
<1>2. CASE BeginSave
  BY <1>1, <1>2, HarmlessBeginSave DEF Levelling
<1>3. CASE UNCHANGED vars
  BY <1>3, HarmlessStutter
<1>4. CASE save.locked /\ save' = NoSave /\ UNCHANGED <<at, memory, process, todo, lfile, file0, last>>
  BY <1>1, <1>4, HarmlessSaveRefused
<1> QED
  BY <1>2, <1>3, <1>4 DEF Save

(* Where dorecover is interrupted and file 0 has been written, either all  *)
(* levels are back in their files or the save file is complete.            *)
LEMMA RestoreInterrupted ==
  ASSUME TypeInv, FInv, HInv, at \in {"restore_levels", "restore_level"}, file0.st = "full"
  PROVE  IF AllFull THEN InFiles = last /\ Known ELSE Complete(save) /\ save.locked /\ InSave = last
<1> DEFINE gs == save.state.state
<1>1. /\ Complete(save) /\ save.locked /\ InSave = last
      /\ state.lfile_exists \subseteq gs.lfile_exists \cup {gs.uz} /\ todo \subseteq gs.lfile_exists \cup {gs.uz}
      /\ file0.state.uz = gs.uz /\ file0.state.invent = gs.invent /\ file0.state.lfile_exists = gs.lfile_exists
      /\ \A l \in Levels :
           IF l \in todo THEN lfile[l].st # "full"
           ELSE IF l = gs.uz THEN lfile[l] = save.level ELSE lfile[l] = save.others[l]
  BY DEF HInv, Process, RestoreAgrees, Locking
<1>2. ASSUME AllFull PROVE InFiles = last /\ Known
  <2>1. todo = {}
    BY <1>1, <1>2 DEF AllFull, TypeInv, TodoOK
  <2>2. \A l \in Levels : IF l = gs.uz THEN lfile[l] = save.level ELSE lfile[l] = save.others[l]
    BY <1>1, <2>1
  <2>3. InFiles = InSave
    BY <1>1, <2>2, GameTypes, GameParts, SameGame
  <2>4. Known
    BY <1>1 DEF FInv, Flagged, Recovering, Known
  <2> QED
    BY <1>1, <2>3, <2>4
<1> QED
  BY <1>1, <1>2

(* A crash where it is survived may spoil the save file only before recover *)
(* has put anything in it.                                                  *)
LEMMA CrashLeaves ==
  ASSUME TypeInv, FInv, HInv, HarmlessStrikes, Crash
  PROVE  /\ at \in {"getlock", "new", "play", "restore", "restore_levels", "restore_level", "restored", "keep_save", "recover"}
         /\ Exit /\ at' = "off" /\ UNCHANGED <<lfile, file0, last>>
         /\ \/ save' = save
            \/ /\ at = "recover" /\ save.st = "there" /\ save = EmptySave /\ ~Complete(save')
               /\ save'.st = "there" /\ save'.state.st = "absent" /\ save'.others = NoLevels
<1>a. /\ at \in {"getlock", "new", "play", "restore", "restore_levels", "restore_level", "restored", "keep_save", "recover"}
      /\ Exit /\ at' = "off" /\ UNCHANGED <<lfile, file0, last>>
  BY DEF Crash, HarmlessStrikes, TypeInv, AtOK, Phases, HInv, NoTricks, Saving, Exit
<1>b. \/ save' = save
      \/ /\ at = "recover" /\ save.st = "there" /\ save = EmptySave /\ ~Complete(save')
         /\ save'.st = "there" /\ save'.state.st = "absent" /\ save'.others = NoLevels
  <2>1. CASE at # "recover"
    BY <1>a, <2>1 DEF Crash, Cut
  <2>2. CASE at = "recover"
    <3>1. save = EmptySave
      BY <2>2 DEF HInv, ToSave
    <3>2. save' = save \/ \E f : save' = [save EXCEPT !.level = f]
      BY <2>2 DEF Crash, Cut
    <3>3. save' = save \/ (save'.st = save.st /\ save'.state = save.state /\ save'.others = save.others)
      BY <3>2 DEF TypeInv, SaveOK, SaveFile
    <3> QED
      BY <2>2, <3>1, <3>3, EmptySaves DEF Complete
  <2> QED
    BY <2>1, <2>2
<1> QED
  BY <1>a, <1>b

(* After a crash the last checkpoint is in the files, or what was being    *)
(* restored is still saved.                                                *)
LEMMA HarmlessCrash ==
  ASSUME TypeInv, FInv, HInv, HarmlessStrikes, Crash
  PROVE  HInv'
<1>a. /\ at \in {"getlock", "new", "play", "restore", "restore_levels", "restore_level", "restored", "keep_save", "recover"}
      /\ Exit /\ at' = "off" /\ UNCHANGED <<lfile, file0, last>>
  BY CrashLeaves
<1>b. \/ save' = save
      \/ /\ at = "recover" /\ save.st = "there" /\ ~Complete(save')
         /\ save'.st = "there" /\ save'.state.st = "absent" /\ save'.others = NoLevels
  BY CrashLeaves
<1>1. /\ Off' /\ Process' /\ NoTricks' /\ FlagsFull' /\ CurrentFull' /\ Once' /\ Checked' /\ RecoverOn'
      /\ ToSave' /\ RecoverHalf' /\ CopyAgrees' /\ SavedLast' /\ RestoreAgrees' /\ Restored'
  BY <1>a, Stays
     DEF HInv, Off, Process, NoTricks, FlagsFull, CurrentFull, Once, Checked, RecoverOn, ToSave, RecoverHalf,
         CopyAgrees, SavedLast, RestoreAgrees, Restored, Exit, Locking, Levelling, Saving, Recovering, process,
         memory, files
<1>2. LockAgrees'
  BY <1>a DEF Exit, HInv, LockAgrees, Saving
<1>3. SaveShape' /\ SaveOpen' /\ KeptMode'
  <2>1. CASE save' = save
    BY <1>a, <2>1 DEF Exit, HInv, SaveShape, SaveOpen, KeptMode, Saving, Recovering
  <2>2. CASE save.st = "there" /\ ~Complete(save') /\ save'.st = "there" /\ save'.state.st = "absent" /\ save'.others = NoLevels
    BY <1>a, <2>2 DEF Exit, SaveShape, SaveOpen, KeptMode, Saving, Recovering
  <2> QED
    BY <1>b, <2>1, <2>2
<1>4. Disk'
  <2>1. SUFFICES ASSUME file0.st = "full"
                 PROVE  IF AllFull THEN InFiles = last /\ Known
                        ELSE save' = save /\ Complete(save) /\ save.locked /\ InSave = last
    BY <1>a, Stays DEF Disk
  <2>2. CASE at \in {"restore_levels", "restore_level"}
    BY <1>b, <2>1, <2>2, RestoreInterrupted
  <2>3. CASE at \in {"play", "restored", "keep_save", "recover"}
    BY <2>1, <2>3 DEF HInv, Checked
  <2>4. CASE at = "getlock"
    BY <1>b, <2>1, <2>4 DEF HInv, Disk
  <2>5. CASE at \in {"new", "restore"}
    BY <2>1, <2>5 DEF HInv, LockAgrees
  <2> QED
    BY <1>a, <2>2, <2>3, <2>4, <2>5
<1> QED
  BY <1>1, <1>2, <1>3, <1>4 DEF HInv

(* hangup saves a game only where all of it is there.                      *)
LEMMA HarmlessHangup ==
  ASSUME TypeInv, FInv, HInv, HarmlessStrikes, hangup
  PROVE  HInv'
<1>1. /\ at \in Phases \ (Saving \cup Recovering \cup {"off", "tricked", "clear"})
      /\ at \notin {"getlock", "erase", "discard", "left"}
  BY DEF hangup, HarmlessStrikes, TypeInv, AtOK
<1>2. CASE something_worth_saving /\ BeginSave
  <2>1. ~restoring /\ at \in Levelling \cup Locking \cup {"keep_save"}
    BY <1>1, <1>2 DEF HInv, Off, Process, Phases, Levelling, Locking, Saving, Recovering
  <2> QED
    BY <1>1, <1>2, <2>1, HarmlessBeginSave
<1>3. CASE clearlocks /\ UNCHANGED last /\ (save' = save \/ save' = NoSave)
  BY <1>1, <1>3, HarmlessClearlocks
<1> QED
  BY <1>2, <1>3 DEF hangup

-----------------------------------------------------------------------------
(* The invariant holds to begin with.                                      *)
LEMMA HarmlessInit == Init => HInv
<1> SUFFICES ASSUME Init PROVE HInv
  OBVIOUS
<1>1. SaveShape
  BY EmptySaves DEF Init, SaveShape
<1>2. Off /\ Process /\ NoTricks /\ FlagsFull /\ LockAgrees /\ CurrentFull /\ Once /\ SaveOpen /\ KeptMode
  BY EmptySaves, Locks
     DEF Init, Off, Process, NoTricks, FlagsFull, LockAgrees, CurrentFull, Once, SaveOpen, KeptMode, Locking, Levelling,
         Saving, Recovering
<1>3. Disk /\ Checked /\ RecoverOn /\ ToSave /\ RecoverHalf /\ CopyAgrees /\ SavedLast /\ RestoreAgrees /\ Restored
  BY Locks DEF Init, Disk, Checked, RecoverOn, ToSave, RecoverHalf, CopyAgrees, SavedLast, RestoreAgrees, Restored
<1> QED
  BY <1>1, <1>2, <1>3 DEF HInv

(* Every step keeps it.                                                    *)
LEMMA HarmlessStep == TypeInv /\ FInv /\ HInv /\ HarmlessStrikes /\ [Next]_vars => HInv'
<1> SUFFICES ASSUME TypeInv, FInv, HInv, HarmlessStrikes, [Next]_vars PROVE HInv'
  OBVIOUS
<1>1. CASE Handlers
  BY <1>1, HarmlessNewgame, HarmlessDeleteLevel, HarmlessClearEnd, HarmlessDiscarded, HarmlessLeaveLevel,
     HarmlessArrive, HarmlessCheckpoint, HarmlessWriteLevel, HarmlessStateInLock, HarmlessWriteLock,
     HarmlessWriteState, HarmlessSaveState, HarmlessSaveLevel, HarmlessDeleteCurrent, HarmlessUnlock,
     HarmlessRestoreLevel, HarmlessWriteRestored, HarmlessEndRestore, HarmlessBackToPlay,
     HarmlessRecoverCurrent, HarmlessRecoverState, HarmlessRecoverLevel, HarmlessEndRecover, HarmlessDorecover,
     HarmlessEraseLevel, HarmlessEraseEnd
     DEF Handlers
<1>2. CASE Player
  BY <1>2, HarmlessGetlock, HarmlessAnswer, HarmlessKeepSave, HarmlessPlay, HarmlessDone, HarmlessSave,
     HarmlessRecover, HarmlessGotoLevel
     DEF Player
<1>3. CASE Crash \/ hangup
  BY <1>3, HarmlessCrash, HarmlessHangup
<1>4. CASE UNCHANGED vars
  BY <1>4, HarmlessStutter
<1> QED
  BY <1>1, <1>2, <1>3, <1>4 DEF Next

(* The invariants hold in every reachable state.                           *)
LEMMA HarmlessInvariant ==
  ASSUME HarmlessStrikes
  PROVE  Spec => [](TypeInv /\ FInv /\ HInv)
<1>1. LevelsFirst
  BY DEF HarmlessStrikes, LevelsFirst, Phases
<1>2. Spec => [](TypeInv /\ FInv)
  BY <1>1, FilesInvariant
<1>3. TypeInv /\ FInv /\ HInv /\ [Next]_vars => HInv'
  BY HarmlessStep
<1> QED
  BY <1>2, <1>3, HarmlessInit, PTL DEF Spec

(* No level file is missed by goto_level or dosave0 or found torn, and     *)
(* dorecover reads every piece of a save file for what it is.              *)
THEOREM NeverMissed ==
  ASSUME HarmlessStrikes
  PROVE  Spec => []NeverTricked
<1>1. TypeInv /\ FInv /\ HInv => NeverTricked
  <2> SUFFICES ASSUME TypeInv, FInv, HInv PROVE NeverTricked
    OBVIOUS
  <2>1. at # "tricked"
    BY DEF HInv, NoTricks
  <2>2. at = "left" /\ newlevel \in state.lfile_exists => lfile[newlevel].st = "full"
    BY DEF HInv, FlagsFull, Levelling
  <2>3. ASSUME at = "save_levels", NEW l \in todo PROVE lfile[l].st = "full"
    BY <2>3 DEF HInv, CopyAgrees, TypeInv, TodoOK
  <2>4. ASSUME at \in {"lock", "restore_levels"}, restoring, NEW l \in todo \ {state.uz} PROVE Clean(l)
    <3>1. RestoreAgrees /\ l \in Levels
      BY <2>4 DEF HInv, TypeInv, TodoOK
    <3>2. Complete(save) /\ save.others[l].st = "full"
      BY <2>4, <3>1 DEF RestoreAgrees, Locking, Complete
    <3> QED
      BY <3>1, <3>2, CleanSave
  <2> QED
    BY <2>1, <2>2, <2>3, <2>4 DEF NeverTricked
<1> QED
  BY <1>1, HarmlessInvariant, PTL

(* A crash leaves the last checkpoint in file 0 and the level files, or    *)
(* what was being restored in the save file.                               *)
THEOREM CheckpointRecoverable ==
  ASSUME HarmlessStrikes
  PROVE  Spec => []CrashRecoverable
<1>1. TypeInv /\ FInv /\ HInv => CrashRecoverable
  <2> SUFFICES ASSUME TypeInv, FInv, HInv, at = "off", file0.st \notin {"absent", "pid"}
               PROVE  \/ file0.st = "full" /\ AllFull /\ InFiles = last
                      \/ Complete(save) /\ InSave = last
    BY DEF CrashRecoverable
  <2>1. file0.st = "full"
    BY DEF HInv, LockAgrees, TypeInv, LockOK, LockFile, Saving
  <2> QED
    BY <2>1 DEF HInv, Disk
<1> QED
  BY <1>1, HarmlessInvariant, PTL

(* A step that takes away a complete save file has a reason to.            *)
LEMMA KeepsSave ==
  ASSUME TypeInv, FInv, HInv, HarmlessStrikes, [Next]_vars, Complete(save), ~Complete(save')
  PROVE  \/ at = "restore" /\ at' = "new"
         \/ at = "restore_levels" /\ InPlay' = InSave /\ \A l \in state.lfile_exists : lfile[l].st = "full"
         \/ state.explore
         \/ at = "off" /\ file0.state.explore
         \/ save.locked /\ something_worth_saving
<1> DEFINE gs == save.state.state
           Reason == \/ at = "restore" /\ at' = "new"
                     \/ at = "restore_levels" /\ InPlay' = InSave /\ \A l \in state.lfile_exists : lfile[l].st = "full"
                     \/ state.explore
                     \/ at = "off" /\ file0.state.explore
                     \/ save.locked /\ something_worth_saving
<1> SUFFICES Reason
  OBVIOUS
<1>0. save' # save /\ save # NoSave /\ save # EmptySave
  BY EmptySaves
<1>1. \A levels : ~gotlock(levels)
  <2> SUFFICES ASSUME NEW levels, gotlock(levels) PROVE FALSE
    OBVIOUS
  <2>1. save' = [save EXCEPT !.locked = TRUE]
    BY <1>0 DEF gotlock, Complete
  <2> QED
    BY <2>1, Relocked
<1>2. ASSUME BeginSave, ~save.locked, ~restoring, at \in Levelling \cup Locking \cup {"keep_save"} PROVE state.explore
  BY <1>0, <1>2 DEF HInv, Once, Restored
<1>3. CASE Save
  <2>1. at = "play" /\ ~restoring /\ something_worth_saving
    BY <1>3 DEF Save, HInv, Process, Locking
  <2> QED
    BY <1>0, <1>2, <1>3, <2>1 DEF Save, Levelling, vars, files
<1>4. CASE hangup
  <2>1. at \in Phases \ (Saving \cup Recovering \cup {"off", "tricked", "clear", "getlock", "erase", "discard", "left"})
    BY <1>4 DEF hangup, HarmlessStrikes, TypeInv, AtOK
  <2>2. something_worth_saving => ~restoring /\ at \in Levelling \cup Locking \cup {"keep_save"}
    BY <2>1 DEF HInv, Off, Process, Phases, Levelling, Locking, Saving, Recovering
  <2> QED
    BY <1>0, <1>2, <1>4, <2>2 DEF hangup
<1>5. CASE Crash
  <2>1. save' = save \/ save = EmptySave
    BY <1>5, CrashLeaves
  <2> QED
    BY <1>0, <2>1
<1>6. CASE EndRestore
  BY <1>6, GameIsBack
<1>7. CASE dorecover
  <2>1. at = "restore" /\ (save' = save \/ at' = "new")
    <3>1. at = "restore"
      BY <1>7 DEF dorecover
    <3> QED
      BY <1>7, <3>1, RestoreChoices DEF files
  <2> QED
    BY <1>0, <2>1
<1>8. ~RestoreLevel
  <2> SUFFICES ASSUME RestoreLevel PROVE FALSE
    OBVIOUS
  <2>1. at = "restore_levels" /\ RestoreAgrees /\ Level \in todo /\ Level \in Levels
    BY LoopLevel DEF RestoreLevel, HInv, Process, TypeInv, TodoOK
  <2>2. Level = state.uz \/ Clean(Level)
    BY <2>1, CleanSave DEF HInv, Process, RestoreAgrees, Complete
  <2> QED
    BY <1>0, <2>2 DEF RestoreLevel, Misread
<1>9. CASE KeepSave
  BY <1>9 DEF KeepSave, HInv, Restored
<1>10. CASE recover
  BY <1>10 DEF recover, HInv, KeptMode, LockAgrees
<1>11. ~(SaveState \/ RecoverCurrent \/ RecoverState)
  <2>1. at = "recover_state" => save.state.st = "absent"
    BY DEF HInv, RecoverHalf
  <2> QED
    BY <1>0, <2>1 DEF SaveState, RecoverCurrent, RecoverState, HInv, ToSave, Complete
<1>12. ~(SaveLevel \/ RecoverLevel)
  <2> SUFFICES ASSUME at \in {"save_levels", "recover_levels"}, todo # {} PROVE FALSE
    BY DEF SaveLevel, RecoverLevel
  <2>1. PICK l \in todo : l \in Levels
    BY DEF TypeInv, TodoOK
  <2>2. gs.uz \notin todo /\ l \in gs.lfile_exists /\ save.others[l] = Absent
    BY <2>1 DEF HInv, CopyAgrees
  <2> QED
    BY <2>1, <2>2 DEF Complete, Absent
<1>13. CASE getlock \/ EraseEnd
  <2>1. save' = save
    BY <1>1, <1>13 DEF getlock, EraseEnd, files
  <2> QED
    BY <1>0, <2>1
<1>14. ASSUME \/ EraseLevel \/ newgame \/ DeleteLevel \/ ClearEnd \/ LeaveLevel \/ Discarded \/ Arrive
              \/ save_currentstate \/ WriteLevel \/ savestateinlock \/ WriteLock \/ WriteState
              \/ DeleteCurrent \/ Unlock \/ WriteRestored \/ BackToPlay \/ EndRecover
              \/ Answer \/ Play \/ done \/ (\E l \in Levels : goto_level(l)) \/ UNCHANGED vars
       PROVE  save' = save
  BY <1>14
     DEF EraseLevel, newgame, DeleteLevel, ClearEnd, LeaveLevel, Discarded, Arrive, save_currentstate,
         WriteLevel,
               savestateinlock, WriteLock, WriteState, DeleteCurrent, Unlock, WriteRestored, BackToPlay, EndRecover,
               Answer, Play, done, goto_level, vars, files
<1> HIDE DEF Reason
<1> QED
  BY <1>0, <1>3, <1>4, <1>5, <1>6, <1>7, <1>8, <1>9, <1>10, <1>11, <1>12, <1>13, <1>14 DEF Next, Handlers, Player

(* A complete save file is given up only for the reasons that SaveKept     *)
(* names.                                                                  *)
THEOREM SaveNotSpoilt ==
  ASSUME HarmlessStrikes
  PROVE  Spec => SaveKept
<1>1. TypeInv /\ FInv /\ HInv /\ [Next]_vars =>
        [Complete(save) /\ ~Complete(save') =>
           \/ at = "restore" /\ at' = "new"
           \/ at = "restore_levels" /\ InPlay' = InSave /\ \A l \in state.lfile_exists : lfile[l].st = "full"
           \/ state.explore
           \/ at = "off" /\ file0.state.explore
           \/ save.locked /\ something_worth_saving]_vars
  BY KeepsSave
<1> QED
  BY <1>1, HarmlessInvariant, PTL DEF Spec, SaveKept

-----------------------------------------------------------------------------
(* The files implement one game that is played, saved and checkpointed.    *)

(* In main, before a game has begun or after it has ended.                 *)
Ended == {"off", "getlock", "erase", "new", "clear"}

(* A game is played: not while dorecover is at work.                       *)
InGame == at \in Levelling \/ (at \in Locking /\ ~restoring)

(* Whether the saved game is on its way back, and whether the one that is  *)
(* played is in explore mode.                                              *)
Loads    == Restoring /\ Saved # {}
Explores == Running # {} /\ state.explore

(* The game in a save file that can be opened.                             *)
OnDisk == IF Complete(save) /\ ~save.locked THEN {InSave} ELSE {}

(* The mapping, by phases.                                                 *)
Mapping ==
  /\ Running = IF InGame THEN {InPlay} ELSE {}
  /\ at \in Ended \cup Saving \cup Recovering \/ InGame => ~Restoring
  /\ at \in Ended \/ InGame => Saved = OnDisk
  /\ at = "recover" => Saved = {}
  /\ at \in Saving \cup {"recover_state", "recover_levels"} => Saved = {last}
  /\ at = "restore" => Restoring /\ Saved = IF Complete(save) THEN {InSave} ELSE {}
  /\ at \in {"restore_levels", "restore_level", "restored", "keep_save"} \/ (at \in Locking /\ restoring) =>
       Restoring /\ Saved = {last}
  /\ at \in {"off", "getlock", "recover"} => Checkpointed = IF file0.st = "full" /\ AllFull THEN {InFiles} ELSE {}
  /\ at \notin {"off", "getlock", "recover"} /\ ~InGame => Checkpointed = {}
  /\ InGame => Checkpointed = CASE at \in {"write_lock", "write_state"} -> IF state.ins_chkpt THEN {InPlay} ELSE {}
                                [] OTHER -> IF file0.st = "full" THEN {last} ELSE {}
  /\ {InPlay} \in Atomic!One

(* The invariants give it.                                                 *)
LEMMA Maps == TypeInv /\ HInv => Mapping
<1> SUFFICES ASSUME TypeInv, HInv PROVE Mapping
  OBVIOUS
<1>1. at \in Phases \ {"tricked"}
  BY DEF TypeInv, AtOK, HInv, NoTricks
<1>2. /\ restoring => at \in Locking \cup {"restore_levels", "restore_level", "restored", "clear"}
      /\ at \in {"restore_levels", "restore_level", "restored"} => restoring
      /\ at \in {"off", "getlock", "erase", "new", "restore"} \cup Recovering => ~restoring
  BY DEF HInv, Off, Process
<1> USE DEF Ended, InGame, Saving, Recovering, Levelling, Locking
<1>3. Restoring <=> at \in {"restore", "restore_levels", "restore_level", "restored", "keep_save"} \/ (at \in Locking /\ restoring)
  BY <1>1, <1>2 DEF Restoring, Phases
<1>4. Running = IF InGame THEN {InPlay} ELSE {}
  BY <1>1, <1>2, <1>3 DEF Running, Phases
<1>5. /\ at \in Ended \/ InGame => Saved = OnDisk
      /\ at \in Saving \cup {"recover_state", "recover_levels"} => Saved = {last}
      /\ at \in {"restore_levels", "restore_level", "restored", "keep_save"} \/ (at \in Locking /\ restoring) => Saved = {last}
  BY <1>1, <1>2, <1>3 DEF Saved, OnDisk, Phases
<1>6. at = "restore" => Saved = IF Complete(save) THEN {InSave} ELSE {}
  BY <1>3 DEF Saved
<1>7. at = "recover" => Saved = {}
  BY <1>3, EmptySaves DEF Saved, HInv, ToSave
<1>8. at \in {"off", "getlock", "recover"} => Checkpointed = IF file0.st = "full" /\ AllFull THEN {InFiles} ELSE {}
  BY <1>1, <1>2, <1>3 DEF Checkpointed
<1>9. at \notin {"off", "getlock", "recover"} /\ ~InGame => Checkpointed = {}
  BY <1>1, <1>2, <1>3 DEF Checkpointed, Phases
<1>10. InGame => Checkpointed = CASE at \in {"write_lock", "write_state"} -> IF state.ins_chkpt THEN {InPlay} ELSE {}
                                  [] OTHER -> IF file0.st = "full" THEN {last} ELSE {}
  BY <1>1, <1>2, <1>3 DEF Checkpointed, Phases
<1>11. {InPlay} \in Atomic!One
  BY GameTypes DEF Atomic!One
<1> QED
  BY <1>1, <1>3, <1>4, <1>5, <1>6, <1>7, <1>8, <1>9, <1>10, <1>11 DEF Mapping

(* The same after a step.                                                  *)
LEMMA MapsNext == TypeInv' /\ HInv' => Mapping'
BY Maps, PTL

(* A step of the game that is played, saved and checkpointed, or none.     *)
Implemented == [Atomic!Next]_Atomic!vars

(* Which step it is, by what it does.                                      *)
LEMMA NoStep ==
  ASSUME UNCHANGED <<Running, Saved, Checkpointed>>, Loads' <=> Loads, Explores' <=> Explores
  PROVE  Implemented
BY DEF Implemented, Atomic!vars, Loads, Explores

(* Nothing is played, and nothing is loaded.                               *)
LEMMA IdleStep ==
  ASSUME Running = {}, ~Restoring, Running' = {}, ~Restoring',
         \/ UNCHANGED <<Saved, Checkpointed>>
         \/ Checkpointed # {} /\ Checkpointed' = {} /\ Saved' = Saved
         \/ Checkpointed # {} /\ Checkpointed' = Checkpointed /\ Saved' = {}
         \/ Checkpointed # {} /\ Checkpointed' = {} /\ Saved' = Checkpointed
  PROVE  Implemented
<1>1. ~Loads /\ ~Loads' /\ ~Explores /\ ~Explores'
  BY DEF Loads, Explores
<1>2. CASE UNCHANGED <<Saved, Checkpointed>>
  BY <1>1, <1>2, NoStep
<1>3. CASE Checkpointed # {} /\ Checkpointed' = {} /\ Saved' = Saved
  <2>1. Atomic!Discard
    BY <1>1, <1>3 DEF Atomic!Discard, Atomic!Idle, Loads, Explores
  <2> QED
    BY <2>1 DEF Implemented, Atomic!Next
<1>4. CASE Checkpointed # {} /\ Checkpointed' = Checkpointed /\ Saved' = {}
  <2>1. Atomic!Overwrite
    BY <1>1, <1>4 DEF Atomic!Overwrite, Atomic!Idle, Loads, Explores
  <2> QED
    BY <2>1 DEF Implemented, Atomic!Next
<1>5. CASE Checkpointed # {} /\ Checkpointed' = {} /\ Saved' = Checkpointed
  <2>1. Atomic!Recover
    BY <1>1, <1>5 DEF Atomic!Recover, Atomic!Idle, Loads, Explores
  <2> QED
    BY <2>1 DEF Implemented, Atomic!Next
<1> QED
  BY <1>2, <1>3, <1>4, <1>5

(* A game is played, before and after the step.                            *)
LEMMA GameStep ==
  ASSUME Running # {}, Running' \in Atomic!One, ~Restoring, ~Restoring', Saved' = Saved,
         state.explore \in BOOLEAN, state'.explore \in BOOLEAN, state.explore => state'.explore,
         \/ Checkpointed' = Checkpointed
         \/ Running' = Running /\ state'.explore = state.explore /\ Checkpointed' \in {Running, {}}
  PROVE  Implemented
<1>1. Running' # {} /\ ~Loads /\ ~Loads' /\ (Explores <=> state.explore) /\ (Explores' <=> state'.explore)
  BY DEF Loads, Explores, Atomic!One
<1>2. CASE Checkpointed' = Checkpointed
  <2>1. Atomic!Play
    BY <1>1, <1>2 DEF Atomic!Play, Loads, Explores
  <2> QED
    BY <2>1 DEF Implemented, Atomic!Next
<1>3. CASE Running' = Running /\ state'.explore = state.explore /\ Checkpointed' \in {Running, {}}
  <2>1. Atomic!Checkpoint
    BY <1>1, <1>3 DEF Atomic!Checkpoint, Loads, Explores
  <2> QED
    BY <2>1 DEF Implemented, Atomic!Next
<1> QED
  BY <1>2, <1>3

(* The game that is played is played no longer.                            *)
LEMMA LastStep ==
  ASSUME Running # {}, Running' = {}, ~Restoring, ~Restoring',
         \/ Saved' = Saved /\ Checkpointed' \in {Checkpointed, {}}
         \/ Saved' = Running /\ Checkpointed' = {} /\ (Saved = {} \/ state.explore)
  PROVE  Implemented
<1>1. ~Loads /\ ~Loads' /\ ~Explores' /\ (Explores <=> state.explore)
  BY DEF Loads, Explores
<1>2. CASE Saved' = Saved /\ Checkpointed' = Checkpointed
  <2>1. Atomic!Stop
    BY <1>1, <1>2 DEF Atomic!Stop, Loads, Explores
  <2> QED
    BY <2>1 DEF Implemented, Atomic!Next
<1>3. CASE Saved' = Saved /\ Checkpointed' = {}
  <2>1. Atomic!End
    BY <1>1, <1>3 DEF Atomic!End, Loads, Explores
  <2> QED
    BY <2>1 DEF Implemented, Atomic!Next
<1>4. CASE Saved' = Running /\ Checkpointed' = {} /\ (Saved = {} \/ state.explore)
  <2>1. Atomic!Save
    BY <1>1, <1>4 DEF Atomic!Save, Loads, Explores
  <2> QED
    BY <2>1 DEF Implemented, Atomic!Next
<1> QED
  BY <1>2, <1>3, <1>4

(* A game is loaded, or is not.                                            *)
LEMMA LoadStep ==
  ASSUME Restoring, ~Restoring', Running = {}, Checkpointed = {},
         \/ /\ Saved # {} /\ Running' = Saved /\ Saved' \in {{}, Saved} /\ Checkpointed' \in {{}, Saved}
            /\ Saved' # {} => state'.explore
         \/ /\ Running' = {} /\ Saved' \in {{}, Saved} /\ Checkpointed' \in {{}, Saved}
  PROVE  Implemented
<1>1. ~Loads' /\ ~Explores /\ (Loads <=> Saved # {})
  BY DEF Loads, Explores
<1>2. CASE /\ Saved # {} /\ Running' = Saved /\ Saved' \in {{}, Saved} /\ Checkpointed' \in {{}, Saved}
           /\ Saved' # {} => state'.explore
  <2>1. Atomic!Loaded
    BY <1>1, <1>2 DEF Atomic!Loaded, Loads, Explores
  <2> QED
    BY <2>1 DEF Implemented, Atomic!Next
<1>3. CASE Running' = {} /\ Saved' \in {{}, Saved} /\ Checkpointed' \in {{}, Saved}
  <2>1. CASE Saved # {}
    <3>1. Atomic!Fail
      BY <1>1, <1>3, <2>1 DEF Atomic!Fail, Loads, Explores
    <3> QED
      BY <3>1 DEF Implemented, Atomic!Next
  <2>2. CASE Saved = {}
    BY <1>1, <1>3, <2>2, NoStep DEF Explores
  <2> QED
    BY <2>1, <2>2
<1> QED
  BY <1>2, <1>3

(* All that is known of a state.                                           *)
Here == TypeInv /\ FInv /\ HInv /\ Mapping

(* A save file that stays as it is, or is deleted.                         *)
LEMMA DiskStays ==
  /\ save' = save => OnDisk' = OnDisk
  /\ save' = NoSave => OnDisk' = {}
  /\ ~Complete(save) \/ save.locked => OnDisk = {}
<1>1. save' = save => InSave' = InSave
  BY Stays
<1> QED
  BY <1>1, EmptySaves DEF OnDisk

-----------------------------------------------------------------------------
(* Every step is a step of it.                                             *)

(* A program has the lock name, and takes a save file if there is one.     *)
LEMMA MapGotlock ==
  ASSUME Here, Here', at \in {"off", "erase"}, NEW levels, gotlock(levels), at = "off" => file0.st = "absent"
  PROVE  Implemented
<1>1. /\ Running = {} /\ ~Restoring /\ Saved = OnDisk /\ Checkpointed = {}
  BY DEF Here, Mapping, Ended, InGame, Levelling, Locking
<1>2. CASE at' = "new"
  <2>1. Running' = {} /\ ~Restoring' /\ Saved' = OnDisk' /\ Checkpointed' = {}
    BY <1>2 DEF Here, Mapping, Ended, InGame, Levelling, Locking
  <2>2. OnDisk = {} /\ OnDisk' = {}
    <3>1. CASE save' = save /\ (save.st = "absent" \/ save.locked)
      <4>1. OnDisk = {}
        BY <3>1, EmptySaves, DiskStays DEF Here, HInv, SaveOpen
      <4> QED
        BY <3>1, <4>1, DiskStays
    <3>2. CASE save' = NoSave /\ save.level.st = "absent"
      BY <3>2, DiskStays DEF Complete
    <3> QED
      BY <1>2, <3>1, <3>2 DEF gotlock
  <2> QED
    BY <1>1, <2>1, <2>2, IdleStep
<1>3. CASE at' = "restore"
  <2>1. save' = [save EXCEPT !.locked = TRUE] /\ ~save.locked
    BY <1>3 DEF gotlock
  <2>2. (Complete(save') <=> Complete(save)) /\ InSave' = InSave
    BY <2>1, Relocked DEF Here
  <2>3. Running' = {} /\ Restoring' /\ Checkpointed' = {} /\ Saved' = IF Complete(save') THEN {InSave'} ELSE {}
    BY <1>3 DEF Here, Mapping, InGame, Levelling, Locking
  <2>4. Saved' = Saved
    BY <1>1, <2>1, <2>2, <2>3 DEF OnDisk
  <2>5. CASE Saved = {}
    BY <1>1, <2>3, <2>4, <2>5, NoStep DEF Loads, Explores
  <2>6. CASE Saved # {}
    <3>1. Atomic!Load
      BY <1>1, <2>3, <2>4, <2>6 DEF Atomic!Load, Atomic!Idle
    <3> QED
      BY <3>1 DEF Implemented, Atomic!Next
  <2> QED
    BY <2>5, <2>6
<1> QED
  BY <1>2, <1>3 DEF gotlock

(* The old game is destroyed, or not.                                      *)
LEMMA MapStart ==
  ASSUME Here, Here', getlock \/ Answer \/ EraseLevel \/ EraseEnd \/ EndRecover
  PROVE  Implemented
<1>1. CASE EraseEnd
  BY <1>1, MapGotlock DEF EraseEnd
<1>2. CASE getlock
  <2>1. CASE file0.st = "absent" /\ gotlock([l \in Levels |-> Stale(lfile[l])])
    BY <1>2, <2>1, MapGotlock DEF getlock
  <2>2. CASE at' = "getlock" /\ UNCHANGED files
    <3>1. /\ at = "off" /\ save' = save /\ lfile' = lfile /\ file0' = file0
      BY <1>2, <2>2 DEF getlock, files
    <3>2. /\ Running = {} /\ ~Restoring /\ Saved = OnDisk /\ Running' = {} /\ ~Restoring' /\ Saved' = OnDisk'
          /\ Checkpointed = IF file0.st = "full" /\ AllFull THEN {InFiles} ELSE {}
          /\ Checkpointed' = IF file0'.st = "full" /\ AllFull' THEN {InFiles'} ELSE {}
      BY <2>2, <3>1 DEF Here, Mapping, Ended, InGame, Levelling, Locking
    <3>3. Checkpointed' = Checkpointed /\ Saved' = Saved
      BY <3>1, <3>2, Stays, DiskStays
    <3> QED
      BY <3>2, <3>3, IdleStep
  <2> QED
    BY <1>2, <2>1, <2>2 DEF getlock
<1>3. CASE Answer \/ EraseLevel
  <2>1. at \in {"getlock", "erase"} /\ at' \in {"off", "erase"} /\ save' = save /\ file0' = file0
        /\ (at' = "off" => at = "getlock" /\ lfile' = lfile)
    BY <1>3 DEF Answer, EraseLevel, files
  <2>2. Running = {} /\ ~Restoring /\ Saved = OnDisk /\ Running' = {} /\ ~Restoring' /\ Saved' = OnDisk'
    BY <2>1 DEF Here, Mapping, Ended, InGame, Levelling, Locking
  <2>3. Saved' = Saved
    BY <2>1, <2>2, DiskStays
  <2>4. Checkpointed' \in {Checkpointed, {}}
    <3>1. CASE at' = "erase"
      BY <3>1 DEF Here, Mapping, InGame, Levelling, Locking
    <3>2. CASE at' = "off"
      <4>1. /\ Checkpointed = IF file0.st = "full" /\ AllFull THEN {InFiles} ELSE {}
            /\ Checkpointed' = IF file0'.st = "full" /\ AllFull' THEN {InFiles'} ELSE {}
        BY <2>1, <3>2 DEF Here, Mapping
      <4> QED
        BY <2>1, <3>2, <4>1, Stays
    <3> QED
      BY <2>1, <3>1, <3>2
  <2> QED
    BY <2>2, <2>3, <2>4, IdleStep
<1>4. CASE EndRecover
  <2>1. /\ at = "recover_levels" /\ at' = "off" /\ todo = {} /\ save' = save /\ file0'.st = "absent" /\ ~save.locked
    BY <1>4, Locks DEF EndRecover, files, Here, HInv, RecoverOn, SaveOpen, Recovering
  <2>2. Complete(save) /\ InSave = last
    BY <2>1, CopyDone DEF Here, HInv
  <2>3. /\ Running = {} /\ ~Restoring /\ Saved = {last} /\ Checkpointed = {}
        /\ Running' = {} /\ ~Restoring' /\ Saved' = OnDisk' /\ Checkpointed' = {}
    BY <2>1 DEF Here, Mapping, Ended, Recovering, InGame, Levelling, Locking
  <2>4. Saved' = Saved
    BY <2>1, <2>2, <2>3, DiskStays DEF OnDisk
  <2> QED
    BY <2>3, <2>4, IdleStep
<1> QED
  BY <1>1, <1>2, <1>3, <1>4

(* A new game begins where there is none to come back.                     *)
LEMMA MapNewgame ==
  ASSUME Here, Here', newgame
  PROVE  Implemented
<1>1. at = "new" /\ at' = "checkpoint" /\ save' = save /\ file0'.st = "pid"
  BY DEF newgame, files, Here, HInv, LockAgrees
<1>2. save.locked \/ save = NoSave
  BY <1>1 DEF Here, HInv, Once, Off, NoState
<1>3. Running = {} /\ ~Restoring /\ Saved = OnDisk /\ Checkpointed = {}
  BY <1>1 DEF Here, Mapping, Ended, InGame, Levelling, Locking
<1>4. Running' = {InPlay'} /\ ~Restoring' /\ Saved' = OnDisk' /\ Checkpointed' = {} /\ {InPlay'} \in Atomic!One
  BY <1>1 DEF Here, Mapping, InGame, Levelling
<1>5. OnDisk = {} /\ OnDisk' = {}
  BY <1>1, <1>2, EmptySaves, DiskStays
<1>6. Atomic!New
  <2>1. state'.explore \in BOOLEAN
    BY DEF Here, TypeInv, MemoryOK, GameState
  <2> QED
    BY <1>3, <1>4, <1>5, <2>1 DEF Atomic!New, Atomic!Idle
<1> QED
  BY <1>6 DEF Implemented, Atomic!Next

(* The game is played, or makes its way from one level to another.         *)
LEMMA MapPlay ==
  ASSUME Here, Here',
         \/ Play \/ LeaveLevel \/ Discarded \/ Arrive \/ save_currentstate \/ WriteLevel
         \/ DeleteLevel /\ at = "discard"
         \/ \E l \in Levels : goto_level(l)
  PROVE  Implemented
<1>1. /\ at \in Levelling /\ at' \in Levelling \cup {"lock"} /\ ~restoring /\ restoring' = restoring
      /\ save' = save /\ file0' = file0 /\ last' = last
  BY DEF Here, HInv, Process, NoTricks, Locking, Levelling, Play, LeaveLevel, Discarded, Arrive, save_currentstate,
         WriteLevel, DeleteLevel, goto_level, process, files
<1>2. state.explore \in BOOLEAN /\ state'.explore \in BOOLEAN /\ (state.explore => state'.explore)
  <2>1. state \in GameState /\ state' \in GameState
    BY DEF Here, TypeInv, MemoryOK
  <2> QED
    BY <2>1
       DEF GameState, Play, LeaveLevel, Discarded, Arrive, save_currentstate, WriteLevel, DeleteLevel,
           goto_level,
                create_levelfile, delete_levelfile, memory
<1>3. /\ Running = {InPlay} /\ ~Restoring /\ Saved = OnDisk
      /\ Checkpointed = IF file0.st = "full" THEN {last} ELSE {}
      /\ Running' = {InPlay'} /\ ~Restoring' /\ Saved' = OnDisk' /\ {InPlay'} \in Atomic!One
      /\ Checkpointed' = IF file0'.st = "full" THEN {last'} ELSE {}
  BY <1>1 DEF Here, Mapping, InGame, Levelling, Locking
<1>4. Saved' = Saved /\ Checkpointed' = Checkpointed
  BY <1>1, <1>3, DiskStays
<1> QED
  BY <1>2, <1>3, <1>4, GameStep

(* savestateinlock: the game is checkpointed, or is restored.              *)
LEMMA MapLock ==
  ASSUME Here, Here', savestateinlock \/ WriteLock \/ WriteState
  PROVE  Implemented
<1>1. /\ at \in Locking /\ at' \in {"write_lock", "write_state"} \cup IF restoring THEN {"restore_levels"} ELSE {"play"}
      /\ (restoring' <=> restoring) /\ save' = save /\ state' = state /\ fobj' = fobj /\ lfile' = lfile
  BY DEF savestateinlock, WriteLock, WriteState, AfterLock, memory, Locking
<1>2. CASE restoring
  <2>1. last' = last
    BY <1>2 DEF savestateinlock, WriteLock, WriteState
  <2>2. Running = {} /\ Restoring /\ Saved = {last} /\ Checkpointed = {}
    BY <1>1, <1>2 DEF Here, Mapping, InGame, Levelling, Locking
  <2>3. Running' = {} /\ Restoring' /\ Saved' = {last'} /\ Checkpointed' = {}
    BY <1>1, <1>2 DEF Here, Mapping, InGame, Levelling, Locking
  <2> QED
    BY <2>1, <2>2, <2>3, NoStep DEF Loads, Explores
<1>3. CASE ~restoring
  <2>1. InPlay' = InPlay
    BY <1>1, <1>3, Stays DEF Locking
  <2>2. Running = {InPlay} /\ ~Restoring /\ Saved = OnDisk
    BY <1>1, <1>3 DEF Here, Mapping, InGame, Locking
  <2>3. Running' = {InPlay'} /\ ~Restoring' /\ Saved' = OnDisk' /\ {InPlay'} \in Atomic!One
    BY <1>1, <1>3 DEF Here, Mapping, InGame, Locking, Levelling
  <2>4. Checkpointed' \in {{InPlay'}, {}}
    <3>1. CASE at' = "play"
      <4>1. Checkpointed' = IF file0'.st = "full" THEN {last'} ELSE {}
        BY <3>1 DEF Here, Mapping, InGame, Levelling
      <4>2. file0'.st = "full" => last' = InPlay'
        <5>1. CASE WriteState
          BY <1>3, <2>1, <5>1 DEF WriteState
        <5>2. CASE WriteLock
          BY <3>1, <5>2, Locks DEF WriteLock, AfterLock
        <5>3. CASE savestateinlock
          BY <3>1, <5>3 DEF savestateinlock, AfterLock, Here, HInv, LockAgrees
        <5> QED
          BY <5>1, <5>2, <5>3
      <4> QED
        BY <4>1, <4>2
    <3>2. CASE at' \in {"write_lock", "write_state"}
      BY <1>1, <1>3, <3>2 DEF Here, Mapping, InGame, Locking
    <3> QED
      BY <1>1, <1>3, <3>1, <3>2
  <2>5. state.explore \in BOOLEAN
    BY DEF Here, TypeInv, MemoryOK, GameState
  <2> QED
    BY <1>1, <2>1, <2>2, <2>3, <2>4, <2>5, DiskStays, GameStep
<1> QED
  BY <1>2, <1>3

(* The game is about to be saved, by dosave0 or by hangup.                 *)
LEMMA MapBeginSave ==
  ASSUME Here, Here', BeginSave, ~save.locked, InGame, at \notin {"discard", "left"}
  PROVE  Implemented
<1>1. at' = "save" /\ last' = InPlay
  BY DEF BeginSave
<1>2. Running = {InPlay} /\ ~Restoring /\ Saved = OnDisk
  BY DEF Here, Mapping
<1>3. Running' = {} /\ ~Restoring' /\ Saved' = {last'} /\ Checkpointed' = {}
  BY <1>1 DEF Here, Mapping, InGame, Levelling, Locking, Saving
<1>4. OnDisk = {} \/ state.explore
  BY EmptySaves DEF Here, HInv, Once, InGame, OnDisk
<1> QED
  BY <1>1, <1>2, <1>3, <1>4, LastStep

(* The end of a game, with or without its save file.                       *)
LEMMA MapClearlocks ==
  ASSUME Here, Here', InGame, clearlocks, save' = save \/ (save.locked /\ save' = NoSave)
  PROVE  Implemented
<1>1. at' = "clear"
  BY DEF clearlocks
<1>2. Running = {InPlay} /\ ~Restoring /\ Saved = OnDisk
  BY DEF Here, Mapping
<1>3. Running' = {} /\ ~Restoring' /\ Saved' = OnDisk' /\ Checkpointed' = {}
  BY <1>1 DEF Here, Mapping, InGame, Levelling, Locking, Ended
<1> QED
  BY <1>2, <1>3, DiskStays, LastStep

(* The player saves, or the game ends.                                     *)
LEMMA MapSave ==
  ASSUME Here, Here', Save \/ done
  PROVE  Implemented
<1>1. at = "play" /\ InGame
  BY DEF Save, done, Here, HInv, NoTricks, InGame, Levelling
<1>2. CASE done
  BY <1>1, <1>2, MapClearlocks DEF done
<1>3. CASE ~save.locked /\ BeginSave
  BY <1>1, <1>3, MapBeginSave
<1>4. CASE UNCHANGED vars \/ (save.locked /\ save' = NoSave /\ UNCHANGED <<at, memory, process, todo, lfile, file0, last>>)
  <2>1. /\ at' = at /\ state' = state /\ fobj' = fobj /\ lfile' = lfile /\ file0' = file0 /\ last' = last
        /\ restoring' = restoring
    BY <1>4 DEF vars, memory, process, files
  <2>2. OnDisk' = OnDisk
    BY <1>4, DiskStays DEF vars, files
  <2>3. /\ Running = {InPlay} /\ ~Restoring /\ Saved = OnDisk /\ Checkpointed = IF file0.st = "full" THEN {last} ELSE {}
        /\ Running' = {InPlay'} /\ ~Restoring' /\ Saved' = OnDisk'
        /\ Checkpointed' = IF file0'.st = "full" THEN {last'} ELSE {}
    BY <1>1, <2>1 DEF Here, Mapping, InGame, Levelling
  <2>4. InPlay' = InPlay
    BY <2>1, Stays
  <2> QED
    BY <2>1, <2>2, <2>3, <2>4, NoStep DEF Loads, Explores
<1> QED
  BY <1>2, <1>3, <1>4 DEF Save

(* The save file is written, by dosave0 or by recover, or the files of a   *)
(* game that has ended are deleted.                                        *)
LEMMA MapFiles ==
  ASSUME Here, Here',
         \/ SaveState \/ SaveLevel \/ DeleteCurrent \/ Unlock \/ RecoverState \/ RecoverLevel
         \/ DeleteLevel /\ at = "clear"
         \/ ClearEnd
  PROVE  Implemented
<1>1. CASE SaveState \/ SaveLevel \/ DeleteCurrent \/ RecoverState \/ RecoverLevel
  <2>1. last' = last
    BY <1>1 DEF SaveState, SaveLevel, DeleteCurrent, RecoverState, RecoverLevel
  <2>2. /\ at \in Saving \cup {"recover_state", "recover_levels"}
        /\ at' \in Saving \cup {"recover_state", "recover_levels"}
    BY <1>1 DEF SaveState, SaveLevel, DeleteCurrent, RecoverState, RecoverLevel, Saving, Here, HInv, NoTricks
  <2>3. Running = {} /\ ~Restoring /\ Saved = {last} /\ Checkpointed = {}
    BY <2>2 DEF Here, Mapping, InGame, Levelling, Locking, Saving, Recovering
  <2>4. Running' = {} /\ ~Restoring' /\ Saved' = {last'} /\ Checkpointed' = {}
    BY <2>2 DEF Here, Mapping, InGame, Levelling, Locking, Saving, Recovering
  <2> QED
    BY <2>1, <2>3, <2>4, IdleStep
<1>2. CASE Unlock
  <2>1. at = "unlock" /\ at' = "off" /\ save' = save /\ file0'.st = "absent" /\ ~save.locked
    BY <1>2, Locks DEF Unlock, Exit, Here, HInv, SaveOpen, Saving
  <2>2. Complete(save) /\ InSave = last
    BY <2>1 DEF Here, HInv, SavedLast
  <2>3. /\ Running = {} /\ ~Restoring /\ Saved = {last} /\ Checkpointed = {}
        /\ Running' = {} /\ ~Restoring' /\ Saved' = OnDisk' /\ Checkpointed' = {}
    BY <2>1 DEF Here, Mapping, Ended, Saving, InGame, Levelling, Locking
  <2>4. Saved' = Saved
    BY <2>1, <2>2, <2>3, DiskStays DEF OnDisk
  <2> QED
    BY <2>3, <2>4, IdleStep
<1>3. CASE (DeleteLevel /\ at = "clear") \/ ClearEnd
  <2>1. at = "clear" /\ (at' = "clear" \/ (at' = "off" /\ file0'.st = "absent")) /\ save' = save
    BY <1>3, Locks DEF DeleteLevel, ClearEnd, Exit
  <2>2. /\ Running = {} /\ ~Restoring /\ Saved = OnDisk /\ Checkpointed = {}
        /\ Running' = {} /\ ~Restoring' /\ Saved' = OnDisk' /\ Checkpointed' = {}
    BY <2>1 DEF Here, Mapping, Ended, InGame, Levelling, Locking
  <2> QED
    BY <2>1, <2>2, DiskStays, IdleStep
<1> QED
  BY <1>1, <1>2, <1>3

(* dorecover.                                                              *)
LEMMA MapDorecover ==
  ASSUME Here, Here', dorecover
  PROVE  Implemented
<1>1. at = "restore" /\ save.locked /\ file0.st = "pid"
  BY DEF dorecover, Here, HInv, SaveOpen, LockAgrees
<1>2. Running = {} /\ Restoring /\ Checkpointed = {} /\ Saved = IF Complete(save) THEN {InSave} ELSE {}
  BY <1>1 DEF Here, Mapping, InGame, Levelling, Locking
<1>3. CASE Complete(save) /\ at' = "lock" /\ restoring' /\ last' = InSave
  <2>1. Running' = {} /\ Restoring' /\ Checkpointed' = {} /\ Saved' = {last'}
    BY <1>3 DEF Here, Mapping, InGame, Levelling, Locking
  <2> QED
    BY <1>2, <1>3, <2>1, NoStep DEF Loads, Explores
<1>4. CASE at' \in {"off", "new"} /\ save' = NoSave /\ file0' = file0
  <2>1. Running' = {} /\ ~Restoring' /\ Saved' = OnDisk' /\ Checkpointed' = {}
    BY <1>1, <1>4 DEF Here, Mapping, Ended, InGame, Levelling, Locking
  <2> QED
    BY <1>2, <1>4, <2>1, DiskStays, LoadStep
<1>5. \/ Complete(save) /\ at' = "lock" /\ restoring' /\ last' = InSave
      \/ at' \in {"off", "new"} /\ save' = NoSave /\ file0' = file0
  BY RestoreChoices DEF Here, ReadError, Exit
<1> QED
  BY <1>3, <1>4, <1>5

(* The rest of dorecover, up to where the game is played again.            *)
LEMMA MapRestore ==
  ASSUME Here, Here', RestoreLevel \/ WriteRestored \/ EndRestore \/ BackToPlay \/ KeepSave
  PROVE  Implemented
<1> DEFINE Loading == {"restore_levels", "restore_level", "restored", "keep_save"}
<1>1. /\ at \in Loading /\ last' = last /\ (at' \in Loading \/ BackToPlay \/ KeepSave)
  <2>1. CASE RestoreLevel
    <3>2. at = "restore_levels" /\ last' = last
      BY <2>1 DEF RestoreLevel, Misread, Strange, ReadError
    <3>3. Clean(Level) \/ Level = state.uz
      <4>1. RestoreAgrees /\ Level \in todo /\ Level \in Levels
        BY <2>1, LoopLevel DEF RestoreLevel, Here, HInv, TypeInv, TodoOK
      <4> QED
        BY <2>1, <3>2, <4>1, CleanSave DEF Here, HInv, Process, RestoreAgrees, Complete
    <3> QED
      BY <2>1, <3>2, <3>3 DEF RestoreLevel, Misread
  <2>2. CASE WriteRestored \/ EndRestore \/ BackToPlay \/ KeepSave
    BY <2>2 DEF WriteRestored, EndRestore, BackToPlay, KeepSave
  <2> QED
    BY <2>1, <2>2
<1>2. Running = {} /\ Restoring /\ Saved = {last} /\ Checkpointed = {}
  BY <1>1 DEF Here, Mapping, InGame, Levelling, Locking
<1>3. CASE at' \in Loading
  <2>1. Running' = {} /\ Restoring' /\ Saved' = {last'} /\ Checkpointed' = {}
    BY <1>3 DEF Here, Mapping, InGame, Levelling, Locking
  <2> QED
    BY <1>1, <1>2, <2>1, NoStep DEF Loads, Explores
<1>4. CASE at' \notin Loading /\ (BackToPlay \/ KeepSave)
  <2>1. /\ at' = "play" /\ state'.uz = state.uz /\ state'.invent = state.invent /\ lfile' = lfile /\ fobj' = fobj
        /\ at \in {"restored", "keep_save"}
    BY <1>4 DEF BackToPlay, KeepSave, InMode, memory, files, Here, TypeInv, MemoryOK, GameState
  <2>2. /\ Running' = {InPlay'} /\ ~Restoring' /\ Saved' = OnDisk'
        /\ Checkpointed' = IF file0'.st = "full" THEN {last'} ELSE {}
    BY <2>1 DEF Here, Mapping, InGame, Levelling
  <2>3. InPlay' = last
    <3>1. InPlay' = InPlay
      BY <2>1 DEF InPlay
    <3> QED
      BY <2>1, <3>1 DEF Here, HInv, Restored
  <2>4. Saved' \in {{}, Saved} /\ (Saved' # {} => state'.explore)
    <3>1. CASE save = NoSave \/ save' = NoSave \/ save' = save
      <4>1. OnDisk' = {}
        BY <1>4, <2>1, <3>1, EmptySaves, DiskStays DEF BackToPlay, KeepSave, files, Here, HInv, Restored, NoSave
      <4> QED
        BY <2>2, <4>1
    <3>2. CASE save # NoSave /\ KeepSave /\ save' = [save EXCEPT !.locked = FALSE]
      <4>1. at = "keep_save" /\ InSave = last /\ state.explore /\ state' = state
        BY <3>2 DEF KeepSave, Here, HInv, Restored, memory
      <4>2. InSave' = InSave
        BY <3>2, Relocked DEF Here
      <4> QED
        BY <1>2, <2>2, <4>1, <4>2 DEF OnDisk
    <3> QED
      BY <1>4, <3>1, <3>2 DEF BackToPlay, KeepSave, files
  <2> QED
    BY <1>1, <1>2, <2>2, <2>3, <2>4, LoadStep
<1> QED
  BY <1>1, <1>3, <1>4

(* recover makes the save file anew, and has the game in it when the       *)
(* current level is there.                                                 *)
LEMMA MapRecover ==
  ASSUME Here, Here', recover \/ RecoverCurrent
  PROVE  Implemented
<1>1. /\ at \in {"off", "recover"} /\ file0.st = "full" /\ AllFull /\ InFiles = last /\ last' = last
  <2>1. CASE recover
    <3>1. at = "off" /\ file0.st = "full" /\ ~save.locked /\ last' = last
      BY <2>1 DEF recover, Here, HInv, LockAgrees
    <3> QED
      BY <3>1 DEF Here, HInv, Disk
  <2>2. CASE RecoverCurrent
    BY <2>2 DEF RecoverCurrent, Here, HInv, RecoverOn, Checked
  <2> QED
    BY <2>1, <2>2
<1>2. Running = {} /\ ~Restoring /\ Checkpointed = {last}
  BY <1>1 DEF Here, Mapping, Ended, Recovering, InGame, Levelling, Locking
<1>3. CASE recover
  <2>1. lfile[file0.state.uz].st # "absent"
    BY <1>1 DEF AllFull
  <2>2. at' = "recover" /\ lfile' = lfile /\ file0' = file0
    BY <1>3, <2>1 DEF recover
  <2>3. AllFull' /\ InFiles' = last /\ file0'.st = "full"
    BY <1>1, <2>2, Stays
  <2>4. Running' = {} /\ ~Restoring' /\ Saved' = {} /\ Checkpointed' = {last}
    BY <2>2, <2>3 DEF Here, Mapping, Recovering, InGame, Levelling, Locking
  <2> QED
    BY <1>2, <2>4, IdleStep
<1>4. CASE RecoverCurrent
  <2>1. at' = "recover_state"
    BY <1>4 DEF RecoverCurrent
  <2>2. Running' = {} /\ ~Restoring' /\ Saved' = {last'} /\ Checkpointed' = {}
    BY <2>1 DEF Here, Mapping, Recovering, InGame, Levelling, Locking
  <2> QED
    BY <1>1, <1>2, <2>2, IdleStep
<1> QED
  BY <1>3, <1>4

(* A crash.                                                                *)
LEMMA MapCrash ==
  ASSUME Here, Here', HarmlessStrikes, Crash
  PROVE  Implemented
<1>1. /\ at \in {"getlock", "new", "play", "restore", "restore_levels", "restore_level", "restored", "keep_save", "recover"}
      /\ at' = "off" /\ file0' = file0 /\ lfile' = lfile
      /\ save' = save \/ (at = "recover" /\ ~Complete(save'))
  BY CrashLeaves DEF Here, Exit
<1>2. /\ Running' = {} /\ ~Restoring' /\ Saved' = OnDisk'
      /\ Checkpointed' = IF file0.st = "full" /\ AllFull THEN {InFiles} ELSE {}
  <2>1. Checkpointed' = IF file0'.st = "full" /\ AllFull' THEN {InFiles'} ELSE {}
    BY <1>1 DEF Here, Mapping
  <2> QED
    BY <1>1, <2>1, Stays DEF Here, Mapping, Ended, InGame, Levelling, Locking
<1>3. CASE at \in {"getlock", "new"}
  <2>1. Running = {} /\ ~Restoring /\ Saved = OnDisk
    BY <1>3 DEF Here, Mapping, Ended, InGame, Levelling, Locking
  <2>2. Checkpointed' = Checkpointed
    BY <1>2, <1>3 DEF Here, Mapping, HInv, LockAgrees, InGame, Levelling, Locking
  <2> QED
    BY <1>1, <1>2, <1>3, <2>1, <2>2, DiskStays, IdleStep
<1>4. CASE at = "play"
  <2>1. Running = {InPlay} /\ ~Restoring /\ Saved = OnDisk /\ Checkpointed = IF file0.st = "full" THEN {last} ELSE {}
    BY <1>4 DEF Here, Mapping, InGame, Levelling
  <2>2. Checkpointed' = Checkpointed
    BY <1>2, <1>4, <2>1 DEF Here, HInv, Checked
  <2> QED
    BY <1>1, <1>2, <1>4, <2>1, <2>2, DiskStays, LastStep
<1>5. CASE at = "recover"
  <2>1. Running = {} /\ ~Restoring /\ Saved = {} /\ Checkpointed = IF file0.st = "full" /\ AllFull THEN {InFiles} ELSE {}
    BY <1>5 DEF Here, Mapping, Recovering, InGame, Levelling, Locking
  <2>2. OnDisk' = {}
    <3>1. ~Complete(save')
      BY <1>1, <1>5, EmptySaves DEF Here, HInv, ToSave
    <3> QED
      BY <3>1 DEF OnDisk
  <2> QED
    BY <1>2, <2>1, <2>2, IdleStep
<1>6. CASE at \in {"restore", "restore_levels", "restore_level", "restored", "keep_save"}
  <2>1. Running = {} /\ Restoring /\ Checkpointed = {}
    BY <1>6 DEF Here, Mapping, InGame, Levelling, Locking
  <2>2. Saved' = {}
    BY <1>1, <1>2, <1>6, DiskStays, EmptySaves DEF Here, HInv, SaveOpen, Restored, RestoreAgrees, Process
  <2>3. Checkpointed' \in {{}, Saved}
    <3>1. CASE at = "restore"
      BY <1>2, <3>1 DEF Here, HInv, LockAgrees
    <3>2. CASE at \in {"restore_levels", "restore_level"}
      <4>1. Saved = {last}
        BY <3>2 DEF Here, Mapping
      <4> QED
        BY <1>2, <3>2, <4>1, RestoreInterrupted DEF Here
    <3>3. CASE at \in {"restored", "keep_save"}
      <4>1. Saved = {last}
        BY <3>3 DEF Here, Mapping
      <4> QED
        BY <1>2, <3>3, <4>1 DEF Here, HInv, Checked
    <3> QED
      BY <1>6, <3>1, <3>2, <3>3
  <2> QED
    BY <1>2, <2>1, <2>2, <2>3, LoadStep
<1> QED
  BY <1>1, <1>3, <1>4, <1>5, <1>6

(* hangup saves the game that is played, or ends it.                       *)
LEMMA MapHangup ==
  ASSUME Here, Here', HarmlessStrikes, hangup
  PROVE  Implemented
<1>1. /\ at \in Phases \ (Saving \cup Recovering \cup {"off", "tricked", "clear", "getlock", "erase", "discard", "left"})
      /\ \/ something_worth_saving /\ ~save.locked /\ BeginSave
         \/ clearlocks /\ (save' = save \/ (save.locked /\ save' = NoSave))
  BY DEF hangup, HarmlessStrikes, Here, TypeInv, AtOK
<1>2. CASE InGame
  BY <1>1, <1>2, MapBeginSave, MapClearlocks
<1>3. CASE at = "new"
  <2>1. clearlocks /\ save' = save
    BY <1>1, <1>3 DEF hangup, Here, HInv, Off
  <2>2. at' = "clear"
    BY <2>1 DEF clearlocks
  <2>3. /\ Running = {} /\ ~Restoring /\ Saved = OnDisk /\ Checkpointed = {}
        /\ Running' = {} /\ ~Restoring' /\ Saved' = OnDisk' /\ Checkpointed' = {}
    BY <1>3, <2>2 DEF Here, Mapping, Ended, InGame, Levelling, Locking
  <2> QED
    BY <2>1, <2>3, DiskStays, IdleStep
<1>4. CASE at \in {"restore", "restore_levels", "restore_level", "restored", "keep_save"} \/ (at \in Locking /\ restoring)
  <2>1. Running = {} /\ Restoring /\ Checkpointed = {} /\ (at # "restore" => Saved = {last})
    BY <1>4 DEF Here, Mapping, InGame, Levelling, Locking
  <2>2. CASE clearlocks /\ (save' = save \/ (save.locked /\ save' = NoSave))
    <3>1. at' = "clear"
      BY <2>2 DEF clearlocks
    <3>2. Running' = {} /\ ~Restoring' /\ Saved' = OnDisk' /\ Checkpointed' = {}
      BY <3>1 DEF Here, Mapping, Ended, InGame, Levelling, Locking
    <3>3. save.locked \/ save = NoSave
      BY <1>4 DEF Here, HInv, SaveOpen, Restored, RestoreAgrees, Process, Locking
    <3>4. OnDisk' = {}
      BY <2>2, <3>3, EmptySaves, DiskStays
    <3> QED
      BY <2>1, <3>2, <3>4, LoadStep
  <2>3. CASE something_worth_saving /\ BeginSave
    <3>1. at = "keep_save" /\ InPlay = last
      BY <1>4, <2>3 DEF Here, HInv, Off, Process, Restored, Locking
    <3>2. at' = "save" /\ last' = last
      BY <2>3, <3>1 DEF BeginSave
    <3>3. Running' = {} /\ ~Restoring' /\ Saved' = {last'} /\ Checkpointed' = {}
      BY <3>2 DEF Here, Mapping, Saving, InGame, Levelling, Locking
    <3> QED
      BY <2>1, <3>1, <3>2, <3>3, LoadStep
  <2> QED
    BY <1>1, <2>2, <2>3
<1> QED
  BY <1>1, <1>2, <1>3, <1>4 DEF InGame, Phases, Levelling, Locking, Saving, Recovering

(* Every step of the files is a step of the game, or none.                 *)
LEMMA MapStep ==
  ASSUME Here, Here', HarmlessStrikes, [Next]_vars
  PROVE  Implemented
<1>1. CASE UNCHANGED vars
  <2>1. /\ at' = at /\ fobj' = fobj /\ state' = state /\ restoring' = restoring /\ lfile' = lfile
        /\ file0' = file0 /\ save' = save /\ last' = last
    BY <1>1 DEF vars, memory, process, files
  <2>2. InSave' = InSave /\ InPlay' = InPlay /\ InFiles' = InFiles /\ (AllFull' <=> AllFull) /\ (Restoring' <=> Restoring)
    BY <2>1, Stays DEF Restoring
  <2>3. Running' = Running /\ Saved' = Saved /\ Checkpointed' = Checkpointed
    BY <2>1, <2>2 DEF Running, Saved, Checkpointed, Complete
  <2> QED
    BY <2>1, <2>2, <2>3, NoStep DEF Loads, Explores
<1>2. CASE DeleteLevel
  BY <1>2, MapPlay, MapFiles DEF DeleteLevel
<1> QED
  BY <1>1, <1>2, MapStart, MapNewgame, MapPlay, MapLock, MapSave, MapFiles, MapDorecover, MapRestore, MapRecover,
     MapCrash, MapHangup
  DEF Next, Handlers, Player

(* Whatever strikes where a disaster is survived, the files implement one  *)
(* game that is played, saved, checkpointed and restored at a stroke.      *)
THEOREM FilesImplementGame ==
  ASSUME HarmlessStrikes
  PROVE  Spec => Atomically
<1>1. Init => Atomic!Init
  <2> SUFFICES ASSUME Init PROVE Atomic!Init
    OBVIOUS
  <2>1. TypeInv /\ HInv
    BY InitType, HarmlessInit
  <2>2. at = "off" /\ file0.st = "absent" /\ save = NoSave
    BY Locks DEF Init
  <2>3. Running = {} /\ ~Restoring /\ Saved = {} /\ Checkpointed = {}
    BY <2>1, <2>2, Maps, EmptySaves DEF Mapping, Ended, OnDisk, InGame, Levelling, Locking
  <2> QED
    BY <2>3 DEF Atomic!Init
<1>2. TypeInv /\ FInv /\ HInv /\ (TypeInv /\ FInv /\ HInv)' /\ [Next]_vars => [Atomic!Next]_Atomic!vars
  <2>1. TypeInv /\ FInv /\ HInv => Here
    BY Maps DEF Here
  <2>2. (TypeInv /\ FInv /\ HInv)' => Here'
    BY <2>1, PTL
  <2> QED
    BY <2>1, <2>2, MapStep DEF Implemented
<1> QED
  BY <1>1, <1>2, HarmlessInvariant, PTL DEF Spec, Atomically, Atomic!Spec

=============================================================================
