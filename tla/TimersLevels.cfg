\* Two levels: a reviver's corpse, an ice box and a monster, saved, restored and relinked.
SPECIFICATION Spec
CONSTANTS
  Revivers   = {t1}
  Corpses    = {}
  Eggs       = {}
  LargeBoxes = {}
  IceBoxes   = {i1}
  Mon        = {m1}
  Level      = {l1, l2}
  Delays     = {1}
  Overdue    <- LongOverdue
  MaxMoves   = 3
  Nobody     = Nobody
INVARIANTS SortedTimers TimedIsCount KeptWithOwner UniquePairs
PROPERTIES RunTimersDrains TimersSurvive CallsReturn
\* the last turn is a bound of the model
CHECK_DEADLOCK FALSE
