\* Two corpses that merge in a sack and go moldy there.
SPECIFICATION Spec
CONSTANTS
  Revivers   = {}
  Corpses    = {c1, c2}
  Eggs       = {}
  LargeBoxes = {b1}
  IceBoxes   = {}
  Mon        = {m1}
  Level      = {l1}
  Delays     = {1}
  Overdue    <- LongOverdue
  MaxMoves   = 2
  Nobody     = Nobody
INVARIANTS RemainingCorpsesRot
\* the last turn is a bound of the model
CHECK_DEADLOCK FALSE
