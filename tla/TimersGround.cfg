\* One level: eggs that split and merge, a chest that is buried with them in it.
SPECIFICATION Spec
CONSTANTS
  Revivers   = {}
  Corpses    = {}
  Eggs       = {e1, e2}
  LargeBoxes = {b1}
  IceBoxes   = {}
  Mon        = {}
  Level      = {l1}
  Delays     = {1}
  Overdue    <- LongOverdue
  MaxMoves   = 3
  Nobody     = Nobody
INVARIANTS RotOrganicInGround
\* the last turn is a bound of the model
SYMMETRY Interchangeable
CHECK_DEADLOCK FALSE
