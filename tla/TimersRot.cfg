\* Two corpses that merge while their decay is running, an ice box, a monster to carry them.
SPECIFICATION Spec
CONSTANTS
  Revivers   = {}
  Corpses    = {c1, c2}
  Eggs       = {}
  LargeBoxes = {}
  IceBoxes   = {i1}
  Mon        = {m1}
  Level      = {l1}
  Delays     = {1}
  Overdue    <- LongOverdue
  MaxMoves   = 2
  Nobody     = Nobody
INVARIANTS TypeOK OneDecay
\* the last turn is a bound of the model
SYMMETRY Interchangeable
CHECK_DEADLOCK FALSE
