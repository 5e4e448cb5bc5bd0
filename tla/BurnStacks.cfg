\* Two levels: two stacks of candles, with a price or without, and a magic lamp.
SPECIFICATION Spec
CONSTANTS
  Candles    = {c1, c2}
  Torches    = {}
  Lamps      = {}
  Oils       = {}
  MagicLamps = {m1}
  ForSale    = {c1, c2}
  Level      = {l1, l2}
  Stages     = {0, 2}
  Full       = 3
  Bracket    = 2
  MaxMoves   = 3
  Nowhere    = Nowhere
INVARIANTS TypeOK LitMeansBurning KeptWithOwner SaveNeverPanics
PROPERTIES FuelIsTime
SYMMETRY Interchangeable
\* the last turn is a bound of the model
CHECK_DEADLOCK FALSE
