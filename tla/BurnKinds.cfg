\* One level: torches that split and merge, a lamp that is filled with oil.
SPECIFICATION Spec
CONSTANTS
  Candles    = {}
  Torches    = {t1, t2}
  Lamps      = {p1}
  Oils       = {o1}
  MagicLamps = {}
  ForSale    = {o1}
  Level      = {l1}
  Stages     = {0}
  Full       = 1
  Bracket    = 1
  MaxMoves   = 2
  Nowhere    = Nowhere
PROPERTIES FuelIsTime
SYMMETRY Interchangeable
\* the last turn is a bound of the model
CHECK_DEADLOCK FALSE
