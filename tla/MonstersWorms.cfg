\* Worms cut, moved, cloned, revived and displaced, within a level and from level to level.
SPECIFICATION Spec
CONSTANTS
  m1 = m1
  m2 = m2
  None = None
  Hero = Hero
  Mon      = {m1, m2}
  Square   = {1, 2, 3, 4, 5}
  Near     <- Rows
  MaxWorms = 2
  MaxTail  = 2
  Stairs   = {1}
  Deeds    = {"worms", "levels", "clone", "revive", "nearto", "displace"}
SYMMETRY Interchangeable
INVARIANTS TypeOK MapAgrees WormsHaveTails TailsAreOwned
PROPERTIES HandlesEach
