\* Monsters that change shape, carry the hero, swallow each other and explode.
SPECIFICATION Spec
CONSTANTS
  m1 = m1
  m2 = m2
  None = None
  Hero = Hero
  Mon      = {m1, m2}
  Square   = {1, 2, 3, 4}
  Near     <- Rows
  MaxWorms = 2
  MaxTail  = 1
  Stairs   = {1}
  Deeds    = {"worms", "polymorph", "ride", "engulf", "levels"}
SYMMETRY Interchangeable
INVARIANTS MapAgrees PurgeAgrees SteedInStep
