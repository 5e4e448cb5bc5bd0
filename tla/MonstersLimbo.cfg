\* The timer of a polymorphed monster goes off while it is between two levels.
SPECIFICATION Spec
CONSTANTS
  m1 = m1
  m2 = m2
  None = None
  Hero = Hero
  Mon      = {m1, m2}
  Square   = {1, 2, 3, 4}
  Near     <- Rows
  MaxWorms = 2
  MaxTail  = 1
  Stairs   = {1}
  Deeds    = {"worms", "polymorph", "levels", "limbo"}
INVARIANTS WormsHaveTails
