CONSTANTS
  p = p
  m = m
  n = n
  r = r
  s = s
  Void = void
  Nowhere = nowhere
  None = none
  Wounds = {0, 4}
  MaxBlows = 1
  Players = {p}
  Mobs <- Melee
  Rooms = {r}
SPECIFICATION Spec
SYMMETRY Alike
CONSTRAINT Small
PROPERTIES OneTurnEach
