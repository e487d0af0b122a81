CONSTANTS
  p = p
  m = m
  n = n
  r = r
  s = s
  Void = void
  Nowhere = nowhere
  None = none
  Wounds = {0, 2, 4}
  MaxBlows = 1
  Players = {p}
  Mobs <- Duellists
  Rooms = {r}
SPECIFICATION TickSpec
PROPERTIES SlowlyDies
