CONSTANTS
  p = p
  m = m
  n = n
  r = r
  s = s
  Void = void
  Nowhere = nowhere
  None = none
  Wounds = {0, 4}
  MaxBlows = 1
  Players = {p}
  Mobs <- Duellists
  Rooms <- TwoRooms
SPECIFICATION FairSpec
INVARIANTS TypeOK FightersListed NoGhostFights FightingPos
PROPERTIES FightsApartEnd
