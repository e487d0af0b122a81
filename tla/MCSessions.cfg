SPECIFICATION Spec
CONSTANTS
  Desc = {d1, d2, d3}
  Char = {c1, c2, c3, c4}
  mortal = mortal
  wizard = wizard
  elder = elder
  Name <- MCTwo
  Level <- MCLevel
  IMO = 2
  IdleVoid = 1
  IdleOut = 3
  NULL = NULL
SYMMETRY Sym
INVARIANTS
  TypeOK
  LinksMatch
  StateMatchesWorld
  OneBodyPerName
  SnoopsMatch
  NeverInNowhere
PROPERTIES
  OnlyOwnerReconnects
