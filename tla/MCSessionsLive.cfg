SPECIFICATION Spec
CONSTANTS
  Desc = {d1}
  Char = {c1, c2}
  mortal = mortal
  wizard = wizard
  elder = elder
  Name <- MCTwo
  Level <- MCLevel
  IMO = 2
  IdleVoid = 1
  IdleOut = 3
  NULL = NULL
PROPERTIES
  GhostsLeave
