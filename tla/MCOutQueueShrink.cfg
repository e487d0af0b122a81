CONSTANTS
  Text <- MCText
  a = a
  b = b
  NULL = NULL
  MaxOutque = 5
  MinSize = 2
  Default = 3
  Stored <- Size
  OtherPrompts = TRUE
  SlowSocket = FALSE
SPECIFICATION Spec
INVARIANTS NextIsString
