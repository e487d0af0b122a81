CONSTANTS
  Text <- MCText
  a = a
  b = b
  NULL = NULL
  MaxOutque = 5
  MinSize = 2
  Default = 3
  Stored <- MCDefault
  OtherPrompts = TRUE
  SlowSocket = TRUE
SPECIFICATION Spec
INVARIANTS StringsOwned
PROPERTY IsScrollQueue
