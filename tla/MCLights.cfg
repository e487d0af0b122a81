SPECIFICATION BelongSpec
CONSTANTS
  Obj = {1}
  Pc = {"p"}
  Mob = {}
  Chamber = {"r", "s"}
  Slot = {"light"}
  Cap = 2
  MaxLight = 2
  NOWHERE = NOWHERE
  NIL = NIL
INVARIANT LightCounted
CHECK_DEADLOCK FALSE
