SPECIFICATION EditSpec
CONSTANTS
  Editor = {"a"}
  Kinds = {"OBJ"}
  Used = 2
  Values = {0}
  Types = {"FIREWEAPON"}
PROPERTY EditorsGetOut
CHECK_DEADLOCK FALSE
