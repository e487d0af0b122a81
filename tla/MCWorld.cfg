CONSTANTS
  Initial = 2
  Delta = 1
  Memory = 3
  Owner <- MCOwner
  c1 = c1
  c2 = c2
  c3 = c3
  NULL = NULL
  Avail = 6
  Spell = {"bless", "strength", "sleep"}
  Pieces <- PiecesOf
  Mod <- ModOf
  Lasts <- DurationOf
  Bit <- BitOf
  Joins = {"strength", "sleep"}
  Averages = {"strength"}
  Item = {"ring", "sword"}
  ItemMod <- ItemModOf
  ItemBit <- ItemBitOf
  Evil = {"sword"}
  Round = {"fear"}
  RoundBit <- RoundBitOf
  MaxBase = 1
  MaxMod = 2
  MaxDur = 1
  NoBit = "none"
  s = 1
  NoFd = NoFd
  Char = {"p", "q", "m"}
  Npc = {"m"}
  Room = {"r", "s"}
  Positions = {4, 5, 6, 8}
  NONE = NONE
  Obj = {1, 2, 3}
  Pc = {"p"}
  Mob = {"m"}
  Chamber = {"r"}
  Slot = {"light", "head"}
  Cap = 2
  MaxLight = 0
  NOWHERE = NOWHERE
  NIL = NIL
SPECIFICATION WorldSpec
SYMMETRY Owners
INVARIANTS
  TypesOK
  ListsAgree
  WalkCovers
  PassCovers
  SelectSeesAll
  OnePlace
  LinksAgree
  NoLoops
  EffectsAgree
PROPERTIES
  IsPool
  GroupEnds
CHECK_DEADLOCK FALSE
