SPECIFICATION ServicesSpec
CONSTANTS
  Person = {"p", "q"}
  Wizard = {"q"}
  Item = {"i", "j", "k"}
  MAX_MSGS = 2
  Nobody = "nobody"
  Room = {"a", "b", "m"}
  Dir = {"E", "W"}
  rev_dir <- Opposite
  Exit = {"ab", "ba", "aw", "be", "mb", "mm"}
  From <- Starts
  Aim <- Aims
  To <- Ends
  Doors = {"ab", "ba", "aw", "be"}
  Keyed = {"ab", "ba"}
  Pickproof = {"ba"}
  N = 3
  Mode <- Modes
  Lifespan <- Lifespans
  ZoneOf <- ZonesOf
  Sets <- Commands
  Maze <- Mazes
  MAX_RESETS = 1
  Player = {"p"}
  NOWHERE = "nowhere"
  NULL = "null"
  Customer = {"p", "q"}
  Imp = {"q"}
  Account = {"a"}
  BANK_MAX_ALLOW = 2
  Ware = {"x", "y", "z"}
  Produced = {"y", "z"}
  Price <- Prices
  Offer <- Offers
  Carry = 1
  W = 4
  Keeper = "keeper"
  NoOne = "nobody"
  Reader = {"p", "q"}
  Screens = {1, 2}
  MaxLines = 3
  MaxUnits = 3
  Words <- Keywords
  MaxHelp = 5
  Editor = {"a", "b"}
  Kinds = {"OBJ", "MOB", "ROOM", "ZONE"}
  Used = 3
  Values = {0, 1}
  Types = {"SCROLL", "WAND", "DRINKCON", "WEAPON", "CONTAINER", "TRAP", "ARMOR", "LIGHT", "OTHER"}
  Starting <- Beginnings
  Minutes <- Delays
  MaxTyped = 3
  Renter = {"p", "w"}
  Immortal = {"w"}
  Thing = {"a", "b", "k", "g"}
  Unrentable = {"k"}
  Insurable = {"k", "g"}
  Gone = {"g"}
  Tradable = {"a", "b"}
  Kind <- KindOf
  Size <- SizeOf
  Hands = 2
  MAX_LOCKER_ITEM = 2
  Kept = 1
  MAX_INSURE = 3
INVARIANTS
  TypesOK
  UnitsApart
  HeadsMatch
  TurnsLatest
  HelpFinds
  RebootKeeps
  DoorsAgree
PROPERTIES
  WhoAsksGetsOut
  NoCoinsMade
  NoMoreCopies
  KeysReturned
  DoorZonesReset
  GoesDown
CHECK_DEADLOCK FALSE
