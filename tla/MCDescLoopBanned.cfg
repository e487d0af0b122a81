CONSTANTS
  Avail = 6
  s = 1
  NoFd = NoFd
SPECIFICATION LoopSpec
INVARIANTS FullHasPlayers
