\* Any rectangle, one command.
CONSTANTS
  ByteMod = 8
  SizeX = 3
  SizeY = 2
  RamBit <- MCRamBit
  Addresses <- MCAddresses
  Requests <- AllRequests
  MaxRequests = 1
  MaxMoves = 0
SPECIFICATION FairSpec
PROPERTY EveryCommandReturns
CHECK_DEADLOCK FALSE
