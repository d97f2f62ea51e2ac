\* Two commands with rectangles on the screen; the framebuffer may move once.
CONSTANTS
  ByteMod = 8
  SizeX = 3
  SizeY = 2
  RamBit <- MCRamBit
  Addresses <- MCAddresses
  Requests <- ScreenRequests
  MaxRequests = 2
  MaxMoves = 1
SPECIFICATION FairSpec
INVARIANTS
  FillsRectangle
  StaysInBuffer
PROPERTIES
  CommandReturns
\* The program may send no further command.
CHECK_DEADLOCK FALSE
