\* Every pair of instructions after every setup, with IRQs at any instruction.
CONSTANTS
  Programs <- MCPrograms
  Image <- MCImage
  RamSize = 8192
  InputWords <- MCInputWords
  IrqNumbers = {8, 9}
  MaxCycles = 12
SPECIFICATION Spec
INVARIANTS
  HandlersNest
  CompareDecides
  NoPushUnderRom
\* The emulator ends, or the bound is reached.
CHECK_DEADLOCK FALSE
