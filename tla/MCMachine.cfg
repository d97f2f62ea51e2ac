\* The wiring of main(), and any program that sends at most one PMI command.
CONSTANTS
  MaxCommands = 1
  Numbers = {"0x00", "0x01", "0x02", "0x04", "0x05", "0x0C", "0x0F"}
SPECIFICATION MachineSpec
INVARIANTS
  StartsAreSignalled
  SignalKept
  AccessReachesRegistered
  MemoryOutlivesReaders
PROPERTIES
  SignalStartsOrCloses
  DestructionEnds
\* main() returns, or hangs with the CPU's thread.
CHECK_DEADLOCK FALSE
