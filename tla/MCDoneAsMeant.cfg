\* The requests the repository's manual and boot code write down, against the
\* device as it is: do they do what is said of them?
CONSTANTS
  Bytes <- WrittenBytes
  Words <- WrittenWords
  Argc <- WrittenArgc
  ArgsRead <- WrittenArgc
  ArgcMod = 256
  Regs <- DiskRegs
  RegInit <- DiskRegInit
  Results <- ZeroResult
  InitialResults <- ZeroResult
  MaxCommands = 1
  Requests <- WrittenRequests
SPECIFICATION DriverSpec
INVARIANTS
  DoneAsMeant
