\* The disk driver against its device: any order of commands, register reads
\* and register writes, two commands, with and without the words the device
\* counts. The countdown has four values, so that a command without arguments
\* is queued after four words.
CONSTANTS
  Bytes <- DiskBytes
  Words <- DiskWords
  Argc <- DiskArgc
  ArgsRead <- DiskArgc
  ArgcMod = 4
  Regs <- DiskRegs
  RegInit <- DiskRegInit
  Results <- ZeroResult
  InitialResults <- ZeroResult
  MaxCommands = 2
  Requests <- DiskRequests
SPECIFICATION DriverSpec
INVARIANTS
  CommandsAreWhole
  FramingAgrees
  ExactlyOnceInOrder
  RegistersAsWritten
  QuietRegisterRead
PROPERTIES
  MutexComesFree
  QueueDrains
  ImplementsService
