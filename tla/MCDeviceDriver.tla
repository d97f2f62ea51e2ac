---------------------------- MODULE MCDeviceDriver ----------------------------
(***************************************************************************)
(* Drivers for TLC: one that uses commands of the mass storage device with *)
(* one and three words and three of its registers, and now and then sends  *)
(* a command with too few or too many words; and the repository's own      *)
(* requests, with what the manual and the boot code say they mean.         *)
(***************************************************************************)
EXTENDS DeviceDriver

\* A parameter is a word or, as a name, several of them.
Ask(cmd, parameters) ==
  Command(cmd, FlattenSeq(parameters),
          Operation(cmd, [i \in DOMAIN parameters |->
                            IF Len(parameters[i]) = 1 THEN parameters[i][1] ELSE parameters[i]]))

\* "get last error code" is in the manual; HDD.cpp does not know it.
GETERR == 32
DiskBytes == {ById.SHOWID, ById.READID, GETERR}
DiskArgc == [c \in DiskBytes |-> get_argc(c)]
DiskRegInit == reg(<<2, 1>>)
DiskRegs == DOMAIN DiskRegInit
DiskWords == {1, 2, 9, 256 + 2}

\* The value written would itself select a register.
RegisterRequests ==
  {RegisterRead(HDD_REG_IDC), RegisterRead(9), RegisterWrite(HDD_REG_CWD, 258)}
CountedRequests == {Ask(ById.SHOWID, <<<<1>>>>), Ask(ById.READID, <<<<1>>, <<258>>, <<2>>>>)}
\* Four words too few, and one too many (it selects a register).
MiscountedRequests == {Ask(GETERR, <<>>), Ask(ById.SHOWID, <<<<1>>, <<258>>>>)}
DiskRequests == RegisterRequests \cup CountedRequests \cup MiscountedRequests

\* The manual's "get last error code" and "list directory", and what boot.s
\* and bios.c do: "kr", "nl" and an end mark, then address, offset and size.
WrittenRequests ==
  {Ask(GETERR, <<>>),
   Ask(ById.SHOWID, <<<<1>>, <<258>>>>),
   RegisterWrite(HDD_REG_CWD, 1),
   Ask(ByName.READNM, <<<<27506, 28268, 241>>, <<1024>>, <<0>>, <<512>>>>)}
WrittenBytes == {ById.SHOWID, ByName.READNM, GETERR}
WrittenArgc == [c \in WrittenBytes |-> get_argc(c)]
WrittenWords == {0, 1, 241, 256 + 1, 258, 512, 1024, 27506, 28268}

\* The stub operations of the mass storage device all return zero.
ZeroResult == {0}
===============================================================================
