----------------------------- MODULE MCControlUnit -----------------------------
(***************************************************************************)
(* Programs for TLC. Every program sets the stack pointer, loads a table   *)
(* of nine vectors (or does not), and goes on with all sequences of a few  *)
(* instructions. The handlers all begin at address 64; the table is at 96. *)
(***************************************************************************)
EXTENDS ControlUnit, SequencesExt

Vectors == 9
Table == <<Vectors - 1>> \o [i \in 1 .. 2 * Vectors |-> IF i % 2 = 1 THEN 0 ELSE 64]

HighStack == <<155, 254, 0>>      \* SUB sp, 0xfe00: sp = 512
EdgeStack == <<155, 0, 1>>        \* SUB sp, 1: sp = 65535
LoadTable == <<182, 0, 96>>       \* LIVT 96
LoadTableDynamic == <<111, 0, 96, 99, 183>>   \* MOV dx, 96; MOV ax, dx; LIVT ax
LoadNothing == <<>>
Setups == {HighStack \o LoadTable, HighStack \o LoadNothing, LoadTable,
           EdgeStack \o LoadTableDynamic}

\* CMP ax, 1; CMP bx, dx; SUB ax, 2; ADD bx, dx; JNE +3; JL -2; JGE +2; PUSH ax;
\* PUSH8 bp-1; PUSH8 0x12; POP ax; POP8 al; INT #U1; IRET; IN ax; MOV bx, ax; HLT
Instructions ==
  {<<121, 0, 1>>, <<122>>, <<152, 0, 2>>, <<151>>, <<117, 3>>, <<116, 254>>, <<118, 2>>,
   <<128>>, <<134, 255>>, <<133, 18>>, <<136>>, <<138>>, <<181>>, <<187>>, <<32>>, <<100>>, <<188>>}

\* The rest of the instruction set, one of each kind.
Others ==
  {<<0>>, <<64, 1, 2>>, <<80, 1>>, <<48>>, <<112>>, <<113, 0, 64>>, <<114, 2>>, <<115, 2>>, <<119, 2>>,
   <<126>>, <<129, 1, 2>>, <<131, 1>>, <<148, 0, 1>>, <<159>>, <<140>>, <<180>>, <<190>>, <<212>>, <<189>>,
   <<182, 0, 200>>}   \* LIVT 200: the byte 255 there is the last index

Handlers == {<<145, 187>>, <<133, 7, 138, 181>>}   \* ADD ax, bx; IRET | PUSH8 7; POP8 al; INT #U1

\* The byte of a program at an address of the ROM.
MCImage(p, a) ==
  CASE a < Len(p.code) -> p.code[a + 1]
    [] a \in 64 .. 63 + Len(p.handler) -> p.handler[a - 63]
    [] a \in 96 .. 95 + Len(Table) -> Table[a - 95]
    [] a = 200 -> 255
    [] OTHER -> 0

TwoOf(S) == {a \o b : a \in S, b \in S}
MCPrograms ==
  {[code |-> s \o b \o <<188>>, handler |-> h] :
     s \in Setups, b \in TwoOf(Instructions) \cup Others, h \in Handlers}

MCInputWords == {1, 65535}
===============================================================================
