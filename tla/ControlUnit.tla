------------------------------ MODULE ControlUnit ------------------------------
(***************************************************************************)
(* The processor: ControlUnit (emulator/ControlUnit.cpp), the instructions *)
(* it implements (emulator/Executor.cpp) and the memory it sees (ROM below *)
(* 384, main memory above it). One cycle() is two steps here: the question *)
(* whether an IRQ is up, and one instruction. Words and bytes have their   *)
(* real widths; the byte order of every access is that of MemoryData.h.    *)
(*                                                                         *)
(* What OUT sends goes to the devices (module ConventionalDevice) and      *)
(* leaves the processor as it is; what IN returns is any of InputWords.    *)
(***************************************************************************)
EXTENDS Integers, Sequences, TLC

CONSTANTS
  Programs,      \* names of the ROM images
  Image(_, _),   \* the byte of an image at an address; zero beyond its end
  RamSize,       \* size of main memory (8192)
  InputWords,    \* what IN may return
  IrqNumbers,    \* what the interrupt controller may report as number()
  MaxCycles      \* bound: instructions executed

Byte == 0 .. 255
Word == 0 .. 65535
RomEnd == 384

ASSUME ControlUnitAssumption ==
  /\ \A p \in Programs : \A a \in 0 .. RomEnd : Image(p, a) \in Byte
  /\ RamSize \in Word
  /\ InputWords \subseteq Word
  /\ IrqNumbers \subseteq Nat
  /\ MaxCycles \in Nat

GREATER == 2
OVERFLOW == 4
ZERO == 8
IN_IRQ == 16
EXCEPTION == 64
FlagBits == {GREATER, OVERFLOW, ZERO, IN_IRQ, EXCEPTION}

INT_INVALID_INSTRUCTION == 1
INT_USER1 == 6
INT_USER2 == 7

Gprs == {"ax", "bx", "cx", "dx"}
Registers == Gprs \cup {"sp", "bp"}

VARIABLES
  rom,       \* the ROM image
  ram,       \* main memory: the bytes written so far, all others are zero
  reg,       \* [Registers -> Word]
  ip,        \* instruction pointer
  flags,     \* SUBSET FlagBits: m_flags
  ivt,       \* m_ivt: Seq(Word)
  halted,    \* m_is_halted
  step,      \* where cycle() is: "irq" or "insn"
  run,       \* "on", or why the emulator ended: "double_fault", "rom_write",
             \* "invalid_insn_1", or "undefined" (write outside m_ivt)
  cycles,    \* instructions executed
  frames,    \* interrupts taken, in order: "irq" or "exception"
  compared   \* operands of the last CMP, if no ADD or SUB came after it

vars == <<rom, ram, reg, ip, flags, ivt, halted, step, run, cycles, frames, compared>>

Init ==
  /\ rom \in Programs
  /\ ram = <<>>
  /\ reg = [r \in Registers |-> 0]
  /\ ip = 0
  /\ flags = {}
  /\ ivt = <<>>
  /\ halted = FALSE
  /\ step = "irq"
  /\ run = "on"
  /\ cycles = 0
  /\ frames = <<>>
  /\ compared = <<>>

-------------------------------------------------------------------------------
(* Memory. A word access stays in the memory of its first byte.              *)

RomByte(a) == Image(rom, a)
RamByte(a) == IF a \in DOMAIN ram THEN ram[a] ELSE 0
Wrap(n) == n % 65536

Read8(a) == IF a < RomEnd THEN RomByte(a) ELSE RamByte(a)
Read16(a) == IF a < RomEnd THEN 256 * RomByte(a) + RomByte(Wrap(a + 1))
                           ELSE 256 * RamByte(a) + RamByte(Wrap(a + 1))

\* Memory::write_memory; an address outside of the memory is only logged.
Put8(mem, a, b) ==
  IF a < RamSize THEN [x \in DOMAIN mem \cup {a} |-> IF x = a THEN b ELSE mem[x]] ELSE mem
\* MemoryDestination::write: the low byte first.
Put16(mem, a, w) == Put8(Put8(mem, a, w % 256), Wrap(a + 1), w \div 256)

Signed(b) == IF b < 128 THEN b ELSE b - 256
FlagValue(f, S) == IF f \in S THEN f ELSE 0
FlagWord(S) == FlagValue(GREATER, S) + FlagValue(OVERFLOW, S) + FlagValue(ZERO, S)
                 + FlagValue(IN_IRQ, S) + FlagValue(EXCEPTION, S)

\* exit(-1): nothing changes any more.
Exit(why) ==
  /\ run' = why
  /\ UNCHANGED <<rom, ram, reg, ip, flags, ivt, halted, frames, compared>>

-------------------------------------------------------------------------------
(* Interrupts.                                                               *)

\* The end of raise_interrupt for a number in the table: return address and
\* flags (with the new one) go on the stack, then the handler is entered.
Enter(n, return, newflags, kind) ==
  LET sp == reg["sp"] IN
  IF sp < RomEnd \/ Wrap(sp + 2) < RomEnd
    THEN Exit("rom_write")
    ELSE /\ ram' = Put16(Put16(ram, sp, return), Wrap(sp + 2), FlagWord(newflags))
         /\ reg' = [reg EXCEPT !["sp"] = Wrap(sp + 4)]
         /\ flags' = newflags
         /\ ip' = ivt[n + 1]
         /\ halted' = FALSE
         /\ frames' = Append(frames, kind)
         /\ UNCHANGED <<rom, ivt, run, compared>>

\* raise_interrupt(n, internal = true), the instruction ending at "return".
\* Without an entry for n the function calls itself for INT_UNSPECIFIED, with
\* FLAG_EXCEPTION just set: that call is the double fault.
RaiseInternal(n, return) ==
  IF EXCEPTION \in flags \/ n >= Len(ivt)
    THEN Exit("double_fault")
    ELSE Enter(n, return, flags \cup {EXCEPTION}, "exception")

\* Mutant: FLAG_EXCEPTION does not keep IRQs away.
TakeIrq_in_exception(n) ==
  /\ run = "on" /\ ~halted /\ step = "irq" /\ cycles < MaxCycles
  /\ IN_IRQ \notin flags
  /\ n < Len(ivt)
  /\ Enter(n, ip, flags \cup {IN_IRQ}, "irq")
  /\ step' = "insn"
  /\ UNCHANGED cycles

\* First half of cycle(): the controller has an IRQ with a number of the table.
TakeIrq(n) ==
  /\ run = "on" /\ ~halted /\ step = "irq" /\ cycles < MaxCycles
  /\ flags \cap {IN_IRQ, EXCEPTION} = {}
  /\ n < Len(ivt)
  /\ Enter(n, ip, flags \cup {IN_IRQ}, "irq")
  /\ step' = "insn"
  /\ UNCHANGED cycles

\* No IRQ is up, it is masked by a flag, or its number is not in the table.
NoIrq ==
  /\ run = "on" /\ ~halted /\ step = "irq" /\ cycles < MaxCycles
  /\ step' = "insn"
  /\ UNCHANGED <<rom, ram, reg, ip, flags, ivt, halted, run, cycles, frames, compared>>

-------------------------------------------------------------------------------
(* Second half of cycle(): read_insn and do_insn. Opcode is the byte at ip,  *)
(* operands follow it.                                                       *)

Opcode == Read8(ip)
Imm8 == Read8(Wrap(ip + 1))
Imm16 == Read16(Wrap(ip + 1))
After(n) == Wrap(ip + n)
Bit(n) == (Opcode \div n) % 2 = 1
\* common_source and common_destination
Common(n) == <<"ax", "bx", "cx", "dx">>[(n % 4) + 1]

Executes(opcodes) ==
  /\ run = "on" /\ step = "insn"
  /\ Opcode \in opcodes
  /\ step' = "irq"
  /\ cycles' = cycles + 1

Continue(n) == ip' = After(n)
OnlyIp == UNCHANGED <<rom, ram, reg, flags, ivt, halted, run, frames, compared>>

\* OUT port, ax and OUT port, immediate.
Output ==
  /\ Executes((0 .. 31) \cup (64 .. 95))
  /\ Continue(IF Opcode < 64 THEN 1 ELSE IF Bit(16) THEN 2 ELSE 3)
  /\ OnlyIp

\* IN ax, port; the 8-bit form clears the high byte.
Input(v) ==
  /\ Executes(32 .. 63)
  /\ reg' = [reg EXCEPT !["ax"] = IF Bit(16) THEN v % 256 ELSE v]
  /\ Continue(1)
  /\ UNCHANGED <<rom, ram, flags, ivt, halted, run, frames, compared>>

\* MOV register, register or immediate.
Store ==
  /\ Executes(96 .. 111)
  /\ LET dst == Common(Opcode \div 4)
         src == Common(Opcode) IN
       /\ reg' = [reg EXCEPT ![dst] = IF dst = src THEN Imm16 ELSE reg[src]]
       /\ Continue(IF dst = src THEN 3 ELSE 1)
  /\ UNCHANGED <<rom, ram, flags, ivt, halted, run, frames, compared>>

\* JMP ax, JMP address.
FarJump ==
  /\ Executes({112, 113})
  /\ ip' = IF Opcode = 112 THEN reg["ax"] ELSE Imm16
  /\ OnlyIp

Taken == CASE Opcode = 114 -> ZERO \in flags
           [] Opcode = 115 -> GREATER \in flags
           [] Opcode = 116 -> OVERFLOW \in flags
           [] Opcode = 117 -> ZERO \notin flags
           [] Opcode = 118 -> flags \cap {ZERO, GREATER} # {}
           [] OTHER        -> flags \cap {ZERO, OVERFLOW} # {}

\* Conditional jumps; jmp_helper is called after the operand was read.
NearJump ==
  /\ Executes(114 .. 119)
  /\ ip' = IF Taken THEN Wrap(After(2) + Signed(Imm8) - 2) ELSE After(2)
  /\ OnlyIp

\* Mutant: CMP sets flags and clears none.
Compare_only_sets ==
  /\ Executes((120 .. 127) \ {126})
  /\ LET a == reg[Common(Opcode \div 2)]
         b == IF Bit(1) THEN Imm16 ELSE reg["dx"] IN
       /\ flags' = flags \cup {f \in {ZERO, OVERFLOW, GREATER} :
                                 \/ f = ZERO /\ a = b
                                 \/ f = OVERFLOW /\ a < b
                                 \/ f = GREATER /\ a > b}
       /\ compared' = <<a, b>>
  /\ Continue(IF Bit(1) THEN 3 ELSE 1)
  /\ UNCHANGED <<rom, ram, reg, ivt, halted, run, frames>>

\* CMP register with dx or an immediate.
Compare ==
  /\ Executes((120 .. 127) \ {126})
  /\ LET a == reg[Common(Opcode \div 2)]
         b == IF Bit(1) THEN Imm16 ELSE reg["dx"] IN
       /\ flags' = (flags \ {ZERO, OVERFLOW, GREATER})
                     \cup {IF a = b THEN ZERO ELSE IF a < b THEN OVERFLOW ELSE GREATER}
       /\ compared' = <<a, b>>
  /\ Continue(IF Bit(1) THEN 3 ELSE 1)
  /\ UNCHANGED <<rom, ram, reg, ivt, halted, run, frames>>

InvalidInstruction1 == Executes({126}) /\ Exit("invalid_insn_1")

\* PUSH of ax, an immediate, or bp or sp plus an offset (the sum, not what is
\* stored there).
PushLength == CASE Opcode % 4 = 0 -> 1
                [] Opcode % 4 = 1 -> IF Bit(4) THEN 2 ELSE 3
                [] OTHER -> 2
PushValue == CASE Opcode % 4 = 0 -> reg["ax"]
               [] Opcode % 4 = 1 -> IF Bit(4) THEN Imm8 ELSE Imm16
               [] Opcode % 4 = 2 -> Wrap(reg["bp"] + Signed(Imm8))
               [] OTHER          -> Wrap(reg["sp"] + Signed(Imm8))

\* Mutant: a push below 384 goes to main memory.
Push_under_rom ==
  /\ Executes(128 .. 135)
  /\ LET sp == reg["sp"] IN
       /\ ram' = IF Bit(4) THEN Put8(ram, sp, PushValue % 256) ELSE Put16(ram, sp, PushValue)
       /\ reg' = [reg EXCEPT !["sp"] = Wrap(sp + (IF Bit(4) THEN 1 ELSE 2))]
  /\ Continue(PushLength)
  /\ UNCHANGED <<rom, flags, ivt, halted, run, frames, compared>>

Push ==
  /\ Executes(128 .. 135)
  /\ LET sp == reg["sp"] IN
     IF sp < RomEnd
       THEN Exit("rom_write")
       ELSE /\ ram' = IF Bit(4) THEN Put8(ram, sp, PushValue % 256) ELSE Put16(ram, sp, PushValue)
            /\ reg' = [reg EXCEPT !["sp"] = Wrap(sp + (IF Bit(4) THEN 1 ELSE 2))]
            /\ Continue(PushLength)
            /\ UNCHANGED <<rom, flags, ivt, halted, run, frames, compared>>

\* POP ax; the 8-bit form clears the high byte.
Pop ==
  /\ Executes(136 .. 139)
  /\ LET sp == Wrap(reg["sp"] - (IF Bit(2) THEN 1 ELSE 2)) IN
       reg' = [reg EXCEPT !["sp"] = sp, !["ax"] = IF Bit(2) THEN Read8(sp) ELSE Read16(sp)]
  /\ Continue(1)
  /\ UNCHANGED <<rom, ram, flags, ivt, halted, run, frames, compared>>

\* The common part of ADD (sign 1) and SUB (sign -1). No flag is cleared.
Arithmetic(dst, immediate, sign) ==
  /\ LET b == IF immediate THEN Imm16 ELSE reg[Common(Opcode)]
         sum == reg[dst] + sign * b IN
       /\ reg' = [reg EXCEPT ![dst] = Wrap(sum)]
       /\ flags' = flags \cup {IF sum \notin Word THEN OVERFLOW
                               ELSE IF sum > 0 THEN GREATER ELSE ZERO}
  /\ Continue(IF immediate THEN 3 ELSE 1)
  /\ compared' = <<>>
  /\ UNCHANGED <<rom, ram, ivt, halted, run, frames>>

Add ==
  /\ Executes(144 .. 151)
  /\ Arithmetic(CASE Opcode = 151 -> "bx" [] Opcode \in 148 .. 150 -> "dx" [] OTHER -> "ax",
                Opcode % 4 = 0, 1)

Subtract ==
  /\ Executes(152 .. 159)
  /\ Arithmetic(CASE Opcode = 159 -> "bx" [] Opcode \in 156 .. 158 -> "dx"
                  [] Opcode = 155 -> "sp" [] OTHER -> "ax",
                Opcode % 4 = 0 \/ Opcode = 155, -1)

\* INT: opcode 0xb4 raises #U2 and 0xb5 raises #U1.
Interrupt ==
  /\ Executes({180, 181})
  /\ RaiseInternal(IF Opcode = 181 THEN INT_USER1 ELSE INT_USER2, After(1))

\* LIVT with the address in ax or in the instruction. The table begins with
\* its last index; 255 makes the new size, a u8, zero, and the entries are
\* then stored outside of m_ivt.
LoadIvt ==
  /\ Executes({182, 183})
  /\ LET addr == IF Opcode = 183 THEN reg["ax"] ELSE Imm16
         size == Read8(addr) IN
       IF size = 255
         THEN Exit("undefined")
         ELSE /\ ivt' = [i \in 1 .. size + 1 |-> Read16(Wrap(addr + 2 * i - 1))]
              /\ Continue(IF Opcode = 183 THEN 1 ELSE 3)
              /\ UNCHANGED <<rom, ram, reg, flags, halted, run, frames, compared>>

Halt ==
  /\ Executes({188})
  /\ halted' = TRUE
  /\ Continue(1)
  /\ UNCHANGED <<rom, ram, reg, flags, ivt, run, frames, compared>>

Cpuid ==
  /\ Executes({190})
  /\ reg' = [reg EXCEPT !["ax"] = 2112]
  /\ Continue(1)
  /\ UNCHANGED <<rom, ram, flags, ivt, halted, run, frames, compared>>

Placeholder == Executes({212}) /\ Continue(1) /\ OnlyIp

\* Every other opcode, IRET (0xbb) and the stack specials among them.
Undefined == (140 .. 143) \cup (160 .. 179) \cup (184 .. 187) \cup {189, 191}
               \cup (192 .. 211) \cup (213 .. 255)
InvalidInstruction ==
  /\ Executes(Undefined)
  /\ RaiseInternal(INT_INVALID_INSTRUCTION, After(1))

Instruction ==
  \/ Output \/ (\E v \in InputWords : Input(v)) \/ Store
  \/ FarJump \/ NearJump \/ Compare \/ InvalidInstruction1
  \/ Push \/ Pop \/ Add \/ Subtract
  \/ Interrupt \/ LoadIvt \/ Halt \/ Cpuid \/ Placeholder \/ InvalidInstruction

\* ControlUnit::wake, when CPU::boot was given another boot signal.
Wake ==
  /\ run = "on" /\ halted /\ step = "irq" /\ cycles < MaxCycles
  /\ halted' = FALSE
  /\ UNCHANGED <<rom, ram, reg, ip, flags, ivt, step, run, cycles, frames, compared>>

Next == (\E n \in IrqNumbers : TakeIrq(n)) \/ NoIrq \/ Instruction \/ Wake

Spec == Init /\ [][Next]_vars

-------------------------------------------------------------------------------
\* Every variable stays in its range; bytes and words do not overflow.
TypeOK ==
  /\ rom \in Programs
  /\ \A a \in DOMAIN ram : a < RamSize /\ ram[a] \in Byte
  /\ \A r \in Registers : reg[r] \in Word
  /\ ip \in Word
  /\ flags \subseteq FlagBits
  /\ \A i \in 1 .. Len(ivt) : ivt[i] \in Word
  /\ halted \in BOOLEAN
  /\ step \in {"irq", "insn"}
  /\ run \in {"on", "double_fault", "rom_write", "invalid_insn_1", "undefined"}
  /\ cycles \in 0 .. MaxCycles

\* An IRQ interrupts only the program itself, an exception at most one IRQ
\* handler: the flags tell which handlers are on the stack, and since nothing
\* returns from a handler no kind is there twice.
Contexts == {<<>>, <<"irq">>, <<"exception">>, <<"irq", "exception">>}
HandlersNest ==
  /\ frames \in Contexts
  /\ IN_IRQ \in flags <=> \E i \in 1 .. Len(frames) : frames[i] = "irq"
  /\ EXCEPTION \in flags <=> \E i \in 1 .. Len(frames) : frames[i] = "exception"

\* Up to the next ADD or SUB the flags, whatever interrupts come in between,
\* decide the last comparison: exactly one of them is set, and the right one.
CompareDecides ==
  compared # <<>> =>
    /\ ZERO \in flags <=> compared[1] = compared[2]
    /\ OVERFLOW \in flags <=> compared[1] < compared[2]
    /\ GREATER \in flags <=> compared[1] > compared[2]

\* No push, of an instruction or of an interrupt, writes main memory where the
\* ROM hides it. (A word pushed at 65535 has its high byte at address 0.)
NoPushUnderRom == \A a \in DOMAIN ram : a = 0 \/ a >= RomEnd
===============================================================================
