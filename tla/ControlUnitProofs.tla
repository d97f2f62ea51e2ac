--------------------------- MODULE ControlUnitProofs ---------------------------
(***************************************************************************)
(* Theorems about the processor for every ROM image, every memory size and *)
(* every interrupt controller, and for programs of any length.             *)
(***************************************************************************)
EXTENDS ControlUnit, SequenceTheorems, TLAPS

\* Which flags can an instruction change that raises nothing: those of an
\* arithmetic instruction.
ArithmeticFlags == {ZERO, OVERFLOW, GREATER}
KeepsContext ==
  /\ UNCHANGED frames
  /\ IN_IRQ \in flags' <=> IN_IRQ \in flags
  /\ EXCEPTION \in flags' <=> EXCEPTION \in flags

\* Entering a handler records it, or ends the emulator.
LEMMA EnterRecords ==
  ASSUME NEW n, NEW return, NEW newflags, NEW kind, Enter(n, return, newflags, kind)
  PROVE  \/ UNCHANGED <<flags, frames>>
         \/ flags' = newflags /\ frames' = Append(frames, kind)
  BY DEF Enter, Exit

LEMMA KeepsHandlers == HandlersNest /\ KeepsContext => HandlersNest'
  BY DEF HandlersNest, KeepsContext

LEMMA Flags == /\ IN_IRQ \notin ArithmeticFlags /\ EXCEPTION \notin ArithmeticFlags
               /\ IN_IRQ # EXCEPTION
  BY DEF IN_IRQ, EXCEPTION, ArithmeticFlags, ZERO, OVERFLOW, GREATER

\* An IRQ is taken only while no handler runs.
LEMMA IrqNests == ASSUME NEW n, HandlersNest, TakeIrq(n) PROVE HandlersNest'
<1>1. frames = <<>>
  BY DEF HandlersNest, TakeIrq, Contexts
<1>2. CASE UNCHANGED <<flags, frames>>
  BY <1>2 DEF HandlersNest
<1>3. CASE flags' = flags \cup {IN_IRQ} /\ frames' = Append(frames, "irq")
  <2>1. frames' = <<"irq">>
    BY <1>1, <1>3
  <2>2. IN_IRQ \in flags' /\ EXCEPTION \notin flags'
    BY <1>3, Flags DEF TakeIrq
  <2> QED
    BY <2>1, <2>2 DEF HandlersNest, Contexts
<1> QED
  BY <1>2, <1>3, EnterRecords DEF TakeIrq

LEMMA AppendToOne == Append(<<"irq">>, "exception") = <<"irq", "exception">>
<1> DEFINE s == <<"irq">>
<1>1. s \in Seq({"irq", "exception"}) /\ Len(s) = 1 /\ s[1] = "irq"
  OBVIOUS
<1>2. /\ Len(Append(s, "exception")) = 2
      /\ Append(s, "exception")[1] = "irq" /\ Append(s, "exception")[2] = "exception"
      /\ Append(s, "exception") \in Seq({"irq", "exception"})
  BY <1>1
<1>3. DEFINE t == <<"irq", "exception">>
<1>4. t \in Seq({"irq", "exception"}) /\ Len(t) = 2 /\ t[1] = "irq" /\ t[2] = "exception"
  OBVIOUS
<1>5. ASSUME NEW i \in 1 .. 2 PROVE Append(s, "exception")[i] = t[i]
  BY <1>2, <1>4
<1> HIDE DEF s, t
<1> QED
  <2>1. Append(s, "exception") = t
    BY <1>2, <1>4, <1>5, SeqEqual
  <2> QED
    BY <2>1 DEF s, t

\* An exception is taken only while no exception handler runs; a second one is
\* the double fault.
LEMMA ExceptionNests ==
  ASSUME NEW n, NEW return, HandlersNest, RaiseInternal(n, return) PROVE HandlersNest'
<1>1. CASE UNCHANGED <<flags, frames>>
  BY <1>1 DEF HandlersNest
<1>2. CASE /\ EXCEPTION \notin flags
           /\ flags' = flags \cup {EXCEPTION}
           /\ frames' = Append(frames, "exception")
  <2>1. EXCEPTION \in flags' /\ (IN_IRQ \in flags' <=> IN_IRQ \in flags)
    BY <1>2, Flags
  <2>2. frames \in {<<>>, <<"irq">>}
    BY <1>2 DEF HandlersNest, Contexts
  <2>3. CASE frames = <<>>
    <3>1. frames' = <<"exception">>
      BY <1>2, <2>3
    <3> QED
      BY <2>1, <2>3, <3>1 DEF HandlersNest, Contexts
  <2>4. CASE frames = <<"irq">>
    <3>1. frames' = <<"irq", "exception">>
      BY <1>2, <2>4, AppendToOne
    <3> QED
      BY <2>1, <2>4, <3>1 DEF HandlersNest, Contexts
  <2> QED
    BY <2>2, <2>3, <2>4
<1> QED
  BY <1>1, <1>2, EnterRecords DEF RaiseInternal, Exit

\* The other instructions leave the context alone.
LEMMA OthersKeepContext ==
  \/ Output \/ (\E v \in InputWords : Input(v)) \/ Store \/ FarJump \/ NearJump
  \/ Compare \/ InvalidInstruction1 \/ Push \/ Pop \/ Add \/ Subtract \/ LoadIvt
  \/ Halt \/ Cpuid \/ Placeholder \/ NoIrq \/ Wake
  => KeepsContext
<1> USE DEF KeepsContext
<1>1. Output \/ FarJump \/ NearJump \/ Placeholder => KeepsContext
  BY DEF Output, FarJump, NearJump, Placeholder, OnlyIp
<1>2. (\E v \in InputWords : Input(v)) \/ Store \/ Pop \/ Halt \/ Cpuid \/ NoIrq \/ Wake => KeepsContext
  BY DEF Input, Store, Pop, Halt, Cpuid, NoIrq, Wake
<1>3. InvalidInstruction1 \/ Push \/ LoadIvt => KeepsContext
  BY DEF InvalidInstruction1, Push, LoadIvt, Exit
<1>4. Compare => KeepsContext
  <2> SUFFICES ASSUME Compare PROVE KeepsContext
    OBVIOUS
  <2>1. PICK f \in ArithmeticFlags : flags' = (flags \ ArithmeticFlags) \cup {f}
    <3>1. PICK a, b : flags' = (flags \ ArithmeticFlags)
                        \cup {IF a = b THEN ZERO ELSE IF a < b THEN OVERFLOW ELSE GREATER}
      BY DEF Compare, ArithmeticFlags
    <3> QED
      BY <3>1 DEF ArithmeticFlags
  <2> QED
    BY <2>1, Flags DEF Compare
<1>5. Add \/ Subtract => KeepsContext
  <2> SUFFICES ASSUME Add \/ Subtract PROVE KeepsContext
    OBVIOUS
  <2>1. PICK f \in ArithmeticFlags : flags' = flags \cup {f}
    BY DEF Add, Subtract, Arithmetic, ArithmeticFlags
  <2> QED
    BY <2>1, Flags DEF Add, Subtract, Arithmetic
<1> QED
  BY <1>1, <1>2, <1>3, <1>4, <1>5

-------------------------------------------------------------------------------
\* The flags tell which handlers are on the stack, and none is entered twice,
\* whatever program and interrupt controller do (ControlUnit.cpp:31).
THEOREM HandlersAlwaysNest == Spec => []HandlersNest
<1>1. Init => HandlersNest
  BY DEF Init, HandlersNest, Contexts
<1>2. HandlersNest /\ [Next]_vars => HandlersNest'
  <2>1. HandlersNest /\ UNCHANGED vars => HandlersNest'
    BY DEF HandlersNest, vars
  <2>2. HandlersNest /\ (Interrupt \/ InvalidInstruction) => HandlersNest'
    BY ExceptionNests DEF Interrupt, InvalidInstruction
  <2> QED
    BY <2>1, <2>2, IrqNests, OthersKeepContext, KeepsHandlers DEF Next, Instruction
<1> QED
  BY <1>1, <1>2, PTL DEF Spec
-------------------------------------------------------------------------------
(* Every number of the processor is natural, and the stack pointer a word:    *)
(* what comparisons and the places of pushes rest on.                         *)

BytesOK(mem) == \A a \in DOMAIN mem : mem[a] \in Nat

Numeric ==
  /\ rom \in Programs
  /\ BytesOK(ram)
  /\ reg \in [Registers -> Nat]
  /\ reg["sp"] < 65536
  /\ ip \in Nat
  /\ ivt \in Seq(Nat)

LEMMA WrapIsWord == \A n \in Int : Wrap(n) \in Nat /\ Wrap(n) < 65536
  BY SMT DEF Wrap

LEMMA NextToRom == \A a \in Nat : a < RomEnd => Wrap(a + 1) \in 0 .. RomEnd
  BY SMT DEF Wrap, RomEnd

LEMMA NextOfWord == \A a \in Nat : a < 65536 => Wrap(a + 1) = 0 \/ Wrap(a + 1) = a + 1
  BY SMT DEF Wrap

LEMMA Halves == \A w \in Nat : w % 256 \in Nat /\ w \div 256 \in Nat
  BY SMT

LEMMA BytesAndWords == Byte \subseteq Nat /\ Word \subseteq Nat
  BY SMT DEF Byte, Word

LEMMA ImageIsNumeric == ASSUME Numeric, NEW a \in 0 .. RomEnd PROVE RomByte(a) \in Nat
<1>1. \A p \in Programs : \A x \in 0 .. RomEnd : Image(p, x) \in Byte
  BY ControlUnitAssumption, Zenon
<1>2. rom \in Programs
  BY DEF Numeric
<1>3. Image(rom, a) \in Byte
  BY <1>1, <1>2, Zenon
<1> QED
  BY <1>3, BytesAndWords, Zenon DEF RomByte

LEMMA RamIsNumeric == ASSUME Numeric, NEW a PROVE RamByte(a) \in Nat
  BY DEF Numeric, BytesOK, RamByte

LEMMA ReadsNumbers == ASSUME Numeric, NEW a \in Nat PROVE Read8(a) \in Nat /\ Read16(a) \in Nat
<1> DEFINE b == Wrap(a + 1)
<1>1. a < RomEnd => a \in 0 .. RomEnd /\ b \in 0 .. RomEnd
  BY NextToRom DEF RomEnd
<1>2. a < RomEnd => RomByte(a) \in Nat /\ RomByte(b) \in Nat
  BY <1>1, ImageIsNumeric
<1>3. RamByte(a) \in Nat /\ RamByte(b) \in Nat
  BY RamIsNumeric
<1>4. \A h, l \in Nat : 256 * h + l \in Nat
  BY SMT
<1>5. Read16(a) = IF a < RomEnd THEN 256 * RomByte(a) + RomByte(b)
                                ELSE 256 * RamByte(a) + RamByte(b)
  BY DEF Read16
<1> HIDE DEF b
<1> QED
  BY <1>2, <1>3, <1>4, <1>5 DEF Read8

LEMMA PutKeepsBytes ==
  ASSUME NEW mem, BytesOK(mem), NEW a, NEW b \in Nat
  PROVE  BytesOK(Put8(mem, a, b))
  BY DEF Put8, BytesOK

LEMMA PutWordKeepsBytes ==
  ASSUME NEW mem, BytesOK(mem), NEW a, NEW w \in Nat
  PROVE  BytesOK(Put16(mem, a, w))
<1> DEFINE l == w % 256  h == w \div 256
<1>1. l \in Nat /\ h \in Nat
  BY Halves
<1>2. Put16(mem, a, w) = Put8(Put8(mem, a, l), Wrap(a + 1), h)
  BY DEF Put16
<1> HIDE DEF l, h
<1> QED
  BY <1>1, <1>2, PutKeepsBytes

\* What an instruction finds at ip and behind it.
LEMMA Operands ==
  ASSUME Numeric
  PROVE  /\ Opcode \in Nat /\ Imm8 \in Nat /\ Imm16 \in Nat /\ Signed(Imm8) \in Int
         /\ \A n \in Int : After(n) \in Nat
<1> DEFINE b == Wrap(ip + 1)
<1>1. ip \in Nat
  BY DEF Numeric
<1>2. b \in Nat
  BY <1>1, WrapIsWord
<1>3. \A n \in Int : After(n) \in Nat
  BY <1>1, WrapIsWord DEF After
<1>4. Opcode = Read8(ip) /\ Imm8 = Read8(b) /\ Imm16 = Read16(b)
  BY DEF Opcode, Imm8, Imm16
<1> HIDE DEF b
<1>5. Opcode \in Nat /\ Imm8 \in Nat /\ Imm16 \in Nat
  BY <1>1, <1>2, <1>4, ReadsNumbers
<1>6. Signed(Imm8) \in Int
  BY <1>5 DEF Signed
<1> QED
  BY <1>3, <1>5, <1>6

LEMMA CommonIsRegister == ASSUME NEW n \in Int PROVE Common(n) \in Gprs
<1>1. (n % 4) + 1 \in 1 .. 4
  OBVIOUS
<1> QED
  BY <1>1 DEF Common, Gprs

LEMMA FlagWordIsNumber == ASSUME NEW S PROVE FlagWord(S) \in Nat
<1>1. /\ FlagValue(GREATER, S) \in Nat /\ FlagValue(OVERFLOW, S) \in Nat
      /\ FlagValue(ZERO, S) \in Nat /\ FlagValue(IN_IRQ, S) \in Nat
      /\ FlagValue(EXCEPTION, S) \in Nat
  BY DEF FlagValue, GREATER, OVERFLOW, ZERO, IN_IRQ, EXCEPTION
<1> QED
  BY <1>1 DEF FlagWord

\* A push that starts above the ROM ends above it, or at address 0.
LEMMA PutAboveRom ==
  ASSUME NEW mem, NEW a \in Nat, NEW w, a < 65536, a >= RomEnd,
         \A x \in DOMAIN mem : x = 0 \/ x >= RomEnd
  PROVE  /\ \A x \in DOMAIN Put8(mem, a, w) : x = 0 \/ x >= RomEnd
         /\ \A x \in DOMAIN Put16(mem, a, w) : x = 0 \/ x >= RomEnd
<1> DEFINE b == Wrap(a + 1)  l == w % 256  h == w \div 256
<1>1. b = 0 \/ b >= RomEnd
  BY NextOfWord DEF RomEnd
<1>2. \A m, v : DOMAIN Put8(m, a, v) \subseteq DOMAIN m \cup {a}
  BY DEF Put8
<1>3. \A m, v : DOMAIN Put8(m, b, v) \subseteq DOMAIN m \cup {b}
  BY DEF Put8
<1>4. Put16(mem, a, w) = Put8(Put8(mem, a, l), b, h)
  BY DEF Put16
<1> HIDE DEF b, l, h
<1> QED
  BY <1>1, <1>2, <1>3, <1>4

\* The numbers stay numbers when a handler is entered, and the pushes of it
\* are above the ROM.
LEMMA EnterKeeps ==
  ASSUME Numeric, NEW n \in Nat, n < Len(ivt), NEW return \in Nat, NEW newflags, NEW kind,
         Enter(n, return, newflags, kind)
  PROVE  Numeric' /\ (NoPushUnderRom => NoPushUnderRom')
<1> DEFINE sp == reg["sp"]
           next == Wrap(sp + 2)
           word == FlagWord(newflags)
           first == Put16(ram, sp, return)
           second == Put16(first, next, word)
<1>1. CASE sp < RomEnd \/ next < RomEnd
  BY <1>1 DEF Enter, Exit, Numeric, NoPushUnderRom
<1>2. CASE ~(sp < RomEnd \/ next < RomEnd)
  <2>1. /\ ram' = second
        /\ reg' = [reg EXCEPT !["sp"] = Wrap(sp + 4)]
        /\ ip' = ivt[n + 1]
        /\ UNCHANGED <<rom, ivt>>
    BY <1>2 DEF Enter
  <2>2. sp \in Nat /\ sp < 65536
    BY DEF Numeric, Registers
  <2>3. next \in Nat /\ next < 65536 /\ Wrap(sp + 4) \in Nat /\ Wrap(sp + 4) < 65536
    <3>1. sp + 2 \in Int /\ sp + 4 \in Int
      BY <2>2
    <3> HIDE DEF sp
    <3> QED
      BY <3>1, WrapIsWord, SMT
  <2>4. word \in Nat
    BY FlagWordIsNumber
  <2>5. sp >= RomEnd /\ next >= RomEnd
    BY <1>2, <2>2, <2>3 DEF RomEnd
  <2> HIDE DEF sp, next, word
  <2>6. BytesOK(second)
    <3>1. BytesOK(first)
      BY PutWordKeepsBytes DEF Numeric
    <3> HIDE DEF first
    <3> QED
      BY <2>4, <3>1, PutWordKeepsBytes
  <2>7. NoPushUnderRom => NoPushUnderRom'
    <3> SUFFICES ASSUME NoPushUnderRom PROVE NoPushUnderRom'
      OBVIOUS
    <3>1. \A x \in DOMAIN first : x = 0 \/ x >= RomEnd
      BY <2>2, <2>5, PutAboveRom DEF NoPushUnderRom
    <3> HIDE DEF first
    <3>2. \A x \in DOMAIN second : x = 0 \/ x >= RomEnd
      BY <2>3, <2>5, <3>1, PutAboveRom
    <3> QED
      BY <2>1, <3>2 DEF NoPushUnderRom
  <2>8. Numeric'
    <3>1. ivt[n + 1] \in Nat
      BY DEF Numeric
    <3> HIDE DEF second
    <3>2. reg' \in [Registers -> Nat] /\ reg'["sp"] < 65536
      BY <2>1, <2>3 DEF Numeric, Registers
    <3> QED
      BY <2>1, <2>6, <3>1, <3>2 DEF Numeric
  <2> QED
    BY <2>7, <2>8
<1> QED
  BY <1>1, <1>2

-------------------------------------------------------------------------------
(* Interrupts and instructions, one by one.                                   *)

Kept == Numeric' /\ (NoPushUnderRom => NoPushUnderRom')

LEMMA IrqKeeps == ASSUME Numeric, NEW n \in IrqNumbers, TakeIrq(n) PROVE Kept
<1>1. n \in Nat
  BY ControlUnitAssumption
<1> QED
  BY <1>1, EnterKeeps DEF TakeIrq, Numeric, Kept

LEMMA ExceptionKeeps ==
  ASSUME Numeric, NEW n \in Nat, NEW return \in Nat, RaiseInternal(n, return) PROVE Kept
<1>1. CASE UNCHANGED <<rom, ram, reg, ip, ivt>>
  BY <1>1 DEF Numeric, NoPushUnderRom, Kept
<1>2. CASE n < Len(ivt) /\ Enter(n, return, flags \cup {EXCEPTION}, "exception")
  BY <1>2, EnterKeeps DEF Kept
<1>3. Len(ivt) \in Nat
  BY DEF Numeric
<1> QED
  BY <1>1, <1>2, <1>3 DEF RaiseInternal, Exit

\* A register of four gets a number.
LEMMA WriteKeeps ==
  ASSUME Numeric, NEW r \in Gprs, NEW v \in Nat, reg' = [reg EXCEPT ![r] = v],
         ip' \in Nat, UNCHANGED <<rom, ram, ivt>>
  PROVE  Kept
<1>1. reg' \in [Registers -> Nat] /\ reg'["sp"] = reg["sp"]
  BY DEF Numeric, Registers, Gprs
<1> QED
  BY <1>1 DEF Numeric, NoPushUnderRom, Kept

LEMMA StillKeeps ==
  ASSUME Numeric, ip' \in Nat, UNCHANGED <<rom, ram, reg, ivt>> PROVE Kept
  BY DEF Numeric, NoPushUnderRom, Kept

LEMMA OperandOfRegister == ASSUME Numeric, NEW r \in Registers PROVE reg[r] \in Nat
  BY DEF Numeric

LEMMA GprsAreRegisters == Gprs \subseteq Registers /\ {"ax", "bx", "cx", "dx"} \subseteq Gprs
                          /\ "sp" \in Registers /\ "bp" \in Registers
  BY DEF Gprs, Registers

LEMMA InputKeeps == ASSUME Numeric, NEW v \in InputWords, Input(v) PROVE Kept
<1>1. v \in Nat /\ v % 256 \in Nat
  BY ControlUnitAssumption, BytesAndWords, Halves
<1>2. ip' \in Nat
  BY Operands DEF Input, Continue
<1> QED
  BY <1>1, <1>2, WriteKeeps, GprsAreRegisters DEF Input

LEMMA StoreKeeps == ASSUME Numeric, Store PROVE Kept
<1> DEFINE dst == Common(Opcode \div 4)  src == Common(Opcode)
           value == IF dst = src THEN Imm16 ELSE reg[src]
<1>1. dst \in Gprs /\ src \in Gprs
  BY Operands, CommonIsRegister
<1>2. ip' \in Nat
  BY Operands DEF Store, Continue
<1>3. reg' = [reg EXCEPT ![dst] = value] /\ UNCHANGED <<rom, ram, ivt>>
  BY DEF Store
<1>4. value \in Nat
  BY <1>1, Operands, OperandOfRegister, GprsAreRegisters
<1> HIDE DEF dst, value
<1> QED
  BY <1>1, <1>2, <1>3, <1>4, WriteKeeps

LEMMA JumpsKeep == ASSUME Numeric, FarJump \/ NearJump PROVE Kept
<1>1. ip' \in Nat
  <2>1. CASE FarJump
    BY <2>1, Operands, OperandOfRegister, GprsAreRegisters DEF FarJump
  <2>2. CASE NearJump
    <3>1. After(2) \in Nat /\ After(2) + Signed(Imm8) - 2 \in Int
      BY Operands
    <3>2. Wrap(After(2) + Signed(Imm8) - 2) \in Nat
      BY <3>1, WrapIsWord, SMT
    <3> QED
      BY <2>2, <3>1, <3>2 DEF NearJump
  <2> QED
    BY <2>1, <2>2
<1> QED
  BY <1>1, StillKeeps DEF FarJump, NearJump, OnlyIp

LEMMA QuietKeep ==
  ASSUME Numeric, Output \/ Placeholder \/ Compare \/ InvalidInstruction1 \/ Halt \/ NoIrq \/ Wake
  PROVE  Kept
<1>1. ip' \in Nat
  <2>1. CASE Output
    BY <2>1, Operands DEF Output, Continue
  <2>2. CASE Placeholder \/ Halt
    BY <2>2, Operands DEF Placeholder, Halt, Continue
  <2>3. CASE Compare
    BY <2>3, Operands DEF Compare, Continue
  <2>4. CASE InvalidInstruction1 \/ NoIrq \/ Wake
    BY <2>4 DEF InvalidInstruction1, NoIrq, Wake, Exit, Numeric
  <2> QED
    BY <2>1, <2>2, <2>3, <2>4
<1> QED
  BY <1>1, StillKeeps DEF Output, Placeholder, Compare, InvalidInstruction1, Halt, NoIrq, Wake,
                          OnlyIp, Exit

LEMMA PushKeeps == ASSUME Numeric, Push PROVE Kept
<1> DEFINE sp == reg["sp"]  v == PushValue  l == v % 256
<1>1. sp \in Nat /\ sp < 65536
  BY DEF Numeric, Registers
<1>2. CASE sp < RomEnd
  BY <1>2 DEF Push, Exit, Numeric, NoPushUnderRom, Kept
<1>3. CASE ~(sp < RomEnd)
  <2>1. v \in Nat
    <3>1. /\ Wrap(reg["bp"] + Signed(Imm8)) \in Nat
          /\ Wrap(reg["sp"] + Signed(Imm8)) \in Nat
      <4>1. reg["bp"] + Signed(Imm8) \in Int /\ reg["sp"] + Signed(Imm8) \in Int
        BY Operands, OperandOfRegister, GprsAreRegisters
      <4> QED
        BY <4>1, WrapIsWord, SMT
    <3>2. reg["ax"] \in Nat /\ Imm8 \in Nat /\ Imm16 \in Nat
      BY Operands, OperandOfRegister, GprsAreRegisters
    <3> QED
      BY <3>1, <3>2 DEF PushValue
  <2>2. l \in Nat
    BY <2>1, Halves
  <2>3. \A n \in {1, 2} : Wrap(sp + n) \in Nat /\ Wrap(sp + n) < 65536
    <3>1. \A n \in {1, 2} : sp + n \in Int
      BY <1>1
    <3> HIDE DEF sp
    <3> QED
      BY <3>1, WrapIsWord, SMT
  <2>4. PICK n \in {1, 2} : reg' = [reg EXCEPT !["sp"] = Wrap(sp + n)]
    BY <1>3 DEF Push
  <2>5. reg' \in [Registers -> Nat] /\ reg'["sp"] < 65536
    <3> HIDE DEF sp
    <3> QED
      BY <2>3, <2>4 DEF Numeric, Registers
  <2>6. ip' \in Nat
    <3>1. PushLength \in Int
      BY DEF PushLength
    <3> QED
      BY <1>3, <3>1, Operands DEF Push, Continue
  <2>7. ram' = Put8(ram, sp, l) \/ ram' = Put16(ram, sp, v)
    BY <1>3 DEF Push
  <2>8. UNCHANGED <<rom, ivt>>
    BY <1>3 DEF Push
  <2>9. sp >= RomEnd
    BY <1>1, <1>3 DEF RomEnd
  <2> HIDE DEF sp, v, l
  <2>10. BytesOK(ram')
    BY <2>1, <2>2, <2>7, PutKeepsBytes, PutWordKeepsBytes DEF Numeric
  <2>11. NoPushUnderRom => NoPushUnderRom'
    BY <1>1, <2>7, <2>9, PutAboveRom DEF NoPushUnderRom
  <2> QED
    BY <2>5, <2>6, <2>8, <2>10, <2>11 DEF Numeric, Kept
<1> QED
  BY <1>2, <1>3

LEMMA PopKeeps == ASSUME Numeric, Pop PROVE Kept
<1>1. PICK sp, v : /\ sp = Wrap(reg["sp"] - (IF Bit(2) THEN 1 ELSE 2))
                   /\ v = IF Bit(2) THEN Read8(sp) ELSE Read16(sp)
                   /\ reg' = [reg EXCEPT !["sp"] = sp, !["ax"] = v]
  BY DEF Pop
<1>2. sp \in Nat /\ sp < 65536
  <2>1. reg["sp"] - (IF Bit(2) THEN 1 ELSE 2) \in Int
    BY OperandOfRegister, GprsAreRegisters
  <2> QED
    BY <1>1, <2>1, WrapIsWord, SMT
<1>3. v \in Nat
  BY <1>1, <1>2, ReadsNumbers
<1>4. reg' \in [Registers -> Nat] /\ reg'["sp"] < 65536
  <2>1. {"sp", "ax"} \subseteq Registers
    BY GprsAreRegisters
  <2>2. reg' \in [Registers -> Nat]
    BY <1>1, <1>2, <1>3, <2>1 DEF Numeric
  <2>3. reg'["sp"] = sp
    BY <1>1, <2>1 DEF Numeric
  <2> QED
    BY <1>2, <2>2, <2>3
<1>5. ip' \in Nat
  BY Operands DEF Pop, Continue
<1> QED
  BY <1>4, <1>5 DEF Pop, Numeric, NoPushUnderRom, Kept

LEMMA ArithmeticKeeps ==
  ASSUME Numeric, NEW dst \in Gprs \cup {"sp"}, NEW immediate \in BOOLEAN, NEW sign \in {1, -1},
         Arithmetic(dst, immediate, sign)
  PROVE  Kept
<1> DEFINE b == IF immediate THEN Imm16 ELSE reg[Common(Opcode)]
           sum == reg[dst] + sign * b
           value == Wrap(sum)
<1>1. b \in Nat
  BY Operands, CommonIsRegister, OperandOfRegister, GprsAreRegisters
<1>2. reg[dst] \in Nat
  BY OperandOfRegister, GprsAreRegisters
<1>3. sum \in Int
  <2> HIDE DEF b
  <2> QED
    BY <1>1, <1>2
<1>4. reg' = [reg EXCEPT ![dst] = value]
  BY DEF Arithmetic
<1>5. value \in Nat /\ value < 65536
  <2> HIDE DEF sum
  <2> QED
    BY <1>3, WrapIsWord, SMT
<1>6. ip' \in Nat
  <2>1. Continue(IF immediate THEN 3 ELSE 1)
    BY Zenon DEF Arithmetic
  <2> QED
    BY <2>1, Operands DEF Continue
<1> HIDE DEF value
<1>7. dst \in Registers /\ "sp" \in Registers
  BY GprsAreRegisters
<1>8. reg' \in [Registers -> Nat] /\ reg'["sp"] \in {value, reg["sp"]}
  BY <1>4, <1>5, <1>7 DEF Numeric
<1>9. reg'["sp"] < 65536
  BY <1>5, <1>8 DEF Numeric
<1> QED
  BY <1>6, <1>8, <1>9 DEF Arithmetic, Numeric, NoPushUnderRom, Kept

LEMMA AddSubtractKeep == ASSUME Numeric, Add \/ Subtract PROVE Kept
<1>1. CASE Add
  <2>1. PICK dst \in Gprs \cup {"sp"}, immediate \in BOOLEAN : Arithmetic(dst, immediate, 1)
    BY <1>1 DEF Add, Gprs
  <2> QED
    BY <2>1, ArithmeticKeeps
<1>2. CASE Subtract
  <2>1. PICK dst \in Gprs \cup {"sp"}, immediate \in BOOLEAN : Arithmetic(dst, immediate, -1)
    <3> DEFINE d == CASE Opcode = 159 -> "bx" [] Opcode \in 156 .. 158 -> "dx"
                      [] Opcode = 155 -> "sp" [] OTHER -> "ax"
               i == Opcode % 4 = 0 \/ Opcode = 155
    <3>1. d \in Gprs \cup {"sp"}
      <4>1. Opcode = 159 => Opcode \notin 156 .. 158 /\ Opcode # 155
        BY SMT
      <4>2. Opcode \in 156 .. 158 => Opcode # 155
        BY SMT
      <4> QED
        BY <4>1, <4>2, Zenon DEF Gprs
    <3>2. i \in BOOLEAN
      OBVIOUS
    <3>3. Arithmetic(d, i, -1)
      BY <1>2, Zenon DEF Subtract
    <3> HIDE DEF d, i
    <3> QED
      BY <3>1, <3>2, <3>3
  <2> QED
    BY <2>1, ArithmeticKeeps
<1> QED
  BY <1>1, <1>2

\* The table holds what it read.
LEMMA LoadIvtKeeps == ASSUME Numeric, LoadIvt PROVE Kept
<1> DEFINE addr == IF Opcode = 183 THEN reg["ax"] ELSE Imm16
           size == Read8(addr)
           entry(i) == Read16(Wrap(addr + 2 * i - 1))
<1>1. addr \in Nat
  BY Operands, OperandOfRegister, GprsAreRegisters
<1>2. CASE size = 255
  BY <1>2 DEF LoadIvt, Exit, Numeric, NoPushUnderRom, Kept
<1>3. CASE size # 255
  <2>1. /\ ivt' = [i \in 1 .. size + 1 |-> entry(i)]
        /\ UNCHANGED <<rom, ram, reg>>
    BY <1>3 DEF LoadIvt
  <2>2. ip' \in Nat
    <3>1. Continue(IF Opcode = 183 THEN 1 ELSE 3)
      BY <1>3, Zenon DEF LoadIvt
    <3> QED
      BY <3>1, Operands DEF Continue
  <2> HIDE DEF addr
  <2>3. size \in Nat
    BY <1>1, ReadsNumbers
  <2>4. ASSUME NEW i \in Int PROVE entry(i) \in Nat
    <3>1. addr + 2 * i - 1 \in Int
      BY <1>1
    <3>2. Wrap(addr + 2 * i - 1) \in Nat
      BY <3>1, WrapIsWord, SMT
    <3> QED
      BY <3>2, ReadsNumbers
  <2> HIDE DEF size, entry
  <2>5. ivt' \in Seq(Nat)
    BY <2>1, <2>3, <2>4
  <2> QED
    BY <2>1, <2>2, <2>5 DEF Numeric, NoPushUnderRom, Kept
<1> QED
  BY <1>2, <1>3

LEMMA CpuidKeeps == ASSUME Numeric, Cpuid PROVE Kept
<1>1. ip' \in Nat
  BY Operands DEF Cpuid, Continue
<1>2. reg' = [reg EXCEPT !["ax"] = 2112]
  BY DEF Cpuid
<1>3. ASSUME NEW v \in Nat
      PROVE  /\ [reg EXCEPT !["ax"] = v] \in [Registers -> Nat]
             /\ [reg EXCEPT !["ax"] = v]["sp"] = reg["sp"]
  BY GprsAreRegisters DEF Numeric
<1>4. 2112 \in Nat
  OBVIOUS
<1>5. reg' \in [Registers -> Nat] /\ reg'["sp"] = reg["sp"]
  BY <1>2, <1>3, <1>4
<1> QED
  BY <1>1, <1>5 DEF Cpuid, Numeric, NoPushUnderRom, Kept

LEMMA RaisingKeeps == ASSUME Numeric, Interrupt \/ InvalidInstruction PROVE Kept
<1>1. After(1) \in Nat
  BY Operands
<1>2. PICK n \in Nat : RaiseInternal(n, After(1))
  BY DEF Interrupt, InvalidInstruction, INT_INVALID_INSTRUCTION, INT_USER1, INT_USER2
<1> QED
  BY <1>1, <1>2, ExceptionKeeps

LEMMA NextKeeps == ASSUME Numeric, Next PROVE Kept
  BY IrqKeeps, InputKeeps, StoreKeeps, JumpsKeep, QuietKeep, PushKeeps, PopKeeps,
     AddSubtractKeep, LoadIvtKeeps, CpuidKeeps, RaisingKeeps
  DEF Next, Instruction

-------------------------------------------------------------------------------
(* The flags of comparisons.                                                  *)

\* What keeps the last comparison valid: it is kept with its flags.
SameComparison ==
  /\ UNCHANGED compared
  /\ \A f \in ArithmeticFlags : f \in flags' <=> f \in flags

LEMMA SameDecides == CompareDecides /\ SameComparison => CompareDecides'
  BY DEF CompareDecides, SameComparison, ArithmeticFlags

LEMMA EnterSameComparison ==
  ASSUME NEW n, NEW return, NEW kind, NEW f \in {IN_IRQ, EXCEPTION},
         Enter(n, return, flags \cup {f}, kind)
  PROVE  SameComparison
<1>1. flags' \in {flags, flags \cup {f}} /\ UNCHANGED compared
  BY DEF Enter, Exit
<1>2. f \notin ArithmeticFlags
  BY Flags
<1> QED
  BY <1>1, <1>2 DEF SameComparison

LEMMA OthersSameComparison ==
  \/ Output \/ (\E v \in InputWords : Input(v)) \/ Store \/ FarJump \/ NearJump
  \/ InvalidInstruction1 \/ Push \/ Pop \/ LoadIvt \/ Halt \/ Cpuid \/ Placeholder
  \/ NoIrq \/ Wake \/ Interrupt \/ InvalidInstruction \/ (\E n \in IrqNumbers : TakeIrq(n))
  => SameComparison
<1>1. Output \/ FarJump \/ NearJump \/ Placeholder => SameComparison
  BY DEF SameComparison, Output, FarJump, NearJump, Placeholder, OnlyIp
<1>2. (\E v \in InputWords : Input(v)) \/ Store \/ Pop \/ Halt \/ Cpuid \/ NoIrq \/ Wake
        => SameComparison
  BY DEF SameComparison, Input, Store, Pop, Halt, Cpuid, NoIrq, Wake
<1>3. InvalidInstruction1 \/ Push \/ LoadIvt => SameComparison
  BY DEF SameComparison, InvalidInstruction1, Push, LoadIvt, Exit
<1>4. Interrupt \/ InvalidInstruction => SameComparison
  <2>1. ASSUME NEW n, NEW return, RaiseInternal(n, return) PROVE SameComparison
    <3>1. \/ UNCHANGED <<flags, compared>>
          \/ Enter(n, return, flags \cup {EXCEPTION}, "exception")
      BY <2>1 DEF RaiseInternal, Exit
    <3> QED
      BY <3>1, EnterSameComparison DEF SameComparison
  <2> QED
    BY <2>1 DEF Interrupt, InvalidInstruction
<1>5. (\E n \in IrqNumbers : TakeIrq(n)) => SameComparison
  BY EnterSameComparison DEF TakeIrq
<1> QED
  BY <1>1, <1>2, <1>3, <1>4, <1>5

\* A comparison leaves exactly the flag that tells its outcome.
LEMMA CompareDecidesAnew == ASSUME Numeric, Compare PROVE CompareDecides'
<1>1. PICK a \in Nat, b \in Nat :
        /\ flags' = (flags \ ArithmeticFlags)
                      \cup {IF a = b THEN ZERO ELSE IF a < b THEN OVERFLOW ELSE GREATER}
        /\ compared' = <<a, b>>
  <2> DEFINE r == reg[Common(Opcode \div 2)]  q == IF Bit(1) THEN Imm16 ELSE reg["dx"]
  <2>1. r \in Nat /\ q \in Nat
    BY Operands, CommonIsRegister, OperandOfRegister, GprsAreRegisters
  <2>2. /\ flags' = (flags \ ArithmeticFlags)
                      \cup {IF r = q THEN ZERO ELSE IF r < q THEN OVERFLOW ELSE GREATER}
        /\ compared' = <<r, q>>
    BY DEF Compare, ArithmeticFlags
  <2> HIDE DEF r, q
  <2> QED
    BY <2>1, <2>2
<1>2. compared'[1] = a /\ compared'[2] = b
  BY <1>1
<1>3. ZERO # OVERFLOW /\ ZERO # GREATER /\ OVERFLOW # GREATER
  BY DEF ZERO, OVERFLOW, GREATER
<1>4. /\ ZERO \in flags' <=> a = b
      /\ OVERFLOW \in flags' <=> a < b
      /\ GREATER \in flags' <=> a > b
  BY <1>1, <1>3 DEF ArithmeticFlags
<1> QED
  BY <1>2, <1>4 DEF CompareDecides

LEMMA ArithmeticForgets == Add \/ Subtract => CompareDecides'
<1>1. Add \/ Subtract => compared' = <<>>
  BY DEF Add, Subtract, Arithmetic
<1> QED
  BY <1>1 DEF CompareDecides

-------------------------------------------------------------------------------
\* Numeric, the strengthening of both theorems, holds throughout.
THEOREM NumbersStayNumbers == Spec => [](Numeric /\ NoPushUnderRom)
<1>1. Init => Numeric /\ NoPushUnderRom
  BY DEF Init, Numeric, BytesOK, NoPushUnderRom, Registers
<1>2. Numeric /\ NoPushUnderRom /\ [Next]_vars => (Numeric /\ NoPushUnderRom)'
  <2>1. Numeric /\ NoPushUnderRom /\ UNCHANGED vars => (Numeric /\ NoPushUnderRom)'
    BY DEF Numeric, BytesOK, NoPushUnderRom, vars
  <2> QED
    BY <2>1, NextKeeps DEF Kept
<1> QED
  BY <1>1, <1>2, PTL DEF Spec

\* Wherever the stack pointer is moved, what an instruction or an interrupt
\* pushes is in main memory where it can be read back, or the emulator ends.
THEOREM PushesAreVisible == Spec => []NoPushUnderRom
  BY NumbersStayNumbers, PTL

\* A conditional jump decides by the comparison before it, though interrupts
\* push and change flags in between (ControlUnit.cpp:220).
THEOREM ComparisonsDecide == Spec => []CompareDecides
<1>1. Init => CompareDecides
  BY DEF Init, CompareDecides
<1>2. CompareDecides /\ Numeric /\ [Next]_vars => CompareDecides'
  <2>1. CompareDecides /\ UNCHANGED vars => CompareDecides'
    BY DEF CompareDecides, vars
  <2> QED
    BY <2>1, OthersSameComparison, SameDecides, CompareDecidesAnew, ArithmeticForgets
    DEF Next, Instruction
<1> QED
  BY <1>1, <1>2, NumbersStayNumbers, PTL DEF Spec
===============================================================================
