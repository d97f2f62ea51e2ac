----------------------------- MODULE Assembler -----------------------------
(* The assembler of toolchain/compiler/asm behind its parser.  The Builder  *)
(* executes the operations of a source file one after the other, filling    *)
(* sections, labels and assignments; the Generator then emits the sections  *)
(* in the order of their names and, at the end of each, puts the distances  *)
(* of labels into the jumps that name them.                                 *)
(*                                                                          *)
(* An emitted byte is the opcode of an instruction, kept symbolic, or a     *)
(* number below Byte.                                                       *)
EXTENDS Integers, Sequences, FiniteSets, SequencesExt

CONSTANTS
    Half,           \* half of the values of a byte (128)
    Ports,          \* I/O ports an instruction can name (16)
    HeaderSize,     \* bytes of Cx16ExecHeader (18)
    SectionNames,   \* section names of a source, in the order std::map keeps
    Sources         \* source files, each the sequence of its operations

ASSUME HalfAssumption == Half \in Nat \ {0}
ASSUME SizesAssumption == Ports \in Nat /\ HeaderSize \in Nat
ASSUME NamesAssumption == /\ SectionNames \in Seq(STRING)
                          /\ "none" \notin ToSet(SectionNames)

\* What the parser makes of an operand and of a line.  A port is read with its
\* digits taken for decimal ones.
Conditions == {"JMP", "JZ", "JG", "JL", "JNE", "JGE", "JLE"}
Operands == [type : {"Number"}, value : Nat, digits : Nat]
              \cup [type : {"Name"}, value : STRING] \cup [type : {"Other"}]
Operations ==
    [op : {"section"}, name : ToSet(SectionNames)]
      \cup [op : {"label"}, name : STRING]
      \cup [op : {"assign"}, name : STRING, value : Operands]
      \cup [op : {"globl", "type"}, names : Seq(STRING)]
      \cup [op : {"jump"}, condition : Conditions, destination : Operands]
      \cup [op : {"io"}, kind : {"IN", "OUT"}, size : Nat, port : Operands, value : Operands]
      \cup [op : {"plain", "invalid"}]

ASSUME SourcesAssumption == Sources \subseteq Seq(Operations)

VARIABLES
    phase,          \* what assemble_to_obj does next, or how it ended
    rest,           \* operations of the source still to execute
    success,        \* what the Builder has returned so far
    sections,       \* m_sections
    current,        \* m_current_section
    assignments,    \* m_assignments
    symbols,        \* m_symbols
    pending,        \* sections the Generator has not finished
    header,         \* section addresses of the header
    current_offset, section_offset,
    section_payload, payload,
    file,           \* bytes in the output stream
    within,         \* history: the section whose lines the source is at
    listing,        \* history: per section, what its source lines say
    told,           \* history: per section, the instructions of its source lines
    executed        \* history: lines executed, without those that declare a
                    \* symbol, or a label that its section has already

history == <<within, listing, told>>
source == <<rest, success, assignments, symbols, history, executed>>
generator == <<pending, header, section_offset, payload>>
vars == <<phase, rest, success, sections, current, assignments, symbols,
          pending, header, current_offset, section_offset, section_payload, payload,
          file, history, executed>>

Byte == 2 * Half
Word == Byte * Byte
Signed(b) == IF (b % Byte) >= Half THEN (b % Byte) - Byte ELSE b % Byte

Opcode(name) == [opcode |-> name]
Data(value) == [data |-> value % Byte]

Reserved == {"al", "bl", "cl", "dl", "ax", "bx", "cx", "dx",
             "IF", "GF", "OF", "ZF", "NF", "PF", "EF"}
HeaderSections == {"bss", "data", "rodata", "text"}
Null == [type |-> "Null"]
EmptySection == [instructions |-> <<>>, instruction_adresses |-> <<>>,
                 labels |-> <<>>, replace_entries |-> {}]

Init ==
    /\ phase = "building"
    /\ rest \in Sources
    /\ success = TRUE
    /\ sections = <<>>
    /\ current = "none"
    /\ assignments = <<>>
    /\ symbols = <<>>
    /\ pending = {}
    /\ header = <<>>
    /\ current_offset = HeaderSize
    /\ section_offset = HeaderSize
    /\ section_payload = <<>>
    /\ payload = <<>>
    /\ file = <<>>
    /\ executed = 0
    /\ within = "none"
    /\ listing = [s \in ToSet(SectionNames) |-> <<>>]
    /\ told = [s \in ToSet(SectionNames) |-> <<>>]

-----------------------------------------------------------------------------
(* Builder: one operation of the source.                                    *)

\* Mutant: what is there is overwritten.
Insert_last_wins(f, x, v) ==
    [y \in DOMAIN f \cup {x} |-> IF y = x THEN v ELSE f[y]]

\* std::map::insert: what is there already stays.
Insert(f, x, v) ==
    [y \in DOMAIN f \cup {x} |-> IF y \in DOMAIN f THEN f[y] ELSE v]

\* What an operand stands for, given the assignments.
Resolve(operand, data) ==
    IF operand.type # "Name" \/ operand.value \in Reserved THEN operand
    ELSE IF operand.value \in DOMAIN data THEN data[operand.value]
    ELSE Null

operation == Head(rest)

\* The operation is one of these, and the next one's turn comes.
Takes(kinds) ==
    /\ phase = "building"
    /\ rest # <<>>
    /\ operation.op \in kinds
    /\ rest' = Tail(rest)
    /\ UNCHANGED <<generator, current_offset, section_payload, file>>

\* The operation is executed, and is no declaration of a symbol.
Execute(kinds) ==
    /\ Takes(kinds)
    /\ executed' = executed + 1
    /\ UNCHANGED symbols

\* Mutant: the failure is forgotten.
Fails_unreported ==
    UNCHANGED <<success, phase, sections, current, assignments, history>>

\* The operation is reported and left out; the Builder goes on.
Fails ==
    /\ success' = FALSE
    /\ UNCHANGED <<phase, sections, current, assignments, history>>

Crashes ==
    /\ phase' = "crashed"
    /\ UNCHANGED <<success, sections, current, assignments, history>>

\* What the source says of a section is listed under the section its lines are
\* in, whatever section the code fills; this is history, not code.
InstructionLine == [line |-> "instruction"]
SectionLine == [line |-> "section"]
LabelLine(name) == [line |-> "label", name |-> name]
List(section, item) ==
    listing' = [listing EXCEPT ![section] = Append(@, item)]

\* Without a section the code dereferences a null pointer.
PushInstruction(instruction) ==
    \/ /\ current # "none"
       /\ sections' = [sections EXCEPT ![current].instructions =
                           Append(@, instruction)]
       /\ List(within, InstructionLine)
       /\ told' = [told EXCEPT ![within] = Append(@, operation)]
       /\ UNCHANGED <<phase, success, current, assignments, within>>
    \/ /\ current = "none"
       /\ Crashes

\* .section .name
SwitchSection ==
    /\ Execute({"section"})
    /\ sections' = Insert(sections, operation.name, EmptySection)
    /\ current' = operation.name
    /\ within' = operation.name
    /\ List(operation.name, SectionLine)
    /\ UNCHANGED <<phase, success, assignments, told>>

\* name:  A label that its section has already is dropped without a report.
DeclareLabel ==
    /\ Takes({"label"})
    /\ \/ /\ current # "none"
          /\ sections' = [sections EXCEPT ![current].labels =
                 Insert(@, operation.name,
                             Len(sections[current].instructions))]
          /\ IF LabelLine(operation.name) \in ToSet(listing[within])
             THEN UNCHANGED <<listing, executed>>
             ELSE List(within, LabelLine(operation.name)) /\ executed' = executed + 1
          /\ UNCHANGED <<phase, success, current, assignments, told, within>>
       \/ /\ current = "none"
          /\ Fails
          /\ executed' = executed + 1
    /\ UNCHANGED symbols

\* name := operand
Assign ==
    /\ Execute({"assign"})
    /\ \/ /\ operation.name \notin DOMAIN assignments
          /\ assignments' = Insert(assignments, operation.name, operation.value)
          /\ UNCHANGED <<phase, success, sections, current, history>>
       \/ /\ operation.name \in DOMAIN assignments
          /\ Fails

\* .globl name and .type name, type.  A second .globl of a name, and .type of a
\* name without a .globl before it, do nothing and are not reported.
DeclareSymbol ==
    /\ Takes({"globl", "type"})
    /\ IF operation.names = <<>>
       THEN /\ Fails
            /\ executed' = executed + 1
            /\ UNCHANGED symbols
       ELSE /\ symbols' =
                   IF operation.op = "globl"
                   THEN Insert(symbols, operation.names[1],
                               [section |-> current, type |-> "invalid"])
                   ELSE [name \in DOMAIN symbols |->
                            IF name = operation.names[1]
                            THEN [symbols[name] EXCEPT !.type = operation.names[2]]
                            ELSE symbols[name]]
            /\ UNCHANGED <<phase, success, sections, current, assignments,
                           history, executed>>

InputOutputOpcode(kind, size, port, value) ==
    [op |-> "io", kind |-> kind, size |-> size, port |-> port % Byte,
     value |-> value]

\* An instruction without operands, or a jump.
AddInstruction ==
    /\ Execute({"plain", "jump"})
    /\ PushInstruction(operation)

\* OUT and IN: the port and the value are looked up now.  A name of the port
\* that has no value is dereferenced; a number that is -1 in 16 bits is taken
\* for an error.
AddInputOutput ==
    LET port == Resolve(operation.port, assignments)
        value == Resolve(operation.value, assignments)
        valid == /\ port.type = "Number"
                 /\ port.digits % Word # Word - 1
                 /\ value # Null
                 /\ operation.size \in {8, 16}
    IN  /\ Execute({"io"})
        /\ \/ port = Null /\ Crashes
           \/ port # Null /\ ~valid /\ Fails
           \/ valid /\ PushInstruction(InputOutputOpcode(operation.kind,
                            operation.size, port.digits, value))

\* An unknown directive or jump condition.
RejectOperation ==
    /\ Execute({"invalid"})
    /\ Fails

\* The Generator runs whatever the Builder returned.
EndBuild ==
    /\ phase = "building"
    /\ rest = <<>>
    /\ phase' = "sections"
    /\ pending' = DOMAIN sections
    /\ UNCHANGED <<source, sections, current, header, current_offset,
                   section_offset, section_payload, payload, file>>

-----------------------------------------------------------------------------
(* Generator.  An instruction becomes bytes, and perhaps an entry: the      *)
(* operand byte at this position of the section waits for a label.          *)

Generated(bytes) == [status |-> "ok", bytes |-> bytes, entries |-> {}]
GeneratedFor(bytes, offset, name) ==
    [status |-> "ok", bytes |-> bytes, entries |-> {<<offset + 1, name>>}]
Not(status) == [status |-> status, bytes |-> <<>>, entries |-> {}]

\* An absolute address, or the place holder of a label.
ResolveOperand(operand, offset) ==
    IF operand.type = "Number" THEN operand.value % Word
    ELSE IF operand.type = "Name" THEN offset % Word
    ELSE 0

\* Any jump through ax is the unconditional one.  The distance of a
\* conditional jump is taken from the offset in eight bits, and has to be a
\* byte.
Jump(instruction, offset) ==
    LET to == instruction.destination
        address == ResolveOperand(to, offset)
        distance == (address - Signed(offset)) % Word
        bytes == IF instruction.condition = "JMP"
                 THEN <<Opcode("JMP"), Data(address \div Byte), Data(address)>>
                 ELSE <<Opcode(instruction.condition), Data(distance)>>
    IN  IF to.type = "Name" /\ to.value = "ax"
        THEN Generated(<<Opcode("JMP_ax")>>)
        ELSE IF instruction.condition # "JMP" /\ distance >= Byte
        THEN Not("failed")
        ELSE IF to.type = "Name"
        THEN GeneratedFor(bytes, offset, to.value)
        ELSE Generated(bytes)

\* The value is looked up a second time.  Both bytes of an immediate value
\* are its low byte, for either size.
InputOutput(instruction, data) ==
    LET Sized(wide, narrow) == IF instruction.size = 16 THEN wide ELSE narrow
        inRegister == /\ instruction.value.type = "Name"
                      /\ instruction.value.value = Sized("ax", "al")
        immediate == Resolve(instruction.value, data)
    IN  IF instruction.port >= Ports THEN Not("failed")
        ELSE IF inRegister
        THEN Generated(<<Opcode(IF instruction.kind = "IN" THEN Sized("IN_ax", "IN_al")
                                ELSE Sized("OUT_ax", "OUT_al"))>>)
        ELSE IF instruction.kind = "IN" THEN Not("failed")
        ELSE IF immediate = Null THEN Not("crashed")
        ELSE IF immediate.type # "Number" \/ immediate.value >= Word
        THEN Not("failed")
        ELSE Generated(<<Opcode(Sized("OUT16", "OUT8")), Data(immediate.value),
                         Data(immediate.value)>>)

Generate(instruction, data, offset) ==
    IF instruction.op = "plain" THEN Generated(<<Opcode("plain")>>)
    ELSE IF instruction.op = "jump" THEN Jump(instruction, offset)
    ELSE InputOutput(instruction, data)

Stop(status) ==
    /\ phase' = status
    /\ UNCHANGED <<source, generator, sections, current, current_offset,
                   section_payload, file>>

\* The sections come in the order of their names.
IsNext(s) ==
    \E i \in DOMAIN SectionNames :
        /\ SectionNames[i] = s
        /\ pending \cap {SectionNames[j] : j \in 1..i} = {s}

\* The section's address goes into the header.
StartSection ==
    /\ phase = "sections"
    /\ \E s \in pending :
        /\ IsNext(s)
        /\ \/ /\ s \in HeaderSections
              /\ header' = [t \in DOMAIN header \cup {s} |->
                               IF t = s THEN current_offset % Word ELSE header[t]]
              /\ current' = s
              /\ section_offset' = current_offset
              /\ section_payload' = <<>>
              /\ phase' = "instructions"
              /\ UNCHANGED <<source, sections, pending, current_offset, payload,
                             file>>
           \/ /\ s \notin HeaderSections
              /\ Stop("failed")

GenerateInstruction ==
    LET section == sections[current]
        next == Len(section.instruction_adresses) + 1
        offset == current_offset - section_offset
        generated == Generate(section.instructions[next], assignments, offset)
    IN  /\ phase = "instructions"
        /\ next <= Len(section.instructions)
        /\ \/ /\ generated.status = "ok"
              /\ section_payload' = section_payload \o generated.bytes
              /\ sections' = [sections EXCEPT
                    ![current].instruction_adresses = Append(@, offset),
                    ![current].replace_entries = @ \cup generated.entries]
              /\ current_offset' = current_offset + Len(generated.bytes)
              /\ UNCHANGED <<phase, source, generator, current, file>>
           \/ /\ generated.status # "ok"
              /\ Stop(generated.status)

\* A label the section does not have gets index 0.  The address of a label
\* behind the last instruction is read beyond the end of the vector: it is
\* whatever is there.
LabelAddress(section, name, beyond) ==
    LET index == IF name \in DOMAIN section.labels THEN section.labels[name] ELSE 0
    IN  IF index < Len(section.instruction_adresses)
        THEN section.instruction_adresses[index + 1] ELSE beyond

Replaced(section, bytes, beyond) ==
    LET entriesAt(p) == {e \in section.replace_entries : e[1] = p - 1}
    IN  [p \in DOMAIN bytes |->
            IF entriesAt(p) = {} THEN bytes[p]
            ELSE LET entry == CHOOSE e \in entriesAt(p) : TRUE
                 IN  Data(LabelAddress(section, entry[2], beyond) - entry[1] + 1)]

FinishSection ==
    /\ phase = "instructions"
    /\ Len(sections[current].instruction_adresses) =
           Len(sections[current].instructions)
    /\ \E beyond \in 0..Byte-1 :
           payload' = payload \o
                        Replaced(sections[current], section_payload, beyond)
    /\ pending' = pending \ {current}
    /\ phase' = "sections"
    /\ UNCHANGED <<source, sections, current, header, current_offset,
                   section_offset, section_payload, file>>

\* The header is left out of a raw file.
WriteFile ==
    /\ phase = "sections"
    /\ pending = {}
    /\ \E raw \in BOOLEAN :
           file' = (IF raw THEN <<>> ELSE [i \in 1..HeaderSize |->
                                              Opcode("header")]) \o payload
    /\ phase' = "done"
    /\ UNCHANGED <<source, generator, sections, current, current_offset,
                   section_payload>>

Next ==
    \/ SwitchSection
    \/ DeclareLabel
    \/ Assign
    \/ DeclareSymbol
    \/ AddInstruction
    \/ AddInputOutput
    \/ RejectOperation
    \/ EndBuild
    \/ StartSection
    \/ GenerateInstruction
    \/ FinishSection
    \/ WriteFile

Spec == Init /\ [][Next]_vars

-----------------------------------------------------------------------------
(* Properties.                                                              *)

\* Where the source wants a jump of this section to go: to the number, or to
\* the first instruction behind the label's first line, if there is one.  A
\* label the section does not have is taken for its beginning.
TargetAddresses(section, to) ==
    LET lines == listing[section]
        declared == {p \in DOMAIN lines : lines[p] = LabelLine(to.value)}
        before == {p \in DOMAIN lines : /\ lines[p] = InstructionLine
                                        /\ declared # {} /\ \A q \in declared : p < q}
        addresses == sections[section].instruction_adresses
    IN  IF to.type = "Number" THEN {to.value}
        ELSE IF to.type = "Name" /\ to.value # "ax"
        THEN {addresses[i] : i \in {Cardinality(before) + 1} \cap DOMAIN addresses}
        ELSE {}

\* Mutant: the width bit is read the other way round.
BytesRead_inverted_width(opcode) ==
    IF opcode \in {"JMP", "OUT8"} THEN 3
    ELSE IF opcode \in (Conditions \ {"JMP"}) \cup {"OUT16"} THEN 2
    ELSE 1

\* Bytes the processor reads for an instruction, ControlUnit::do_insn.
BytesRead(opcode) ==
    IF opcode \in {"JMP", "OUT16"} THEN 3
    ELSE IF opcode \in (Conditions \ {"JMP"}) \cup {"OUT8"} THEN 2
    ELSE 1

\* Where the processor goes from a near jump, Executor::jmp_helper, when the
\* jump is at the address and followed by this byte: it has read two bytes.
Landing(address, byte) == (address + 2) + Signed(byte) - 2

\* An object file with a header, in which every address has 16 bits.
IsObject ==
    /\ phase = "done"
    /\ Len(file) = HeaderSize + Len(payload)
    /\ HeaderSize + Len(payload) <= Word
InFile(section, address) == file[header[section] + address + 1]

TypeOK ==
    /\ phase \in {"building", "sections", "instructions", "done", "failed",
                  "crashed"}
    /\ success \in BOOLEAN
    /\ current \in {"none"} \cup DOMAIN sections
    /\ DOMAIN sections \subseteq ToSet(SectionNames)
    /\ pending \subseteq DOMAIN sections
    /\ \A s \in DOMAIN sections :
          /\ \A l \in DOMAIN sections[s].labels :
                sections[s].labels[l] \in 0..Len(sections[s].instructions)
          /\ Len(sections[s].instruction_adresses) <=
                Len(sections[s].instructions)
    /\ DOMAIN header \subseteq DOMAIN sections \cap HeaderSections
    /\ \A s \in DOMAIN header : header[s] \in 0..Word-1
    /\ current_offset \in Nat /\ section_offset \in Nat

\* The opcodes a line of the source can mean.  Any jump through ax is the
\* unconditional one, and the value of OUT may be a register or a number.
OpcodesMeant(line) ==
    LET Sized(wide, narrow) == IF line.size = 16 THEN wide ELSE narrow
    IN  IF line.op = "plain" THEN {"plain"}
        ELSE IF line.op = "jump"
        THEN IF line.destination.type = "Name" /\ line.destination.value = "ax"
             THEN {"JMP_ax"} ELSE {line.condition}
        ELSE IF line.kind = "IN" THEN {Sized("IN_ax", "IN_al")}
        ELSE {Sized("OUT_ax", "OUT_al"), Sized("OUT16", "OUT8")}

\* In an object file, the instructions of a section are those its source lines
\* have, as many and in their order, each starting with an opcode its line
\* means, at its address behind the address the header gives for the section:
\* sections that the source switches back to (runtimedata.cpp:8) lose and mix
\* nothing, and replacing labels (runtimedata.cpp:71) touches no opcode.
InstructionsInPlace ==
    IsObject =>
        \A s \in ToSet(SectionNames) :
            LET addresses == IF s \in DOMAIN sections
                             THEN sections[s].instruction_adresses ELSE <<>>
            IN  /\ DOMAIN addresses = DOMAIN told[s]
                /\ \A i \in DOMAIN addresses :
                      InFile(s, addresses[i]) \in
                          {Opcode(name) : name \in OpcodesMeant(told[s][i])}

\* A conditional jump whose target is in reach of a signed byte lands on it,
\* as the processor computes jumps (opcodes.cpp:32, runtimedata.cpp:79,
\* Executor.cpp:45), forward and backward, across labels and switches of the
\* section.
NearJumpsArrive ==
    IsObject =>
        \A s \in DOMAIN sections :
            \A i \in DOMAIN sections[s].instructions :
                LET instruction == sections[s].instructions[i]
                    address == sections[s].instruction_adresses[i]
                IN  /\ instruction.op = "jump"
                    /\ instruction.condition # "JMP"
                    => \A t \in TargetAddresses(s, instruction.destination) :
                          t - address \in -Half..Half-1 =>
                              Landing(address, InFile(s, address + 1).data) = t

\* The processor, which finds the next instruction by the bytes it has read,
\* and the assembler agree where instructions begin; not after OUT8 with an
\* immediate value, which is emitted with two bytes (opcodes.cpp:64) and read
\* with one (ControlUnit.cpp:190).
DecodedAsEmitted ==
    IsObject =>
        \A s \in DOMAIN sections :
            LET addresses == sections[s].instruction_adresses
            IN  \A i \in 1..Len(addresses)-1 :
                    LET opcode == InFile(s, addresses[i]).opcode
                    IN  opcode # "OUT8" =>
                            addresses[i] + BytesRead(opcode) = addresses[i + 1]

\* When the Builder reports success, every line of the source has become
\* part of a section or an assignment (builder.cpp:10): a line that was dropped
\* is reported, however many lines come after it.  Two kinds of lines are left
\* out: symbols, which no section holds, and a label declared again in its
\* section, which is dropped without a report (ast.cpp:39).
DroppedLinesReported ==
    phase = "sections" /\ success =>
        Cardinality(UNION {{s} \X DOMAIN listing[s] : s \in DOMAIN listing})
          + Cardinality(DOMAIN assignments) = executed

\* JMP to a label gives the label's address, as the manual says of the
\* instruction.  The code replaces the first of the two bytes by a distance
\* and leaves the place holder in the second (runtimedata.cpp:84).
FarJumpsArrive ==
    IsObject =>
        \A s \in DOMAIN sections :
            \A i \in DOMAIN sections[s].instructions :
                LET instruction == sections[s].instructions[i]
                    address == sections[s].instruction_adresses[i]
                IN  /\ instruction.op = "jump"
                    /\ instruction.condition = "JMP"
                    /\ instruction.destination.type = "Name"
                    /\ LabelLine(instruction.destination.value) \in ToSet(listing[s])
                    => \A t \in TargetAddresses(s, instruction.destination) :
                          t = InFile(s, address + 1).data * Byte
                                + InFile(s, address + 2).data

=============================================================================
