-------------------------- MODULE AssemblerProofs --------------------------
(* Proofs about Assembler, for every source.                                *)
(*   - Books: no line is lost without the Builder reporting it, but for a   *)
(*     label declared again in its section;                                 *)
(*   - Layout: the bytes of a section lie one behind the other, the same in *)
(*     section_payload, payload and file, but for the places of labels;     *)
(*   - AsTold: labels and instructions are those of the source lines.       *)
(* The properties about object files follow from Layout and AsTold.         *)
EXTENDS Assembler, FiniteSetTheorems, SequenceTheorems, TLAPS

-----------------------------------------------------------------------------
(* The Builder's books.                                                     *)

\* The lines of the source that the sections list.
Listed == UNION {{s} \X DOMAIN listing[s] : s \in DOMAIN listing}

Lines == {InstructionLine, SectionLine} \cup {LabelLine(name) : name \in STRING}

\* A listing for every section, and everything the source has still to say.
SourceTyped ==
    /\ rest \in Seq(Operations)
    /\ listing \in [ToSet(SectionNames) -> Seq(Lines)]
    /\ current \in {"none"} \cup ToSet(SectionNames)
    /\ \A x \in DOMAIN assignments : assignments[x] \in Operands

\* The section the Builder fills is the one the source's lines are in.
Placing ==
    /\ told \in [ToSet(SectionNames) -> Seq(Operations)]
    /\ phase = "building" => within = current

\* Until the program is gone, a successful Builder has lost nothing.
Books ==
    /\ IsFiniteSet(Listed) /\ IsFiniteSet(DOMAIN assignments)
    /\ success /\ phase # "crashed" =>
         Cardinality(Listed) + Cardinality(DOMAIN assignments) = executed
    /\ executed \in Nat

\* What an operation of each kind has.
LEMMA Shapes ==
    ASSUME NEW o \in Operations
    PROVE  /\ o.op = "section" => o.name \in ToSet(SectionNames)
           /\ o.op \in {"label", "assign"} => o.name \in STRING
           /\ o.op = "jump" => o.condition \in Conditions /\ o.destination \in Operands
           /\ o.op = "assign" => o.value \in Operands
           /\ o.op = "io" => /\ o.kind \in {"IN", "OUT"} /\ o.size \in Nat
                             /\ o.port \in Operands /\ o.value \in Operands
           /\ o.op \in {"section", "label", "assign", "globl", "type", "jump", "io", "plain", "invalid"}
  BY DEF Operations

\* What an operand has.
LEMMA Operand ==
    ASSUME NEW o \in Operands
    PROVE  /\ o # Null
           /\ o.type \in {"Number", "Name", "Other"}
           /\ o.type = "Number" => o.value \in Nat /\ o.digits \in Nat
  BY DEF Operands, Null

\* The operation that is executed, and what is left of the source.
LEMMA NextOperation ==
    ASSUME rest \in Seq(Operations), rest # <<>>
    PROVE  operation \in Operations /\ Tail(rest) \in Seq(Operations)
  BY HeadTailProperties DEF operation

\* One line more is listed.
LEMMA ListOne ==
    ASSUME SourceTyped, IsFiniteSet(Listed), NEW s \in DOMAIN listing, NEW item \in Lines, List(s, item)
    PROVE  /\ listing' \in [ToSet(SectionNames) -> Seq(Lines)]
           /\ IsFiniteSet(Listed') /\ Cardinality(Listed') = Cardinality(Listed) + 1
<1> DEFINE n == Len(listing[s])
<1>1. listing \in [ToSet(SectionNames) -> Seq(Lines)] /\ listing[s] \in Seq(Lines) /\ n \in Nat
  BY DEF SourceTyped
<1>2. Append(listing[s], item) \in Seq(Lines) /\ Len(Append(listing[s], item)) = n + 1
  BY <1>1, AppendProperties
<1>3. listing' = [listing EXCEPT ![s] = Append(@, item)]
  BY DEF List
<1>4. listing' \in [ToSet(SectionNames) -> Seq(Lines)]
  BY <1>1, <1>2, <1>3
<1>5. DOMAIN listing[s] = 1 .. n /\ DOMAIN listing'[s] = 1 .. n + 1
  BY <1>1, <1>2, <1>3
<1>6. Listed' = Listed \cup {<<s, n + 1>>} /\ <<s, n + 1>> \notin Listed
  <2>1. DOMAIN listing' = DOMAIN listing /\ \A t \in DOMAIN listing : t # s => listing'[t] = listing[t]
    BY <1>3
  <2>2. DOMAIN listing'[s] = DOMAIN listing[s] \cup {n + 1} /\ n + 1 \notin DOMAIN listing[s]
    BY <1>1, <1>5
  <2> QED
    BY <2>1, <2>2 DEF Listed
<1> QED
  BY <1>4, <1>6, FS_AddElement

\* A line that is listed is a line executed: the books stay balanced.
LEMMA OneMoreListed ==
    ASSUME Books, IsFiniteSet(Listed'), Cardinality(Listed') = Cardinality(Listed) + 1,
           executed' = executed + 1, UNCHANGED <<phase, success, assignments>>
    PROVE  Books'
<1>1. Cardinality(Listed) \in Nat /\ Cardinality(DOMAIN assignments) \in Nat /\ executed \in Nat
  BY FS_CardinalityType DEF Books
<1>2. Cardinality(DOMAIN assignments') = Cardinality(DOMAIN assignments)
  OBVIOUS
<1>3. ASSUME success', phase' # "crashed"
      PROVE  Cardinality(Listed') + Cardinality(DOMAIN assignments') = executed'
  <2>1. Cardinality(Listed) + Cardinality(DOMAIN assignments) = executed
    BY <1>3 DEF Books
  <2> QED
    BY <1>1, <1>2, <2>1
<1> QED
  BY <1>1, <1>3 DEF Books

\* What becomes of the books when a line is executed: it is listed, or it is
\* one more assignment, or the Builder will not report success.
Lists ==
    /\ executed' = executed + 1
    /\ \E s \in DOMAIN listing, item \in Lines : List(s, item)
    /\ UNCHANGED <<phase, success, assignments>>
Reports ==
    /\ executed' = executed + 1
    /\ UNCHANGED <<listing, assignments>>
    /\ success' = FALSE \/ phase' = "crashed"
Assigns ==
    /\ executed' = executed + 1
    /\ operation.name \notin DOMAIN assignments
    /\ operation.value \in Operands
    /\ assignments' = Insert(assignments, operation.name, operation.value)
    /\ UNCHANGED <<listing, phase, success>>
Ignores == UNCHANGED <<executed, listing, assignments, phase, success>>

\* Whatever becomes of a line, the books stay balanced.
LEMMA BooksKept ==
    ASSUME SourceTyped, Books, rest # <<>>, rest' = Tail(rest),
           current' \in {"none"} \cup ToSet(SectionNames),
           Lists \/ Reports \/ Assigns \/ Ignores
    PROVE  SourceTyped' /\ Books'
<1>1. rest' \in Seq(Operations)
  BY NextOperation DEF SourceTyped
<1>2. Cardinality(Listed) \in Nat /\ Cardinality(DOMAIN assignments) \in Nat /\ executed \in Nat
  BY FS_CardinalityType DEF Books
<1>3. UNCHANGED listing => UNCHANGED Listed
  BY DEF Listed
<1>4. CASE Lists
  <2>1. PICK s \in DOMAIN listing, item \in Lines : List(s, item)
    BY <1>4 DEF Lists
  <2>2. /\ listing' \in [ToSet(SectionNames) -> Seq(Lines)]
        /\ IsFiniteSet(Listed') /\ Cardinality(Listed') = Cardinality(Listed) + 1
    BY <2>1, ListOne DEF Books
  <2>3. SourceTyped'
    BY <1>1, <1>4, <2>2 DEF SourceTyped, Lists
  <2>4. executed' = executed + 1 /\ UNCHANGED <<phase, success, assignments>>
    BY <1>4 DEF Lists
  <2>5. Books'
    BY <2>2, <2>4, OneMoreListed
  <2> QED
    BY <2>3, <2>5
<1>5. CASE Reports
  <2>1. SourceTyped'
    BY <1>1, <1>5 DEF SourceTyped, Reports
  <2>2. UNCHANGED <<Listed, assignments>> /\ executed' \in Nat
    BY <1>2, <1>3, <1>5 DEF Reports
  <2>3. ~(success' /\ phase' # "crashed")
    BY <1>5 DEF Reports
  <2> QED
    BY <2>1, <2>2, <2>3 DEF Books
<1>6. CASE Assigns
  <2>1. DOMAIN assignments' = DOMAIN assignments \cup {operation.name}
    BY <1>6 DEF Insert, Assigns
  <2>2. IsFiniteSet(DOMAIN assignments') /\ Cardinality(DOMAIN assignments') = Cardinality(DOMAIN assignments) + 1
    BY <1>6, <2>1, FS_AddElement DEF Books, Assigns
  <2>3. \A x \in DOMAIN assignments' : assignments'[x] \in Operands
    BY <1>6 DEF Insert, SourceTyped, Assigns
  <2>4. SourceTyped'
    BY <1>1, <1>6, <2>3 DEF SourceTyped, Assigns
  <2> QED
    BY <1>2, <1>3, <1>6, <2>2, <2>4 DEF Books, Assigns
<1>7. CASE Ignores
  <2>1. SourceTyped'
    BY <1>1, <1>7 DEF SourceTyped, Ignores
  <2>2. Books'
    BY <1>3, <1>7 DEF Books, Ignores
  <2> QED
    BY <2>1, <2>2
<1> QED
  BY <1>4, <1>5, <1>6, <1>7

Builds == SwitchSection \/ DeclareLabel \/ Assign \/ DeclareSymbol \/ AddInstruction \/ AddInputOutput \/ RejectOperation

\* Every operation does one of the four (builder.cpp:10).
LEMMA BuilderBooks == SourceTyped /\ Placing /\ Books /\ Builds => SourceTyped' /\ Books'
<1> SUFFICES ASSUME SourceTyped, Placing, Books, Builds PROVE SourceTyped' /\ Books'
  OBVIOUS
<1> DEFINE Listing == \E s \in DOMAIN listing, item \in Lines : List(s, item)
<1>1. /\ phase = "building" /\ rest # <<>> /\ rest' = Tail(rest)
      /\ operation \in Operations
      /\ current \in {"none"} \cup ToSet(SectionNames)
      /\ DOMAIN listing = ToSet(SectionNames) /\ within = current
  BY NextOperation DEF Placing, Builds, SwitchSection, DeclareLabel, Assign, DeclareSymbol, AddInstruction, AddInputOutput,
                       RejectOperation, Execute, Takes, SourceTyped
<1>2. InstructionLine \in Lines /\ SectionLine \in Lines /\ \A name \in STRING : LabelLine(name) \in Lines
  BY DEF Lines
<1>3. Fails => UNCHANGED <<listing, assignments, current, phase>> /\ success' = FALSE
  BY DEF Fails, history
<1>4. Crashes => UNCHANGED <<listing, assignments, current, success>> /\ phase' = "crashed"
  BY DEF Crashes, history
<1>5. ASSUME NEW i, PushInstruction(i)
      PROVE  \/ Listing /\ UNCHANGED <<current, phase, success, assignments>>
             \/ Crashes
  BY <1>1, <1>2, <1>5 DEF PushInstruction
<1>6. ASSUME SwitchSection PROVE SourceTyped' /\ Books'
  <2>1. operation.name \in ToSet(SectionNames)
    BY <1>1, <1>6, Shapes DEF SwitchSection, Execute, Takes
  <2>2. Listing /\ executed' = executed + 1 /\ UNCHANGED <<phase, success, assignments>> /\ current' = operation.name
    BY <1>1, <1>2, <1>6, <2>1 DEF SwitchSection, Execute
  <2> QED
    BY <1>1, <2>1, <2>2, BooksKept DEF Lists, Assigns, Reports, Ignores
<1>7. ASSUME DeclareLabel PROVE SourceTyped' /\ Books'
  <2>1. operation.name \in STRING
    BY <1>1, <1>7, Shapes DEF DeclareLabel, Execute, Takes
  <2>2. \/ /\ Listing /\ executed' = executed + 1
           /\ UNCHANGED <<current, phase, success, assignments>>
        \/ UNCHANGED <<listing, executed, current, phase, success, assignments>>
        \/ Fails /\ executed' = executed + 1
    BY <1>1, <1>2, <1>7, <2>1 DEF DeclareLabel
  <2> QED
    BY <1>1, <1>3, <2>2, BooksKept DEF Lists, Assigns, Reports, Ignores
<1>8. ASSUME Assign PROVE SourceTyped' /\ Books'
  <2>1. operation.value \in Operands
    BY <1>1, <1>8, Shapes DEF Assign, Execute, Takes
  <2>2. /\ executed' = executed + 1
        /\ \/ /\ operation.name \notin DOMAIN assignments
              /\ assignments' = Insert(assignments, operation.name, operation.value)
              /\ UNCHANGED <<phase, success, current, listing>>
           \/ Fails
    BY <1>8 DEF Assign, Execute, history
  <2> QED
    BY <1>1, <1>3, <2>1, <2>2, BooksKept DEF Lists, Assigns, Reports, Ignores
<1>9. ASSUME DeclareSymbol PROVE SourceTyped' /\ Books'
  <2>1. \/ Fails /\ executed' = executed + 1
        \/ UNCHANGED <<phase, success, current, assignments, listing, executed>>
    BY <1>9 DEF DeclareSymbol, history
  <2> QED
    BY <1>1, <1>3, <2>1, BooksKept DEF Lists, Reports, Ignores
<1>10. ASSUME AddInstruction PROVE SourceTyped' /\ Books'
  <2>1. executed' = executed + 1 /\ PushInstruction(operation)
    BY <1>10 DEF AddInstruction, Execute
  <2> QED
    BY <1>1, <1>4, <1>5, <2>1, BooksKept DEF Lists, Reports, Ignores
<1>11. ASSUME AddInputOutput PROVE SourceTyped' /\ Books'
  <2>1. executed' = executed + 1 /\ (Crashes \/ Fails \/ \E i : PushInstruction(i))
    BY <1>11 DEF AddInputOutput, Execute
  <2> QED
    BY <1>1, <1>3, <1>4, <1>5, <2>1, BooksKept DEF Lists, Reports, Ignores
<1>12. ASSUME RejectOperation PROVE SourceTyped' /\ Books'
  BY <1>1, <1>3, <1>12, BooksKept DEF RejectOperation, Execute, Reports
<1> QED
  BY <1>6, <1>7, <1>8, <1>9, <1>10, <1>11, <1>12 DEF Builds

Generates == EndBuild \/ StartSection \/ GenerateInstruction \/ FinishSection \/ WriteFile

\* The Generator touches no book.
LEMMA GeneratorBooks == SourceTyped /\ Books /\ Generates => SourceTyped' /\ Books'
<1> SUFFICES ASSUME SourceTyped, Books, Generates PROVE SourceTyped' /\ Books'
  OBVIOUS
<1>1. UNCHANGED source /\ phase # "crashed"
  BY DEF Generates, EndBuild, StartSection, GenerateInstruction, FinishSection, WriteFile, Stop
<1>2. current' \in {"none"} \cup ToSet(SectionNames)
  <2>1. \A s : IsNext(s) => s \in ToSet(SectionNames)
    BY DEF IsNext, ToSet
  <2>2. current' = current \/ IsNext(current')
    BY DEF Generates, EndBuild, StartSection, GenerateInstruction, FinishSection, WriteFile, Stop
  <2> QED
    BY <2>1, <2>2 DEF SourceTyped
<1>3. SourceTyped'
  BY <1>1, <1>2 DEF source, history, SourceTyped
<1>4. Books'
  <2>1. UNCHANGED <<Listed, assignments, executed, success>>
    BY <1>1 DEF source, history, Listed
  <2> QED
    BY <1>1, <2>1 DEF Books
<1> QED
  BY <1>3, <1>4

\* Generating an instruction works, fails or crashes.
LEMMA Statuses == \A i, data, offset : Generate(i, data, offset).status \in {"ok", "failed", "crashed"}
  BY DEF Generate, Generated, Not, Jump, GeneratedFor, InputOutput

\* A line that changes the sections changes the current one, and an instruction
\* of it is one of the source's.
LEMMA PlacingKept == SourceTyped /\ Placing /\ [Next]_vars => Placing'
<1> SUFFICES ASSUME SourceTyped, Placing, [Next]_vars PROVE Placing'
  OBVIOUS
<1>1. CASE UNCHANGED vars
  BY <1>1 DEF vars, history, Placing
<1>2. CASE Builds
  <2>1. /\ phase = "building" /\ operation \in Operations /\ within = current
        /\ told \in [ToSet(SectionNames) -> Seq(Operations)]
    BY <1>2, NextOperation DEF Placing, Builds, SwitchSection, DeclareLabel, Assign, DeclareSymbol, AddInstruction,
           AddInputOutput, RejectOperation, Execute, Takes, SourceTyped
  <2>2. Fails => UNCHANGED <<told, within, current, phase>>
    BY DEF Fails, history
  <2>3. Crashes => UNCHANGED told /\ phase' = "crashed"
    BY DEF Crashes, history
  <2>4. ASSUME NEW i, PushInstruction(i) PROVE Placing'
    <3>1. CASE Crashes
      BY <2>1, <2>3, <3>1 DEF Placing
    <3>2. CASE told' = [told EXCEPT ![within] = Append(@, operation)] /\ UNCHANGED <<current, within>>
      <4>1. \A t \in ToSet(SectionNames) : Append(told[t], operation) \in Seq(Operations)
        BY <2>1
      <4>2. told' \in [ToSet(SectionNames) -> Seq(Operations)]
        BY <2>1, <3>2, <4>1
      <4> QED
        BY <2>1, <3>2, <4>2 DEF Placing
    <3> QED
      BY <2>4, <3>1, <3>2 DEF PushInstruction
  <2>5. CASE SwitchSection
    BY <2>1, <2>5 DEF SwitchSection, Placing
  <2>6. CASE DeclareLabel
    BY <2>1, <2>2, <2>6 DEF DeclareLabel, Placing
  <2>7. CASE Assign \/ DeclareSymbol \/ RejectOperation
    BY <2>1, <2>2, <2>7 DEF Assign, DeclareSymbol, RejectOperation, Placing, history
  <2>8. CASE AddInstruction
    BY <2>4, <2>8 DEF AddInstruction
  <2>9. CASE AddInputOutput
    <3>1. Crashes \/ Fails \/ \E i : PushInstruction(i)
      BY <2>9 DEF AddInputOutput
    <3> QED
      BY <2>1, <2>2, <2>3, <2>4, <3>1 DEF Placing
  <2> QED
    BY <1>2, <2>5, <2>6, <2>7, <2>8, <2>9 DEF Builds
<1>3. CASE Generates
  <2>1. UNCHANGED told
    BY <1>3 DEF Generates, EndBuild, StartSection, GenerateInstruction, FinishSection, WriteFile, Stop,
                source, history
  <2>2. phase' # "building"
    BY <1>3, Statuses DEF Generates, EndBuild, StartSection, GenerateInstruction, FinishSection, WriteFile, Stop
  <2> QED
    BY <2>1, <2>2 DEF Placing
<1> QED
  BY <1>1, <1>2, <1>3 DEF Next, Builds, Generates

\* The books are balanced as long as the Builder reports success
\* (builder.cpp:10).
THEOREM BooksInvariance == Spec => [](SourceTyped /\ Placing /\ Books)
<1>1. Init => SourceTyped /\ Placing /\ Books
  <2> SUFFICES ASSUME Init PROVE SourceTyped /\ Placing /\ Books
    OBVIOUS
  <2>1. rest \in Seq(Operations)
    BY SourcesAssumption DEF Init
  <2>2. /\ listing = [s \in ToSet(SectionNames) |-> <<>>] /\ told = [s \in ToSet(SectionNames) |-> <<>>]
        /\ assignments = <<>> /\ executed = 0 /\ current = "none" /\ within = "none"
    BY DEF Init
  <2>3. DOMAIN assignments = {} /\ Listed = {}
    BY <2>2 DEF Listed
  <2>4. Cardinality({}) = 0 /\ IsFiniteSet({})
    BY FS_EmptySet
  <2> QED
    BY <2>1, <2>2, <2>3, <2>4 DEF SourceTyped, Placing, Books
<1>2. SourceTyped /\ Placing /\ Books /\ [Next]_vars => (SourceTyped /\ Placing /\ Books)'
  <2>1. SourceTyped /\ Books /\ UNCHANGED vars => (SourceTyped /\ Books)'
    <3>1. UNCHANGED vars => UNCHANGED <<rest, listing, current, assignments, success, phase, executed, Listed>>
      BY DEF vars, history, Listed
    <3> QED
      BY <3>1 DEF SourceTyped, Books
  <2> QED
    BY <2>1, PlacingKept, BuilderBooks, GeneratorBooks DEF Next, Builds, Generates
<1> QED
  BY <1>1, <1>2, PTL DEF Spec

\* Whatever is in a source: when the Builder reports success, every line of it
\* is in a section or an assignment, but for declarations of symbols and labels
\* declared again in their section.
THEOREM DroppedLinesAlwaysReported == Spec => []DroppedLinesReported
<1>1. SourceTyped /\ Books => DroppedLinesReported
  BY DEF Books, Listed, DroppedLinesReported
<1> QED
  BY <1>1, BooksInvariance, PTL

-----------------------------------------------------------------------------
(* An instruction becomes bytes of a known shape: its opcode tells how many, *)
(* and it leaves at most one place to fill, the byte behind the opcode.       *)

Single == {"plain", "JMP_ax", "IN_ax", "IN_al", "OUT_ax", "OUT_al"}
Opcodes == Single \cup Conditions \cup {"OUT16", "OUT8"}
Codes == [opcode : Opcodes] \cup [data : Nat]
Instructions ==
    [op : {"plain"}]
      \cup [op : {"jump"}, condition : Conditions, destination : Operands]
      \cup [op : {"io"}, kind : {"IN", "OUT"}, size : {8, 16}, port : Nat, value : Operands]

\* Half, Byte and Word are positive.
LEMMA SizesOfBytes == Half \in Nat \ {0} /\ Byte \in Nat \ {0} /\ Word \in Nat \ {0}
<1>1. Byte \in Nat \ {0}
  BY HalfAssumption DEF Byte
<1> QED
  BY <1>1, HalfAssumption DEF Word

\* What Opcode and Data make are codes.
LEMMA CodesMade == /\ \A v \in Int : Data(v) \in Codes
                   /\ \A name \in Opcodes : Opcode(name) \in Codes /\ Opcode(name).opcode = name
<1>1. \A v \in Int : v % Byte \in Nat
  BY SizesOfBytes
<1> QED
  BY <1>1 DEF Codes, Data, Opcode

Shaped(g, offset) ==
    /\ g.bytes \in Seq(Codes) /\ Len(g.bytes) \in {1, 2, 3}
    /\ g.bytes[1].opcode = "OUT8" \/ Len(g.bytes) = BytesRead(g.bytes[1].opcode)
    /\ \A e \in g.entries : e[1] = offset + 1 /\ Len(g.bytes) # 1
    /\ \A d, e \in g.entries : d = e

\* An instruction of one byte.
LEMMA OneByte ==
    ASSUME NEW name \in Single, NEW offset
    PROVE  Shaped(Generated(<<Opcode(name)>>), offset)
<1>1. name \in Opcodes /\ BytesRead(name) = 1
  BY DEF Single, Opcodes, BytesRead, Conditions
<1> QED
  BY <1>1, CodesMade DEF Shaped, Generated

\* A jump's address is a number.
LEMMA AddressOfOperand ==
    ASSUME NEW to \in Operands, NEW offset \in Nat
    PROVE  ResolveOperand(to, offset) \in Nat
  BY Operand, SizesOfBytes DEF ResolveOperand

\* A signed byte is in reach of one.
LEMMA SignedBytes == \A b \in Int : Signed(b) \in -Half .. Half - 1
<1> SUFFICES ASSUME NEW b \in Int PROVE Signed(b) \in -Half .. Half - 1
  OBVIOUS
<1>1. b % Byte \in Int /\ 0 <= b % Byte /\ b % Byte < Byte
  BY SizesOfBytes
<1>2. Byte = Half + Half /\ Half \in Nat
  BY HalfAssumption DEF Byte
<1> QED
  BY <1>1, <1>2 DEF Signed

\* The bytes of a jump (opcodes.cpp:24).
LEMMA JumpShaped ==
    ASSUME NEW i \in Instructions, i.op = "jump", NEW offset \in Nat, Jump(i, offset).status = "ok"
    PROVE  Shaped(Jump(i, offset), offset)
<1>1. i.condition \in Conditions /\ i.destination \in Operands
  BY DEF Instructions
<1> DEFINE to == i.destination
           address == ResolveOperand(to, offset)
           distance == (address - Signed(offset)) % Word
           bytes == IF i.condition = "JMP"
                    THEN <<Opcode("JMP"), Data(address \div Byte), Data(address)>>
                    ELSE <<Opcode(i.condition), Data(distance)>>
<1>2. \/ Jump(i, offset) = Generated(<<Opcode("JMP_ax")>>)
      \/ Jump(i, offset) = GeneratedFor(bytes, offset, to.value)
      \/ Jump(i, offset) = Generated(bytes)
  BY DEF Jump, Not
<1>3. Shaped(Generated(<<Opcode("JMP_ax")>>), offset)
  BY OneByte DEF Single
<1>4. /\ bytes \in Seq(Codes) /\ Len(bytes) \in {2, 3}
      /\ bytes[1].opcode \in Conditions /\ Len(bytes) = BytesRead(bytes[1].opcode)
  <2>1. address \in Nat /\ distance \in Nat /\ address \div Byte \in Int
    BY <1>1, AddressOfOperand, SignedBytes, SizesOfBytes, HalfAssumption
  <2>2. Data(address \div Byte) \in Codes /\ Data(address) \in Codes /\ Data(distance) \in Codes
    BY <2>1, CodesMade
  <2>3. Opcode(i.condition) \in Codes /\ Opcode(i.condition).opcode = i.condition
    BY <1>1, CodesMade DEF Opcodes
  <2>4. BytesRead(i.condition) = IF i.condition = "JMP" THEN 3 ELSE 2
    BY <1>1 DEF BytesRead, Conditions
  <2> HIDE DEF address, distance
  <2>5. CASE i.condition = "JMP"
    <3>1. bytes = <<Opcode("JMP"), Data(address \div Byte), Data(address)>>
      BY <2>5
    <3> QED
      BY <1>1, <2>2, <2>3, <2>4, <2>5, <3>1
  <2>6. CASE i.condition # "JMP"
    <3>1. bytes = <<Opcode(i.condition), Data(distance)>>
      BY <2>6
    <3> QED
      BY <1>1, <2>2, <2>3, <2>4, <2>6, <3>1
  <2> QED
    BY <2>5, <2>6
<1> HIDE DEF bytes
<1>5. Shaped(GeneratedFor(bytes, offset, to.value), offset)
  <2> DEFINE g == GeneratedFor(bytes, offset, to.value)
  <2>1. g.bytes = bytes /\ g.entries = {<<offset + 1, to.value>>}
    BY DEF GeneratedFor
  <2>2. \A e \in g.entries : e[1] = offset + 1
    BY <2>1
  <2>3. \A d, e \in g.entries : d = e
    BY <2>1
  <2>4. Len(bytes) \in {1, 2, 3} /\ Len(bytes) # 1
    BY <1>4
  <2>5. /\ g.bytes \in Seq(Codes) /\ Len(g.bytes) \in {1, 2, 3}
        /\ Len(g.bytes) = BytesRead(g.bytes[1].opcode)
    BY <1>4, <2>1, <2>4
  <2>6. \A e \in g.entries : e[1] = offset + 1 /\ Len(g.bytes) # 1
    BY <2>1, <2>2, <2>4
  <2> QED
    BY <2>3, <2>5, <2>6 DEF Shaped
<1>6. Shaped(Generated(bytes), offset)
  BY <1>4 DEF Shaped, Generated
<1> QED
  BY <1>2, <1>3, <1>5, <1>6

\* The bytes of IN and OUT (opcodes.cpp:64).
LEMMA InputOutputShaped ==
    ASSUME NEW i \in Instructions, i.op = "io", NEW offset \in Nat, NEW data, InputOutput(i, data).status = "ok",
           \A x \in DOMAIN data : data[x] \in Operands
    PROVE  Shaped(InputOutput(i, data), offset)
<1>1. i.kind \in {"IN", "OUT"} /\ i.size \in {8, 16} /\ i.value \in Operands
  BY DEF Instructions
<1>2. Resolve(i.value, data) = Null \/ Resolve(i.value, data) \in Operands
  BY <1>1 DEF Resolve
<1> DEFINE Sized(wide, narrow) == IF i.size = 16 THEN wide ELSE narrow
           register == IF i.kind = "IN" THEN Sized("IN_ax", "IN_al") ELSE Sized("OUT_ax", "OUT_al")
           v == Resolve(i.value, data).value
           immediate == Generated(<<Opcode(Sized("OUT16", "OUT8")), Data(v), Data(v)>>)
<1>3. \/ InputOutput(i, data) = Generated(<<Opcode(register)>>)
      \/ InputOutput(i, data) = immediate /\ Resolve(i.value, data) # Null /\ Resolve(i.value, data).type = "Number"
  BY DEF InputOutput, Not
<1>4. Shaped(Generated(<<Opcode(register)>>), offset)
  <2>1. register \in Single
    BY DEF Single
  <2> QED
    BY <2>1, OneByte
<1>5. ASSUME Resolve(i.value, data) # Null, Resolve(i.value, data).type = "Number" PROVE Shaped(immediate, offset)
  <2>1. v \in Int
    BY <1>2, <1>5, Operand
  <2>2. Data(v) \in Codes /\ Opcode("OUT16") \in Codes /\ Opcode("OUT8") \in Codes
    BY <2>1, CodesMade DEF Opcodes
  <2>3. Opcode("OUT16").opcode = "OUT16" /\ Opcode("OUT8").opcode = "OUT8" /\ BytesRead("OUT16") = 3
    BY DEF Opcode, BytesRead
  <2> QED
    BY <2>2, <2>3 DEF Shaped, Generated
<1> QED
  BY <1>3, <1>4, <1>5

\* The bytes of any instruction.
LEMMA GenerateShaped ==
    ASSUME NEW i \in Instructions, NEW offset \in Nat, NEW data, Generate(i, data, offset).status = "ok",
           \A x \in DOMAIN data : data[x] \in Operands
    PROVE  Shaped(Generate(i, data, offset), offset)
<1>1. i.op \in {"plain", "jump", "io"}
  BY DEF Instructions
<1>2. CASE i.op = "plain"
  <2>1. Generate(i, data, offset) = Generated(<<Opcode("plain")>>)
    BY <1>2 DEF Generate
  <2> QED
    BY <2>1, OneByte DEF Single
<1>3. CASE i.op = "jump"
  BY <1>3, JumpShaped DEF Generate
<1>4. CASE i.op = "io"
  BY <1>4, InputOutputShaped DEF Generate
<1> QED
  BY <1>1, <1>2, <1>3, <1>4

-----------------------------------------------------------------------------
\* What % and \div are.
LEMMA Remainder ==
    ASSUME NEW b \in Nat \ {0}, NEW a \in Int
    PROVE  a % b \in 0 .. b - 1 /\ \E q \in Int : a = b * q + (a % b)
<1>1. a % b \in 0 .. b - 1
  OBVIOUS
<1>2. a = b * (a \div b) + (a % b) /\ a \div b \in Int
  OBVIOUS
<1> QED
  BY <1>1, <1>2

\* A multiple of b that is smaller than b is 0.
LEMMA SmallMultiple ==
    ASSUME NEW b \in Nat \ {0}, NEW q \in Int, -b < b * q, b * q < b
    PROVE  q = 0
<1>1. q >= 1 => b * q >= b
  OBVIOUS
<1>2. q <= -1 => b * q <= -b
  OBVIOUS
<1> QED
  BY <1>1, <1>2

\* A remainder is known by being one.
LEMMA RemainderIs ==
    ASSUME NEW b \in Nat \ {0}, NEW q \in Int, NEW r \in 0 .. b - 1
    PROVE  (b * q + r) % b = r
<1> DEFINE a == b * q + r
<1>1. a \in Int
  OBVIOUS
<1>2. PICK p \in Int : a = b * p + (a % b)
  BY <1>1, Remainder
<1>3. a % b \in 0 .. b - 1
  BY <1>1, Remainder
<1>4. b * (q - p) = (a % b) - r
  BY <1>2, <1>3
<1>5. q - p = 0
  BY <1>3, <1>4, SmallMultiple
<1> QED
  BY <1>3, <1>4, <1>5

-----------------------------------------------------------------------------
\* Stretches of these lengths, one behind the other up to an end.
Consecutive(at, length, n, end) ==
    \A i \in 1 .. n :
        /\ at[i] \in Nat /\ length[i] \in Nat
        /\ at[i] + length[i] = IF i = n THEN end ELSE at[i + 1]
        /\ at[i] + length[i] <= end
        /\ \A j \in 1 .. n : i < j => at[i] + length[i] <= at[j]

\* One stretch more at the end.
LEMMA OneStretchMore ==
    ASSUME NEW n \in Nat, NEW old \in Nat, NEW len \in Nat, NEW at, NEW length, NEW more, NEW lengths,
           Consecutive(at, length, n, old),
           \A i \in 1 .. n : more[i] = at[i] /\ lengths[i] = length[i],
           more[n + 1] = old, lengths[n + 1] = len
    PROVE  Consecutive(more, lengths, n + 1, old + len)
<1>1. ASSUME NEW i \in 1 .. n
      PROVE  /\ more[i] \in Nat /\ lengths[i] \in Nat /\ i # n + 1
             /\ more[i] + lengths[i] = more[i + 1]
             /\ more[i] + lengths[i] <= old
             /\ \A j \in 1 .. n : i < j => more[i] + lengths[i] <= more[j]
  <2>1. i = n \/ i + 1 \in 1 .. n
    OBVIOUS
  <2> QED
    BY <2>1 DEF Consecutive
<1>2. \A i \in 1 .. n + 1 : i \in 1 .. n \/ i = n + 1
  OBVIOUS
<1>3. old <= old + len
  OBVIOUS
<1>4. ASSUME NEW i \in 1 .. n, NEW j \in 1 .. n + 1, i < j PROVE more[i] + lengths[i] <= more[j]
  BY <1>1, <1>2, <1>4
<1>5. ASSUME NEW i \in 1 .. n PROVE more[i] + lengths[i] <= old + len
  BY <1>1, <1>3
<1>6. \A j \in 1 .. n + 1 : ~(n + 1 < j)
  OBVIOUS
<1> QED
  BY <1>1, <1>2, <1>4, <1>5, <1>6 DEF Consecutive

Emission(sec, data, i) == Generate(sec.instructions[i], data, sec.instruction_adresses[i])

\* The instructions of a section one behind the other, up to an end.
Chained(sec, data, end) ==
    LET adr == sec.instruction_adresses
    IN  /\ adr \in Seq(Nat) /\ Len(adr) <= Len(sec.instructions) /\ end \in Nat
        /\ \A i \in DOMAIN adr : Shaped(Emission(sec, data, i), adr[i])
        /\ Consecutive(adr, [i \in DOMAIN adr |-> Len(Emission(sec, data, i).bytes)], Len(adr), end)
        /\ sec.replace_entries = UNION {Emission(sec, data, i).entries : i \in DOMAIN adr}

\* Their bytes as they were generated.
Copied(sec, data, bytes) ==
    LET adr == sec.instruction_adresses
    IN  \A i \in DOMAIN adr : \A k \in DOMAIN Emission(sec, data, i).bytes :
            bytes[adr[i] + k] = Emission(sec, data, i).bytes[k]

\* What is said of the instruction that is generated next.
Grows(sec, new, data, g, end) ==
    /\ Len(sec.instruction_adresses) < Len(sec.instructions)
    /\ g = Generate(sec.instructions[Len(sec.instruction_adresses) + 1], data, end)
    /\ g.status = "ok"
    /\ new.instructions = sec.instructions
    /\ new.instruction_adresses = Append(sec.instruction_adresses, end)
    /\ new.replace_entries = sec.replace_entries \cup g.entries

Grown(sec, new, data, g, end, n) ==
    LET adr == sec.instruction_adresses
        more == new.instruction_adresses
    IN  /\ n = Len(adr) /\ n < Len(sec.instructions)
        /\ DOMAIN adr = 1 .. n
        /\ DOMAIN more = 1 .. n + 1 /\ Len(more) = n + 1
        /\ more \in Seq(Nat)
        /\ more[n + 1] = end
        /\ \A i \in 1 .. n : more[i] = adr[i]
        /\ \A i \in 1 .. n : Emission(new, data, i) = Emission(sec, data, i)
        /\ Emission(new, data, n + 1) = g

\* What the next instruction changes, instruction by instruction.
LEMMA GrownBy ==
    ASSUME NEW sec, NEW new, NEW data, NEW g, NEW end \in Nat, Grows(sec, new, data, g, end),
           sec.instruction_adresses \in Seq(Nat)
    PROVE  \E n \in Nat : Grown(sec, new, data, g, end, n)
<1> DEFINE adr == sec.instruction_adresses
<1>1. PICK n \in Nat : n = Len(adr)
  BY LenProperties
<1>2. /\ DOMAIN adr = 1 .. n
      /\ Append(adr, end) \in Seq(Nat) /\ Len(Append(adr, end)) = n + 1
      /\ Append(adr, end)[n + 1] = end
      /\ \A i \in 1 .. n : Append(adr, end)[i] = adr[i]
  BY <1>1, AppendProperties, LenProperties
<1>3. DOMAIN Append(adr, end) = 1 .. n + 1
  BY <1>2, LenProperties
<1>4. /\ n < Len(sec.instructions)
      /\ g = Generate(sec.instructions[n + 1], data, end)
      /\ new.instructions = sec.instructions
      /\ new.instruction_adresses = Append(adr, end)
  BY <1>1 DEF Grows
<1>5. \A i \in 1 .. n : Emission(new, data, i) = Emission(sec, data, i)
  BY <1>2, <1>4 DEF Emission
<1>6. Emission(new, data, n + 1) = g
  BY <1>2, <1>4 DEF Emission
<1> DEFINE more == new.instruction_adresses
<1>7. /\ DOMAIN more = 1 .. n + 1 /\ Len(more) = n + 1 /\ more \in Seq(Nat) /\ more[n + 1] = end
      /\ \A i \in 1 .. n : more[i] = adr[i]
  BY <1>2, <1>3, <1>4
<1>8. n < Len(sec.instructions)
  BY <1>4
<1> QED
  BY <1>1, <1>2, <1>5, <1>6, <1>7, <1>8 DEF Grown

\* The next instruction is chained to the ones before.
LEMMA ChainGrows ==
    ASSUME NEW sec, NEW new, NEW data, NEW g, NEW end \in Nat, Grows(sec, new, data, g, end),
           Shaped(g, end), Chained(sec, data, end)
    PROVE  Chained(new, data, end + Len(g.bytes))
<1> DEFINE adr == sec.instruction_adresses
           more == new.instruction_adresses
<1>1. adr \in Seq(Nat)
  BY DEF Chained
<1>0. PICK n \in Nat : Grown(sec, new, data, g, end, n)
  BY <1>1, GrownBy
<1>2. /\ n = Len(adr) /\ n < Len(sec.instructions)
      /\ DOMAIN adr = 1 .. n
      /\ DOMAIN more = 1 .. n + 1 /\ Len(more) = n + 1
      /\ more \in Seq(Nat)
      /\ more[n + 1] = end
      /\ \A i \in 1 .. n : more[i] = adr[i]
      /\ \A i \in 1 .. n : Emission(new, data, i) = Emission(sec, data, i)
      /\ Emission(new, data, n + 1) = g
  BY <1>0 DEF Grown
<1>3. \A i \in 1 .. n + 1 : i \in 1 .. n \/ i = n + 1
  OBVIOUS
<1>4. Len(g.bytes) \in Nat /\ end + Len(g.bytes) \in Nat
  BY DEF Shaped
<1>5. \A i \in DOMAIN more : Shaped(Emission(new, data, i), more[i])
  <2>1. \A i \in 1 .. n : Shaped(Emission(sec, data, i), adr[i])
    BY <1>2 DEF Chained
  <2> QED
    BY <1>2, <1>3, <2>1
<1>6. Consecutive(more, [i \in DOMAIN more |-> Len(Emission(new, data, i).bytes)], Len(more), end + Len(g.bytes))
  <2> DEFINE length == [i \in DOMAIN adr |-> Len(Emission(sec, data, i).bytes)]
             lengths == [i \in DOMAIN more |-> Len(Emission(new, data, i).bytes)]
  <2>1. Consecutive(adr, length, n, end)
    BY <1>2 DEF Chained
  <2>2. \A i \in 1 .. n : i \in 1 .. n + 1
    OBVIOUS
  <2>3. \A i \in 1 .. n : lengths[i] = length[i]
    BY <1>2, <2>2
  <2>4. lengths[n + 1] = Len(g.bytes)
    BY <1>2
  <2> HIDE DEF length, lengths, adr, more
  <2>5. Consecutive(more, lengths, n + 1, end + Len(g.bytes))
    BY <1>2, <1>4, <2>1, <2>3, <2>4, OneStretchMore
  <2> QED
    BY <1>2, <2>5 DEF lengths, more
<1>7. new.replace_entries = UNION {Emission(new, data, i).entries : i \in DOMAIN more}
  <2>1. sec.replace_entries = UNION {Emission(sec, data, i).entries : i \in 1 .. n}
    BY <1>2 DEF Chained
  <2>2. new.replace_entries = sec.replace_entries \cup g.entries
    BY DEF Grows
  <2>3. n + 1 \in 1 .. n + 1 /\ \A i \in 1 .. n : i \in 1 .. n + 1
    OBVIOUS
  <2> QED
    BY <1>2, <1>3, <2>1, <2>2, <2>3
<1>8. Len(more) <= Len(new.instructions)
  BY <1>2 DEF Grows
<1> QED
  BY <1>2, <1>4, <1>5, <1>6, <1>7, <1>8 DEF Chained

\* Where the elements of a concatenation are.
Joined(S, s, t) ==
    /\ s \o t \in Seq(S) /\ Len(s \o t) = Len(s) + Len(t)
    /\ \A k \in 1 .. Len(s) : (s \o t)[k] = s[k]
    /\ \A k \in 1 .. Len(t) : (s \o t)[Len(s) + k] = t[k]

LEMMA TwoParts ==
    ASSUME NEW S, NEW s \in Seq(S), NEW t \in Seq(S)
    PROVE  Joined(S, s, t)
<1>1. /\ s \o t \in Seq(S) /\ Len(s \o t) = Len(s) + Len(t)
      /\ \A i \in 1 .. Len(s) + Len(t) : (s \o t)[i] = IF i <= Len(s) THEN s[i] ELSE t[i - Len(s)]
  BY ConcatProperties
<1>2. Len(s) \in Nat /\ Len(t) \in Nat
  BY LenProperties
<1>3. ASSUME NEW k \in 1 .. Len(t) PROVE (s \o t)[Len(s) + k] = t[k]
  <2>1. Len(s) + k \in 1 .. Len(s) + Len(t) /\ ~(Len(s) + k <= Len(s)) /\ (Len(s) + k) - Len(s) = k
    BY <1>2
  <2> QED
    BY <1>1, <2>1
<1>4. ASSUME NEW k \in 1 .. Len(s) PROVE (s \o t)[k] = s[k]
  <2>1. k \in 1 .. Len(s) + Len(t) /\ k <= Len(s)
    BY <1>2
  <2> QED
    BY <1>1, <2>1
<1> QED
  BY <1>1, <1>3, <1>4 DEF Joined

\* The section's payload keeps a copy of every instruction.
LEMMA CopyGrows ==
    ASSUME NEW sec, NEW new, NEW data, NEW g, NEW end \in Nat, Grows(sec, new, data, g, end),
           Shaped(g, end), Chained(sec, data, end), NEW bytes \in Seq(Codes), Len(bytes) = end, Copied(sec, data, bytes)
    PROVE  /\ bytes \o g.bytes \in Seq(Codes)
           /\ Len(bytes \o g.bytes) = Len(bytes) + Len(g.bytes)
           /\ Copied(new, data, bytes \o g.bytes)
<1> DEFINE adr == sec.instruction_adresses
           more == new.instruction_adresses
           all == bytes \o g.bytes
<1>1. adr \in Seq(Nat)
  BY DEF Chained
<1>0. PICK n \in Nat : Grown(sec, new, data, g, end, n)
  BY <1>1, GrownBy
<1>2. /\ n = Len(adr) /\ n < Len(sec.instructions)
      /\ DOMAIN adr = 1 .. n
      /\ DOMAIN more = 1 .. n + 1 /\ Len(more) = n + 1
      /\ more \in Seq(Nat)
      /\ more[n + 1] = end
      /\ \A i \in 1 .. n : more[i] = adr[i]
      /\ \A i \in 1 .. n : Emission(new, data, i) = Emission(sec, data, i)
      /\ Emission(new, data, n + 1) = g
  BY <1>0 DEF Grown
<1>3. /\ all \in Seq(Codes) /\ Len(all) = Len(bytes) + Len(g.bytes)
      /\ \A k \in 1 .. Len(bytes) : all[k] = bytes[k]
      /\ \A k \in 1 .. Len(g.bytes) : all[end + k] = g.bytes[k]
  <2>1. g.bytes \in Seq(Codes)
    BY DEF Shaped
  <2> DEFINE part == g.bytes
  <2> HIDE DEF part
  <2>2. part \in Seq(Codes)
    BY <2>1 DEF part
  <2>3. /\ bytes \o part \in Seq(Codes) /\ Len(bytes \o part) = Len(bytes) + Len(part)
        /\ \A k \in 1 .. Len(bytes) : (bytes \o part)[k] = bytes[k]
        /\ \A k \in 1 .. Len(part) : (bytes \o part)[Len(bytes) + k] = part[k]
    <3>1. Joined(Codes, bytes, part)
      BY <2>2, TwoParts
    <3> QED
      BY <3>1 DEF Joined
  <2> QED
    BY <2>3 DEF part
<1>4. ASSUME NEW i \in 1 .. n, NEW k \in DOMAIN Emission(sec, data, i).bytes
      PROVE  all[adr[i] + k] = Emission(sec, data, i).bytes[k]
  <2> DEFINE e == Emission(sec, data, i)
  <2>1. e.bytes \in Seq(Codes)
    BY <1>2 DEF Chained, Shaped
  <2>2. Len(e.bytes) \in Nat /\ k \in 1 .. Len(e.bytes)
    BY <2>1, LenProperties
  <2>3. adr[i] \in Nat /\ adr[i] + Len(e.bytes) <= end
    BY <1>2 DEF Chained, Consecutive
  <2> HIDE DEF adr, e
  <2>4. adr[i] + k \in 1 .. Len(bytes)
    BY <1>1, <2>2, <2>3
  <2>5. bytes[adr[i] + k] = e.bytes[k]
    BY <1>2, <1>4 DEF Copied, e, adr
  <2> QED
    BY <1>3, <2>4, <2>5 DEF e
<1>5. \A k \in DOMAIN g.bytes : all[end + k] = g.bytes[k]
  BY <1>3 DEF Shaped
<1>6. \A i \in 1 .. n + 1 : i \in 1 .. n \/ i = n + 1
  OBVIOUS
<1> HIDE DEF all
<1>7. ASSUME NEW i \in 1 .. n + 1, NEW k \in DOMAIN Emission(new, data, i).bytes
      PROVE  all[more[i] + k] = Emission(new, data, i).bytes[k]
  <2>1. CASE i \in 1 .. n
    BY <1>2, <1>4, <1>7, <2>1
  <2>2. CASE i = n + 1
    <3>1. Emission(new, data, i) = g /\ more[i] = end
      BY <1>2, <2>2
    <3> QED
      BY <1>5, <1>7, <3>1
  <2> QED
    BY <1>6, <2>1, <2>2
<1>8. Copied(new, data, all)
  BY <1>2, <1>7 DEF Copied
<1> QED
  BY <1>3, <1>8 DEF all

-----------------------------------------------------------------------------
\* No two instructions begin at the same place, and none at a byte of another.
LEMMA PlacesDiffer ==
    ASSUME NEW sec, NEW data, NEW end, Chained(sec, data, end),
           NEW i \in DOMAIN sec.instruction_adresses, NEW j \in DOMAIN sec.instruction_adresses
    PROVE  LET adr == sec.instruction_adresses
           IN  /\ adr[i] \in Nat /\ end \in Nat
               /\ Len(Emission(sec, data, i).bytes) \in {1, 2, 3}
               /\ adr[i] + Len(Emission(sec, data, i).bytes) <= end
               /\ adr[i] = adr[j] => i = j
               /\ Len(Emission(sec, data, j).bytes) # 1 => adr[j] + 1 # adr[i]
<1> DEFINE adr == sec.instruction_adresses
           length == [k \in DOMAIN adr |-> Len(Emission(sec, data, k).bytes)]
<1>1. DOMAIN adr = 1 .. Len(adr) /\ Len(adr) \in Nat /\ i \in Int /\ j \in Int
  BY DEF Chained
<1>2. Consecutive(adr, length, Len(adr), end) /\ end \in Nat
  BY DEF Chained
<1>3. length[i] \in {1, 2, 3} /\ length[j] \in {1, 2, 3}
  BY DEF Chained, Shaped
<1> HIDE DEF length, adr
<1>4. /\ adr[i] \in Nat /\ adr[i] + length[i] <= end /\ adr[j] \in Nat
      /\ i < j => adr[i] + length[i] <= adr[j]
      /\ j < i => adr[j] + length[j] <= adr[i]
  BY <1>1, <1>2 DEF Consecutive, adr
<1>5. i < j \/ j < i \/ i = j
  BY <1>1
<1>6. adr[i] = adr[j] => i = j
  BY <1>3, <1>4, <1>5
<1>7. length[j] # 1 => adr[j] + 1 # adr[i]
  BY <1>3, <1>4, <1>5
<1> QED
  BY <1>2, <1>3, <1>4, <1>6, <1>7 DEF length, adr

\* Which bytes of a stretch there are.
LEMMA InStretch ==
    \A a, end \in Nat : \A n \in {1, 2, 3} :
        a + n <= end => /\ a + 1 \in 1 .. end /\ 1 \in 1 .. n
                        /\ n # 1 => a + 2 \in 1 .. end /\ 2 \in 1 .. n
  OBVIOUS

\* Where instructions are, and the place holders replaced.
Placed(sec, data, base, bytes) ==
    LET adr == sec.instruction_adresses
    IN  \A i \in DOMAIN adr :
            LET e == Emission(sec, data, i)
            IN  /\ bytes[base + adr[i] + 1] = e.bytes[1]
                /\ e.entries = {} /\ Len(e.bytes) # 1 => bytes[base + adr[i] + 2] = e.bytes[2]
                /\ \A x \in e.entries : \E beyond \in 0 .. Byte - 1 :
                     bytes[base + adr[i] + 2] = Data(LabelAddress(sec, x[2], beyond) - x[1] + 1)

\* What is copied to another place is placed there.
LEMMA PlacedElsewhere ==
    ASSUME NEW sec, NEW data, NEW end, Chained(sec, data, end),
           NEW base \in Nat, NEW bytes, Placed(sec, data, base, bytes),
           NEW base2 \in Nat, NEW bytes2, \A p \in 1 .. end : bytes2[base2 + p] = bytes[base + p]
    PROVE  Placed(sec, data, base2, bytes2)
<1> DEFINE adr == sec.instruction_adresses
<1> SUFFICES ASSUME NEW i \in DOMAIN adr
             PROVE  LET e == Emission(sec, data, i)
                    IN  /\ bytes2[base2 + adr[i] + 1] = e.bytes[1]
                        /\ e.entries = {} /\ Len(e.bytes) # 1 => bytes2[base2 + adr[i] + 2] = e.bytes[2]
                        /\ \A x \in e.entries : \E beyond \in 0 .. Byte - 1 :
                             bytes2[base2 + adr[i] + 2] = Data(LabelAddress(sec, x[2], beyond) - x[1] + 1)
  BY DEF Placed
<1> DEFINE e == Emission(sec, data, i)
<1>1. adr[i] \in Nat /\ end \in Nat /\ Len(e.bytes) \in {1, 2, 3} /\ adr[i] + Len(e.bytes) <= end
  BY PlacesDiffer
<1>2. \A x \in e.entries : Len(e.bytes) # 1
  BY DEF Chained, Shaped
<1>3. /\ bytes[base + adr[i] + 1] = e.bytes[1]
      /\ e.entries = {} /\ Len(e.bytes) # 1 => bytes[base + adr[i] + 2] = e.bytes[2]
      /\ \A x \in e.entries : \E beyond \in 0 .. Byte - 1 :
           bytes[base + adr[i] + 2] = Data(LabelAddress(sec, x[2], beyond) - x[1] + 1)
  BY DEF Placed
<1> HIDE DEF e, adr
<1>4. bytes2[base2 + adr[i] + 1] = bytes[base + adr[i] + 1]
  <2>1. adr[i] + 1 \in 1 .. end
    BY <1>1, InStretch
  <2>2. bytes2[base2 + (adr[i] + 1)] = bytes[base + (adr[i] + 1)]
    BY <2>1
  <2> QED
    BY <1>1, <2>2
<1>5. Len(e.bytes) # 1 => bytes2[base2 + adr[i] + 2] = bytes[base + adr[i] + 2]
  <2>1. Len(e.bytes) # 1 => adr[i] + 2 \in 1 .. end
    BY <1>1, InStretch
  <2>2. Len(e.bytes) # 1 => bytes2[base2 + (adr[i] + 2)] = bytes[base + (adr[i] + 2)]
    BY <2>1
  <2> QED
    BY <1>1, <2>2
<1> QED
  BY <1>2, <1>3, <1>4, <1>5 DEF e, adr

\* The address of a label is a number, even of one that is read beyond the end.
LEMMA LabelAddressIsNumber ==
    ASSUME NEW sec, sec.instruction_adresses \in Seq(Nat), \A l \in DOMAIN sec.labels : sec.labels[l] \in Nat,
           NEW name, NEW beyond \in Nat
    PROVE  LabelAddress(sec, name, beyond) \in Nat
<1> DEFINE index == IF name \in DOMAIN sec.labels THEN sec.labels[name] ELSE 0
<1>1. index \in Nat
  OBVIOUS
<1> HIDE DEF index
<1>2. index < Len(sec.instruction_adresses) => sec.instruction_adresses[index + 1] \in Nat
  <2>1. index < Len(sec.instruction_adresses) => index + 1 \in 1 .. Len(sec.instruction_adresses)
    BY <1>1
  <2> QED
    BY <2>1
<1> QED
  BY <1>2 DEF LabelAddress, index

\* Replacing labels changes the byte behind the opcode of the jumps that name
\* one, and no other byte (runtimedata.cpp:71).
LEMMA Replacing ==
    ASSUME NEW sec, NEW data, NEW end, Chained(sec, data, end),
           NEW bytes \in Seq(Codes), Len(bytes) = end, Copied(sec, data, bytes),
           \A l \in DOMAIN sec.labels : sec.labels[l] \in Nat,
           NEW beyond \in 0 .. Byte - 1
    PROVE  /\ Replaced(sec, bytes, beyond) \in Seq(Codes)
           /\ Len(Replaced(sec, bytes, beyond)) = end
           /\ Placed(sec, data, 0, Replaced(sec, bytes, beyond))
<1> DEFINE adr == sec.instruction_adresses
           entriesAt(p) == {e \in sec.replace_entries : e[1] = p - 1}
           new == Replaced(sec, bytes, beyond)
           Filled(x) == Data(LabelAddress(sec, x[2], beyond) - x[1] + 1)
<1>1. /\ new = [p \in 1 .. end |-> IF entriesAt(p) = {} THEN bytes[p]
                                   ELSE Filled(CHOOSE e \in entriesAt(p) : TRUE)]
      /\ end \in Nat
  BY LenProperties DEF Replaced
<1>2. \A x \in sec.replace_entries : \E j \in DOMAIN adr : /\ x \in Emission(sec, data, j).entries
                                                           /\ x[1] = adr[j] + 1
                                                           /\ Len(Emission(sec, data, j).bytes) # 1
  BY DEF Chained, Shaped
<1>3. \A x \in sec.replace_entries : Filled(x) \in Codes
  <2> SUFFICES ASSUME NEW x \in sec.replace_entries PROVE Filled(x) \in Codes
    OBVIOUS
  <2>1. x[1] \in Int
    BY <1>2, PlacesDiffer
  <2>2. LabelAddress(sec, x[2], beyond) \in Nat
    BY LabelAddressIsNumber, SizesOfBytes DEF Chained
  <2>3. LabelAddress(sec, x[2], beyond) - x[1] + 1 \in Int
    BY <2>1, <2>2
  <2> QED
    BY <2>3, CodesMade
<1> HIDE DEF Filled
<1>4. new \in Seq(Codes) /\ Len(new) = end
  <2>1. \A p \in 1 .. end : new[p] \in Codes
    BY <1>1, <1>3
  <2> HIDE DEF entriesAt
  <2>2. new = [p \in 1 .. end |-> new[p]]
    BY <1>1
  <2> HIDE DEF new
  <2> QED
    BY <1>1, <2>1, <2>2, IsASeq
<1>5. ASSUME NEW i \in DOMAIN adr
      PROVE  LET e == Emission(sec, data, i)
             IN  /\ new[adr[i] + 1] = e.bytes[1]
                 /\ e.entries = {} /\ Len(e.bytes) # 1 => new[adr[i] + 2] = e.bytes[2]
                 /\ \A x \in e.entries : new[adr[i] + 2] = Filled(x)
  <2> DEFINE e == Emission(sec, data, i)
  <2>1. /\ adr[i] \in Nat /\ Len(e.bytes) \in {1, 2, 3} /\ adr[i] + Len(e.bytes) <= end
    BY PlacesDiffer
  <2>2. DOMAIN e.bytes = 1 .. Len(e.bytes)
    BY DEF Chained, Shaped
  <2>3. bytes[adr[i] + 1] = e.bytes[1] /\ (Len(e.bytes) # 1 => bytes[adr[i] + 2] = e.bytes[2])
    <3>1. 1 \in DOMAIN e.bytes /\ (Len(e.bytes) # 1 => 2 \in DOMAIN e.bytes)
      BY <1>1, <2>1, <2>2, InStretch
    <3> QED
      BY <3>1 DEF Copied
  <2>4. entriesAt(adr[i] + 1) = {}
    <3> SUFFICES ASSUME NEW x \in sec.replace_entries, x[1] = (adr[i] + 1) - 1 PROVE FALSE
      OBVIOUS
    <3>1. PICK j \in DOMAIN adr : x[1] = adr[j] + 1 /\ Len(Emission(sec, data, j).bytes) # 1
      BY <1>2
    <3>2. adr[j] + 1 # adr[i]
      BY <3>1, PlacesDiffer
    <3> QED
      BY <2>1, <3>1, <3>2
  <2>5. entriesAt(adr[i] + 2) = e.entries
    <3>1. ASSUME NEW x \in sec.replace_entries, x[1] = (adr[i] + 2) - 1 PROVE x \in e.entries
      <4>1. PICK j \in DOMAIN adr : x \in Emission(sec, data, j).entries /\ x[1] = adr[j] + 1
        BY <1>2
      <4>2. adr[j] = adr[i]
        <5>1. adr[j] \in Nat
          BY PlacesDiffer
        <5> QED
          BY <2>1, <3>1, <4>1, <5>1
      <4>3. i = j
        BY <4>2, PlacesDiffer
      <4> QED
        BY <4>1, <4>3
    <3>2. ASSUME NEW x \in e.entries PROVE x \in sec.replace_entries /\ x[1] = (adr[i] + 2) - 1
      <4>1. x[1] = adr[i] + 1 /\ x \in sec.replace_entries
        BY <3>2 DEF Chained, Shaped
      <4> QED
        BY <2>1, <4>1
    <3> QED
      BY <3>1, <3>2
  <2>6. \A x, y \in e.entries : x = y
    BY DEF Chained, Shaped
  <2>7. e.entries # {} => Len(e.bytes) # 1
    BY DEF Chained, Shaped
  <2>8. adr[i] + 1 \in 1 .. end /\ (Len(e.bytes) # 1 => adr[i] + 2 \in 1 .. end)
    BY <1>1, <2>1, InStretch
  <2> HIDE DEF new, entriesAt, e
  <2>9. new[adr[i] + 1] = e.bytes[1]
    BY <1>1, <2>3, <2>4, <2>8
  <2>10. e.entries = {} /\ Len(e.bytes) # 1 => new[adr[i] + 2] = e.bytes[2]
    BY <1>1, <2>3, <2>5, <2>8
  <2>11. \A x \in e.entries : new[adr[i] + 2] = Filled(x)
    <3> SUFFICES ASSUME NEW x \in e.entries PROVE new[adr[i] + 2] = Filled(x)
      OBVIOUS
    <3>1. x = CHOOSE y \in entriesAt(adr[i] + 2) : TRUE
      BY <2>5, <2>6
    <3> QED
      BY <1>1, <2>5, <2>7, <2>8, <3>1
  <2> QED
    BY <2>9, <2>10, <2>11 DEF e
<1>6. Placed(sec, data, 0, new)
  <2>1. \A i \in DOMAIN adr : 0 + adr[i] + 1 = adr[i] + 1 /\ 0 + adr[i] + 2 = adr[i] + 2
    BY PlacesDiffer
  <2> HIDE DEF new
  <2> QED
    BY <1>5, <2>1 DEF Placed, Filled
<1> QED
  BY <1>4, <1>6

-----------------------------------------------------------------------------
(* The layout: what is in the payload, from where on.                         *)

Fields == {"instructions", "instruction_adresses", "labels", "replace_entries"}

SectionTyped(sec) ==
    /\ DOMAIN sec = Fields
    /\ sec.instructions \in Seq(Instructions)
    /\ \A l \in DOMAIN sec.labels : sec.labels[l] \in Nat

SectionsTyped ==
    /\ DOMAIN sections \subseteq ToSet(SectionNames)
    /\ \A s \in DOMAIN sections : SectionTyped(sections[s])
    /\ phase = "building" => current \in {"none"} \cup DOMAIN sections

Untouched(sec) == sec.instruction_adresses = <<>> /\ sec.replace_entries = {}

\* A section that is in the payload, from a base on.
FinishedAt(sec, data, place, bytes, base, end) ==
    /\ Chained(sec, data, end)
    /\ Len(sec.instruction_adresses) = Len(sec.instructions)
    /\ base + end <= Len(bytes)
    /\ place = (HeaderSize + base) % Word
    /\ Placed(sec, data, base, bytes)
Finished(sec, data, place, bytes) ==
    \E base, end \in Nat : FinishedAt(sec, data, place, bytes, base, end)

\* The section that is being generated.
Growing ==
    /\ current \in pending /\ current \in DOMAIN header
    /\ section_offset = HeaderSize + Len(payload)
    /\ current_offset = section_offset + Len(section_payload)
    /\ header[current] = section_offset % Word
    /\ section_payload \in Seq(Codes)
    /\ Chained(sections[current], assignments, Len(section_payload))
    /\ Copied(sections[current], assignments, section_payload)
    /\ \A s \in pending \ {current} : Untouched(sections[s])

Written ==
    Len(file) = HeaderSize + Len(payload) =>
        \A p \in 1 .. Len(payload) : file[HeaderSize + p] = payload[p]

Layout ==
    /\ SectionsTyped
    /\ payload \in Seq(Codes)
    /\ phase = "building" =>
         /\ payload = <<>> /\ current_offset = HeaderSize
         /\ \A s \in DOMAIN sections : Untouched(sections[s])
    /\ phase \in {"sections", "instructions", "done"} =>
         /\ pending \subseteq DOMAIN sections
         /\ \A s \in DOMAIN sections \ pending :
               s \in DOMAIN header /\ Finished(sections[s], assignments, header[s], payload)
    /\ phase = "sections" =>
         /\ current_offset = HeaderSize + Len(payload)
         /\ \A s \in pending : Untouched(sections[s])
    /\ phase = "instructions" => Growing
    /\ phase = "done" => pending = {} /\ Written

\* The Generator starts with a section in order.
LEMMA UntouchedChained ==
    ASSUME NEW sec, NEW data, Untouched(sec), sec.instructions \in Seq(Instructions)
    PROVE  Chained(sec, data, 0) /\ Copied(sec, data, <<>>)
<1>1. DOMAIN sec.instruction_adresses = {} /\ sec.instruction_adresses \in Seq(Nat) /\ Len(sec.instruction_adresses) = 0
  BY DEF Untouched
<1>2. Len(sec.instructions) \in Nat
  BY LenProperties
<1> QED
  BY <1>1, <1>2 DEF Chained, Copied, Consecutive, Untouched

\* What the Builder does to a section keeps it as the Generator expects it: an
\* instruction,
LEMMA PushKeeps ==
    ASSUME NEW sec, SectionTyped(sec), Untouched(sec), NEW i \in Instructions
    PROVE  LET new == [sec EXCEPT !.instructions = Append(@, i)]
           IN  SectionTyped(new) /\ Untouched(new)
<1>1. Append(sec.instructions, i) \in Seq(Instructions)
  BY AppendProperties DEF SectionTyped
<1> QED
  BY <1>1 DEF SectionTyped, Untouched, Fields

\* a label,
LEMMA LabelKeeps ==
    ASSUME NEW sec, SectionTyped(sec), Untouched(sec), NEW name
    PROVE  LET new == [sec EXCEPT !.labels = Insert(@, name, Len(sec.instructions))]
           IN  SectionTyped(new) /\ Untouched(new)
<1>1. Len(sec.instructions) \in Nat
  BY LenProperties DEF SectionTyped
<1>2. \A l \in DOMAIN Insert(sec.labels, name, Len(sec.instructions)) :
         Insert(sec.labels, name, Len(sec.instructions))[l] \in Nat
  BY <1>1 DEF SectionTyped, Insert
<1> QED
  BY <1>2 DEF SectionTyped, Untouched, Fields

\* and a new section.
LEMMA EmptyKeeps == SectionTyped(EmptySection) /\ Untouched(EmptySection)
<1>1. <<>> \in Seq(Instructions)
  OBVIOUS
<1> QED
  BY <1>1 DEF EmptySection, SectionTyped, Untouched, Fields

\* What is pushed is an instruction.
LEMMA OperationsAreInstructions ==
    /\ \A o \in Operations : o.op \in {"plain", "jump"} => o \in Instructions
    /\ \A kind \in {"IN", "OUT"}, size \in {8, 16}, port \in Nat, value \in Operands :
         InputOutputOpcode(kind, size, port, value) \in Instructions
<1>1. \A o \in Operations : o.op \in {"plain", "jump"} => o \in Instructions
  BY DEF Operations, Instructions
<1>2. \A port \in Nat : port % Byte \in Nat
  BY SizesOfBytes
<1> QED
  BY <1>1, <1>2 DEF Instructions, InputOutputOpcode

\* What an instruction keeps of its line.
Becomes(i, line) ==
    /\ i.op = line.op
    /\ line.op = "jump" => i = line
    /\ line.op = "io" => i.kind = line.kind /\ i.size = line.size

\* IN and OUT too, as the Builder has looked up port and value.
LEMMA InputOutputIsInstruction ==
    ASSUME SourceTyped, operation \in Operations, AddInputOutput
    PROVE  Crashes \/ Fails \/ \E i \in Instructions : Becomes(i, operation) /\ PushInstruction(i)
<1> DEFINE port == Resolve(operation.port, assignments)
           value == Resolve(operation.value, assignments)
           opcode == InputOutputOpcode(operation.kind, operation.size, port.digits, value)
<1>1. \/ Crashes \/ Fails
      \/ /\ port.type = "Number" /\ value # Null /\ operation.size \in {8, 16}
         /\ PushInstruction(opcode)
  BY DEF AddInputOutput
<1>2. operation.op = "io"
  BY DEF AddInputOutput, Execute, Takes
<1>3. operation.kind \in {"IN", "OUT"} /\ operation.port \in Operands /\ operation.value \in Operands
  BY <1>2, Shapes
<1>4. \A o \in Operands : Resolve(o, assignments) \in Operands \cup {Null}
  BY DEF Resolve, SourceTyped
<1>5. ASSUME port.type = "Number", value # Null, operation.size \in {8, 16} PROVE opcode \in Instructions
  <2>1. port \in Operands \cup {Null} /\ value \in Operands \cup {Null}
    BY <1>3, <1>4
  <2>2. Null.type # "Number"
    BY DEF Null
  <2> HIDE DEF port, value
  <2>3. value \in Operands
    BY <1>5, <2>1
  <2>4. port.digits \in Nat
    BY <1>5, <2>1, <2>2, Operand
  <2> QED
    BY <1>3, <1>5, <2>3, <2>4, OperationsAreInstructions DEF port, value
<1>6. Becomes(opcode, operation)
  BY <1>2 DEF Becomes, InputOutputOpcode
<1> HIDE DEF port, value, opcode
<1> QED
  BY <1>1, <1>5, <1>6

\* What the Builder puts into the sections.
LEMMA BuilderLayout == SourceTyped /\ Layout /\ Builds => Layout'
<1> SUFFICES ASSUME SourceTyped, Layout, Builds PROVE Layout'
  OBVIOUS
<1>1. /\ phase = "building" /\ rest # <<>> /\ phase' \in {"building", "crashed"}
      /\ UNCHANGED <<pending, header, section_offset, payload, current_offset, section_payload, file>>
      /\ operation \in Operations
  <2>1. /\ phase = "building" /\ rest # <<>>
        /\ UNCHANGED <<generator, current_offset, section_payload, file>>
    BY DEF Builds, SwitchSection, DeclareLabel, Assign, DeclareSymbol, AddInstruction, AddInputOutput,
           RejectOperation, Execute, Takes
  <2>2. phase' \in {"building", "crashed"}
    BY <2>1 DEF Builds, SwitchSection, DeclareLabel, Assign, DeclareSymbol, AddInstruction, AddInputOutput,
           RejectOperation, PushInstruction, Fails, Crashes
  <2> QED
    BY <2>1, <2>2, NextOperation DEF generator, SourceTyped
<1> DEFINE Kept == /\ \A s \in DOMAIN sections' : SectionTyped(sections'[s]) /\ Untouched(sections'[s])
                   /\ DOMAIN sections' \subseteq ToSet(SectionNames)
                   /\ current' \in {"none"} \cup DOMAIN sections'
<1>2. Kept => Layout'
  BY <1>1 DEF Layout, SectionsTyped
<1>3. UNCHANGED <<sections, current>> => Kept
  BY <1>1 DEF Layout, SectionsTyped
<1>4. ASSUME NEW i \in Instructions, PushInstruction(i) PROVE Kept
  <2>1. CASE Crashes
    BY <1>3, <2>1 DEF Crashes
  <2>2. CASE /\ current # "none"
             /\ sections' = [sections EXCEPT ![current].instructions = Append(@, i)]
             /\ UNCHANGED current
    <3>1. current \in DOMAIN sections
      BY <1>1, <2>2 DEF Layout, SectionsTyped
    <3> DEFINE new == [sections[current] EXCEPT !.instructions = Append(@, i)]
    <3>2. SectionTyped(new) /\ Untouched(new)
      BY <1>1, <3>1, PushKeeps DEF Layout, SectionsTyped
    <3>3. sections' = [sections EXCEPT ![current] = new]
      BY <2>2
    <3> HIDE DEF new
    <3> QED
      BY <1>1, <2>2, <3>1, <3>2, <3>3 DEF Layout, SectionsTyped
  <2> QED
    BY <1>4, <2>1, <2>2 DEF PushInstruction
<1>5. ASSUME SwitchSection PROVE Kept
  <2>1. operation.name \in ToSet(SectionNames)
    BY <1>1, <1>5, Shapes DEF SwitchSection, Execute, Takes
  <2>2. sections' = Insert(sections, operation.name, EmptySection) /\ current' = operation.name
    BY <1>5 DEF SwitchSection
  <2> QED
    BY <1>1, <2>1, <2>2, EmptyKeeps DEF Layout, SectionsTyped, Insert
<1>6. ASSUME DeclareLabel PROVE Kept
  <2>1. CASE Fails
    BY <1>3, <2>1 DEF Fails
  <2>2. CASE /\ current # "none"
             /\ sections' = [sections EXCEPT ![current].labels =
                   Insert(@, operation.name, Len(sections[current].instructions))]
             /\ UNCHANGED current
    <3>1. current \in DOMAIN sections
      BY <1>1, <2>2 DEF Layout, SectionsTyped
    <3> DEFINE new == [sections[current] EXCEPT !.labels = Insert(@, operation.name, Len(sections[current].instructions))]
    <3>2. SectionTyped(new) /\ Untouched(new)
      BY <1>1, <3>1, LabelKeeps DEF Layout, SectionsTyped
    <3>3. sections' = [sections EXCEPT ![current] = new]
      BY <2>2
    <3> HIDE DEF new
    <3> QED
      BY <1>1, <2>2, <3>1, <3>2, <3>3 DEF Layout, SectionsTyped
  <2> QED
    BY <1>6, <2>1, <2>2 DEF DeclareLabel
<1>7. ASSUME AddInstruction PROVE Kept
  <2>1. operation.op \in {"plain", "jump"} /\ PushInstruction(operation)
    BY <1>7 DEF AddInstruction, Execute, Takes
  <2> QED
    BY <1>1, <1>4, <2>1, OperationsAreInstructions
<1>8. ASSUME AddInputOutput PROVE Kept
  <2>1. Crashes \/ Fails \/ \E i \in Instructions : PushInstruction(i)
    BY <1>1, <1>8, InputOutputIsInstruction
  <2> QED
    BY <1>3, <1>4, <2>1 DEF Crashes, Fails
<1>9. ASSUME Assign \/ DeclareSymbol \/ RejectOperation PROVE Kept
  BY <1>3, <1>9 DEF Assign, DeclareSymbol, RejectOperation, Fails
<1> QED
  BY <1>2, <1>5, <1>6, <1>7, <1>8, <1>9 DEF Builds

-----------------------------------------------------------------------------
\* A section in the payload stays there when others follow.
LEMMA FinishedStays ==
    ASSUME NEW sec, NEW data, NEW place, NEW bytes \in Seq(Codes), NEW more \in Seq(Codes),
           Finished(sec, data, place, bytes)
    PROVE  Finished(sec, data, place, bytes \o more)
<1>1. PICK base \in Nat, end \in Nat : FinishedAt(sec, data, place, bytes, base, end)
  BY DEF Finished
<1>2. /\ Len(bytes \o more) = Len(bytes) + Len(more)
      /\ \A k \in 1 .. Len(bytes) : (bytes \o more)[k] = bytes[k]
  <2>1. Joined(Codes, bytes, more)
    BY TwoParts
  <2> QED
    BY <2>1 DEF Joined
<1>3. Len(bytes) \in Nat /\ Len(more) \in Nat
  BY LenProperties
<1>4. base + end <= Len(bytes)
  BY <1>1 DEF FinishedAt
<1>5. \A p \in 1 .. end : base + p \in 1 .. Len(bytes)
  BY <1>3, <1>4
<1>6. \A p \in 1 .. end : (bytes \o more)[base + p] = bytes[base + p]
  BY <1>2, <1>5
<1>7. Placed(sec, data, base, bytes \o more)
  BY <1>1, <1>6, PlacedElsewhere DEF FinishedAt
<1>8. base + end <= Len(bytes \o more)
  BY <1>2, <1>3, <1>4
<1> QED
  BY <1>1, <1>7, <1>8 DEF Finished, FinishedAt

\* A section is finished when its labels are replaced.
LEMMA FinishedNow ==
    ASSUME NEW sec, NEW data, NEW bytes \in Seq(Codes), NEW new \in Seq(Codes),
           Chained(sec, data, Len(new)), Copied(sec, data, new),
           Len(sec.instruction_adresses) = Len(sec.instructions),
           \A l \in DOMAIN sec.labels : sec.labels[l] \in Nat,
           NEW beyond \in 0 .. Byte - 1
    PROVE  LET all == bytes \o Replaced(sec, new, beyond)
           IN  /\ Replaced(sec, new, beyond) \in Seq(Codes) /\ all \in Seq(Codes)
               /\ Len(all) = Len(bytes) + Len(new)
               /\ Finished(sec, data, (HeaderSize + Len(bytes)) % Word, all)
<1> DEFINE replaced == Replaced(sec, new, beyond)
           all == bytes \o replaced
<1>1. /\ replaced \in Seq(Codes) /\ Len(replaced) = Len(new) /\ Placed(sec, data, 0, replaced)
  BY Replacing
<1>2. /\ all \in Seq(Codes) /\ Len(all) = Len(bytes) + Len(new)
      /\ \A k \in 1 .. Len(new) : all[Len(bytes) + k] = replaced[k]
  <2>0. replaced \in Seq(Codes)
    BY <1>1
  <2> HIDE DEF replaced
  <2>1. /\ all \in Seq(Codes) /\ Len(all) = Len(bytes) + Len(replaced)
        /\ \A k \in 1 .. Len(replaced) : all[Len(bytes) + k] = replaced[k]
    <3>1. Joined(Codes, bytes, replaced)
      BY <2>0, TwoParts
    <3> QED
      BY <3>1 DEF Joined
  <2> QED
    BY <1>1, <2>1
<1>3. Len(bytes) \in Nat /\ Len(new) \in Nat
  BY LenProperties
<1> HIDE DEF replaced, all
<1>4. \A p \in 1 .. Len(new) : all[Len(bytes) + p] = replaced[0 + p]
  BY <1>2
<1>5. Placed(sec, data, Len(bytes), all)
  BY <1>1, <1>3, <1>4, PlacedElsewhere
<1>6. FinishedAt(sec, data, (HeaderSize + Len(bytes)) % Word, all, Len(bytes), Len(new))
  BY <1>2, <1>3, <1>5 DEF FinishedAt
<1>7. Finished(sec, data, (HeaderSize + Len(bytes)) % Word, all)
  BY <1>3, <1>6 DEF Finished
<1> QED
  BY <1>1, <1>2, <1>7 DEF all, replaced

\* The Generator begins with nothing generated.
LEMMA EndBuildLayout == Layout /\ EndBuild => Layout'
<1> SUFFICES ASSUME Layout, EndBuild PROVE Layout'
  OBVIOUS
<1>1. /\ phase = "building" /\ phase' = "sections" /\ pending' = DOMAIN sections
      /\ UNCHANGED <<sections, current, assignments, header, current_offset, payload>>
  BY DEF EndBuild, source
<1>2. Len(<<>>) = 0 /\ HeaderSize + 0 = HeaderSize
  BY SizesAssumption
<1> QED
  BY <1>1, <1>2 DEF Layout, SectionsTyped

\* A section begins where the last one has ended (generator.cpp:31).
LEMMA StartSectionLayout == Layout /\ StartSection => Layout'
<1> SUFFICES ASSUME Layout, StartSection PROVE Layout'
  OBVIOUS
<1>1. phase = "sections"
  BY DEF StartSection
<1>2. CASE Stop("failed")
  BY <1>2 DEF Stop, source, generator, Layout, SectionsTyped
<1>3. ASSUME NEW s \in pending,
             header' = [t \in DOMAIN header \cup {s} |->
                           IF t = s THEN current_offset % Word ELSE header[t]],
             current' = s, section_offset' = current_offset, section_payload' = <<>>,
             phase' = "instructions",
             UNCHANGED <<source, sections, pending, current_offset, payload, file>>
      PROVE  Layout'
  <2>1. /\ SectionsTyped /\ pending \subseteq DOMAIN sections /\ payload \in Seq(Codes)
        /\ current_offset = HeaderSize + Len(payload)
        /\ \A t \in pending : Untouched(sections[t])
        /\ \A t \in DOMAIN sections \ pending :
              t \in DOMAIN header /\ Finished(sections[t], assignments, header[t], payload)
    BY <1>1 DEF Layout
  <2>2. SectionsTyped' /\ payload' \in Seq(Codes) /\ pending' \subseteq DOMAIN sections'
    BY <1>3, <2>1 DEF SectionsTyped
  <2>3. \A t \in DOMAIN sections' \ pending' :
            t \in DOMAIN header' /\ Finished(sections'[t], assignments', header'[t], payload')
    BY <1>3, <2>1 DEF source
  <2>4. Growing'
    <3>1. Untouched(sections[s]) /\ SectionTyped(sections[s])
      BY <2>1 DEF SectionsTyped
    <3>2. Chained(sections[s], assignments, 0) /\ Copied(sections[s], assignments, <<>>)
      BY <3>1, UntouchedChained DEF SectionTyped
    <3>3. Len(<<>>) = 0 /\ <<>> \in Seq(Codes)
      OBVIOUS
    <3>4. current_offset \in Nat
      BY <2>1, LenProperties, SizesAssumption
    <3>5. header'[s] = current_offset % Word /\ s \in DOMAIN header'
      BY <1>3
    <3>6. /\ current' \in pending' /\ current' \in DOMAIN header'
          /\ section_offset' = HeaderSize + Len(payload')
          /\ header'[current'] = section_offset' % Word
      BY <1>3, <2>1, <3>5
    <3>7. current_offset' = section_offset' + Len(section_payload')
      BY <1>3, <3>3, <3>4
    <3>8. /\ section_payload' \in Seq(Codes)
          /\ Chained(sections'[current'], assignments', Len(section_payload'))
          /\ Copied(sections'[current'], assignments', section_payload')
      BY <1>3, <3>2, <3>3 DEF source
    <3>9. \A t \in pending' \ {current'} : Untouched(sections'[t])
      BY <1>3, <2>1
    <3> QED
      BY <3>6, <3>7, <3>8, <3>9 DEF Growing
  <2> QED
    BY <1>3, <2>2, <2>3, <2>4 DEF Layout
<1> QED
  BY <1>2, <1>3 DEF StartSection

\* An instruction has become bytes.
LEMMA InstructionGrows ==
    ASSUME NEW sec, SectionTyped(sec), NEW data, \A x \in DOMAIN data : data[x] \in Operands,
           NEW bytes \in Seq(Codes), Chained(sec, data, Len(bytes)), Copied(sec, data, bytes),
           Len(sec.instruction_adresses) < Len(sec.instructions),
           NEW g, g = Generate(sec.instructions[Len(sec.instruction_adresses) + 1], data, Len(bytes)),
           g.status = "ok",
           NEW new, new = [sec EXCEPT !.instruction_adresses = Append(@, Len(bytes)),
                                      !.replace_entries = @ \cup g.entries]
    PROVE  /\ SectionTyped(new)
           /\ g.bytes \in Seq(Codes)
           /\ bytes \o g.bytes \in Seq(Codes)
           /\ Len(bytes \o g.bytes) = Len(bytes) + Len(g.bytes)
           /\ Chained(new, data, Len(bytes) + Len(g.bytes))
           /\ Copied(new, data, bytes \o g.bytes)
<1>1. DOMAIN sec = Fields
  BY DEF SectionTyped
<1>2. /\ DOMAIN new = Fields /\ new.instructions = sec.instructions /\ new.labels = sec.labels
      /\ new.instruction_adresses = Append(sec.instruction_adresses, Len(bytes))
      /\ new.replace_entries = sec.replace_entries \cup g.entries
  BY <1>1 DEF Fields
<1>3. Len(bytes) \in Nat
  BY LenProperties
<1>4. Grows(sec, new, data, g, Len(bytes))
  BY <1>2 DEF Grows
<1>5. Shaped(g, Len(bytes))
  <2>1. Len(sec.instruction_adresses) \in Nat /\ Len(sec.instructions) \in Nat
    BY LenProperties DEF Chained, SectionTyped
  <2>2. Len(sec.instruction_adresses) + 1 \in 1 .. Len(sec.instructions)
    BY <2>1
  <2>3. sec.instructions[Len(sec.instruction_adresses) + 1] \in Instructions
    BY <2>2 DEF SectionTyped
  <2> QED
    BY <1>3, <2>3, GenerateShaped
<1>6. SectionTyped(new)
  BY <1>2 DEF SectionTyped
<1>7. Chained(new, data, Len(bytes) + Len(g.bytes))
  BY <1>3, <1>4, <1>5, ChainGrows
<1>8. /\ bytes \o g.bytes \in Seq(Codes)
      /\ Len(bytes \o g.bytes) = Len(bytes) + Len(g.bytes)
      /\ Copied(new, data, bytes \o g.bytes)
  BY <1>3, <1>4, <1>5, CopyGrows
<1> QED
  BY <1>5, <1>6, <1>7, <1>8 DEF Shaped

\* The section that is being generated grows by an instruction, the others
\* stay as they are.
LEMMA GenerateInstructionLayout == SourceTyped /\ Layout /\ GenerateInstruction => Layout'
<1> SUFFICES ASSUME SourceTyped, Layout, GenerateInstruction PROVE Layout'
  OBVIOUS
<1> DEFINE section == sections[current]
           next == Len(section.instruction_adresses) + 1
           offset == current_offset - section_offset
           g == Generate(section.instructions[next], assignments, offset)
           new == [section EXCEPT !.instruction_adresses = Append(@, offset),
                                  !.replace_entries = @ \cup g.entries]
<1>1. phase = "instructions" /\ next <= Len(section.instructions)
  BY DEF GenerateInstruction
<1>2. CASE g.status # "ok" /\ Stop(g.status)
  <2>1. g.status \in {"ok", "failed", "crashed"}
    BY DEF Generate, Jump, InputOutput, Generated, GeneratedFor, Not
  <2> HIDE DEF g
  <2> QED
    BY <1>1, <1>2, <2>1 DEF Stop, source, generator, Layout, SectionsTyped
<1>3. CASE /\ g.status = "ok"
           /\ section_payload' = section_payload \o g.bytes
           /\ sections' = [sections EXCEPT
                 ![current].instruction_adresses = Append(@, offset),
                 ![current].replace_entries = @ \cup g.entries]
           /\ current_offset' = current_offset + Len(g.bytes)
           /\ UNCHANGED <<phase, source, generator, current, file>>
  <2>1. /\ SectionsTyped /\ Growing /\ payload \in Seq(Codes) /\ pending \subseteq DOMAIN sections
        /\ \A t \in DOMAIN sections \ pending :
              t \in DOMAIN header /\ Finished(sections[t], assignments, header[t], payload)
    BY <1>1 DEF Layout
  <2>2. /\ current \in DOMAIN sections /\ current \in pending
        /\ section_payload \in Seq(Codes) /\ Len(section_payload) \in Nat
        /\ section_offset \in Nat
    BY <2>1, LenProperties, SizesAssumption DEF Growing
  <2>3. offset = Len(section_payload)
    BY <2>1, <2>2 DEF Growing
  <2>4. /\ SectionTyped(section) /\ Chained(section, assignments, Len(section_payload))
        /\ Copied(section, assignments, section_payload)
        /\ \A x \in DOMAIN assignments : assignments[x] \in Operands
    BY <2>1, <2>2 DEF SectionsTyped, Growing, SourceTyped
  <2>5. Len(section.instruction_adresses) < Len(section.instructions)
    <3>1. Len(section.instruction_adresses) \in Nat /\ Len(section.instructions) \in Nat
      BY <2>4, LenProperties DEF Chained, SectionTyped
    <3> QED
      BY <1>1, <3>1
  <2>6. sections' = [sections EXCEPT ![current] = new]
    BY <1>3, <2>2
  <2> HIDE DEF offset
  <2>7. /\ SectionTyped(new)
        /\ g.bytes \in Seq(Codes)
        /\ section_payload \o g.bytes \in Seq(Codes)
        /\ Len(section_payload \o g.bytes) = Len(section_payload) + Len(g.bytes)
        /\ Chained(new, assignments, Len(section_payload) + Len(g.bytes))
        /\ Copied(new, assignments, section_payload \o g.bytes)
    BY <1>3, <2>2, <2>3, <2>4, <2>5, InstructionGrows
  <2>8. /\ UNCHANGED <<phase, current, assignments, pending, header, section_offset, payload, file>>
        /\ section_payload' = section_payload \o g.bytes
        /\ current_offset' = current_offset + Len(g.bytes)
    BY <1>3 DEF source, generator
  <2> HIDE DEF new, g
  <2>9. /\ DOMAIN sections' = DOMAIN sections
        /\ sections'[current] = new
        /\ \A t \in DOMAIN sections : t # current => sections'[t] = sections[t]
    BY <2>2, <2>6
  <2>10. SectionsTyped'
    BY <1>1, <2>1, <2>7, <2>8, <2>9 DEF SectionsTyped
  <2>11. Growing'
    <3>1. current_offset' = section_offset' + Len(section_payload')
      <4>1. Len(g.bytes) \in Nat
        BY <2>7, LenProperties
      <4>2. current_offset = section_offset + Len(section_payload)
        BY <2>1 DEF Growing
      <4>3. Len(section_payload') = Len(section_payload) + Len(g.bytes)
        BY <2>7, <2>8
      <4>4. current_offset' = current_offset + Len(g.bytes) /\ section_offset' = section_offset
        BY <2>8
      <4>5. section_offset \in Nat /\ Len(section_payload) \in Nat
        BY <2>2
      <4>6. \A a, b, c \in Nat : (a + b) + c = a + (b + c)
        OBVIOUS
      <4>7. current_offset' = (section_offset + Len(section_payload)) + Len(g.bytes)
        BY <4>2, <4>4
      <4>8. section_offset' + Len(section_payload') = section_offset + (Len(section_payload) + Len(g.bytes))
        BY <4>3, <4>4
      <4> QED
        BY <4>1, <4>5, <4>6, <4>7, <4>8
    <3>2. /\ section_payload' \in Seq(Codes)
          /\ Chained(sections'[current'], assignments', Len(section_payload'))
          /\ Copied(sections'[current'], assignments', section_payload')
      BY <2>7, <2>8, <2>9
    <3>3. /\ current' \in pending' /\ current' \in DOMAIN header'
          /\ section_offset' = HeaderSize + Len(payload')
          /\ header'[current'] = section_offset' % Word
      BY <2>1, <2>8 DEF Growing
    <3>4. \A t \in pending' \ {current'} : Untouched(sections'[t])
      BY <2>1, <2>8, <2>9 DEF Growing
    <3> QED
      BY <3>1, <3>2, <3>3, <3>4 DEF Growing
  <2>12. \A t \in DOMAIN sections' \ pending' :
            t \in DOMAIN header' /\ Finished(sections'[t], assignments', header'[t], payload')
    BY <2>1, <2>2, <2>8, <2>9
  <2> QED
    BY <1>1, <2>1, <2>8, <2>9, <2>10, <2>11, <2>12 DEF Layout
<1> QED
  BY <1>2, <1>3 DEF GenerateInstruction

\* The section joins the finished ones.
LEMMA FinishSectionLayout == Layout /\ FinishSection => Layout'
<1> SUFFICES ASSUME Layout, FinishSection PROVE Layout'
  OBVIOUS
<1>1. /\ phase = "instructions"
      /\ Len(sections[current].instruction_adresses) = Len(sections[current].instructions)
      /\ pending' = pending \ {current}
      /\ phase' = "sections"
      /\ UNCHANGED <<sections, assignments, current, header, current_offset, section_offset, section_payload, file>>
  BY DEF FinishSection, source
<1>2. PICK beyond \in 0 .. Byte - 1 :
         payload' = payload \o Replaced(sections[current], section_payload, beyond)
  BY DEF FinishSection
<1>3. /\ SectionsTyped /\ Growing /\ payload \in Seq(Codes) /\ pending \subseteq DOMAIN sections
      /\ \A t \in DOMAIN sections \ pending :
            t \in DOMAIN header /\ Finished(sections[t], assignments, header[t], payload)
  BY <1>1 DEF Layout
<1> DEFINE replaced == Replaced(sections[current], section_payload, beyond)
<1>4. /\ replaced \in Seq(Codes) /\ payload' \in Seq(Codes)
      /\ Len(payload') = Len(payload) + Len(section_payload)
      /\ Finished(sections[current], assignments, (HeaderSize + Len(payload)) % Word, payload')
  <2>1. /\ section_payload \in Seq(Codes)
        /\ Chained(sections[current], assignments, Len(section_payload))
        /\ Copied(sections[current], assignments, section_payload)
        /\ \A l \in DOMAIN sections[current].labels : sections[current].labels[l] \in Nat
    BY <1>3 DEF Growing, SectionsTyped, SectionTyped
  <2> QED
    BY <1>1, <1>2, <1>3, <2>1, FinishedNow
<1>5. header[current] = (HeaderSize + Len(payload)) % Word /\ current \in DOMAIN header
  BY <1>3 DEF Growing
<1> HIDE DEF replaced
<1>6. \A t \in DOMAIN sections' \ pending' :
         t \in DOMAIN header' /\ Finished(sections'[t], assignments', header'[t], payload')
  <2> SUFFICES ASSUME NEW t \in DOMAIN sections \ (pending \ {current})
               PROVE  t \in DOMAIN header /\ Finished(sections[t], assignments, header[t], payload')
    BY <1>1
  <2>1. CASE t = current
    BY <1>4, <1>5, <2>1
  <2>2. CASE t # current
    <3>1. t \in DOMAIN header /\ Finished(sections[t], assignments, header[t], payload)
      BY <1>3, <2>2
    <3>2. payload' = payload \o replaced
      BY <1>2 DEF replaced
    <3> QED
      BY <1>3, <1>4, <3>1, <3>2, FinishedStays
  <2> QED
    BY <2>1, <2>2
<1>7. current_offset' = HeaderSize + Len(payload')
  <2>1. Len(payload) \in Nat /\ Len(section_payload) \in Nat
    BY <1>3, LenProperties DEF Growing
  <2>2. current_offset = (HeaderSize + Len(payload)) + Len(section_payload)
    BY <1>3 DEF Growing
  <2> QED
    BY <1>1, <1>4, <2>1, <2>2, SizesAssumption
<1>8. \A t \in pending' : Untouched(sections'[t])
  BY <1>1, <1>3 DEF Growing
<1>9. SectionsTyped' /\ pending' \subseteq DOMAIN sections'
  BY <1>1, <1>3 DEF SectionsTyped
<1> QED
  BY <1>1, <1>4, <1>6, <1>7, <1>8, <1>9 DEF Layout

\* The payload is in the file, behind the header if there is one.
LEMMA WriteFileLayout == Layout /\ WriteFile => Layout'
<1> SUFFICES ASSUME Layout, WriteFile PROVE Layout'
  OBVIOUS
<1>1. /\ phase = "sections" /\ pending = {} /\ phase' = "done"
      /\ UNCHANGED <<sections, assignments, current, pending, header, payload>>
  BY DEF WriteFile, source, generator
<1>2. PICK raw \in BOOLEAN :
         file' = (IF raw THEN <<>> ELSE [i \in 1 .. HeaderSize |-> Opcode("header")]) \o payload
  BY DEF WriteFile
<1>3. payload \in Seq(Codes) /\ Len(payload) \in Nat
  BY LenProperties DEF Layout
<1>4. Written'
  <2> SUFFICES ASSUME Len(file') = HeaderSize + Len(payload), NEW p \in 1 .. Len(payload)
               PROVE  file'[HeaderSize + p] = payload[p]
    BY <1>1 DEF Written
  <2> DEFINE Output == Codes \cup {Opcode("header")}
             front == IF raw THEN <<>> ELSE [i \in 1 .. HeaderSize |-> Opcode("header")]
  <2>1. front \in Seq(Output)
    <3>1. <<>> \in Seq(Output)
      OBVIOUS
    <3>2. [i \in 1 .. HeaderSize |-> Opcode("header")] \in Seq(Output)
      BY SizesAssumption, IsASeq
    <3> QED
      BY <3>1, <3>2
  <2>2. payload \in Seq(Output)
    BY <1>3
  <2> HIDE DEF front
  <2>3. /\ Len(front \o payload) = Len(front) + Len(payload)
        /\ \A k \in 1 .. Len(payload) : (front \o payload)[Len(front) + k] = payload[k]
    <3>1. Joined(Output, front, payload)
      BY <2>1, <2>2, TwoParts
    <3> QED
      BY <3>1 DEF Joined
  <2>4. file' = front \o payload
    BY <1>2 DEF front
  <2>5. Len(front) = HeaderSize
    BY <1>3, <2>1, <2>3, <2>4, LenProperties, SizesAssumption
  <2> QED
    BY <2>3, <2>4, <2>5
<1> QED
  BY <1>1, <1>4 DEF Layout, SectionsTyped

\* At every moment of the generation, finished sections are in the payload at
\* the place the header gives, and the one being generated is in order
\* (generator.cpp:31, runtimedata.cpp:71).
THEOREM LayoutInvariance == Spec => [](SourceTyped /\ Layout)
<1>1. Init => Layout
  <2> SUFFICES ASSUME Init PROVE Layout
    OBVIOUS
  <2>1. sections = <<>> /\ payload = <<>> /\ current_offset = HeaderSize /\ phase = "building" /\ current = "none"
    BY DEF Init
  <2>2. DOMAIN sections = {} /\ <<>> \in Seq(Codes)
    BY <2>1
  <2> QED
    BY <2>1, <2>2 DEF Layout, SectionsTyped
<1>2. SourceTyped /\ Layout /\ [Next]_vars => Layout'
  <2>1. Layout /\ UNCHANGED vars => Layout'
    <3> SUFFICES ASSUME Layout, UNCHANGED vars PROVE Layout'
      OBVIOUS
    <3>1. UNCHANGED <<phase, sections, current, assignments, pending, header, current_offset, section_offset,
                      section_payload, payload, file>>
      BY DEF vars
    <3>2. (SectionsTyped' <=> SectionsTyped) /\ (Growing' <=> Growing) /\ (Written' <=> Written)
      BY <3>1 DEF SectionsTyped, Growing, Written
    <3> QED
      BY <3>1, <3>2 DEF Layout
  <2> QED
    BY <2>1, BuilderLayout, EndBuildLayout, StartSectionLayout, GenerateInstructionLayout, FinishSectionLayout,
       WriteFileLayout DEF Next, Builds
<1> QED
  BY <1>1, <1>2, BooksInvariance, PTL DEF Spec

-----------------------------------------------------------------------------
(* What an object file holds.                                                 *)

\* Sums that stay within the file.
LEMMA InFileOfSize ==
    \A base, a, end, all, front, size \in Nat : \A n \in {1, 2, 3} :
        a + n <= end /\ base + end <= all /\ front + all <= size =>
            /\ front + base \in 0 .. size - 1
            /\ base + a + 1 \in 1 .. all
            /\ n # 1 => base + a + 2 \in 1 .. all
  OBVIOUS

\* What an object file holds of an instruction.
LEMMA InObject ==
    ASSUME Layout, IsObject, NEW s \in DOMAIN sections,
           NEW i \in DOMAIN sections[s].instruction_adresses
    PROVE  LET a == sections[s].instruction_adresses[i]
               e == Emission(sections[s], assignments, i)
           IN  /\ a \in Nat /\ Shaped(e, a)
               /\ InFile(s, a) = e.bytes[1]
               /\ e.entries = {} /\ Len(e.bytes) # 1 => InFile(s, a + 1) = e.bytes[2]
               /\ \A x \in e.entries : \E beyond \in 0 .. Byte - 1 :
                     InFile(s, a + 1) = Data(LabelAddress(sections[s], x[2], beyond) - x[1] + 1)
<1> DEFINE sec == sections[s]
           a == sec.instruction_adresses[i]
           e == Emission(sec, assignments, i)
<1>1. /\ payload \in Seq(Codes) /\ Written /\ Len(file) = HeaderSize + Len(payload)
      /\ HeaderSize + Len(payload) <= Word
      /\ Finished(sec, assignments, header[s], payload)
  BY DEF Layout, IsObject
<1>2. PICK base \in Nat, end \in Nat : FinishedAt(sec, assignments, header[s], payload, base, end)
  BY <1>1 DEF Finished
<1>3. /\ a \in Nat /\ Len(e.bytes) \in {1, 2, 3} /\ a + Len(e.bytes) <= end /\ Shaped(e, a)
  BY <1>2, PlacesDiffer DEF FinishedAt, Chained
<1>4. /\ payload[base + a + 1] = e.bytes[1]
      /\ e.entries = {} /\ Len(e.bytes) # 1 => payload[base + a + 2] = e.bytes[2]
      /\ \A x \in e.entries : \E beyond \in 0 .. Byte - 1 :
           payload[base + a + 2] = Data(LabelAddress(sec, x[2], beyond) - x[1] + 1)
  BY <1>2 DEF FinishedAt, Placed
<1>5. \A x \in e.entries : Len(e.bytes) # 1
  BY <1>3 DEF Shaped
<1>6. base + end <= Len(payload) /\ header[s] = (HeaderSize + base) % Word
  BY <1>2 DEF FinishedAt
<1>7. Len(payload) \in Nat /\ HeaderSize \in Nat
  BY <1>1, LenProperties, SizesAssumption
<1> HIDE DEF e, a, sec
<1>8. /\ HeaderSize + base \in 0 .. Word - 1
      /\ base + a + 1 \in 1 .. Len(payload)
      /\ Len(e.bytes) # 1 => base + a + 2 \in 1 .. Len(payload)
  <2> DEFINE n == Len(e.bytes)
             all == Len(payload)
  <2>1. n \in {1, 2, 3} /\ a + n <= end /\ base + end <= all /\ HeaderSize + all <= Word
    BY <1>1, <1>3, <1>6
  <2>2. base \in Nat /\ a \in Nat /\ end \in Nat /\ all \in Nat /\ HeaderSize \in Nat /\ Word \in Nat
    BY <1>3, <1>7, SizesOfBytes
  <2> HIDE DEF n, all
  <2>3. /\ HeaderSize + base \in 0 .. Word - 1
        /\ base + a + 1 \in 1 .. all
        /\ n # 1 => base + a + 2 \in 1 .. all
    BY <2>1, <2>2, InFileOfSize
  <2> QED
    BY <2>3 DEF n, all
<1>9. header[s] = HeaderSize + base
  <2>1. HeaderSize + base \in 0 .. Word - 1
    BY <1>8
  <2>2. (Word * 0 + (HeaderSize + base)) % Word = HeaderSize + base
    BY <2>1, RemainderIs, SizesOfBytes
  <2>3. Word * 0 + (HeaderSize + base) = HeaderSize + base
    BY <1>7, SizesOfBytes
  <2> QED
    BY <1>6, <2>2, <2>3
<1>10. \A p \in 1 .. Len(payload) : file[HeaderSize + p] = payload[p]
  BY <1>1 DEF Written
<1>11. InFile(s, a) = payload[base + a + 1]
  <2>1. base + a + 1 \in 1 .. Len(payload)
    BY <1>8
  <2>2. header[s] + a + 1 = HeaderSize + (base + a + 1)
    BY <1>3, <1>7, <1>9
  <2> QED
    BY <1>10, <2>1, <2>2 DEF InFile
<1>12. Len(e.bytes) # 1 => InFile(s, a + 1) = payload[base + a + 2]
  <2>1. Len(e.bytes) # 1 => base + a + 2 \in 1 .. Len(payload)
    BY <1>8
  <2>2. header[s] + (a + 1) + 1 = HeaderSize + (base + a + 2)
    BY <1>3, <1>7, <1>9
  <2> QED
    BY <1>10, <2>1, <2>2 DEF InFile
<1> QED
  BY <1>3, <1>4, <1>5, <1>11, <1>12 DEF e, a, sec

\* In an object file every section is generated.
LEMMA ObjectIsComplete ==
    ASSUME Layout, IsObject, NEW s \in DOMAIN sections
    PROVE  LET sec == sections[s]
           IN  /\ DOMAIN sec.instruction_adresses = 1 .. Len(sec.instructions)
               /\ Len(sec.instruction_adresses) = Len(sec.instructions)
               /\ Len(sec.instructions) \in Nat
               /\ DOMAIN sec.instructions = 1 .. Len(sec.instructions)
               /\ SectionTyped(sec)
               /\ \E end \in Nat : Chained(sec, assignments, end)
<1>1. Finished(sections[s], assignments, header[s], payload) /\ SectionTyped(sections[s])
  BY DEF Layout, IsObject, SectionsTyped
<1>2. PICK base \in Nat, end \in Nat : FinishedAt(sections[s], assignments, header[s], payload, base, end)
  BY <1>1 DEF Finished
<1>3. /\ Chained(sections[s], assignments, end)
      /\ Len(sections[s].instruction_adresses) = Len(sections[s].instructions)
  BY <1>2 DEF FinishedAt
<1>4. sections[s].instruction_adresses \in Seq(Nat)
  BY <1>3 DEF Chained
<1>5. sections[s].instructions \in Seq(Instructions)
  BY <1>1 DEF SectionTyped
<1> QED
  BY <1>1, <1>3, <1>4, <1>5, LenProperties

\* The processor finds every instruction where the assembler has put it, but
\* behind OUT8 (opcodes.cpp:24, ControlUnit.cpp:190), whatever the source.
THEOREM AlwaysDecodedAsEmitted == Spec => []DecodedAsEmitted
<1>1. Layout => DecodedAsEmitted
  <2> SUFFICES ASSUME Layout, IsObject, NEW s \in DOMAIN sections,
                      NEW i \in 1 .. Len(sections[s].instruction_adresses) - 1,
                      InFile(s, sections[s].instruction_adresses[i]).opcode # "OUT8"
               PROVE  sections[s].instruction_adresses[i]
                        + BytesRead(InFile(s, sections[s].instruction_adresses[i]).opcode)
                          = sections[s].instruction_adresses[i + 1]
    BY DEF DecodedAsEmitted
  <2> DEFINE adr == sections[s].instruction_adresses
             e == Emission(sections[s], assignments, i)
  <2>1. /\ DOMAIN adr = 1 .. Len(adr) /\ Len(adr) \in Nat
    BY ObjectIsComplete
  <2>2. i \in DOMAIN adr /\ i # Len(adr)
    BY <2>1
  <2>3. /\ InFile(s, adr[i]) = e.bytes[1]
        /\ e.bytes[1].opcode = "OUT8" \/ Len(e.bytes) = BytesRead(e.bytes[1].opcode)
    BY <2>2, InObject DEF Shaped
  <2>4. adr[i] + Len(e.bytes) = adr[i + 1]
    <3>1. PICK end \in Nat : Chained(sections[s], assignments, end)
      BY ObjectIsComplete
    <3> QED
      BY <2>1, <2>2, <3>1 DEF Chained, Consecutive
  <2> QED
    BY <2>3, <2>4
<1> QED
  BY <1>1, LayoutInvariance, PTL

-----------------------------------------------------------------------------
(* The sections hold what their source lines say.                             *)

InstructionLines(lines) == {p \in DOMAIN lines : lines[p] = InstructionLine}
Declared(lines, name) == {p \in DOMAIN lines : lines[p] = LabelLine(name)}
Before(lines, name) == {p \in DOMAIN lines : /\ lines[p] = InstructionLine
                                             /\ Declared(lines, name) # {}
                                             /\ \A q \in Declared(lines, name) : p < q}

\* A section holds what its lines say.
Told(lines, sec) ==
    /\ Len(sec.instructions) = Cardinality(InstructionLines(lines))
    /\ \A name \in STRING :
          /\ name \in DOMAIN sec.labels <=> Declared(lines, name) # {}
          /\ name \in DOMAIN sec.labels => sec.labels[name] = Cardinality(Before(lines, name))

\* Its instructions come from the lines that have one, one from each.
Said(lines, sec) ==
    /\ Len(sec.instructions) = Len(lines)
    /\ \A i \in DOMAIN lines : Becomes(sec.instructions[i], lines[i])

AsTold ==
    /\ \A s \in DOMAIN sections : Told(listing[s], sections[s]) /\ Said(told[s], sections[s])
    /\ \A s \in ToSet(SectionNames) \ DOMAIN sections : listing[s] = <<>> /\ told[s] = <<>>

\* Kinds of lines differ.
LEMMA LinesDiffer ==
    /\ InstructionLine # SectionLine
    /\ \A name : LabelLine(name) # InstructionLine /\ LabelLine(name) # SectionLine
    /\ \A name, other : LabelLine(name) = LabelLine(other) => name = other
<1>1. /\ InstructionLine.line = "instruction" /\ SectionLine.line = "section"
      /\ \A name : LabelLine(name).line = "label" /\ LabelLine(name).name = name
  BY DEF InstructionLine, SectionLine, LabelLine
<1> QED
  BY <1>1

\* One line more at the end.
LEMMA LineMore ==
    ASSUME NEW lines \in Seq(Lines), NEW item \in Lines
    PROVE  LET more == Append(lines, item)
               n == Len(lines)
           IN  /\ n \in Nat /\ DOMAIN lines = 1 .. n /\ DOMAIN more = (1 .. n) \cup {n + 1}
               /\ n + 1 \notin 1 .. n /\ \A p \in 1 .. n : p < n + 1
               /\ more[n + 1] = item /\ \A p \in 1 .. n : more[p] = lines[p]
  BY AppendProperties, LenProperties

\* What becomes of the lines that count.
OneMore(lines, item, more) ==
    /\ InstructionLines(more) = IF item = InstructionLine
                                THEN InstructionLines(lines) \cup {Len(lines) + 1}
                                ELSE InstructionLines(lines)
    /\ \A name : Declared(more, name) = IF item = LabelLine(name)
                                        THEN Declared(lines, name) \cup {Len(lines) + 1}
                                        ELSE Declared(lines, name)
    /\ \A name : Declared(lines, name) # {} => Before(more, name) = Before(lines, name)
    /\ \A name : Declared(lines, name) = {} /\ item = LabelLine(name) =>
                     Before(more, name) = InstructionLines(lines)

\* One line more changes the sets of lines as the Builder changes the section.
LEMMA LineSets ==
    ASSUME NEW lines \in Seq(Lines), NEW item \in Lines
    PROVE  OneMore(lines, item, Append(lines, item))
<1> DEFINE more == Append(lines, item)
<1> DEFINE n == Len(lines)
<1>1. /\ n \in Nat /\ DOMAIN lines = 1 .. n /\ DOMAIN more = (1 .. n) \cup {n + 1}
      /\ n + 1 \notin 1 .. n /\ \A p \in 1 .. n : p < n + 1
      /\ more[n + 1] = item /\ \A p \in 1 .. n : more[p] = lines[p]
  BY LineMore
<1> HIDE DEF n, more
<1>2. InstructionLines(more) = IF item = InstructionLine THEN InstructionLines(lines) \cup {n + 1}
                               ELSE InstructionLines(lines)
  BY <1>1 DEF InstructionLines
<1>3. ASSUME NEW name
      PROVE  Declared(more, name) = IF item = LabelLine(name) THEN Declared(lines, name) \cup {n + 1}
                                    ELSE Declared(lines, name)
  BY <1>1 DEF Declared
<1>4. ASSUME NEW name, Declared(lines, name) # {} PROVE Before(more, name) = Before(lines, name)
  <2>1. PICK q \in 1 .. n : q \in Declared(lines, name)
    BY <1>1, <1>4 DEF Declared
  <2>2. Declared(more, name) \in {Declared(lines, name), Declared(lines, name) \cup {n + 1}}
    BY <1>3
  <2>3. ~(n + 1 < q)
    BY <1>1, <2>1
  <2>4. ASSUME NEW p \in 1 .. n
        PROVE  (\A r \in Declared(more, name) : p < r) <=> (\A r \in Declared(lines, name) : p < r)
    BY <1>1, <2>2
  <2>5. \A p \in DOMAIN more : p \in Before(more, name) <=> p \in Before(lines, name)
    <3> SUFFICES ASSUME NEW p \in DOMAIN more PROVE p \in Before(more, name) <=> p \in Before(lines, name)
      OBVIOUS
    <3>1. CASE p = n + 1
      <4>1. p \notin Before(lines, name)
        BY <1>1, <3>1 DEF Before
      <4>2. p \notin Before(more, name)
        BY <2>1, <2>2, <2>3, <3>1 DEF Before
      <4> QED
        BY <4>1, <4>2
    <3>2. CASE p \in 1 .. n
      BY <1>1, <1>4, <2>1, <2>2, <2>4, <3>2 DEF Before
    <3> QED
      BY <1>1, <3>1, <3>2
  <2> QED
    BY <1>1, <2>5 DEF Before
<1>5. ASSUME NEW name, Declared(lines, name) = {}, item = LabelLine(name)
      PROVE  Before(more, name) = InstructionLines(lines)
  <2>1. Declared(more, name) = {n + 1}
    BY <1>3, <1>5
  <2>2. more[n + 1] # InstructionLine
    BY <1>1, <1>5, LinesDiffer
  <2> QED
    BY <1>1, <2>1, <2>2 DEF Before, InstructionLines
<1> QED
  BY <1>2, <1>3, <1>4, <1>5 DEF n, more, OneMore

\* A section keeps holding what its lines say: after an instruction,
LEMMA InstructionTold ==
    ASSUME NEW sec, SectionTyped(sec), NEW lines \in Seq(Lines), Told(lines, sec), NEW i \in Instructions
    PROVE  Told(Append(lines, InstructionLine), [sec EXCEPT !.instructions = Append(@, i)])
<1> DEFINE more == Append(lines, InstructionLine)
           new == [sec EXCEPT !.instructions = Append(@, i)]
<1>1. InstructionLine \in Lines
  BY DEF Lines
<1>2. new.instructions = Append(sec.instructions, i) /\ new.labels = sec.labels
  BY DEF SectionTyped, Fields
<1>3. Len(new.instructions) = Len(sec.instructions) + 1
  BY <1>2, AppendProperties DEF SectionTyped
<1>6. OneMore(lines, InstructionLine, more)
  BY <1>1, LineSets
<1> HIDE DEF more
<1>4. /\ InstructionLines(more) = InstructionLines(lines) \cup {Len(lines) + 1}
      /\ \A name : Declared(more, name) = Declared(lines, name)
      /\ \A name : Declared(lines, name) # {} => Before(more, name) = Before(lines, name)
  BY <1>6, LinesDiffer DEF OneMore
<1>5. Cardinality(InstructionLines(more)) = Cardinality(InstructionLines(lines)) + 1
  <2>1. IsFiniteSet(InstructionLines(lines)) /\ Len(lines) + 1 \notin InstructionLines(lines)
    <3>1. DOMAIN lines = 1 .. Len(lines) /\ Len(lines) \in Nat
      BY LenProperties
    <3>2. IsFiniteSet(1 .. Len(lines))
      BY <3>1, FS_Interval
    <3>3. InstructionLines(lines) \subseteq 1 .. Len(lines)
      BY <3>1 DEF InstructionLines
    <3> QED
      BY <3>1, <3>2, <3>3, FS_Subset
  <2> QED
    BY <1>4, <2>1, FS_AddElement
<1> HIDE DEF more, new
<1> QED
  BY <1>2, <1>3, <1>4, <1>5 DEF Told, more, new

\* after the source switches back to it,
LEMMA SectionTold ==
    ASSUME NEW sec, NEW lines \in Seq(Lines), Told(lines, sec)
    PROVE  Told(Append(lines, SectionLine), sec)
<1>1. SectionLine \in Lines
  BY DEF Lines
<1> DEFINE more == Append(lines, SectionLine)
<1>6. OneMore(lines, SectionLine, more)
  BY <1>1, LineSets
<1> HIDE DEF more
<1>2. /\ InstructionLines(more) = InstructionLines(lines)
      /\ \A name : Declared(more, name) = Declared(lines, name)
      /\ \A name : Declared(lines, name) # {} => Before(more, name) = Before(lines, name)
  BY <1>6, LinesDiffer DEF OneMore
<1> HIDE DEF more
<1> QED
  BY <1>2 DEF Told, more

\* when it is new,
LEMMA EmptyTold == Told(<<>>, EmptySection)
<1>1. InstructionLines(<<>>) = {} /\ \A name : Declared(<<>>, name) = {}
  BY DEF InstructionLines, Declared
<1>2. Cardinality({}) = 0
  BY FS_EmptySet
<1>3. Len(EmptySection.instructions) = 0 /\ DOMAIN EmptySection.labels = {}
  BY DEF EmptySection
<1> QED
  BY <1>1, <1>2, <1>3 DEF Told

\* and after a label, of which the first line counts.
LEMMA LabelTold ==
    ASSUME NEW sec, SectionTyped(sec), NEW lines \in Seq(Lines), Told(lines, sec), NEW name \in STRING
    PROVE  Told(Append(lines, LabelLine(name)),
                [sec EXCEPT !.labels = Insert(@, name, Len(sec.instructions))])
<1> DEFINE more == Append(lines, LabelLine(name))
           new == [sec EXCEPT !.labels = Insert(@, name, Len(sec.instructions))]
<1>1. LabelLine(name) \in Lines
  BY DEF Lines
<1>2. new.instructions = sec.instructions /\ new.labels = Insert(sec.labels, name, Len(sec.instructions))
  BY DEF SectionTyped, Fields
<1>6. OneMore(lines, LabelLine(name), more)
  BY <1>1, LineSets
<1> HIDE DEF more
<1>3. /\ InstructionLines(more) = InstructionLines(lines)
      /\ Declared(more, name) = Declared(lines, name) \cup {Len(lines) + 1}
      /\ \A other : other # name => Declared(more, other) = Declared(lines, other)
      /\ \A other : Declared(lines, other) # {} => Before(more, other) = Before(lines, other)
      /\ Declared(lines, name) = {} => Before(more, name) = InstructionLines(lines)
  BY <1>6, LinesDiffer DEF OneMore
<1>4. /\ DOMAIN new.labels = DOMAIN sec.labels \cup {name}
      /\ \A other \in DOMAIN sec.labels : new.labels[other] = sec.labels[other]
      /\ name \notin DOMAIN sec.labels => new.labels[name] = Len(sec.instructions)
  BY <1>2 DEF Insert
<1> HIDE DEF more, new
<1>5. ASSUME NEW other \in STRING
      PROVE  /\ other \in DOMAIN new.labels <=> Declared(more, other) # {}
             /\ other \in DOMAIN new.labels => new.labels[other] = Cardinality(Before(more, other))
  <2>1. /\ other \in DOMAIN sec.labels <=> Declared(lines, other) # {}
        /\ other \in DOMAIN sec.labels => sec.labels[other] = Cardinality(Before(lines, other))
        /\ Len(sec.instructions) = Cardinality(InstructionLines(lines))
    BY DEF Told
  <2>2. CASE other \in DOMAIN sec.labels
    BY <1>3, <1>4, <2>1, <2>2
  <2>3. CASE other \notin DOMAIN sec.labels /\ other = name
    BY <1>3, <1>4, <2>1, <2>3
  <2>4. CASE other \notin DOMAIN sec.labels /\ other # name
    BY <1>3, <1>4, <2>1, <2>4
  <2> QED
    BY <2>2, <2>3, <2>4
<1> QED
  BY <1>2, <1>3, <1>5 DEF Told, more, new

\* A label that is declared again changes nothing (ast.cpp:39).
LEMMA RepeatedTold ==
    ASSUME NEW sec, SectionTyped(sec), NEW lines \in Seq(Lines), Told(lines, sec), NEW name \in STRING,
           LabelLine(name) \in ToSet(lines)
    PROVE  Told(lines, [sec EXCEPT !.labels = Insert(@, name, Len(sec.instructions))])
<1> DEFINE new == [sec EXCEPT !.labels = Insert(@, name, Len(sec.instructions))]
<1>1. Declared(lines, name) # {}
  BY DEF Declared, ToSet
<1>2. name \in DOMAIN sec.labels
  BY <1>1 DEF Told
<1>3. new.instructions = sec.instructions /\ new.labels = Insert(sec.labels, name, Len(sec.instructions))
  BY DEF SectionTyped, Fields
<1>4. DOMAIN new.labels = DOMAIN sec.labels /\ \A l \in DOMAIN sec.labels : new.labels[l] = sec.labels[l]
  BY <1>2, <1>3 DEF Insert
<1> HIDE DEF new
<1> QED
  BY <1>3, <1>4 DEF Told, new

\* One instruction more comes from one line more,
LEMMA InstructionSaid ==
    ASSUME NEW sec, SectionTyped(sec), NEW lines \in Seq(Operations), Said(lines, sec),
           NEW i \in Instructions, NEW line \in Operations, Becomes(i, line)
    PROVE  Said(Append(lines, line), [sec EXCEPT !.instructions = Append(@, i)])
<1> DEFINE new == [sec EXCEPT !.instructions = Append(@, i)]
           n == Len(lines)
<1>1. new.instructions = Append(sec.instructions, i) /\ sec.instructions \in Seq(Instructions)
  BY DEF SectionTyped, Fields
<1>2. Len(sec.instructions) = n /\ n \in Nat /\ DOMAIN lines = 1 .. n
  BY LenProperties DEF Said
<1>3. /\ Len(Append(lines, line)) = n + 1 /\ Append(lines, line)[n + 1] = line
      /\ DOMAIN Append(lines, line) = 1 .. n + 1
      /\ \A k \in 1 .. n : Append(lines, line)[k] = lines[k]
  BY <1>2
<1>4. /\ Len(new.instructions) = n + 1 /\ new.instructions[n + 1] = i
      /\ \A k \in 1 .. n : new.instructions[k] = sec.instructions[k]
  BY <1>1, <1>2
<1>5. \A k \in 1 .. n : Becomes(sec.instructions[k], lines[k])
  BY <1>2 DEF Said
<1> HIDE DEF new, n
<1>6. ASSUME NEW k \in 1 .. n + 1 PROVE Becomes(new.instructions[k], Append(lines, line)[k])
  <2>1. k \in 1 .. n \/ k = n + 1
    BY <1>2
  <2> QED
    BY <1>3, <1>4, <1>5, <2>1
<1> QED
  BY <1>3, <1>4, <1>6 DEF Said, new

\* and a label changes no instruction.
LEMMA LabelSaid ==
    ASSUME NEW sec, SectionTyped(sec), NEW lines, Said(lines, sec), NEW labels
    PROVE  Said(lines, [sec EXCEPT !.labels = labels])
  BY DEF Said, SectionTyped, Fields

\* The Builder does to a section what it has read (runtimedata.cpp:8).
LEMMA BuilderTells == SourceTyped /\ Placing /\ Layout /\ AsTold /\ Builds => AsTold'
<1> SUFFICES ASSUME SourceTyped, Placing, Layout, AsTold, Builds PROVE AsTold'
  OBVIOUS
<1>1. /\ phase = "building" /\ operation \in Operations /\ SectionsTyped /\ within = current
      /\ DOMAIN listing = ToSet(SectionNames) /\ \A s \in ToSet(SectionNames) : listing[s] \in Seq(Lines)
      /\ DOMAIN told = ToSet(SectionNames) /\ \A s \in ToSet(SectionNames) : told[s] \in Seq(Operations)
      /\ DOMAIN sections \subseteq ToSet(SectionNames)
  <2>1. phase = "building" /\ rest # <<>>
    BY DEF Builds, SwitchSection, DeclareLabel, Assign, DeclareSymbol, AddInstruction, AddInputOutput,
           RejectOperation, Execute, Takes
  <2> QED
    BY <2>1, NextOperation DEF SourceTyped, Placing, Layout, SectionsTyped
<1>2. UNCHANGED <<sections, listing, told>> => AsTold'
  BY DEF AsTold
<1>0. (Crashes \/ Fails) => AsTold'
  BY <1>2 DEF Crashes, Fails, history
<1>3. ASSUME NEW s \in DOMAIN sections, NEW new, NEW lines, NEW ops,
             sections' = [sections EXCEPT ![s] = new],
             listing' = [listing EXCEPT ![s] = lines], told' = [told EXCEPT ![s] = ops],
             Told(lines, new), Said(ops, new)
      PROVE  AsTold'
  <2>1. DOMAIN sections' = DOMAIN sections /\ sections'[s] = new
    BY <1>3
  <2>2. listing'[s] = lines /\ told'[s] = ops
    BY <1>1, <1>3
  <2>3. \A t : t # s => sections'[t] = sections[t] /\ listing'[t] = listing[t] /\ told'[t] = told[t]
    BY <1>1, <1>3
  <2> QED
    BY <1>3, <2>1, <2>2, <2>3 DEF AsTold
<1>9. \A s : told = [told EXCEPT ![s] = told[s]] /\ listing = [listing EXCEPT ![s] = listing[s]]
  BY DEF Placing, SourceTyped
<1>4. ASSUME NEW i \in Instructions, Becomes(i, operation), PushInstruction(i) PROVE AsTold'
  <2>1. CASE /\ current # "none"
             /\ sections' = [sections EXCEPT ![current].instructions = Append(@, i)]
             /\ List(within, InstructionLine)
             /\ told' = [told EXCEPT ![within] = Append(@, operation)]
    <3>1. current \in DOMAIN sections /\ current \in ToSet(SectionNames)
      BY <1>1, <2>1 DEF SectionsTyped
    <3> DEFINE new == [sections[current] EXCEPT !.instructions = Append(@, i)]
    <3>2. Told(Append(listing[current], InstructionLine), new)
      BY <1>1, <3>1, InstructionTold DEF AsTold, SectionsTyped
    <3>3. Said(Append(told[current], operation), new)
      BY <1>1, <1>4, <3>1, InstructionSaid DEF AsTold, SectionsTyped
    <3>4. sections' = [sections EXCEPT ![current] = new]
      BY <2>1
    <3>5. /\ listing' = [listing EXCEPT ![current] = Append(listing[current], InstructionLine)]
          /\ told' = [told EXCEPT ![current] = Append(told[current], operation)]
      BY <1>1, <2>1 DEF List
    <3> HIDE DEF new
    <3> QED
      BY <1>3, <3>1, <3>2, <3>3, <3>4, <3>5
  <2> QED
    BY <1>0, <1>4, <2>1 DEF PushInstruction
<1>5. ASSUME DeclareLabel PROVE AsTold'
  <2>1. CASE /\ current # "none" /\ UNCHANGED told
             /\ sections' = [sections EXCEPT ![current].labels =
                   Insert(@, operation.name, Len(sections[current].instructions))]
             /\ IF LabelLine(operation.name) \in ToSet(listing[within])
                  THEN UNCHANGED listing ELSE List(within, LabelLine(operation.name))
    <3>1. current \in DOMAIN sections /\ current \in ToSet(SectionNames) /\ operation.name \in STRING
      BY <1>1, <1>5, <2>1, Shapes DEF SectionsTyped, DeclareLabel, Takes
    <3> DEFINE new == [sections[current] EXCEPT !.labels = Insert(@, operation.name, Len(sections[current].instructions))]
    <3>2. SectionTyped(sections[current]) /\ Told(listing[current], sections[current]) /\ Said(told[current], sections[current])
      BY <1>1, <3>1 DEF AsTold, SectionsTyped
    <3>3. Said(told[current], new)
      <4> DEFINE labels == Insert(sections[current].labels, operation.name, Len(sections[current].instructions))
      <4>1. Said(told[current], [sections[current] EXCEPT !.labels = labels])
        BY <3>2, LabelSaid
      <4> QED
        BY <4>1
    <3>4. sections' = [sections EXCEPT ![current] = new]
      BY <2>1
    <3>5. told' = [told EXCEPT ![current] = told[current]]
      BY <1>9, <2>1
    <3>6. CASE LabelLine(operation.name) \in ToSet(listing[current])
      <4>1. Told(listing[current], new)
        BY <1>1, <3>1, <3>2, <3>6, RepeatedTold
      <4>2. listing' = [listing EXCEPT ![current] = listing[current]]
        BY <1>1, <1>9, <2>1, <3>6
      <4> HIDE DEF new
      <4> QED
        BY <1>3, <3>1, <3>3, <3>4, <3>5, <4>1, <4>2
    <3>7. CASE LabelLine(operation.name) \notin ToSet(listing[current])
      <4>1. Told(Append(listing[current], LabelLine(operation.name)), new)
        BY <1>1, <3>1, <3>2, LabelTold
      <4>2. listing' = [listing EXCEPT ![current] = Append(listing[current], LabelLine(operation.name))]
        BY <1>1, <2>1, <3>7 DEF List
      <4> HIDE DEF new
      <4> QED
        BY <1>3, <3>1, <3>3, <3>4, <3>5, <4>1, <4>2
    <3> QED
      BY <3>6, <3>7
  <2> QED
    BY <1>0, <1>5, <2>1 DEF DeclareLabel
<1>6. ASSUME SwitchSection PROVE AsTold'
  <2> DEFINE s == operation.name
  <2>1. /\ s \in ToSet(SectionNames)
        /\ sections' = Insert(sections, s, EmptySection)
        /\ listing' = [listing EXCEPT ![s] = Append(listing[s], SectionLine)]
        /\ UNCHANGED told
    BY <1>1, <1>6, Shapes DEF SwitchSection, Execute, Takes, List
  <2>2. CASE s \in DOMAIN sections
    <3>1. sections' = [sections EXCEPT ![s] = sections[s]]
      BY <2>1, <2>2 DEF Insert
    <3>2. Told(Append(listing[s], SectionLine), sections[s]) /\ Said(told[s], sections[s])
      BY <1>1, <2>1, <2>2, SectionTold DEF AsTold
    <3>3. told' = [told EXCEPT ![s] = told[s]]
      BY <1>9, <2>1
    <3> QED
      BY <1>3, <2>1, <2>2, <3>1, <3>2, <3>3
  <2>3. CASE s \notin DOMAIN sections
    <3>1. listing[s] = <<>> /\ told[s] = <<>>
      BY <1>1, <2>1, <2>3 DEF AsTold
    <3>2. Told(Append(<<>>, SectionLine), EmptySection)
      <4>1. <<>> \in Seq(Lines)
        OBVIOUS
      <4> QED
        BY <4>1, EmptyTold, SectionTold
    <3>3. Said(<<>>, EmptySection)
      BY DEF Said, EmptySection
    <3>4. listing'[s] = Append(<<>>, SectionLine) /\ \A t \in DOMAIN listing : t # s => listing'[t] = listing[t]
      BY <1>1, <2>1, <3>1
    <3>5. /\ DOMAIN sections' = DOMAIN sections \cup {s} /\ sections'[s] = EmptySection
          /\ \A t \in DOMAIN sections : sections'[t] = sections[t]
      BY <2>1, <2>3 DEF Insert
    <3> HIDE DEF s
    <3> QED
      BY <1>1, <2>1, <3>1, <3>2, <3>3, <3>4, <3>5 DEF AsTold
  <2> QED
    BY <2>2, <2>3
<1>7. ASSUME AddInstruction PROVE AsTold'
  <2>1. operation.op \in {"plain", "jump"} /\ PushInstruction(operation)
    BY <1>7 DEF AddInstruction, Execute, Takes
  <2>2. Becomes(operation, operation)
    BY <2>1 DEF Becomes
  <2> QED
    BY <1>1, <1>4, <2>1, <2>2, OperationsAreInstructions
<1>8. ASSUME AddInputOutput PROVE AsTold'
  <2>1. Crashes \/ Fails \/ \E i \in Instructions : Becomes(i, operation) /\ PushInstruction(i)
    BY <1>1, <1>8, InputOutputIsInstruction
  <2> QED
    BY <1>0, <1>4, <2>1
<1>10. ASSUME Assign \/ DeclareSymbol \/ RejectOperation PROVE AsTold'
  BY <1>0, <1>2, <1>10 DEF Assign, DeclareSymbol, RejectOperation, history
<1> QED
  BY <1>5, <1>6, <1>7, <1>8, <1>10 DEF Builds

\* The Generator changes no label and no instruction.
LEMMA GeneratorTells == Layout /\ AsTold /\ Generates => AsTold'
<1> SUFFICES ASSUME Layout, AsTold, Generates PROVE AsTold'
  OBVIOUS
<1>1. /\ UNCHANGED <<listing, told>> /\ DOMAIN sections' = DOMAIN sections
      /\ \A s \in DOMAIN sections : /\ sections'[s].instructions = sections[s].instructions
                                    /\ sections'[s].labels = sections[s].labels
  <2>1. CASE EndBuild \/ StartSection \/ FinishSection \/ WriteFile
    BY <2>1 DEF EndBuild, StartSection, FinishSection, WriteFile, Stop, source, history
  <2>2. CASE GenerateInstruction
    <3>1. \A s \in DOMAIN sections : DOMAIN sections[s] = Fields
      BY DEF Layout, SectionsTyped, SectionTyped
    <3> DEFINE section == sections[current]
               next == Len(section.instruction_adresses) + 1
               offset == current_offset - section_offset
               generated == Generate(section.instructions[next], assignments, offset)
    <3>2. UNCHANGED <<listing, told>>
      BY <2>2 DEF GenerateInstruction, Stop, source, history
    <3>3. \/ UNCHANGED sections
          \/ sections' = [sections EXCEPT
                 ![current].instruction_adresses = Append(@, offset),
                 ![current].replace_entries = @ \cup generated.entries]
      BY <2>2 DEF GenerateInstruction, Stop
    <3> HIDE DEF offset, generated
    <3> QED
      BY <3>1, <3>2, <3>3 DEF Fields
  <2> QED
    BY <2>1, <2>2 DEF Generates
<1> QED
  BY <1>1 DEF AsTold, Told, Said

\* The labels and the instructions of a section are those of its lines,
\* across switches of the section (runtimedata.cpp:8).
THEOREM AsToldInvariance == Spec => []AsTold
<1>1. Init => AsTold
  <2> SUFFICES ASSUME Init PROVE AsTold
    OBVIOUS
  <2>1. /\ sections = <<>> /\ listing = [s \in ToSet(SectionNames) |-> <<>>]
        /\ told = [s \in ToSet(SectionNames) |-> <<>>]
    BY DEF Init
  <2>2. DOMAIN sections = {}
    BY <2>1
  <2> QED
    BY <2>1, <2>2 DEF AsTold
<1>2. SourceTyped /\ Placing /\ Layout /\ AsTold /\ [Next]_vars => AsTold'
  <2>1. AsTold /\ UNCHANGED vars => AsTold'
    BY DEF AsTold, vars, history
  <2> QED
    BY <2>1, BuilderTells, GeneratorTells DEF Next, Builds, Generates
<1> QED
  BY <1>1, <1>2, BooksInvariance, LayoutInvariance, PTL DEF Spec

\* The first byte of an instruction is an opcode that its line means.
LEMMA FirstByte ==
    ASSUME NEW i \in Instructions, NEW line, Becomes(i, line), NEW data, NEW offset,
           Generate(i, data, offset).status = "ok"
    PROVE  \E name \in OpcodesMeant(line) : Generate(i, data, offset).bytes[1] = Opcode(name)
<1>1. i.op \in {"plain", "jump", "io"} /\ line.op = i.op
  BY DEF Instructions, Becomes
<1>2. CASE i.op = "plain"
  <2>1. Generate(i, data, offset).bytes = <<Opcode("plain")>>
    BY <1>2 DEF Generate, Generated
  <2>2. OpcodesMeant(line) = {"plain"}
    BY <1>1, <1>2 DEF OpcodesMeant
  <2> QED
    BY <2>1, <2>2
<1>3. CASE i.op = "jump"
  <2>1. line = i /\ Generate(i, data, offset) = Jump(i, offset)
    BY <1>1, <1>3 DEF Becomes, Generate
  <2> DEFINE ax == i.destination.type = "Name" /\ i.destination.value = "ax"
  <2>2. OpcodesMeant(line) = IF ax THEN {"JMP_ax"} ELSE {i.condition}
    BY <1>3, <2>1 DEF OpcodesMeant
  <2>3. Jump(i, offset).bytes[1] = IF ax THEN Opcode("JMP_ax") ELSE Opcode(i.condition)
    BY <2>1 DEF Jump, Generated, GeneratedFor, Not
  <2> HIDE DEF ax
  <2> QED
    BY <2>1, <2>2, <2>3
<1>4. CASE i.op = "io"
  <2>1. /\ line.kind = i.kind /\ line.size = i.size /\ i.kind \in {"IN", "OUT"}
        /\ Generate(i, data, offset) = InputOutput(i, data)
    BY <1>1, <1>4 DEF Becomes, Generate, Instructions
  <2> DEFINE Sized(wide, narrow) == IF i.size = 16 THEN wide ELSE narrow
  <2>2. OpcodesMeant(line) = IF i.kind = "IN" THEN {Sized("IN_ax", "IN_al")}
                             ELSE {Sized("OUT_ax", "OUT_al"), Sized("OUT16", "OUT8")}
    BY <1>1, <1>4, <2>1 DEF OpcodesMeant
  <2>3. \/ InputOutput(i, data).bytes[1] = Opcode(IF i.kind = "IN" THEN Sized("IN_ax", "IN_al")
                                                 ELSE Sized("OUT_ax", "OUT_al"))
        \/ i.kind # "IN" /\ InputOutput(i, data).bytes[1] = Opcode(Sized("OUT16", "OUT8"))
    BY <2>1 DEF InputOutput, Generated, Not
  <2> HIDE DEF Sized
  <2> QED
    BY <2>1, <2>2, <2>3
<1> QED
  BY <1>1, <1>2, <1>3, <1>4

\* In an object file the instructions of every section are those of its source
\* lines, in order, each at its address and with an opcode its line means
\* (generator.cpp:31, runtimedata.cpp:8, 71), whatever the source.
THEOREM InstructionsAlwaysInPlace == Spec => []InstructionsInPlace
<1>1. Placing /\ Layout /\ AsTold => InstructionsInPlace
  <2> SUFFICES ASSUME Placing, Layout, AsTold, IsObject, NEW s \in ToSet(SectionNames)
               PROVE  LET addresses == IF s \in DOMAIN sections
                                       THEN sections[s].instruction_adresses ELSE <<>>
                      IN  /\ DOMAIN addresses = DOMAIN told[s]
                          /\ \A i \in DOMAIN addresses :
                                InFile(s, addresses[i]) \in
                                    {Opcode(name) : name \in OpcodesMeant(told[s][i])}
    BY DEF InstructionsInPlace
  <2>1. CASE s \notin DOMAIN sections
    <3>1. told[s] = <<>>
      BY <2>1 DEF AsTold
    <3> QED
      BY <2>1, <3>1
  <2>2. CASE s \in DOMAIN sections
    <3> DEFINE sec == sections[s]
    <3>1. /\ DOMAIN sec.instruction_adresses = 1 .. Len(sec.instructions)
          /\ DOMAIN sec.instructions = 1 .. Len(sec.instructions)
          /\ sec.instructions \in Seq(Instructions)
      BY <2>2, ObjectIsComplete DEF SectionTyped
    <3>2. Said(told[s], sec) /\ told[s] \in Seq(Operations)
      BY <2>2 DEF AsTold, Placing
    <3>3. DOMAIN told[s] = 1 .. Len(sec.instructions)
      BY <3>2, LenProperties DEF Said
    <3>4. ASSUME NEW i \in DOMAIN sec.instruction_adresses
          PROVE  InFile(s, sec.instruction_adresses[i]) \in {Opcode(name) : name \in OpcodesMeant(told[s][i])}
      <4> DEFINE a == sec.instruction_adresses[i]
                 g == Generate(sec.instructions[i], assignments, a)
      <4>1. InFile(s, a) = g.bytes[1] /\ Len(g.bytes) \in {1, 2, 3}
        BY <2>2, InObject DEF Shaped, Emission
      <4>2. g.status = "ok"
        <5>1. g.status # "ok" => g.bytes = <<>>
          BY DEF Generate, Jump, InputOutput, Generated, GeneratedFor, Not
        <5> HIDE DEF g
        <5> QED
          BY <4>1, <5>1
      <4>3. sec.instructions[i] \in Instructions /\ Becomes(sec.instructions[i], told[s][i])
        BY <3>1, <3>2, <3>3 DEF Said
      <4> QED
        BY <4>1, <4>2, <4>3, FirstByte
    <3> QED
      BY <2>2, <3>1, <3>3, <3>4
  <2> QED
    BY <2>1, <2>2
<1> QED
  BY <1>1, BooksInvariance, LayoutInvariance, AsToldInvariance, PTL

-----------------------------------------------------------------------------
(* Jumps.                                                                     *)

\* A byte that is the distance but for whole bytes is as good as the distance,
\* as far as a signed byte reaches (Executor.cpp:45).
LEMMA Reaches ==
    ASSUME NEW a \in Int, NEW t \in Int, NEW v \in Int, NEW q \in Int,
           v = (t - a) + Byte * q, t - a \in -Half .. Half - 1
    PROVE  Landing(a, v % Byte) = t
<1>1. Byte = Half + Half /\ Byte \in Nat \ {0} /\ Half \in Nat \ {0}
  BY SizesOfBytes DEF Byte
<1>2. CASE t - a >= 0
  <2>1. t - a \in 0 .. Byte - 1
    BY <1>1, <1>2
  <2>2. (Byte * q + (t - a)) % Byte = t - a
    BY <1>1, <2>1, RemainderIs
  <2>3. v = Byte * q + (t - a)
    BY <1>1
  <2>4. v % Byte = t - a
    BY <2>2, <2>3
  <2>5. (Byte * 0 + (t - a)) % Byte = t - a
    BY <1>1, <2>1, RemainderIs
  <2>6. Byte * 0 + (t - a) = t - a
    BY <1>1
  <2>7. (v % Byte) % Byte = t - a
    BY <2>4, <2>5, <2>6
  <2>8. Signed(v % Byte) = t - a
    BY <1>1, <2>7 DEF Signed
  <2> QED
    BY <2>8 DEF Landing
<1>3. CASE t - a < 0
  <2> DEFINE r == (t - a) + Byte
  <2>1. r \in 0 .. Byte - 1 /\ r >= Half
    BY <1>1, <1>3
  <2>2. q - 1 \in Int /\ v = Byte * (q - 1) + r
    BY <1>1
  <2> HIDE DEF r
  <2>3. (Byte * (q - 1) + r) % Byte = r
    BY <1>1, <2>1, <2>2, RemainderIs
  <2>4. v % Byte = r
    BY <2>2, <2>3
  <2>5. (Byte * 0 + r) % Byte = r
    BY <1>1, <2>1, RemainderIs
  <2>6. Byte * 0 + r = r
    BY <1>1, <2>1
  <2>7. (v % Byte) % Byte = r
    BY <2>4, <2>5, <2>6
  <2>8. Signed(v % Byte) = r - Byte
    BY <1>1, <2>1, <2>7 DEF Signed
  <2>9. Signed(v % Byte) = t - a
    BY <1>1, <2>8 DEF r
  <2> QED
    BY <2>9 DEF Landing
<1> QED
  BY <1>2, <1>3

\* Words are whole bytes.
LEMMA Factored == \A b, p, q \in Int : b * p - (b * b) * q = b * (p - b * q)
  OBVIOUS

\* The distance to a number, taken in two widths, is the distance but for bytes.
LEMMA DistanceToNumber ==
    ASSUME NEW a \in Nat, NEW t \in Nat
    PROVE  \E q \in Int : ((t % Word) - Signed(a)) % Word = (t - a) + Byte * q
<1> DEFINE d == ((t % Word) - Signed(a)) % Word
<1>1. Byte \in Nat \ {0} /\ Word \in Nat \ {0} /\ Word = Byte * Byte
  BY SizesOfBytes DEF Word
<1>0. Byte \in Nat \ {0} /\ Word \in Nat \ {0} /\ t \in Int /\ a \in Int
  BY SizesOfBytes
<1>2. PICK p \in Int : t = Word * p + (t % Word)
  BY <1>0, Remainder
<1>3. PICK r \in Int : a = Byte * r + Signed(a)
  <2>1. PICK r \in Int : a = Byte * r + (a % Byte)
    BY <1>0, Remainder
  <2>2. a % Byte \in 0 .. Byte - 1
    BY <1>1, Remainder
  <2>3. CASE (a % Byte) >= Half
    <3>1. Signed(a) = (a % Byte) - Byte
      BY <2>3 DEF Signed
    <3>2. Byte * (r + 1) = Byte * r + Byte
      BY <1>1
    <3>3. a = Byte * (r + 1) + Signed(a) /\ r + 1 \in Int
      BY <1>1, <2>1, <2>2, <3>1, <3>2
    <3> QED
      BY <3>3
  <2>4. CASE ~((a % Byte) >= Half)
    BY <2>1, <2>4 DEF Signed
  <2> QED
    BY <2>3, <2>4
<1>4. Signed(a) \in Int /\ t % Word \in Int
  BY <1>1, SignedBytes, SizesOfBytes
<1>5. PICK s \in Int : (t % Word) - Signed(a) = Word * s + d
  <2> DEFINE x == (t % Word) - Signed(a)
  <2>1. x \in Int
    BY <1>4
  <2> HIDE DEF x
  <2>2. \E s \in Int : x = Word * s + (x % Word)
    BY <1>0, <2>1, Remainder
  <2> QED
    BY <2>2 DEF x
<1>6. d \in Int
  BY <1>1, <1>4, Remainder
<1> HIDE DEF d
<1>7. d = (t - a) + (Byte * r - Word * (p + s))
  <2>1. Word * (p + s) = Word * p + Word * s
    BY <1>1
  <2>2. Word * p \in Int /\ Word * s \in Int /\ Byte * r \in Int
    BY <1>1
  <2> QED
    BY <1>2, <1>3, <1>4, <1>5, <1>6, <2>1, <2>2
<1>8. Byte * r - Word * (p + s) = Byte * (r - Byte * (p + s))
  BY <1>1, Factored
<1>9. r - Byte * (p + s) \in Int
  BY <1>1
<1> QED
  BY <1>7, <1>8, <1>9 DEF d

\* What a conditional jump becomes when it becomes bytes.
LEMMA ConditionalJump ==
    ASSUME NEW i \in Instructions, i.op = "jump", i.condition # "JMP", NEW a \in Nat,
           Shaped(Jump(i, a), a)
    PROVE  /\ i.destination \in Operands
           /\ i.destination.type = "Number" =>
                /\ Jump(i, a).entries = {} /\ Len(Jump(i, a).bytes) = 2
                /\ Jump(i, a).bytes[2] = Data(((i.destination.value % Word) - Signed(a)) % Word)
           /\ i.destination.type = "Name" /\ i.destination.value # "ax" =>
                Jump(i, a).entries = {<<a + 1, i.destination.value>>}
<1>1. i.destination \in Operands
  BY DEF Instructions
<1> DEFINE to == i.destination
           distance == (ResolveOperand(to, a) - Signed(a)) % Word
           bytes == <<Opcode(i.condition), Data(distance)>>
<1>2. CASE to.type = "Number"
  <2>1. Jump(i, a) = IF distance >= Byte THEN Not("failed") ELSE Generated(bytes)
    BY <1>2 DEF Jump
  <2>2. Jump(i, a) # Not("failed")
    BY DEF Shaped, Not
  <2>3. Jump(i, a) = Generated(bytes)
    BY <2>1, <2>2
  <2>4. distance = ((to.value % Word) - Signed(a)) % Word
    BY <1>2 DEF ResolveOperand
  <2> HIDE DEF distance
  <2>5. Jump(i, a).entries = {} /\ Jump(i, a).bytes = bytes
    BY <2>3 DEF Generated
  <2>6. Len(bytes) = 2 /\ bytes[2] = Data(distance)
    OBVIOUS
  <2> QED
    BY <1>1, <1>2, <2>4, <2>5, <2>6
<1>3. CASE to.type = "Name" /\ to.value # "ax"
  <2>1. Jump(i, a) = IF distance >= Byte THEN Not("failed") ELSE GeneratedFor(bytes, a, to.value)
    BY <1>3 DEF Jump
  <2>2. Jump(i, a) # Not("failed")
    BY DEF Shaped, Not
  <2>3. Jump(i, a) = GeneratedFor(bytes, a, to.value)
    BY <2>1, <2>2
  <2> QED
    BY <1>1, <1>3, <2>3 DEF GeneratedFor
<1>4. CASE to.type \notin {"Number", "Name"} \/ (to.type = "Name" /\ to.value = "ax")
  BY <1>1, <1>4
<1> QED
  BY <1>2, <1>3, <1>4

\* A jump to a label goes to the instruction behind its first line.
LEMMA LabelIsTarget ==
    ASSUME AsTold, Layout, NEW s \in DOMAIN sections, NEW to, to.type = "Name", to.value \in STRING,
           NEW t \in TargetAddresses(s, to), NEW beyond,
           sections[s].instruction_adresses \in Seq(Nat)
    PROVE  LabelAddress(sections[s], to.value, beyond) = t /\ t \in Nat
<1> DEFINE sec == sections[s]
           name == to.value
           adr == sec.instruction_adresses
           c == Cardinality(Before(listing[s], name))
<1>1. t \in {adr[i] : i \in {c + 1} \cap DOMAIN adr}
  BY DEF TargetAddresses, Before, Declared
<1>2. c + 1 \in DOMAIN adr /\ t = adr[c + 1]
  BY <1>1
<1>3. Told(listing[s], sec)
  BY DEF AsTold
<1>4. (IF name \in DOMAIN sec.labels THEN sec.labels[name] ELSE 0) = c
  <2>1. CASE name \in DOMAIN sec.labels
    BY <1>3, <2>1 DEF Told
  <2>2. CASE name \notin DOMAIN sec.labels
    <3>1. Declared(listing[s], name) = {}
      BY <1>3, <2>2 DEF Told
    <3>2. Before(listing[s], name) = {}
      BY <3>1 DEF Before
    <3> QED
      BY <2>2, <3>2, FS_EmptySet
  <2> QED
    BY <2>1, <2>2
<1>5. c \in Nat
  <2>1. CASE name \in DOMAIN sec.labels
    BY <1>4, <2>1 DEF Layout, SectionsTyped, SectionTyped
  <2> QED
    BY <1>4, <2>1
<1> HIDE DEF c
<1>6. c < Len(adr)
  BY <1>2, <1>5
<1> QED
  BY <1>2, <1>4, <1>6 DEF LabelAddress

\* Every conditional jump in reach of its target lands on it (opcodes.cpp:32,
\* runtimedata.cpp:79, Executor.cpp:45), whatever the source.
THEOREM NearJumpsAlwaysArrive == Spec => []NearJumpsArrive
<1>1. Layout /\ AsTold => NearJumpsArrive
  <2> SUFFICES ASSUME Layout, AsTold, IsObject, NEW s \in DOMAIN sections, NEW i \in DOMAIN sections[s].instructions,
                      sections[s].instructions[i].op = "jump", sections[s].instructions[i].condition # "JMP",
                      NEW t \in TargetAddresses(s, sections[s].instructions[i].destination),
                      t - sections[s].instruction_adresses[i] \in -Half .. Half - 1
               PROVE  Landing(sections[s].instruction_adresses[i],
                              InFile(s, sections[s].instruction_adresses[i] + 1).data) = t
    BY DEF NearJumpsArrive
  <2> DEFINE sec == sections[s]
             jump == sec.instructions[i]
             to == jump.destination
             a == sec.instruction_adresses[i]
             e == Emission(sec, assignments, i)
  <2>1. i \in DOMAIN sec.instruction_adresses /\ jump \in Instructions /\ sec.instruction_adresses \in Seq(Nat)
    <3>1. sec.instructions \in Seq(Instructions)
      BY ObjectIsComplete DEF SectionTyped
    <3>2. PICK end \in Nat : Chained(sec, assignments, end)
      BY ObjectIsComplete
    <3>3. DOMAIN sec.instruction_adresses = DOMAIN sec.instructions
      BY ObjectIsComplete
    <3> QED
      BY <3>1, <3>2, <3>3 DEF Chained
  <2>2. /\ a \in Nat /\ Shaped(e, a)
        /\ e.entries = {} /\ Len(e.bytes) # 1 => InFile(s, a + 1) = e.bytes[2]
        /\ \A x \in e.entries : \E beyond \in 0 .. Byte - 1 :
              InFile(s, a + 1) = Data(LabelAddress(sec, x[2], beyond) - x[1] + 1)
    BY <2>1, InObject
  <2>3. e = Jump(jump, a)
    BY DEF Emission, Generate
  <2>4. /\ to \in Operands
        /\ to.type = "Number" =>
             /\ e.entries = {} /\ Len(e.bytes) = 2
             /\ e.bytes[2] = Data(((to.value % Word) - Signed(a)) % Word)
        /\ to.type = "Name" /\ to.value # "ax" => e.entries = {<<a + 1, to.value>>}
    BY <2>1, <2>2, <2>3, ConditionalJump
  <2>5. t \in TargetAddresses(s, to) /\ t - a \in -Half .. Half - 1
    OBVIOUS
  <2> HIDE DEF e, a, to
  <2>6. CASE to.type = "Number"
    <3>1. t = to.value /\ t \in Nat
      BY <2>4, <2>5, <2>6, Operand DEF TargetAddresses
    <3> DEFINE v == ((t % Word) - Signed(a)) % Word
    <3>2. InFile(s, a + 1).data = v % Byte
      BY <2>2, <2>4, <2>6, <3>1 DEF Data
    <3>3. PICK q \in Int : v = (t - a) + Byte * q
      BY <2>2, <3>1, DistanceToNumber
    <3>4. v \in Int
      BY <2>2, <3>1, <3>3, SizesOfBytes
    <3> HIDE DEF v
    <3>5. Landing(a, v % Byte) = t
      BY <2>2, <2>5, <3>1, <3>3, <3>4, Reaches
    <3> QED
      BY <3>2, <3>5 DEF a
  <2>7. CASE to.type = "Name" /\ to.value # "ax"
    <3>1. PICK beyond \in 0 .. Byte - 1 : InFile(s, a + 1) = Data(LabelAddress(sec, to.value, beyond) - (a + 1) + 1)
      <4>1. <<a + 1, to.value>> \in e.entries
        BY <2>4, <2>7
      <4> QED
        BY <2>2, <4>1
    <3>2. to.value \in STRING
      BY <2>4, <2>7 DEF Operands
    <3>3. LabelAddress(sec, to.value, beyond) = t /\ t \in Nat
      BY <2>1, <2>5, <2>7, <3>2, LabelIsTarget
    <3> DEFINE v == t - (a + 1) + 1
    <3>4. InFile(s, a + 1).data = v % Byte
      BY <3>1, <3>3 DEF Data
    <3>5. v = (t - a) + Byte * 0 /\ v \in Int
      BY <2>2, <3>3, SizesOfBytes
    <3> HIDE DEF v
    <3>6. Landing(a, v % Byte) = t
      BY <2>2, <2>5, <3>3, <3>5, Reaches
    <3> QED
      BY <3>4, <3>6 DEF a
  <2>8. CASE ~(to.type = "Number") /\ ~(to.type = "Name" /\ to.value # "ax")
    BY <2>5, <2>8 DEF TargetAddresses
  <2> QED
    BY <2>6, <2>7, <2>8
<1> QED
  BY <1>1, LayoutInvariance, AsToldInvariance, PTL

=============================================================================
