--------------------------- MODULE AssemblerParser ---------------------------
(* The parser of toolchain/compiler/asm: alternatives tried in a fixed order *)
(* over the tokens of the lexer, with the position set back after each that  *)
(* fails; one step for each pass of its loops.                               *)
(*                                                                           *)
(* A node of the tree names the tokens it takes its names and values from by *)
(* their positions.                                                          *)
EXTENDS AssemblerLexer

VARIABLES
    index,      \* m_index, counted from 1
    members     \* the operations of the block

\* While an operation gets its operands, `phase` is "operands".

Numbers == {"DecNumber", "HexNumber"}

-----------------------------------------------------------------------------
(* Each parser is an operator from the position it starts at.               *)

\* Tokens of these types stand at p and after it.
Match(p, types) ==
    /\ p + Len(types) - 1 <= Len(tokens)
    /\ \A i \in DOMAIN types : tokens[p + i - 1].type \in types[i]

SkipNewLines(p) ==
    CHOOSE q \in p..Len(tokens)+1 :
        /\ ~Match(q, <<{"NewLine"}>>)
        /\ \A r \in p..q-1 : tokens[r].type = "NewLine"

Operand(kind, uses, next) == [kind |-> kind, uses |-> uses, next |-> next]

\* Mutant: a name is taken as such before an offset is looked for.
parse_address_operand_name_first(p) ==
    IF Match(p, <<{"BraceOpen"}, {"Name"} \cup Numbers, {"BraceClose"}>>) THEN 3 ELSE 0

\* How many tokens at p are an operand of this kind; 0 for none.
parse_address_operand(p) ==
    IF Match(p, <<{"BraceOpen"}, {"Name"}, {"Add", "Subtract"}, Numbers, {"BraceClose"}>>)
    THEN 5
    ELSE IF Match(p, <<{"BraceOpen"}, {"Name"} \cup Numbers, {"BraceClose"}>>)
    THEN 3 ELSE 0

parse_section_operand(p) == IF Match(p, <<{"Dot"}, {"Name"}>>) THEN 2 ELSE 0

\* Mutant: any token is the name of a handler.
parse_isr_operand_any_token(p) ==
    IF Match(p, <<{"Hash"}>>) /\ p < Len(tokens) THEN 2 ELSE 0
parse_isr_operand(p) == IF Match(p, <<{"Hash"}, {"Name"}>>) THEN 2 ELSE 0

\* Never null: without an operand, an invalid one that takes no token.
parse_operand(p) ==
    IF parse_address_operand(p) = 5
    THEN Operand("Relative", <<p + 1, p + 3>>, p + 5)
    ELSE IF parse_address_operand(p) = 3
    THEN Operand("Address", <<p + 1>>, p + 3)
    ELSE IF parse_section_operand(p) > 0
    THEN Operand("Section", <<p + 1>>, p + 2)
    ELSE IF parse_isr_operand(p) > 0
    THEN Operand("ISR", <<p + 1>>, p + 2)
    ELSE IF Match(p, <<Numbers \cup {"Name", "String"}>>)
    THEN Operand(tokens[p].type, <<p>>, p + 1)
    ELSE Operand("Invalid", <<>>, p)

-----------------------------------------------------------------------------
(* parse_operation: the first alternative that the tokens at p allow.        *)

IsAssignment(p) == Match(p, <<{"Name"}, {"Assignment"}>>)
IsDirective(p) == Match(p, <<{"Dot"}, {"Name"}>>)
IsLabel(p) == Match(p, <<{"Name"}, {"Colon"}>>)
IsInstruction(p) == Match(p, <<{"Name"}>>) /\ ~IsAssignment(p) /\ ~IsLabel(p)

Node(node, name, operands) == [node |-> node, name |-> name, operands |-> operands]

\* An operation is read as a whole, and the line ends behind it are skipped.
Push_operation(operation, next) ==
    /\ members' = Append(members, operation)
    /\ index' = SkipNewLines(next)
    /\ UNCHANGED <<stream, tokens, phase>>

parse_assignment(p) ==
    LET operand == parse_operand(p + 2)
    IN  IsAssignment(p) /\ Push_operation(Node("Assignment", p, <<operand>>), operand.next)

parse_label(p) == IsLabel(p) /\ Push_operation(Node("Label", p, <<>>), p + 2)

\* A mnemonic at p.  Its operands are read next, unless its line ends.
WithOperands(node, p) ==
    IF Match(p + 1, <<{"NewLine"}>>) THEN Push_operation(Node(node, p, <<>>), p + 1)
    ELSE /\ members' = Append(members, Node(node, p, <<>>))
         /\ index' = p + 1
         /\ phase' = "operands"
         /\ UNCHANGED <<stream, tokens>>

parse_directive(p) == IsDirective(p) /\ WithOperands("Directive", p + 1)
parse_instruction(p) == IsInstruction(p) /\ WithOperands("Instruction", p)

-----------------------------------------------------------------------------
(* parse_block: the loop over the operations of a file; and the loop over    *)
(* the operands of one.                                                      *)

ParseOperation ==
    LET p == SkipNewLines(index)
    IN  /\ phase = "parsing"
        /\ \/ parse_assignment(p)
           \/ parse_directive(p)
           \/ parse_label(p)
           \/ parse_instruction(p)

AddOperand(operand) ==
    members' = [members EXCEPT ![Len(members)].operands = Append(@, operand)]

\* Mutant: the token behind the operands is dropped.
ParseOperand_one_more ==
    LET operand == parse_operand(index)
    IN  /\ phase = "operands"
        /\ AddOperand(operand)
        /\ IF Match(operand.next, <<{"Comma"}>>)
           THEN index' = operand.next + 1 /\ UNCHANGED phase
           ELSE /\ index' = SkipNewLines(operand.next
                                + IF operand.next > Len(tokens) THEN 0 ELSE 1)
                /\ phase' = "parsing"
        /\ UNCHANGED <<stream, tokens>>

\* The last operand is one that no comma follows.  The line end behind it is
\* skipped if there is one.
ParseOperand ==
    LET operand == parse_operand(index)
    IN  /\ phase = "operands"
        /\ AddOperand(operand)
        /\ IF Match(operand.next, <<{"Comma"}>>)
           THEN index' = operand.next + 1 /\ UNCHANGED phase
           ELSE index' = SkipNewLines(operand.next) /\ phase' = "parsing"
        /\ UNCHANGED <<stream, tokens>>

RejectOperation ==
    LET p == SkipNewLines(index)
    IN  /\ phase = "parsing"
        /\ p <= Len(tokens)
        /\ ~(IsAssignment(p) \/ IsDirective(p) \/ IsLabel(p) \/ IsInstruction(p))
        /\ phase' = "error"
        /\ UNCHANGED <<stream, tokens, index, members>>

\* Mutant: the end is looked for before line ends are skipped.
EndBlock_before_new_lines ==
    /\ phase = "parsing"
    /\ index > Len(tokens)
    /\ phase' = "done"
    /\ UNCHANGED <<stream, tokens, index, members>>

EndBlock ==
    /\ phase = "parsing"
    /\ SkipNewLines(index) > Len(tokens)
    /\ phase' = "done"
    /\ UNCHANGED <<stream, tokens, index, members>>

parse_block == ParseOperation \/ ParseOperand \/ RejectOperation \/ EndBlock

=============================================================================
