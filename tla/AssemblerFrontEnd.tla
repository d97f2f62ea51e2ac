-------------------------- MODULE AssemblerFrontEnd --------------------------
(* assemble_to_obj of the toolchain up to the tree of a source: the text is  *)
(* split into tokens, all of them, and then the tokens are parsed.           *)
EXTENDS AssemblerParser

CONSTANTS
    Sources     \* sets of texts, with the operations they were written from

ASSUME SourcesAssumption ==
    \A sources \in Sources : \A source \in sources :
        DOMAIN source = {"text", "meant"} /\ source.text \in Seq(STRING)

VARIABLES
    meant       \* history: the operations the source was written from, if known

vars == <<stream, tokens, index, members, phase, meant>>

Init ==
    /\ \E sources \in Sources : \E source \in sources :
          stream = Begin(source.text) /\ meant = source.meant
    /\ tokens = <<>>
    /\ index = 1
    /\ members = <<>>
    /\ phase = "lexing"

assemble_to_obj ==
    /\ \/ Lex /\ UNCHANGED <<index, members>>
       \/ parse_block
    /\ UNCHANGED meant

\* A conversion runs to its end; nothing else runs.
Spec == Init /\ [][assemble_to_obj]_vars /\ WF_vars(assemble_to_obj)

-----------------------------------------------------------------------------
(* Properties of the lexer.                                                  *)

\* The characters of the comment that opens at p, if one does.
CommentAt(p) ==
    IF p <= Len(stream.text) /\ stream.text[p] = ";"
    THEN {q \in p..Len(stream.text) : \A r \in p..q : stream.text[r] # "\n"}
    ELSE {}

\* The characters of a token, with those its value leaves out.
Extent(token) ==
    IF token.type = "HexNumber" THEN token.from - 2..token.to ELSE token.from..token.to

\* The last line of a source ends.
LinesEnd == stream.text = <<>> \/ stream.text[Len(stream.text)] = "\n"

\* What is taken from the text is white space, the one token that is added, or
\* a comment as a whole.
Accounts ==
    LET added == UNION {Extent(tokens'[i]) : i \in Len(tokens) + 1..Len(tokens')}
        taken == stream.pos + 1..stream'.pos
    IN  /\ CommentAt(stream.pos + 1) \subseteq taken
        /\ added \subseteq taken \ CommentAt(stream.pos + 1)
        /\ \A p \in taken \ (added \cup CommentAt(stream.pos + 1)) :
              stream.text[p] \in Spaces

\* No pass of the loop drops a character of the text, none uses one twice, and
\* nothing in a comment becomes a token.
TextAccountedFor == [][LinesEnd /\ phase = "lexing" => Accounts]_vars

-----------------------------------------------------------------------------
(* Properties of the parser.                                                 *)

\* The positions of the tokens an operation takes a name or values from: those
\* of its own name, and then of each of its operands.
Positions(operation, i) ==
    IF i = 0 THEN {operation.name}
    ELSE {operation.operands[i].uses[j] : j \in DOMAIN operation.operands[i].uses}
Uses(operation) == UNION {Positions(operation, i) : i \in 0..Len(operation.operands)}

Precede(S, T) == \A p \in S, q \in T : p < q

\* Whatever alternatives were tried and given up, every name, number and
\* string of the source before the position is part of one operation, in the
\* order of the source; none is lost, and none is used twice.
ValuesUsedOnce ==
    /\ UNION {Uses(members[m]) : m \in DOMAIN members} =
          {p \in 1..index - 1 : tokens[p].type \in Numbers \cup {"Name", "String"}}
    /\ \A m, n \in DOMAIN members : m < n => Precede(Uses(members[m]), Uses(members[n]))
    /\ \A m \in DOMAIN members : \A i, j \in 0..Len(members[m].operands) :
          i < j => Precede(Positions(members[m], i), Positions(members[m], j))
    /\ \A m \in DOMAIN members : \A i \in DOMAIN members[m].operands :
          LET uses == members[m].operands[i].uses
          IN  \A j, k \in DOMAIN uses : j < k => uses[j] < uses[k]

\* No operation goes on in the next line: its tokens have no line end among
\* them, even behind a comma or an assignment without a value.
OperationsWithinLines ==
    \A m \in DOMAIN members : \A q \in Uses(members[m]) :
        \A p \in members[m].name..q : tokens[p].type # "NewLine"

-----------------------------------------------------------------------------
(* Properties of both.                                                       *)

Shape(operation) ==
    <<operation.node, [i \in DOMAIN operation.operands |-> operation.operands[i].kind]>>

\* A source written from operations is read as the same operations with the
\* same kinds of operands: no alternative takes what is meant for a later one.
ReadsAsMeant ==
    \A shapes \in meant :
        /\ phase # "error"
        /\ phase = "done" => shapes = [m \in DOMAIN members |-> Shape(members[m])]

\* Every text is converted or refused (parser.cpp:351, lexer.cpp:119): each
\* loop takes a token or a character in every pass, though an operand may take
\* none.
ConversionEnds == LinesEnd => <>(phase \in {"done", "error"})

=============================================================================
