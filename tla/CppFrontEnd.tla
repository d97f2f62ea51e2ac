----------------------------- MODULE CppFrontEnd -----------------------------
(* compile_to_asm of the toolchain: the text of a unit is split into tokens, *)
(* all of them, and then the tokens are parsed.                              *)
EXTENDS CppParser, FiniteSets

CONSTANTS
    Sources     \* sets of texts, with the declarations they were written from

VARIABLES
    meant       \* history: the trees the unit was written from, if known

vars == <<stream, tokens, index, members, phase, meant>>

Init ==
    /\ \E sources \in Sources : \E source \in sources :
          stream = Stream(source.text) /\ meant = source.meant
    /\ tokens = <<>>
    /\ index = 1
    /\ members = <<>>
    /\ phase = "lexing"

compile_to_asm ==
    /\ \/ Lex /\ UNCHANGED <<index, members>>
       \/ Parse
    /\ UNCHANGED meant

\* A conversion runs to its end; nothing else runs.
Spec == Init /\ [][compile_to_asm]_vars /\ WF_vars(compile_to_asm)

-----------------------------------------------------------------------------
(* Properties of the lexer.                                                  *)

\* The characters of the comment that opens at p, if one does.
CommentAt(p) ==
    LET text == stream.text
        Opens(second) == p < Len(text) /\ text[p] = "/" /\ text[p + 1] = second
        line == {q \in p..Len(text) : \A r \in p..q : text[r] # "\n"}
        block == {q \in p..Len(text) :
                    \A r \in p + 3..q - 1 : ~(text[r - 1] = "*" /\ text[r] = "/")}
    IN  IF Opens("/") THEN line ELSE IF Opens("*") THEN block ELSE {}

\* The block comment that opens here, if one does, may not end in more stars than
\* one, unless it is empty: of those, the lexer passes over every second one.
StarsMatch ==
    \A p \in CommentAt(stream.pos + 1) :
        stream.text[stream.pos + 2] = "*" /\ stream.text[p] = "/" /\ p > stream.pos + 4
            => ~(stream.text[p - 2] = "*" /\ stream.text[p - 1] = "*")

\* What is taken from the text is white space, the one token that is added, or
\* a comment as a whole.
Accounts ==
    LET added == UNION {tokens'[i].from..tokens'[i].to : i \in Len(tokens) + 1..Len(tokens')}
        taken == stream.pos + 1..stream'.pos
    IN  /\ CommentAt(stream.pos + 1) \subseteq taken
        /\ added \subseteq taken \ CommentAt(stream.pos + 1)
        /\ \A p \in taken \ (added \cup CommentAt(stream.pos + 1)) :
              stream.text[p] \in Spaces

-----------------------------------------------------------------------------
(* Properties of the parser.                                                 *)

Count(type) == Cardinality({i \in DOMAIN tokens : tokens[i].type = type})

\* Whatever a parser leaves behind when it gives up, a unit is accepted only
\* when its code blocks are closed, each by a bracket of its own.
CurlyBracketsMatch ==
    phase = "done" =>
        /\ Count("LeftCurly") = Count("RightCurly")
        /\ \A i \in DOMAIN tokens :
              Cardinality({j \in 1..i : tokens[j].type = "RightCurly"})
                <= Cardinality({j \in 1..i : tokens[j].type = "LeftCurly"})

-----------------------------------------------------------------------------
(* Properties of both.                                                       *)

\* A unit written from declarations is read as the same trees: no alternative
\* takes what is meant for a later one.
ReadsAsMeant ==
    \A trees \in meant :
        phase \notin {"error", "crash"} /\ (phase = "done" => trees = members)

\* Every unit is converted or refused (parser.cpp:47): each loop takes a token
\* or a character in every pass.
ConversionEnds == <>(phase \in {"done", "error", "crash"})

=============================================================================
