------------------------------ MODULE CppLexer ------------------------------
(* LexOutput::from_stream of toolchain/compiler/cpp: one step for each pass  *)
(* of its loop.                                                              *)
EXTENDS TextStream

VARIABLES
    stream,     \* input.stream
    tokens,     \* m_tokens
    phase       \* "lexing", "parsing" or "error"

Punctuation == [c \in {"{", "}", "(", ")", "[", "]", ",", ";"} |->
    CASE c = "{" -> "LeftCurly"          [] c = "}" -> "RightCurly"
      [] c = "(" -> "LeftBracket"        [] c = ")" -> "RightBracket"
      [] c = "[" -> "LeftSquareBracket"  [] c = "]" -> "RightSquareBracket"
      [] c = "," -> "Comma"              [] c = ";" -> "Semicolon"]

is_operator == {"+", "-", "*", "&", "=", "/"}

consume_operator(s) == SkipAll(s, is_operator)

token_type_from_word(word) ==
    IF Len(word) = 1 /\ word[1] \in Types THEN "TypeName"
    ELSE IF Len(word) = 1 /\ word[1] \in Keywords THEN "Keyword"
    ELSE "Name"

\* Mutant: a comment ends at any slash.
BlockEnd_at_slash(text, open) ==
    LET behind == [text |-> text, pos |-> open + 1]
    IN  IF Has(behind, {"/"}) THEN Place(behind, {"/"}) ELSE 0

\* Where the comment ends that opens at `open`: one character is passed over,
\* then all up to a star, until a slash stands behind it; of stars that stand
\* together every second one is passed over.  0 when it is not closed.
BlockEnd(text, open) ==
    LET ends == {p \in open + 3..Len(text) :
                    text[p] = "/" /\ OddRun(text, open + 2, p - 1, "*")}
    IN  IF ends = {} THEN 0
        ELSE CHOOSE p \in ends : \A q \in ends : p <= q

-----------------------------------------------------------------------------

Looks == phase = "lexing" /\ ~stream.eof
Next1 == Char(stream)
Next2 == Char(Ignore(stream))

\* A token of this type is what the stream has up to `after`.
Push(type, after) ==
    /\ tokens' = Append(tokens, Token(type, stream.pos + 1, after.pos))
    /\ stream' = Ws(after)
    /\ UNCHANGED phase

Error ==
    /\ phase' = "error"
    /\ UNCHANGED <<stream, tokens>>

PunctuationToken ==
    /\ Looks /\ Next1 \in DOMAIN Punctuation
    /\ Push(Punctuation[Next1], Ignore(stream))

StringToken ==
    /\ Looks /\ Next1 = "\""
    /\ IF StringEnd(stream) = 0 THEN Error
       ELSE Push("String", To(stream, StringEnd(stream)))

LineComment ==
    /\ Looks /\ Next1 = "/" /\ Next2 = "/"
    /\ stream' = Ws(IgnoreThrough(Ignore(stream), "\n"))
    /\ UNCHANGED <<tokens, phase>>

BlockComment ==
    /\ Looks /\ Next1 = "/" /\ Next2 = "*"
    /\ BlockEnd(stream.text, stream.pos + 1) > 0
    /\ stream' = Ws(To(stream, BlockEnd(stream.text, stream.pos + 1)))
    /\ UNCHANGED <<tokens, phase>>

\* The error is reported and then taken for "not a comment": an operator
\* without characters is read at the end of the text.
UnclosedComment ==
    LET end == Fail(Eof(To(stream, Len(stream.text))))
    IN  /\ Looks /\ Next1 = "/" /\ Next2 = "*"
        /\ BlockEnd(stream.text, stream.pos + 1) = 0
        /\ tokens' = Append(tokens, Token("Operator", end.pos + 1, end.pos))
        /\ stream' = end
        /\ UNCHANGED phase

\* As many characters of operators as there are: "=-" is one token.
OperatorToken ==
    /\ Looks /\ Next1 \in is_operator
    /\ ~(Next1 = "/" /\ Next2 \in {"/", "*"})
    /\ Push("Operator", consume_operator(stream))

NumberToken ==
    /\ Looks /\ Next1 \in Digits
    /\ Push("Number", consume_number(stream))

WordToken ==
    LET after == consume_word(stream)
    IN  /\ Looks /\ Next1 \in (Alnum \ Digits) \cup {"_"}
        /\ Push(token_type_from_word(SubSeq(stream.text, stream.pos + 1, after.pos)), after)

\* White space at the very beginning, and a text without characters.
InvalidToken ==
    /\ Looks
    /\ Next1 \notin DOMAIN Punctuation \cup is_operator \cup Alnum \cup {"\"", "_"}
    /\ Error

EndOfText ==
    /\ phase = "lexing" /\ stream.eof
    /\ phase' = "parsing"
    /\ UNCHANGED <<stream, tokens>>

Lex ==
    \/ PunctuationToken \/ StringToken \/ LineComment \/ BlockComment
    \/ UnclosedComment \/ OperatorToken \/ NumberToken \/ WordToken
    \/ InvalidToken \/ EndOfText

=============================================================================
