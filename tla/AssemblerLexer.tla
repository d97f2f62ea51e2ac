--------------------------- MODULE AssemblerLexer ---------------------------
(* Lexer::from_stream of toolchain/compiler/asm: one step for each pass of   *)
(* its loop.                                                                 *)
EXTENDS TextStream

VARIABLES
    stream,     \* input.stream
    tokens,     \* m_tokens
    phase       \* "lexing", "comment", "parsing" or "error"

Punctuation == [c \in {"\n", ".", "@", ",", "[", "]", "+", "-", "#"} |->
    CASE c = "\n" -> "NewLine"   [] c = "." -> "Dot"        [] c = "@" -> "At"
      [] c = ","  -> "Comma"     [] c = "[" -> "BraceOpen"  [] c = "]" -> "BraceClose"
      [] c = "+"  -> "Add"       [] c = "-" -> "Subtract"   [] c = "#" -> "Hash"]

consume_whitespace_except_newline(s) == SkipAll(s, Spaces \ {"\n"})
consume_hex_number(s) == SkipAll(s, HexDigits)

Begin(text) == consume_whitespace_except_newline(Stream(text))

Looks == phase = "lexing" /\ ~stream.eof
Next1 == Char(stream)

\* A token of this type is what stands between two places of the stream.
Push(type, before, after) ==
    /\ tokens' = Append(tokens, Token(type, before.pos + 1, after.pos))
    /\ stream' = consume_whitespace_except_newline(after)
    /\ UNCHANGED phase

Error ==
    /\ phase' = "error"
    /\ UNCHANGED <<stream, tokens>>

PunctuationToken ==
    /\ Looks /\ Next1 \in DOMAIN Punctuation
    /\ Push(Punctuation[Next1], stream, Ignore(stream))

StringToken ==
    /\ Looks /\ Next1 = "\""
    /\ IF StringEnd(stream) = 0 THEN Error
       ELSE Push("String", stream, To(stream, StringEnd(stream)))

ColonToken ==
    LET after == Ignore(stream)
    IN  /\ Looks /\ Next1 = ":"
        /\ IF Char(after) = "=" THEN Push("Assignment", stream, Ignore(after))
           ELSE Push("Colon", stream, Peek(after))

\* The comment ends before the next line end.  Without one, ignore_comment
\* sees EOF for ever.
Comment ==
    /\ Looks /\ Next1 = ";"
    /\ IF Has(stream, {"\n"})
       THEN stream' = To(stream, Place(stream, {"\n"}) - 1) /\ UNCHANGED phase
       ELSE /\ stream' = Fail(Eof(To(stream, Len(stream.text))))
            /\ phase' = "comment"
    /\ UNCHANGED tokens

\* Mutant: one of two characters is given back.
WayBack_one_short(read) == SeekBack(read, 1)
WayBack(read) == SeekBack(read, 2)

\* Two characters are read to look for 0x.  When there is but one, the second
\* is not initialised, and the way back fails.
NumberToken ==
    LET read == Read2(stream)
        back == WayBack(read)
        second == IF read.fail THEN {"x", "other"} ELSE {stream.text[read.pos]}
    IN  /\ Looks /\ Next1 \in Digits
        /\ \E ch \in second :
              IF Next1 = "0" /\ ch = "x"
              THEN Push("HexNumber", read, consume_hex_number(read))
              ELSE Push("DecNumber", back, consume_number(back))

WordToken ==
    /\ Looks /\ Next1 \in (Alnum \ Digits) \cup {"_"}
    /\ Push("Name", stream, consume_word(stream))

InvalidToken ==
    /\ Looks /\ Next1 \notin DOMAIN Punctuation \cup {"\"", ":", ";", "_"} \cup Alnum
    /\ Error

EndOfText ==
    /\ phase = "lexing" /\ stream.eof
    /\ phase' = "parsing"
    /\ UNCHANGED <<stream, tokens>>

Lex ==
    \/ PunctuationToken \/ StringToken \/ ColonToken \/ Comment
    \/ NumberToken \/ WordToken \/ InvalidToken \/ EndOfText

=============================================================================
