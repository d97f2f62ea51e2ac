----------------------------- MODULE TextStream -----------------------------
(* What the lexers use of std::istream, and the helpers both of them share.  *)
(* A text is a sequence of characters; a run of letters that is a keyword or *)
(* the name of a type stands as one of them.                                 *)
EXTENDS Integers, Sequences, FiniteSets

EOF == "EOF"

Digits == {"0", "1"}
Types == {"int", "char", "void", "unsigned", "signed"}
Keywords == {"if", "else", "return"}
Letters == {"a", "b", "f", "x"} \cup Types \cup Keywords
Alnum == Digits \cup Letters
Spaces == {" ", "\n"}
HexDigits == Digits \cup {"a", "b", "f"}

Stream(text) == [text |-> text, pos |-> 0, eof |-> FALSE, fail |-> FALSE]

Good(s) == ~s.eof /\ ~s.fail
AtEnd(s) == s.pos = Len(s.text)
Fail(s) == [s EXCEPT !.fail = TRUE]
Eof(s) == [s EXCEPT !.eof = TRUE]
To(s, p) == [s EXCEPT !.pos = p]

\* The value of peek(), and the stream after it.
Char(s) == IF Good(s) /\ ~AtEnd(s) THEN s.text[s.pos + 1] ELSE EOF
Peek(s) == IF ~Good(s) THEN Fail(s) ELSE IF AtEnd(s) THEN Eof(s) ELSE s

\* ignore(1): unlike get(), it does not fail at the end.
Ignore(s) ==
    IF ~Good(s) THEN Fail(s) ELSE IF AtEnd(s) THEN Eof(s) ELSE To(s, s.pos + 1)

\* The first place behind s with one of these characters, if there is one.
Has(s, chars) == \E p \in s.pos + 1..Len(s.text) : s.text[p] \in chars
Place(s, chars) ==
    CHOOSE p \in s.pos + 1..Len(s.text) :
        /\ s.text[p] \in chars
        /\ \A q \in s.pos + 1..p - 1 : s.text[q] \notin chars

\* ignore(STREAM_MAX, ch)
IgnoreThrough(s, ch) ==
    IF ~Good(s) THEN Fail(s)
    ELSE IF Has(s, {ch}) THEN To(s, Place(s, {ch}))
    ELSE Eof(To(s, Len(s.text)))

\* read(data, 2)
Read2(s) ==
    IF ~Good(s) THEN Fail(s)
    ELSE IF s.pos + 2 > Len(s.text) THEN Eof(Fail(To(s, Len(s.text))))
    ELSE To(s, s.pos + 2)

\* seekg(-n, std::ios::cur): the end is forgotten, a failure is not.
SeekBack(s, n) ==
    IF s.fail THEN [s EXCEPT !.eof = FALSE]
    ELSE [s EXCEPT !.eof = FALSE, !.pos = s.pos - n]

\* A loop of peek() and ignore(1) or get() as long as the character is one of
\* these; and std::ws, with white space.
SkipAll(s, chars) ==
    IF ~Good(s) THEN Fail(s)
    ELSE IF \A p \in s.pos + 1..Len(s.text) : s.text[p] \in chars
    THEN Eof(To(s, Len(s.text)))
    ELSE To(s, CHOOSE p \in s.pos..Len(s.text) - 1 :
                /\ s.text[p + 1] \notin chars
                /\ \A q \in s.pos + 1..p : s.text[q] \in chars)
Ws(s) == SkipAll(s, Spaces)

-----------------------------------------------------------------------------
(* cpp_compiler::parse_helpers.  A helper gives the stream behind what it    *)
(* consumes.                                                                 *)

consume_word(s) == SkipAll(s, Alnum \cup {"_"})

\* Letters count from the second character on.
consume_number(s) == SkipAll(SkipAll(s, Digits), Alnum)

Escapes == {"\\", "\"", "\n"}

\* The characters ch that stand together up to p, from `first` on, are odd in
\* number.
OddRun(text, first, p, ch) ==
    \E q \in first..p :
        /\ (p - q) % 2 = 0
        /\ \A r \in q..p : text[r] = ch
        /\ q = first \/ text[q - 1] # ch

\* Where the string that opens at s ends; 0 when it is not closed or has an
\* escape character that is not known.
StringEnd(s) ==
    LET first == s.pos + 2
        Escaped(p) == OddRun(s.text, first, p - 1, "\\")
        Closes(p) == s.text[p] = "\"" /\ ~Escaped(p)
        ends == {p \in first..Len(s.text) :
                    /\ Closes(p)
                    /\ \A q \in first..p - 1 :
                          ~Closes(q) /\ (Escaped(q) => s.text[q] \in Escapes)}
    IN  IF ends = {} THEN 0 ELSE CHOOSE p \in ends : TRUE

Token(type, from, to) == [type |-> type, from |-> from, to |-> to]

=============================================================================
