-------------------------- MODULE FrontEndsProofs --------------------------
(***************************************************************************)
(* Theorems about the front ends for every set of sources and units.  Both *)
(* lexers account for every character of a text.  The assembler's parser   *)
(* makes every name, number and string part of one operation, in the order *)
(* and in the line of the source.  The parser of C++, whatever its parsers *)
(* leave behind when they give up and however deep they call each other,   *)
(* accepts a unit only when its curly brackets match.                      *)
(***************************************************************************)
EXTENDS FrontEnds, FiniteSetTheorems, SequenceTheorems, WellFoundedInduction, TLAPS

\* A set of natural numbers has a least element.
LEMMA LeastNatural ==
  ASSUME NEW T \in SUBSET Nat, T # {}
  PROVE  \E m \in T : \A n \in T : m <= n
<1>1. PICK k \in T : TRUE
  OBVIOUS
<1> DEFINE F == {0 .. m : m \in {n \in T : n <= k}}
<1>2. F \subseteq SUBSET (0 .. k) /\ F # {}
  BY <1>1
<1>3. IsWellFoundedOn(StrictSubsetOrdering(0 .. k), SUBSET (0 .. k))
  <2>1. IsFiniteSet(0 .. k)
    BY <1>1, FS_Interval
  <2>2. FiniteSubsetsOf(0 .. k) = SUBSET (0 .. k)
    BY <2>1, FS_Subset DEF FiniteSubsetsOf
  <2> QED
    BY <2>2, FS_StrictSubsetOrderingWellFounded
<1> HIDE DEF F
<1>4. PICK x \in F : \A y \in F : ~(<<y, x>> \in StrictSubsetOrdering(0 .. k))
  BY <1>2, <1>3, WFMin
<1>5. PICK m \in T : m <= k /\ x = 0 .. m
  BY <1>4 DEF F
<1>6. ASSUME NEW n \in T, n < m PROVE FALSE
  <2>1. 0 .. n \in F /\ 0 .. n \in SUBSET (0 .. k) /\ 0 .. m \in SUBSET (0 .. k)
    BY <1>1, <1>5, <1>6 DEF F
  <2>2. 0 .. n \subseteq 0 .. m /\ m \notin 0 .. n /\ m \in 0 .. m
    BY <1>6
  <2>3. <<0 .. n, x>> \in StrictSubsetOrdering(0 .. k)
    BY <1>5, <2>1, <2>2 DEF StrictSubsetOrdering
  <2> QED
    BY <1>4, <2>1, <2>3
<1> QED
  BY <1>6

-----------------------------------------------------------------------------
(* Streams.                                                                  *)

Streams == [text : Seq(STRING), pos : Nat, eof : BOOLEAN, fail : BOOLEAN]

\* A place in a text; only at its end can anything have failed.
InText(s) ==
  /\ s \in Streams
  /\ s.pos <= Len(s.text)
  /\ s.eof \/ s.fail => s.pos = Len(s.text)

\* t is a place of the same text behind s.
Further(s, t) == InText(t) /\ t.text = s.text /\ s.pos <= t.pos

\* A stream at the beginning of a text is in it.
LEMMA StreamIsInText ==
  ASSUME NEW text \in Seq(STRING)
  PROVE  InText(Stream(text)) /\ Stream(text).text = text
  BY DEF InText, Stream, Streams

\* How a stream is moved and marked.
LEMMA Marks ==
  ASSUME NEW s, InText(s)
  PROVE  /\ ~Good(s) => Further(s, Fail(s)) /\ Fail(s).pos = s.pos
         /\ AtEnd(s) => Further(s, Eof(s)) /\ Eof(s).pos = s.pos
         /\ Further(s, Eof(To(s, Len(s.text)))) /\ Eof(To(s, Len(s.text))).pos = Len(s.text)
         /\ Further(s, Fail(Eof(To(s, Len(s.text)))))
         /\ Fail(Eof(To(s, Len(s.text)))).pos = Len(s.text)
<1>1. /\ s.text \in Seq(STRING) /\ s.pos \in Nat /\ s.eof \in BOOLEAN /\ s.fail \in BOOLEAN
      /\ Len(s.text) \in Nat
  BY DEF InText, Streams
<1>2. ASSUME ~Good(s) PROVE Further(s, Fail(s)) /\ Fail(s).pos = s.pos
  BY <1>1, <1>2 DEF InText, Streams, Further, Fail, Good
<1>3. ASSUME AtEnd(s) PROVE Further(s, Eof(s)) /\ Eof(s).pos = s.pos
  BY <1>1, <1>3 DEF InText, Streams, Further, Eof, AtEnd
<1> DEFINE e == Eof(To(s, Len(s.text)))
<1>4. /\ e \in Streams /\ e.text = s.text /\ e.pos = Len(s.text)
      /\ Fail(e) \in Streams /\ Fail(e).text = s.text /\ Fail(e).pos = Len(s.text)
  BY <1>1 DEF InText, Streams, Eof, To, Fail
<1> HIDE DEF e
<1>5. Further(s, e) /\ Further(s, Fail(e))
  BY <1>1, <1>4 DEF InText, Further
<1> QED
  BY <1>2, <1>3, <1>4, <1>5 DEF e

\* A stream without a failure is moved on within its text.
LEMMA Moves ==
  ASSUME NEW s, InText(s), Good(s), NEW p \in s.pos .. Len(s.text)
  PROVE  Further(s, To(s, p)) /\ To(s, p).pos = p
  BY DEF InText, Streams, Further, To, Good

\* What a loop of peek() and ignore(1) passes over are characters of its set.
LEMMA SkipsTheseOnly ==
  ASSUME NEW s, InText(s), NEW chars
  PROVE  /\ Further(s, SkipAll(s, chars))
         /\ \A p \in s.pos + 1 .. SkipAll(s, chars).pos : s.text[p] \in chars
<1> USE DEF InText, Streams, Further
<1>1. CASE ~Good(s)
  BY <1>1, Marks DEF SkipAll
<1>2. CASE Good(s) /\ \A p \in s.pos + 1 .. Len(s.text) : s.text[p] \in chars
  BY <1>2, Marks DEF SkipAll
<1>3. CASE Good(s) /\ \E p \in s.pos + 1 .. Len(s.text) : s.text[p] \notin chars
  <2> DEFINE T == {p \in s.pos + 1 .. Len(s.text) : s.text[p] \notin chars}
             P(p) == /\ s.text[p + 1] \notin chars
                     /\ \A q \in s.pos + 1 .. p : s.text[q] \in chars
  <2>1. T \in SUBSET Nat /\ T # {}
    BY <1>3
  <2>2. PICK m \in T : \A n \in T : m <= n
    BY <2>1, LeastNatural
  <2>3. m - 1 \in s.pos .. Len(s.text) - 1 /\ P(m - 1)
    <3>1. m \in s.pos + 1 .. Len(s.text) /\ s.text[m] \notin chars
      OBVIOUS
    <3>2. m - 1 + 1 = m
      BY <3>1
    <3>3. ASSUME NEW q \in s.pos + 1 .. m - 1 PROVE s.text[q] \in chars
      <4>1. q \in s.pos + 1 .. Len(s.text) /\ ~(m <= q)
        BY <3>1
      <4> QED
        BY <4>1, <2>2
    <3> QED
      BY <3>1, <3>2, <3>3
  <2> HIDE DEF P, T
  <2> DEFINE c == CHOOSE p \in s.pos .. Len(s.text) - 1 : P(p)
  <2>4. c \in s.pos .. Len(s.text) - 1 /\ P(c)
    BY <2>3
  <2>5. SkipAll(s, chars) = To(s, c)
    BY <1>3 DEF SkipAll, P
  <2> HIDE DEF c
  <2>6. To(s, c).pos = c /\ Further(s, To(s, c))
    BY <2>4, <1>3, Moves
  <2> QED
    BY <2>4, <2>5, <2>6 DEF P
<1> QED
  BY <1>1, <1>2, <1>3

\* ignore(1) takes one character, if there is one.
LEMMA IgnoresOne ==
  ASSUME NEW s, InText(s)
  PROVE  /\ Further(s, Ignore(s)) /\ Further(s, Peek(s))
         /\ Peek(s).pos = s.pos
         /\ Good(s) /\ ~AtEnd(s) => Ignore(s).pos = s.pos + 1
         /\ ~(Good(s) /\ ~AtEnd(s)) => Ignore(s).pos = s.pos
<1>1. s.pos \in Nat /\ Len(s.text) \in Nat /\ s.pos <= Len(s.text) /\ Further(s, s)
  BY DEF InText, Streams, Further
<1>2. CASE ~Good(s)
  BY <1>2, Marks DEF Ignore, Peek
<1>3. CASE Good(s) /\ AtEnd(s)
  BY <1>3, Marks DEF Ignore, Peek
<1>4. CASE Good(s) /\ ~AtEnd(s)
  <2>1. s.pos + 1 \in s.pos .. Len(s.text)
    BY <1>1, <1>4 DEF AtEnd
  <2>2. Further(s, To(s, s.pos + 1)) /\ To(s, s.pos + 1).pos = s.pos + 1
    BY <1>4, <2>1, Moves
  <2> QED
    BY <1>1, <1>4, <2>2 DEF Ignore, Peek
<1> QED
  BY <1>2, <1>3, <1>4

\* A character that is seen stands in the text.
LEMMA SeenIsThere ==
  ASSUME NEW s, InText(s), Char(s) # EOF
  PROVE  Good(s) /\ ~AtEnd(s) /\ s.pos + 1 \in 1 .. Len(s.text)
         /\ Char(s) = s.text[s.pos + 1]
  BY DEF InText, Streams, Char, Good, AtEnd

\* Behind a string stands its end.
LEMMA StringEnds ==
  ASSUME NEW s, InText(s), StringEnd(s) # 0
  PROVE  StringEnd(s) \in s.pos + 2 .. Len(s.text)
  BY DEF StringEnd

\* The first place behind s with one of these characters.
LEMMA FirstPlace ==
  ASSUME NEW s, InText(s), NEW chars, Has(s, chars)
  PROVE  /\ Place(s, chars) \in s.pos + 1 .. Len(s.text)
         /\ s.text[Place(s, chars)] \in chars
         /\ \A q \in s.pos + 1 .. Place(s, chars) - 1 : s.text[q] \notin chars
<1> DEFINE T == {p \in s.pos + 1 .. Len(s.text) : s.text[p] \in chars}
<1>1. s.pos \in Nat /\ Len(s.text) \in Nat
  BY DEF InText, Streams
<1>2. T \in SUBSET Nat /\ T # {}
  BY <1>1 DEF Has
<1>3. PICK m \in T : \A n \in T : m <= n
  BY <1>2, LeastNatural
<1>4. ASSUME NEW q \in s.pos + 1 .. m - 1 PROVE s.text[q] \notin chars
  <2>1. q \in s.pos + 1 .. Len(s.text) /\ ~(m <= q)
    BY <1>1
  <2> QED
    BY <1>3, <2>1
<1>5. \E p \in s.pos + 1 .. Len(s.text) :
         s.text[p] \in chars /\ \A q \in s.pos + 1 .. p - 1 : s.text[q] \notin chars
  BY <1>4
<1> QED
  BY <1>5 DEF Place

\* What is further on from a place is further on from any before it.
LEMMA FurtherOn ==
  ASSUME NEW r, NEW s, NEW t, InText(r), Further(r, s), Further(s, t)
  PROVE  Further(r, t)
  BY DEF Further, InText, Streams

\* Two characters are read, or what there is; and given back, unless one was
\* missing.
LEMMA ReadsTwo ==
  ASSUME NEW s, InText(s), Good(s), ~AtEnd(s)
  PROVE  /\ Further(s, Read2(s)) /\ Further(s, WayBack(Read2(s)))
         /\ s.pos + 2 <= Len(s.text) =>
               /\ ~Read2(s).fail /\ Read2(s).pos = s.pos + 2
               /\ WayBack(Read2(s)).pos = s.pos
<1>1. /\ s.text \in Seq(STRING) /\ s.pos \in Nat /\ s.eof = FALSE /\ s.fail = FALSE
      /\ Len(s.text) \in Nat /\ s.pos <= Len(s.text) /\ s \in Streams
  BY DEF InText, Streams, Good
<1>2. CASE s.pos + 2 <= Len(s.text)
  <2> DEFINE r == To(s, s.pos + 2)
             b == [[r EXCEPT !.eof = FALSE] EXCEPT !.pos = r.pos - 2]
  <2>1. Read2(s) = r
    BY <1>1, <1>2 DEF Read2
  <2>2. /\ r \in Streams /\ r.text = s.text /\ r.pos = s.pos + 2
        /\ r.eof = FALSE /\ r.fail = FALSE
    BY <1>1 DEF To, Streams
  <2> DEFINE c == [r EXCEPT !.eof = FALSE, !.pos = r.pos - 2]
  <2>3. WayBack(r) = c
    BY <2>2 DEF WayBack, SeekBack
  <2> HIDE DEF r
  <2>4. r.pos - 2 = s.pos
    BY <1>1, <2>2
  <2>5. /\ c \in Streams /\ c.text = s.text /\ c.pos = s.pos
        /\ c.eof = FALSE /\ c.fail = FALSE
    BY <1>1, <2>2, <2>4 DEF Streams
  <2> HIDE DEF c
  <2>6. Further(s, r) /\ Further(s, c)
    BY <1>1, <1>2, <2>2, <2>5 DEF Further, InText
  <2> QED
    BY <2>1, <2>2, <2>3, <2>5, <2>6
<1>3. CASE ~(s.pos + 2 <= Len(s.text))
  <2> DEFINE r == Eof(Fail(To(s, Len(s.text))))
             b == [r EXCEPT !.eof = FALSE]
  <2>1. Read2(s) = r
    BY <1>1, <1>3 DEF Read2, Good
  <2>2. /\ r \in Streams /\ r.text = s.text /\ r.pos = Len(s.text) /\ r.fail = TRUE
    BY <1>1 DEF To, Fail, Eof, Streams
  <2>3. WayBack(r) = b
    BY <2>2 DEF WayBack, SeekBack
  <2> HIDE DEF r
  <2>4. /\ b \in Streams /\ b.text = s.text /\ b.pos = Len(s.text)
    BY <2>2 DEF Streams
  <2> HIDE DEF b
  <2>5. Further(s, r) /\ Further(s, b)
    BY <1>1, <2>2, <2>4 DEF Further, InText
  <2> QED
    BY <1>3, <2>1, <2>3, <2>5
<1> QED
  BY <1>2, <1>3

-----------------------------------------------------------------------------
(* The lexer.                                                                *)

TokenTypes == {"NewLine", "Dot", "At", "Comma", "BraceOpen", "BraceClose", "Add",
               "Subtract", "Hash", "String", "Colon", "Assignment", "HexNumber",
               "DecNumber", "Name"}
Tokens == [type : TokenTypes, from : Nat, to : Nat]

LexerTypeOK == InText(stream) /\ tokens \in Seq(Tokens)

\* A character of punctuation is a token, and neither a number nor a comment.
LEMMA PunctuationType ==
  ASSUME NEW c \in DOMAIN Punctuation
  PROVE  Punctuation[c] \in TokenTypes \ {"HexNumber"} /\ c # ";" /\ c # EOF
  BY DEF Punctuation, TokenTypes, EOF

\* What is left of a text when a token was taken from it.
LEMMA PushTakes ==
  ASSUME LexerTypeOK, NEW type \in TokenTypes, NEW before, NEW after,
         Further(stream, before), Further(before, after), Push(type, before, after)
  PROVE  /\ LexerTypeOK' /\ phase' = phase /\ Further(after, stream')
         /\ tokens' = Append(tokens, Token(type, before.pos + 1, after.pos))
         /\ \A p \in after.pos + 1 .. stream'.pos : stream.text[p] \in Spaces
<1>1. InText(after) /\ after.text = stream.text /\ before.pos \in Nat /\ after.pos \in Nat
  BY DEF Further, InText, Streams
<1>2. /\ tokens' = Append(tokens, Token(type, before.pos + 1, after.pos))
      /\ stream' = SkipAll(after, Spaces \ {"\n"})
      /\ phase' = phase
  BY DEF Push, consume_whitespace_except_newline
<1>3. /\ Further(after, stream')
      /\ \A p \in after.pos + 1 .. stream'.pos : after.text[p] \in Spaces \ {"\n"}
  BY <1>1, <1>2, SkipsTheseOnly
<1>4. Token(type, before.pos + 1, after.pos) \in Tokens
  BY <1>1 DEF Token, Tokens
<1>5. LexerTypeOK'
  BY <1>2, <1>3, <1>4 DEF LexerTypeOK, Further
<1> QED
  BY <1>1, <1>2, <1>3, <1>5

\* The token is all that is taken, and no comment opens where it begins.
Stands(type, before, after) ==
  /\ Extent(Token(type, before.pos + 1, after.pos)) = stream.pos + 1 .. after.pos
  /\ stream.text[stream.pos + 1] # ";"

Added == UNION {Extent(tokens'[i]) : i \in Len(tokens) + 1 .. Len(tokens')}

\* The text is accounted for when a token stands for all that was taken but
\* white space.
LEMMA PushAccounts ==
  ASSUME LexerTypeOK, NEW type \in TokenTypes, NEW before, NEW after,
         Further(stream, before), Further(before, after), Push(type, before, after),
         Stands(type, before, after)
  PROVE  Accounts
<1>1. /\ tokens' = Append(tokens, Token(type, before.pos + 1, after.pos))
      /\ Further(after, stream')
      /\ \A p \in after.pos + 1 .. stream'.pos : stream.text[p] \in Spaces
  BY PushTakes
<1>2. /\ stream.pos \in Nat /\ before.pos \in Nat /\ after.pos \in Nat /\ stream'.pos \in Nat
      /\ stream.pos <= after.pos /\ after.pos <= stream'.pos
  <2>1. InText(stream) /\ InText(before) /\ InText(after) /\ InText(stream')
    BY <1>1 DEF LexerTypeOK, Further
  <2>2. stream.pos \in Nat /\ before.pos \in Nat /\ after.pos \in Nat /\ stream'.pos \in Nat
    BY <2>1 DEF InText, Streams
  <2>3. stream.pos <= before.pos /\ before.pos <= after.pos /\ after.pos <= stream'.pos
    BY <1>1 DEF Further
  <2> QED
    BY <2>2, <2>3
<1>3. Added = stream.pos + 1 .. after.pos
  <2> DEFINE token == Token(type, before.pos + 1, after.pos)
  <2>1. token \in Tokens
    <3>1. before.pos + 1 \in Nat /\ after.pos \in Nat
      BY <1>2
    <3> QED
      BY <3>1 DEF Token, Tokens
  <2> HIDE DEF token
  <2>5. tokens' = Append(tokens, token)
    BY <1>1 DEF token
  <2>2. Len(tokens') = Len(tokens) + 1 /\ tokens'[Len(tokens) + 1] = token /\ Len(tokens) \in Nat
    BY <2>5, <2>1 DEF LexerTypeOK
  <2>3. Len(tokens) + 1 .. Len(tokens') = {Len(tokens) + 1}
    BY <2>2
  <2>4. Added = Extent(token)
    BY <2>2, <2>3 DEF Added
  <2> QED
    BY <2>4 DEF Stands, token
<1>4. CommentAt(stream.pos + 1) = {}
  BY DEF CommentAt, Stands
<1>5. /\ {} \subseteq stream.pos + 1 .. stream'.pos
      /\ Added \subseteq (stream.pos + 1 .. stream'.pos) \ {}
      /\ \A p \in (stream.pos + 1 .. stream'.pos) \ (Added \cup {}) : stream.text[p] \in Spaces
  BY <1>1, <1>2, <1>3
<1> QED
  BY <1>4, <1>5 DEF Accounts, Added

\* Characters, as names that the provers need not look into.
LineEnd == "\n"

OpensComment == stream.text[stream.pos + 1] = ";"
SeesComment == Next1 = ";"

\* A token whose value leaves nothing out, and one of a hexadecimal number,
\* which leaves out the 0x before it.
LEMMA StandsAsWhole ==
  ASSUME LexerTypeOK, NEW type \in TokenTypes, NEW before, NEW after,
         ~OpensComment,
         before.pos = IF type = "HexNumber" THEN stream.pos + 2 ELSE stream.pos
  PROVE  Stands(type, before, after)
<1>1. stream.pos \in Nat /\ stream.text[stream.pos + 1] # ";"
  BY DEF LexerTypeOK, InText, Streams, OpensComment
<1>2. CASE type = "HexNumber"
  <2> DEFINE from == before.pos + 1
             to == after.pos
  <2>1. from - 2 = stream.pos + 1
    <3>1. stream.pos \in Nat
      BY DEF LexerTypeOK, InText, Streams
    <3> QED
      BY <1>2, <3>1
  <2> SUFFICES Extent(Token(type, from, to)) = stream.pos + 1 .. to
    BY <1>1, Zenon DEF Stands
  <2> HIDE DEF from, to
  <2>2. Extent(Token(type, from, to)) = from - 2 .. to
    BY <1>2, Zenon DEF Extent, Token
  <2> QED
    BY <2>1, <2>2
<1>3. CASE type # "HexNumber"
  <2>1. Extent(Token(type, before.pos + 1, after.pos)) = stream.pos + 1 .. after.pos
    BY <1>3 DEF Extent, Token
  <2> QED
    BY <1>1, <2>1, Zenon DEF Stands
<1> QED
  BY <1>2, <1>3

\* What a pass of the loop does: it adds a token, takes nothing (Rests) or
\* passes over a comment (Comment).
Pushes ==
  \E type \in TokenTypes, before, after \in Streams :
    /\ Further(stream, before) /\ Further(before, after)
    /\ Push(type, before, after)
    /\ LinesEnd => Stands(type, before, after)

Rests == stream' = stream /\ tokens' = tokens /\ CommentAt(stream.pos + 1) = {}

\* A pass that pushes a token adds it.
LEMMA PushesOne ==
  ASSUME LexerTypeOK, NEW type \in TokenTypes, NEW before, NEW after,
         Further(stream, before), Further(before, after), Push(type, before, after),
         ~OpensComment,
         LinesEnd => before.pos = IF type = "HexNumber" THEN stream.pos + 2 ELSE stream.pos
  PROVE  Pushes
<1>1. before \in Streams /\ after \in Streams
  BY DEF Further, InText
<1>2. LinesEnd => Stands(type, before, after)
  BY StandsAsWhole
<1> QED
  BY <1>1, <1>2 DEF Pushes

\* A number becomes one token, with the 0x before it if there is one, whatever
\* the second character that was read is.
LEMMA NumberPushes ==
  ASSUME LexerTypeOK, NumberToken
  PROVE  Pushes
<1> DEFINE read == Read2(stream)
           back == WayBack(read)
<1>1. Next1 \in Digits /\ Next1 # EOF /\ ~SeesComment /\ Next1 # LineEnd
  BY DEF NumberToken, Digits, EOF, SeesComment, LineEnd
<1>2. /\ InText(stream) /\ Good(stream) /\ ~AtEnd(stream)
      /\ stream.pos + 1 \in 1 .. Len(stream.text) /\ Next1 = stream.text[stream.pos + 1]
  BY <1>1, SeenIsThere DEF LexerTypeOK, Next1
<1>3. /\ Further(stream, read) /\ Further(stream, back)
      /\ stream.pos + 2 <= Len(stream.text) =>
            read.pos = stream.pos + 2 /\ back.pos = stream.pos
  BY <1>2, ReadsTwo
<1>4. LinesEnd => read.pos = stream.pos + 2 /\ back.pos = stream.pos
  <2> SUFFICES ASSUME LinesEnd PROVE stream.pos + 2 <= Len(stream.text)
    BY <1>3
  <2>1. Len(stream.text) \in Nat /\ stream.pos \in Nat /\ stream.text # <<>>
    BY <1>2 DEF InText, Streams
  <2>2. stream.text[Len(stream.text)] = LineEnd
    BY <2>1 DEF LinesEnd, LineEnd
  <2>3. stream.pos + 1 # Len(stream.text)
    BY <1>1, <1>2, <2>2
  <2> QED
    BY <1>2, <2>1, <2>3
<1>5. PICK ch : IF Next1 = "0" /\ ch = "x"
                THEN Push("HexNumber", read, consume_hex_number(read))
                ELSE Push("DecNumber", back, consume_number(back))
  BY DEF NumberToken
<1>6. ~OpensComment
  BY <1>1, <1>2 DEF OpensComment, SeesComment
<1> HIDE DEF read, back
<1>7. CASE Push("HexNumber", read, consume_hex_number(read))
  <2>1. Further(read, consume_hex_number(read))
    BY <1>3, SkipsTheseOnly DEF consume_hex_number, Further
  <2>2. "HexNumber" \in TokenTypes
    BY DEF TokenTypes
  <2> QED
    BY <1>3, <1>4, <1>6, <1>7, <2>1, <2>2, PushesOne
<1>8. CASE Push("DecNumber", back, consume_number(back))
  <2>1. InText(back)
    BY <1>3 DEF Further
  <2>2. Further(back, SkipAll(back, Digits))
    BY <2>1, SkipsTheseOnly
  <2>3. Further(SkipAll(back, Digits), consume_number(back))
    BY <2>2, SkipsTheseOnly DEF consume_number, Further
  <2>4. Further(back, consume_number(back))
    BY <2>1, <2>2, <2>3, FurtherOn
  <2>5. "DecNumber" \in TokenTypes /\ "DecNumber" # "HexNumber"
    BY DEF TokenTypes
  <2> QED
    BY <1>3, <1>4, <1>6, <1>8, <2>4, <2>5, PushesOne
<1> QED
  BY <1>5, <1>7, <1>8

\* Where the lexer stops or looks at no comment, none opens.
LEMMA NoCommentHere ==
  ASSUME LexerTypeOK, ~Good(stream) \/ ~SeesComment
  PROVE  CommentAt(stream.pos + 1) = {}
<1>1. CASE stream.pos + 1 <= Len(stream.text)
  <2>3. /\ stream.pos \in Nat /\ Len(stream.text) \in Nat
        /\ stream.eof \in BOOLEAN /\ stream.fail \in BOOLEAN
        /\ stream.eof \/ stream.fail => stream.pos = Len(stream.text)
    BY DEF LexerTypeOK, InText, Streams
  <2>4. stream.pos # Len(stream.text)
    BY <1>1, <2>3
  <2>1. Good(stream) /\ ~AtEnd(stream)
    BY <2>3, <2>4 DEF Good, AtEnd
  <2>2. Next1 = stream.text[stream.pos + 1]
    BY <2>1 DEF Next1, Char
  <2> QED
    BY <2>1, <2>2 DEF CommentAt, SeesComment
<1>2. CASE ~(stream.pos + 1 <= Len(stream.text))
  BY <1>2 DEF CommentAt
<1> QED
  BY <1>1, <1>2

\* Every pass of the lexer's loop is of one of the three kinds.
LEMMA LexingStep ==
  ASSUME LexerTypeOK, Lex
  PROVE  Pushes \/ Rests \/ Comment
<1>1. InText(stream) /\ Further(stream, stream)
  BY DEF LexerTypeOK, Further, InText, Streams
<1>2. ASSUME NEW type \in TokenTypes \ {"HexNumber"}, NEW after,
             Next1 # EOF, ~SeesComment,
             Further(stream, after), Push(type, stream, after)
      PROVE  Pushes
  <2>1. ~OpensComment
    BY <1>1, <1>2, SeenIsThere DEF Next1, OpensComment, SeesComment
  <2> QED
    BY <1>1, <1>2, <2>1, PushesOne
<1>3. CASE PunctuationToken
  <2>1. Next1 # EOF /\ ~SeesComment /\ Punctuation[Next1] \in TokenTypes \ {"HexNumber"}
    BY <1>3, PunctuationType DEF PunctuationToken, SeesComment
  <2>2. Further(stream, Ignore(stream))
    BY <1>1, IgnoresOne
  <2> QED
    BY <1>2, <1>3, <2>1, <2>2 DEF PunctuationToken
<1>4. CASE StringToken
  <2>1. Next1 = "\"" /\ Next1 # EOF /\ ~SeesComment
    BY <1>4 DEF StringToken, EOF, SeesComment
  <2>2. CASE StringEnd(stream) = 0
    BY <1>4, <2>1, <2>2, NoCommentHere DEF StringToken, Error, Rests
  <2>3. CASE StringEnd(stream) # 0
    <3>1. Good(stream)
      BY <1>1, <2>1, SeenIsThere DEF Next1
    <3>2. StringEnd(stream) \in stream.pos .. Len(stream.text)
      <4>1. stream.pos \in Nat
        BY <1>1 DEF InText, Streams
      <4>2. StringEnd(stream) \in stream.pos + 2 .. Len(stream.text)
        BY <1>1, <2>3, StringEnds
      <4> QED
        BY <4>1, <4>2
    <3>3. Further(stream, To(stream, StringEnd(stream)))
      BY <1>1, <3>1, <3>2, Moves
    <3>4. "String" \in TokenTypes \ {"HexNumber"}
      BY DEF TokenTypes
    <3> QED
      BY <1>2, <1>4, <2>1, <2>3, <3>3, <3>4 DEF StringToken
  <2> QED
    BY <2>2, <2>3
<1>5. CASE ColonToken
  <2>1. Next1 = ":" /\ Next1 # EOF /\ ~SeesComment
    BY <1>5 DEF ColonToken, EOF, SeesComment
  <2>2. Further(stream, Ignore(stream)) /\ InText(Ignore(stream))
    BY <1>1, IgnoresOne DEF Further
  <2>3. Further(stream, Ignore(Ignore(stream))) /\ Further(stream, Peek(Ignore(stream)))
    BY <1>1, <2>2, IgnoresOne, FurtherOn
  <2>4. /\ "Assignment" \in TokenTypes \ {"HexNumber"}
        /\ "Colon" \in TokenTypes \ {"HexNumber"}
    BY DEF TokenTypes
  <2>5. \/ Push("Assignment", stream, Ignore(Ignore(stream)))
        \/ Push("Colon", stream, Peek(Ignore(stream)))
    BY <1>5 DEF ColonToken
  <2> QED
    BY <1>2, <2>1, <2>3, <2>4, <2>5
<1>6. CASE NumberToken
  BY <1>6, NumberPushes
<1>7. CASE WordToken
  <2>1. Next1 # EOF /\ ~SeesComment
    BY <1>7 DEF WordToken, EOF, SeesComment, Alnum, Digits, Letters, Types, Keywords
  <2>2. Further(stream, consume_word(stream))
    BY <1>1, SkipsTheseOnly DEF consume_word
  <2>3. "Name" \in TokenTypes \ {"HexNumber"}
    BY DEF TokenTypes
  <2> QED
    BY <1>2, <1>7, <2>1, <2>2, <2>3 DEF WordToken
<1>8. CASE InvalidToken
  BY <1>8, NoCommentHere DEF InvalidToken, Error, Rests, SeesComment
<1>9. CASE EndOfText
  <2>1. ~Good(stream)
    BY <1>9 DEF EndOfText, Good
  <2> QED
    BY <1>9, <2>1, NoCommentHere DEF EndOfText, Rests
<1> QED
  BY <1>3, <1>4, <1>5, <1>6, <1>7, <1>8, <1>9 DEF Lex

\* Every step of the lexer keeps its place in the same text.
LEMMA LexTypes ==
  ASSUME LexerTypeOK, Lex
  PROVE  LexerTypeOK'
<1>1. CASE Pushes
  <2>1. PICK type \in TokenTypes, before \in Streams, after \in Streams :
             /\ Further(stream, before) /\ Further(before, after)
             /\ Push(type, before, after)
    BY <1>1 DEF Pushes
  <2> QED
    BY <2>1, PushTakes
<1>2. CASE Rests
  BY <1>2 DEF Rests, LexerTypeOK
<1>3. CASE Comment
  <2>1. InText(stream) /\ tokens' = tokens
    BY <1>3 DEF LexerTypeOK, Comment
  <2>2. CASE Has(stream, {"\n"})
    <3>1. stream' = To(stream, Place(stream, {"\n"}) - 1)
      BY <1>3, <2>2 DEF Comment
    <3>2. Good(stream)
      BY <1>3, <2>1, SeenIsThere DEF Comment, Next1, EOF
    <3>3. Place(stream, {"\n"}) - 1 \in stream.pos .. Len(stream.text)
      <4>1. Place(stream, {"\n"}) \in stream.pos + 1 .. Len(stream.text)
        BY <2>1, <2>2, FirstPlace
      <4>2. stream.pos \in Nat
        BY <2>1 DEF InText, Streams
      <4> QED
        BY <4>1, <4>2
    <3>4. InText(stream')
      BY <2>1, <3>1, <3>2, <3>3, Moves DEF Further
    <3> QED
      BY <2>1, <3>4 DEF LexerTypeOK
  <2>3. CASE ~Has(stream, {"\n"})
    <3>1. stream' = Fail(Eof(To(stream, Len(stream.text))))
      BY <1>3, <2>3 DEF Comment
    <3>2. InText(stream')
      BY <2>1, <3>1, Marks DEF Further
    <3> QED
      BY <2>1, <3>2 DEF LexerTypeOK
  <2> QED
    BY <2>2, <2>3
<1> QED
  BY <1>1, <1>2, <1>3, LexingStep

\* A line goes up to its end.
LEMMA LineUpToEnd ==
  ASSUME NEW s, InText(s), NEW c, Has(s, {c})
  PROVE  {q \in s.pos + 1 .. Len(s.text) : \A r \in s.pos + 1 .. q : s.text[r] # c} =
            s.pos + 1 .. Place(s, {c}) - 1
<1> DEFINE text == s.text
           a == s.pos
           n == Len(s.text)
           m == Place(s, {c})
<1>3. a \in Nat /\ n \in Nat
  BY DEF InText, Streams
<1>4. m \in a + 1 .. n /\ text[m] = c /\ \A q \in a + 1 .. m - 1 : text[q] # c
  BY FirstPlace
<1> SUFFICES {q \in a + 1 .. n : \A r \in a + 1 .. q : text[r] # c} = a + 1 .. m - 1
  OBVIOUS
<1> HIDE DEF text, a, n, m
<1>1. ASSUME NEW q \in a + 1 .. n, \A r \in a + 1 .. q : text[r] # c
      PROVE  q \in a + 1 .. m - 1
  <2>1. m \notin a + 1 .. q
    BY <1>1, <1>4
  <2> QED
    BY <2>1, <1>3, <1>4
<1>2. ASSUME NEW q \in a + 1 .. m - 1
      PROVE  q \in a + 1 .. n /\ \A r \in a + 1 .. q : text[r] # c
  <2>1. \A r \in a + 1 .. q : r \in a + 1 .. m - 1
    BY <1>3, <1>4
  <2> QED
    BY <2>1, <1>3, <1>4
<1> QED
  BY <1>1, <1>2

\* When lines end, a pass over a comment takes the comment, no more.
LEMMA CommentAccounts ==
  ASSUME LexerTypeOK, LinesEnd, Comment
  PROVE  Accounts
<1> DEFINE m == Place(stream, {LineEnd})
<1>1. InText(stream) /\ tokens' = tokens
  BY DEF LexerTypeOK, Comment
<1>2. /\ Good(stream) /\ stream.pos + 1 \in 1 .. Len(stream.text)
      /\ stream.text[stream.pos + 1] = ";"
  <2>1. Next1 = ";" /\ Next1 # EOF
    BY DEF Comment, EOF
  <2> QED
    BY <1>1, <2>1, SeenIsThere DEF Next1
<1>3. stream.pos \in Nat /\ Len(stream.text) \in Nat /\ stream.pos + 1 <= Len(stream.text)
  <2>1. stream.pos \in Nat /\ Len(stream.text) \in Nat
    BY <1>1 DEF InText, Streams
  <2>2. stream.pos + 1 \in 1 .. Len(stream.text)
    BY <1>2
  <2> QED
    BY <2>1, <2>2
<1>4. Has(stream, {LineEnd})
  <2>1. stream.text # <<>>
    <3>1. stream.text = <<>> => Len(stream.text) = 0
      OBVIOUS
    <3> QED
      BY <1>3, <3>1
  <2>2. stream.text[Len(stream.text)] \in {LineEnd}
    BY <2>1 DEF LinesEnd, LineEnd
  <2>3. Len(stream.text) \in stream.pos + 1 .. Len(stream.text)
    BY <1>3
  <2> QED
    BY <2>2, <2>3 DEF Has
<1>5. /\ m \in stream.pos + 1 .. Len(stream.text) /\ stream.text[m] = LineEnd
      /\ \A q \in stream.pos + 1 .. m - 1 : stream.text[q] # LineEnd
  BY <1>1, <1>4, FirstPlace
<1>6. stream'.pos = m - 1
  <2>1. stream' = To(stream, m - 1)
    BY <1>4 DEF Comment, LineEnd
  <2> HIDE DEF m
  <2>2. m - 1 \in stream.pos .. Len(stream.text)
    BY <1>3, <1>5
  <2>3. Good(stream)
    BY <1>2
  <2> QED
    BY <1>1, <2>1, <2>2, <2>3, Moves
<1> HIDE DEF m
<1>7. CommentAt(stream.pos + 1) = stream.pos + 1 .. m - 1
  <2>1. CommentAt(stream.pos + 1) =
           {q \in stream.pos + 1 .. Len(stream.text) :
              \A r \in stream.pos + 1 .. q : stream.text[r] # LineEnd}
    BY <1>2, <1>3, Zenon DEF CommentAt, LineEnd
  <2>2. {q \in stream.pos + 1 .. Len(stream.text) :
           \A r \in stream.pos + 1 .. q : stream.text[r] # LineEnd} = stream.pos + 1 .. m - 1
    BY <1>1, <1>4, LineUpToEnd DEF m
  <2> QED
    BY <2>1, <2>2, Zenon
<1>8. Added = {}
  <2>1. Len(tokens) + 1 .. Len(tokens') = {}
    BY <1>1 DEF LexerTypeOK
  <2> QED
    BY <2>1 DEF Added
<1>9. /\ stream.pos + 1 .. m - 1 \subseteq stream.pos + 1 .. stream'.pos
      /\ {} \subseteq (stream.pos + 1 .. stream'.pos) \ (stream.pos + 1 .. m - 1)
      /\ (stream.pos + 1 .. stream'.pos) \ ({} \cup (stream.pos + 1 .. m - 1)) = {}
  BY <1>6
<1> QED
  BY <1>7, <1>8, <1>9, Zenon DEF Accounts, Added

\* Every pass of the lexer's loop accounts for what it takes from the text.
LEMMA LexAccounts ==
  ASSUME LexerTypeOK, LinesEnd, Lex
  PROVE  Accounts
<1>1. CASE Pushes
  BY <1>1, PushAccounts DEF Pushes
<1>2. CASE Rests
  <2>1. Added = {} /\ stream.pos + 1 .. stream'.pos = {}
    <3>1. Len(tokens) + 1 .. Len(tokens') = {}
      BY <1>2 DEF LexerTypeOK, Rests
    <3>2. stream.pos \in Nat /\ stream'.pos = stream.pos
      BY <1>2 DEF LexerTypeOK, InText, Streams, Rests
    <3> QED
      BY <3>1, <3>2 DEF Added
  <2> QED
    BY <1>2, <2>1 DEF Accounts, Added, Rests
<1>3. CASE Comment
  BY <1>3, CommentAccounts
<1> QED
  BY <1>1, <1>2, <1>3, LexingStep

-----------------------------------------------------------------------------
(* The parsers of operands and operations.                                   *)

ValueTypes == Numbers \cup {"Name", "String"}
ValuesIn(p, q) == {r \in p .. q : tokens[r].type \in ValueTypes}
InLine(p, q) == \A r \in p .. q : tokens[r].type # "NewLine"
Ascending(uses) == \A j, k \in DOMAIN uses : j < k => uses[j] < uses[k]
UsesOf(operand) == {operand.uses[j] : j \in DOMAIN operand.uses}

Kinds == {"Relative", "Address", "Section", "ISR", "Invalid"} \cup ValueTypes
OperandRecords == [kind : Kinds, uses : Seq(Nat), next : Nat]
Places == 1 .. Len(tokens) + 1

\* An operand that stands from p to its `next`.
Fits(operand, p) ==
  /\ operand \in OperandRecords
  /\ operand.next \in Places /\ p <= operand.next
  /\ UsesOf(operand) = ValuesIn(p, operand.next - 1)
  /\ Ascending(operand.uses)
  /\ InLine(p, operand.next - 1)

\* One type of token matches: what stands there.
LEMMA MatchOne ==
  ASSUME tokens \in Seq(Tokens), NEW p \in Nat, NEW S, Match(p, <<S>>)
  PROVE  p <= Len(tokens) /\ tokens[p].type \in S
<1>1. p + 1 - 1 <= Len(tokens) /\ tokens[p + 1 - 1].type \in S
  BY DEF Match
<1>2. p + 1 - 1 = p
  OBVIOUS
<1> QED
  BY <1>1, <1>2

\* Two types of tokens match.
LEMMA MatchTwo ==
  ASSUME tokens \in Seq(Tokens), NEW p \in Nat, NEW S, NEW T, Match(p, <<S, T>>)
  PROVE  /\ p + 1 <= Len(tokens)
         /\ tokens[p].type \in S /\ tokens[p + 1].type \in T
<1>1. /\ p + 2 - 1 <= Len(tokens)
      /\ tokens[p + 1 - 1].type \in S /\ tokens[p + 2 - 1].type \in T
  BY DEF Match
<1>2. p + 1 - 1 = p /\ p + 2 - 1 = p + 1
  OBVIOUS
<1> QED
  BY <1>1, <1>2

\* Three types of tokens match.
LEMMA MatchThree ==
  ASSUME tokens \in Seq(Tokens), NEW p \in Nat, NEW S, NEW T, NEW U, Match(p, <<S, T, U>>)
  PROVE  /\ p + 2 <= Len(tokens)
         /\ tokens[p].type \in S /\ tokens[p + 1].type \in T /\ tokens[p + 2].type \in U
<1>1. /\ p + 3 - 1 <= Len(tokens) /\ tokens[p + 1 - 1].type \in S
      /\ tokens[p + 2 - 1].type \in T /\ tokens[p + 3 - 1].type \in U
  BY DEF Match
<1>2. p + 1 - 1 = p /\ p + 2 - 1 = p + 1 /\ p + 3 - 1 = p + 2
  OBVIOUS
<1> QED
  BY <1>1, <1>2

\* Five types of tokens match.
LEMMA MatchFive ==
  ASSUME tokens \in Seq(Tokens), NEW p \in Nat, NEW S, NEW T, NEW U, NEW V, NEW W,
         Match(p, <<S, T, U, V, W>>)
  PROVE  /\ p + 4 <= Len(tokens)
         /\ tokens[p].type \in S /\ tokens[p + 1].type \in T /\ tokens[p + 2].type \in U
         /\ tokens[p + 3].type \in V /\ tokens[p + 4].type \in W
<1>1. /\ p + 5 - 1 <= Len(tokens) /\ tokens[p + 1 - 1].type \in S
      /\ tokens[p + 2 - 1].type \in T /\ tokens[p + 3 - 1].type \in U
      /\ tokens[p + 4 - 1].type \in V /\ tokens[p + 5 - 1].type \in W
  BY DEF Match
<1>2. /\ p + 1 - 1 = p /\ p + 2 - 1 = p + 1 /\ p + 3 - 1 = p + 2
      /\ p + 4 - 1 = p + 3 /\ p + 5 - 1 = p + 4
  OBVIOUS
<1> QED
  BY <1>1, <1>2

\* Types that are not those of values, and not a line end.
Signs == {"BraceOpen", "BraceClose", "Add", "Subtract", "Dot", "Hash", "Comma", "Colon",
          "Assignment"}

\* Signs are no values, and neither are line ends.
LEMMA SignsAndValues ==
  /\ \A t \in Signs : t \notin ValueTypes /\ t # "NewLine"
  /\ \A t \in ValueTypes : t # "NewLine"
  /\ Numbers \subseteq ValueTypes /\ "Name" \in ValueTypes /\ "String" \in ValueTypes
  BY DEF Signs, ValueTypes, Numbers

\* An operand that is one value, with signs around it or none.
LEMMA FitsWithOne ==
  ASSUME tokens \in Seq(Tokens), NEW p \in Places, NEW kind \in Kinds, NEW n \in 1 .. 3,
         NEW u \in p .. p + n - 1, p + n <= Len(tokens) + 1,
         tokens[u].type \in ValueTypes,
         \A q \in p .. p + n - 1 : q # u => tokens[q].type \in Signs
  PROVE  Fits(Operand(kind, <<u>>, p + n), p)
<1> DEFINE o == Operand(kind, <<u>>, p + n)
<1>1. /\ o.kind = kind /\ o.uses = <<u>> /\ o.next = p + n
      /\ o = [kind |-> kind, uses |-> <<u>>, next |-> p + n]
  BY DEF Operand
<1>2. /\ p \in Nat /\ p >= 1 /\ u \in Nat /\ p + n \in Nat /\ Len(tokens) \in Nat
      /\ p + n \in Places
  BY DEF Places
<1>3. <<u>> \in Seq(Nat) /\ DOMAIN <<u>> = {1} /\ <<u>>[1] = u
  BY <1>2
<1> HIDE DEF o
<1>4. o \in OperandRecords
  BY <1>1, <1>2, <1>3 DEF OperandRecords
<1>5. UsesOf(o) = {u}
  BY <1>1, <1>3 DEF UsesOf
<1>6. ValuesIn(p, p + n - 1) = {u}
  BY <1>2, SignsAndValues DEF ValuesIn
<1>7. Ascending(<<u>>)
  BY <1>3 DEF Ascending
<1>8. InLine(p, p + n - 1)
  BY SignsAndValues DEF InLine
<1>9. o.next \in Places /\ p <= o.next /\ o.next - 1 = p + n - 1
  BY <1>1, <1>2
<1>10. UsesOf(o) = ValuesIn(p, o.next - 1) /\ InLine(p, o.next - 1) /\ Ascending(o.uses)
  BY <1>1, <1>5, <1>6, <1>7, <1>8, <1>9
<1>11. Fits(o, p)
  BY <1>4, <1>9, <1>10 DEF Fits
<1> QED
  BY <1>11 DEF o

\* An address with an offset, [a + 1], has two values between its signs.
LEMMA FitsRelative ==
  ASSUME tokens \in Seq(Tokens), NEW p \in Places, p + 4 <= Len(tokens),
         tokens[p].type \in Signs, tokens[p + 1].type \in ValueTypes,
         tokens[p + 2].type \in Signs, tokens[p + 3].type \in ValueTypes,
         tokens[p + 4].type \in Signs
  PROVE  Fits(Operand("Relative", <<p + 1, p + 3>>, p + 5), p)
<1> DEFINE o == Operand("Relative", <<p + 1, p + 3>>, p + 5)
           uses == <<p + 1, p + 3>>
<1>1. /\ o.kind = "Relative" /\ o.uses = uses /\ o.next = p + 5
      /\ o = [kind |-> "Relative", uses |-> uses, next |-> p + 5]
  BY DEF Operand
<1>2. p \in Nat /\ p >= 1 /\ p + 5 \in Nat /\ Len(tokens) \in Nat /\ p + 5 \in Places
  BY DEF Places
<1>3. /\ uses \in Seq(Nat) /\ DOMAIN uses = {1, 2}
      /\ uses[1] = p + 1 /\ uses[2] = p + 3
  BY <1>2
<1> HIDE DEF o, uses
<1>4. o \in OperandRecords
  <2>1. "Relative" \in Kinds
    BY DEF Kinds
  <2> QED
    BY <1>1, <1>2, <1>3, <2>1 DEF OperandRecords
<1>5. UsesOf(o) = {p + 1, p + 3}
  BY <1>1, <1>3 DEF UsesOf
<1>6. \A q \in p .. p + 5 - 1 : q = p \/ q = p + 1 \/ q = p + 2 \/ q = p + 3 \/ q = p + 4
  BY <1>2
<1>7. ValuesIn(p, p + 5 - 1) = {p + 1, p + 3}
  <2>1. p + 1 \in p .. p + 5 - 1 /\ p + 3 \in p .. p + 5 - 1
    BY <1>2
  <2> QED
    BY <1>6, <2>1, SignsAndValues DEF ValuesIn
<1>8. Ascending(uses)
  BY <1>2, <1>3 DEF Ascending
<1>9. InLine(p, p + 5 - 1)
  BY <1>6, SignsAndValues DEF InLine
<1>10. o.next \in Places /\ p <= o.next /\ o.next - 1 = p + 5 - 1
  BY <1>1, <1>2
<1>11. UsesOf(o) = ValuesIn(p, o.next - 1) /\ InLine(p, o.next - 1) /\ Ascending(o.uses)
  BY <1>1, <1>5, <1>7, <1>8, <1>9, <1>10
<1>12. Fits(o, p)
  BY <1>4, <1>10, <1>11 DEF Fits
<1> QED
  BY <1>12 DEF o, uses

\* Whatever stands at p, an operand fits there, if one of no tokens.
LEMMA OperandFits ==
  ASSUME tokens \in Seq(Tokens), NEW p \in Places
  PROVE  Fits(parse_operand(p), p)
<1>1. p \in Nat /\ p >= 1 /\ Len(tokens) \in Nat
  BY DEF Places
<1>2. /\ {"Relative", "Address", "Section", "ISR", "Invalid"} \subseteq Kinds
      /\ ValueTypes \subseteq Kinds
  BY DEF Kinds
<1>3. CASE parse_address_operand(p) = 5
  <2>1. Match(p, <<{"BraceOpen"}, {"Name"}, {"Add", "Subtract"}, Numbers, {"BraceClose"}>>)
    BY <1>3 DEF parse_address_operand
  <2>2. /\ p + 4 <= Len(tokens)
        /\ tokens[p].type \in {"BraceOpen"} /\ tokens[p + 1].type \in {"Name"}
        /\ tokens[p + 2].type \in {"Add", "Subtract"} /\ tokens[p + 3].type \in Numbers
        /\ tokens[p + 4].type \in {"BraceClose"}
    BY <1>1, <2>1, MatchFive
  <2>3. /\ tokens[p].type \in Signs /\ tokens[p + 1].type \in ValueTypes
        /\ tokens[p + 2].type \in Signs /\ tokens[p + 3].type \in ValueTypes
        /\ tokens[p + 4].type \in Signs
    BY <2>2, SignsAndValues DEF Signs
  <2>4. Fits(Operand("Relative", <<p + 1, p + 3>>, p + 5), p)
    BY <2>2, <2>3, FitsRelative
  <2> QED
    BY <1>3, <2>4 DEF parse_operand
<1>4. CASE parse_address_operand(p) = 3
  <2>1. Match(p, <<{"BraceOpen"}, {"Name"} \cup Numbers, {"BraceClose"}>>)
    BY <1>4 DEF parse_address_operand
  <2>2. /\ p + 2 <= Len(tokens)
        /\ tokens[p].type \in {"BraceOpen"} /\ tokens[p + 1].type \in {"Name"} \cup Numbers
        /\ tokens[p + 2].type \in {"BraceClose"}
    BY <1>1, <2>1, MatchThree
  <2>3. /\ tokens[p].type \in Signs /\ tokens[p + 1].type \in ValueTypes
        /\ tokens[p + 2].type \in Signs
    BY <2>2, SignsAndValues DEF Signs
  <2>4. \A q \in p .. p + 3 - 1 : q = p \/ q = p + 1 \/ q = p + 2
    BY <1>1
  <2>5. p + 1 \in p .. p + 3 - 1 /\ p + 3 <= Len(tokens) + 1 /\ 3 \in 1 .. 3
    BY <1>1, <2>2
  <2>6. Fits(Operand("Address", <<p + 1>>, p + 3), p)
    BY <1>2, <2>3, <2>4, <2>5, FitsWithOne
  <2> QED
    BY <1>4, <2>6 DEF parse_operand
<1>5. CASE parse_address_operand(p) \notin {3, 5} /\ parse_section_operand(p) > 0
  <2>1. Match(p, <<{"Dot"}, {"Name"}>>)
    BY <1>5 DEF parse_section_operand
  <2>2. p + 1 <= Len(tokens) /\ tokens[p].type \in {"Dot"} /\ tokens[p + 1].type \in {"Name"}
    BY <1>1, <2>1, MatchTwo
  <2>3. tokens[p].type \in Signs /\ tokens[p + 1].type \in ValueTypes
    BY <2>2, SignsAndValues DEF Signs
  <2>4. \A q \in p .. p + 2 - 1 : q = p \/ q = p + 1
    BY <1>1
  <2>5. p + 1 \in p .. p + 2 - 1 /\ p + 2 <= Len(tokens) + 1 /\ 2 \in 1 .. 3
    BY <1>1, <2>2
  <2>6. Fits(Operand("Section", <<p + 1>>, p + 2), p)
    BY <1>2, <2>3, <2>4, <2>5, FitsWithOne
  <2> QED
    BY <1>5, <2>6 DEF parse_operand
<1>6. CASE /\ parse_address_operand(p) \notin {3, 5} /\ ~(parse_section_operand(p) > 0)
           /\ parse_isr_operand(p) > 0
  <2>1. Match(p, <<{"Hash"}, {"Name"}>>)
    BY <1>6 DEF parse_isr_operand
  <2>2. p + 1 <= Len(tokens) /\ tokens[p].type \in {"Hash"} /\ tokens[p + 1].type \in {"Name"}
    BY <1>1, <2>1, MatchTwo
  <2>3. tokens[p].type \in Signs /\ tokens[p + 1].type \in ValueTypes
    BY <2>2, SignsAndValues DEF Signs
  <2>4. \A q \in p .. p + 2 - 1 : q = p \/ q = p + 1
    BY <1>1
  <2>5. p + 1 \in p .. p + 2 - 1 /\ p + 2 <= Len(tokens) + 1 /\ 2 \in 1 .. 3
    BY <1>1, <2>2
  <2>6. Fits(Operand("ISR", <<p + 1>>, p + 2), p)
    BY <1>2, <2>3, <2>4, <2>5, FitsWithOne
  <2> QED
    BY <1>6, <2>6 DEF parse_operand
<1>7. CASE /\ parse_address_operand(p) \notin {3, 5} /\ ~(parse_section_operand(p) > 0)
           /\ ~(parse_isr_operand(p) > 0) /\ Match(p, <<ValueTypes>>)
  <2>1. p <= Len(tokens) /\ tokens[p].type \in ValueTypes
    BY <1>1, <1>7, MatchOne
  <2>2. \A q \in p .. p + 1 - 1 : q = p
    BY <1>1
  <2>3. p \in p .. p + 1 - 1 /\ p + 1 <= Len(tokens) + 1 /\ 1 \in 1 .. 3
    BY <1>1, <2>1
  <2>4. Fits(Operand(tokens[p].type, <<p>>, p + 1), p)
    BY <1>2, <2>1, <2>2, <2>3, FitsWithOne
  <2> QED
    BY <1>7, <2>4 DEF parse_operand, ValueTypes
<1>8. CASE /\ parse_address_operand(p) \notin {3, 5} /\ ~(parse_section_operand(p) > 0)
           /\ ~(parse_isr_operand(p) > 0) /\ ~Match(p, <<ValueTypes>>)
  <2> DEFINE o == Operand("Invalid", <<>>, p)
  <2>1. parse_operand(p) = o
    BY <1>8 DEF parse_operand, ValueTypes
  <2>2. o = [kind |-> "Invalid", uses |-> <<>>, next |-> p] /\ o.uses = <<>> /\ o.next = p
    BY DEF Operand
  <2> HIDE DEF o
  <2>3. o \in OperandRecords
    BY <1>1, <1>2, <2>2 DEF OperandRecords
  <2>4. UsesOf(o) = {} /\ Ascending(<<>>)
    BY <2>2 DEF UsesOf, Ascending
  <2>5. p .. p - 1 = {}
    BY <1>1
  <2>6. ValuesIn(p, p - 1) = {} /\ InLine(p, p - 1)
    BY <2>5 DEF ValuesIn, InLine
  <2>7. Fits(o, p)
    <3>1. o.next \in Places /\ p <= o.next
      BY <1>1, <2>2
    <3>2. UsesOf(o) = ValuesIn(p, o.next - 1) /\ InLine(p, o.next - 1) /\ Ascending(o.uses)
      BY <2>2, <2>4, <2>6
    <3> QED
      BY <2>3, <3>1, <3>2 DEF Fits
  <2> QED
    BY <2>1, <2>7
<1> QED
  BY <1>3, <1>4, <1>5, <1>6, <1>7, <1>8

\* Line ends are skipped, nothing else.
LEMMA SkipsNewLines ==
  ASSUME tokens \in Seq(Tokens), NEW p \in Places
  PROVE  /\ SkipNewLines(p) \in Places /\ p <= SkipNewLines(p)
         /\ \A r \in p .. SkipNewLines(p) - 1 : tokens[r].type = "NewLine"
<1>1. p \in Nat /\ p >= 1 /\ Len(tokens) \in Nat
  BY DEF Places
<1> DEFINE T == {q \in p .. Len(tokens) + 1 : ~Match(q, <<{"NewLine"}>>)}
<1>2. Len(tokens) + 1 \in T
  <2>1. ~Match(Len(tokens) + 1, <<{"NewLine"}>>)
    <3>1. ~(Len(tokens) + 1 <= Len(tokens)) /\ Len(tokens) + 1 \in Nat
      BY <1>1
    <3> QED
      BY <3>1, MatchOne
  <2>2. Len(tokens) + 1 \in p .. Len(tokens) + 1
    BY <1>1 DEF Places
  <2> QED
    BY <2>1, <2>2
<1>3. T \in SUBSET Nat
  BY <1>1
<1>4. PICK m \in T : \A n \in T : m <= n
  BY <1>2, <1>3, LeastNatural
<1>5. ASSUME NEW r \in p .. m - 1 PROVE tokens[r].type = "NewLine"
  <2>1. r \in p .. Len(tokens) + 1 /\ ~(m <= r) /\ r \in Nat
    BY <1>1, <1>3
  <2>2. Match(r, <<{"NewLine"}>>)
    BY <1>4, <2>1
  <2> QED
    BY <2>1, <2>2, MatchOne
<1>6. \E q \in p .. Len(tokens) + 1 :
        ~Match(q, <<{"NewLine"}>>) /\ \A r \in p .. q - 1 : tokens[r].type = "NewLine"
  BY <1>5
<1>7. /\ SkipNewLines(p) \in p .. Len(tokens) + 1
      /\ \A r \in p .. SkipNewLines(p) - 1 : tokens[r].type = "NewLine"
  BY <1>6, Zenon DEF SkipNewLines
<1> QED
  BY <1>1, <1>7 DEF Places

-----------------------------------------------------------------------------
(* Operations.                                                               *)

Nodes ==
  [node : {"Assignment", "Directive", "Label", "Instruction"}, name : Nat,
   operands : Seq(OperandRecords)]

InOrder(operation) ==
  /\ \A i, j \in 0 .. Len(operation.operands) :
        i < j => Precede(Positions(operation, i), Positions(operation, j))
  /\ \A i \in DOMAIN operation.operands : Ascending(operation.operands[i].uses)

\* An operation that takes what stands from p up to q.
Spans(operation, p, q) ==
  /\ operation \in Nodes
  /\ p \in Places /\ q \in Places /\ p < q
  /\ operation.name = p
  /\ Uses(operation) = ValuesIn(p, q - 1)
  /\ InOrder(operation)
  /\ InLine(p, q - 1)

WithinLine(operation) ==
  \A q \in Uses(operation) : \A r \in operation.name .. q : tokens[r].type # "NewLine"

\* Operations that take what stands up to p.
Reads(operations, p) ==
  /\ operations \in Seq(Nodes)
  /\ p \in Places
  /\ UNION {Uses(operations[m]) : m \in DOMAIN operations} = ValuesIn(1, p - 1)
  /\ \A m, n \in DOMAIN operations :
        m < n => Precede(Uses(operations[m]), Uses(operations[n]))
  /\ \A m \in DOMAIN operations : InOrder(operations[m]) /\ WithinLine(operations[m])

\* What is said of the operations read up to the position is this.
LEMMA ReadsMeans ==
  ASSUME Reads(members, index)
  PROVE  ValuesUsedOnce /\ OperationsWithinLines
<1>1. ValuesUsedOnce
  BY DEF Reads, ValuesUsedOnce, ValuesIn, ValueTypes, InOrder, Ascending
<1>2. OperationsWithinLines
  BY DEF Reads, OperationsWithinLines, WithinLine
<1> QED
  BY <1>1, <1>2

\* The values between two places, taken apart at a third.
LEMMA ValuesApart ==
  ASSUME NEW p \in Nat, NEW q \in Nat, NEW r \in Nat, p <= q, q <= r
  PROVE  ValuesIn(p, r - 1) = ValuesIn(p, q - 1) \cup ValuesIn(q, r - 1)
  BY DEF ValuesIn

\* Nothing but tokens that are no values is passed over.
LEMMA ReadsFurther ==
  ASSUME tokens \in Seq(Tokens), NEW operations, NEW p, Reads(operations, p),
         NEW q \in Places, p <= q, \A r \in p .. q - 1 : tokens[r].type \notin ValueTypes
  PROVE  Reads(operations, q)
<1>1. p \in Nat /\ q \in Nat /\ 1 <= p
  BY DEF Reads, Places
<1>2. ValuesIn(p, q - 1) = {}
  BY DEF ValuesIn
<1>3. ValuesIn(1, q - 1) = ValuesIn(1, p - 1)
  <2>1. ValuesIn(1, q - 1) = ValuesIn(1, p - 1) \cup ValuesIn(p, q - 1)
    BY <1>1, ValuesApart
  <2> QED
    BY <1>2, <2>1, Zenon
<1> QED
  BY <1>3 DEF Reads

\* An operation takes signs behind it along.
LEMMA SpansFurther ==
  ASSUME tokens \in Seq(Tokens), NEW operation, NEW p, NEW q, Spans(operation, p, q),
         NEW s \in Places, q <= s, \A r \in q .. s - 1 : tokens[r].type \in Signs
  PROVE  Spans(operation, p, s)
<1>1. p \in Nat /\ q \in Nat /\ s \in Nat /\ p < q
  BY DEF Spans, Places
<1>2. ValuesIn(q, s - 1) = {} /\ InLine(q, s - 1)
  BY SignsAndValues DEF ValuesIn, InLine
<1>3. ValuesIn(p, s - 1) = ValuesIn(p, q - 1)
  <2>1. ValuesIn(p, s - 1) = ValuesIn(p, q - 1) \cup ValuesIn(q, s - 1)
    BY <1>1, ValuesApart
  <2> QED
    BY <1>2, <2>1, Zenon
<1>4. InLine(p, s - 1)
  BY <1>1, <1>2 DEF Spans, InLine
<1> QED
  BY <1>1, <1>3, <1>4 DEF Spans

\* An operation that has its name only.
LEMMA SpansName ==
  ASSUME tokens \in Seq(Tokens), NEW p \in Places, p <= Len(tokens),
         tokens[p].type = "Name",
         NEW node \in {"Assignment", "Directive", "Label", "Instruction"}
  PROVE  Spans(Node(node, p, <<>>), p, p + 1)
<1> DEFINE o == Node(node, p, <<>>)
<1>1. o = [node |-> node, name |-> p, operands |-> <<>>]
  BY DEF Node
<1>2. o.name = p /\ o.operands = <<>> /\ o.node = node
  BY <1>1
<1>3. p \in Nat /\ p >= 1 /\ p + 1 \in Places /\ Len(tokens) \in Nat
  BY DEF Places
<1> HIDE DEF o
<1>4. o \in Nodes
  BY <1>1, <1>3 DEF Nodes
<1>5. Uses(o) = {p}
  <2>1. 0 .. Len(o.operands) = {0}
    BY <1>2
  <2>2. Positions(o, 0) = {p}
    BY <1>2 DEF Positions
  <2> QED
    BY <2>1, <2>2 DEF Uses
<1>6. p .. p + 1 - 1 = {p}
  BY <1>3
<1>7. ValuesIn(p, p + 1 - 1) = {p} /\ InLine(p, p + 1 - 1)
  BY <1>6, SignsAndValues DEF ValuesIn, InLine
<1>8. InOrder(o)
  BY <1>2 DEF InOrder
<1>9. Spans(o, p, p + 1)
  BY <1>2, <1>3, <1>4, <1>5, <1>7, <1>8 DEF Spans
<1> QED
  BY <1>9 DEF o

\* An operand joins the operation it stands behind.
LEMMA OperandJoins ==
  ASSUME tokens \in Seq(Tokens), NEW operation, NEW p, NEW q, Spans(operation, p, q),
         NEW o, Fits(o, q)
  PROVE  Spans([operation EXCEPT !.operands = Append(@, o)], p, o.next)
<1> DEFINE n == Len(operation.operands)
           longer == [operation EXCEPT !.operands = Append(@, o)]
<1>1. /\ operation \in Nodes /\ operation.operands \in Seq(OperandRecords) /\ n \in Nat
      /\ o \in OperandRecords
  BY DEF Spans, Fits, Nodes
<1>2. /\ longer \in Nodes /\ longer.name = operation.name /\ longer.node = operation.node
      /\ longer.operands = Append(operation.operands, o)
  <2> DEFINE all == Append(operation.operands, o)
  <2>1. all \in Seq(OperandRecords)
    BY <1>1
  <2>2. longer = [operation EXCEPT !.operands = all]
    OBVIOUS
  <2> HIDE DEF all, longer
  <2>3. longer \in Nodes
    BY <1>1, <2>1, <2>2 DEF Nodes
  <2>4. longer.name = operation.name /\ longer.node = operation.node /\ longer.operands = all
    BY <1>1, <2>2 DEF Nodes
  <2> QED
    BY <2>3, <2>4 DEF all
<1>3. /\ Len(longer.operands) = n + 1 /\ longer.operands[n + 1] = o
      /\ \A i \in 1 .. n : longer.operands[i] = operation.operands[i]
      /\ DOMAIN longer.operands = 1 .. n + 1 /\ DOMAIN operation.operands = 1 .. n
  BY <1>1, <1>2
<1>4. /\ p \in Nat /\ q \in Nat /\ o.next \in Nat /\ p < q /\ q <= o.next /\ 1 <= p
      /\ p \in Places /\ o.next \in Places
  BY DEF Spans, Fits, Places
<1> HIDE DEF longer, n
<1>5. \A i \in 0 .. n : Positions(longer, i) = Positions(operation, i)
  <2>1. ASSUME NEW i \in 0 .. n PROVE Positions(longer, i) = Positions(operation, i)
    <3>1. CASE i = 0
      BY <1>2, <3>1 DEF Positions
    <3>2. CASE i # 0
      <4>1. i \in 1 .. n
        BY <1>1, <3>2 DEF n
      <4>2. longer.operands[i] = operation.operands[i]
        BY <1>3, <4>1
      <4> QED
        BY <3>2, <4>2 DEF Positions
    <3> QED
      BY <3>1, <3>2
  <2> QED
    BY <2>1
<1>6. Positions(longer, n + 1) = UsesOf(o)
  BY <1>1, <1>3 DEF Positions, UsesOf
<1>7. 0 .. n + 1 = (0 .. n) \cup {n + 1}
  BY <1>1
<1>8. Uses(longer) = Uses(operation) \cup UsesOf(o)
  <2>1. Uses(longer) = UNION {Positions(longer, i) : i \in 0 .. n + 1}
    BY <1>3 DEF Uses
  <2>2. Uses(operation) = UNION {Positions(operation, i) : i \in 0 .. n}
    BY DEF Uses, n
  <2> QED
    BY <1>5, <1>6, <1>7, <2>1, <2>2
<1>9. Uses(operation) = ValuesIn(p, q - 1) /\ UsesOf(o) = ValuesIn(q, o.next - 1)
  BY DEF Spans, Fits
<1>10. Uses(longer) = ValuesIn(p, o.next - 1)
  <2>1. ValuesIn(p, o.next - 1) = ValuesIn(p, q - 1) \cup ValuesIn(q, o.next - 1)
    BY <1>4, ValuesApart
  <2> QED
    BY <1>8, <1>9, <2>1, Zenon
<1>11. InOrder(longer)
  <2>1. ASSUME NEW i \in 0 .. n + 1, NEW j \in 0 .. n + 1, i < j
        PROVE  Precede(Positions(longer, i), Positions(longer, j))
    <3>1. i \in 0 .. n
      BY <1>1, <2>1
    <3>2. CASE j \in 0 .. n
      BY <1>5, <2>1, <3>1, <3>2 DEF Spans, InOrder, n
    <3>3. CASE j = n + 1
      <4>1. Positions(operation, i) \subseteq ValuesIn(p, q - 1)
        BY <1>9, <3>1 DEF Uses, n
      <4>2. Precede(ValuesIn(p, q - 1), ValuesIn(q, o.next - 1))
        BY <1>4 DEF Precede, ValuesIn
      <4>3. Precede(Positions(operation, i), UsesOf(o))
        BY <1>9, <4>1, <4>2 DEF Precede
      <4> QED
        BY <1>5, <1>6, <3>1, <3>3, <4>3
    <3> QED
      BY <1>7, <3>2, <3>3
  <2>2. ASSUME NEW i \in 1 .. n + 1 PROVE Ascending(longer.operands[i].uses)
    <3>1. CASE i \in 1 .. n
      <4>1. longer.operands[i] = operation.operands[i] /\ i \in DOMAIN operation.operands
        BY <1>3, <3>1
      <4> QED
        BY <4>1 DEF Spans, InOrder
    <3>2. CASE i = n + 1
      BY <1>3, <3>2 DEF Fits
    <3> QED
      BY <1>1, <3>1, <3>2
  <2> QED
    BY <1>3, <2>1, <2>2 DEF InOrder
<1>12. InLine(p, o.next - 1)
  BY <1>4 DEF InLine, Spans, Fits
<1>13. Spans(longer, p, o.next)
  BY <1>2, <1>4, <1>10, <1>11, <1>12 DEF Spans
<1> QED
  BY <1>13 DEF longer

\* An operation is read behind those before it.
LEMMA OperationJoins ==
  ASSUME tokens \in Seq(Tokens), NEW operations, NEW operation, NEW p, NEW q,
         Reads(operations, p), Spans(operation, p, q)
  PROVE  Reads(Append(operations, operation), q)
<1> DEFINE n == Len(operations)
           more == Append(operations, operation)
<1>1. /\ operations \in Seq(Nodes) /\ operation \in Nodes /\ n \in Nat
      /\ p \in Nat /\ q \in Nat /\ 1 <= p /\ p < q /\ q \in Places
  BY DEF Reads, Spans, Places
<1>2. /\ more \in Seq(Nodes) /\ DOMAIN more = 1 .. n + 1 /\ DOMAIN operations = 1 .. n
      /\ more[n + 1] = operation /\ \A m \in 1 .. n : more[m] = operations[m]
  BY <1>1
<1> HIDE DEF n, more
<1>3. 1 .. n + 1 = (1 .. n) \cup {n + 1}
  BY <1>1
<1>4. UNION {Uses(more[m]) : m \in DOMAIN more} =
         (UNION {Uses(operations[m]) : m \in DOMAIN operations}) \cup Uses(operation)
  BY <1>2, <1>3
<1>5. /\ UNION {Uses(operations[m]) : m \in DOMAIN operations} = ValuesIn(1, p - 1)
      /\ Uses(operation) = ValuesIn(p, q - 1)
  BY DEF Reads, Spans
<1>6. UNION {Uses(more[m]) : m \in DOMAIN more} = ValuesIn(1, q - 1)
  <2>1. ValuesIn(1, q - 1) = ValuesIn(1, p - 1) \cup ValuesIn(p, q - 1)
    BY <1>1, ValuesApart
  <2> QED
    BY <1>4, <1>5, <2>1, Zenon
<1>7. ASSUME NEW k \in DOMAIN more, NEW m \in DOMAIN more, k < m
      PROVE  Precede(Uses(more[k]), Uses(more[m]))
  <2>1. k \in 1 .. n
    BY <1>1, <1>2, <1>7
  <2>2. CASE m \in 1 .. n
    BY <1>2, <1>7, <2>1, <2>2 DEF Reads
  <2>3. CASE m = n + 1
    <3>1. Uses(operations[k]) \subseteq ValuesIn(1, p - 1)
      BY <1>2, <1>5, <2>1
    <3>2. Precede(ValuesIn(1, p - 1), ValuesIn(p, q - 1))
      BY <1>1 DEF Precede, ValuesIn
    <3>3. Precede(Uses(operations[k]), Uses(operation))
      BY <1>5, <3>1, <3>2 DEF Precede
    <3> QED
      BY <1>2, <2>1, <2>3, <3>3
  <2> QED
    BY <1>2, <1>3, <2>2, <2>3
<1>8. InOrder(operation) /\ WithinLine(operation)
  <2>1. \A r \in ValuesIn(p, q - 1) : r \in p .. q - 1
    BY DEF ValuesIn
  <2>2. operation.name = p /\ InLine(p, q - 1) /\ InOrder(operation)
    BY DEF Spans
  <2>3. ASSUME NEW r \in Uses(operation), NEW s \in p .. r
        PROVE  tokens[s].type # "NewLine"
    <3>1. r \in p .. q - 1
      BY <1>5, <2>1, <2>3
    <3>2. s \in p .. q - 1
      BY <1>1, <3>1
    <3> QED
      BY <2>2, <3>2 DEF InLine
  <2> QED
    BY <2>2, <2>3 DEF WithinLine
<1>9. ASSUME NEW m \in DOMAIN more PROVE InOrder(more[m]) /\ WithinLine(more[m])
  <2>1. CASE m \in 1 .. n
    BY <1>2, <2>1 DEF Reads
  <2>2. CASE m = n + 1
    BY <1>2, <1>8, <2>2
  <2> QED
    BY <1>2, <1>3, <2>1, <2>2
<1>10. Reads(more, q)
  BY <1>1, <1>2, <1>6, <1>7, <1>9 DEF Reads
<1> QED
  BY <1>10 DEF more

-----------------------------------------------------------------------------
(* The invariant.                                                            *)

\* The last operation still gets operands, up to the position.
Growing ==
  \E before \in Seq(Nodes), operation \in Nodes :
    /\ members = Append(before, operation)
    /\ Reads(before, operation.name)
    /\ Spans(operation, operation.name, index)

ReadingInv ==
  /\ LexerTypeOK
  /\ phase \in {"lexing", "comment", "parsing", "operands", "error", "done"}
  /\ phase \in {"lexing", "comment"} => index = 1 /\ members = <<>>
  /\ phase # "operands" => Reads(members, index)
  /\ phase = "operands" => Growing

\* In either case the operations take what stands up to the position.
LEMMA GrowingReads ==
  ASSUME ReadingInv
  PROVE  Reads(members, index)
<1>1. CASE Growing
  <2>1. PICK before \in Seq(Nodes), operation \in Nodes :
           /\ members = Append(before, operation)
           /\ Reads(before, operation.name)
           /\ Spans(operation, operation.name, index)
    BY <1>1 DEF Growing
  <2>2. tokens \in Seq(Tokens)
    BY DEF ReadingInv, LexerTypeOK
  <2> QED
    BY <2>1, <2>2, OperationJoins
<1> QED
  BY <1>1 DEF ReadingInv

\* The step of a parser leaves the tokens as they are, and what is said of
\* them too.
LEMMA SameTokens ==
  ASSUME UNCHANGED tokens
  PROVE  /\ Reads(members, index)' <=> Reads(members', index')
         /\ Growing' <=>
               \E before \in Seq(Nodes), operation \in Nodes :
                  /\ members' = Append(before, operation)
                  /\ Reads(before, operation.name)
                  /\ Spans(operation, operation.name, index')
<1>1. Reads(members, index)' <=> Reads(members', index')
  BY DEF Reads, Places, ValuesIn, WithinLine
<1>2. ASSUME NEW before, NEW operation
      PROVE  /\ Reads(before, operation.name)' <=> Reads(before, operation.name)
             /\ Spans(operation, operation.name, index)' <=>
                   Spans(operation, operation.name, index')
  BY DEF Reads, Places, ValuesIn, WithinLine, Spans, InLine
<1> QED
  BY <1>1, <1>2 DEF Growing

\* No operations take nothing.
LEMMA NothingRead ==
  ASSUME tokens' \in Seq(Tokens), members' = <<>>, index' = 1
  PROVE  Reads(members, index)'
<1>1. 1 \in 1 .. Len(tokens') + 1
  BY DEF Places
<1>2. {r \in 1 .. 1 - 1 : tokens'[r].type \in ValueTypes} = {}
  OBVIOUS
<1> QED
  BY <1>1, <1>2 DEF Reads, Places, ValuesIn

\* The lexer's steps are taken while it runs, and end its phase or leave it.
LEMMA LexPhases ==
  ASSUME Lex
  PROVE  phase = "lexing" /\ phase' \in {"lexing", "comment", "parsing", "error"}
<1>1. CASE PunctuationToken
  BY <1>1, Zenon DEF PunctuationToken, Looks, Push
<1>2. CASE StringToken
  BY <1>2, Zenon DEF StringToken, Looks, Push, Error
<1>3. CASE ColonToken
  BY <1>3, Zenon DEF ColonToken, Looks, Push
<1>4. CASE Comment
  BY <1>4, Zenon DEF Comment, Looks
<1>5. CASE NumberToken
  BY <1>5, Zenon DEF NumberToken, Looks, Push
<1>6. CASE WordToken
  BY <1>6, Zenon DEF WordToken, Looks, Push
<1>7. CASE InvalidToken
  BY <1>7, Zenon DEF InvalidToken, Looks, Error
<1>8. CASE EndOfText
  BY <1>8 DEF EndOfText
<1> QED
  BY <1>1, <1>2, <1>3, <1>4, <1>5, <1>6, <1>7, <1>8 DEF Lex

\* A pass of the lexer's loop keeps the invariant.
LEMMA LexKeeps ==
  ASSUME ReadingInv, Lex, UNCHANGED <<index, members>>
  PROVE  ReadingInv'
<1>1. phase = "lexing" /\ phase' \in {"lexing", "comment", "parsing", "error"}
  BY LexPhases
<1>2. LexerTypeOK'
  BY LexTypes DEF ReadingInv
<1>3. index' = 1 /\ members' = <<>>
  BY <1>1 DEF ReadingInv
<1>4. Reads(members, index)'
  BY <1>2, <1>3, NothingRead DEF LexerTypeOK
<1> QED
  BY <1>1, <1>2, <1>3, <1>4 DEF ReadingInv

\* An operation takes a sign behind it.
LEMMA TakesSign ==
  ASSUME tokens \in Seq(Tokens), NEW operation, NEW p, NEW q, Spans(operation, p, q),
         q <= Len(tokens), tokens[q].type \in Signs, NEW s, s = q + 1
  PROVE  Spans(operation, p, s)
<1>1. q \in Nat /\ q \in Places /\ Len(tokens) \in Nat
  BY DEF Spans, Places
<1>2. s \in Places /\ q <= s /\ q .. s - 1 = {q}
  BY <1>1 DEF Places
<1> QED
  BY <1>2, SpansFurther

\* Operations read up to line ends are read up to what is behind these.
LEMMA LinesSkipped ==
  ASSUME tokens \in Seq(Tokens), NEW operations, NEW p, Reads(operations, p)
  PROVE  Reads(operations, SkipNewLines(p)) /\ SkipNewLines(p) \in Places
<1>1. p \in Places
  BY DEF Reads
<1>2. /\ SkipNewLines(p) \in Places /\ p <= SkipNewLines(p)
      /\ \A r \in p .. SkipNewLines(p) - 1 : tokens[r].type = "NewLine"
  BY <1>1, SkipsNewLines
<1>3. \A r \in p .. SkipNewLines(p) - 1 : tokens[r].type \notin ValueTypes
  BY <1>2, SignsAndValues
<1> QED
  BY <1>2, <1>3, ReadsFurther

\* An operation that is read as a whole keeps the invariant.
LEMMA PushKeeps ==
  ASSUME ReadingInv, phase = "parsing", NEW p, Reads(members, p),
         NEW operation, NEW q, Spans(operation, p, q), Push_operation(operation, q)
  PROVE  ReadingInv'
<1>1. /\ LexerTypeOK /\ tokens \in Seq(Tokens)
      /\ members' = Append(members, operation) /\ index' = SkipNewLines(q)
      /\ UNCHANGED tokens /\ UNCHANGED stream /\ phase' = "parsing"
  BY DEF ReadingInv, LexerTypeOK, Push_operation
<1>2. Reads(members', q)
  BY <1>1, OperationJoins
<1>3. Reads(members', index')
  BY <1>1, <1>2, LinesSkipped
<1>4. Reads(members, index)'
  BY <1>1, <1>3, SameTokens
<1>5. LexerTypeOK'
  BY <1>1 DEF LexerTypeOK
<1> QED
  BY <1>1, <1>4, <1>5 DEF ReadingInv

\* A mnemonic is read; its operands are read next.
LEMMA WithOperandsKeeps ==
  ASSUME ReadingInv, phase = "parsing", NEW p, Reads(members, p), p <= Len(tokens),
         tokens[p].type = "Name", NEW node \in {"Directive", "Instruction"},
         WithOperands(node, p)
  PROVE  ReadingInv'
<1>1. LexerTypeOK /\ tokens \in Seq(Tokens) /\ p \in Places /\ members \in Seq(Nodes)
  BY DEF ReadingInv, LexerTypeOK, Reads
<1>2. Spans(Node(node, p, <<>>), p, p + 1)
  BY <1>1, SpansName
<1>3. CASE Match(p + 1, <<{"NewLine"}>>)
  <2>1. Push_operation(Node(node, p, <<>>), p + 1)
    BY <1>3 DEF WithOperands
  <2> QED
    BY <1>2, <2>1, PushKeeps
<1>4. CASE ~Match(p + 1, <<{"NewLine"}>>)
  <2> DEFINE operation == Node(node, p, <<>>)
  <2>1. /\ members' = Append(members, operation) /\ index' = p + 1
        /\ phase' = "operands" /\ UNCHANGED tokens /\ UNCHANGED stream
    BY <1>4 DEF WithOperands
  <2>2. Spans(operation, p, p + 1)
    BY <1>2
  <2> HIDE DEF operation
  <2>3. operation.name = p /\ operation \in Nodes
    BY <2>2 DEF Spans
  <2>4. \E before \in Seq(Nodes), op \in Nodes :
           /\ members' = Append(before, op)
           /\ Reads(before, op.name)
           /\ Spans(op, op.name, index')
    BY <1>1, <2>1, <2>2, <2>3
  <2>5. Growing'
    BY <2>1, <2>4, SameTokens
  <2>6. LexerTypeOK'
    BY <1>1, <2>1 DEF LexerTypeOK
  <2> QED
    BY <2>1, <2>5, <2>6 DEF ReadingInv
<1> QED
  BY <1>3, <1>4

\* Each alternative of parse_operation keeps the invariant.
LEMMA OperationKeeps ==
  ASSUME ReadingInv, ParseOperation
  PROVE  ReadingInv'
<1> DEFINE p == SkipNewLines(index)
<1>1. /\ LexerTypeOK /\ tokens \in Seq(Tokens) /\ phase = "parsing"
      /\ Reads(members, index)
  BY DEF ReadingInv, LexerTypeOK, ParseOperation
<1>2. Reads(members, p) /\ p \in Places /\ p \in Nat
  BY <1>1, LinesSkipped DEF Places
<1>3. parse_assignment(p) \/ parse_directive(p) \/ parse_label(p) \/ parse_instruction(p)
  BY DEF ParseOperation
<1> HIDE DEF p
<1>4. CASE parse_assignment(p)
  <2> DEFINE operand == parse_operand(p + 2)
             name == Node("Assignment", p, <<>>)
  <2>1. IsAssignment(p) /\ Push_operation(Node("Assignment", p, <<operand>>), operand.next)
    BY <1>4 DEF parse_assignment
  <2>2. /\ p + 1 <= Len(tokens) /\ tokens[p].type = "Name"
        /\ tokens[p + 1].type = "Assignment"
    BY <1>1, <1>2, <2>1, MatchTwo DEF IsAssignment
  <2>3. Len(tokens) \in Nat /\ p + 2 \in Places /\ p <= Len(tokens) /\ p + 1 \in Nat
    BY <1>1, <1>2, <2>2 DEF Places
  <2>4. Spans(name, p, p + 1)
    BY <1>1, <1>2, <2>2, <2>3, SpansName
  <2>5. tokens[p + 1].type \in Signs /\ p + 2 = (p + 1) + 1
    BY <1>2, <2>2 DEF Signs
  <2>6. Spans(name, p, p + 2)
    <3> HIDE DEF name
    <3> QED
      BY <1>1, <2>2, <2>4, <2>5, TakesSign
  <2>7. Fits(operand, p + 2)
    BY <1>1, <2>3, OperandFits
  <2>8. [name EXCEPT !.operands = Append(@, operand)] = Node("Assignment", p, <<operand>>)
    <3> HIDE DEF operand
    <3>1. Append(<<>>, operand) = <<operand>>
      OBVIOUS
    <3> QED
      BY <3>1 DEF Node
  <2>9. Spans(Node("Assignment", p, <<operand>>), p, operand.next)
    <3>1. Spans([name EXCEPT !.operands = Append(@, operand)], p, operand.next)
      <4> HIDE DEF name, operand
      <4> QED
        BY <1>1, <2>6, <2>7, OperandJoins
    <3> QED
      BY <2>8, <3>1, Zenon
  <2> HIDE DEF operand, name
  <2> QED
    BY <1>1, <1>2, <2>1, <2>9, PushKeeps
<1>5. CASE parse_directive(p)
  <2>1. IsDirective(p) /\ WithOperands("Directive", p + 1)
    BY <1>5 DEF parse_directive
  <2>2. p + 1 <= Len(tokens) /\ tokens[p].type = "Dot" /\ tokens[p + 1].type = "Name"
    BY <1>1, <1>2, <2>1, MatchTwo DEF IsDirective
  <2>3. Len(tokens) \in Nat /\ p + 1 \in Places /\ p <= p + 1
    BY <1>1, <1>2, <2>2 DEF Places
  <2>4. \A r \in p .. p + 1 - 1 : tokens[r].type \notin ValueTypes
    <3>1. p .. p + 1 - 1 = {p}
      BY <1>2
    <3> QED
      BY <2>2, <3>1, SignsAndValues DEF Signs
  <2>5. Reads(members, p + 1)
    BY <1>1, <1>2, <2>3, <2>4, ReadsFurther
  <2> QED
    BY <1>1, <2>1, <2>2, <2>5, WithOperandsKeeps
<1>6. CASE parse_label(p)
  <2>1. IsLabel(p) /\ Push_operation(Node("Label", p, <<>>), p + 2)
    BY <1>6 DEF parse_label
  <2>2. /\ p + 1 <= Len(tokens) /\ tokens[p].type = "Name"
        /\ tokens[p + 1].type = "Colon"
    BY <1>1, <1>2, <2>1, MatchTwo DEF IsLabel
  <2>3. Len(tokens) \in Nat /\ p + 2 \in Places /\ p <= Len(tokens) /\ p + 1 <= p + 2
    BY <1>1, <1>2, <2>2 DEF Places
  <2>4. Spans(Node("Label", p, <<>>), p, p + 1)
    BY <1>1, <1>2, <2>2, <2>3, SpansName
  <2>5. tokens[p + 1].type \in Signs /\ p + 2 = (p + 1) + 1
    BY <1>2, <2>2 DEF Signs
  <2> DEFINE label == Node("Label", p, <<>>)
  <2>6. Spans(label, p, p + 1) /\ Push_operation(label, p + 2)
    BY <2>1, <2>4
  <2> HIDE DEF label
  <2>7. Spans(label, p, p + 2)
    BY <1>1, <2>2, <2>5, <2>6, TakesSign
  <2> QED
    BY <1>1, <1>2, <2>6, <2>7, PushKeeps
<1>7. CASE parse_instruction(p)
  <2>1. IsInstruction(p) /\ WithOperands("Instruction", p)
    BY <1>7 DEF parse_instruction
  <2>2. p <= Len(tokens) /\ tokens[p].type = "Name"
    BY <1>1, <1>2, <2>1, MatchOne DEF IsInstruction
  <2> QED
    BY <1>1, <1>2, <2>1, <2>2, WithOperandsKeeps
<1> QED
  BY <1>3, <1>4, <1>5, <1>6, <1>7

\* An operand is added to the last operation.
LEMMA LastGrows ==
  ASSUME NEW before \in Seq(Nodes), NEW operation \in Nodes,
         members = Append(before, operation), NEW operand \in OperandRecords,
         AddOperand(operand)
  PROVE  members' = Append(before, [operation EXCEPT !.operands = Append(@, operand)])
<1> DEFINE n == Len(before)
           longer == [operation EXCEPT !.operands = Append(@, operand)]
<1>1. /\ members \in Seq(Nodes) /\ Len(members) = n + 1 /\ n \in Nat
      /\ members[n + 1] = operation /\ \A m \in 1 .. n : members[m] = before[m]
  OBVIOUS
<1>2. members' = [members EXCEPT ![n + 1] = longer]
  BY <1>1 DEF AddOperand
<1>3. longer \in Nodes
  <2> DEFINE all == Append(operation.operands, operand)
  <2>1. all \in Seq(OperandRecords)
    BY DEF Nodes
  <2>2. longer = [operation EXCEPT !.operands = all]
    OBVIOUS
  <2> HIDE DEF all, longer
  <2> QED
    BY <2>1, <2>2 DEF Nodes
<1> HIDE DEF longer, n
<1>4. /\ members' \in Seq(Nodes) /\ Len(members') = n + 1
      /\ members'[n + 1] = longer /\ \A m \in 1 .. n : members'[m] = before[m]
  <2>1. DOMAIN members = 1 .. n + 1 /\ n + 1 \in 1 .. n + 1
    BY <1>1
  <2>2. members' \in Seq(Nodes) /\ Len(members') = n + 1
    BY <1>1, <1>2, <1>3
  <2>3. members'[n + 1] = longer
    BY <1>2, <2>1
  <2>4. ASSUME NEW m \in 1 .. n PROVE members'[m] = before[m]
    <3>1. m \in 1 .. n + 1 /\ m # n + 1
      BY <1>1
    <3> QED
      BY <1>1, <1>2, <2>1, <3>1
  <2> QED
    BY <2>2, <2>3, <2>4
<1> USE DEF n
<1>5. /\ Append(before, longer) \in Seq(Nodes) /\ Len(Append(before, longer)) = n + 1
      /\ Append(before, longer)[n + 1] = longer
      /\ \A m \in 1 .. n : Append(before, longer)[m] = before[m]
  BY <1>3
<1>6. members' = Append(before, longer)
  <2> DEFINE other == Append(before, longer)
  <2>1. \A m \in 1 .. n + 1 : members'[m] = other[m]
    BY <1>1, <1>4, <1>5
  <2>2. other \in Seq(Nodes) /\ Len(other) = Len(members')
    BY <1>4, <1>5
  <2> HIDE DEF other, n
  <2> QED
    BY <1>4, <2>1, <2>2, SeqEqual DEF other
<1> QED
  BY <1>6 DEF longer

\* Each operand keeps the invariant, followed by a comma or not.
LEMMA OperandKeeps ==
  ASSUME ReadingInv, ParseOperand
  PROVE  ReadingInv'
<1> DEFINE operand == parse_operand(index)
<1>1. /\ LexerTypeOK /\ tokens \in Seq(Tokens) /\ phase = "operands" /\ Growing
      /\ AddOperand(operand) /\ UNCHANGED stream /\ UNCHANGED tokens
  BY DEF ReadingInv, LexerTypeOK, ParseOperand
<1>2. PICK before \in Seq(Nodes), operation \in Nodes :
         /\ members = Append(before, operation)
         /\ Reads(before, operation.name)
         /\ Spans(operation, operation.name, index)
  BY <1>1 DEF Growing
<1>3. Fits(operand, index)
  <2>1. index \in Places
    BY <1>2 DEF Spans
  <2> QED
    BY <1>1, <2>1, OperandFits
<1>4. \/ Match(operand.next, <<{"Comma"}>>) /\ index' = operand.next + 1 /\ phase' = phase
      \/ index' = SkipNewLines(operand.next) /\ phase' = "parsing"
  BY DEF ParseOperand
<1> HIDE DEF operand
<1> DEFINE longer == [operation EXCEPT !.operands = Append(@, operand)]
<1>5. members' = Append(before, longer)
  BY <1>1, <1>2, <1>3, LastGrows DEF Fits
<1>6. Spans(longer, operation.name, operand.next)
  BY <1>1, <1>2, <1>3, OperandJoins
<1> HIDE DEF longer
<1>7. longer \in Nodes /\ longer.name = operation.name
  BY <1>6 DEF Spans
<1>8. LexerTypeOK'
  BY <1>1 DEF LexerTypeOK
<1>9. CASE Match(operand.next, <<{"Comma"}>>) /\ index' = operand.next + 1 /\ phase' = phase
  <2>1. operand.next \in Nat
    BY <1>3 DEF Fits, Places
  <2>2. operand.next <= Len(tokens) /\ tokens[operand.next].type \in Signs
    BY <1>1, <1>9, <2>1, MatchOne DEF Signs
  <2>3. Spans(longer, operation.name, index')
    BY <1>1, <1>6, <1>9, <2>2, TakesSign
  <2>4. Growing'
    BY <1>1, <1>2, <1>5, <1>7, <2>3, SameTokens
  <2> QED
    BY <1>1, <1>8, <1>9, <2>4 DEF ReadingInv
<1>10. CASE index' = SkipNewLines(operand.next) /\ phase' = "parsing"
  <2>1. Reads(members', operand.next)
    BY <1>1, <1>2, <1>5, <1>6, OperationJoins
  <2>2. Reads(members', index')
    BY <1>1, <1>10, <2>1, LinesSkipped
  <2>3. Reads(members, index)'
    BY <1>1, <2>2, SameTokens
  <2> QED
    BY <1>8, <1>10, <2>3 DEF ReadingInv
<1> QED
  BY <1>4, <1>9, <1>10

\* The end of the parser, with an error or without, keeps the invariant.
LEMMA EndKeeps ==
  ASSUME ReadingInv, RejectOperation \/ EndBlock
  PROVE  ReadingInv'
<1>1. /\ phase = "parsing" /\ phase' \in {"error", "done"}
      /\ UNCHANGED <<stream, tokens, index, members>>
  BY DEF RejectOperation, EndBlock
<1>2. LexerTypeOK'
  BY <1>1 DEF LexerTypeOK, ReadingInv
<1>3. Reads(members, index)'
  BY <1>1, SameTokens DEF ReadingInv
<1> QED
  BY <1>1, <1>2, <1>3 DEF ReadingInv

\* A conversion begins before the first token.
LEMMA ReadingBegins ==
  ASSUME Init
  PROVE  ReadingInv
<1>1. PICK sources \in Sources : \E source \in sources : stream = Begin(source.text)
  BY DEF Init
<1>2. PICK source \in sources : stream = Begin(source.text)
  BY <1>1
<1>3. source.text \in Seq(STRING)
  BY SourcesAssumption
<1>4. InText(Stream(source.text))
  BY <1>3, StreamIsInText
<1>5. InText(stream)
  BY <1>2, <1>4, SkipsTheseOnly DEF Begin, consume_whitespace_except_newline, Further
<1>6. /\ tokens = <<>> /\ index = 1 /\ members = <<>> /\ phase = "lexing"
      /\ tokens \in Seq(Tokens)
  BY DEF Init
<1>7. 1 \in 1 .. Len(tokens) + 1
  BY <1>6
<1>8. {r \in 1 .. 1 - 1 : tokens[r].type \in ValueTypes} = {}
  OBVIOUS
<1>9. Reads(members, index)
  BY <1>6, <1>7, <1>8 DEF Reads, Places, ValuesIn
<1> QED
  BY <1>5, <1>6, <1>9 DEF ReadingInv, LexerTypeOK

\* Every step of a conversion keeps the invariant.
LEMMA ReadingKeeps ==
  ASSUME ReadingInv, [assemble_to_obj]_vars
  PROVE  ReadingInv'
<1>1. CASE Lex /\ UNCHANGED <<index, members>>
  BY <1>1, LexKeeps
<1>2. CASE parse_block
  BY <1>2, OperationKeeps, OperandKeeps, EndKeeps DEF parse_block
<1>3. CASE UNCHANGED vars
  <2>1. UNCHANGED <<stream, tokens, index, members, phase>>
    BY <1>3 DEF vars
  <2>2. LexerTypeOK'
    BY <2>1 DEF ReadingInv, LexerTypeOK
  <2>3. Reads(members, index)' <=> Reads(members, index)
    BY <2>1, SameTokens
  <2>4. Growing' <=> Growing
    BY <2>1, SameTokens DEF Growing
  <2> QED
    BY <2>1, <2>2, <2>3, <2>4 DEF ReadingInv
<1> QED
  BY <1>1, <1>2, <1>3 DEF assemble_to_obj

\* And accounts for the text, while there is one to be read.
LEMMA ReadingAccounts ==
  ASSUME ReadingInv, assemble_to_obj, LinesEnd, phase = "lexing"
  PROVE  Accounts
<1>1. Lex
  BY DEF assemble_to_obj, parse_block, ParseOperation, ParseOperand, RejectOperation, EndBlock
<1> QED
  BY <1>1, LexAccounts DEF ReadingInv

\* Whatever the sources hold, the lexer stays in its text, and the operations
\* that are read take every name, number and string before the position, each
\* once, in order and within its line.
THEOREM ReadingInvariance == Spec => []ReadingInv
<1>1. Init => ReadingInv
  BY ReadingBegins
<1>2. ReadingInv /\ [assemble_to_obj]_vars => ReadingInv'
  BY ReadingKeeps
<1> QED
  BY <1>1, <1>2, PTL DEF Spec

\* Every name, number and string before the position is part of one operation,
\* in the order of the source, whatever alternatives the parser gave up.
THEOREM ValuesAlwaysUsedOnce == Spec => []ValuesUsedOnce
<1>1. ReadingInv => ValuesUsedOnce
  BY GrowingReads, ReadsMeans
<1> QED
  BY <1>1, ReadingInvariance, PTL

\* No operation takes anything from the next line.
THEOREM OperationsAlwaysWithinLines == Spec => []OperationsWithinLines
<1>1. ReadingInv => OperationsWithinLines
  BY GrowingReads, ReadsMeans
<1> QED
  BY <1>1, ReadingInvariance, PTL

\* In a text whose last line ends, no pass of the lexer drops a character, uses
\* one twice or makes a token of what is in a comment.
THEOREM TextAlwaysAccountedFor == Spec => TextAccountedFor
<1>1. ReadingInv /\ [assemble_to_obj]_vars =>
         [LinesEnd /\ phase = "lexing" => Accounts]_vars
  BY ReadingAccounts
<1> QED
  BY <1>1, ReadingInvariance, PTL DEF Spec, TextAccountedFor

\* No source is one without characters that was read.
LEMMA NoReadingBegins ==
  ASSUME NoSource
  PROVE  ReadingInv
<1>1. InText(Stream(<<>>)) /\ stream = Begin(<<>>)
  <2>1. <<>> \in Seq(STRING)
    OBVIOUS
  <2> QED
    BY <2>1, StreamIsInText DEF NoSource
<1>2. InText(stream)
  BY <1>1, SkipsTheseOnly DEF Begin, consume_whitespace_except_newline, Further
<1>3. /\ tokens = <<>> /\ index = 1 /\ members = <<>> /\ phase = "done"
      /\ tokens \in Seq(Tokens)
  BY DEF NoSource
<1>4. 1 \in 1 .. Len(tokens) + 1 /\ {r \in 1 .. 1 - 1 : tokens[r].type \in ValueTypes} = {}
  BY <1>3
<1>5. Reads(members, index)
  BY <1>3, <1>4 DEF Reads, Places, ValuesIn
<1> QED
  BY <1>2, <1>3, <1>5 DEF ReadingInv, LexerTypeOK

\* A process that converts units as well reads its sources in the same way.
THEOREM SourcesAlwaysRead ==
  ConverterSpec => [](ValuesUsedOnce /\ OperationsWithinLines) /\ TextAccountedFor
<1>1. ConverterInit => ReadingInv
  BY ReadingBegins, NoReadingBegins DEF ConverterInit
<1>2. ReadingInv /\ [convert]_converter_vars => ReadingInv'
  <2>1. [convert]_converter_vars => [assemble_to_obj]_vars
    BY DEF convert, converter_vars
  <2> QED
    BY <2>1, ReadingKeeps
<1>3. ReadingInv => ValuesUsedOnce /\ OperationsWithinLines
  BY GrowingReads, ReadsMeans
<1>4. ReadingInv /\ [convert]_converter_vars =>
         [LinesEnd /\ phase = "lexing" => Accounts]_vars
  <2>1. [convert]_converter_vars => [assemble_to_obj]_vars
    BY DEF convert, converter_vars
  <2> QED
    BY <2>1, ReadingAccounts
<1> QED
  BY <1>1, <1>2, <1>3, <1>4, PTL DEF ConverterSpec, TextAccountedFor

-----------------------------------------------------------------------------
(* The lexer of units.                                                       *)

CppTokenTypes == {"LeftCurly", "RightCurly", "LeftBracket", "RightBracket",
                  "LeftSquareBracket", "RightSquareBracket", "Comma", "Semicolon",
                  "String", "Operator", "Number", "TypeName", "Keyword", "Name"}
CppTokens == [type : CppTokenTypes, from : Nat, to : Nat]
Positive == Nat \ {0}

CppLexerTypeOK == InText(cpp_stream) /\ cpp_tokens \in Seq(CppTokens)

\* Both lexers read streams alike.
LEMMA SameStreams ==
  ASSUME NEW s
  PROVE  /\ \A text : Cpp!Stream(text) = Stream(text)
         /\ Cpp!Good(s) = Good(s) /\ Cpp!AtEnd(s) = AtEnd(s)
         /\ Cpp!Fail(s) = Fail(s) /\ Cpp!Eof(s) = Eof(s)
         /\ \A p : Cpp!To(s, p) = To(s, p)
         /\ Cpp!EOF = EOF
<1>1. \A text : Cpp!Stream(text) = Stream(text)
  BY DEF Cpp!Stream, Stream
<1>2. Cpp!Good(s) = Good(s) /\ Cpp!AtEnd(s) = AtEnd(s)
  BY DEF Cpp!Good, Good, Cpp!AtEnd, AtEnd
<1>3. /\ Cpp!Fail(s) = Fail(s) /\ Cpp!Eof(s) = Eof(s)
      /\ \A p : Cpp!To(s, p) = To(s, p)
  BY DEF Cpp!Fail, Fail, Cpp!Eof, Eof, Cpp!To, To
<1>4. Cpp!EOF = EOF
  BY DEF Cpp!EOF, EOF
<1> QED
  BY <1>1, <1>2, <1>3, <1>4, Zenon

\* And move in them alike.
LEMMA SameMoves ==
  ASSUME NEW s, NEW chars
  PROVE  /\ Cpp!Char(s) = Char(s) /\ Cpp!Ignore(s) = Ignore(s)
         /\ Cpp!Has(s, chars) = Has(s, chars)
         /\ Cpp!Place(s, chars) = Place(s, chars)
         /\ Cpp!SkipAll(s, chars) = SkipAll(s, chars)
         /\ Cpp!StringEnd(s) = StringEnd(s)
<1>1. Cpp!Char(s) = Char(s) /\ Cpp!Ignore(s) = Ignore(s)
  BY SameStreams DEF Cpp!Char, Char, Cpp!Ignore, Ignore
<1>2. Cpp!Has(s, chars) = Has(s, chars)
  BY DEF Cpp!Has, Has
<1>3. Cpp!Place(s, chars) = Place(s, chars)
  BY DEF Cpp!Place, Place
<1>4. Cpp!SkipAll(s, chars) = SkipAll(s, chars)
  BY Zenon DEF Cpp!SkipAll, SkipAll, Cpp!Good, Good, Cpp!Fail, Fail, Cpp!Eof, Eof, Cpp!To, To
<1>5. Cpp!StringEnd(s) = StringEnd(s)
  BY Zenon DEF Cpp!StringEnd, StringEnd, Cpp!OddRun, OddRun, Cpp!Escapes, Escapes
<1> QED
  BY <1>1, <1>2, <1>3, <1>4, <1>5, Zenon

\* Behind a token or a comment white space is passed over, no more.
LEMMA SpacesOnly ==
  ASSUME NEW s, InText(s)
  PROVE  /\ Further(s, Cpp!Ws(s))
         /\ \A p \in s.pos + 1 .. Cpp!Ws(s).pos : s.text[p] \in Cpp!Spaces
<1>1. Cpp!Ws(s) = SkipAll(s, Cpp!Spaces)
  BY SameMoves DEF Cpp!Ws
<1> QED
  BY <1>1, SkipsTheseOnly

\* No comment opens where the lexer does not see a slash and then a slash or a
\* star.
LEMMA NoCommentOpens ==
  ASSUME CppLexerTypeOK,
         ~Good(cpp_stream) \/ Cpp!Next1 # "/" \/ Cpp!Next2 \notin {"/", "*"}
  PROVE  Cpp!CommentAt(cpp_stream.pos + 1) = {}
<1> DEFINE s == cpp_stream
           p == s.pos + 1
<1>1. /\ s.pos \in Nat /\ Len(s.text) \in Nat /\ s.pos <= Len(s.text) /\ s \in Streams
      /\ s.eof \/ s.fail => s.pos = Len(s.text)
      /\ s.eof \in BOOLEAN /\ s.fail \in BOOLEAN
  BY DEF CppLexerTypeOK, InText, Streams
<1>2. ASSUME p < Len(s.text)
      PROVE  Good(s) /\ Cpp!Next1 = s.text[p] /\ Cpp!Next2 = s.text[p + 1]
  <2>1. s.pos # Len(s.text) /\ p # Len(s.text)
    BY <1>1, <1>2
  <2>2. Good(s) /\ ~AtEnd(s)
    BY <1>1, <2>1 DEF Good, AtEnd
  <2>3. Ignore(s) = To(s, p)
    BY <2>2 DEF Ignore
  <2>4. To(s, p).pos = p /\ To(s, p).text = s.text /\ Good(To(s, p))
    BY <1>1, <2>2 DEF To, Good, Streams
  <2>5. Char(s) = s.text[p]
    BY <2>2 DEF Char
  <2>6. ~AtEnd(To(s, p))
    BY <2>1, <2>4 DEF AtEnd
  <2>7. Char(To(s, p)) = s.text[p + 1]
    BY <2>4, <2>6 DEF Char
  <2> QED
    BY <2>2, <2>3, <2>5, <2>7, SameMoves DEF Cpp!Next1, Cpp!Next2
<1>3. ~(p < Len(s.text) /\ s.text[p] = "/" /\ s.text[p + 1] = "/")
  BY <1>2
<1>4. ~(p < Len(s.text) /\ s.text[p] = "/" /\ s.text[p + 1] = "*")
  BY <1>2
<1> QED
  BY <1>3, <1>4, Zenon DEF Cpp!CommentAt

\* Where the lexer sees the beginning of a comment, it stands.
LEMMA CommentOpens ==
  ASSUME CppLexerTypeOK, Cpp!Next1 = "/", Cpp!Next2 \in {"/", "*"}
  PROVE  /\ Good(cpp_stream) /\ cpp_stream.pos + 1 < Len(cpp_stream.text)
         /\ cpp_stream.text[cpp_stream.pos + 1] = "/"
         /\ cpp_stream.text[cpp_stream.pos + 1 + 1] = Cpp!Next2
         /\ Cpp!Ignore(cpp_stream) = To(cpp_stream, cpp_stream.pos + 1)
<1> DEFINE s == cpp_stream
           t == Ignore(s)
<1>1. Char(s) = "/" /\ Char(t) \in {"/", "*"} /\ Char(t) = Cpp!Next2
  BY SameMoves DEF Cpp!Next1, Cpp!Next2
<1>2. Char(s) # EOF /\ Char(t) # EOF
  BY <1>1 DEF EOF
<1>3. InText(s) /\ InText(t)
  BY IgnoresOne DEF CppLexerTypeOK, Further
<1>4. Good(s) /\ ~AtEnd(s) /\ Char(s) = s.text[s.pos + 1]
  BY <1>2, <1>3, SeenIsThere
<1>5. t = To(s, s.pos + 1)
  BY <1>4 DEF Ignore
<1>6. /\ s.pos \in Nat /\ Len(s.text) \in Nat /\ t.pos = s.pos + 1 /\ t.text = s.text
  BY <1>3, <1>5 DEF To, InText, Streams
<1>7. t.pos + 1 \in 1 .. Len(t.text) /\ Char(t) = t.text[t.pos + 1]
  BY <1>2, <1>3, SeenIsThere
<1>8. s.pos + 1 < Len(s.text)
  BY <1>6, <1>7
<1> QED
  BY <1>1, <1>4, <1>5, <1>6, <1>7, <1>8, SameMoves


\* What a pass adds to the tokens.
CppAdded ==
  UNION {cpp_tokens'[i].from .. cpp_tokens'[i].to :
           i \in Len(cpp_tokens) + 1 .. Len(cpp_tokens')}

\* A pass takes one token and white space.
CppPushes ==
  \E type \in CppTokenTypes, after \in Streams :
    /\ Further(cpp_stream, after) /\ Cpp!Push(type, after)
    /\ Cpp!CommentAt(cpp_stream.pos + 1) = {}

\* It takes nothing.
CppRests ==
  /\ cpp_stream' = cpp_stream /\ cpp_tokens' = cpp_tokens
  /\ Cpp!CommentAt(cpp_stream.pos + 1) = {}

\* It takes a comment, all of it if it is one that is accounted for, and white
\* space.
CppPasses ==
  /\ Further(cpp_stream, cpp_stream') /\ cpp_tokens' \in Seq(CppTokens) /\ CppAdded = {}
  /\ Cpp!StarsMatch =>
       \E e \in Nat :
         /\ Cpp!CommentAt(cpp_stream.pos + 1) = cpp_stream.pos + 1 .. e
         /\ e <= cpp_stream'.pos
         /\ \A p \in e + 1 .. cpp_stream'.pos : cpp_stream.text[p] \in Cpp!Spaces

\* What a token that is pushed is, and what is passed over behind it.
LEMMA CppPushTakes ==
  ASSUME CppLexerTypeOK, NEW type \in CppTokenTypes, NEW after,
         Further(cpp_stream, after), Cpp!Push(type, after)
  PROVE  /\ CppLexerTypeOK' /\ cpp_phase' = cpp_phase /\ Further(after, cpp_stream')
         /\ CppAdded = cpp_stream.pos + 1 .. after.pos
         /\ \A p \in after.pos + 1 .. cpp_stream'.pos : cpp_stream.text[p] \in Cpp!Spaces
<1> DEFINE token == Cpp!Token(type, cpp_stream.pos + 1, after.pos)
<1>1. InText(after) /\ after.text = cpp_stream.text /\ cpp_stream.pos \in Nat /\ after.pos \in Nat
  BY DEF Further, InText, Streams, CppLexerTypeOK
<1>2. /\ cpp_tokens' = Append(cpp_tokens, token)
      /\ cpp_stream' = Cpp!Ws(after)
      /\ cpp_phase' = cpp_phase
  BY DEF Cpp!Push
<1>3. /\ Further(after, cpp_stream')
      /\ \A p \in after.pos + 1 .. cpp_stream'.pos : after.text[p] \in Cpp!Spaces
  BY <1>1, <1>2, SpacesOnly
<1>4. token \in CppTokens /\ token.from = cpp_stream.pos + 1 /\ token.to = after.pos
  BY <1>1 DEF Cpp!Token, CppTokens
<1> HIDE DEF token
<1>5. CppLexerTypeOK'
  BY <1>2, <1>3, <1>4 DEF CppLexerTypeOK, Further
<1>6. CppAdded = token.from .. token.to
  <2>1. /\ Len(cpp_tokens') = Len(cpp_tokens) + 1 /\ Len(cpp_tokens) \in Nat
        /\ cpp_tokens'[Len(cpp_tokens) + 1] = token
    BY <1>2, <1>4 DEF CppLexerTypeOK
  <2>2. Len(cpp_tokens) + 1 .. Len(cpp_tokens') = {Len(cpp_tokens) + 1}
    BY <2>1
  <2> QED
    BY <2>1, <2>2 DEF CppAdded
<1> QED
  BY <1>1, <1>2, <1>3, <1>4, <1>5, <1>6

\* Which is to account for the text.
LEMMA CppPushAccounts ==
  ASSUME CppLexerTypeOK, CppPushes
  PROVE  CppLexerTypeOK' /\ cpp_phase' = cpp_phase /\ Cpp!Accounts
<1>1. PICK type \in CppTokenTypes, after \in Streams :
           /\ Further(cpp_stream, after) /\ Cpp!Push(type, after)
           /\ Cpp!CommentAt(cpp_stream.pos + 1) = {}
  BY DEF CppPushes
<1>2. /\ CppLexerTypeOK' /\ cpp_phase' = cpp_phase /\ Further(after, cpp_stream')
      /\ CppAdded = cpp_stream.pos + 1 .. after.pos
      /\ \A p \in after.pos + 1 .. cpp_stream'.pos : cpp_stream.text[p] \in Cpp!Spaces
  BY <1>1, CppPushTakes
<1>3. /\ cpp_stream.pos \in Nat /\ after.pos \in Nat /\ cpp_stream'.pos \in Nat
      /\ cpp_stream.pos <= after.pos /\ after.pos <= cpp_stream'.pos
  <2>1. InText(cpp_stream) /\ InText(after) /\ InText(cpp_stream')
    BY <1>1, <1>2 DEF CppLexerTypeOK, Further
  <2>2. cpp_stream.pos \in Nat /\ after.pos \in Nat /\ cpp_stream'.pos \in Nat
    BY <2>1 DEF InText, Streams
  <2> QED
    BY <1>1, <1>2, <2>2 DEF Further
<1>4. /\ {} \subseteq cpp_stream.pos + 1 .. cpp_stream'.pos
      /\ CppAdded \subseteq (cpp_stream.pos + 1 .. cpp_stream'.pos) \ {}
      /\ \A p \in (cpp_stream.pos + 1 .. cpp_stream'.pos) \ (CppAdded \cup {}) :
            cpp_stream.text[p] \in Cpp!Spaces
  BY <1>2, <1>3
<1>5. Cpp!Accounts
  BY <1>1, <1>4 DEF Cpp!Accounts, CppAdded
<1> QED
  BY <1>2, <1>5

\* And so does nothing.
LEMMA CppRestAccounts ==
  ASSUME CppLexerTypeOK, CppRests
  PROVE  CppLexerTypeOK' /\ Cpp!Accounts
<1>1. CppLexerTypeOK'
  BY DEF CppLexerTypeOK, CppRests
<1>2. CppAdded = {} /\ cpp_stream.pos + 1 .. cpp_stream'.pos = {}
  <2>1. Len(cpp_tokens) + 1 .. Len(cpp_tokens') = {}
    BY DEF CppLexerTypeOK, CppRests
  <2>2. cpp_stream.pos \in Nat /\ cpp_stream'.pos = cpp_stream.pos
    BY DEF CppLexerTypeOK, InText, Streams, CppRests
  <2> QED
    BY <2>1, <2>2 DEF CppAdded
<1> QED
  BY <1>1, <1>2 DEF Cpp!Accounts, CppAdded, CppRests

\* And a comment.
LEMMA CppPassAccounts ==
  ASSUME CppLexerTypeOK, CppPasses
  PROVE  CppLexerTypeOK' /\ (Cpp!StarsMatch => Cpp!Accounts)
<1>1. CppLexerTypeOK'
  BY DEF CppLexerTypeOK, CppPasses, Further
<1>2. ASSUME Cpp!StarsMatch PROVE Cpp!Accounts
  <2>1. PICK e \in Nat :
         /\ Cpp!CommentAt(cpp_stream.pos + 1) = cpp_stream.pos + 1 .. e
         /\ e <= cpp_stream'.pos
         /\ \A p \in e + 1 .. cpp_stream'.pos : cpp_stream.text[p] \in Cpp!Spaces
    BY <1>2 DEF CppPasses
  <2>2. cpp_stream.pos \in Nat /\ cpp_stream'.pos \in Nat
    BY <1>1 DEF CppLexerTypeOK, InText, Streams
  <2>3. /\ cpp_stream.pos + 1 .. e \subseteq cpp_stream.pos + 1 .. cpp_stream'.pos
        /\ {} \subseteq (cpp_stream.pos + 1 .. cpp_stream'.pos) \ (cpp_stream.pos + 1 .. e)
        /\ \A p \in (cpp_stream.pos + 1 .. cpp_stream'.pos) \ ({} \cup (cpp_stream.pos + 1 .. e)) :
              cpp_stream.text[p] \in Cpp!Spaces
    BY <2>1, <2>2
  <2>4. CppAdded = {}
    BY DEF CppPasses
  <2> QED
    BY <2>1, <2>3, <2>4, Zenon DEF Cpp!Accounts, CppAdded
<1> QED
  BY <1>1, <1>2

\* A comment up to the end of the line, or of the text.
LEMMA LinePasses ==
  ASSUME CppLexerTypeOK, Cpp!LineComment
  PROVE  CppPasses
<1> DEFINE s == cpp_stream
           p == s.pos + 1
           t == To(s, p)
           after == Cpp!IgnoreThrough(t, LineEnd)
           Line == {q \in p .. Len(s.text) : \A r \in p .. q : s.text[r] # LineEnd}
<1>1. Cpp!Next1 = "/" /\ Cpp!Next2 = "/" /\ cpp_tokens' = cpp_tokens
  BY DEF Cpp!LineComment
<1>2. /\ Good(s) /\ p < Len(s.text) /\ s.text[p] = "/" /\ s.text[p + 1] = "/"
      /\ Cpp!Ignore(s) = t
  BY <1>1, CommentOpens
<1>3. cpp_stream' = Cpp!Ws(after)
  BY <1>2, Zenon DEF Cpp!LineComment, LineEnd
<1>4. /\ s.pos \in Nat /\ Len(s.text) \in Nat /\ InText(s) /\ s.text \in Seq(STRING)
  BY DEF CppLexerTypeOK, InText, Streams
<1>5. Further(s, t) /\ InText(t) /\ t.pos = p /\ t.text = s.text /\ Good(t)
  <2>1. p \in s.pos .. Len(s.text)
    BY <1>2, <1>4
  <2>2. Further(s, t) /\ t.pos = p
    BY <1>2, <1>4, <2>1, Moves
  <2>3. Good(t)
    BY <1>2, <1>4 DEF Good, To, InText, Streams
  <2> QED
    BY <2>2, <2>3 DEF Further
<1>6. Cpp!CommentAt(p) = Line
  BY <1>2, Zenon DEF Cpp!CommentAt, LineEnd
<1>7. s.text[p] # LineEnd
  BY <1>2 DEF LineEnd
<1>8. LineEnd \in Cpp!Spaces
  BY Zenon DEF LineEnd, Cpp!Spaces
<1> HIDE DEF t, after, Line
<1>9. \E e \in Nat : /\ Line = p .. e /\ e <= after.pos /\ Further(t, after)
                     /\ \A q \in e + 1 .. after.pos : s.text[q] \in Cpp!Spaces
  <2>1. Line = {p} \cup {q \in p + 1 .. Len(s.text) : \A r \in p + 1 .. q : s.text[r] # LineEnd}
    <3>1. \A q \in p .. Len(s.text) : q = p \/ q \in p + 1 .. Len(s.text)
      BY <1>4
    <3>2. \A q : \A r \in p .. q : r = p \/ r \in p + 1 .. q
      BY <1>4
    <3>3. p \in p .. Len(s.text) /\ \A r \in p .. p : r = p
      BY <1>2, <1>4
    <3>4. \A q \in p + 1 .. Len(s.text) : q \in p .. Len(s.text) /\ p + 1 .. q \subseteq p .. q
      BY <1>4
    <3> QED
      BY <1>7, <3>1, <3>2, <3>3, <3>4 DEF Line
  <2>2. CASE Has(t, {LineEnd})
    <3> DEFINE m == Place(t, {LineEnd})
    <3>1. after = To(t, m)
      BY <1>5, <2>2, SameStreams, SameMoves DEF after, Cpp!IgnoreThrough
    <3>2. m \in t.pos + 1 .. Len(t.text) /\ t.text[m] = LineEnd
      BY <1>5, <2>2, FirstPlace
    <3>3. {q \in t.pos + 1 .. Len(t.text) : \A r \in t.pos + 1 .. q : t.text[r] # LineEnd} =
             t.pos + 1 .. m - 1
      BY <1>5, <2>2, LineUpToEnd
    <3> HIDE DEF m
    <3>4. m \in t.pos .. Len(t.text) /\ m \in Nat
      BY <1>4, <1>5, <3>2
    <3>5. Further(t, after) /\ after.pos = m
      BY <1>5, <3>1, <3>4, Moves
    <3>6. Line = p .. m - 1
      <4>1. Line = {p} \cup (p + 1 .. m - 1)
        BY <1>5, <2>1, <3>3
      <4> QED
        BY <1>4, <1>5, <3>2, <4>1
    <3>7. m - 1 \in Nat /\ m - 1 <= m /\ \A q \in m - 1 + 1 .. m : q = m
      BY <1>4, <1>5, <3>2
    <3>8. \A q \in m - 1 + 1 .. after.pos : s.text[q] \in Cpp!Spaces
      BY <1>5, <1>8, <3>2, <3>5, <3>7
    <3> QED
      BY <3>5, <3>6, <3>7, <3>8
  <2>3. CASE ~Has(t, {LineEnd})
    <3>1. after = Eof(To(t, Len(t.text)))
      BY <1>5, <2>3, SameStreams, SameMoves DEF after, Cpp!IgnoreThrough
    <3>2. Further(t, after) /\ after.pos = Len(t.text)
      BY <1>5, <3>1, Marks
    <3>3. \A r \in p + 1 .. Len(s.text) : s.text[r] # LineEnd
      BY <1>5, <2>3 DEF Has
    <3>4. Line = p .. Len(s.text)
      BY <1>2, <1>4, <2>1, <3>3
    <3>5. Len(s.text) + 1 .. Len(s.text) = {} /\ Len(s.text) <= Len(s.text)
      BY <1>4
    <3>6. \A q \in Len(s.text) + 1 .. after.pos : s.text[q] \in Cpp!Spaces
      BY <1>5, <3>2, <3>5
    <3> QED
      BY <1>4, <1>5, <3>2, <3>4, <3>5, <3>6
  <2> QED
    BY <2>2, <2>3
<1>10. PICK e \in Nat : /\ Line = p .. e /\ e <= after.pos /\ Further(t, after)
                        /\ \A q \in e + 1 .. after.pos : s.text[q] \in Cpp!Spaces
  BY <1>9
<1>11. InText(after) /\ after.text = s.text
  BY <1>5, <1>10 DEF Further
<1>12. /\ Further(after, cpp_stream')
       /\ \A q \in after.pos + 1 .. cpp_stream'.pos : s.text[q] \in Cpp!Spaces
  BY <1>3, <1>11, SpacesOnly
<1>13. Further(s, cpp_stream')
  BY <1>4, <1>5, <1>10, <1>11, <1>12, FurtherOn
<1>14. after.pos \in Nat /\ cpp_stream'.pos \in Nat /\ after.pos <= cpp_stream'.pos
  BY <1>11, <1>12 DEF Further, InText, Streams
<1>15. /\ e <= cpp_stream'.pos
       /\ \A q \in e + 1 .. cpp_stream'.pos : s.text[q] \in Cpp!Spaces
  <2>1. \A q \in e + 1 .. cpp_stream'.pos :
           q \in e + 1 .. after.pos \/ q \in after.pos + 1 .. cpp_stream'.pos
    BY <1>14
  <2> QED
    BY <1>10, <1>12, <1>14, <2>1
<1>16. CppAdded = {} /\ cpp_tokens' \in Seq(CppTokens)
  <2>1. Len(cpp_tokens) + 1 .. Len(cpp_tokens') = {}
    BY <1>1 DEF CppLexerTypeOK
  <2> QED
    BY <1>1, <2>1 DEF CppAdded, CppLexerTypeOK
<1>17. Cpp!CommentAt(s.pos + 1) = s.pos + 1 .. e
  BY <1>6, <1>10
<1> QED
  BY <1>13, <1>15, <1>16, <1>17 DEF CppPasses


\* Where an odd run of stars ends before a slash, there is one.
LEMMA RunEndsInStar ==
  ASSUME NEW text, NEW first \in Nat, NEW r \in Nat, Cpp!OddRun(text, first, r - 1, "*")
  PROVE  text[r - 1] = "*"
<1>1. PICK q \in first .. r - 1 : \A x \in q .. r - 1 : text[x] = "*"
  BY DEF Cpp!OddRun
<1>2. r - 1 \in q .. r - 1
  BY <1>1
<1> QED
  BY <1>1, <1>2

\* A star before which there is none, or nothing, is an odd run.
LEMMA OneStarIsOdd ==
  ASSUME NEW text, NEW first \in Nat, NEW r \in Nat, first < r, text[r - 1] = "*",
         r - 1 = first \/ text[r - 2] # "*"
  PROVE  Cpp!OddRun(text, first, r - 1, "*")
<1> DEFINE q == r - 1
<1>1. q \in first .. r - 1 /\ r - 1 - q = 0 /\ 0 % 2 = 0 /\ q - 1 = r - 2
  OBVIOUS
<1>2. \A x \in q .. r - 1 : x = r - 1
  OBVIOUS
<1> HIDE DEF q
<1>3. /\ (r - 1 - q) % 2 = 0
      /\ \A x \in q .. r - 1 : text[x] = "*"
      /\ q = first \/ text[q - 1] # "*"
  <2>1. (r - 1 - q) % 2 = 0
    BY <1>1
  <2>2. \A x \in q .. r - 1 : text[x] = "*"
    BY <1>2
  <2>3. q = first \/ text[q - 1] # "*"
    BY <1>1 DEF q
  <2> QED
    BY <2>1, <2>2, <2>3
<1> QED
  BY <1>1, <1>3 DEF Cpp!OddRun

\* Where a block comment ends, as it is written.
Closing(o) ==
  {r \in o + 3 .. Len(cpp_stream.text) : cpp_stream.text[r - 1] = "*" /\ cpp_stream.text[r] = "/"}

\* The lexer finds an end only where there is one.
LEMMA FoundIsClosing ==
  ASSUME CppLexerTypeOK, NEW o \in Nat
  PROVE  LET ends == {r \in o + 3 .. Len(cpp_stream.text) :
                        cpp_stream.text[r] = "/" /\ Cpp!OddRun(cpp_stream.text, o + 2, r - 1, "*")}
             end == Cpp!BlockEnd(cpp_stream.text, o)
         IN  /\ ends \subseteq Closing(o)
             /\ ends = {} => end = 0
             /\ ends # {} => end \in ends /\ \A r \in ends : end <= r
<1> DEFINE text == cpp_stream.text
           ends == {r \in o + 3 .. Len(text) : text[r] = "/" /\ Cpp!OddRun(text, o + 2, r - 1, "*")}
           end == Cpp!BlockEnd(text, o)
<1>1. Len(text) \in Nat
  BY DEF CppLexerTypeOK, InText, Streams
<1>2. ends \subseteq Closing(o)
  <2> SUFFICES ASSUME NEW r \in ends PROVE r \in Closing(o)
    OBVIOUS
  <2>1. r \in o + 3 .. Len(text) /\ r \in Nat /\ o + 2 \in Nat
    BY <1>1
  <2>2. text[r - 1] = "*"
    BY <2>1, RunEndsInStar
  <2> QED
    BY <2>1, <2>2 DEF Closing
<1>3. end = IF ends = {} THEN 0 ELSE CHOOSE r \in ends : \A q \in ends : r <= q
  BY DEF Cpp!BlockEnd
<1>4. ends \in SUBSET Nat
  BY <1>1
<1> HIDE DEF ends, end
<1>5. ASSUME ends # {} PROVE end \in ends /\ \A r \in ends : end <= r
  BY <1>3, <1>4, <1>5, LeastNatural
<1> QED
  BY <1>2, <1>3, <1>5 DEF ends, end

\* A comment as it is written goes up to the first place where it ends.
LEMMA BlockIs ==
  ASSUME CppLexerTypeOK, NEW o \in Positive, o < Len(cpp_stream.text),
         cpp_stream.text[o] = "/", cpp_stream.text[o + 1] = "*"
  PROVE  /\ Closing(o) = {} => Cpp!CommentAt(o) = o .. Len(cpp_stream.text)
         /\ \A m \in Closing(o) : (\A r \in Closing(o) : m <= r) => Cpp!CommentAt(o) = o .. m
<1> DEFINE text == cpp_stream.text
           n == Len(text)
           Block == {q \in o .. n : \A r \in o + 3 .. q - 1 : ~(text[r - 1] = "*" /\ text[r] = "/")}
<1>1. n \in Nat /\ o \in Nat
  BY DEF CppLexerTypeOK, InText, Streams, Positive
<1>2. ~(text[o + 1] = "/")
  OBVIOUS
<1>3. Cpp!CommentAt(o) = Block
  BY <1>2, Zenon DEF Cpp!CommentAt
<1>4. Block = {q \in o .. n : \A r \in Closing(o) : q <= r}
  <2>1. ASSUME NEW q \in o .. n
        PROVE  (\A r \in o + 3 .. q - 1 : ~(text[r - 1] = "*" /\ text[r] = "/"))
                  <=> (\A r \in Closing(o) : q <= r)
    <3>1. \A r \in o + 3 .. q - 1 : r \in o + 3 .. n /\ ~(q <= r)
      BY <1>1
    <3>2. \A r \in o + 3 .. n : q <= r \/ r \in o + 3 .. q - 1
      BY <1>1
    <3> QED
      BY <3>1, <3>2 DEF Closing
  <2> QED
    BY <2>1
<1>5. Closing(o) \subseteq o + 3 .. n
  BY DEF Closing
<1> HIDE DEF Block
<1>6. ASSUME Closing(o) = {} PROVE Block = o .. n
  BY <1>4, <1>6
<1>7. ASSUME NEW m \in Closing(o), \A r \in Closing(o) : m <= r PROVE Block = o .. m
  <2>1. m \in o + 3 .. n
    BY <1>5
  <2>2. \A q \in o .. n : (\A r \in Closing(o) : q <= r) <=> q <= m
    <3>1. ASSUME NEW q \in o .. n, q <= m, NEW r \in Closing(o) PROVE q <= r
      <4>1. m <= r /\ r \in Int /\ m \in Int /\ q \in Int
        BY <1>1, <1>5, <1>7, <2>1
      <4> QED
        BY <3>1, <4>1
    <3> QED
      BY <3>1
  <2>3. \A q : q \in o .. m <=> q \in o .. n /\ q <= m
    BY <1>1, <2>1
  <2> QED
    BY <1>4, <2>2, <2>3
<1> QED
  BY <1>3, <1>6, <1>7

\* The first place where a comment ends is found, if only one star stands there.
LEMMA FirstIsFound ==
  ASSUME CppLexerTypeOK, Cpp!StarsMatch,
         LET o == cpp_stream.pos + 1
         IN  /\ o < Len(cpp_stream.text)
             /\ cpp_stream.text[o] = "/" /\ cpp_stream.text[o + 1] = "*",
         NEW m \in Closing(cpp_stream.pos + 1), \A r \in Closing(cpp_stream.pos + 1) : m <= r
  PROVE  Cpp!OddRun(cpp_stream.text, cpp_stream.pos + 1 + 2, m - 1, "*")
<1> DEFINE text == cpp_stream.text
           o == cpp_stream.pos + 1
<1>1. cpp_stream.pos \in Nat /\ Len(text) \in Nat
  BY DEF CppLexerTypeOK, InText, Streams
<1>2. o \in Positive /\ o + 1 = cpp_stream.pos + 2 /\ o + 2 \in Nat
  BY <1>1 DEF Positive
<1>3. Cpp!CommentAt(o) = o .. m
  BY <1>2, BlockIs
<1>4. m \in o + 3 .. Len(text) /\ text[m - 1] = "*" /\ text[m] = "/"
  BY DEF Closing
<1>5. m \in Nat /\ o + 2 < m /\ m \in o .. m
  BY <1>1, <1>4
<1>6. m - 1 = o + 2 \/ text[m - 2] # "*"
  <2> SUFFICES ASSUME m - 1 # o + 2 PROVE text[m - 2] # "*"
    OBVIOUS
  <2>1. m > cpp_stream.pos + 4
    BY <1>1, <1>4
  <2>2. m \in Cpp!CommentAt(cpp_stream.pos + 1) /\ text[cpp_stream.pos + 2] = "*"
    BY <1>2, <1>3, <1>5
  <2> QED
    BY <1>4, <2>1, <2>2 DEF Cpp!StarsMatch
<1> QED
  BY <1>2, <1>4, <1>5, <1>6, OneStarIsOdd

\* So a comment ends where it is written to end, if it does.
LEMMA BlockEndIs ==
  ASSUME CppLexerTypeOK,
         LET o == cpp_stream.pos + 1
         IN  /\ o < Len(cpp_stream.text)
             /\ cpp_stream.text[o] = "/" /\ cpp_stream.text[o + 1] = "*"
  PROVE  LET o == cpp_stream.pos + 1
             end == Cpp!BlockEnd(cpp_stream.text, o)
         IN  /\ end \in {0} \cup (o + 3 .. Len(cpp_stream.text))
             /\ Cpp!StarsMatch =>
                  Cpp!CommentAt(o) = o .. IF end = 0 THEN Len(cpp_stream.text) ELSE end
<1> DEFINE text == cpp_stream.text
           o == cpp_stream.pos + 1
           ends == {r \in o + 3 .. Len(text) : text[r] = "/" /\ Cpp!OddRun(text, o + 2, r - 1, "*")}
           end == Cpp!BlockEnd(text, o)
<1>1. o \in Positive /\ o \in Nat /\ Len(text) \in Nat
  BY DEF CppLexerTypeOK, InText, Streams, Positive
<1>2. /\ ends \subseteq Closing(o)
      /\ ends = {} => end = 0
      /\ ends # {} => end \in ends /\ \A r \in ends : end <= r
  BY <1>1, FoundIsClosing
<1>3. end \in {0} \cup (o + 3 .. Len(text))
  BY <1>2
<1>4. \A r \in o + 3 .. Len(text) : r # 0
  BY <1>1
<1>5. /\ Closing(o) = {} => Cpp!CommentAt(o) = o .. Len(text)
      /\ \A m \in Closing(o) : (\A r \in Closing(o) : m <= r) => Cpp!CommentAt(o) = o .. m
  BY <1>1, BlockIs
<1>6. ASSUME Cpp!StarsMatch
      PROVE  Cpp!CommentAt(o) = o .. IF end = 0 THEN Len(text) ELSE end
  <2>1. CASE Closing(o) = {}
    <3>1. end = 0
      BY <1>2, <2>1
    <3> QED
      BY <1>5, <2>1, <3>1
  <2>2. CASE Closing(o) # {}
    <3>1. Closing(o) \in SUBSET Nat
      BY <1>1 DEF Closing
    <3>2. PICK m \in Closing(o) : \A r \in Closing(o) : m <= r
      BY <2>2, <3>1, LeastNatural
    <3>3. Cpp!OddRun(text, o + 2, m - 1, "*")
      BY <1>6, <3>2, FirstIsFound
    <3>4. m \in ends
      BY <3>2, <3>3 DEF Closing
    <3> HIDE DEF ends, end
    <3>5. end \in Closing(o) /\ end <= m /\ m <= end
      BY <1>2, <3>2, <3>4
    <3>6. end = m
      BY <3>1, <3>5
    <3>7. end # 0
      BY <1>4, <3>5 DEF Closing
    <3> QED
      BY <1>5, <3>2, <3>6, <3>7
  <2> QED
    BY <2>1, <2>2
<1> QED
  BY <1>3, <1>6

\* A block comment.
LEMMA BlockPasses ==
  ASSUME CppLexerTypeOK, Cpp!BlockComment
  PROVE  CppPasses
<1> DEFINE s == cpp_stream
           end == Cpp!BlockEnd(s.text, s.pos + 1)
           after == To(s, end)
<1>1. /\ Cpp!Next1 = "/" /\ Cpp!Next2 = "*" /\ end > 0
      /\ cpp_tokens' = cpp_tokens /\ cpp_stream' = Cpp!Ws(after)
  BY SameStreams DEF Cpp!BlockComment
<1>2. /\ Good(s) /\ s.pos + 1 < Len(s.text) /\ s.text[s.pos + 1] = "/"
      /\ s.text[s.pos + 1 + 1] = "*"
  BY <1>1, CommentOpens
<1>3. /\ end \in {0} \cup (s.pos + 1 + 3 .. Len(s.text))
      /\ Cpp!StarsMatch => Cpp!CommentAt(s.pos + 1) =
                             s.pos + 1 .. IF end = 0 THEN Len(s.text) ELSE end
  BY <1>2, BlockEndIs
<1>4. s.pos \in Nat /\ Len(s.text) \in Nat /\ InText(s)
  BY DEF CppLexerTypeOK, InText, Streams
<1> HIDE DEF end
<1>5. end # 0 /\ end \in s.pos .. Len(s.text) /\ end \in Nat
  BY <1>1, <1>3, <1>4
<1>6. Further(s, after) /\ after.pos = end
  BY <1>2, <1>4, <1>5, Moves
<1>7. InText(after) /\ after.text = s.text
  BY <1>6 DEF Further
<1> HIDE DEF after
<1>8. /\ Further(after, cpp_stream')
      /\ \A p \in end + 1 .. cpp_stream'.pos : s.text[p] \in Cpp!Spaces
  BY <1>1, <1>6, <1>7, SpacesOnly
<1>9. Further(s, cpp_stream') /\ end <= cpp_stream'.pos
  BY <1>4, <1>6, <1>7, <1>8, FurtherOn DEF Further
<1>10. CppAdded = {} /\ cpp_tokens' \in Seq(CppTokens)
  <2>1. Len(cpp_tokens) + 1 .. Len(cpp_tokens') = {}
    BY <1>1 DEF CppLexerTypeOK
  <2> QED
    BY <1>1, <2>1 DEF CppAdded, CppLexerTypeOK
<1> QED
  BY <1>3, <1>5, <1>8, <1>9, <1>10 DEF CppPasses

\* A comment that is not closed becomes an operator without characters.
LEMMA UnclosedPasses ==
  ASSUME CppLexerTypeOK, Cpp!UnclosedComment
  PROVE  CppPasses
<1> DEFINE s == cpp_stream
           n == Len(s.text)
           end == Fail(Eof(To(s, n)))
           token == Cpp!Token("Operator", end.pos + 1, end.pos)
<1>1. /\ Cpp!Next1 = "/" /\ Cpp!Next2 = "*" /\ Cpp!BlockEnd(s.text, s.pos + 1) = 0
      /\ cpp_tokens' = Append(cpp_tokens, token) /\ cpp_stream' = end
  BY SameStreams DEF Cpp!UnclosedComment
<1>2. /\ s.pos + 1 < n /\ s.text[s.pos + 1] = "/" /\ s.text[s.pos + 1 + 1] = "*"
  BY <1>1, CommentOpens
<1>3. Cpp!StarsMatch => Cpp!CommentAt(s.pos + 1) = s.pos + 1 .. n
  BY <1>1, <1>2, BlockEndIs
<1>4. s.pos \in Nat /\ n \in Nat /\ InText(s)
  BY DEF CppLexerTypeOK, InText, Streams
<1>5. Further(s, end) /\ end.pos = n
  BY <1>4, Marks
<1> HIDE DEF end
<1>6. token \in CppTokens /\ token.from = n + 1 /\ token.to = n
  BY <1>4, <1>5 DEF Cpp!Token, CppTokens, CppTokenTypes
<1> HIDE DEF token
<1>7. CppAdded = {} /\ cpp_tokens' \in Seq(CppTokens)
  <2>1. /\ Len(cpp_tokens') = Len(cpp_tokens) + 1 /\ Len(cpp_tokens) \in Nat
        /\ cpp_tokens'[Len(cpp_tokens) + 1] = token /\ cpp_tokens' \in Seq(CppTokens)
    BY <1>1, <1>6 DEF CppLexerTypeOK
  <2>2. Len(cpp_tokens) + 1 .. Len(cpp_tokens') = {Len(cpp_tokens) + 1}
    BY <2>1
  <2>3. n + 1 .. n = {}
    BY <1>4
  <2> QED
    BY <1>6, <2>1, <2>2, <2>3 DEF CppAdded
<1>8. n <= cpp_stream'.pos /\ \A p \in n + 1 .. cpp_stream'.pos : s.text[p] \in Cpp!Spaces
  BY <1>1, <1>4, <1>5
<1> QED
  BY <1>1, <1>3, <1>4, <1>5, <1>7, <1>8 DEF CppPasses


\* A character of punctuation is a token, and opens no comment.
LEMMA CppPunctuationType ==
  ASSUME NEW c \in DOMAIN Cpp!Punctuation
  PROVE  Cpp!Punctuation[c] \in CppTokenTypes /\ c # "/" /\ c # EOF
  BY DEF Cpp!Punctuation, CppTokenTypes, EOF

\* Every pass of the loop over a unit is of one of the three kinds.
LEMMA CppLexingStep ==
  ASSUME CppLexerTypeOK, Cpp!Lex
  PROVE  CppPushes \/ CppRests \/ CppPasses
<1> DEFINE s == cpp_stream
<1>1. InText(s) /\ Further(s, s)
  BY DEF CppLexerTypeOK, Further, InText, Streams
<1>2. ASSUME NEW type \in CppTokenTypes, NEW after,
             ~Good(s) \/ Cpp!Next1 # "/" \/ Cpp!Next2 \notin {"/", "*"},
             Further(s, after), Cpp!Push(type, after)
      PROVE  CppPushes
  <2>1. after \in Streams
    BY <1>2 DEF Further, InText
  <2> QED
    BY <1>2, <2>1, NoCommentOpens DEF CppPushes
<1>3. CASE Cpp!PunctuationToken
  <2>1. Cpp!Next1 # "/" /\ Cpp!Punctuation[Cpp!Next1] \in CppTokenTypes
    BY <1>3, CppPunctuationType DEF Cpp!PunctuationToken
  <2>2. Further(s, Cpp!Ignore(s))
    BY <1>1, IgnoresOne, SameMoves
  <2> QED
    BY <1>2, <1>3, <2>1, <2>2 DEF Cpp!PunctuationToken
<1>4. CASE Cpp!StringToken
  <2>1. Cpp!Next1 = "\"" /\ Cpp!Next1 # "/" /\ Cpp!Next1 # EOF
    BY <1>4 DEF Cpp!StringToken, EOF
  <2>2. CASE Cpp!StringEnd(s) = 0
    BY <1>4, <2>1, <2>2, NoCommentOpens DEF Cpp!StringToken, Cpp!Error, CppRests
  <2>3. CASE Cpp!StringEnd(s) # 0
    <3>1. Good(s)
      BY <1>1, <2>1, SeenIsThere, SameMoves DEF Cpp!Next1
    <3>2. StringEnd(s) \in s.pos .. Len(s.text) /\ Cpp!StringEnd(s) = StringEnd(s)
      <4>1. s.pos \in Nat
        BY <1>1 DEF InText, Streams
      <4>2. StringEnd(s) \in s.pos + 2 .. Len(s.text) /\ Cpp!StringEnd(s) = StringEnd(s)
        BY <1>1, <2>3, StringEnds, SameMoves
      <4> QED
        BY <4>1, <4>2
    <3>3. Further(s, Cpp!To(s, Cpp!StringEnd(s)))
      BY <1>1, <3>1, <3>2, Moves, SameStreams
    <3>4. "String" \in CppTokenTypes
      BY DEF CppTokenTypes
    <3> QED
      BY <1>2, <1>4, <2>1, <2>3, <3>3, <3>4 DEF Cpp!StringToken
  <2> QED
    BY <2>2, <2>3
<1>5. CASE Cpp!OperatorToken
  <2>1. ~(Cpp!Next1 = "/" /\ Cpp!Next2 \in {"/", "*"})
    BY <1>5 DEF Cpp!OperatorToken
  <2>2. Further(s, Cpp!consume_operator(s))
    BY <1>1, SkipsTheseOnly, SameMoves DEF Cpp!consume_operator
  <2>3. "Operator" \in CppTokenTypes
    BY DEF CppTokenTypes
  <2> QED
    BY <1>2, <1>5, <2>1, <2>2, <2>3 DEF Cpp!OperatorToken
<1>6. CASE Cpp!NumberToken
  <2>1. Cpp!Next1 # "/"
    BY <1>6 DEF Cpp!NumberToken, Cpp!Digits
  <2>2. Cpp!consume_number(s) = SkipAll(SkipAll(s, Cpp!Digits), Cpp!Alnum)
    BY SameMoves DEF Cpp!consume_number
  <2>3. Further(s, SkipAll(s, Cpp!Digits)) /\ InText(SkipAll(s, Cpp!Digits))
    BY <1>1, SkipsTheseOnly DEF Further
  <2>4. Further(s, Cpp!consume_number(s))
    BY <1>1, <2>2, <2>3, SkipsTheseOnly, FurtherOn
  <2>5. "Number" \in CppTokenTypes
    BY DEF CppTokenTypes
  <2> QED
    BY <1>2, <1>6, <2>1, <2>4, <2>5 DEF Cpp!NumberToken
<1>7. CASE Cpp!WordToken
  <2>1. Cpp!Next1 # "/"
    BY <1>7 DEF Cpp!WordToken, Cpp!Alnum, Cpp!Digits, Cpp!Letters, Cpp!Types, Cpp!Keywords
  <2> DEFINE after == Cpp!consume_word(s)
  <2>2. Further(s, after)
    <3>1. after = SkipAll(s, Cpp!Alnum \cup {"_"})
      BY SameMoves DEF Cpp!consume_word
    <3> HIDE DEF after
    <3> QED
      BY <1>1, <3>1, SkipsTheseOnly
  <2>3. \A word : Cpp!token_type_from_word(word) \in CppTokenTypes
    BY DEF Cpp!token_type_from_word, CppTokenTypes
  <2>4. \E word : Cpp!Push(Cpp!token_type_from_word(word), after)
    BY <1>7 DEF Cpp!WordToken
  <2> QED
    BY <1>2, <2>1, <2>2, <2>3, <2>4
<1>8. CASE Cpp!InvalidToken
  <2>1. Cpp!Next1 # "/"
    BY <1>8 DEF Cpp!InvalidToken, Cpp!is_operator
  <2> QED
    BY <1>8, <2>1, NoCommentOpens DEF Cpp!InvalidToken, Cpp!Error, CppRests
<1>9. CASE Cpp!EndOfText
  <2>1. ~Good(s)
    BY <1>9 DEF Cpp!EndOfText, Good
  <2> QED
    BY <1>9, <2>1, NoCommentOpens DEF Cpp!EndOfText, CppRests
<1> QED
  BY <1>3, <1>4, <1>5, <1>6, <1>7, <1>8, <1>9, LinePasses, BlockPasses, UnclosedPasses
     DEF Cpp!Lex

\* Every pass of the loop over a unit stays in its text and accounts for what it
\* takes from it.
LEMMA CppLexAccounts ==
  ASSUME CppLexerTypeOK, Cpp!Lex
  PROVE  CppLexerTypeOK' /\ (Cpp!StarsMatch => Cpp!Accounts)
  BY CppLexingStep, CppPushAccounts, CppRestAccounts, CppPassAccounts

-----------------------------------------------------------------------------
(* Curly brackets.                                                           *)

\* The tokens of a type before a position.
Before(type, p) == {j \in 1 .. Len(cpp_tokens) : j < p /\ cpp_tokens[j].type = type}

\* How many code blocks are open before a position, if all brackets count.
Height(p) == Cardinality(Before("LeftCurly", p)) - Cardinality(Before("RightCurly", p))

\* From p to q as many code blocks are closed as opened, and none of those that
\* were open before.
Balanced(p, q) ==
  /\ p <= q
  /\ Height(q) = Height(p)
  /\ \A r \in p .. q : Height(p) <= Height(r)

\* A token counts from the position behind it on.
LEMMA BeforeNext ==
  ASSUME cpp_tokens \in Seq(CppTokens), NEW type, NEW p \in Positive
  PROVE  /\ Cardinality(Before(type, p)) \in Nat
         /\ Before(type, p + 1) =
              IF Cpp!Is(p, type) THEN Before(type, p) \cup {p} ELSE Before(type, p)
         /\ Cardinality(Before(type, p + 1)) =
              Cardinality(Before(type, p)) + IF Cpp!Is(p, type) THEN 1 ELSE 0
<1>1. Len(cpp_tokens) \in Nat
  OBVIOUS
<1>2. IsFiniteSet(Before(type, p))
  <2>1. IsFiniteSet(1 .. Len(cpp_tokens))
    BY <1>1, FS_Interval
  <2>2. Before(type, p) \subseteq 1 .. Len(cpp_tokens)
    BY DEF Before
  <2> QED
    BY <2>1, <2>2, FS_Subset
<1>3. Cardinality(Before(type, p)) \in Nat
  BY <1>2, FS_CardinalityType
<1>4. ASSUME NEW j \in 1 .. Len(cpp_tokens)
      PROVE  j < p + 1 <=> j < p \/ j = p
  BY <1>1 DEF Positive
<1>5. Before(type, p + 1) =
         IF Cpp!Is(p, type) THEN Before(type, p) \cup {p} ELSE Before(type, p)
  BY <1>1, <1>4 DEF Before, Cpp!Is, Positive
<1>6. p \notin Before(type, p)
  BY DEF Before, Positive
<1>7. Cardinality(Before(type, p) \cup {p}) = Cardinality(Before(type, p)) + 1
  BY <1>2, <1>6, FS_AddElement
<1>8. CASE Cpp!Is(p, type)
  BY <1>3, <1>5, <1>7, <1>8
<1>9. CASE ~Cpp!Is(p, type)
  BY <1>3, <1>5, <1>9
<1> QED
  BY <1>8, <1>9

\* How many blocks are open changes at curly brackets only.
LEMMA HeightNext ==
  ASSUME cpp_tokens \in Seq(CppTokens), NEW p \in Positive
  PROVE  /\ Height(p) \in Int
         /\ Cpp!Is(p, "LeftCurly") => Height(p + 1) = Height(p) + 1
         /\ Cpp!Is(p, "RightCurly") => Height(p + 1) = Height(p) - 1
         /\ ~Cpp!Is(p, "LeftCurly") /\ ~Cpp!Is(p, "RightCurly") => Height(p + 1) = Height(p)
<1>1. ~(Cpp!Is(p, "LeftCurly") /\ Cpp!Is(p, "RightCurly"))
  BY DEF Cpp!Is
<1> DEFINE Card(type, q) == Cardinality(Before(type, q))
<1>2. /\ Card("LeftCurly", p) \in Nat
      /\ Card("LeftCurly", p + 1) = Card("LeftCurly", p) + IF Cpp!Is(p, "LeftCurly") THEN 1 ELSE 0
  BY BeforeNext
<1>3. /\ Card("RightCurly", p) \in Nat
      /\ Card("RightCurly", p + 1) = Card("RightCurly", p) + IF Cpp!Is(p, "RightCurly") THEN 1 ELSE 0
  BY BeforeNext
<1>4. \A q : Height(q) = Card("LeftCurly", q) - Card("RightCurly", q)
  BY DEF Height
<1> HIDE DEF Card
<1> QED
  BY <1>1, <1>2, <1>3, <1>4

\* A position is balanced with itself.
LEMMA BalancedHere ==
  ASSUME cpp_tokens \in Seq(CppTokens), NEW p \in Positive
  PROVE  Balanced(p, p)
<1>1. p .. p = {p}
  BY DEF Positive
<1> QED
  BY <1>1, HeightNext DEF Balanced, Positive

\* A token that is no curly bracket keeps the balance.
LEMMA BalancedToken ==
  ASSUME cpp_tokens \in Seq(CppTokens), NEW p \in Positive,
         NEW type, type \notin {"LeftCurly", "RightCurly"}, Cpp!Is(p, type)
  PROVE  Balanced(p, p + 1) /\ p + 1 \in Positive
<1>1. ~Cpp!Is(p, "LeftCurly") /\ ~Cpp!Is(p, "RightCurly")
  BY DEF Cpp!Is
<1>2. p .. p + 1 = {p, p + 1} /\ p + 1 \in Positive /\ p <= p + 1
  BY DEF Positive
<1>3. Height(p + 1) = Height(p) /\ Height(p) \in Int
  BY <1>1, HeightNext
<1> QED
  BY <1>2, <1>3 DEF Balanced

\* What is balanced joins.
LEMMA BalancedJoin ==
  ASSUME cpp_tokens \in Seq(CppTokens), NEW p \in Positive, NEW q \in Positive, NEW r \in Positive,
         Balanced(p, q), Balanced(q, r)
  PROVE  Balanced(p, r)
<1>1. Height(p) \in Int /\ Height(q) \in Int /\ Height(r) \in Int
  BY HeightNext
<1>2. p <= q /\ q <= r /\ Height(p) = Height(q) /\ Height(q) = Height(r)
  BY DEF Balanced
<1>3. ASSUME NEW s \in p .. r PROVE Height(p) <= Height(s)
  <2>1. s \in p .. q \/ s \in q .. r
    BY <1>2 DEF Positive
  <2> QED
    BY <1>2, <2>1 DEF Balanced
<1>4. p <= r
  BY <1>2 DEF Positive
<1> QED
  BY <1>1, <1>2, <1>3, <1>4 DEF Balanced

\* A balanced row between curly brackets is balanced with them.
LEMMA BalancedBlock ==
  ASSUME cpp_tokens \in Seq(CppTokens), NEW p \in Positive, NEW q \in Positive,
         Cpp!Is(p, "LeftCurly"), Balanced(p + 1, q), Cpp!Is(q, "RightCurly")
  PROVE  Balanced(p, q + 1)
<1>1. p + 1 \in Positive /\ p + 1 <= q /\ p <= q + 1
  BY DEF Balanced, Positive
<1>2. /\ Height(p) \in Int /\ Height(p + 1) = Height(p) + 1
      /\ Height(q) = Height(p + 1) /\ Height(q + 1) = Height(q) - 1
  BY HeightNext DEF Balanced
<1>3. ASSUME NEW s \in p .. q + 1 PROVE Height(p) <= Height(s)
  <2>1. CASE s = p \/ s = q + 1
    BY <1>2, <2>1
  <2>2. CASE s # p /\ s # q + 1
    <3>1. s \in p + 1 .. q /\ s \in Positive
      BY <1>1, <2>2 DEF Positive
    <3>2. Height(p + 1) <= Height(s) /\ Height(s) \in Int
      BY <3>1, HeightNext DEF Balanced
    <3> QED
      BY <1>2, <3>2
  <2> QED
    BY <2>1, <2>2
<1> QED
  BY <1>1, <1>2, <1>3 DEF Balanced

-----------------------------------------------------------------------------
(* What the parsers find.                                                    *)

Outcomes == {"node", "null", "crash"}

\* What is found from p on ends where the curly brackets match.
Sound(found, p) ==
  /\ found.is \in Outcomes
  /\ found.is = "node" => found.at \in Positive /\ Balanced(p, found.at)

\* So does what is read when nothing is found.
Matched(found, p) ==
  /\ Sound(found, p)
  /\ found.is = "null" => found.at \in Positive /\ Balanced(p, found.at)

\* Every call from another parser fits.
CallsMatch(call) ==
  \A p \in Positive :
    /\ Matched(call.parse_expression[p], p)
    /\ Matched(call.parse_unary_expression[p], p)
    /\ Matched(call.Arguments[p], p)
    /\ Matched(call.FormalArguments[p], p)
    /\ Matched(call.parse_statement[p], p)
    /\ Matched(call.Statements[p], p)

\* What is made of the value of a parser is made of the one value there is.
LEMMA TheOnlyIs ==
  ASSUME NEW e
  PROVE  Cpp!TheOnly({e}) = e
  BY DEF Cpp!TheOnly

\* An alternative is that, whatever was tried before.
LEMMA OrIs ==
  ASSUME NEW f, NEW g
  PROVE  Cpp!Or(f, g) = IF f.is = "null" THEN g ELSE f
<1>1. {IF x.is = "null" THEN g ELSE x : x \in {f}} = {IF f.is = "null" THEN g ELSE f}
  OBVIOUS
<1> QED
  BY <1>1, TheOnlyIs DEF Cpp!Or, Cpp!With

\* A closing token follows what was found, or the row fails behind it.
LEMMA ClosedIs ==
  ASSUME NEW f, NEW type
  PROVE  Cpp!Closed(f, type) =
            IF f.is = "node"
            THEN IF Cpp!Is(f.at, type) THEN Cpp!Found(f.node, f.at + 1) ELSE Cpp!Null(f.at)
            ELSE f
<1> DEFINE Rest(x) == IF x.is = "node"
                      THEN IF Cpp!Is(x.at, type) THEN Cpp!Found(x.node, x.at + 1)
                           ELSE Cpp!Null(x.at)
                      ELSE x
<1>1. {Rest(x) : x \in {f}} = {Rest(f)}
  OBVIOUS
<1> QED
  BY <1>1, TheOnlyIs DEF Cpp!Closed, Cpp!Then, Cpp!With

\* Results at a place that is balanced fit.
LEMMA ResultsFit ==
  ASSUME NEW p, NEW q \in Positive, Balanced(p, q)
  PROVE  /\ Matched(Cpp!Null(q), p)
         /\ \A node : Matched(Cpp!Found(node, q), p)
         /\ Matched(Cpp!Crash, p)
  BY DEF Matched, Sound, Outcomes, Cpp!Null, Cpp!Found, Cpp!Crash

\* A parser that begins behind a balanced row fits the row's beginning.
LEMMA FitsFrom ==
  ASSUME cpp_tokens \in Seq(CppTokens), NEW p \in Positive, NEW q \in Positive, Balanced(p, q),
         NEW found, Matched(found, q)
  PROVE  Matched(found, p)
  BY BalancedJoin DEF Matched, Sound

\* An alternative fits if what is taken of the two fits; what a first one left
\* behind when it gave up does not matter.
LEMMA OrFits ==
  ASSUME NEW p, NEW f, NEW g, Sound(f, p), f.is = "null" => Matched(g, p)
  PROVE  Matched(Cpp!Or(f, g), p)
  BY OrIs DEF Matched, Sound, Outcomes

\* A closing token that is no curly bracket.
LEMMA ClosedFits ==
  ASSUME cpp_tokens \in Seq(CppTokens), NEW p \in Positive, NEW f, Matched(f, p),
         NEW type, type \notin {"LeftCurly", "RightCurly"}
  PROVE  Matched(Cpp!Closed(f, type), p)
<1>1. CASE f.is = "node" /\ Cpp!Is(f.at, type)
  <2>1. Balanced(f.at, f.at + 1) /\ f.at \in Positive /\ f.at + 1 \in Positive
    BY <1>1, BalancedToken DEF Matched, Sound
  <2>2. Balanced(p, f.at + 1)
    BY <1>1, <2>1, BalancedJoin DEF Matched, Sound
  <2> QED
    BY <1>1, <2>1, <2>2, ClosedIs, ResultsFit
<1>2. CASE f.is = "node" /\ ~Cpp!Is(f.at, type)
  BY <1>2, ClosedIs, ResultsFit DEF Matched, Sound
<1>3. CASE f.is # "node"
  BY <1>3, ClosedIs
<1> QED
  BY <1>1, <1>2, <1>3

\* What wraps a result keeps its place.
LEMMA WrapFits ==
  ASSUME NEW p, NEW f, Matched(f, p), NEW node, NEW e,
         e = IF f.is = "node" THEN Cpp!Found(node, f.at) ELSE f
  PROVE  Matched(Cpp!TheOnly({e}), p)
<1>1. Cpp!TheOnly({e}) = e
  BY TheOnlyIs
<1>2. CASE f.is = "node"
  BY <1>1, <1>2, ResultsFit DEF Matched, Sound
<1>3. CASE f.is # "node"
  BY <1>1, <1>3
<1> QED
  BY <1>2, <1>3

-----------------------------------------------------------------------------
(* Expressions.                                                              *)

\* A literal and a name are one token.
LEMMA TokenFits ==
  ASSUME cpp_tokens \in Seq(CppTokens), NEW p \in Positive
  PROVE  Matched(Cpp!IntegerLiteral(p), p) /\ Matched(Cpp!Identifier(p), p) /\ Matched(Cpp!Null(p), p)
<1>1. Balanced(p, p)
  BY BalancedHere
<1>2. Cpp!Is(p, "Number") => Balanced(p, p + 1) /\ p + 1 \in Positive
  BY BalancedToken
<1>3. Cpp!Is(p, "Name") => Balanced(p, p + 1) /\ p + 1 \in Positive
  BY BalancedToken
<1>4. Matched(Cpp!IntegerLiteral(p), p)
  BY <1>1, <1>2, ResultsFit DEF Cpp!IntegerLiteral
<1>5. Matched(Cpp!Identifier(p), p)
  BY <1>1, <1>3, ResultsFit DEF Cpp!Identifier
<1> QED
  BY <1>1, <1>4, <1>5, ResultsFit

\* A parser that begins behind a token.
LEMMA FitsBehind ==
  ASSUME cpp_tokens \in Seq(CppTokens), NEW p \in Positive,
         NEW type, type \notin {"LeftCurly", "RightCurly"}, Cpp!Is(p, type),
         NEW found, Matched(found, p + 1)
  PROVE  Matched(found, p)
  BY BalancedToken, FitsFrom

\* An expression in parentheses.
LEMMA ParenthisedFits ==
  ASSUME cpp_tokens \in Seq(CppTokens), NEW call, CallsMatch(call), NEW p \in Positive
  PROVE  Matched(Cpp!parse_parenthised_expression(call, p), p)
<1>1. CASE Cpp!Is(p, "LeftBracket")
  <2>1. p + 1 \in Positive
    BY DEF Positive
  <2>2. Matched(call.parse_expression[p + 1], p)
    BY <1>1, <2>1, FitsBehind DEF CallsMatch
  <2>3. Matched(Cpp!Closed(call.parse_expression[p + 1], "RightBracket"), p)
    BY <2>2, ClosedFits
  <2> QED
    BY <1>1, <2>3 DEF Cpp!parse_parenthised_expression
<1>2. CASE ~Cpp!Is(p, "LeftBracket")
  BY <1>2, TokenFits DEF Cpp!parse_parenthised_expression
<1> QED
  BY <1>1, <1>2

\* A primary expression, even if its literal stands behind parentheses given up.
LEMMA PrimaryFits ==
  ASSUME cpp_tokens \in Seq(CppTokens), NEW call, CallsMatch(call), NEW p \in Positive
  PROVE  Matched(Cpp!parse_primary_expression(call, p), p)
<1> DEFINE inner == Cpp!parse_parenthised_expression(call, p)
           Rest(x) == Cpp!Or(x, Cpp!Or(Cpp!IntegerLiteral(x.at), Cpp!Identifier(p)))
<1>1. {Rest(x) : x \in {inner}} = {Rest(inner)}
  OBVIOUS
<1>2. Cpp!parse_primary_expression(call, p) = Rest(inner)
  BY <1>1, TheOnlyIs DEF Cpp!parse_primary_expression, Cpp!With
<1>3. Matched(inner, p)
  BY ParenthisedFits
<1> HIDE DEF inner
<1>4. ASSUME inner.is = "null"
      PROVE  Matched(Cpp!Or(Cpp!IntegerLiteral(inner.at), Cpp!Identifier(p)), p)
  <2>1. inner.at \in Positive /\ Balanced(p, inner.at)
    BY <1>3, <1>4 DEF Matched
  <2>2. Matched(Cpp!IntegerLiteral(inner.at), p)
    BY <2>1, TokenFits, FitsFrom
  <2> QED
    BY <2>2, TokenFits, OrFits DEF Matched
<1> QED
  BY <1>2, <1>3, <1>4, OrFits DEF Matched

\* A list of arguments goes on behind each comma.
LEMMA ArgumentsFit ==
  ASSUME cpp_tokens \in Seq(CppTokens), NEW call, CallsMatch(call), NEW p \in Positive,
         NEW first, Matched(first, p)
  PROVE  Matched(Cpp!Arguments(call, first), p)
<1> DEFINE Others(x, y) == IF y.is = "node"
                           THEN Cpp!Found(<<x.node>> \o y.node, y.at) ELSE y
           Rest(x) == IF x.is = "node"
                      THEN IF ~Cpp!Is(x.at, "Comma") THEN Cpp!Found(<<x.node>>, x.at)
                           ELSE Cpp!TheOnly({Others(x, y) : y \in {call.Arguments[x.at + 1]}})
                      ELSE x
<1>1. {Rest(x) : x \in {first}} = {Rest(first)}
  OBVIOUS
<1>2. Cpp!Arguments(call, first) = Rest(first)
  BY <1>1, TheOnlyIs DEF Cpp!Arguments, Cpp!Then, Cpp!With
<1>3. CASE first.is = "node" /\ Cpp!Is(first.at, "Comma")
  <2> DEFINE others == call.Arguments[first.at + 1]
  <2>1. first.at \in Positive /\ first.at + 1 \in Positive /\ Balanced(p, first.at)
    BY <1>3 DEF Matched, Sound, Positive
  <2>2. Matched(others, first.at + 1)
    BY <2>1 DEF CallsMatch
  <2>3. Matched(others, p)
    BY <1>3, <2>1, <2>2, FitsBehind, FitsFrom
  <2>4. {Others(first, y) : y \in {others}} = {Others(first, others)}
    OBVIOUS
  <2> HIDE DEF others
  <2>5. Matched(Cpp!TheOnly({Others(first, others)}), p)
    BY <2>3, WrapFits
  <2> QED
    BY <1>2, <1>3, <2>4, <2>5 DEF others
<1>4. CASE first.is = "node" /\ ~Cpp!Is(first.at, "Comma")
  BY <1>2, <1>4, ResultsFit DEF Matched, Sound
<1>5. CASE first.is # "node"
  BY <1>2, <1>5
<1> QED
  BY <1>3, <1>4, <1>5

\* A call and its arguments.
LEMMA FunctionCallFits ==
  ASSUME cpp_tokens \in Seq(CppTokens), NEW call, CallsMatch(call), NEW p \in Positive
  PROVE  Matched(Cpp!FunctionCall(call, p), p)
<1> DEFINE first == call.parse_expression[p + 2]
           List(x) == IF x.is = "null" THEN Cpp!Found(<<>>, x.at) ELSE Cpp!Arguments(call, x)
           arguments == Cpp!Closed(Cpp!TheOnly({List(first)}), "RightBracket")
           Rest(x) == IF x.is = "node"
                      THEN Cpp!Found(Cpp!Node("FunctionCall", Cpp!Value(p), x.node), x.at) ELSE x
<1>1. {List(x) : x \in {first}} = {List(first)}
  OBVIOUS
<1>2. {Rest(x) : x \in {arguments}} = {Rest(arguments)}
  OBVIOUS
<1>3. CASE Cpp!Is(p, "Name") /\ Cpp!Is(p + 1, "LeftBracket")
  <2>1. Cpp!FunctionCall(call, p) = Cpp!TheOnly({Rest(arguments)})
    BY <1>1, <1>2, <1>3 DEF Cpp!FunctionCall, Cpp!Then, Cpp!With
  <2>2. p + 1 \in Positive /\ p + 2 \in Positive /\ p + 1 + 1 = p + 2
    BY DEF Positive
  <2>3. Matched(first, p + 2)
    BY <2>2 DEF CallsMatch
  <2>4. Balanced(p, p + 1) /\ Balanced(p + 1, p + 2)
    BY <1>3, <2>2, BalancedToken
  <2>5. Balanced(p, p + 2)
    BY <2>2, <2>4, BalancedJoin
  <2>6. Matched(first, p)
    BY <2>2, <2>3, <2>5, FitsFrom
  <2> HIDE DEF first
  <2>7. Matched(List(first), p)
    BY <2>6, ArgumentsFit, ResultsFit DEF Matched
  <2>8. Matched(arguments, p)
    BY <2>7, TheOnlyIs, ClosedFits
  <2> HIDE DEF arguments
  <2> QED
    BY <2>1, <2>8, WrapFits
<1>4. CASE Cpp!Is(p, "Name") /\ ~Cpp!Is(p + 1, "LeftBracket")
  <2>1. Cpp!FunctionCall(call, p) = Cpp!Null(p + 1)
    BY <1>4 DEF Cpp!FunctionCall
  <2> QED
    BY <1>4, <2>1, BalancedToken, ResultsFit
<1>5. CASE ~Cpp!Is(p, "Name")
  <2>1. Cpp!FunctionCall(call, p) = Cpp!Null(p)
    BY <1>5 DEF Cpp!FunctionCall
  <2> QED
    BY <2>1, TokenFits
<1> QED
  BY <1>3, <1>4, <1>5

\* A subscript behind a primary expression.
LEMMA SubscriptFits ==
  ASSUME cpp_tokens \in Seq(CppTokens), NEW call, CallsMatch(call), NEW p \in Positive
  PROVE  Matched(Cpp!Subscript(call, p), p)
<1> DEFINE subscripted == Cpp!parse_primary_expression(call, p)
           Inside(x) == Cpp!Closed(call.parse_expression[x.at + 1], "RightSquareBracket")
           Last(x, y) == IF y.is = "node"
                         THEN Cpp!Found(Cpp!Node("Subscript", <<>>, <<x.node, y.node>>), y.at)
                         ELSE y
           Rest(x) == IF x.is = "node"
                      THEN IF ~Cpp!Is(x.at, "LeftSquareBracket") THEN Cpp!Null(x.at)
                           ELSE Cpp!TheOnly({Last(x, y) : y \in {Inside(x)}})
                      ELSE x
<1>1. {Rest(x) : x \in {subscripted}} = {Rest(subscripted)}
  OBVIOUS
<1>2. Cpp!Subscript(call, p) = Rest(subscripted)
  BY <1>1, TheOnlyIs DEF Cpp!Subscript, Cpp!Then, Cpp!With
<1>3. Matched(subscripted, p)
  BY PrimaryFits
<1> HIDE DEF subscripted
<1>4. CASE subscripted.is = "node" /\ Cpp!Is(subscripted.at, "LeftSquareBracket")
  <2> DEFINE inside == Inside(subscripted)
  <2>1. /\ subscripted.at \in Positive /\ subscripted.at + 1 \in Positive
        /\ Balanced(p, subscripted.at)
    BY <1>3, <1>4 DEF Matched, Sound, Positive
  <2>2. Matched(call.parse_expression[subscripted.at + 1], p)
    BY <1>4, <2>1, FitsBehind, FitsFrom DEF CallsMatch
  <2>3. Matched(inside, p)
    BY <2>2, ClosedFits
  <2>4. {Last(subscripted, y) : y \in {inside}} = {Last(subscripted, inside)}
    OBVIOUS
  <2> HIDE DEF inside
  <2>5. Matched(Cpp!TheOnly({Last(subscripted, inside)}), p)
    BY <2>3, WrapFits
  <2> QED
    BY <1>2, <1>4, <2>4, <2>5 DEF inside
<1>5. CASE subscripted.is = "node" /\ ~Cpp!Is(subscripted.at, "LeftSquareBracket")
  BY <1>2, <1>3, <1>5, ResultsFit DEF Matched, Sound
<1>6. CASE subscripted.is # "node"
  BY <1>2, <1>3, <1>6
<1> QED
  BY <1>4, <1>5, <1>6

\* A call, a subscript or what is primary.
LEMMA CallFits ==
  ASSUME cpp_tokens \in Seq(CppTokens), NEW call, CallsMatch(call), NEW p \in Positive
  PROVE  Matched(Cpp!parse_function_call(call, p), p)
<1>1. Matched(Cpp!Or(Cpp!parse_primary_expression(call, p), Cpp!Null(p)), p)
  BY PrimaryFits, TokenFits, OrFits DEF Matched
<1>2. Matched(Cpp!Or(Cpp!Subscript(call, p),
              Cpp!Or(Cpp!parse_primary_expression(call, p), Cpp!Null(p))), p)
  BY <1>1, SubscriptFits, OrFits DEF Matched
<1> QED
  BY <1>2, FunctionCallFits, OrFits DEF Matched, Cpp!parse_function_call

\* An operator before an operand.
LEMMA UnaryFits ==
  ASSUME cpp_tokens \in Seq(CppTokens), NEW call, CallsMatch(call), NEW p \in Positive
  PROVE  Matched(Cpp!parse_unary_expression(call, p), p)
<1> DEFINE rhs == call.parse_unary_expression[p + 1]
           Rest(x) == IF x.is = "node"
                      THEN Cpp!Found(Cpp!Node("UnaryExpression",
                                              Cpp!UnaryType(Cpp!Value(p)), <<x.node>>), x.at)
                      ELSE x
           alternative == IF ~Cpp!Is(p, "Operator") THEN Cpp!Null(p)
                          ELSE Cpp!TheOnly({Rest(x) : x \in {rhs}})
<1>1. Cpp!parse_unary_expression(call, p) =
         Cpp!Or(Cpp!parse_function_call(call, p), alternative)
  BY DEF Cpp!parse_unary_expression, Cpp!Then, Cpp!With
<1>2. {Rest(x) : x \in {rhs}} = {Rest(rhs)}
  OBVIOUS
<1>3. Matched(alternative, p)
  <2>1. CASE Cpp!Is(p, "Operator")
    <3>1. p + 1 \in Positive
      BY DEF Positive
    <3>2. Matched(rhs, p)
      BY <2>1, <3>1, FitsBehind DEF CallsMatch
    <3> HIDE DEF rhs
    <3>3. Matched(Cpp!TheOnly({Rest(rhs)}), p)
      BY <3>2, WrapFits
    <3> QED
      BY <1>2, <2>1, <3>3
  <2>2. CASE ~Cpp!Is(p, "Operator")
    BY <2>2, TokenFits
  <2> QED
    BY <2>1, <2>2
<1> HIDE DEF alternative
<1> QED
  BY <1>1, <1>3, CallFits, OrFits DEF Matched

\* An assignment.
LEMMA ExpressionFits ==
  ASSUME cpp_tokens \in Seq(CppTokens), NEW call, CallsMatch(call), NEW p \in Positive
  PROVE  Matched(Cpp!parse_expression(call, p), p)
<1> DEFINE lhs == Cpp!parse_unary_expression(call, p)
           Right(x) == call.parse_expression[x.at + 1]
           Last(x, y) == IF y.is = "node"
                         THEN Cpp!Found(Cpp!Node("AssignmentExpression", <<>>,
                                                 <<x.node, y.node>>), y.at)
                         ELSE y
           Rest(x) == IF x.is = "node"
                      THEN IF ~Cpp!Is(x.at, "Operator") THEN x
                           ELSE Cpp!TheOnly({Last(x, y) : y \in {Right(x)}})
                      ELSE x
<1>1. {Rest(x) : x \in {lhs}} = {Rest(lhs)}
  OBVIOUS
<1>2. Cpp!parse_expression(call, p) = Rest(lhs)
  BY <1>1, TheOnlyIs DEF Cpp!parse_expression, Cpp!parse_assignment_expression, Cpp!Then, Cpp!With
<1>3. Matched(lhs, p)
  BY UnaryFits
<1> HIDE DEF lhs
<1>4. CASE lhs.is = "node" /\ Cpp!Is(lhs.at, "Operator")
  <2> DEFINE rhs == Right(lhs)
  <2>1. lhs.at \in Positive /\ lhs.at + 1 \in Positive /\ Balanced(p, lhs.at)
    BY <1>3, <1>4 DEF Matched, Sound, Positive
  <2>2. Matched(rhs, p)
    BY <1>4, <2>1, FitsBehind, FitsFrom DEF CallsMatch
  <2>3. {Last(lhs, y) : y \in {rhs}} = {Last(lhs, rhs)}
    OBVIOUS
  <2> HIDE DEF rhs
  <2>4. Matched(Cpp!TheOnly({Last(lhs, rhs)}), p)
    BY <2>2, WrapFits
  <2> QED
    BY <1>2, <1>4, <2>3, <2>4 DEF rhs
<1>5. CASE ~(lhs.is = "node" /\ Cpp!Is(lhs.at, "Operator"))
  BY <1>2, <1>3, <1>5
<1> QED
  BY <1>4, <1>5



-----------------------------------------------------------------------------
(* Types and declarations.                                                   *)

\* One or two words for a type.
LEMMA SimpleTypeFits ==
  ASSUME cpp_tokens \in Seq(CppTokens), NEW p \in Positive
  PROVE  Matched(Cpp!SimpleTypeSpecifier(p), p)
<1>1. CASE ~Cpp!Is(p, "TypeName")
  <2>1. Cpp!SimpleTypeSpecifier(p) = Cpp!Null(p)
    BY <1>1 DEF Cpp!SimpleTypeSpecifier
  <2> QED
    BY <2>1, TokenFits
<1>2. CASE Cpp!Is(p, "TypeName")
  <2>1. Balanced(p, p + 1) /\ p + 1 \in Positive
    BY <1>2, BalancedToken
  <2>2. Matched(Cpp!Null(p + 1), p) /\ \A node : Matched(Cpp!Found(node, p + 1), p)
    BY <2>1, ResultsFit
  <2>3. CASE Cpp!Is(p + 1, "TypeName")
    <3>1. Balanced(p + 1, p + 1 + 1) /\ p + 1 + 1 \in Positive /\ p + 1 + 1 = p + 2
      BY <2>1, <2>3, BalancedToken DEF Positive
    <3>2. Balanced(p, p + 2)
      BY <2>1, <3>1, BalancedJoin
    <3>3. Matched(Cpp!Null(p + 2), p) /\ \A node : Matched(Cpp!Found(node, p + 2), p)
      BY <3>1, <3>2, ResultsFit
    <3> QED
      BY <1>2, <2>2, <2>3, <3>3, Zenon DEF Cpp!SimpleTypeSpecifier
  <2>4. CASE ~Cpp!Is(p + 1, "TypeName")
    BY <1>2, <2>2, <2>4, Zenon DEF Cpp!SimpleTypeSpecifier
  <2> QED
    BY <2>3, <2>4
<1> QED
  BY <1>1, <1>2

\* A type and its stars.
LEMMA TypeFits ==
  ASSUME cpp_tokens \in Seq(CppTokens), NEW p \in Positive
  PROVE  Matched(Cpp!parse_type_specifier(p), p)
<1> DEFINE simple == Cpp!SimpleTypeSpecifier(p)
           Stars(at) == \A i \in DOMAIN Cpp!Value(at) : Cpp!Value(at)[i] = "*"
           Behind(x) == IF x.at > Len(cpp_tokens) THEN Cpp!Crash
                        ELSE IF ~Cpp!Is(x.at, "Operator") THEN x
                        ELSE IF ~Stars(x.at) THEN Cpp!Null(x.at)
                        ELSE Cpp!Found(Cpp!Pointer(Cpp!Value(x.at), x.node), x.at + 1)
           Rest(x) == IF x.is = "node" THEN Behind(x) ELSE x
<1>1. {Rest(x) : x \in {simple}} = {Rest(simple)}
  OBVIOUS
<1>2. Cpp!parse_type_specifier(p) = Rest(simple)
  BY <1>1, TheOnlyIs DEF Cpp!parse_type_specifier, Cpp!Then, Cpp!With
<1>3. Matched(simple, p)
  BY SimpleTypeFits
<1> HIDE DEF simple, Stars
<1>4. CASE simple.is = "node"
  <2>1. simple.at \in Positive /\ Balanced(p, simple.at)
    BY <1>3, <1>4 DEF Matched, Sound
  <2>2. /\ Matched(Cpp!Crash, p) /\ Matched(Cpp!Null(simple.at), p)
    BY <2>1, ResultsFit
  <2>3. Cpp!Is(simple.at, "Operator") =>
           \A node : Matched(Cpp!Found(node, simple.at + 1), p)
    <3>1. SUFFICES ASSUME Cpp!Is(simple.at, "Operator")
                   PROVE  \A node : Matched(Cpp!Found(node, simple.at + 1), p)
      OBVIOUS
    <3>2. Balanced(simple.at, simple.at + 1) /\ simple.at + 1 \in Positive
      BY <2>1, <3>1, BalancedToken
    <3>3. Balanced(p, simple.at + 1)
      BY <2>1, <3>2, BalancedJoin
    <3> QED
      BY <3>2, <3>3, ResultsFit
  <2>4. Matched(Behind(simple), p)
    BY <1>3, <2>2, <2>3
  <2> QED
    BY <1>2, <1>4, <2>4
<1>5. CASE simple.is # "node"
  BY <1>2, <1>3, <1>5
<1> QED
  BY <1>4, <1>5

\* A variable and its value.
LEMMA VariableFits ==
  ASSUME cpp_tokens \in Seq(CppTokens), NEW call, CallsMatch(call), NEW p \in Positive
  PROVE  Matched(Cpp!VariableDeclaration(call, p), p)
<1> DEFINE type == Cpp!Closed(Cpp!parse_type_specifier(p), "Name")
           Initial(x) == call.parse_expression[x.at + 1]
           Last(x, y) == IF y.is = "node"
                         THEN Cpp!Found(Cpp!Variable(Cpp!Value(x.at - 1), x.node, <<y.node>>), y.at)
                         ELSE y
           Rest(x) == IF x.is = "node"
                      THEN IF ~Cpp!Is(x.at, "Operator")
                           THEN Cpp!Found(Cpp!Variable(Cpp!Value(x.at - 1), x.node, <<>>), x.at)
                           ELSE Cpp!TheOnly({Last(x, y) : y \in {Initial(x)}})
                      ELSE x
<1>1. {Rest(x) : x \in {type}} = {Rest(type)}
  OBVIOUS
<1>2. Cpp!VariableDeclaration(call, p) = Rest(type)
  BY <1>1, TheOnlyIs DEF Cpp!VariableDeclaration, Cpp!Then, Cpp!With
<1>3. Matched(type, p)
  BY TypeFits, ClosedFits
<1> HIDE DEF type
<1>4. CASE type.is = "node" /\ Cpp!Is(type.at, "Operator")
  <2> DEFINE value == Initial(type)
  <2>1. type.at \in Positive /\ type.at + 1 \in Positive /\ Balanced(p, type.at)
    BY <1>3, <1>4 DEF Matched, Sound, Positive
  <2>2. Matched(value, p)
    BY <1>4, <2>1, FitsBehind, FitsFrom DEF CallsMatch
  <2>3. {Last(type, y) : y \in {value}} = {Last(type, value)}
    OBVIOUS
  <2> HIDE DEF value
  <2>4. Matched(Cpp!TheOnly({Last(type, value)}), p)
    BY <2>2, WrapFits
  <2> QED
    BY <1>2, <1>4, <2>3, <2>4 DEF value
<1>5. CASE type.is = "node" /\ ~Cpp!Is(type.at, "Operator")
  BY <1>2, <1>3, <1>5, ResultsFit DEF Matched, Sound
<1>6. CASE type.is # "node"
  BY <1>2, <1>3, <1>6
<1> QED
  BY <1>4, <1>5, <1>6

\* A list of formal arguments, which ends where no declaration is found.
LEMMA FormalArgumentsFit ==
  ASSUME cpp_tokens \in Seq(CppTokens), NEW call, CallsMatch(call), NEW p \in Positive
  PROVE  Matched(Cpp!FormalArguments(call, p), p)
<1> DEFINE first == Cpp!VariableDeclaration(call, p)
           Others(x, y) == IF y.is = "node"
                           THEN Cpp!Found(<<x.node>> \o y.node, y.at) ELSE y
           Rest(x) == IF x.is = "null" THEN Cpp!Found(<<>>, x.at)
                      ELSE IF x.is = "crash" THEN Cpp!Crash
                      ELSE IF ~Cpp!Is(x.at, "Comma") THEN Cpp!Found(<<x.node>>, x.at)
                      ELSE Cpp!TheOnly({Others(x, y) : y \in {call.FormalArguments[x.at + 1]}})
<1>1. {Rest(x) : x \in {first}} = {Rest(first)}
  OBVIOUS
<1>2. Cpp!FormalArguments(call, p) = Rest(first)
  BY <1>1, TheOnlyIs DEF Cpp!FormalArguments, Cpp!Then, Cpp!With
<1>3. Matched(first, p)
  BY VariableFits
<1> HIDE DEF first
<1>4. CASE first.is = "node" /\ Cpp!Is(first.at, "Comma")
  <2> DEFINE others == call.FormalArguments[first.at + 1]
  <2>1. first.at \in Positive /\ first.at + 1 \in Positive /\ Balanced(p, first.at)
    BY <1>3, <1>4 DEF Matched, Sound, Positive
  <2>2. Matched(others, p)
    BY <1>4, <2>1, FitsBehind, FitsFrom DEF CallsMatch
  <2>3. {Others(first, y) : y \in {others}} = {Others(first, others)}
    OBVIOUS
  <2> HIDE DEF others
  <2>4. Matched(Cpp!TheOnly({Others(first, others)}), p)
    BY <2>2, WrapFits
  <2> QED
    BY <1>2, <1>4, <2>3, <2>4 DEF others
<1>5. CASE first.is = "node" /\ ~Cpp!Is(first.at, "Comma")
  BY <1>2, <1>3, <1>5, ResultsFit DEF Matched, Sound
<1>6. CASE first.is = "null"
  BY <1>2, <1>3, <1>6, ResultsFit DEF Matched, Sound
<1>7. CASE first.is = "crash"
  <2>1. Cpp!FormalArguments(call, p) = Cpp!Crash
    BY <1>2, <1>7
  <2> QED
    BY <2>1, BalancedHere, ResultsFit
<1> QED
  BY <1>3, <1>4, <1>5, <1>6, <1>7 DEF Matched, Sound, Outcomes


\* A code block, which when it is given up may be left in the middle.
LEMMA CodeBlockIsSound ==
  ASSUME cpp_tokens \in Seq(CppTokens), NEW call, CallsMatch(call), NEW p \in Positive
  PROVE  Sound(Cpp!CodeBlock(call, p), p)
<1> DEFINE inside == call.Statements[p + 1]
           closed == Cpp!Closed(inside, "RightCurly")
           Rest(x) == IF x.is = "node"
                      THEN Cpp!Found(Cpp!Node("CodeBlock", <<>>, x.node), x.at) ELSE x
<1>1. CASE Cpp!Is(p, "LeftCurly")
  <2>1. {Rest(x) : x \in {closed}} = {Rest(closed)}
    OBVIOUS
  <2>2. Cpp!CodeBlock(call, p) = Rest(closed)
    BY <1>1, <2>1, TheOnlyIs DEF Cpp!CodeBlock, Cpp!Then, Cpp!With
  <2>3. closed = IF inside.is = "node"
                 THEN IF Cpp!Is(inside.at, "RightCurly") THEN Cpp!Found(inside.node, inside.at + 1)
                      ELSE Cpp!Null(inside.at)
                 ELSE inside
    BY ClosedIs
  <2>4. p + 1 \in Positive
    BY DEF Positive
  <2>5. Matched(inside, p + 1)
    BY <2>4 DEF CallsMatch
  <2> HIDE DEF inside, closed
  <2>6. CASE inside.is = "node" /\ Cpp!Is(inside.at, "RightCurly")
    <3>1. inside.at \in Positive /\ inside.at + 1 \in Positive /\ Balanced(p + 1, inside.at)
      BY <2>5, <2>6 DEF Matched, Sound, Positive
    <3>2. Balanced(p, inside.at + 1)
      BY <1>1, <2>6, <3>1, BalancedBlock
    <3>3. Matched(closed, p)
      BY <2>3, <2>6, <3>1, <3>2, ResultsFit
    <3> QED
      BY <2>2, <3>3, WrapFits, TheOnlyIs DEF Matched
  <2>7. CASE ~(inside.is = "node" /\ Cpp!Is(inside.at, "RightCurly"))
    <3>1. closed.is \in {"null", "crash"}
      BY <2>3, <2>5, <2>7 DEF Matched, Sound, Outcomes, Cpp!Null
    <3> QED
      BY <2>2, <3>1 DEF Sound, Outcomes
  <2> QED
    BY <2>6, <2>7
<1>2. CASE ~Cpp!Is(p, "LeftCurly")
  <2>1. Cpp!CodeBlock(call, p) = Cpp!Null(p)
    BY <1>2 DEF Cpp!CodeBlock
  <2> QED
    BY <2>1, TokenFits DEF Matched
<1> QED
  BY <1>1, <1>2

\* What wraps a sound result keeps its place.
LEMMA WrapIsSound ==
  ASSUME NEW p, NEW f, Sound(f, p), NEW node, NEW e,
         e = IF f.is = "node" THEN Cpp!Found(node, f.at) ELSE f
  PROVE  Sound(Cpp!TheOnly({e}), p)
<1>1. Cpp!TheOnly({e}) = e
  BY TheOnlyIs
<1>2. CASE f.is = "node"
  BY <1>1, <1>2, ResultsFit DEF Matched, Sound
<1>3. CASE f.is # "node"
  BY <1>1, <1>3
<1> QED
  BY <1>2, <1>3

\* A function and its body.
LEMMA FunctionIsSound ==
  ASSUME cpp_tokens \in Seq(CppTokens), NEW call, CallsMatch(call), NEW p \in Positive
  PROVE  Sound(Cpp!FunctionDefinition(call, p), p)
<1> DEFINE type == Cpp!Closed(Cpp!parse_type_specifier(p), "Name")
           Arguments(x) == Cpp!Closed(call.FormalArguments[x.at + 1], "RightBracket")
           Last(x, y, z) ==
             IF z.is = "node"
             THEN Cpp!Found(Cpp!Function(Cpp!Value(x.at - 1), x.node, y.node, z.node), z.at)
             ELSE z
           Body(x, y) == IF y.is = "node"
                         THEN Cpp!TheOnly({Last(x, y, z) : z \in {Cpp!CodeBlock(call, y.at)}})
                         ELSE y
           Rest(x) == IF x.is = "node"
                      THEN IF ~Cpp!Is(x.at, "LeftBracket") THEN Cpp!Null(x.at)
                           ELSE Cpp!TheOnly({Body(x, y) : y \in {Arguments(x)}})
                      ELSE x
<1>1. {Rest(x) : x \in {type}} = {Rest(type)}
  OBVIOUS
<1>2. Cpp!FunctionDefinition(call, p) = Rest(type)
  BY <1>1, TheOnlyIs DEF Cpp!FunctionDefinition, Cpp!Then, Cpp!With
<1>3. Matched(type, p)
  BY TypeFits, ClosedFits
<1> HIDE DEF type
<1>4. CASE type.is = "node" /\ Cpp!Is(type.at, "LeftBracket")
  <2> DEFINE arguments == Arguments(type)
             body == Cpp!CodeBlock(call, arguments.at)
  <2>1. type.at \in Positive /\ type.at + 1 \in Positive /\ Balanced(p, type.at)
    BY <1>3, <1>4 DEF Matched, Sound, Positive
  <2>2. Matched(call.FormalArguments[type.at + 1], p)
    BY <1>4, <2>1, FitsBehind, FitsFrom DEF CallsMatch
  <2>3. Matched(arguments, p)
    BY <2>2, ClosedFits
  <2>4. {Body(type, y) : y \in {arguments}} = {Body(type, arguments)}
    OBVIOUS
  <2>5. Rest(type) = Body(type, arguments)
    BY <1>4, <2>4, TheOnlyIs
  <2>6. {Last(type, arguments, z) : z \in {body}} = {Last(type, arguments, body)}
    OBVIOUS
  <2>7. Body(type, arguments) = IF arguments.is = "node"
                                THEN Cpp!TheOnly({Last(type, arguments, body)}) ELSE arguments
    BY <2>6
  <2> HIDE DEF arguments
  <2>8. CASE arguments.is = "node"
    <3>1. arguments.at \in Positive /\ Balanced(p, arguments.at)
      BY <2>3, <2>8 DEF Matched, Sound
    <3>2. Sound(body, arguments.at)
      BY <3>1, CodeBlockIsSound
    <3>3. Sound(body, p)
      BY <3>1, <3>2, BalancedJoin DEF Sound
    <3> HIDE DEF body
    <3>4. Sound(Cpp!TheOnly({Last(type, arguments, body)}), p)
      BY <3>3, WrapIsSound
    <3> QED
      BY <1>2, <2>5, <2>7, <2>8, <3>4
  <2>9. CASE arguments.is # "node"
    BY <1>2, <2>3, <2>5, <2>7, <2>9 DEF Matched
  <2> QED
    BY <2>8, <2>9
<1>5. CASE type.is = "node" /\ ~Cpp!Is(type.at, "LeftBracket")
  BY <1>2, <1>3, <1>5, ResultsFit DEF Matched, Sound
<1>6. CASE type.is # "node"
  BY <1>2, <1>3, <1>6 DEF Matched
<1> QED
  BY <1>4, <1>5, <1>6

\* A declaration: what is left behind by the function that was given up does not
\* matter, because a variable is looked for from the beginning.
LEMMA DeclarationFits ==
  ASSUME cpp_tokens \in Seq(CppTokens), NEW call, CallsMatch(call), NEW p \in Positive
  PROVE  Matched(Cpp!parse_declaration(call, p), p)
  BY FunctionIsSound, VariableFits, OrFits DEF Cpp!parse_declaration

-----------------------------------------------------------------------------
(* Statements.                                                               *)

\* A row of statements, which ends before a closing bracket.
LEMMA StatementsFit ==
  ASSUME cpp_tokens \in Seq(CppTokens), NEW call, CallsMatch(call), NEW p \in Positive
  PROVE  Matched(Cpp!Statements(call, p), p)
<1> DEFINE first == call.parse_statement[p]
           Others(x, y) == IF y.is = "node"
                           THEN Cpp!Found(<<x.node>> \o y.node, y.at) ELSE y
           Rest(x) == IF x.is = "node"
                      THEN Cpp!TheOnly({Others(x, y) : y \in {call.Statements[x.at]}})
                      ELSE x
<1>1. {Rest(x) : x \in {first}} = {Rest(first)}
  OBVIOUS
<1>2. CASE p > Len(cpp_tokens) \/ Cpp!Is(p, "RightCurly")
  <2>1. Cpp!Statements(call, p) = Cpp!Found(<<>>, p)
    BY <1>2 DEF Cpp!Statements
  <2> QED
    BY <2>1, BalancedHere, ResultsFit
<1>3. CASE ~(p > Len(cpp_tokens) \/ Cpp!Is(p, "RightCurly"))
  <2>1. Cpp!Statements(call, p) = Rest(first)
    BY <1>1, <1>3, TheOnlyIs DEF Cpp!Statements, Cpp!Then, Cpp!With
  <2>2. Matched(first, p)
    BY DEF CallsMatch
  <2> HIDE DEF first
  <2>3. CASE first.is = "node"
    <3> DEFINE others == call.Statements[first.at]
    <3>1. first.at \in Positive /\ Balanced(p, first.at)
      BY <2>2, <2>3 DEF Matched, Sound
    <3>2. Matched(others, p)
      BY <3>1, FitsFrom DEF CallsMatch
    <3>3. {Others(first, y) : y \in {others}} = {Others(first, others)}
      OBVIOUS
    <3> HIDE DEF others
    <3>4. Matched(Cpp!TheOnly({Others(first, others)}), p)
      BY <3>2, WrapFits
    <3> QED
      BY <2>1, <2>3, <3>3, <3>4 DEF others
  <2>4. CASE first.is # "node"
    BY <2>1, <2>2, <2>4
  <2> QED
    BY <2>3, <2>4
<1> QED
  BY <1>2, <1>3

\* A keyword is one token.
LEMMA KeywordBehind ==
  ASSUME cpp_tokens \in Seq(CppTokens), NEW p \in Positive, NEW word, Cpp!IsKeyword(p, word),
         NEW found, Matched(found, p + 1)
  PROVE  Matched(found, p)
  BY FitsBehind DEF Cpp!IsKeyword

\* An else, or none.
LEMMA ElseFits ==
  ASSUME cpp_tokens \in Seq(CppTokens), NEW call, CallsMatch(call), NEW p \in Positive
  PROVE  Matched(Cpp!Else(call, p), p)
<1> DEFINE statement == call.parse_statement[p + 1]
           Rest(x) == IF x.is = "crash" THEN Cpp!Crash
                      ELSE IF x.is = "null" THEN Cpp!Found(<<>>, x.at)
                      ELSE Cpp!Found(<<x.node>>, x.at)
<1>1. {Rest(x) : x \in {statement}} = {Rest(statement)}
  OBVIOUS
<1>2. CASE ~Cpp!IsKeyword(p, "else")
  <2>1. Cpp!Else(call, p) = Cpp!Found(<<>>, p)
    BY <1>2 DEF Cpp!Else
  <2> QED
    BY <2>1, BalancedHere, ResultsFit
<1>3. CASE Cpp!IsKeyword(p, "else")
  <2>1. Cpp!Else(call, p) = Rest(statement)
    BY <1>1, <1>3, TheOnlyIs DEF Cpp!Else, Cpp!With
  <2>2. p + 1 \in Positive
    BY DEF Positive
  <2>3. Matched(statement, p)
    BY <1>3, <2>2, KeywordBehind DEF CallsMatch
  <2> HIDE DEF statement
  <2>4. CASE statement.is = "crash"
    BY <2>1, <2>4, BalancedHere, ResultsFit
  <2>5. CASE statement.is # "crash"
    <3>1. statement.at \in Positive /\ Balanced(p, statement.at)
      BY <2>3, <2>5 DEF Matched, Sound, Outcomes
    <3> QED
      BY <2>1, <2>5, <3>1, ResultsFit
  <2> QED
    BY <2>4, <2>5
<1> QED
  BY <1>2, <1>3

\* An if and its statements.
LEMMA IfFits ==
  ASSUME cpp_tokens \in Seq(CppTokens), NEW call, CallsMatch(call), NEW p \in Positive
  PROVE  Matched(Cpp!IfStatement(call, p), p)
<1> DEFINE condition == Cpp!Closed(call.parse_expression[p + 2], "RightBracket")
           Last(x, y, z) ==
             IF z.is = "node"
             THEN Cpp!Found(Cpp!Node("IfStatement", <<>>, <<x.node, y.node>> \o z.node), z.at)
             ELSE z
           Other(x, y) == IF y.is = "node"
                          THEN Cpp!TheOnly({Last(x, y, z) : z \in {Cpp!Else(call, y.at)}})
                          ELSE y
           Rest(x) == IF x.is = "node"
                      THEN Cpp!TheOnly({Other(x, y) : y \in {call.parse_statement[x.at]}})
                      ELSE x
<1>1. {Rest(x) : x \in {condition}} = {Rest(condition)}
  OBVIOUS
<1>2. CASE ~Cpp!IsKeyword(p, "if") \/ ~Cpp!Is(p + 1, "LeftBracket")
  <2>1. Cpp!IfStatement(call, p) = Cpp!Null(p)
    BY <1>2 DEF Cpp!IfStatement
  <2> QED
    BY <2>1, TokenFits
<1>3. CASE Cpp!IsKeyword(p, "if") /\ Cpp!Is(p + 1, "LeftBracket")
  <2>1. Cpp!IfStatement(call, p) = Rest(condition)
    BY <1>1, <1>3, TheOnlyIs DEF Cpp!IfStatement, Cpp!Then, Cpp!With
  <2>2. p + 1 \in Positive /\ p + 2 \in Positive /\ p + 1 + 1 = p + 2
    BY DEF Positive
  <2>3. Matched(call.parse_expression[p + 2], p + 1)
    BY <1>3, <2>2, FitsBehind DEF CallsMatch
  <2>4. Matched(call.parse_expression[p + 2], p)
    BY <1>3, <2>3, KeywordBehind
  <2>5. Matched(condition, p)
    BY <2>4, ClosedFits
  <2> HIDE DEF condition
  <2>6. CASE condition.is = "node"
    <3> DEFINE then == call.parse_statement[condition.at]
               else == Cpp!Else(call, then.at)
    <3>1. condition.at \in Positive /\ Balanced(p, condition.at)
      BY <2>5, <2>6 DEF Matched, Sound
    <3>2. Matched(then, p)
      BY <3>1, FitsFrom DEF CallsMatch
    <3>3. {Other(condition, y) : y \in {then}} = {Other(condition, then)}
      OBVIOUS
    <3>4. Rest(condition) = Other(condition, then)
      BY <2>6, <3>3, TheOnlyIs
    <3>5. {Last(condition, then, z) : z \in {else}} = {Last(condition, then, else)}
      OBVIOUS
    <3>6. Other(condition, then) = IF then.is = "node"
                                   THEN Cpp!TheOnly({Last(condition, then, else)}) ELSE then
      BY <3>5
    <3> HIDE DEF then
    <3>7. CASE then.is = "node"
      <4>1. then.at \in Positive /\ Balanced(p, then.at)
        BY <3>2, <3>7 DEF Matched, Sound
      <4>2. Matched(else, p)
        BY <4>1, ElseFits, FitsFrom
      <4> HIDE DEF else
      <4>3. Matched(Cpp!TheOnly({Last(condition, then, else)}), p)
        BY <4>2, WrapFits
      <4> QED
        BY <2>1, <3>4, <3>6, <3>7, <4>3
    <3>8. CASE then.is # "node"
      BY <2>1, <3>2, <3>4, <3>6, <3>8
    <3> QED
      BY <3>7, <3>8
  <2>7. CASE condition.is # "node"
    BY <2>1, <2>5, <2>7
  <2> QED
    BY <2>6, <2>7
<1> QED
  BY <1>2, <1>3

\* A return, with a value or without.
LEMMA ReturnFits ==
  ASSUME cpp_tokens \in Seq(CppTokens), NEW call, CallsMatch(call), NEW p \in Positive
  PROVE  Matched(Cpp!ReturnStatement(call, p), p)
<1> DEFINE value == call.parse_expression[p + 1]
           Rest(x) == IF x.is = "crash" THEN Cpp!Crash
                      ELSE Cpp!Found(Cpp!Node("ReturnStatement", <<>>,
                                       IF x.is = "node" THEN <<x.node>> ELSE <<>>), x.at)
<1>1. {Rest(x) : x \in {value}} = {Rest(value)}
  OBVIOUS
<1>2. CASE ~Cpp!IsKeyword(p, "return")
  <2>1. Cpp!ReturnStatement(call, p) = Cpp!Null(p)
    BY <1>2 DEF Cpp!ReturnStatement
  <2> QED
    BY <2>1, TokenFits
<1>3. CASE Cpp!IsKeyword(p, "return")
  <2>1. Cpp!ReturnStatement(call, p) = Rest(value)
    BY <1>1, <1>3, TheOnlyIs DEF Cpp!ReturnStatement, Cpp!With
  <2>2. p + 1 \in Positive
    BY DEF Positive
  <2>3. Matched(value, p)
    BY <1>3, <2>2, KeywordBehind DEF CallsMatch
  <2> HIDE DEF value
  <2>4. CASE value.is = "crash"
    BY <2>1, <2>4, BalancedHere, ResultsFit
  <2>5. CASE value.is # "crash"
    <3>1. value.at \in Positive /\ Balanced(p, value.at)
      BY <2>3, <2>5 DEF Matched, Sound, Outcomes
    <3> QED
      BY <2>1, <2>5, <3>1, ResultsFit
  <2> QED
    BY <2>4, <2>5
<1> QED
  BY <1>2, <1>3

\* A statement made of what was found.
LEMMA WrappedFits ==
  ASSUME NEW p, NEW f, Matched(f, p), NEW node
  PROVE  Matched(Cpp!Statement(node, f), p)
<1> DEFINE Rest(x) == IF x.is = "node"
                      THEN Cpp!Found(Cpp!Node(node, <<>>, <<x.node>>), x.at) ELSE x
<1>1. {Rest(x) : x \in {f}} = {Rest(f)}
  OBVIOUS
<1>2. Cpp!Statement(node, f) = Cpp!TheOnly({Rest(f)})
  BY <1>1 DEF Cpp!Statement, Cpp!Then, Cpp!With
<1> QED
  BY <1>2, WrapFits

\* A statement, closed by a semicolon if it needs one.
LEMMA StatementFits ==
  ASSUME cpp_tokens \in Seq(CppTokens), NEW call, CallsMatch(call), NEW p \in Positive
  PROVE  Matched(Cpp!parse_statement(call, p), p)
<1> DEFINE plain == Cpp!Or(Cpp!ExpressionStatement(call, p), Cpp!DeclarationStatement(call, p))
           found == Cpp!Or(Cpp!CodeBlock(call, p), Cpp!Or(Cpp!IfStatement(call, p),
                       Cpp!Or(Cpp!ReturnStatement(call, p), plain)))
           Rest(x) == IF x.is = "node"
                      THEN IF Cpp!need_semicolon(x.node) THEN Cpp!Closed(x, "Semicolon") ELSE x
                      ELSE x
<1>1. {Rest(x) : x \in {found}} = {Rest(found)}
  OBVIOUS
<1>2. Cpp!parse_statement(call, p) = Rest(found)
  BY <1>1, TheOnlyIs DEF Cpp!parse_statement, Cpp!Then, Cpp!With
<1>3. Matched(plain, p)
  <2>1. Matched(Cpp!ExpressionStatement(call, p), p)
    BY ExpressionFits, WrappedFits DEF Cpp!ExpressionStatement
  <2>2. Matched(Cpp!DeclarationStatement(call, p), p)
    BY DeclarationFits, WrappedFits DEF Cpp!DeclarationStatement
  <2> QED
    BY <2>1, <2>2, OrFits DEF Matched
<1> HIDE DEF plain
<1>4. Matched(Cpp!Or(Cpp!ReturnStatement(call, p), plain), p)
  BY <1>3, ReturnFits, OrFits DEF Matched
<1>5. Matched(Cpp!Or(Cpp!IfStatement(call, p), Cpp!Or(Cpp!ReturnStatement(call, p), plain)), p)
  BY <1>4, IfFits, OrFits DEF Matched
<1>6. Matched(found, p)
  BY <1>5, CodeBlockIsSound, OrFits
<1> HIDE DEF found
<1>7. Matched(Cpp!Closed(found, "Semicolon"), p)
  BY <1>6, ClosedFits
<1> QED
  BY <1>2, <1>6, <1>7


-----------------------------------------------------------------------------
(* Calls.                                                                    *)

\* All parsers fit when those they call do.
LEMMA GrammarFits ==
  ASSUME cpp_tokens \in Seq(CppTokens), NEW call, CallsMatch(call)
  PROVE  CallsMatch(Cpp!Grammar(call))
<1> DEFINE g == Cpp!Grammar(call)
<1>1. ASSUME NEW p \in Positive
      PROVE  /\ g.parse_expression[p] = Cpp!parse_expression(call, p)
             /\ g.parse_unary_expression[p] = Cpp!parse_unary_expression(call, p)
             /\ g.Arguments[p] = Cpp!Arguments(call, call.parse_expression[p])
             /\ g.FormalArguments[p] = Cpp!FormalArguments(call, p)
             /\ g.parse_statement[p] = Cpp!parse_statement(call, p)
             /\ g.Statements[p] = Cpp!Statements(call, p)
  <2>1. p \in Nat
    BY DEF Positive
  <2> QED
    BY <2>1 DEF Cpp!Grammar
<1>2. ASSUME NEW p \in Positive
      PROVE  Matched(Cpp!Arguments(call, call.parse_expression[p]), p)
  BY ArgumentsFit DEF CallsMatch
<1> HIDE DEF g
<1>3. CallsMatch(g)
  BY <1>1, <1>2, ExpressionFits, UnaryFits, FormalArgumentsFit, StatementFits, StatementsFit
     DEF CallsMatch
<1> QED
  BY <1>3 DEF g

\* A stack that has overflown leaves nothing behind.
LEMMA OverflowFits ==
  CallsMatch(Cpp!Overflow)
<1>1. ASSUME NEW p \in Positive
      PROVE  /\ Cpp!Overflow.parse_expression[p] = Cpp!Crash
             /\ Cpp!Overflow.parse_unary_expression[p] = Cpp!Crash
             /\ Cpp!Overflow.Arguments[p] = Cpp!Crash
             /\ Cpp!Overflow.FormalArguments[p] = Cpp!Crash
             /\ Cpp!Overflow.parse_statement[p] = Cpp!Crash
             /\ Cpp!Overflow.Statements[p] = Cpp!Crash
  <2>1. p \in Nat
    BY DEF Positive
  <2> QED
    BY <2>1 DEF Cpp!Overflow
<1>2. ASSUME NEW p PROVE Matched(Cpp!Crash, p)
  BY DEF Matched, Sound, Outcomes, Cpp!Crash
<1> QED
  BY <1>1, <1>2 DEF CallsMatch

\* Induction over a set of natural numbers.
LEMMA AllNaturals ==
  ASSUME NEW T \in SUBSET Nat, 0 \in T, \A n \in T : n + 1 \in T
  PROVE  T = Nat
<1>1. SUFFICES ASSUME Nat \ T # {} PROVE FALSE
  OBVIOUS
<1>2. PICK m \in Nat \ T : \A n \in Nat \ T : m <= n
  BY <1>1, LeastNatural
<1>3. m # 0 /\ m - 1 \in Nat /\ m - 1 + 1 = m /\ ~(m <= m - 1)
  BY <1>2
<1>4. m - 1 \in T
  BY <1>2, <1>3
<1> QED
  BY <1>3, <1>4

\* A function that answers the calls up to depth k as they are to be answered.
Answer(f, n) == IF n = 0 THEN Cpp!Overflow ELSE Cpp!Grammar(f[n - 1])
Answers(f, k) == \A n \in 0 .. k : f[n] = Answer(f, n)

\* Two such functions agree.
LEMMA AnswersAgree ==
  ASSUME NEW f, NEW g, NEW k \in Nat, Answers(f, k), Answers(g, k)
  PROVE  \A n \in 0 .. k : f[n] = g[n]
<1> DEFINE T == {n \in Nat : n <= k => f[n] = g[n]}
<1>1. 0 \in T
  BY DEF Answers, Answer
<1>2. ASSUME NEW n \in T PROVE n + 1 \in T
  <2>1. SUFFICES ASSUME n + 1 <= k PROVE f[n + 1] = g[n + 1]
    OBVIOUS
  <2>2. n \in Nat /\ n + 1 \in 0 .. k /\ n + 1 # 0 /\ n + 1 - 1 = n /\ n <= k
    BY <2>1
  <2>3. f[n] = g[n]
    BY <2>2
  <2>4. f[n + 1] = Cpp!Grammar(f[n]) /\ g[n + 1] = Cpp!Grammar(g[n])
    BY <2>2 DEF Answers, Answer
  <2> QED
    BY <2>3, <2>4
<1>3. T = Nat
  <2>1. T \in SUBSET Nat
    OBVIOUS
  <2> HIDE DEF T
  <2> QED
    BY <1>1, <1>2, <2>1, AllNaturals
<1> QED
  BY <1>3

\* There is one for every depth.
LEMMA AnswersExist ==
  ASSUME NEW k \in Nat
  PROVE  \E f : Answers(f, k)
<1> DEFINE T == {n \in Nat : \E f : Answers(f, n)}
<1>1. 0 \in T
  <2> DEFINE f == [n \in 0 .. 0 |-> Cpp!Overflow]
  <2>1. Answers(f, 0)
    BY DEF Answers, Answer
  <2> QED
    BY <2>1
<1>2. ASSUME NEW n \in T PROVE n + 1 \in T
  <2>1. n \in Nat
    OBVIOUS
  <2>2. PICK f : Answers(f, n)
    OBVIOUS
  <2> DEFINE g == [m \in 0 .. n + 1 |-> Answer(f, m)]
  <2>3. ASSUME NEW m \in 0 .. n + 1 PROVE g[m] = Answer(g, m)
    <3>1. g[m] = Answer(f, m)
      OBVIOUS
    <3>2. CASE m = 0
      BY <3>1, <3>2 DEF Answer
    <3>3. CASE m # 0
      <4>1. m - 1 \in 0 .. n /\ m - 1 \in 0 .. n + 1
        BY <2>1, <3>3
      <4>2. f[m - 1] = Answer(f, m - 1)
        BY <2>2, <4>1 DEF Answers
      <4>3. g[m - 1] = Answer(f, m - 1)
        BY <4>1
      <4> HIDE DEF g
      <4> QED
        BY <3>1, <3>3, <4>2, <4>3 DEF Answer
    <3> QED
      BY <3>2, <3>3
  <2> HIDE DEF g
  <2>4. Answers(g, n + 1)
    BY <2>3 DEF Answers
  <2> QED
    BY <2>1, <2>4
<1>3. T = Nat
  <2>1. T \in SUBSET Nat
    OBVIOUS
  <2> HIDE DEF T
  <2> QED
    BY <1>1, <1>2, <2>1, AllNaturals
<1> QED
  BY <1>3

\* And one for all depths: at each, what those for it answer.
LEMMA CallsAre ==
  \A n \in Nat : Cpp!Calls[n] = Answer(Cpp!Calls, n)
<1> DEFINE Some(n) == CHOOSE f : Answers(f, n)
           h == [n \in Nat |-> Some(n)[n]]
<1>1. ASSUME NEW n \in Nat PROVE Answers(Some(n), n)
  BY AnswersExist
<1>2. ASSUME NEW n \in Nat PROVE h[n] = Answer(h, n)
  <2>1. h[n] = Some(n)[n]
    OBVIOUS
  <2>2. Some(n)[n] = Answer(Some(n), n)
    BY <1>1 DEF Answers
  <2>3. CASE n = 0
    BY <2>1, <2>2, <2>3 DEF Answer
  <2>4. CASE n # 0
    <3>1. n - 1 \in Nat /\ n - 1 \in 0 .. n - 1
      BY <2>4
    <3>2. Answers(Some(n - 1), n - 1) /\ Answers(Some(n), n)
      BY <1>1, <3>1
    <3>3. h[n - 1] = Some(n - 1)[n - 1]
      BY <3>1
    <3> HIDE DEF Some, h
    <3>4. Answers(Some(n), n - 1)
      BY <2>4, <3>2 DEF Answers
    <3>5. Some(n)[n - 1] = Some(n - 1)[n - 1]
      BY <3>1, <3>2, <3>4, AnswersAgree
    <3> QED
      BY <2>1, <2>2, <2>4, <3>3, <3>5 DEF Answer
  <2> QED
    BY <2>3, <2>4
<1> HIDE DEF h
<1>3. [n \in Nat |-> Answer(h, n)] = [n \in Nat |-> h[n]]
  BY <1>2
<1>4. h = [n \in Nat |-> h[n]]
  BY DEF h
<1>5. \E f : f = [n \in Nat |-> IF n = 0 THEN Cpp!Overflow ELSE Cpp!Grammar(f[n - 1])]
  BY <1>3, <1>4 DEF Answer
<1>6. Cpp!Calls = [n \in Nat |-> IF n = 0 THEN Cpp!Overflow ELSE Cpp!Grammar(Cpp!Calls[n - 1])]
  BY <1>5, Zenon DEF Cpp!Calls
<1> QED
  BY <1>6 DEF Answer

\* Calls of any depth fit.
LEMMA CallsOfParsersFit ==
  ASSUME cpp_tokens \in Seq(CppTokens), NEW n \in Nat
  PROVE  CallsMatch(Cpp!Calls[n])
<1> DEFINE T == {m \in Nat : CallsMatch(Cpp!Calls[m])}
<1>1. 0 \in T
  BY CallsAre, OverflowFits DEF Answer
<1>2. ASSUME NEW m \in T PROVE m + 1 \in T
  <2>1. m \in Nat /\ m + 1 \in Nat /\ m + 1 # 0 /\ m + 1 - 1 = m
    OBVIOUS
  <2>2. Cpp!Calls[m + 1] = Cpp!Grammar(Cpp!Calls[m])
    BY <2>1, CallsAre DEF Answer
  <2>3. CallsMatch(Cpp!Calls[m])
    OBVIOUS
  <2> QED
    BY <2>1, <2>2, <2>3, GrammarFits
<1>3. T = Nat
  <2>1. T \in SUBSET Nat
    OBVIOUS
  <2> HIDE DEF T
  <2> QED
    BY <1>1, <1>2, <2>1, AllNaturals
<1> QED
  BY <1>3


-----------------------------------------------------------------------------
(* A conversion of a unit.                                                   *)

\* While the unit is parsed, what was read is balanced; in the end it is all
\* there is.
UnitInv ==
  /\ CppLexerTypeOK /\ cpp_index \in Positive
  /\ cpp_phase = "lexing" => cpp_index = 1
  /\ cpp_phase # "lexing" => Balanced(1, cpp_index)
  /\ cpp_phase = "done" => cpp_index > Len(cpp_tokens)

\* Nothing is open before the first token.
LEMMA NothingOpen ==
  ASSUME cpp_tokens \in Seq(CppTokens)
  PROVE  Height(1) = 0 /\ Balanced(1, 1)
<1>1. \A type : Before(type, 1) = {}
  BY DEF Before
<1>2. Height(1) = 0
  BY <1>1, FS_EmptySet DEF Height
<1> QED
  BY <1>2, BalancedHere DEF Positive

\* What is balanced depends on the tokens alone.
LEMMA SameBalance ==
  ASSUME cpp_tokens' = cpp_tokens
  PROVE  Balanced(1, cpp_index)' <=> Balanced(1, cpp_index')
  BY DEF Balanced, Height, Before

\* The lexer leaves the tokens alone when it is done with them.
LEMMA UnitPhases ==
  ASSUME Cpp!Lex
  PROVE  /\ cpp_phase = "lexing"
         /\ \/ cpp_phase' = "lexing"
            \/ cpp_phase' \in {"error", "parsing"} /\ cpp_tokens' = cpp_tokens
<1>1. CASE \/ Cpp!PunctuationToken \/ Cpp!OperatorToken \/ Cpp!NumberToken \/ Cpp!WordToken
  BY <1>1 DEF Cpp!PunctuationToken, Cpp!OperatorToken, Cpp!NumberToken, Cpp!WordToken,
              Cpp!Looks, Cpp!Push
<1>2. CASE Cpp!StringToken
  BY <1>2 DEF Cpp!StringToken, Cpp!Looks, Cpp!Push, Cpp!Error
<1>3. CASE Cpp!LineComment
  <2>1. cpp_phase = "lexing" /\ cpp_phase' = cpp_phase
    BY <1>3, Zenon DEF Cpp!LineComment, Cpp!Looks
  <2> QED
    BY <2>1
<1>4. CASE Cpp!BlockComment \/ Cpp!UnclosedComment
  BY <1>4 DEF Cpp!BlockComment, Cpp!UnclosedComment, Cpp!Looks
<1>5. CASE Cpp!InvalidToken
  BY <1>5 DEF Cpp!InvalidToken, Cpp!Looks, Cpp!Error
<1>6. CASE Cpp!EndOfText
  BY <1>6 DEF Cpp!EndOfText
<1> QED
  BY <1>1, <1>2, <1>3, <1>4, <1>5, <1>6 DEF Cpp!Lex

\* The lexer keeps the invariant.
LEMMA UnitLexKeeps ==
  ASSUME UnitInv, Cpp!Lex, UNCHANGED cpp_index
  PROVE  UnitInv'
<1>1. CppLexerTypeOK'
  BY CppLexAccounts DEF UnitInv
<1>2. cpp_index = 1 /\ cpp_index' = 1
  BY UnitPhases DEF UnitInv
<1>3. CASE cpp_phase' = "lexing"
  BY <1>1, <1>2, <1>3 DEF UnitInv, Positive
<1>4. CASE cpp_phase' \in {"error", "parsing"} /\ cpp_tokens' = cpp_tokens
  <2>1. Balanced(1, 1)
    BY NothingOpen DEF UnitInv, CppLexerTypeOK
  <2>2. Balanced(1, cpp_index)'
    BY <1>2, <1>4, <2>1, SameBalance
  <2> QED
    BY <1>1, <1>2, <1>4, <2>2 DEF UnitInv, Positive
<1> QED
  BY <1>3, <1>4, UnitPhases

\* So does the parser, at whatever depth the stack overflows.
LEMMA UnitParseKeeps ==
  ASSUME UnitInv, Cpp!Parse
  PROVE  UnitInv'
<1>1. cpp_tokens \in Seq(CppTokens) /\ cpp_index \in Positive /\ 1 \in Positive
  BY DEF UnitInv, CppLexerTypeOK, Positive
<1>2. cpp_phase = "parsing" /\ cpp_tokens' = cpp_tokens /\ cpp_stream' = cpp_stream
  BY DEF Cpp!Parse, Cpp!ParseDeclaration, Cpp!RejectUnit, Cpp!EndUnit
<1>3. CppLexerTypeOK'
  BY <1>2 DEF UnitInv, CppLexerTypeOK
<1>4. Balanced(1, cpp_index)
  BY <1>2 DEF UnitInv
<1>5. CASE Cpp!ParseDeclaration
  <2> DEFINE found == Cpp!parse_declaration(Cpp!Calls[MaxDepth], cpp_index)
  <2>1. found.is = "node" /\ cpp_index' = found.at /\ cpp_phase' = cpp_phase
    BY <1>5 DEF Cpp!ParseDeclaration
  <2>2. CallsMatch(Cpp!Calls[MaxDepth])
    BY <1>1, DepthAssumption, CallsOfParsersFit
  <2>3. Matched(found, cpp_index)
    BY <1>1, <2>2, DeclarationFits
  <2> HIDE DEF found
  <2>4. found.at \in Positive /\ Balanced(cpp_index, found.at)
    BY <2>1, <2>3 DEF Matched, Sound
  <2>5. Balanced(1, found.at)
    BY <1>1, <1>4, <2>4, BalancedJoin
  <2>6. Balanced(1, cpp_index)'
    BY <1>2, <2>1, <2>5, SameBalance
  <2> QED
    BY <1>2, <1>3, <2>1, <2>4, <2>6 DEF UnitInv
<1>6. CASE Cpp!RejectUnit
  <2>1. cpp_index' = cpp_index /\ cpp_phase' \in {"error", "crash"}
    BY <1>6 DEF Cpp!RejectUnit
  <2>2. Balanced(1, cpp_index)'
    BY <1>2, <1>4, <2>1, SameBalance
  <2> QED
    BY <1>1, <1>3, <2>1, <2>2 DEF UnitInv
<1>7. CASE Cpp!EndUnit
  <2>1. cpp_index' = cpp_index /\ cpp_phase' = "done" /\ cpp_index > Len(cpp_tokens)
    BY <1>7 DEF Cpp!EndUnit
  <2>2. Balanced(1, cpp_index)'
    BY <1>2, <1>4, <2>1, SameBalance
  <2> QED
    BY <1>1, <1>2, <1>3, <2>1, <2>2 DEF UnitInv
<1> QED
  BY <1>5, <1>6, <1>7 DEF Cpp!Parse

\* A conversion of a unit begins before the first token, or there is none.
LEMMA UnitBegins ==
  ASSUME ConverterInit
  PROVE  UnitInv
<1>1. /\ cpp_tokens = <<>> /\ cpp_index = 1 /\ cpp_phase \in {"lexing", "done"}
      /\ \E text \in Seq(STRING) : cpp_stream = Stream(text)
  <2>1. CASE NoUnit
    <3>1. <<>> \in Seq(STRING)
      OBVIOUS
    <3> QED
      BY <2>1, <3>1, Zenon DEF NoUnit
  <2>2. CASE Cpp!Init
    <3>1. PICK units \in Units : \E unit \in units : cpp_stream = Cpp!Stream(unit.text)
      BY <2>2 DEF Cpp!Init
    <3>2. PICK unit \in units : cpp_stream = Cpp!Stream(unit.text)
      BY <3>1
    <3>3. unit.text \in Seq(STRING)
      BY UnitsAssumption
    <3>4. cpp_stream = Stream(unit.text)
      BY <3>2, SameStreams
    <3> QED
      BY <2>2, <3>3, <3>4 DEF Cpp!Init
  <2> QED
    BY <2>1, <2>2 DEF ConverterInit
<1>2. cpp_tokens \in Seq(CppTokens) /\ Len(cpp_tokens) = 0
  BY <1>1
<1>3. CppLexerTypeOK
  BY <1>1, <1>2, StreamIsInText DEF CppLexerTypeOK
<1>4. Balanced(1, cpp_index)
  BY <1>1, <1>2, NothingOpen
<1> QED
  BY <1>1, <1>2, <1>3, <1>4 DEF UnitInv, Positive

\* Whatever the units hold, the lexer stays in its text, and the parser accepts
\* declarations only that close as many code blocks as they open, and none
\* before it is opened.
THEOREM UnitInvariance == ConverterSpec => []UnitInv
<1>1. ConverterInit => UnitInv
  BY UnitBegins
<1>2. UnitInv /\ [convert]_converter_vars => UnitInv'
  <2> SUFFICES ASSUME UnitInv, [convert]_converter_vars PROVE UnitInv'
    OBVIOUS
  <2>1. CASE Cpp!compile_to_asm
    BY <2>1, UnitLexKeeps, UnitParseKeeps DEF Cpp!compile_to_asm
  <2>2. CASE UNCHANGED cpp_vars
    <3>1. UNCHANGED <<cpp_stream, cpp_tokens, cpp_index, cpp_phase>>
      BY <2>2 DEF cpp_vars
    <3>2. CppLexerTypeOK'
      BY <3>1 DEF UnitInv, CppLexerTypeOK
    <3>3. Balanced(1, cpp_index)' <=> Balanced(1, cpp_index)
      BY <3>1, SameBalance
    <3> QED
      BY <3>1, <3>2, <3>3 DEF UnitInv
  <2> QED
    BY <2>1, <2>2 DEF convert, converter_vars
<1> QED
  BY <1>1, <1>2, PTL DEF ConverterSpec

\* Both count alike.
LEMMA SameCardinality ==
  \A S : Cpp!Cardinality(S) = Cardinality(S)
  BY DEF Cpp!Cardinality, Cardinality

\* A unit that is accepted has every code block closed by a bracket of its own,
\* however deep its expressions and statements are, and whatever the parsers
\* left behind that gave up.
THEOREM CurlyBracketsAlwaysMatch == ConverterSpec => []CurlyBracketsMatch
<1>1. ASSUME UnitInv PROVE CurlyBracketsMatch
  <2> SUFFICES ASSUME cpp_phase = "done"
               PROVE  /\ Cpp!Count("LeftCurly") = Cpp!Count("RightCurly")
                      /\ \A i \in DOMAIN cpp_tokens :
                           Cardinality({j \in 1 .. i : cpp_tokens[j].type = "RightCurly"})
                             <= Cardinality({j \in 1 .. i : cpp_tokens[j].type = "LeftCurly"})
    BY SameCardinality, Zenon DEF CurlyBracketsMatch, Cpp!CurlyBracketsMatch
  <2>1. /\ cpp_tokens \in Seq(CppTokens) /\ cpp_index \in Positive /\ 1 \in Positive
        /\ Balanced(1, cpp_index) /\ cpp_index > Len(cpp_tokens) /\ Len(cpp_tokens) \in Nat
    BY <1>1 DEF UnitInv, CppLexerTypeOK, Positive
  <2>2. Height(1) = 0
    BY <2>1, NothingOpen
  <2>3. \A type, q : q \in Positive => Cardinality(Before(type, q)) \in Nat
    BY <2>1, BeforeNext
  <2>4. \A q \in Positive :
           Height(q) = Cardinality(Before("LeftCurly", q)) - Cardinality(Before("RightCurly", q))
    BY DEF Height
  <2>5. Cpp!Count("LeftCurly") = Cpp!Count("RightCurly")
    <3>1. \A type : Cpp!Count(type) = Cardinality(Before(type, cpp_index))
      <4>1. \A type : {i \in DOMAIN cpp_tokens : cpp_tokens[i].type = type} =
                         Before(type, cpp_index)
        BY <2>1 DEF Before, Positive
      <4> QED
        BY <4>1, SameCardinality DEF Cpp!Count
    <3>2. Height(cpp_index) = 0
      BY <2>1, <2>2 DEF Balanced
    <3> QED
      BY <2>1, <2>3, <2>4, <3>1, <3>2
  <2>6. ASSUME NEW i \in DOMAIN cpp_tokens
        PROVE  Cardinality({j \in 1 .. i : cpp_tokens[j].type = "RightCurly"})
                 <= Cardinality({j \in 1 .. i : cpp_tokens[j].type = "LeftCurly"})
    <3>1. i \in 1 .. Len(cpp_tokens) /\ i + 1 \in Positive /\ i + 1 \in 1 .. cpp_index
      BY <2>1 DEF Positive
    <3>2. \A type : {j \in 1 .. i : cpp_tokens[j].type = type} = Before(type, i + 1)
      BY <2>1, <3>1 DEF Before
    <3>3. 0 <= Height(i + 1)
      BY <2>1, <2>2, <3>1 DEF Balanced
    <3>4. /\ Cardinality(Before("LeftCurly", i + 1)) \in Nat
          /\ Cardinality(Before("RightCurly", i + 1)) \in Nat
          /\ Height(i + 1) = Cardinality(Before("LeftCurly", i + 1))
                               - Cardinality(Before("RightCurly", i + 1))
      BY <2>3, <2>4, <3>1
    <3>5. Cardinality(Before("RightCurly", i + 1)) <= Cardinality(Before("LeftCurly", i + 1))
      BY <3>3, <3>4
    <3> QED
      BY <3>2, <3>5
  <2> QED
    BY <2>5, <2>6
<1> QED
  BY <1>1, UnitInvariance, PTL

\* No pass of the lexer over a unit drops a character or uses one twice, or takes
\* less or more than a comment, if no comment ends in more stars than one.
THEOREM UnitAlwaysAccountedFor == ConverterSpec => UnitAccountedFor
<1>1. UnitInv /\ [convert]_converter_vars =>
         [Cpp!StarsMatch /\ cpp_phase = "lexing" => Cpp!Accounts]_cpp_vars
  <2> SUFFICES ASSUME UnitInv, [convert]_converter_vars, cpp_vars' # cpp_vars,
                      Cpp!StarsMatch, cpp_phase = "lexing"
               PROVE  Cpp!Accounts
    OBVIOUS
  <2>1. Cpp!compile_to_asm
    BY DEF convert, converter_vars
  <2>2. Cpp!Lex
    BY <2>1 DEF Cpp!compile_to_asm, Cpp!Parse, Cpp!ParseDeclaration, Cpp!RejectUnit, Cpp!EndUnit
  <2> QED
    BY <2>2, CppLexAccounts DEF UnitInv
<1> QED
  BY <1>1, UnitInvariance, PTL DEF ConverterSpec, UnitAccountedFor

=============================================================================
