----------------------------- MODULE MCFrontEnds -----------------------------
EXTENDS FrontEnds, SequencesExt

CONSTANTS
    MaxTokens,      \* bound: arbitrary tokens of an assembler source
    MaxWords,       \* bound: arbitrary words of a C++ unit
    MaxCharacters,  \* bound: arbitrary characters behind a given beginning
    MaxLines        \* bound: operations of a written assembler source

Source(text_, meant_) == [text |-> text_, meant |-> meant_]

-----------------------------------------------------------------------------
(* Assembler.  A token is written with a blank behind it; a second type that *)
(* is treated like another everywhere is left out: Subtract as Add.          *)

AsmText == [Dot |-> <<".">>, Colon |-> <<":">>, Comma |-> <<",">>,
            String |-> <<"\"", "a", "\"">>, DecNumber |-> <<"1", "0">>,
            HexNumber |-> <<"0", "x", "b">>, Name |-> <<"a">>,
            Assignment |-> <<":", "=">>, BraceOpen |-> <<"[">>, BraceClose |-> <<"]">>,
            Add |-> <<"+">>, Subtract |-> <<"-">>, Hash |-> <<"#">>, NewLine |-> <<"\n">>]
AsmTypes == DOMAIN AsmText \ {"Subtract", "HexNumber"}
Written(types) == FlattenSeq([i \in DOMAIN types |-> AsmText[types[i]] \o <<" ">>])

AsmBeginnings == {<<>>, <<"Name", "BraceOpen", "Name">>, <<"Name", "Name", "Comma">>,
                  <<"Name", "Assignment", "Hash">>, <<"Dot", "Name", "Dot", "Name">>}
AsmTokens == {Source(Written(b \o ts) \o <<"\n">>, {}) :
                b \in AsmBeginnings, ts \in BoundedSeq(AsmTypes, MaxTokens)}

AsmCharacters == {"a", "0", "x", ";", "\n", " ", "\"", ":", "=", "\\", "*"}
AsmTexts == {Source(b \o cs, {}) : b \in {<<>>, <<"a", ";">>, <<"\n", "1">>},
                                         cs \in BoundedSeq(AsmCharacters, MaxCharacters)}

\* How each kind of operand is written.
Operands == [Relative |-> <<"BraceOpen", "Name", "Subtract", "HexNumber", "BraceClose">>,
             Address |-> <<"BraceOpen", "DecNumber", "BraceClose">>,
             Section |-> <<"Dot", "Name">>,
             ISR |-> <<"Hash", "Name">>,
             HexNumber |-> <<"HexNumber">>,
             Name |-> <<"Name">>,
             String |-> <<"String">>]
Kinds == DOMAIN Operands

Separated(kinds) ==
    FlattenSeq([i \in DOMAIN kinds |-> IF i = 1 THEN Operands[kinds[i]]
                                       ELSE <<"Comma">> \o Operands[kinds[i]]])
Line(types, shape) == [types |-> types, shape |-> shape]
NewLine == <<"NewLine">>
Lines ==
    {Line(<<"Name", "Assignment">> \o Operands[k] \o NewLine, <<"Assignment", <<k>>>>) :
        k \in Kinds}
    \cup {Line(<<"Name", "Colon">> \o n, <<"Label", <<>>>>) : n \in {<<>>, NewLine}}
    \cup {Line(<<"Dot", "Name">> \o Separated(ks) \o NewLine, <<"Directive", ks>>) :
            ks \in BoundedSeq({"Name", "Section"}, 2)}
    \cup {Line(<<"Name">> \o Separated(ks) \o NewLine, <<"Instruction", ks>>) :
            ks \in BoundedSeq(Kinds, 1)
                      \cup {<<k, l>> : k \in Kinds, l \in {"Relative", "Section", "Name"}}}
AsmSources ==
    {Source(Written(FlattenSeq([i \in DOMAIN ls |-> ls[i].types])) \o <<";", "a", "\n">>,
            {[i \in DOMAIN ls |-> ls[i].shape]}) : ls \in BoundedSeq(Lines, MaxLines)}

MCSources == {AsmTokens, AsmTexts, AsmSources}

-----------------------------------------------------------------------------
(* C++.                                                                      *)

CppCharacters == {"a", "1", "/", "*", "\n", " ", "\"", "\\", "int"}
CppTexts == {Source(b \o cs, {}) :
                b \in {<<>>, <<"a", "/", "*">>, <<"a", "/", "*", "/", "*">>,
                       <<"int", " ", "a", "=", "\"">>},
                cs \in BoundedSeq(CppCharacters, MaxCharacters)}

Spaced(words) == FlattenSeq([i \in DOMAIN words |-> <<words[i], " ">>])
CppWords == {"int", "unsigned", "a", "1", "(", ")", "[", "]", "{", "}", ",", ";", "-", "*",
             "if", "else", "return"}
Body == <<"int", "f", "(", ")", "{">>
CppBeginnings == {<<>>, Body, <<"int", "a", "=", "(">>, <<"int", "f", "(">>,
                  Body \o <<"a", "(">>, Body \o <<"if", "(", "a", ")">>,
                  Body \o <<"if", "(", "a", ")", "a", ";", "else">>}
CppTokens == {Source(Spaced(b \o ws \o e), {}) :
                b \in CppBeginnings, ws \in BoundedSeq(CppWords, MaxWords),
                e \in {<<>>, <<";", "}">>}}

\* A tree made of others, and the words it is written with.
Phrase(node, value, parts, words) ==
    [tree |-> [node |-> node, value |-> value, kids |-> [i \in DOMAIN parts |-> parts[i].tree]],
     words |-> words]
All(parts) == FlattenSeq([i \in DOMAIN parts |-> parts[i].words])
Listed(parts) ==
    FlattenSeq([i \in DOMAIN parts |-> IF i = 1 THEN parts[i].words ELSE <<",">> \o parts[i].words])
\* Between parentheses, unless it is a name or a number.
Wrapped(e) == IF Len(e.words) = 1 THEN e.words ELSE <<"(">> \o e.words \o <<")">>

Names == {Phrase("Identifier", <<"a">>, <<>>, <<"a">>)}
Atoms == Names \cup {Phrase("IntegerLiteral", <<"1">>, <<>>, <<"1">>)}
Unary(op, e) == Phrase("UnaryExpression", <<op>>, <<e>>, <<op>> \o Wrapped(e))
Assign(l, r) == Phrase("AssignmentExpression", <<>>, <<l, r>>, Wrapped(l) \o <<"=">> \o r.words)
Call(es) == Phrase("FunctionCall", <<"f">>, es, <<"f", "(">> \o Listed(es) \o <<")">>)
Indexed(l, r) == Phrase("Subscript", <<>>, <<l, r>>, Wrapped(l) \o <<"[">> \o r.words \o <<"]">>)
Compound(E) ==
    {Unary("-", e) : e \in E}
    \cup {Assign(l, r) : l \in Names, r \in E}
    \cup {Call(es) : es \in BoundedSeq(E, 2)}
    \cup {Indexed(l, r) : l \in Names, r \in E}
    \cup {Indexed(r, l) : l \in Names, r \in E}
Flat == Atoms \cup Compound(Atoms)
Deep == Flat \cup {Unary("*", e) : e \in Flat}
             \cup {Assign(l, r) : l \in Flat, r \in Names}
             \cup {Call(<<e>>) : e \in Flat}
             \cup {Indexed(l, r) : l \in Flat, r \in Names}

Specifier(words) == Phrase("SimpleTypeSpecifier", words, <<>>, words)
TypeNames == {Specifier(<<"int">>), Specifier(<<"unsigned", "char">>),
              Phrase("PointerTypeSpecifier", <<"*">>, <<Specifier(<<"void">>)>>, <<"void", "*">>)}
Declared(type, value) ==
    Phrase("VariableDeclaration", <<"b">>, <<type>> \o value,
           type.words \o <<"b">> \o (IF value = <<>> THEN <<>> ELSE <<"=">> \o All(value)))
Variables == {Declared(t, v) : t \in TypeNames, v \in {<<>>} \cup {<<e>> : e \in Atoms}}
             \cup {Declared(Specifier(<<"int">>), <<e>>) : e \in Deep}
Expression(e) == Phrase("ExpressionStatement", <<>>, <<e>>, e.words \o <<";">>)
Return(v) == Phrase("ReturnStatement", <<>>, v, <<"return">> \o All(v) \o <<";">>)
Declaration(v) == Phrase("DeclarationStatement", <<>>, <<v>>, v.words \o <<";">>)
Plain == {Expression(e) : e \in Names} \cup {Return(v) : v \in {<<>>} \cup {<<e>> : e \in Atoms}}
         \cup {Declaration(Declared(t, <<>>)) : t \in TypeNames}
Block(ss) == Phrase("CodeBlock", <<>>, ss, <<"{">> \o All(ss) \o <<"}">>)
If(e, s, otherwise) ==
    Phrase("IfStatement", <<>>, <<e, s>> \o otherwise,
           <<"if", "(">> \o e.words \o <<")">> \o s.words \o
               (IF otherwise = <<>> THEN <<>> ELSE <<"else">> \o All(otherwise)))
Nested == {Block(ss) : ss \in BoundedSeq(Plain, 2)}
          \cup {If(e, s, <<>>) : e \in Atoms, s \in Plain}
          \cup {If(e, s, <<t>>) : e \in Names, s \in Plain, t \in Plain}
AllStatements == Plain \cup Nested \cup {Expression(e) : e \in Deep}
              \cup {If(e, Block(<<s>>), <<t>>) : e \in Names, s \in Nested, t \in Plain}
Defined(arguments, ss) ==
    Phrase("FunctionDefinition", <<"f">>, <<Specifier(<<"int">>)>> \o arguments \o <<Block(ss)>>,
           <<"int", "f", "(">> \o Listed(arguments) \o <<")">> \o Block(ss).words)
Functions == {Defined(<<>>, <<s>>) : s \in AllStatements}
             \cup {Defined(vs, <<>>) : vs \in BoundedSeq({Declared(t, <<>>) : t \in TypeNames}, 2)}
CppUnits == {<<d>> : d \in Functions \cup Variables}
         \cup {<<v, Defined(<<>>, <<s>>)>> : v \in {Declared(t, <<>>) : t \in TypeNames}, s \in Plain}
CppSources ==
    {Source(Spaced(All(u)), {[i \in DOMAIN u |-> u[i].tree]}) : u \in CppUnits}

MCUnits == {CppTexts, CppTokens, CppSources}
=============================================================================
