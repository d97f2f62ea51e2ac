------------------------------ MODULE CppParser ------------------------------
(* The parser of toolchain/compiler/cpp: recursive descent over the tokens.  *)
(* Every parser is an operator from the position it starts at to what it     *)
(* finds and the position it leaves behind, which is not always the one it   *)
(* came from when it finds nothing.                                          *)
EXTENDS CppLexer

CONSTANTS
    MaxDepth    \* bound: calls within calls that the stack has room for

VARIABLES
    index,      \* m_index, counted from 1
    members     \* subnodes of the translation unit

\* `phase` becomes "done", "error" or "crash".

Found(node, at) == [is |-> "node", node |-> node, at |-> at]
Null(at) == [is |-> "null", at |-> at]
Crash == [is |-> "crash"]

\* What a parser found is made use of as a value, not parsed again.
TheOnly(results) == CHOOSE result \in results : TRUE
With(found, Use(_)) == TheOnly({Use(f) : f \in {found}})

\* A failure in a row of parsers is that of the row, position and all.
Then(found, Use(_)) == With(found, LAMBDA f : IF f.is = "node" THEN Use(f) ELSE f)
Or(first, second) == With(first, LAMBDA f : IF f.is = "null" THEN second ELSE f)

Node(node, value, kids) == [node |-> node, value |-> value, kids |-> kids]

Is(p, type) == p <= Len(tokens) /\ tokens[p].type = type
Value(p) == SubSeq(stream.text, tokens[p].from, tokens[p].to)
IsKeyword(p, word) == Is(p, "Keyword") /\ Value(p) = <<word>>

\* What was found, if a token of this type follows.
Closed(found, type) ==
    Then(found, LAMBDA f :
        IF Is(f.at, type) THEN Found(f.node, f.at + 1) ELSE Null(f.at))

-----------------------------------------------------------------------------
(* Expressions.  What a parser whose grammar needs this one finds is taken   *)
(* from `call`: the calls that are one deeper (Calls, below).                *)

\* stoi reads digits and leaves what follows them.
LeadingDigits(value) ==
    LET n == CHOOSE n \in 0..Len(value) :
                /\ \A i \in 1..n : value[i] \in {"0", "1"}
                /\ n < Len(value) => value[n + 1] \notin {"0", "1"}
    IN  SubSeq(value, 1, n)

IntegerLiteral(p) ==
    IF Is(p, "Number")
    THEN Found(Node("IntegerLiteral", LeadingDigits(Value(p)), <<>>), p + 1) ELSE Null(p)
Identifier(p) ==
    IF Is(p, "Name") THEN Found(Node("Identifier", Value(p), <<>>), p + 1) ELSE Null(p)

parse_parenthised_expression(call, p) ==
    IF Is(p, "LeftBracket") THEN Closed(call.parse_expression[p + 1], "RightBracket")
    ELSE Null(p)

\* A literal is looked for where the parentheses were given up.
parse_primary_expression(call, p) ==
    With(parse_parenthised_expression(call, p), LAMBDA inner :
        Or(inner, Or(IntegerLiteral(inner.at), Identifier(p))))

\* Behind a comma an argument must be found.
Arguments(call, first) ==
    Then(first, LAMBDA f :
        IF ~Is(f.at, "Comma") THEN Found(<<f.node>>, f.at)
        ELSE Then(call.Arguments[f.at + 1], LAMBDA others :
                Found(<<f.node>> \o others.node, others.at)))

FunctionCall(call, p) ==
    LET List(first) ==
            IF first.is = "null" THEN Found(<<>>, first.at) ELSE Arguments(call, first)
    IN  IF ~Is(p, "Name") THEN Null(p)
        ELSE IF ~Is(p + 1, "LeftBracket") THEN Null(p + 1)
        ELSE Then(Closed(With(call.parse_expression[p + 2], List), "RightBracket"),
                  LAMBDA arguments :
                    Found(Node("FunctionCall", Value(p), arguments.node), arguments.at))

Subscript(call, p) ==
    Then(parse_primary_expression(call, p), LAMBDA subscripted :
        IF ~Is(subscripted.at, "LeftSquareBracket") THEN Null(subscripted.at)
        ELSE Then(Closed(call.parse_expression[subscripted.at + 1], "RightSquareBracket"),
                  LAMBDA inside :
                    Found(Node("Subscript", <<>>, <<subscripted.node, inside.node>>),
                          inside.at)))

\* Each alternative begins at p again.
parse_function_call(call, p) ==
    Or(FunctionCall(call, p),
       Or(Subscript(call, p), Or(parse_primary_expression(call, p), Null(p))))

UnaryOperators == {<<"&">>, <<"*">>, <<"+">>, <<"-">>, <<"+", "+">>, <<"-", "-">>}
UnaryType(operator) == IF operator \in UnaryOperators THEN operator ELSE <<"Invalid">>

parse_unary_expression(call, p) ==
    Or(parse_function_call(call, p),
       IF ~Is(p, "Operator") THEN Null(p)
       ELSE Then(call.parse_unary_expression[p + 1], LAMBDA rhs :
                Found(Node("UnaryExpression", UnaryType(Value(p)), <<rhs.node>>), rhs.at)))

\* Any operator is an assignment's, and which one is not kept.
parse_assignment_expression(call, p) ==
    Then(parse_unary_expression(call, p), LAMBDA lhs :
        IF ~Is(lhs.at, "Operator") THEN lhs
        ELSE Then(call.parse_expression[lhs.at + 1], LAMBDA rhs :
                Found(Node("AssignmentExpression", <<>>, <<lhs.node, rhs.node>>), rhs.at)))

parse_expression(call, p) == parse_assignment_expression(call, p)

-----------------------------------------------------------------------------
(* Types and declarations.                                                   *)

Simple(words) == Node("SimpleTypeSpecifier", words, <<>>)
Pointer(stars, type) == Node("PointerTypeSpecifier", stars, <<type>>)
Variable(name, type, value) == Node("VariableDeclaration", name, <<type>> \o value)
Function(name, type, arguments, body) ==
    Node("FunctionDefinition", name, <<type>> \o arguments \o <<body>>)

SimpleTypeSpecifier(p) ==
    IF ~Is(p, "TypeName") THEN Null(p)
    ELSE IF Value(p) # <<"unsigned">>
    THEN IF Value(p) # <<"signed">> THEN Found(Simple(Value(p)), p + 1) ELSE Null(p + 1)
    ELSE IF ~Is(p + 1, "TypeName") THEN Found(Simple(<<"unsigned", "int">>), p + 1)
    ELSE IF Value(p + 1) \in {<<"int">>, <<"char">>}
    THEN Found(Simple(<<"unsigned">> \o Value(p + 1)), p + 2)
    ELSE Null(p + 2)

\* The token behind the type is looked at whether there is one or not.
parse_type_specifier(p) ==
    LET Stars(at) == \A i \in DOMAIN Value(at) : Value(at)[i] = "*"
    IN  Then(SimpleTypeSpecifier(p), LAMBDA simple :
            IF simple.at > Len(tokens) THEN Crash
            ELSE IF ~Is(simple.at, "Operator") THEN simple
            ELSE IF ~Stars(simple.at) THEN Null(simple.at)
            ELSE Found(Pointer(Value(simple.at), simple.node), simple.at + 1))

VariableDeclaration(call, p) ==
    Then(Closed(parse_type_specifier(p), "Name"), LAMBDA type :
        IF ~Is(type.at, "Operator")
        THEN Found(Variable(Value(type.at - 1), type.node, <<>>), type.at)
        ELSE Then(call.parse_expression[type.at + 1], LAMBDA value :
                Found(Variable(Value(type.at - 1), type.node, <<value.node>>), value.at)))

\* The list ends at the first that is no declaration, wherever that is given up.
FormalArguments(call, p) ==
    With(VariableDeclaration(call, p), LAMBDA first :
        IF first.is = "null" THEN Found(<<>>, first.at)
        ELSE IF first.is = "crash" THEN Crash
        ELSE IF ~Is(first.at, "Comma") THEN Found(<<first.node>>, first.at)
        ELSE Then(call.FormalArguments[first.at + 1], LAMBDA others :
                Found(<<first.node>> \o others.node, others.at)))

\* Mutant: the closing bracket may be missing.
CodeBlock_left_open(call, p) ==
    IF ~Is(p, "LeftCurly") THEN Null(p)
    ELSE Then(call.Statements[p + 1], LAMBDA statements :
            Found(Node("CodeBlock", <<>>, statements.node),
                  IF Is(statements.at, "RightCurly") THEN statements.at + 1
                  ELSE statements.at))

CodeBlock(call, p) ==
    IF ~Is(p, "LeftCurly") THEN Null(p)
    ELSE Then(Closed(call.Statements[p + 1], "RightCurly"), LAMBDA statements :
            Found(Node("CodeBlock", <<>>, statements.node), statements.at))

FunctionDefinition(call, p) ==
    Then(Closed(parse_type_specifier(p), "Name"), LAMBDA type :
        IF ~Is(type.at, "LeftBracket") THEN Null(type.at)
        ELSE Then(Closed(call.FormalArguments[type.at + 1], "RightBracket"), LAMBDA arguments :
                Then(CodeBlock(call, arguments.at), LAMBDA body :
                    Found(Function(Value(type.at - 1), type.node, arguments.node, body.node),
                          body.at))))

parse_declaration(call, p) == Or(FunctionDefinition(call, p), VariableDeclaration(call, p))

-----------------------------------------------------------------------------
(* Statements.                                                               *)

Statements(call, p) ==
    IF p > Len(tokens) \/ Is(p, "RightCurly") THEN Found(<<>>, p)
    ELSE Then(call.parse_statement[p], LAMBDA first :
            Then(call.Statements[first.at], LAMBDA others :
                Found(<<first.node>> \o others.node, others.at)))

\* An else whose statement is not found is left out.
Else(call, p) ==
    IF ~IsKeyword(p, "else") THEN Found(<<>>, p)
    ELSE With(call.parse_statement[p + 1], LAMBDA statement :
            IF statement.is = "crash" THEN Crash
            ELSE IF statement.is = "null" THEN Found(<<>>, statement.at)
            ELSE Found(<<statement.node>>, statement.at))

IfStatement(call, p) ==
    IF ~IsKeyword(p, "if") \/ ~Is(p + 1, "LeftBracket") THEN Null(p)
    ELSE Then(Closed(call.parse_expression[p + 2], "RightBracket"), LAMBDA condition :
            Then(call.parse_statement[condition.at], LAMBDA then :
                Then(Else(call, then.at), LAMBDA else :
                    Found(Node("IfStatement", <<>>,
                               <<condition.node, then.node>> \o else.node), else.at))))

ReturnStatement(call, p) ==
    IF ~IsKeyword(p, "return") THEN Null(p)
    ELSE With(call.parse_expression[p + 1], LAMBDA value :
            IF value.is = "crash" THEN Crash
            ELSE Found(Node("ReturnStatement", <<>>,
                            IF value.is = "node" THEN <<value.node>> ELSE <<>>), value.at))

Statement(node, found) ==
    Then(found, LAMBDA f : Found(Node(node, <<>>, <<f.node>>), f.at))
ExpressionStatement(call, p) == Statement("ExpressionStatement", parse_expression(call, p))
DeclarationStatement(call, p) == Statement("DeclarationStatement", parse_declaration(call, p))

need_semicolon(statement) == statement.node \notin {"CodeBlock", "IfStatement"}

parse_statement(call, p) ==
    Then(Or(CodeBlock(call, p), Or(IfStatement(call, p), Or(ReturnStatement(call, p),
            Or(ExpressionStatement(call, p), DeclarationStatement(call, p))))), LAMBDA found :
        IF need_semicolon(found.node) THEN Closed(found, "Semicolon") ELSE found)

-----------------------------------------------------------------------------
(* Calls of parsers by parsers.                                              *)

\* What each of them finds from every position, when `call` is what its own
\* calls find.
Grammar(call) ==
    [parse_expression |-> [p \in Nat |-> parse_expression(call, p)],
     parse_unary_expression |-> [p \in Nat |-> parse_unary_expression(call, p)],
     Arguments |-> [p \in Nat |-> Arguments(call, call.parse_expression[p])],
     FormalArguments |-> [p \in Nat |-> FormalArguments(call, p)],
     parse_statement |-> [p \in Nat |-> parse_statement(call, p)],
     Statements |-> [p \in Nat |-> Statements(call, p)]]

\* The stack has no room for one more call.
Overflow ==
    LET crashes == [p \in Nat |-> Crash]
    IN  [parse_expression |-> crashes, parse_unary_expression |-> crashes,
         Arguments |-> crashes, FormalArguments |-> crashes,
         parse_statement |-> crashes, Statements |-> crashes]

\* There is room for n calls within each other.
Calls[n \in Nat] == IF n = 0 THEN Overflow ELSE Grammar(Calls[n - 1])

-----------------------------------------------------------------------------
(* TranslationUnit: one declaration after the other.                         *)

ParseDeclaration ==
    /\ phase = "parsing" /\ index <= Len(tokens)
    /\ \E found \in {parse_declaration(Calls[MaxDepth], index)} :
          /\ found.is = "node"
          /\ members' = Append(members, found.node)
          /\ index' = found.at
    /\ UNCHANGED <<stream, tokens, phase>>

RejectUnit ==
    /\ phase = "parsing" /\ index <= Len(tokens)
    /\ \E found \in {parse_declaration(Calls[MaxDepth], index)} :
          \/ found.is = "null" /\ phase' = "error"
          \/ found.is = "crash" /\ phase' = "crash"
    /\ UNCHANGED <<stream, tokens, index, members>>

EndUnit ==
    /\ phase = "parsing" /\ index > Len(tokens)
    /\ phase' = "done"
    /\ UNCHANGED <<stream, tokens, index, members>>

Parse == ParseDeclaration \/ RejectUnit \/ EndUnit

=============================================================================
