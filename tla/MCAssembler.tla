---------------------------- MODULE MCAssembler ----------------------------
EXTENDS Assembler

CONSTANTS MaxLayout   \* bound: lines of a source behind its first

Number(v) == [type |-> "Number", value |-> v, digits |-> v]
Hex(v, digits) == [type |-> "Number", value |-> v, digits |-> digits]
Name(n) == [type |-> "Name", value |-> n]
Other == [type |-> "Other"]

Section(n) == [op |-> "section", name |-> n]
Label(n) == [op |-> "label", name |-> n]
Set(n, v) == [op |-> "assign", name |-> n, value |-> v]
Plain == [op |-> "plain"]
Globl(names) == [op |-> "globl", names |-> names]
Type(names) == [op |-> "type", names |-> names]
J(c, d) == [op |-> "jump", condition |-> c, destination |-> d]
Io(k, s, p, v) == [op |-> "io", kind |-> k, size |-> s, port |-> p, value |-> v]

\* Every order of labels, jumps and other instructions in two sections.
LayoutLines == {Section("text"), Section("data"), Label("L"), Plain,
                J("JZ", Name("L")), J("JMP", Name("L"))}
Layouts == {<<Section("text")>> \o lines : lines \in BoundedSeq(LayoutLines, MaxLayout)}

\* What a line may say otherwise, alone, after an assignment, and before and
\* after other lines.
OtherLines ==
    {Section("other"), Set("A", Number(1)), Set("A", Name("B")), Set("B", Name("ax")),
     [op |-> "invalid"], Globl(<<"L">>), Type(<<"L", "function">>), Globl(<<>>),
     Type(<<>>), J("JZ", Name("ax")), J("JMP", Number(20)), J("JNE", Other)}
    \cup {J("JG", Number(n)) : n \in {0, 3, 7, 8, 15, 16, 40}}
    \cup {Io(k, s, p, v) :
            k \in {"IN", "OUT"}, s \in {8, 16},
            p \in {Number(1), Name("A"), Number(4)},
            v \in {Number(9), Name("A"), Name("ax"), Name("al")}}
    \cup {Io("OUT", 16, Hex(16, 10), Name("ax")), Io("OUT", 16, Name("ax"), Name("ax")),
          Io("OUT", 16, Number(255), Name("ax")), Io("OUT", 16, Number(1), Number(256)),
          Io("OUT", 8, Number(1), Other), Io("OUT", 8, Number(1), Name("bl")),
          Io("IN", 0, Number(1), Name("ax"))}
Mixed == {s \o <<a, b>> \o t :
            s \in {<<>>, <<Section("text")>>,
                   <<Section("data"), Label("L"), Set("A", Name("B"))>>,
                   <<Section("text"), Set("A", Number(1)), J("JMP", Number(2)), Plain>>},
            a \in OtherLines, b \in OtherLines,
            t \in {<<Plain>>, <<Set("B", Number(2)), Section("text"), Plain>>}}

MCSources == Layouts \cup Mixed \cup {<<Label("L")>>}
MCSectionNames == <<"data", "other", "text">>
=============================================================================
