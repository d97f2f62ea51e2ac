----------------------------- MODULE MCToolchain -----------------------------
EXTENDS Toolchain, SequencesExt

CONSTANTS
    MaxArguments    \* bound: arguments of an arbitrary command line

Words == {"-S", "-o", "-x", "--", "-q", "--help", "asm", "a.c"}
Arbitrary == {[args |-> ws, meant |-> {}] : ws \in BoundedSeq(Words, MaxArguments)}

Option(words, name, value) == [words |-> words, set |-> name :> value]
OptionForms == {Option(<<"-S">>, "S", "1"), Option(<<"-Wall">>, "Wall", "1"),
                Option(<<"-o", "b">>, "o", "b"), Option(<<"-o", "-S">>, "o", "-S"),
                Option(<<"-x", "asm">>, "x", "asm"), Option(<<"-x", "c">>, "x", "c"),
                Option(<<"-o", "a.c">>, "o", "a.c"), Option(<<"-o", "t">>, "o", "t")}
Behind == {<<"a.c">>, <<"--", "a.c">>, <<"--", "-S">>, <<"a.c", "-S">>, <<"a.c", "--">>}
\* The option set last counts.
Meaning(forms) ==
    FoldLeft(LAMBDA set, form : form.set @@ set, <<>>, forms)
Written == {[args |-> FlattenSeq([i \in DOMAIN fs |-> fs[i].words]) \o b,
             meant |-> {[options |-> Meaning(fs),
                         positional |-> IF b[1] = "--" THEN Tail(b) ELSE b]}] :
                fs \in BoundedSeq(OptionForms, 2), b \in Behind}
MCCommands == Arbitrary \cup Written

MCFiles == Words \cup {"a.out", "b", "c", "t", "-Wall"}
\* What the input holds, with an object of an earlier run beside it.
MCContents == {[f \in MCFiles |->
                    IF f = "a.c" THEN held ELSE IF f \in {"b", "a.out"} THEN "other"
                    ELSE "absent"] :
                held \in {"absent", "unit", "assembly", "flawed", "endless", "other", "empty"}}
MCTemporary == [f \in MCFiles |-> "t"]
=============================================================================
