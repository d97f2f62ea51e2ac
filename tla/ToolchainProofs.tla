---------------------------- MODULE ToolchainProofs ----------------------------
(* What the front end program knows of the compiler when its call returns,   *)
(* for every command line and every content of the files.                    *)
EXTENDS Toolchain, TLAPS

\* waitpid tells of an end only when there was one, and there is no way back
\* from it; before the fork there is nothing to tell of.
ReportIsTrue ==
    /\ report = "exited" => child = "exited"
    /\ report = "killed" => child = "killed"
    /\ parent = "fork" => child = "none"

ChildInv == ReportIsTrue /\ ChildHasEnded

\* waitpid's answers decide, and only the last of them ends the wait.
LEMMA ParentStep == ChildInv /\ (Parent \/ AwaitFails) => ChildInv'
<1> USE DEF ChildInv, ReportIsTrue, ChildHasEnded, parentvars
<1>1. ASSUME ChildInv, Fork PROVE ChildInv'
  BY <1>1 DEF Fork
<1>2. ASSUME ChildInv, ForkFails PROVE ChildInv'
  BY <1>2 DEF ForkFails, Return
<1>3. ASSUME ChildInv, Await PROVE ChildInv'
  BY <1>3 DEF Await, Return
<1>4. ASSUME ChildInv, AwaitFails PROVE ChildInv'
  BY <1>4 DEF AwaitFails, Return
<1> QED
  BY <1>1, <1>2, <1>3, <1>4 DEF Parent

\* A signal reaches a child that has not ended.
LEMMA SignalStep == ChildInv /\ (Stop \/ Continue \/ Kill) => ChildInv'
<1> USE DEF ChildInv, ReportIsTrue, ChildHasEnded, parentvars, Becomes
<1>1. ASSUME ChildInv, Stop PROVE ChildInv'
  BY <1>1 DEF Stop
<1>2. ASSUME ChildInv, Continue PROVE ChildInv'
  BY <1>2 DEF Continue
<1>3. ASSUME ChildInv, Kill PROVE ChildInv'
  BY <1>3 DEF Kill
<1> QED
  BY <1>1, <1>2, <1>3

\* All the compiler does to its own state as a process is to exit, once.
ExitsAtMost ==
    /\ child = "running"
    /\ UNCHANGED parentvars
    /\ UNCHANGED <<child, report>> \/ (child' = "exited" /\ report' = "exited")

LEMMA CompilerExitsAtMost == Compiler => ExitsAtMost
<1> USE DEF ExitsAtMost, Runs, Exit
<1>1. Exec => ExitsAtMost
  BY DEF Exec
<1>2. parse_args => ExitsAtMost
  BY DEF parse_args, ParseDashes, ParseOption, InvalidOption, ParsePositional
<1>3. Begin => ExitsAtMost
  BY DEF Begin
<1>4. compiler_make_asm \/ compiler_make_object => ExitsAtMost
  BY DEF compiler_make_asm, compiler_make_object, OpenFiles
<1>5. compile_to_asm => ExitsAtMost
  BY DEF compile_to_asm
<1>6. assemble_to_obj => ExitsAtMost
  BY DEF assemble_to_obj
<1> QED
  BY <1>1, <1>2, <1>3, <1>4, <1>5, <1>6 DEF Compiler

LEMMA CompilerStep == ChildInv /\ Compiler => ChildInv'
<1>1. ChildInv /\ ExitsAtMost => ChildInv'
  BY DEF ChildInv, ReportIsTrue, ChildHasEnded, ExitsAtMost, parentvars
<1> QED
  BY <1>1, CompilerExitsAtMost

-----------------------------------------------------------------------------
\* A call that returned true left no child behind, whatever signals stopped,
\* continued or killed the child on its way (exec.cpp:36).
THEOREM WaitsForTheEnd == Spec => []ChildHasEnded
<1>1. Init => ChildInv
  BY DEF Init, ChildInv, ReportIsTrue, ChildHasEnded
<1>2. ChildInv /\ [Next]_vars => ChildInv'
  <2>1. ChildInv /\ UNCHANGED vars => ChildInv'
    BY DEF vars, parentvars, ChildInv, ReportIsTrue, ChildHasEnded
  <2> QED
    BY <2>1, ParentStep, SignalStep, CompilerStep DEF Next
<1>3. ChildInv => ChildHasEnded
  BY DEF ChildInv
<1> QED
  BY <1>1, <1>2, <1>3, PTL DEF Spec

-----------------------------------------------------------------------------
(* What the compiler has done to the files at each point of its way through  *)
(* main.                                                                     *)

\* What a file may hold.
Held == {"absent", "unit", "assembly", "flawed", "endless", "other", "empty", "object", "partial"}

\* Words and names are files' names, and an option's value that is used as
\* one is a word.
WordsAreNames ==
    /\ args \in Seq(Files) /\ carg \in Nat \ {0}
    /\ positional \in Seq(Files)
    /\ Has("o") => options["o"] \in Files
    /\ files \in [Files -> Held] /\ before \in [Files -> Held]

Opened(to) == files = [before EXCEPT ![to] = "empty"]

\* The files are as they were until the first is opened; what is opened next
\* follows from the language, which is fixed when all arguments are read, and
\* a unit is assembled only when it was one.
FilesByStage ==
    /\ pc \in {"start", "parse"} => files = before
    /\ write = "failed" => pc = "exit"
    /\ pc = "compile" => Converts /\ language = "c" /\ files = before
    /\ pc = "compiling" => Converts /\ language = "c" /\ Opened(asm_output)
    /\ pc = "assemble" =>
          /\ Converts
          /\ \/ language = "asm" /\ files = before
             \/ language = "c" /\ ~Has("S") /\ before[input] = "unit"
    /\ pc = "assembling" =>
          /\ Converts
          /\ \/ language = "asm" /\ Opened(output)
             \/ language = "c" /\ ~Has("S") /\ before[input] = "unit"

OutputInv == WordsAreNames /\ FilesByStage /\ SuccessTells /\ OldObjectKept

\* The front end and the signals touch neither arguments nor files.
LEMMA OthersKeepFiles ==
    OutputInv /\ UNCHANGED <<pc, argvars, rc, files, before, write>> => OutputInv'
  BY DEF OutputInv, WordsAreNames, FilesByStage, SuccessTells, OldObjectKept, argvars,
         Converts, language, input, output, asm_output, Has, Value, Opened

\* The names that are opened.
LEMMA NamesAreFiles ==
    WordsAreNames /\ Converts =>
        input \in Files /\ output \in Files /\ asm_output \in Files
<1> SUFFICES ASSUME WordsAreNames, Converts
             PROVE input \in Files /\ output \in Files /\ asm_output \in Files
  OBVIOUS
<1>1. input \in Files
  <2>1. positional \in Seq(Files) /\ Len(positional) = 1
    BY DEF WordsAreNames, Converts
  <2> QED
    BY <2>1 DEF input
<1>2. output \in Files
  BY ToolchainAssumption DEF output, Value, WordsAreNames
<1>3. Temporary[input] \in Files
  BY <1>1, ToolchainAssumption
<1> QED
  BY <1>1, <1>2, <1>3 DEF asm_output

\* As long as a word is left, nothing is converted, and nothing was opened.
LEMMA ParsingKeepsFiles == OutputInv /\ (Exec \/ parse_args) => OutputInv'
<1> SUFFICES ASSUME OutputInv, Exec \/ parse_args PROVE OutputInv'
  OBVIOUS
<1> USE DEF Exit, Runs
<1>1. CASE Exec
  <2>1. WordsAreNames'
    BY <1>1 DEF Exec, OutputInv, WordsAreNames, argvars, Has
  <2>2. FilesByStage'
    BY <1>1 DEF Exec, OutputInv, FilesByStage
  <2>3. SuccessTells'
    BY <1>1 DEF Exec, SuccessTells
  <2>4. OldObjectKept'
    BY <1>1 DEF Exec, OutputInv, FilesByStage, OldObjectKept
  <2> QED
    BY <2>1, <2>2, <2>3, <2>4 DEF OutputInv
<1>2. CASE parse_args
  <2>1. /\ carg \in DOMAIN args /\ args[carg] \in Files
        /\ carg + 1 \in DOMAIN args => args[carg + 1] \in Files
    BY <1>2 DEF parse_args, OutputInv, WordsAreNames
  <2>2. WordsAreNames'
    <3>1. CASE ParseDashes \/ InvalidOption
      BY <1>2, <3>1 DEF ParseDashes, InvalidOption, parse_args, OutputInv, WordsAreNames, Has
    <3>2. CASE ParseOption
      <4>1. "o" \notin is_bool
        BY DEF is_bool
      <4>2. (Has("o") => options["o"] \in Files)'
        BY <1>2, <2>1, <3>2, <4>1 DEF ParseOption, OutputInv, WordsAreNames, Has, Set
      <4> QED
        BY <1>2, <3>2, <4>2 DEF ParseOption, parse_args, OutputInv, WordsAreNames
    <3>3. CASE ParsePositional
      BY <1>2, <2>1, <3>3 DEF ParsePositional, parse_args, OutputInv, WordsAreNames, Has
    <3> QED
      BY <1>2, <3>1, <3>2, <3>3 DEF parse_args
  <2>3. /\ files = before /\ files' = before'
        /\ write' # "failed"
        /\ pc' = "parse" \/ (pc' = "exit" /\ rc' = 1)
    BY <1>2 DEF parse_args, ParseDashes, ParseOption, InvalidOption, ParsePositional,
                OutputInv, FilesByStage
  <2>4. FilesByStage' /\ SuccessTells' /\ OldObjectKept'
    BY <2>3 DEF FilesByStage, SuccessTells, OldObjectKept
  <2> QED
    BY <2>2, <2>4 DEF OutputInv
<1> QED
  BY <1>1, <1>2

\* What the arguments say when all of them are read.
LEMMA BeginKeepsFiles == OutputInv /\ Begin => OutputInv'
<1> SUFFICES ASSUME OutputInv, Begin PROVE OutputInv'
  OBVIOUS
<1> USE DEF Begin, Exit, Runs, argvars
<1>1. WordsAreNames'
  BY DEF OutputInv, WordsAreNames, Has
<1>2. files = before /\ files' = before' /\ write' # "failed"
  BY DEF OutputInv, FilesByStage
<1>3. FilesByStage'
  BY <1>2 DEF FilesByStage, Converts, language, Has, Value
<1>4. SuccessTells'
  BY <1>2 DEF SuccessTells, Converts, language, Has, Value
<1>5. OldObjectKept'
  BY <1>2 DEF OldObjectKept
<1> QED
  BY <1>1, <1>3, <1>4, <1>5 DEF OutputInv

\* The input is looked into before the output is emptied, and as one and the
\* same file it is empty when it is read.
LEMMA CompileKeepsFiles ==
    OutputInv /\ (compiler_make_asm \/ compile_to_asm) => OutputInv'
<1> SUFFICES ASSUME OutputInv, compiler_make_asm \/ compile_to_asm PROVE OutputInv'
  OBVIOUS
<1> USE DEF Exit, Runs, argvars, compiler_make_asm, OpenFiles, compile_to_asm
<1>0. /\ Converts /\ language = "c"
      /\ UNCHANGED <<argvars, before>>
  BY DEF OutputInv, FilesByStage
<1>1. UNCHANGED <<Converts, language, input, output, asm_output, Has("S")>>
  BY <1>0 DEF Converts, language, input, output, asm_output, Has, Value
<1>2. input \in Files /\ output \in Files /\ asm_output \in Files
  BY <1>0, NamesAreFiles DEF OutputInv
<1>3. WordsAreNames'
  <2>1. files \in [Files -> Held]
    BY DEF OutputInv, WordsAreNames
  <2>2. files' \in [Files -> Held]
    BY <1>2, <2>1 DEF Held
  <2> QED
    BY <1>0, <2>2 DEF OutputInv, WordsAreNames, Has
<1>4. CASE compiler_make_asm
  <2>1. FilesByStage'
    BY <1>0, <1>1, <1>4 DEF OutputInv, FilesByStage, Opened
  <2>2. SuccessTells'
    BY <1>4 DEF SuccessTells
  <2>3. OldObjectKept'
    BY <1>0, <1>1, <1>2, <1>4 DEF OutputInv, FilesByStage, WordsAreNames, OldObjectKept, asm_output
  <2> QED
    BY <1>3, <2>1, <2>2, <2>3 DEF OutputInv
<1>5. CASE compile_to_asm
  <2>1. files[input] = "unit" => before[input] = "unit"
    BY <1>2, <1>5 DEF OutputInv, FilesByStage, WordsAreNames, Opened
  <2>2. FilesByStage'
    BY <1>0, <1>1, <1>5, <2>1 DEF OutputInv, FilesByStage
  <2>3. Has("S") => files[output] = "empty"
    BY <1>2, <1>5 DEF OutputInv, FilesByStage, WordsAreNames, Opened, asm_output
  <2>4. SuccessTells'
    BY <1>0, <1>1, <1>5, <2>1, <2>3 DEF SuccessTells
  <2>5. OldObjectKept'
    BY <1>1, <1>5 DEF OutputInv, OldObjectKept
  <2> QED
    BY <1>3, <2>2, <2>4, <2>5 DEF OutputInv
<1> QED
  BY <1>4, <1>5

\* What is assembled is the input, or what a unit was compiled to.
LEMMA AssembleKeepsFiles ==
    OutputInv /\ (compiler_make_object \/ assemble_to_obj) => OutputInv'
<1> SUFFICES ASSUME OutputInv, compiler_make_object \/ assemble_to_obj PROVE OutputInv'
  OBVIOUS
<1> USE DEF Exit, Runs, argvars, compiler_make_object, OpenFiles, assemble_to_obj, Assembles,
           WriteObject
<1>0. /\ Converts
      /\ language = "asm" \/ (language = "c" /\ ~Has("S") /\ before[input] = "unit")
      /\ UNCHANGED <<argvars, before>>
  BY DEF OutputInv, FilesByStage
<1>1. UNCHANGED <<Converts, language, input, output, Has("S")>>
  BY <1>0 DEF Converts, language, input, output, Has, Value
<1>2. input \in Files /\ output \in Files
  BY <1>0, NamesAreFiles DEF OutputInv
<1>3. WordsAreNames'
  <2>1. files \in [Files -> Held]
    BY DEF OutputInv, WordsAreNames
  <2>2. files' \in [Files -> Held]
    BY <1>2, <2>1 DEF Held
  <2> QED
    BY <1>0, <2>2 DEF OutputInv, WordsAreNames, Has
<1>4. OldObjectKept'
  BY <1>0, <1>1 DEF OldObjectKept
<1>5. CASE compiler_make_object
  <2>1. FilesByStage'
    BY <1>0, <1>1, <1>5 DEF OutputInv, FilesByStage, Opened
  <2>2. SuccessTells'
    BY <1>5 DEF SuccessTells
  <2> QED
    BY <1>3, <1>4, <2>1, <2>2 DEF OutputInv
<1>6. CASE assemble_to_obj
  <2>1. FilesByStage'
    BY <1>6 DEF FilesByStage
  <2>2. rc' = 0 => files'[output] = IF write' = "failed" THEN "partial" ELSE "object"
    <3>1. write # "failed"
      BY <1>6 DEF OutputInv, FilesByStage
    <3> QED
      BY <1>2, <1>6, <3>1 DEF OutputInv, WordsAreNames
  <2>3. rc' = 0 /\ language = "asm" => before[input] \in {"assembly", "empty"} \/ input = output
    BY <1>2, <1>6 DEF OutputInv, FilesByStage, WordsAreNames, Opened, assembled
  <2>4. SuccessTells'
    BY <1>0, <1>1, <1>6, <2>2, <2>3 DEF SuccessTells
  <2> QED
    BY <1>3, <1>4, <2>1, <2>4 DEF OutputInv
<1> QED
  BY <1>5, <1>6

\* Names, stages and files agree, and so the two properties hold, whatever
\* command line was given, whatever the files held and wherever the compiler
\* was killed.
THEOREM OutputInvariance == Spec => []OutputInv
<1>1. Init => OutputInv
  <2> SUFFICES ASSUME Init PROVE OutputInv
    OBVIOUS
  <2>1. args \in Seq(Files) /\ before \in [Files -> Held] /\ files = before
    <3>1. args \in Seq(Files)
      BY ToolchainAssumption DEF Init
    <3>2. files \in [Files -> {"absent", "unit", "assembly", "flawed", "endless", "other", "empty"}]
      BY ToolchainAssumption DEF Init
    <3> QED
      BY <3>1, <3>2 DEF Init, Held
  <2>2. WordsAreNames
    BY <2>1 DEF Init, WordsAreNames, Has
  <2> QED
    BY <2>1, <2>2 DEF Init, OutputInv, FilesByStage, SuccessTells, OldObjectKept
<1>2. OutputInv /\ [Next]_vars => OutputInv'
  <2>1. Parent \/ AwaitFails => UNCHANGED <<pc, argvars, rc, files, before, write>>
    BY DEF Parent, Fork, ForkFails, Await, AwaitFails
  <2>2. Stop \/ Continue \/ Kill => UNCHANGED <<pc, argvars, rc, files, before, write>>
    BY DEF Stop, Continue, Kill, Becomes
  <2>3. UNCHANGED vars => UNCHANGED <<pc, argvars, rc, files, before, write>>
    BY DEF vars
  <2>4. OutputInv /\ Compiler => OutputInv'
    BY ParsingKeepsFiles, BeginKeepsFiles, CompileKeepsFiles, AssembleKeepsFiles DEF Compiler
  <2> QED
    BY <2>1, <2>2, <2>3, <2>4, OthersKeepFiles DEF Next
<1> QED
  BY <1>1, <1>2, PTL DEF Spec

\* A return value of 0 means an output, and one of a source without errors that the
\* compiler sees; or a language it does not know and files it did not touch; or
\* a write that failed unnoticed.  The three are told apart for every command line
\* and all that the files may hold (main.cpp:104-132, generator.cpp:79-81).
THEOREM SuccessAlwaysTells == Spec => []SuccessTells
<1>1. OutputInv => SuccessTells
  BY DEF OutputInv
<1> QED
  BY <1>1, OutputInvariance, PTL

\* The object of an earlier run survives a unit with errors.
THEOREM OldObjectAlwaysKept == Spec => []OldObjectKept
<1>1. OutputInv => OldObjectKept
  BY DEF OutputInv
<1> QED
  BY <1>1, OutputInvariance, PTL

-----------------------------------------------------------------------------
(* What parse_args has read so far of a command line.                        *)

\* Options are read one after the other up to the first word that is not one,
\* and everything behind that is an input.
ReadSoFar(m, starts, n) ==
    /\ Means(args, m, starts, n)
    /\ positional = SubSeq(args, FirstInput(args, n), carg - 1)
    /\ \/ ~double_dash /\ carg \in starts \cup {n + 1} /\ options = Given(args, starts, carg)
       \/ /\ double_dash /\ options = Given(args, starts, n + 1)
          /\ carg \in FirstInput(args, n)..Len(args) + 1

CommandInv ==
    /\ args \in Seq(Files) /\ carg \in Nat \ {0} /\ double_dash \in BOOLEAN
    /\ \A m \in meant :
          \E n \in 0..Len(args) : \E starts \in SUBSET (1..n) : ReadSoFar(m, starts, n)

\* Two dashes are no option.
LEMMA DashesAreNoOption == "--" \in Dashed /\ "--" \notin DOMAIN OptionName
  BY DEF Dashed, OptionName

\* No option begins before the first.
LEMMA NothingGiven ==
    ASSUME NEW words, NEW n \in Nat, NEW starts \in SUBSET (1..n)
    PROVE  Given(words, starts, 1) = <<>>
<1>1. {s \in starts : s < 1} = {}
  <2>1. \A s \in starts : s \in 1..n
    OBVIOUS
  <2>2. \A s \in starts : ~(s < 1)
    BY <2>1
  <2> QED
    BY <2>2, Zenon
<1>2. {OptionName[words[p]] : p \in {s \in starts : s < 1}} = {}
  BY <1>1, Zenon
<1>3. ASSUME NEW f(_) PROVE [o \in {} |-> f(o)] = <<>>
  OBVIOUS
<1> QED
  BY <1>2, <1>3 DEF Given

\* A part of a sequence that is longer by one.
LEMMA OneMore ==
    ASSUME NEW S, NEW s \in Seq(S), NEW from \in Nat \ {0}, NEW to \in 1..Len(s),
           from <= to
    PROVE  Append(SubSeq(s, from, to - 1), s[to]) = SubSeq(s, from, to)
  OBVIOUS

\* The options with one more, or with another value of one.
WithOption(set, option, value) ==
    [o \in DOMAIN set \cup {option} |-> IF o = option THEN value ELSE set[o]]

\* What the option at q sets.
ValueAt(words, q) == IF OptionName[words[q]] \in is_bool THEN "1" ELSE words[q + 1]

\* What is given by the option at q and those before it.
LEMMA GivenNext ==
    ASSUME NEW words, NEW n \in Nat, NEW starts \in SUBSET (1..n), NEW q \in starts,
           NEW next \in Nat, q < next, \A p \in starts : p < next => p <= q
    PROVE  Given(words, starts, next) =
             WithOption(Given(words, starts, q), OptionName[words[q]], ValueAt(words, q))
<1> DEFINE name == OptionName[words[q]]
           Names(o, r) == {p \in starts : p < r /\ OptionName[words[p]] = o}
           Last(o, r) == CHOOSE p \in Names(o, r) : \A x \in Names(o, r) : x <= p
           All(r) == {OptionName[words[p]] : p \in {s \in starts : s < r}}
           Says(o, r) == IF o \in is_bool THEN "1" ELSE words[Last(o, r) + 1]
<1>1. \A r : Given(words, starts, r) = [o \in All(r) |-> Says(o, r)]
  BY Zenon DEF Given
<1>2. {s \in starts : s < next} = {s \in starts : s < q} \cup {q}
  <2>1. \A s \in starts : s \in 1..n
    OBVIOUS
  <2>2. \A s \in starts : s < next <=> s < q \/ s = q
    BY <2>1
  <2> QED
    BY <2>2, Zenon
<1>3. All(next) = All(q) \cup {name}
  BY <1>2
<1>4. Last(name, next) = q
  <2>1. q \in Names(name, next) /\ \A x \in Names(name, next) : x <= q
    OBVIOUS
  <2>2. ASSUME NEW p \in Names(name, next), \A x \in Names(name, next) : x <= p
        PROVE  p = q
    <3>1. q <= p /\ p <= q
      BY <2>1, <2>2
    <3>2. p \in 1..n /\ q \in 1..n
      OBVIOUS
    <3> QED
      BY <3>1, <3>2
  <2> QED
    BY <2>1, <2>2
<1>5. ASSUME NEW o, o # name PROVE Last(o, next) = Last(o, q)
  <2>1. Names(o, next) = Names(o, q)
    BY <1>2, <1>5
  <2> QED
    BY <2>1
<1>6. Says(name, next) = ValueAt(words, q)
  BY <1>4 DEF ValueAt
<1>7. ASSUME NEW o, o # name PROVE Says(o, next) = Says(o, q)
  <2>1. Last(o, next) = Last(o, q)
    BY <1>5, <1>7
  <2> HIDE DEF Last
  <2> QED
    BY <2>1
<1>8. DOMAIN Given(words, starts, q) = All(q)
      /\ \A o \in All(q) : Given(words, starts, q)[o] = Says(o, q)
  <2> HIDE DEF All, Says
  <2>1. Given(words, starts, q) = [o \in All(q) |-> Says(o, q)]
    BY <1>1, Zenon
  <2> QED
    BY <2>1
<1> HIDE DEF All, Says, name
<1>9. [o \in All(next) |-> Says(o, next)] =
        [o \in All(q) \cup {name} |->
            IF o = name THEN Says(name, next) ELSE Given(words, starts, q)[o]]
  BY <1>3, <1>7, <1>8
<1> QED
  BY <1>1, <1>6, <1>8, <1>9 DEF name, WithOption

\* Behind an option, and its value if it has one, is the next option or the
\* first word that is none.
LEMMA NextOption ==
    ASSUME NEW words, NEW n \in Nat, NEW starts \in SUBSET (1..n), NEW q \in starts,
           WrittenFrom(words, starts, n)
    PROVE  LET next == IF OptionName[words[q]] \in is_bool THEN q + 1 ELSE q + 2
           IN  /\ next \in starts \cup {n + 1}
               /\ \A p \in starts : p < next => p <= q
<1>1. CASE OptionName[words[q]] \in is_bool
  <2>1. q + 1 \in 1..n => q + 1 \in starts
    BY <1>1 DEF WrittenFrom
  <2> QED
    BY <1>1, <2>1
<1>2. CASE OptionName[words[q]] \notin is_bool
  <2>1. q + 1 \in (1..n) \ starts
    BY <1>2 DEF WrittenFrom
  <2>2. q + 2 \in 1..n => q + 2 \in starts
    BY <2>1 DEF WrittenFrom
  <2>3. \A p \in starts : p < q + 2 => p <= q
    BY <2>1
  <2> QED
    BY <1>2, <2>1, <2>2, <2>3
<1> QED
  BY <1>1, <1>2

\* The first word of a command line is the first option, if there is one.
LEMMA NothingReadYet == Init => CommandInv
<1> SUFFICES ASSUME Init PROVE CommandInv
  OBVIOUS
<1>1. args \in Seq(Files) /\ carg = 1 /\ double_dash = FALSE /\ options = <<>> /\ positional = <<>>
  BY ToolchainAssumption DEF Init
<1>2. ASSUME NEW m \in meant
      PROVE  \E n \in 0..Len(args) : \E starts \in SUBSET (1..n) : ReadSoFar(m, starts, n)
  <2>1. PICK n \in 0..Len(args) : \E starts \in SUBSET (1..n) : Means(args, m, starts, n)
    BY CommandsAssumption DEF Init
  <2>2. PICK starts \in SUBSET (1..n) : Means(args, m, starts, n)
    BY <2>1
  <2>3. options = Given(args, starts, carg)
    <3>1. n \in Nat
      BY <1>1
    <3> QED
      BY <1>1, <3>1, NothingGiven
  <2>4. carg \in starts \cup {n + 1}
    <3>1. n \in Nat /\ 0 \notin starts
      BY <1>1
    <3>2. CASE n = 0
      BY <1>1, <3>2
    <3>3. CASE n # 0
      <4>1. 1 \in 1..n
        BY <3>1, <3>3
      <4> QED
        BY <1>1, <2>2, <3>1, <4>1 DEF Means, WrittenFrom
    <3> QED
      BY <3>2, <3>3
  <2>5. positional = SubSeq(args, FirstInput(args, n), carg - 1)
    <3>1. n \in Nat /\ FirstInput(args, n) \in {n + 1, n + 2}
      BY <1>1 DEF FirstInput
    <3> QED
      BY <1>1, <3>1
  <2> QED
    BY <1>1, <2>2, <2>3, <2>4, <2>5 DEF ReadSoFar
<1>3. carg \in Nat \ {0}
  BY <1>1
<1>4. double_dash \in BOOLEAN
  BY <1>1, Zenon
<1> QED
  BY <1>1, <1>2, <1>3, <1>4, Zenon DEF CommandInv

\* A word that an option is meant by is read as that, one that is an input as
\* an input.
LEMMA WordIsReadAsMeant ==
    ASSUME args \in Seq(Files), carg \in Nat \ {0}, double_dash \in BOOLEAN, parse_args,
           NEW m, NEW n \in 0..Len(args), NEW starts \in SUBSET (1..n), ReadSoFar(m, starts, n)
    PROVE  ReadSoFar(m, starts, n)'
<1> DEFINE first == FirstInput(args, n)
<1>1. carg \in 1..Len(args) /\ args' = args /\ n \in Nat
  BY DEF parse_args
<1>2. Means(args, m, starts, n) /\ WrittenFrom(args, starts, n)
  BY DEF ReadSoFar, Means
<1>3. first \in {n + 1, n + 2}
      /\ (first = n + 2 <=> n < Len(args) /\ args[n + 1] = "--")
  BY <1>1 DEF FirstInput
<1>4. Means(args, m, starts, n)' /\ first' = first
  BY <1>1, <1>2 DEF Means, FirstInput, WrittenFrom, Given
<1>5. positional = SubSeq(args, first, carg - 1)
  BY DEF ReadSoFar
<1>6. CASE double_dash
  <2>1. ParsePositional
    BY <1>6 DEF parse_args
  <2>2. carg \in first..Len(args) /\ options = Given(args, starts, n + 1)
    BY <1>1, <1>6 DEF ReadSoFar
  <2>3. positional' = SubSeq(args, first, carg' - 1)
    <3>1. Append(SubSeq(args, first, carg - 1), args[carg]) = SubSeq(args, first, carg)
      <4>1. first \in Nat \ {0} /\ first <= carg
        BY <1>1, <1>3, <2>2
      <4> QED
        BY <1>1, <4>1, OneMore
    <3>2. carg' - 1 = carg
      BY <1>1, <2>1 DEF ParsePositional
    <3> QED
      BY <1>5, <2>1, <3>1, <3>2 DEF ParsePositional
  <2>4. double_dash' /\ carg' \in first..Len(args) + 1 /\ options' = options
    BY <1>1, <1>3, <2>1, <2>2 DEF ParsePositional
  <2> HIDE DEF first
  <2> QED
    BY <1>1, <1>4, <2>2, <2>3, <2>4 DEF ReadSoFar, first
<1>7. CASE ~double_dash
  <2>1. carg \in starts \cup {n + 1} /\ options = Given(args, starts, carg)
    BY <1>1, <1>3, <1>7 DEF ReadSoFar
  <2>2. CASE carg \in starts
    <3>1. args[carg] \in DOMAIN OptionName /\ args[carg] \in Dashed /\ args[carg] # "--"
      BY <1>2, <2>2, DashesAreNoOption DEF WrittenFrom, Dashed
    <3>2. ParseOption
      BY <1>7, <3>1 DEF parse_args, ParseDashes, InvalidOption
    <3>3. /\ carg <= n
          /\ OptionName[args[carg]] \notin is_bool => carg + 1 <= n
      BY <1>1, <1>2, <2>2 DEF WrittenFrom
    <3> DEFINE next == IF OptionName[args[carg]] \in is_bool THEN carg + 1 ELSE carg + 2
    <3>4. carg' = next /\ double_dash' = FALSE /\ positional' = positional
      BY <1>1, <1>7, <3>2, <3>3 DEF ParseOption
    <3>5. next \in starts \cup {n + 1} /\ \A p \in starts : p < next => p <= carg
      BY <1>1, <1>2, <2>2, NextOption
    <3>6. options' = Given(args, starts, next)
      <4>1. next \in Nat /\ carg < next
        BY <1>1
      <4>2. options' = WithOption(options, OptionName[args[carg]], ValueAt(args, carg))
        BY <1>1, <3>2, <3>3 DEF ParseOption, Set, WithOption, ValueAt
      <4>3. \A p \in starts : p < next => p <= carg
        BY <3>5
      <4> HIDE DEF next
      <4>4. Given(args, starts, next) =
              WithOption(Given(args, starts, carg), OptionName[args[carg]], ValueAt(args, carg))
        <5>1. n \in Nat
          BY <1>1
        <5> QED
          BY <2>2, <4>1, <4>3, <5>1, GivenNext, Zenon
      <4> QED
        BY <2>1, <4>2, <4>4
    <3>7. positional' = SubSeq(args, first, carg' - 1)
      <4>1. carg' - 1 < first /\ carg - 1 < first /\ carg' \in Nat
        BY <1>1, <1>3, <3>3, <3>4
      <4> QED
        BY <1>1, <1>3, <1>5, <3>4, <4>1
    <3> QED
      BY <1>1, <1>4, <3>4, <3>5, <3>6, <3>7 DEF ReadSoFar
  <2>3. CASE carg = n + 1 /\ args[carg] = "--"
    <3>1. ParseDashes
      BY <1>7, <2>3, DashesAreNoOption DEF parse_args, ParseOption, InvalidOption
    <3>2. first = n + 2 /\ carg' = n + 2 /\ double_dash' = TRUE
      BY <1>1, <1>3, <2>3, <3>1 DEF ParseDashes
    <3>3. positional' = SubSeq(args, first, carg' - 1)
      BY <1>1, <1>5, <2>3, <3>1, <3>2 DEF ParseDashes
    <3> QED
      BY <1>1, <1>4, <2>1, <2>3, <3>1, <3>2, <3>3 DEF ReadSoFar, ParseDashes
  <2>4. CASE carg = n + 1 /\ args[carg] # "--"
    <3>1. args[carg] \notin Dashed
      BY <1>1, <1>2, <2>4 DEF WrittenFrom
    <3>2. ParsePositional
      BY <3>1 DEF parse_args
    <3>3. first = n + 1 /\ carg' = n + 2 /\ double_dash' = TRUE
      BY <1>1, <1>3, <2>4, <3>2 DEF ParsePositional
    <3>4. positional' = SubSeq(args, first, carg' - 1)
      BY <1>1, <1>5, <2>4, <3>2, <3>3, OneMore DEF ParsePositional
    <3> QED
      BY <1>1, <1>4, <2>1, <2>4, <3>2, <3>3, <3>4 DEF ReadSoFar, ParsePositional
  <2> QED
    BY <2>1, <2>2, <2>3, <2>4
<1> QED
  BY <1>6, <1>7

\* Only parse_args reads arguments.
LEMMA OthersReadNothing ==
    CommandInv /\ UNCHANGED <<argvars, meant>> => CommandInv'
<1> SUFFICES ASSUME CommandInv, UNCHANGED <<argvars, meant>> PROVE CommandInv'
  OBVIOUS
<1>1. UNCHANGED <<args, carg, double_dash, options, positional, meant>>
  BY DEF argvars
<1>2. ASSUME NEW m, NEW n, NEW starts
      PROVE  ReadSoFar(m, starts, n)' <=> ReadSoFar(m, starts, n)
  BY <1>1 DEF ReadSoFar, Means, WrittenFrom, Given, FirstInput
<1> QED
  BY <1>1, <1>2 DEF CommandInv

LEMMA ParsingReadsAsMeant == CommandInv /\ parse_args => CommandInv'
<1> SUFFICES ASSUME CommandInv, parse_args PROVE CommandInv'
  OBVIOUS
<1>1. args \in Seq(Files) /\ carg \in Nat \ {0} /\ double_dash \in BOOLEAN
  BY DEF CommandInv
<1>2. args' = args /\ meant' = meant /\ carg' \in Nat \ {0} /\ double_dash' \in BOOLEAN
  <2>1. args' = args /\ meant' = meant
    BY DEF parse_args
  <2>2. ParseDashes \/ ParseOption \/ InvalidOption \/ ParsePositional
    BY DEF parse_args
  <2>3. carg' \in {carg, carg + 1, carg + 2} /\ double_dash' \in {double_dash, TRUE}
    BY <2>2 DEF ParseDashes, ParseOption, InvalidOption, ParsePositional
  <2>4. carg' \in Nat \ {0}
    BY <1>1, <2>3
  <2>5. double_dash' \in BOOLEAN
    BY <1>1, <2>3, Zenon
  <2> QED
    BY <2>1, <2>4, <2>5
<1>3. ASSUME NEW m \in meant
      PROVE  \E n \in 0..Len(args) : \E starts \in SUBSET (1..n) : ReadSoFar(m, starts, n)'
  BY <1>1, WordIsReadAsMeant DEF CommandInv
<1> QED
  BY <1>1, <1>2, <1>3 DEF CommandInv

\* For every command line that options and inputs were written as, in every
\* order and number, parse_args reads them as they were meant (args.cpp:22).
THEOREM CommandAlwaysAsMeant == Spec => []CommandAsMeant
<1>1. CommandInv /\ [Next]_vars => CommandInv'
  <2>1. Parent \/ AwaitFails \/ Stop \/ Continue \/ Kill => UNCHANGED <<argvars, meant>>
    BY DEF Parent, Fork, ForkFails, Await, AwaitFails, Stop, Continue, Kill, Becomes
  <2>2. Compiler => parse_args \/ UNCHANGED <<argvars, meant>>
    BY DEF Compiler, Exec, Begin, compiler_make_asm, compile_to_asm, compiler_make_object,
           assemble_to_obj, OpenFiles
  <2>3. UNCHANGED vars => UNCHANGED <<argvars, meant>>
    BY DEF vars
  <2> QED
    BY <2>1, <2>2, <2>3, OthersReadNothing, ParsingReadsAsMeant DEF Next
<1>2. CommandInv => CommandAsMeant
  <2> SUFFICES ASSUME CommandInv, NEW m \in meant, carg > Len(args)
               PROVE  options = m.options /\ positional = m.positional
    BY DEF CommandAsMeant
  <2>1. PICK n \in 0..Len(args) : \E starts \in SUBSET (1..n) : ReadSoFar(m, starts, n)
    BY DEF CommandInv
  <2>2. PICK starts \in SUBSET (1..n) : ReadSoFar(m, starts, n)
    BY <2>1
  <2>3. args \in Seq(Files) /\ carg \in Nat
    BY DEF CommandInv
  <2>4. /\ Given(args, starts, n + 1) = m.options
        /\ m.positional = SubSeq(args, FirstInput(args, n), Len(args))
        /\ positional = SubSeq(args, FirstInput(args, n), carg - 1)
    BY <2>2 DEF ReadSoFar, Means
  <2>5. carg = Len(args) + 1 /\ options = Given(args, starts, n + 1)
    <3>1. CASE ~double_dash
      <4>1. carg \in starts \cup {n + 1} /\ options = Given(args, starts, carg)
        BY <2>2, <2>3, <3>1 DEF ReadSoFar, FirstInput
      <4>2. carg = n + 1
        BY <2>3, <4>1
      <4> QED
        BY <2>3, <4>1, <4>2
    <3>2. CASE double_dash
      <4>1. carg \in FirstInput(args, n)..Len(args) + 1 /\ options = Given(args, starts, n + 1)
        BY <2>2, <3>2 DEF ReadSoFar
      <4> QED
        BY <2>3, <4>1
    <3> QED
      BY <3>1, <3>2
  <2> QED
    BY <2>3, <2>4, <2>5
<1> QED
  BY <1>1, <1>2, NothingReadYet, PTL DEF Spec

=============================================================================
