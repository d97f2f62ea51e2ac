------------------------------ MODULE Toolchain ------------------------------
(* The front end program starts the compiler as a child process and waits    *)
(* for it; the compiler reads its arguments, opens files and converts them.  *)
(* What a conversion makes of a text is modelled by AssemblerFrontEnd,       *)
(* CppFrontEnd and Assembler; here a file has one of a few contents, named   *)
(* for what the compiler finds them to be:                                   *)
(*   "unit"      a C++ unit it parses                                        *)
(*   "assembly"  a source it assembles and reports no error of               *)
(*   "flawed"    one with operations that fail                               *)
(*   "endless"   one whose last line has a comment and no line end           *)
(*   "other"     a text, or an object, that is none of these                 *)
(*   "empty"     no text                                                     *)
(*   "partial"   what there is of an object that could not be written whole  *)
EXTENDS Integers, Sequences, FiniteSets, TLC

CONSTANTS
    Commands,   \* command lines, each with how it was meant
    Files,      \* names of files, as which any word may be taken
    Contents,   \* what the files may hold at the beginning
    Temporary   \* the name made from that of an input

ASSUME ToolchainAssumption ==
    /\ Contents \subseteq [Files -> {"absent", "unit", "assembly", "flawed", "endless", "other", "empty"}]
    /\ Temporary \in [Files -> Files]
    /\ \A command \in Commands :
          DOMAIN command = {"args", "meant"} /\ command.args \in Seq(Files)
    /\ "a.out" \in Files

VARIABLES
    parent,     \* the front end: "fork", "wait" or "ended"
    result,     \* what spawn_process_and_wait returned
    child,      \* "none", "running", "stopped", "exited" or "killed"
    report,     \* the last change of the child that waitpid has not told of
    pc,         \* what the compiler does
    args,       \* argv without the program's name
    carg,
    double_dash,
    options,
    positional,
    rc,         \* what the compiler's main returned
    files,      \* what each file holds
    before,     \* history: what each file held at the beginning
    write,      \* history: "failed" when the object could not be written
    meant       \* history: how the command line was meant

parentvars == <<parent, result>>
argvars == <<args, carg, double_dash, options, positional>>
vars == <<parentvars, child, report, pc, argvars, rc, files, before, write, meant>>

Init ==
    /\ parent = "fork" /\ result = "none"
    /\ child = "none" /\ report = "none"
    /\ pc = "start"
    /\ \E command \in Commands : args = command.args /\ meant = command.meant
    /\ carg = 1
    /\ double_dash = FALSE
    /\ options = <<>>
    /\ positional = <<>>
    /\ rc = -1
    /\ files \in Contents
    /\ before = files
    /\ write = "none"

-----------------------------------------------------------------------------
(* spawn_process_and_wait, and main of the front end, which returns 0 in any *)
(* case.                                                                     *)

Return(value) ==
    /\ parent' = "ended"
    /\ result' = value

Fork ==
    /\ parent = "fork"
    /\ parent' = "wait"
    /\ child' = "running"
    /\ UNCHANGED <<result, report, pc, argvars, rc, files, before, write, meant>>

ForkFails ==
    /\ parent = "fork"
    /\ Return(FALSE)
    /\ UNCHANGED <<child, report, pc, argvars, rc, files, before, write, meant>>

\* Mutant: any change of the child is taken for its end.
Await_any_change ==
    /\ parent = "wait" /\ report # "none"
    /\ report' = "none"
    /\ Return(TRUE)
    /\ UNCHANGED <<child, pc, argvars, rc, files, before, write, meant>>

\* Mutant: a child that is killed is waited for.
Await_exit_only ==
    /\ parent = "wait" /\ report # "none"
    /\ report' = "none"
    /\ IF report = "exited" THEN Return(TRUE) ELSE UNCHANGED parentvars
    /\ UNCHANGED <<child, pc, argvars, rc, files, before, write, meant>>

\* waitpid tells of a stopped or continued child as well.
Await ==
    /\ parent = "wait" /\ report # "none"
    /\ report' = "none"
    /\ IF report \in {"exited", "killed"} THEN Return(TRUE) ELSE UNCHANGED parentvars
    /\ UNCHANGED <<child, pc, argvars, rc, files, before, write, meant>>

AwaitFails ==
    /\ parent = "wait"
    /\ Return(FALSE)
    /\ UNCHANGED <<child, report, pc, argvars, rc, files, before, write, meant>>

Parent == Fork \/ ForkFails \/ Await

-----------------------------------------------------------------------------
(* Signals from outside.                                                     *)

Becomes(state, change) ==
    /\ child' = state
    /\ report' = change
    /\ UNCHANGED <<parentvars, pc, argvars, rc, files, before, write, meant>>

Stop == child = "running" /\ Becomes("stopped", "stopped")
Continue == child = "stopped" /\ Becomes("running", "continued")
Kill == child \in {"running", "stopped"} /\ Becomes("killed", "killed")

-----------------------------------------------------------------------------
(* The child: execv, then parse_args, then main of the compiler.             *)

OptionName ==
    [word \in {"--help", "--version", "-x", "-o", "-Wall", "-Werror", "-ffreestanding",
               "-fraw", "-S"} |->
        CASE word = "--help" -> "-help" [] word = "--version" -> "-version"
          [] word = "-x" -> "x" [] word = "-o" -> "o" [] word = "-Wall" -> "Wall"
          [] word = "-Werror" -> "Werror" [] word = "-ffreestanding" -> "ffreestanding"
          [] word = "-fraw" -> "fraw" [] word = "-S" -> "S"]
is_bool == {"-help", "-version", "Wall", "Werror", "ffreestanding", "fraw", "S"}
Dashed == DOMAIN OptionName \cup {"--", "-q"}

Set(option, value) ==
    options' = [o \in DOMAIN options \cup {option} |->
                   IF o = option THEN value ELSE options[o]]
Has(option) == option \in DOMAIN options
Value(option) == IF Has(option) THEN options[option] ELSE ""

Runs(at) == child = "running" /\ pc = at

Exit(value) ==
    /\ rc' = value
    /\ child' = "exited"
    /\ report' = "exited"
    /\ pc' = "exit"

Exec ==
    /\ Runs("start")
    /\ \/ pc' = "parse" /\ UNCHANGED <<child, report, rc>>
       \/ Exit(1)
    /\ UNCHANGED <<parentvars, argvars, files, before, write, meant>>

ParseDashes ==
    /\ args[carg] = "--"
    /\ double_dash' = TRUE
    /\ carg' = carg + 1
    /\ UNCHANGED <<options, positional, child, report, rc, pc>>

ParseOption ==
    LET name == OptionName[args[carg]]
    IN  /\ args[carg] \in DOMAIN OptionName
        /\ IF name \in is_bool
           THEN /\ Set(name, "1")
                /\ carg' = carg + 1
                /\ UNCHANGED <<child, report, rc, pc>>
           ELSE IF carg < Len(args)
           THEN /\ Set(name, args[carg + 1])
                /\ carg' = carg + 2
                /\ UNCHANGED <<child, report, rc, pc>>
           ELSE /\ Exit(1)
                /\ UNCHANGED <<options, carg>>
        /\ UNCHANGED <<double_dash, positional>>

InvalidOption ==
    /\ args[carg] \in Dashed \ ({"--"} \cup DOMAIN OptionName)
    /\ Exit(1)
    /\ UNCHANGED <<carg, double_dash, options, positional>>

\* Mutant: options may follow an input.
ParsePositional_before_options ==
    /\ positional' = Append(positional, args[carg])
    /\ carg' = carg + 1
    /\ UNCHANGED <<double_dash, options, child, report, rc, pc>>

\* What follows the first positional argument is positional.
ParsePositional ==
    /\ positional' = Append(positional, args[carg])
    /\ double_dash' = TRUE
    /\ carg' = carg + 1
    /\ UNCHANGED <<options, child, report, rc, pc>>

parse_args ==
    /\ Runs("parse") /\ carg <= Len(args)
    /\ IF args[carg] \in Dashed /\ ~double_dash
       THEN ParseDashes \/ ParseOption \/ InvalidOption
       ELSE ParsePositional
    /\ UNCHANGED <<parentvars, args, files, before, write, meant>>

input == positional[1]
output == IF Value("o") = "" THEN "a.out" ELSE Value("o")
\* Mutant: the assembly goes to the output.
asm_output_in_place == output
asm_output == IF Has("S") THEN output ELSE Temporary[input]
language == IF Value("x") = "" THEN "c" ELSE Value("x")

\* mkdir is left out: without the directory the output can not be opened.
Begin ==
    /\ Runs("parse") /\ carg > Len(args)
    /\ IF Has("-version") \/ Has("-help") THEN Exit(0)
       ELSE IF Len(positional) # 1 THEN Exit(1)
       ELSE IF language = "c" THEN pc' = "compile" /\ UNCHANGED <<child, report, rc>>
       ELSE IF language = "asm" THEN pc' = "assemble" /\ UNCHANGED <<child, report, rc>>
       ELSE Exit(0)
    /\ UNCHANGED <<parentvars, argvars, files, before, write, meant>>

\* convert_from_file opens the input and then, with all it held lost, the output.
OpenFiles(at, from, to, next) ==
    /\ Runs(at)
    /\ \/ /\ files[from] # "absent"
          /\ files' = [files EXCEPT ![to] = "empty"]
          /\ pc' = next
          /\ UNCHANGED <<child, report, rc>>
       \/ Exit(1) /\ UNCHANGED files
    /\ UNCHANGED <<parentvars, argvars, before, write, meant>>

compiler_make_asm == OpenFiles("compile", input, asm_output, "compiling")
assembled == IF language = "asm" THEN input ELSE asm_output
compiler_make_object == OpenFiles("assemble", assembled, output, "assembling")

\* A unit is parsed; no code is generated for it.
compile_to_asm ==
    /\ Runs("compiling")
    /\ IF files[input] # "unit" THEN Exit(1)
       ELSE IF Has("S") THEN Exit(0)
       ELSE pc' = "assemble" /\ UNCHANGED <<child, report, rc>>
    /\ UNCHANGED <<parentvars, argvars, files, before, write, meant>>

Assembles(held) == held \in {"assembly", "flawed", "empty"}

\* The result of the stream's writes is not asked for.
WriteObject ==
    \/ files' = [files EXCEPT ![output] = "object"] /\ UNCHANGED write
    \/ files' = [files EXCEPT ![output] = "partial"] /\ write' = "failed"

\* Mutant: operations that fail are forgotten.
assemble_to_obj_unchecked ==
    /\ Runs("assembling") /\ files[assembled] # "endless"
    /\ IF Assembles(files[assembled])
       THEN WriteObject /\ Exit(0)
       ELSE UNCHANGED <<files, write>> /\ Exit(1)
    /\ UNCHANGED <<parentvars, argvars, before, meant>>

\* The object of a source with operations that fail is written all the same,
\* and that of a source without text has sections of no length.  A comment is
\* left at a line end only, so that an endless source is read for ever.
assemble_to_obj ==
    /\ Runs("assembling") /\ files[assembled] # "endless"
    /\ IF Assembles(files[assembled])
       THEN WriteObject
       ELSE UNCHANGED <<files, write>>
    /\ Exit(IF files[assembled] \in {"assembly", "empty"} THEN 0 ELSE 1)
    /\ UNCHANGED <<parentvars, argvars, before, meant>>

Compiler ==
    \/ Exec \/ parse_args \/ Begin \/ compiler_make_asm \/ compile_to_asm
    \/ compiler_make_object \/ assemble_to_obj

-----------------------------------------------------------------------------

Next == Parent \/ AwaitFails \/ Stop \/ Continue \/ Kill \/ Compiler

\* Both processes run on; a child that is stopped is continued, and one that
\* is stopped and continued again and again gets on in between.
Fairness == WF_vars(Parent) /\ SF_vars(Compiler) /\ WF_vars(Continue)

Spec == Init /\ [][Next]_vars /\ Fairness

-----------------------------------------------------------------------------
(* Properties.                                                               *)

\* When spawn_process_and_wait returns true, the child has ended, whatever
\* changes of it waitpid told of before (exec.cpp:36).
ChildHasEnded ==
    parent = "ended" /\ result = TRUE => child \in {"exited", "killed"}

\* The front end comes back to its caller, though the child may be killed, or
\* stopped for a time, at any step; but it waits for ever for a child that reads
\* a comment in a last line without a line end (asm/lexer.cpp:53), which ends
\* only when it is killed.
ReadsForEver == pc = "assembling" /\ files[assembled] = "endless"
FrontEndReturns == <>(parent = "ended") \/ <>[]ReadsForEver

\* How a command line is written: the first n words are options, which begin at
\* `starts`, each followed by its value if it takes one; then inputs, which "--"
\* may precede.
WrittenFrom(words, starts, n) ==
    /\ \A p \in 1..n :
          IF p \in starts
          THEN /\ words[p] \in DOMAIN OptionName
               /\ OptionName[words[p]] \in is_bool \/ p + 1 \in (1..n) \ starts
          ELSE p - 1 \in starts /\ OptionName[words[p - 1]] \notin is_bool
    /\ n = Len(words) \/ words[n + 1] = "--" \/ words[n + 1] \notin Dashed

\* The options that begin before q; of one that is given twice the last counts.
Given(words, starts, q) ==
    LET Names(o) == {p \in starts : p < q /\ OptionName[words[p]] = o}
        Last(o) == CHOOSE p \in Names(o) : \A r \in Names(o) : r <= p
    IN  [o \in {OptionName[words[p]] : p \in {s \in starts : s < q}} |->
            IF o \in is_bool THEN "1" ELSE words[Last(o) + 1]]

\* The first word that is an input whatever it looks like.
FirstInput(words, n) == IF n < Len(words) /\ words[n + 1] = "--" THEN n + 2 ELSE n + 1

Means(words, m, starts, n) ==
    /\ WrittenFrom(words, starts, n)
    /\ m.options = Given(words, starts, n + 1)
    /\ m.positional = SubSeq(words, FirstInput(words, n), Len(words))

ASSUME CommandsAssumption ==
    \A command \in Commands : \A m \in command.meant :
        \E n \in 0..Len(command.args) : \E starts \in SUBSET (1..n) :
            Means(command.args, m, starts, n)

\* Options and inputs are what the command line was written from: a value is
\* not taken for an option or an input, nor an input for an option.
CommandAsMeant ==
    \A m \in meant :
        carg > Len(args) => options = m.options /\ positional = m.positional

Converts == carg > Len(args) /\ Len(positional) = 1 /\ ~Has("-help") /\ ~Has("-version")

\* What a return value of 0 tells of the files, whatever was in them
\* (main.cpp:104-132).  For a language that is neither C nor assembly: nothing was
\* looked at.  Otherwise: no error was found in the source, or in the nothing that
\* is left of it when input and output are one file, and the output is what that
\* source is converted to; but an object that could not be written whole is
\* taken for written (generator.cpp:79-81).
SuccessTells ==
    pc = "exit" /\ rc = 0 /\ Converts =>
        CASE language = "c" ->
                /\ before[input] = "unit"
                /\ files[output] = IF Has("S") THEN "empty"
                                   ELSE IF write = "failed" THEN "partial" ELSE "object"
          [] language = "asm" ->
                /\ before[input] \in {"assembly", "empty"} \/ input = output
                /\ files[output] = IF write = "failed" THEN "partial" ELSE "object"
          [] OTHER -> files = before

\* A unit with errors leaves the object of an earlier run as it was, since its
\* assembly goes to a file of its own; not when the output is named as that.
OldObjectKept ==
    /\ Converts /\ language = "c" /\ ~Has("S") /\ before[input] # "unit"
    /\ output # Temporary[input]
    =>
        files[output] = before[output]

=============================================================================
