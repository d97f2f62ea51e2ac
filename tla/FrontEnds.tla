------------------------------ MODULE FrontEnds ------------------------------
(* Converter::convert of the toolchain up to the tree of a source: the input *)
(* format says which conversion runs.                                        *)
EXTENDS AssemblerFrontEnd

CONSTANTS
    Units,      \* sets of texts of C++ units, with the trees they were written from
    MaxDepth    \* bound: calls of parsers within calls that the stack has room for

ASSUME UnitsAssumption ==
    \A units \in Units : \A unit \in units :
        DOMAIN unit = {"text", "meant"} /\ unit.text \in Seq(STRING)

ASSUME DepthAssumption == MaxDepth \in Nat

\* The variables of a C++ conversion; those of AssemblerFrontEnd are the
\* assembler's.
VARIABLES cpp_stream, cpp_tokens, cpp_index, cpp_members, cpp_phase, cpp_meant

cpp_vars == <<cpp_stream, cpp_tokens, cpp_index, cpp_members, cpp_phase, cpp_meant>>

Cpp == INSTANCE CppFrontEnd WITH
    Sources <- Units, stream <- cpp_stream, tokens <- cpp_tokens, index <- cpp_index,
    members <- cpp_members, phase <- cpp_phase, meant <- cpp_meant

\* No conversion of that format is asked for.
NoSource ==
    /\ stream = Begin(<<>>) /\ meant = {} /\ phase = "done"
    /\ tokens = <<>> /\ index = 1 /\ members = <<>>
NoUnit ==
    /\ cpp_stream = Stream(<<>>) /\ cpp_meant = {} /\ cpp_phase = "done"
    /\ cpp_tokens = <<>> /\ cpp_index = 1 /\ cpp_members = <<>>

ConverterInit == (Init /\ NoUnit) \/ (NoSource /\ Cpp!Init)

convert ==
    \/ assemble_to_obj /\ UNCHANGED cpp_vars
    \/ Cpp!compile_to_asm /\ UNCHANGED vars

converter_vars == <<vars, cpp_vars>>

\* The process does nothing but convert.
ConverterSpec ==
    ConverterInit /\ [][convert]_converter_vars /\ WF_converter_vars(convert)

-----------------------------------------------------------------------------
(* Properties.  TextAccountedFor, ValuesUsedOnce and OperationsWithinLines   *)
(* of AssemblerFrontEnd are checked as they stand.                           *)

\* No pass of the C++ lexer drops a character of the text or uses one twice, and
\* nothing in a comment becomes a token.
UnitAccountedFor == [][Cpp!StarsMatch /\ cpp_phase = "lexing" => Cpp!Accounts]_cpp_vars

\* A unit is accepted only when its code blocks are closed, each by a bracket
\* of its own.
CurlyBracketsMatch == Cpp!CurlyBracketsMatch

\* A source written from operations, or from declarations, is read as the same.
ReadAsMeant == ReadsAsMeant /\ Cpp!ReadsAsMeant

\* Every text of either format is converted or refused.
ConversionsEnd == ConversionEnds /\ Cpp!ConversionEnds

=============================================================================
