------------------------------ MODULE MassStorage ------------------------------
(***************************************************************************)
(* The mass storage device (emulator/HDD.cpp, emulator/HDD.h): how many    *)
(* words it takes for each command, and which operation with which         *)
(* parameters it makes of them. The operations are stubs that return 0.    *)
(***************************************************************************)
EXTENDS Integers, Sequences

HDD_REG_FILLED == 0
HDD_REG_IDC == 1
HDD_REG_CWD == 2

ById == [SHOWID |-> 2, DELID |-> 3, READID |-> 4, WRITID |-> 5, MOVEID |-> 6]
ByName == [REQID |-> 8, MKELEM |-> 10, SHOWNM |-> 18, DELNM |-> 19, READNM |-> 20,
           WRITNM |-> 21, MOVENM |-> 22, RENAME |-> 23]
Codes == {ById[c] : c \in DOMAIN ById} \cup {ByName[c] : c \in DOMAIN ByName}

get_argc(cmd) ==
  CASE cmd \in {ById.SHOWID, ById.DELID} -> 1
    [] cmd = ById.MOVEID -> 2
    [] cmd \in {ById.READID, ById.WRITID} -> 3
    [] cmd \in {ByName.REQID, ByName.SHOWNM, ByName.DELNM} -> 4
    [] cmd \in {ByName.MOVENM, ByName.RENAME} -> 5
    [] cmd \in {ByName.MKELEM, ByName.READNM, ByName.WRITNM} -> 6
    [] OTHER -> 0

\* The registers are words of the image, but for the user address.
reg(image) ==
  [r \in {HDD_REG_FILLED, HDD_REG_IDC, HDD_REG_CWD} |->
    CASE r = HDD_REG_IDC -> image[1] [] r = HDD_REG_FILLED -> image[2] [] r = HDD_REG_CWD -> 0]

Operation(name, parameters) == [does |-> name, with |-> parameters]

\* A name is four words; the extension of a new element is a byte.
do_cmd(cmd, args) ==
  LET NameAt(first) == SubSeq(args, first, first + 3)
  IN  CASE cmd \in {ById.SHOWID, ById.DELID} -> Operation(cmd, <<args[1]>>)
        [] cmd \in {ById.READID, ById.WRITID} -> Operation(cmd, <<args[1], args[2], args[3]>>)
        [] cmd = ById.MOVEID -> Operation(cmd, <<args[1], args[2]>>)
        [] cmd \in {ByName.REQID, ByName.SHOWNM, ByName.DELNM} -> Operation(cmd, <<NameAt(1)>>)
        [] cmd = ByName.MKELEM -> Operation(cmd, <<NameAt(1), args[5] % 256, args[6]>>)
        [] cmd \in {ByName.READNM, ByName.WRITNM} -> Operation(cmd, <<NameAt(1), args[5], args[6]>>)
        [] cmd \in {ByName.MOVENM, ByName.RENAME} -> Operation(cmd, <<args[1], NameAt(2)>>)
        [] OTHER -> Operation("nothing", <<>>)
===============================================================================
