------------------------------- MODULE MCGraphics -------------------------------
(***************************************************************************)
(* A display of 3 by 2 pixels and bytes of eight values: all rectangles on *)
(* the screen, all fill operations for one of them, and for one run all    *)
(* rectangles at all.                                                      *)
(***************************************************************************)
EXTENDS Graphics

Rects(RX, RY, W, H) == RX \X RY \X W \X H
ScreenRects == {r \in Rects(0 .. SizeX, 0 .. SizeY, 0 .. SizeX, 0 .. SizeY) :
                  r[1] + r[3] <= SizeX /\ r[2] + r[4] <= SizeY}
AllRects == Rects(Coord, {0, 1}, Coord, {1, SizeY})

MCRamBit(a) == IF a % 3 = 0 \/ a % 5 = 3 THEN 1 ELSE 0
MCAddresses == {1, 5}

ScreenRequests ==
  {FillRect(r[1], r[2], r[3], r[4], 1) : r \in ScreenRects} \cup
  {FillFb(r[1], r[2], r[3], r[4], "assign") : r \in ScreenRects} \cup
  {FillFb(1, 0, 2, 2, o) : o \in FillOperations} \cup {Clear(0)}
AllRequests == {FillRect(r[1], r[2], r[3], r[4], 1) : r \in AllRects}
===============================================================================
