-------------------------------- MODULE Graphics --------------------------------
(***************************************************************************)
(* The commands of the graphics card (emulator/Gfx.cpp) on the buffer of   *)
(* the display (emulator/Display.cpp). The worker of the card runs one     *)
(* command at a time (module ConventionalDevice says how it gets there);   *)
(* the CPU thread may meanwhile write the register GFX_FBADDR. Loop        *)
(* variables are bytes: they wrap at ByteMod. A pixel is one of its eight  *)
(* bits, the fill operations being bitwise.                                *)
(***************************************************************************)
EXTENDS Integers

CONSTANTS
  ByteMod,        \* number of values of a coordinate (256: it is a u8)
  SizeX, SizeY,   \* size of the display (128 and 64)
  RamBit(_),      \* the bit of main memory at an address
  Addresses,      \* values the program gives GFX_FBADDR
  Requests,       \* commands the program may send
  MaxRequests,    \* bound: commands
  MaxMoves        \* bound: writes of GFX_FBADDR

Bit == {0, 1}
WordMod == 65536
Word == 0 .. WordMod - 1
Coord == 0 .. ByteMod - 1
Cells == 0 .. SizeX * SizeY - 1

\* The fill operations, and any other number in their place.
FillOperations == {"assign", "and", "or", "xor", "xnor", "unknown"}
Request ==
  [kind : {"fill"}, x : Coord, y : Coord, w : Coord, h : Coord, bit : Bit] \cup
  [kind : {"copy"}, x : Coord, y : Coord, w : Coord, h : Coord, op : FillOperations]

ASSUME GraphicsAssumption ==
  /\ ByteMod \in Nat \ {0}
  /\ SizeX \in Coord /\ SizeY \in Coord
  /\ \A a \in Word : RamBit(a) \in Bit
  /\ Addresses \subseteq Word
  /\ Requests \subseteq Request
  /\ MaxRequests \in Nat
  /\ MaxMoves \in Nat

VARIABLES
  buffer,    \* [Cells -> Bit]: display_buffer
  fb_addr,   \* the register GFX_FBADDR
  req,       \* the command that is run, or was run last
  phase,     \* "idle", "column" (outer loop test), "row" (inner loop test)
  x, y,      \* loop variables
  before,    \* the buffer when the command began
  moved,     \* was GFX_FBADDR written since the command began?
  outside,   \* was a pixel stored outside of display_buffer?
  requests,  \* commands run
  moves      \* writes of GFX_FBADDR

vars == <<buffer, fb_addr, req, phase, x, y, before, moved, outside, requests, moves>>

\* fill_rect and fill_framebuffer_from_memory; clear_framebuffer and set_pixel
\* in terms of them.
FillRect(rx, ry, w, h, c) == [kind |-> "fill", x |-> rx, y |-> ry, w |-> w, h |-> h, bit |-> c]
FillFb(rx, ry, w, h, o) == [kind |-> "copy", x |-> rx, y |-> ry, w |-> w, h |-> h, op |-> o]
Clear(c) == FillRect(0, 0, SizeX, SizeY, c)

Init ==
  /\ buffer = [i \in Cells |-> 0]
  /\ fb_addr = 0
  /\ req = Clear(0)
  /\ phase = "idle"
  /\ x = 0 /\ y = 0
  /\ before = buffer
  /\ moved = FALSE
  /\ outside = FALSE
  /\ requests = 0
  /\ moves = 0

-------------------------------------------------------------------------------
\* Place of a pixel in display_buffer.
Cell(px, py) == px * SizeY + py

\* display::set_pixel, which checks no bound.
SetPixel(px, py, c) ==
  IF Cell(px, py) \in Cells
    THEN buffer' = [buffer EXCEPT ![Cell(px, py)] = c] /\ UNCHANGED outside
    ELSE outside' = TRUE /\ UNCHANGED buffer

\* display::pixel; what lies outside of the buffer may be anything.
Pixels(px, py) == IF Cell(px, py) \in Cells THEN {buffer[Cell(px, py)]} ELSE Bit

\* One bit of the fill operations.
Apply(op, old, new) ==
  IF \/ op = "assign" /\ new = 1
     \/ op = "and" /\ old = 1 /\ new = 1
     \/ op = "or" /\ (old = 1 \/ new = 1)
     \/ op = "xor" /\ old # new
     \/ op = "xnor" /\ old = new
     \/ op = "unknown" /\ old = 1
    THEN 1 ELSE 0

\* Mutant: the rectangle is read with its width as the stride.
Source_by_width(r, addr, px, py) ==
  RamBit((addr + (px - r.x) * r.w + (py - r.y)) % WordMod)

\* The address a pixel is copied from, column by column.
Source(r, addr, px, py) ==
  RamBit((addr + (px - r.x) * r.h + (py - r.y)) % WordMod)

\* do_cmd enters a loop.
Begin(r) ==
  /\ phase = "idle"
  /\ requests < MaxRequests
  /\ requests' = requests + 1
  /\ req' = r
  /\ x' = r.x
  /\ phase' = "column"
  /\ before' = buffer
  /\ moved' = FALSE
  /\ UNCHANGED <<buffer, fb_addr, y, outside, moves>>

\* Mutant: x <= xs + xe.
Column_one_more ==
  /\ phase = "column"
  /\ IF x <= req.x + req.w THEN phase' = "row" /\ y' = req.y
                           ELSE phase' = "idle" /\ UNCHANGED y
  /\ UNCHANGED <<buffer, fb_addr, req, x, before, moved, outside, requests, moves>>

\* x < xs + xe, an int; at the end of the loop the command is done.
Column ==
  /\ phase = "column"
  /\ IF x < req.x + req.w THEN phase' = "row" /\ y' = req.y
                          ELSE phase' = "idle" /\ UNCHANGED y
  /\ UNCHANGED <<buffer, fb_addr, req, x, before, moved, outside, requests, moves>>

\* y < ys + ye: a pixel, y++.
Pixel ==
  /\ phase = "row"
  /\ y < req.y + req.h
  /\ IF req.kind = "fill"
       THEN SetPixel(x, y, req.bit)
       ELSE \E old \in Pixels(x, y) :
              SetPixel(x, y, Apply(req.op, old, Source(req, fb_addr, x, y)))
  /\ y' = (y + 1) % ByteMod
  /\ UNCHANGED <<fb_addr, req, phase, x, before, moved, requests, moves>>

\* Mutant: x is not incremented.
NextColumn_stays ==
  /\ phase = "row"
  /\ y >= req.y + req.h
  /\ phase' = "column"
  /\ UNCHANGED <<buffer, fb_addr, req, x, y, before, moved, outside, requests, moves>>

\* End of a column: x++.
NextColumn ==
  /\ phase = "row"
  /\ y >= req.y + req.h
  /\ x' = (x + 1) % ByteMod
  /\ phase' = "column"
  /\ UNCHANGED <<buffer, fb_addr, req, y, before, moved, outside, requests, moves>>

\* The CPU thread writes GFX_FBADDR, whatever the worker does.
MoveFramebuffer(a) ==
  /\ moves < MaxMoves
  /\ moves' = moves + 1
  /\ fb_addr' = a
  /\ moved' = TRUE
  /\ UNCHANGED <<buffer, req, phase, x, y, before, outside, requests>>

Loop == Column \/ Pixel \/ NextColumn

Next == (\E r \in Requests : Begin(r)) \/ Loop \/ (\E a \in Addresses : MoveFramebuffer(a))

Spec == Init /\ [][Next]_vars
\* The worker thread goes on with its loop.
FairSpec == Spec /\ WF_vars(Loop)

-------------------------------------------------------------------------------
OnScreen(r) == r.x + r.w <= SizeX /\ r.y + r.h <= SizeY
Covers(r, px, py) == px \in r.x .. r.x + r.w - 1 /\ py \in r.y .. r.y + r.h - 1

\* Every variable stays in its range.
TypeOK ==
  /\ buffer \in [Cells -> Bit]
  /\ before \in [Cells -> Bit]
  /\ fb_addr \in Word
  /\ phase \in {"idle", "column", "row"}
  /\ x \in Coord /\ y \in Coord
  /\ moved \in BOOLEAN /\ outside \in BOOLEAN
  /\ requests \in 0 .. MaxRequests
  /\ moves \in 0 .. MaxMoves

\* What the pixel of a finished command is meant to be.
Meant(px, py) ==
  LET old == before[px * SizeY + py] IN
  IF ~Covers(req, px, py) THEN old
  ELSE IF req.kind = "fill" THEN req.bit
  ELSE Apply(req.op, old, RamBit((fb_addr + (px - req.x) * req.h + (py - req.y)) % WordMod))

\* A command whose rectangle is on the screen changes the pixels of the
\* rectangle as it says and no other; a copy, if its source was not moved.
FillsRectangle ==
  phase = "idle" /\ OnScreen(req) /\ (req.kind = "fill" \/ ~moved) =>
    \A px \in 0 .. SizeX - 1 : \A py \in 0 .. SizeY - 1 :
      buffer[px * SizeY + py] = Meant(px, py)

\* A rectangle on the screen stores nothing outside of the buffer.
StaysInBuffer == (\A r \in Requests : OnScreen(r)) => ~outside

\* The command is one that was sent, or stands for none yet.
KnownRequest == req \in Requests \cup {Clear(0)}

\* The loops of a rectangle on the screen stay within it, so the loop
\* variables never wrap.
LoopsInRectangle ==
  OnScreen(req) =>
    /\ phase # "idle" => x \in req.x .. req.x + req.w
    /\ phase = "row" => x < req.x + req.w /\ y \in req.y .. req.y + req.h

\* The pixels the loops have passed are what they are meant to be, the others
\* what they were.
Passed(px, py) == phase = "idle" \/ px < x \/ (phase = "row" /\ px = x /\ py < y)
FilledSoFar ==
  OnScreen(req) /\ (req.kind = "fill" \/ ~moved) =>
    \A px \in 0 .. SizeX - 1 : \A py \in 0 .. SizeY - 1 :
      buffer[Cell(px, py)] = IF Passed(px, py) THEN Meant(px, py) ELSE before[Cell(px, py)]

\* The invariant that is inductive: a finished rectangle is right because each
\* pixel was when the loops passed it, and was not touched since.
IInv == /\ TypeOK
        /\ KnownRequest
        /\ LoopsInRectangle
        /\ StaysInBuffer
        /\ FilledSoFar

\* A command whose rectangle is on the screen ends, and the worker releases
\* the queue of its device.
CommandReturns == phase # "idle" /\ OnScreen(req) ~> phase = "idle"

-------------------------------------------------------------------------------
(* What the manual says of the commands and the code does not do.            *)

\* "Fill Rect 'x,y:w,h' with 'color'": the command ends for all bytes x, y, w, h.
EveryCommandReturns == phase # "idle" ~> phase = "idle"
===============================================================================
