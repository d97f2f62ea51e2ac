----------------------------- MODULE GraphicsProofs -----------------------------
(***************************************************************************)
(* Theorems about Graphics for every size of the display, every width of a *)
(* coordinate that can count it, every content of main memory and every    *)
(* set of commands: a rectangle on the screen is filled as it says and     *)
(* nothing outside of display_buffer is written.                           *)
(***************************************************************************)
EXTENDS Graphics, TLAPS

PixelX == 0 .. SizeX - 1
PixelY == 0 .. SizeY - 1

\* The remainder is a value of the integer's width.
LEMMA Remainder ==
  ASSUME NEW m \in Nat \ {0}, NEW n \in Int
  PROVE  n % m \in 0 .. m - 1
OBVIOUS

LEMMA Sizes ==
  /\ ByteMod \in Nat \ {0}
  /\ SizeX \in Nat /\ SizeX < ByteMod
  /\ SizeY \in Nat /\ SizeY < ByteMod
  /\ WordMod \in Nat \ {0}
  /\ MaxRequests \in Nat /\ MaxMoves \in Nat
  BY GraphicsAssumption DEF Coord, WordMod

\* A pixel of the screen has a place in the buffer.
LEMMA CellInBuffer ==
  ASSUME NEW px \in PixelX, NEW py \in PixelY
  PROVE  Cell(px, py) \in Cells
<1>1. SizeX \in Nat /\ SizeY \in Nat /\ px \in Nat /\ py \in Nat
  BY Sizes DEF PixelX, PixelY
<1>2. px + 1 <= SizeX /\ py < SizeY
  BY <1>1 DEF PixelX, PixelY
<1>3. (px + 1) * SizeY <= SizeX * SizeY
  BY <1>1, <1>2
<1>4. (px + 1) * SizeY = px * SizeY + SizeY
  BY <1>1
<1>5. px * SizeY \in Nat /\ SizeX * SizeY \in Nat
  BY <1>1
<1> QED
  BY <1>1, <1>2, <1>3, <1>4, <1>5 DEF Cell, Cells

\* No two pixels of the screen have the same place, nor has any pixel of a
\* column further left a place behind it.
LEMMA CellsInOrder ==
  ASSUME NEW px \in PixelX, NEW py \in PixelY, NEW qx \in PixelX, NEW qy \in PixelY, px < qx
  PROVE  Cell(px, py) < Cell(qx, qy)
<1>1. SizeY \in Nat /\ px \in Nat /\ py \in Nat /\ qx \in Nat /\ qy \in Nat /\ py < SizeY
  BY Sizes DEF PixelX, PixelY
<1>2. (px + 1) * SizeY <= qx * SizeY
  BY <1>1
<1>3. (px + 1) * SizeY = px * SizeY + SizeY
  BY <1>1
<1>4. px * SizeY \in Nat /\ qx * SizeY \in Nat
  BY <1>1
<1> QED
  BY <1>1, <1>2, <1>3, <1>4 DEF Cell

LEMMA CellsDiffer ==
  ASSUME NEW px \in PixelX, NEW py \in PixelY, NEW qx \in PixelX, NEW qy \in PixelY,
         Cell(px, py) = Cell(qx, qy)
  PROVE  px = qx /\ py = qy
<1>1. SizeY \in Nat /\ px \in Nat /\ py \in Nat /\ qx \in Nat /\ qy \in Nat
  BY Sizes DEF PixelX, PixelY
<1>2. Cell(px, py) \in Int /\ Cell(qx, qy) \in Int
  <2>1. px * SizeY \in Nat /\ qx * SizeY \in Nat
    BY <1>1
  <2> QED
    BY <1>1, <2>1 DEF Cell
<1>3. px = qx
  BY <1>1, <1>2, CellsInOrder
<1>4. px * SizeY \in Nat
  BY <1>1
<1> QED
  BY <1>1, <1>3, <1>4 DEF Cell

LEMMA ClearIsRequest == Clear(0) \in Request
  BY GraphicsAssumption DEF Clear, FillRect, Request, Coord, Bit

LEMMA RequestType ==
  ASSUME KnownRequest
  PROVE  /\ req \in Request
         /\ req.x \in Nat /\ req.y \in Nat /\ req.w \in Nat /\ req.h \in Nat
         /\ req.kind \in {"fill", "copy"}
         /\ req.kind = "fill" => req.bit \in Bit
<1>1. req \in Request
  BY GraphicsAssumption, ClearIsRequest DEF KnownRequest
<1> QED
  BY <1>1 DEF Request, Coord

\* What is copied is a bit.
LEMMA SourceType ==
  ASSUME NEW r, r.x \in Int, r.y \in Int, r.h \in Int, NEW a \in Int, NEW px \in Int, NEW py \in Int
  PROVE  Source(r, a, px, py) \in Bit
<1>1. (px - r.x) * r.h \in Int
  OBVIOUS
<1>2. a + (px - r.x) * r.h + (py - r.y) \in Int
  BY <1>1
<1>3. (a + (px - r.x) * r.h + (py - r.y)) % WordMod \in Word
  BY <1>2, Remainder, Sizes DEF Word
<1> QED
  BY <1>3, GraphicsAssumption DEF Source

LEMMA ApplyType == ASSUME NEW op, NEW old, NEW new PROVE Apply(op, old, new) \in Bit
  BY DEF Apply, Bit

LEMMA InitIInv == Init => IInv
<1> SUFFICES ASSUME Init PROVE IInv
  OBVIOUS
<1>1. TypeOK
  <2>1. buffer \in [Cells -> Bit] /\ before \in [Cells -> Bit]
    BY DEF Init, Bit
  <2>2. fb_addr \in Word /\ x \in Coord /\ y \in Coord
    BY Sizes DEF Init, Word, Coord
  <2>3. moved \in BOOLEAN /\ outside \in BOOLEAN
    BY Zenon DEF Init
  <2>4. requests \in 0 .. MaxRequests /\ moves \in 0 .. MaxMoves
    BY Sizes DEF Init
  <2>5. phase \in {"idle", "column", "row"}
    BY DEF Init
  <2> QED
    BY <2>1, <2>2, <2>3, <2>4, <2>5, Zenon DEF TypeOK
<1>2. KnownRequest /\ LoopsInRectangle /\ StaysInBuffer
  BY DEF Init, KnownRequest, LoopsInRectangle, StaysInBuffer
<1>3. FilledSoFar
  <2>1. req.kind = "fill" /\ req.bit = 0
    BY DEF Init, Clear, FillRect
  <2>2. ASSUME NEW px \in PixelX, NEW py \in PixelY
        PROVE  buffer[Cell(px, py)] = 0 /\ Meant(px, py) = 0
    BY <2>1, CellInBuffer DEF Init, Meant, Cell
  <2> QED
    BY <2>2 DEF Init, FilledSoFar, Passed, PixelX, PixelY
<1> QED
  BY <1>1, <1>2, <1>3 DEF IInv

\* A command begins: nothing has been passed of its rectangle.
LEMMA BeginStep ==
  ASSUME IInv, NEW r \in Requests, Begin(r)
  PROVE  IInv'
<1> USE DEF IInv
<1>1. r \in Request
  BY GraphicsAssumption
<1>2. r.x \in Coord /\ r.y \in Nat /\ r.w \in Nat /\ r.h \in Nat /\ r.x \in Nat
  BY <1>1 DEF Request, Coord
<1>3. TypeOK'
  <2>1. moved' \in BOOLEAN /\ outside' \in BOOLEAN
    BY Zenon DEF Begin, TypeOK
  <2>2. requests' \in 0 .. MaxRequests
    BY Sizes DEF Begin, TypeOK
  <2>3. phase' \in {"idle", "column", "row"}
    BY DEF Begin
  <2>4. buffer' \in [Cells -> Bit] /\ before' \in [Cells -> Bit]
    BY DEF Begin, TypeOK
  <2>5. fb_addr' \in Word /\ x' \in Coord /\ y' \in Coord /\ moves' \in 0 .. MaxMoves
    BY <1>2 DEF Begin, TypeOK
  <2> QED
    BY <2>1, <2>2, <2>3, <2>4, <2>5, Zenon DEF TypeOK
<1>4. KnownRequest' /\ StaysInBuffer'
  BY DEF Begin, KnownRequest, StaysInBuffer
<1>5. LoopsInRectangle'
  BY <1>2 DEF Begin, LoopsInRectangle
<1>6. FilledSoFar'
  <2>1. ASSUME NEW px \in PixelX, NEW py \in PixelY, px < r.x
        PROVE  Meant(px, py)' = before'[Cell(px, py)]
    <3>1. ~Covers(r, px, py)
      BY <1>2, <2>1 DEF Covers, PixelX
    <3> QED
      BY <3>1 DEF Begin, Meant, Cell
  <2>2. ASSUME NEW px \in PixelX, NEW py \in PixelY
        PROVE  buffer'[Cell(px, py)] = IF Passed(px, py)' THEN Meant(px, py)' ELSE before'[Cell(px, py)]
    BY <2>1, <2>2 DEF Begin, Passed
  <2> QED
    BY <2>2 DEF FilledSoFar, PixelX, PixelY, Cell
<1> QED
  BY <1>3, <1>4, <1>5, <1>6

\* The meaning of a command depends on nothing the loops change.
LEMMA MeantStays ==
  ASSUME UNCHANGED <<req, before, fb_addr>>, NEW px, NEW py
  PROVE  Meant(px, py)' = Meant(px, py)
  BY DEF Meant, Source, Covers

\* A column begins, or the rectangle is done.
LEMMA ColumnStep ==
  ASSUME IInv, Column
  PROVE  IInv'
<1> USE DEF IInv
<1>1. /\ req.x \in Coord /\ req.y \in Coord /\ req.x \in Nat /\ req.y \in Nat
      /\ req.w \in Nat /\ req.h \in Nat /\ x \in Nat
  BY RequestType DEF Request, Coord, TypeOK
<1>2. TypeOK'
  BY <1>1 DEF Column, TypeOK
<1>3. KnownRequest' /\ StaysInBuffer'
  BY DEF Column, KnownRequest, StaysInBuffer
<1>4. LoopsInRectangle'
  BY <1>1 DEF Column, LoopsInRectangle, OnScreen
<1>5. FilledSoFar'
  <2> SUFFICES ASSUME OnScreen(req), req.kind = "fill" \/ ~moved,
                      NEW px \in PixelX, NEW py \in PixelY
               PROVE  buffer[Cell(px, py)] =
                        IF Passed(px, py)' THEN Meant(px, py)' ELSE before[Cell(px, py)]
    BY DEF Column, FilledSoFar, OnScreen, PixelX, PixelY, Cell
  <2>1. buffer[Cell(px, py)] = IF Passed(px, py) THEN Meant(px, py) ELSE before[Cell(px, py)]
    BY DEF FilledSoFar, PixelX, PixelY
  <2>2. Meant(px, py)' = Meant(px, py)
    BY MeantStays DEF Column
  <2>3. ~Covers(req, px, py) => Meant(px, py) = before[Cell(px, py)]
    BY DEF Meant, Cell
  <2>4. Covers(req, px, py) => (Passed(px, py)' <=> Passed(px, py))
    BY <1>1 DEF Column, Passed, Covers, PixelX, PixelY
  <2> QED
    BY <2>1, <2>2, <2>3, <2>4
<1> QED
  BY <1>2, <1>3, <1>4, <1>5

\* A column ends: all of its pixels have been passed.
LEMMA NextColumnStep ==
  ASSUME IInv, NextColumn
  PROVE  IInv'
<1> USE DEF IInv
<1>1. /\ req.x \in Nat /\ req.y \in Nat /\ req.w \in Nat /\ req.h \in Nat
      /\ x \in Nat /\ y \in Nat
  BY RequestType DEF TypeOK, Coord
<1>2. TypeOK'
  <2>1. (x + 1) % ByteMod \in Coord
    BY <1>1, Sizes, Remainder DEF Coord
  <2> QED
    BY <2>1 DEF NextColumn, TypeOK
<1>3. KnownRequest' /\ StaysInBuffer'
  BY DEF NextColumn, KnownRequest, StaysInBuffer
<1>4. OnScreen(req) => x + 1 <= req.x + req.w /\ x' = x + 1
  BY <1>1, Sizes DEF NextColumn, LoopsInRectangle, OnScreen
<1>5. LoopsInRectangle'
  BY <1>1, <1>4 DEF NextColumn, LoopsInRectangle, OnScreen
<1>6. FilledSoFar'
  <2> SUFFICES ASSUME OnScreen(req), req.kind = "fill" \/ ~moved,
                      NEW px \in PixelX, NEW py \in PixelY
               PROVE  buffer[Cell(px, py)] =
                        IF Passed(px, py)' THEN Meant(px, py)' ELSE before[Cell(px, py)]
    BY DEF NextColumn, FilledSoFar, OnScreen, PixelX, PixelY, Cell
  <2>1. buffer[Cell(px, py)] = IF Passed(px, py) THEN Meant(px, py) ELSE before[Cell(px, py)]
    BY DEF FilledSoFar, PixelX, PixelY
  <2>2. Meant(px, py)' = Meant(px, py)
    BY MeantStays DEF NextColumn
  <2>3. ~Covers(req, px, py) => Meant(px, py) = before[Cell(px, py)]
    BY DEF Meant, Cell
  <2>4. Covers(req, px, py) => (Passed(px, py)' <=> Passed(px, py))
    BY <1>1, <1>4 DEF NextColumn, Passed, Covers, PixelX, PixelY
  <2> QED
    BY <2>1, <2>2, <2>3, <2>4
<1> QED
  BY <1>2, <1>3, <1>5, <1>6

\* What Pixel stores, if it stores into the buffer, is a bit.
LEMMA PixelStores ==
  ASSUME IInv, Pixel
  PROVE  \E c \in Bit :
           /\ SetPixel(x, y, c)
           /\ req.kind = "fill" => c = req.bit
           /\ req.kind = "copy" /\ Cell(x, y) \in Cells =>
                c = Apply(req.op, buffer[Cell(x, y)], Source(req, fb_addr, x, y))
<1>1. KnownRequest
  BY DEF IInv
<1>2. CASE req.kind = "fill"
  BY <1>1, <1>2, RequestType DEF Pixel
<1>3. CASE req.kind = "copy"
  <2>1. PICK old \in Pixels(x, y) : SetPixel(x, y, Apply(req.op, old, Source(req, fb_addr, x, y)))
    BY <1>3 DEF Pixel
  <2>2. Cell(x, y) \in Cells => old = buffer[Cell(x, y)]
    BY <2>1 DEF Pixels
  <2> QED
    BY <1>3, <2>1, <2>2, ApplyType
<1> QED
  BY <1>1, <1>2, <1>3, RequestType

\* The loop of a rectangle on the screen is at a pixel of the screen, which the
\* rectangle covers and the loops have not passed.
LEMMA AtPixel ==
  ASSUME IInv, phase = "row", y < req.y + req.h, OnScreen(req)
  PROVE  x \in PixelX /\ y \in PixelY /\ Covers(req, x, y) /\ ~Passed(x, y) /\ y + 1 < ByteMod
<1>1. /\ req.x \in Nat /\ req.y \in Nat /\ req.w \in Nat /\ req.h \in Nat
      /\ x \in Nat /\ y \in Nat
  BY RequestType DEF IInv, TypeOK, Coord
<1>2. x \in req.x .. req.x + req.w /\ x < req.x + req.w /\ y \in req.y .. req.y + req.h
  BY DEF IInv, LoopsInRectangle
<1> QED
  BY <1>1, <1>2, Sizes DEF OnScreen, Covers, Passed, PixelX, PixelY

\* A pixel is stored: it is the only one that changes, and it is passed.
LEMMA PixelStep ==
  ASSUME IInv, Pixel
  PROVE  IInv'
<1> USE DEF IInv
<1>1. /\ req.x \in Nat /\ req.y \in Nat /\ req.w \in Nat /\ req.h \in Nat
      /\ x \in Nat /\ y \in Nat /\ req.kind \in {"fill", "copy"}
  BY RequestType DEF TypeOK, Coord
<1>2. PICK c \in Bit :
        /\ SetPixel(x, y, c)
        /\ req.kind = "fill" => c = req.bit
        /\ req.kind = "copy" /\ Cell(x, y) \in Cells =>
             c = Apply(req.op, buffer[Cell(x, y)], Source(req, fb_addr, x, y))
  BY PixelStores
<1>3. OnScreen(req) => /\ x \in PixelX /\ y \in PixelY
                       /\ Covers(req, x, y) /\ ~Passed(x, y)
                       /\ y' = y + 1
  <2>1. phase = "row" /\ y < req.y + req.h /\ y' = (y + 1) % ByteMod
    BY DEF Pixel
  <2> QED
    BY <1>1, <2>1, AtPixel, Sizes
<1>4. OnScreen(req) => buffer' = [buffer EXCEPT ![Cell(x, y)] = c] /\ UNCHANGED outside
  BY <1>2, <1>3, CellInBuffer DEF SetPixel
<1>5. TypeOK'
  <2>1. y' \in Coord
    BY <1>1, Sizes, Remainder DEF Pixel, Coord
  <2>2. buffer' \in [Cells -> Bit]
    BY <1>2 DEF SetPixel, TypeOK
  <2>3. outside' \in BOOLEAN
    BY <1>2, Zenon DEF SetPixel, TypeOK
  <2>4. moved' \in BOOLEAN
    BY Zenon DEF Pixel, TypeOK
  <2>5. /\ before' \in [Cells -> Bit] /\ fb_addr' \in Word /\ x' \in Coord
        /\ phase' \in {"idle", "column", "row"}
        /\ requests' \in 0 .. MaxRequests /\ moves' \in 0 .. MaxMoves
    BY DEF Pixel, TypeOK
  <2> QED
    BY <2>1, <2>2, <2>3, <2>4, <2>5, Zenon DEF TypeOK
<1>6. KnownRequest'
  BY DEF Pixel, KnownRequest
<1>7. LoopsInRectangle'
  BY <1>1, <1>3 DEF Pixel, LoopsInRectangle, OnScreen
<1>8. StaysInBuffer'
  <2> SUFFICES ASSUME \A r \in Requests : OnScreen(r)
               PROVE  ~outside'
    BY DEF StaysInBuffer, OnScreen
  <2>1. OnScreen(Clear(0))
    BY Sizes DEF OnScreen, Clear, FillRect
  <2>2. OnScreen(req)
    BY <2>1 DEF KnownRequest
  <2> QED
    BY <1>4, <2>2 DEF StaysInBuffer
<1>9. FilledSoFar'
  <2> SUFFICES ASSUME OnScreen(req), req.kind = "fill" \/ ~moved,
                      NEW px \in PixelX, NEW py \in PixelY
               PROVE  buffer'[Cell(px, py)] =
                        IF Passed(px, py)' THEN Meant(px, py)' ELSE before[Cell(px, py)]
    BY DEF Pixel, FilledSoFar, OnScreen, PixelX, PixelY, Cell
  <2>1. \A qx \in PixelX, qy \in PixelY :
          buffer[Cell(qx, qy)] = IF Passed(qx, qy) THEN Meant(qx, qy) ELSE before[Cell(qx, qy)]
    BY DEF FilledSoFar, PixelX, PixelY
  <2>2. Meant(px, py)' = Meant(px, py)
    BY MeantStays DEF Pixel
  <2>3. CASE px = x /\ py = y
    <3>1. buffer'[Cell(px, py)] = c
      BY <1>4, <2>3, CellInBuffer DEF TypeOK
    <3>2. buffer[Cell(x, y)] = before[Cell(x, y)]
      BY <1>3, <2>1
    <3>3. c = Meant(x, y)
      BY <1>1, <1>2, <1>3, <3>2, CellInBuffer DEF Meant, Cell, Source
    <3>4. Passed(px, py)'
      BY <1>1, <1>3, <2>3 DEF Pixel, Passed
    <3> QED
      BY <2>2, <2>3, <3>1, <3>3, <3>4
  <2>4. CASE ~(px = x /\ py = y)
    <3>1. Cell(px, py) # Cell(x, y)
      BY <1>3, <2>4, CellsDiffer
    <3>2. buffer'[Cell(px, py)] = buffer[Cell(px, py)]
      BY <1>4, <3>1, CellInBuffer DEF TypeOK
    <3>3. Passed(px, py)' <=> Passed(px, py)
      BY <1>1, <1>3, <2>4 DEF Pixel, Passed, PixelX, PixelY
    <3> QED
      BY <2>1, <2>2, <3>2, <3>3
  <2> QED
    BY <2>3, <2>4
<1> QED
  BY <1>5, <1>6, <1>7, <1>8, <1>9

\* The CPU moves the source: a copy that runs promises nothing from then on.
LEMMA MoveStep ==
  ASSUME IInv, NEW a \in Addresses, MoveFramebuffer(a)
  PROVE  IInv'
<1> USE DEF IInv
<1>1. TypeOK'
  <2>1. moved' \in BOOLEAN /\ outside' \in BOOLEAN
    BY Zenon DEF MoveFramebuffer, TypeOK
  <2>2. fb_addr' \in Word
    BY GraphicsAssumption DEF MoveFramebuffer
  <2>3. moves' \in 0 .. MaxMoves
    BY Sizes DEF MoveFramebuffer, TypeOK
  <2>4. /\ buffer' \in [Cells -> Bit] /\ before' \in [Cells -> Bit]
        /\ x' \in Coord /\ y' \in Coord
        /\ phase' \in {"idle", "column", "row"} /\ requests' \in 0 .. MaxRequests
    BY DEF MoveFramebuffer, TypeOK
  <2> QED
    BY <2>1, <2>2, <2>3, <2>4, Zenon DEF TypeOK
<1>2. KnownRequest' /\ LoopsInRectangle' /\ StaysInBuffer'
  BY DEF MoveFramebuffer, KnownRequest, LoopsInRectangle, StaysInBuffer
<1>3. FilledSoFar'
  <2> SUFFICES ASSUME OnScreen(req), req.kind = "fill",
                      NEW px \in PixelX, NEW py \in PixelY
               PROVE  buffer[Cell(px, py)] =
                        IF Passed(px, py)' THEN Meant(px, py)' ELSE before[Cell(px, py)]
    BY DEF MoveFramebuffer, FilledSoFar, OnScreen, PixelX, PixelY, Cell
  <2>1. Meant(px, py)' = Meant(px, py)
    BY DEF MoveFramebuffer, Meant, Covers
  <2> QED
    BY <2>1 DEF MoveFramebuffer, FilledSoFar, Passed, PixelX, PixelY
<1> QED
  BY <1>1, <1>2, <1>3

LEMMA NextIInv == IInv /\ [Next]_vars => IInv'
<1> SUFFICES ASSUME IInv, [Next]_vars
             PROVE  IInv'
  OBVIOUS
<1>1. CASE UNCHANGED vars
  BY <1>1 DEF vars, IInv, TypeOK, KnownRequest, LoopsInRectangle, StaysInBuffer, FilledSoFar,
              Passed, Meant, Covers, Source, OnScreen
<1> QED
  BY <1>1, BeginStep, ColumnStep, PixelStep, NextColumnStep, MoveStep DEF Next, Loop

-------------------------------------------------------------------------------
\* The invariant holds in every reachable state.
THEOREM Invariance == Spec => []IInv
  BY InitIInv, NextIInv, PTL DEF Spec

\* Every variable keeps its type; the loop variables stay bytes, whatever
\* rectangle is asked for.
THEOREM TypeCorrect == Spec => []TypeOK
<1>1. IInv => TypeOK
  BY DEF IInv
<1> QED
  BY <1>1, Invariance, PTL

\* On a display of any size, a program that stays on the screen never makes
\* display::set_pixel store outside of display_buffer.
THEOREM RectanglesStayInBuffer == Spec => []StaysInBuffer
<1>1. IInv => StaysInBuffer
  BY DEF IInv
<1> QED
  BY <1>1, Invariance, PTL

\* On a display of any size, fill_rect and fill_framebuffer_from_memory change
\* the pixels of their rectangle as they are meant to, and no other.
THEOREM RectanglesFilled == Spec => []FillsRectangle
<1>1. IInv => FillsRectangle
  BY DEF IInv, FilledSoFar, FillsRectangle, Passed, Cell
<1> QED
  BY <1>1, Invariance, PTL
===============================================================================
