---------------------------------- MODULE Crtc ----------------------------------
(***************************************************************************)
(* The CRT controller of Symon (Crtc.java): a file of registers that the   *)
(* guest selects and writes one byte at a time, on the thread of the CPU.  *)
(* A write assigns the field, checks the registers, and either throws,     *)
(* having restored one field, or calls its listener.  The thread that      *)
(* paints reads the fields in between.                                     *)
(*                                                                         *)
(* Registers that only say how a character looks (mode control, first and  *)
(* last line of the cursor, whether it is enabled) are one register        *)
(* "other", whose writes are checked like all.                             *)
(***************************************************************************)
EXTENDS Integers

CONSTANTS
  Base,           (* values of a byte of an address (256)                  *)
  endAddress,     (* last address of the video memory                      *)
  Sizes,          (* bytes the guest writes to the size registers,         *)
  ScanLines,      (*   to the scan line register,                          *)
  CursorModes,    (*   and to bits 5 and 6 of the cursor start register    *)
  Columns, Rows, Lines, PageStart    (* the defaults (40, 25, 9, $7000)    *)

ASSUME CrtcAssumption ==
  /\ Base \in Nat \ {0} /\ endAddress \in 0 .. Base * Base - 1
  /\ Sizes \subseteq Nat /\ ScanLines \subseteq Nat
  /\ CursorModes \subseteq 0 .. 3
  /\ Columns \in Sizes \ {0} /\ Rows \in Sizes \ {0} /\ Lines \in ScanLines \ {0}
  /\ PageStart \in 0 .. endAddress /\ PageStart + Columns * Rows <= endAddress

VARIABLES
  crtc,             (* the fields                                          *)
  cpu,              (* where the CPU's thread is in a write, or "run"      *)
  old,              (* its oldStartAddress and oldCursorPosition, 0 after  *)
  reshaping         (* history: the size of the page was written, or a     *)
                    (* start that does not fit, and nothing has been       *)
                    (* accepted since that makes a picture                 *)

crtcVars == <<crtc, cpu, old, reshaping>>

Bytes == 0 .. Base - 1
Addresses == 0 .. Base * Base - 1

SizeRegisters == {"HORIZONTAL_DISPLAYED", "VERTICAL_DISPLAYED"}
ShapeRegisters == SizeRegisters \cup {"SCAN_LINE"}
AddressRegisters == {"DISPLAY_START_HIGH", "DISPLAY_START_LOW",
                     "CURSOR_POSITION_HIGH", "CURSOR_POSITION_LOW"}
Registers == ShapeRegisters \cup AddressRegisters \cup {"CURSOR_START", "other"}

Data(r) == CASE r \in SizeRegisters    -> Sizes
             [] r = "SCAN_LINE"        -> ScanLines
             [] r = "CURSOR_START"     -> CursorModes
             [] r \in AddressRegisters -> Bytes
             [] r = "other"            -> {0}

NoOld == [start |-> 0, cursor |-> 0]

CrtcInit ==
  /\ crtc = [horizontalDisplayed |-> Columns, verticalDisplayed |-> Rows,
             pageSize |-> Columns * Rows, scanLinesPerRow |-> Lines,
             cursorBlinkRate |-> 1,
             startAddress |-> PageStart, cursorPosition |-> PageStart]
  /\ cpu = "run"
  /\ old = NoOld
  /\ reshaping = FALSE

-----------------------------------------------------------------------------
withHigh(n, b) == b * Base + (n % Base)

withLow(n, b) == (n \div Base) * Base + b

(* A blink rate of 0, 500 or 1000 ms is 0, 1 or 2.                         *)
blinkRate(mode) == IF mode < 2 THEN 0 ELSE mode - 1

setSize(h, v) == [crtc EXCEPT !.horizontalDisplayed = h, !.verticalDisplayed = v,
                              !.pageSize = h * v]

assigned(r, data) ==
  CASE r = "HORIZONTAL_DISPLAYED" -> setSize(data, crtc.verticalDisplayed)
    [] r = "VERTICAL_DISPLAYED"   -> setSize(crtc.horizontalDisplayed, data)
    [] r = "SCAN_LINE"            -> [crtc EXCEPT !.scanLinesPerRow = data]
    [] r = "CURSOR_START"         -> [crtc EXCEPT !.cursorBlinkRate = blinkRate(data)]
    [] r = "DISPLAY_START_HIGH"   -> [crtc EXCEPT !.startAddress = withHigh(@, data)]
    [] r = "DISPLAY_START_LOW"    -> [crtc EXCEPT !.startAddress = withLow(@, data)]
    [] r = "CURSOR_POSITION_HIGH" -> [crtc EXCEPT !.cursorPosition = withHigh(@, data)]
    [] r = "CURSOR_POSITION_LOW"  -> [crtc EXCEPT !.cursorPosition = withLow(@, data)]
    [] r = "other"                -> crtc

(* Mutant: the page may begin anywhere in memory.                          *)
pageFitsStart(c) == c.startAddress <= endAddress
pageFits(c) == c.startAddress + c.pageSize <= endAddress

cursorFits(c) == c.cursorPosition <= endAddress

Legal(c) == pageFits(c) /\ cursorFits(c)

(* Legal registers that make a picture.                                    *)
Drawable(c) == /\ Legal(c)
               /\ c.horizontalDisplayed > 0 /\ c.verticalDisplayed > 0
               /\ c.scanLinesPerRow > 0

(* The guest has selected r before, which only this write depends on.      *)
writeRegisterValue(r, data) ==
  LET c == assigned(r, data)
  IN  /\ cpu = "run"
      /\ crtc' = c
      /\ old' = [start |-> crtc.startAddress, cursor |-> crtc.cursorPosition]
      /\ cpu' = "check"
      /\ reshaping' = (\/ reshaping
                       \/ r \in ShapeRegisters
                       \/ ~pageFits(c))

(* The write ends, with an exception or not.                               *)
Return(c) == /\ cpu' = "run"
             /\ old' = NoOld
             /\ reshaping' = (reshaping /\ ~Drawable(c))

(* "Cannot draw screen starting at selected address."                      *)
RefusePage ==
  LET c == [crtc EXCEPT !.startAddress = old.start]
  IN  /\ cpu = "check" /\ ~pageFits(crtc)
      /\ crtc' = c
      /\ Return(c)

(* Mutant: the cursor is not restored.                                     *)
RefuseCursorKeeping ==
  /\ cpu = "check" /\ pageFits(crtc) /\ ~cursorFits(crtc)
  /\ Return(crtc)
  /\ UNCHANGED crtc

(* "Cannot position cursor past end of memory."                            *)
RefuseCursor ==
  LET c == [crtc EXCEPT !.cursorPosition = old.cursor]
  IN  /\ cpu = "check" /\ pageFits(crtc) /\ ~cursorFits(crtc)
      /\ crtc' = c
      /\ Return(c)

notifyListeners ==
  /\ cpu = "check" /\ Legal(crtc)
  /\ cpu' = "geometry"
  /\ old' = NoOld
  /\ UNCHANGED <<crtc, reshaping>>

CrtcStep == \/ \E r \in Registers : \E data \in Data(r) : writeRegisterValue(r, data)
            \/ RefusePage \/ RefuseCursor \/ notifyListeners

-----------------------------------------------------------------------------
(* A write that is refused restores the start address or the cursor only,  *)
(* yet the page and the cursor leave the memory only by writes of the size *)
(* of the page: without one, they are inside it after every write.         *)
PageStaysInMemory == cpu = "run" /\ ~reshaping => Legal(crtc)

(* The bytes of an address are written one at a time, and page and cursor  *)
(* are both checked after each.  Whatever was written and refused before,  *)
(* one of the two orders passes all four checks on the way from where the  *)
(* page starts to any start that fits, and likewise for the cursor: the    *)
(* guest can always scroll and move the cursor.  (Not after the size of    *)
(* the page was written and refused: then page or cursor may lie outside   *)
(* the memory, and one bad check refuses the writes of both.)              *)
InTwoWrites(moved(_), n, t) ==
  LET high == withHigh(n, t \div Base)
      low  == withLow(n, t % Base)
  IN  \/ Legal(moved(high)) /\ Legal(moved(withLow(high, t % Base)))
         /\ withLow(high, t % Base) = t
      \/ Legal(moved(low)) /\ Legal(moved(withHigh(low, t \div Base)))
         /\ withHigh(low, t \div Base) = t

CanScroll ==
  LET startAt(n)  == [crtc EXCEPT !.startAddress = n]
      cursorAt(n) == [crtc EXCEPT !.cursorPosition = n]
  IN  cpu = "run" /\ ~reshaping =>
        \A t \in Addresses :
          /\ pageFits(startAt(t)) => InTwoWrites(startAt, crtc.startAddress, t)
          /\ cursorFits(cursorAt(t)) => InTwoWrites(cursorAt, crtc.cursorPosition, t)
=============================================================================
