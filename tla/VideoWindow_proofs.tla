---------------------------- MODULE VideoWindow_proofs ----------------------------
(***************************************************************************)
(* What the registers of the CRT controller and the window that copies     *)
(* them have to do with each other, for every memory, every set of values  *)
(* the guest writes, and every interleaving with the painter.              *)
(*                                                                         *)
(* A refused write leaves its value in a size register.  The argument is   *)
(* the part Refusable of the invariant: if the check refuses a write, what *)
(* it restores is either the state before the write, which the window      *)
(* shows, or still illegal.                                                *)
(***************************************************************************)
EXTENDS VideoWindow, TLAPS

Fields == [horizontalDisplayed : Nat, verticalDisplayed : Nat, pageSize : Nat,
           scanLinesPerRow : Nat, cursorBlinkRate : Nat,
           startAddress : Addresses, cursorPosition : Addresses]

WindowFields == [horizontalDisplayed : Nat, verticalDisplayed : Nat,
                 scanLinesPerRow : Nat, cursorBlinkRate : Nat,
                 hideCursor : BOOLEAN, blinker : Nat, width : Nat, height : Nat]

TypeOK ==
  /\ crtc \in Fields
  /\ cpu \in {"run", "check", "geometry", "blink", "image"}
  /\ old \in [start : Addresses, cursor : Addresses]
  /\ reshaping \in BOOLEAN
  /\ window \in WindowFields
  /\ repackNeeded \in BOOLEAN

-----------------------------------------------------------------------------
(* The page in the memory.                                                 *)

PageInv ==
  /\ cpu = "run" /\ ~reshaping => Legal(crtc)
  /\ cpu = "check" /\ ~reshaping => pageFits(crtc) /\ old.cursor <= endAddress
  /\ cpu \in {"geometry", "blink", "image"} => Legal(crtc)

(* The window and the registers.                                           *)
GeometryCopied(w, c) ==
  /\ w.horizontalDisplayed = c.horizontalDisplayed
  /\ w.verticalDisplayed = c.verticalDisplayed
  /\ w.scanLinesPerRow = c.scanLinesPerRow

Shows(w, c) ==
  /\ GeometryCopied(w, c)
  /\ w.width = c.horizontalDisplayed
  /\ w.height = c.scanLinesPerRow * c.verticalDisplayed
  /\ w.cursorBlinkRate = c.cursorBlinkRate
  /\ w.blinker = c.cursorBlinkRate

Follows(w, c) == Drawable(c) => Shows(w, c)

withStart(c, n) == [c EXCEPT !.startAddress = n]
withCursor(c, n) == [c EXCEPT !.cursorPosition = n]

Refusable ==
  \/ crtc.startAddress = old.start /\ crtc.cursorPosition = old.cursor
  \/ crtc.cursorPosition = old.cursor /\ Follows(window, withStart(crtc, old.start))
  \/ crtc.startAddress = old.start /\ Follows(window, withCursor(crtc, old.cursor))

ImageBuilt ==
  window.horizontalDisplayed > 0 /\ window.verticalDisplayed > 0
    /\ window.scanLinesPerRow > 0
  => /\ window.width = window.horizontalDisplayed
     /\ window.height = window.scanLinesPerRow * window.verticalDisplayed

WindowInv ==
  /\ cpu = "run" => Follows(window, crtc)
  /\ cpu = "check" => Refusable
  /\ cpu \in {"blink", "image"} => GeometryCopied(window, crtc)
  /\ cpu = "image" => window.cursorBlinkRate = crtc.cursorBlinkRate
  /\ window.blinker = window.cursorBlinkRate
  /\ ~repackNeeded => ImageBuilt
  /\ repackNeeded => cpu \in {"blink", "image"}

IInv == TypeOK /\ PageInv /\ WindowInv

-----------------------------------------------------------------------------
(* A number is made of its high and its low byte, and stays in range.      *)
LEMMA BaseType == /\ Base \in Nat /\ Base > 0 /\ endAddress \in Nat
                  /\ endAddress < Base * Base
  BY CrtcAssumption

LEMMA PairInRange ==
  ASSUME NEW h \in Bytes, NEW l \in Bytes
  PROVE  h * Base + l \in Addresses
<1>1. h \in Nat /\ l \in Nat /\ h <= Base - 1 /\ l <= Base - 1
  BY BaseType DEF Bytes
<1>2. h * Base <= (Base - 1) * Base
  BY <1>1, BaseType
<1>3. (Base - 1) * Base = Base * Base - Base
  BY BaseType
<1>4. h * Base \in Nat
  BY <1>1, BaseType
<1> QED
  BY <1>1, <1>2, <1>3, <1>4, BaseType DEF Addresses

(* The parts of an address.                                                *)
LEMMA Parts ==
  ASSUME NEW n \in Addresses
  PROVE  /\ n \div Base \in Bytes /\ n % Base \in Bytes
         /\ n = (n \div Base) * Base + (n % Base)
<1>1. n \in Nat /\ n < Base * Base
  BY BaseType DEF Addresses
<1>2. /\ n \div Base \in Int /\ n % Base \in 0 .. Base - 1
      /\ n = Base * (n \div Base) + (n % Base)
  BY <1>1, BaseType
<1> DEFINE q == n \div Base
           r == n % Base
<1>3. q \in Int /\ r \in Nat /\ r < Base /\ n = Base * q + r
  BY <1>2, BaseType
<1> HIDE DEF q, r
<1>4. q >= 0
  <2>1. CASE q <= -1
    <3>1. Base * q <= Base * (-1)
      BY <2>1, <1>3, BaseType
    <3> QED
      BY <3>1, <1>1, <1>3, BaseType
  <2> QED
    BY <2>1, <1>3
<1>5. q <= Base - 1
  <2>1. CASE q >= Base
    <3>1. Base * q >= Base * Base
      BY <2>1, <1>3, BaseType
    <3> QED
      BY <3>1, <1>1, <1>3, BaseType
  <2> QED
    BY <2>1, <1>3, BaseType
<1>6. Base * q = q * Base
  BY <1>3, BaseType
<1>7. q \in Bytes /\ r \in Bytes /\ n = q * Base + r
  BY <1>3, <1>4, <1>5, <1>6, BaseType DEF Bytes
<1> QED
  BY <1>7 DEF q, r

LEMMA ByteWrites ==
  ASSUME NEW n \in Addresses, NEW b \in Bytes
  PROVE  withHigh(n, b) \in Addresses /\ withLow(n, b) \in Addresses
  BY Parts, PairInRange DEF withHigh, withLow

LEMMA Products ==
  /\ \A a, b \in Nat : a * b \in Nat
  /\ \A a, b \in Nat : a > 0 /\ b > 0 => a * b > 0
  OBVIOUS

-----------------------------------------------------------------------------
LEMMA InitIInv == Init => IInv
<1> SUFFICES ASSUME Init PROVE IInv
  OBVIOUS
<1>1. /\ Columns \in Nat /\ Rows \in Nat /\ Lines \in Nat
      /\ PageStart \in Addresses /\ 0 \in Addresses
      /\ PageStart + Columns * Rows <= endAddress /\ PageStart <= endAddress
  BY CrtcAssumption, BaseType DEF Addresses
<1>2. Columns * Rows \in Nat /\ Lines * Rows \in Nat
  BY <1>1, Products
<1>3. TypeOK
  BY <1>1, <1>2 DEF Init, CrtcInit, TypeOK, Fields, WindowFields, NoOld
<1>4. PageInv
  BY <1>1, <1>2 DEF Init, CrtcInit, PageInv, Legal, pageFits, cursorFits
<1>5. WindowInv
  BY <1>1, <1>2 DEF Init, CrtcInit, WindowInv, Follows, Shows, GeometryCopied, ImageBuilt
<1> QED
  BY <1>3, <1>4, <1>5 DEF IInv

(* What the guest writes into each register.                               *)
LEMMA DataType ==
  /\ Data("HORIZONTAL_DISPLAYED") = Sizes /\ Data("VERTICAL_DISPLAYED") = Sizes
  /\ Data("SCAN_LINE") = ScanLines
  /\ Data("CURSOR_START") = CursorModes
  /\ \A r \in AddressRegisters : Data(r) = Bytes
  BY DEF Data, SizeRegisters, AddressRegisters

(* What a write assigns: the fields keep their types, and one write leaves *)
(* the start of the page, or the cursor, or both as they were.             *)
LEMMA AssignedType ==
  ASSUME TypeOK, NEW r \in Registers, NEW data \in Data(r)
  PROVE  assigned(r, data) \in Fields
<1> USE DEF TypeOK, Fields
<1>1. CASE r = "HORIZONTAL_DISPLAYED"
  <2>1. data \in Nat
    BY <1>1, DataType, CrtcAssumption
  <2>2. data * crtc.verticalDisplayed \in Nat
    BY <2>1, Products
  <2> QED
    BY <1>1, <2>1, <2>2 DEF assigned, setSize
<1>2. CASE r = "VERTICAL_DISPLAYED"
  <2>1. data \in Nat
    BY <1>2, DataType, CrtcAssumption
  <2>2. crtc.horizontalDisplayed * data \in Nat
    BY <2>1, Products
  <2> QED
    BY <1>2, <2>1, <2>2 DEF assigned, setSize
<1>3. CASE r = "SCAN_LINE"
  <2>1. data \in Nat
    BY <1>3, DataType, CrtcAssumption
  <2> QED
    BY <1>3, <2>1 DEF assigned
<1>4. CASE r = "CURSOR_START"
  <2>1. data \in Int
    <3>1. data \in CursorModes
      BY <1>4, DataType
    <3>2. CursorModes \subseteq 0 .. 3
      BY CrtcAssumption
    <3> QED
      BY <3>1, <3>2
  <2>2. blinkRate(data) \in Nat
    BY <2>1 DEF blinkRate
  <2> QED
    BY <1>4, <2>2 DEF assigned
<1>5. CASE r \in AddressRegisters
  <2>1. data \in Bytes
    BY <1>5, DataType
  <2>2. /\ withHigh(crtc.startAddress, data) \in Addresses
        /\ withLow(crtc.startAddress, data) \in Addresses
        /\ withHigh(crtc.cursorPosition, data) \in Addresses
        /\ withLow(crtc.cursorPosition, data) \in Addresses
    BY <2>1, ByteWrites
  <2> QED
    BY <1>5, <2>2 DEF assigned, AddressRegisters
<1>6. CASE r = "other"
  BY <1>6 DEF assigned
<1> QED
  BY <1>1, <1>2, <1>3, <1>4, <1>5, <1>6
  DEF Registers, ShapeRegisters, SizeRegisters

LEMMA AssignedOnce ==
  ASSUME TypeOK, NEW r \in Registers, NEW data \in Data(r)
  PROVE  LET c == assigned(r, data)
         IN  \/ c.startAddress = crtc.startAddress /\ c.cursorPosition = crtc.cursorPosition
             \/ c.cursorPosition = crtc.cursorPosition
                  /\ withStart(c, crtc.startAddress) = crtc
             \/ c.startAddress = crtc.startAddress
                  /\ withCursor(c, crtc.cursorPosition) = crtc
<1> USE DEF TypeOK, Fields, assigned, withStart, withCursor
<1>1. CASE r \in ShapeRegisters
  BY <1>1 DEF ShapeRegisters, SizeRegisters, setSize
<1>2. CASE r = "CURSOR_START" \/ r = "other"
  BY <1>2
<1>3. CASE r = "DISPLAY_START_HIGH" \/ r = "DISPLAY_START_LOW"
  BY <1>3
<1>4. CASE r = "CURSOR_POSITION_HIGH" \/ r = "CURSOR_POSITION_LOW"
  BY <1>4
<1> QED
  BY <1>1, <1>2, <1>3, <1>4 DEF Registers, AddressRegisters

(* A write that is no write of the shape changes the page only by its      *)
(* start.                                                                  *)
LEMMA WriteStep ==
  ASSUME IInv, NEW r \in Registers, NEW data \in Data(r),
         writeRegisterValue(r, data), UNCHANGED windowVars
  PROVE  IInv'
<1>1. /\ cpu = "run" /\ cpu' = "check" /\ crtc' = assigned(r, data)
      /\ old' = [start |-> crtc.startAddress, cursor |-> crtc.cursorPosition]
      /\ reshaping' = (reshaping \/ r \in ShapeRegisters \/ ~pageFits(crtc'))
      /\ window' = window /\ repackNeeded' = repackNeeded
  BY DEF writeRegisterValue, windowVars
<1>2. TypeOK /\ PageInv /\ WindowInv
  BY DEF IInv
<1>3. TypeOK'
  <2>1. crtc' \in Fields
    BY <1>1, <1>2, AssignedType
  <2>2. old' \in [start : Addresses, cursor : Addresses]
    BY <1>1, <1>2 DEF TypeOK, Fields
  <2>3. reshaping' \in BOOLEAN
    BY <1>1, <1>2 DEF TypeOK
  <2> QED
    BY <1>1, <1>2, <2>1, <2>2, <2>3 DEF TypeOK
<1>4. PageInv'
  BY <1>1, <1>2 DEF PageInv, Legal, cursorFits
<1>5. Refusable'
  <2>1. CASE crtc'.startAddress = crtc.startAddress /\ crtc'.cursorPosition = crtc.cursorPosition
    BY <1>1, <2>1 DEF Refusable
  <2>2. CASE crtc'.cursorPosition = crtc.cursorPosition /\ withStart(crtc', crtc.startAddress) = crtc
    <3>1. Follows(window', withStart(crtc', old'.start))
      BY <1>1, <1>2, <2>2 DEF WindowInv
    <3> QED
      BY <1>1, <2>2, <3>1 DEF Refusable, withStart
  <2>3. CASE crtc'.startAddress = crtc.startAddress /\ withCursor(crtc', crtc.cursorPosition) = crtc
    <3>1. Follows(window', withCursor(crtc', old'.cursor))
      BY <1>1, <1>2, <2>3 DEF WindowInv
    <3> QED
      BY <1>1, <2>3, <3>1 DEF Refusable, withCursor
  <2> QED
    BY <1>1, <1>2, <2>1, <2>2, <2>3, AssignedOnce
<1>6. WindowInv'
  BY <1>1, <1>2, <1>5 DEF WindowInv, ImageBuilt
<1> QED
  BY <1>3, <1>4, <1>6 DEF IInv

(* What a refusal restores is shown, or is illegal.                        *)
LEMMA RefusePageStep ==
  ASSUME IInv, RefusePage, UNCHANGED windowVars
  PROVE  IInv'
<1>1. /\ cpu = "check" /\ cpu' = "run" /\ ~pageFits(crtc)
      /\ crtc' = withStart(crtc, old.start) /\ old' = NoOld
      /\ reshaping' = (reshaping /\ ~Drawable(crtc'))
      /\ window' = window /\ repackNeeded' = repackNeeded
  BY DEF RefusePage, Return, windowVars, withStart
<1>2. TypeOK /\ PageInv /\ WindowInv
  BY DEF IInv
<1>3. TypeOK'
  <2>1. crtc' \in Fields
    BY <1>1, <1>2 DEF TypeOK, Fields, withStart
  <2>2. old' \in [start : Addresses, cursor : Addresses]
    BY <1>1, BaseType DEF NoOld, Addresses
  <2>3. reshaping' \in BOOLEAN
    BY <1>1, <1>2 DEF TypeOK
  <2> QED
    BY <1>1, <1>2, <2>1, <2>2, <2>3 DEF TypeOK
<1>4. PageInv'
  BY <1>1, <1>2 DEF PageInv, Drawable
<1>5. Follows(window, crtc')
  <2>1. CASE crtc.startAddress = old.start
    <3>1. crtc' = crtc
      BY <1>1, <1>2, <2>1 DEF TypeOK, Fields, withStart
    <3> QED
      BY <1>1, <3>1 DEF Follows, Drawable, Legal
  <2>2. CASE Follows(window, withStart(crtc, old.start))
    BY <1>1, <2>2
  <2> QED
    BY <1>1, <1>2, <2>1, <2>2 DEF WindowInv, Refusable
<1>6. WindowInv'
  BY <1>1, <1>2, <1>5 DEF WindowInv, ImageBuilt
<1> QED
  BY <1>3, <1>4, <1>6 DEF IInv

LEMMA RefuseCursorStep ==
  ASSUME IInv, RefuseCursor, UNCHANGED windowVars
  PROVE  IInv'
<1>1. /\ cpu = "check" /\ cpu' = "run" /\ pageFits(crtc) /\ ~cursorFits(crtc)
      /\ crtc' = withCursor(crtc, old.cursor) /\ old' = NoOld
      /\ reshaping' = (reshaping /\ ~Drawable(crtc'))
      /\ window' = window /\ repackNeeded' = repackNeeded
  BY DEF RefuseCursor, Return, windowVars, withCursor
<1>2. TypeOK /\ PageInv /\ WindowInv
  BY DEF IInv
<1>3. TypeOK'
  <2>1. crtc' \in Fields
    BY <1>1, <1>2 DEF TypeOK, Fields, withCursor
  <2>2. old' \in [start : Addresses, cursor : Addresses]
    BY <1>1, BaseType DEF NoOld, Addresses
  <2>3. reshaping' \in BOOLEAN
    BY <1>1, <1>2 DEF TypeOK
  <2> QED
    BY <1>1, <1>2, <2>1, <2>2, <2>3 DEF TypeOK
<1>4. PageInv'
  <2>1. CASE reshaping
    BY <1>1, <2>1 DEF PageInv, Drawable
  <2>2. CASE ~reshaping
    <3>1. old.cursor <= endAddress
      BY <1>1, <1>2, <2>2 DEF PageInv
    <3>2. pageFits(crtc') /\ cursorFits(crtc')
      BY <1>1, <1>2, <3>1 DEF TypeOK, Fields, withCursor, pageFits, cursorFits
    <3> QED
      BY <1>1, <3>2 DEF PageInv, Legal
  <2> QED
    BY <2>1, <2>2
<1>5. Follows(window, crtc')
  <2>1. CASE crtc.cursorPosition = old.cursor
    <3>1. crtc' = crtc
      BY <1>1, <1>2, <2>1 DEF TypeOK, Fields, withCursor
    <3> QED
      BY <1>1, <3>1 DEF Follows, Drawable, Legal
  <2>2. CASE Follows(window, withCursor(crtc, old.cursor))
    BY <1>1, <2>2
  <2> QED
    BY <1>1, <1>2, <2>1, <2>2 DEF WindowInv, Refusable
<1>6. WindowInv'
  BY <1>1, <1>2, <1>5 DEF WindowInv, ImageBuilt
<1> QED
  BY <1>3, <1>4, <1>6 DEF IInv

LEMMA NotifyStep ==
  ASSUME IInv, notifyListeners, UNCHANGED windowVars
  PROVE  IInv'
<1>1. /\ cpu = "check" /\ cpu' = "geometry" /\ Legal(crtc)
      /\ crtc' = crtc /\ old' = NoOld /\ reshaping' = reshaping
      /\ window' = window /\ repackNeeded' = repackNeeded
  BY DEF notifyListeners, windowVars
<1>2. old' \in [start : Addresses, cursor : Addresses]
  BY <1>1, BaseType DEF NoOld, Addresses
<1>3. TypeOK'
  BY <1>1, <1>2 DEF IInv, TypeOK
<1>4. PageInv'
  BY <1>1 DEF PageInv
<1>5. WindowInv'
  BY <1>1 DEF IInv, WindowInv, ImageBuilt
<1> QED
  BY <1>3, <1>4, <1>5 DEF IInv

LEMMA GeometryStep ==
  ASSUME IInv, copyGeometry
  PROVE  IInv'
<1> DEFINE w == [window EXCEPT !.horizontalDisplayed = crtc.horizontalDisplayed,
                               !.verticalDisplayed = crtc.verticalDisplayed,
                               !.scanLinesPerRow = crtc.scanLinesPerRow]
<1>1. /\ cpu = "geometry" /\ cpu' = "blink"
      /\ window' = w /\ repackNeeded' = (w # window)
      /\ crtc' = crtc /\ old' = old /\ reshaping' = reshaping
  BY DEF copyGeometry
<1>2. TypeOK /\ PageInv /\ WindowInv
  BY DEF IInv
<1>3. /\ w \in WindowFields
      /\ GeometryCopied(w, crtc)
      /\ w.blinker = window.blinker /\ w.cursorBlinkRate = window.cursorBlinkRate
  BY <1>2 DEF TypeOK, Fields, WindowFields, GeometryCopied
<1> HIDE DEF w
<1>4. TypeOK'
  BY <1>1, <1>2, <1>3 DEF TypeOK
<1>5. PageInv'
  BY <1>1, <1>2 DEF PageInv
<1>6. ~repackNeeded' => ImageBuilt'
  BY <1>1, <1>2 DEF WindowInv, ImageBuilt
<1>7. WindowInv'
  BY <1>1, <1>2, <1>3, <1>6 DEF WindowInv
<1> QED
  BY <1>4, <1>5, <1>7 DEF IInv

LEMMA BlinkStep ==
  ASSUME IInv, copyBlinkRate
  PROVE  IInv'
<1>1. /\ cpu = "blink" /\ cpu' = "image" /\ repackNeeded' = repackNeeded
      /\ crtc' = crtc /\ old' = old /\ reshaping' = reshaping
  BY DEF copyBlinkRate
<1>2. TypeOK /\ PageInv /\ WindowInv
  BY DEF IInv
<1>3. /\ window' \in WindowFields
      /\ GeometryCopied(window', crtc)
      /\ window'.cursorBlinkRate = crtc.cursorBlinkRate
      /\ window'.blinker = window'.cursorBlinkRate
      /\ window'.horizontalDisplayed = window.horizontalDisplayed
      /\ window'.verticalDisplayed = window.verticalDisplayed
      /\ window'.scanLinesPerRow = window.scanLinesPerRow
      /\ window'.width = window.width /\ window'.height = window.height
  <2>1. CASE window.cursorBlinkRate = crtc.cursorBlinkRate
    BY <1>1, <1>2, <2>1 DEF copyBlinkRate, TypeOK, WindowInv
  <2>2. CASE window.cursorBlinkRate # crtc.cursorBlinkRate
    <3>1. window' = [window EXCEPT
                       !.cursorBlinkRate = crtc.cursorBlinkRate,
                       !.hideCursor = @ /\ window.blinker = 0,
                       !.blinker = crtc.cursorBlinkRate]
      BY <2>2 DEF copyBlinkRate
    <3> QED
      BY <1>1, <1>2, <3>1
      DEF TypeOK, WindowInv, Fields, WindowFields, GeometryCopied
  <2> QED
    BY <2>1, <2>2
<1>4. TypeOK'
  BY <1>1, <1>2, <1>3 DEF TypeOK
<1>5. PageInv'
  BY <1>1, <1>2 DEF PageInv
<1>6. ~repackNeeded' => ImageBuilt'
  BY <1>1, <1>2, <1>3 DEF WindowInv, ImageBuilt
<1>7. WindowInv'
  BY <1>1, <1>2, <1>3, <1>6 DEF WindowInv
<1> QED
  BY <1>4, <1>5, <1>7 DEF IInv

LEMMA ImageStep ==
  ASSUME IInv, buildImage
  PROVE  IInv'
<1> DEFINE w == window.horizontalDisplayed
           h == window.scanLinesPerRow * window.verticalDisplayed
           built == repackNeeded /\ w > 0 /\ h > 0
<1>1. /\ cpu = "image" /\ cpu' = "run" /\ repackNeeded' = FALSE
      /\ window' = IF built THEN [window EXCEPT !.width = w, !.height = h] ELSE window
      /\ crtc' = crtc /\ old' = NoOld
      /\ reshaping' = (reshaping /\ ~Drawable(crtc))
  BY DEF buildImage, Return
<1>2. TypeOK /\ PageInv /\ WindowInv
  BY DEF IInv
<1>3. w \in Nat /\ h \in Nat
  BY <1>2, Products DEF TypeOK, WindowFields
<1>4. /\ window' \in WindowFields
      /\ window'.horizontalDisplayed = window.horizontalDisplayed
      /\ window'.verticalDisplayed = window.verticalDisplayed
      /\ window'.scanLinesPerRow = window.scanLinesPerRow
      /\ window'.cursorBlinkRate = window.cursorBlinkRate
      /\ window'.blinker = window.blinker
      /\ built => window'.width = w /\ window'.height = h
      /\ ~built => window' = window
  BY <1>1, <1>2, <1>3 DEF TypeOK, WindowFields
<1>5. window.verticalDisplayed > 0 /\ window.scanLinesPerRow > 0 => h > 0
  BY <1>2, Products DEF TypeOK, WindowFields
<1>6. ImageBuilt'
  BY <1>2, <1>4, <1>5 DEF ImageBuilt, WindowInv
<1>7. Follows(window', crtc)
  BY <1>1, <1>2, <1>4, <1>6 DEF Follows, Drawable, Shows, GeometryCopied, ImageBuilt, WindowInv
<1>8. TypeOK'
  <2>1. old' \in [start : Addresses, cursor : Addresses]
    BY <1>1, BaseType DEF NoOld, Addresses
  <2>2. reshaping' \in BOOLEAN
    BY <1>1 DEF Drawable
  <2>3. crtc' \in Fields
    BY <1>1, <1>2, Zenon DEF TypeOK
  <2>4. cpu' \in {"run", "check", "geometry", "blink", "image"}
    BY <1>1
  <2>5. repackNeeded' \in BOOLEAN
    BY <1>1
  <2> QED
    BY <1>4, <2>1, <2>2, <2>3, <2>4, <2>5, Zenon DEF TypeOK
<1>9. PageInv'
  BY <1>1, <1>2 DEF PageInv
<1>10. WindowInv'
  BY <1>1, <1>2, <1>4, <1>6, <1>7 DEF WindowInv
<1> QED
  BY <1>8, <1>9, <1>10 DEF IInv

(* The other steps change nothing of this but whether the cursor is hidden.*)
LEMMA QuietStep ==
  ASSUME IInv, UNCHANGED <<crtcVars, repackNeeded>>,
         \/ window' = window
         \/ window' = [window EXCEPT !.hideCursor = ~@]
  PROVE  IInv'
<1>1. /\ crtc' = crtc /\ cpu' = cpu /\ old' = old /\ reshaping' = reshaping
      /\ repackNeeded' = repackNeeded
  BY DEF crtcVars
<1>2. TypeOK /\ PageInv /\ WindowInv
  BY DEF IInv
<1>3. /\ window' \in WindowFields
      /\ window'.horizontalDisplayed = window.horizontalDisplayed
      /\ window'.verticalDisplayed = window.verticalDisplayed
      /\ window'.scanLinesPerRow = window.scanLinesPerRow
      /\ window'.width = window.width /\ window'.height = window.height
      /\ window'.cursorBlinkRate = window.cursorBlinkRate
      /\ window'.blinker = window.blinker
  BY <1>2 DEF TypeOK, WindowFields
<1>4. \A c : Follows(window, c) <=> Follows(window', c)
  BY <1>3 DEF Follows, Shows, GeometryCopied
<1>5. TypeOK'
  BY <1>1, <1>2, <1>3 DEF TypeOK
<1>6. PageInv'
  BY <1>1, <1>2 DEF PageInv
<1>7. Refusable <=> Refusable'
  BY <1>1, <1>4 DEF Refusable
<1>8. ImageBuilt <=> ImageBuilt'
  BY <1>3 DEF ImageBuilt
<1>9. GeometryCopied(window, crtc) <=> GeometryCopied(window', crtc')
  BY <1>1, <1>3 DEF GeometryCopied
<1>10. WindowInv'
  BY <1>1, <1>2, <1>3, <1>4, <1>7, <1>8, <1>9 DEF WindowInv
<1> QED
  BY <1>5, <1>6, <1>10 DEF IInv

LEMMA NextStep == IInv /\ [Next]_vars => IInv'
<1> SUFFICES ASSUME IInv, [Next]_vars PROVE IInv'
  OBVIOUS
<1>1. CASE CrtcWrite
  <2>1. UNCHANGED windowVars
    BY <1>1 DEF CrtcWrite
  <2>2. CASE \E r \in Registers : \E data \in Data(r) : writeRegisterValue(r, data)
    BY <2>1, <2>2, WriteStep
  <2>3. CASE RefusePage
    BY <2>1, <2>3, RefusePageStep
  <2>4. CASE RefuseCursor
    BY <2>1, <2>4, RefuseCursorStep
  <2>5. CASE notifyListeners
    BY <2>1, <2>5, NotifyStep
  <2> QED
    BY <1>1, <2>2, <2>3, <2>4, <2>5 DEF CrtcWrite, CrtcStep
<1>2. CASE deviceStateChanged
  BY <1>2, GeometryStep, BlinkStep, ImageStep DEF deviceStateChanged
<1>3. CASE paintComponent \/ paintStep \/ blinkDue \/ blinkTest
  BY <1>3, QuietStep
  DEF paintComponent, paintStep, paintTest, paintCell, blinkDue, blinkTest, windowVars
<1>4. CASE toggle
  BY <1>4, QuietStep DEF toggle
<1>5. CASE UNCHANGED vars
  BY <1>5, QuietStep DEF vars, windowVars
<1> QED
  BY <1>1, <1>2, <1>3, <1>4, <1>5 DEF Next

(* The invariant the others are parts of holds in every reachable state.   *)
THEOREM Invariant == Spec => []IInv
  BY InitIInv, NextStep, PTL DEF Spec

(* Every reachable state of the registers and of the window is well typed. *)
THEOREM TypeCorrect == Spec => []TypeOK
<1>1. IInv => TypeOK
  BY DEF IInv
<1> QED
  BY <1>1, Invariant, PTL

(* For every memory and every sequence of writes, refused ones included:   *)
(* after a write the page and the cursor are in the memory, unless the     *)
(* shape of the page was written since they last were (Crtc.java).         *)
THEOREM PageCorrect == Spec => []PageStaysInMemory
<1>1. IInv => PageStaysInMemory
  BY DEF IInv, PageInv, PageStaysInMemory
<1> QED
  BY <1>1, Invariant, PTL

(* Whatever was refused in between, legal registers are what the window    *)
(* shows (VideoWindow.deviceStateChanged).                                 *)
THEOREM WindowCorrect == Spec => []WindowFollows
<1>1. IInv => WindowFollows
  BY DEF IInv, WindowInv, WindowFollows, Follows, Shows, GeometryCopied
<1> QED
  BY <1>1, Invariant, PTL

-----------------------------------------------------------------------------
(***************************************************************************)
(* What the painter relies on, for every memory, every set of values the   *)
(* guest writes, and every interleaving of the two threads; and that the   *)
(* start of the page can be written a byte at a time.                      *)
(*                                                                         *)
(* While the page is not being reshaped, the registers and the window      *)
(* agree on it at every point of a write, not only between two of them     *)
(* (PageShown); the frame was then begun and continued on one shape, with  *)
(* a start that may have changed but always fits.                          *)
(***************************************************************************)

(* The page has a picture of its shape.                                    *)
Pictured(w, c) ==
  /\ c.horizontalDisplayed > 0 /\ c.verticalDisplayed > 0 /\ c.scanLinesPerRow > 0
  /\ GeometryCopied(w, c)
  /\ w.width = c.horizontalDisplayed
  /\ w.height = c.scanLinesPerRow * c.verticalDisplayed

PageSized == crtc.pageSize = crtc.horizontalDisplayed * crtc.verticalDisplayed

PageShown == ~reshaping => Pictured(window, crtc)

PainterOK ==
  /\ edt \in [at : {"idle", "test", "cell", "toggle"}, i : Nat]
  /\ disturbed \in BOOLEAN
  /\ edt.at \in {"test", "cell"} /\ ~disturbed => ~reshaping
  /\ edt.at = "cell" /\ ~disturbed => edt.i < crtc.pageSize

FrameInv == PageSized /\ PageShown /\ PainterOK

-----------------------------------------------------------------------------
(* The cell of a character in a page of w columns and v rows.              *)
LEMMA RowOfCell ==
  ASSUME NEW w \in Nat, NEW v \in Nat, NEW s \in Nat, NEW i \in Nat,
         w > 0, i < w * v
  PROVE  (i % w) < w /\ (i \div w + 1) * s <= s * v
<1>1. /\ i \div w \in Int /\ i % w \in 0 .. w - 1
      /\ i = w * (i \div w) + (i % w)
  OBVIOUS
<1> DEFINE q == i \div w
           r == i % w
<1>2. q \in Int /\ r \in Nat /\ r < w /\ i = w * q + r
  BY <1>1
<1> HIDE DEF q, r
<1>3. q + 1 <= v
  <2>1. CASE q >= v
    <3>1. w * q >= w * v
      BY <1>2, <2>1
    <3> QED
      BY <1>2, <3>1
  <2> QED
    BY <1>2, <2>1
<1>4. (q + 1) * s <= v * s
  BY <1>2, <1>3
<1>5. v * s = s * v
  OBVIOUS
<1>6. r < w /\ (q + 1) * s <= s * v
  BY <1>2, <1>4, <1>5
<1> QED
  BY <1>6 DEF q, r

LEMMA InitFrameInv == Init => FrameInv
<1> SUFFICES ASSUME Init PROVE FrameInv
  OBVIOUS
<1>1. /\ Columns \in Nat /\ Rows \in Nat /\ Lines \in Nat
      /\ Columns > 0 /\ Rows > 0 /\ Lines > 0
  BY CrtcAssumption
<1>2. PageSized /\ PageShown
  BY <1>1 DEF Init, CrtcInit, PageSized, PageShown, Pictured, GeometryCopied
<1>3. PainterOK
  BY DEF Init, Idle, PainterOK
<1> QED
  BY <1>2, <1>3 DEF FrameInv

(* A write of the size sets the page size with it; another one leaves the  *)
(* shape alone.                                                            *)
LEMMA AssignedShape ==
  ASSUME TypeOK, PageSized, NEW r \in Registers, NEW data \in Data(r)
  PROVE  LET c == assigned(r, data)
         IN  /\ c.pageSize = c.horizontalDisplayed * c.verticalDisplayed
             /\ r \notin ShapeRegisters =>
                  /\ c.horizontalDisplayed = crtc.horizontalDisplayed
                  /\ c.verticalDisplayed = crtc.verticalDisplayed
                  /\ c.scanLinesPerRow = crtc.scanLinesPerRow
<1> USE DEF TypeOK, PageSized, Fields, assigned, ShapeRegisters, SizeRegisters
<1>1. CASE r \in SizeRegisters
  BY <1>1 DEF setSize
<1>2. CASE r = "SCAN_LINE"
  BY <1>2
<1>3. CASE r = "CURSOR_START" \/ r = "other"
  BY <1>3
<1>4. CASE r \in AddressRegisters
  BY <1>4 DEF AddressRegisters
<1> QED
  BY <1>1, <1>2, <1>3, <1>4 DEF Registers

(* The thread of the CPU: the page is pictured after the step, and shaped  *)
(* as before if it is not being reshaped.                                  *)
LEMMA WriteKeepsShape ==
  ASSUME IInv, FrameInv, IInv', CrtcStep, UNCHANGED windowVars
  PROVE  /\ PageSized' /\ PageShown'
         /\ ~reshaping /\ ~reshaping' => crtc'.pageSize = crtc.pageSize
<1>1. TypeOK /\ PageInv /\ WindowInv /\ WindowInv' /\ PageSized /\ PageShown
      /\ window' = window
  BY DEF IInv, FrameInv, windowVars
<1>2. ASSUME NEW r \in Registers, NEW data \in Data(r), writeRegisterValue(r, data)
      PROVE  /\ PageSized' /\ PageShown'
             /\ ~reshaping /\ ~reshaping' => crtc'.pageSize = crtc.pageSize
  <2>1. /\ crtc' = assigned(r, data)
        /\ ~reshaping' => ~reshaping /\ r \notin ShapeRegisters
    BY <1>2 DEF writeRegisterValue
  <2>2. PageSized'
    BY <1>1, <2>1, AssignedShape DEF PageSized
  <2>3. ~reshaping' => /\ crtc'.horizontalDisplayed = crtc.horizontalDisplayed
                       /\ crtc'.verticalDisplayed = crtc.verticalDisplayed
                       /\ crtc'.scanLinesPerRow = crtc.scanLinesPerRow
    BY <1>1, <2>1, AssignedShape
  <2>4. PageShown'
    BY <1>1, <2>1, <2>3 DEF PageShown, Pictured, GeometryCopied
  <2> QED
    BY <1>1, <2>2, <2>3, <2>4 DEF PageSized
<1>3. CASE RefusePage \/ RefuseCursor
  <2>1. /\ crtc'.horizontalDisplayed = crtc.horizontalDisplayed
        /\ crtc'.verticalDisplayed = crtc.verticalDisplayed
        /\ crtc'.scanLinesPerRow = crtc.scanLinesPerRow
        /\ crtc'.pageSize = crtc.pageSize
    BY <1>1, <1>3 DEF TypeOK, Fields, RefusePage, RefuseCursor
  <2>2. cpu' = "run" /\ (reshaping' <=> reshaping /\ ~Drawable(crtc'))
    BY <1>3 DEF RefusePage, RefuseCursor, Return
  <2>3. CASE Drawable(crtc')
    <3>1. Shows(window', crtc')
      BY <1>1, <2>2, <2>3 DEF WindowInv, Follows
    <3>2. Pictured(window', crtc')
      BY <2>3, <3>1 DEF Drawable, Shows, Pictured
    <3> QED
      BY <1>1, <2>1, <3>2 DEF PageSized, PageShown
  <2>4. CASE ~Drawable(crtc')
    BY <1>1, <2>1, <2>2, <2>4 DEF PageSized, PageShown, Pictured, GeometryCopied
  <2> QED
    BY <2>3, <2>4
<1>4. CASE notifyListeners
  BY <1>1, <1>4 DEF notifyListeners, PageSized, PageShown
<1> QED
  BY <1>2, <1>3, <1>4 DEF CrtcStep

LEMMA ListenerKeepsShape ==
  ASSUME IInv, FrameInv, IInv', deviceStateChanged
  PROVE  /\ PageSized' /\ PageShown' /\ crtc' = crtc
         /\ ~reshaping => ~reshaping'
         /\ edt' = edt /\ disturbed' = disturbed
<1>1. TypeOK /\ PageInv /\ WindowInv /\ WindowInv' /\ PageSized /\ PageShown
  BY DEF IInv, FrameInv
<1>2. crtc' = crtc /\ edt' = edt /\ disturbed' = disturbed
  BY DEF deviceStateChanged, copyGeometry, copyBlinkRate, buildImage, edtVars
<1>3. PageSized'
  BY <1>1, <1>2 DEF PageSized
<1>4. CASE copyGeometry
  <2>1. /\ reshaping' = reshaping
        /\ GeometryCopied(window', crtc)
        /\ window'.width = window.width /\ window'.height = window.height
    BY <1>1, <1>4 DEF copyGeometry, TypeOK, WindowFields, GeometryCopied
  <2>2. PageShown'
    BY <1>1, <1>2, <2>1 DEF PageShown, Pictured, GeometryCopied
  <2> QED
    BY <1>2, <1>3, <2>1, <2>2
<1>5. CASE copyBlinkRate
  <2>1. /\ reshaping' = reshaping
        /\ window'.horizontalDisplayed = window.horizontalDisplayed
        /\ window'.verticalDisplayed = window.verticalDisplayed
        /\ window'.scanLinesPerRow = window.scanLinesPerRow
        /\ window'.width = window.width /\ window'.height = window.height
    <3>1. CASE window.cursorBlinkRate = crtc.cursorBlinkRate
      BY <1>5, <3>1 DEF copyBlinkRate
    <3>2. CASE window.cursorBlinkRate # crtc.cursorBlinkRate
      <4>1. window' = [window EXCEPT
                         !.cursorBlinkRate = crtc.cursorBlinkRate,
                         !.hideCursor = @ /\ window.blinker = 0,
                         !.blinker = crtc.cursorBlinkRate]
        BY <1>5, <3>2 DEF copyBlinkRate
      <4>2. reshaping' = reshaping
        BY <1>5 DEF copyBlinkRate
      <4> QED
        BY <1>1, <4>1, <4>2 DEF TypeOK, WindowFields
    <3> QED
      BY <3>1, <3>2
  <2>2. PageShown'
    BY <1>1, <1>2, <2>1 DEF PageShown, Pictured, GeometryCopied
  <2> QED
    BY <1>2, <1>3, <2>1, <2>2
<1>6. CASE buildImage
  <2>1. cpu' = "run" /\ (reshaping' <=> reshaping /\ ~Drawable(crtc))
    BY <1>6 DEF buildImage, Return
  <2>2. CASE Drawable(crtc)
    <3>1. Shows(window', crtc')
      BY <1>1, <1>2, <2>1, <2>2 DEF WindowInv, Follows
    <3>2. Pictured(window', crtc')
      BY <1>2, <2>2, <3>1 DEF Drawable, Shows, Pictured
    <3> QED
      BY <1>2, <1>3, <2>1, <3>2 DEF PageShown
  <2>3. CASE ~Drawable(crtc)
    <3>1. Legal(crtc)
      BY <1>1, <1>6 DEF buildImage, PageInv
    <3>2. reshaping
      BY <1>1, <2>3, <3>1 DEF PageShown, Pictured, Drawable
    <3> QED
      BY <1>2, <1>3, <2>1, <2>3, <3>2 DEF PageShown
  <2> QED
    BY <2>2, <2>3
<1> QED
  BY <1>4, <1>5, <1>6 DEF deviceStateChanged

(* The painter goes on only where the test allowed it.                     *)
LEMMA PainterStep ==
  ASSUME IInv, FrameInv, paintComponent \/ paintStep \/ blinkDue \/ blinkTest \/ toggle
  PROVE  FrameInv'
<1>1. TypeOK /\ WindowInv /\ PageSized /\ PageShown /\ PainterOK
  BY DEF IInv, FrameInv
<1>2. crtc' = crtc /\ reshaping' = reshaping
  BY DEF paintComponent, paintStep, paintTest, paintCell, blinkDue, blinkTest,
         toggle, crtcVars
<1>3. Pictured(window, crtc) => Pictured(window', crtc)
  <2>1. CASE window' = window
    BY <2>1
  <2>2. CASE toggle
    <3>1. window' = [window EXCEPT !.hideCursor = ~@]
      BY <2>2 DEF toggle
    <3> QED
      BY <1>1, <3>1 DEF TypeOK, WindowFields, Pictured, GeometryCopied
  <2> QED
    BY <2>1, <2>2
    DEF paintComponent, paintStep, paintTest, paintCell, blinkDue, blinkTest, windowVars
<1>4. PageSized' /\ PageShown'
  BY <1>1, <1>2, <1>3 DEF PageSized, PageShown
<1>5. PainterOK'
  <2>1. CASE paintComponent
    BY <1>1, <1>2, <2>1 DEF paintComponent, PainterOK, TypeOK
  <2>2. CASE paintTest
    <3>1. edt.at = "test" /\ disturbed' = (edt' # Idle /\ disturbed)
      BY <2>2 DEF paintTest
    <3>2. CASE edt.i < crtc.pageSize
      <4>1. edt' = [edt EXCEPT !.at = "cell"]
        BY <2>2, <3>2 DEF paintTest
      <4>2. /\ edt' \in [at : {"idle", "test", "cell", "toggle"}, i : Nat]
            /\ edt'.at = "cell" /\ edt'.i = edt.i
        BY <1>1, <4>1 DEF PainterOK
      <4>3. edt' # Idle
        BY <4>2 DEF Idle
      <4>4. disturbed' = disturbed
        BY <1>1, <3>1, <4>3, Zenon DEF PainterOK
      <4> QED
        BY <1>1, <1>2, <3>1, <3>2, <4>2, <4>4 DEF PainterOK
    <3>3. CASE ~(edt.i < crtc.pageSize)
      <4>1. edt' = Idle
        BY <2>2, <3>3 DEF paintTest
      <4>2. disturbed' = FALSE
        BY <3>1, <4>1, Zenon
      <4> QED
        BY <4>1, <4>2 DEF Idle, PainterOK
    <3> QED
      BY <3>2, <3>3
  <2>3. CASE paintCell
    <3>1. edt.at = "cell" /\ disturbed' = (edt' # Idle /\ disturbed)
      BY <2>3 DEF paintCell
    <3>2. CASE cellInBounds(edt.i)
      <4>1. edt' = [at |-> "test", i |-> edt.i + 1]
        BY <2>3, <3>2 DEF paintCell
      <4>2. edt' # Idle
        BY <4>1 DEF Idle
      <4>3. disturbed' = disturbed
        BY <1>1, <3>1, <4>2, Zenon DEF PainterOK
      <4> QED
        BY <1>1, <1>2, <3>1, <4>1, <4>3 DEF PainterOK
    <3>3. CASE ~cellInBounds(edt.i)
      <4>1. edt' = Idle
        BY <2>3, <3>3 DEF paintCell
      <4>2. disturbed' = FALSE
        BY <3>1, <4>1, Zenon
      <4> QED
        BY <4>1, <4>2 DEF Idle, PainterOK
    <3> QED
      BY <3>2, <3>3
  <2>4. CASE blinkDue
    BY <1>1, <1>2, <2>4 DEF blinkDue, PainterOK
  <2>5. CASE blinkTest
    BY <1>1, <1>2, <2>5 DEF blinkTest, Idle, PainterOK
  <2>6. CASE toggle
    BY <1>1, <1>2, <2>6 DEF toggle, Idle, PainterOK
  <2> QED
    BY <2>1, <2>2, <2>3, <2>4, <2>5, <2>6 DEF paintStep
<1> QED
  BY <1>4, <1>5 DEF FrameInv

LEMMA NextFrame == IInv /\ FrameInv /\ IInv' /\ [Next]_vars => FrameInv'
<1> SUFFICES ASSUME IInv, FrameInv, IInv', [Next]_vars PROVE FrameInv'
  OBVIOUS
<1>1. TypeOK /\ PainterOK /\ TypeOK'
  BY DEF IInv, FrameInv
<1>2. CASE CrtcWrite
  <2>1. /\ PageSized' /\ PageShown'
        /\ ~reshaping /\ ~reshaping' => crtc'.pageSize = crtc.pageSize
    BY <1>2, WriteKeepsShape DEF CrtcWrite
  <2>2. edt' = edt /\ disturbed' = (edt.at \in {"test", "cell"} /\ (disturbed \/ reshaping'))
    BY <1>2 DEF CrtcWrite, edtVars
  <2>3. PainterOK'
    BY <1>1, <2>1, <2>2 DEF PainterOK, TypeOK
  <2> QED
    BY <2>1, <2>3 DEF FrameInv
<1>3. CASE deviceStateChanged
  <2>1. /\ PageSized' /\ PageShown' /\ crtc' = crtc
        /\ ~reshaping => ~reshaping'
        /\ edt' = edt /\ disturbed' = disturbed
    BY <1>3, ListenerKeepsShape
  <2>2. PainterOK'
    BY <1>1, <2>1 DEF PainterOK
  <2> QED
    BY <2>1, <2>2 DEF FrameInv
<1>4. CASE paintComponent \/ paintStep \/ blinkDue \/ blinkTest \/ toggle
  BY <1>4, PainterStep
<1>5. CASE UNCHANGED vars
  BY <1>5 DEF vars, crtcVars, windowVars, edtVars, FrameInv, PageSized, PageShown,
              PainterOK
<1> QED
  BY <1>2, <1>3, <1>4, <1>5 DEF Next

(* For every memory and every interleaving of the painter with writes: a   *)
(* frame stays inside the memory and its image unless the page was         *)
(* reshaped while it was painted (VideoWindow.VideoPanel.paintComponent).  *)
THEOREM FrameCorrect == Spec => []FrameInBounds
<1>1. IInv /\ FrameInv => FrameInBounds
  <2> SUFFICES ASSUME IInv, FrameInv, edt.at = "cell", ~disturbed
               PROVE  cellInBounds(edt.i)
    BY DEF FrameInBounds
  <2>1. /\ ~reshaping /\ edt.i \in Nat /\ edt.i < crtc.pageSize
        /\ crtc.pageSize = crtc.horizontalDisplayed * crtc.verticalDisplayed
        /\ Pictured(window, crtc)
    BY DEF FrameInv, PainterOK, PageSized, PageShown
  <2>2. crtc.startAddress + crtc.pageSize <= endAddress
    BY <2>1 DEF IInv, TypeOK, PageInv, Legal, pageFits
  <2>3. /\ crtc.horizontalDisplayed \in Nat /\ crtc.verticalDisplayed \in Nat
        /\ crtc.scanLinesPerRow \in Nat /\ crtc.startAddress \in Nat
        /\ crtc.pageSize \in Nat /\ endAddress \in Nat
    BY BaseType DEF IInv, TypeOK, Fields, Addresses
  <2>4. /\ (edt.i % crtc.horizontalDisplayed) < crtc.horizontalDisplayed
        /\ (edt.i \div crtc.horizontalDisplayed + 1) * crtc.scanLinesPerRow
             <= crtc.scanLinesPerRow * crtc.verticalDisplayed
    BY <2>1, <2>3, RowOfCell DEF Pictured
  <2>5. crtc.startAddress + edt.i <= endAddress
    BY <2>1, <2>2, <2>3
  <2> QED
    BY <2>1, <2>4, <2>5 DEF cellInBounds, Pictured, GeometryCopied
<1>2. Init => FrameInv
  BY InitFrameInv
<1>3. IInv /\ FrameInv /\ IInv' /\ [Next]_vars => FrameInv'
  BY NextFrame
<1> QED
  BY <1>1, <1>2, <1>3, Invariant, PTL DEF Spec

-----------------------------------------------------------------------------
(* The digits of a number of two bytes.                                    *)
LEMMA HighOf ==
  ASSUME NEW h \in Bytes, NEW l \in Bytes
  PROVE  (h * Base + l) \div Base = h /\ (h * Base + l) % Base = l
<1>1. h * Base + l \in Addresses
  BY PairInRange
<1> DEFINE n == h * Base + l
<1>2. /\ n \div Base \in Bytes /\ n % Base \in Bytes
      /\ n = (n \div Base) * Base + (n % Base)
  BY <1>1, Parts
<1> DEFINE q == n \div Base
           r == n % Base
<1>3. q \in Bytes /\ r \in Bytes /\ h * Base + l = q * Base + r
  BY <1>2
<1> HIDE DEF n, q, r
<1>4. /\ h \in Nat /\ l \in Nat /\ q \in Nat /\ r \in Nat
      /\ l < Base /\ r < Base
  BY <1>3, BaseType DEF Bytes
<1>5. h = q
  <2>1. CASE h < q
    <3>1. (h + 1) * Base <= q * Base
      BY <1>4, <2>1, BaseType
    <3>2. (h + 1) * Base = h * Base + Base
      BY <1>4, BaseType
    <3> QED
      BY <1>3, <1>4, <3>1, <3>2, BaseType
  <2>2. CASE q < h
    <3>1. (q + 1) * Base <= h * Base
      BY <1>4, <2>2, BaseType
    <3>2. (q + 1) * Base = q * Base + Base
      BY <1>4, BaseType
    <3> QED
      BY <1>3, <1>4, <3>1, <3>2, BaseType
  <2> QED
    BY <1>4, <2>1, <2>2
<1>6. l = r
  BY <1>3, <1>4, <1>5, BaseType
<1> QED
  BY <1>5, <1>6 DEF n, q, r

(* Writing both bytes of t, in either order, gives t.                      *)
LEMMA BothBytes ==
  ASSUME NEW n \in Addresses, NEW t \in Addresses
  PROVE  /\ withHigh(n, t \div Base) = (t \div Base) * Base + (n % Base)
         /\ withLow(n, t % Base) = (n \div Base) * Base + (t % Base)
         /\ withLow(withHigh(n, t \div Base), t % Base) = t
         /\ withHigh(withLow(n, t % Base), t \div Base) = t
<1>1. /\ n \div Base \in Bytes /\ n % Base \in Bytes
      /\ t \div Base \in Bytes /\ t % Base \in Bytes
      /\ t = (t \div Base) * Base + (t % Base)
  BY Parts
<1>2. ((t \div Base) * Base + (n % Base)) \div Base = t \div Base
  BY <1>1, HighOf
<1>3. ((n \div Base) * Base + (t % Base)) % Base = t % Base
  BY <1>1, HighOf
<1> QED
  BY <1>1, <1>2, <1>3, Zenon DEF withHigh, withLow

(* One of the two intermediate addresses does not exceed both the old and  *)
(* the new one: the one that writes the byte first that makes it smaller.  *)
LEMMA OneOrderFits ==
  ASSUME NEW n \in Addresses, NEW t \in Addresses
  PROVE  \/ withHigh(n, t \div Base) <= n \/ withHigh(n, t \div Base) <= t
         \/ withLow(n, t % Base) <= n \/ withLow(n, t % Base) <= t
<1> DEFINE H == n \div Base
           L == n % Base
           h == t \div Base
           l == t % Base
<1>1. /\ H \in Bytes /\ L \in Bytes /\ h \in Bytes /\ l \in Bytes
      /\ n = H * Base + L /\ t = h * Base + l
  BY Parts
<1>2. /\ withHigh(n, h) = h * Base + L
      /\ withLow(n, l) = H * Base + l
  BY BothBytes
<1> HIDE DEF H, L, h, l
<1>3. /\ H \in Nat /\ L \in Nat /\ h \in Nat /\ l \in Nat
  BY <1>1, BaseType DEF Bytes
<1>4. h <= H => h * Base + L <= n
  <2>1. h <= H => h * Base <= H * Base
    BY <1>3, BaseType
  <2>2. h * Base \in Nat /\ H * Base \in Nat
    BY <1>3, BaseType
  <2> QED
    BY <1>1, <1>3, <2>1, <2>2
<1>5. H <= h => H * Base + l <= t
  <2>1. H <= h => H * Base <= h * Base
    BY <1>3, BaseType
  <2>2. h * Base \in Nat /\ H * Base \in Nat
    BY <1>3, BaseType
  <2> QED
    BY <1>1, <1>3, <2>1, <2>2
<1>6. h <= H \/ H <= h
  BY <1>3
<1>7. withHigh(n, h) <= n \/ withLow(n, l) <= t
  BY <1>2, <1>4, <1>5, <1>6
<1> QED
  BY <1>7 DEF h, l

(* So from an address with room for k more cells to another one, one of    *)
(* the two intermediate addresses has that room as well.                   *)
LEMMA OneOrderHasRoom ==
  ASSUME NEW n \in Addresses, NEW t \in Addresses, NEW k \in Nat,
         n + k <= endAddress, t + k <= endAddress
  PROVE  \/ withHigh(n, t \div Base) + k <= endAddress
         \/ withLow(n, t % Base) + k <= endAddress
<1>1. /\ withHigh(n, t \div Base) \in Addresses
      /\ withLow(n, t % Base) \in Addresses
  <2>1. t \div Base \in Bytes /\ t % Base \in Bytes
    BY Parts
  <2> QED
    BY <2>1, ByteWrites
<1> DEFINE high == withHigh(n, t \div Base)
           low  == withLow(n, t % Base)
<1>2. high <= n \/ high <= t \/ low <= n \/ low <= t
  BY OneOrderFits
<1>3. /\ high \in Nat /\ low \in Nat /\ n \in Nat /\ t \in Nat /\ endAddress \in Nat
  BY <1>1, BaseType DEF Addresses
<1> HIDE DEF high, low
<1>4. high + k <= endAddress \/ low + k <= endAddress
  BY <1>2, <1>3
<1> QED
  BY <1>4 DEF high, low

(* For every memory, and whatever writes were refused before: the two      *)
(* bytes of a start that fits, and those of a cursor position in memory,   *)
(* are accepted in one of the two orders (Crtc.writeRegisterValue).        *)
THEOREM ScrollCorrect == Spec => []CanScroll
<1>1. IInv => CanScroll
  <2> SUFFICES ASSUME IInv, cpu = "run", ~reshaping
               PROVE  CanScroll
    BY DEF CanScroll
  <2> DEFINE startAt(n)  == [crtc EXCEPT !.startAddress = n]
             cursorAt(n) == [crtc EXCEPT !.cursorPosition = n]
             start  == crtc.startAddress
             cursor == crtc.cursorPosition
  <2>1. Legal(crtc)
    BY DEF IInv, PageInv, PageStaysInMemory
  <2>2. /\ start \in Addresses /\ cursor \in Addresses /\ crtc.pageSize \in Nat
        /\ start + crtc.pageSize <= endAddress /\ cursor <= endAddress
    BY <2>1 DEF IInv, TypeOK, Fields, Legal, pageFits, cursorFits
  <2>3. /\ \A n : pageFits(startAt(n)) <=> n + crtc.pageSize <= endAddress
        /\ \A n : cursorFits(cursorAt(n)) <=> n <= endAddress
        /\ \A n : cursorFits(startAt(n)) /\ pageFits(cursorAt(n))
    BY <2>2 DEF IInv, TypeOK, Fields, pageFits, cursorFits
  <2>4. /\ \A n : Legal(startAt(n)) <=> n + crtc.pageSize <= endAddress
        /\ \A n : Legal(cursorAt(n)) <=> n <= endAddress
    BY <2>3 DEF Legal
  <2>5. ASSUME NEW t \in Addresses, pageFits(startAt(t))
        PROVE  InTwoWrites(startAt, start, t)
    <3>1. t + crtc.pageSize <= endAddress
      BY <2>3, <2>5
    <3>2. \/ withHigh(start, t \div Base) + crtc.pageSize <= endAddress
          \/ withLow(start, t % Base) + crtc.pageSize <= endAddress
      BY <2>2, <3>1, OneOrderHasRoom
    <3>3. /\ withLow(withHigh(start, t \div Base), t % Base) = t
          /\ withHigh(withLow(start, t % Base), t \div Base) = t
      BY <2>2, BothBytes
    <3> HIDE DEF startAt, start
    <3> QED
      BY <2>4, <3>1, <3>2, <3>3, Zenon DEF InTwoWrites
  <2>6. ASSUME NEW t \in Addresses, cursorFits(cursorAt(t))
        PROVE  InTwoWrites(cursorAt, cursor, t)
    <3>1. t <= endAddress /\ t \in Nat /\ cursor \in Nat
      BY <2>2, <2>3, <2>6 DEF Addresses
    <3>2. \/ withHigh(cursor, t \div Base) <= endAddress
          \/ withLow(cursor, t % Base) <= endAddress
      <4>1. cursor + 0 <= endAddress /\ t + 0 <= endAddress
        BY <2>2, <3>1
      <4>2. \/ withHigh(cursor, t \div Base) + 0 <= endAddress
            \/ withLow(cursor, t % Base) + 0 <= endAddress
        BY <2>2, <4>1, OneOrderHasRoom
      <4>3. /\ withHigh(cursor, t \div Base) \in Addresses
            /\ withLow(cursor, t % Base) \in Addresses
        BY <2>2, Parts, ByteWrites
      <4> QED
        BY <4>2, <4>3 DEF Addresses
    <3>3. /\ withLow(withHigh(cursor, t \div Base), t % Base) = t
          /\ withHigh(withLow(cursor, t % Base), t \div Base) = t
      BY <2>2, BothBytes
    <3> HIDE DEF cursorAt, cursor
    <3> QED
      BY <2>4, <3>1, <3>2, <3>3, Zenon DEF InTwoWrites
  <2> QED
    BY <2>5, <2>6 DEF CanScroll
<1> QED
  BY <1>1, Invariant, PTL
=============================================================================
