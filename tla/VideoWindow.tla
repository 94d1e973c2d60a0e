------------------------------- MODULE VideoWindow -------------------------------
(***************************************************************************)
(* The window that shows what the CRT controller displays                  *)
(* (VideoWindow.java).  It copies the geometry of the page when the CRTC   *)
(* calls its listener, on the thread of the CPU, and builds an image of    *)
(* that size; the event dispatch thread paints the page into the image,    *)
(* cell by cell, with the copied geometry but the start address and size   *)
(* the CRTC has at that moment.  A timer posts a Runnable that shows or    *)
(* hides the cursor.  Nothing is locked.                                   *)
(*                                                                         *)
(* Reads and writes of a field are taken to be seen by all threads in      *)
(* their order.  Widths are in characters, heights in scan lines.          *)
(***************************************************************************)
EXTENDS Crtc

CONSTANT MaxPosted       (* bound: blink Runnables in the event queue      *)

ASSUME WindowAssumption == MaxPosted \in Nat \ {0}

VARIABLES
  window,       (* the fields; blinker: the rate of the scheduled          *)
                (* CursorBlinker, 0 for none; width, height: of the image  *)
  repackNeeded, (* deviceStateChanged's                                    *)
  edt,          (* where the event dispatch thread is, and its i           *)
  posted,       (* blink Runnables posted                                  *)
  disturbed,    (* history: the page was being reshaped during this frame  *)
  overtaken     (* history: a toggle decided on before the rate was        *)
                (* changed has come, or will come, after it                *)

windowVars == <<window, repackNeeded>>
edtVars == <<edt, posted>>
vars == <<crtcVars, windowVars, edtVars, disturbed, overtaken>>

Idle == [at |-> "idle", i |-> 0]

Init ==
  /\ CrtcInit
  /\ window = [horizontalDisplayed |-> Columns, verticalDisplayed |-> Rows,
               scanLinesPerRow |-> Lines, cursorBlinkRate |-> 1,
               hideCursor |-> FALSE, blinker |-> 1,
               width |-> Columns, height |-> Lines * Rows]
  /\ repackNeeded = FALSE
  /\ edt = Idle /\ posted = 0
  /\ disturbed = FALSE /\ overtaken = FALSE

-----------------------------------------------------------------------------
(* The CPU's thread: a write, and in it deviceStateChanged.                *)

CrtcWrite == /\ CrtcStep
             /\ disturbed' = (edt.at \in {"test", "cell"} /\ (disturbed \/ reshaping'))
             /\ UNCHANGED <<windowVars, edtVars, overtaken>>

(* The painter reads the copied width and scan lines; a write changes one  *)
(* of the three, or several after writes that were refused.                *)
copyGeometry ==
  LET w == [window EXCEPT !.horizontalDisplayed = crtc.horizontalDisplayed,
                          !.verticalDisplayed = crtc.verticalDisplayed,
                          !.scanLinesPerRow = crtc.scanLinesPerRow]
  IN  /\ cpu = "geometry"
      /\ window' = w
      /\ repackNeeded' = (w # window)
      /\ cpu' = "blink"
      /\ UNCHANGED <<crtc, old, reshaping,
                     edtVars, disturbed, overtaken>>

(* Mutant: the blinker keeps the rate it was scheduled with.               *)
copyBlinkRateOnly ==
  /\ cpu = "blink"
  /\ window' = [window EXCEPT !.cursorBlinkRate = crtc.cursorBlinkRate]
  /\ cpu' = "image"
  /\ UNCHANGED <<crtc, old, reshaping, overtaken,
                 repackNeeded, edtVars, disturbed>>

(* The old blinker is cancelled and the new one scheduled; Runnables it    *)
(* has posted stay posted.                                                 *)
copyBlinkRate ==
  /\ cpu = "blink"
  /\ IF window.cursorBlinkRate = crtc.cursorBlinkRate
     THEN UNCHANGED <<window, overtaken>>
     ELSE /\ window' = [window EXCEPT
                          !.cursorBlinkRate = crtc.cursorBlinkRate,
                          !.hideCursor = @ /\ window.blinker = 0,
                          !.blinker = crtc.cursorBlinkRate]
          /\ overtaken' = (\/ edt.at = "toggle"
                           \/ overtaken /\ window.blinker = 0)
  /\ cpu' = "image"
  /\ UNCHANGED <<crtc, old, reshaping,
                 repackNeeded, edtVars, disturbed>>

(* buildImage; a BufferedImage without pixels is refused by an exception.  *)
buildImage ==
  LET w == window.horizontalDisplayed
      h == window.scanLinesPerRow * window.verticalDisplayed
  IN  /\ cpu = "image"
      /\ window' = IF repackNeeded /\ w > 0 /\ h > 0
                   THEN [window EXCEPT !.width = w, !.height = h]
                   ELSE window
      /\ repackNeeded' = FALSE
      /\ Return(crtc)
      /\ UNCHANGED <<crtc, edtVars, disturbed, overtaken>>

deviceStateChanged == copyGeometry \/ copyBlinkRate \/ buildImage

-----------------------------------------------------------------------------
(* The event dispatch thread and the timer.                                *)

paintComponent ==
  /\ edt = Idle
  /\ edt' = [at |-> "test", i |-> 0]
  /\ disturbed' = reshaping
  /\ UNCHANGED <<crtcVars, windowVars, posted, overtaken>>

(* i < crtc.getPageSize()                                                  *)
paintTest ==
  /\ edt.at = "test"
  /\ edt' = IF edt.i < crtc.pageSize THEN [edt EXCEPT !.at = "cell"] ELSE Idle
  /\ disturbed' = (edt' # Idle /\ disturbed)
  /\ UNCHANGED <<crtcVars, windowVars, posted, overtaken>>

(* The character is in memory and its cell in the image.                   *)
cellInBounds(i) ==
  LET w == window.horizontalDisplayed
      s == window.scanLinesPerRow
  IN  /\ crtc.startAddress + i <= endAddress
      /\ w > 0 /\ (i % w) < window.width
      /\ (i \div w + 1) * s <= window.height

paintCell ==
  /\ edt.at = "cell"
  /\ edt' = IF cellInBounds(edt.i) THEN [at |-> "test", i |-> edt.i + 1] ELSE Idle
  /\ disturbed' = (edt' # Idle /\ disturbed)
  /\ UNCHANGED <<crtcVars, windowVars, posted, overtaken>>

(* The timer posts the Runnable of CursorBlinker.                          *)
blinkDue ==
  /\ window.blinker > 0 /\ posted < MaxPosted
  /\ posted' = posted + 1
  /\ UNCHANGED <<crtcVars, windowVars, edt, disturbed, overtaken>>

(* if (cursorBlinkRate > 0)                                                *)
blinkTest ==
  /\ edt = Idle /\ posted > 0
  /\ posted' = posted - 1
  /\ edt' = IF window.cursorBlinkRate > 0 THEN [Idle EXCEPT !.at = "toggle"] ELSE Idle
  /\ UNCHANGED <<crtcVars, windowVars, disturbed, overtaken>>

(* Mutant: the cursor is only ever hidden.                                 *)
toggleHiding ==
  /\ edt.at = "toggle"
  /\ window' = [window EXCEPT !.hideCursor = TRUE]
  /\ edt' = Idle
  /\ UNCHANGED <<crtcVars, repackNeeded, posted, disturbed, overtaken>>

toggle ==
  /\ edt.at = "toggle"
  /\ window' = [window EXCEPT !.hideCursor = ~@]
  /\ edt' = Idle
  /\ UNCHANGED <<crtcVars, repackNeeded, posted, disturbed, overtaken>>

paintStep == paintTest \/ paintCell

Next == \/ CrtcWrite \/ deviceStateChanged
        \/ paintComponent \/ paintStep \/ blinkDue \/ blinkTest \/ toggle

(* The timer runs, a handler on the event dispatch thread ends, and a      *)
(* Runnable posted gets its turn: the event queue is first in, first out.  *)
Spec == /\ Init /\ [][Next]_vars
        /\ WF_vars(blinkDue) /\ WF_vars(paintStep) /\ WF_vars(toggle)
        /\ SF_vars(blinkTest)

-----------------------------------------------------------------------------
(* Writes that are refused change registers without telling the window.    *)
(* Once the registers are legal again, and make a picture, the window has  *)
(* caught up with all of them: geometry, image, and a blinker at the rate. *)
WindowFollows ==
  cpu = "run" /\ Drawable(crtc) =>
    /\ window.horizontalDisplayed = crtc.horizontalDisplayed
    /\ window.verticalDisplayed = crtc.verticalDisplayed
    /\ window.scanLinesPerRow = crtc.scanLinesPerRow
    /\ window.width = crtc.horizontalDisplayed
    /\ window.height = crtc.scanLinesPerRow * crtc.verticalDisplayed
    /\ window.cursorBlinkRate = crtc.cursorBlinkRate
    /\ window.blinker = crtc.cursorBlinkRate

(* The painter reads the start of the page anew for each cell, while the   *)
(* guest writes it: a frame fails only if the page is being reshaped, or   *)
(* its registers are illegal, while it is painted.                         *)
FrameInBounds == edt.at = "cell" /\ ~disturbed => cellInBounds(edt.i)

(* A cursor that does not blink is shown, although Runnables of the last   *)
(* blinker may still come: unless the rate changed between the test and    *)
(* the toggle of one of them.  A blinking cursor is shown again and again. *)
CursorShown ==
  /\ [](window.blinker = 0 /\ ~overtaken => ~window.hideCursor)
  /\ window.hideCursor ~> (~window.hideCursor \/ window.blinker = 0)
=============================================================================
