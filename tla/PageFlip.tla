-------------------------------- MODULE PageFlip --------------------------------
(***************************************************************************)
(* The animations of the cc65 samples (fire.c, plasma.c): a frame is drawn *)
(* into one of two screen pages while the other one is shown, then the     *)
(* address register of the video chip is switched.  The registers the demo *)
(* changes are saved first and put back at the end.  On the C128 the       *)
(* interrupt handler of the kernal sets the register to the text screen    *)
(* whenever it runs, unless its flags are changed.                         *)
(*                                                                         *)
(* A register is told by what it selects: "text" is what it was before the *)
(* demo.  The drawing of a page takes as long as copyPc stays at it.       *)
(***************************************************************************)
EXTENDS Integers, Sequences

CONSTANT C128          (* whether there is such an interrupt handler       *)

VARIABLES
  flipPc,              (* the next statement of main                       *)
  addr,                (* VIC.addr: "text", "page1" or "page2"             *)
  bank,                (* CIA2.pra: "text" or "demo"                       *)
  flags,               (* of the interrupt handler: "text" or "demo"       *)
  colors,              (* border, background and text colour               *)
  saved,               (* [addr, bank, flags, colors]: the variables v,    *)
                       (* block, initflag and graphflag, border and so on  *)
  latest               (* history: the page finished last                  *)

flipVars == <<flipPc, addr, bank, flags, colors, saved, latest>>

FlipInit ==
  /\ flipPc = "colors"
  /\ addr = "text" /\ bank = "text" /\ flags = "text" /\ colors = "text"
  /\ saved = [addr |-> "unset", bank |-> "unset", flags |-> "unset", colors |-> "unset"]
  /\ latest = "none"

step(here, there) == flipPc = here /\ flipPc' = there

(* The statements in front of the loop.                                    *)
setColors == /\ step("colors", "bank")
             /\ saved' = [saved EXCEPT !.colors = colors] /\ colors' = "demo"
             /\ UNCHANGED <<addr, bank, flags, latest>>

moveBank == /\ step("bank", "flags")
            /\ saved' = [saved EXCEPT !.bank = bank] /\ bank' = "demo"
            /\ UNCHANGED <<addr, flags, colors, latest>>

(* Mutant: the handler is left alone.                                      *)
changeFlagsNot == /\ step("flags", "addr")
                  /\ saved' = [saved EXCEPT !.flags = flags]
                  /\ UNCHANGED <<addr, bank, flags, colors, latest>>

changeFlags == /\ step("flags", "addr")
               /\ saved' = [saved EXCEPT !.flags = flags] /\ flags' = "demo"
               /\ UNCHANGED <<addr, bank, colors, latest>>

rememberAddr == /\ step("addr", "loop")
                /\ saved' = [saved EXCEPT !.addr = addr]
                /\ UNCHANGED <<addr, bank, flags, colors, latest>>

-----------------------------------------------------------------------------
(* while (!kbhit ()): two frames a turn.                                   *)
enterLoop == /\ step("loop", "draw1")
             /\ UNCHANGED <<addr, bank, flags, colors, saved, latest>>

finishPage1 == /\ step("draw1", "show1") /\ latest' = "page1"
               /\ UNCHANGED <<addr, bank, flags, colors, saved>>

showPage1 == /\ step("show1", "draw2") /\ addr' = "page1"
             /\ UNCHANGED <<bank, flags, colors, saved, latest>>

finishPage2 == /\ step("draw2", "show2") /\ latest' = "page2"
               /\ UNCHANGED <<addr, bank, flags, colors, saved>>

showPage2 == /\ step("show2", "loop") /\ addr' = "page2"
             /\ UNCHANGED <<bank, flags, colors, saved, latest>>

leaveLoop == /\ step("loop", "restoreAddr")
             /\ UNCHANGED <<addr, bank, flags, colors, saved, latest>>

-----------------------------------------------------------------------------
restoreAddr == /\ step("restoreAddr", "restoreBank") /\ addr' = saved.addr
               /\ UNCHANGED <<bank, flags, colors, saved, latest>>

restoreBank == /\ step("restoreBank", "restoreFlags") /\ bank' = saved.bank
               /\ UNCHANGED <<addr, flags, colors, saved, latest>>

restoreFlags == /\ step("restoreFlags", "restoreColors") /\ flags' = saved.flags
                /\ UNCHANGED <<addr, bank, colors, saved, latest>>

restoreColors == /\ step("restoreColors", "end") /\ colors' = saved.colors
                 /\ UNCHANGED <<addr, bank, flags, saved, latest>>

(* The handler of the C128, at any time.                                   *)
kernalInterrupt == /\ C128 /\ flags = "text"
                   /\ addr' = "text"
                   /\ UNCHANGED <<flipPc, bank, flags, colors, saved, latest>>

FlipNext == \/ setColors \/ moveBank \/ changeFlags \/ rememberAddr
            \/ enterLoop \/ finishPage1 \/ showPage1 \/ finishPage2 \/ showPage2
            \/ leaveLoop
            \/ restoreAddr \/ restoreBank \/ restoreFlags \/ restoreColors
            \/ kernalInterrupt

FlipSpec == FlipInit /\ [][FlipNext]_flipVars

-----------------------------------------------------------------------------
(* The page that is drawn is never the one that is shown.                  *)
shown == IF bank = "demo" THEN addr ELSE "text"

HiddenPageDrawn == /\ flipPc = "draw1" => shown # "page1"
                   /\ flipPc = "draw2" => shown # "page2"

(* Between two frames the page finished last is shown, whatever the        *)
(* interrupt handler does.                                                 *)
LatestFrameShown == flipPc \in {"draw1", "loop", "draw2"} /\ latest # "none" => shown = latest

(* At the end everything is as it was.                                     *)
ScreenRestored ==
  flipPc = "end" => addr = "text" /\ bank = "text" /\ flags = "text" /\ colors = "text"

(* Together: nobody sees a half-drawn frame, or that the demo was there.   *)
NoFlicker == HiddenPageDrawn /\ LatestFrameShown /\ ScreenRestored
=============================================================================
