-------------------------------- MODULE MouseTest --------------------------------
(***************************************************************************)
(* The mouse sample (mousetest.c).  The mouse driver moves the pointer     *)
(* between any two steps, within its box; the program reads the position   *)
(* at the top of its loop and uses it when a key was pressed.  Along one   *)
(* axis.                                                                   *)
(***************************************************************************)
EXTENDS Integers, FiniteSetsExt

CONSTANTS
  Width,               (* the pointer is in 0..Width                       *)
  Reach,               (* half of the small box                            *)
  MaxPresses           (* bound: keys                                      *)

ASSUME MouseAssumption == Width \in Nat /\ Reach \in Nat /\ MaxPresses \in Nat

VARIABLES
  pos, box, hidden,    (* the driver: pointer, its box, calls of hide      *)
  mouseAt,             (* where the program is                             *)
  info,                (* the position it read                             *)
  Invisible, Jailed,   (* its variables                                    *)
  stateShown,          (* what the screen says of them                     *)
  presses

mouseVars == <<pos, box, hidden, mouseAt, info, Invisible, Jailed, stateShown, presses>>

full_box == [min |-> 0, max |-> Width]

MouseInit ==
  /\ pos = 0 /\ box = full_box /\ hidden = 1
  /\ mouseAt = "info" /\ info = 0
  /\ Invisible = 1 /\ Jailed = FALSE
  /\ stateShown = [invisible |-> TRUE, jailed |-> FALSE]
  /\ presses = 0

PointerMoves ==
  /\ pos' \in box.min..box.max
  /\ UNCHANGED <<box, hidden, mouseAt, info, Invisible, Jailed, stateShown, presses>>

ShowState(jailed, invisible) == stateShown' = [invisible |-> invisible # 0, jailed |-> jailed]

mouse_info ==
  /\ mouseAt = "info" /\ mouseAt' = "key"
  /\ info' = pos
  /\ UNCHANGED <<pos, box, hidden, Invisible, Jailed, stateShown, presses>>

NoKey == /\ mouseAt = "key" /\ mouseAt' = "info"
         /\ UNCHANGED <<pos, box, hidden, info, Invisible, Jailed, stateShown, presses>>

press == mouseAt = "key" /\ presses < MaxPresses /\ presses' = presses + 1
again == mouseAt' = "info" /\ UNCHANGED <<pos, info>>

(* "d": the screen is drawn anew behind the debugger.                      *)
KeyD == press /\ again /\ ShowState(Jailed, Invisible) /\ UNCHANGED <<box, hidden, Invisible, Jailed>>

KeyH == /\ press /\ again
        /\ hidden' = hidden + 1
        /\ Invisible' = (Invisible + 1) % 256
        /\ ShowState(Jailed, Invisible')
        /\ UNCHANGED <<box, Jailed>>

KeyS == /\ press /\ again
        /\ hidden' = IF hidden > 0 THEN hidden - 1 ELSE 0
        /\ IF Invisible # 0
           THEN Invisible' = Invisible - 1 /\ ShowState(Jailed, Invisible')
           ELSE UNCHANGED <<Invisible, stateShown>>
        /\ UNCHANGED <<box, Jailed>>

KeyJ == /\ press /\ again
        /\ box' = IF Jailed THEN full_box
                  ELSE [min |-> Max({info - Reach, full_box.min}),
                        max |-> Min({info + Reach, full_box.max})]
        /\ Jailed' = ~Jailed
        /\ ShowState(Jailed', Invisible)
        /\ UNCHANGED <<hidden, Invisible>>

KeyQ == /\ press /\ mouseAt' = "done"
        /\ UNCHANGED <<pos, box, hidden, info, Invisible, Jailed, stateShown>>

MouseNext ==
  PointerMoves \/ mouse_info \/ NoKey \/ KeyD \/ KeyH \/ KeyS \/ KeyJ \/ KeyQ

MouseSpec == MouseInit /\ [][MouseNext]_mouseVars

-----------------------------------------------------------------------------
(* What the screen says of the pointer is so: it is called invisible as    *)
(* long as there were more calls to hide it than to show it, and jailed as *)
(* long as its box is the small one, around the place where it was read.   *)
PointerTextTrue ==
  /\ stateShown.invisible <=> hidden > 0
  /\ stateShown.jailed <=> Jailed
  /\ Jailed => full_box.min <= box.min /\ box.max <= full_box.max
               /\ box.max - box.min <= 2 * Reach
  /\ ~Jailed => box = full_box
=============================================================================
