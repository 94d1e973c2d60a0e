----------------------------- MODULE KeyboardDriver -----------------------------
(***************************************************************************)
(* The PS/2 keyboard driver of Potpourri6502 (pckybd.asm): KBINPUT waits   *)
(* for scan codes and returns a character.  The keyboard may send only     *)
(* while kbget waits, and is stopped otherwise; keys come at any point.  A *)
(* byte may arrive damaged, in either direction, and is sent again; a byte *)
(* may not be acknowledged by the keyboard, and kbsend starts the keyboard *)
(* anew, wherever it was called from.                                      *)
(*                                                                         *)
(* "pc" names the place to go on at, "calls" holds the return addresses.   *)
(* A place that begins with a kbget is left when a byte is there.          *)
(***************************************************************************)
EXTENDS Ps2Keyboard

CONSTANTS MaxErrors,     (* bound: bytes that arrive damaged               *)
          MaxRefused     (* bound: bytes that are not acknowledged         *)

ASSUME DriverAssumption == MaxErrors \in Nat /\ MaxRefused \in Nat

VARIABLES
  pc, calls,
  special,       (* the bits that are set                                  *)
  lastbyte,      (* the byte sent last, for a resend                       *)
  skip,          (* X in kbBrk: codes still to be ignored                  *)
  char,          (* the character to be returned                           *)
  returned,      (* history: the characters returned                       *)
  restarted,     (* history: the keyboard was started anew                 *)
  errors, refused

driverVars == <<pc, calls, special, lastbyte, skip, char, returned, restarted,
                errors, refused>>
vars == <<keyboardVars, driverVars>>

Init ==
  /\ KeyboardInit
  /\ pc = "kbinit" /\ calls = <<"program">>
  /\ special = {} /\ lastbyte = command("00") /\ skip = 0
  /\ char = <<>> /\ returned = <<>> /\ restarted = FALSE
  /\ errors = 0 /\ refused = 0

goto(l) == IF l = "rts" THEN pc' = Last(calls) /\ calls' = Front(calls)
                        ELSE pc' = l /\ UNCHANGED calls
jsr(l, back) == /\ pc' = l
                /\ calls' = IF back = "rts" THEN calls ELSE Append(calls, back)

(* kbsend, with the place to go on at.                                     *)
kbsend(c, next) ==
  /\ lastbyte' = c
  /\ \/ receive(c) /\ goto(next) /\ UNCHANGED <<errors, refused, restarted>>
     \/ /\ errors < MaxErrors /\ errors' = errors + 1
        /\ receiveDamaged /\ goto(next)
        /\ UNCHANGED <<refused, restarted>>
     \/ /\ refused < MaxRefused /\ refused' = refused + 1
        /\ jsr("kbinit", next) /\ restarted' = TRUE
        /\ UNCHANGED <<keyboardVars, errors>>

(* A byte that arrives damaged: kbget asks for it again.                   *)
kbgetAgain ==
  /\ errors < MaxErrors /\ errors' = errors + 1
  /\ lastbyte' = command("FE")
  /\ \/ handOverAgain /\ UNCHANGED <<pc, calls, refused, restarted>>
     \/ /\ refused < MaxRefused /\ refused' = refused + 1
        /\ handOver
        /\ jsr("kbinit", pc) /\ restarted' = TRUE
  /\ UNCHANGED <<special, skip, char>>

(* kbget, with what is done with the byte.                                 *)
kbget(use(_)) ==
  \/ handOver /\ use(nextByte) /\ UNCHANGED <<lastbyte, errors, refused>>
  \/ kbgetAgain

(* A place that only sends, or only jumps.                                 *)
sends(c, next) ==
  kbsend(c, next) /\ UNCHANGED <<special, skip, char, returned>>
jumps == UNCHANGED <<keyboardVars, lastbyte, skip, char, errors, refused>>

-----------------------------------------------------------------------------
(* kbinit resets the keyboard, and falls into kbsled, which sets the LEDs. *)
answered(b, next, otherwise) ==
  kbget(LAMBDA a : /\ goto(IF a = b THEN next ELSE otherwise)
                   /\ UNCHANGED <<special, skip, char, restarted>>)
  /\ UNCHANGED returned

kbinit == /\ pc = "kbinit"
          /\ special' = {"num"}
          /\ goto("kbinit1")
          /\ jumps /\ UNCHANGED <<returned, restarted>>
kbinit1  == pc = "kbinit1" /\ sends(command("FF"), "resetAck")
resetAck == pc = "resetAck" /\ answered("FA", "resetOk", "kbinit1")
(* Mutant: a second acknowledgement is expected.                           *)
resetOkAck == pc = "resetOk" /\ answered("FA", "kbsled", "kbinit1")
resetOk  == pc = "resetOk" /\ answered("AA", "kbsled", "kbinit1")
kbsled   == pc = "kbsled" /\ sends(command("ED"), "ledsAck")
ledsAck  == pc = "ledsAck" /\ answered("FA", "ledsSend", "kbsled")

(* The answer to the set of LEDs is left for the next kbget.               *)
ledsSend == pc = "ledsSend" /\ sends(ledByte(special \ {"ctrl", "shift"}), "rts")

-----------------------------------------------------------------------------
(* kbinput: scroll lock goes off while it waits, and on when it returns.   *)
kbtscrl(here, test) ==
  /\ pc = here
  /\ special' = toggled(special, "scroll")
  /\ jsr("kbsled", test)
  /\ jumps /\ UNCHANGED <<returned, restarted>>

kbinput == kbtscrl("kbinput", "isOff")
kbdone1 == kbtscrl("kbdone1", "isOn")

isOff == /\ pc = "isOff"
         /\ goto(IF "scroll" \in special THEN "kbinput" ELSE "kbinput1")
         /\ jumps /\ UNCHANGED <<special, returned, restarted>>
isOn == /\ pc = "isOn"
        /\ goto(IF "scroll" \in special THEN "rts" ELSE "kbdone1")
        /\ returned' = IF "scroll" \in special THEN Append(returned, char) ELSE returned
        /\ jumps /\ UNCHANGED <<special, restarted>>

(* The program asks for one character after the other.                     *)
callKbinput == /\ pc = "program"
               /\ jsr("kbinput", "program")
               /\ jumps /\ UNCHANGED <<special, returned, restarted>>

-----------------------------------------------------------------------------
(* The character for a scan code: ASCIITBL, both halves, behind the tests  *)
(* for the keypad, shift and caps lock.                                    *)
kbcnvt(code) ==
  LET plainOr(k, shifted) == IF shifted THEN <<k, "shifted">> ELSE <<k, "plain">>
      shift == "shift" \in special
  IN  CASE code = "1C" -> plainOr("letter", shift \/ "caps" \in special)
        [] code = "02" -> plainOr("F7", shift)
        [] code = "0F" -> plainOr("print", shift)
        [] code = "10" -> plainOr("pause", FALSE)
        [] code = "75" -> plainOr("keypad", "num" \notin special)
        [] code = "F5" -> plainOr("cursor", TRUE)
        [] code = "7C" -> plainOr("keypad *", "num" \notin special)
        [] code = "FA" -> plainOr("page down", TRUE)
        [] code = "FE" -> plainOr("scroll", TRUE)
        [] OTHER       -> <<>>

(* A code is converted: a code without a character is dropped, control     *)
(* with print screen starts the keyboard anew (kbreinit), and anything     *)
(* else is the character to be returned.                                   *)
convert(code) ==
  LET c    == kbcnvt(code)
      ctrl == "ctrl" \in special
  IN  CASE c = <<>> ->
             goto("kbinput1") /\ UNCHANGED <<char, restarted>>
        [] c = <<"print", "plain">> /\ ctrl ->
             jsr("kbinit", "kbinput") /\ restarted' = TRUE /\ UNCHANGED char
        [] OTHER ->
             /\ goto("kbdone1")
             /\ char' = IF ctrl /\ c[1] # "pause" THEN <<c[1], "ctrl">> ELSE c
             /\ UNCHANGED restarted

(* Nothing to convert: the next code.                                      *)
kbnull == goto("kbinput1") /\ UNCHANGED <<char, restarted>>

set(bit)   == special' = special \cup {bit} /\ kbnull
clear(bit) == special' = special \ {bit} /\ kbnull

(* kbinput1: kbcsrch looks for the codes that are not characters.          *)
commands == {"58", "12", "14", "77", "E1", "E0", "F0", "FA", "AA", "FE", "FF"}

kbcsrch(b) ==
  \/ b \notin commands /\ convert(IF b = "83" THEN "02" ELSE b) /\ UNCHANGED <<special, skip>>
  \/ b = "12" /\ set("shift") /\ UNCHANGED skip
  \/ b = "14" /\ set("ctrl") /\ UNCHANGED skip
  \/ b \in {"FA", "AA"} /\ kbnull /\ UNCHANGED <<special, skip>>
  \/ /\ b \in {"58", "77"}
     /\ special' = toggled(special, IF b = "58" THEN "caps" ELSE "num")
     /\ jsr("kbsled", "kbinput1")
     /\ UNCHANGED <<skip, char, restarted>>
  \/ /\ b \in {"E0", "F0", "E1", "FE", "FF"}
     /\ goto(CASE b = "E0" -> "kbExt" [] b = "F0" -> "kbrlse" [] b = "E1" -> "kbBrk"
               [] b = "FE" -> "kbresend" [] b = "FF" -> "kbflush")
     /\ skip' = IF b = "E1" THEN 7 ELSE skip
     /\ UNCHANGED <<special, char, restarted>>

kbinput1 == pc = "kbinput1" /\ kbget(kbcsrch) /\ UNCHANGED returned

(* Mutant: asks for a resend instead of resending.                         *)
kbresendAsks == pc = "kbresend" /\ sends(command("FE"), "kbinput1")
kbresend == pc = "kbresend" /\ sends(lastbyte, "kbinput1")

(* kbflush ends in kbdis and returns what that left in A, the bit of the   *)
(* clock line: the code of the pause key.                                  *)
kbflush == pc = "kbflush" /\ sends(command("F4"), "flushed")
flushed == /\ pc = "flushed"
           /\ convert("10")
           /\ UNCHANGED <<keyboardVars, special, lastbyte, skip, returned, errors, refused>>

(* Mutant: the release of an extended key is not told from the key.        *)
kbextNoRelease(b) ==
  \/ b = "14" /\ set("ctrl")
  \/ /\ b # "14"
     /\ convert(CASE b = "12" -> "00" [] b = "7C" -> "0F" [] b = "75" -> "F5" [] OTHER -> b)
     /\ UNCHANGED special

(* kbExt: the codes behind E0.                                             *)
kbext(b) ==
  \/ /\ b = "F0" /\ goto("kbexrls")
     /\ UNCHANGED <<special, char, restarted>>
  \/ b = "14" /\ set("ctrl")
  \/ /\ b \notin {"F0", "14"}
     /\ convert(CASE b = "12" -> "00" [] b = "7C" -> "0F" [] b = "75" -> "F5" [] OTHER -> b)
     /\ UNCHANGED special

kbExt == /\ pc = "kbExt"
         /\ kbget(LAMBDA b : kbext(b) /\ UNCHANGED skip)
         /\ UNCHANGED returned

(* Mutant: the simulated shift counts.                                     *)
kbreleaseShift(b, extended) ==
  CASE b = "14" -> clear("ctrl")
    [] b = "12" -> clear("shift")
    [] OTHER    -> kbnull /\ UNCHANGED special

(* kbrlse and kbexrls: the codes behind F0 and E0 F0; a simulated shift is *)
(* not a shift.                                                            *)
kbrelease(b, extended) ==
  CASE b = "14"              -> clear("ctrl")
    [] b = "12" /\ ~extended -> clear("shift")
    [] OTHER                 -> kbnull /\ UNCHANGED special

kbrlse == /\ pc \in {"kbrlse", "kbexrls"}
          /\ kbget(LAMBDA b : kbrelease(b, pc = "kbexrls") /\ UNCHANGED skip)
          /\ UNCHANGED returned

(* kbBrk: the seven codes behind E1 are ignored.                           *)
kbBrk == /\ pc = "kbBrk"
         /\ kbget(LAMBDA b : /\ skip' = skip - 1
                             /\ IF skip = 1 THEN convert("10")
                                ELSE goto("kbBrk") /\ UNCHANGED <<char, restarted>>
                             /\ UNCHANGED special)
         /\ UNCHANGED returned

-----------------------------------------------------------------------------
Driver ==
  \/ kbinit \/ kbinit1 \/ resetAck \/ resetOk \/ kbsled \/ ledsAck \/ ledsSend
  \/ kbinput \/ isOff \/ kbinput1 \/ kbdone1 \/ isOn \/ callKbinput
  \/ kbresend \/ kbflush \/ flushed \/ kbExt \/ kbrlse \/ kbBrk

Next == (User /\ UNCHANGED driverVars) \/ Driver

(* The machine runs, and its program calls KBINPUT in a loop.              *)
Spec == Init /\ [][Next]_vars /\ WF_vars(Driver)

-----------------------------------------------------------------------------
Waiting  == pc = "kbinput1" /\ ~ready
Faithful == ~forgotten /\ ~restarted

(* Unless the keyboard lost codes or was started anew, the program gets    *)
(* the characters that were typed, in order and once: no key is taken for  *)
(* another because a modifier, a lock or one of the bytes of a long code   *)
(* was read at the wrong time, damaged and sent again, or mixed up with an *)
(* answer.                                                                 *)
InOrder == IsPrefix(returned, typed)

(* And it gets them all in the end, if not more than one byte is damaged:  *)
(* when the LED command and the request to send it again both are, driver  *)
(* and keyboard ask each other for the set of LEDs for ever.               *)
KeysDelivered == /\ [](Faithful => InOrder)
                 /\ <>[](Faithful /\ errors <= 1 => returned = typed)

(* When everything was read, the driver knows the keys that are down and   *)
(* the locks that are on.                                                  *)
ModifiersTracked ==
  Waiting /\ Faithful =>
    /\ special \cap {"shift", "ctrl"} = held \cap {"shift", "ctrl"}
    /\ special \cap {"num", "caps"} = locks

(* The LEDs show the locks and, in scroll lock, that the driver waits,     *)
(* even if the set of LEDs was damaged on its way: the keyboard asks for   *)
(* it where the driver waits for a key, and kbresend still has it - unless *)
(* that request is damaged, too: asking for it again, kbget forgets what   *)
(* was to be sent.  (A byte that is never acknowledged is not repeated but *)
(* resets everything.)  A program that has its character sees scroll lock  *)
(* lit, one that waits for it sees it out: "Scroll Lock LED on = Not ready *)
(* for input".                                                             *)
LedsShown ==
  refused = 0 /\ errors <= 1 =>
    /\ Waiting => leds = special \ {"ctrl", "shift"} /\ "scroll" \notin leds
    /\ errors = 0 /\ pc = "program" /\ returned # <<>> => "scroll" \in leds

(* Unless a byte is not acknowledged, the driver always comes back to wait *)
(* for what the user types, at the latest in the middle of a code that the *)
(* keyboard cut off: no damaged byte, overflow or restart by control and   *)
(* print screen leaves the two of them talking for ever.  (Two damaged     *)
(* bytes can: see KeysDelivered.)                                          *)
ComesBack ==
  []<>(\/ pc \in {"kbinput1", "kbExt", "kbrlse", "kbexrls", "kbBrk"} /\ ~ready
       \/ refused > 0 \/ errors > 1)
=============================================================================
