------------------------------ MODULE Ps2Keyboard -------------------------------
(***************************************************************************)
(* A PS/2 keyboard as pckybd.asm uses it.  It sends scan codes whenever    *)
(* the host lets it, keeps them in a buffer of its own meanwhile, and      *)
(* answers commands; an answer goes before scan codes, and a new command   *)
(* drops an answer that was not fetched.                                   *)
(*                                                                         *)
(* Bytes are strings; one that is sent to the keyboard is a pair of the   *)
(* byte and, if it is the argument of the LED command, the set of LEDs.    *)
(* The keys are a letter, F7, a key of the keypad, a cursor key and print  *)
(* screen (extended keys, which come with a simulated shift), pause, and   *)
(* one shift, control, caps lock and num lock key.                         *)
(***************************************************************************)
EXTENDS Integers, Sequences, SequencesExt

CONSTANTS Keys,          (* the keys in use                                *)
          BufferSize,    (* scan codes the keyboard keeps                  *)
          MaxEvents      (* bound: presses and releases                    *)

ASSUME KeyboardAssumption ==
  /\ Keys \subseteq {"letter", "F7", "keypad", "cursor", "print", "pause",
                      "shift", "ctrl", "caps", "num"}
  /\ BufferSize \in Nat \ {0} /\ MaxEvents \in Nat

VARIABLES
  held,          (* the keys that are down                                 *)
  buffered,      (* scan codes to be sent                                  *)
  answer,        (* what is left of the answer to a command                *)
  wantsLeds,     (* the next byte is the argument of the LED command       *)
  leds,          (* the LEDs that are lit                                  *)
  sent,          (* the byte sent last, requests to resend aside           *)
  locks,         (* history: caps and num lock as the user toggled them    *)
  typed,         (* history: the characters typed, in order                *)
  forgotten,     (* history: scan codes were lost in the keyboard          *)
  events         (* presses and releases so far                            *)

keyboardVars == <<held, buffered, answer, wantsLeds, leds, sent, locks, typed,
                  forgotten, events>>

KeyboardInit ==
  /\ held = {} /\ buffered = <<>> /\ answer = <<>> /\ wantsLeds = FALSE
  /\ leds = {} /\ sent = "AA" /\ locks = {"num"}
  /\ typed = <<>> /\ forgotten = FALSE /\ events = 0

make(k) == CASE k = "letter" -> <<"1C">>
             [] k = "F7"     -> <<"83">>
             [] k = "keypad" -> <<"75">>
             [] k = "cursor" -> <<"E0", "12", "E0", "75">>
             [] k = "print"  -> <<"E0", "12", "E0", "7C">>
             [] k = "pause"  -> <<"E1", "14", "77", "E1", "F0", "14", "F0", "77">>
             [] k = "shift"  -> <<"12">>
             [] k = "ctrl"   -> <<"14">>
             [] k = "caps"   -> <<"58">>
             [] k = "num"    -> <<"77">>

break(k) == CASE k = "cursor" -> <<"E0", "F0", "75", "E0", "F0", "12">>
              [] k = "print"  -> <<"E0", "F0", "7C", "E0", "F0", "12">>
              [] k = "pause"  -> <<>>
              [] OTHER        -> <<"F0">> \o make(k)

(* The character a key stands for, by the keys that are down and the locks *)
(* that are on: none for a modifier, nor for control and print screen.     *)
character(k) ==
  LET plainOr(shifted) == IF shifted THEN <<k, "shifted">> ELSE <<k, "plain">>
      shift == "shift" \in held
      ctrl  == "ctrl" \in held
  IN  IF k \in {"shift", "ctrl", "caps", "num"} \/ (k = "print" /\ ctrl /\ ~shift) THEN <<>>
      ELSE IF ctrl /\ k # "pause" THEN <<<<k, "ctrl">>>>
      ELSE <<CASE k = "letter" -> plainOr(shift \/ "caps" \in locks)
               [] k = "keypad" -> plainOr("num" \notin locks)
               [] k = "cursor" -> plainOr(TRUE)
               [] k = "pause"  -> plainOr(FALSE)
               [] OTHER        -> plainOr(shift)>>

toggled(set, x) == IF x \in set THEN set \ {x} ELSE set \cup {x}

(* A code that finds the buffer full is lost, and the last one becomes the *)
(* overflow code.                                                          *)
put(codes) ==
  LET all == buffered \o codes
  IN  IF Len(all) <= BufferSize
      THEN buffered' = all /\ UNCHANGED forgotten
      ELSE /\ buffered' = Append(SubSeq(all, 1, BufferSize - 1), "FF")
           /\ forgotten' = TRUE

(* A key goes down, or a letter repeats.                                   *)
Press(k) ==
  /\ events < MaxEvents /\ events' = events + 1
  /\ k \notin held \/ k = "letter"
  /\ held' = held \cup {k}
  /\ put(make(k))
  /\ locks' = IF k \in {"caps", "num"} THEN toggled(locks, k) ELSE locks
  /\ typed' = typed \o character(k)
  /\ UNCHANGED <<answer, wantsLeds, leds, sent>>

Release(k) ==
  /\ events < MaxEvents /\ events' = events + 1
  /\ k \in held
  /\ held' = held \ {k}
  /\ put(break(k))
  /\ UNCHANGED <<answer, wantsLeds, leds, sent, locks, typed>>

User == \E k \in Keys : Press(k) \/ Release(k)

-----------------------------------------------------------------------------
(* The keyboard hands over a byte.                                         *)
ready == answer # <<>> \/ buffered # <<>>
nextByte == IF answer # <<>> THEN Head(answer) ELSE Head(buffered)

handOver ==
  /\ ready
  /\ sent' = IF nextByte = "FE" THEN sent ELSE nextByte
  /\ IF answer # <<>> THEN answer' = Tail(answer) /\ UNCHANGED buffered
                      ELSE buffered' = Tail(buffered) /\ UNCHANGED answer
  /\ UNCHANGED <<held, wantsLeds, leds, locks, typed, forgotten, events>>

(* It hands over a byte, and is asked to send it again.  A request to      *)
(* resend is not repeated: the byte before it is.                          *)
handOverAgain ==
  /\ ready
  /\ sent' = IF nextByte = "FE" THEN sent ELSE nextByte
  /\ answer' = <<sent'>> \o (IF answer # <<>> THEN Tail(answer) ELSE <<>>)
  /\ buffered' = IF answer # <<>> THEN buffered ELSE Tail(buffered)
  /\ UNCHANGED <<held, wantsLeds, leds, locks, typed, forgotten, events>>

(* It receives a byte: the set of LEDs, or a command.                      *)
command(b) == <<b, {}>>
ledByte(set) == <<"LEDs", set>>

receive(c) ==
  LET b == c[1]
      lightsUp == wantsLeds /\ b = "LEDs"
      forgets  == b \in {"FF", "F4"}
  IN  /\ wantsLeds' = (b = "ED" \/ (wantsLeds /\ b = "FE"))
      /\ leds' = IF lightsUp THEN c[2] ELSE IF b = "FF" THEN {} ELSE leds
      /\ buffered' = IF forgets THEN <<>> ELSE buffered
      /\ forgotten' = (forgotten \/ (forgets /\ buffered # <<>>))
      /\ answer' = CASE b = "FF" -> <<"FA", "AA">>
                     [] b \in {"ED", "F4"} \/ lightsUp -> <<"FA">>
                     [] b = "FE"  -> <<sent>> \o answer
                     [] OTHER     -> <<"FE">>
      /\ UNCHANGED <<held, sent, locks, typed, events>>

(* It receives a damaged byte, and asks for it again.                      *)
receiveDamaged ==
  /\ answer' = <<"FE">>
  /\ UNCHANGED <<held, buffered, wantsLeds, leds, sent, locks, typed, forgotten, events>>
=============================================================================
