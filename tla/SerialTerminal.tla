--------------------------- MODULE SerialTerminal ---------------------------
(***************************************************************************)
(* The serial console of Symon: the keyboard's type-ahead buffer           *)
(* (Console, FifoRingBuffer), the one-byte registers of the simulated ACIA *)
(* (Acia, Acia6551, Acia6850), the transfers Simulator.step makes between  *)
(* them after every instruction, and the guest program that echoes what is *)
(* typed: by polling the status, as the loop made of ACIA_READ and         *)
(* ACIA_ECHO of Potpourri6502/acia.asm and samples/echo_poll.asm do, or    *)
(* from a receive interrupt, as samples/echo_irq/echo_irq.asm does.        *)
(*                                                                         *)
(* Three threads meet here: the event dispatch thread types keys and       *)
(* repaints the memory window, whose cells are read over the bus; the run  *)
(* loop executes Simulator.step; and time passes, which ends the delays of *)
(* the simulated baud rate.  A character is the number of the key press    *)
(* that made it, 0 is no character.                                        *)
(***************************************************************************)
EXTENDS Integers, Sequences, FiniteSets

CONSTANTS
  Kind,          (* "6551" or "6850": which ACIA the machine has           *)
  Guest,         (* "poll" or "irq": how the guest program receives        *)
  BaudDelay,     (* whether a baud rate is set (else the delay is 0)       *)
  MemoryWindow,  (* whether the memory window shows the page of the ACIA   *)
  MaxTypeAhead,  (* capacity of the type-ahead buffer (128)                *)
  MaxTyped       (* bound: keys pressed                                    *)

ASSUME TerminalAssumption ==
  /\ Kind \in {"6551", "6850"} /\ Guest \in {"poll", "irq"}
  /\ BaudDelay \in BOOLEAN /\ MemoryWindow \in BOOLEAN
  /\ MaxTypeAhead \in Nat \ {0} /\ MaxTyped \in Nat

VARIABLES
  keys,      (* Console.typeAheadBuffer                                    *)
  acia,      (* the fields of Acia; rxHeld and txHeld: less time passed    *)
             (* since lastRxRead and lastTxWrite than baudRateDelay        *)
  irq,       (* CpuState.irqAsserted                                       *)
  at, a,     (* where the guest is in its program, and its accumulator     *)
  typed,     (* history: keys pressed,                                     *)
  received,  (*   characters the guest has read,                           *)
  printed,   (*   characters printed on the console,                       *)
  since      (*   what came since the guest read the data register last,   *)
             (*   or reset the ACIA: how many characters arrived, and      *)
             (*   whether the memory window has taken one of them          *)

guestVars == <<at, a, received>>
vars == <<keys, acia, irq, at, a, typed, received, printed, since>>

Chars == 1 .. MaxTyped
Acias == [rxChar : 0 .. MaxTyped, rxFull : BOOLEAN, overrun : BOOLEAN,
          txChar : 0 .. MaxTyped, txEmpty : BOOLEAN,
          receiveIrqEnabled : BOOLEAN, transmitIrqEnabled : BOOLEAN,
          rxHeld : BOOLEAN, txHeld : BOOLEAN]

Nothing == [arrived |-> 0, taken |-> FALSE]

Init ==
  /\ keys = <<>>
  /\ acia = [rxChar |-> 0, rxFull |-> FALSE, overrun |-> FALSE,
             txChar |-> 0, txEmpty |-> TRUE,
             receiveIrqEnabled |-> FALSE, transmitIrqEnabled |-> FALSE,
             rxHeld |-> FALSE, txHeld |-> FALSE]
  /\ irq = FALSE
  /\ at = "init" /\ a = 0
  /\ typed = 0 /\ received = <<>> /\ printed = <<>> /\ since = Nothing

-----------------------------------------------------------------------------
(* FifoRingBuffer.push, and the event dispatch thread.                     *)

(* Mutants: a buffer without a bound; a full buffer refuses the newest.       *)
pushUnbounded(q, v) == Append(q, v)
pushRefusing(q, v) == IF Len(q) = MaxTypeAhead THEN q ELSE Append(q, v)

push(q, v) == IF Len(q) = MaxTypeAhead THEN Append(Tail(q), v) ELSE Append(q, v)

keyTyped ==
  /\ typed < MaxTyped
  /\ typed' = typed + 1
  /\ keys' = push(keys, typed + 1)
  /\ UNCHANGED <<acia, irq, at, a, received, printed, since>>

-----------------------------------------------------------------------------
(* The ACIA.                                                               *)

(* Mutant: overrun is forgotten.                                           *)
rxWriteNoOverrun(r, v) == [r EXCEPT !.rxChar = v, !.rxFull = TRUE]

rxWrite(r, v) == [r EXCEPT !.overrun = @ \/ r.rxFull,
                           !.rxChar = v, !.rxFull = TRUE]

(* Mutant: a character stays available once read.                          *)
rxReadKeeping(r) == [r EXCEPT !.overrun = FALSE, !.rxHeld = BaudDelay]
rxRead(r) == [r EXCEPT !.overrun = FALSE, !.rxFull = FALSE, !.rxHeld = BaudDelay]

(* Mutant: a character read by the console stays in the register.          *)
txReadKeeping(r) == r
txRead(r) == [r EXCEPT !.txEmpty = TRUE]

txWrite(r, v) == [r EXCEPT !.txChar = v, !.txEmpty = FALSE, !.txHeld = BaudDelay]

(* The bits of the status register the guest looks at.                     *)
rxStatus(r) == r.rxFull /\ ~r.rxHeld
txStatus(r) == r.txEmpty /\ ~r.txHeld

reset(r) ==
  IF Kind = "6551"
  THEN [r EXCEPT !.txChar = 0, !.txEmpty = TRUE, !.rxChar = 0, !.rxFull = FALSE,
                 !.receiveIrqEnabled = FALSE, !.transmitIrqEnabled = FALSE]
  ELSE [r EXCEPT !.overrun = FALSE, !.rxFull = FALSE, !.txEmpty = TRUE]

setCommandRegister(r, rx, tx) ==
  [r EXCEPT !.receiveIrqEnabled = rx, !.transmitIrqEnabled = tx]

(* Enough time has passed since the last read or write of a character.     *)
RxDelayOver == /\ acia.rxHeld
               /\ acia' = [acia EXCEPT !.rxHeld = FALSE]
               /\ UNCHANGED <<keys, irq, at, a, typed, received, printed, since>>

TxDelayOver == /\ acia.txHeld
               /\ acia' = [acia EXCEPT !.txHeld = FALSE]
               /\ UNCHANGED <<keys, irq, at, a, typed, received, printed, since>>

(* Repainting the memory window reads the data register of the ACIA.       *)
getValueAt ==
  /\ MemoryWindow
  /\ acia' = rxRead(acia)
  /\ since' = [since EXCEPT !.taken = @ \/ since.arrived > 0]
  /\ UNCHANGED <<keys, irq, at, a, typed, received, printed>>

-----------------------------------------------------------------------------
(* Simulator.step: an instruction that leaves the ACIA as r and the        *)
(* interrupt line as line, then the transfers.                             *)

transmit(r) == IF r.txEmpty THEN r ELSE txRead(r)

receive(r) == IF keys = <<>> THEN r ELSE rxWrite(r, Head(keys))

(* Mutant: no receive interrupt while a character is being transmitted.    *)
interruptsHalfDuplex(r, t) ==
  \/ ~r.txEmpty /\ r.transmitIrqEnabled
  \/ r.txEmpty /\ keys # <<>> /\ t.receiveIrqEnabled

interrupts(r, t) ==
  \/ ~r.txEmpty /\ r.transmitIrqEnabled
  \/ keys # <<>> /\ t.receiveIrqEnabled

(* The methods of the ACIA are synchronized, the step is not: the memory   *)
(* window may read the data register before the transfers.                 *)
step(r, line, came) ==
  \E peeked \in {FALSE, MemoryWindow} :
    LET sent == transmit(r)
        t    == IF peeked THEN rxRead(sent) ELSE sent
    IN  /\ acia' = receive(t)
        /\ keys' = IF keys = <<>> THEN keys ELSE Tail(keys)
        /\ irq' = (line \/ interrupts(r, t))
        /\ since' = [arrived |-> came.arrived + IF keys = <<>> THEN 0 ELSE 1,
                      taken   |-> came.taken \/ (peeked /\ came.arrived > 0)]
        /\ printed' = IF r.txEmpty THEN printed ELSE Append(printed, r.txChar)
        /\ UNCHANGED typed

goto(next) == at' = next /\ UNCHANGED <<a, received>>

-----------------------------------------------------------------------------
(* The guest: an initialization, and a loop with "main" where it waits for *)
(* a character.                                                            *)

(* A guest that waits with interrupts enabled is interrupted before its    *)
(* next instruction; the handlers run with interrupts masked.              *)
Interrupted == Guest = "irq" /\ irq

(* Between the instructions below any number of others, which leave the    *)
(* ACIA alone; Simulator.step makes its transfers after each.              *)
GuestOther ==
  /\ ~(at = "main" /\ Interrupted)
  /\ step(acia, irq, since)
  /\ goto(at)

(* STA to the command register: with bit 1 clear for the receive interrupt.*)
GuestInit ==
  /\ at = "init"
  /\ step(setCommandRegister(acia, Guest = "irq", FALSE), irq, since)
  /\ goto("main")

(* BIT ACIA_SR, BEQ: the polling guest.                                    *)
GuestStatus ==
  /\ at = "main"
  /\ Guest = "poll"
  /\ step(acia, irq, since)
  /\ goto(IF rxStatus(acia) THEN "get" ELSE "main")

(* LDA ACIA_RX                                                             *)
GuestGet ==
  /\ at = "get"
  /\ step(rxRead(acia), irq, Nothing)
  /\ a' = acia.rxChar
  /\ received' = Append(received, acia.rxChar)
  /\ at' = "echo"

(* Cpu.step takes the interrupt, which clears irqAsserted, and executes    *)
(* the first instruction of the handler: LDA IOBASE, whatever the status.  *)
GuestInterrupt ==
  /\ at = "main" /\ Interrupted
  /\ step(rxRead(acia), FALSE, Nothing)
  /\ a' = acia.rxChar
  /\ received' = Append(received, acia.rxChar)
  /\ at' = "echo"

(* LDA ACIA_SR, AND #$10, BEQ                                              *)
GuestEcho ==
  /\ at = "echo"
  /\ step(acia, irq, since)
  /\ goto(IF txStatus(acia) THEN "put" ELSE "echo")

(* STA ACIA_TX                                                             *)
GuestPut ==
  /\ at = "put"
  /\ step(txWrite(acia, a), irq, since)
  /\ goto("return")

(* RTI, or RTS or JMP to the loop.                                         *)
GuestReturn ==
  /\ at = "return"
  /\ step(acia, irq, since)
  /\ goto("main")

(* The polling guest may reprogram the ACIA while it waits: STA ACIA_SR,   *)
(* or a master reset, followed by the initialization.                      *)
GuestReset ==
  /\ at = "main"
  /\ Guest = "poll"
  /\ step(setCommandRegister(reset(acia), FALSE, FALSE), irq, Nothing)
  /\ goto("init")

GuestStep == \/ GuestInit \/ GuestStatus \/ GuestGet \/ GuestInterrupt
             \/ GuestEcho \/ GuestPut \/ GuestReturn

Next == \/ keyTyped \/ getValueAt \/ RxDelayOver \/ TxDelayOver
        \/ GuestStep \/ GuestOther \/ GuestReset

SafetySpec == Init /\ [][Next]_vars

(* A guest that does not reprogram the ACIA, and no memory window.         *)
LiveNext == \/ keyTyped \/ RxDelayOver \/ TxDelayOver
            \/ GuestStep \/ GuestOther

-----------------------------------------------------------------------------
TypeOK ==
  /\ keys \in Seq(Chars) /\ Len(keys) <= MaxTypeAhead
  /\ acia \in Acias
  /\ irq \in BOOLEAN /\ since \in [arrived : Nat, taken : BOOLEAN]
  /\ at \in {"init", "main", "get", "echo", "put", "return"}
  /\ a \in 0 .. MaxTyped /\ typed \in 0 .. MaxTyped
  /\ received \in Seq(Chars) /\ printed \in Seq(Chars)

(* Characters may be lost, but the guest reads those it gets in the order  *)
(* they were typed, and none twice, whoever else reads the register.       *)
OrderKept ==
  \A i, j \in DOMAIN received : i < j => received[i] < received[j]

(* The console shows every character the guest echoes once, in order, and  *)
(* nothing else; at most the last one is still to come.                    *)
EchoIsFaithful ==
  /\ Len(received) - Len(printed) \in {0, 1}
  /\ \A k \in DOMAIN printed : printed[k] = received[k]

(* When more than one character arrived since the guest read the data      *)
(* register last, or reset the ACIA, the overrun bit tells it that some    *)
(* are gone, however keys, delays and instructions fell.  Not when the     *)
(* memory window has taken one: its read takes the report with it.         *)
LossReported == since.arrived > 1 /\ ~since.taken => acia.overrun

(* Once the interrupt-driven guest has read a character, each one that     *)
(* waits in the receiver has an interrupt pending, also while the handler  *)
(* of another runs, and with a baud delay that hides it in the status.     *)
(* (One that came before the interrupt was enabled has none.)              *)
InterruptPending ==
  acia.receiveIrqEnabled /\ received # <<>> /\ acia.rxFull => irq
=============================================================================
