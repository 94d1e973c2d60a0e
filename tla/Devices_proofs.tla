----------------------------- MODULE Devices_proofs -----------------------------
(***************************************************************************)
(* Proofs about two devices of Symon.  The serial console: for either ACIA *)
(* and guest, with and without baud delay and memory window, for every     *)
(* capacity of the type-ahead buffer and every number of keys.  The lookup *)
(* table of the bus: for every set of devices, ranges and priorities.  The *)
(* argument for the table is the invariant Built: the devices the rebuild  *)
(* has entered so far start no higher than those it has not, so that the   *)
(* last one entered at an address is the one with the highest start.       *)
(***************************************************************************)
EXTENDS SerialTerminal, Bus, TLAPS

-----------------------------------------------------------------------------
(* The serial console (SerialTerminal).                                    *)

Since == [arrived : Nat, taken : BOOLEAN]

(* The types of the variables alone.                                       *)
Typed ==
  /\ keys \in Seq(Chars)
  /\ acia \in Acias
  /\ irq \in BOOLEAN /\ since \in Since
  /\ at \in {"init", "main", "get", "echo", "put", "return"}
  /\ a \in 0 .. MaxTyped /\ typed \in 0 .. MaxTyped
  /\ received \in Seq(Chars) /\ printed \in Seq(Chars)

(* What the guest can tell from the registers r of the characters s that   *)
(* came since it read the last one.                                        *)
Told(s, r) == ~s.taken => /\ s.arrived > 0 => r.rxFull
                          /\ s.arrived > 1 => r.overrun

LEMMA NothingTold ==
  ASSUME NEW r
  PROVE  Nothing \in Since /\ Told(Nothing, r)
  BY DEF Nothing, Since, Told

LEMMA AciaFields ==
  ASSUME NEW r \in Acias
  PROVE  /\ r.rxChar \in 0 .. MaxTyped /\ r.rxFull \in BOOLEAN
         /\ r.overrun \in BOOLEAN
         /\ r.txChar \in 0 .. MaxTyped /\ r.txEmpty \in BOOLEAN
         /\ r.receiveIrqEnabled \in BOOLEAN /\ r.transmitIrqEnabled \in BOOLEAN
         /\ r.rxHeld \in BOOLEAN /\ r.txHeld \in BOOLEAN
  BY DEF Acias

(* What the registers are after each operation of the ACIA.                *)
LEMMA RxRead ==
  ASSUME NEW r \in Acias
  PROVE  /\ rxRead(r) \in Acias
         /\ rxRead(r).rxChar = r.rxChar
         /\ rxRead(r).rxFull = FALSE
         /\ rxRead(r).overrun = FALSE
         /\ rxRead(r).txChar = r.txChar
         /\ rxRead(r).txEmpty = r.txEmpty
         /\ rxRead(r).receiveIrqEnabled = r.receiveIrqEnabled
         /\ rxRead(r).transmitIrqEnabled = r.transmitIrqEnabled
         /\ rxRead(r).rxHeld = BaudDelay
  BY TerminalAssumption DEF Acias, rxRead

LEMMA RxWrite ==
  ASSUME NEW r \in Acias, NEW v \in 0 .. MaxTyped
  PROVE  /\ rxWrite(r, v) \in Acias
         /\ rxWrite(r, v).rxChar = v
         /\ rxWrite(r, v).rxFull = TRUE
         /\ rxWrite(r, v).overrun = (r.overrun \/ r.rxFull)
         /\ rxWrite(r, v).txEmpty = r.txEmpty
         /\ rxWrite(r, v).receiveIrqEnabled = r.receiveIrqEnabled
         /\ rxWrite(r, v).transmitIrqEnabled = r.transmitIrqEnabled
  BY DEF Acias, rxWrite

LEMMA Transmit ==
  ASSUME NEW r \in Acias
  PROVE  /\ transmit(r) \in Acias
         /\ transmit(r).txEmpty = TRUE
         /\ transmit(r).rxChar = r.rxChar
         /\ transmit(r).rxFull = r.rxFull
         /\ transmit(r).overrun = r.overrun
         /\ transmit(r).receiveIrqEnabled = r.receiveIrqEnabled
         /\ transmit(r).transmitIrqEnabled = r.transmitIrqEnabled
  BY DEF Acias, transmit, txRead

(* The receiver of r after the transfers of a step: an emptied one, the    *)
(* one it was, or one that holds the oldest key typed ahead.               *)
Kept(r) == acia'.rxChar = r.rxChar /\ (acia'.rxFull => r.rxFull)

LEMMA Transfers ==
  ASSUME Typed, NEW r \in Acias, NEW line \in BOOLEAN, NEW came \in Since,
         step(r, line, came)
  PROVE  /\ acia' \in Acias
         /\ acia'.txEmpty = TRUE
         /\ acia'.receiveIrqEnabled = r.receiveIrqEnabled
         /\ acia'.transmitIrqEnabled = r.transmitIrqEnabled
         /\ typed' = typed
         /\ printed' = IF r.txEmpty THEN printed ELSE Append(printed, r.txChar)
         /\ keys = <<>> => keys' = keys /\ Kept(r)
         /\ keys # <<>> => /\ keys' = Tail(keys)
                           /\ acia'.rxChar = Head(keys)
                           /\ acia'.rxFull
         /\ irq' \in BOOLEAN /\ since' \in Since
         /\ Told(came, r) => Told(since, acia)'
         /\ line => irq'
         /\ keys # <<>> /\ r.receiveIrqEnabled => irq'
         /\ r.transmitIrqEnabled = FALSE
              => (irq' => line \/ (keys # <<>> /\ r.receiveIrqEnabled))
<1> DEFINE sent == transmit(r)
           t(peeked) == IF peeked THEN rxRead(sent) ELSE sent
<1>1. PICK peeked \in {FALSE, MemoryWindow} :
        /\ acia' = receive(t(peeked))
        /\ keys' = IF keys = <<>> THEN keys ELSE Tail(keys)
        /\ irq' = (line \/ interrupts(r, t(peeked)))
        /\ since' = [arrived |-> came.arrived + IF keys = <<>> THEN 0 ELSE 1,
                      taken   |-> came.taken \/ (peeked /\ came.arrived > 0)]
        /\ printed' = IF r.txEmpty THEN printed ELSE Append(printed, r.txChar)
        /\ UNCHANGED typed
  BY DEF step
<1>2. peeked \in BOOLEAN
  BY TerminalAssumption
<1> DEFINE u == t(peeked)
<1>3. /\ u \in Acias
      /\ u.txEmpty = TRUE
      /\ u.rxChar = r.rxChar
      /\ u.rxFull = (r.rxFull /\ ~peeked)
      /\ u.overrun = (r.overrun /\ ~peeked)
      /\ u.receiveIrqEnabled = r.receiveIrqEnabled
      /\ u.transmitIrqEnabled = r.transmitIrqEnabled
  <2>1. sent \in Acias
    BY Transmit
  <2>2. CASE peeked
    <3>1. u = rxRead(sent)
      BY <2>2
    <3> HIDE DEF u, sent
    <3>2. /\ u \in Acias
          /\ u.txEmpty = sent.txEmpty /\ u.rxChar = sent.rxChar
          /\ u.rxFull = FALSE /\ u.overrun = FALSE
          /\ u.receiveIrqEnabled = sent.receiveIrqEnabled
          /\ u.transmitIrqEnabled = sent.transmitIrqEnabled
      BY <2>1, <3>1, RxRead
    <3>3. /\ sent.txEmpty = TRUE /\ sent.rxChar = r.rxChar
          /\ sent.receiveIrqEnabled = r.receiveIrqEnabled
          /\ sent.transmitIrqEnabled = r.transmitIrqEnabled
      BY Transmit DEF sent
    <3> QED
      BY <2>2, <3>2, <3>3
  <2>3. CASE ~peeked
    BY <2>1, <2>3, Transmit, AciaFields
  <2> QED
    BY <1>2, <2>2, <2>3
<1> HIDE DEF u
<1>7. /\ irq' \in BOOLEAN /\ (line => irq')
      /\ keys # <<>> /\ r.receiveIrqEnabled => irq'
      /\ r.transmitIrqEnabled = FALSE
           => (irq' => line \/ (keys # <<>> /\ r.receiveIrqEnabled))
  <2>1. irq' = (line \/ interrupts(r, u))
    BY <1>1 DEF u
  <2>2. interrupts(r, u) <=> \/ ~r.txEmpty /\ r.transmitIrqEnabled
                             \/ keys # <<>> /\ r.receiveIrqEnabled
    BY <1>3 DEF interrupts
  <2> QED
    BY <2>1, <2>2
<1>4. acia' = IF keys = <<>> THEN u ELSE rxWrite(u, Head(keys))
  BY <1>1 DEF receive, u
<1>8. /\ came.arrived \in Nat /\ came.taken \in BOOLEAN
      /\ since' \in Since
      /\ keys = <<>> => since'.arrived = came.arrived
      /\ keys # <<>> => since'.arrived = came.arrived + 1
      /\ since'.taken = (came.taken \/ (peeked /\ came.arrived > 0))
  <2>1. came.arrived \in Nat /\ came.taken \in BOOLEAN
    BY DEF Since
  <2> QED
    BY <1>1, <1>2, <2>1 DEF Since
<1>5. CASE keys = <<>>
  <2>1. acia' = u
    BY <1>4, <1>5
  <2>2. keys' = keys
    BY <1>1, <1>5
  <2>3. Told(came, r) => Told(since, acia)'
    <3> SUFFICES ASSUME Told(came, r), ~since'.taken
                 PROVE  /\ since'.arrived > 0 => acia'.rxFull
                        /\ since'.arrived > 1 => acia'.overrun
      BY DEF Told
    <3>1. since'.arrived = came.arrived
      BY <1>5, <1>8
    <3>2. ~came.taken /\ (came.arrived > 0 => ~peeked)
      BY <1>8
    <3>3. came.arrived > 1 => came.arrived > 0
      BY <1>8
    <3> QED
      BY <1>3, <2>1, <3>1, <3>2, <3>3 DEF Told
  <2> QED
    BY <1>1, <1>3, <1>7, <1>5, <1>8, <2>1, <2>2, <2>3 DEF Kept
<1>6. CASE keys # <<>>
  <2>1. Head(keys) \in 0 .. MaxTyped
    <3>1. Head(keys) \in Chars
      BY <1>6 DEF Typed
    <3> QED
      BY <3>1, TerminalAssumption DEF Chars
  <2>2. acia' = rxWrite(u, Head(keys))
    BY <1>4, <1>6
  <2>3. keys' = Tail(keys)
    BY <1>1, <1>6
  <2>7. /\ acia' \in Acias
        /\ acia'.txEmpty = TRUE
        /\ acia'.receiveIrqEnabled = u.receiveIrqEnabled
        /\ acia'.transmitIrqEnabled = u.transmitIrqEnabled
        /\ acia'.rxChar = Head(keys)
        /\ acia'.rxFull = TRUE
        /\ acia'.overrun = (u.overrun \/ u.rxFull)
    BY <1>3, <2>1, <2>2, RxWrite
  <2>8. Told(came, r) => Told(since, acia)'
    <3> SUFFICES ASSUME Told(came, r), ~since'.taken
                 PROVE  /\ since'.arrived > 0 => acia'.rxFull
                        /\ since'.arrived > 1 => acia'.overrun
      BY DEF Told
    <3>1. since'.arrived > 1 => came.arrived > 0
      BY <1>6, <1>8
    <3>2. ~came.taken /\ (came.arrived > 0 => ~peeked)
      BY <1>8
    <3>3. came.arrived > 0 => r.rxFull
      BY <3>2 DEF Told
    <3> QED
      BY <1>3, <2>7, <3>1, <3>2, <3>3
  <2> QED
    BY <1>1, <1>3, <1>7, <1>6, <1>8, <2>3, <2>7, <2>8
<1> QED
  BY <1>5, <1>6

-----------------------------------------------------------------------------
(* The inductive invariant.  What waits in the receiver and in the         *)
(* type-ahead buffer is newer than what the guest has read, and in order.  *)

NewFor(c, rec) == c \in Chars /\ \A j \in DOMAIN rec : rec[j] < c

Ascending(q) == \A i, j \in DOMAIN q : i < j => q[i] < q[j]

Waiting(c, rec, n, q) ==
  /\ c <= n
  /\ \A j \in DOMAIN rec : rec[j] <= n
  /\ \A k \in DOMAIN q : q[k] <= n /\ c < q[k] /\ NewFor(q[k], rec)
  /\ Ascending(q)

OrderInv ==
  /\ Waiting(acia.rxChar, received, typed, keys)
  /\ acia.rxFull \/ at = "get" \/ irq => NewFor(acia.rxChar, received)
  /\ OrderKept

(* The transmitter is empty between two steps, and only the character the  *)
(* guest is about to send is missing on the console.                       *)
EchoOf(place, acc, rec, pr) ==
  /\ place \in {"echo", "put"} => Len(rec) = Len(pr) + 1 /\ acc = rec[Len(rec)]
  /\ place \notin {"echo", "put"} => Len(rec) = Len(pr)
  /\ \A k \in DOMAIN pr : pr[k] = rec[k]

EchoInv == acia.txEmpty = TRUE /\ EchoOf(at, a, received, printed)

(* Only the receiver interrupts, only the interrupt-driven guest, and after *)
(* its first character every one that waits has done so.                   *)
IrqInv ==
  /\ acia.transmitIrqEnabled = FALSE
  /\ acia.receiveIrqEnabled \/ irq => Guest = "irq"
  /\ InterruptPending
  /\ at = "get" => Guest = "poll"
  /\ Guest = "irq" /\ at = "init" => received = <<>>

TerminalIInv == /\ Typed /\ Len(keys) <= MaxTypeAhead
        /\ OrderInv /\ EchoInv /\ IrqInv /\ Told(since, acia)

(* The transfers of a step keep the order of what waits.                   *)
LEMMA OrderTransfers ==
  ASSUME Typed, NEW r \in Acias, NEW line \in BOOLEAN, NEW came \in Since,
         step(r, line, came),
         NEW rec \in Seq(Chars),
         Waiting(r.rxChar, rec, typed, keys),
         r.rxFull => NewFor(r.rxChar, rec)
  PROVE  /\ Waiting(acia'.rxChar, rec, typed', keys')
         /\ acia'.rxFull => NewFor(acia'.rxChar, rec)
         /\ NewFor(r.rxChar, rec) => NewFor(acia'.rxChar, rec)
         /\ keys' \in Seq(Chars)
         /\ Len(keys') <= Len(keys)
<1>1. CASE keys = <<>>
  <2>1. /\ keys' = keys /\ typed' = typed
        /\ acia'.rxChar = r.rxChar /\ (acia'.rxFull => r.rxFull)
    BY <1>1, Transfers DEF Kept
  <2>2. keys \in Seq(Chars)
    BY DEF Typed
  <2> QED
    BY <2>1, <2>2
<1>2. CASE keys # <<>>
  <2>1. keys' = Tail(keys) /\ acia'.rxChar = Head(keys) /\ typed' = typed
    BY <1>2, Transfers
  <2>2. keys \in Seq(Chars)
    BY DEF Typed
  <2>3. /\ keys' \in Seq(Chars) /\ Len(keys') = Len(keys) - 1
        /\ \A k \in DOMAIN keys' : k + 1 \in DOMAIN keys /\ keys'[k] = keys[k + 1]
        /\ 1 \in DOMAIN keys /\ Head(keys) = keys[1]
        /\ DOMAIN keys' \subseteq Nat \ {0} /\ DOMAIN keys \subseteq Nat \ {0}
    BY <1>2, <2>1, <2>2
  <2>4. NewFor(Head(keys), rec) /\ Head(keys) <= typed
    BY <2>3 DEF Waiting
  <2>5. Ascending(keys')
    <3> SUFFICES ASSUME NEW i \in DOMAIN keys', NEW j \in DOMAIN keys', i < j
                 PROVE  keys'[i] < keys'[j]
      BY DEF Ascending
    <3>1. i + 1 < j + 1
      BY <2>3
    <3> QED
      BY <2>3, <3>1 DEF Waiting, Ascending
  <2>6. \A k \in DOMAIN keys' :
          keys'[k] <= typed /\ Head(keys) < keys'[k] /\ NewFor(keys'[k], rec)
    <3> SUFFICES ASSUME NEW k \in DOMAIN keys'
                 PROVE  keys'[k] <= typed /\ Head(keys) < keys'[k] /\ NewFor(keys'[k], rec)
      OBVIOUS
    <3>1. 1 < k + 1
      BY <2>3
    <3> QED
      BY <2>3, <3>1 DEF Waiting, Ascending
  <2> QED
    BY <2>1, <2>3, <2>4, <2>5, <2>6, TerminalAssumption DEF Waiting, Typed
<1> QED
  BY <1>1, <1>2

(* A step keeps the invariant if what the instruction leaves does.         *)
LEMMA StepKeeps ==
  ASSUME TerminalIInv, NEW r \in Acias, NEW line \in BOOLEAN, NEW came \in Since,
         step(r, line, came),
         NEW rec \in Seq(Chars), received' = rec,
         a' \in 0 .. MaxTyped,
         at' \in {"init", "main", "get", "echo", "put", "return"},
         Waiting(r.rxChar, rec, typed, keys), Ascending(rec),
         r.rxFull \/ at' = "get" \/ line => NewFor(r.rxChar, rec),
         Told(came, r),
         r.transmitIrqEnabled = FALSE,
         r.receiveIrqEnabled \/ line => Guest = "irq",
         r.receiveIrqEnabled /\ rec # <<>> /\ r.rxFull => line,
         at' = "get" => Guest = "poll",
         Guest = "irq" /\ at' = "init" => rec = <<>>,
         NEW pr \in Seq(Chars),
         pr = IF r.txEmpty THEN printed ELSE Append(printed, r.txChar),
         EchoOf(at', a', rec, pr)
  PROVE  TerminalIInv'
<1>1. Typed
  BY DEF TerminalIInv
<1>2. /\ Waiting(acia'.rxChar, rec, typed', keys')
      /\ acia'.rxFull => NewFor(acia'.rxChar, rec)
      /\ NewFor(r.rxChar, rec) => NewFor(acia'.rxChar, rec)
      /\ keys' \in Seq(Chars)
      /\ Len(keys') <= Len(keys)
  BY <1>1, OrderTransfers
<1>3. printed' = pr /\ typed' = typed
  BY <1>1, Transfers
<1>4. Typed'
  BY <1>1, <1>2, <1>3, Transfers DEF Typed
<1>5. OrderInv'
  <2>1. irq' => line \/ (keys # <<>> /\ r.receiveIrqEnabled)
    BY <1>1, Transfers
  <2>2. keys # <<>> => acia'.rxFull
    BY <1>1, Transfers
  <2> QED
    BY <1>2, <2>1, <2>2 DEF OrderInv, OrderKept, Ascending
<1>6. EchoInv'
  BY <1>1, <1>3, Transfers DEF EchoInv
<1>7. Told(since, acia)'
  BY <1>1, Transfers
<1>8. IrqInv'
  <2>1. InterruptPending'
    <3>1. CASE keys = <<>>
      <4>1. acia'.rxFull => r.rxFull
        BY <1>1, <3>1, Transfers DEF Kept
      <4> QED
        BY <1>1, <4>1, Transfers DEF InterruptPending
    <3>2. CASE keys # <<>>
      BY <1>1, <3>2, Transfers DEF InterruptPending
    <3> QED
      BY <3>1, <3>2
  <2>2. /\ acia'.transmitIrqEnabled = FALSE
        /\ acia'.receiveIrqEnabled = r.receiveIrqEnabled
        /\ irq' => line \/ (keys # <<>> /\ r.receiveIrqEnabled)
    BY <1>1, Transfers
  <2> QED
    BY <2>1, <2>2 DEF IrqInv
<1>9. Len(keys') <= MaxTypeAhead
  BY <1>2, TerminalAssumption DEF TerminalIInv, Typed
<1> QED
  BY <1>4, <1>5, <1>6, <1>7, <1>8, <1>9 DEF TerminalIInv

-----------------------------------------------------------------------------
(* The actions.                                                            *)

LEMMA Facts ==
  ASSUME TerminalIInv
  PROVE  /\ Typed /\ acia \in Acias /\ received \in Seq(Chars)
         /\ printed \in Seq(Chars)
         /\ Waiting(acia.rxChar, received, typed, keys)
         /\ Ascending(received)
         /\ acia.rxFull \/ at = "get" \/ irq => NewFor(acia.rxChar, received)
         /\ since \in Since /\ Told(since, acia) /\ irq \in BOOLEAN
         /\ acia.txEmpty = TRUE
         /\ EchoOf(at, a, received, printed)
         /\ IrqInv
  BY DEF TerminalIInv, Typed, OrderInv, OrderKept, Ascending, EchoInv, IrqInv

(* A key typed into the buffer is newer than everything; a full buffer     *)
(* loses the oldest one.                                                   *)
LEMMA KeyTypedKeeps ==
  ASSUME TerminalIInv, keyTyped
  PROVE  TerminalIInv'
<1>1. /\ typed < MaxTyped /\ typed' = typed + 1
      /\ keys' = push(keys, typed + 1)
      /\ UNCHANGED <<acia, irq, at, a, received, printed, since>>
  BY DEF keyTyped
<1>2. keys \in Seq(Chars) /\ typed \in 0 .. MaxTyped /\ Len(keys) <= MaxTypeAhead
  BY DEF TerminalIInv, Typed
<1>3. typed' \in Chars /\ typed' \in 0 .. MaxTyped
  BY <1>1, <1>2, TerminalAssumption DEF Chars
<1>4. PICK q \in {keys, Tail(keys)} :
        /\ keys' = Append(q, typed')
        /\ q \in Seq(Chars) /\ Len(q) < MaxTypeAhead
        /\ \E d \in {0, 1} : \A k \in DOMAIN q : k + d \in DOMAIN keys /\ q[k] = keys[k + d]
  <2>1. CASE Len(keys) = MaxTypeAhead
    <3>1. keys # <<>>
      BY <1>2, <2>1, TerminalAssumption
    <3>2. /\ Tail(keys) \in Seq(Chars) /\ Len(Tail(keys)) = Len(keys) - 1
          /\ \A k \in DOMAIN Tail(keys) : k + 1 \in DOMAIN keys /\ Tail(keys)[k] = keys[k + 1]
      BY <1>2, <3>1
    <3>3. keys' = Append(Tail(keys), typed')
      BY <1>1, <2>1 DEF push
    <3> QED
      BY <1>2, <2>1, <3>2, <3>3, TerminalAssumption
  <2>2. CASE Len(keys) # MaxTypeAhead
    <3>1. keys' = Append(keys, typed')
      BY <1>1, <2>2 DEF push
    <3>2. \A k \in DOMAIN keys : k + 0 \in DOMAIN keys /\ keys[k] = keys[k + 0]
      BY <1>2
    <3>3. Len(keys) < MaxTypeAhead
      BY <1>2, <2>2, TerminalAssumption
    <3> QED
      BY <1>2, <3>1, <3>2, <3>3
  <2> QED
    BY <2>1, <2>2
<1>5. PICK d \in {0, 1} : \A k \in DOMAIN q : k + d \in DOMAIN keys /\ q[k] = keys[k + d]
  BY <1>4
<1>6. /\ \A k \in DOMAIN q : q[k] <= typed /\ acia.rxChar < q[k] /\ NewFor(q[k], received)
      /\ Ascending(q)
  <2>1. Waiting(acia.rxChar, received, typed, keys)
    BY Facts
  <2>2. ASSUME NEW i \in DOMAIN q, NEW j \in DOMAIN q, i < j
        PROVE  q[i] < q[j]
    <3>1. i \in Nat /\ j \in Nat
      BY <1>4
    <3>2. i + d < j + d
      BY <2>2, <3>1
    <3> QED
      BY <1>5, <2>1, <3>2 DEF Waiting, Ascending
  <2> QED
    BY <1>5, <2>1, <2>2 DEF Waiting, Ascending
<1>7. /\ keys' \in Seq(Chars) /\ Len(keys') = Len(q) + 1 /\ q \in Seq(Chars)
      /\ \A k \in DOMAIN keys' : \/ k \in DOMAIN q /\ keys'[k] = q[k]
                                 \/ k = Len(q) + 1 /\ keys'[k] = typed'
  BY <1>3, <1>4
<1>8. acia.rxChar < typed' /\ NewFor(typed', received)
  <2>1. acia.rxChar \in 0 .. MaxTyped /\ acia.rxChar <= typed
    BY Facts, AciaFields DEF Waiting
  <2>2. \A j \in DOMAIN received : received[j] \in Chars /\ received[j] <= typed
    BY Facts DEF Waiting
  <2>3. \A n \in 0 .. MaxTyped : n <= typed => n < typed'
    BY <1>1, <1>2, TerminalAssumption
  <2>4. Chars \subseteq 0 .. MaxTyped
    BY TerminalAssumption DEF Chars
  <2> QED
    BY <1>3, <2>1, <2>2, <2>3, <2>4 DEF NewFor
<1>9. Ascending(keys')
  <2> SUFFICES ASSUME NEW i \in DOMAIN keys', NEW j \in DOMAIN keys', i < j
               PROVE  keys'[i] < keys'[j]
    BY DEF Ascending
  <2>1. i \in DOMAIN q /\ keys'[i] = q[i]
    BY <1>7
  <2>2. CASE j \in DOMAIN q /\ keys'[j] = q[j]
    BY <1>6, <2>1, <2>2 DEF Ascending
  <2>3. CASE keys'[j] = typed'
    <3>1. q[i] <= typed /\ q[i] \in Chars
      BY <1>6, <1>7, <2>1
    <3> QED
      BY <1>1, <1>2, <2>1, <2>3, <3>1 DEF Chars
  <2> QED
    BY <1>7, <2>2, <2>3
<1>10. Waiting(acia.rxChar, received, typed', keys')
  <2>1. \A k \in DOMAIN keys' :
          keys'[k] <= typed' /\ acia.rxChar < keys'[k] /\ NewFor(keys'[k], received)
    <3> SUFFICES ASSUME NEW k \in DOMAIN keys'
                 PROVE  keys'[k] <= typed' /\ acia.rxChar < keys'[k] /\ NewFor(keys'[k], received)
      OBVIOUS
    <3>1. CASE k \in DOMAIN q /\ keys'[k] = q[k]
      <4>1. q[k] \in Chars /\ q[k] <= typed
        BY <1>6, <1>7, <3>1
      <4> QED
        BY <1>1, <1>2, <1>6, <3>1, <4>1 DEF Chars
    <3>2. CASE keys'[k] = typed'
      BY <1>3, <1>8, <3>2 DEF Chars
    <3> QED
      BY <1>7, <3>1, <3>2
  <2>2. /\ acia.rxChar \in 0 .. MaxTyped /\ acia.rxChar <= typed
        /\ \A j \in DOMAIN received : received[j] \in Chars /\ received[j] <= typed
    BY Facts, AciaFields DEF Waiting
  <2> QED
    BY <1>1, <1>2, <1>9, <2>1, <2>2 DEF Waiting, Chars
<1>11. Typed'
  <2>1. Typed
    BY DEF TerminalIInv
  <2> QED
    BY <1>1, <1>3, <1>7, <2>1 DEF Typed
<1>12. Len(keys') <= MaxTypeAhead
  BY <1>4, <1>7, TerminalAssumption
<1> QED
  BY <1>1, <1>10, <1>11, <1>12
  DEF TerminalIInv, OrderInv, OrderKept, EchoInv, IrqInv, InterruptPending, LossReported

(* What changes only the fields of the ACIA: the memory window and the     *)
(* passing of time.                                                        *)
LEMMA OthersKeep ==
  ASSUME TerminalIInv, getValueAt \/ RxDelayOver \/ TxDelayOver
  PROVE  TerminalIInv'
<1>1. UNCHANGED <<keys, irq, at, a, typed, received, printed>>
  BY DEF getValueAt, RxDelayOver, TxDelayOver
<1>2. /\ acia' \in Acias
      /\ acia'.rxChar = acia.rxChar /\ (acia'.rxFull => acia.rxFull)
      /\ acia'.txEmpty = acia.txEmpty
      /\ acia'.receiveIrqEnabled = acia.receiveIrqEnabled
      /\ acia'.transmitIrqEnabled = acia.transmitIrqEnabled
      /\ since' \in Since /\ Told(since, acia)'
  <2>1. CASE getValueAt
    <3>1. /\ since.arrived \in Nat /\ since.taken \in BOOLEAN
          /\ since' = [since EXCEPT !.taken = @ \/ since.arrived > 0]
          /\ acia' = rxRead(acia)
      BY <2>1, Facts DEF getValueAt, Since
    <3>2. /\ since' \in Since /\ since'.arrived = since.arrived
          /\ since'.taken = (since.taken \/ since.arrived > 0)
      BY <3>1, Facts DEF Since
    <3>3. Told(since, acia)'
      <4>1. ~since'.taken => ~(since'.arrived > 0) /\ ~(since'.arrived > 1)
        <5>1. since.arrived > 1 => since.arrived > 0
          BY <3>1
        <5>2. since.arrived > 0 => since'.taken
          BY <3>2, Zenon
        <5> QED
          BY <3>2, <5>1, <5>2
      <4> QED
        BY <4>1 DEF Told
    <3> QED
      BY <3>1, <3>2, <3>3, Facts, RxRead
  <2>2. CASE RxDelayOver \/ TxDelayOver
    <3>1. acia \in Acias /\ since \in Since /\ Told(since, acia)
      BY Facts
    <3>2. since' = since
      BY <2>2 DEF RxDelayOver, TxDelayOver
    <3>3. /\ acia' \in Acias
          /\ acia'.rxChar = acia.rxChar /\ acia'.rxFull = acia.rxFull
          /\ acia'.overrun = acia.overrun /\ acia'.txEmpty = acia.txEmpty
          /\ acia'.receiveIrqEnabled = acia.receiveIrqEnabled
          /\ acia'.transmitIrqEnabled = acia.transmitIrqEnabled
      BY <2>2, <3>1 DEF RxDelayOver, TxDelayOver, Acias
    <3> QED
      BY <3>1, <3>2, <3>3 DEF Told
  <2> QED
    BY <2>1, <2>2
<1>3. Typed'
  BY <1>1, <1>2 DEF TerminalIInv, Typed
<1>4. OrderInv'
  BY <1>1, <1>2 DEF TerminalIInv, OrderInv, OrderKept
<1>5. EchoInv'
  BY <1>1, <1>2 DEF TerminalIInv, EchoInv
<1>6. Told(since, acia)'
  BY <1>2
<1>7. IrqInv'
  BY <1>1, <1>2 DEF TerminalIInv, IrqInv, InterruptPending
<1> QED
  BY <1>1, <1>3, <1>4, <1>5, <1>6, <1>7 DEF TerminalIInv

(* The interrupt line has a value the transfers can start from.           *)
LEMMA LineIsBoolean ==
  ASSUME Typed
  PROVE  \E line \in BOOLEAN : line = irq
<1>1. irq \in BOOLEAN
  BY DEF Typed
<1> QED
  BY <1>1, Zenon

(* An instruction that leaves the ACIA alone.                              *)
LEMMA IdleKeeps ==
  ASSUME TerminalIInv, step(acia, irq, since), UNCHANGED <<a, received>>,
         at' \in {"init", "main", "get", "echo", "put", "return"},
         at' \in {"echo", "put"} <=> at \in {"echo", "put"},
         at' = "get" => at = "get" \/ (acia.rxFull /\ Guest = "poll"),
         at' = "init" => at = "init"
  PROVE  TerminalIInv'
<1>1. EchoOf(at', a', received, printed)
  BY Facts DEF EchoOf
<1>2. a' \in 0 .. MaxTyped
  BY DEF TerminalIInv, Typed
<1>3. received' = received
  OBVIOUS
<1>4. printed = IF acia.txEmpty THEN printed ELSE Append(printed, acia.txChar)
  BY Facts
<1>5. PICK line \in BOOLEAN : line = irq
  BY Facts, LineIsBoolean
<1>6. step(acia, line, since)
  BY <1>5
<1>7. /\ acia.transmitIrqEnabled = FALSE
      /\ acia.receiveIrqEnabled \/ line => Guest = "irq"
      /\ acia.receiveIrqEnabled /\ received # <<>> /\ acia.rxFull => line
      /\ at' = "get" => Guest = "poll"
      /\ Guest = "irq" /\ at' = "init" => received = <<>>
  BY <1>5, Facts DEF IrqInv, InterruptPending
<1>8. acia.rxFull \/ at' = "get" \/ line => NewFor(acia.rxChar, received)
  BY <1>5, Facts
<1>9. /\ acia \in Acias /\ received \in Seq(Chars) /\ printed \in Seq(Chars)
      /\ Waiting(acia.rxChar, received, typed, keys) /\ Ascending(received)
      /\ since \in Since /\ Told(since, acia)
  BY Facts
<1> QED
  BY <1>1, <1>2, <1>3, <1>4, <1>6, <1>7, <1>8, <1>9, StepKeeps

(* What writes to the command register, a reset and the data register leave*)
LEMMA SetCommand ==
  ASSUME NEW r \in Acias, NEW rx \in BOOLEAN, NEW tx \in BOOLEAN
  PROVE  LET q == setCommandRegister(r, rx, tx)
         IN  /\ q \in Acias /\ q.rxChar = r.rxChar /\ q.rxFull = r.rxFull
             /\ q.overrun = r.overrun /\ q.txEmpty = r.txEmpty
             /\ q.receiveIrqEnabled = rx /\ q.transmitIrqEnabled = tx
  BY DEF setCommandRegister, Acias

LEMMA ResetFields ==
  ASSUME NEW r \in Acias
  PROVE  /\ reset(r) \in Acias /\ reset(r).rxChar \in {0, r.rxChar}
         /\ reset(r).rxFull = FALSE /\ reset(r).txEmpty = TRUE
<1>1. 0 \in 0 .. MaxTyped
  BY TerminalAssumption
<1>2. CASE Kind = "6551"
  BY <1>1, <1>2 DEF reset, Acias
<1>3. CASE Kind # "6551"
  BY <1>3 DEF reset, Acias
<1> QED
  BY <1>2, <1>3

LEMMA TxWrite ==
  ASSUME NEW r \in Acias, NEW v \in 0 .. MaxTyped
  PROVE  LET q == txWrite(r, v)
         IN  /\ q \in Acias /\ q.rxChar = r.rxChar /\ q.rxFull = r.rxFull
             /\ q.overrun = r.overrun /\ q.txEmpty = FALSE /\ q.txChar = v
             /\ q.receiveIrqEnabled = r.receiveIrqEnabled
             /\ q.transmitIrqEnabled = r.transmitIrqEnabled
  BY TerminalAssumption DEF txWrite, Acias

LEMMA GuestKeeps ==
  ASSUME TerminalIInv, GuestStep \/ GuestOther \/ GuestReset
  PROVE  TerminalIInv'
<1>1. CASE GuestOther
  <2>1. step(acia, irq, since) /\ at' = at /\ UNCHANGED <<a, received>>
    BY <1>1 DEF GuestOther, goto
  <2>2. at \in {"init", "main", "get", "echo", "put", "return"}
    BY DEF TerminalIInv, Typed
  <2> QED
    BY <2>1, <2>2, IdleKeeps
<1>2. CASE GuestStatus
  <2>1. /\ at = "main" /\ Guest = "poll" /\ step(acia, irq, since)
        /\ at' = IF rxStatus(acia) THEN "get" ELSE "main"
        /\ UNCHANGED <<a, received>>
    BY <1>2 DEF GuestStatus, goto
  <2>2. rxStatus(acia) = (acia.rxFull /\ ~acia.rxHeld)
    BY DEF rxStatus
  <2>3. at' \in {"main", "get"} /\ (at' = "get" => acia.rxFull)
    BY <2>1, <2>2
  <2> QED
    BY <2>1, <2>3, IdleKeeps
<1>3. CASE GuestEcho
  <2>1. /\ at = "echo" /\ step(acia, irq, since)
        /\ at' \in {"echo", "put"}
        /\ UNCHANGED <<a, received>>
    BY <1>3 DEF GuestEcho, goto
  <2> QED
    BY <2>1, IdleKeeps
<1>8. CASE GuestReturn
  <2>1. /\ at = "return" /\ step(acia, irq, since) /\ at' = "main"
        /\ UNCHANGED <<a, received>>
    BY <1>8 DEF GuestReturn, goto
  <2> QED
    BY <2>1, IdleKeeps
<1>4. CASE GuestInit
  <2>1. step(setCommandRegister(acia, Guest = "irq", FALSE), irq, since)
    BY <1>4 DEF GuestInit
  <2>2. at = "init" /\ at' = "main" /\ UNCHANGED <<a, received>>
    BY <1>4 DEF GuestInit, goto
  <2> DEFINE r == setCommandRegister(acia, Guest = "irq", FALSE)
  <2>3. /\ r \in Acias /\ r.rxChar = acia.rxChar /\ r.rxFull = acia.rxFull
        /\ r.overrun = acia.overrun /\ r.txEmpty = acia.txEmpty
        /\ r.receiveIrqEnabled = (Guest = "irq") /\ r.transmitIrqEnabled = FALSE
    <3>1. (Guest = "irq") \in BOOLEAN /\ FALSE \in BOOLEAN /\ acia \in Acias
      BY Facts
    <3> QED
      BY ONLY <3>1, SetCommand
  <2> HIDE DEF r
  <2>0. PICK line \in BOOLEAN : line = irq
    BY Facts, LineIsBoolean
  <2>4. step(r, line, since)
    BY <2>0, <2>1 DEF r
  <2>5. printed = IF r.txEmpty THEN printed ELSE Append(printed, r.txChar)
    BY <2>3, Facts
  <2>6. EchoOf(at', a', received, printed)
    BY <2>2, Facts DEF EchoOf
  <2>7. a' \in 0 .. MaxTyped /\ received' = received
    BY <2>2 DEF TerminalIInv, Typed
  <2>8. /\ Waiting(r.rxChar, received, typed, keys)
        /\ r.rxFull \/ at' = "get" \/ line => NewFor(r.rxChar, received)
        /\ Told(since, r)
        /\ r.receiveIrqEnabled \/ line => Guest = "irq"
        /\ r.receiveIrqEnabled /\ received # <<>> /\ r.rxFull => line
    BY <2>0, <2>2, <2>3, Facts DEF IrqInv, Told
  <2> QED
    BY <2>2, <2>3, <2>4, <2>5, <2>6, <2>7, <2>8, Facts, StepKeeps
<1>5. CASE GuestGet \/ GuestInterrupt
  <2>1. /\ at \in {"main", "get"} /\ at' = "echo" /\ a' = acia.rxChar
        /\ received' = Append(received, acia.rxChar)
        /\ at = "get" \/ irq
    BY <1>5 DEF GuestGet, GuestInterrupt, Interrupted
  <2> DEFINE r == rxRead(acia)
  <2>2. /\ r \in Acias /\ r.rxChar = acia.rxChar /\ r.rxFull = FALSE
        /\ r.txEmpty = TRUE
        /\ r.receiveIrqEnabled = acia.receiveIrqEnabled
        /\ r.transmitIrqEnabled = FALSE
    BY Facts, RxRead DEF IrqInv
  <2>3. step(r, FALSE, Nothing)
    <3>1. at = "get" => irq = FALSE
      BY Facts DEF IrqInv, Typed
    <3> QED
      BY <1>5, <3>1 DEF GuestGet, GuestInterrupt
  <2> HIDE DEF r
  <2>4. a' \in 0 .. MaxTyped
    BY <2>1, Facts, AciaFields
  <2> DEFINE rec == Append(received, acia.rxChar)
  <2>5. NewFor(acia.rxChar, received)
    BY <2>1, Facts
  <2>6. /\ received \in Seq(Chars) /\ acia.rxChar \in Chars
        /\ Waiting(acia.rxChar, received, typed, keys)
        /\ Ascending(received)
    BY <2>5, Facts DEF NewFor
  <2>7. /\ rec \in Seq(Chars) /\ Len(rec) = Len(received) + 1
        /\ rec[Len(rec)] = acia.rxChar
        /\ \A k \in DOMAIN received : k \in DOMAIN rec /\ rec[k] = received[k]
        /\ \A k \in DOMAIN rec : \/ k \in DOMAIN received /\ rec[k] = received[k]
                                 \/ k = Len(received) + 1 /\ rec[k] = acia.rxChar
    BY <2>6
  <2> HIDE DEF rec
  <2>8. Waiting(r.rxChar, rec, typed, keys)
    <3>1. \A k \in DOMAIN keys : NewFor(keys[k], rec)
      BY <2>6, <2>7 DEF Waiting, NewFor
    <3> QED
      BY <2>2, <2>6, <2>7, <3>1 DEF Waiting
  <2>9. Ascending(rec)
    <3> SUFFICES ASSUME NEW i \in DOMAIN rec, NEW j \in DOMAIN rec, i < j
                 PROVE  rec[i] < rec[j]
      BY DEF Ascending
    <3>1. i \in DOMAIN received /\ rec[i] = received[i]
      BY <2>6, <2>7
    <3> QED
      BY <2>5, <2>6, <2>7, <3>1 DEF Ascending, NewFor
  <2>10. EchoOf(at', a', rec, printed)
    <3>1. /\ Len(received) = Len(printed)
          /\ \A k \in DOMAIN printed : printed[k] = received[k]
          /\ printed \in Seq(Chars)
      BY <2>1, Facts DEF EchoOf
    <3>2. \A k \in DOMAIN printed : k \in DOMAIN received
      BY <2>6, <3>1
    <3> QED
      BY <2>1, <2>7, <3>1, <3>2 DEF EchoOf
  <2>11. received' = rec /\ at' = "echo"
    BY <2>1, <2>6 DEF rec
  <2>12. printed = IF r.txEmpty THEN printed ELSE Append(printed, r.txChar)
    BY <2>2
  <2>13. /\ r.receiveIrqEnabled => Guest = "irq"
         /\ r.rxFull => NewFor(r.rxChar, rec)
         /\ r.receiveIrqEnabled /\ rec # <<>> /\ r.rxFull => FALSE
    BY <2>2, Facts DEF IrqInv
  <2> QED
    BY <2>2, <2>3, <2>4, <2>7, <2>8, <2>9, <2>10, <2>11, <2>12, <2>13, Facts, NothingTold, StepKeeps
<1>6. CASE GuestPut
  <2>1. /\ at = "put" /\ at' = "return" /\ UNCHANGED <<a, received>>
        /\ step(txWrite(acia, a), irq, since)
    BY <1>6 DEF GuestPut, goto
  <2>2. /\ Len(received) = Len(printed) + 1 /\ a = received[Len(received)]
        /\ \A k \in DOMAIN printed : printed[k] = received[k]
        /\ received \in Seq(Chars) /\ printed \in Seq(Chars)
    BY <2>1, Facts DEF EchoOf
  <2>3. a \in Chars /\ a \in 0 .. MaxTyped
    <3>1. Len(received) \in DOMAIN received
      BY <2>2
    <3> QED
      BY <2>2, <3>1 DEF TerminalIInv, Typed
  <2> DEFINE r == txWrite(acia, a)
  <2>4. /\ r \in Acias /\ r.rxChar = acia.rxChar /\ r.rxFull = acia.rxFull
        /\ r.overrun = acia.overrun /\ r.txEmpty = FALSE /\ r.txChar = a
        /\ r.receiveIrqEnabled = acia.receiveIrqEnabled
        /\ r.transmitIrqEnabled = acia.transmitIrqEnabled
    BY <2>3, Facts, TxWrite
  <2> HIDE DEF r
  <2> DEFINE pr == Append(printed, a)
  <2>5. pr = IF r.txEmpty THEN printed ELSE Append(printed, r.txChar)
    BY <2>4
  <2>6. /\ pr \in Seq(Chars) /\ Len(pr) = Len(printed) + 1
        /\ \A k \in DOMAIN pr : \/ k \in DOMAIN printed /\ pr[k] = printed[k]
                                \/ k = Len(printed) + 1 /\ pr[k] = a
    BY <2>2, <2>3
  <2> HIDE DEF pr
  <2>7. EchoOf(at', a', received, pr)
    BY <2>1, <2>2, <2>6 DEF EchoOf
  <2>0. PICK line \in BOOLEAN : line = irq
    BY Facts, LineIsBoolean
  <2>8. step(r, line, since)
    BY <2>0, <2>1 DEF r
  <2>9. /\ r.transmitIrqEnabled = FALSE
        /\ r.receiveIrqEnabled \/ line => Guest = "irq"
        /\ r.receiveIrqEnabled /\ received # <<>> /\ r.rxFull => line
    BY <2>0, <2>4, Facts DEF IrqInv, InterruptPending
  <2>10. /\ Waiting(r.rxChar, received, typed, keys)
         /\ r.rxFull \/ at' = "get" \/ line => NewFor(r.rxChar, received)
         /\ Told(since, r)
         /\ received' = received /\ a' \in 0 .. MaxTyped
    BY <2>0, <2>1, <2>3, <2>4, Facts DEF Told
  <2> QED
    BY <2>1, <2>4, <2>5, <2>6, <2>7, <2>8, <2>9, <2>10, Facts, StepKeeps
<1>7. CASE GuestReset
  <2>1. /\ at = "main" /\ Guest = "poll" /\ at' = "init" /\ UNCHANGED <<a, received>>
        /\ step(setCommandRegister(reset(acia), FALSE, FALSE), irq, Nothing)
    BY <1>7 DEF GuestReset, goto
  <2> DEFINE z == reset(acia)
             r == setCommandRegister(z, FALSE, FALSE)
  <2>2. /\ z \in Acias /\ z.rxChar \in {0, acia.rxChar} /\ z.rxFull = FALSE
        /\ z.txEmpty = TRUE
    BY Facts, ResetFields
  <2> HIDE DEF z
  <2>3. /\ r \in Acias /\ r.rxChar \in {0, acia.rxChar} /\ r.rxFull = FALSE
        /\ r.txEmpty = TRUE
        /\ r.receiveIrqEnabled = FALSE /\ r.transmitIrqEnabled = FALSE
    BY <2>2, SetCommand
  <2>4. step(r, irq, Nothing)
    BY <2>1 DEF z
  <2> HIDE DEF r
  <2>5. EchoOf(at', a', received, printed)
    BY <2>1, Facts DEF EchoOf
  <2>6. printed = IF r.txEmpty THEN printed ELSE Append(printed, r.txChar)
    BY <2>3
  <2>7. Waiting(r.rxChar, received, typed, keys)
    <3>1. \A k \in DOMAIN keys : 0 < keys[k]
      BY Facts, TerminalAssumption DEF Typed, Chars
    <3>2. 0 <= typed
      BY Facts DEF Typed
    <3> QED
      BY <2>3, <3>1, <3>2, Facts DEF Waiting
  <2>8. a' \in 0 .. MaxTyped /\ received' = received
    BY <2>1 DEF TerminalIInv, Typed
  <2>9. irq = FALSE
    BY <2>1, Facts DEF IrqInv, Typed
  <2> QED
    BY <2>1, <2>3, <2>4, <2>5, <2>6, <2>7, <2>8, <2>9, Facts, NothingTold, StepKeeps
<1> QED
  BY <1>1, <1>2, <1>3, <1>4, <1>5, <1>6, <1>7, <1>8 DEF GuestStep

LEMMA TerminalInitially ==
  ASSUME Init
  PROVE  TerminalIInv
<1>1. Typed
  <2>1. 0 \in 0 .. MaxTyped
    BY TerminalAssumption
  <2>2. acia \in Acias
    BY <2>1 DEF Init, Acias
  <2>3. <<>> \in Seq(Chars)
    OBVIOUS
  <2>4. /\ irq = FALSE /\ since = Nothing /\ at = "init" /\ a = 0 /\ typed = 0
        /\ keys = <<>> /\ received = <<>> /\ printed = <<>>
    BY DEF Init
  <2> QED
    BY <2>1, <2>2, <2>3, <2>4, NothingTold DEF Typed
<1>2. keys = <<>> /\ received = <<>> /\ printed = <<>> /\ typed = 0 /\ at = "init"
  BY DEF Init
<1>3. acia.rxChar = 0 /\ acia.rxFull = FALSE /\ acia.txEmpty = TRUE
  BY DEF Init
<1>4. OrderInv
  BY <1>2, <1>3 DEF Init, OrderInv, Waiting, OrderKept, Ascending
<1>5. EchoInv
  BY <1>2, <1>3 DEF EchoInv, EchoOf
<1>6. IrqInv /\ Told(since, acia)
  BY <1>2, <1>3, NothingTold DEF IrqInv, InterruptPending, Init
<1>7. Len(keys) <= MaxTypeAhead
  BY <1>2, TerminalAssumption
<1> QED
  BY <1>1, <1>4, <1>5, <1>6, <1>7 DEF TerminalIInv

LEMMA TerminalAlways == SafetySpec => []TerminalIInv
<1>1. TerminalIInv /\ [Next]_vars => TerminalIInv'
  <2> SUFFICES ASSUME TerminalIInv, [Next]_vars PROVE TerminalIInv'
    OBVIOUS
  <2>1. CASE UNCHANGED vars
    BY <2>1 DEF vars, TerminalIInv, Typed, OrderInv, OrderKept, EchoInv, IrqInv,
                  InterruptPending, Told
  <2> QED
    BY <2>1, KeyTypedKeeps, OthersKeep, GuestKeeps DEF Next
<1> QED
  BY <1>1, TerminalInitially, PTL DEF SafetySpec

-----------------------------------------------------------------------------
(* The variables have their types, and the type-ahead buffer its bound.    *)
THEOREM TerminalTypeCorrect == SafetySpec => []TypeOK
  BY TerminalAlways, PTL DEF TerminalIInv, Typed, TypeOK, Since

(* The guest reads what it gets in the order typed, and nothing twice.     *)
THEOREM OrderCorrect == SafetySpec => []OrderKept
  BY TerminalAlways, PTL DEF TerminalIInv, OrderInv

(* The console shows what the guest echoes.                                *)
THEOREM EchoCorrect == SafetySpec => []EchoIsFaithful
<1>1. TerminalIInv => EchoIsFaithful
  <2> SUFFICES ASSUME TerminalIInv PROVE EchoIsFaithful
    OBVIOUS
  <2>1. EchoOf(at, a, received, printed) /\ received \in Seq(Chars) /\ printed \in Seq(Chars)
    BY Facts
  <2> QED
    BY <2>1 DEF EchoOf, EchoIsFaithful
<1> QED
  BY <1>1, TerminalAlways, PTL

(* A guest whose characters the memory window leaves alone learns from the *)
(* overrun bit whenever more arrived than it will read.                    *)
THEOREM LossCorrect == SafetySpec => []LossReported
<1>1. TerminalIInv => LossReported
  <2> SUFFICES ASSUME TerminalIInv, since.arrived > 1, ~since.taken
               PROVE  acia.overrun
    BY DEF LossReported
  <2> QED
    BY Facts DEF Told
<1> QED
  BY <1>1, TerminalAlways, PTL

(* With either ACIA and any delay, a character that waits in the receiver  *)
(* of a guest that has read one by interrupt has an interrupt pending.     *)
THEOREM InterruptCorrect == SafetySpec => []InterruptPending
<1>1. TerminalIInv => InterruptPending
  BY DEF TerminalIInv, IrqInv
<1> QED
  BY <1>1, TerminalAlways, PTL

-----------------------------------------------------------------------------
(* The bus (Bus).                                                          *)

(* The devices that are in the table.                                      *)
done == getDevices(deviceMap) \ todo

Entered(n) ==
  /\ deviceAddressArray[n] # NoDevice
       => /\ deviceAddressArray[n] \in done
          /\ includes(deviceAddressArray[n], n)
  /\ \A e \in done : includes(e, n)
       => /\ deviceAddressArray[n] # NoDevice
          /\ startOf[e] <= startOf[deviceAddressArray[n]]

Ordered == \A d \in done, e \in todo : startOf[d] <= startOf[e]

Built == /\ todo \subseteq getDevices(deviceMap)
         /\ Ordered
         /\ \A n \in Addresses : Entered(n)

BusIInv == BusTypeOK /\ Built /\ OffsetInRange

-----------------------------------------------------------------------------
(* Registering and removing keep a map of devices, and getDevices() lists  *)
(* registered devices.                                                     *)
LEMMA MapType ==
  ASSUME NEW m \in [Priorities -> SUBSET Devices], NEW d \in Devices,
         NEW p \in Priorities
  PROVE  /\ with(m, d, p) \in [Priorities -> SUBSET Devices]
         /\ without(m, d) \in [Priorities -> SUBSET Devices]
         /\ getDevices(m) \subseteq Devices
  BY DEF with, without, getDevices, registered

(* A rebuild starts from a table that holds no device.                     *)
LEMMA RebuildStep ==
  ASSUME NEW m \in [Priorities -> SUBSET Devices], rebuild(m)
  PROVE  /\ deviceMap' \in [Priorities -> SUBSET Devices]
         /\ todo' \subseteq Devices
         /\ deviceAddressArray' \in [Addresses -> Devices \cup {NoDevice}]
         /\ Built'
<1>1. todo' = getDevices(m) /\ deviceMap' = m /\ deviceAddressArray' = emptyArray
  BY DEF rebuild
<1>2. done' = {}
  BY <1>1 DEF done
<1>3. \A n \in Addresses : Entered(n)'
  BY <1>1, <1>2 DEF Entered, emptyArray
<1>4. getDevices(m) \subseteq Devices
  BY DEF getDevices, registered
<1> QED
  BY <1>1, <1>2, <1>3, <1>4 DEF Built, Ordered, emptyArray

(* Entering the lowest remaining device keeps the table built.             *)
LEMMA EnterStep ==
  ASSUME BusTypeOK, Built, enterNext
  PROVE  BusTypeOK' /\ Built'
<1>1. PICK d \in todo : /\ \A e \in todo : startOf[d] <= startOf[e]
                        /\ enter(d)
                        /\ todo' = todo \ {d}
                        /\ UNCHANGED <<deviceMap, rom, adding, access, replaced>>
  BY DEF enterNext
<1>2. d \in Devices /\ d \in getDevices(deviceMap) /\ d # NoDevice
  BY <1>1, BusAssumption DEF BusTypeOK, Built
<1>3. done' = done \cup {d}
  BY <1>1, <1>2 DEF done
<1>4. \A n \in Addresses :
        deviceAddressArray'[n] = IF includes(d, n) THEN d ELSE deviceAddressArray[n]
  BY <1>1 DEF enter
<1>5. done \subseteq Devices
  BY DEF done, getDevices, registered, BusTypeOK
<1>6. ASSUME NEW n \in Addresses
      PROVE  Entered(n)'
  <2>1. CASE includes(d, n)
    <3>1. deviceAddressArray'[n] = d
      BY <2>1, <1>4
    <3>2. \A e \in done' : startOf[e] <= startOf[d]
      BY <1>1, <1>2, <1>3, BusAssumption DEF Built, Ordered
    <3> QED
      BY <2>1, <3>1, <3>2, <1>2, <1>3 DEF Entered, includes
  <2>2. CASE ~includes(d, n)
    <3>1. deviceAddressArray'[n] = deviceAddressArray[n]
      BY <2>2, <1>4
    <3>2. Entered(n)
      BY DEF Built
    <3> QED
      BY <2>2, <3>1, <3>2, <1>3 DEF Entered, includes
  <2> QED
    BY <2>1, <2>2
<1>7. Ordered'
  BY <1>1, <1>3 DEF Built, Ordered
<1>8. BusTypeOK'
  BY <1>1, <1>2 DEF BusTypeOK, enter
<1> QED
  BY <1>1, <1>6, <1>7, <1>8 DEF Built

(* Every step of the bus keeps its types, and the table built.             *)
LEMMA BuiltStep ==
  ASSUME BusTypeOK, Built, [BusNext]_busVars
  PROVE  BusTypeOK' /\ Built'
<1>1. ASSUME NEW d \in Devices \ Roms, NEW p \in Priorities, addDevice(d, p)
      PROVE  BusTypeOK' /\ Built'
  <2>1. with(deviceMap, d, p) \in [Priorities -> SUBSET Devices]
    BY MapType DEF BusTypeOK
  <2>2. rebuild(with(deviceMap, d, p))
    BY <1>1 DEF addDevice
  <2> QED
    BY <1>1, <2>1, <2>2, RebuildStep
    DEF BusTypeOK, addDevice, NothingReplaced, emptyArray
<1>2. ASSUME NEW d \in Devices \ Roms, removeDevice(d)
      PROVE  BusTypeOK' /\ Built'
  <2>1. without(deviceMap, d) \in [Priorities -> SUBSET Devices]
    BY DEF BusTypeOK, without
  <2>2. rebuild(without(deviceMap, d))
    BY <1>2 DEF removeDevice
  <2> QED
    BY <1>2, <2>1, <2>2, RebuildStep
    DEF BusTypeOK, removeDevice, NothingReplaced, emptyArray
<1>3. ASSUME NEW d \in Roms, setRom(d)
      PROVE  BusTypeOK' /\ Built'
  <2>1. without(deviceMap, rom) \in [Priorities -> SUBSET Devices]
    BY DEF BusTypeOK, without
  <2>2. /\ deviceMap' \in [Priorities -> SUBSET Devices]
        /\ todo' \subseteq Devices
        /\ deviceAddressArray' \in [Addresses -> Devices \cup {NoDevice}]
        /\ Built'
    <3>1. CASE rom # NoDevice
      BY <1>3, <3>1, <2>1, RebuildStep DEF setRom
    <3>2. CASE rom = NoDevice
      <4>1. UNCHANGED <<deviceMap, todo, deviceAddressArray>>
        BY <1>3, <3>2 DEF setRom
      <4> QED
        BY <4>1 DEF BusTypeOK, Built, Ordered, Entered, done
    <3> QED
      BY <3>1, <3>2
  <2> QED
    BY <1>3, <2>2 DEF BusTypeOK, setRom
<1>4. ASSUME addRom
      PROVE  BusTypeOK' /\ Built'
  <2>1. adding \in Devices
    BY <1>4, BusAssumption DEF addRom, BusTypeOK
  <2>2. with(deviceMap, adding, 0) \in [Priorities -> SUBSET Devices]
    BY <2>1, BusAssumption, MapType DEF BusTypeOK
  <2>3. /\ deviceMap' \in [Priorities -> SUBSET Devices]
        /\ todo' \subseteq Devices
        /\ deviceAddressArray' \in [Addresses -> Devices \cup {NoDevice}]
        /\ Built'
    <3>1. CASE accepts(adding)
      BY <1>4, <3>1, <2>2, RebuildStep DEF addRom
    <3>2. CASE ~accepts(adding)
      <4>1. UNCHANGED <<deviceMap, todo, deviceAddressArray>>
        BY <1>4, <3>2 DEF addRom
      <4> QED
        BY <4>1 DEF BusTypeOK, Built, Ordered, Entered, done
    <3> QED
      BY <3>1, <3>2
  <2> QED
    BY <1>4, <2>3 DEF BusTypeOK, addRom
<1>5. CASE enterNext
  BY <1>5, EnterStep
<1>6. ASSUME NEW n \in Addresses, lookup(n)
      PROVE  BusTypeOK' /\ Built'
  <2>1. deviceAddressArray[n] \in Devices
    BY <1>6 DEF lookup, BusTypeOK
  <2> QED
    BY <1>6, <2>1 DEF BusTypeOK, Built, Ordered, Entered, done, lookup
<1>7. CASE callDevice
  BY <1>7 DEF BusTypeOK, Built, Ordered, Entered, done, callDevice
<1>8. CASE UNCHANGED busVars
  BY <1>8 DEF BusTypeOK, Built, Ordered, Entered, done, busVars
<1> QED
  BY <1>1, <1>2, <1>3, <1>4, <1>5, <1>6, <1>7, <1>8 DEF BusNext

(* Only lookup changes what an access holds, and it finds it in the table. *)
LEMMA OffsetStep ==
  ASSUME Built, OffsetInRange, [BusNext]_busVars
  PROVE  OffsetInRange'
<1>1. ASSUME NEW n \in Addresses, lookup(n)
      PROVE  OffsetInRange'
  <2>1. includes(deviceAddressArray[n], n)
    BY <1>1 DEF lookup, Built, Entered
  <2> QED
    BY <1>1, <2>1 DEF OffsetInRange, lookup, includes
<1>2. CASE callDevice
  BY <1>2 DEF callDevice, OffsetInRange, NoAccess
<1>3. ASSUME UNCHANGED access
      PROVE  OffsetInRange'
  BY <1>3 DEF OffsetInRange, includes, NoAccess
<1> QED
  BY <1>1, <1>2, <1>3
  DEF BusNext, addDevice, removeDevice, setRom, addRom, enterNext, busVars

LEMMA BusInitially ==
  ASSUME BusInit
  PROVE  BusIInv
<1>1. registered(deviceMap) = {}
  BY DEF BusInit, registered
<1>2. getDevices(deviceMap) = {} /\ done = {}
  BY <1>1 DEF getDevices, done
<1>3. BusTypeOK
  BY DEF BusInit, BusTypeOK, emptyArray, NothingReplaced
<1>4. Built
  BY <1>2 DEF BusInit, Built, Ordered, Entered, emptyArray
<1> QED
  BY <1>3, <1>4 DEF BusIInv, BusInit, OffsetInRange

LEMMA BusAlways == BusSpec => []BusIInv
<1>1. BusIInv /\ [BusNext]_busVars => BusIInv'
  BY BuiltStep, OffsetStep DEF BusIInv
<1> QED
  BY <1>1, BusInitially, PTL DEF BusSpec

-----------------------------------------------------------------------------
(* The variables have their types in every reachable state of every bus.   *)
THEOREM BusTypeCorrect == BusSpec => []BusTypeOK
  BY BusAlways, PTL DEF BusIInv

(* A read or write calls a device only with an offset inside its range,    *)
(* even when the table is rebuilt between the lookup and the call.         *)
THEOREM OffsetsCorrect == BusSpec => []OffsetInRange
  BY BusAlways, PTL DEF BusIInv

(* After every rebuild the device seen at an address is the one with the   *)
(* highest start address, whatever the history of the bus.                 *)
THEOREM TableCorrect == BusSpec => []HighestStartWins
<1>1. BusIInv => HighestStartWins
  <2> SUFFICES ASSUME BusIInv, todo = {}, NEW n \in Addresses
               PROVE  LET d == deviceAddressArray[n]
                          candidates == {e \in getDevices(deviceMap) : includes(e, n)}
                      IN  IF candidates = {} THEN d = NoDevice
                          ELSE /\ d \in candidates
                               /\ \A e \in candidates : startOf[e] <= startOf[d]
    BY DEF HighestStartWins
  <2>1. done = getDevices(deviceMap)
    BY DEF done
  <2>2. Entered(n)
    BY DEF BusIInv, Built
  <2> QED
    BY <2>1, <2>2 DEF Entered
<1> QED
  BY <1>1, BusAlways, PTL

-----------------------------------------------------------------------------
(* Replacing the ROM, on the machines as they are built: the memories      *)
(* setRom is called with have one range, and no other device begins where  *)
(* they do.                                                                *)

RomsAlike ==
  \A r \in Roms : /\ accepts(r)
                  /\ \A q \in Roms : startOf[q] = startOf[r] /\ endOf[q] = endOf[r]
                  /\ \A d \in Devices \ Roms : startOf[d] # startOf[r]

(* A start address is registered once under a priority; and of the ROMs    *)
(* just the current one is, under priority 0, or none while it is replaced.*)
Distinct ==
  \A p \in Priorities : \A d, e \in deviceMap[p] : startOf[d] = startOf[e] => d = e

CurrentRom == IF adding = NoDevice /\ rom # NoDevice THEN {rom} ELSE {}

RomMapped == \A p \in Priorities :
  deviceMap[p] \cap Roms = IF p = 0 THEN CurrentRom ELSE {}

(* Device x is the one seen at address n if the devices of S are entered.  *)
Seen(n, S, x) ==
  /\ x = NoDevice => \A e \in S : ~includes(e, n)
  /\ x # NoDevice => /\ x \in S /\ includes(x, n)
                     /\ \A e \in S : includes(e, n) => startOf[e] <= startOf[x]

others == getDevices(deviceMap) \ Roms

(* Since setRom was called only the ROM has changed.                       *)
Remembered ==
  replaced.old # NoDevice =>
    /\ rom # NoDevice
    /\ \A n \in Addresses : Seen(n, others \cup {replaced.old}, replaced.table[n])

RomInv == Distinct /\ RomMapped /\ (adding # NoDevice => adding = rom) /\ Remembered

(* What is listed after a device was registered under priority 0 that      *)
(* begins where no other one does, and after it was removed.               *)
LEMMA Listed ==
  ASSUME NEW m \in [Priorities -> SUBSET Devices], NEW d \in Devices,
         \A p \in Priorities : \A e \in m[p] : startOf[e] = startOf[d] => e = d
  PROVE  /\ d \notin registered(m) => getDevices(with(m, d, 0)) = getDevices(m) \cup {d}
         /\ getDevices(without(m, d)) = getDevices(m) \ {d}
<1>1. startOf[d] \in Nat /\ \A e \in Devices : startOf[e] \in Nat
  BY BusAssumption
<1>2. 0 \in Priorities /\ Priorities \subseteq Int
  BY BusAssumption
<1>3. ASSUME d \notin registered(m)
      PROVE  getDevices(with(m, d, 0)) = getDevices(m) \cup {d}
  <2>1. \A p \in Priorities : \A e \in m[p] : startOf[e] # startOf[d]
    BY <1>3 DEF registered
  <2>2. \A p \in Priorities : with(m, d, 0)[p] = IF p = 0 THEN m[p] \cup {d} ELSE m[p]
    BY <2>1, <1>2 DEF with
  <2>3. registered(with(m, d, 0)) = registered(m) \cup {d}
    <3>1. \A x \in registered(with(m, d, 0)) : x \in registered(m) \cup {d}
      <4> SUFFICES ASSUME NEW x \in registered(with(m, d, 0)) PROVE x \in registered(m) \cup {d}
        OBVIOUS
      <4>1. PICK p \in Priorities : x \in with(m, d, 0)[p]
        BY DEF registered
      <4>2. x \in m[p] \/ x = d
        BY <2>2, <4>1
      <4> QED
        BY <4>2 DEF registered
    <3>2. d \in with(m, d, 0)[0]
      BY <2>2, <1>2
    <3>3. \A p \in Priorities : \A x \in m[p] : x \in with(m, d, 0)[p]
      BY <2>2
    <3>4. \A x \in registered(m) \cup {d} :
            \E p \in Priorities : x \in with(m, d, 0)[p]
      BY <3>2, <3>3, <1>2 DEF registered
    <3> QED
      BY <3>1, <3>4 DEF registered
  <2>4. ASSUME NEW e \in registered(m)
        PROVE  e \in getDevices(with(m, d, 0)) <=> e \in getDevices(m)
    <3>1. e # d /\ startOf[e] # startOf[d]
      BY <2>1 DEF registered
    <3>2. \A p \in Priorities : e \in with(m, d, 0)[p] <=> e \in m[p]
      BY <3>1, <2>2
    <3>3. \A q \in Priorities : \A x : startOf[x] = startOf[e] =>
            (x \in with(m, d, 0)[q] <=> x \in m[q])
      BY <3>1, <2>2
    <3> QED
      BY <3>2, <3>3, <2>3 DEF getDevices
  <2>5. d \in getDevices(with(m, d, 0))
    <3>1. d \in with(m, d, 0)[0]
      BY <2>2, <1>2
    <3>2. \A q \in Priorities : q # 0 =>
            \A e \in with(m, d, 0)[q] : startOf[e] # startOf[d]
      BY <2>1, <2>2
    <3> QED
      BY <3>1, <3>2, <2>3, <1>2 DEF getDevices
  <2> QED
    BY <2>3, <2>4, <2>5, <1>3 DEF getDevices
<1>4. getDevices(without(m, d)) = getDevices(m) \ {d}
  <2>1. \A p \in Priorities : without(m, d)[p] = m[p] \ {d}
    BY DEF without
  <2>2. registered(without(m, d)) = registered(m) \ {d}
    BY <2>1 DEF registered
  <2>3. ASSUME NEW e \in registered(m), e # d
        PROVE  e \in getDevices(without(m, d)) <=> e \in getDevices(m)
    <3>1. startOf[e] # startOf[d]
      BY <2>3 DEF registered
    <3> QED
      BY <3>1, <2>1, <2>2, <2>3 DEF getDevices
  <2> QED
    BY <2>2, <2>3 DEF getDevices
<1> QED
  BY <1>3, <1>4

(* A ROM that is mapped is listed, and nothing else begins where it does.  *)
LEMMA OnlyRom ==
  ASSUME RomsAlike, BusTypeOK, RomMapped, NEW r \in Roms,
         CurrentRom \subseteq {r}
  PROVE  /\ \A p \in Priorities : \A e \in deviceMap[p] : startOf[e] = startOf[r] => e = r
         /\ CurrentRom = {r} => r \in getDevices(deviceMap)
         /\ getDevices(deviceMap) = others \cup CurrentRom
<1>1. \A p \in Priorities : deviceMap[p] \subseteq Devices
  BY DEF BusTypeOK
<1>2. ASSUME NEW p \in Priorities, NEW e \in deviceMap[p], startOf[e] = startOf[r]
      PROVE  e = r
  <2>1. e \in Roms
    BY <1>1, <1>2 DEF RomsAlike
  <2> QED
    BY <1>2, <2>1 DEF RomMapped
<1>3. ASSUME CurrentRom = {r}
      PROVE  r \in getDevices(deviceMap)
  <2>1. r \in deviceMap[0] /\ 0 \in Priorities
    BY <1>3, BusAssumption DEF RomMapped
  <2>2. \A q \in Priorities : \A e \in deviceMap[q] : startOf[e] = startOf[r] => q = 0
    BY <1>2 DEF RomMapped
  <2>3. r \in registered(deviceMap)
    BY <2>1 DEF registered
  <2> QED
    BY <2>1, <2>2, <2>3, BusAssumption DEF getDevices
<1>4. getDevices(deviceMap) \cap Roms \subseteq CurrentRom
  BY DEF getDevices, registered, RomMapped
<1> QED
  BY <1>2, <1>3, <1>4, <1>1 DEF others

(* The table holds, at every address, the device seen among those listed.  *)
LEMMA TableSeen ==
  ASSUME BusIInv, todo = {}, NEW n \in Addresses
  PROVE  Seen(n, getDevices(deviceMap), deviceAddressArray[n])
<1>1. done = getDevices(deviceMap) /\ Entered(n)
  BY DEF done, BusIInv, Built
<1> QED
  BY <1>1 DEF Entered, Seen

LEMMA SetRomStep ==
  ASSUME RomsAlike, BusIInv, RomInv, NEW d \in Roms, setRom(d)
  PROVE  RomInv'
<1>1. /\ todo = {} /\ adding = NoDevice /\ rom' = d /\ adding' = d /\ d # NoDevice
      /\ replaced' = [old |-> rom, table |-> deviceAddressArray]
      /\ CurrentRom' = {}
  BY BusAssumption DEF setRom, Idle, CurrentRom
<1>2. BusTypeOK /\ Distinct /\ RomMapped
  BY DEF BusIInv, RomInv
<1>3. CASE rom = NoDevice
  <2>1. deviceMap' = deviceMap
    BY <1>3 DEF setRom
  <2>2. CurrentRom = {}
    BY <1>3 DEF CurrentRom
  <2> QED
    BY <1>1, <1>2, <1>3, <2>1, <2>2 DEF RomInv, Distinct, RomMapped, Remembered
<1>4. CASE rom # NoDevice
  <2>1. deviceMap' = without(deviceMap, rom) /\ rom \in Roms /\ rom \in Devices
    BY <1>2, <1>4, BusAssumption DEF setRom, rebuild, BusTypeOK
  <2>2. CurrentRom = {rom}
    BY <1>1, <1>4 DEF CurrentRom
  <2>3. /\ \A p \in Priorities : \A e \in deviceMap[p] : startOf[e] = startOf[rom] => e = rom
        /\ getDevices(deviceMap) = others \cup {rom}
    BY <1>2, <2>1, <2>2, OnlyRom
  <2>4. getDevices(deviceMap') = getDevices(deviceMap) \ {rom}
    BY <1>2, <2>1, <2>3, Listed DEF BusTypeOK
  <2>5. others' = others
    BY <2>1, <2>3, <2>4 DEF others
  <2>6. \A p \in Priorities : deviceMap'[p] = deviceMap[p] \ {rom}
    BY <2>1, <2>3 DEF without
  <2>7. RomMapped'
    BY <1>1, <1>2, <2>2, <2>6 DEF RomMapped
  <2>8. Distinct'
    BY <1>2, <2>6 DEF Distinct
  <2>9. Remembered'
    BY <1>1, <2>3, <2>5, TableSeen DEF Remembered
  <2> QED
    BY <1>1, <2>7, <2>8, <2>9 DEF RomInv
<1> QED
  BY <1>3, <1>4

LEMMA AddRomStep ==
  ASSUME RomsAlike, BusIInv, RomInv, addRom
  PROVE  RomInv'
<1>1. /\ adding \in Roms /\ adding \in Devices /\ adding = rom /\ rom # NoDevice
      /\ adding' = NoDevice /\ rom' = rom /\ replaced' = replaced
      /\ CurrentRom = {} /\ CurrentRom' = {rom}
  BY BusAssumption DEF addRom, BusIInv, BusTypeOK, RomInv, CurrentRom
<1>2. BusTypeOK /\ Distinct /\ RomMapped /\ Remembered
  BY DEF BusIInv, RomInv
<1>3. deviceMap' = with(deviceMap, rom, 0)
  BY <1>1 DEF addRom, RomsAlike, rebuild
<1>4. /\ \A p \in Priorities : \A e \in deviceMap[p] : startOf[e] = startOf[rom] => e = rom
  BY <1>1, <1>2, OnlyRom
<1>5. \A p \in Priorities : deviceMap[p] \cap Roms = {}
  BY <1>1, <1>2 DEF RomMapped
<1>6. rom \notin registered(deviceMap)
  BY <1>1, <1>5 DEF registered
<1>7. getDevices(deviceMap') = getDevices(deviceMap) \cup {rom}
  BY <1>1, <1>2, <1>3, <1>4, <1>6, Listed DEF BusTypeOK
<1>8. others' = others
  BY <1>1, <1>7 DEF others
<1>9. \A p \in Priorities : deviceMap'[p] = IF p = 0 THEN deviceMap[p] \cup {rom} ELSE deviceMap[p]
  <2>1. \A e \in deviceMap[0] : startOf[e] # startOf[rom]
    BY <1>1, <1>4, <1>5, BusAssumption
  <2> QED
    BY <1>2, <1>3, <2>1, BusAssumption DEF with, BusTypeOK
<1>10. RomMapped'
  BY <1>1, <1>5, <1>9 DEF RomMapped
<1>11. Distinct'
  BY <1>2, <1>4, <1>9 DEF Distinct
<1>12. Remembered'
  BY <1>1, <1>2, <1>8 DEF Remembered
<1> QED
  BY <1>1, <1>10, <1>11, <1>12 DEF RomInv

LEMMA RomStep ==
  ASSUME RomsAlike, BusIInv, RomInv, [BusNext]_busVars
  PROVE  RomInv'
<1> USE DEF RomInv
<1>1. ASSUME NEW d \in Devices \ Roms, NEW p \in Priorities, addDevice(d, p)
      PROVE  RomInv'
  <2>1. /\ deviceMap' = with(deviceMap, d, p) /\ UNCHANGED <<rom, adding>>
        /\ replaced'.old = NoDevice
    BY <1>1 DEF addDevice, rebuild, NothingReplaced
  <2>2. deviceMap \in [Priorities -> SUBSET Devices]
    BY DEF BusIInv, BusTypeOK
  <2>3. RomMapped'
    BY <1>1, <2>1, <2>2 DEF with, RomMapped, CurrentRom
  <2>4. Distinct'
    BY <1>1, <2>1, <2>2 DEF with, Distinct
  <2> QED
    BY <2>1, <2>3, <2>4 DEF Remembered
<1>2. ASSUME NEW d \in Devices \ Roms, removeDevice(d)
      PROVE  RomInv'
  <2>1. /\ deviceMap' = without(deviceMap, d) /\ UNCHANGED <<rom, adding>>
        /\ replaced'.old = NoDevice
    BY <1>2 DEF removeDevice, rebuild, NothingReplaced
  <2>2. \A p \in Priorities : deviceMap'[p] \cap Roms = deviceMap[p] \cap Roms
    BY <1>2, <2>1 DEF without, RomsAlike
  <2>3. Distinct'
    BY <2>1 DEF without, Distinct
  <2> QED
    BY <2>1, <2>2, <2>3 DEF Remembered, RomMapped, CurrentRom
<1>3. ASSUME \/ enterNext \/ callDevice \/ UNCHANGED busVars
             \/ \E n \in Addresses : lookup(n)
      PROVE  RomInv'
  <2>1. UNCHANGED <<deviceMap, rom, adding, replaced>>
    BY <1>3 DEF enterNext, callDevice, busVars, lookup
  <2> QED
    BY <2>1 DEF Distinct, RomMapped, CurrentRom, Remembered, others
<1> QED
  BY <1>1, <1>2, <1>3, SetRomStep, AddRomStep DEF BusNext

(* Two listed devices do not begin at one address.                         *)
LEMMA StartsDiffer ==
  ASSUME BusTypeOK, Distinct
  PROVE  \A d, e \in getDevices(deviceMap) : startOf[d] = startOf[e] => d = e
<1> SUFFICES ASSUME NEW d \in getDevices(deviceMap), NEW e \in getDevices(deviceMap),
                    startOf[d] = startOf[e]
             PROVE  d = e
  OBVIOUS
<1>1. PICK p \in Priorities :
        d \in deviceMap[p]
        /\ \A q \in Priorities : \A x \in deviceMap[q] : startOf[x] = startOf[d] => p <= q
  BY DEF getDevices
<1>2. PICK q \in Priorities :
        e \in deviceMap[q]
        /\ \A r \in Priorities : \A x \in deviceMap[r] : startOf[x] = startOf[e] => q <= r
  BY DEF getDevices
<1>3. p <= q /\ q <= p /\ p \in Int /\ q \in Int
  BY <1>1, <1>2, BusAssumption
<1>4. p = q
  BY <1>3
<1> QED
  BY <1>1, <1>2, <1>4 DEF Distinct

LEMMA RomInvShows ==
  ASSUME RomsAlike, BusIInv, RomInv
  PROVE  RomReplaced
<1> SUFFICES ASSUME todo = {}, adding = NoDevice, replaced.old # NoDevice,
                    NEW n \in Addresses
             PROVE  deviceAddressArray[n] = IF replaced.table[n] = replaced.old
                                            THEN rom ELSE replaced.table[n]
  BY DEF RomReplaced, Idle
<1> DEFINE A == deviceAddressArray[n]
           T == replaced.table[n]
           o == replaced.old
<1>1. rom # NoDevice /\ rom \in Roms /\ o \in Roms /\ CurrentRom = {rom}
  BY DEF RomInv, Remembered, BusIInv, BusTypeOK, CurrentRom
<1>2. startOf[rom] = startOf[o] /\ endOf[rom] = endOf[o]
  BY <1>1 DEF RomsAlike
<1>3. Seen(n, others \cup {o}, T)
  BY DEF RomInv, Remembered
<1>4. getDevices(deviceMap) = others \cup {rom}
  BY <1>1, OnlyRom DEF BusIInv, RomInv
<1>5. Seen(n, others \cup {rom}, A)
  BY <1>4, TableSeen
<1>6. \A d, e \in others \cup {rom} : startOf[d] = startOf[e] => d = e
  BY <1>4, StartsDiffer DEF BusIInv, RomInv
<1>7. /\ \A d \in others \cup {rom, o} : startOf[d] \in Nat
      /\ \A d \in others : startOf[d] # startOf[o] /\ d \in Devices
      /\ NoDevice \notin others \cup {rom, o}
  BY <1>1, BusAssumption DEF others, getDevices, registered, BusIInv, BusTypeOK, RomsAlike
<1>8. includes(rom, n) <=> includes(o, n)
  BY <1>2 DEF includes
<1> HIDE DEF A, T, o
<1>9. CASE T = o
  <2>1. includes(rom, n) /\ \A e \in others : includes(e, n) => startOf[e] <= startOf[rom]
    BY <1>2, <1>3, <1>7, <1>8, <1>9 DEF Seen
  <2>2. A # NoDevice /\ A \in others \cup {rom} /\ includes(A, n) /\ startOf[rom] <= startOf[A]
    BY <1>5, <2>1 DEF Seen
  <2>3. startOf[A] = startOf[rom]
    BY <1>7, <2>1, <2>2
  <2> QED
    BY <1>6, <1>9, <2>2, <2>3 DEF A, T, o
<1>10. CASE T # o /\ T = NoDevice
  <2>1. \A e \in others \cup {rom} : ~includes(e, n)
    BY <1>3, <1>8, <1>10 DEF Seen
  <2>2. A = NoDevice
    BY <1>5, <2>1 DEF Seen
  <2> QED
    BY <1>10, <2>2 DEF A, T, o
<1>11. CASE T # o /\ T # NoDevice
  <2>1. /\ T \in others /\ includes(T, n)
        /\ \A e \in others \cup {o} : includes(e, n) => startOf[e] <= startOf[T]
    BY <1>3, <1>11 DEF Seen
  <2>2. A \in others \cup {rom} /\ includes(A, n) /\ startOf[T] <= startOf[A]
    BY <1>5, <2>1 DEF Seen
  <2>3. startOf[A] <= startOf[T]
    BY <1>2, <1>8, <2>1, <2>2
  <2>4. A = T
    BY <1>6, <1>7, <2>1, <2>2, <2>3
  <2> QED
    BY <1>11, <2>4 DEF A, T, o
<1> QED
  BY <1>9, <1>10, <1>11

(* On every machine whose ROMs have one range of their own, whatever was   *)
(* added and removed before and after: setRom puts the new memory wherever *)
(* the old one was seen, and leaves the rest of the map as it was.         *)
THEOREM RomCorrect ==
  ASSUME RomsAlike
  PROVE  BusSpec => []RomReplaced
<1>1. BusInit => RomInv
  BY DEF BusInit, RomInv, Distinct, RomMapped, CurrentRom, Remembered, NothingReplaced
<1>2. BusIInv /\ RomInv /\ [BusNext]_busVars => RomInv'
  BY RomStep
<1>3. BusIInv /\ RomInv => RomReplaced
  BY RomInvShows
<1> QED
  BY <1>1, <1>2, <1>3, BusAlways, PTL DEF BusSpec
=============================================================================
