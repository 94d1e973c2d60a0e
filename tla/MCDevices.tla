------------------------------- MODULE MCDevices -------------------------------
(***************************************************************************)
(* An instance for TLC of the serial terminal, in four machines, and of    *)
(* the bus.  One of them runs: a guest that polls either ACIA, one that is *)
(* interrupted by the 6551, one that polls without a memory window open,   *)
(* for liveness, or the bus, without the terminal.                         *)
(***************************************************************************)
EXTENDS SerialTerminal, Bus

VARIABLE machine    (* the one that runs; it does not change               *)

Irq  == INSTANCE SerialTerminal WITH Guest <- "irq"
Old  == INSTANCE SerialTerminal WITH Kind <- "6850"
Live == INSTANCE SerialTerminal WITH MemoryWindow <- FALSE

(* Seven addresses.  As on the Multicomp machine the ROM covers the upper  *)
(* part of the bus and has the ACIA inside its range; the RAM before it is *)
(* overlapped in the other ways: low from below, same at its start         *)
(* address; long goes beyond the bus.                                      *)
MCStart == [ram |-> 3, low |-> 2, same |-> 3, uart |-> 5, long |-> 7,
            rom1 |-> 4, rom2 |-> 4]
MCEnd   == [ram |-> 5, low |-> 4, same |-> 6, uart |-> 6, long |-> 9,
            rom1 |-> 8, rom2 |-> 8]

MCInit == Init /\ BusInit /\ machine \in {"poll", "irq", "old", "live", "bus"}

MCNext == /\ \/ machine = "poll" /\ Next
             \/ machine = "irq" /\ Irq!Next
             \/ machine = "old" /\ Old!Next
             \/ machine = "live" /\ Live!LiveNext
             \/ machine = "bus" /\ BusNext
          /\ machine = "bus" => UNCHANGED vars
          /\ machine # "bus" => UNCHANGED busVars
          /\ UNCHANGED machine

(* The run loop keeps stepping, and time passes.                           *)
MCFairness == /\ WF_vars(machine = "live" /\ Live!GuestStep)
              /\ WF_vars(machine = "live" /\ RxDelayOver)
              /\ WF_vars(machine = "live" /\ TxDelayOver)

MCSpec == MCInit /\ [][MCNext]_<<vars, busVars, machine>> /\ MCFairness

(* Whatever is lost of what was typed in a burst, the last key gets        *)
(* through to the guest: FifoRingBuffer drops the oldest element, and the  *)
(* ACIA keeps the newest character.                                        *)
LastKeyReceived ==
  (machine = "live" /\ typed = MaxTyped) ~>
    (received # <<>> /\ received[Len(received)] = MaxTyped)
=============================================================================
