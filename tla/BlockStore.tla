------------------------------- MODULE BlockStore -------------------------------
(***************************************************************************)
(* What the guest may expect of an SD card: sectors that are read and      *)
(* written as a whole, one transfer at a time, byte by byte.  A sector is  *)
(* read when the command is given and written when its last byte arrives;  *)
(* a transfer that is abandoned leaves no trace.  A transfer the medium    *)
(* fails to do is faulty: it delivers anything, or leaves anything in the  *)
(* one sector it was to write.  Of addresses behind the card nothing is    *)
(* promised but that a write to some of them changes no sector.            *)
(***************************************************************************)
EXTENDS Integers, Sequences

CONSTANTS
  SectorSize,   (* bytes of a sector                                       *)
  Bytes,        (* the values of a byte                                    *)
  Addresses,    (* the sector numbers the guest can ask for                *)
  Capacity,     (* the sectors of the card are 0 .. Capacity - 1           *)
  Ignored       (* addresses behind the card a write to which is harmless  *)

Contents == [1 .. SectorSize -> Bytes]
Sectors == 0 .. Capacity - 1

VARIABLES
  disk,      (* the contents of every sector                               *)
  mode,      (* "IDLE", "READ" or "WRITE"                                  *)
  sector,    (* the address the transfer is about                          *)
  rest,      (* READ: bytes still to deliver; WRITE: bytes received        *)
  data,      (* the byte delivered last                                    *)
  faulty     (* whether the last transfer was not done                     *)

storeVars == <<disk, mode, sector, rest, data, faulty>>

Init == /\ disk \in [Sectors -> Contents]
        /\ mode = "IDLE" /\ sector \in Addresses /\ rest = <<>>
        /\ data \in Bytes /\ faulty = FALSE

Read(s) == /\ mode' = "READ" /\ sector' = s
           /\ rest' \in Contents
           /\ s \in Sectors /\ ~faulty' => rest' = disk[s]
           /\ faulty' \in BOOLEAN
           /\ UNCHANGED <<disk, data>>

Deliver == /\ mode = "READ"
           /\ data' = Head(rest)
           /\ rest' = Tail(rest)
           /\ mode' = IF rest' = <<>> THEN "IDLE" ELSE "READ"
           /\ UNCHANGED <<disk, sector, faulty>>

Write(s) == /\ mode' = "WRITE" /\ sector' = s /\ rest' = <<>>
            /\ UNCHANGED <<disk, data, faulty>>

Receive(b) == /\ mode = "WRITE" /\ Len(rest) < SectorSize - 1
              /\ rest' = Append(rest, b)
              /\ UNCHANGED <<disk, mode, sector, data, faulty>>

Commit(b) == /\ mode = "WRITE" /\ Len(rest) = SectorSize - 1
             /\ mode' = "IDLE" /\ rest' = <<>>
             /\ disk' \in [Sectors -> Contents]
             /\ sector \in Sectors =>
                  /\ \A s \in Sectors \ {sector} : disk'[s] = disk[s]
                  /\ ~faulty' => disk'[sector] = Append(rest, b)
             /\ sector \in Ignored => disk' = disk
             /\ faulty' \in BOOLEAN
             /\ UNCHANGED <<sector, data>>

Abandon == /\ mode' = "IDLE" /\ rest' = <<>>
           /\ UNCHANGED <<disk, sector, data, faulty>>

(* A read of the data register outside a transfer.                         *)
DeliverNothing == /\ mode # "READ"
                  /\ data' = 0
                  /\ UNCHANGED <<disk, mode, sector, rest, faulty>>

Next == \/ \E s \in Addresses : Read(s) \/ Write(s)
        \/ \E b \in Bytes : Receive(b) \/ Commit(b)
        \/ Deliver \/ DeliverNothing \/ Abandon

Spec == Init /\ [][Next]_storeVars
=============================================================================
