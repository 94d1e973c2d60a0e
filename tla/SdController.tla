------------------------------ MODULE SdController ------------------------------
(***************************************************************************)
(* The SD card controller of the Multicomp machine (SdController.java):    *)
(* the guest writes a sector address into three registers, gives a         *)
(* command, and then reads or writes the data register once per byte.  The *)
(* card is a file, which may be missing, may end in the middle of a        *)
(* sector, and whose reads and writes may fail.                            *)
(*                                                                         *)
(* The byte position of a sector is a signed int, of which only sectors    *)
(* from -IntSectors to IntSectors - 1 exist.                               *)
(***************************************************************************)
EXTENDS Integers, Sequences, FiniteSetsExt

CONSTANTS
  SectorSize,    (* SECTOR_SIZE (512)                                      *)
  HalfByte,      (* bytes from here on are negative in Java (128)          *)
  LbaBase,       (* values of an address register (256)                    *)
  IntSectors,    (* sectors an int can address (2^22)                      *)
  ImageSize,     (* bytes of the image file at the start                   *)
  MaxImage       (* bound: bytes it may grow to                            *)

ASSUME SdAssumption ==
  /\ SectorSize \in Nat \ {0} /\ HalfByte \in Nat \ {0}
  /\ LbaBase \in Nat \ {0} /\ IntSectors \in Nat \ {0}
  /\ ImageSize \in Nat /\ MaxImage \in Nat
  /\ ImageSize <= SectorSize * IntSectors

Bytes == 0 .. 2 * HalfByte - 1
Digits == 0 .. LbaBase - 1
Capacity == ImageSize \div SectorSize
Buffers == [1 .. SectorSize -> Bytes]

VARIABLES
  image,         (* the contents of sd.img                                 *)
  present,       (* sdImageFile # null                                     *)
  lba,           (* the three address registers                            *)
  commanded,     (* the sector that position was computed from             *)
  status, readBuffer, readPosition,
  writeBuffer,   (* the first writePosition bytes of it                    *)
  data,          (* what the data register was last read as                *)
  faulty         (* history: the last transfer was not done                *)

vars == <<image, present, lba, commanded, status, readBuffer, readPosition,
          writeBuffer, data, faulty>>

Init ==
  /\ image \in [1 .. ImageSize -> Bytes] /\ present \in BOOLEAN
  /\ lba = [i \in 0 .. 2 |-> 0] /\ commanded = 0
  /\ status = "IDLE"
  /\ readBuffer = [i \in 1 .. SectorSize |-> 0] /\ readPosition = 0
  /\ writeBuffer = <<>>
  /\ data = 0 /\ faulty = FALSE

-----------------------------------------------------------------------------
(* The sector number, and its byte position in 32 bits.                    *)
sectorOf(r) == r[0] + r[1] * LbaBase + r[2] * LbaBase * LbaBase

asInt(n) == ((n + IntSectors) % (2 * IntSectors)) - IntSectors

computePosition(n) == SectorSize * asInt(n)

(* A byte as Java extends it to an int.                                    *)
signed(b) == IF b < HalfByte THEN b ELSE b - 2 * HalfByte

(* FileInputStream: skipping to a negative position fails; a read that     *)
(* reaches the end of the file leaves the rest of the buffer alone.        *)
filled(buffer, pos) ==
  [i \in 1 .. SectorSize |->
     IF pos >= 0 /\ pos + i <= Len(image) THEN image[pos + i] ELSE buffer[i]]

(* RandomAccessFile: skipBytes goes no further than the end, and nowhere   *)
(* if the count is negative.                                               *)
skipTo(pos) == Max({0, Min({pos, Len(image)})})

overwritten(pos, bytes) ==
  LET at == skipTo(pos)
  IN  [i \in 1 .. Max({Len(image), at + Len(bytes)}) |->
         IF at < i /\ i <= at + Len(bytes) THEN bytes[i - at] ELSE image[i]]

-----------------------------------------------------------------------------
(* The registers.                                                          *)

writeLba(i, d) ==
  /\ lba' = [lba EXCEPT ![i] = d]
  /\ UNCHANGED <<image, present, commanded, status, readBuffer, readPosition,
                 writeBuffer, data, faulty>>

(* The file is opened, skipped and read, or something of that fails.       *)
fillReadBuffer(n) ==
  \E ok \in BOOLEAN :
    /\ readBuffer' = IF ok /\ present THEN filled(readBuffer, computePosition(n))
                                     ELSE readBuffer
    /\ faulty' = ~(ok /\ present)

prepareRead ==
  /\ status' = "READ"
  /\ readPosition' = 0
  /\ commanded' = sectorOf(lba)
  /\ fillReadBuffer(sectorOf(lba))
  /\ UNCHANGED <<image, present, lba, writeBuffer, data>>

prepareWrite ==
  /\ skipTo(computePosition(sectorOf(lba))) + SectorSize <= MaxImage
  /\ status' = "WRITE"
  /\ writeBuffer' = <<>>
  /\ commanded' = sectorOf(lba)
  /\ UNCHANGED <<image, present, lba, readBuffer, readPosition, data, faulty>>

otherCommand ==
  /\ status' = "IDLE"
  /\ UNCHANGED <<image, present, lba, commanded, readBuffer, readPosition,
                 writeBuffer, data, faulty>>

readDataIdle ==
  /\ status # "READ"
  /\ data' = 0
  /\ UNCHANGED <<image, present, lba, commanded, status, readBuffer,
                 readPosition, writeBuffer, faulty>>

readData ==
  /\ status = "READ"
  /\ data' = signed(readBuffer[readPosition + 1])
  /\ readPosition' = readPosition + 1
  /\ status' = IF readPosition' >= SectorSize THEN "IDLE" ELSE "READ"
  /\ UNCHANGED <<image, present, lba, commanded, readBuffer, writeBuffer, faulty>>

(* Mutant: the sector goes where the address registers point by then.      *)
writeSectorLate(bytes) ==
  \E n \in 0 .. SectorSize :
    /\ image' = IF present /\ n > 0
                THEN overwritten(computePosition(sectorOf(lba)), SubSeq(bytes, 1, n))
                ELSE image
    /\ faulty' = ~(present /\ n = SectorSize)

(* A write that fails may have written the first n bytes.                  *)
writeSector(bytes) ==
  \E n \in 0 .. SectorSize :
    /\ image' = IF present /\ n > 0
                THEN overwritten(computePosition(commanded), SubSeq(bytes, 1, n))
                ELSE image
    /\ faulty' = ~(present /\ n = SectorSize)

writeData(d) ==
  /\ status = "WRITE"
  /\ writeBuffer' = Append(writeBuffer, d)
  /\ IF Len(writeBuffer') >= SectorSize
     THEN writeSector(writeBuffer') /\ status' = "IDLE"
     ELSE UNCHANGED <<image, faulty, status>>
  /\ UNCHANGED <<present, lba, commanded, readBuffer, readPosition, data>>

Next == \/ \E i \in 0 .. 2 : \E d \in Digits : writeLba(i, d)
        \/ prepareRead \/ prepareWrite \/ otherCommand
        \/ readDataIdle \/ readData
        \/ \E d \in Bytes : writeData(d)

Spec == Init /\ [][Next]_vars

-----------------------------------------------------------------------------
(* The contents of a sector of the card.                                   *)
stored(s) == [i \in 1 .. SectorSize |-> image[s * SectorSize + i]]

(* The controller is a store of blocks: the guest gets what it stored last *)
(* in the sector it asked for, a sector is written as a whole or not at    *)
(* all, whatever it abandons, whatever it writes into the address          *)
(* registers meanwhile, and however often reads and writes fail.  A write  *)
(* behind the end of the card goes to the end of the file, and as long as  *)
(* its byte position fits an int it changes no sector of the card.  (From  *)
(* sector 2^22 on it does: the position is negative and sector 0 is        *)
(* overwritten.)                                                           *)
Store == INSTANCE BlockStore WITH
  Addresses <- 0 .. LbaBase * LbaBase * LbaBase - 1,
  Ignored   <- Capacity .. IntSectors - 1,
  disk   <- [s \in 0 .. Capacity - 1 |-> stored(s)],
  mode   <- status,
  sector <- commanded,
  rest   <- CASE status = "READ"  -> SubSeq(readBuffer, readPosition + 1, SectorSize)
              [] status = "WRITE" -> writeBuffer
              [] status = "IDLE"  -> <<>>,
  data   <- data % (2 * HalfByte)

ImplementsStore == Store!Spec

=============================================================================
