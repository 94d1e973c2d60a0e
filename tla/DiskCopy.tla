-------------------------------- MODULE DiskCopy --------------------------------
(***************************************************************************)
(* The floppy disk copy of the cc65 samples (diodemo.c): it reads as many  *)
(* sectors of the source as fit into a buffer, writes them to the target,  *)
(* and goes on with the next chunk.  With one drive the user swaps the     *)
(* disks at every prompt, and may insert any disk, or the right one.       *)
(* Opening a drive, reading and writing may fail at any time.              *)
(***************************************************************************)
EXTENDS Integers, Sequences

CONSTANTS
  Drives, Disks, NoDisk,
  SourceDisk, TargetDisk,  (* what the user should insert                  *)
  Format,          (* [Disks -> [size |-> .., count |-> ..]]               *)
  Heaps,           (* the sizes of the heap the program may find           *)
  WordBase,        (* values of an unsigned int (65536)                    *)
  MAX_CHUNKS       (* (10)                                                 *)

ASSUME CopyAssumption ==
  /\ SourceDisk \in Disks /\ TargetDisk \in Disks /\ SourceDisk # TargetDisk
  /\ NoDisk \notin Disks
  /\ WordBase \in Nat \ {0, 1} /\ MAX_CHUNKS \in Nat \ {0}
  /\ Heaps \subseteq Nat
  /\ \A d \in Disks : Format[d] \in [size : 1 .. WordBase - 1, count : 0 .. WordBase - 1]

SectorsOf(d) == 0 .. Format[d].count - 1

(* A sector's content is told by the disk and the sector it was first on.  *)
Blank == [d \in Disks |-> [s \in SectorsOf(d) |-> <<d, s>>]]

VARIABLES
  copyPc,          (* where the program is                                 *)
  sourceId, targetId,
  opened,          (* which of the handles Source and Target are not NULL  *)
  format,          (* SectSize and SectCount                               *)
  chunkCount, chunkOffset, sector,
  buffer,          (* the sectors read in this round                       *)
  drive,           (* the disk in every drive                              *)
  content,         (* what is on every disk                                *)
  wrong            (* history: another disk than the one asked for         *)

diskCopyVars == <<copyPc, sourceId, targetId, opened, format, chunkCount,
                  chunkOffset, sector, buffer, drive, content, wrong>>

CopyInit ==
  /\ copyPc = "top"
  /\ sourceId \in Drives /\ targetId \in Drives
  /\ opened = {} /\ format = [size |-> 0, count |-> 0]
  /\ chunkCount = 0 /\ chunkOffset = 0 /\ sector = 0
  /\ buffer = <<>>
  /\ drive = [d \in Drives |-> NoDisk]
  /\ content = Blank
  /\ wrong = FALSE

at(here) == copyPc = here
goto(there) == copyPc' = there

(* One drive for both disks, or a drive not opened yet.                    *)
mustAsk(handle) == sourceId = targetId \/ handle \notin opened

(* The chunk that k chunks would make, computed in unsigned int.           *)
chunkOf(count, k) == ((count + k - 1) % WordBase) \div k

(* malloc succeeds for what fits into the heap, but not for nothing.       *)
mallocOk(n, heap) == 0 < n /\ n < WordBase - 1 /\ n <= heap

(* AllocBuffer: the chunk of the fewest whose buffer can be allocated, if  *)
(* there is one.                                                           *)
AllocBuffer(f, heap) ==
  LET fit == {k \in 1 .. MAX_CHUNKS : mallocOk(chunkOf(f.count, k) * f.size, heap)}
  IN  {chunkOf(f.count, k) : k \in {j \in fit : \A i \in fit : j <= i}}

-----------------------------------------------------------------------------
(* The user answers a prompt: inserts a disk, taking it out of the other   *)
(* drive if it is there, or leaves things as they are; then any key.       *)
Insert(id, asked) ==
  \E d \in Disks \cup {drive[id]} :
    /\ drive' = [e \in Drives |-> IF e = id THEN d
                                  ELSE IF drive[e] = d THEN NoDisk ELSE drive[e]]
    /\ wrong' = (wrong \/ d # asked)

AskForSource ==
  /\ at("top")
  /\ IF mustAsk("source") THEN Insert(sourceId, SourceDisk)
                          ELSE UNCHANGED <<drive, wrong>>
  /\ goto(IF "source" \in opened THEN "read" ELSE "openSource")
  /\ sector' = chunkOffset
  /\ UNCHANGED <<sourceId, targetId, opened, format, chunkCount, chunkOffset,
                 buffer, content>>

(* The disk in the drive decides what dio_query_... answer.                *)
OpenSource ==
  /\ at("openSource")
  /\ drive[sourceId] # NoDisk
  /\ \E heap \in Heaps :
       LET f == Format[drive[sourceId]]
       IN  \E c \in AllocBuffer(f, heap) : format' = f /\ chunkCount' = c
  /\ opened' = opened \cup {"source"}
  /\ goto("read")
  /\ UNCHANGED <<sourceId, targetId, chunkOffset, sector, buffer, drive, content, wrong>>

inChunk == sector < format.count /\ sector - chunkOffset < chunkCount

canAccess(id) == drive[id] # NoDisk /\ sector \in SectorsOf(drive[id])

ReadSector ==
  /\ at("read") /\ inChunk
  /\ canAccess(sourceId)
  /\ buffer' = Append(buffer, content[drive[sourceId]][sector])
  /\ sector' = sector + 1
  /\ UNCHANGED <<copyPc, sourceId, targetId, opened, format, chunkCount,
                 chunkOffset, drive, content, wrong>>

(* Mutant: with one drive too, the disk is asked for only once.            *)
AskForTargetOnce ==
  /\ at("read") /\ ~inChunk
  /\ IF "target" \notin opened THEN Insert(targetId, TargetDisk)
                               ELSE UNCHANGED <<drive, wrong>>
  /\ goto(IF "target" \in opened THEN "write" ELSE "openTarget")
  /\ sector' = chunkOffset
  /\ UNCHANGED <<sourceId, targetId, opened, format, chunkCount, chunkOffset,
                 buffer, content>>

AskForTarget ==
  /\ at("read") /\ ~inChunk
  /\ IF mustAsk("target") THEN Insert(targetId, TargetDisk)
                          ELSE UNCHANGED <<drive, wrong>>
  /\ goto(IF "target" \in opened THEN "write" ELSE "openTarget")
  /\ sector' = chunkOffset
  /\ UNCHANGED <<sourceId, targetId, opened, format, chunkCount, chunkOffset,
                 buffer, content>>

(* The format is compared once, when the target is opened.                 *)
OpenTarget ==
  /\ at("openTarget")
  /\ drive[targetId] # NoDisk /\ Format[drive[targetId]] = format
  /\ opened' = opened \cup {"target"}
  /\ goto("write")
  /\ UNCHANGED <<sourceId, targetId, format, chunkCount, chunkOffset, sector,
                 buffer, drive, content, wrong>>

WriteSector ==
  /\ at("write") /\ inChunk
  /\ canAccess(targetId)
  /\ content' = [content EXCEPT ![drive[targetId]][sector] = buffer[sector - chunkOffset + 1]]
  /\ sector' = sector + 1
  /\ UNCHANGED <<copyPc, sourceId, targetId, opened, format, chunkCount,
                 chunkOffset, buffer, drive, wrong>>

NextChunk ==
  /\ at("write") /\ ~inChunk
  /\ chunkOffset' = (chunkOffset + chunkCount) % WordBase
  /\ buffer' = <<>>
  /\ goto(IF sector < format.count THEN "top" ELSE "done")
  /\ UNCHANGED <<sourceId, targetId, opened, format, chunkCount, sector,
                 drive, content, wrong>>

(* Opening, allocating, comparing, reading or writing fails.               *)
CopyFails ==
  /\ \/ copyPc \in {"openSource", "openTarget"}
     \/ copyPc \in {"read", "write"} /\ inChunk
  /\ goto("failed")
  /\ UNCHANGED <<sourceId, targetId, opened, format, chunkCount, chunkOffset,
                 sector, buffer, drive, content, wrong>>

CopyNext == \/ AskForSource \/ OpenSource \/ ReadSector \/ AskForTarget
            \/ OpenTarget \/ WriteSector \/ NextChunk \/ CopyFails

CopySpec == CopyInit /\ [][CopyNext]_diskCopyVars /\ WF_diskCopyVars(CopyNext)

-----------------------------------------------------------------------------
(* For a user who inserts the disks he is asked for, the program is a      *)
(* sector by sector copy, whatever fails and however often the disks are   *)
(* swapped: the source is never written, nothing is skipped, repeated or   *)
(* mixed up at the border of a chunk, and "successfully copied" is said    *)
(* only when the target equals the source (main's loop and its prompts).   *)
sectorsWritten == CASE copyPc = "write" -> sector
                    [] copyPc = "done"  -> format.count
                    [] OTHER            -> chunkOffset

Promise == INSTANCE SectorCopy WITH
  original <- content[SourceDisk],
  image    <- content[TargetDisk],
  copied   <- sectorsWritten,
  state    <- IF wrong THEN "void"
              ELSE IF copyPc \in {"done", "failed"} THEN copyPc ELSE "running"

(* Once the source is open, the copy ends, with success or with an error:  *)
(* every chunk has a sector, however small the heap and however large the  *)
(* disk (AllocBuffer, whose sum SectCount + Chunks - 1 wraps on the        *)
(* largest disks).                                                         *)
CopyEnds == "source" \in opened ~> copyPc \in {"done", "failed"}

(* The promise as a property of the program.                               *)
ImplementsSectorCopy == Promise!Spec
=============================================================================
