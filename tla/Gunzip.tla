--------------------------------- MODULE Gunzip ----------------------------------
(***************************************************************************)
(* The gzip sample (gunzip65.c).  One buffer holds the file, then the      *)
(* compressed data at its end, and then the decompressed data, which is    *)
(* written from its beginning while the rest of the other is still to be   *)
(* read.                                                                   *)
(*                                                                         *)
(* A file has the structure the comment at line 49 gives.  Its compressed  *)
(* data is a sequence of pieces; when inflate is through with the n-th, it *)
(* has read ends[n].in bytes and written ends[n].out bytes.  What inflate  *)
(* makes of bytes that were overwritten has another length or another CRC. *)
(***************************************************************************)
EXTENDS Integers, Sequences, FiniteSetsExt

CONSTANTS GzBufferSize, GzFiles

ASSUME GunzipAssumption ==
  /\ GzBufferSize \in Nat
  /\ \A f \in GzFiles :
       /\ f.flags \subseteq {"FEXTRA", "FNAME", "FCOMMENT", "FHCRC"}
       /\ f.extra \in Nat /\ f.name \in Nat /\ f.comment \in Nat
       /\ f.ends \in Seq([in : Nat, out : Nat])
       /\ \A m, n \in DOMAIN f.ends :
            m <= n => f.ends[m].in <= f.ends[n].in /\ f.ends[m].out <= f.ends[n].out

VARIABLES
  gzFile,              (* the file that is decompressed; does not change   *)
  gzAt,                (* where the program is                             *)
  gzBuffer,            (* [0..GzBufferSize - 1 -> a byte]                  *)
  ptr,                 (* end of the part of the header that was skipped   *)
  complen,             (* length of the file, then of its data             *)
  piece,               (* pieces that were inflated                        *)
  total_out            (* bytes that were written                          *)

gunzipVars == <<gzFile, gzAt, gzBuffer, ptr, complen, piece, total_out>>

zero == <<"byte", 0>>
some == <<"byte", 1>>

inLength(f, n) == IF n = 0 THEN 0 ELSE f.ends[n].in
outLength(f, n) == IF n = 0 THEN 0 ELSE f.ends[n].out
inAll(f) == inLength(f, Len(f.ends))
unclen(f) == outLength(f, Len(f.ends))

(* Where the parts of a file end that its flags tell of, and the bytes.    *)
(* An extra field may hold zeros.                                          *)
extraEnd(f)   == 10 + IF "FEXTRA" \in f.flags THEN 2 + f.extra ELSE 0
nameEnd(f)    == extraEnd(f) + IF "FNAME" \in f.flags THEN f.name + 1 ELSE 0
commentEnd(f) == nameEnd(f) + IF "FCOMMENT" \in f.flags THEN f.comment + 1 ELSE 0
dataAt(f)     == commentEnd(f) + IF "FHCRC" \in f.flags THEN 2 ELSE 0
fileLength(f) == dataAt(f) + inAll(f) + 8

zeroAt(f, at) ==
  \/ 12 <= at /\ at < extraEnd(f)
  \/ "FNAME" \in f.flags /\ at = nameEnd(f) - 1
  \/ "FCOMMENT" \in f.flags /\ at = commentEnd(f) - 1
  \/ commentEnd(f) <= at /\ at < dataAt(f)

fileByte(f, at) ==
  IF dataAt(f) <= at /\ at < dataAt(f) + inAll(f) THEN <<"in", at - dataAt(f) + 1>>
  ELSE IF zeroAt(f, at) THEN zero ELSE some

GunzipInit ==
  /\ gzFile \in GzFiles
  /\ gzAt = "read" /\ gzBuffer = [i \in 0..(GzBufferSize - 1) |-> zero]
  /\ ptr = 0 /\ complen = 0 /\ piece = 0 /\ total_out = 0

ReadGz ==
  /\ gzAt = "read"
  /\ IF fileLength(gzFile) >= GzBufferSize
     THEN gzAt' = "failed" /\ UNCHANGED <<gzBuffer, complen>>
     ELSE /\ complen' = fileLength(gzFile)
          /\ gzBuffer' = [i \in DOMAIN gzBuffer |-> IF i < complen' THEN fileByte(gzFile, i) ELSE zero]
          /\ gzAt' = IF unclen(gzFile) > GzBufferSize THEN "failed" ELSE "extra"
  /\ UNCHANGED <<gzFile, ptr, piece, total_out>>

skipTo(p, where) ==
  /\ ptr' = p /\ gzAt' = where
  /\ UNCHANGED <<gzFile, gzBuffer, complen, piece, total_out>>

behindZero == 1 + Min({i \in DOMAIN gzBuffer : i >= ptr /\ gzBuffer[i] = zero})

SkipExtra == gzAt = "extra" /\ skipTo(IF "FEXTRA" \in gzFile.flags THEN 12 + gzFile.extra ELSE 10, "name")
SkipName == gzAt = "name" /\ skipTo(IF "FNAME" \in gzFile.flags THEN behindZero ELSE ptr, "comment")
SkipComment == gzAt = "comment" /\ skipTo(IF "FCOMMENT" \in gzFile.flags THEN behindZero ELSE ptr, "crc")

(* Mutant: the CRC of the header is not skipped.                           *)
SkipCrcNot == gzAt = "crc" /\ skipTo(ptr, "move")

SkipCrc == gzAt = "crc" /\ skipTo(IF "FHCRC" \in gzFile.flags THEN ptr + 2 ELSE ptr, "move")

(* The data, without header and trailer, goes to the end of the buffer.    *)
MoveData ==
  /\ gzAt = "move"
  /\ complen' = complen - (ptr + 8)
  /\ LET ptr2 == GzBufferSize - complen'
     IN  gzBuffer' = [i \in DOMAIN gzBuffer |-> IF i >= ptr2 THEN gzBuffer[ptr + i - ptr2] ELSE gzBuffer[i]]
  /\ gzAt' = "inflate"
  /\ UNCHANGED <<gzFile, ptr, piece, total_out>>

(* inflatemem: a piece is read and what it stands for is written.  The     *)
(* code reads from the address it was given, the start of what was moved.  *)
Inflate ==
  /\ gzAt = "inflate" /\ piece < Len(gzFile.ends)
  /\ LET from   == GzBufferSize - complen
         end    == gzFile.ends[piece + 1]
         intact == \A n \in inLength(gzFile, piece) + 1 .. end.in : gzBuffer[from + n - 1] = <<"in", n>>
     IN  IF intact
         THEN /\ gzBuffer' = [i \in DOMAIN gzBuffer |->
                   IF i \in total_out .. end.out - 1 THEN <<"out", i>> ELSE gzBuffer[i]]
              /\ piece' = piece + 1 /\ total_out' = end.out
              /\ UNCHANGED gzAt
         ELSE gzAt' = "failed" /\ UNCHANGED <<gzBuffer, piece, total_out>>
  /\ UNCHANGED <<gzFile, ptr, complen>>

(* The length and the CRC agree; the file is written, or not.  A length of *)
(* nothing is taken for a failure.                                         *)
WriteGz ==
  /\ gzAt = "inflate" /\ piece = Len(gzFile.ends)
  /\ gzAt' \in IF total_out = 0 THEN {"failed"} ELSE {"Ok", "not written"}
  /\ UNCHANGED <<gzFile, gzBuffer, ptr, complen, piece, total_out>>

GunzipNext ==
  ReadGz \/ SkipExtra \/ SkipName \/ SkipComment \/ SkipCrc \/ MoveData \/ Inflate \/ WriteGz

GunzipSpec == GunzipInit /\ [][GunzipNext]_gunzipVars

-----------------------------------------------------------------------------
(* "the decompressed data doesn't go further than unread compressed data"  *)
fitsInPlace(f) ==
  \A n \in 0 .. Len(f.ends) - 1 : outLength(f, n) <= GzBufferSize - (inAll(f) - inLength(f, n))

(* A good file that is shorter than the buffer, whose contents fit in it   *)
(* and do not run over what is still to be read is decompressed, whatever  *)
(* its header holds, unless it is empty; what is written is what was       *)
(* compressed.                                                             *)
GoodFileInflated ==
  /\ gzAt = "failed" =>
       \/ fileLength(gzFile) >= GzBufferSize
       \/ unclen(gzFile) > GzBufferSize
       \/ ~fitsInPlace(gzFile)
       \/ unclen(gzFile) = 0
  /\ gzAt \in {"Ok", "not written"} =>
       /\ total_out = unclen(gzFile)
       /\ \A i \in 0..(total_out - 1) : gzBuffer[i] = <<"out", i>>
=============================================================================
