---------------------------- MODULE SdController_proofs ----------------------------
(***************************************************************************)
(* The SD card controller implements the store of blocks, for every size   *)
(* of a sector, of the card, of a byte, of an address register and of an   *)
(* int that reaches the end of the card.                                   *)
(*                                                                         *)
(* The mapping needs no history; the invariant only has types, where the   *)
(* positions are, and that the file never becomes shorter.  What is hard   *)
(* is arithmetic: where a sector lies in the file once its position went   *)
(* through an int and through the end of the file.                         *)
(***************************************************************************)
EXTENDS SdController, SequenceTheorems, TLAPS

LbaRange == 0 .. LbaBase * LbaBase * LbaBase - 1

TypeOK ==
  /\ image \in Seq(Bytes) /\ Len(image) >= ImageSize
  /\ present \in BOOLEAN /\ lba \in [0 .. 2 -> Digits] /\ commanded \in LbaRange
  /\ status \in {"IDLE", "READ", "WRITE"}
  /\ readBuffer \in Buffers /\ readPosition \in Nat
  /\ status = "READ" => readPosition < SectorSize
  /\ writeBuffer \in Seq(Bytes)
  /\ status = "WRITE" => Len(writeBuffer) < SectorSize
  /\ data \in Int /\ faulty \in BOOLEAN

(* The variables of the store as the refinement maps them.                 *)
storeDisk == [s \in 0 .. Capacity - 1 |-> stored(s)]

storeRest == CASE status = "READ"  -> SubSeq(readBuffer, readPosition + 1, SectorSize)
               [] status = "WRITE" -> writeBuffer
               [] status = "IDLE"  -> <<>>

storeData == data % (2 * HalfByte)

-----------------------------------------------------------------------------
LEMMA ConstantType ==
  /\ SectorSize \in Nat /\ SectorSize > 0 /\ HalfByte \in Nat /\ HalfByte > 0
  /\ LbaBase \in Nat /\ LbaBase > 0 /\ IntSectors \in Nat /\ IntSectors > 0
  /\ ImageSize \in Nat /\ ImageSize <= SectorSize * IntSectors
  /\ 0 \in Bytes /\ 0 \in Digits
  BY SdAssumption DEF Bytes, Digits

(* The remainder is what is left of whole multiples.                       *)
LEMMA Remainder ==
  ASSUME NEW d \in Nat, d > 0, NEW k \in Int, NEW r \in 0 .. d - 1
  PROVE  (d * k + r) % d = r
<1> DEFINE n == d * k + r
           q == n \div d
           t == n % d
<1>1. q \in Int /\ t \in 0 .. d - 1 /\ n = d * q + t
  OBVIOUS
<1> HIDE DEF q, t
<1>2. d * k + r = d * q + t
  BY <1>1
<1>3. k = q
  <2>1. CASE k + 1 <= q
    <3>1. d * (k + 1) <= d * q
      BY <1>1, <2>1
    <3>2. d * (k + 1) = d * k + d
      OBVIOUS
    <3> QED
      BY <1>1, <1>2, <3>1, <3>2
  <2>2. CASE q + 1 <= k
    <3>1. d * (q + 1) <= d * k
      BY <1>1, <2>2
    <3>2. d * (q + 1) = d * q + d
      BY <1>1
    <3> QED
      BY <1>1, <1>2, <3>1, <3>2
  <2> QED
    BY <1>1, <2>1, <2>2
<1>4. t = r
  BY <1>1, <1>2, <1>3
<1> QED
  BY <1>4 DEF t

(* A byte survives being extended to an int and masked again.              *)
LEMMA SignedByte ==
  ASSUME NEW b \in Bytes
  PROVE  signed(b) \in Int /\ signed(b) % (2 * HalfByte) = b
<1> DEFINE d == 2 * HalfByte
<1>1. b \in 0 .. d - 1 /\ d \in Nat /\ d > 0
  BY ConstantType DEF Bytes
<1> HIDE DEF d
<1>2. (d * 0 + b) % d = b /\ (d * (-1) + b) % d = b
  BY <1>1, Remainder
<1>3. d * 0 + b = b /\ d * (-1) + b = b - d
  BY <1>1
<1>4. signed(b) = b \/ signed(b) = b - d
  BY DEF signed, d
<1>5. signed(b) \in Int
  BY <1>1, <1>4
<1>6. signed(b) % d = b
  BY <1>2, <1>3, <1>4
<1> QED
  BY <1>5, <1>6 DEF d

LEMMA NoByte == 0 % (2 * HalfByte) = 0
  BY SignedByte, ConstantType DEF signed

(* The three registers make a sector number.                               *)
LEMMA SectorNumber ==
  ASSUME NEW r \in [0 .. 2 -> Digits]
  PROVE  sectorOf(r) \in LbaRange
<1> DEFINE B == LbaBase
           x == r[0]
           y == r[1]
           z == r[2]
<1>1. /\ x \in 0 .. B - 1 /\ y \in 0 .. B - 1 /\ z \in 0 .. B - 1
      /\ B \in Nat /\ B > 0
  BY ConstantType DEF Digits
<1> HIDE DEF B, x, y, z
<1>2. y * B <= (B - 1) * B /\ y * B \in Nat
  BY <1>1
<1>3. z * (B * B) <= (B - 1) * (B * B) /\ z * (B * B) \in Nat /\ B * B \in Nat
  <2>1. B * B \in Nat
    BY <1>1
  <2> DEFINE C == B * B
  <2>2. C \in Nat
    BY <2>1
  <2> HIDE DEF C
  <2>3. z * C <= (B - 1) * C /\ z * C \in Nat
    BY <1>1, <2>2
  <2> QED
    BY <2>1, <2>3 DEF C
<1>4. (B - 1) * B = B * B - B /\ (B - 1) * (B * B) = B * (B * B) - B * B
  BY <1>1
<1>5. x + y * B + z * (B * B) \in 0 .. B * (B * B) - 1
  BY <1>1, <1>2, <1>3, <1>4
<1>6. z * (B * B) = z * B * B /\ B * (B * B) = B * B * B
  BY <1>1
<1>7. x + y * B + z * B * B \in 0 .. B * B * B - 1
  BY <1>5, <1>6
<1> QED
  BY <1>7 DEF sectorOf, LbaRange, B, x, y, z

(* The sectors of the card lie inside the file and inside an int.          *)
LEMMA CardFits ==
  /\ Capacity \in Nat /\ SectorSize * Capacity <= ImageSize
  /\ Capacity <= IntSectors
<1>1. /\ Capacity \in Int /\ ImageSize % SectorSize \in 0 .. SectorSize - 1
      /\ ImageSize = SectorSize * Capacity + (ImageSize % SectorSize)
  BY ConstantType DEF Capacity
<1>2. SectorSize * Capacity <= ImageSize /\ SectorSize * Capacity > ImageSize - SectorSize
  BY <1>1, ConstantType
<1>3. Capacity >= 0
  <2>1. CASE Capacity <= -1
    <3>1. SectorSize * Capacity <= SectorSize * (-1)
      BY <1>1, <2>1, ConstantType
    <3> QED
      BY <1>1, <1>2, <3>1, ConstantType
  <2> QED
    BY <1>1, <2>1
<1>4. Capacity <= IntSectors
  <2>1. CASE Capacity >= IntSectors + 1
    <3>1. SectorSize * Capacity >= SectorSize * (IntSectors + 1)
      BY <1>1, <2>1, ConstantType
    <3>2. SectorSize * (IntSectors + 1) = SectorSize * IntSectors + SectorSize
      BY ConstantType
    <3> QED
      BY <1>1, <1>2, <3>1, <3>2, ConstantType
  <2> QED
    BY <1>1, <2>1, ConstantType
<1> QED
  BY <1>1, <1>2, <1>3, <1>4

(* Sectors below IntSectors have the position one expects.                 *)
LEMMA Position ==
  ASSUME NEW n \in LbaRange
  PROVE  /\ computePosition(n) \in Int
         /\ n < IntSectors => computePosition(n) = SectorSize * n
<1>1. n \in Nat
  BY ConstantType DEF LbaRange
<1> DEFINE d == 2 * IntSectors
<1>2. d \in Nat /\ d > 0 /\ n + IntSectors \in Nat
  BY <1>1, ConstantType
<1>3. asInt(n) \in Int
  BY <1>1, <1>2, ConstantType DEF asInt
<1>4. n < IntSectors => asInt(n) = n
  <2>1. SUFFICES ASSUME n < IntSectors PROVE asInt(n) = n
    OBVIOUS
  <2>2. n + IntSectors \in 0 .. d - 1
    BY <1>1, <2>1, ConstantType
  <2>3. (d * 0 + (n + IntSectors)) % d = n + IntSectors
    BY <1>2, <2>2, Remainder
  <2>4. d * 0 + (n + IntSectors) = n + IntSectors
    BY <1>2
  <2> QED
    BY <1>1, <2>3, <2>4, ConstantType DEF asInt
<1>5. SectorSize * asInt(n) \in Int
  BY <1>3, ConstantType
<1> QED
  BY <1>4, <1>5 DEF computePosition

(* A byte of a sector, and bytes of two sectors.                           *)
LEMMA InCard ==
  ASSUME NEW s \in 0 .. Capacity - 1, NEW i \in 1 .. SectorSize
  PROVE  /\ s * SectorSize + i \in 1 .. ImageSize
         /\ s * SectorSize + i <= SectorSize * Capacity
<1>1. s \in Nat /\ s + 1 <= Capacity /\ Capacity \in Nat
  BY CardFits
<1>2. (s + 1) * SectorSize <= Capacity * SectorSize
  BY <1>1, ConstantType
<1>3. (s + 1) * SectorSize = s * SectorSize + SectorSize
  BY <1>1, ConstantType
<1>4. s * SectorSize \in Nat /\ Capacity * SectorSize = SectorSize * Capacity
  BY <1>1, ConstantType
<1> QED
  BY <1>2, <1>3, <1>4, CardFits, ConstantType

LEMMA Apart ==
  ASSUME NEW s \in Nat, NEW c \in Nat, s # c, NEW i \in 1 .. SectorSize
  PROVE  ~(SectorSize * c < s * SectorSize + i
             /\ s * SectorSize + i <= SectorSize * c + SectorSize)
<1>1. SectorSize * c = c * SectorSize /\ s * SectorSize \in Nat /\ c * SectorSize \in Nat
  BY ConstantType
<1>2. CASE s + 1 <= c
  <2>1. (s + 1) * SectorSize <= c * SectorSize
    BY <1>2, ConstantType
  <2>2. (s + 1) * SectorSize = s * SectorSize + SectorSize
    BY ConstantType
  <2> QED
    BY <1>1, <2>1, <2>2, ConstantType
<1>3. CASE c + 1 <= s
  <2>1. (c + 1) * SectorSize <= s * SectorSize
    BY <1>3, ConstantType
  <2>2. (c + 1) * SectorSize = c * SectorSize + SectorSize
    BY ConstantType
  <2> QED
    BY <1>1, <2>1, <2>2, ConstantType
<1> QED
  BY <1>2, <1>3

-----------------------------------------------------------------------------
(* The file.                                                               *)
LEMMA LargerAndSmaller ==
  ASSUME NEW a \in Int, NEW b \in Int
  PROVE  /\ Max({a, b}) = IF a >= b THEN a ELSE b
         /\ Min({a, b}) = IF a <= b THEN a ELSE b
<1>1. ASSUME NEW m \in {a, b}, \A y \in {a, b} : m >= y
      PROVE  Max({a, b}) = m
  <2>1. Max({a, b}) \in {a, b} /\ \A y \in {a, b} : Max({a, b}) >= y
    BY <1>1 DEF Max
  <2> QED
    BY <1>1, <2>1
<1>2. ASSUME NEW m \in {a, b}, \A y \in {a, b} : m <= y
      PROVE  Min({a, b}) = m
  <2>1. Min({a, b}) \in {a, b} /\ \A y \in {a, b} : Min({a, b}) <= y
    BY <1>2 DEF Min
  <2> QED
    BY <1>2, <2>1
<1> QED
  BY <1>1, <1>2

LEMMA SkipTo ==
  ASSUME TypeOK, NEW pos \in Int
  PROVE  skipTo(pos) = IF pos < 0 THEN 0
                       ELSE IF pos <= Len(image) THEN pos ELSE Len(image)
<1>1. Len(image) \in Nat
  BY DEF TypeOK
<1>2. /\ Min({pos, Len(image)}) \in Int
      /\ Min({pos, Len(image)}) = IF pos <= Len(image) THEN pos ELSE Len(image)
  BY <1>1, LargerAndSmaller
<1>3. Max({0, Min({pos, Len(image)})})
        = IF 0 >= Min({pos, Len(image)}) THEN 0 ELSE Min({pos, Len(image)})
  BY <1>2, LargerAndSmaller
<1> QED
  BY <1>1, <1>2, <1>3 DEF skipTo

(* Overwriting makes the file no shorter and changes it only there.        *)
LEMMA Overwritten ==
  ASSUME TypeOK, NEW pos \in Int, NEW bytes \in Seq(Bytes)
  PROVE  LET new == overwritten(pos, bytes)
             at == skipTo(pos)
         IN  /\ new \in Seq(Bytes) /\ Len(new) >= Len(image)
             /\ Len(new) >= at + Len(bytes)
             /\ \A i \in 1 .. Len(new) :
                  new[i] = IF at < i /\ i <= at + Len(bytes) THEN bytes[i - at] ELSE image[i]
<1> DEFINE at == skipTo(pos)
           size == Max({Len(image), at + Len(bytes)})
           new == overwritten(pos, bytes)
<1>1. Len(image) \in Nat /\ Len(bytes) \in Nat /\ at \in Nat /\ at <= Len(image)
  BY SkipTo DEF TypeOK
<1>2. size = IF Len(image) >= at + Len(bytes) THEN Len(image) ELSE at + Len(bytes)
  BY <1>1, LargerAndSmaller
<1>3. size \in Nat /\ size >= Len(image) /\ size >= at + Len(bytes)
  BY <1>1, <1>2
<1>4. new = [i \in 1 .. size |->
              IF at < i /\ i <= at + Len(bytes) THEN bytes[i - at] ELSE image[i]]
  BY DEF overwritten
<1> HIDE DEF at, size, new
<1>5. \A i \in 1 .. size :
        (IF at < i /\ i <= at + Len(bytes) THEN bytes[i - at] ELSE image[i]) \in Bytes
  <2> SUFFICES ASSUME NEW i \in 1 .. size
               PROVE  (IF at < i /\ i <= at + Len(bytes) THEN bytes[i - at] ELSE image[i]) \in Bytes
    OBVIOUS
  <2>1. CASE at < i /\ i <= at + Len(bytes)
    <3>1. i - at \in 1 .. Len(bytes)
      BY <1>1, <1>3, <2>1
    <3> QED
      BY <2>1, <3>1, ElementOfSeq
  <2>2. CASE ~(at < i /\ i <= at + Len(bytes))
    <3>1. i \in 1 .. Len(image)
      BY <1>1, <1>2, <1>3, <2>2
    <3>2. image[i] \in Bytes
      BY <3>1, ElementOfSeq DEF TypeOK
    <3> QED
      BY <2>2, <3>2
  <2> QED
    BY <2>1, <2>2
<1>6. new \in Seq(Bytes) /\ Len(new) = size
  <2>1. new \in [1 .. size -> Bytes]
    BY <1>4, <1>5
  <2>2. new \in Seq(Bytes)
    BY <1>3, <2>1, SeqDef
  <2>3. DOMAIN new = 1 .. size /\ DOMAIN new = 1 .. Len(new) /\ Len(new) \in Nat
    BY <2>1, <2>2, LenProperties
  <2> QED
    BY <1>3, <2>2, <2>3
<1>7. /\ new \in Seq(Bytes) /\ Len(new) >= Len(image) /\ Len(new) >= at + Len(bytes)
      /\ \A i \in 1 .. Len(new) :
           new[i] = IF at < i /\ i <= at + Len(bytes) THEN bytes[i - at] ELSE image[i]
  BY <1>3, <1>4, <1>6
<1> QED
  BY <1>7 DEF at, new

LEMMA BufferIsSequence ==
  ASSUME NEW f \in Buffers
  PROVE  f \in Seq(Bytes) /\ Len(f) = SectorSize
<1>1. f \in Seq(Bytes)
  BY ConstantType, SeqDef DEF Buffers
<1>2. DOMAIN f = 1 .. SectorSize /\ DOMAIN f = 1 .. Len(f) /\ Len(f) \in Nat
  BY <1>1, LenProperties DEF Buffers
<1> QED
  BY <1>1, <1>2, ConstantType

LEMMA SequenceIsBuffer ==
  ASSUME NEW f \in Seq(Bytes), Len(f) = SectorSize
  PROVE  f \in Buffers
  BY LenProperties DEF Buffers

(* What a read leaves in the buffer is a buffer, and of the card what is   *)
(* stored.                                                                 *)
LEMMA Filled ==
  ASSUME TypeOK, NEW n \in LbaRange
  PROVE  /\ filled(readBuffer, computePosition(n)) \in Buffers
         /\ n \in 0 .. Capacity - 1 =>
              filled(readBuffer, computePosition(n)) = stored(n)
<1> DEFINE pos == computePosition(n)
<1>1. pos \in Int /\ Len(image) \in Nat
  BY Position DEF TypeOK
<1>2. \A i \in 1 .. SectorSize :
        (IF pos >= 0 /\ pos + i <= Len(image) THEN image[pos + i] ELSE readBuffer[i]) \in Bytes
  <2> SUFFICES ASSUME NEW i \in 1 .. SectorSize
               PROVE  (IF pos >= 0 /\ pos + i <= Len(image)
                       THEN image[pos + i] ELSE readBuffer[i]) \in Bytes
    OBVIOUS
  <2>1. pos >= 0 /\ pos + i <= Len(image) => image[pos + i] \in Bytes
    <3> SUFFICES ASSUME pos >= 0, pos + i <= Len(image) PROVE image[pos + i] \in Bytes
      OBVIOUS
    <3> HIDE DEF pos
    <3>1. pos + i \in 1 .. Len(image)
      BY <1>1
    <3> QED
      BY <3>1, ElementOfSeq DEF TypeOK
  <2>2. readBuffer[i] \in Bytes
    BY DEF TypeOK, Buffers
  <2> HIDE DEF pos
  <2> QED
    BY <2>1, <2>2
<1>3. filled(readBuffer, pos) \in Buffers
  BY <1>2 DEF filled, Buffers
<1>4. ASSUME n \in 0 .. Capacity - 1
      PROVE  filled(readBuffer, pos) = stored(n)
  <2>1. n \in Nat /\ n < IntSectors /\ n < Capacity
    BY <1>4, CardFits, ConstantType
  <2>2. pos = SectorSize * n
    BY <2>1, Position
  <2>3. SectorSize * n = n * SectorSize /\ n * SectorSize \in Nat
    BY <2>1, ConstantType
  <2>4. pos = n * SectorSize /\ pos >= 0
    BY <2>2, <2>3
  <2> HIDE DEF pos
  <2>5. \A i \in 1 .. SectorSize : pos + i <= Len(image)
    <3> SUFFICES ASSUME NEW i \in 1 .. SectorSize PROVE pos + i <= Len(image)
      OBVIOUS
    <3>1. pos + i \in 1 .. ImageSize
      BY <1>4, <2>4, InCard
    <3> QED
      BY <1>1, <3>1, ConstantType DEF TypeOK
  <2> QED
    BY <2>4, <2>5 DEF filled, stored
<1> QED
  BY <1>3, <1>4

(* The file always holds the whole card.                                   *)
LEMMA DiskType ==
  ASSUME TypeOK
  PROVE  storeDisk \in [0 .. Capacity - 1 -> [1 .. SectorSize -> Bytes]]
<1> SUFFICES ASSUME NEW s \in 0 .. Capacity - 1, NEW i \in 1 .. SectorSize
             PROVE  image[s * SectorSize + i] \in Bytes
  BY DEF storeDisk, stored
<1>1. s * SectorSize + i \in 1 .. ImageSize
  BY InCard
<1>2. s * SectorSize + i \in 1 .. Len(image)
  BY <1>1, ConstantType DEF TypeOK
<1> QED
  BY <1>2, ElementOfSeq DEF TypeOK

(* What writeSector does to the file: it stays a file that holds the card. *)
LEMMA SectorWritten ==
  ASSUME TypeOK, NEW bytes \in Seq(Bytes), Len(bytes) = SectorSize,
         writeSector(bytes)
  PROVE  /\ image' \in Seq(Bytes) /\ Len(image') >= Len(image)
         /\ faulty' \in BOOLEAN
         /\ \/ image' = image /\ faulty'
            \/ \E n \in 1 .. SectorSize :
                 /\ image' = overwritten(computePosition(commanded), SubSeq(bytes, 1, n))
                 /\ ~faulty' => n = SectorSize
<1>1. PICK n \in 0 .. SectorSize :
        /\ image' = IF present /\ n > 0
                    THEN overwritten(computePosition(commanded), SubSeq(bytes, 1, n))
                    ELSE image
        /\ faulty' = ~(present /\ n = SectorSize)
  BY DEF writeSector
<1>2. faulty' \in BOOLEAN
  BY <1>1, Zenon
<1>3. CASE present /\ n > 0
  <2>1. image' = overwritten(computePosition(commanded), SubSeq(bytes, 1, n))
    BY <1>1, <1>3
  <2>2. n \in 1 .. SectorSize
    BY <1>3, ConstantType
  <2>3. \A i \in 1 .. n : bytes[i] \in Bytes
    BY <2>2, ElementOfSeq, ConstantType
  <2>4. SubSeq(bytes, 1, n) \in Seq(Bytes)
    BY <2>2, <2>3, SubSeqProperties
  <2>5. computePosition(commanded) \in Int
    BY Position DEF TypeOK
  <2>6. image' \in Seq(Bytes) /\ Len(image') >= Len(image)
    BY <2>1, <2>4, <2>5, Overwritten
  <2>7. ~faulty' => n = SectorSize
    BY <1>1, <1>3
  <2> QED
    BY <1>2, <2>1, <2>2, <2>6, <2>7
<1>4. CASE ~(present /\ n > 0)
  <2>1. image' = image /\ faulty'
    BY <1>1, <1>4, ConstantType
  <2> QED
    BY <1>2, <2>1 DEF TypeOK
<1> QED
  BY <1>3, <1>4

LEMMA InitType == Init => TypeOK
<1> SUFFICES ASSUME Init PROVE TypeOK
  OBVIOUS
<1>1. image \in Seq(Bytes) /\ Len(image) >= ImageSize
  <2>1. image \in [1 .. ImageSize -> Bytes]
    BY DEF Init
  <2>2. image \in Seq(Bytes)
    BY <2>1, ConstantType, SeqDef
  <2>3. DOMAIN image = 1 .. ImageSize /\ DOMAIN image = 1 .. Len(image) /\ Len(image) \in Nat
    BY <2>1, <2>2, LenProperties
  <2> QED
    BY <2>2, <2>3, ConstantType
<1>2. readBuffer \in Buffers /\ lba \in [0 .. 2 -> Digits]
  BY ConstantType DEF Init, Buffers
<1>3. commanded \in LbaRange
  <2>1. [i \in 0 .. 2 |-> 0] \in [0 .. 2 -> Digits]
    BY ConstantType
  <2>2. sectorOf([i \in 0 .. 2 |-> 0]) = 0
    BY ConstantType DEF sectorOf
  <2> QED
    BY <2>1, <2>2, SectorNumber DEF Init
<1>4. writeBuffer \in Seq(Bytes)
  BY EmptySeq DEF Init
<1>5. /\ present \in BOOLEAN /\ status = "IDLE" /\ readPosition \in Nat
      /\ data \in Int /\ faulty \in BOOLEAN
  <2>1. present \in BOOLEAN /\ faulty \in BOOLEAN
    BY Zenon DEF Init
  <2>2. status = "IDLE" /\ readPosition = 0 /\ data = 0
    BY Zenon DEF Init
  <2> QED
    BY <2>1, <2>2
<1>6. status # "READ" /\ status # "WRITE" /\ status \in {"IDLE", "READ", "WRITE"}
  BY <1>5
<1> QED
  BY <1>1, <1>2, <1>3, <1>4, <1>5, <1>6, Zenon DEF TypeOK

LEMMA NextType == TypeOK /\ [Next]_vars => TypeOK'
<1> SUFFICES ASSUME TypeOK, [Next]_vars PROVE TypeOK'
  OBVIOUS
<1> USE ConstantType
<1>1. ASSUME NEW i \in 0 .. 2, NEW d \in Digits, writeLba(i, d)
      PROVE  TypeOK'
  BY <1>1 DEF writeLba, TypeOK
<1>2. CASE prepareRead
  <2>1. sectorOf(lba) \in LbaRange
    BY SectorNumber DEF TypeOK
  <2>2. PICK ok \in BOOLEAN :
          /\ readBuffer' = IF ok /\ present THEN filled(readBuffer, computePosition(sectorOf(lba)))
                                            ELSE readBuffer
          /\ faulty' = ~(ok /\ present)
    BY <1>2 DEF prepareRead, fillReadBuffer
  <2>3. readBuffer' \in Buffers
    BY <2>1, <2>2, Filled DEF TypeOK
  <2>4. faulty' \in BOOLEAN
    BY <2>2, Zenon
  <2>5. /\ status' = "READ" /\ readPosition' = 0 /\ commanded' = sectorOf(lba)
        /\ UNCHANGED <<image, present, lba, writeBuffer, data>>
    BY <1>2 DEF prepareRead
  <2> QED
    BY <2>1, <2>3, <2>4, <2>5 DEF TypeOK
<1>3. CASE prepareWrite
  <2>1. sectorOf(lba) \in LbaRange
    BY SectorNumber DEF TypeOK
  <2>2. /\ status' = "WRITE" /\ writeBuffer' = <<>> /\ commanded' = sectorOf(lba)
        /\ UNCHANGED <<image, present, lba, readBuffer, readPosition, data, faulty>>
    BY <1>3 DEF prepareWrite
  <2>3. writeBuffer' \in Seq(Bytes) /\ Len(writeBuffer') = 0
    BY <2>2, EmptySeq
  <2> QED
    BY <2>1, <2>2, <2>3 DEF TypeOK
<1>4. CASE otherCommand
  BY <1>4 DEF otherCommand, TypeOK
<1>5. CASE readDataIdle
  BY <1>5 DEF readDataIdle, TypeOK
<1>6. CASE readData
  <2>1. /\ status = "READ" /\ data' = signed(readBuffer[readPosition + 1])
        /\ readPosition' = readPosition + 1
        /\ status' = IF readPosition' >= SectorSize THEN "IDLE" ELSE "READ"
        /\ UNCHANGED <<image, present, lba, commanded, readBuffer, writeBuffer, faulty>>
    BY <1>6 DEF readData
  <2>2. readBuffer[readPosition + 1] \in Bytes
    BY <2>1 DEF TypeOK, Buffers
  <2>3. data' \in Int
    BY <2>1, <2>2, SignedByte
  <2> QED
    BY <2>1, <2>3 DEF TypeOK
<1>7. ASSUME NEW d \in Bytes, writeData(d)
      PROVE  TypeOK'
  <2>1. /\ status = "WRITE" /\ writeBuffer' = Append(writeBuffer, d)
        /\ UNCHANGED <<present, lba, commanded, readBuffer, readPosition, data>>
    BY <1>7 DEF writeData
  <2>2. /\ writeBuffer' \in Seq(Bytes) /\ Len(writeBuffer') = Len(writeBuffer) + 1
        /\ Len(writeBuffer) \in Nat /\ Len(writeBuffer) < SectorSize
    BY <2>1, AppendProperties DEF TypeOK
  <2>3. CASE Len(writeBuffer') >= SectorSize
    <3>1. writeSector(writeBuffer') /\ status' = "IDLE"
      BY <1>7, <2>3 DEF writeData
    <3>2. Len(writeBuffer') = SectorSize
      BY <2>2, <2>3
    <3>3. PICK bytes \in Seq(Bytes) : bytes = writeBuffer'
      BY <2>2
    <3>4. writeSector(bytes) /\ Len(bytes) = SectorSize
      BY <3>1, <3>2, <3>3
    <3>5. image' \in Seq(Bytes) /\ Len(image') >= Len(image) /\ faulty' \in BOOLEAN
      BY <3>4, SectorWritten
    <3>6. Len(image') >= ImageSize
      <4>1. Len(image) \in Nat /\ Len(image') \in Nat /\ Len(image) >= ImageSize
        BY <3>5, LenProperties DEF TypeOK
      <4> QED
        BY <3>5, <4>1
    <3> QED
      BY <2>1, <2>2, <3>1, <3>5, <3>6 DEF TypeOK
  <2>4. CASE ~(Len(writeBuffer') >= SectorSize)
    <3>1. UNCHANGED <<image, faulty, status>>
      BY <1>7, <2>4 DEF writeData
    <3> QED
      BY <2>1, <2>2, <2>4, <3>1 DEF TypeOK
  <2> QED
    BY <2>3, <2>4
<1>8. CASE UNCHANGED vars
  BY <1>8 DEF vars, TypeOK
<1> QED
  BY <1>1, <1>2, <1>3, <1>4, <1>5, <1>6, <1>7, <1>8 DEF Next

(* Every reachable state of the controller and its file is well typed, the *)
(* positions are inside the buffers, and the file is never shortened.      *)
THEOREM TypeCorrect == Spec => []TypeOK
  BY InitType, NextType, PTL DEF Spec

-----------------------------------------------------------------------------
(* The steps of the store.                                                 *)

LEMMA RestWhile ==
  /\ status = "READ" => storeRest = SubSeq(readBuffer, readPosition + 1, SectorSize)
  /\ status = "WRITE" => storeRest = writeBuffer
  /\ status = "IDLE" => storeRest = <<>>
  BY DEF storeRest

LEMMA DiskKept ==
  ASSUME image' = image
  PROVE  storeDisk' = storeDisk
  BY DEF storeDisk, stored

LEMMA InitRefines == Init => Store!Init
<1> SUFFICES ASSUME Init PROVE Store!Init
  OBVIOUS
<1>1. TypeOK
  BY InitType
<1>2. storeDisk \in [0 .. Capacity - 1 -> [1 .. SectorSize -> Bytes]]
  BY <1>1, DiskType
<1>3. status = "IDLE" /\ storeRest = <<>> /\ faulty = FALSE
  BY RestWhile DEF Init
<1>4. storeData \in Bytes
  BY NoByte, ConstantType DEF Init, storeData
<1>5. commanded \in LbaRange
  BY <1>1 DEF TypeOK
<1> QED
  BY <1>2, <1>3, <1>4, <1>5
  DEF Store!Init, Store!Sectors, Store!Contents, storeDisk, storeRest, storeData, LbaRange

LEMMA ReadRefines ==
  ASSUME TypeOK, TypeOK', prepareRead
  PROVE  Store!Next
<1> DEFINE n == sectorOf(lba)
<1>1. n \in LbaRange
  BY SectorNumber DEF TypeOK
<1>2. /\ status' = "READ" /\ readPosition' = 0 /\ commanded' = n
      /\ image' = image /\ data' = data
  BY DEF prepareRead
<1>3. faulty' \/ readBuffer' = filled(readBuffer, computePosition(n))
  BY DEF prepareRead, fillReadBuffer
<1>4. storeRest' = SubSeq(readBuffer', 1, SectorSize)
  <2>1. readPosition' + 1 = 1
    BY <1>2
  <2>2. storeRest' = SubSeq(readBuffer', readPosition' + 1, SectorSize)
    BY <1>2 DEF storeRest
  <2> QED
    BY <2>1, <2>2
<1>5. readBuffer' \in Buffers
  BY DEF TypeOK
<1>6. storeRest' = readBuffer'
  <2>1. PICK f \in Buffers : f = readBuffer'
    BY <1>5
  <2>2. SubSeq(f, 1, Len(f)) = f /\ Len(f) = SectorSize
    BY BufferIsSequence, SubSeqFull
  <2> QED
    BY <1>4, <2>1, <2>2
<1>7. n \in 0 .. Capacity - 1 /\ ~faulty' => storeRest' = storeDisk[n]
  BY <1>1, <1>3, <1>6, Filled DEF storeDisk
<1>8. storeDisk' = storeDisk /\ storeData' = storeData
  BY <1>2, DiskKept DEF storeData
<1>9. faulty' \in BOOLEAN
  BY DEF TypeOK
<1>10. Store!Read(n)
  BY <1>2, <1>5, <1>6, <1>7, <1>8, <1>9
  DEF Store!Read, Store!Sectors, Store!Contents, Buffers, storeDisk, storeRest, storeData
<1> QED
  BY <1>1, <1>10 DEF Store!Next, LbaRange

LEMMA DeliverRefines ==
  ASSUME TypeOK, TypeOK', readData
  PROVE  Store!Next
<1>1. /\ status = "READ" /\ data' = signed(readBuffer[readPosition + 1])
      /\ readPosition' = readPosition + 1
      /\ status' = IF readPosition + 1 >= SectorSize THEN "IDLE" ELSE "READ"
      /\ UNCHANGED <<image, commanded, readBuffer, faulty>>
  BY DEF readData
<1>2. /\ readBuffer \in Seq(Bytes) /\ Len(readBuffer) = SectorSize
      /\ readPosition + 1 \in 1 .. SectorSize
  BY <1>1, BufferIsSequence, ConstantType DEF TypeOK
<1>3. /\ Head(storeRest) = readBuffer[readPosition + 1]
      /\ Tail(storeRest) = SubSeq(readBuffer, readPosition + 2, SectorSize)
  <2>1. storeRest = SubSeq(readBuffer, readPosition + 1, SectorSize)
    BY <1>1, RestWhile
  <2>2. SectorSize \in (readPosition + 1) .. Len(readBuffer)
    BY <1>2, ConstantType
  <2>3. (readPosition + 1) + 1 = readPosition + 2
    BY DEF TypeOK
  <2> QED
    BY <1>2, <2>1, <2>2, <2>3, HeadTailOfSubSeq
<1>4. storeRest' = Tail(storeRest) /\ (status' = "IDLE" <=> storeRest' = <<>>)
  <2>1. CASE readPosition + 1 >= SectorSize
    <3>1. SubSeq(readBuffer, readPosition + 2, SectorSize) = <<>>
      BY <2>1, SubSeqEmpty, ConstantType DEF TypeOK
    <3>2. status' = "IDLE" /\ storeRest' = <<>>
      BY <1>1, <2>1 DEF storeRest
    <3> QED
      BY <1>3, <3>1, <3>2
  <2>2. CASE ~(readPosition + 1 >= SectorSize)
    <3>1. status' = "READ" /\ (readPosition + 1) + 1 = readPosition + 2
      BY <1>1, <2>2 DEF TypeOK
    <3>2. storeRest' = SubSeq(readBuffer, readPosition + 2, SectorSize)
      BY <1>1, <3>1 DEF storeRest
    <3>3. Len(SubSeq(readBuffer, readPosition + 2, SectorSize)) # 0
      <4>1. \A i \in (readPosition + 2) .. SectorSize : readBuffer[i] \in Bytes
        BY ConstantType DEF TypeOK, Buffers
      <4>2. /\ readPosition + 2 \in Int /\ SectorSize \in Int
            /\ readPosition + 2 <= SectorSize
        BY <2>2, ConstantType DEF TypeOK
      <4>3. Len(SubSeq(readBuffer, readPosition + 2, SectorSize))
              = SectorSize - (readPosition + 2) + 1
        BY <4>1, <4>2, SubSeqProperties
      <4> QED
        BY <4>2, <4>3 DEF TypeOK
    <3>4. SubSeq(readBuffer, readPosition + 2, SectorSize) # <<>>
      <4>1. Len(<<>>) = 0
        BY EmptySeq
      <4> QED
        BY <3>3, <4>1, Zenon
    <3> QED
      BY <1>3, <3>1, <3>2, <3>4
  <2> QED
    BY <2>1, <2>2
<1>5. storeData' = Head(storeRest)
  <2>1. readBuffer[readPosition + 1] \in Bytes
    BY <1>2, ConstantType DEF TypeOK, Buffers
  <2> QED
    BY <1>1, <1>3, <2>1, SignedByte DEF storeData
<1>6. status' = IF storeRest' = <<>> THEN "IDLE" ELSE "READ"
  BY <1>1, <1>4
<1>7. storeDisk' = storeDisk
  BY <1>1, DiskKept
<1>8. Store!Deliver
  BY <1>1, <1>4, <1>5, <1>6, <1>7 DEF Store!Deliver, storeDisk, storeRest, storeData
<1> QED
  BY <1>8 DEF Store!Next

(* Of the card, writeSector changes the sector that was commanded; behind  *)
(* the card, as far as an int reaches, nothing.                            *)
LEMMA WrittenPlace ==
  ASSUME TypeOK, NEW bytes \in Buffers, writeSector(bytes)
  PROVE  /\ commanded \in 0 .. Capacity - 1 =>
              /\ \A s \in (0 .. Capacity - 1) \ {commanded} : storeDisk'[s] = storeDisk[s]
              /\ ~faulty' => storeDisk'[commanded] = bytes
         /\ commanded \in Capacity .. IntSectors - 1 => storeDisk' = storeDisk
<1> DEFINE c == commanded
           pos == computePosition(c)
           at == skipTo(pos)
<1>1. bytes \in Seq(Bytes) /\ Len(bytes) = SectorSize
  BY BufferIsSequence
<1>2. c \in LbaRange /\ c \in Nat /\ Len(image) \in Nat /\ Len(image) >= ImageSize
  BY ConstantType DEF TypeOK, LbaRange
<1>3. pos \in Int /\ (c < IntSectors => pos = SectorSize * c)
  BY <1>2, Position
<1>4. CASE image' = image /\ faulty'
  <2>1. storeDisk' = storeDisk
    BY <1>4, DiskKept
  <2> QED
    BY <1>4, <2>1
<1>5. ASSUME NEW n \in 1 .. SectorSize,
             image' = overwritten(pos, SubSeq(bytes, 1, n)), ~faulty' => n = SectorSize
      PROVE  /\ c \in 0 .. Capacity - 1 =>
                  /\ \A s \in (0 .. Capacity - 1) \ {c} : storeDisk'[s] = storeDisk[s]
                  /\ ~faulty' => storeDisk'[c] = bytes
             /\ c \in Capacity .. IntSectors - 1 => storeDisk' = storeDisk
  <2> DEFINE part == SubSeq(bytes, 1, n)
  <2>1. /\ part \in Seq(Bytes) /\ Len(part) = n
        /\ \A i \in 1 .. n : part[i] = bytes[i]
    <3>1. \A i \in 1 .. n : bytes[i] \in Bytes
      BY <1>1, ElementOfSeq, ConstantType
    <3>2. /\ part \in Seq(Bytes) /\ Len(part) = IF 1 <= n THEN n - 1 + 1 ELSE 0
          /\ \A i \in 1 .. n - 1 + 1 : part[i] = bytes[1 + i - 1]
      BY <3>1, SubSeqProperties
    <3> HIDE DEF part
    <3>3. n - 1 + 1 = n /\ 1 <= n /\ \A i \in 1 .. n : 1 + i - 1 = i
      BY ConstantType
    <3> QED
      BY <3>2, <3>3
  <2> HIDE DEF part
  <2>2. /\ Len(image') >= Len(image) /\ Len(image') \in Nat
        /\ \A i \in 1 .. Len(image') :
             image'[i] = IF at < i /\ i <= at + n THEN part[i - at] ELSE image[i]
    <3>1. image' = overwritten(pos, part)
      BY <1>5 DEF part
    <3>2. /\ image' \in Seq(Bytes) /\ Len(image') >= Len(image)
          /\ \A i \in 1 .. Len(image') :
               image'[i] = IF at < i /\ i <= at + Len(part) THEN part[i - at] ELSE image[i]
      BY <1>3, <2>1, <3>1, Overwritten
    <3> QED
      BY <2>1, <3>2, LenProperties
  <2>3. at = IF pos < 0 THEN 0 ELSE IF pos <= Len(image) THEN pos ELSE Len(image)
    BY <1>3, SkipTo
  <2>4. CASE c \in 0 .. Capacity - 1
    <3>1. at = SectorSize * c /\ SectorSize * c \in Nat
      <4>1. c < IntSectors /\ c + 1 <= Capacity
        BY <1>2, <2>4, CardFits, ConstantType
      <4>2. pos = SectorSize * c /\ SectorSize * c \in Nat
        BY <1>2, <1>3, <4>1, ConstantType
      <4>3. SectorSize * c <= SectorSize * Capacity
        BY <1>2, <4>1, CardFits, ConstantType
      <4>4. SectorSize * Capacity <= ImageSize /\ SectorSize * Capacity \in Nat
        BY CardFits, ConstantType
      <4>5. SectorSize * c <= Len(image)
        BY <1>2, <4>2, <4>3, <4>4, ConstantType
      <4> QED
        BY <1>2, <2>3, <4>2, <4>5
    <3>2. ASSUME NEW s \in (0 .. Capacity - 1) \ {c}
          PROVE  storeDisk'[s] = storeDisk[s]
      <4>1. \A i \in 1 .. SectorSize : image'[s * SectorSize + i] = image[s * SectorSize + i]
        <5> TAKE i \in 1 .. SectorSize
        <5> DEFINE j == s * SectorSize + i
        <5>1. j \in 1 .. ImageSize
          BY InCard
        <5>2. ~(SectorSize * c < j /\ j <= SectorSize * c + SectorSize)
          BY <1>2, Apart, CardFits
        <5> HIDE DEF j
        <5>3. j \in 1 .. Len(image')
          BY <1>2, <2>2, <5>1, ConstantType
        <5>4. ~(at < j /\ j <= at + n)
          BY <3>1, <5>1, <5>2, ConstantType
        <5>5. image'[j] = image[j]
          BY <2>2, <5>3, <5>4
        <5> QED
          BY <5>5 DEF j
      <4> QED
        BY <4>1 DEF storeDisk, stored
    <3>3. ASSUME ~faulty' PROVE storeDisk'[c] = bytes
      <4>1. n = SectorSize
        BY <1>5, <3>3
      <4>2. \A i \in 1 .. SectorSize : image'[c * SectorSize + i] = bytes[i]
        <5> TAKE i \in 1 .. SectorSize
        <5> DEFINE j == c * SectorSize + i
        <5>1. j \in 1 .. ImageSize /\ c * SectorSize = SectorSize * c
          BY <1>2, <2>4, InCard, ConstantType
        <5>2. j = at + i
          BY <3>1, <5>1
        <5> HIDE DEF j
        <5>3. j \in 1 .. Len(image') /\ at < j /\ j <= at + n /\ j - at = i
          BY <1>2, <2>2, <3>1, <4>1, <5>1, <5>2, ConstantType
        <5>4. image'[j] = part[i]
          BY <2>2, <5>3
        <5> QED
          BY <2>1, <4>1, <5>4 DEF j
      <4> QED
        BY <2>4, <4>2 DEF storeDisk, stored, Buffers
    <3>4. c \notin Capacity .. IntSectors - 1
      BY <2>4, CardFits, ConstantType
    <3> QED
      BY <3>2, <3>3, <3>4
  <2>5. CASE c \in Capacity .. IntSectors - 1
    <3>1. at >= SectorSize * Capacity /\ at \in Nat
      <4>1. c < IntSectors /\ Capacity <= c /\ Capacity \in Nat
        BY <1>2, <2>5, CardFits, ConstantType
      <4>2. pos = SectorSize * c /\ SectorSize * c \in Nat
        BY <1>2, <1>3, <4>1, ConstantType
      <4>3. SectorSize * Capacity <= SectorSize * c /\ SectorSize * Capacity \in Nat
        BY <1>2, <4>1, ConstantType
      <4>4. SectorSize * Capacity <= ImageSize
        BY CardFits
      <4> QED
        BY <1>2, <2>3, <4>2, <4>3, <4>4, ConstantType
    <3>2. ASSUME NEW s \in 0 .. Capacity - 1, NEW i \in 1 .. SectorSize
          PROVE  image'[s * SectorSize + i] = image[s * SectorSize + i]
      <4> DEFINE j == s * SectorSize + i
      <4>1. j \in 1 .. ImageSize /\ j <= SectorSize * Capacity
        BY InCard
      <4> HIDE DEF j
      <4>2. SectorSize * Capacity \in Nat
        BY CardFits, ConstantType
      <4>3. j \in 1 .. Len(image') /\ ~(at < j)
        BY <1>2, <2>2, <3>1, <4>1, <4>2, ConstantType
      <4>4. image'[j] = image[j]
        BY <2>2, <4>3
      <4> QED
        BY <4>4 DEF j
    <3>3. storeDisk' = storeDisk
      BY <3>2 DEF storeDisk, stored
    <3>4. c \notin 0 .. Capacity - 1
      BY <2>5, CardFits, ConstantType
    <3> QED
      BY <3>3, <3>4
  <2> QED
    BY <2>4, <2>5
<1>6. \/ image' = image /\ faulty'
      \/ \E n \in 1 .. SectorSize :
           /\ image' = overwritten(pos, SubSeq(bytes, 1, n))
           /\ ~faulty' => n = SectorSize
  BY <1>1, SectorWritten
<1> QED
  BY <1>4, <1>5, <1>6

LEMMA ReceiveRefines ==
  ASSUME TypeOK, TypeOK', NEW d \in Bytes, writeData(d)
  PROVE  Store!Next
<1>1. /\ status = "WRITE" /\ writeBuffer' = Append(writeBuffer, d)
      /\ UNCHANGED <<present, lba, commanded, readBuffer, readPosition, data>>
  BY DEF writeData
<1>2. /\ writeBuffer \in Seq(Bytes) /\ Len(writeBuffer) \in Nat
      /\ writeBuffer' \in Seq(Bytes) /\ Len(writeBuffer') = Len(writeBuffer) + 1
      /\ Len(writeBuffer) < SectorSize
  BY <1>1, AppendProperties DEF TypeOK
<1>3. storeRest = writeBuffer /\ storeData' = storeData
  BY <1>1, RestWhile DEF storeData
<1>4. CASE Len(writeBuffer') < SectorSize
  <2>1. UNCHANGED <<image, faulty, status>>
    BY <1>1, <1>2, <1>4, ConstantType DEF writeData
  <2>2. storeRest' = Append(storeRest, d)
    BY <1>1, <1>3, <2>1 DEF storeRest
  <2>3. Len(storeRest) < SectorSize - 1
    BY <1>2, <1>3, <1>4, ConstantType
  <2>4. storeDisk' = storeDisk
    BY <2>1, DiskKept
  <2>5. Store!Receive(d)
    BY <1>1, <1>3, <2>1, <2>2, <2>3, <2>4
    DEF Store!Receive, storeDisk, storeRest, storeData
  <2> QED
    BY <2>5 DEF Store!Next
<1>5. CASE ~(Len(writeBuffer') < SectorSize)
  <2>1. Len(writeBuffer') = SectorSize /\ Len(storeRest) = SectorSize - 1
    BY <1>2, <1>3, <1>5, ConstantType
  <2>2. writeSector(writeBuffer') /\ status' = "IDLE"
    BY <1>2, <1>5, ConstantType DEF writeData
  <2>3. PICK bytes \in Buffers : bytes = writeBuffer'
    BY <1>2, <2>1, SequenceIsBuffer
  <2>4. bytes \in Seq(Bytes) /\ Len(bytes) = SectorSize /\ writeSector(bytes)
    BY <2>2, <2>3, BufferIsSequence
  <2>5. storeRest' = <<>>
    BY <2>2 DEF storeRest
  <2>6. storeDisk' \in [0 .. Capacity - 1 -> [1 .. SectorSize -> Bytes]]
    <3> SUFFICES ASSUME NEW s \in 0 .. Capacity - 1, NEW i \in 1 .. SectorSize
                 PROVE  image'[s * SectorSize + i] \in Bytes
      BY DEF storeDisk, stored
    <3>1. s * SectorSize + i \in 1 .. ImageSize
      BY InCard
    <3>2. image' \in Seq(Bytes) /\ Len(image') >= ImageSize /\ Len(image') \in Nat
      BY LenProperties DEF TypeOK
    <3>3. s * SectorSize + i \in 1 .. Len(image')
      BY <3>1, <3>2, ConstantType
    <3> QED
      BY <3>2, <3>3, ElementOfSeq
  <2>7. faulty' \in BOOLEAN
    BY DEF TypeOK
  <2>8. /\ commanded \in 0 .. Capacity - 1 =>
             /\ \A s \in (0 .. Capacity - 1) \ {commanded} : storeDisk'[s] = storeDisk[s]
             /\ ~faulty' => storeDisk'[commanded] = Append(storeRest, d)
        /\ commanded \in Capacity .. IntSectors - 1 => storeDisk' = storeDisk
    BY <1>1, <1>3, <2>3, <2>4, WrittenPlace
  <2>9. Store!Commit(d)
    BY <1>1, <1>3, <2>1, <2>2, <2>5, <2>6, <2>7, <2>8
    DEF Store!Commit, Store!Sectors, Store!Contents, storeDisk, storeRest, storeData
  <2> QED
    BY <2>9 DEF Store!Next
<1> QED
  BY <1>4, <1>5

LEMMA OthersRefine ==
  ASSUME TypeOK, TypeOK',
         \/ \E i \in 0 .. 2 : \E d \in Digits : writeLba(i, d)
         \/ prepareWrite \/ otherCommand \/ readDataIdle \/ UNCHANGED vars
  PROVE  [Store!Next]_(Store!storeVars)
<1>1. storeDisk' = storeDisk
  <2>1. image' = image
    BY DEF writeLba, prepareWrite, otherCommand, readDataIdle, vars
  <2> QED
    BY <2>1, DiskKept
<1>2. ASSUME \/ \E i \in 0 .. 2 : \E d \in Digits : writeLba(i, d)
             \/ UNCHANGED vars
      PROVE  UNCHANGED Store!storeVars
  <2>1. UNCHANGED <<status, commanded, readBuffer, readPosition, writeBuffer, data, faulty>>
    BY <1>2 DEF writeLba, vars
  <2>2. storeRest' = storeRest /\ storeData' = storeData
    BY <2>1 DEF storeRest, storeData
  <2> QED
    BY <1>1, <2>1, <2>2 DEF Store!storeVars, storeDisk, storeRest, storeData
<1>3. CASE prepareWrite
  <2>1. sectorOf(lba) \in LbaRange
    BY SectorNumber DEF TypeOK
  <2>2. /\ status' = "WRITE" /\ writeBuffer' = <<>> /\ commanded' = sectorOf(lba)
        /\ data' = data /\ faulty' = faulty
    BY <1>3 DEF prepareWrite
  <2>3. storeRest' = <<>> /\ storeData' = storeData
    BY <2>2 DEF storeRest, storeData
  <2>4. Store!Write(sectorOf(lba))
    BY <1>1, <2>2, <2>3 DEF Store!Write, storeDisk, storeRest, storeData
  <2> QED
    BY <2>1, <2>4 DEF Store!Next, LbaRange
<1>4. CASE otherCommand
  <2>1. status' = "IDLE" /\ commanded' = commanded /\ data' = data /\ faulty' = faulty
    BY <1>4 DEF otherCommand
  <2>2. storeRest' = <<>> /\ storeData' = storeData
    BY <2>1 DEF storeRest, storeData
  <2>3. Store!Abandon
    BY <1>1, <2>1, <2>2 DEF Store!Abandon, storeDisk, storeRest, storeData
  <2> QED
    BY <2>3 DEF Store!Next
<1>5. CASE readDataIdle
  <2>1. /\ status # "READ" /\ data' = 0
        /\ UNCHANGED <<status, commanded, readBuffer, readPosition, writeBuffer, faulty>>
    BY <1>5 DEF readDataIdle
  <2>2. storeRest' = storeRest /\ storeData' = 0
    BY <2>1, NoByte DEF storeRest, storeData
  <2>3. Store!DeliverNothing
    BY <1>1, <2>1, <2>2 DEF Store!DeliverNothing, storeDisk, storeRest, storeData
  <2> QED
    BY <2>3 DEF Store!Next
<1> QED
  BY <1>2, <1>3, <1>4, <1>5

LEMMA StepRefines ==
  TypeOK /\ TypeOK' /\ [Next]_vars => [Store!Next]_(Store!storeVars)
<1> SUFFICES ASSUME TypeOK, TypeOK', [Next]_vars
             PROVE  [Store!Next]_(Store!storeVars)
  OBVIOUS
<1>1. CASE prepareRead
  BY <1>1, ReadRefines
<1>2. CASE readData
  BY <1>2, DeliverRefines
<1>3. CASE \E d \in Bytes : writeData(d)
  BY <1>3, ReceiveRefines
<1> QED
  BY <1>1, <1>2, <1>3, OthersRefine DEF Next

(* The controller implements the store of blocks, whatever the sizes, for  *)
(* every sequence of commands, abandoned transfers and failures, and a     *)
(* file that does not end with a sector (SdController.java).               *)
THEOREM StoreImplemented == Spec => ImplementsStore
<1>1. Init => Store!Init
  BY InitRefines
<1>2. TypeOK /\ TypeOK' /\ [Next]_vars => [Store!Next]_(Store!storeVars)
  BY StepRefines
<1> QED
  BY <1>1, <1>2, TypeCorrect, PTL DEF Spec, ImplementsStore, Store!Spec
=============================================================================
