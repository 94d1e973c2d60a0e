-------------------------- MODULE CpuInterrupts_proofs --------------------------
(***************************************************************************)
(* Proofs about interrupts and the stack page of the simulated 6502, for   *)
(* every program, every placement of the vectors and every stack size.     *)
(* First the stack itself and the returns; then what an interrupt handler  *)
(* may rely on: the status byte on the stack tells a BRK from an           *)
(* interrupt, a pending IRQ is not forgotten, and only a handler that      *)
(* clears I itself is interrupted by an IRQ.                               *)
(*                                                                         *)
(* The last one needs the whole chain of activations: that the I flag is   *)
(* set while the innermost handler counts as masked, and that it will be   *)
(* again when an RTI goes back to a handler which counts as masked, since  *)
(* the status byte above that one has I set (Masks).                       *)
(***************************************************************************)
EXTENDS CpuInterrupts, SequenceTheorems, TLAPS

-----------------------------------------------------------------------------
(* The stack and the returns.                                              *)

(* Where sp is when n bytes are on the stack.                              *)
Position(n) == IF n = StackSize THEN StackSize - 1 ELSE StackSize - 1 - n

(* The inductive strengthening of StackIsLifo: where sp is, and that       *)
(* deepest is a high-water mark.                                           *)
Well(s) ==
  /\ s \in States
  /\ Len(s.shadow) <= s.deepest
  /\ s.deepest <= StackSize =>
       s.sp = Position(Len(s.shadow))
  /\ Lifo(s)

(* The fields of t that Well is about are those of s.                      *)
SameStack(s, t) ==
  t.stack = s.stack /\ t.sp = s.sp /\ t.shadow = s.shadow /\ t.deepest = s.deepest

LEMMA SameStackWell ==
  ASSUME NEW s, Well(s), NEW t \in States, SameStack(s, t)
  PROVE  Well(t)
  BY DEF Well, SameStack, Lifo

(* All but the last element of a sequence.                                 *)
LEMMA FrontProperties ==
  ASSUME NEW S, NEW q \in Seq(S), Len(q) > 0
  PROVE  /\ SubSeq(q, 1, Len(q) - 1) \in Seq(S)
         /\ Len(SubSeq(q, 1, Len(q) - 1)) = Len(q) - 1
         /\ \A k \in 1 .. Len(q) - 1 : SubSeq(q, 1, Len(q) - 1)[k] = q[k]
<1> DEFINE n == Len(q)
<1>1. n \in Nat /\ n > 0 /\ \A k \in 1 .. n : q[k] \in S
  BY LenProperties, ElementOfSeq
<1> HIDE DEF n
<1>2. n - 1 \in Int /\ \A k \in 1 .. n - 1 : q[k] \in S
  BY <1>1
<1>3. /\ SubSeq(q, 1, n - 1) \in Seq(S)
      /\ Len(SubSeq(q, 1, n - 1)) = IF 1 <= n - 1 THEN n - 1 - 1 + 1 ELSE 0
      /\ \A k \in 1 .. n - 1 - 1 + 1 : SubSeq(q, 1, n - 1)[k] = q[1 + k - 1]
  BY <1>2, SubSeqProperties
<1>4. /\ Len(SubSeq(q, 1, n - 1)) = n - 1
      /\ \A k \in 1 .. n - 1 : SubSeq(q, 1, n - 1)[k] = q[k]
  BY <1>1, <1>3
<1> QED
  BY <1>3, <1>4 DEF n

(* Bytes and words.                                                        *)
LEMMA WordFacts ==
  /\ \A n \in Word : n \in Nat /\ n <= 65535
  /\ \A n \in Nat : n <= 65535 => n \in Word
<1>1. MaxWord \in Nat
  BY DEF MaxWord
<1>2. \A n \in Nat : n <= 65535 => n <= MaxWord
  BY DEF MaxWord
<1>3. \A n \in Nat : n <= MaxWord => n \in 0 .. MaxWord
  BY <1>1
<1>4. \A n \in 0 .. MaxWord : n \in Nat /\ n <= MaxWord
  BY <1>1
<1>5. \A n \in Nat : n <= MaxWord => n <= 65535
  BY DEF MaxWord
<1> QED
  BY <1>2, <1>3, <1>4, <1>5 DEF Word

LEMMA ByteFacts ==
  /\ \A n \in Nat : hiByte(n) \in Byte /\ loByte(n) \in Byte
  /\ \A n \in Word : address(loByte(n), hiByte(n)) = n
  /\ \A lo, hi \in Byte : address(lo, hi) \in Word
  /\ \A n \in Nat : n % 65536 \in Word
<1>1. \A n \in Nat : hiByte(n) \in Byte /\ loByte(n) \in Byte
  BY DEF hiByte, loByte, Byte
<1>2. ASSUME NEW n \in Word
      PROVE  address(loByte(n), hiByte(n)) = n
  <2>1. n \in Nat /\ n <= 65535
    BY WordFacts
  <2>2. n % 256 = n - 256 * (n \div 256)
    BY <2>1
  <2>3. (n \div 256) % 256 = n \div 256 /\ n \div 256 \in Nat
    BY <2>1
  <2>4. hiByte(n) = n \div 256 /\ loByte(n) = n - 256 * (n \div 256)
    BY <2>2, <2>3 DEF hiByte, loByte
  <2> QED
    BY <2>1, <2>3, <2>4 DEF address
<1>3. \A lo, hi \in Byte : address(lo, hi) \in Word
  <2>1. \A lo, hi \in Byte : address(lo, hi) \in Nat /\ address(lo, hi) <= 65535
    BY DEF address, Byte
  <2> QED
    BY <2>1, WordFacts
<1>4. \A n \in Nat : n % 65536 \in Word
  <2>1. \A n \in Nat : n % 65536 \in Nat /\ n % 65536 <= 65535
    OBVIOUS
  <2> QED
    BY <2>1, WordFacts
<1> QED
  BY <1>1, <1>2, <1>3, <1>4

(* How a push and a pull move sp.                                          *)
LEMMA PushPosition ==
  ASSUME NEW n \in Nat, NEW d \in Nat,
         (IF d > n THEN d ELSE n + 1) <= StackSize
  PROVE  /\ d <= StackSize /\ n < StackSize
         /\ Position(n) = StackSize - 1 - n
         /\ below(Position(n)) = Position(n + 1)
  BY CpuAssumption DEF Position, below

LEMMA PopPosition ==
  ASSUME NEW n \in Nat, n > 0, n <= StackSize
  PROVE  /\ above(Position(n)) = StackSize - n
         /\ above(Position(n)) = Position(n - 1)
  BY CpuAssumption DEF Position, above

(* A push keeps the stack page a last-in first-out store.                  *)
LEMMA PushWell ==
  ASSUME NEW s, Well(s), NEW v \in Byte
  PROVE  /\ Well(stackPush(s, v))
         /\ Len(stackPush(s, v).shadow) = Len(s.shadow) + 1
         /\ \A k \in 1 .. Len(s.shadow) : stackPush(s, v).shadow[k] = s.shadow[k]
         /\ stackPush(s, v).shadow[Len(s.shadow) + 1] = v
         /\ stackPush(s, v).frames = s.frames
         /\ stackPush(s, v).pc = s.pc
<1> DEFINE t == stackPush(s, v)
<1>0. /\ s \in States /\ StackSize \in Nat \ {0} /\ s.sp \in Slots
      /\ Len(s.shadow) \in Nat /\ s.shadow \in Seq(Byte) /\ s.deepest \in Nat
      /\ s.stack \in [Slots -> Byte]
  BY CpuAssumption, LenProperties DEF Well, States
<1>1. /\ t.shadow = Append(s.shadow, v)
      /\ t.stack = [s.stack EXCEPT ![s.sp] = v]
      /\ t.sp = below(s.sp)
      /\ t.deepest = IF s.deepest > Len(s.shadow) THEN s.deepest ELSE Len(s.shadow) + 1
      /\ t.frames = s.frames /\ t.pc = s.pc
  BY <1>0 DEF stackPush, States
<1>2. /\ t.shadow \in Seq(Byte)
      /\ Len(t.shadow) = Len(s.shadow) + 1
      /\ \A k \in 1 .. Len(s.shadow) : t.shadow[k] = s.shadow[k]
      /\ t.shadow[Len(s.shadow) + 1] = v
  BY <1>0, <1>1, AppendProperties
<1>3. t.sp \in Slots /\ t.deepest \in Nat /\ t.stack \in [Slots -> Byte]
  BY <1>0, <1>1 DEF below, Slots
<1>4. t \in States
  BY <1>0, <1>1, <1>2, <1>3 DEF stackPush, States
<1>5. Len(t.shadow) <= t.deepest
  BY <1>0, <1>1, <1>2
<1>6. ASSUME t.deepest <= StackSize
      PROVE  /\ s.deepest <= StackSize
             /\ Len(s.shadow) < StackSize
             /\ s.sp = StackSize - 1 - Len(s.shadow)
             /\ t.sp = Position(Len(t.shadow))
  <2>1. (IF s.deepest > Len(s.shadow) THEN s.deepest ELSE Len(s.shadow) + 1) <= StackSize
    BY <1>1, <1>6
  <2>2. s.deepest \in Nat /\ Len(s.shadow) \in Nat
    BY <1>0
  <2>3. s.deepest <= StackSize /\ Len(s.shadow) < StackSize
        /\ Position(Len(s.shadow)) = StackSize - 1 - Len(s.shadow)
        /\ below(Position(Len(s.shadow))) = Position(Len(s.shadow) + 1)
    BY <2>1, <2>2, PushPosition
  <2>4. s.sp = Position(Len(s.shadow))
    BY <2>3 DEF Well
  <2> QED
    BY <1>1, <1>2, <2>3, <2>4
<1>8. ASSUME t.deepest <= StackSize, NEW k \in 1 .. Len(t.shadow)
      PROVE  t.stack[StackSize - k] = t.shadow[k]
  <2>1. CASE k = Len(t.shadow)
    <3>1. StackSize - k = s.sp
      <4>1. s.sp = StackSize - 1 - Len(s.shadow)
        BY <1>6, <1>8
      <4>2. k = Len(s.shadow) + 1
        BY <1>2, <2>1
      <4> QED
        BY <1>0, <4>1, <4>2
    <3>2. t.stack[s.sp] = v
      BY <1>0, <1>1
    <3> QED
      BY <1>2, <2>1, <3>1, <3>2
  <2>2. CASE k < Len(t.shadow)
    <3>1. k \in 1 .. Len(s.shadow)
      BY <1>0, <1>2, <2>2
    <3>2. s.stack[StackSize - k] = s.shadow[k]
      BY <1>6, <1>8, <3>1 DEF Well, Lifo
    <3>3. s.sp = StackSize - 1 - Len(s.shadow) /\ Len(s.shadow) < StackSize
      BY <1>6, <1>8
    <3>4. StackSize - k \in Slots /\ StackSize - k # s.sp
      BY <1>0, <3>1, <3>3 DEF Slots
    <3> QED
      BY <1>0, <1>1, <1>2, <3>1, <3>2, <3>4
  <2> QED
    BY <1>0, <1>2, <2>1, <2>2
<1> QED
  BY <1>1, <1>2, <1>4, <1>5, <1>6, <1>8 DEF Well, Lifo

(* A pull keeps it too, and finds the byte pushed last.                    *)
LEMMA PopWell ==
  ASSUME NEW s, Well(s), Len(s.shadow) > 0
  PROVE  /\ Well(popped(s))
         /\ top(s) \in Byte
         /\ s.deepest <= StackSize => top(s) = s.shadow[Len(s.shadow)]
         /\ Len(popped(s).shadow) = Len(s.shadow) - 1
         /\ \A k \in 1 .. Len(s.shadow) - 1 : popped(s).shadow[k] = s.shadow[k]
         /\ popped(s).deepest = s.deepest
         /\ popped(s).frames = s.frames
<1> DEFINE t == popped(s)
<1>0. /\ s \in States /\ StackSize \in Nat \ {0} /\ s.sp \in Slots
      /\ Len(s.shadow) \in Nat /\ s.shadow \in Seq(Byte) /\ s.deepest \in Nat
      /\ s.stack \in [Slots -> Byte]
  BY CpuAssumption, LenProperties DEF Well, States
<1>1. /\ t.shadow = SubSeq(s.shadow, 1, Len(s.shadow) - 1)
      /\ t.stack = s.stack
      /\ t.sp = above(s.sp)
      /\ t.deepest = s.deepest
      /\ t.frames = s.frames
  BY <1>0 DEF popped, States
<1>2. /\ t.shadow \in Seq(Byte)
      /\ Len(t.shadow) = Len(s.shadow) - 1
      /\ \A k \in 1 .. Len(s.shadow) - 1 : t.shadow[k] = s.shadow[k]
  BY <1>0, <1>1, FrontProperties
<1>3. above(s.sp) \in Slots
  BY <1>0 DEF above, Slots
<1>4. t \in States /\ top(s) \in Byte
  BY <1>0, <1>1, <1>2, <1>3 DEF popped, top, States
<1>5. ASSUME s.deepest <= StackSize
      PROVE  /\ above(s.sp) = StackSize - Len(s.shadow)
             /\ above(s.sp) = Position(Len(s.shadow) - 1)
  <2>1. s.sp = Position(Len(s.shadow)) /\ Len(s.shadow) <= s.deepest
    BY <1>5 DEF Well
  <2>2. Len(s.shadow) <= StackSize
    BY <1>0, <1>5, <2>1
  <2> QED
    BY <1>0, <2>1, <2>2, PopPosition
<1>6. ASSUME s.deepest <= StackSize
      PROVE  top(s) = s.shadow[Len(s.shadow)]
  BY <1>0, <1>5, <1>6 DEF Well, Lifo, top
<1>7. ASSUME t.deepest <= StackSize
      PROVE  t.sp = Position(Len(t.shadow))
  BY <1>1, <1>2, <1>5, <1>7
<1>8. Lifo(t)
  BY <1>0, <1>1, <1>2 DEF Well, Lifo
<1>9. Len(t.shadow) <= t.deepest
  BY <1>0, <1>1, <1>2 DEF Well
<1> QED
  BY <1>1, <1>2, <1>4, <1>6, <1>7, <1>8, <1>9 DEF Well

-----------------------------------------------------------------------------
(* The activations.  What RTS or RTI takes from the stack for activation f *)
(* before adding one to it.                                                *)
pushedPc(f) == IF f.kind = "call" THEN (f.ret - 1) % 65536 ELSE f.ret

(* The bytes q that are on the stack hold what activation f pushed.        *)
Holds(q, f) ==
  /\ f.at + frameSize(f) <= Len(q)
  /\ pushedPc(f) = address(q[f.at + 2], q[f.at + 1])
  /\ f.kind # "call" => f.status = q[f.at + 3]

(* The innermost activations lie on top of the outer ones.                 *)
Nested(fs) ==
  \A j, k \in 1 .. Len(fs) : j < k => fs[j].at + frameSize(fs[j]) <= fs[k].at

Intact(s) ==
  /\ \A k \in 1 .. Len(s.frames) : Holds(s.shadow, s.frames[k])
  /\ Nested(s.frames)

Good(s) == Well(s) /\ Intact(s)

(* The types of the parts of a state.                                      *)
LEMMA Parts ==
  ASSUME NEW s \in States
  PROVE  /\ s.pc \in Word /\ s.pc \in Nat /\ s.a \in Byte /\ s.sp \in Slots
         /\ s.shadow \in Seq(Byte) /\ Len(s.shadow) \in Nat /\ s.deepest \in Nat
         /\ s.frames \in Seq(Frames) /\ Len(s.frames) \in Nat
         /\ \A k \in 1 .. Len(s.frames) :
              /\ s.frames[k] \in Frames
              /\ s.frames[k].at \in Nat
              /\ frameSize(s.frames[k]) \in {2, 3}
<1>1. /\ s.pc \in Word /\ s.a \in Byte /\ s.sp \in Slots
      /\ s.shadow \in Seq(Byte) /\ s.deepest \in Nat /\ s.frames \in Seq(Frames)
  BY DEF States
<1>2. Len(s.shadow) \in Nat /\ Len(s.frames) \in Nat
  BY <1>1, LenProperties
<1>3. \A k \in 1 .. Len(s.frames) : s.frames[k] \in Frames
  BY <1>1, ElementOfSeq
<1>4. \A f \in Frames : f.at \in Nat /\ frameSize(f) \in {2, 3}
  BY DEF Frames, frameSize
<1>5. \A n \in Word : n \in Nat
  BY WordFacts
<1> QED
  BY <1>1, <1>2, <1>3, <1>4, <1>5

(* A step that leaves the stack and the activations alone.                 *)
LEMMA SameGood ==
  ASSUME NEW s, Good(s), NEW t \in States, SameStack(s, t), t.frames = s.frames
  PROVE  Good(t)
<1>1. Well(t)
  BY SameStackWell DEF Good
<1>2. Intact(t)
  BY DEF Good, Intact, SameStack
<1> QED
  BY <1>1, <1>2 DEF Good

(* What is above the bytes of f does not matter to it.                     *)
LEMMA HoldsAgree ==
  ASSUME NEW q \in Seq(Byte), NEW r \in Seq(Byte), NEW f \in Frames,
         Holds(q, f), f.at + frameSize(f) <= Len(r),
         \A k \in 1 .. f.at + frameSize(f) : r[k] = q[k]
  PROVE  Holds(r, f)
<1>1. f.at \in Nat /\ frameSize(f) = IF f.kind = "call" THEN 2 ELSE 3
  BY DEF Frames, frameSize
<1>2. r[f.at + 1] = q[f.at + 1] /\ r[f.at + 2] = q[f.at + 2]
  <2>1. f.at + 1 \in 1 .. f.at + frameSize(f) /\ f.at + 2 \in 1 .. f.at + frameSize(f)
    BY <1>1
  <2> QED
    BY <2>1
<1>3. f.kind # "call" => r[f.at + 3] = q[f.at + 3]
  BY <1>1
<1> QED
  BY <1>2, <1>3 DEF Holds

(* A push disturbs no activation.                                          *)
LEMMA PushGood ==
  ASSUME NEW s, Good(s), NEW v \in Byte
  PROVE  /\ Good(stackPush(s, v))
         /\ Len(stackPush(s, v).shadow) = Len(s.shadow) + 1
         /\ \A k \in 1 .. Len(s.shadow) : stackPush(s, v).shadow[k] = s.shadow[k]
         /\ stackPush(s, v).shadow[Len(s.shadow) + 1] = v
         /\ stackPush(s, v).frames = s.frames
         /\ stackPush(s, v).pc = s.pc
<1> DEFINE t == stackPush(s, v)
<1>1. /\ Well(t)
      /\ Len(t.shadow) = Len(s.shadow) + 1
      /\ \A k \in 1 .. Len(s.shadow) : t.shadow[k] = s.shadow[k]
      /\ t.shadow[Len(s.shadow) + 1] = v
      /\ t.frames = s.frames
      /\ t.pc = s.pc
  BY PushWell DEF Good
<1>2. s \in States /\ t \in States /\ Intact(s)
  BY <1>1 DEF Good, Well
<1> HIDE DEF t
<1>3. ASSUME NEW k \in 1 .. Len(t.frames)
      PROVE  Holds(t.shadow, t.frames[k])
  <2> DEFINE f == s.frames[k]
  <2>1. f \in Frames /\ f.at \in Nat /\ frameSize(f) \in {2, 3}
    BY <1>1, <1>2, Parts
  <2>2. Holds(s.shadow, f)
    BY <1>1, <1>2 DEF Intact
  <2>3. Len(s.shadow) \in Nat /\ s.shadow \in Seq(Byte) /\ t.shadow \in Seq(Byte)
    BY <1>2, Parts
  <2>4. f.at + frameSize(f) <= Len(s.shadow)
    BY <2>2 DEF Holds
  <2> HIDE DEF f
  <2>5. f.at + frameSize(f) <= Len(t.shadow)
    BY <1>1, <2>1, <2>3, <2>4
  <2>6. \A j \in 1 .. f.at + frameSize(f) : t.shadow[j] = s.shadow[j]
    BY <1>1, <2>1, <2>3, <2>4
  <2>7. Holds(t.shadow, f)
    BY <2>1, <2>2, <2>3, <2>5, <2>6, HoldsAgree
  <2> QED
    BY <1>1, <2>7 DEF f
<1>4. Intact(t)
  BY <1>1, <1>2, <1>3 DEF Intact
<1> QED
  BY <1>1, <1>4 DEF Good, t

(* A pull above the innermost activation disturbs none.                    *)
LEMMA PopGood ==
  ASSUME NEW s, Good(s), localBytes(s) > 0
  PROVE  Good(popped(s)) /\ top(s) \in Byte
<1> DEFINE t == popped(s)
           n == Len(s.shadow)
<1>1. s \in States /\ Intact(s) /\ Well(s)
  BY DEF Good, Well
<1>2. n \in Nat
  BY <1>1, Parts
<1>3. ASSUME NEW k \in 1 .. Len(s.frames)
      PROVE  s.frames[k].at + frameSize(s.frames[k]) <= n - 1
  <2> DEFINE m == Len(s.frames)
             f == s.frames[k]
             g == s.frames[m]
  <2>1. m \in Nat /\ m > 0 /\ m \in 1 .. Len(s.frames)
    BY <1>1, <1>3, Parts
  <2>2. /\ f.at \in Nat /\ frameSize(f) \in {2, 3}
        /\ g.at \in Nat /\ frameSize(g) \in {2, 3}
    BY <1>1, <1>3, <2>1, Parts
  <2>3. s.frames # <<>>
    BY <1>1, <2>1, EmptySeq DEF States
  <2>4. n - (g.at + frameSize(g)) > 0
    BY <2>3 DEF localBytes, topFrame
  <2>5. CASE k = m
    <3>1. g.at + frameSize(g) \in Nat
      BY <2>2
    <3>2. g.at + frameSize(g) <= n - 1
      <4> DEFINE e == g.at + frameSize(g)
      <4>1. e \in Nat /\ n - e > 0
        BY <2>4, <3>1
      <4> HIDE DEF e, n
      <4>2. e <= n - 1
        BY <1>2, <4>1
      <4> QED
        BY <4>2 DEF e
    <3>3. f = g
      BY <2>5
    <3> HIDE DEF f, g, n
    <3>4. f.at + frameSize(f) <= n - 1
      BY <3>2, <3>3
    <3> QED
      BY <3>4 DEF f, n
  <2>6. CASE k # m
    <3>1. k < m
      BY <2>1, <2>6
    <3>2. f.at + frameSize(f) <= g.at
      BY <1>1, <2>1, <3>1 DEF Intact, Nested
    <3> HIDE DEF f, g, m, n
    <3>3. f.at + frameSize(f) <= n - 1
      BY <1>2, <2>2, <2>4, <3>2
    <3> QED
      BY <3>3 DEF f, n
  <2> QED
    BY <2>5, <2>6
<1>4. n > 0
  <2>1. CASE s.frames = <<>>
    BY <1>2, <2>1 DEF localBytes
  <2>2. CASE s.frames # <<>>
    <3>1. Len(s.frames) \in 1 .. Len(s.frames)
      BY <1>1, <2>2, Parts, EmptySeq DEF States
    <3>2. s.frames[Len(s.frames)].at + frameSize(s.frames[Len(s.frames)]) <= n - 1
      BY <1>3, <3>1
    <3>3. /\ s.frames[Len(s.frames)].at \in Nat
          /\ frameSize(s.frames[Len(s.frames)]) \in {2, 3}
      BY <1>1, <3>1, Parts
    <3> HIDE DEF n
    <3> QED
      BY <1>2, <3>2, <3>3
  <2> QED
    BY <2>1, <2>2
<1>5. /\ Well(t) /\ top(s) \in Byte
      /\ Len(t.shadow) = n - 1
      /\ \A k \in 1 .. n - 1 : t.shadow[k] = s.shadow[k]
      /\ t.frames = s.frames
  BY <1>1, <1>4, PopWell
<1>6. t \in States
  BY <1>5 DEF Well
<1> HIDE DEF t
<1>7. ASSUME NEW k \in 1 .. Len(t.frames)
      PROVE  Holds(t.shadow, t.frames[k])
  <2> DEFINE f == s.frames[k]
  <2>1. f \in Frames /\ f.at \in Nat /\ frameSize(f) \in {2, 3}
    BY <1>1, <1>5, Parts
  <2>2. Holds(s.shadow, f)
    BY <1>1, <1>5 DEF Intact
  <2>3. s.shadow \in Seq(Byte) /\ t.shadow \in Seq(Byte)
    BY <1>1, <1>6, Parts
  <2>4. f.at + frameSize(f) <= n - 1
    BY <1>3, <1>5
  <2> HIDE DEF f, n
  <2>5. f.at + frameSize(f) <= Len(t.shadow)
    BY <1>5, <2>4
  <2>6. \A j \in 1 .. f.at + frameSize(f) : t.shadow[j] = s.shadow[j]
    BY <1>2, <1>5, <2>1, <2>4
  <2>7. Holds(t.shadow, f)
    BY <2>1, <2>2, <2>3, <2>5, <2>6, HoldsAgree
  <2> QED
    BY <1>5, <2>7 DEF f
<1>8. Intact(t)
  BY <1>1, <1>5, <1>7 DEF Intact
<1> QED
  BY <1>5, <1>8 DEF Good, t

(* An activation that holds, on top of all others, may be entered.         *)
LEMMA EnterGood ==
  ASSUME NEW s, Good(s),
         NEW kind \in Entries \cup {"call"}, NEW ret \in Word,
         NEW status \in Byte, NEW at \in Nat,
         Holds(s.shadow, [kind |-> kind, ret |-> ret, status |-> status,
                          at |-> at, masked |-> kind # "call"]),
         \A k \in 1 .. Len(s.frames) :
           s.frames[k].at + frameSize(s.frames[k]) <= at
  PROVE  /\ Good(enter(s, kind, ret, status, at))
         /\ Len(enter(s, kind, ret, status, at).frames) = Len(s.frames) + 1
<1> DEFINE t == enter(s, kind, ret, status, at)
           f == [kind |-> kind, ret |-> ret, status |-> status,
                 at |-> at, masked |-> kind # "call"]
           m == Len(s.frames)
<1>1. s \in States /\ Intact(s) /\ Well(s)
  BY DEF Good, Well
<1>2. f \in Frames
  BY DEF Frames
<1>3. m \in Nat /\ s.frames \in Seq(Frames)
  BY <1>1, Parts
<1>4. t.frames = Append(s.frames, f)
  BY <1>1 DEF enter, States
<1>5. /\ t.frames \in Seq(Frames)
      /\ Len(t.frames) = m + 1
      /\ \A k \in 1 .. m : t.frames[k] = s.frames[k]
      /\ t.frames[m + 1] = f
  BY <1>2, <1>3, <1>4, AppendProperties
<1>6. t \in States
  BY <1>1, <1>4, <1>5 DEF enter, States
<1>7. SameStack(s, t)
  BY <1>1 DEF enter, SameStack, States
<1>8. Well(t)
  BY <1>1, <1>6, <1>7, SameStackWell
<1>9. f.at = at
  OBVIOUS
<1> HIDE DEF t, f, m
<1>10. \A k \in 1 .. Len(t.frames) : k \in 1 .. m \/ k = m + 1
  BY <1>3, <1>5
<1>11. \A k \in 1 .. Len(t.frames) : Holds(t.shadow, t.frames[k])
  BY <1>1, <1>5, <1>7, <1>10 DEF Intact, SameStack, f, m
<1>12. ASSUME NEW j \in 1 .. Len(t.frames), NEW k \in 1 .. Len(t.frames), j < k
       PROVE  t.frames[j].at + frameSize(t.frames[j]) <= t.frames[k].at
  <2>1. j \in 1 .. m
    BY <1>3, <1>5, <1>12
  <2>2. CASE k \in 1 .. m
    BY <1>1, <1>5, <1>12, <2>1, <2>2 DEF Intact, Nested, m
  <2>3. CASE k = m + 1
    BY <1>5, <1>9, <2>1, <2>3 DEF m
  <2> QED
    BY <1>10, <2>2, <2>3
<1>13. Intact(t)
  BY <1>11, <1>12 DEF Intact, Nested
<1> QED
  BY <1>5, <1>8, <1>13 DEF Good, t, m

-----------------------------------------------------------------------------
(* Interrupts.                                                             *)

(* The status register fits a byte, and keeps the three flags.             *)
StatusBits(b, i, c) ==
  32 + (IF b THEN 16 ELSE 0) + (IF i THEN 4 ELSE 0) + (IF c THEN 1 ELSE 0)

LEMMA StatusBitsFacts ==
  ASSUME NEW b \in BOOLEAN, NEW i \in BOOLEAN, NEW c \in BOOLEAN
  PROVE  /\ StatusBits(b, i, c) \in Byte
         /\ (StatusBits(b, i, c) % 2 = 1) <=> c
         /\ ((StatusBits(b, i, c) \div 4) % 2 = 1) <=> i
         /\ ((StatusBits(b, i, c) \div 16) % 2 = 1) <=> b
  BY DEF StatusBits, Byte

LEMMA StatusFacts ==
  ASSUME NEW s \in States
  PROVE  /\ getStatusFlag(s) \in Byte
         /\ (getStatusFlag(s) % 2 = 1) <=> s.c
         /\ ((getStatusFlag(s) \div 4) % 2 = 1) <=> s.i
         /\ ((getStatusFlag(s) \div 16) % 2 = 1) <=> s.b
<1>1. s.b \in BOOLEAN /\ s.i \in BOOLEAN /\ s.c \in BOOLEAN
  BY DEF States
<1>2. getStatusFlag(s) = StatusBits(s.b, s.i, s.c)
  BY DEF getStatusFlag, StatusBits
<1> QED
  BY <1>1, <1>2, StatusBitsFacts

(* Assigning to pc and the flags.                                          *)
withB(s, b) == [s EXCEPT !.b = b]
withMaskAndPc(s, n) == [s EXCEPT !.i = TRUE, !.pc = n]

LEMMA AssignB ==
  ASSUME NEW s \in States, NEW b \in BOOLEAN
  PROVE  /\ withB(s, b) \in States
         /\ SameStack(s, withB(s, b))
         /\ withB(s, b).frames = s.frames
         /\ withB(s, b).b = b
  BY DEF withB, States, SameStack

LEMMA AssignMaskAndPc ==
  ASSUME NEW s \in States, NEW n \in Word
  PROVE  /\ withMaskAndPc(s, n) \in States
         /\ SameStack(s, withMaskAndPc(s, n))
         /\ withMaskAndPc(s, n).frames = s.frames
  BY DEF withMaskAndPc, States, SameStack

(* Pushing an address of 16 bits or its successor loses no more than the   *)
(* carry.                                                                  *)
LEMMA PushedAddress ==
  ASSUME NEW n \in Nat, n <= 65536
  PROVE  /\ hiByte(n) \in Byte /\ loByte(n) \in Byte /\ n % 65536 \in Word
         /\ address(loByte(n), hiByte(n)) = n % 65536
<1>1. hiByte(n) \in Byte /\ loByte(n) \in Byte /\ n % 65536 \in Word
  BY ByteFacts
<1>2. ASSUME n = 65536
      PROVE  address(loByte(n), hiByte(n)) = n % 65536
  <2>1. (n \div 256) % 256 = 0 /\ n % 256 = 0 /\ n % 65536 = 0
    BY <1>2
  <2>2. hiByte(n) = 0 /\ loByte(n) = 0
    BY <2>1 DEF hiByte, loByte
  <2>3. address(0, 0) = 0
    BY DEF address
  <2>4. n % 65536 = 0
    BY <2>1
  <2> QED
    BY <2>2, <2>3, <2>4
<1>3. ASSUME n < 65536
      PROVE  address(loByte(n), hiByte(n)) = n % 65536
  <2>1. n % 65536 = n
    BY <1>3
  <2>2. n \in Word
    BY <1>3, WordFacts
  <2> QED
    BY <2>1, <2>2, ByteFacts
<1> QED
  BY <1>1, <1>2, <1>3

LEMMA HandleInterruptGood ==
  ASSUME NEW s, Good(s), NEW kind \in Entries,
         NEW returnPc \in Nat, returnPc <= 65536, NEW vector \in Word
  PROVE  /\ Good(handleInterrupt(s, kind, returnPc, vector))
         /\ Len(handleInterrupt(s, kind, returnPc, vector).frames)
              = Len(s.frames) + 1
<1> DEFINE n       == Len(s.shadow)
           brk     == kind = "brk"
           flagged == withB(s, brk)
           status  == getStatusFlag(flagged)
           one     == stackPush(flagged, hiByte(returnPc))
           two     == stackPush(one, loByte(returnPc))
           three   == stackPush(two, status)
           masked  == withMaskAndPc(three, vector)
           f       == [kind |-> kind, ret |-> returnPc % 65536,
                       status |-> status, at |-> n, masked |-> kind # "call"]
<1>1. s \in States /\ n \in Nat /\ Intact(s)
  <2>1. s \in States
    BY DEF Good, Well
  <2> QED
    BY <2>1, Parts DEF Good
<1>2. /\ hiByte(returnPc) \in Byte /\ loByte(returnPc) \in Byte
      /\ returnPc % 65536 \in Word
      /\ address(loByte(returnPc), hiByte(returnPc)) = returnPc % 65536
  BY PushedAddress
<1>3. flagged \in States /\ SameStack(s, flagged) /\ flagged.frames = s.frames
  <2>1. brk \in BOOLEAN
    BY DEF brk
  <2> HIDE DEF brk
  <2> QED
    BY <1>1, <2>1, AssignB
<1>4. Good(flagged) /\ flagged.shadow = s.shadow
  <2> HIDE DEF flagged
  <2>1. Good(flagged)
    BY <1>3, SameGood
  <2> QED
    BY <1>3, <2>1 DEF SameStack
<1>5. status \in Byte
  BY <1>3, StatusFacts
<1> HIDE DEF flagged, status
<1>6. /\ Good(one) /\ one.frames = s.frames /\ Len(one.shadow) = n + 1
      /\ one.shadow[n + 1] = hiByte(returnPc)
  BY <1>2, <1>3, <1>4, PushGood
<1> HIDE DEF one
<1>7. /\ Good(two) /\ two.frames = s.frames /\ Len(two.shadow) = n + 2
      /\ two.shadow[n + 1] = hiByte(returnPc)
      /\ two.shadow[n + 2] = loByte(returnPc)
  <2>1. /\ Good(two) /\ two.frames = one.frames
        /\ Len(two.shadow) = Len(one.shadow) + 1
        /\ \A k \in 1 .. Len(one.shadow) : two.shadow[k] = one.shadow[k]
        /\ two.shadow[Len(one.shadow) + 1] = loByte(returnPc)
    BY <1>2, <1>6, PushGood
  <2>2. n + 1 \in 1 .. Len(one.shadow) /\ Len(one.shadow) + 1 = n + 2
    BY <1>1, <1>6
  <2> QED
    BY <1>6, <2>1, <2>2
<1> HIDE DEF two
<1>8. /\ Good(three) /\ three.frames = s.frames /\ Len(three.shadow) = n + 3
      /\ three.shadow[n + 1] = hiByte(returnPc)
      /\ three.shadow[n + 2] = loByte(returnPc)
      /\ three.shadow[n + 3] = status
  <2>1. /\ Good(three) /\ three.frames = two.frames
        /\ Len(three.shadow) = Len(two.shadow) + 1
        /\ \A k \in 1 .. Len(two.shadow) : three.shadow[k] = two.shadow[k]
        /\ three.shadow[Len(two.shadow) + 1] = status
    BY <1>5, <1>7, PushGood
  <2>2. /\ n + 1 \in 1 .. Len(two.shadow) /\ n + 2 \in 1 .. Len(two.shadow)
        /\ Len(two.shadow) + 1 = n + 3
    BY <1>1, <1>7
  <2> QED
    BY <1>7, <2>1, <2>2
<1> HIDE DEF three
<1>9. three \in States
  BY <1>8 DEF Good, Well
<1>10. masked \in States /\ SameStack(three, masked) /\ masked.frames = three.frames
  BY <1>9, AssignMaskAndPc
<1>11. Good(masked) /\ masked.shadow = three.shadow /\ masked.frames = s.frames
  <2> HIDE DEF masked
  <2>1. Good(masked)
    BY <1>8, <1>10, SameGood
  <2> QED
    BY <1>8, <1>10, <2>1 DEF SameStack
<1> HIDE DEF masked
<1>12. kind # "call" /\ kind \in Entries \cup {"call"}
  BY DEF Entries
<1>13. f.at + frameSize(f) = n + 3 /\ f.at = n
  BY <1>1, <1>12 DEF frameSize
<1>14. pushedPc(f) = returnPc % 65536 /\ f.status = status
  BY <1>12 DEF pushedPc
<1>15. Holds(masked.shadow, f)
  <2> HIDE DEF f, n
  <2> QED
    BY <1>1, <1>2, <1>8, <1>11, <1>13, <1>14 DEF Holds
<1>16. \A k \in 1 .. Len(masked.frames) :
         masked.frames[k].at + frameSize(masked.frames[k]) <= n
  BY <1>1, <1>11 DEF Intact, Holds
<1>17. /\ Good(enter(masked, kind, returnPc % 65536, status, n))
       /\ Len(enter(masked, kind, returnPc % 65536, status, n).frames)
            = Len(s.frames) + 1
  <2> DEFINE ret == returnPc % 65536
  <2>1. Good(masked) /\ kind \in Entries \cup {"call"} /\ ret \in Word
        /\ status \in Byte /\ n \in Nat
    BY <1>1, <1>2, <1>5, <1>11, <1>12
  <2>2. Holds(masked.shadow, [kind |-> kind, ret |-> ret, status |-> status,
                              at |-> n, masked |-> kind # "call"])
    BY <1>15
  <2> HIDE DEF ret, n
  <2>3. /\ Good(enter(masked, kind, ret, status, n))
        /\ Len(enter(masked, kind, ret, status, n).frames) = Len(masked.frames) + 1
    BY ONLY <1>16, <2>1, <2>2, EnterGood
  <2> QED
    BY <1>11, <2>3 DEF ret
<1> QED
  BY <1>17 DEF handleInterrupt, masked, three, two, one, status, flagged, brk,
                withB, withMaskAndPc

(* Assigning to the interrupt lines, pc, and the flags otherwise.          *)
LEMMA AssignGood ==
  ASSUME NEW s, Good(s), NEW t \in States,
         t.stack = s.stack, t.sp = s.sp, t.shadow = s.shadow,
         t.deepest = s.deepest, t.frames = s.frames
  PROVE  Good(t)
  BY SameGood DEF SameStack

LEMMA ClearLines ==
  ASSUME NEW s, Good(s)
  PROVE  /\ Good([s EXCEPT !.irq = FALSE]) /\ Good([s EXCEPT !.nmi = FALSE])
         /\ [s EXCEPT !.irq = FALSE].frames = s.frames
         /\ [s EXCEPT !.nmi = FALSE].frames = s.frames
<1>1. s \in States
  BY DEF Good, Well
<1>2. /\ [s EXCEPT !.irq = FALSE] \in States
      /\ SameStack(s, [s EXCEPT !.irq = FALSE])
      /\ [s EXCEPT !.irq = FALSE].frames = s.frames
  BY <1>1 DEF States, SameStack
<1>3. /\ [s EXCEPT !.nmi = FALSE] \in States
      /\ SameStack(s, [s EXCEPT !.nmi = FALSE])
      /\ [s EXCEPT !.nmi = FALSE].frames = s.frames
  BY <1>1 DEF States, SameStack
<1> QED
  BY <1>2, <1>3, SameGood

LEMMA VectorFacts ==
  ResetVector \in Word /\ NmiVector \in Word /\ IrqVector \in Word
  BY CpuAssumption

(* Whether or not an interrupt is taken before an instruction.             *)
LEMMA TakeInterruptGood ==
  ASSUME NEW s, Good(s)
  PROVE  /\ Good(takeInterrupt(s))
         /\ \/ takeInterrupt(s) = s
            \/ Len(takeInterrupt(s).frames) = Len(s.frames) + 1
<1>1. s \in States /\ s.pc \in Nat /\ s.pc <= 65536
  <2>1. s \in States
    BY DEF Good, Well
  <2>2. s.pc \in Word
    BY <2>1, Parts
  <2>3. s.pc \in Nat /\ s.pc <= 65535
    BY <2>2, WordFacts
  <2> QED
    BY <2>1, <2>3
<1>2. ASSUME NEW kind \in Entries, NEW vector \in Word
      PROVE  /\ Good(handleInterrupt(s, kind, s.pc, vector))
             /\ Len(handleInterrupt(s, kind, s.pc, vector).frames) = Len(s.frames) + 1
  BY <1>1, HandleInterruptGood
<1>3. "irq" \in Entries /\ "nmi" \in Entries
  BY DEF Entries
<1>4. Good(handleIrq(s)) /\ Len(handleIrq(s).frames) = Len(s.frames) + 1
  BY <1>2, <1>3, VectorFacts, ClearLines DEF handleIrq
<1>5. Good(handleNmi(s)) /\ Len(handleNmi(s).frames) = Len(s.frames) + 1
  BY <1>2, <1>3, VectorFacts, ClearLines DEF handleNmi
<1> QED
  BY <1>4, <1>5 DEF takeInterrupt

-----------------------------------------------------------------------------
(* Instructions that leave the stack alone.                                *)

withPc(s, n)          == [s EXCEPT !.pc = n]
withA(s, v)           == [s EXCEPT !.a = v]
withFlags(s, c, i, b) == [s EXCEPT !.c = c, !.i = i, !.b = b]

LEMMA AssignPc ==
  ASSUME NEW s, Good(s), NEW n \in Word
  PROVE  /\ Good(withPc(s, n)) /\ withPc(s, n).pc = n
         /\ withPc(s, n).frames = s.frames /\ withPc(s, n).shadow = s.shadow
         /\ withPc(s, n).deepest = s.deepest
         /\ withPc(s, n).i = s.i /\ withPc(s, n).c = s.c
         /\ withPc(s, n).a = s.a
<1>1. s \in States
  BY DEF Good, Well
<1>2. /\ withPc(s, n) \in States /\ withPc(s, n).pc = n
      /\ SameStack(s, withPc(s, n))
      /\ withPc(s, n).frames = s.frames
      /\ withPc(s, n).i = s.i /\ withPc(s, n).c = s.c
      /\ withPc(s, n).a = s.a
  BY <1>1 DEF withPc, States, SameStack
<1>3. Good(withPc(s, n))
  BY <1>2, SameGood
<1> QED
  BY <1>2, <1>3 DEF SameStack

LEMMA AssignA ==
  ASSUME NEW s, Good(s), NEW v \in Byte
  PROVE  Good(withA(s, v)) /\ withA(s, v).frames = s.frames
<1>1. s \in States
  BY DEF Good, Well
<1>2. /\ withA(s, v) \in States
      /\ SameStack(s, withA(s, v))
      /\ withA(s, v).frames = s.frames
  BY <1>1 DEF withA, States, SameStack
<1> QED
  BY <1>2, SameGood

LEMMA AssignFlags ==
  ASSUME NEW s, Good(s), NEW c \in BOOLEAN, NEW i \in BOOLEAN, NEW b \in BOOLEAN
  PROVE  /\ Good(withFlags(s, c, i, b))
         /\ withFlags(s, c, i, b).frames = s.frames
         /\ withFlags(s, c, i, b).deepest = s.deepest
         /\ withFlags(s, c, i, b).i = i /\ withFlags(s, c, i, b).c = c
<1>1. s \in States
  BY DEF Good, Well
<1>2. /\ withFlags(s, c, i, b) \in States
      /\ SameStack(s, withFlags(s, c, i, b))
      /\ withFlags(s, c, i, b).frames = s.frames
      /\ withFlags(s, c, i, b).i = i /\ withFlags(s, c, i, b).c = c
  BY <1>1 DEF withFlags, States, SameStack
<1>3. Good(withFlags(s, c, i, b))
  BY <1>2, SameGood
<1> QED
  BY <1>2, <1>3 DEF SameStack

LEMMA SetStatusWell ==
  ASSUME NEW s, Well(s), NEW v \in Byte
  PROVE  /\ Well(setProcessorStatus(s, v))
         /\ setProcessorStatus(s, v).shadow = s.shadow
         /\ setProcessorStatus(s, v).frames = s.frames
         /\ setProcessorStatus(s, v).deepest = s.deepest
         /\ setProcessorStatus(s, v).i = ((v \div 4) % 2 = 1)
         /\ setProcessorStatus(s, v).c = (v % 2 = 1)
<1> DEFINE t == setProcessorStatus(s, v)
<1>1. s \in States
  BY DEF Well
<1>2. t \in States
  BY <1>1 DEF setProcessorStatus, States
<1>3. SameStack(s, t) /\ t.frames = s.frames
  BY <1>1 DEF setProcessorStatus, States, SameStack
<1>4. t.i = ((v \div 4) % 2 = 1)
  BY <1>1, Zenon DEF setProcessorStatus, States
<1>5. t.c = (v % 2 = 1)
  BY <1>1, Zenon DEF setProcessorStatus, States
<1> HIDE DEF t
<1>6. Well(t)
  BY <1>2, <1>3, SameStackWell
<1> QED
  BY <1>3, <1>4, <1>5, <1>6, Zenon DEF SameStack, t

LEMMA SetStatusGood ==
  ASSUME NEW s, Good(s), NEW v \in Byte
  PROVE  /\ Good(setProcessorStatus(s, v))
         /\ setProcessorStatus(s, v).frames = s.frames
<1>1. /\ Well(setProcessorStatus(s, v))
      /\ setProcessorStatus(s, v).shadow = s.shadow
      /\ setProcessorStatus(s, v).frames = s.frames
  BY SetStatusWell DEF Good
<1>2. Intact(setProcessorStatus(s, v))
  BY <1>1 DEF Good, Intact
<1> QED
  BY <1>1, <1>2 DEF Good

LEMMA FetchedGood ==
  ASSUME NEW s, Good(s), NEW size \in 1 .. 3
  PROVE  /\ Good(fetched(s, size))
         /\ fetched(s, size).frames = s.frames
         /\ fetched(s, size).shadow = s.shadow
         /\ fetched(s, size).a = s.a
<1>1. s \in States
  BY DEF Good, Well
<1>2. s.pc \in Nat
  BY <1>1, Parts
<1>3. (s.pc + size) % 65536 \in Word
  BY <1>2, ByteFacts
<1>4. fetched(s, size) = withPc(s, (s.pc + size) % 65536)
  BY <1>1 DEF fetched, withPc, States
<1> QED
  BY <1>3, <1>4, AssignPc

LEMMA FlagInstructionsGood ==
  ASSUME NEW s, Good(s)
  PROVE  /\ Good(CLI(s)) /\ CLI(s).frames = s.frames
         /\ Good(SEI(s)) /\ SEI(s).frames = s.frames
         /\ Good(CLC(s)) /\ CLC(s).frames = s.frames
         /\ Good(SEC(s)) /\ SEC(s).frames = s.frames
<1> DEFINE f == fetched(s, 1)
<1>1. Good(f) /\ f.frames = s.frames
  BY FetchedGood
<1>2. f \in States /\ f.c \in BOOLEAN /\ f.i \in BOOLEAN /\ f.b \in BOOLEAN
  <2>1. f \in States
    BY <1>1 DEF Good, Well
  <2> HIDE DEF f
  <2> QED
    BY <2>1 DEF States
<1> HIDE DEF f
<1>3. /\ [f EXCEPT !.i = FALSE] = withFlags(f, f.c, FALSE, f.b)
      /\ [f EXCEPT !.i = TRUE] = withFlags(f, f.c, TRUE, f.b)
      /\ [f EXCEPT !.c = FALSE] = withFlags(f, FALSE, f.i, f.b)
      /\ [f EXCEPT !.c = TRUE] = withFlags(f, TRUE, f.i, f.b)
  BY <1>2 DEF States, withFlags
<1>4. ASSUME NEW c \in BOOLEAN, NEW i \in BOOLEAN
      PROVE  Good(withFlags(f, c, i, f.b)) /\ withFlags(f, c, i, f.b).frames = s.frames
  BY <1>1, <1>2, AssignFlags
<1>5. TRUE \in BOOLEAN /\ FALSE \in BOOLEAN
  OBVIOUS
<1>6. /\ Good([f EXCEPT !.i = FALSE]) /\ [f EXCEPT !.i = FALSE].frames = s.frames
      /\ Good([f EXCEPT !.i = TRUE]) /\ [f EXCEPT !.i = TRUE].frames = s.frames
      /\ Good([f EXCEPT !.c = FALSE]) /\ [f EXCEPT !.c = FALSE].frames = s.frames
      /\ Good([f EXCEPT !.c = TRUE]) /\ [f EXCEPT !.c = TRUE].frames = s.frames
  <2>1. Good([f EXCEPT !.i = FALSE]) /\ [f EXCEPT !.i = FALSE].frames = s.frames
    BY <1>2, <1>3, <1>4, <1>5, Zenon
  <2>2. Good([f EXCEPT !.i = TRUE]) /\ [f EXCEPT !.i = TRUE].frames = s.frames
    BY <1>2, <1>3, <1>4, <1>5, Zenon
  <2>3. Good([f EXCEPT !.c = FALSE]) /\ [f EXCEPT !.c = FALSE].frames = s.frames
    BY <1>2, <1>3, <1>4, <1>5, Zenon
  <2>4. Good([f EXCEPT !.c = TRUE]) /\ [f EXCEPT !.c = TRUE].frames = s.frames
    BY <1>2, <1>3, <1>4, <1>5, Zenon
  <2> QED
    BY <2>1, <2>2, <2>3, <2>4
<1> QED
  BY <1>6 DEF CLI, SEI, CLC, SEC, f

LEMMA LoadAndJumpGood ==
  ASSUME NEW s, Good(s), NEW v \in Byte, NEW n \in Word
  PROVE  /\ Good(LDA(s, v)) /\ LDA(s, v).frames = s.frames
         /\ Good(JMP(s, n)) /\ JMP(s, n).frames = s.frames
<1>1. Good(fetched(s, 2)) /\ fetched(s, 2).frames = s.frames
  BY FetchedGood
<1>2. LDA(s, v) = withA(fetched(s, 2), v) /\ JMP(s, n) = withPc(s, n)
  BY DEF LDA, JMP, withA, withPc
<1> QED
  BY <1>1, <1>2, AssignA, AssignPc

-----------------------------------------------------------------------------
(* Instructions that push.                                                 *)

LEMMA PushInstructionsGood ==
  ASSUME NEW s, Good(s)
  PROVE  /\ Good(PHA(s)) /\ PHA(s).frames = s.frames
         /\ Good(PHP(s)) /\ PHP(s).frames = s.frames
<1>1. s \in States /\ s.a \in Byte
  <2>1. s \in States
    BY DEF Good, Well
  <2> QED
    BY <2>1, Parts
<1>2. Good(fetched(s, 1)) /\ fetched(s, 1).frames = s.frames
  BY FetchedGood
<1>3. getStatusFlag(withB(s, TRUE)) \in Byte
  BY <1>1, AssignB, StatusFacts
<1>4. Good(PHA(s)) /\ PHA(s).frames = s.frames
  BY <1>1, <1>2, PushGood DEF PHA
<1>5. Good(PHP(s)) /\ PHP(s).frames = s.frames
  <2> DEFINE v == getStatusFlag(withB(s, TRUE))
  <2>1. PHP(s) = stackPush(fetched(s, 1), v)
    BY DEF PHP, withB
  <2> HIDE DEF v
  <2>2. v \in Byte
    BY <1>3 DEF v
  <2>3. /\ Good(stackPush(fetched(s, 1), v))
        /\ stackPush(fetched(s, 1), v).frames = s.frames
    BY <1>2, <2>2, PushGood
  <2> QED
    BY <2>1, <2>3
<1> QED
  BY <1>4, <1>5

LEMMA BRKGood ==
  ASSUME NEW s, Good(s)
  PROVE  Good(BRK(s)) /\ Len(BRK(s).frames) = Len(s.frames) + 1
<1> DEFINE f == fetched(s, 1)
           t == handleInterrupt(f, "brk", f.pc + 1, IrqVector)
<1>1. Good(f) /\ f.frames = s.frames
  BY FetchedGood
<1>2. f.pc \in Nat /\ f.pc <= 65535
  <2>1. f \in States
    BY <1>1 DEF Good, Well
  <2>2. f.pc \in Word
    BY <2>1, Parts
  <2> QED
    BY <2>2, WordFacts
<1>3. BRK(s) = [t EXCEPT !.irq = FALSE]
  BY DEF BRK, handleBrk
<1> HIDE DEF f
<1>4. "brk" \in Entries /\ IrqVector \in Word
  BY VectorFacts DEF Entries
<1>5. f.pc + 1 \in Nat /\ f.pc + 1 <= 65536
  BY <1>2
<1>6. Good(t) /\ Len(t.frames) = Len(f.frames) + 1
  BY <1>1, <1>4, <1>5, HandleInterruptGood
<1> HIDE DEF t
<1> QED
  BY <1>1, <1>3, <1>6, ClearLines

(* The address JSR pushes is the one RTS goes back to less one.            *)
LEMMA Predecessor ==
  ASSUME NEW n \in Word
  PROVE  (n - 1) % 65536 \in Word /\ (((n - 1) % 65536) + 1) % 65536 = n
<1>1. n \in Nat /\ n <= 65535
  BY WordFacts
<1>2. CASE n = 0
  <2>1. (n - 1) % 65536 = (n - 1 + 65536) % 65536
    BY <1>1
  <2>2. n - 1 + 65536 = 65535 /\ 65535 % 65536 = 65535 /\ 65536 % 65536 = 0
    BY <1>2
  <2>3. (n - 1) % 65536 = 65535
    BY <2>1, <2>2
  <2>4. 65535 + 1 = 65536 /\ 65535 \in Word
    BY WordFacts
  <2> QED
    BY <1>2, <2>2, <2>3, <2>4
<1>3. CASE n > 0
  <2>1. (n - 1) % 65536 = n - 1 /\ n % 65536 = n
    BY <1>1, <1>3
  <2>2. n - 1 \in Nat /\ n - 1 <= 65535 /\ n - 1 + 1 = n
    BY <1>1, <1>3
  <2> QED
    BY <2>1, <2>2, WordFacts
<1> QED
  BY <1>1, <1>2, <1>3

LEMMA JSRGood ==
  ASSUME NEW s, Good(s), NEW target \in Word
  PROVE  Good(JSR(s, target)) /\ Len(JSR(s, target).frames) = Len(s.frames) + 1
<1> DEFINE n   == Len(s.shadow)
           f   == fetched(s, 3)
           ret == (f.pc - 1) % 65536
           one == stackPush(f, hiByte(ret))
           two == stackPush(one, loByte(ret))
           g   == [kind |-> "call", ret |-> f.pc, status |-> 0,
                   at |-> n, masked |-> "call" # "call"]
           t   == enter(two, "call", f.pc, 0, n)
<1>1. Good(f) /\ f.frames = s.frames /\ f.shadow = s.shadow
  BY FetchedGood
<1>2. s \in States /\ Intact(s) /\ n \in Nat /\ f.pc \in Word
  <2>1. s \in States /\ f \in States
    BY <1>1 DEF Good, Well
  <2> QED
    BY <2>1, Parts DEF Good
<1>3. ret \in Word
  BY <1>2, Predecessor
<1>4. /\ hiByte(ret) \in Byte /\ loByte(ret) \in Byte
      /\ address(loByte(ret), hiByte(ret)) = ret
  <2>1. ret \in Nat
    BY <1>3, WordFacts
  <2> HIDE DEF ret
  <2> QED
    BY <1>3, <2>1, ByteFacts
<1>5. JSR(s, target) = withPc(t, target)
  BY DEF JSR, withPc
<1> HIDE DEF f
<1>6. g.at = n /\ g.at + frameSize(g) = n + 2 /\ pushedPc(g) = ret /\ g.kind = "call"
  BY <1>2 DEF frameSize, pushedPc
<1> HIDE DEF ret
<1>7. /\ Good(one) /\ one.frames = s.frames /\ Len(one.shadow) = n + 1
      /\ one.shadow[n + 1] = hiByte(ret)
  <2>1. /\ Good(one) /\ one.frames = f.frames
        /\ Len(one.shadow) = Len(f.shadow) + 1
        /\ one.shadow[Len(f.shadow) + 1] = hiByte(ret)
    BY <1>1, <1>4, PushGood
  <2> QED
    BY <1>1, <2>1
<1> HIDE DEF one
<1>8. /\ Good(two) /\ two.frames = s.frames /\ Len(two.shadow) = n + 2
      /\ two.shadow[n + 1] = hiByte(ret)
      /\ two.shadow[n + 2] = loByte(ret)
  <2>1. /\ Good(two) /\ two.frames = one.frames
        /\ Len(two.shadow) = Len(one.shadow) + 1
        /\ \A k \in 1 .. Len(one.shadow) : two.shadow[k] = one.shadow[k]
        /\ two.shadow[Len(one.shadow) + 1] = loByte(ret)
    BY <1>4, <1>7, PushGood
  <2>2. n + 1 \in 1 .. Len(one.shadow) /\ Len(one.shadow) + 1 = n + 2
    BY <1>2, <1>7
  <2> QED
    BY <1>7, <2>1, <2>2
<1> HIDE DEF two
<1>9. Holds(two.shadow, g)
  <2> HIDE DEF g, n
  <2> QED
    BY <1>2, <1>4, <1>6, <1>8 DEF Holds
<1>10. \A k \in 1 .. Len(two.frames) :
         two.frames[k].at + frameSize(two.frames[k]) <= n
  BY <1>2, <1>8 DEF Intact, Holds
<1>11. "call" \in Entries \cup {"call"} /\ 0 \in Byte
  BY DEF Byte
<1>12. Good(t) /\ Len(t.frames) = Len(s.frames) + 1
  <2> DEFINE next == f.pc
  <2>1. Good(two) /\ next \in Word /\ n \in Nat
    BY <1>2, <1>8
  <2>2. Holds(two.shadow, [kind |-> "call", ret |-> next, status |-> 0,
                           at |-> n, masked |-> "call" # "call"])
    BY <1>9
  <2> HIDE DEF next, n
  <2>3. /\ Good(enter(two, "call", next, 0, n))
        /\ Len(enter(two, "call", next, 0, n).frames) = Len(two.frames) + 1
    BY ONLY <1>10, <1>11, <2>1, <2>2, EnterGood
  <2> QED
    BY <1>8, <2>3 DEF next, n
<1> HIDE DEF t
<1> QED
  BY <1>5, <1>12, AssignPc

-----------------------------------------------------------------------------
(* Instructions that pull.                                                 *)

LEMMA PullInstructionsGood ==
  ASSUME NEW s, Good(s), localBytes(s) > 0
  PROVE  /\ Good(PLA(s)) /\ PLA(s).frames = s.frames
         /\ Good(PLP(s)) /\ PLP(s).frames = s.frames
<1> DEFINE f == fetched(s, 1)
           t == popped(f)
<1>1. Good(f) /\ f.frames = s.frames /\ f.shadow = s.shadow
  BY FetchedGood
<1>2. localBytes(f) > 0
  BY <1>1 DEF localBytes, topFrame
<1>3. top(s) \in Byte
  BY PopGood
<1>4. PLA(s) = withA(t, top(s)) /\ PLP(s) = setProcessorStatus(t, top(s))
  BY DEF PLA, PLP, withA
<1> HIDE DEF f
<1>5. Good(t)
  BY <1>1, <1>2, PopGood
<1>6. t.frames = s.frames
  <2>1. f \in States
    BY <1>1 DEF Good, Well
  <2> QED
    BY <1>1, <2>1 DEF popped, States
<1> HIDE DEF t
<1>7. Good(withA(t, top(s))) /\ withA(t, top(s)).frames = s.frames
  BY <1>3, <1>5, <1>6, AssignA
<1>8. /\ Good(setProcessorStatus(t, top(s)))
      /\ setProcessorStatus(t, top(s)).frames = s.frames
  BY <1>3, <1>5, <1>6, SetStatusGood
<1> QED
  BY <1>4, <1>7, <1>8

(* Leaving the innermost activation once its bytes are off the stack.      *)
LEMMA LeaveGood ==
  ASSUME NEW s, Good(s), s.frames # <<>>,
         NEW t, Well(t), t.frames = s.frames,
         Len(t.shadow) = topFrame(s).at,
         \A k \in 1 .. Len(t.shadow) : t.shadow[k] = s.shadow[k]
  PROVE  /\ Good(leave(t))
         /\ Len(leave(t).frames) = Len(s.frames) - 1
         /\ leave(t).deepest = t.deepest
<1> DEFINE u == leave(t)
           m == Len(s.frames)
<1>1. s \in States /\ t \in States /\ Intact(s)
  BY DEF Good, Well
<1>2. m \in Nat /\ m > 0 /\ s.frames \in Seq(Frames) /\ m \in 1 .. m
  BY <1>1, Parts, EmptySeq
<1>3. u.frames = SubSeq(s.frames, 1, m - 1)
  BY <1>1 DEF leave, States
<1>4. /\ u.frames \in Seq(Frames)
      /\ Len(u.frames) = m - 1
      /\ \A k \in 1 .. m - 1 : u.frames[k] = s.frames[k]
  BY <1>2, <1>3, FrontProperties
<1>5. u \in States
  BY <1>1, <1>3, <1>4 DEF leave, States
<1>6. SameStack(t, u)
  BY <1>1 DEF leave, SameStack, States
<1>7. Well(u)
  BY <1>5, <1>6, SameStackWell
<1> HIDE DEF u
<1>8. ASSUME NEW k \in 1 .. Len(u.frames)
      PROVE  Holds(u.shadow, u.frames[k])
  <2> DEFINE f == s.frames[k]
  <2>1. k \in 1 .. m /\ k < m /\ u.frames[k] = f
    BY <1>2, <1>4, <1>8
  <2>2. f \in Frames /\ f.at \in Nat /\ frameSize(f) \in {2, 3}
    BY <1>1, <2>1, Parts
  <2>3. Holds(s.shadow, f)
    BY <1>1, <2>1 DEF Intact
  <2>4. f.at + frameSize(f) <= topFrame(s).at
    BY <1>1, <1>2, <2>1 DEF Intact, Nested, topFrame
  <2>5. s.shadow \in Seq(Byte) /\ t.shadow \in Seq(Byte) /\ Len(t.shadow) \in Nat
    BY <1>1, Parts
  <2> HIDE DEF f
  <2>6. f.at + frameSize(f) <= Len(t.shadow)
    BY <2>4
  <2>7. \A j \in 1 .. f.at + frameSize(f) : t.shadow[j] = s.shadow[j]
    BY <2>2, <2>5, <2>6
  <2>8. Holds(t.shadow, f)
    BY <2>2, <2>3, <2>5, <2>6, <2>7, HoldsAgree
  <2> QED
    BY <1>6, <2>1, <2>8 DEF SameStack
<1>9. Nested(u.frames)
  <2> HIDE DEF m
  <2>1. \A k \in 1 .. Len(u.frames) : k \in 1 .. m /\ u.frames[k] = s.frames[k]
    BY <1>2, <1>4
  <2>2. \A j, k \in 1 .. m : j < k =>
          s.frames[j].at + frameSize(s.frames[j]) <= s.frames[k].at
    BY <1>1 DEF Intact, Nested, m
  <2> QED
    BY <2>1, <2>2 DEF Nested
<1> QED
  BY <1>4, <1>6, <1>7, <1>8, <1>9 DEF Good, Intact, SameStack, u

(* What the innermost activation left on the stack is on its top.          *)
LEMMA TopOfReturn ==
  ASSUME NEW s, Good(s), s.frames # <<>>, localBytes(s) = 0
  PROVE  /\ topFrame(s) \in Frames
         /\ topFrame(s).at \in Nat
         /\ Len(s.shadow) = topFrame(s).at + frameSize(topFrame(s))
         /\ Holds(s.shadow, topFrame(s))
<1>1. s \in States /\ Intact(s)
  BY DEF Good, Well
<1>2. Len(s.frames) \in 1 .. Len(s.frames) /\ Len(s.shadow) \in Nat
  BY <1>1, Parts, EmptySeq
<1>3. /\ topFrame(s) \in Frames /\ topFrame(s).at \in Nat
      /\ frameSize(topFrame(s)) \in {2, 3}
  BY <1>1, <1>2, Parts DEF topFrame
<1>4. Holds(s.shadow, topFrame(s))
  BY <1>1, <1>2 DEF Intact, topFrame
<1>5. Len(s.shadow) - (topFrame(s).at + frameSize(topFrame(s))) = 0
  BY DEF localBytes
<1>6. Len(s.shadow) = topFrame(s).at + frameSize(topFrame(s))
  BY <1>2, <1>3, <1>5
<1> QED
  BY <1>3, <1>4, <1>6

LEMMA RTSGood ==
  ASSUME NEW s, Good(s), mayReturn(s, {"call"})
  PROVE  /\ Good(RTS(s)) /\ Len(RTS(s).frames) = Len(s.frames) - 1
         /\ s.deepest <= StackSize => RTS(s).pc = topFrame(s).ret
<1> DEFINE n   == Len(s.shadow)
           f   == topFrame(s)
           one == popped(s)
           two == popped(one)
           u   == leave(two)
           pc  == (address(top(s), top(one)) + 1) % 65536
<1>1. /\ s.frames # <<>> /\ f.kind = "call" /\ localBytes(s) = 0
      /\ s \in States /\ Well(s)
  BY DEF mayReturn, Good, Well
<1>2. frameSize(f) = 2
  BY <1>1 DEF frameSize
<1>3. f \in Frames /\ f.at \in Nat /\ n = f.at + 2 /\ Holds(s.shadow, f)
  BY <1>1, <1>2, TopOfReturn
<1>4. f.ret \in Word /\ address(s.shadow[f.at + 2], s.shadow[f.at + 1]) = (f.ret - 1) % 65536
  BY <1>1, <1>3 DEF Holds, pushedPc, Frames
<1>5. RTS(s) = withPc(u, pc)
  BY DEF RTS, withPc
<1> HIDE DEF f
<1>6. n \in Nat /\ n > 0 /\ n - 1 > 0
  BY <1>3
<1>7. /\ Well(one) /\ top(s) \in Byte /\ Len(one.shadow) = n - 1
      /\ s.deepest <= StackSize => top(s) = s.shadow[n]
      /\ \A k \in 1 .. n - 1 : one.shadow[k] = s.shadow[k]
      /\ one.deepest = s.deepest /\ one.frames = s.frames
  BY <1>1, <1>6, PopWell
<1> HIDE DEF one
<1>8. /\ Well(two) /\ top(one) \in Byte /\ Len(two.shadow) = n - 1 - 1
      /\ s.deepest <= StackSize => top(one) = one.shadow[n - 1]
      /\ \A k \in 1 .. n - 1 - 1 : two.shadow[k] = one.shadow[k]
      /\ two.deepest = s.deepest /\ two.frames = s.frames
  <2> HIDE DEF n
  <2>1. /\ Well(two) /\ top(one) \in Byte /\ Len(two.shadow) = Len(one.shadow) - 1
        /\ one.deepest <= StackSize => top(one) = one.shadow[Len(one.shadow)]
        /\ \A k \in 1 .. Len(one.shadow) - 1 : two.shadow[k] = one.shadow[k]
        /\ two.deepest = one.deepest /\ two.frames = one.frames
    BY <1>6, <1>7, PopWell
  <2> QED
    BY <1>7, <2>1
<1> HIDE DEF two
<1>9. Len(two.shadow) = f.at
  <2> HIDE DEF n
  <2> QED
    BY <1>3, <1>8
<1>10. \A k \in 1 .. Len(two.shadow) : two.shadow[k] = s.shadow[k]
  <2>1. \A k \in 1 .. f.at : k \in 1 .. n - 1 - 1 /\ k \in 1 .. n - 1
    <3> HIDE DEF n
    <3> QED
      BY <1>3
  <2> QED
    BY <1>7, <1>8, <1>9, <2>1
<1>11. Good(u) /\ Len(u.frames) = Len(s.frames) - 1
  BY <1>1, <1>8, <1>9, <1>10, LeaveGood DEF f
<1>12. pc \in Word
  <2>1. address(top(s), top(one)) \in Word
    BY <1>7, <1>8, ByteFacts
  <2>2. address(top(s), top(one)) \in Nat
    BY <2>1, WordFacts
  <2> QED
    BY <2>2, ByteFacts
<1>13. ASSUME s.deepest <= StackSize
       PROVE  pc = f.ret
  <2>1. n = f.at + 2 /\ n - 1 = f.at + 1 /\ n - 1 \in 1 .. n - 1
    <3> HIDE DEF n
    <3> QED
      BY <1>3
  <2>2. top(s) = s.shadow[f.at + 2] /\ top(one) = s.shadow[f.at + 1]
    BY <1>7, <1>8, <1>13, <2>1
  <2>3. address(top(s), top(one)) = (f.ret - 1) % 65536
    BY <1>4, <2>2
  <2> QED
    BY <1>4, <2>3, Predecessor
<1> HIDE DEF u, pc
<1>14. Good(withPc(u, pc)) /\ withPc(u, pc).pc = pc /\ withPc(u, pc).frames = u.frames
  BY <1>11, <1>12, AssignPc
<1> QED
  BY <1>5, <1>11, <1>13, <1>14 DEF f

LEMMA RTIGood ==
  ASSUME NEW s, Good(s), mayReturn(s, Entries)
  PROVE  /\ Good(RTI(s)) /\ Len(RTI(s).frames) = Len(s.frames) - 1
         /\ topFrame(s).kind # "call"
         /\ s.deepest <= StackSize =>
              /\ RTI(s).pc = topFrame(s).ret
              /\ RTI(s).i = ((topFrame(s).status \div 4) % 2 = 1)
              /\ RTI(s).c = (topFrame(s).status % 2 = 1)
<1> DEFINE n     == Len(s.shadow)
           f     == topFrame(s)
           one   == popped(s)
           two   == popped(one)
           three == popped(two)
           flags == setProcessorStatus(three, top(s))
           u     == leave(flags)
           pc    == address(top(one), top(two))
<1>1. /\ s.frames # <<>> /\ f.kind \in Entries /\ localBytes(s) = 0
      /\ s \in States /\ Well(s)
  BY DEF mayReturn, Good, Well
<1>2. f.kind # "call" /\ frameSize(f) = 3
  BY <1>1 DEF frameSize, Entries
<1>3. f \in Frames /\ f.at \in Nat /\ n = f.at + 3 /\ Holds(s.shadow, f)
  BY <1>1, <1>2, TopOfReturn
<1>4. /\ f.ret = address(s.shadow[f.at + 2], s.shadow[f.at + 1])
      /\ f.status = s.shadow[f.at + 3]
  BY <1>2, <1>3 DEF Holds, pushedPc
<1>5. RTI(s) = withPc(u, pc)
  BY DEF RTI, withPc
<1> HIDE DEF f
<1>6. n \in Nat /\ n > 0 /\ n - 1 > 0 /\ n - 1 - 1 > 0
  BY <1>3
<1>7. /\ Well(one) /\ top(s) \in Byte /\ Len(one.shadow) = n - 1
      /\ s.deepest <= StackSize => top(s) = s.shadow[n]
      /\ \A k \in 1 .. n - 1 : one.shadow[k] = s.shadow[k]
      /\ one.deepest = s.deepest /\ one.frames = s.frames
  BY <1>1, <1>6, PopWell
<1> HIDE DEF one
<1>8. /\ Well(two) /\ top(one) \in Byte /\ Len(two.shadow) = n - 1 - 1
      /\ s.deepest <= StackSize => top(one) = one.shadow[n - 1]
      /\ \A k \in 1 .. n - 1 - 1 : two.shadow[k] = one.shadow[k]
      /\ two.deepest = s.deepest /\ two.frames = s.frames
  <2> HIDE DEF n
  <2>1. /\ Well(two) /\ top(one) \in Byte /\ Len(two.shadow) = Len(one.shadow) - 1
        /\ one.deepest <= StackSize => top(one) = one.shadow[Len(one.shadow)]
        /\ \A k \in 1 .. Len(one.shadow) - 1 : two.shadow[k] = one.shadow[k]
        /\ two.deepest = one.deepest /\ two.frames = one.frames
    BY <1>6, <1>7, PopWell
  <2> QED
    BY <1>7, <2>1
<1> HIDE DEF two
<1>9. /\ Well(three) /\ top(two) \in Byte /\ Len(three.shadow) = n - 1 - 1 - 1
      /\ s.deepest <= StackSize => top(two) = two.shadow[n - 1 - 1]
      /\ \A k \in 1 .. n - 1 - 1 - 1 : three.shadow[k] = two.shadow[k]
      /\ three.deepest = s.deepest /\ three.frames = s.frames
  <2> HIDE DEF n
  <2>1. /\ Well(three) /\ top(two) \in Byte /\ Len(three.shadow) = Len(two.shadow) - 1
        /\ two.deepest <= StackSize => top(two) = two.shadow[Len(two.shadow)]
        /\ \A k \in 1 .. Len(two.shadow) - 1 : three.shadow[k] = two.shadow[k]
        /\ three.deepest = two.deepest /\ three.frames = two.frames
    BY <1>6, <1>8, PopWell
  <2> QED
    BY <1>8, <2>1
<1> HIDE DEF three
<1>10. Len(three.shadow) = f.at
  <2> HIDE DEF n
  <2> QED
    BY <1>3, <1>9
<1>11. \A k \in 1 .. Len(three.shadow) : three.shadow[k] = s.shadow[k]
  <2>1. \A k \in 1 .. f.at : k \in 1 .. n - 1 - 1 - 1 /\ k \in 1 .. n - 1 - 1 /\ k \in 1 .. n - 1
    <3> HIDE DEF n
    <3> QED
      BY <1>3
  <2> QED
    BY <1>7, <1>8, <1>9, <1>10, <2>1
<1>12. /\ Well(flags) /\ flags.shadow = three.shadow /\ flags.frames = s.frames
       /\ flags.deepest = s.deepest
       /\ flags.i = ((top(s) \div 4) % 2 = 1)
       /\ flags.c = (top(s) % 2 = 1)
  <2>1. /\ Well(flags) /\ flags.shadow = three.shadow /\ flags.frames = three.frames
        /\ flags.deepest = three.deepest
        /\ flags.i = ((top(s) \div 4) % 2 = 1)
        /\ flags.c = (top(s) % 2 = 1)
    BY <1>7, <1>9, SetStatusWell, Zenon
  <2> QED
    BY <1>9, <2>1, Zenon
<1> HIDE DEF flags
<1>13. Good(u) /\ Len(u.frames) = Len(s.frames) - 1
  <2>1. /\ Len(flags.shadow) = topFrame(s).at
        /\ \A k \in 1 .. Len(flags.shadow) : flags.shadow[k] = s.shadow[k]
    BY <1>10, <1>11, <1>12 DEF f
  <2> QED
    BY <1>1, <1>12, <2>1, LeaveGood
<1>14. u.i = flags.i /\ u.c = flags.c
  <2>1. flags \in States
    BY <1>12 DEF Well
  <2> QED
    BY <2>1 DEF leave, States
<1>15. pc \in Word
  BY <1>8, <1>9, ByteFacts
<1>16. ASSUME s.deepest <= StackSize
       PROVE  pc = f.ret /\ top(s) = f.status
  <2>1. /\ n = f.at + 3 /\ n - 1 = f.at + 2 /\ n - 1 - 1 = f.at + 1
        /\ n - 1 \in 1 .. n - 1 /\ n - 1 - 1 \in 1 .. n - 1 - 1
        /\ n - 1 - 1 \in 1 .. n - 1
    <3> HIDE DEF n
    <3> QED
      BY <1>3
  <2>2. /\ top(s) = s.shadow[f.at + 3]
        /\ top(one) = s.shadow[f.at + 2]
        /\ top(two) = s.shadow[f.at + 1]
    BY <1>7, <1>8, <1>9, <1>16, <2>1
  <2> QED
    BY <1>4, <2>2
<1> HIDE DEF u, pc
<1>17. /\ Good(withPc(u, pc)) /\ withPc(u, pc).pc = pc
       /\ withPc(u, pc).frames = u.frames
       /\ withPc(u, pc).i = u.i /\ withPc(u, pc).c = u.c
  BY <1>13, <1>15, AssignPc
<1>18. Good(RTI(s)) /\ Len(RTI(s).frames) = Len(s.frames) - 1
  BY <1>5, <1>13, <1>17
<1>19. ASSUME s.deepest <= StackSize
       PROVE  /\ RTI(s).pc = f.ret
              /\ RTI(s).i = ((f.status \div 4) % 2 = 1)
              /\ RTI(s).c = (f.status % 2 = 1)
  BY <1>5, <1>12, <1>14, <1>16, <1>17, <1>19, Zenon
<1> QED
  BY <1>2, <1>18, <1>19, Zenon DEF f

-----------------------------------------------------------------------------
(* The history of the masks, and the whole step.                           *)

LEMMA NoteMaskGood ==
  ASSUME NEW s, Good(s)
  PROVE  /\ Good(noteMask(s))
         /\ Len(noteMask(s).frames) = Len(s.frames)
         /\ noteMask(s).pc = s.pc /\ noteMask(s).i = s.i /\ noteMask(s).c = s.c
<1> DEFINE t == noteMask(s)
           m == Len(s.frames)
           masked(k) == s.frames[k].masked /\ (k \in innermost(s) => s.i)
           fs == [k \in DOMAIN s.frames |-> [s.frames[k] EXCEPT !.masked = masked(k)]]
<1>1. s \in States /\ Intact(s) /\ m \in Nat /\ s.frames \in Seq(Frames)
  <2>1. s \in States
    BY DEF Good, Well
  <2> QED
    BY <2>1, Parts DEF Good
<1>2. DOMAIN s.frames = 1 .. m
  BY <1>1, LenProperties
<1>3. t = [s EXCEPT !.frames = fs]
  BY Zenon DEF noteMask
<1>4. \A k \in 1 .. m : masked(k) \in BOOLEAN
  OBVIOUS
<1> HIDE DEF masked
<1>5. ASSUME NEW k \in 1 .. m
      PROVE  /\ fs[k] \in Frames /\ fs[k].kind = s.frames[k].kind
             /\ fs[k].ret = s.frames[k].ret /\ fs[k].at = s.frames[k].at
             /\ fs[k].status = s.frames[k].status
  <2>1. s.frames[k] \in Frames
    BY <1>1, <1>5, Parts
  <2>2. fs[k] = [s.frames[k] EXCEPT !.masked = masked(k)]
    BY <1>2
  <2>3. masked(k) \in BOOLEAN
    BY <1>4
  <2> HIDE DEF fs
  <2> QED
    BY <2>1, <2>2, <2>3 DEF Frames
<1>6. fs \in Seq(Frames) /\ Len(fs) = m
  <2>1. fs \in [1 .. m -> Frames]
    BY <1>2, <1>5
  <2>2. fs \in Seq(Frames)
    BY <1>1, <2>1, SeqDef
  <2>3. 1 .. Len(fs) = 1 .. m /\ Len(fs) \in Nat
    BY <2>1, <2>2, LenProperties
  <2> HIDE DEF fs, m
  <2> QED
    BY <1>1, <2>2, <2>3
<1> HIDE DEF fs
<1>7. t \in States /\ SameStack(s, t) /\ t.frames = fs
      /\ t.pc = s.pc /\ t.i = s.i /\ t.c = s.c
  BY <1>1, <1>3, <1>6 DEF States, SameStack
<1> HIDE DEF t
<1>8. \A k \in 1 .. m : frameSize(fs[k]) = frameSize(s.frames[k])
                         /\ pushedPc(fs[k]) = pushedPc(s.frames[k])
  BY <1>5 DEF frameSize, pushedPc
<1>9. Well(t)
  BY <1>7, SameStackWell DEF Good
<1>10. Intact(t)
  <2>1. \A k \in 1 .. m : Holds(s.shadow, s.frames[k])
    BY <1>1 DEF Intact
  <2>2. \A k \in 1 .. m : Holds(t.shadow, t.frames[k])
    BY <1>5, <1>7, <1>8, <2>1 DEF Holds, SameStack
  <2>3. Nested(t.frames)
    BY <1>1, <1>5, <1>6, <1>7, <1>8 DEF Intact, Nested
  <2> QED
    BY <1>6, <1>7, <2>2, <2>3 DEF Intact
<1> QED
  BY <1>6, <1>7, <1>9, <1>10 DEF Good, t

(* Every step leaves a good state; and when it drops an activation, it     *)
(* resumes the one below.                                                  *)
Resumes(s, t) ==
  Len(t.frames) < Len(s.frames) /\ s.deepest <= StackSize =>
    /\ t.pc = topFrame(s).ret
    /\ topFrame(s).kind # "call" =>
         /\ t.i = ((topFrame(s).status \div 4) % 2 = 1)
         /\ t.c = (topFrame(s).status % 2 = 1)

(* An instruction that starts from the state s of takeInterrupt.           *)
LEMMA NoReturn ==
  ASSUME NEW s, NEW t, s \in States, t \in States,
         Good(t), Len(t.frames) >= Len(s.frames)
  PROVE  /\ Resumes(s, t)
         /\ Good(noteMask(t)) /\ Resumes(s, noteMask(t))
<1>1. Good(noteMask(t)) /\ Len(noteMask(t).frames) = Len(t.frames)
  BY NoteMaskGood
<1>2. Len(t.frames) \in Nat /\ Len(s.frames) \in Nat
  BY Parts
<1> QED
  BY <1>1, <1>2 DEF Resumes

LEMMA OperandFacts ==
  ASSUME NEW op
  PROVE  \A x \in fetch(op) : /\ op = "LDA" => x \in Byte
                              /\ op \in {"JSR", "JMP"} => x \in Word
<1> SUFFICES ASSUME NEW x \in fetch(op)
             PROVE  /\ op = "LDA" => x \in Byte
                    /\ op \in {"JSR", "JMP"} => x \in Word
  OBVIOUS
<1>1. started.pc \in CodeAddrs /\ \E ins \in Program[started.pc] : ins.op = op /\ x = ins.arg
  BY DEF fetch
<1>2. PICK ins \in Program[started.pc] : ins.op = op /\ x = ins.arg
  BY <1>1
<1>3. ins \in Instructions
  BY <1>1, <1>2, CpuAssumption
<1> QED
  BY <1>2, <1>3 DEF Instructions, Implied

(* The states after power-on and reset have an empty stack.                *)
LEMMA EmptyGood ==
  ASSUME NEW s \in States, s.shadow = <<>>, s.frames = <<>>, s.deepest = 0,
         s.sp = StackSize - 1
  PROVE  Good(s)
<1>1. Len(<<>>) = 0 /\ StackSize \in Nat \ {0}
  BY EmptySeq, CpuAssumption
<1>2. Position(0) = StackSize - 1
  BY <1>1 DEF Position
<1>3. \A k \in 1 .. 0 : FALSE
  OBVIOUS
<1>4. Lifo(s)
  BY <1>1, <1>3 DEF Lifo
<1>5. Intact(s)
  BY <1>1, <1>3 DEF Intact, Nested
<1> QED
  BY <1>1, <1>2, <1>4, <1>5 DEF Good, Well

LEMMA ResetGood ==
  ASSUME NEW s \in States
  PROVE  Good(reset(s))
<1> DEFINE t == reset(s)
<1>1. /\ StackSize - 1 \in Slots /\ ResetVector \in Word
      /\ <<>> \in Seq(Byte) /\ <<>> \in Seq(Frames) /\ 0 \in Byte
  BY CpuAssumption, VectorFacts, EmptySeq DEF Slots, Byte
<1>2. t \in States
  BY <1>1 DEF reset, States
<1>3. t.shadow = <<>> /\ t.frames = <<>> /\ t.deepest = 0 /\ t.sp = StackSize - 1
  BY DEF reset, States
<1> QED
  BY <1>2, <1>3, EmptyGood

LEMMA InitGood == Init => Good(cpu)
<1> SUFFICES ASSUME Init PROVE Good(cpu)
  OBVIOUS
<1>1. /\ StackSize - 1 \in Slots /\ ResetVector \in Word
      /\ <<>> \in Seq(Byte) /\ <<>> \in Seq(Frames) /\ 0 \in Byte
  BY CpuAssumption, VectorFacts, EmptySeq DEF Slots, Byte
<1>2. cpu \in States
  BY <1>1 DEF Init, States
<1>3. cpu.shadow = <<>> /\ cpu.frames = <<>> /\ cpu.deepest = 0 /\ cpu.sp = StackSize - 1
  BY DEF Init
<1> QED
  BY <1>2, <1>3, EmptyGood

LEMMA StepGood ==
  ASSUME Good(cpu), Next
  PROVE  Good(cpu') /\ (Resumes(cpu, cpu') \/ cpu' = reset(cpu))
<1> DEFINE s == takeInterrupt(cpu)
<1>1. /\ Good(s)
      /\ s = cpu \/ Len(s.frames) = Len(cpu.frames) + 1
  BY TakeInterruptGood
<1>2. cpu \in States /\ s \in States /\ Len(cpu.frames) \in Nat /\ Len(s.frames) \in Nat
  <2>1. cpu \in States /\ s \in States
    BY <1>1 DEF Good, Well
  <2> QED
    BY <2>1, Parts
<1>3. started = s
  BY DEF started
<1> HIDE DEF s
<1>4. Len(s.frames) >= Len(cpu.frames)
  BY <1>1, <1>2
<1>5. ASSUME NEW t, Good(t), Len(t.frames) = Len(s.frames) \/ Len(t.frames) = Len(s.frames) + 1,
             cpu' = t \/ cpu' = noteMask(t)
      PROVE  Good(cpu') /\ Resumes(cpu, cpu')
  <2>1. t \in States /\ Len(t.frames) >= Len(cpu.frames)
    BY <1>2, <1>4, <1>5 DEF Good, Well
  <2> QED
    BY <1>2, <1>5, <2>1, NoReturn
<1>6. CASE StepBRK
  BY <1>1, <1>3, <1>5, <1>6, BRKGood DEF StepBRK, result
<1>7. CASE StepPHA \/ StepPHP
  BY <1>1, <1>3, <1>5, <1>7, PushInstructionsGood DEF StepPHA, StepPHP, result
<1>8. CASE StepPLA \/ StepPLP
  BY <1>1, <1>3, <1>5, <1>8, PullInstructionsGood DEF StepPLA, StepPLP, result
<1>9. CASE StepCLI \/ StepSEI \/ StepCLC \/ StepSEC
  BY <1>1, <1>3, <1>5, <1>9, FlagInstructionsGood
     DEF StepCLI, StepSEI, StepCLC, StepSEC, result
<1>10. CASE StepLDA
  <2>1. PICK v \in fetch("LDA") : cpu' = LDA(s, v)
    BY <1>3, <1>10 DEF StepLDA, result
  <2>2. v \in Byte /\ ResetVector \in Word
    BY OperandFacts, VectorFacts
  <2> QED
    BY <1>1, <1>5, <2>1, <2>2, LoadAndJumpGood
<1>11. CASE StepJSR
  <2>1. PICK n \in fetch("JSR") : cpu' = JSR(s, n)
    BY <1>3, <1>11 DEF StepJSR, result
  <2>2. n \in Word
    BY OperandFacts
  <2> QED
    BY <1>1, <1>5, <2>1, <2>2, JSRGood
<1>12. CASE StepJMP
  <2>1. PICK n \in fetch("JMP") : cpu' = JMP(s, n)
    BY <1>3, <1>12 DEF StepJMP, result
  <2>2. n \in Word /\ 0 \in Byte
    BY OperandFacts DEF Byte
  <2> QED
    BY <1>1, <1>5, <2>1, <2>2, LoadAndJumpGood
<1>13. CASE StepRTS
  <2> DEFINE t == RTS(s)
  <2>1. mayReturn(s, {"call"}) /\ cpu' = t
    BY <1>3, <1>13 DEF StepRTS, result
  <2>2. /\ Good(t) /\ Len(t.frames) = Len(s.frames) - 1
        /\ s.deepest <= StackSize => t.pc = topFrame(s).ret
        /\ topFrame(s).kind = "call"
    BY <1>1, <2>1, RTSGood DEF mayReturn
  <2> HIDE DEF t
  <2>3. Good(cpu') /\ Len(cpu'.frames) = Len(t.frames) /\ cpu'.pc = t.pc
    BY <2>1, <2>2
  <2>4. CASE s = cpu
    BY <2>2, <2>3, <2>4 DEF Resumes
  <2>5. CASE s # cpu
    <3>1. Len(s.frames) = Len(cpu.frames) + 1
      BY <1>1, <2>5
    <3>2. ~(Len(cpu'.frames) < Len(cpu.frames))
      BY <1>2, <2>2, <2>3, <3>1
    <3> QED
      BY <2>3, <3>2 DEF Resumes
  <2> QED
    BY <2>4, <2>5
<1>14. CASE StepRTI
  <2> DEFINE t == RTI(s)
  <2>1. mayReturn(s, Entries) /\ cpu' = t
    BY <1>3, <1>14 DEF StepRTI, result
  <2>2. /\ Good(t) /\ Len(t.frames) = Len(s.frames) - 1
        /\ s.deepest <= StackSize =>
              /\ t.pc = topFrame(s).ret
              /\ t.i = ((topFrame(s).status \div 4) % 2 = 1)
              /\ t.c = (topFrame(s).status % 2 = 1)
    BY <1>1, <2>1, RTIGood, Zenon
  <2> HIDE DEF t
  <2>3. Good(cpu') /\ Len(cpu'.frames) = Len(t.frames)
    BY <2>1, <2>2
  <2>4. cpu'.pc = t.pc /\ cpu'.i = t.i /\ cpu'.c = t.c
    BY <2>1, Zenon
  <2>5. CASE s = cpu
    <3>1. s.deepest <= StackSize =>
              /\ cpu'.pc = topFrame(cpu).ret
              /\ cpu'.i = ((topFrame(cpu).status \div 4) % 2 = 1)
              /\ cpu'.c = (topFrame(cpu).status % 2 = 1)
      BY <2>2, <2>4, <2>5, Zenon
    <3>2. Resumes(cpu, cpu')
      BY <2>5, <3>1, Zenon DEF Resumes
    <3> QED
      BY <2>3, <3>2
  <2>6. CASE s # cpu
    <3>1. Len(s.frames) = Len(cpu.frames) + 1
      BY <1>1, <2>6
    <3>2. ~(Len(cpu'.frames) < Len(cpu.frames))
      BY <1>2, <2>2, <2>3, <3>1
    <3>3. Resumes(cpu, cpu')
      BY <3>2, Zenon DEF Resumes
    <3> QED
      BY <2>3, <3>3
  <2> QED
    BY <2>5, <2>6
<1>15. CASE assertIrq \/ assertNmi
  <2>1. cpu' \in States /\ SameStack(cpu, cpu') /\ cpu'.frames = cpu.frames
    BY <1>2, <1>15 DEF assertIrq, assertNmi, States, SameStack
  <2>2. Good(cpu')
    BY <2>1, SameGood
  <2>3. ~(Len(cpu'.frames) < Len(cpu.frames))
    BY <1>2, <2>1
  <2> QED
    BY <2>2, <2>3 DEF Resumes
<1>16. CASE Reset
  <2>1. cpu' = reset(cpu)
    BY <1>16 DEF Reset
  <2> QED
    BY <1>2, <2>1, ResetGood
<1> QED
  BY <1>6, <1>7, <1>8, <1>9, <1>10, <1>11, <1>12, <1>13, <1>14, <1>15, <1>16 DEF Next

-----------------------------------------------------------------------------
(* The theorems.                                                           *)

LEMMA GoodAlways == Spec => []Good(cpu)
<1>1. Init => Good(cpu)
  BY InitGood
<1>2. Good(cpu) /\ [Next]_cpu => Good(cpu)'
  BY StepGood
<1> QED
  BY <1>1, <1>2, PTL DEF Spec

(* The state of the CPU keeps its type, and sp stays in the stack page.    *)
THEOREM TypeCorrect == Spec => []TypeOK
<1>1. Good(cpu) => TypeOK
  BY DEF Good, Well, TypeOK
<1> QED
  BY <1>1, GoodAlways, PTL

(* The stack page is a last-in first-out store until it overflows, for     *)
(* every program and every size of the page.                               *)
THEOREM StackCorrect == Spec => []StackIsLifo
<1>1. Good(cpu) => StackIsLifo
  BY DEF Good, Well, StackIsLifo
<1> QED
  BY <1>1, GoodAlways, PTL

(* RTS and RTI resume what was called from or interrupted, for every       *)
(* program and every interleaving of interrupts with it.                   *)
THEOREM ReturnsCorrect == Spec => ReturnResumes
<1> DEFINE Returned ==
      LET f == topFrame(cpu)
      IN  /\ Len(cpu'.frames) < Len(cpu.frames)
          /\ cpu'.frames # <<>> \/ cpu' # reset(cpu)
          /\ cpu.deepest <= StackSize
          => /\ cpu'.pc = f.ret
             /\ f.kind # "call" => /\ cpu'.i = ((f.status \div 4) % 2 = 1)
                                   /\ cpu'.c = (f.status % 2 = 1)
<1>1. Good(cpu) /\ [Next]_cpu => [Returned]_cpu
  <2> SUFFICES ASSUME Good(cpu), Next
               PROVE  Returned
    OBVIOUS
  <2>1. Resumes(cpu, cpu') \/ cpu' = reset(cpu)
    BY StepGood
  <2>2. CASE Resumes(cpu, cpu')
    BY <2>2, Zenon DEF Resumes
  <2>3. CASE cpu' = reset(cpu)
    <3>1. cpu \in States
      BY DEF Good, Well
    <3>2. cpu'.frames = <<>>
      BY <2>3, <3>1 DEF reset, States
    <3> QED
      BY <2>3, <3>2, Zenon
  <2> QED
    BY <2>1, <2>2, <2>3
<1> QED
  BY <1>1, GoodAlways, PTL DEF Spec, ReturnResumes

-----------------------------------------------------------------------------
(* The masks and the break bit.                                            *)

maskBit(v)  == (v \div 4) % 2 = 1
breakBit(v) == (v \div 16) % 2 = 1

(* The status byte of every interrupt tells what it was.                   *)
Telling(fs) ==
  \A k \in 1 .. Len(fs) :
    fs[k].kind # "call" => (breakBit(fs[k].status) <=> fs[k].kind = "brk")

(* Activation k is the innermost interrupt; j is the next one above k.     *)
Inner(fs, k) ==
  fs[k].kind # "call" /\ \A j \in 1 .. Len(fs) : j > k => fs[j].kind = "call"

Above(fs, k, j) ==
  /\ k < j /\ fs[k].kind # "call" /\ fs[j].kind # "call"
  /\ \A m \in k + 1 .. j - 1 : fs[m].kind = "call"

Masks(fs, i) ==
  /\ \A k \in 1 .. Len(fs) : Inner(fs, k) /\ fs[k].masked => i
  /\ \A j, k \in 1 .. Len(fs) :
       Above(fs, k, j) /\ fs[k].masked => maskBit(fs[j].status) /\ fs[j].kind # "irq"

-----------------------------------------------------------------------------
(* How the chain changes when an activation is entered or left, and when a *)
(* handler changes the I flag.                                             *)

LEMMA AppendFacts ==
  ASSUME NEW fs \in Seq(Frames), NEW f \in Frames
  PROVE  /\ Len(fs) \in Nat
         /\ Append(fs, f) \in Seq(Frames)
         /\ Len(Append(fs, f)) = Len(fs) + 1
         /\ \A k \in 1 .. Len(fs) : Append(fs, f)[k] = fs[k]
         /\ Append(fs, f)[Len(fs) + 1] = f
  BY LenProperties, AppendProperties

LEMMA MasksCall ==
  ASSUME NEW fs \in Seq(Frames), NEW i, Masks(fs, i),
         NEW f \in Frames, f.kind = "call"
  PROVE  Masks(Append(fs, f), i)
<1> DEFINE gs == Append(fs, f)
           n  == Len(fs)
<1>1. /\ n \in Nat /\ Len(gs) = n + 1 /\ gs[n + 1] = f
      /\ \A k \in 1 .. n : gs[k] = fs[k]
  BY AppendFacts
<1> HIDE DEF gs, n
<1>2. ASSUME NEW k \in 1 .. n + 1, Inner(gs, k)
      PROVE  k \in 1 .. n /\ Inner(fs, k)
  <2>1. k # n + 1
    BY <1>1, <1>2 DEF Inner
  <2>2. k \in 1 .. n
    BY <1>1, <2>1
  <2> QED
    BY <1>1, <1>2, <2>2 DEF Inner, n
<1>3. ASSUME NEW k \in 1 .. n + 1, NEW j \in 1 .. n + 1, Above(gs, k, j)
      PROVE  k \in 1 .. n /\ j \in 1 .. n /\ Above(fs, k, j)
  <2>1. k # n + 1 /\ j # n + 1
    BY <1>1, <1>3 DEF Above
  <2>2. k \in 1 .. n /\ j \in 1 .. n
    BY <1>1, <2>1
  <2>3. \A m \in k + 1 .. j - 1 : m \in 1 .. n
    BY <1>1, <2>2
  <2> QED
    BY <1>1, <1>3, <2>2, <2>3 DEF Above
<1>4. \A k \in 1 .. n + 1 : Inner(gs, k) /\ gs[k].masked => i
  BY <1>1, <1>2 DEF Masks, n
<1>5. \A j, k \in 1 .. n + 1 :
        Above(gs, k, j) /\ gs[k].masked => maskBit(gs[j].status) /\ gs[j].kind # "irq"
  BY <1>1, <1>3 DEF Masks, n
<1> QED
  BY <1>1, <1>4, <1>5 DEF Masks, gs

LEMMA MasksEnter ==
  ASSUME NEW fs \in Seq(Frames), NEW i, Masks(fs, i),
         NEW f \in Frames, f.kind # "call",
         i => maskBit(f.status) /\ f.kind # "irq"
  PROVE  Masks(Append(fs, f), TRUE)
<1> DEFINE gs == Append(fs, f)
           n  == Len(fs)
<1>1. /\ n \in Nat /\ Len(gs) = n + 1 /\ gs[n + 1] = f
      /\ \A k \in 1 .. n : gs[k] = fs[k]
  BY AppendFacts
<1> HIDE DEF gs, n
<1>2. ASSUME NEW k \in 1 .. n + 1, NEW j \in 1 .. n + 1, Above(gs, k, j), gs[k].masked
      PROVE  maskBit(gs[j].status) /\ gs[j].kind # "irq"
  <2>1. k \in 1 .. n
    BY <1>1, <1>2 DEF Above
  <2>2. CASE j = n + 1
    <3>1. \A m \in 1 .. n : m > k => m \in k + 1 .. j - 1
      BY <1>1, <2>1, <2>2
    <3>2. Inner(fs, k)
      BY <1>1, <1>2, <2>1, <3>1 DEF Above, Inner, n
    <3> QED
      BY <1>1, <1>2, <2>1, <2>2, <3>2 DEF Masks, n
  <2>3. CASE j # n + 1
    <3>1. j \in 1 .. n
      BY <1>1, <2>3
    <3>2. \A m \in k + 1 .. j - 1 : m \in 1 .. n
      BY <1>1, <2>1, <3>1
    <3>3. Above(fs, k, j)
      BY <1>1, <1>2, <2>1, <3>1, <3>2 DEF Above
    <3> QED
      BY <1>1, <1>2, <2>1, <3>1, <3>3 DEF Masks, n
  <2> QED
    BY <2>2, <2>3
<1> QED
  BY <1>1, <1>2 DEF Masks, gs

(* The rest of the chain, when the last activation is left.                *)
LEMMA MasksLeave ==
  ASSUME NEW fs \in Seq(Frames), NEW i, Masks(fs, i), Len(fs) > 0,
         NEW gs \in Seq(Frames), gs = SubSeq(fs, 1, Len(fs) - 1)
  PROVE  /\ fs[Len(fs)].kind = "call" => Masks(gs, i)
         /\ fs[Len(fs)].kind # "call" => Masks(gs, maskBit(fs[Len(fs)].status))
<1> DEFINE n  == Len(fs)
<1>1. /\ n \in Nat /\ n > 0 /\ Len(gs) = n - 1
      /\ \A k \in 1 .. n - 1 : gs[k] = fs[k] /\ k \in 1 .. n
  BY FrontProperties, LenProperties
<1> HIDE DEF n
<1>2. ASSUME NEW k \in 1 .. n - 1, NEW j \in 1 .. n - 1, Above(gs, k, j), gs[k].masked
      PROVE  maskBit(gs[j].status) /\ gs[j].kind # "irq"
  <2>1. \A m \in k + 1 .. j - 1 : m \in 1 .. n - 1
    BY <1>1
  <2>2. Above(fs, k, j)
    BY <1>1, <1>2, <2>1 DEF Above
  <2> QED
    BY <1>1, <1>2, <2>2 DEF Masks, n
<1>3. ASSUME fs[n].kind = "call", NEW k \in 1 .. n - 1, Inner(gs, k), gs[k].masked
      PROVE  i
  <2>1. \A j \in 1 .. n : j \in 1 .. n - 1 \/ j = n
    BY <1>1
  <2>2. Inner(fs, k)
    BY <1>1, <1>3, <2>1 DEF Inner, n
  <2> QED
    BY <1>1, <1>3, <2>2 DEF Masks, n
<1>4. ASSUME fs[n].kind # "call", NEW k \in 1 .. n - 1, Inner(gs, k), gs[k].masked
      PROVE  maskBit(fs[n].status)
  <2>1. \A m \in k + 1 .. n - 1 : m \in 1 .. n - 1 /\ m > k
    BY <1>1
  <2>2. k < n /\ n \in 1 .. n /\ fs[k].kind # "call"
    BY <1>1, <1>4 DEF Inner
  <2>3. Above(fs, k, n)
    BY <1>1, <1>4, <2>1, <2>2 DEF Above, Inner
  <2> QED
    BY <1>1, <1>4, <2>2, <2>3 DEF Masks, n
<1> QED
  BY <1>1, <1>2, <1>3, <1>4 DEF Masks, n

(* Marks are only ever taken away, and those of an innermost handler which *)
(* stay are justified by the I flag.                                       *)
LEMMA MasksNoted ==
  ASSUME NEW fs \in Seq(Frames), NEW i, Masks(fs, i),
         NEW gs \in Seq(Frames), NEW h, Len(gs) = Len(fs),
         \A k \in 1 .. Len(fs) :
           /\ gs[k].kind = fs[k].kind /\ gs[k].status = fs[k].status
           /\ gs[k].masked => fs[k].masked
           /\ gs[k].masked /\ Inner(fs, k) => h
  PROVE  Masks(gs, h)
<1> DEFINE n == Len(fs)
<1>1. n \in Nat
  BY LenProperties
<1>2. ASSUME NEW k \in 1 .. n, NEW j \in 1 .. n, Above(gs, k, j)
      PROVE  Above(fs, k, j)
  <2>1. \A m \in k + 1 .. j - 1 : m \in 1 .. n
    BY <1>1
  <2> QED
    BY <1>2, <2>1 DEF Above
<1>3. ASSUME NEW k \in 1 .. n, Inner(gs, k)
      PROVE  Inner(fs, k)
  BY <1>3 DEF Inner
<1> QED
  BY <1>2, <1>3 DEF Masks

-----------------------------------------------------------------------------
(* What the parts of an instruction do to the flag and to the chain.       *)

(* Neither the flag nor the chain nor the pending IRQ changes.             *)
Plain(s, t) ==
  t.frames = s.frames /\ t.i = s.i /\ t.irq = s.irq /\ t.deepest >= s.deepest

LEMMA GoodType ==
  ASSUME NEW s, Good(s)
  PROVE  /\ s \in States /\ s.frames \in Seq(Frames) /\ s.deepest \in Nat
         /\ s.i \in BOOLEAN /\ Len(s.frames) \in Nat
<1>1. s \in States
  BY DEF Good, Well
<1> QED
  BY <1>1, Parts DEF States

LEMMA PlainTrans ==
  ASSUME NEW s, NEW t, NEW u, Good(s), Good(t), Good(u), Plain(s, t), Plain(t, u)
  PROVE  Plain(s, u)
<1>1. s.deepest \in Nat /\ t.deepest \in Nat /\ u.deepest \in Nat
  BY GoodType
<1> QED
  BY <1>1 DEF Plain

LEMMA PushPlain ==
  ASSUME NEW s, Good(s), NEW v \in Byte
  PROVE  Good(stackPush(s, v)) /\ Plain(s, stackPush(s, v))
<1>1. s \in States /\ s.deepest \in Nat /\ Len(s.shadow) \in Nat
  <2>1. s \in States
    BY DEF Good, Well
  <2> QED
    BY <2>1, Parts
<1>2. stackPush(s, v).deepest = IF s.deepest > Len(s.shadow) THEN s.deepest
                                ELSE Len(s.shadow) + 1
  BY <1>1 DEF stackPush, States
<1>3. stackPush(s, v).i = s.i /\ stackPush(s, v).irq = s.irq
  BY <1>1 DEF stackPush, States
<1>4. stackPush(s, v).deepest >= s.deepest
  BY <1>1, <1>2
<1> QED
  BY <1>3, <1>4, PushGood DEF Plain

LEMMA PopPlain ==
  ASSUME NEW s, Good(s), localBytes(s) > 0
  PROVE  Good(popped(s)) /\ Plain(s, popped(s)) /\ top(s) \in Byte
<1>1. s \in States /\ s.deepest \in Nat
  BY GoodType
<1>2. /\ popped(s).i = s.i /\ popped(s).irq = s.irq
      /\ popped(s).frames = s.frames /\ popped(s).deepest = s.deepest
  BY <1>1 DEF popped, States
<1> QED
  BY <1>1, <1>2, PopGood DEF Plain

LEMMA FetchedPlain ==
  ASSUME NEW s, Good(s), NEW size \in 1 .. 3
  PROVE  Good(fetched(s, size)) /\ Plain(s, fetched(s, size))
<1>1. s \in States /\ s.deepest \in Nat
  BY GoodType
<1>2. /\ fetched(s, size).i = s.i /\ fetched(s, size).irq = s.irq
      /\ fetched(s, size).frames = s.frames
      /\ fetched(s, size).deepest = s.deepest
  BY <1>1 DEF fetched, States
<1> QED
  BY <1>1, <1>2, FetchedGood DEF Plain

LEMMA LinesKept ==
  ASSUME NEW s, Good(s)
  PROVE  /\ Good([s EXCEPT !.irq = FALSE]) /\ Good([s EXCEPT !.nmi = FALSE])
         /\ [s EXCEPT !.irq = FALSE].frames = s.frames
         /\ [s EXCEPT !.irq = FALSE].i = s.i
         /\ [s EXCEPT !.irq = FALSE].deepest = s.deepest
         /\ Plain(s, [s EXCEPT !.nmi = FALSE])
<1>1. s \in States /\ s.deepest \in Nat
  BY GoodType
<1>2. /\ [s EXCEPT !.irq = FALSE].i = s.i /\ [s EXCEPT !.nmi = FALSE].i = s.i
      /\ [s EXCEPT !.irq = FALSE].frames = s.frames
      /\ [s EXCEPT !.nmi = FALSE].frames = s.frames
      /\ [s EXCEPT !.irq = FALSE].deepest = s.deepest
      /\ [s EXCEPT !.nmi = FALSE].deepest = s.deepest
      /\ [s EXCEPT !.nmi = FALSE].irq = s.irq
  BY <1>1 DEF States
<1> QED
  BY <1>1, <1>2, ClearLines DEF Plain

LEMMA RegistersPlain ==
  ASSUME NEW s, Good(s), NEW v \in Byte, NEW n \in Word
  PROVE  /\ Good(withA(s, v)) /\ Plain(s, withA(s, v))
         /\ Good(withPc(s, n)) /\ Plain(s, withPc(s, n))
<1>1. s \in States /\ s.deepest \in Nat
  BY GoodType
<1>2. /\ withA(s, v).i = s.i /\ withA(s, v).irq = s.irq
      /\ withA(s, v).frames = s.frames /\ withA(s, v).deepest = s.deepest
      /\ withPc(s, n).i = s.i /\ withPc(s, n).irq = s.irq
      /\ withPc(s, n).frames = s.frames /\ withPc(s, n).deepest = s.deepest
  BY <1>1 DEF withA, withPc, States
<1> QED
  BY <1>1, <1>2, AssignA, AssignPc DEF Plain

-----------------------------------------------------------------------------
(* An interrupt or a BRK is entered: f is its activation.                  *)
Entered(s, t, f) ==
  /\ f \in Frames /\ f.kind \in Entries
  /\ t.frames = Append(s.frames, f)
  /\ maskBit(f.status) <=> s.i
  /\ breakBit(f.status) <=> f.kind = "brk"
  /\ t.i = TRUE /\ t.irq = s.irq
  /\ t.deepest >= s.deepest

LEMMA BreakFlag ==
  ASSUME NEW s \in States, NEW kind
  PROVE  withB(s, kind = "brk").b <=> kind = "brk"
<1>1. \A b \in BOOLEAN : withB(s, b).b = b
  BY AssignB
<1>2. (kind = "brk") \in BOOLEAN
  BY Zenon
<1> QED
  BY <1>1, <1>2, Zenon

LEMMA HandleInterruptEnters ==
  ASSUME NEW s, Good(s), NEW kind \in Entries,
         NEW returnPc \in Nat, returnPc <= 65536, NEW vector \in Word
  PROVE  /\ Good(handleInterrupt(s, kind, returnPc, vector))
         /\ \E f \in Frames : f.kind = kind
              /\ Entered(s, handleInterrupt(s, kind, returnPc, vector), f)
<1> DEFINE n       == Len(s.shadow)
           brk     == kind = "brk"
           flagged == withB(s, brk)
           status  == getStatusFlag(flagged)
           one     == stackPush(flagged, hiByte(returnPc))
           two     == stackPush(one, loByte(returnPc))
           three   == stackPush(two, status)
           masked  == withMaskAndPc(three, vector)
           f       == [kind |-> kind, ret |-> returnPc % 65536,
                       status |-> status, at |-> n, masked |-> kind # "call"]
           t       == enter(masked, kind, returnPc % 65536, status, n)
<1>1. s \in States /\ n \in Nat
  <2>1. s \in States
    BY DEF Good, Well
  <2> QED
    BY <2>1, Parts
<1>2. /\ hiByte(returnPc) \in Byte /\ loByte(returnPc) \in Byte
      /\ returnPc % 65536 \in Word
  BY PushedAddress
<1>3. brk \in BOOLEAN
  OBVIOUS
<1>4. /\ flagged \in States /\ SameStack(s, flagged) /\ flagged.frames = s.frames
      /\ (flagged.b <=> kind = "brk") /\ flagged.i = s.i
      /\ flagged.irq = s.irq /\ flagged.deepest = s.deepest
  <2>1. /\ flagged \in States /\ SameStack(s, flagged) /\ flagged.frames = s.frames
    <3> HIDE DEF brk
    <3> QED
      BY <1>1, <1>3, AssignB
  <2>2. flagged.i = s.i /\ flagged.irq = s.irq /\ flagged.deepest = s.deepest
    BY <1>1 DEF withB, States
  <2>3. flagged.b <=> kind = "brk"
    BY <1>1, BreakFlag
  <2> HIDE DEF flagged
  <2> QED
    BY <2>1, <2>2, <2>3
<1>5. Good(flagged)
  <2> HIDE DEF flagged
  <2> QED
    BY <1>4, SameGood
<1>6. /\ status \in Byte /\ (maskBit(status) <=> flagged.i)
      /\ (breakBit(status) <=> flagged.b)
  BY <1>4, StatusFacts DEF maskBit, breakBit
<1> HIDE DEF flagged, status
<1>7. Good(one) /\ Plain(flagged, one)
  BY <1>2, <1>5, PushPlain
<1> HIDE DEF one
<1>8. Good(two) /\ Plain(one, two)
  BY <1>2, <1>7, PushPlain
<1> HIDE DEF two
<1>9. Good(three) /\ Plain(two, three)
  BY <1>6, <1>8, PushPlain
<1> HIDE DEF three
<1>10. three.frames = s.frames /\ three.irq = s.irq /\ three.deepest >= s.deepest
  <2>1. Plain(flagged, three)
    BY <1>5, <1>7, <1>8, <1>9, PlainTrans
  <2> QED
    BY <1>4, <2>1 DEF Plain
<1>11. three \in States /\ masked \in States
       /\ masked.frames = s.frames /\ masked.i = TRUE /\ masked.irq = s.irq
       /\ masked.deepest = three.deepest
  <2>1. three \in States
    BY <1>9, GoodType
  <2>2. masked \in States /\ masked.frames = three.frames
    BY <2>1, AssignMaskAndPc
  <2>3. masked.i = TRUE /\ masked.irq = three.irq /\ masked.deepest = three.deepest
    BY <2>1 DEF withMaskAndPc, States
  <2> QED
    BY <1>10, <2>1, <2>2, <2>3
<1> HIDE DEF masked
<1>12. /\ t.frames = Append(s.frames, f) /\ t.i = TRUE /\ t.irq = s.irq
       /\ t.deepest = masked.deepest
  BY <1>11 DEF enter, States
<1>13. f \in Frames /\ f.kind = kind /\ f.status = status
  BY <1>1, <1>2, <1>6 DEF Frames
<1>14. t = handleInterrupt(s, kind, returnPc, vector)
  BY DEF handleInterrupt, masked, three, two, one, status, flagged, brk,
         withB, withMaskAndPc
<1> HIDE DEF f, t
<1>15. Entered(s, t, f)
  <2>1. maskBit(f.status) <=> s.i
    BY <1>4, <1>6, <1>13
  <2>2. breakBit(f.status) <=> f.kind = "brk"
    BY <1>4, <1>6, <1>13
  <2>3. t.deepest >= s.deepest
    BY <1>10, <1>11, <1>12
  <2> QED
    BY <1>12, <1>13, <2>1, <2>2, <2>3 DEF Entered
<1>16. Good(handleInterrupt(s, kind, returnPc, vector))
  BY HandleInterruptGood
<1> QED
  BY <1>13, <1>14, <1>15, <1>16

-----------------------------------------------------------------------------
(* The invariant, and how the parts of a step keep it.                     *)
Chain(s) ==
  Telling(s.frames) /\ (s.deepest <= StackSize => Masks(s.frames, s.i))

LEMMA PlainChain ==
  ASSUME NEW s, NEW t, Good(s), Good(t), Plain(s, t), Chain(s)
  PROVE  Chain(t)
<1>1. s.deepest \in Nat /\ t.deepest \in Nat
  BY GoodType
<1>2. StackSize \in Nat
  BY CpuAssumption
<1> QED
  BY <1>1, <1>2 DEF Plain, Chain

LEMMA TellingAppend ==
  ASSUME NEW fs \in Seq(Frames), NEW f \in Frames, Telling(fs),
         f.kind # "call" => (breakBit(f.status) <=> f.kind = "brk")
  PROVE  Telling(Append(fs, f))
<1> DEFINE gs == Append(fs, f)
           n  == Len(fs)
<1>1. /\ n \in Nat /\ Len(gs) = n + 1 /\ gs[n + 1] = f
      /\ \A k \in 1 .. n : gs[k] = fs[k]
  BY AppendFacts
<1> HIDE DEF gs, n
<1>2. ASSUME NEW k \in 1 .. n + 1, gs[k].kind # "call"
      PROVE  breakBit(gs[k].status) <=> gs[k].kind = "brk"
  <2>1. CASE k = n + 1
    BY <1>1, <1>2, <2>1
  <2>2. CASE k # n + 1
    <3>1. k \in 1 .. n
      BY <1>1, <2>2
    <3> QED
      BY <1>1, <1>2, <3>1 DEF Telling, n
  <2> QED
    BY <2>1, <2>2
<1> QED
  BY <1>1, <1>2 DEF Telling, gs

LEMMA EnterChain ==
  ASSUME NEW s, NEW t, NEW f, Good(s), Good(t), Entered(s, t, f), Chain(s),
         f.kind = "irq" => ~s.i
  PROVE  Chain(t)
<1>1. s.deepest \in Nat /\ t.deepest \in Nat /\ s.frames \in Seq(Frames)
  BY GoodType
<1>2. StackSize \in Nat
  BY CpuAssumption
<1>3. f \in Frames /\ f.kind # "call"
  BY DEF Entered, Entries
<1>4. Telling(t.frames)
  BY <1>1, <1>3, TellingAppend DEF Chain, Entered
<1>5. ASSUME t.deepest <= StackSize
      PROVE  Masks(t.frames, TRUE)
  <2>1. s.deepest <= StackSize
    BY <1>1, <1>2, <1>5 DEF Entered
  <2>2. Masks(s.frames, s.i)
    BY <2>1 DEF Chain
  <2>3. s.i => maskBit(f.status) /\ f.kind # "irq"
    BY DEF Entered
  <2> DEFINE i  == s.i
             fs == s.frames
  <2>4. fs \in Seq(Frames) /\ Masks(fs, i) /\ (i => maskBit(f.status) /\ f.kind # "irq")
    BY <1>1, <2>2, <2>3
  <2> HIDE DEF i, fs
  <2>5. Masks(Append(fs, f), TRUE)
    BY <1>3, <2>4, MasksEnter
  <2> QED
    BY <2>5 DEF Entered, fs
<1> QED
  BY <1>4, <1>5 DEF Chain, Entered

LEMMA CallChain ==
  ASSUME NEW s, NEW t, NEW f \in Frames, Good(s), Good(t), Chain(s), f.kind = "call",
         t.frames = Append(s.frames, f), t.i = s.i, t.deepest >= s.deepest
  PROVE  Chain(t)
<1>1. s.deepest \in Nat /\ t.deepest \in Nat /\ s.frames \in Seq(Frames)
  BY GoodType
<1>2. StackSize \in Nat
  BY CpuAssumption
<1>3. Telling(t.frames)
  BY <1>1, TellingAppend DEF Chain
<1>4. ASSUME t.deepest <= StackSize
      PROVE  Masks(t.frames, t.i)
  <2>1. Masks(s.frames, s.i)
    BY <1>1, <1>2, <1>4 DEF Chain
  <2> QED
    BY <1>1, <2>1, MasksCall
<1> QED
  BY <1>3, <1>4 DEF Chain

(* An activation is left: its status gives I back unless it was a call.    *)
LEMMA LeaveChain ==
  ASSUME NEW s, NEW t, Good(s), Good(t), Chain(s), Len(s.frames) > 0,
         t.frames = SubSeq(s.frames, 1, Len(s.frames) - 1), t.deepest = s.deepest,
         topFrame(s).kind = "call" => t.i = s.i,
         topFrame(s).kind # "call" /\ s.deepest <= StackSize =>
           t.i = maskBit(topFrame(s).status)
  PROVE  Chain(t)
<1>1. s.frames \in Seq(Frames) /\ t.frames \in Seq(Frames)
  BY GoodType
<1>2. \A k \in 1 .. Len(t.frames) : t.frames[k] = s.frames[k] /\ k \in 1 .. Len(s.frames)
  BY <1>1, FrontProperties, LenProperties
<1>3. Telling(t.frames)
  BY <1>2 DEF Chain, Telling
<1>4. ASSUME t.deepest <= StackSize
      PROVE  Masks(t.frames, t.i)
  <2>1. Masks(s.frames, s.i) /\ s.deepest <= StackSize
    BY <1>4 DEF Chain
  <2>2. /\ topFrame(s).kind = "call" => Masks(t.frames, s.i)
        /\ topFrame(s).kind # "call" => Masks(t.frames, maskBit(topFrame(s).status))
    BY <1>1, <2>1, MasksLeave DEF topFrame
  <2> QED
    BY <2>1, <2>2, Zenon
<1> QED
  BY <1>3, <1>4 DEF Chain

(* A handler has changed I itself: the marks that stay are justified.      *)
LEMMA NoteMaskFrames ==
  ASSUME NEW s, Good(s)
  PROVE  /\ noteMask(s).i = s.i /\ noteMask(s).irq = s.irq
         /\ noteMask(s).deepest = s.deepest
         /\ \A k \in 1 .. Len(s.frames) :
              /\ noteMask(s).frames[k].kind = s.frames[k].kind
              /\ noteMask(s).frames[k].status = s.frames[k].status
              /\ noteMask(s).frames[k].masked =>
                   s.frames[k].masked /\ (k \in innermost(s) => s.i)
<1> DEFINE masked(k) == s.frames[k].masked /\ (k \in innermost(s) => s.i)
           fs == [k \in DOMAIN s.frames |-> [s.frames[k] EXCEPT !.masked = masked(k)]]
<1>1. s \in States /\ DOMAIN s.frames = 1 .. Len(s.frames)
  BY GoodType, LenProperties
<1>2. noteMask(s) = [s EXCEPT !.frames = fs]
  BY Zenon DEF noteMask
<1>3. ASSUME NEW k \in 1 .. Len(s.frames)
      PROVE  /\ fs[k].kind = s.frames[k].kind /\ fs[k].status = s.frames[k].status
             /\ fs[k].masked => masked(k)
  <2>1. s.frames[k] \in Frames
    BY <1>1, Parts
  <2>2. fs[k] = [s.frames[k] EXCEPT !.masked = masked(k)]
    BY <1>1
  <2>3. masked(k) \in BOOLEAN
    OBVIOUS
  <2> HIDE DEF fs, masked
  <2>4. fs[k].kind = s.frames[k].kind /\ fs[k].status = s.frames[k].status
    BY <2>1, <2>2 DEF Frames
  <2>5. fs[k].masked = masked(k)
    BY <2>1, <2>2, <2>3 DEF Frames
  <2> QED
    BY <2>4, <2>5, Zenon
<1> HIDE DEF fs
<1>4. /\ noteMask(s).frames = fs /\ noteMask(s).i = s.i /\ noteMask(s).irq = s.irq
      /\ noteMask(s).deepest = s.deepest
  BY <1>1, <1>2 DEF States
<1> QED
  BY <1>3, <1>4, Zenon

LEMMA NoteChain ==
  ASSUME NEW s, NEW t, Good(s), Good(t), Chain(s),
         t.frames = s.frames, t.deepest >= s.deepest
  PROVE  Chain(noteMask(t)) /\ noteMask(t).irq = t.irq
<1> DEFINE u == noteMask(t)
<1>1. Good(u) /\ Len(u.frames) = Len(t.frames) /\ u.i = t.i
  BY NoteMaskGood
<1>2. /\ u.deepest = t.deepest /\ u.irq = t.irq
      /\ \A k \in 1 .. Len(t.frames) :
           /\ u.frames[k].kind = t.frames[k].kind
           /\ u.frames[k].status = t.frames[k].status
           /\ u.frames[k].masked =>
                t.frames[k].masked /\ (k \in innermost(t) => t.i)
  BY NoteMaskFrames
<1> HIDE DEF u
<1>3. /\ s.deepest \in Nat /\ t.deepest \in Nat /\ StackSize \in Nat
      /\ t.frames \in Seq(Frames) /\ u.frames \in Seq(Frames)
      /\ DOMAIN t.frames = 1 .. Len(t.frames)
  BY <1>1, GoodType, CpuAssumption, LenProperties
<1>4. Telling(u.frames)
  BY <1>1, <1>2 DEF Chain, Telling
<1>5. ASSUME u.deepest <= StackSize
      PROVE  Masks(u.frames, u.i)
  <2>1. Masks(t.frames, s.i)
    BY <1>2, <1>3, <1>5 DEF Chain
  <2>2. ASSUME NEW k \in 1 .. Len(t.frames), Inner(t.frames, k)
        PROVE  k \in innermost(t)
    BY <1>3, <2>2 DEF Inner, innermost
  <2>3. \A k \in 1 .. Len(t.frames) :
          /\ u.frames[k].kind = t.frames[k].kind
          /\ u.frames[k].status = t.frames[k].status
          /\ u.frames[k].masked => t.frames[k].masked
          /\ u.frames[k].masked /\ Inner(t.frames, k) => u.i
    BY <1>1, <1>2, <2>2, Zenon
  <2> DEFINE fs == t.frames
             gs == u.frames
             i  == s.i
             h  == u.i
  <2>4. /\ fs \in Seq(Frames) /\ gs \in Seq(Frames) /\ Len(gs) = Len(fs) /\ Masks(fs, i)
        /\ \A k \in 1 .. Len(fs) :
             /\ gs[k].kind = fs[k].kind /\ gs[k].status = fs[k].status
             /\ gs[k].masked => fs[k].masked
             /\ gs[k].masked /\ Inner(fs, k) => h
    BY <1>1, <1>3, <2>1, <2>3
  <2> HIDE DEF fs, gs, i, h
  <2>5. Masks(gs, h)
    BY <2>4, MasksNoted
  <2> QED
    BY <2>5 DEF gs, h
<1> QED
  BY <1>2, <1>4, <1>5 DEF Chain, u

-----------------------------------------------------------------------------
(* The parts of a step: an interrupt taken before the instruction, and the *)
(* instructions.                                                           *)

LEMMA LineChain ==
  ASSUME NEW s, Good(s), Chain(s)
  PROVE  Chain([s EXCEPT !.irq = FALSE]) /\ Chain([s EXCEPT !.nmi = FALSE])
<1>1. /\ [s EXCEPT !.irq = FALSE].frames = s.frames
      /\ [s EXCEPT !.irq = FALSE].i = s.i
      /\ [s EXCEPT !.irq = FALSE].deepest = s.deepest
  BY LinesKept
<1>2. Chain([s EXCEPT !.irq = FALSE])
  BY <1>1 DEF Chain
<1>3. Chain([s EXCEPT !.nmi = FALSE])
  BY LinesKept, PlainChain
<1> QED
  BY <1>2, <1>3

LEMMA TakeChain ==
  ASSUME NEW s, Good(s), Chain(s)
  PROVE  /\ Chain(takeInterrupt(s))
         /\ s.nmi \/ s.i => takeInterrupt(s).irq = s.irq
<1>1. s \in States /\ s.pc \in Nat /\ s.pc <= 65536
  <2>1. s \in States
    BY GoodType
  <2>2. s.pc \in Word
    BY <2>1, Parts
  <2> QED
    BY <2>1, <2>2, WordFacts
<1>2. "irq" \in Entries /\ "nmi" \in Entries
  BY DEF Entries
<1>3. ASSUME ~s.i
      PROVE  Chain(handleIrq(s))
  <2> DEFINE t == handleInterrupt(s, "irq", s.pc, IrqVector)
  <2>1. Good(t) /\ \E f \in Frames : f.kind = "irq" /\ Entered(s, t, f)
    <3>1. IrqVector \in Word /\ "irq" \in Entries /\ s.pc \in Nat /\ s.pc <= 65536
      BY <1>1, <1>2, VectorFacts
    <3> QED
      BY <3>1, HandleInterruptEnters
  <2> HIDE DEF t
  <2>2. Chain(t)
    BY <1>3, <2>1, EnterChain
  <2>3. Chain([t EXCEPT !.irq = FALSE])
    BY <2>1, <2>2, LineChain
  <2> QED
    BY <2>3 DEF handleIrq, t
<1>4. Chain(handleNmi(s)) /\ handleNmi(s).irq = s.irq
  <2> DEFINE t == handleInterrupt(s, "nmi", s.pc, NmiVector)
  <2>1. Good(t) /\ \E f \in Frames : f.kind = "nmi" /\ Entered(s, t, f)
    <3>1. NmiVector \in Word /\ "nmi" \in Entries /\ s.pc \in Nat /\ s.pc <= 65536
      BY <1>1, <1>2, VectorFacts
    <3> QED
      BY <3>1, HandleInterruptEnters
  <2> HIDE DEF t
  <2>2. Chain(t) /\ t.irq = s.irq
    BY <2>1, EnterChain DEF Entered
  <2>3. Chain([t EXCEPT !.nmi = FALSE]) /\ [t EXCEPT !.nmi = FALSE].irq = t.irq
    BY <2>1, <2>2, LineChain, LinesKept DEF Plain
  <2> QED
    BY <2>2, <2>3 DEF handleNmi, t
<1> QED
  BY <1>3, <1>4 DEF takeInterrupt

LEMMA BRKChain ==
  ASSUME NEW s, Good(s), Chain(s)
  PROVE  /\ Chain(BRK(s)) /\ BRK(s).frames # <<>>
         /\ topFrame(BRK(s)).kind = "brk"
<1> DEFINE g == fetched(s, 1)
           t == handleInterrupt(g, "brk", g.pc + 1, IrqVector)
<1>1. Good(g) /\ Chain(g)
  BY FetchedPlain, PlainChain
<1>2. BRK(s) = [t EXCEPT !.irq = FALSE]
  BY DEF BRK, handleBrk
<1> HIDE DEF g
<1>3. g.pc + 1 \in Nat /\ g.pc + 1 <= 65536 /\ g.frames \in Seq(Frames)
  <2>1. g \in States /\ g.frames \in Seq(Frames)
    BY <1>1, GoodType
  <2>2. g.pc \in Word
    BY <2>1, Parts
  <2> QED
    BY <2>1, <2>2, WordFacts
<1>4. Good(t) /\ \E f \in Frames : f.kind = "brk" /\ Entered(g, t, f)
  <2>1. "brk" \in Entries
    BY DEF Entries
  <2>2. Good(g) /\ IrqVector \in Word /\ g.pc + 1 \in Nat /\ g.pc + 1 <= 65536
    BY <1>1, <1>3, VectorFacts
  <2> QED
    BY <2>1, <2>2, HandleInterruptEnters
<1> HIDE DEF t
<1>5. PICK f \in Frames : f.kind = "brk" /\ Entered(g, t, f)
  BY <1>4
<1>6. Chain(t)
  BY <1>1, <1>4, <1>5, EnterChain
<1>7. t.frames # <<>> /\ topFrame(t) = f
  <2>1. /\ Len(t.frames) = Len(g.frames) + 1 /\ Len(g.frames) \in Nat
        /\ t.frames[Len(g.frames) + 1] = f
    BY <1>3, <1>5, AppendFacts DEF Entered
  <2> QED
    BY <2>1, EmptySeq DEF topFrame
<1>8. [t EXCEPT !.irq = FALSE].frames = t.frames
  BY <1>4, LinesKept
<1> QED
  BY <1>2, <1>4, <1>5, <1>6, <1>7, <1>8, LineChain DEF topFrame

LEMMA PlainInstructions ==
  ASSUME NEW s, Good(s), NEW v \in Byte, NEW n \in Word
  PROVE  /\ Plain(s, PHA(s)) /\ Plain(s, PHP(s))
         /\ Plain(s, CLC(s)) /\ Plain(s, SEC(s))
         /\ Plain(s, LDA(s, v)) /\ Plain(s, JMP(s, n))
         /\ localBytes(s) > 0 => Plain(s, PLA(s))
<1> DEFINE g == fetched(s, 1)
<1>1. Good(g) /\ Plain(s, g) /\ g.frames = s.frames /\ g.shadow = s.shadow
  BY FetchedPlain, FetchedGood
<1>2. s \in States /\ s.a \in Byte /\ g \in States /\ g.deepest \in Nat
  BY <1>1, GoodType, Parts
<1>3. ASSUME NEW w \in Byte
      PROVE  Plain(s, stackPush(g, w))
  BY <1>1, <1>3, PushPlain, PlainTrans
<1>4. Plain(s, PHA(s))
  BY <1>2, <1>3 DEF PHA
<1>5. Plain(s, PHP(s))
  <2> DEFINE w == getStatusFlag(withB(s, TRUE))
  <2>1. PHP(s) = stackPush(g, w)
    BY DEF PHP, withB
  <2>2. w \in Byte
    BY <1>2, AssignB, StatusFacts
  <2> HIDE DEF w, g
  <2> QED
    BY <1>3, <2>1, <2>2
<1>6. Plain(s, CLC(s)) /\ Plain(s, SEC(s))
  <2>1. Good(CLC(s)) /\ Good(SEC(s))
    BY FlagInstructionsGood
  <2> HIDE DEF g
  <2>2. Plain(g, [g EXCEPT !.c = FALSE]) /\ Plain(g, [g EXCEPT !.c = TRUE])
    BY <1>2 DEF Plain, States
  <2>3. CLC(s) = [g EXCEPT !.c = FALSE] /\ SEC(s) = [g EXCEPT !.c = TRUE]
    BY DEF CLC, SEC, g
  <2> QED
    BY <1>1, <2>1, <2>2, <2>3, PlainTrans
<1>7. Plain(s, LDA(s, v))
  <2>1. Good(fetched(s, 2)) /\ Plain(s, fetched(s, 2))
    BY FetchedPlain
  <2>2. /\ Good(withA(fetched(s, 2), v))
        /\ Plain(fetched(s, 2), withA(fetched(s, 2), v))
    BY <2>1, RegistersPlain
  <2> QED
    BY <2>1, <2>2, PlainTrans DEF LDA, withA
<1>8. Plain(s, JMP(s, n))
  BY RegistersPlain DEF JMP, withPc
<1>9. ASSUME localBytes(s) > 0
      PROVE  Plain(s, PLA(s))
  <2>1. localBytes(g) > 0 /\ top(s) \in Byte
    BY <1>1, <1>9, PopPlain DEF localBytes, topFrame
  <2>2. Good(popped(g)) /\ Plain(g, popped(g))
    BY <1>1, <2>1, PopPlain
  <2>3. PLA(s) = withA(popped(g), top(s))
    BY DEF PLA, withA
  <2> HIDE DEF g
  <2>4. Good(withA(popped(g), top(s))) /\ Plain(popped(g), withA(popped(g), top(s)))
    BY <2>1, <2>2, RegistersPlain
  <2> QED
    BY <1>1, <2>2, <2>3, <2>4, PlainTrans
<1> QED
  BY <1>4, <1>5, <1>6, <1>7, <1>8, <1>9

(* What sets, clears or pulls I itself.                                    *)
LEMMA MaskInstructions ==
  ASSUME NEW s, Good(s), Chain(s)
  PROVE  /\ Chain(SEI(s)) /\ SEI(s).irq = s.irq
         /\ Chain(noteMask(CLI(s))) /\ noteMask(CLI(s)).irq = s.irq
         /\ localBytes(s) > 0 =>
              Chain(noteMask(PLP(s))) /\ noteMask(PLP(s)).irq = s.irq
<1> DEFINE g == fetched(s, 1)
<1>1. Good(g) /\ Plain(s, g) /\ g.frames = s.frames /\ g.shadow = s.shadow /\ g \in States
  BY FetchedPlain, FetchedGood, GoodType
<1>2. Chain(g) /\ Good(SEI(s)) /\ Good(CLI(s))
  BY <1>1, PlainChain, FlagInstructionsGood
<1>3. Chain(SEI(s)) /\ SEI(s).irq = s.irq
  <2>1. SEI(s) = [g EXCEPT !.i = TRUE]
    BY DEF SEI
  <2> HIDE DEF g
  <2>2. /\ SEI(s).frames = g.frames /\ SEI(s).deepest = g.deepest
        /\ SEI(s).i = TRUE /\ SEI(s).irq = g.irq
    BY <1>1, <2>1 DEF States
  <2> QED
    BY <1>1, <1>2, <2>2 DEF Chain, Masks, Plain
<1>4. Chain(noteMask(CLI(s))) /\ noteMask(CLI(s)).irq = s.irq
  <2>1. CLI(s) = [g EXCEPT !.i = FALSE]
    BY DEF CLI
  <2>2. g.deepest \in Nat
    BY <1>1, GoodType
  <2> HIDE DEF g
  <2>3. /\ CLI(s).frames = g.frames /\ CLI(s).deepest >= g.deepest
        /\ CLI(s).irq = g.irq
    BY <1>1, <2>1, <2>2 DEF States
  <2> QED
    BY <1>1, <1>2, <2>3, NoteChain DEF Plain
<1>5. ASSUME localBytes(s) > 0
      PROVE  Chain(noteMask(PLP(s))) /\ noteMask(PLP(s)).irq = s.irq
  <2> DEFINE t == popped(g)
             u == setProcessorStatus(t, top(s))
  <2>1. localBytes(g) > 0 /\ top(s) \in Byte
    BY <1>1, <1>5, PopPlain DEF localBytes, topFrame
  <2>2. PLP(s) = u /\ Good(PLP(s))
    BY <1>5, PullInstructionsGood DEF PLP
  <2> HIDE DEF g
  <2>3. Good(t) /\ Plain(g, t) /\ Well(t) /\ t \in States /\ t.deepest \in Nat
    BY <1>1, <2>1, PopPlain, GoodType DEF Good
  <2>4. Chain(t)
    BY <1>1, <1>2, <2>3, PlainChain
  <2> HIDE DEF t
  <2>5. u.frames = t.frames /\ u.deepest = t.deepest
    BY <2>1, <2>3, SetStatusWell
  <2>6. u.irq = t.irq
    BY <2>3 DEF setProcessorStatus, States
  <2> HIDE DEF u
  <2>7. u.deepest >= t.deepest
    BY <2>3, <2>5
  <2>8. Chain(noteMask(u)) /\ noteMask(u).irq = u.irq
    BY <2>2, <2>3, <2>4, <2>5, <2>7, NoteChain
  <2> QED
    BY <1>1, <2>2, <2>3, <2>6, <2>8 DEF Plain
<1> QED
  BY <1>3, <1>4, <1>5

LEMMA JSRChain ==
  ASSUME NEW s, Good(s), Chain(s), NEW target \in Word
  PROVE  Chain(JSR(s, target)) /\ JSR(s, target).irq = s.irq
<1> DEFINE n   == Len(s.shadow)
           g   == fetched(s, 3)
           ret == (g.pc - 1) % 65536
           one == stackPush(g, hiByte(ret))
           two == stackPush(one, loByte(ret))
           f   == [kind |-> "call", ret |-> g.pc, status |-> 0,
                   at |-> n, masked |-> "call" # "call"]
           t   == enter(two, "call", g.pc, 0, n)
<1>1. Good(g) /\ Plain(s, g)
  BY FetchedPlain
<1>2. s \in States /\ n \in Nat /\ g.pc \in Word
  <2>1. s \in States /\ g \in States
    BY <1>1, GoodType
  <2> QED
    BY <2>1, Parts
<1>3. hiByte(ret) \in Byte /\ loByte(ret) \in Byte
  <2>1. ret \in Nat
    BY <1>2, Predecessor, WordFacts
  <2> HIDE DEF ret
  <2> QED
    BY <2>1, ByteFacts
<1>4. JSR(s, target) = withPc(t, target)
  BY DEF JSR, withPc
<1>5. f \in Frames /\ f.kind = "call"
  BY <1>2 DEF Frames, Byte
<1> HIDE DEF g
<1> HIDE DEF ret
<1>6. Good(one) /\ Plain(g, one)
  BY <1>1, <1>3, PushPlain
<1> HIDE DEF one
<1>7. Good(two) /\ Plain(one, two)
  BY <1>3, <1>6, PushPlain
<1> HIDE DEF two
<1>8. Chain(two) /\ two.irq = s.irq /\ two \in States /\ two.deepest \in Nat
      /\ two.frames \in Seq(Frames)
  <2>1. Plain(s, two)
    BY <1>1, <1>6, <1>7, PlainTrans
  <2> QED
    BY <1>7, <2>1, PlainChain, GoodType DEF Plain
<1> HIDE DEF n
<1>9. /\ t.frames = Append(two.frames, f) /\ t.i = two.i /\ t.irq = two.irq
      /\ t.deepest = two.deepest
  BY <1>8 DEF enter, States
<1>10. t \in States
  BY <1>5, <1>8, <1>9, AppendFacts DEF enter, States
<1> HIDE DEF t, f
<1>11. /\ withPc(t, target).frames = t.frames /\ withPc(t, target).i = t.i
       /\ withPc(t, target).irq = t.irq /\ withPc(t, target).deepest = t.deepest
  BY <1>10 DEF withPc, States
<1>12. Good(JSR(s, target))
  BY JSRGood
<1>13. Chain(JSR(s, target))
  <2>1. /\ JSR(s, target).frames = Append(two.frames, f)
        /\ JSR(s, target).i = two.i
        /\ JSR(s, target).deepest >= two.deepest
    BY <1>4, <1>8, <1>9, <1>11
  <2> QED
    BY <1>5, <1>7, <1>8, <1>12, <2>1, CallChain
<1> QED
  BY <1>4, <1>8, <1>9, <1>11, <1>13

LEMMA PopFlags ==
  ASSUME NEW s \in States
  PROVE  /\ popped(s).i = s.i /\ popped(s).irq = s.irq
         /\ popped(s).frames = s.frames /\ popped(s).deepest = s.deepest
  BY DEF popped, States

LEMMA LeaveFlags ==
  ASSUME NEW s \in States, Len(s.frames) > 0, NEW n
  PROVE  LET t == withPc(leave(s), n)
         IN  /\ t.i = s.i /\ t.irq = s.irq /\ t.deepest = s.deepest
             /\ t.frames = SubSeq(s.frames, 1, Len(s.frames) - 1)
<1> DEFINE fs == SubSeq(s.frames, 1, Len(s.frames) - 1)
           u  == leave(s)
<1>1. s.frames \in Seq(Frames)
  BY Parts
<1>2. fs \in Seq(Frames)
  BY <1>1, FrontProperties
<1>3. u = [s EXCEPT !.frames = fs]
  BY DEF leave
<1> HIDE DEF fs, u
<1>4. /\ u \in States /\ u.i = s.i /\ u.irq = s.irq /\ u.deepest = s.deepest
      /\ u.frames = fs
  BY <1>2, <1>3 DEF States
<1>5. /\ withPc(u, n).i = u.i /\ withPc(u, n).irq = u.irq
      /\ withPc(u, n).deepest = u.deepest /\ withPc(u, n).frames = u.frames
  BY <1>4 DEF withPc, States
<1> QED
  BY <1>4, <1>5 DEF u, fs

LEMMA RTSChain ==
  ASSUME NEW s, Good(s), Chain(s), mayReturn(s, {"call"})
  PROVE  Chain(RTS(s)) /\ RTS(s).irq = s.irq
<1> DEFINE n   == Len(s.shadow)
           one == popped(s)
           two == popped(one)
           pc  == (address(top(s), top(one)) + 1) % 65536
<1>1. /\ s.frames # <<>> /\ topFrame(s).kind = "call" /\ localBytes(s) = 0
      /\ s \in States /\ Well(s) /\ Good(RTS(s))
  BY RTSGood DEF mayReturn, Good, Well
<1>2. n \in Nat /\ n > 0 /\ n - 1 > 0
  <2>1. topFrame(s).at \in Nat /\ n = topFrame(s).at + frameSize(topFrame(s))
    BY <1>1, TopOfReturn
  <2>2. frameSize(topFrame(s)) = 2
    BY <1>1 DEF frameSize
  <2> QED
    BY <2>1, <2>2
<1>3. RTS(s) = withPc(leave(two), pc)
  BY DEF RTS, withPc
<1>4. Len(s.frames) > 0
  BY <1>1, Parts, EmptySeq
<1>5. Well(one) /\ Len(one.shadow) = n - 1 /\ one \in States
  BY <1>1, <1>2, PopWell DEF Well
<1>6. two \in States
  <2> HIDE DEF one, n
  <2> QED
    BY <1>2, <1>5, PopWell DEF Well
<1>7. /\ two.i = s.i /\ two.irq = s.irq /\ two.deepest = s.deepest
      /\ two.frames = s.frames
  <2>1. /\ one.i = s.i /\ one.irq = s.irq /\ one.deepest = s.deepest
        /\ one.frames = s.frames
    BY <1>1, PopFlags
  <2> HIDE DEF one
  <2> QED
    BY <1>5, <2>1, PopFlags
<1> HIDE DEF two, pc, one
<1>8. /\ RTS(s).i = s.i /\ RTS(s).irq = s.irq /\ RTS(s).deepest = s.deepest
      /\ RTS(s).frames = SubSeq(s.frames, 1, Len(s.frames) - 1)
  BY <1>3, <1>4, <1>6, <1>7, LeaveFlags
<1> QED
  BY <1>1, <1>4, <1>8, LeaveChain

LEMMA RTIChain ==
  ASSUME NEW s, Good(s), Chain(s), mayReturn(s, Entries)
  PROVE  Chain(RTI(s)) /\ RTI(s).irq = s.irq
<1> DEFINE n     == Len(s.shadow)
           one   == popped(s)
           two   == popped(one)
           three == popped(two)
           flags == setProcessorStatus(three, top(s))
           pc    == address(top(one), top(two))
<1>1. /\ s.frames # <<>> /\ topFrame(s).kind # "call" /\ localBytes(s) = 0
      /\ s \in States /\ Well(s) /\ Good(RTI(s)) /\ s.deepest \in Nat
  BY RTIGood, GoodType DEF mayReturn, Good, Well
<1>2. n \in Nat /\ n > 0 /\ n - 1 > 0 /\ n - 1 - 1 > 0
  <2>1. topFrame(s).at \in Nat /\ n = topFrame(s).at + frameSize(topFrame(s))
    BY <1>1, TopOfReturn
  <2>2. frameSize(topFrame(s)) = 3
    BY <1>1 DEF frameSize
  <2> QED
    BY <2>1, <2>2
<1>3. RTI(s) = withPc(leave(flags), pc)
  BY DEF RTI, withPc
<1>4. Len(s.frames) > 0
  BY <1>1, Parts, EmptySeq
<1>5. /\ Well(one) /\ Len(one.shadow) = n - 1 /\ one \in States /\ top(s) \in Byte
      /\ one.irq = s.irq /\ one.deepest = s.deepest /\ one.frames = s.frames
  BY <1>1, <1>2, PopWell, PopFlags DEF Well
<1> HIDE DEF one
<1>6. /\ Well(two) /\ Len(two.shadow) = n - 1 - 1 /\ two \in States
      /\ two.irq = s.irq /\ two.deepest = s.deepest /\ two.frames = s.frames
  <2> HIDE DEF n
  <2> QED
    BY <1>2, <1>5, PopWell, PopFlags DEF Well
<1> HIDE DEF two
<1>7. /\ Well(three) /\ three \in States
      /\ three.irq = s.irq /\ three.deepest = s.deepest /\ three.frames = s.frames
  <2> HIDE DEF n
  <2> QED
    BY <1>2, <1>6, PopWell, PopFlags DEF Well
<1> HIDE DEF three
<1>8. /\ flags \in States /\ flags.irq = s.irq /\ flags.deepest = s.deepest
      /\ flags.frames = s.frames
  <2>1. flags \in States /\ flags.deepest = s.deepest /\ flags.frames = s.frames
    BY <1>5, <1>7, SetStatusWell DEF Well
  <2>2. flags.irq = three.irq
    BY <1>7 DEF setProcessorStatus, States
  <2> QED
    BY <1>7, <2>1, <2>2
<1> HIDE DEF flags, pc
<1>9. /\ RTI(s).irq = s.irq /\ RTI(s).deepest = s.deepest
      /\ RTI(s).frames = SubSeq(s.frames, 1, Len(s.frames) - 1)
  BY <1>3, <1>4, <1>8, LeaveFlags
<1>10. s.deepest <= StackSize => RTI(s).i = maskBit(topFrame(s).status)
  BY RTIGood, Zenon DEF maskBit
<1>11. Chain(RTI(s))
  BY <1>1, <1>4, <1>9, <1>10, LeaveChain
<1> QED
  BY <1>9, <1>11

-----------------------------------------------------------------------------
(* The whole step.                                                         *)
LEMMA StepChain ==
  ASSUME Good(cpu), Chain(cpu), Next
  PROVE  /\ Chain(cpu')
         /\ \/ cpu.irq /\ (cpu.nmi \/ cpu.i) => cpu'.irq
            \/ cpu' = reset(cpu)
            \/ cpu'.frames # <<>> /\ topFrame(cpu').kind = "brk"
<1> DEFINE s == takeInterrupt(cpu)
<1>1. Good(s) /\ Chain(s)
  BY TakeInterruptGood, TakeChain
<1>2. cpu \in States
  BY GoodType
<1>3. started = s /\ (cpu.nmi \/ cpu.i => s.irq = cpu.irq)
  BY TakeChain DEF started
<1> HIDE DEF s
<1>4. ASSUME Chain(cpu'), cpu'.irq = s.irq
      PROVE  Chain(cpu') /\ (cpu.irq /\ (cpu.nmi \/ cpu.i) => cpu'.irq)
  BY <1>3, <1>4, Zenon
<1>5. Good(cpu')
  BY StepGood
<1>6. CASE StepBRK
  BY <1>1, <1>3, <1>6, BRKChain DEF StepBRK, result
<1>7. CASE StepPHA \/ StepPHP \/ StepPLA \/ StepCLC \/ StepSEC \/ StepLDA \/ StepJMP
  <2>1. 0 \in Byte /\ ResetVector \in Word
    BY VectorFacts DEF Byte
  <2>2. Plain(s, cpu')
    <3>1. CASE StepPHA \/ StepPHP \/ StepPLA \/ StepCLC \/ StepSEC
      BY <1>1, <1>3, <2>1, <3>1, PlainInstructions
         DEF StepPHA, StepPHP, StepPLA, StepCLC, StepSEC, result
    <3>2. CASE StepLDA
      <4>1. PICK v \in fetch("LDA") : cpu' = LDA(s, v)
        BY <1>3, <3>2 DEF StepLDA, result
      <4> QED
        BY <1>1, <2>1, <4>1, OperandFacts, PlainInstructions
    <3>3. CASE StepJMP
      <4>1. PICK n \in fetch("JMP") : cpu' = JMP(s, n)
        BY <1>3, <3>3 DEF StepJMP, result
      <4> QED
        BY <1>1, <2>1, <4>1, OperandFacts, PlainInstructions
    <3> QED
      BY <1>7, <3>1, <3>2, <3>3
  <2> QED
    BY <1>1, <1>4, <1>5, <2>2, PlainChain DEF Plain
<1>8. CASE StepSEI \/ StepCLI \/ StepPLP
  BY <1>1, <1>3, <1>4, <1>8, MaskInstructions DEF StepSEI, StepCLI, StepPLP, result
<1>9. CASE StepJSR
  <2>1. PICK n \in fetch("JSR") : cpu' = JSR(s, n)
    BY <1>3, <1>9 DEF StepJSR, result
  <2>2. n \in Word
    BY OperandFacts
  <2> QED
    BY <1>1, <1>4, <2>1, <2>2, JSRChain
<1>10. CASE StepRTS
  BY <1>1, <1>3, <1>4, <1>10, RTSChain DEF StepRTS, result
<1>11. CASE StepRTI
  BY <1>1, <1>3, <1>4, <1>11, RTIChain DEF StepRTI, result
<1>12. CASE assertIrq
  <2>1. /\ cpu'.frames = cpu.frames /\ cpu'.i = cpu.i /\ cpu'.deepest = cpu.deepest
        /\ cpu'.irq = TRUE
    BY <1>2, <1>12 DEF assertIrq, States
  <2> QED
    BY <2>1 DEF Chain
<1>13. CASE assertNmi
  <2>1. /\ cpu'.frames = cpu.frames /\ cpu'.i = cpu.i /\ cpu'.deepest = cpu.deepest
        /\ cpu'.irq = cpu.irq
    BY <1>2, <1>13 DEF assertNmi, States
  <2> QED
    BY <2>1 DEF Chain
<1>14. CASE Reset
  <2>1. cpu' = reset(cpu)
    BY <1>14 DEF Reset
  <2>2. cpu'.frames = <<>>
    BY <1>2, <2>1 DEF reset, States
  <2>3. 1 .. Len(<<>>) = {}
    BY EmptySeq
  <2> QED
    BY <2>1, <2>2, <2>3 DEF Chain, Telling, Masks
<1> QED
  BY <1>6, <1>7, <1>8, <1>9, <1>10, <1>11, <1>12, <1>13, <1>14 DEF Next

-----------------------------------------------------------------------------
(* The theorems.                                                           *)

LEMMA ChainAlways == Spec => [](Good(cpu) /\ Chain(cpu))
<1>1. Init => Good(cpu) /\ Chain(cpu)
  <2> SUFFICES ASSUME Init PROVE Good(cpu) /\ Chain(cpu)
    OBVIOUS
  <2>1. cpu.frames = <<>> /\ 1 .. Len(<<>>) = {}
    BY EmptySeq DEF Init
  <2> QED
    BY <2>1, InitGood DEF Chain, Telling, Masks
<1>2. Good(cpu) /\ Chain(cpu) /\ [Next]_cpu => (Good(cpu) /\ Chain(cpu))'
  <2> SUFFICES ASSUME Good(cpu), Chain(cpu), [Next]_cpu
               PROVE  (Good(cpu) /\ Chain(cpu))'
    OBVIOUS
  <2>1. CASE Next
    BY <2>1, StepGood, StepChain
  <2>2. CASE UNCHANGED cpu
    BY <2>2
  <2> QED
    BY <2>1, <2>2
<1> QED
  BY <1>1, <1>2, PTL DEF Spec

(* The byte of the stack page where an interrupt left the status tells its *)
(* handler a BRK from an interrupt, for every program, every size of the   *)
(* page and every interleaving of interrupts: nothing above overwrites it  *)
(* until the page is overrun.                                              *)
THEOREM BreakCorrect == Spec => []BreakVisible
<1>1. Good(cpu) /\ Chain(cpu) => BreakVisible
  <2> SUFFICES ASSUME Good(cpu), Chain(cpu), cpu.deepest <= StackSize,
                      NEW k \in DOMAIN cpu.frames, cpu.frames[k].kind # "call"
               PROVE  (cpu.stack[StackSize - (cpu.frames[k].at + 3)] \div 16) % 2
                        = IF cpu.frames[k].kind = "brk" THEN 1 ELSE 0
    BY DEF BreakVisible
  <2> DEFINE f == cpu.frames[k]
             slot == f.at + 3
  <2>1. k \in 1 .. Len(cpu.frames)
    BY GoodType, LenProperties
  <2>2. breakBit(f.status) <=> f.kind = "brk"
    BY <2>1 DEF Chain, Telling
  <2>3. Holds(cpu.shadow, f)
    BY <2>1 DEF Good, Intact
  <2>4. /\ cpu \in States /\ Lifo(cpu)
    BY DEF Good, Well
  <2>5. /\ f \in Frames /\ f.at \in Nat /\ Len(cpu.shadow) \in Nat
    BY <2>1, <2>4, Parts
  <2>6. frameSize(f) = 3
    BY DEF frameSize
  <2>7. slot \in 1 .. Len(cpu.shadow)
    BY <2>3, <2>5, <2>6 DEF Holds
  <2>8. cpu.stack[StackSize - slot] = cpu.shadow[slot]
    BY <2>4, <2>7 DEF Lifo
  <2>9. cpu.stack[StackSize - slot] = f.status
    BY <2>3, <2>8 DEF Holds
  <2>10. f.status \in 0 .. 255
    BY <2>5 DEF Frames, Byte
  <2>11. (f.status \div 16) % 2 = IF breakBit(f.status) THEN 1 ELSE 0
    BY <2>10 DEF breakBit
  <2>12. (cpu.stack[StackSize - slot] \div 16) % 2 = IF breakBit(f.status) THEN 1 ELSE 0
    BY <2>9, <2>11
  <2> QED
    BY <2>2, <2>12
<1> QED
  BY <1>1, ChainAlways, PTL

(* Only a handler that cleared I itself is interrupted by an IRQ, whatever *)
(* the handlers and the subroutines in between did to I.                   *)
THEOREM NestingCorrect == Spec => []NestingNeedsUnmask
<1>1. Good(cpu) /\ Chain(cpu) => NestingNeedsUnmask
  <2> SUFFICES ASSUME Good(cpu), Chain(cpu), cpu.deepest <= StackSize,
                      NEW j \in DOMAIN cpu.frames, NEW k \in DOMAIN cpu.frames,
                      cpu.frames[j].kind = "irq", k < j,
                      cpu.frames[k].kind # "call",
                      \A m \in k + 1 .. j - 1 : cpu.frames[m].kind = "call"
               PROVE  ~cpu.frames[k].masked
    BY DEF NestingNeedsUnmask
  <2>1. j \in 1 .. Len(cpu.frames) /\ k \in 1 .. Len(cpu.frames)
    BY GoodType, LenProperties
  <2>2. Above(cpu.frames, k, j)
    BY DEF Above
  <2>3. Masks(cpu.frames, cpu.i)
    BY DEF Chain
  <2> QED
    BY <2>1, <2>2, <2>3 DEF Masks
<1> QED
  BY <1>1, ChainAlways, PTL

(* An IRQ that could not be taken stays pending until it is taken, except  *)
(* that a BRK takes it along and reset drops it.                           *)
THEOREM PendingCorrect == Spec => PendingIrqKept
<1> DEFINE Kept ==
      cpu.irq /\ ~cpu'.irq /\ (cpu.nmi \/ cpu.i) =>
        \/ cpu' = reset(cpu)
        \/ cpu'.frames # <<>> /\ topFrame(cpu').kind = "brk"
<1>1. Good(cpu) /\ Chain(cpu) /\ [Next]_cpu => [Kept]_cpu
  <2> SUFFICES ASSUME Good(cpu), Chain(cpu), Next
               PROVE  Kept
    OBVIOUS
  <2> QED
    BY StepChain, Zenon
<1> QED
  BY <1>1, ChainAlways, PTL DEF Spec, PendingIrqKept
=============================================================================
