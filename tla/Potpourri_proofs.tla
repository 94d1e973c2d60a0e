--------------------------- MODULE Potpourri_proofs ---------------------------
(***************************************************************************)
(* The software of the Potpourri6502: its keyboard driver and its BASIC.   *)
(*                                                                         *)
(* What pckybd.asm keeps with the keyboard, for every set of keys, every   *)
(* size of the keyboard's buffer and any number of presses, of damaged     *)
(* bytes and of bytes that are not acknowledged.                           *)
(*                                                                         *)
(* The LEDs: LedIInv says at every place of the driver what is left of the *)
(* answer to the LED command, and who would notice that it was damaged.    *)
(*                                                                         *)
(* The keys: Parse reads one code the way the driver does, as a function   *)
(* of where the driver is, its bits and the characters so far.  TrackIInv  *)
(* says that the codes that are still to be read, one that was damaged and *)
(* is sent again before them, lead from there to what the user did.  A     *)
(* press or a release adds codes that lead on, whatever comes before them; *)
(* a code the driver takes is the first of those that are left.            *)
(*                                                                         *)
(* The strings of BASIC (BasicStrings), for every program, size of the     *)
(* memory, set of variables and number of temporaries: StringInv says that *)
(* every variable has a string apart from those of the others and from the *)
(* free memory, so that neither a collection nor a result comes over one,  *)
(* and that the values that wait in an expression lie below them.  The     *)
(* collector moves the highest string that was not moved yet; one scan per *)
(* variable moves them all.                                                *)
(***************************************************************************)
EXTENDS KeyboardDriver, BasicStrings, FiniteSetTheorems, SequenceTheorems,
        WellFoundedInduction, TLAPS

-----------------------------------------------------------------------------
(* The keyboard driver (KeyboardDriver).                                   *)

(* What the keys send, and the overflow code.                              *)
Scan == {"1C", "83", "75", "E0", "12", "7C", "E1", "14", "77", "F0", "58", "FF"}

Resetting == {"kbinit", "kbinit1", "resetAck", "resetOk"}
Setting   == {"kbsled", "ledsAck", "ledsSend"}
Getting   == {"kbinput1", "kbExt", "kbrlse", "kbexrls", "kbBrk"}
Between   == {"kbinput", "isOff", "kbdone1", "isOn", "kbresend", "kbflush", "flushed"}

(* Without a byte that is not acknowledged, kbinit and kbsled return to    *)
(* the program or to one of four places of kbinput.                        *)
Shape ==
  \/ pc \in Resetting /\ calls \in {<<"program">>, <<"program", "kbinput">>}
  \/ pc \in Setting /\ calls \in {<<"program">>, <<"program", "kbinput">>, <<"program", "isOff">>,
                                   <<"program", "isOn">>, <<"program", "kbinput1">>}
  \/ pc \in Getting \cup Between /\ calls = <<"program">>
  \/ pc = "program" /\ calls = <<>>

shownBits == special \ {"ctrl", "shift"}
Lit       == leds = shownBits

(* The set of LEDs was damaged, and the keyboard asks for it.              *)
Pending ==
  answer = <<"FE">> /\ wantsLeds /\ lastbyte = ledByte(shownBits) /\ errors = 1

(* What the keyboard has to say, wherever the driver listens.              *)
AnswerOnly == answer = <<>> \/ \E b \in Scan \cup {"FA"} : answer = <<b>>

LedI ==
  /\ refused = 0 /\ errors \in {0, 1}
  /\ Shape
  /\ buffered \in Seq(Scan)
  /\ pc \in {"isOff", "isOn"} => (Lit /\ answer = <<"FA">>) \/ Pending
  /\ pc = "kbinput1" => (Lit /\ AnswerOnly) \/ Pending
  /\ pc \in Getting \ {"kbinput1"} => Lit /\ AnswerOnly
  /\ pc = "kbresend" => wantsLeds /\ lastbyte = ledByte(shownBits) /\ errors = 1
  /\ pc \in Getting \cup {"kbresend"} => "scroll" \notin special
  /\ calls = <<"program", "kbinput1">> => "scroll" \notin special
  /\ pc = "ledsAck" => (answer = <<"FA">> /\ wantsLeds) \/ (answer = <<"FE">> /\ errors = 1)
  /\ pc = "ledsSend" => wantsLeds
  /\ calls = <<"program">> /\ pc \in Resetting \cup Setting => returned = <<>>
  /\ pc = "program" /\ returned # <<>> /\ errors = 0 => "scroll" \in leds

LedIInv ==
  /\ errors \in Nat /\ refused \in Nat
  /\ refused = 0 /\ errors <= 1 => LedI

-----------------------------------------------------------------------------
(* Short sequences are what their elements say.                            *)
LEMMA SeqOfOne ==
  ASSUME NEW S, NEW t \in Seq(S), Len(t) = 1
  PROVE  t = <<t[1]>>
<1>1. t = [i \in 1 .. Len(t) |-> t[i]]
  BY LenProperties
<1> QED
  BY <1>1

LEMMA SeqOfTwo ==
  ASSUME NEW S, NEW t \in Seq(S), Len(t) = 2
  PROVE  t = <<t[1], t[2]>>
<1>1. t = [i \in 1 .. Len(t) |-> t[i]]
  BY LenProperties
<1> QED
  BY <1>1

LEMMA AppendToOne ==
  ASSUME NEW x, NEW y
  PROVE  Append(<<y>>, x) = <<y, x>>
<1> DEFINE S == {x, y}
           t == Append(<<y>>, x)
<1>1. <<y>> \in Seq(S) /\ Len(<<y>>) = 1 /\ <<y>>[1] = y
  OBVIOUS
<1>2. x \in S
  OBVIOUS
<1> HIDE DEF S
<1>3. t \in Seq(S) /\ Len(t) = 2 /\ t[2] = x /\ t[1] = y
  BY <1>1, <1>2, AppendProperties
<1> HIDE DEF t
<1>4. t = <<y, x>>
  BY <1>3, SeqOfTwo
<1> QED
  BY <1>4 DEF t

LEMMA EndsOfTwo ==
  ASSUME NEW x, NEW y
  PROVE  Last(<<y, x>>) = x /\ Front(<<y, x>>) = <<y>>
<1> DEFINE S == {x, y}
           s == <<y, x>>
           t == SubSeq(s, 1, 1)
<1>1. s \in Seq(S) /\ Len(s) = 2 /\ s[1] = y /\ s[2] = x
  OBVIOUS
<1>2. \A i \in 1 .. 1 : s[i] \in S
  OBVIOUS
<1> HIDE DEF S, s
<1>3. t \in Seq(S) /\ Len(t) = 1 /\ t[1] = y
  BY <1>1, <1>2, SubSeqProperties
<1>4. Last(s) = x
  BY <1>1 DEF Last
<1>5. Front(s) = t
  BY <1>1 DEF Front
<1> HIDE DEF t
<1>6. t = <<y>>
  BY <1>3, SeqOfOne
<1> QED
  BY <1>4, <1>5, <1>6 DEF s

(* The return addresses, and where an rts goes.                            *)
LEMMA Returning ==
  /\ \A x : Last(<<"program", x>>) = x /\ Front(<<"program", x>>) = <<"program">>
  /\ Last(<<"program">>) = "program" /\ Front(<<"program">>) = <<>>
  /\ \A x : Append(<<"program">>, x) = <<"program", x>> /\ Append(<<>>, x) = <<x>>
<1>1. Len(<<"program">>) = 1 /\ <<"program">>[1] = "program"
  OBVIOUS
<1>2. Front(<<"program">>) = <<>>
  <2>1. Front(<<"program">>) = SubSeq(<<"program">>, 1, 0)
    BY <1>1 DEF Front
  <2> QED
    BY <2>1, SubSeqEmpty
<1>3. Last(<<"program">>) = "program"
  BY <1>1 DEF Last
<1>4. \A x : Append(<<>>, x) = <<x>>
  OBVIOUS
<1> QED
  BY <1>2, <1>3, <1>4, AppendToOne, EndsOfTwo

LEMMA Places ==
  ASSUME Shape
  PROVE  /\ pc \notin Resetting \/ pc \notin Setting \cup Getting \cup Between \cup {"program"}
         /\ pc \in Setting => calls # <<>> /\ Len(calls) \in {1, 2}
         /\ pc \in Getting \cup Between => calls = <<"program">>
  BY DEF Shape, Resetting, Setting, Getting, Between

(* What sending a byte does, as long as it is acknowledged.                *)
LEMMA Sending ==
  ASSUME LedI, NEW c, NEW next, kbsend(c, next), refused' = 0
  PROVE  /\ lastbyte' = c /\ goto(next) /\ refused' = refused
         /\ \/ receive(c) /\ errors' = errors
            \/ receiveDamaged /\ errors' = errors + 1
  BY DEF kbsend, LedI

(* Where kbsled and kbinit go on.                                          *)
LEMMA GoneBack ==
  ASSUME Shape, pc \in Setting, goto("rts")
  PROVE  \/ calls = <<"program">> /\ pc' = "program" /\ calls' = <<>>
         \/ \E x \in {"kbinput", "isOff", "isOn", "kbinput1"} :
              calls = <<"program", x>> /\ pc' = x /\ calls' = <<"program">>
<1>1. pc' = Last(calls) /\ calls' = Front(calls)
  BY DEF goto
<1>2. \/ calls = <<"program">>
      \/ \E x \in {"kbinput", "isOff", "isOn", "kbinput1"} : calls = <<"program", x>>
  BY DEF Shape, Resetting, Setting, Getting, Between
<1> QED
  BY <1>1, <1>2, Returning

(* What a byte is where the driver listens, and what is left behind it.    *)
LEMMA Taken ==
  ASSUME buffered \in Seq(Scan), AnswerOnly, handOver
  PROVE  /\ nextByte \in Scan \cup {"FA"}
         /\ answer' = <<>> /\ buffered' \in Seq(Scan)
         /\ UNCHANGED <<leds, wantsLeds>>
<1>1. CASE answer = <<>>
  <2>1. buffered # <<>> /\ buffered' = Tail(buffered) /\ answer' = <<>> /\ nextByte = Head(buffered)
    BY <1>1 DEF handOver, ready, nextByte
  <2>2. Head(buffered) \in Scan /\ Tail(buffered) \in Seq(Scan)
    BY <2>1, HeadTailProperties
  <2> QED
    BY <2>1, <2>2 DEF handOver
<1>2. CASE answer # <<>>
  <2>1. PICK b \in Scan \cup {"FA"} : answer = <<b>>
    BY <1>2 DEF AnswerOnly
  <2>2. Head(answer) = b /\ Tail(answer) = <<>>
    BY <2>1
  <2> QED
    BY <1>2, <2>1, <2>2 DEF handOver, nextByte
<1> QED
  BY <1>1, <1>2

LEMMA TakenAgain ==
  ASSUME buffered \in Seq(Scan), AnswerOnly, handOverAgain
  PROVE  /\ AnswerOnly' /\ buffered' \in Seq(Scan)
         /\ UNCHANGED <<leds, wantsLeds>>
<1>0. "FE" \notin Scan \cup {"FA"}
  BY DEF Scan
<1>1. CASE answer = <<>>
  <2>1. buffered # <<>> /\ buffered' = Tail(buffered) /\ nextByte = Head(buffered)
    BY <1>1 DEF handOverAgain, ready, nextByte
  <2>2. Head(buffered) \in Scan /\ Tail(buffered) \in Seq(Scan)
    BY <2>1, HeadTailProperties
  <2>3. sent' = Head(buffered) /\ answer' = <<sent'>> \o <<>>
    BY <1>0, <1>1, <2>1, <2>2 DEF handOverAgain
  <2>4. answer' = <<Head(buffered)>>
    BY <2>3
  <2> QED
    BY <2>1, <2>2, <2>4 DEF handOverAgain, AnswerOnly
<1>2. CASE answer # <<>>
  <2>1. PICK b \in Scan \cup {"FA"} : answer = <<b>>
    BY <1>2 DEF AnswerOnly
  <2>2. Head(answer) = b /\ Tail(answer) = <<>>
    BY <2>1
  <2>3. sent' = b /\ answer' = <<sent'>> \o <<>>
    BY <1>0, <1>2, <2>1, <2>2 DEF handOverAgain, nextByte
  <2>4. answer' = <<b>>
    BY <2>3
  <2> QED
    BY <1>2, <2>1, <2>4 DEF handOverAgain, AnswerOnly
<1> QED
  BY <1>1, <1>2

(* A byte that arrives damaged, the first one of all.                      *)
LEMMA AgainKeeps ==
  ASSUME LedI, kbgetAgain, UNCHANGED returned, refused' = 0, errors' \in {0, 1},
         pc \in Getting \cup {"resetAck", "resetOk", "ledsAck"}
  PROVE  LedI'
<1>1. /\ errors = 0 /\ errors' = 1
      /\ handOverAgain /\ UNCHANGED <<pc, calls, special, skip, char, returned, refused>>
  BY DEF kbgetAgain, LedI
<1>2. Shape' /\ shownBits' = shownBits
  BY <1>1 DEF LedI, Shape, shownBits
<1>3. /\ handOverAgain => leds' = leds /\ wantsLeds' = wantsLeds
      /\ buffered \in Seq(Scan)
  BY DEF handOverAgain, LedI
<1>4. buffered' \in Seq(Scan)
  <2>1. CASE answer # <<>>
    BY <1>1, <1>3, <2>1 DEF handOverAgain
  <2>2. CASE answer = <<>>
    <3>1. buffered # <<>> /\ buffered' = Tail(buffered)
      BY <1>1, <2>2 DEF handOverAgain, ready
    <3> QED
      BY <1>3, <3>1, HeadTailProperties
  <2> QED
    BY <2>1, <2>2
<1>5. CASE pc \in Getting
  <2>1. Lit /\ AnswerOnly
    BY <1>1, <1>5 DEF LedI, Pending
  <2>2. Lit' /\ AnswerOnly'
    BY <1>1, <1>2, <1>3, <2>1, TakenAgain DEF Lit
  <2>3. pc \notin {"resetAck", "resetOk", "ledsAck"}
    BY <1>5 DEF Getting
  <2>4. "scroll" \notin special /\ pc \notin Resetting \cup Setting \cup Between \cup {"program"}
    BY <1>5 DEF LedI, Getting, Resetting, Setting, Between
  <2> QED
    BY <1>1, <1>2, <1>4, <2>2, <2>4 DEF LedI, Resetting, Setting, Between, Getting
<1>6. CASE pc \in {"resetAck", "resetOk"}
  BY <1>1, <1>2, <1>4, <1>6 DEF LedI, Getting, Resetting, Setting
<1>7. CASE pc = "ledsAck"
  <2>1. answer = <<"FA">> /\ wantsLeds
    BY <1>1, <1>7 DEF LedI
  <2>2. answer' = <<"FA">>
    <3>1. nextByte = "FA" /\ Tail(answer) = <<>> /\ answer # <<>>
      BY <2>1 DEF nextByte
    <3>2. sent' = "FA" /\ answer' = <<sent'>> \o <<>>
      BY <1>1, <3>1 DEF handOverAgain
    <3> QED
      BY <3>2
  <2> QED
    BY <1>1, <1>2, <1>3, <1>4, <1>7, <2>1, <2>2 DEF LedI, Getting, Resetting, Setting
<1> QED
  BY <1>5, <1>6, <1>7

-----------------------------------------------------------------------------
(* What the user does does not reach what LedI is about.                   *)
LEMMA PutKeeps ==
  ASSUME NEW codes \in Seq(Scan), buffered \in Seq(Scan), put(codes)
  PROVE  buffered' \in Seq(Scan)
<1> DEFINE all == buffered \o codes
<1>1. all \in Seq(Scan)
  OBVIOUS
<1>2. CASE Len(all) <= BufferSize
  BY <1>1, <1>2 DEF put
<1>3. CASE ~(Len(all) <= BufferSize)
  <2>1. buffered' = Append(SubSeq(all, 1, BufferSize - 1), "FF")
    BY <1>3 DEF put
  <2>2. BufferSize - 1 <= Len(all) /\ BufferSize \in Nat \ {0}
    BY <1>1, <1>3, LenProperties, KeyboardAssumption
  <2> HIDE DEF all
  <2>3. SubSeq(all, 1, BufferSize - 1) \in Seq(Scan)
    BY <1>1, <2>2, LenProperties, SubSeqProperties
  <2>4. "FF" \in Scan
    BY DEF Scan
  <2> QED
    BY <2>1, <2>3, <2>4, AppendProperties
<1> QED
  BY <1>2, <1>3

LEMMA KeysSendScanCodes ==
  ASSUME NEW k \in Keys
  PROVE  make(k) \in Seq(Scan) /\ break(k) \in Seq(Scan)
<1>1. /\ <<"1C">> \in Seq(Scan) /\ <<"83">> \in Seq(Scan) /\ <<"75">> \in Seq(Scan)
      /\ <<"12">> \in Seq(Scan) /\ <<"14">> \in Seq(Scan) /\ <<"58">> \in Seq(Scan)
      /\ <<"77">> \in Seq(Scan) /\ <<"F0">> \in Seq(Scan) /\ <<>> \in Seq(Scan)
  BY DEF Scan
<1>2. <<"E0", "12", "E0", "75">> \in Seq(Scan) /\ <<"E0", "12", "E0", "7C">> \in Seq(Scan)
  BY DEF Scan
<1>3. <<"E1", "14", "77", "E1", "F0", "14", "F0", "77">> \in Seq(Scan)
  BY DEF Scan
<1>4. /\ <<"E0", "F0", "75", "E0", "F0", "12">> \in Seq(Scan)
      /\ <<"E0", "F0", "7C", "E0", "F0", "12">> \in Seq(Scan)
  BY DEF Scan
<1>5. make(k) \in Seq(Scan)
  <2>1. CASE k \in {"letter", "F7", "keypad", "shift", "ctrl", "caps", "num"}
    <3>1. make(k) \in {<<"1C">>, <<"83">>, <<"75">>, <<"12">>, <<"14">>, <<"58">>, <<"77">>}
      BY <2>1, Zenon DEF make
    <3> QED
      BY <1>1, <3>1
  <2>2. CASE k = "pause"
    BY <1>3, <2>2 DEF make
  <2>3. CASE k \in {"cursor", "print"}
    BY <1>2, <2>3 DEF make
  <2> QED
    BY <2>1, <2>2, <2>3, KeyboardAssumption
<1>6. CASE k \in {"cursor", "print", "pause"}
  BY <1>1, <1>4, <1>5, <1>6 DEF break
<1>7. CASE k \notin {"cursor", "print", "pause"}
  <2>1. break(k) = <<"F0">> \o make(k)
    BY <1>7 DEF break
  <2> QED
    BY <1>1, <1>5, <2>1, ConcatProperties
<1>8. break(k) \in Seq(Scan)
  BY <1>6, <1>7
<1> QED
  BY <1>5, <1>8

LEMMA UserKeeps ==
  ASSUME LedI, User, UNCHANGED driverVars
  PROVE  LedI'
<1>1. buffered' \in Seq(Scan) /\ UNCHANGED <<answer, wantsLeds, leds, sent>>
  <2>1. PICK k \in Keys : Press(k) \/ Release(k)
    BY DEF User
  <2>2. make(k) \in Seq(Scan) /\ break(k) \in Seq(Scan) /\ buffered \in Seq(Scan)
    BY KeysSendScanCodes DEF LedI
  <2>3. CASE Press(k)
    BY <2>2, <2>3, PutKeeps DEF Press
  <2>4. CASE Release(k)
    BY <2>2, <2>4, PutKeeps DEF Release
  <2> QED
    BY <2>1, <2>3, <2>4
<1> QED
  BY <1>1 DEF LedI, driverVars, Shape, Lit, Pending, AnswerOnly, shownBits

-----------------------------------------------------------------------------
(* What the keyboard does with each byte it receives.                      *)
LEMMA Received ==
  /\ receive(command("FF")) => buffered' = <<>>
  /\ receive(command("F4")) => buffered' = <<>>
  /\ receive(command("ED")) => answer' = <<"FA">> /\ wantsLeds' /\ UNCHANGED <<leds, buffered>>
  /\ \A lit : receive(ledByte(lit)) /\ wantsLeds =>
       answer' = <<"FA">> /\ leds' = lit /\ UNCHANGED buffered
<1>1. receive(command("FF")) => buffered' = <<>>
  BY DEF receive, command
<1>2. receive(command("F4")) => buffered' = <<>>
  BY DEF receive, command
<1>3. receive(command("ED")) => answer' = <<"FA">> /\ wantsLeds' /\ UNCHANGED <<leds, buffered>>
  BY DEF receive, command
<1>4. ASSUME NEW lit, receive(ledByte(lit)), wantsLeds
      PROVE  answer' = <<"FA">> /\ leds' = lit /\ UNCHANGED buffered
  BY <1>4 DEF receive, ledByte
<1> QED
  BY <1>1, <1>2, <1>3, <1>4

LEMMA ResetKeeps ==
  ASSUME LedI, kbinit \/ kbinit1 \/ resetAck \/ resetOk, refused' = 0, errors' \in {0, 1}
  PROVE  LedI'
<1>1. pc \in Resetting /\ calls \in {<<"program">>, <<"program", "kbinput">>}
  BY DEF LedI, Shape, kbinit, kbinit1, resetAck, resetOk, Resetting, Setting, Getting, Between
<1>2. <<"program", "kbinput">> # <<"program", "kbinput1">> /\ <<>> \in Seq(Scan)
  <2>1. <<"program", "kbinput">>[2] # <<"program", "kbinput1">>[2]
    OBVIOUS
  <2> QED
    BY <2>1
<1>3. SUFFICES
        ASSUME pc' \in Resetting \cup {"kbsled"}, UNCHANGED <<calls, returned>>,
               buffered' \in Seq(Scan)
        PROVE  LedI'
  <2>1. CASE kbinit
    BY <2>1, <1>3 DEF kbinit, goto, jumps, keyboardVars, LedI, Resetting
  <2>2. CASE kbinit1
    <3>1. goto("resetAck") /\ UNCHANGED returned
      BY <2>2, Sending DEF kbinit1, sends
    <3>2. receive(command("FF")) \/ receiveDamaged
      BY <2>2, Sending DEF kbinit1, sends
    <3>3. buffered' \in Seq(Scan)
      BY <3>2, <1>2, Received DEF receiveDamaged, LedI
    <3> QED
      BY <3>1, <3>3, <1>3 DEF goto, Resetting
  <2>3. CASE resetAck \/ resetOk
    <3>1. CASE kbgetAgain /\ UNCHANGED returned
      BY <3>1, <2>3, AgainKeeps DEF resetAck, resetOk
    <3>2. CASE handOver /\ pc' \in {"resetOk", "kbsled", "kbinit1"} /\ UNCHANGED <<calls, returned>>
      <4>1. buffered' \in Seq(Scan)
        <5>1. CASE answer # <<>>
          BY <3>2, <5>1 DEF handOver, LedI
        <5>2. CASE answer = <<>>
          BY <3>2, <5>2, HeadTailProperties DEF handOver, ready, LedI
        <5> QED
          BY <5>1, <5>2
      <4> QED
        BY <3>2, <4>1, <1>3 DEF Resetting
    <3>3. CASE resetAck
      BY <3>1, <3>2, <3>3 DEF resetAck, answered, kbget, goto
    <3>4. CASE resetOk
      BY <3>1, <3>2, <3>4 DEF resetOk, answered, kbget, goto
    <3> QED
      BY <2>3, <3>3, <3>4
  <2> QED
    BY <2>1, <2>2, <2>3
<1>4. calls' \in {<<"program">>, <<"program", "kbinput">>}
  BY <1>1, <1>3
<1>5. Shape'
  BY <1>3, <1>4 DEF Shape, Setting
<1>6. calls = <<"program">> => returned = <<>>
  BY <1>1 DEF LedI
<1>7. pc' \notin Getting \cup Between \cup {"program", "ledsAck", "ledsSend"}
  BY <1>3 DEF Resetting, Getting, Between
<1>8. errors' \in {0, 1} /\ refused' = 0
  OBVIOUS
<1> QED
  BY <1>2, <1>3, <1>4, <1>5, <1>6, <1>7, <1>8 DEF LedI, Getting, Between

LEMMA SetKeeps ==
  ASSUME LedI, kbsled \/ ledsAck, refused' = 0, errors' \in {0, 1}
  PROVE  LedI'
<1>1. pc \in {"kbsled", "ledsAck"} /\ buffered \in Seq(Scan)
  BY DEF LedI, kbsled, ledsAck
<1>2. SUFFICES
        ASSUME /\ pc' \in Setting /\ UNCHANGED <<calls, returned, special>>
               /\ buffered' \in Seq(Scan)
               /\ pc' = "ledsAck" => (answer' = <<"FA">> /\ wantsLeds')
                                       \/ (answer' = <<"FE">> /\ errors' = 1)
               /\ pc' = "ledsSend" => wantsLeds'
        PROVE  LedI'
  <2>1. CASE kbsled
    <3>1. goto("ledsAck") /\ UNCHANGED <<returned, special>>
      BY <2>1, Sending DEF kbsled, sends
    <3>2. CASE receive(command("ED"))
      BY <3>1, <3>2, <1>1, <1>2, Received DEF goto, Setting
    <3>3. CASE receiveDamaged /\ errors' = errors + 1
      <4>1. errors' = 1
        BY <3>3 DEF LedI
      <4> QED
        BY <3>1, <3>3, <4>1, <1>1, <1>2 DEF goto, Setting, receiveDamaged
    <3> QED
      BY <2>1, <3>2, <3>3, Sending DEF kbsled, sends
  <2>2. CASE ledsAck
    <3>1. CASE kbgetAgain /\ UNCHANGED returned
      BY <3>1, <2>2, AgainKeeps DEF ledsAck
    <3>2. CASE handOver /\ goto(IF nextByte = "FA" THEN "ledsSend" ELSE "kbsled")
               /\ UNCHANGED <<returned, special>>
      <4>1. answer # <<>> /\ nextByte = Head(answer)
        BY <2>2 DEF ledsAck, LedI, nextByte
      <4>2. nextByte = "FA" => wantsLeds
        <5>1. (answer = <<"FA">> /\ wantsLeds) \/ answer = <<"FE">>
          BY <2>2 DEF ledsAck, LedI
        <5> QED
          BY <4>1, <5>1
      <4> QED
        BY <3>2, <4>1, <4>2, <1>1, <1>2 DEF goto, handOver, Setting
    <3> QED
      BY <2>2, <3>1, <3>2 DEF ledsAck, answered, kbget
  <2> QED
    BY <2>1, <2>2
<1>3. shownBits' = shownBits
  BY <1>2 DEF shownBits
<1>4. Shape'
  BY <1>1, <1>2 DEF LedI, Shape, Setting, Resetting, Getting, Between
<1>5. pc' \notin Getting \cup Between \cup Resetting \cup {"program"}
  BY <1>2 DEF Resetting, Setting, Getting, Between
<1>6. errors' \in {0, 1} /\ refused' = 0
  OBVIOUS
<1> QED
  BY <1>1, <1>2, <1>3, <1>4, <1>5, <1>6 DEF LedI, Getting, Between, Setting

LEMMA SendKeeps ==
  ASSUME LedI, ledsSend, refused' = 0, errors' \in {0, 1}
  PROVE  LedI'
<1>1. /\ pc = "ledsSend" /\ wantsLeds /\ buffered \in Seq(Scan) /\ goto("rts")
      /\ UNCHANGED <<special, skip, char, returned>>
      /\ lastbyte' = ledByte(shownBits)
  BY Sending DEF ledsSend, sends, LedI, shownBits
<1>2. shownBits' = shownBits
  BY <1>1 DEF shownBits
<1>3. (Lit' /\ answer' = <<"FA">>) \/ Pending'
  <2>1. CASE receive(ledByte(shownBits))
    BY <1>1, <1>2, <2>1, Received DEF Lit
  <2>2. CASE receiveDamaged /\ errors' = errors + 1
    <3>1. errors' = 1
      BY <2>2 DEF LedI
    <3> QED
      BY <1>1, <1>2, <2>2, <3>1 DEF Pending, receiveDamaged
  <2> QED
    BY <2>1, <2>2, Sending DEF ledsSend, sends, shownBits
<1>4. buffered' \in Seq(Scan)
  <2>1. CASE receive(ledByte(shownBits))
    BY <1>1, <2>1, Received
  <2>2. CASE receiveDamaged
    BY <1>1, <2>2 DEF receiveDamaged
  <2> QED
    BY <2>1, <2>2, Sending DEF ledsSend, sends, shownBits
<1>5. \/ calls = <<"program">> /\ pc' = "program" /\ calls' = <<>>
      \/ \E x \in {"kbinput", "isOff", "isOn", "kbinput1"} :
           calls = <<"program", x>> /\ pc' = x /\ calls' = <<"program">>
  BY <1>1, GoneBack DEF LedI, Setting
<1>6. Shape'
  BY <1>5 DEF Shape, Getting, Between
<1>7. calls = <<"program">> => returned' = <<>>
  BY <1>1 DEF LedI, Setting
<1>8. pc' = "kbinput1" => "scroll" \notin special'
  BY <1>1, <1>5 DEF LedI
<1>9. (Lit' /\ AnswerOnly') \/ Pending'
  BY <1>3 DEF AnswerOnly
<1>10. pc' \notin (Getting \ {"kbinput1"}) \cup Resetting \cup Setting \cup {"kbresend"}
  BY <1>5 DEF Getting, Resetting, Setting
<1>11. calls' # <<"program", "kbinput1">>
  BY <1>5
<1>12. errors' \in {0, 1} /\ refused' = 0
  OBVIOUS
<1>13. pc' = "program" => returned' = <<>>
  BY <1>5, <1>7
<1> QED
  BY <1>3, <1>4, <1>6, <1>8, <1>9, <1>10, <1>11, <1>12, <1>13 DEF LedI, Getting, Setting

LEMMA TurnKeeps ==
  ASSUME LedI, kbinput \/ kbdone1, refused' = 0, errors' \in {0, 1}
  PROVE  LedI'
<1>1. /\ pc \in {"kbinput", "kbdone1"} /\ pc' = "kbsled"
      /\ \E x \in {"isOff", "isOn"} : calls' = Append(calls, x)
      /\ UNCHANGED <<buffered, errors, refused>>
  BY DEF kbinput, kbdone1, kbtscrl, jsr, jumps, keyboardVars
<1>2. calls = <<"program">>
  BY <1>1, Places DEF LedI, Between
<1>3. calls' \in {<<"program", "isOff">>, <<"program", "isOn">>}
  BY <1>1, <1>2, Returning
<1>4. calls' # <<"program">> /\ calls' # <<"program", "kbinput1">>
  BY <1>3
<1>5. Shape'
  BY <1>1, <1>3 DEF Shape, Setting
<1>6. buffered' \in Seq(Scan)
  BY <1>1 DEF LedI
<1>7. errors' \in {0, 1} /\ refused' = 0
  OBVIOUS
<1> QED
  BY <1>1, <1>4, <1>5, <1>6, <1>7 DEF LedI, Getting

LEMMA TestKeeps ==
  ASSUME LedI, isOff \/ isOn, refused' = 0, errors' \in {0, 1}
  PROVE  LedI'
<1>1. /\ pc \in {"isOff", "isOn"} /\ calls = <<"program">>
      /\ (Lit /\ answer = <<"FA">>) \/ Pending
      /\ buffered \in Seq(Scan)
  BY Places DEF LedI, Between, isOff, isOn
<1>2. /\ shownBits' = shownBits /\ UNCHANGED <<keyboardVars, special, lastbyte, errors>>
  BY DEF isOff, isOn, jumps, shownBits
<1>3. (Lit' /\ answer' = <<"FA">>) \/ Pending'
  BY <1>1, <1>2 DEF Lit, Pending, keyboardVars
<1>4. \/ pc' = "kbinput" /\ calls' = <<"program">>
      \/ pc' = "kbinput1" /\ calls' = <<"program">> /\ "scroll" \notin special
      \/ pc' = "kbdone1" /\ calls' = <<"program">>
      \/ pc' = "program" /\ calls' = <<>> /\ "scroll" \in special
  BY <1>1, Returning DEF isOff, isOn, goto
<1>5. pc' = "program" /\ errors' = 0 => "scroll" \in leds'
  BY <1>2, <1>3, <1>4 DEF Lit, Pending, shownBits
<1>6. Shape'
  BY <1>4 DEF Shape, Getting, Between
<1>7. (Lit' /\ AnswerOnly') \/ Pending'
  BY <1>3 DEF AnswerOnly
<1>8. calls' # <<"program", "kbinput1">>
  BY <1>4
<1>9. errors' \in {0, 1} /\ refused' = 0 /\ buffered' \in Seq(Scan)
  BY <1>1, <1>2 DEF keyboardVars
<1>10. pc' \notin Resetting \cup Setting \cup {"isOff", "isOn", "kbresend"} \cup (Getting \ {"kbinput1"})
  BY <1>4 DEF Resetting, Setting, Getting
<1> QED
  BY <1>2, <1>4, <1>5, <1>6, <1>7, <1>8, <1>9, <1>10 DEF LedI, Setting

LEMMA CallKeeps ==
  ASSUME LedI, callKbinput, refused' = 0, errors' \in {0, 1}
  PROVE  LedI'
<1>1. pc = "program" /\ pc' = "kbinput" /\ calls' = Append(calls, "program") /\ UNCHANGED buffered
  BY DEF callKbinput, jsr, jumps, keyboardVars
<1>2. calls = <<>>
  BY <1>1 DEF LedI, Shape, Resetting, Setting, Getting, Between
<1>3. calls' = <<"program">> /\ calls' # <<"program", "kbinput1">>
  BY <1>1, <1>2, Returning
<1>4. Shape' /\ errors' \in {0, 1} /\ refused' = 0 /\ buffered' \in Seq(Scan)
  BY <1>1, <1>3 DEF LedI, Shape, Between
<1> QED
  BY <1>1, <1>3, <1>4 DEF LedI, Getting, Resetting, Setting

-----------------------------------------------------------------------------
(* What a scan code leads to.                                              *)
Listened ==
  \/ /\ pc' \in Getting \cup {"kbdone1", "kbflush"} /\ UNCHANGED calls
     /\ shownBits' = shownBits /\ "scroll" \notin special'
  \/ pc' = "kbinit" /\ calls' = <<"program", "kbinput">>
  \/ pc' = "kbsled" /\ calls' = <<"program", "kbinput1">> /\ "scroll" \notin special'

LEMMA Converts ==
  ASSUME calls = <<"program">>, NEW code, convert(code)
  PROVE  \/ pc' \in {"kbinput1", "kbdone1"} /\ UNCHANGED calls
         \/ pc' = "kbinit" /\ calls' = <<"program", "kbinput">>
<1>1. \/ goto("kbinput1") \/ goto("kbdone1") \/ jsr("kbinit", "kbinput")
  BY DEF convert
<1> QED
  BY <1>1, Returning DEF goto, jsr

LEMMA ListenKeeps ==
  ASSUME LedI, pc \in Getting, Listened, Lit', AnswerOnly',
         buffered' \in Seq(Scan), UNCHANGED returned, refused' = 0, errors' \in {0, 1}
  PROVE  LedI'
<1>1. calls = <<"program">>
  BY Places DEF LedI, Getting, Between
<1>2. Shape'
  BY <1>1 DEF Listened, Shape, Getting, Between, Resetting, Setting
<1>4. CASE pc' \in Getting
  <2>1. Lit' /\ AnswerOnly' /\ calls' = <<"program">> /\ "scroll" \notin special'
    BY <1>1, <1>4 DEF Listened, Getting
  <2>2. pc' \notin Resetting \cup Setting \cup {"isOff", "isOn", "kbresend", "program"}
    BY <1>4 DEF Getting, Resetting, Setting
  <2>3. <<"program">> # <<"program", "kbinput1">>
    BY Returning
  <2> QED
    BY <1>2, <2>1, <2>2, <2>3 DEF LedI, Setting
<1>5. CASE pc' \in {"kbdone1", "kbflush"}
  <2>1. calls' = <<"program">>
    BY <1>1, <1>5 DEF Listened, Getting
  <2>2. <<"program">> # <<"program", "kbinput1">>
    BY Returning
  <2> QED
    BY <1>2, <1>5, <2>1, <2>2 DEF LedI, Getting, Resetting, Setting
<1>6. CASE pc' = "kbinit"
  <2>1. calls' = <<"program", "kbinput">>
    BY <1>6 DEF Listened, Getting
  <2>2. <<"program", "kbinput">> # <<"program">> /\ <<"program", "kbinput">> # <<"program", "kbinput1">>
    <3>1. <<"program", "kbinput">>[2] # <<"program", "kbinput1">>[2]
      OBVIOUS
    <3> QED
      BY <3>1
  <2> QED
    BY <1>2, <1>6, <2>1, <2>2 DEF LedI, Getting
<1>7. CASE pc' = "kbsled"
  <2>1. calls' = <<"program", "kbinput1">> /\ "scroll" \notin special'
    BY <1>7 DEF Listened, Getting
  <2> QED
    BY <1>2, <1>7, <2>1 DEF LedI, Getting
<1> QED
  BY <1>4, <1>5, <1>6, <1>7 DEF Listened

(* The first byte of a code.                                               *)
LEMMA FirstKeeps ==
  ASSUME LedI, kbinput1, refused' = 0, errors' \in {0, 1}
  PROVE  LedI'
<1>1. pc = "kbinput1" /\ calls = <<"program">> /\ "scroll" \notin special /\ UNCHANGED returned
  BY Places DEF kbinput1, LedI, Getting
<1>2. CASE kbgetAgain
  BY <1>1, <1>2, AgainKeeps DEF Getting
<1>3. CASE handOver /\ kbcsrch(nextByte) /\ UNCHANGED <<lastbyte, errors, refused>>
  <2>1. CASE Lit /\ AnswerOnly
    <3>1. /\ nextByte \in Scan \cup {"FA"} /\ answer' = <<>> /\ buffered' \in Seq(Scan)
          /\ UNCHANGED leds
      BY <1>3, <2>1, Taken DEF LedI
    <3>2. shownBits' = shownBits => Lit'
      BY <2>1, <3>1 DEF Lit
    <3>3. AnswerOnly'
      BY <3>1 DEF AnswerOnly
    <3>4. (Listened /\ shownBits' = shownBits) \/ (pc' = "kbsled" /\ Listened)
      <4>1. CASE \E c : convert(c) /\ UNCHANGED special
        BY <1>1, <4>1, Converts DEF Listened, Getting, shownBits
      <4>2. CASE set("shift") \/ set("ctrl")
        BY <1>1, <4>2 DEF set, kbnull, goto, Listened, Getting, shownBits
      <4>3. CASE kbnull /\ UNCHANGED special
        BY <1>1, <4>3 DEF kbnull, goto, Listened, Getting, shownBits
      <4>4. CASE \E x \in {"caps", "num"} : special' = toggled(special, x) /\ jsr("kbsled", "kbinput1")
        BY <1>1, <4>4, Returning DEF jsr, toggled, Listened
      <4>5. CASE nextByte \in {"E0", "F0", "E1", "FF"} /\ UNCHANGED special
                   /\ \E l \in {"kbExt", "kbrlse", "kbBrk", "kbflush"} : goto(l)
        BY <1>1, <4>5 DEF goto, Listened, Getting, shownBits
      <4> QED
        <5>1. nextByte # "FE"
          BY <3>1 DEF Scan
        <5>2. CASE nextByte \notin commands
          BY <1>3, <4>1, <5>2 DEF kbcsrch, commands
        <5>3. CASE nextByte \in {"12", "14"}
          BY <1>3, <4>2, <5>3 DEF kbcsrch, commands
        <5>4. CASE nextByte \in {"FA", "AA"}
          BY <1>3, <4>3, <5>4 DEF kbcsrch, commands
        <5>5. CASE nextByte \in {"58", "77"}
          BY <1>3, <4>4, <5>5 DEF kbcsrch, commands
        <5>6. CASE nextByte \in {"E0", "F0", "E1", "FF"}
          BY <1>3, <4>5, <5>6 DEF kbcsrch, commands
        <5> QED
          BY <5>1, <5>2, <5>3, <5>4, <5>5, <5>6 DEF commands
    <3>5. CASE shownBits' = shownBits
      BY <1>1, <3>1, <3>2, <3>3, <3>4, <3>5, ListenKeeps DEF Getting
    <3>6. CASE pc' = "kbsled" /\ Listened
      <4>1. calls' = <<"program", "kbinput1">> /\ "scroll" \notin special'
        BY <3>6 DEF Listened, Getting
      <4>2. Shape' /\ calls' # <<"program">>
        BY <3>6, <4>1, Returning DEF Shape, Setting
      <4>3. errors' \in {0, 1} /\ refused' = 0
        OBVIOUS
      <4> QED
        BY <3>1, <3>6, <4>1, <4>2, <4>3 DEF LedI, Getting
    <3> QED
      BY <3>4, <3>5, <3>6
  <2>2. CASE Pending
    <3>1. /\ nextByte = "FE" /\ UNCHANGED <<buffered, wantsLeds>>
      <4>1. Head(answer) = "FE" /\ answer # <<>>
        BY <2>2 DEF Pending
      <4> QED
        BY <1>3, <4>1 DEF handOver, nextByte
    <3>2. /\ pc' = "kbresend" /\ UNCHANGED <<calls, special>>
      BY <1>3, <3>1 DEF kbcsrch, goto, commands
    <3>3. shownBits' = shownBits
      BY <3>2 DEF shownBits
    <3>4. wantsLeds' /\ lastbyte' = ledByte(shownBits') /\ errors' = 1
      BY <1>3, <2>2, <3>1, <3>3 DEF Pending
    <3>5. Shape' /\ calls' # <<"program", "kbinput1">>
      BY <1>1, <3>2, Returning DEF Shape, Between
    <3>6. buffered' \in Seq(Scan) /\ "scroll" \notin special' /\ refused' = 0
      BY <1>1, <3>1, <3>2 DEF LedI
    <3> QED
      BY <3>2, <3>4, <3>5, <3>6 DEF LedI, Getting, Resetting, Setting
  <2> QED
    BY <1>1, <2>1, <2>2 DEF LedI
<1> QED
  BY <1>2, <1>3 DEF kbinput1, kbget

(* The bytes behind a prefix.                                              *)
LEMMA NextKeeps ==
  ASSUME LedI, kbExt \/ kbrlse \/ kbBrk, refused' = 0, errors' \in {0, 1}
  PROVE  LedI'
<1>1. /\ pc \in {"kbExt", "kbrlse", "kbexrls", "kbBrk"} /\ calls = <<"program">>
      /\ "scroll" \notin special /\ Lit /\ AnswerOnly /\ buffered \in Seq(Scan)
      /\ UNCHANGED returned
  BY Places DEF kbExt, kbrlse, kbBrk, LedI, Getting
<1>2. CASE kbgetAgain
  BY <1>1, <1>2, AgainKeeps DEF Getting
<1>3. CASE handOver /\ shownBits' = shownBits /\ Listened
  <2>1. answer' = <<>> /\ buffered' \in Seq(Scan) /\ UNCHANGED leds
    BY <1>1, <1>3, Taken
  <2>2. Lit' /\ AnswerOnly'
    BY <1>1, <1>3, <2>1 DEF Lit, AnswerOnly
  <2> QED
    BY <1>1, <1>3, <2>1, <2>2, ListenKeeps DEF Getting
<1>4. ASSUME \E c : convert(c), UNCHANGED special
      PROVE  shownBits' = shownBits /\ Listened
  BY <1>1, <1>4, Converts DEF Listened, Getting, shownBits
<1>5. ASSUME \E x \in {"shift", "ctrl"} : set(x) \/ clear(x)
      PROVE  shownBits' = shownBits /\ Listened
  BY <1>1, <1>5 DEF set, clear, kbnull, goto, Listened, Getting, shownBits
<1>6. ASSUME \E l \in {"kbexrls", "kbBrk", "kbinput1"} : goto(l), UNCHANGED special
      PROVE  shownBits' = shownBits /\ Listened
  BY <1>1, <1>6 DEF goto, Listened, Getting, shownBits
<1>7. CASE kbExt
  <2>1. CASE handOver /\ kbext(nextByte)
    <3>1. \/ goto("kbexrls") /\ UNCHANGED special
          \/ set("ctrl")
          \/ (\E c : convert(c)) /\ UNCHANGED special
      BY <2>1 DEF kbext
    <3> QED
      BY <1>3, <1>4, <1>5, <1>6, <2>1, <3>1
  <2> QED
    BY <1>2, <1>7, <2>1 DEF kbExt, kbget
<1>8. CASE kbrlse
  <2>1. CASE handOver /\ \E e \in BOOLEAN : kbrelease(nextByte, e)
    <3>1. clear("ctrl") \/ clear("shift") \/ (goto("kbinput1") /\ UNCHANGED special)
      BY <2>1 DEF kbrelease, kbnull
    <3> QED
      BY <1>3, <1>5, <1>6, <2>1, <3>1
  <2> QED
    BY <1>2, <1>8, <2>1 DEF kbrlse, kbget
<1>9. CASE kbBrk
  <2>1. CASE handOver /\ (convert("10") \/ goto("kbBrk")) /\ UNCHANGED special
    BY <1>3, <1>4, <1>6, <2>1
  <2> QED
    BY <1>2, <1>9, <2>1 DEF kbBrk, kbget
<1> QED
  BY <1>7, <1>8, <1>9

(* The set of LEDs is sent again.                                          *)
LEMMA ResendKeeps ==
  ASSUME LedI, kbresend, refused' = 0, errors' \in {0, 1}
  PROVE  LedI'
<1>1. /\ pc = "kbresend" /\ wantsLeds /\ lastbyte = ledByte(shownBits) /\ errors = 1
      /\ "scroll" \notin special /\ buffered \in Seq(Scan) /\ calls = <<"program">>
  BY Places DEF kbresend, LedI, Between
<1>2. /\ receive(ledByte(shownBits)) /\ pc' = "kbinput1" /\ calls' = <<"program">>
      /\ UNCHANGED <<special, returned>>
  BY <1>1, Sending DEF kbresend, sends, goto
<1>3. shownBits' = shownBits
  BY <1>2 DEF shownBits
<1>4. Lit' /\ answer' = <<"FA">> /\ UNCHANGED buffered
  BY <1>1, <1>2, <1>3, Received DEF Lit
<1>5. Shape' /\ calls' # <<"program", "kbinput1">> /\ AnswerOnly'
  BY <1>2, <1>4, Returning DEF Shape, Getting, AnswerOnly
<1>6. errors' \in {0, 1} /\ refused' = 0
  OBVIOUS
<1> QED
  BY <1>1, <1>2, <1>4, <1>5, <1>6 DEF LedI, Getting, Resetting, Setting

(* After an overflow.                                                      *)
LEMMA FlushKeeps ==
  ASSUME LedI, kbflush \/ flushed, refused' = 0, errors' \in {0, 1}
  PROVE  LedI'
<1>1. pc \in {"kbflush", "flushed"} /\ calls = <<"program">> /\ buffered \in Seq(Scan)
  BY Places DEF kbflush, flushed, LedI, Between
<1>2. CASE kbflush
  <2>1. /\ receive(command("F4")) \/ receiveDamaged
        /\ pc' = "flushed" /\ UNCHANGED <<calls, returned>>
    BY <1>2, Sending DEF kbflush, sends, goto
  <2>2. buffered' \in Seq(Scan)
    BY <1>1, <2>1, Received, EmptySeq DEF receiveDamaged
  <2>3. Shape' /\ calls' # <<"program", "kbinput1">>
    BY <1>1, <2>1, Returning DEF Shape, Between
  <2>4. errors' \in {0, 1} /\ refused' = 0
    OBVIOUS
  <2> QED
    BY <2>1, <2>2, <2>3, <2>4 DEF LedI, Getting, Resetting, Setting
<1>3. CASE flushed
  <2>1. convert("10") /\ UNCHANGED <<keyboardVars, special, returned>>
    BY <1>3 DEF flushed
  <2>2. pc' \in {"kbdone1", "kbinit"} /\ (pc' = "kbdone1" => calls' = <<"program">>)
           /\ (pc' = "kbinit" => calls' = <<"program", "kbinput">>)
    <3>1. kbcnvt("10") = <<"pause", "plain">> /\ <<"pause", "plain">> # <<>>
      BY DEF kbcnvt
    <3>2. goto("kbdone1") \/ jsr("kbinit", "kbinput")
      BY <2>1, <3>1 DEF convert
    <3> QED
      BY <1>1, <3>2, Returning DEF goto, jsr
  <2>3. Shape'
    BY <2>2 DEF Shape, Between, Resetting
  <2>4. calls' # <<"program", "kbinput1">>
    <3>1. <<"program", "kbinput">>[2] # <<"program", "kbinput1">>[2]
      OBVIOUS
    <3> QED
      BY <2>2, <3>1, Returning
  <2>5. <<"program", "kbinput">> # <<"program">>
    BY Returning
  <2>6. errors' \in {0, 1} /\ refused' = 0 /\ buffered' \in Seq(Scan)
    BY <1>1, <2>1 DEF keyboardVars
  <2> QED
    BY <2>2, <2>3, <2>4, <2>5, <2>6 DEF LedI, Getting, Resetting, Setting
<1> QED
  BY <1>2, <1>3

-----------------------------------------------------------------------------
LEMMA LedInit ==
  ASSUME Init
  PROVE  LedIInv
<1>1. <<"program">> # <<"program", "kbinput1">> /\ <<>> \in Seq(Scan)
  BY Returning
<1> QED
  BY <1>1 DEF Init, KeyboardInit, LedIInv, LedI, Shape, Resetting, Setting, Getting, Between

(* The damaged and the refused bytes are only counted up.                  *)
LEMMA Counted ==
  ASSUME errors \in Nat, refused \in Nat, [Next]_vars
  PROVE  /\ errors' \in Nat /\ refused' \in Nat
         /\ refused' = 0 /\ errors' <= 1 => refused = 0 /\ errors <= 1
<1>1. CASE UNCHANGED <<errors, refused>>
  BY <1>1
<1>2. ASSUME NEW c, NEW next, kbsend(c, next)
      PROVE  /\ errors' \in {errors, errors + 1} /\ refused' \in {refused, refused + 1}
  BY <1>2 DEF kbsend
<1>3. ASSUME kbgetAgain
      PROVE  /\ errors' \in {errors, errors + 1} /\ refused' \in {refused, refused + 1}
  BY <1>3 DEF kbgetAgain
<1>4. /\ errors' \in {errors, errors + 1} /\ refused' \in {refused, refused + 1}
  <2>1. CASE UNCHANGED vars \/ (User /\ UNCHANGED driverVars)
    BY <2>1 DEF vars, driverVars
  <2>2. CASE kbinit \/ kbinput \/ isOff \/ kbdone1 \/ isOn \/ callKbinput \/ flushed
    BY <2>2 DEF kbinit, kbinput, isOff, kbdone1, isOn, callKbinput, flushed, kbtscrl, jumps
  <2>3. CASE kbinit1 \/ kbsled \/ ledsSend \/ kbresend \/ kbflush
    BY <1>2, <2>3 DEF kbinit1, kbsled, ledsSend, kbresend, kbflush, sends
  <2>4. CASE resetAck \/ resetOk \/ ledsAck \/ kbinput1 \/ kbExt \/ kbrlse \/ kbBrk
    BY <1>3, <2>4 DEF resetAck, resetOk, ledsAck, kbinput1, kbExt, kbrlse, kbBrk, answered, kbget
  <2> QED
    BY <2>1, <2>2, <2>3, <2>4 DEF Next, Driver
<1> QED
  BY <1>4

LEMMA LedStep ==
  ASSUME LedIInv, [Next]_vars
  PROVE  LedIInv'
<1>1. /\ errors' \in Nat /\ refused' \in Nat
      /\ refused' = 0 /\ errors' <= 1 => refused = 0 /\ errors <= 1
  BY Counted DEF LedIInv
<1>2. SUFFICES ASSUME refused' = 0, errors' \in {0, 1}
               PROVE  LedI'
  BY <1>1 DEF LedIInv
<1>3. LedI
  BY <1>1, <1>2 DEF LedIInv
<1>4. CASE UNCHANGED vars
  BY <1>3, <1>4
     DEF LedI, vars, keyboardVars, driverVars, Shape, Lit, Pending, AnswerOnly, shownBits
<1>5. CASE User /\ UNCHANGED driverVars
  BY <1>3, <1>5, UserKeeps
<1>6. CASE kbinit \/ kbinit1 \/ resetAck \/ resetOk
  BY <1>2, <1>3, <1>6, ResetKeeps
<1>7. CASE kbsled \/ ledsAck
  BY <1>2, <1>3, <1>7, SetKeeps
<1>8. CASE ledsSend
  BY <1>2, <1>3, <1>8, SendKeeps
<1>9. CASE kbinput \/ kbdone1
  BY <1>2, <1>3, <1>9, TurnKeeps
<1>10. CASE isOff \/ isOn
  BY <1>2, <1>3, <1>10, TestKeeps
<1>11. CASE callKbinput
  BY <1>2, <1>3, <1>11, CallKeeps
<1>12. CASE kbinput1
  BY <1>2, <1>3, <1>12, FirstKeeps
<1>13. CASE kbExt \/ kbrlse \/ kbBrk
  BY <1>2, <1>3, <1>13, NextKeeps
<1>14. CASE kbresend
  BY <1>2, <1>3, <1>14, ResendKeeps
<1>15. CASE kbflush \/ flushed
  BY <1>2, <1>3, <1>15, FlushKeeps
<1> QED
  BY <1>4, <1>5, <1>6, <1>7, <1>8, <1>9, <1>10, <1>11, <1>12, <1>13, <1>14, <1>15
     DEF Next, Driver

LEMMA LedHolds ==
  ASSUME LedIInv
  PROVE  LedsShown
<1>1. SUFFICES ASSUME refused = 0, errors <= 1, LedI
               PROVE  /\ Waiting => leds = special \ {"ctrl", "shift"} /\ "scroll" \notin leds
                      /\ errors = 0 /\ pc = "program" /\ returned # <<>> => "scroll" \in leds
  BY DEF LedIInv, LedsShown
<1>2. Pending => ready
  BY DEF Pending, ready
<1>3. Waiting => Lit /\ "scroll" \notin special
  BY <1>1, <1>2 DEF LedI, Waiting, Getting
<1> QED
  BY <1>1, <1>3 DEF LedI, Lit, shownBits

(* Unless a byte is never acknowledged or two arrive damaged, the LEDs of  *)
(* the keyboard show what the driver of pckybd.asm keeps in special        *)
(* wherever kbinput waits for a key, with scroll lock out, and a program   *)
(* that has its character sees scroll lock lit.                            *)
THEOREM LedsAreShown == Spec => []LedsShown
<1>1. Init => LedIInv
  BY LedInit
<1>2. LedIInv /\ [Next]_vars => LedIInv'
  BY LedStep
<1>3. LedIInv => LedsShown
  BY LedHolds
<1> QED
  BY <1>1, <1>2, <1>3, PTL DEF Spec

-----------------------------------------------------------------------------
(* What is read from the keyboard, as a function.                          *)

(* The bytes that are scan codes, and the characters.                      *)
ScanCodes == Scan \ {"FF"}
Chars == {"letter", "F7", "print", "pause", "keypad", "cursor", "keypad *", "page down", "scroll"}
           \X {"plain", "shifted", "ctrl"}
Bits  == {"shift", "ctrl", "caps", "num"}

(* Where the driver is in the codes it reads: the place, the codes kbBrk   *)
(* still ignores, the bits but scroll lock, and the characters so far.     *)
St(at, left, bits, out) == [at |-> at, left |-> left, bits |-> bits, out |-> out]

Cnvt(code, bits) ==
  LET plainOr(k, shifted) == IF shifted THEN <<k, "shifted">> ELSE <<k, "plain">>
      shift == "shift" \in bits
  IN  CASE code = "1C" -> plainOr("letter", shift \/ "caps" \in bits)
        [] code = "02" -> plainOr("F7", shift)
        [] code = "0F" -> plainOr("print", shift)
        [] code = "10" -> plainOr("pause", FALSE)
        [] code = "75" -> plainOr("keypad", "num" \notin bits)
        [] code = "F5" -> plainOr("cursor", TRUE)
        [] code = "7C" -> plainOr("keypad *", "num" \notin bits)
        [] code = "FA" -> plainOr("page down", TRUE)
        [] code = "FE" -> plainOr("scroll", TRUE)
        [] OTHER       -> <<>>

(* A code is converted; a restart ends what can be said.                   *)
Convert(d, code) ==
  LET c == Cnvt(code, d.bits)
      ctrl == "ctrl" \in d.bits
  IN  IF c = <<>> THEN St("kbinput1", 0, d.bits, d.out)
      ELSE IF c = <<"print", "plain">> /\ ctrl THEN St("restarted", 0, d.bits, d.out)
      ELSE St("kbinput1", 0, d.bits,
              Append(d.out, IF ctrl /\ c[1] # "pause" THEN <<c[1], "ctrl">> ELSE c))

First(d, b) ==
  CASE b = "12" -> St("kbinput1", 0, d.bits \cup {"shift"}, d.out)
    [] b = "14" -> St("kbinput1", 0, d.bits \cup {"ctrl"}, d.out)
    [] b = "58" -> St("kbinput1", 0, toggled(d.bits, "caps"), d.out)
    [] b = "77" -> St("kbinput1", 0, toggled(d.bits, "num"), d.out)
    [] b = "E0" -> St("kbExt", 0, d.bits, d.out)
    [] b = "F0" -> St("kbrlse", 0, d.bits, d.out)
    [] b = "E1" -> St("kbBrk", 7, d.bits, d.out)
    [] OTHER    -> Convert(d, IF b = "83" THEN "02" ELSE b)

Behind(d, b) ==
  CASE b = "F0" -> St("kbexrls", 0, d.bits, d.out)
    [] b = "14" -> St("kbinput1", 0, d.bits \cup {"ctrl"}, d.out)
    [] OTHER    -> Convert(d, CASE b = "12" -> "00" [] b = "7C" -> "0F" [] b = "75" -> "F5"
                                [] OTHER -> b)

Released(d, b) ==
  CASE b = "14" -> St("kbinput1", 0, d.bits \ {"ctrl"}, d.out)
    [] b = "12" /\ d.at = "kbrlse" -> St("kbinput1", 0, d.bits \ {"shift"}, d.out)
    [] OTHER    -> St("kbinput1", 0, d.bits, d.out)

Parse(d, b) ==
  CASE d.at = "kbinput1" -> First(d, b)
    [] d.at = "kbExt"    -> Behind(d, b)
    [] d.at = "kbBrk"    -> IF d.left = 1 THEN Convert(d, "10")
                            ELSE St("kbBrk", d.left - 1, d.bits, d.out)
    [] d.at \in {"kbrlse", "kbexrls"} -> Released(d, b)
    [] OTHER -> d

(* Where the driver is now; a character that is to be returned counts.     *)
Done == \/ pc \in {"kbdone1", "isOn"}
        \/ pc \in Setting /\ calls = <<"program", "isOn">>

Current ==
  St(IF pc \in Getting THEN pc ELSE "kbinput1",
     IF pc = "kbBrk" THEN skip ELSE 0,
     IF pc = "kbinit" THEN {"num"} ELSE special \ {"scroll"},
     IF Done THEN Append(returned, char) ELSE returned)

(* A code that was damaged and is sent again.                              *)
Again == pc \in Getting /\ \E b \in ScanCodes : answer = <<b>>
Now   == IF Again THEN Parse(Current, Head(answer)) ELSE Current

(* What the user did.                                                      *)
Typed == St("kbinput1", 0, (held \cap {"shift", "ctrl"}) \cup locks, typed)

(* One history is the beginning of another.                                *)
Pre(a, b) ==
  /\ a \in Seq(Chars) /\ b \in Seq(Chars)
  /\ Len(a) <= Len(b) /\ \A i \in 1 .. Len(a) : a[i] = b[i]

(* Reading the codes s leads from d to e.                                  *)
Reads(d, s, e) ==
  \E st : /\ st[0] = d /\ st[Len(s)] = e
          /\ \A i \in 1 .. Len(s) : st[i] = Parse(st[i - 1], s[i])
          /\ \A i \in 0 .. Len(s) : Pre(st[i].out, e.out)

LEMMA PreTransitive ==
  ASSUME NEW a, NEW b, NEW c, Pre(a, b), Pre(b, c)
  PROVE  Pre(a, c)
<1>1. Len(a) \in Nat /\ Len(b) \in Nat /\ Len(c) \in Nat
  BY LenProperties DEF Pre
<1> QED
  BY <1>1 DEF Pre

LEMMA PreSame ==
  ASSUME NEW a \in Seq(Chars)
  PROVE  Pre(a, a)
<1>1. Len(a) \in Nat
  BY LenProperties
<1> QED
  BY <1>1 DEF Pre

LEMMA PreAppend ==
  ASSUME NEW a \in Seq(Chars), NEW c \in Chars
  PROVE  Pre(a, Append(a, c)) /\ Append(a, c) \in Seq(Chars)
<1>1. /\ Len(a) \in Nat /\ Append(a, c) \in Seq(Chars) /\ Len(Append(a, c)) = Len(a) + 1
      /\ \A i \in 1 .. Len(a) : Append(a, c)[i] = a[i]
  BY LenProperties, AppendProperties
<1> QED
  BY <1>1 DEF Pre

LEMMA ReadsNothing ==
  ASSUME NEW d, NEW e
  PROVE  /\ Reads(d, <<>>, e) => d = e
         /\ d.out \in Seq(Chars) => Reads(d, <<>>, d)
<1>1. Reads(d, <<>>, e) => d = e
  BY DEF Reads
<1>2. ASSUME d.out \in Seq(Chars)
      PROVE  Reads(d, <<>>, d)
  <2> DEFINE st == [i \in {0} |-> d]
  <2>1. st[0] = d /\ Len(<<>>) = 0 /\ Pre(d.out, d.out)
    BY <1>2, PreSame
  <2> HIDE DEF st
  <2>2. /\ st[0] = d /\ st[Len(<<>>)] = d
        /\ \A i \in 1 .. Len(<<>>) : st[i] = Parse(st[i - 1], <<>>[i])
        /\ \A i \in 0 .. Len(<<>>) : Pre(st[i].out, d.out)
    BY <2>1
  <2> QED
    BY <2>2 DEF Reads
<1> QED
  BY <1>1, <1>2

LEMMA ReadsOne ==
  ASSUME NEW S, NEW s \in Seq(S), s # <<>>, NEW d, NEW e, Reads(d, s, e)
  PROVE  Reads(Parse(d, Head(s)), Tail(s), e)
<1>1. PICK st : /\ st[0] = d /\ st[Len(s)] = e
                /\ \A i \in 1 .. Len(s) : st[i] = Parse(st[i - 1], s[i])
                /\ \A i \in 0 .. Len(s) : Pre(st[i].out, e.out)
  BY DEF Reads
<1>2. /\ Len(s) \in Nat \ {0} /\ Len(Tail(s)) = Len(s) - 1 /\ Head(s) = s[1]
      /\ \A i \in 1 .. Len(Tail(s)) : Tail(s)[i] = s[i + 1]
  BY EmptySeq, HeadTailProperties
<1> DEFINE n  == Len(s) - 1
           tt == [i \in 0 .. n |-> st[i + 1]]
<1>3. tt[0] = Parse(d, Head(s))
  BY <1>1, <1>2
<1>4. tt[n] = e
  BY <1>1, <1>2
<1>5. \A i \in 1 .. n : tt[i] = Parse(tt[i - 1], Tail(s)[i])
  <2> SUFFICES ASSUME NEW i \in 1 .. n
               PROVE  tt[i] = Parse(tt[i - 1], Tail(s)[i])
    OBVIOUS
  <2>1. tt[i] = st[i + 1] /\ tt[i - 1] = st[i]
    BY <1>2
  <2>2. i + 1 \in 1 .. Len(s) /\ (i + 1) - 1 = i
    BY <1>2
  <2>3. st[i + 1] = Parse(st[i], s[i + 1])
    BY <1>1, <2>2
  <2> QED
    BY <1>2, <2>1, <2>3
<1>6. \A i \in 0 .. n : Pre(tt[i].out, e.out)
  BY <1>1, <1>2
<1> HIDE DEF tt
<1> QED
  BY <1>2, <1>3, <1>4, <1>5, <1>6 DEF Reads

LEMMA ReadsOn ==
  ASSUME NEW S, NEW s \in Seq(S), NEW t \in Seq(S), NEW d, NEW e, NEW f,
         Reads(d, s, e), Reads(e, t, f)
  PROVE  Reads(d, s \o t, f)
<1>1. PICK st : /\ st[0] = d /\ st[Len(s)] = e
                /\ \A i \in 1 .. Len(s) : st[i] = Parse(st[i - 1], s[i])
                /\ \A i \in 0 .. Len(s) : Pre(st[i].out, e.out)
  BY DEF Reads
<1>2. PICK tt : /\ tt[0] = e /\ tt[Len(t)] = f
                /\ \A i \in 1 .. Len(t) : tt[i] = Parse(tt[i - 1], t[i])
                /\ \A i \in 0 .. Len(t) : Pre(tt[i].out, f.out)
  BY DEF Reads
<1> DEFINE m == Len(s)
           n == Len(t)
<1>3. /\ m \in Nat /\ n \in Nat /\ Len(s \o t) = m + n
      /\ \A i \in 1 .. m : (s \o t)[i] = s[i]
      /\ \A i \in (m + 1) .. (m + n) : (s \o t)[i] = t[i - m]
  BY LenProperties, ConcatProperties
<1> DEFINE ut == [i \in 0 .. (m + n) |-> IF i <= m THEN st[i] ELSE tt[i - m]]
<1>4. ut[0] = d /\ ut[m + n] = f
  <2>1. ut[0] = d
    BY <1>1, <1>3
  <2>2. CASE n = 0
    <3>1. ut[m + n] = st[m] /\ st[m] = e /\ tt[0] = e /\ tt[n] = f
      BY <1>1, <1>2, <1>3, <2>2
    <3> QED
      BY <2>1, <2>2, <3>1
  <2>3. CASE n # 0
    <3>1. ut[m + n] = tt[(m + n) - m] /\ (m + n) - m = n
      BY <1>3, <2>3
    <3> QED
      BY <1>2, <2>1, <3>1
  <2> QED
    BY <2>2, <2>3
<1>5. \A i \in 1 .. (m + n) : ut[i] = Parse(ut[i - 1], (s \o t)[i])
  <2> SUFFICES ASSUME NEW i \in 1 .. (m + n)
               PROVE  ut[i] = Parse(ut[i - 1], (s \o t)[i])
    OBVIOUS
  <2>1. CASE i <= m
    <3>1. ut[i] = st[i] /\ ut[i - 1] = st[i - 1] /\ i \in 1 .. m
      BY <1>3, <2>1
    <3> QED
      BY <1>1, <1>3, <3>1
  <2>2. CASE i = m + 1
    <3>1. ut[i] = tt[1] /\ ut[i - 1] = st[m] /\ n >= 1
      BY <1>3, <2>2
    <3>2. tt[1] = Parse(tt[0], t[1])
      BY <1>2, <1>3, <3>1
    <3>3. (s \o t)[i] = t[1]
      BY <1>3, <2>2
    <3> QED
      BY <1>1, <1>2, <3>1, <3>2, <3>3
  <2>3. CASE i > m + 1
    <3>1. ut[i] = tt[i - m] /\ ut[i - 1] = tt[(i - m) - 1] /\ i - m \in 1 .. n
      BY <1>3, <2>3
    <3>2. tt[i - m] = Parse(tt[(i - m) - 1], t[i - m])
      BY <1>2, <3>1
    <3>3. (s \o t)[i] = t[i - m]
      BY <1>3, <2>3
    <3> QED
      BY <3>1, <3>2, <3>3
  <2> QED
    BY <1>3, <2>1, <2>2, <2>3
<1>6. \A i \in 0 .. (m + n) : Pre(ut[i].out, f.out)
  <2> SUFFICES ASSUME NEW i \in 0 .. (m + n)
               PROVE  Pre(ut[i].out, f.out)
    OBVIOUS
  <2>1. CASE i <= m
    <3>1. ut[i] = st[i] /\ i \in 0 .. m
      BY <1>3, <2>1
    <3>2. Pre(st[i].out, e.out) /\ Pre(e.out, f.out)
      BY <1>1, <1>2, <1>3, <3>1
    <3> QED
      BY <3>1, <3>2, PreTransitive
  <2>2. CASE i > m
    <3>1. ut[i] = tt[i - m] /\ i - m \in 0 .. n
      BY <1>3, <2>2
    <3> QED
      BY <1>2, <3>1
  <2> QED
    BY <1>3, <2>1, <2>2
<1> HIDE DEF ut
<1> QED
  BY <1>3, <1>4, <1>5, <1>6 DEF Reads

-----------------------------------------------------------------------------
(* Reading the codes of one key.                                           *)

(* Short codes are read byte by byte.                                      *)
LEMMA ReadsByte ==
  ASSUME NEW S, NEW s \in Seq(S), Len(s) = 1,
         NEW d0, NEW d1,
         d1 = Parse(d0, s[1]),
         Pre(d0.out, d1.out), Pre(d1.out, d1.out)
  PROVE  Reads(d0, s, d1)
<1> DEFINE q  == <<d0, d1>>
           st == [i \in 0 .. 1 |-> q[i + 1]]
<1>1. /\ st[0] = d0
      /\ st[1] = d1
  OBVIOUS
<1> HIDE DEF q, st
<1>2. \A i \in 1 .. 1 : st[i] = Parse(st[i - 1], s[i])
  <2> SUFFICES ASSUME NEW i \in 1 .. 1
               PROVE  st[i] = Parse(st[i - 1], s[i])
    OBVIOUS
  <2>1. CASE i = 1
    BY <1>1, <2>1
  <2> QED
    BY <2>1
<1>3. \A i \in 0 .. 1 : Pre(st[i].out, d1.out)
  <2> SUFFICES ASSUME NEW i \in 0 .. 1
               PROVE  Pre(st[i].out, d1.out)
    OBVIOUS
  <2>1. CASE i = 0
    BY <1>1, <2>1
  <2>2. CASE i = 1
    BY <1>1, <2>2
  <2> QED
    BY <2>1, <2>2
<1> QED
  BY <1>1, <1>2, <1>3 DEF Reads

LEMMA ReadsTwo ==
  ASSUME NEW S, NEW s \in Seq(S), Len(s) = 2,
         NEW d0, NEW d1, NEW d2,
         d1 = Parse(d0, s[1]), d2 = Parse(d1, s[2]),
         Pre(d0.out, d2.out), Pre(d1.out, d2.out), Pre(d2.out, d2.out)
  PROVE  Reads(d0, s, d2)
<1> DEFINE q  == <<d0, d1, d2>>
           st == [i \in 0 .. 2 |-> q[i + 1]]
<1>1. /\ st[0] = d0
      /\ st[1] = d1
      /\ st[2] = d2
  OBVIOUS
<1> HIDE DEF q, st
<1>2. \A i \in 1 .. 2 : st[i] = Parse(st[i - 1], s[i])
  <2> SUFFICES ASSUME NEW i \in 1 .. 2
               PROVE  st[i] = Parse(st[i - 1], s[i])
    OBVIOUS
  <2>1. CASE i = 1
    BY <1>1, <2>1
  <2>2. CASE i = 2
    BY <1>1, <2>2
  <2> QED
    BY <2>1, <2>2
<1>3. \A i \in 0 .. 2 : Pre(st[i].out, d2.out)
  <2> SUFFICES ASSUME NEW i \in 0 .. 2
               PROVE  Pre(st[i].out, d2.out)
    OBVIOUS
  <2>1. CASE i = 0
    BY <1>1, <2>1
  <2>2. CASE i = 1
    BY <1>1, <2>2
  <2>3. CASE i = 2
    BY <1>1, <2>3
  <2> QED
    BY <2>1, <2>2, <2>3
<1> QED
  BY <1>1, <1>2, <1>3 DEF Reads

LEMMA ReadsFour ==
  ASSUME NEW S, NEW s \in Seq(S), Len(s) = 4,
         NEW d0, NEW d1, NEW d2, NEW d3, NEW d4,
         d1 = Parse(d0, s[1]), d2 = Parse(d1, s[2]), d3 = Parse(d2, s[3]), d4 = Parse(d3, s[4]),
         Pre(d0.out, d4.out), Pre(d1.out, d4.out), Pre(d2.out, d4.out), Pre(d3.out, d4.out),
         Pre(d4.out, d4.out)
  PROVE  Reads(d0, s, d4)
<1> DEFINE q  == <<d0, d1, d2, d3, d4>>
           st == [i \in 0 .. 4 |-> q[i + 1]]
<1>1. /\ st[0] = d0
      /\ st[1] = d1
      /\ st[2] = d2
      /\ st[3] = d3
      /\ st[4] = d4
  OBVIOUS
<1> HIDE DEF q, st
<1>2. \A i \in 1 .. 4 : st[i] = Parse(st[i - 1], s[i])
  <2> SUFFICES ASSUME NEW i \in 1 .. 4
               PROVE  st[i] = Parse(st[i - 1], s[i])
    OBVIOUS
  <2>1. CASE i = 1
    BY <1>1, <2>1
  <2>2. CASE i = 2
    BY <1>1, <2>2
  <2>3. CASE i = 3
    BY <1>1, <2>3
  <2>4. CASE i = 4
    BY <1>1, <2>4
  <2> QED
    BY <2>1, <2>2, <2>3, <2>4
<1>3. \A i \in 0 .. 4 : Pre(st[i].out, d4.out)
  <2> SUFFICES ASSUME NEW i \in 0 .. 4
               PROVE  Pre(st[i].out, d4.out)
    OBVIOUS
  <2>1. CASE i = 0
    BY <1>1, <2>1
  <2>2. CASE i = 1
    BY <1>1, <2>2
  <2>3. CASE i = 2
    BY <1>1, <2>3
  <2>4. CASE i = 3
    BY <1>1, <2>4
  <2>5. CASE i = 4
    BY <1>1, <2>5
  <2> QED
    BY <2>1, <2>2, <2>3, <2>4, <2>5
<1> QED
  BY <1>1, <1>2, <1>3 DEF Reads

LEMMA ReadsSix ==
  ASSUME NEW S, NEW s \in Seq(S), Len(s) = 6,
         NEW d0, NEW d1, NEW d2, NEW d3, NEW d4, NEW d5, NEW d6,
         d1 = Parse(d0, s[1]), d2 = Parse(d1, s[2]), d3 = Parse(d2, s[3]), d4 = Parse(d3, s[4]),
         d5 = Parse(d4, s[5]), d6 = Parse(d5, s[6]),
         Pre(d0.out, d6.out), Pre(d1.out, d6.out), Pre(d2.out, d6.out), Pre(d3.out, d6.out),
         Pre(d4.out, d6.out), Pre(d5.out, d6.out), Pre(d6.out, d6.out)
  PROVE  Reads(d0, s, d6)
<1> DEFINE q  == <<d0, d1, d2, d3, d4, d5, d6>>
           st == [i \in 0 .. 6 |-> q[i + 1]]
<1>1. /\ st[0] = d0
      /\ st[1] = d1
      /\ st[2] = d2
      /\ st[3] = d3
      /\ st[4] = d4
      /\ st[5] = d5
      /\ st[6] = d6
  OBVIOUS
<1> HIDE DEF q, st
<1>2. \A i \in 1 .. 6 : st[i] = Parse(st[i - 1], s[i])
  <2> SUFFICES ASSUME NEW i \in 1 .. 6
               PROVE  st[i] = Parse(st[i - 1], s[i])
    OBVIOUS
  <2>1. CASE i = 1
    BY <1>1, <2>1
  <2>2. CASE i = 2
    BY <1>1, <2>2
  <2>3. CASE i = 3
    BY <1>1, <2>3
  <2>4. CASE i = 4
    BY <1>1, <2>4
  <2>5. CASE i = 5
    BY <1>1, <2>5
  <2>6. CASE i = 6
    BY <1>1, <2>6
  <2> QED
    BY <2>1, <2>2, <2>3, <2>4, <2>5, <2>6
<1>3. \A i \in 0 .. 6 : Pre(st[i].out, d6.out)
  <2> SUFFICES ASSUME NEW i \in 0 .. 6
               PROVE  Pre(st[i].out, d6.out)
    OBVIOUS
  <2>1. CASE i = 0
    BY <1>1, <2>1
  <2>2. CASE i = 1
    BY <1>1, <2>2
  <2>3. CASE i = 2
    BY <1>1, <2>3
  <2>4. CASE i = 3
    BY <1>1, <2>4
  <2>5. CASE i = 4
    BY <1>1, <2>5
  <2>6. CASE i = 5
    BY <1>1, <2>6
  <2>7. CASE i = 6
    BY <1>1, <2>7
  <2> QED
    BY <2>1, <2>2, <2>3, <2>4, <2>5, <2>6, <2>7
<1> QED
  BY <1>1, <1>2, <1>3 DEF Reads

LEMMA ReadsEight ==
  ASSUME NEW S, NEW s \in Seq(S), Len(s) = 8,
         NEW d0, NEW d1, NEW d2, NEW d3, NEW d4, NEW d5, NEW d6, NEW d7, NEW d8,
         d1 = Parse(d0, s[1]), d2 = Parse(d1, s[2]), d3 = Parse(d2, s[3]), d4 = Parse(d3, s[4]),
         d5 = Parse(d4, s[5]), d6 = Parse(d5, s[6]), d7 = Parse(d6, s[7]), d8 = Parse(d7, s[8]),
         Pre(d0.out, d8.out), Pre(d1.out, d8.out), Pre(d2.out, d8.out), Pre(d3.out, d8.out),
         Pre(d4.out, d8.out), Pre(d5.out, d8.out), Pre(d6.out, d8.out), Pre(d7.out, d8.out),
         Pre(d8.out, d8.out)
  PROVE  Reads(d0, s, d8)
<1> DEFINE q  == <<d0, d1, d2, d3, d4, d5, d6, d7, d8>>
           st == [i \in 0 .. 8 |-> q[i + 1]]
<1>1. /\ st[0] = d0
      /\ st[1] = d1
      /\ st[2] = d2
      /\ st[3] = d3
      /\ st[4] = d4
      /\ st[5] = d5
      /\ st[6] = d6
      /\ st[7] = d7
      /\ st[8] = d8
  <2>1. /\ q[1] = d0 /\ q[2] = d1 /\ q[3] = d2 /\ q[4] = d3 /\ q[5] = d4
        /\ q[6] = d5 /\ q[7] = d6 /\ q[8] = d7 /\ q[9] = d8
    OBVIOUS
  <2> HIDE DEF q
  <2>2. /\ st[0] = q[1] /\ st[1] = q[2] /\ st[2] = q[3] /\ st[3] = q[4] /\ st[4] = q[5]
        /\ st[5] = q[6] /\ st[6] = q[7] /\ st[7] = q[8] /\ st[8] = q[9]
    OBVIOUS
  <2> QED
    BY <2>1, <2>2
<1> HIDE DEF q, st
<1>2. \A i \in 1 .. 8 : st[i] = Parse(st[i - 1], s[i])
  <2> SUFFICES ASSUME NEW i \in 1 .. 8
               PROVE  st[i] = Parse(st[i - 1], s[i])
    OBVIOUS
  <2>1. CASE i = 1
    BY <1>1, <2>1
  <2>2. CASE i = 2
    BY <1>1, <2>2
  <2>3. CASE i = 3
    BY <1>1, <2>3
  <2>4. CASE i = 4
    BY <1>1, <2>4
  <2>5. CASE i = 5
    BY <1>1, <2>5
  <2>6. CASE i = 6
    BY <1>1, <2>6
  <2>7. CASE i = 7
    BY <1>1, <2>7
  <2>8. CASE i = 8
    BY <1>1, <2>8
  <2> QED
    BY <2>1, <2>2, <2>3, <2>4, <2>5, <2>6, <2>7, <2>8
<1>3. \A i \in 0 .. 8 : Pre(st[i].out, d8.out)
  <2> SUFFICES ASSUME NEW i \in 0 .. 8
               PROVE  Pre(st[i].out, d8.out)
    OBVIOUS
  <2>1. CASE i = 0
    BY <1>1, <2>1
  <2>2. CASE i = 1
    BY <1>1, <2>2
  <2>3. CASE i = 2
    BY <1>1, <2>3
  <2>4. CASE i = 3
    BY <1>1, <2>4
  <2>5. CASE i = 4
    BY <1>1, <2>5
  <2>6. CASE i = 5
    BY <1>1, <2>6
  <2>7. CASE i = 6
    BY <1>1, <2>7
  <2>8. CASE i = 7
    BY <1>1, <2>8
  <2>9. CASE i = 8
    BY <1>1, <2>9
  <2>10. \/ i = 0 \/ i = 1 \/ i = 2 \/ i = 3 \/ i = 4
         \/ i = 5 \/ i = 6 \/ i = 7 \/ i = 8
    OBVIOUS
  <2> QED
    BY <2>1, <2>2, <2>3, <2>4, <2>5, <2>6, <2>7, <2>8, <2>9, <2>10, Zenon
<1> QED
  BY <1>1, <1>2, <1>3 DEF Reads

(* What one byte does to a driver that waits for the next code.            *)
LEMMA ParseFirst ==
  ASSUME NEW B, NEW O
  PROVE  LET d == St("kbinput1", 0, B, O) IN
         /\ Parse(d, "12") = St("kbinput1", 0, B \cup {"shift"}, O)
         /\ Parse(d, "14") = St("kbinput1", 0, B \cup {"ctrl"}, O)
         /\ Parse(d, "58") = St("kbinput1", 0, toggled(B, "caps"), O)
         /\ Parse(d, "77") = St("kbinput1", 0, toggled(B, "num"), O)
         /\ Parse(d, "E0") = St("kbExt", 0, B, O)
         /\ Parse(d, "F0") = St("kbrlse", 0, B, O)
         /\ Parse(d, "E1") = St("kbBrk", 7, B, O)
  BY DEF Parse, First, St

LEMMA ParseBehind ==
  ASSUME NEW B, NEW O
  PROVE  LET d == St("kbExt", 0, B, O) IN
         /\ Parse(d, "F0") = St("kbexrls", 0, B, O)
         /\ Parse(d, "12") = St("kbinput1", 0, B, O)
         /\ Parse(d, "75") = Convert(d, "F5")
         /\ Parse(d, "7C") = Convert(d, "0F")
  BY DEF Parse, Behind, Convert, Cnvt, St

LEMMA ParseReleased ==
  ASSUME NEW B, NEW O, NEW b
  PROVE  /\ b \notin {"12", "14"} =>
              Parse(St("kbrlse", 0, B, O), b) = St("kbinput1", 0, B, O)
         /\ Parse(St("kbrlse", 0, B, O), "12") = St("kbinput1", 0, B \ {"shift"}, O)
         /\ Parse(St("kbrlse", 0, B, O), "14") = St("kbinput1", 0, B \ {"ctrl"}, O)
  BY DEF Parse, Released, St

LEMMA ParseReleasedPlain ==
  ASSUME NEW B, NEW O, NEW b, b \notin {"12", "14"}
  PROVE  Parse(St("kbrlse", 0, B, O), b) = St("kbinput1", 0, B, O)
  BY DEF Parse, Released, St

LEMMA ParseBrk ==
  ASSUME NEW B, NEW O, NEW b
  PROVE  /\ \A n \in 2 .. 7 : Parse(St("kbBrk", n, B, O), b) = St("kbBrk", n - 1, B, O)
         /\ Parse(St("kbBrk", 1, B, O), b) = St("kbinput1", 0, B, Append(O, <<"pause", "plain">>))
<1>1. \A n \in 2 .. 7 : Parse(St("kbBrk", n, B, O), b) = St("kbBrk", n - 1, B, O)
  BY DEF Parse, St
<1>2. Parse(St("kbBrk", 1, B, O), b) = Convert(St("kbBrk", 1, B, O), "10")
  BY DEF Parse, St
<1>3. /\ Cnvt("10", B) = <<"pause", "plain">> /\ <<"pause", "plain">> # <<>>
      /\ <<"pause", "plain">> # <<"print", "plain">> /\ <<"pause", "plain">>[1] = "pause"
  BY DEF Cnvt
<1>4. St("kbBrk", 1, B, O).bits = B /\ St("kbBrk", 1, B, O).out = O
  BY DEF St
<1>5. Convert(St("kbBrk", 1, B, O), "10") = St("kbinput1", 0, B, Append(O, <<"pause", "plain">>))
  BY <1>3, <1>4 DEF Convert
<1> QED
  BY <1>1, <1>2, <1>5

-----------------------------------------------------------------------------
(* What the user types is what its codes are read as.                      *)

(* What the user did, or what a restart cuts off.                          *)
RightFor(e, t) == e = t \/ (e.at = "restarted" /\ Pre(e.out, t.out))

Mods   == (held \cap {"shift", "ctrl"}) \cup locks
UserOK == /\ typed \in Seq(Chars) /\ locks \subseteq {"num", "caps"}

LEMMA Converted ==
  ASSUME NEW at, NEW left, NEW B, NEW O \in Seq(Chars), NEW code
  PROVE  LET d == St(at, left, B, O)
             c == Cnvt(code, B)
             e == Convert(d, code)
         IN /\ c = <<>> => e = St("kbinput1", 0, B, O)
            /\ c = <<"print", "plain">> /\ "ctrl" \in B => e = St("restarted", 0, B, O)
            /\ c # <<>> /\ ~(c = <<"print", "plain">> /\ "ctrl" \in B) =>
                 e = St("kbinput1", 0, B, Append(O, IF "ctrl" \in B /\ c[1] # "pause"
                                                    THEN <<c[1], "ctrl">> ELSE c))
<1>1. <<"print", "plain">> # <<>>
  OBVIOUS
<1> QED
  BY <1>1 DEF Convert, St

(* The characters of the keys, and what is read for them.                  *)
LEMMA CharactersOfKeys ==
  ASSUME NEW O \in Seq(Chars), NEW c \in Chars
  PROVE  O \o <<>> = O /\ O \o <<c>> = Append(O, c)
<1>1. O \o <<>> = O
  BY ConcatEmptySeq
<1>2. O \o <<c>> = Append(O, c)
  BY AppendIsConcat
<1> QED
  BY <1>1, <1>2

(* Taking a code for the character the key stands for.                     *)
LEMMA TakesCharacter ==
  ASSUME UserOK, NEW k \in {"letter", "F7", "keypad", "cursor", "print"},
         NEW code, NEW at, NEW left,
         <<k, code>> \in {<<"letter", "1C">>, <<"F7", "02">>, <<"keypad", "75">>,
                          <<"cursor", "F5">>, <<"print", "0F">>}
  PROVE  LET e == Convert(St(at, left, Mods, typed), code)
         IN  /\ Pre(typed, e.out)
             /\ \/ e = St("kbinput1", 0, Mods, typed \o character(k))
                \/ e.at = "restarted" /\ Pre(e.out, typed \o character(k))
             /\ typed \o character(k) \in Seq(Chars)
<1> DEFINE B == Mods
           c == Cnvt(code, B)
           e == Convert(St(at, left, B, typed), code)
<1>1. /\ "shift" \in B <=> "shift" \in held
      /\ "ctrl" \in B <=> "ctrl" \in held
      /\ "caps" \in B <=> "caps" \in locks
      /\ "num" \in B <=> "num" \in locks
      /\ typed \in Seq(Chars)
  BY DEF UserOK, Mods
<1> HIDE DEF B
<1>2. c[1] = k /\ c \in {<<k, "plain">>, <<k, "shifted">>}
  <2>1. CASE k = "letter" /\ code = "1C"
    BY <2>1 DEF Cnvt
  <2>2. CASE k = "F7" /\ code = "02"
    BY <2>2 DEF Cnvt
  <2>3. CASE k = "keypad" /\ code = "75"
    BY <2>3 DEF Cnvt
  <2>4. CASE k = "cursor" /\ code = "F5"
    BY <2>4 DEF Cnvt
  <2>5. CASE k = "print" /\ code = "0F"
    BY <2>5 DEF Cnvt
  <2> QED
    BY <2>1, <2>2, <2>3, <2>4, <2>5
<1>3. /\ <<k, "plain">> \in Chars /\ <<k, "shifted">> \in Chars /\ <<k, "ctrl">> \in Chars
      /\ <<k, "plain">> # <<>> /\ <<k, "shifted">> # <<>>
  BY DEF Chars
<1>4. CASE c = <<"print", "plain">> /\ "ctrl" \in B
  <2>1. e = St("restarted", 0, B, typed)
    <3>1. c # <<>>
      BY <1>2, <1>3
    <3> QED
      BY <1>4, <3>1 DEF Convert, St
  <2>2. k = "print" /\ "shift" \notin held /\ "ctrl" \in held
    <3>1. k = "print"
      BY <1>2, <1>4
    <3>2. code = "0F"
      BY <3>1
    <3>3. "shift" \notin B
      BY <3>2, <1>4 DEF Cnvt
    <3> QED
      BY <1>1, <1>4, <3>1, <3>3
  <2>3. character(k) = <<>>
    BY <2>2 DEF character
  <2>4. typed \o character(k) = typed
    BY <2>3, <1>1, ConcatEmptySeq
  <2>5. e.at = "restarted" /\ e.out = typed
    BY <2>1 DEF St
  <2>6. Pre(typed, typed)
    BY <1>1, PreSame
  <2> QED
    BY <1>1, <2>4, <2>5, <2>6 DEF B
<1>5. CASE ~(c = <<"print", "plain">> /\ "ctrl" \in B)
  <2> DEFINE g == IF "ctrl" \in B /\ c[1] # "pause" THEN <<c[1], "ctrl">> ELSE c
  <2>1. e = St("kbinput1", 0, B, Append(typed, g))
    <3>1. c # <<>>
      BY <1>2, <1>3
    <3> QED
      BY <1>1, <1>5, <3>1, Converted
  <2>2. character(k) = <<g>> /\ g \in Chars
    <3>1. CASE "ctrl" \in held
      <4>1. g = <<k, "ctrl">>
        BY <1>1, <1>2, <3>1
      <4>2. character(k) = <<<<k, "ctrl">>>>
        <5>1. ~(k = "print" /\ "shift" \notin held)
          <6>1. k = "print" /\ "shift" \notin held => c = <<"print", "plain">>
            BY <1>1 DEF Cnvt
          <6> QED
            BY <1>1, <1>5, <3>1, <6>1
        <5> QED
          BY <3>1, <5>1 DEF character
      <4> QED
        BY <1>3, <4>1, <4>2
    <3>2. CASE "ctrl" \notin held
      <4>1. g = c
        BY <1>1, <3>2
      <4>2. CASE k = "letter"
        <5>1. code = "1C"
          BY <4>2
        <5> QED
          BY <1>1, <1>2, <1>3, <3>2, <4>1, <4>2, <5>1 DEF character, Cnvt
      <4>3. CASE k = "F7"
        <5>1. code = "02"
          BY <4>3
        <5> QED
          BY <1>1, <1>2, <1>3, <3>2, <4>1, <4>3, <5>1 DEF character, Cnvt
      <4>4. CASE k = "keypad"
        <5>1. code = "75"
          BY <4>4
        <5> QED
          BY <1>1, <1>2, <1>3, <3>2, <4>1, <4>4, <5>1 DEF character, Cnvt
      <4>5. CASE k = "cursor"
        <5>1. code = "F5"
          BY <4>5
        <5> QED
          BY <1>1, <1>2, <1>3, <3>2, <4>1, <4>5, <5>1 DEF character, Cnvt
      <4>6. CASE k = "print"
        <5>1. code = "0F"
          BY <4>6
        <5> QED
          BY <1>1, <1>2, <1>3, <3>2, <4>1, <4>6, <5>1 DEF character, Cnvt
      <4> QED
        BY <4>2, <4>3, <4>4, <4>5, <4>6
    <3> QED
      BY <3>1, <3>2
  <2> HIDE DEF g
  <2>3. typed \o character(k) = Append(typed, g)
    BY <1>1, <2>2, CharactersOfKeys
  <2>4. Pre(typed, Append(typed, g)) /\ Append(typed, g) \in Seq(Chars)
    BY <1>1, <2>2, PreAppend
  <2>5. e.out = Append(typed, g)
    BY <2>1 DEF St
  <2> QED
    BY <2>1, <2>3, <2>4, <2>5 DEF B
<1> QED
  BY <1>4, <1>5 DEF B

-----------------------------------------------------------------------------
LEMMA TypedIs ==
  /\ Typed = St("kbinput1", 0, Mods, typed) /\ Typed.out = typed
  /\ Typed' = St("kbinput1", 0, Mods', typed') /\ Typed'.out = typed'
  BY DEF Typed, Mods, St

(* What the code of a modifier or a lock makes of such a driver.           *)
LEMMA TypedFirst ==
  /\ Parse(Typed, "12") = St("kbinput1", 0, Mods \cup {"shift"}, typed)
  /\ Parse(Typed, "14") = St("kbinput1", 0, Mods \cup {"ctrl"}, typed)
  /\ Parse(Typed, "58") = St("kbinput1", 0, toggled(Mods, "caps"), typed)
  /\ Parse(Typed, "77") = St("kbinput1", 0, toggled(Mods, "num"), typed)
<1>1. Typed = St("kbinput1", 0, Mods, typed)
  BY TypedIs
<1> QED
  BY <1>1, ParseFirst

(* A key that stands for a character is read as that character.            *)
LEMMA PressCharacter ==
  ASSUME UserOK, NEW k \in Keys, Press(k), k \in {"letter", "F7", "keypad", "cursor", "print"}
  PROVE  /\ \E e : Reads(Typed, make(k), e) /\ RightFor(e, Typed')
         /\ UserOK' /\ Pre(typed, typed')
<1>1. /\ typed' = typed \o character(k) /\ Mods' = Mods /\ locks' = locks /\ typed \in Seq(Chars)
  BY DEF Press, Mods, UserOK
<1>2. ASSUME NEW at, NEW left, NEW code,
             <<k, code>> \in {<<"letter", "1C">>, <<"F7", "02">>, <<"keypad", "75">>,
                              <<"cursor", "F5">>, <<"print", "0F">>}
      PROVE  LET e == Convert(St(at, left, Mods, typed), code)
             IN  Pre(typed, e.out) /\ RightFor(e, Typed') /\ typed' \in Seq(Chars) /\ Pre(e.out, typed')
  <2> DEFINE e == Convert(St(at, left, Mods, typed), code)
  <2>1. /\ Pre(typed, e.out)
        /\ \/ e = St("kbinput1", 0, Mods, typed')
           \/ e.at = "restarted" /\ Pre(e.out, typed')
        /\ typed' \in Seq(Chars)
    BY <1>1, <1>2, TakesCharacter
  <2>2. Typed' = St("kbinput1", 0, Mods, typed')
    BY <1>1, TypedIs
  <2>3. RightFor(e, Typed')
    BY <2>1, <2>2, TypedIs DEF RightFor
  <2>4. Pre(e.out, typed')
    <3>1. e = St("kbinput1", 0, Mods, typed') => e.out = typed'
      BY DEF St
    <3> HIDE DEF e
    <3> QED
      BY <2>1, <3>1, PreSame
  <2> QED
    BY <2>1, <2>3, <2>4
<1>3. ASSUME NEW code, <<k, code>> \in {<<"letter", "1C">>, <<"F7", "02">>, <<"keypad", "75">>},
             NEW b, make(k) = <<b>>, Parse(Typed, b) = Convert(Typed, code)
      PROVE  /\ \E e : Reads(Typed, make(k), e) /\ RightFor(e, Typed')
             /\ typed' \in Seq(Chars) /\ Pre(typed, typed')
  <2> DEFINE e == Convert(St("kbinput1", 0, Mods, typed), code)
  <2>1. Pre(typed, e.out) /\ RightFor(e, Typed') /\ typed' \in Seq(Chars) /\ Pre(e.out, typed')
    BY <1>2, <1>3
  <2>2. Parse(Typed, b) = e
    BY <1>3, TypedIs
  <2> HIDE DEF e
  <2>3. <<b>> \in Seq({b}) /\ Len(<<b>>) = 1 /\ <<b>>[1] = b
    OBVIOUS
  <2>4. Pre(Typed.out, e.out) /\ Pre(e.out, e.out)
    BY <2>1, TypedIs, PreSame DEF Pre
  <2>5. Reads(Typed, <<b>>, e)
    BY <2>2, <2>3, <2>4, ReadsByte
  <2>6. Pre(typed, typed')
    BY <2>1, PreTransitive
  <2> QED
    BY <1>3, <2>1, <2>5, <2>6
<1>4. ASSUME NEW code, <<k, code>> \in {<<"cursor", "F5">>, <<"print", "0F">>},
             NEW b, make(k) = <<"E0", "12", "E0", b>>,
             Parse(St("kbExt", 0, Mods, typed), b) = Convert(St("kbExt", 0, Mods, typed), code)
      PROVE  /\ \E e : Reads(Typed, make(k), e) /\ RightFor(e, Typed')
             /\ typed' \in Seq(Chars) /\ Pre(typed, typed')
  <2> DEFINE x == St("kbExt", 0, Mods, typed)
             e == Convert(x, code)
             s == <<"E0", "12", "E0", b>>
  <2>1. Pre(typed, e.out) /\ RightFor(e, Typed') /\ typed' \in Seq(Chars) /\ Pre(e.out, typed')
    BY <1>2, <1>4
  <2>2. Parse(Typed, "E0") = x /\ Parse(x, "12") = Typed /\ Parse(x, b) = e /\ x.out = typed
    <3>1. Parse(Typed, "E0") = x
      BY TypedIs, ParseFirst
    <3>2. Parse(x, "12") = Typed
      BY TypedIs, ParseBehind
    <3>3. x.out = typed
      BY DEF St
    <3> QED
      BY <1>4, <3>1, <3>2, <3>3
  <2>3. s \in Seq({"E0", "12", b}) /\ Len(s) = 4 /\ s[1] = "E0" /\ s[2] = "12" /\ s[3] = "E0" /\ s[4] = b
    OBVIOUS
  <2> HIDE DEF e, x, s
  <2>4. Pre(Typed.out, e.out) /\ Pre(x.out, e.out) /\ Pre(e.out, e.out)
    BY <2>1, <2>2, TypedIs, PreSame DEF Pre
  <2>5. Reads(Typed, s, e)
    BY <2>2, <2>3, <2>4, ReadsFour
  <2>6. Pre(typed, typed')
    BY <2>1, PreTransitive
  <2> QED
    BY <1>4, <2>1, <2>5, <2>6 DEF s
<1>5. CASE k \in {"letter", "F7", "keypad"}
  <2>1. /\ Parse(Typed, "1C") = Convert(Typed, "1C")
        /\ Parse(Typed, "83") = Convert(Typed, "02")
        /\ Parse(Typed, "75") = Convert(Typed, "75")
    <3> DEFINE d == St("kbinput1", 0, Mods, typed)
    <3>1. /\ Parse(d, "1C") = Convert(d, "1C")
          /\ Parse(d, "83") = Convert(d, "02")
          /\ Parse(d, "75") = Convert(d, "75")
      BY DEF Parse, First, St
    <3>2. Typed = d
      BY TypedIs
    <3> HIDE DEF d
    <3> QED
      BY <3>1, <3>2
  <2>2. CASE k = "letter"
    <3>1. make(k) = <<"1C">>
      BY <2>2 DEF make
    <3>2. Parse(Typed, "1C") = Convert(Typed, "1C")
      BY <2>1
    <3> QED
      BY <1>1, <1>3, <2>2, <3>1, <3>2 DEF UserOK
  <2>3. CASE k = "F7"
    <3>1. make(k) = <<"83">>
      BY <2>3 DEF make
    <3>2. Parse(Typed, "83") = Convert(Typed, "02")
      BY <2>1
    <3> QED
      BY <1>1, <1>3, <2>3, <3>1, <3>2 DEF UserOK
  <2>4. CASE k = "keypad"
    <3>1. make(k) = <<"75">>
      BY <2>4 DEF make
    <3>2. Parse(Typed, "75") = Convert(Typed, "75")
      BY <2>1
    <3> QED
      BY <1>1, <1>3, <2>4, <3>1, <3>2 DEF UserOK
  <2> QED
    BY <1>5, <2>2, <2>3, <2>4
<1>6. CASE k = "cursor"
  <2>1. make(k) = <<"E0", "12", "E0", "75">>
    BY <1>6 DEF make
  <2>2. Parse(St("kbExt", 0, Mods, typed), "75") = Convert(St("kbExt", 0, Mods, typed), "F5")
    BY ParseBehind
  <2> QED
    BY <1>1, <1>4, <1>6, <2>1, <2>2 DEF UserOK
<1>7. CASE k = "print"
  <2>1. make(k) = <<"E0", "12", "E0", "7C">>
    BY <1>7 DEF make
  <2>2. Parse(St("kbExt", 0, Mods, typed), "7C") = Convert(St("kbExt", 0, Mods, typed), "0F")
    BY ParseBehind
  <2> QED
    BY <1>1, <1>4, <1>7, <2>1, <2>2 DEF UserOK
<1> QED
  BY <1>5, <1>6, <1>7

(* A modifier or a lock is read as one.                                    *)
LEMMA PressModifier ==
  ASSUME UserOK, NEW k \in Keys, Press(k), k \in {"shift", "ctrl", "caps", "num"}
  PROVE  /\ \E e : Reads(Typed, make(k), e) /\ RightFor(e, Typed')
         /\ UserOK' /\ Pre(typed, typed')
<1>1. typed \in Seq(Chars) /\ locks \subseteq {"num", "caps"}
  BY DEF UserOK
<1>2. typed' = typed
  <2>1. character(k) = <<>>
    BY DEF character
  <2> QED
    BY <1>1, <2>1, ConcatEmptySeq DEF Press
<1>3. UserOK'
  BY <1>1, <1>2 DEF UserOK, Press, toggled
<1>4. Pre(typed, typed') /\ Pre(typed, typed)
  BY <1>1, <1>2, PreSame
<1>5. \E b : make(k) = <<b>> /\ Parse(Typed, b) = Typed'
  <2>1. CASE k = "shift"
    <3>1. make(k) = <<"12">>
      BY <2>1 DEF make
    <3>2. Mods' = Mods \cup {"shift"}
      BY <1>1, <2>1 DEF Mods, Press
    <3>3. Parse(Typed, "12") = Typed'
      BY <1>2, <3>2, TypedIs, TypedFirst
    <3> QED
      BY <3>1, <3>3
  <2>2. CASE k = "ctrl"
    <3>1. make(k) = <<"14">>
      BY <2>2 DEF make
    <3>2. Mods' = Mods \cup {"ctrl"}
      BY <1>1, <2>2 DEF Mods, Press
    <3>3. Parse(Typed, "14") = Typed'
      BY <1>2, <3>2, TypedIs, TypedFirst
    <3> QED
      BY <3>1, <3>3
  <2>3. CASE k = "caps"
    <3>1. make(k) = <<"58">>
      BY <2>3 DEF make
    <3>2. Mods' = toggled(Mods, "caps")
      BY <1>1, <2>3 DEF Mods, Press, toggled
    <3>3. Parse(Typed, "58") = Typed'
      BY <1>2, <3>2, TypedIs, TypedFirst
    <3> QED
      BY <3>1, <3>3
  <2>4. CASE k = "num"
    <3>1. make(k) = <<"77">>
      BY <2>4 DEF make
    <3>2. Mods' = toggled(Mods, "num")
      BY <1>1, <2>4 DEF Mods, Press, toggled
    <3>3. Parse(Typed, "77") = Typed'
      BY <1>2, <3>2, TypedIs, TypedFirst
    <3> QED
      BY <3>1, <3>3
  <2> QED
    BY <2>1, <2>2, <2>3, <2>4
<1>6. PICK b : make(k) = <<b>> /\ Parse(Typed, b) = Typed'
  BY <1>5
<1>7. <<b>> \in Seq({b}) /\ Len(<<b>>) = 1 /\ <<b>>[1] = b
  OBVIOUS
<1>8. Typed.out = typed /\ Typed'.out = typed
  BY <1>2, TypedIs
<1>9. Reads(Typed, <<b>>, Typed')
  BY <1>4, <1>6, <1>7, <1>8, ReadsByte
<1>10. RightFor(Typed', Typed')
  BY DEF RightFor
<1> QED
  BY <1>3, <1>4, <1>6, <1>9, <1>10

(* Pause is read as one character, whatever its eight codes say.           *)
LEMMA PressPause ==
  ASSUME UserOK, NEW k \in Keys, Press(k), k = "pause"
  PROVE  /\ \E e : Reads(Typed, make(k), e) /\ RightFor(e, Typed')
         /\ UserOK' /\ Pre(typed, typed')
<1> DEFINE s == <<"E1", "14", "77", "E1", "F0", "14", "F0", "77">>
           c == <<"pause", "plain">>
           x(n) == St("kbBrk", n, Mods, typed)
           e == St("kbinput1", 0, Mods, Append(typed, c))
<1>1. typed \in Seq(Chars) /\ c \in Chars /\ make(k) = s /\ Mods' = Mods /\ locks' = locks
  BY DEF UserOK, Chars, make, Mods, Press
<1>2. typed' = Append(typed, c)
  <2>1. character(k) = <<c>>
    BY DEF character
  <2> QED
    BY <1>1, <2>1, CharactersOfKeys DEF Press
<1>3. Pre(typed, typed') /\ typed' \in Seq(Chars) /\ Pre(typed', typed')
  BY <1>1, <1>2, PreAppend, PreSame
<1>4. UserOK'
  BY <1>1, <1>3 DEF UserOK
<1>5. RightFor(e, Typed')
  BY <1>1, <1>2, TypedIs DEF RightFor
<1>6. /\ s \in Seq(Scan) /\ Len(s) = 8
      /\ s[1] = "E1"
  BY DEF Scan
<1>7. \A n \in 1 .. 7 : x(n).out = typed
  BY DEF St
<1>8. e.out = typed'
  BY <1>2 DEF St
<1>9. Parse(Typed, "E1") = x(7)
  BY TypedIs, ParseFirst
<1>10. \A b : \A n \in 2 .. 7 : Parse(x(n), b) = x(n - 1)
  BY ParseBrk
<1>11. \A b : Parse(x(1), b) = e
  BY ParseBrk
<1> HIDE DEF s, x, e, c
<1>12. /\ x(7) = Parse(Typed, s[1]) /\ x(6) = Parse(x(7), s[2]) /\ x(5) = Parse(x(6), s[3])
       /\ x(4) = Parse(x(5), s[4]) /\ x(3) = Parse(x(4), s[5]) /\ x(2) = Parse(x(3), s[6])
       /\ x(1) = Parse(x(2), s[7]) /\ e = Parse(x(1), s[8])
  <2>1. x(7) = Parse(Typed, s[1])
    BY <1>6, <1>9
  <2>2. /\ 7 - 1 = 6 /\ 6 - 1 = 5 /\ 5 - 1 = 4 /\ 4 - 1 = 3 /\ 3 - 1 = 2 /\ 2 - 1 = 1
        /\ \A n \in {2, 3, 4, 5, 6, 7} : n \in 2 .. 7
    OBVIOUS
  <2>3. x(6) = Parse(x(7), s[2]) /\ x(5) = Parse(x(6), s[3]) /\ x(4) = Parse(x(5), s[4])
    BY <1>10, <2>2
  <2>4. x(3) = Parse(x(4), s[5]) /\ x(2) = Parse(x(3), s[6]) /\ x(1) = Parse(x(2), s[7])
    BY <1>10, <2>2
  <2> QED
    BY <1>11, <2>1, <2>3, <2>4
<1>13. /\ Pre(Typed.out, e.out) /\ Pre(e.out, e.out)
       /\ Pre(x(7).out, e.out) /\ Pre(x(6).out, e.out) /\ Pre(x(5).out, e.out) /\ Pre(x(4).out, e.out)
       /\ Pre(x(3).out, e.out) /\ Pre(x(2).out, e.out) /\ Pre(x(1).out, e.out)
  BY <1>3, <1>7, <1>8, TypedIs
<1>14. Reads(Typed, s, e)
  BY <1>6, <1>12, <1>13, ReadsEight
<1> QED
  BY <1>1, <1>3, <1>4, <1>5, <1>14

-----------------------------------------------------------------------------
(* The release of a key that stands for a character is read as nothing.    *)
LEMMA ReleaseCharacter ==
  ASSUME UserOK, NEW k \in Keys, Release(k), k \notin {"shift", "ctrl"}
  PROVE  Reads(Typed, break(k), Typed) /\ Typed' = Typed
<1>1. typed \in Seq(Chars) /\ typed' = typed /\ Mods' = Mods
  BY DEF Release, Mods, UserOK
<1>2. Typed' = Typed
  BY <1>1, TypedIs
<1>3. Pre(typed, typed) /\ Pre(Typed.out, Typed.out)
  BY <1>1, PreSame, TypedIs
<1>4. CASE k = "pause"
  <2>1. break(k) = <<>>
    BY <1>4 DEF break
  <2> QED
    BY <1>1, <1>2, <2>1, TypedIs, ReadsNothing
<1>5. ASSUME NEW b, b \notin {"12", "14"}, break(k) = <<"F0", b>>
      PROVE  Reads(Typed, break(k), Typed)
  <2> DEFINE s == <<"F0", b>>
             x == St("kbrlse", 0, Mods, typed)
  <2>1. s \in Seq({"F0", b}) /\ Len(s) = 2 /\ s[1] = "F0" /\ s[2] = b
    OBVIOUS
  <2>2. Parse(Typed, "F0") = x
    BY TypedIs, ParseFirst
  <2>3. Parse(x, b) = Typed
    <3>1. x = St("kbrlse", 0, Mods, typed) /\ Typed = St("kbinput1", 0, Mods, typed)
      BY TypedIs
    <3>2. Parse(St("kbrlse", 0, Mods, typed), b) = St("kbinput1", 0, Mods, typed)
      <4> HIDE DEF s, x
      <4> QED
        BY <1>5, ParseReleasedPlain
    <3> HIDE DEF x
    <3> QED
      BY <3>1, <3>2, Zenon
  <2>4. x.out = typed
    BY DEF St
  <2> HIDE DEF s, x
  <2>5. Pre(x.out, Typed.out)
    BY <1>3, <2>4, TypedIs
  <2>6. Reads(Typed, s, Typed)
    BY <1>3, <2>1, <2>2, <2>3, <2>5, ReadsTwo
  <2> QED
    BY <1>5, <2>6 DEF s
<1>6. ASSUME NEW b, b # "14", break(k) = <<"E0", "F0", b, "E0", "F0", "12">>
      PROVE  Reads(Typed, break(k), Typed)
  <2> DEFINE s == <<"E0", "F0", b, "E0", "F0", "12">>
             x == St("kbExt", 0, Mods, typed)
             y == St("kbexrls", 0, Mods, typed)
  <2>1. /\ s \in Seq({"E0", "F0", "12", b}) /\ Len(s) = 6
        /\ s[1] = "E0" /\ s[2] = "F0" /\ s[3] = b /\ s[4] = "E0" /\ s[5] = "F0" /\ s[6] = "12"
    OBVIOUS
  <2>2. Parse(Typed, "E0") = x
    BY TypedIs, ParseFirst
  <2>3. Parse(x, "F0") = y
    BY ParseBehind
  <2>4. Parse(y, b) = Typed /\ Parse(y, "12") = Typed
    <3>1. y = St("kbexrls", 0, Mods, typed) /\ Typed = St("kbinput1", 0, Mods, typed)
      BY TypedIs
    <3>2. Parse(y, b) = Typed
      BY <1>6, <3>1 DEF Parse, Released, St
    <3>3. Parse(y, "12") = Typed
      BY <3>1 DEF Parse, Released, St
    <3> QED
      BY <3>2, <3>3
  <2>5. x.out = typed /\ y.out = typed
    BY DEF St
  <2> HIDE DEF s, x, y
  <2>6. Pre(x.out, Typed.out) /\ Pre(y.out, Typed.out)
    BY <1>3, <2>5, TypedIs
  <2>7. Reads(Typed, s, Typed)
    BY <1>3, <2>1, <2>2, <2>3, <2>4, <2>6, ReadsSix
  <2> QED
    BY <1>6, <2>7 DEF s
<1>7. ASSUME NEW b, make(k) = <<b>>, k \notin {"cursor", "print", "pause"}
      PROVE  break(k) = <<"F0", b>>
  <2>1. break(k) = <<"F0">> \o <<b>>
    BY <1>7 DEF break
  <2>2. <<"F0">> \in Seq({"F0", b}) /\ <<b>> \in Seq({"F0", b}) /\ b \in {"F0", b}
    OBVIOUS
  <2>3. <<"F0">> \o <<b>> = Append(<<"F0">>, b)
    BY <2>2, AppendIsConcat
  <2> QED
    BY <2>1, <2>3, AppendToOne
<1>8. CASE k \in {"letter", "F7", "keypad", "caps", "num"}
  <2>1. \E b \in {"1C", "83", "75", "58", "77"} : make(k) = <<b>>
    <3>1. CASE k = "letter"
      BY <3>1 DEF make
    <3>2. CASE k = "F7"
      BY <3>2 DEF make
    <3>3. CASE k = "keypad"
      BY <3>3 DEF make
    <3>4. CASE k = "caps"
      BY <3>4 DEF make
    <3>5. CASE k = "num"
      BY <3>5 DEF make
    <3> QED
      BY <1>8, <3>1, <3>2, <3>3, <3>4, <3>5
  <2>2. PICK b \in {"1C", "83", "75", "58", "77"} : make(k) = <<b>>
    BY <2>1
  <2>3. break(k) = <<"F0", b>>
    BY <1>7, <1>8, <2>2
  <2> QED
    BY <1>2, <1>5, <2>3
<1>9. CASE k = "cursor"
  <2>1. break(k) = <<"E0", "F0", "75", "E0", "F0", "12">>
    BY <1>9 DEF break
  <2> QED
    BY <1>2, <1>6, <2>1
<1>10. CASE k = "print"
  <2>1. break(k) = <<"E0", "F0", "7C", "E0", "F0", "12">>
    BY <1>10 DEF break
  <2> QED
    BY <1>2, <1>6, <2>1
<1> QED
  BY <1>4, <1>8, <1>9, <1>10, KeyboardAssumption

LEMMA ReleaseModifier ==
  ASSUME UserOK, NEW k \in Keys, Release(k), k \in {"shift", "ctrl"}
  PROVE  Reads(Typed, break(k), Typed')
<1>1. typed \in Seq(Chars) /\ typed' = typed /\ locks' = locks
  BY DEF Release, UserOK
<1>2. Mods' = Mods \ {k}
  BY <1>1 DEF Release, Mods, UserOK
<1>3. Pre(typed, typed) /\ Typed.out = typed /\ Typed'.out = typed
  BY <1>1, PreSame, TypedIs
<1>4. \E b \in {"12", "14"} : make(k) = <<b>> /\ Parse(St("kbrlse", 0, Mods, typed), b) = Typed'
  <2>1. CASE k = "shift"
    <3>1. make(k) = <<"12">>
      BY <2>1 DEF make
    <3>2. Parse(St("kbrlse", 0, Mods, typed), "12") = St("kbinput1", 0, Mods \ {"shift"}, typed)
      BY ParseReleased
    <3>3. Typed' = St("kbinput1", 0, Mods \ {"shift"}, typed)
      BY <1>1, <1>2, <2>1, TypedIs
    <3> QED
      BY <3>1, <3>2, <3>3
  <2>2. CASE k = "ctrl"
    <3>1. make(k) = <<"14">>
      BY <2>2 DEF make
    <3>2. Parse(St("kbrlse", 0, Mods, typed), "14") = St("kbinput1", 0, Mods \ {"ctrl"}, typed)
      BY ParseReleased
    <3>3. Typed' = St("kbinput1", 0, Mods \ {"ctrl"}, typed)
      BY <1>1, <1>2, <2>2, TypedIs
    <3> QED
      BY <3>1, <3>2, <3>3
  <2> QED
    BY <2>1, <2>2
<1>5. PICK b \in {"12", "14"} : make(k) = <<b>> /\ Parse(St("kbrlse", 0, Mods, typed), b) = Typed'
  BY <1>4
<1> DEFINE s == <<"F0", b>>
           x == St("kbrlse", 0, Mods, typed)
<1>6. break(k) = s
  <2>1. break(k) = <<"F0">> \o <<b>>
    BY <1>5 DEF break
  <2>2. <<"F0">> \in Seq({"F0", b}) /\ <<b>> \in Seq({"F0", b}) /\ b \in {"F0", b}
    OBVIOUS
  <2>3. <<"F0">> \o <<b>> = Append(<<"F0">>, b)
    BY <2>2, AppendIsConcat
  <2> QED
    BY <2>1, <2>3, AppendToOne
<1>7. s \in Seq({"F0", b}) /\ Len(s) = 2 /\ s[1] = "F0" /\ s[2] = b
  OBVIOUS
<1>8. Parse(Typed, "F0") = x
  BY TypedIs, ParseFirst
<1>9. x.out = typed /\ Parse(x, b) = Typed'
  BY <1>5 DEF St
<1> HIDE DEF s, x
<1>10. Pre(Typed.out, Typed'.out) /\ Pre(x.out, Typed'.out) /\ Pre(Typed'.out, Typed'.out)
  BY <1>3, <1>9
<1>11. Reads(Typed, s, Typed')
  BY <1>7, <1>8, <1>9, <1>10, ReadsTwo
<1> QED
  BY <1>6, <1>11

(* Behind a restart nothing is read any more.                              *)
LEMMA ReadsRestarted ==
  ASSUME NEW S, NEW s \in Seq(S), NEW e, e.at = "restarted", e.out \in Seq(Chars)
  PROVE  Reads(e, s, e)
<1> DEFINE st == [i \in 0 .. Len(s) |-> e]
<1>1. Len(s) \in Nat
  BY LenProperties
<1>2. \A b : Parse(e, b) = e
  BY DEF Parse
<1>3. Pre(e.out, e.out)
  BY PreSame
<1>4. \A i \in 0 .. Len(s) : st[i] = e
  OBVIOUS
<1> HIDE DEF st
<1>5. /\ st[0] = e /\ st[Len(s)] = e
      /\ \A i \in 1 .. Len(s) : st[i] = Parse(st[i - 1], s[i])
      /\ \A i \in 0 .. Len(s) : Pre(st[i].out, e.out)
  BY <1>1, <1>2, <1>3, <1>4
<1> QED
  BY <1>5 DEF Reads

(* Whatever the user does next is read behind the codes that are still to  *)
(* come, unless the keyboard's buffer is full.                             *)
LEMMA UserReads ==
  ASSUME UserOK, User, NEW d, NEW e, Reads(d, buffered, e), RightFor(e, Typed),
         buffered \in Seq(ScanCodes), ~forgotten'
  PROVE  /\ UserOK' /\ \E f : Reads(d, buffered', f) /\ RightFor(f, Typed')
         /\ Pre(typed, typed') /\ UNCHANGED <<answer, wantsLeds, leds, sent>>
<1>1. PICK k \in Keys : Press(k) \/ Release(k)
  BY DEF User
<1>2. UserOK' /\ Pre(typed, typed') /\ UNCHANGED <<answer, wantsLeds, leds, sent>>
  <2>1. CASE Press(k)
    <3>1. CASE k \in {"letter", "F7", "keypad", "cursor", "print"}
      BY <2>1, <3>1, PressCharacter DEF Press
    <3>2. CASE k \in {"shift", "ctrl", "caps", "num"}
      BY <2>1, <3>2, PressModifier DEF Press
    <3>3. CASE k = "pause"
      BY <2>1, <3>3, PressPause DEF Press
    <3> QED
      BY <3>1, <3>2, <3>3, KeyboardAssumption
  <2>2. CASE Release(k)
    BY <2>2, PreSame DEF Release, UserOK
  <2> QED
    BY <1>1, <2>1, <2>2
<1>3. ASSUME NEW codes \in Seq(Scan), put(codes), \E f : Reads(Typed, codes, f) /\ RightFor(f, Typed')
      PROVE  \E f : Reads(d, buffered', f) /\ RightFor(f, Typed')
  <2>1. buffered' = buffered \o codes
    BY <1>3 DEF put
  <2>2. buffered \in Seq(Scan)
    <3>1. ScanCodes \subseteq Scan
      BY DEF ScanCodes
    <3> QED
      BY <3>1
  <2>3. CASE e = Typed
    <3>1. PICK f : Reads(Typed, codes, f) /\ RightFor(f, Typed')
      BY <1>3
    <3>2. Reads(d, buffered \o codes, f)
      BY <2>2, <2>3, <3>1, ReadsOn
    <3> QED
      BY <2>1, <3>1, <3>2
  <2>4. CASE e.at = "restarted" /\ Pre(e.out, Typed.out)
    <3>1. Reads(e, codes, e)
      BY <2>4, ReadsRestarted DEF Pre
    <3>2. Reads(d, buffered \o codes, e)
      BY <2>2, <3>1, ReadsOn
    <3>3. Pre(e.out, Typed'.out)
      BY <1>2, <2>4, PreTransitive, TypedIs
    <3> QED
      BY <2>1, <2>4, <3>2, <3>3 DEF RightFor
  <2> QED
    BY <2>3, <2>4 DEF RightFor
<1>4. CASE Press(k)
  <2>1. make(k) \in Seq(Scan) /\ put(make(k))
    BY <1>4, KeysSendScanCodes DEF Press
  <2>2. \E f : Reads(Typed, make(k), f) /\ RightFor(f, Typed')
    <3>1. CASE k \in {"letter", "F7", "keypad", "cursor", "print"}
      BY <1>4, <3>1, PressCharacter
    <3>2. CASE k \in {"shift", "ctrl", "caps", "num"}
      BY <1>4, <3>2, PressModifier
    <3>3. CASE k = "pause"
      BY <1>4, <3>3, PressPause
    <3> QED
      BY <3>1, <3>2, <3>3, KeyboardAssumption
  <2> QED
    BY <1>2, <1>3, <2>1, <2>2
<1>5. CASE Release(k)
  <2>1. break(k) \in Seq(Scan) /\ put(break(k))
    BY <1>5, KeysSendScanCodes DEF Release
  <2>2. Reads(Typed, break(k), Typed')
    BY <1>5, ReleaseCharacter, ReleaseModifier
  <2>3. RightFor(Typed', Typed')
    BY DEF RightFor
  <2> QED
    BY <1>2, <1>3, <2>1, <2>2, <2>3
<1> QED
  BY <1>1, <1>4, <1>5
(* No key sends the overflow code.                                         *)
LEMMA KeysSendCodes ==
  ASSUME NEW k \in Keys
  PROVE  make(k) \in Seq(ScanCodes) /\ break(k) \in Seq(ScanCodes)
<1>1. /\ <<"1C">> \in Seq(ScanCodes) /\ <<"83">> \in Seq(ScanCodes) /\ <<"75">> \in Seq(ScanCodes)
      /\ <<"12">> \in Seq(ScanCodes) /\ <<"14">> \in Seq(ScanCodes) /\ <<"58">> \in Seq(ScanCodes)
      /\ <<"77">> \in Seq(ScanCodes) /\ <<"F0">> \in Seq(ScanCodes) /\ <<>> \in Seq(ScanCodes)
  BY DEF ScanCodes, Scan
<1>2. <<"E0", "12", "E0", "75">> \in Seq(ScanCodes) /\ <<"E0", "12", "E0", "7C">> \in Seq(ScanCodes)
  BY DEF ScanCodes, Scan
<1>3. <<"E1", "14", "77", "E1", "F0", "14", "F0", "77">> \in Seq(ScanCodes)
  BY DEF ScanCodes, Scan
<1>4. /\ <<"E0", "F0", "75", "E0", "F0", "12">> \in Seq(ScanCodes)
      /\ <<"E0", "F0", "7C", "E0", "F0", "12">> \in Seq(ScanCodes)
  BY DEF ScanCodes, Scan
<1>5. make(k) \in Seq(ScanCodes)
  <2>1. CASE k \in {"letter", "F7", "keypad", "shift", "ctrl", "caps", "num"}
    <3>1. make(k) \in {<<"1C">>, <<"83">>, <<"75">>, <<"12">>, <<"14">>, <<"58">>, <<"77">>}
      BY <2>1, Zenon DEF make
    <3> QED
      BY <1>1, <3>1
  <2>2. CASE k = "pause"
    BY <1>3, <2>2 DEF make
  <2>3. CASE k \in {"cursor", "print"}
    BY <1>2, <2>3 DEF make
  <2> QED
    BY <2>1, <2>2, <2>3, KeyboardAssumption
<1>6. CASE k \in {"cursor", "print", "pause"}
  BY <1>1, <1>4, <1>5, <1>6 DEF break
<1>7. CASE k \notin {"cursor", "print", "pause"}
  <2>1. break(k) = <<"F0">> \o make(k)
    BY <1>7 DEF break
  <2> QED
    BY <1>1, <1>5, <2>1, ConcatProperties
<1>8. break(k) \in Seq(ScanCodes)
  BY <1>6, <1>7
<1> QED
  BY <1>5, <1>8

-----------------------------------------------------------------------------
(* The invariant of the keys.                                              *)

Fe       == answer = <<"FE">> /\ sent = "FA" /\ \E lit : lastbyte = ledByte(lit)
CodeOnly == answer = <<>> \/ \E b \in ScanCodes : answer = <<b>>

(* The answers the driver may find, wherever it is.                        *)
AnswersOK ==
  /\ Shape
  /\ pc \in Resetting => calls = <<"program">>
  /\ pc \in {"kbinit", "kbinit1"} => sent = "AA"
  /\ pc = "resetAck" => answer = <<"FA", "AA">> \/ (answer \in {<<"FE">>, <<"AA">>} /\ sent = "AA")
  /\ pc = "resetOk" => answer = <<"AA">>
  /\ pc = "ledsAck" => \E x : answer = <<x>>
  /\ pc = "ledsSend" => sent = "FA"
  /\ pc \in {"isOff", "isOn"} => answer = <<"FA">> \/ Fe
  /\ pc = "kbinput1" => answer = <<"FA">> \/ Fe \/ CodeOnly
  /\ pc \in Getting \ {"kbinput1"} => CodeOnly
  /\ pc = "kbresend" => sent = "FA" /\ \E lit : lastbyte = ledByte(lit)
  /\ pc \notin {"kbflush", "flushed"}
  /\ pc = "kbBrk" => skip \in 1 .. 7

(* What is still to be read leads to what the user did.                    *)
Leads(d) == \E e : Reads(d, buffered, e) /\ RightFor(e, Typed)

CodesOK ==
  /\ UserOK
  /\ buffered \in Seq(ScanCodes) /\ returned \in Seq(Chars)
  /\ Done => char \in Chars
  /\ Leads(Now)

Tracks    == AnswersOK /\ CodesOK
TrackIInv == Faithful => Tracks

-----------------------------------------------------------------------------
LEMMA SentTrue ==
  ASSUME NEW c, NEW next, kbsend(c, next), ~restarted'
  PROVE  /\ lastbyte' = c /\ goto(next)
         /\ receive(c) \/ receiveDamaged
  BY DEF kbsend

LEMMA AgainTrue ==
  ASSUME kbgetAgain, ~restarted'
  PROVE  handOverAgain /\ UNCHANGED <<pc, calls, special, skip, char>>
  BY DEF kbgetAgain

(* A byte of a single answer.                                              *)
LEMMA AnswerTaken ==
  ASSUME NEW x, answer = <<x>>
  PROVE  /\ nextByte = x /\ ready
         /\ handOver => answer' = <<>> /\ sent' = IF x = "FE" THEN sent ELSE x
         /\ handOverAgain => answer' = <<IF x = "FE" THEN sent ELSE x>>
                              /\ sent' = IF x = "FE" THEN sent ELSE x
         /\ handOver \/ handOverAgain => UNCHANGED buffered
<1>1. answer # <<>> /\ Head(answer) = x /\ Tail(answer) = <<>>
  OBVIOUS
<1>2. nextByte = x /\ ready
  BY <1>1 DEF nextByte, ready
<1>3. handOver => answer' = <<>> /\ sent' = IF x = "FE" THEN sent ELSE x
  BY <1>1, <1>2 DEF handOver
<1>4. ASSUME handOverAgain
      PROVE  answer' = <<IF x = "FE" THEN sent ELSE x>> /\ sent' = IF x = "FE" THEN sent ELSE x
  <2>1. sent' = IF x = "FE" THEN sent ELSE x
    BY <1>2, <1>4 DEF handOverAgain
  <2>2. answer' = <<sent'>> \o <<>>
    BY <1>1, <1>4 DEF handOverAgain
  <2>3. <<sent'>> \in Seq({sent'})
    OBVIOUS
  <2>4. answer' = <<sent'>>
    BY <2>2, <2>3, ConcatEmptySeq
  <2> QED
    BY <2>1, <2>4
<1>5. handOver \/ handOverAgain => UNCHANGED buffered
  BY <1>1 DEF handOver, handOverAgain
<1> QED
  BY <1>2, <1>3, <1>4, <1>5

(* Away from the places that read codes, what was read stays.              *)
LEMMA Kept ==
  ASSUME CodesOK, UNCHANGED <<buffered, returned, Typed, typed, locks>>, Now' = Now,
         Done' => char' \in Chars
  PROVE  CodesOK'
  BY DEF CodesOK, Leads, UserOK

LEMMA NowIs ==
  /\ ~Again => Now = Current
  /\ \A b \in ScanCodes : pc \in Getting /\ answer = <<b>> => Again /\ Now = Parse(Current, b)
<1>1. ~Again => Now = Current
  BY DEF Now
<1>2. ASSUME NEW b \in ScanCodes, pc \in Getting, answer = <<b>>
      PROVE  Again /\ Now = Parse(Current, b)
  <2>1. Again
    BY <1>2 DEF Again
  <2>2. Head(answer) = b
    BY <1>2
  <2> QED
    BY <2>1, <2>2 DEF Now
<1> QED
  BY <1>1, <1>2

LEMMA NotCodes == "FA" \notin ScanCodes /\ "FE" \notin ScanCodes /\ "AA" \notin ScanCodes /\ "FF" \notin ScanCodes
  BY DEF ScanCodes, Scan

(* Where the driver listens, a code is read off what leads to the end.     *)
LEMMA TakenReads ==
  ASSUME CodesOK, pc \in Getting, CodeOnly, handOver \/ handOverAgain
  PROVE  /\ nextByte \in ScanCodes /\ buffered' \in Seq(ScanCodes)
         /\ handOver => answer' = <<>>
         /\ handOverAgain => answer' = <<nextByte>>
         /\ \E e : Reads(Parse(Current, nextByte), buffered', e) /\ RightFor(e, Typed)
<1>1. PICK e : Reads(Now, buffered, e) /\ RightFor(e, Typed)
  BY DEF CodesOK, Leads
<1>2. buffered \in Seq(ScanCodes)
  BY DEF CodesOK
<1>3. CASE answer = <<>>
  <2>1. buffered # <<>> /\ nextByte = Head(buffered) /\ buffered' = Tail(buffered)
    BY <1>3 DEF handOver, handOverAgain, ready, nextByte
  <2>2. Head(buffered) \in ScanCodes /\ Tail(buffered) \in Seq(ScanCodes)
    BY <1>2, <2>1, HeadTailProperties
  <2>3. ~Again
    BY <1>3 DEF Again
  <2>4. Reads(Parse(Current, Head(buffered)), Tail(buffered), e)
    BY <1>1, <1>2, <2>1, <2>3, NowIs, ReadsOne
  <2>5. handOver => answer' = <<>>
    BY <1>3 DEF handOver
  <2>6. handOverAgain => answer' = <<nextByte>>
    <3>1. ASSUME handOverAgain
          PROVE  answer' = <<nextByte>>
      <4>1. sent' = nextByte
        BY <2>1, <2>2, <3>1, NotCodes DEF handOverAgain
      <4>2. answer' = <<sent'>> \o <<>>
        BY <1>3, <3>1 DEF handOverAgain
      <4>3. <<sent'>> \in Seq({sent'})
        OBVIOUS
      <4>4. answer' = <<sent'>>
        BY <4>2, <4>3, ConcatEmptySeq
      <4> QED
        BY <4>1, <4>4
    <3> QED
      BY <3>1
  <2> QED
    BY <1>1, <2>1, <2>2, <2>4, <2>5, <2>6
<1>4. CASE answer # <<>>
  <2>1. PICK b \in ScanCodes : answer = <<b>>
    BY <1>4 DEF CodeOnly
  <2>2. nextByte = b /\ UNCHANGED buffered /\ b # "FE"
    BY <2>1, AnswerTaken, NotCodes
  <2>3. Now = Parse(Current, b)
    BY <2>1, NowIs
  <2>4. handOver => answer' = <<>>
    BY <2>1, AnswerTaken
  <2>5. handOverAgain => answer' = <<b>>
    BY <2>1, <2>2, AnswerTaken
  <2> QED
    BY <1>1, <1>2, <2>2, <2>3, <2>4, <2>5
<1> QED
  BY <1>3, <1>4

-----------------------------------------------------------------------------
(* One lemma for every place of the driver that does not read codes.       *)

(* The driver does not touch the keys.                                     *)
LEMMA KeysStay ==
  ASSUME Driver, ~restarted'
  PROVE  /\ UNCHANGED <<held, locks, typed>> /\ Typed' = Typed
<1>1. ASSUME NEW c, NEW next, kbsend(c, next)
      PROVE  UNCHANGED <<held, locks, typed>>
  BY <1>1, SentTrue DEF receive, receiveDamaged
<1>2. ASSUME kbgetAgain \/ handOver
      PROVE  UNCHANGED <<held, locks, typed>>
  BY <1>2, AgainTrue DEF handOver, handOverAgain
<1>3. CASE kbinit \/ kbinput \/ isOff \/ kbdone1 \/ isOn \/ callKbinput \/ flushed
  BY <1>3 DEF kbinit, kbinput, isOff, kbdone1, isOn, callKbinput, flushed, kbtscrl, jumps,
              keyboardVars, Typed
<1>4. CASE kbinit1 \/ kbsled \/ ledsSend \/ kbresend \/ kbflush
  BY <1>1, <1>4 DEF kbinit1, kbsled, ledsSend, kbresend, kbflush, sends, Typed
<1>5. CASE resetAck \/ resetOk \/ ledsAck \/ kbinput1 \/ kbExt \/ kbrlse \/ kbBrk
  BY <1>2, <1>5
     DEF resetAck, resetOk, ledsAck, kbinput1, kbExt, kbrlse, kbBrk, answered, kbget, Typed
<1> QED
  BY <1>3, <1>4, <1>5 DEF Driver

(* The reset: what was typed before it is lost, or was not there.          *)
LEMMA ResetTracks ==
  ASSUME Tracks, kbinit \/ kbinit1 \/ resetAck \/ resetOk, Faithful'
  PROVE  Tracks'
<1>1. pc \in Resetting /\ calls = <<"program">> /\ ~restarted' /\ ~forgotten'
  BY DEF Tracks, AnswersOK, kbinit, kbinit1, resetAck, resetOk, Resetting, Faithful
<1>2. Typed' = Typed /\ UNCHANGED <<locks, typed>>
  BY <1>1, KeysStay DEF Driver
<1>3. SUFFICES
        ASSUME pc' \in {"kbinit1", "resetAck", "resetOk", "kbsled"}, UNCHANGED <<calls, returned, buffered>>,
               special' = IF pc = "kbinit" THEN {"num"} ELSE special,
               pc' = "kbinit1" => sent' = "AA",
               pc' = "resetAck" => answer' = <<"FA", "AA">>
                                     \/ (answer' \in {<<"FE">>, <<"AA">>} /\ sent' = "AA"),
               pc' = "resetOk" => answer' = <<"AA">>
        PROVE  Tracks'
  <2>1. CASE kbinit
    BY <2>1, <1>3 DEF kbinit, goto, jumps, keyboardVars, Tracks, AnswersOK, Resetting
  <2>2. CASE kbinit1
    <3>1. /\ pc = "kbinit1" /\ pc' = "resetAck" /\ sent = "AA"
          /\ UNCHANGED <<calls, returned, special>>
          /\ receive(command("FF")) \/ receiveDamaged
      BY <2>2, <1>1, SentTrue DEF kbinit1, sends, goto, Tracks, AnswersOK
    <3>2. CASE receiveDamaged
      BY <3>1, <3>2, <1>3 DEF receiveDamaged, Resetting
    <3>3. CASE receive(command("FF"))
      <4>1. answer' = <<"FA", "AA">> /\ buffered' = <<>> /\ buffered = <<>>
        BY <1>1, <3>3 DEF receive, command
      <4> QED
        BY <3>1, <4>1, <1>3 DEF Resetting
    <3> QED
      BY <3>1, <3>2, <3>3
  <2>3. CASE resetAck
    <3>0. pc = "resetAck" /\ UNCHANGED <<special, returned>>
      BY <2>3, <1>1, AgainTrue DEF resetAck, answered, kbget
    <3>1. CASE answer = <<"FA", "AA">>
      <4>1. answer # <<>> /\ Head(answer) = "FA" /\ Tail(answer) = <<"AA">>
        BY <3>1
      <4>2. nextByte = "FA"
        BY <4>1 DEF nextByte
      <4>3. CASE kbgetAgain
        <5>1. handOverAgain /\ UNCHANGED <<pc, calls>>
          BY <4>3, <1>1, AgainTrue
        <5>2. sent' = "FA" /\ answer' = <<sent'>> \o Tail(answer) /\ UNCHANGED buffered
          BY <4>1, <4>2, <5>1 DEF handOverAgain
        <5>3. answer' = <<"FA", "AA">>
          <6>1. answer' = <<"FA">> \o <<"AA">>
            BY <4>1, <5>2
          <6>2. <<"FA">> \in Seq({"FA", "AA"}) /\ "AA" \in {"FA", "AA"}
            OBVIOUS
          <6>3. <<"FA">> \o <<"AA">> = Append(<<"FA">>, "AA")
            BY <6>2, AppendIsConcat
          <6> QED
            BY <6>1, <6>3, AppendToOne
        <5> QED
          BY <3>0, <5>1, <5>2, <5>3, <1>1, <1>3 DEF Resetting
      <4>4. CASE handOver /\ goto("resetOk")
        <5>1. answer' = <<"AA">> /\ UNCHANGED buffered
          BY <4>1, <4>4 DEF handOver
        <5> QED
          BY <3>0, <4>4, <5>1, <1>1, <1>3 DEF goto, Resetting
      <4> QED
        BY <2>3, <4>2, <4>3, <4>4 DEF resetAck, answered, kbget
    <3>2. CASE answer \in {<<"FE">>, <<"AA">>} /\ sent = "AA"
      <4>1. PICK x \in {"FE", "AA"} : answer = <<x>>
        BY <3>2
      <4>2. nextByte = x /\ UNCHANGED buffered
        BY <4>1, AnswerTaken, <2>3, <1>1, AgainTrue DEF resetAck, answered, kbget
      <4>3. CASE kbgetAgain
        <5>1. handOverAgain /\ UNCHANGED <<pc, calls>>
          BY <4>3, <1>1, AgainTrue
        <5>2. answer' = <<"AA">> /\ sent' = "AA"
          BY <3>2, <4>1, <5>1, AnswerTaken
        <5> QED
          BY <3>0, <4>2, <5>1, <5>2, <1>1, <1>3 DEF Resetting
      <4>4. CASE handOver /\ goto("kbinit1")
        <5>1. sent' = "AA"
          BY <3>2, <4>1, <4>4, AnswerTaken
        <5> QED
          BY <3>0, <4>2, <4>4, <5>1, <1>1, <1>3 DEF goto, Resetting
      <4>5. nextByte # "FA"
        BY <4>2
      <4> QED
        BY <2>3, <4>5, <4>3, <4>4 DEF resetAck, answered, kbget
    <3> QED
      BY <3>0, <3>1, <3>2 DEF Tracks, AnswersOK
  <2>4. CASE resetOk
    <3>0. pc = "resetOk" /\ answer = <<"AA">> /\ UNCHANGED <<special, returned>>
      BY <2>4, <1>1, AgainTrue DEF resetOk, answered, kbget, Tracks, AnswersOK
    <3>1. nextByte = "AA" /\ UNCHANGED buffered
      BY <3>0, AnswerTaken, <2>4, <1>1, AgainTrue DEF resetOk, answered, kbget
    <3>2. CASE kbgetAgain
      <4>1. handOverAgain /\ UNCHANGED <<pc, calls>>
        BY <3>2, <1>1, AgainTrue
      <4>2. answer' = <<"AA">>
        BY <3>0, <4>1, AnswerTaken
      <4> QED
        BY <3>0, <3>1, <4>1, <4>2, <1>1, <1>3 DEF Resetting
    <3>3. CASE handOver /\ goto("kbsled")
      BY <3>0, <3>1, <3>3, <1>1, <1>3 DEF goto, Resetting
    <3> QED
      BY <2>4, <3>1, <3>2, <3>3 DEF resetOk, answered, kbget
  <2> QED
    BY <2>1, <2>2, <2>3, <2>4
<1>4. calls' = <<"program">> /\ calls' # <<"program", "isOn">>
  BY <1>1, <1>3, Returning
<1>5. Shape'
  BY <1>3, <1>4 DEF Shape, Setting, Resetting
<1>6. pc' \notin Getting \cup {"isOff", "isOn", "kbresend", "kbflush", "flushed", "ledsAck",
                                "ledsSend", "kbinit", "kbdone1"}
  BY <1>3 DEF Resetting, Getting
<1>7. AnswersOK'
  BY <1>3, <1>4, <1>5, <1>6 DEF AnswersOK, Getting
<1>8. ~Done /\ ~Done' /\ ~Again /\ ~Again'
  BY <1>1, <1>4, <1>6 DEF Done, Again, Resetting, Setting, Getting
<1>9. Now' = Now
  <2>1. Current' = Current
    <3>1. pc \notin Getting /\ pc # "kbBrk" /\ pc' # "kbBrk" /\ pc' # "kbinit"
      BY <1>1, <1>6 DEF Resetting, Getting
    <3>2. (IF pc = "kbinit" THEN {"num"} ELSE special \ {"scroll"}) = special' \ {"scroll"}
      BY <1>3
    <3> QED
      BY <1>3, <1>6, <1>8, <3>1, <3>2 DEF Current
  <2> QED
    BY <1>8, <2>1 DEF Now
<1>10. CodesOK'
  BY <1>2, <1>3, <1>8, <1>9, Kept DEF Tracks
<1> QED
  BY <1>7, <1>10 DEF Tracks

LEMMA SetTracks ==
  ASSUME Tracks, kbsled \/ ledsAck, Faithful'
  PROVE  Tracks'
<1>1. pc \in {"kbsled", "ledsAck"} /\ ~restarted' /\ Shape
  BY DEF Tracks, AnswersOK, kbsled, ledsAck, Faithful
<1>2. Typed' = Typed /\ UNCHANGED <<locks, typed>>
  BY <1>1, KeysStay DEF Driver
<1>3. SUFFICES
        ASSUME pc' \in Setting, UNCHANGED <<calls, returned, special, buffered, char>>,
               pc' = "ledsAck" => \E x : answer' = <<x>>,
               pc' = "ledsSend" => sent' = "FA"
        PROVE  Tracks'
  <2>1. CASE kbsled
    <3>1. /\ pc' = "ledsAck" /\ UNCHANGED <<calls, returned, special, char>>
          /\ receive(command("ED")) \/ receiveDamaged
      BY <2>1, <1>1, SentTrue DEF kbsled, sends, goto
    <3>2. UNCHANGED buffered /\ \E x : answer' = <<x>>
      BY <3>1, Received DEF receiveDamaged
    <3> QED
      BY <3>1, <3>2, <1>3 DEF Setting
  <2>2. CASE ledsAck
    <3>1. pc = "ledsAck" /\ \E x : answer = <<x>>
      BY <2>2 DEF ledsAck, Tracks, AnswersOK
    <3>2. PICK x : answer = <<x>>
      BY <3>1
    <3>3. nextByte = x
      BY <3>2, AnswerTaken
    <3>4. CASE kbgetAgain /\ UNCHANGED returned
      <4>1. handOverAgain /\ UNCHANGED <<pc, calls, special, char, returned>>
        BY <3>4, <1>1, AgainTrue
      <4>2. UNCHANGED buffered /\ \E y : answer' = <<y>>
        BY <3>2, <4>1, AnswerTaken
      <4> QED
        BY <3>1, <4>1, <4>2, <1>3 DEF Setting
    <3>5. CASE handOver /\ goto(IF nextByte = "FA" THEN "ledsSend" ELSE "kbsled")
               /\ UNCHANGED <<returned, special, char>>
      <4>1. UNCHANGED buffered /\ (x = "FA" => sent' = "FA")
        BY <3>2, <3>5, AnswerTaken
      <4> QED
        BY <3>3, <3>5, <4>1, <1>3 DEF goto, Setting
    <3> QED
      BY <2>2, <3>4, <3>5 DEF ledsAck, answered, kbget
  <2> QED
    BY <2>1, <2>2
<1>4. Shape'
  BY <1>1, <1>3 DEF Shape, Setting, Resetting, Getting, Between
<1>5. pc' \notin Resetting \cup Getting \cup Between \cup {"program", "kbinit", "kbdone1", "isOn"}
  BY <1>3 DEF Setting, Resetting, Getting, Between
<1>6. AnswersOK'
  BY <1>3, <1>4, <1>5 DEF AnswersOK, Resetting, Getting, Between
<1>7. /\ pc \in Setting
      /\ pc \notin Resetting \cup Getting \cup Between \cup {"program", "kbinit", "kbdone1", "isOn"}
  BY <1>1 DEF Setting, Resetting, Getting, Between
<1>8. (Done' <=> Done) /\ ~Again /\ ~Again'
  BY <1>3, <1>5, <1>7 DEF Done, Again
<1>9. Now' = Now
  <2>1. Current' = Current
    BY <1>3, <1>5, <1>7, <1>8 DEF Current, Getting
  <2> QED
    BY <1>8, <2>1 DEF Now
<1>10. Done' => char' \in Chars
  BY <1>3, <1>8 DEF Tracks, CodesOK
<1>11. CodesOK'
  BY <1>2, <1>3, <1>9, <1>10, Kept DEF Tracks
<1> QED
  BY <1>6, <1>11 DEF Tracks

LEMMA SendTracks ==
  ASSUME Tracks, ledsSend, Faithful'
  PROVE  Tracks'
<1>1. pc = "ledsSend" /\ sent = "FA" /\ ~restarted' /\ Shape
  BY DEF Tracks, AnswersOK, ledsSend, Faithful
<1>2. Typed' = Typed /\ UNCHANGED <<locks, typed>>
  BY <1>1, KeysStay DEF Driver
<1> DEFINE lit == special \ {"ctrl", "shift"}
<1>3. /\ goto("rts") /\ lastbyte' = ledByte(lit) /\ UNCHANGED <<returned, special, char>>
      /\ receive(ledByte(lit)) \/ receiveDamaged
  BY <1>1, SentTrue DEF ledsSend, sends
<1>4. UNCHANGED <<buffered, sent>> /\ answer' \in {<<"FA">>, <<"FE">>}
  <2>1. CASE receive(ledByte(lit))
    BY <2>1 DEF receive, ledByte
  <2>2. CASE receiveDamaged
    BY <2>2 DEF receiveDamaged
  <2> QED
    BY <1>3, <2>1, <2>2
<1>5. \/ calls = <<"program">> /\ pc' = "program" /\ calls' = <<>>
      \/ \E x \in {"kbinput", "isOff", "isOn", "kbinput1"} :
           calls = <<"program", x>> /\ pc' = x /\ calls' = <<"program">>
  BY <1>1, <1>3, GoneBack DEF Setting
<1>6. answer' = <<"FA">> \/ Fe'
  BY <1>1, <1>3, <1>4 DEF Fe
<1>7. Shape'
  BY <1>5 DEF Shape, Getting, Between
<1>8. pc' \in {"program", "kbinput", "isOff", "isOn", "kbinput1"}
  BY <1>5
<1>9. AnswersOK'
  BY <1>6, <1>7, <1>8 DEF AnswersOK, Resetting, Getting
<1>10. ~Again /\ ~Again'
  <2>1. ~Again
    BY <1>1 DEF Again, Getting
  <2>2. \A b \in ScanCodes : answer' # <<b>>
    <3>1. <<"FA">>[1] = "FA" /\ <<"FE">>[1] = "FE" /\ \A b : <<b>>[1] = b
      OBVIOUS
    <3> QED
      BY <1>4, <3>1, NotCodes
  <2> QED
    BY <2>1, <2>2 DEF Again
<1>11. Done' <=> Done
  <2>1. Done <=> calls = <<"program", "isOn">>
    BY <1>1 DEF Done, Setting
  <2>2. Done' <=> pc' = "isOn"
    BY <1>8 DEF Done, Setting
  <2>3. \A x, y : <<"program", x>> = <<"program", y>> => x = y
    <3>1. \A x : <<"program", x>>[2] = x
      OBVIOUS
    <3> QED
      BY <3>1
  <2>4. <<"program">> # <<"program", "isOn">>
    BY Returning
  <2> QED
    BY <1>5, <2>1, <2>2, <2>3, <2>4
<1>12. Now' = Now
  <2>1. Current' = Current
    BY <1>1, <1>3, <1>8, <1>11 DEF Current, Getting
  <2> QED
    BY <1>10, <2>1 DEF Now
<1>13. Done' => char' \in Chars
  BY <1>3, <1>11 DEF Tracks, CodesOK
<1>14. CodesOK'
  BY <1>2, <1>3, <1>4, <1>12, <1>13, Kept DEF Tracks
<1> QED
  BY <1>9, <1>14 DEF Tracks

LEMMA TurnTracks ==
  ASSUME Tracks, kbinput \/ kbdone1, Faithful'
  PROVE  Tracks'
<1>1. /\ pc \in {"kbinput", "kbdone1"} /\ pc' = "kbsled" /\ ~restarted'
      /\ calls' = Append(calls, IF pc = "kbinput" THEN "isOff" ELSE "isOn")
      /\ UNCHANGED <<buffered, returned, char>>
      /\ special' = toggled(special, "scroll")
  BY DEF kbinput, kbdone1, kbtscrl, jsr, jumps, keyboardVars, Faithful
<1>2. Typed' = Typed /\ UNCHANGED <<locks, typed>>
  BY <1>1, KeysStay DEF Driver
<1>3. calls = <<"program">>
  BY <1>1, Places DEF Tracks, AnswersOK, Between
<1>4. calls' = <<"program", IF pc = "kbinput" THEN "isOff" ELSE "isOn">>
  BY <1>1, <1>3, Returning
<1>5. Shape'
  BY <1>1, <1>4 DEF Shape, Setting
<1>6. AnswersOK'
  BY <1>1, <1>5 DEF AnswersOK, Resetting, Getting
<1>7. ~Again /\ ~Again'
  BY <1>1 DEF Again, Getting
<1>8. Done' <=> Done
  <2>1. <<"program", "isOff">> # <<"program", "isOn">>
    <3>1. <<"program", "isOff">>[2] # <<"program", "isOn">>[2]
      OBVIOUS
    <3> QED
      BY <3>1
  <2>2. Done <=> pc = "kbdone1"
    BY <1>1 DEF Done, Setting
  <2>3. Done' <=> calls' = <<"program", "isOn">>
    BY <1>1 DEF Done, Setting
  <2> QED
    BY <1>1, <1>4, <2>1, <2>2, <2>3
<1>9. Now' = Now
  <2>1. special' \ {"scroll"} = special \ {"scroll"}
    BY <1>1 DEF toggled
  <2>2. Current' = Current
    BY <1>1, <1>8, <2>1 DEF Current, Getting
  <2> QED
    BY <1>7, <2>2 DEF Now
<1>10. Done' => char' \in Chars
  BY <1>1, <1>8 DEF Tracks, CodesOK
<1>11. CodesOK'
  BY <1>1, <1>2, <1>9, <1>10, Kept DEF Tracks
<1> QED
  BY <1>6, <1>11 DEF Tracks

(* The character goes to the program, once.                                *)
LEMMA TestTracks ==
  ASSUME Tracks, isOff \/ isOn \/ callKbinput, Faithful'
  PROVE  Tracks'
<1>1. /\ pc \in {"isOff", "isOn", "program"} /\ ~restarted'
      /\ UNCHANGED <<keyboardVars, special, lastbyte, char>>
  BY DEF isOff, isOn, callKbinput, jumps, Faithful
<1>2. Typed' = Typed /\ UNCHANGED <<locks, typed>>
  BY <1>1, KeysStay DEF Driver
<1>3. pc \in {"isOff", "isOn"} => calls = <<"program">> /\ (answer = <<"FA">> \/ Fe)
  BY Places DEF Tracks, AnswersOK, Between
<1>4. pc = "program" => calls = <<>>
  BY DEF Tracks, AnswersOK, Shape, Resetting, Setting, Getting, Between
<1>5. \/ pc = "program" /\ pc' = "kbinput" /\ calls' = <<"program">> /\ UNCHANGED returned
      \/ pc = "isOff" /\ pc' \in {"kbinput", "kbinput1"} /\ calls' = <<"program">> /\ UNCHANGED returned
      \/ pc = "isOn" /\ pc' = "kbdone1" /\ calls' = <<"program">> /\ UNCHANGED returned
      \/ pc = "isOn" /\ pc' = "program" /\ calls' = <<>> /\ returned' = Append(returned, char)
  <2>1. CASE isOff
    BY <2>1, <1>3 DEF isOff, goto
  <2>2. CASE isOn
    BY <2>2, <1>3, Returning DEF isOn, goto
  <2>3. CASE callKbinput
    BY <2>3, <1>4, Returning DEF callKbinput, jsr
  <2> QED
    BY <2>1, <2>2, <2>3
<1>6. Shape'
  BY <1>5 DEF Shape, Getting, Between
<1>7. pc' = "kbinput1" => answer' = <<"FA">> \/ Fe'
  BY <1>1, <1>3, <1>5 DEF Fe, keyboardVars
<1>8. AnswersOK'
  BY <1>5, <1>6, <1>7 DEF AnswersOK, Resetting, Getting
<1>9. ~Again /\ ~Again'
  <2>1. ~Again
    BY <1>1 DEF Again, Getting
  <2>2. CASE pc' # "kbinput1"
    BY <1>5, <2>1, <2>2 DEF Again, Getting
  <2>3. CASE pc' = "kbinput1"
    <3>1. \A b \in ScanCodes : answer' # <<b>>
      <4>1. <<"FA">>[1] = "FA" /\ <<"FE">>[1] = "FE" /\ \A b : <<b>>[1] = b
        OBVIOUS
      <4> QED
        BY <1>7, <2>3, <4>1, NotCodes DEF Fe
    <3> QED
      BY <2>1, <3>1 DEF Again
  <2> QED
    BY <2>2, <2>3
<1>10. (Done <=> pc = "isOn") /\ (Done' <=> pc' = "kbdone1")
  BY <1>1, <1>5 DEF Done, Setting
<1>11. Now' = Now
  <2>1. Current' = Current
    BY <1>1, <1>5, <1>10 DEF Current, Getting
  <2> QED
    BY <1>9, <2>1 DEF Now
<1>12. returned' \in Seq(Chars)
  BY <1>5, <1>10, AppendProperties DEF Tracks, CodesOK
<1>13. Done' => char' \in Chars
  BY <1>1, <1>5, <1>10 DEF Tracks, CodesOK
<1>14. CodesOK'
  BY <1>1, <1>2, <1>11, <1>12, <1>13 DEF Tracks, CodesOK, Leads, UserOK, keyboardVars
<1> QED
  BY <1>8, <1>14 DEF Tracks

-----------------------------------------------------------------------------
(* The places that read codes.                                             *)

LEMMA CnvtIs ==
  ASSUME NEW code
  PROVE  kbcnvt(code) = Cnvt(code, special \ {"scroll"})
<1>1. /\ "shift" \in special \ {"scroll"} <=> "shift" \in special
      /\ "caps" \in special \ {"scroll"} <=> "caps" \in special
      /\ "num" \in special \ {"scroll"} <=> "num" \in special
  OBVIOUS
<1> QED
  BY <1>1 DEF kbcnvt, Cnvt

LEMMA CnvtChars ==
  ASSUME NEW code, NEW B, Cnvt(code, B) # <<>>
  PROVE  Cnvt(code, B) \in Chars /\ <<Cnvt(code, B)[1], "ctrl">> \in Chars
<1> DEFINE names == {"letter", "F7", "print", "pause", "keypad", "cursor", "keypad *", "page down",
                     "scroll"}
<1>1. \E k \in names : Cnvt(code, B) \in {<<k, "plain">>, <<k, "shifted">>}
  <2>1. CASE code \in {"1C", "02", "0F", "10"}
    BY <2>1 DEF Cnvt
  <2>2. CASE code \in {"75", "F5", "7C", "FA", "FE"}
    BY <2>2 DEF Cnvt
  <2> QED
    BY <2>1, <2>2 DEF Cnvt
<1>2. PICK k \in names : Cnvt(code, B) \in {<<k, "plain">>, <<k, "shifted">>}
  BY <1>1
<1>3. Cnvt(code, B)[1] = k
  <2>1. <<k, "plain">>[1] = k /\ <<k, "shifted">>[1] = k
    OBVIOUS
  <2>2. CASE Cnvt(code, B) = <<k, "plain">>
    BY <2>1, <2>2, Zenon
  <2>3. CASE Cnvt(code, B) = <<k, "shifted">>
    BY <2>1, <2>3, Zenon
  <2> QED
    BY <1>2, <2>2, <2>3
<1>4. <<k, "plain">> \in Chars /\ <<k, "shifted">> \in Chars /\ <<k, "ctrl">> \in Chars
  BY DEF Chars
<1> QED
  BY <1>2, <1>3, <1>4

LEMMA ConvertReads ==
  ASSUME NEW code, NEW at, NEW left, convert(code), ~restarted', UNCHANGED <<special, returned>>
  PROVE  /\ pc' \in {"kbinput1", "kbdone1"} /\ UNCHANGED calls
         /\ Current' = Convert(St(at, left, special \ {"scroll"}, returned), code)
         /\ Done' => char' \in Chars
<1> DEFINE B == special \ {"scroll"}
           c == Cnvt(code, B)
           d == St(at, left, B, returned)
           g == IF "ctrl" \in B /\ c[1] # "pause" THEN <<c[1], "ctrl">> ELSE c
<1>1. kbcnvt(code) = c /\ d.bits = B /\ d.out = returned
  BY CnvtIs DEF St
<1>2. "ctrl" \in special <=> "ctrl" \in B
  OBVIOUS
<1>3. <<"print", "plain">> # <<>>
  OBVIOUS
<1>4. CASE c = <<>>
  <2>1. goto("kbinput1")
    BY <1>1, <1>4, <1>3 DEF convert
  <2>2. Convert(d, code) = St("kbinput1", 0, B, returned)
    BY <1>1, <1>4 DEF Convert
  <2>3. ~Done'
    BY <2>1 DEF goto, Done, Setting
  <2>4. Current' = St("kbinput1", 0, B, returned)
    BY <2>1, <2>3 DEF Current, goto, Getting
  <2> QED
    BY <2>1, <2>2, <2>3, <2>4 DEF goto
<1>5. CASE c # <<>>
  <2>1. ~(c = <<"print", "plain">> /\ "ctrl" \in special) /\ goto("kbdone1")
        /\ char' = IF "ctrl" \in special /\ c[1] # "pause" THEN <<c[1], "ctrl">> ELSE c
    BY <1>1, <1>5 DEF convert
  <2>2. char' = g
    BY <1>2, <2>1
  <2>3. Convert(d, code) = St("kbinput1", 0, B, Append(returned, g))
    BY <1>1, <1>2, <1>5, <2>1 DEF Convert
  <2>4. g \in Chars
    BY <1>5, CnvtChars
  <2>5. Done'
    BY <2>1 DEF goto, Done
  <2>6. Current' = St("kbinput1", 0, B, Append(returned, g))
    BY <2>1, <2>2, <2>5 DEF Current, goto, Getting
  <2> QED
    BY <2>1, <2>2, <2>3, <2>4, <2>6 DEF goto
<1> QED
  BY <1>4, <1>5

(* A code was read, and the driver goes on.                                *)
LEMMA LandTracks ==
  ASSUME Tracks, pc \in Getting, CodeOnly, handOver, Typed' = Typed, UNCHANGED <<returned, typed, locks>>,
         Current' = Parse(Current, nextByte),
         \/ pc' \in Getting \cup {"kbdone1"} /\ UNCHANGED calls
         \/ pc' = "kbsled" /\ calls' = <<"program", "kbinput1">>,
         Done' => char' \in Chars, pc' = "kbBrk" => skip' \in 1 .. 7
  PROVE  Tracks'
<1>1. calls = <<"program">>
  BY Places DEF Tracks, AnswersOK, Getting
<1>2. /\ answer' = <<>> /\ buffered' \in Seq(ScanCodes)
      /\ \E e : Reads(Parse(Current, nextByte), buffered', e) /\ RightFor(e, Typed)
  BY TakenReads DEF Tracks
<1>3. Shape'
  BY <1>1 DEF Shape, Getting, Between, Setting
<1>4. AnswersOK'
  BY <1>2, <1>3 DEF AnswersOK, CodeOnly, Getting, Resetting
<1>5. ~Again'
  BY <1>2 DEF Again
<1>6. Now' = Current'
  BY <1>5 DEF Now
<1>7. Leads(Now)'
  BY <1>2, <1>6 DEF Leads
<1>8. CodesOK'
  BY <1>2, <1>7 DEF Tracks, CodesOK, UserOK
<1> QED
  BY <1>4, <1>8 DEF Tracks

(* A code is asked for again.                                              *)
LEMMA AskTracks ==
  ASSUME Tracks, pc \in Getting, kbgetAgain, ~restarted', UNCHANGED <<returned, typed, locks>>, Typed' = Typed
  PROVE  Tracks'
<1>1. handOverAgain /\ UNCHANGED <<pc, calls, special, skip, char, returned>>
  BY AgainTrue
<1>2. Done' <=> Done
  BY <1>1 DEF Done
<1>3. Current' = Current
  BY <1>1, <1>2 DEF Current
<1>4. Shape'
  BY <1>1 DEF Tracks, AnswersOK, Shape
<1>5. CASE CodeOnly
  <2>1. /\ nextByte \in ScanCodes /\ buffered' \in Seq(ScanCodes) /\ answer' = <<nextByte>>
        /\ \E e : Reads(Parse(Current, nextByte), buffered', e) /\ RightFor(e, Typed)
    BY <1>1, <1>5, TakenReads DEF Tracks
  <2>2. CodeOnly'
    BY <2>1 DEF CodeOnly
  <2>3. AnswersOK'
    BY <1>1, <1>4, <2>2 DEF Tracks, AnswersOK, Getting, Resetting
  <2>4. Now' = Parse(Current, nextByte)
    <3>1. PICK b \in ScanCodes : b = nextByte /\ answer' = <<b>>
      BY <2>1
    <3>2. Again'
      BY <1>1, <3>1 DEF Again
    <3>3. Head(answer') = b
      BY <3>1
    <3> QED
      BY <1>3, <3>1, <3>2, <3>3 DEF Now
  <2>5. Leads(Now)'
    BY <2>1, <2>4 DEF Leads
  <2>6. CodesOK'
    BY <1>1, <1>2, <2>1, <2>5 DEF Tracks, CodesOK, UserOK
  <2> QED
    BY <2>3, <2>6 DEF Tracks
<1>6. CASE pc = "kbinput1" /\ (answer = <<"FA">> \/ Fe)
  <2>1. PICK x \in {"FA", "FE"} : answer = <<x>> /\ (x = "FE" => sent = "FA")
    BY <1>6 DEF Fe
  <2>2. answer' = <<"FA">> /\ UNCHANGED buffered
    BY <1>1, <2>1, AnswerTaken
  <2>3. AnswersOK'
    BY <1>1, <1>4, <1>6, <2>2 DEF AnswersOK, Getting, Resetting
  <2>4. ~Again /\ ~Again'
    <3>1. <<"FA">>[1] = "FA" /\ <<"FE">>[1] = "FE" /\ \A b : <<b>>[1] = b
      OBVIOUS
    <3> QED
      BY <2>1, <2>2, <3>1, NotCodes DEF Again
  <2>5. Now' = Now
    BY <1>3, <2>4 DEF Now
  <2>6. CodesOK'
    BY <1>1, <1>2, <2>2, <2>5, Kept DEF Tracks, CodesOK
  <2> QED
    BY <2>3, <2>6 DEF Tracks
<1> QED
  BY <1>5, <1>6 DEF Tracks, AnswersOK

(* The first byte of a code.                                               *)
LEMMA FirstTracks ==
  ASSUME Tracks, kbinput1, Faithful'
  PROVE  Tracks'
<1>1. pc = "kbinput1" /\ ~restarted' /\ pc \in Getting /\ UNCHANGED returned /\ calls = <<"program">>
  BY Places DEF kbinput1, Faithful, Getting, Tracks, AnswersOK
<1>2. Typed' = Typed /\ UNCHANGED <<locks, typed>>
  BY <1>1, KeysStay DEF Driver
<1>3. CASE kbgetAgain
  BY <1>1, <1>2, <1>3, AskTracks
<1>4. CASE handOver /\ kbcsrch(nextByte) /\ UNCHANGED <<lastbyte, errors, refused>>
  <2>1. CASE CodeOnly
    <3>1. nextByte \in ScanCodes
      BY <1>1, <1>4, <2>1, TakenReads DEF Tracks
    <3> DEFINE B == special \ {"scroll"}
    <3>2. ~Done /\ Current = St("kbinput1", 0, B, returned)
      BY <1>1 DEF Current, Done, Getting, Setting
    <3>3. Current.at = "kbinput1" /\ Current.bits = B /\ Current.out = returned
      BY <3>2 DEF St
    <3>4. Parse(Current, nextByte) = First(Current, nextByte)
      BY <3>3 DEF Parse
    <3>5. ASSUME NEW l \in Getting, pc' = l, UNCHANGED calls, l # "kbBrk" \/ skip' = 7
          PROVE  Current' = St(l, IF l = "kbBrk" THEN 7 ELSE 0, special' \ {"scroll"}, returned) /\ ~Done'
      <4>1. ~Done'
        BY <3>5 DEF Done, Getting, Setting
      <4> QED
        BY <1>1, <3>5, <4>1 DEF Current, Getting
    <3>6. CASE nextByte \in {"1C", "83", "75", "7C"}
      <4> DEFINE code == IF nextByte = "83" THEN "02" ELSE nextByte
      <4>1. convert(code) /\ UNCHANGED <<special, skip>>
        BY <1>4, <3>6 DEF kbcsrch, commands
      <4>2. First(Current, nextByte) = Convert(Current, code)
        BY <3>6 DEF First
      <4> HIDE DEF code
      <4>3. /\ pc' \in {"kbinput1", "kbdone1"} /\ UNCHANGED calls
            /\ Current' = Convert(Current, code) /\ (Done' => char' \in Chars)
        BY <1>1, <3>2, <4>1, ConvertReads
      <4>4. pc' \in Getting \cup {"kbdone1"} /\ pc' # "kbBrk"
        BY <4>3 DEF Getting
      <4> QED
        BY <1>1, <1>2, <1>4, <2>1, <3>4, <4>2, <4>3, <4>4, LandTracks
    <3>7. CASE nextByte \in {"12", "14"}
      <4>1. PICK x \in {"shift", "ctrl"} : /\ set(x) /\ x = IF nextByte = "12" THEN "shift" ELSE "ctrl"
        BY <1>4, <3>7 DEF kbcsrch, commands
      <4>2. pc' = "kbinput1" /\ UNCHANGED calls /\ special' = special \cup {x} /\ pc' \in Getting
        BY <4>1 DEF set, kbnull, goto, Getting
      <4>3. special' \ {"scroll"} = B \cup {x}
        BY <4>2
      <4>4. First(Current, nextByte) = St("kbinput1", 0, B \cup {x}, returned)
        BY <3>3, <3>7, <4>1 DEF First
      <4>5. Current' = St("kbinput1", 0, B \cup {x}, returned) /\ ~Done'
        BY <3>5, <4>2, <4>3
      <4> QED
        BY <1>1, <1>2, <1>4, <2>1, <3>4, <4>2, <4>4, <4>5, LandTracks
    <3>8. CASE nextByte \in {"58", "77"}
      <4>1. PICK x \in {"caps", "num"} : /\ special' = toggled(special, x) /\ jsr("kbsled", "kbinput1")
                                         /\ x = IF nextByte = "58" THEN "caps" ELSE "num"
        BY <1>4, <3>8 DEF kbcsrch, commands
      <4>2. pc' = "kbsled" /\ calls' = <<"program", "kbinput1">>
        BY <1>1, <4>1, Returning DEF jsr
      <4>3. special' \ {"scroll"} = toggled(B, x)
        BY <4>1 DEF toggled
      <4>4. First(Current, nextByte) = St("kbinput1", 0, toggled(B, x), returned)
        BY <3>3, <3>8, <4>1 DEF First
      <4>5. ~Done'
        <5>1. <<"program", "kbinput1">> # <<"program", "isOn">>
          <6>1. <<"program", "kbinput1">>[2] # <<"program", "isOn">>[2]
            OBVIOUS
          <6> QED
            BY <6>1
        <5> QED
          BY <4>2, <5>1 DEF Done
      <4>6. Current' = St("kbinput1", 0, toggled(B, x), returned)
        BY <1>1, <4>2, <4>3, <4>5 DEF Current, Getting
      <4> QED
        BY <1>1, <1>2, <1>4, <2>1, <3>4, <4>2, <4>4, <4>5, <4>6, LandTracks
    <3>9. CASE nextByte \in {"E0", "F0", "E1"}
      <4>1. PICK l \in {"kbExt", "kbrlse", "kbBrk"} :
              /\ goto(l) /\ UNCHANGED special /\ (l = "kbBrk" => skip' = 7)
              /\ l = IF nextByte = "E0" THEN "kbExt" ELSE IF nextByte = "F0" THEN "kbrlse" ELSE "kbBrk"
        BY <1>4, <3>9 DEF kbcsrch, commands
      <4>2. l \in Getting /\ pc' = l /\ UNCHANGED calls
        BY <4>1 DEF goto, Getting
      <4>3. First(Current, nextByte) = St(l, IF l = "kbBrk" THEN 7 ELSE 0, B, returned)
        BY <3>3, <3>9, <4>1 DEF First
      <4>4. Current' = St(l, IF l = "kbBrk" THEN 7 ELSE 0, B, returned) /\ ~Done'
        BY <3>5, <4>1, <4>2
      <4>5. pc' = "kbBrk" => skip' \in 1 .. 7
        BY <4>1, <4>2
      <4> QED
        BY <1>1, <1>2, <1>4, <2>1, <3>4, <4>2, <4>3, <4>4, <4>5, LandTracks
    <3> QED
      BY <3>1, <3>6, <3>7, <3>8, <3>9 DEF ScanCodes, Scan
  <2>2. CASE answer = <<"FA">> \/ Fe
    <3>1. PICK x \in {"FA", "FE"} : answer = <<x>> /\ (x = "FE" => Fe)
      BY <2>2 DEF Fe
    <3>2. nextByte = x /\ answer' = <<>> /\ UNCHANGED buffered
      BY <1>4, <3>1, AnswerTaken
    <3>3. ~Again /\ ~Again'
      <4>1. \A b : <<b>>[1] = b
        OBVIOUS
      <4>2. answer'  = <<>>
        BY <3>2
      <4> QED
        BY <3>1, <4>1, <4>2, NotCodes DEF Again
    <3>4. /\ pc' = IF x = "FA" THEN "kbinput1" ELSE "kbresend"
          /\ UNCHANGED <<calls, special, char>>
      BY <1>4, <3>1, <3>2 DEF kbcsrch, commands, kbnull, goto
    <3>5. ~Done /\ ~Done'
      BY <1>1, <3>4 DEF Done, Setting
    <3>6. Current' = Current
      BY <1>1, <3>4, <3>5 DEF Current, Getting
    <3>7. Now' = Now
      BY <3>3, <3>6 DEF Now
    <3>8. CodesOK'
      BY <1>1, <1>2, <3>2, <3>5, <3>7, Kept DEF Tracks
    <3>9. Shape'
      BY <1>1, <3>4 DEF Shape, Getting, Between
    <3>10. x = "FE" => sent' = "FA" /\ \E lit : lastbyte' = ledByte(lit)
      <4>1. x = "FE" => sent' = sent
        BY <1>4, <3>1, AnswerTaken
      <4> QED
        BY <1>4, <3>1, <4>1 DEF Fe
    <3>11. AnswersOK'
      BY <3>2, <3>4, <3>9, <3>10 DEF AnswersOK, CodeOnly, Getting, Resetting
    <3> QED
      BY <3>8, <3>11 DEF Tracks
  <2> QED
    BY <1>1, <2>1, <2>2 DEF Tracks, AnswersOK
<1> QED
  BY <1>3, <1>4 DEF kbinput1, kbget

-----------------------------------------------------------------------------
(* The bytes behind a prefix.                                              *)
LEMMA NextTracks ==
  ASSUME Tracks, kbExt \/ kbrlse \/ kbBrk, Faithful'
  PROVE  Tracks'
<1>1. /\ pc \in {"kbExt", "kbrlse", "kbexrls", "kbBrk"} /\ ~restarted' /\ pc \in Getting
      /\ UNCHANGED returned /\ CodeOnly /\ ~Done
  BY DEF kbExt, kbrlse, kbBrk, Faithful, Getting, Setting, Done, Tracks, AnswersOK
<1>2. Typed' = Typed /\ UNCHANGED <<locks, typed>>
  BY <1>1, KeysStay DEF Driver
<1>3. CASE kbgetAgain
  BY <1>1, <1>2, <1>3, AskTracks
<1> DEFINE B == special \ {"scroll"}
<1>4. Current = St(pc, IF pc = "kbBrk" THEN skip ELSE 0, B, returned)
  BY <1>1 DEF Current
<1>5. /\ Current.at = pc /\ Current.bits = B /\ Current.out = returned
      /\ pc = "kbBrk" => Current.left = skip
  BY <1>4 DEF St
<1>6. ASSUME NEW code, convert(code), UNCHANGED special, handOver,
             Parse(Current, nextByte) = Convert(Current, code)
      PROVE  Tracks'
  <2>1. /\ pc' \in {"kbinput1", "kbdone1"} /\ UNCHANGED calls
        /\ Current' = Convert(Current, code) /\ (Done' => char' \in Chars)
    BY <1>1, <1>4, <1>6, ConvertReads
  <2>2. pc' \in Getting \cup {"kbdone1"} /\ pc' # "kbBrk"
    BY <2>1 DEF Getting
  <2> QED
    BY <1>1, <1>2, <1>6, <2>1, <2>2, LandTracks
<1>7. ASSUME NEW l \in Getting, goto(l), handOver, l = "kbBrk" => skip' \in 1 .. 7,
             Parse(Current, nextByte)
               = St(l, IF l = "kbBrk" THEN skip' ELSE 0, special' \ {"scroll"}, returned)
      PROVE  Tracks'
  <2>1. pc' = l /\ UNCHANGED calls
    BY <1>7 DEF goto, Getting
  <2>2. ~Done'
    BY <2>1 DEF Done, Getting, Setting
  <2>3. Current' = St(l, IF l = "kbBrk" THEN skip' ELSE 0, special' \ {"scroll"}, returned)
    BY <1>1, <2>1, <2>2 DEF Current, Getting
  <2> QED
    BY <1>1, <1>2, <1>7, <2>1, <2>2, <2>3, LandTracks
<1>8. CASE kbExt
  <2>0. pc = "kbExt" /\ Current.at = "kbExt"
    BY <1>5, <1>8 DEF kbExt
  <2>1. CASE handOver /\ kbext(nextByte)
    <3>0. Parse(Current, nextByte) = Behind(Current, nextByte)
      BY <2>0 DEF Parse
    <3>1. CASE nextByte = "F0"
      <4>1. goto("kbexrls") /\ UNCHANGED special
        BY <2>1, <3>1 DEF kbext
      <4>2. Behind(Current, nextByte) = St("kbexrls", 0, special' \ {"scroll"}, returned)
        BY <1>5, <3>1, <4>1 DEF Behind
      <4> QED
        BY <1>7, <2>1, <3>0, <4>1, <4>2 DEF Getting
    <3>2. CASE nextByte = "14"
      <4>1. goto("kbinput1") /\ special' \ {"scroll"} = B \cup {"ctrl"}
        <5>1. special' = special \cup {"ctrl"} /\ goto("kbinput1")
          BY <2>1, <3>2 DEF kbext, set, kbnull
        <5> QED
          BY <5>1
      <4>2. Behind(Current, nextByte) = St("kbinput1", 0, special' \ {"scroll"}, returned)
        BY <1>5, <3>2, <4>1 DEF Behind
      <4> QED
        BY <1>7, <2>1, <3>0, <4>1, <4>2 DEF Getting
    <3>3. CASE nextByte \notin {"F0", "14"}
      <4> DEFINE code == CASE nextByte = "12" -> "00" [] nextByte = "7C" -> "0F" [] nextByte = "75" -> "F5"
                           [] OTHER -> nextByte
      <4>1. convert(code) /\ UNCHANGED special
        BY <2>1, <3>3 DEF kbext
      <4>2. Behind(Current, nextByte) = Convert(Current, code)
        BY <3>3 DEF Behind
      <4> HIDE DEF code
      <4> QED
        BY <1>6, <2>1, <3>0, <4>1, <4>2
    <3> QED
      BY <3>1, <3>2, <3>3
  <2> QED
    BY <1>3, <1>8, <2>1 DEF kbExt, kbget
<1>9. CASE kbrlse
  <2>0. pc \in {"kbrlse", "kbexrls"} /\ Current.at = pc
    BY <1>5, <1>9 DEF kbrlse
  <2>1. CASE handOver /\ kbrelease(nextByte, pc = "kbexrls")
    <3>0. Parse(Current, nextByte) = Released(Current, nextByte)
      BY <2>0 DEF Parse
    <3>1. goto("kbinput1")
      BY <2>1 DEF kbrelease, clear, kbnull
    <3>2. Released(Current, nextByte) = St("kbinput1", 0, special' \ {"scroll"}, returned)
      <4>1. CASE nextByte = "14"
        <5>1. special' = special \ {"ctrl"}
          BY <2>1, <4>1 DEF kbrelease, clear
        <5>2. special' \ {"scroll"} = B \ {"ctrl"}
          BY <5>1
        <5> QED
          BY <1>5, <4>1, <5>2 DEF Released
      <4>2. CASE nextByte = "12" /\ pc # "kbexrls"
        <5>1. special' = special \ {"shift"}
          BY <2>1, <4>2 DEF kbrelease, clear
        <5>2. special' \ {"scroll"} = B \ {"shift"}
          BY <5>1
        <5>3. Current.at = "kbrlse"
          BY <2>0, <4>2
        <5> QED
          BY <1>5, <4>2, <5>2, <5>3 DEF Released
      <4>3. CASE nextByte # "14" /\ ~(nextByte = "12" /\ pc # "kbexrls")
        <5>1. special' = special
          BY <2>1, <4>3 DEF kbrelease
        <5>2. ~(nextByte = "12" /\ Current.at = "kbrlse")
          BY <2>0, <4>3
        <5> QED
          BY <1>5, <4>3, <5>1, <5>2 DEF Released
      <4> QED
        BY <4>1, <4>2, <4>3
    <3> QED
      BY <1>7, <2>1, <3>0, <3>1, <3>2 DEF Getting
  <2> QED
    BY <1>3, <1>9, <2>1 DEF kbrlse, kbget
<1>10. CASE kbBrk
  <2>0. pc = "kbBrk" /\ Current.at = "kbBrk" /\ Current.left = skip /\ skip \in 1 .. 7
    BY <1>5, <1>10 DEF kbBrk, Tracks, AnswersOK
  <2>1. CASE handOver /\ skip' = skip - 1 /\ UNCHANGED special /\ skip = 1 /\ convert("10")
    <3>1. Parse(Current, nextByte) = Convert(Current, "10")
      BY <2>0, <2>1 DEF Parse
    <3> QED
      BY <1>6, <2>1, <3>1
  <2>2. CASE handOver /\ skip' = skip - 1 /\ UNCHANGED special /\ skip # 1 /\ goto("kbBrk")
    <3>1. Parse(Current, nextByte) = St("kbBrk", skip - 1, B, returned)
      BY <1>5, <2>0, <2>2 DEF Parse
    <3>2. skip' \in 1 .. 7
      BY <2>0, <2>2
    <3> QED
      BY <1>7, <2>2, <3>1, <3>2 DEF Getting
  <2> QED
    BY <1>3, <1>10, <2>1, <2>2 DEF kbBrk, kbget
<1> QED
  BY <1>8, <1>9, <1>10

LEMMA ResendTracks ==
  ASSUME Tracks, kbresend \/ kbflush \/ flushed, Faithful'
  PROVE  Tracks'
<1>1. kbresend /\ pc = "kbresend" /\ sent = "FA" /\ ~restarted' /\ calls = <<"program">>
  BY Places DEF Tracks, AnswersOK, kbresend, kbflush, flushed, Faithful, Between
<1>2. PICK lit : lastbyte = ledByte(lit)
  BY <1>1 DEF Tracks, AnswersOK
<1>3. Typed' = Typed /\ UNCHANGED <<locks, typed>>
  BY <1>1, KeysStay DEF Driver
<1>4. /\ pc' = "kbinput1" /\ UNCHANGED <<calls, special, char, returned>>
      /\ lastbyte' = ledByte(lit)
      /\ receive(ledByte(lit)) \/ receiveDamaged
  BY <1>1, <1>2, SentTrue DEF kbresend, sends, goto
<1>5. UNCHANGED <<buffered, sent>> /\ answer' \in {<<"FA">>, <<"FE">>}
  <2>1. CASE receive(ledByte(lit))
    BY <2>1 DEF receive, ledByte
  <2>2. CASE receiveDamaged
    BY <2>2 DEF receiveDamaged
  <2> QED
    BY <1>4, <2>1, <2>2
<1>6. answer' = <<"FA">> \/ Fe'
  BY <1>1, <1>4, <1>5 DEF Fe
<1>7. Shape'
  BY <1>1, <1>4 DEF Shape, Getting
<1>8. AnswersOK'
  BY <1>4, <1>6, <1>7 DEF AnswersOK, Getting, Resetting
<1>9. ~Again /\ ~Again'
  <2>1. ~Again
    BY <1>1 DEF Again, Getting
  <2>2. \A b \in ScanCodes : answer' # <<b>>
    <3>1. <<"FA">>[1] = "FA" /\ <<"FE">>[1] = "FE" /\ \A b : <<b>>[1] = b
      OBVIOUS
    <3> QED
      BY <1>5, <3>1, NotCodes
  <2> QED
    BY <2>1, <2>2 DEF Again
<1>10. ~Done /\ ~Done'
  BY <1>1, <1>4 DEF Done, Setting
<1>11. Now' = Now
  <2>1. Current' = Current
    BY <1>1, <1>4, <1>10 DEF Current, Getting
  <2> QED
    BY <1>9, <2>1 DEF Now
<1>12. CodesOK'
  BY <1>3, <1>4, <1>5, <1>10, <1>11, Kept DEF Tracks
<1> QED
  BY <1>8, <1>12 DEF Tracks

LEMMA UserTracks ==
  ASSUME Tracks, User, UNCHANGED driverVars, Faithful'
  PROVE  Tracks'
<1>1. PICK e : Reads(Now, buffered, e) /\ RightFor(e, Typed)
  BY DEF Tracks, CodesOK, Leads
<1>2. /\ UserOK /\ buffered \in Seq(ScanCodes) /\ ~forgotten'
  BY DEF Tracks, CodesOK, Faithful
<1>3. /\ UserOK' /\ \E f : Reads(Now, buffered', f) /\ RightFor(f, Typed')
      /\ UNCHANGED <<answer, wantsLeds, leds, sent>>
  BY <1>1, <1>2, UserReads
<1>4. (Done' <=> Done) /\ Current' = Current
  BY DEF driverVars, Done, Current
<1>5. Now' = Now
  BY <1>3, <1>4 DEF driverVars, Now, Again
<1>6. buffered' \in Seq(ScanCodes)
  <2>1. PICK k \in Keys : Press(k) \/ Release(k)
    BY DEF User
  <2>2. make(k) \in Seq(ScanCodes) /\ break(k) \in Seq(ScanCodes)
    BY KeysSendCodes
  <2>3. ASSUME NEW codes \in Seq(ScanCodes), put(codes)
        PROVE  buffered' \in Seq(ScanCodes)
    <3>1. buffered' = buffered \o codes
      BY <1>2, <2>3 DEF put
    <3> QED
      BY <1>2, <2>3, <3>1, ConcatProperties
  <2> QED
    BY <2>1, <2>2, <2>3 DEF Press, Release
<1>7. Leads(Now)'
  BY <1>3, <1>5 DEF Leads
<1>8. AnswersOK'
  BY <1>3 DEF Tracks, AnswersOK, driverVars, Shape, Fe, CodeOnly
<1>9. CodesOK'
  BY <1>3, <1>4, <1>6, <1>7 DEF Tracks, CodesOK, driverVars
<1> QED
  BY <1>8, <1>9 DEF Tracks

-----------------------------------------------------------------------------
LEMMA TrackInit ==
  ASSUME Init
  PROVE  TrackIInv
<1>1. /\ pc = "kbinit" /\ calls = <<"program">> /\ special = {} /\ returned = <<>> /\ char = <<>>
      /\ held = {} /\ buffered = <<>> /\ answer = <<>> /\ sent = "AA" /\ locks = {"num"} /\ typed = <<>>
  BY DEF Init, KeyboardInit
<1>2. Shape
  BY <1>1 DEF Shape, Resetting
<1>3. AnswersOK
  BY <1>1, <1>2 DEF AnswersOK, Getting
<1>4. <<>> \in Seq(Chars) /\ <<>> \in Seq(ScanCodes)
  OBVIOUS
<1>5. ~Done /\ ~Again
  BY <1>1 DEF Done, Again, Getting, Setting
<1>6. Now = St("kbinput1", 0, {"num"}, <<>>)
  BY <1>1, <1>5 DEF Now, Current, Getting
<1>7. Typed = St("kbinput1", 0, {"num"}, <<>>)
  <2>1. ({} \cap {"shift", "ctrl"}) \cup {"num"} = {"num"}
    OBVIOUS
  <2> QED
    BY <1>1, <2>1 DEF Typed
<1>8. Typed.out = <<>>
  BY <1>7 DEF St
<1>9. Reads(Now, <<>>, Typed)
  BY <1>4, <1>6, <1>7, <1>8, ReadsNothing
<1>10. Leads(Now)
  BY <1>1, <1>9 DEF Leads, RightFor
<1>11. UserOK
  BY <1>1, <1>4 DEF UserOK
<1>12. CodesOK
  BY <1>1, <1>4, <1>5, <1>10, <1>11 DEF CodesOK
<1> QED
  BY <1>3, <1>12 DEF TrackIInv, Tracks

(* What was lost or started anew stays so.                                 *)
LEMMA StaysFaithful ==
  ASSUME [Next]_vars, Faithful'
  PROVE  Faithful
<1>1. ASSUME NEW c, NEW next, kbsend(c, next)
      PROVE  Faithful
  <2>1. ~restarted /\ (receive(c) \/ receiveDamaged)
    BY <1>1 DEF kbsend, Faithful
  <2>2. receive(c) => forgotten' = (forgotten \/ (c[1] \in {"FF", "F4"} /\ buffered # <<>>))
    BY DEF receive
  <2>3. receiveDamaged => forgotten' = forgotten
    BY DEF receiveDamaged
  <2>4. ~forgotten'
    BY DEF Faithful
  <2>5. receive(c) => ~forgotten
    BY <2>2, <2>4
  <2>6. receiveDamaged => ~forgotten
    <3>1. ASSUME receiveDamaged, forgotten
          PROVE  FALSE
      <4>1. forgotten' = forgotten
        BY <2>3, <3>1
      <4> QED
        BY <2>4, <3>1, <4>1, Zenon
    <3> QED
      BY <3>1
  <2>7. ~forgotten
    BY <2>1, <2>5, <2>6, Zenon
  <2> QED
    BY <2>1, <2>7, Zenon DEF Faithful
<1>2. ASSUME kbgetAgain \/ (handOver /\ (restarted => restarted'))
      PROVE  Faithful
  BY <1>2 DEF kbgetAgain, handOver, handOverAgain, Faithful
<1>3. ASSUME NEW code, convert(code)
      PROVE  restarted => restarted'
  BY <1>3 DEF convert
<1>4. ASSUME NEW b, kbcsrch(b)
      PROVE  restarted => restarted'
  BY <1>3, <1>4 DEF kbcsrch, set, kbnull
<1>5. ASSUME NEW b, kbext(b)
      PROVE  restarted => restarted'
  BY <1>3, <1>5 DEF kbext, set, kbnull
<1>6. ASSUME NEW b, NEW e, kbrelease(b, e)
      PROVE  restarted => restarted'
  BY <1>6 DEF kbrelease, clear, kbnull
<1>7. CASE UNCHANGED vars
  BY <1>7 DEF vars, keyboardVars, driverVars, Faithful
<1>8. CASE User /\ UNCHANGED driverVars
  BY <1>8 DEF User, Press, Release, put, driverVars, Faithful
<1>9. CASE kbinit \/ kbinput \/ isOff \/ kbdone1 \/ isOn \/ callKbinput
  BY <1>9 DEF kbinit, kbinput, isOff, kbdone1, isOn, callKbinput, kbtscrl, jumps, keyboardVars, Faithful
<1>10. CASE flushed
  BY <1>3, <1>10 DEF flushed, keyboardVars, Faithful
<1>11. CASE kbinit1 \/ kbsled \/ ledsSend \/ kbresend \/ kbflush
  BY <1>1, <1>11 DEF kbinit1, kbsled, ledsSend, kbresend, kbflush, sends
<1>12. CASE resetAck \/ resetOk \/ ledsAck
  BY <1>2, <1>12 DEF resetAck, resetOk, ledsAck, answered, kbget
<1>13. CASE kbinput1
  BY <1>2, <1>4, <1>13 DEF kbinput1, kbget
<1>14. CASE kbExt
  BY <1>2, <1>5, <1>14 DEF kbExt, kbget
<1>15. CASE kbrlse
  BY <1>2, <1>6, <1>15 DEF kbrlse, kbget
<1>16. CASE kbBrk
  BY <1>2, <1>3, <1>16 DEF kbBrk, kbget
<1> QED
  BY <1>7, <1>8, <1>9, <1>10, <1>11, <1>12, <1>13, <1>14, <1>15, <1>16 DEF Next, Driver

LEMMA TrackStep ==
  ASSUME TrackIInv, [Next]_vars
  PROVE  TrackIInv'
<1>1. SUFFICES ASSUME Faithful'
               PROVE  Tracks'
  BY DEF TrackIInv
<1>2. Tracks
  BY <1>1, StaysFaithful DEF TrackIInv
<1>3. CASE UNCHANGED vars
  BY <1>2, <1>3
     DEF Tracks, AnswersOK, CodesOK, Shape, Fe, CodeOnly, UserOK, Leads, Now, Again, Current,
         Done, Typed, vars, keyboardVars, driverVars
<1>4. CASE User /\ UNCHANGED driverVars
  BY <1>1, <1>2, <1>4, UserTracks
<1>5. CASE kbinit \/ kbinit1 \/ resetAck \/ resetOk
  BY <1>1, <1>2, <1>5, ResetTracks
<1>6. CASE kbsled \/ ledsAck
  BY <1>1, <1>2, <1>6, SetTracks
<1>7. CASE ledsSend
  BY <1>1, <1>2, <1>7, SendTracks
<1>8. CASE kbinput \/ kbdone1
  BY <1>1, <1>2, <1>8, TurnTracks
<1>9. CASE isOff \/ isOn \/ callKbinput
  BY <1>1, <1>2, <1>9, TestTracks
<1>10. CASE kbinput1
  BY <1>1, <1>2, <1>10, FirstTracks
<1>11. CASE kbExt \/ kbrlse \/ kbBrk
  BY <1>1, <1>2, <1>11, NextTracks
<1>12. CASE kbresend \/ kbflush \/ flushed
  BY <1>1, <1>2, <1>12, ResendTracks
<1> QED
  BY <1>3, <1>4, <1>5, <1>6, <1>7, <1>8, <1>9, <1>10, <1>11, <1>12 DEF Next, Driver

(* Reading a code only adds to what was returned.                          *)
LEMMA ConvertAdds ==
  ASSUME NEW d, d.out \in Seq(Chars), NEW code
  PROVE  Pre(d.out, Convert(d, code).out)
<1> DEFINE c == Cnvt(code, d.bits)
           g == IF "ctrl" \in d.bits /\ c[1] # "pause" THEN <<c[1], "ctrl">> ELSE c
<1>1. CASE c = <<>> \/ (c = <<"print", "plain">> /\ "ctrl" \in d.bits)
  <2>1. Convert(d, code).out = d.out
    BY <1>1 DEF Convert, St
  <2> QED
    BY <2>1, PreSame
<1>2. CASE ~(c = <<>> \/ (c = <<"print", "plain">> /\ "ctrl" \in d.bits))
  <2>1. Convert(d, code).out = Append(d.out, g)
    BY <1>2 DEF Convert, St
  <2>2. g \in Chars
    BY <1>2, CnvtChars
  <2> QED
    BY <2>1, <2>2, PreAppend
<1> QED
  BY <1>1, <1>2

LEMMA ParseAdds ==
  ASSUME NEW d, d.out \in Seq(Chars), NEW b
  PROVE  Pre(d.out, Parse(d, b).out)
<1>1. Pre(d.out, d.out)
  BY PreSame
<1>2. \A at, left, bits : Pre(d.out, St(at, left, bits, d.out).out)
  BY <1>1 DEF St
<1>3. Pre(d.out, First(d, b).out)
  <2>1. CASE b \in {"12", "14", "58", "77", "E0", "F0", "E1"}
    BY <1>2, <2>1 DEF First
  <2>2. CASE b \notin {"12", "14", "58", "77", "E0", "F0", "E1"}
    <3>1. First(d, b) = Convert(d, IF b = "83" THEN "02" ELSE b)
      BY <2>2 DEF First
    <3> QED
      BY <3>1, ConvertAdds
  <2> QED
    BY <2>1, <2>2
<1>4. Pre(d.out, Behind(d, b).out)
  <2>1. CASE b \in {"F0", "14"}
    BY <1>2, <2>1 DEF Behind
  <2>2. CASE b \notin {"F0", "14"}
    <3>1. PICK code : Behind(d, b) = Convert(d, code)
      BY <2>2 DEF Behind
    <3> QED
      BY <3>1, ConvertAdds
  <2> QED
    BY <2>1, <2>2
<1>5. Pre(d.out, Released(d, b).out)
  BY <1>2 DEF Released
<1>6. Pre(d.out, Convert(d, "10").out)
  BY ConvertAdds
<1>7. CASE d.at = "kbinput1"
  BY <1>3, <1>7 DEF Parse
<1>8. CASE d.at = "kbExt"
  BY <1>4, <1>8 DEF Parse
<1>9. CASE d.at = "kbBrk"
  BY <1>2, <1>6, <1>9 DEF Parse
<1>10. CASE d.at \in {"kbrlse", "kbexrls"}
  BY <1>5, <1>10 DEF Parse
<1>11. CASE d.at \notin {"kbinput1", "kbExt", "kbBrk", "kbrlse", "kbexrls"}
  BY <1>1, <1>11 DEF Parse
<1> QED
  BY <1>7, <1>8, <1>9, <1>10, <1>11

LEMMA PreIsPrefix ==
  ASSUME NEW a, NEW b, Pre(a, b)
  PROVE  IsPrefix(a, b)
<1>1. /\ a \in Seq(Chars) /\ b \in Seq(Chars) /\ Len(a) \in Nat /\ Len(b) \in Nat
      /\ Len(a) <= Len(b) /\ \A i \in 1 .. Len(a) : a[i] = b[i]
  BY LenProperties DEF Pre
<1>2. \A i \in 1 .. Len(a) : a[i] \in Chars /\ b[i] \in Chars
  <2>1. \A i \in 1 .. Len(a) : a[i] \in Chars
    BY <1>1, ElementOfSeq
  <2> QED
    BY <1>1, <2>1
<1> DEFINE n == Len(a)
           x == SubSeq(a, 1, n)
           y == SubSeq(b, 1, n)
<1>3. /\ x \in Seq(Chars) /\ Len(x) = (IF 1 <= n THEN n - 1 + 1 ELSE 0)
      /\ \A i \in 1 .. n - 1 + 1 : x[i] = a[1 + i - 1]
  BY <1>1, <1>2, SubSeqProperties
<1>4. /\ y \in Seq(Chars) /\ Len(y) = (IF 1 <= n THEN n - 1 + 1 ELSE 0)
      /\ \A i \in 1 .. n - 1 + 1 : y[i] = b[1 + i - 1]
  BY <1>1, <1>2, SubSeqProperties
<1> HIDE DEF x, y
<1>5. Len(x) = n /\ Len(y) = n /\ \A i \in 1 .. n : x[i] = y[i]
  BY <1>1, <1>3, <1>4
<1>6. x = y
  BY <1>3, <1>4, <1>5, SeqEqual
<1> QED
  BY <1>1, <1>6 DEF IsPrefix, x, y

LEMMA InOrderHolds ==
  ASSUME TrackIInv
  PROVE  Faithful => InOrder
<1>1. SUFFICES ASSUME Faithful
               PROVE  IsPrefix(returned, typed)
  BY DEF InOrder
<1>2. CodesOK
  BY <1>1 DEF TrackIInv, Tracks
<1>3. PICK e : Reads(Now, buffered, e) /\ RightFor(e, Typed)
  BY <1>2 DEF CodesOK, Leads
<1>4. Pre(returned, Current.out)
  <2>1. Current.out = IF Done THEN Append(returned, char) ELSE returned
    BY DEF Current, St
  <2>2. returned \in Seq(Chars) /\ (Done => char \in Chars)
    BY <1>2 DEF CodesOK
  <2>3. Pre(returned, returned)
    BY <2>2, PreSame
  <2> QED
    BY <2>1, <2>2, <2>3, PreAppend
<1>5. Pre(Current.out, Now.out)
  <2>1. Current.out \in Seq(Chars)
    BY <1>4 DEF Pre
  <2>2. Pre(Current.out, Current.out)
    BY <2>1, PreSame
  <2> QED
    BY <2>1, <2>2, ParseAdds DEF Now
<1>6. Pre(Now.out, e.out)
  <2>1. PICK st : /\ st[0] = Now
                  /\ \A i \in 0 .. Len(buffered) : Pre(st[i].out, e.out)
    BY <1>3 DEF Reads
  <2>2. Len(buffered) \in Nat
    BY <1>2, LenProperties DEF CodesOK
  <2> QED
    BY <2>1, <2>2
<1>7. Pre(e.out, typed)
  <2>1. Typed.out = typed
    BY DEF Typed, St
  <2>2. typed \in Seq(Chars)
    BY <1>2 DEF CodesOK, UserOK
  <2> QED
    BY <1>3, <2>1, <2>2, PreSame DEF RightFor
<1>8. Pre(returned, typed)
  BY <1>4, <1>5, <1>6, <1>7, PreTransitive
<1> QED
  BY <1>8, PreIsPrefix

LEMMA ModifiersHold ==
  ASSUME TrackIInv
  PROVE  ModifiersTracked
<1>1. SUFFICES ASSUME pc = "kbinput1", answer = <<>>, buffered = <<>>, Faithful
               PROVE  /\ special \cap {"shift", "ctrl"} = held \cap {"shift", "ctrl"}
                      /\ special \cap {"num", "caps"} = locks
  BY DEF ModifiersTracked, Waiting, ready
<1>2. CodesOK
  BY <1>1 DEF TrackIInv, Tracks
<1>3. PICK e : Reads(Now, buffered, e) /\ RightFor(e, Typed)
  BY <1>2 DEF CodesOK, Leads
<1>4. Now = Current
  BY <1>1 DEF Now, Again
<1>5. Current = e
  BY <1>1, <1>3, <1>4, ReadsNothing
<1>6. e.at = "kbinput1" /\ e.bits = special \ {"scroll"}
  BY <1>1, <1>5 DEF Current, St, Getting
<1>7. e = Typed
  BY <1>3, <1>6 DEF RightFor
<1>8. special \ {"scroll"} = (held \cap {"shift", "ctrl"}) \cup locks
  BY <1>6, <1>7 DEF Typed, St
<1>9. locks \subseteq {"num", "caps"}
  BY <1>2 DEF CodesOK, UserOK
<1> QED
  BY <1>8, <1>9

(* Unless the keyboard lost codes or was started anew, pckybd.asm keeps    *)
(* the modifiers and the locks in special: wherever kbinput waits and no   *)
(* code is left, the shift and control bits are those of the keys that are *)
(* down, and the others those of the locks that are on.                    *)
THEOREM ModifiersAreTracked == Spec => []ModifiersTracked
<1>1. Init => TrackIInv
  BY TrackInit
<1>2. TrackIInv /\ [Next]_vars => TrackIInv'
  BY TrackStep
<1>3. TrackIInv => ModifiersTracked
  BY ModifiersHold
<1> QED
  BY <1>1, <1>2, <1>3, PTL DEF Spec

(* Unless the keyboard lost codes or was started anew, the characters that *)
(* kbinput of pckybd.asm returned are the first of those that were typed,  *)
(* in order and once - however often bytes were damaged and sent again.    *)
THEOREM KeysAreInOrder == Spec => [](Faithful => InOrder)
<1>1. Init => TrackIInv
  BY TrackInit
<1>2. TrackIInv /\ [Next]_vars => TrackIInv'
  BY TrackStep
<1>3. TrackIInv => (Faithful => InOrder)
  BY InOrderHolds
<1> QED
  BY <1>1, <1>2, <1>3, PTL DEF Spec

-----------------------------------------------------------------------------
(* The strings of BASIC (BasicStrings).                                    *)

Characters == Range(ProgramText) \cup Codes \cup {arrayText}
Names == Variables \cup Range(Temporaries)
Descriptors == [len : Nat, at : Nat]

end(d) == d.at + d.len
inText(d) == end(d) <= Len(ProgramText)
(* A string that is not in the program, and so can be moved.               *)
stored(h, v) == h.descriptor[v].len > 0 /\ h.STREND <= h.descriptor[v].at
disjoint(c, d) == end(c) <= d.at \/ end(d) <= c.at

aHeap(m, s, f, t, d) == [memory |-> m, STREND |-> s, FRETOP |-> f, TEMPPT |-> t, descriptor |-> d]
IsRecord(h) == h = aHeap(h.memory, h.STREND, h.FRETOP, h.TEMPPT, h.descriptor)

(* The program lies at the bottom of the memory.                           *)
IsMemory(m) ==
  /\ m = [a \in 0 .. MEMSIZ - 1 |-> m[a]]
  /\ \A a \in 0 .. Len(ProgramText) - 1 : m[a] = ProgramText[a + 1]

IsHeap(h) ==
  /\ IsRecord(h) /\ IsMemory(h.memory)
  /\ h.descriptor \in [Names -> Descriptors]
  /\ h.STREND \in Nat /\ h.FRETOP \in Nat /\ h.TEMPPT \in 0 .. Len(Temporaries)
  /\ Len(ProgramText) <= h.STREND /\ h.STREND <= h.FRETOP /\ h.FRETOP <= MEMSIZ

(* Every variable has a string of its own, in the program or behind the    *)
(* arrays; the values in an expression were put below those of the         *)
(* variables.                                                              *)
VariablesApart(h) ==
  /\ \A v \in Variables : h.descriptor[v].len > 0 =>
       \/ inText(h.descriptor[v])
       \/ stored(h, v) /\ end(h.descriptor[v]) <= MEMSIZ
  /\ \A v, w \in Variables :
       stored(h, v) /\ stored(h, w) /\ v # w => disjoint(h.descriptor[v], h.descriptor[w])
  /\ \A t \in inUse(h) :
       /\ end(h.descriptor[t]) <= MEMSIZ
       /\ \A v \in Variables : stored(h, v) => end(h.descriptor[t]) <= h.descriptor[v].at

VariablesAbove(h) == \A v \in Variables : stored(h, v) => h.FRETOP <= h.descriptor[v].at

HeapInv(h) == IsHeap(h) /\ VariablesApart(h) /\ VariablesAbove(h)

(* Unless one was left behind, the values are where the next string does   *)
(* not come, and apart from each other.                                    *)
TemporariesAbove(h) ==
  /\ \A t \in inUse(h) : h.descriptor[t].len > 0 =>
       inText(h.descriptor[t]) \/ h.FRETOP <= h.descriptor[t].at
  /\ \A t, u \in inUse(h) :
       /\ h.descriptor[t].len > 0 /\ h.descriptor[u].len > 0 /\ t # u
       /\ ~inText(h.descriptor[t]) /\ ~inText(h.descriptor[u])
       => disjoint(h.descriptor[t], h.descriptor[u])

(* The temporaries in use are those among the operands, in their order.    *)
OperandsInv(h, os) ==
  /\ os \in Seq(Names)
  /\ \A k \in DOMAIN os : os[k] \in Variables \cup inUse(h)
  /\ \A t \in inUse(h) : \E k \in DOMAIN os : os[k] = t
  /\ \A k, l \in DOMAIN os : \A c, d \in 1 .. h.TEMPPT :
       k < l /\ os[k] = Temporaries[c] /\ os[l] = Temporaries[d] => c < d

VariablesInv(h, as) ==
  /\ as \in [Variables -> Seq(Characters)]
  /\ \A v \in Variables : stringOf(h, v) = as[v] /\ Len(as[v]) = h.descriptor[v].len
  /\ ~dimensioned(h) => \A v \in Elements : h.descriptor[v].len = 0

ValuesInv(h, os, ms, left) ==
  /\ ms \in Seq(Seq(Characters)) /\ Len(ms) = Len(os)
  /\ \A k \in DOMAIN os : Len(ms[k]) = h.descriptor[os[k]].len
  /\ ~left => /\ TemporariesAbove(h)
              /\ \A k \in DOMAIN os : stringOf(h, os[k]) = ms[k]

StringInv(h, os, ms, as, left) ==
  /\ HeapInv(h) /\ OperandsInv(h, os) /\ VariablesInv(h, as)
  /\ ValuesInv(h, os, ms, left)

StringsInv ==
  /\ forsaken \in BOOLEAN /\ spoiled \in BOOLEAN
  /\ ~spoiled => StringInv(heap, operands, meant, assigned, forsaken)
-----------------------------------------------------------------------------
(* The least number of a set; a set that lacks the least is empty.         *)
LEMMA LeastNumber ==
  ASSUME NEW S \in SUBSET Nat, S # {}
  PROVE  \E n \in S : \A m \in S : n <= m
<1>1. PICK n \in S : \A m \in S : ~(<<m, n>> \in OpToRel(<, Nat))
      BY NatLessThanWellFounded, WFMin, Zenon
<1>2. \A m \in S : ~(m < n)
      BY <1>1, Zenon DEF OpToRel
<1>3. QED BY <1>2

(* The scans of the collector are what their equation says.                *)
LEMMA ScansExist ==
  ASSUME NEW h, NEW N \in Nat
  PROVE  \E f : f = [k \in 0 .. N |-> IF k = 0 THEN h ELSE moveHighest(f[k - 1])]
<1> DEFINE S == {n \in 0 .. N : ~\E f : f = [k \in 0 .. n |-> IF k = 0 THEN h
                                                              ELSE moveHighest(f[k - 1])]}
<1>1. SUFFICES ASSUME S # {} PROVE FALSE
      OBVIOUS
<1>2. PICK n \in S : \A m \in S : n <= m
      <2>1. S \in SUBSET Nat
            OBVIOUS
      <2>2. QED BY <2>1, <1>1, LeastNumber
<1>3. n # 0
      <2>1. SUFFICES ASSUME n = 0 PROVE FALSE
            OBVIOUS
      <2> DEFINE f == [k \in 0 .. 0 |-> h]
      <2>2. f = [k \in 0 .. 0 |-> IF k = 0 THEN h ELSE moveHighest(f[k - 1])]
            OBVIOUS
      <2>3. QED BY <2>1, <2>2
<1>4. n - 1 \in 0 .. N /\ n - 1 \notin S
      <2>1. n \in 0 .. N
            OBVIOUS
      <2> HIDE DEF S
      <2>2. n - 1 \in 0 .. N /\ ~(n <= n - 1)
            BY <2>1, <1>3
      <2>3. QED BY <1>2, <2>2
<1>5. PICK f : f = [k \in 0 .. n - 1 |-> IF k = 0 THEN h ELSE moveHighest(f[k - 1])]
      BY <1>4
<1> DEFINE g == [k \in 0 .. n |-> IF k = n THEN moveHighest(f[n - 1]) ELSE f[k]]
<1>6. \A k \in 0 .. n : g[k] = IF k = 0 THEN h ELSE moveHighest(g[k - 1])
      <2>1. TAKE k \in 0 .. n
      <2>2. CASE k = n
            <3>1. g[n] = moveHighest(f[n - 1]) /\ g[n - 1] = f[n - 1]
                  BY <1>3
            <3>2. QED BY <3>1, <2>2, <1>3
      <2>3. CASE k = 0
            <3>1. g[0] = f[0] /\ f[0] = h
                  BY <1>3, <1>5
            <3>2. QED BY <3>1, <2>3
      <2>4. CASE k # n /\ k # 0
            <3>1. g[k] = f[k] /\ g[k - 1] = f[k - 1] /\ k \in 0 .. n - 1
                  BY <2>4
            <3>2. f[k] = moveHighest(f[k - 1])
                  BY <3>1, <2>4, <1>5
            <3>3. QED BY <3>1, <3>2, <2>4
      <2>5. QED BY <2>2, <2>3, <2>4
<1>7. g = [k \in 0 .. n |-> IF k = 0 THEN h ELSE moveHighest(g[k - 1])]
      <2> HIDE DEF g
      <2>1. g = [k \in 0 .. n |-> g[k]]
            BY DEF g
      <2>2. QED BY <2>1, <1>6
<1>8. n \notin S
      BY <1>7
<1>9. QED BY <1>8

LEMMA ManyVariables == Cardinality(Variables) \in Nat /\ IsFiniteSet(Variables)
BY BasicAssumption, FS_Union, FS_CardinalityType DEF Variables

LEMMA Scans ==
  ASSUME NEW h
  PROVE  /\ scans(h)[0] = h
         /\ \A k \in 1 .. Cardinality(Variables) :
              scans(h)[k] = moveHighest(scans(h)[k - 1])
<1>1. \E f : f = [k \in 0 .. Cardinality(Variables) |->
                    IF k = 0 THEN h ELSE moveHighest(f[k - 1])]
      BY ManyVariables, ScansExist
<1>2. scans(h) = [k \in 0 .. Cardinality(Variables) |->
                    IF k = 0 THEN h ELSE moveHighest(scans(h)[k - 1])]
      BY <1>1 DEF scans
<1>3. \A k \in 0 .. Cardinality(Variables) :
        scans(h)[k] = IF k = 0 THEN h ELSE moveHighest(scans(h)[k - 1])
      <2> DEFINE body(k) == IF k = 0 THEN h ELSE moveHighest(scans(h)[k - 1])
      <2>1. scans(h) = [k \in 0 .. Cardinality(Variables) |-> body(k)]
            BY <1>2
      <2> HIDE DEF body
      <2>2. \A k \in 0 .. Cardinality(Variables) : scans(h)[k] = body(k)
            BY <2>1, Zenon
      <2>3. QED BY <2>2 DEF body
<1>4. QED BY <1>3, ManyVariables

-----------------------------------------------------------------------------
(* A heap in which one field is changed.                                   *)
LEMMA HeapUpdates ==
  ASSUME NEW h, IsRecord(h), NEW x
  PROVE  /\ [h EXCEPT !.memory = x] = aHeap(x, h.STREND, h.FRETOP, h.TEMPPT, h.descriptor)
         /\ [h EXCEPT !.STREND = x] = aHeap(h.memory, x, h.FRETOP, h.TEMPPT, h.descriptor)
         /\ [h EXCEPT !.FRETOP = x] = aHeap(h.memory, h.STREND, x, h.TEMPPT, h.descriptor)
         /\ [h EXCEPT !.TEMPPT = x] = aHeap(h.memory, h.STREND, h.FRETOP, x, h.descriptor)
         /\ [h EXCEPT !.descriptor = x] = aHeap(h.memory, h.STREND, h.FRETOP, h.TEMPPT, x)
<1> DEFINE m == h.memory
           s == h.STREND
           f == h.FRETOP
           t == h.TEMPPT
           d == h.descriptor
<1>1. h = aHeap(m, s, f, t, d)
      BY DEF IsRecord
<1> HIDE DEF m, s, f, t, d
<1>2. SUFFICES
         /\ [h EXCEPT !.memory = x] = aHeap(x, s, f, t, d)
         /\ [h EXCEPT !.STREND = x] = aHeap(m, x, f, t, d)
         /\ [h EXCEPT !.FRETOP = x] = aHeap(m, s, x, t, d)
         /\ [h EXCEPT !.TEMPPT = x] = aHeap(m, s, f, x, d)
         /\ [h EXCEPT !.descriptor = x] = aHeap(m, s, f, t, x)
      BY DEF m, s, f, t, d
<1>3. [h EXCEPT !.memory = x] = aHeap(x, s, f, t, d)
      BY <1>1 DEF aHeap
<1>4. [h EXCEPT !.STREND = x] = aHeap(m, x, f, t, d)
      BY <1>1 DEF aHeap
<1>5. [h EXCEPT !.FRETOP = x] = aHeap(m, s, x, t, d)
      BY <1>1 DEF aHeap
<1>6. [h EXCEPT !.TEMPPT = x] = aHeap(m, s, f, x, d)
      BY <1>1 DEF aHeap
<1>7. [h EXCEPT !.descriptor = x] = aHeap(m, s, f, t, x)
      BY <1>1 DEF aHeap
<1>8. QED BY <1>3, <1>4, <1>5, <1>6, <1>7

LEMMA HeapFields ==
  ASSUME NEW m, NEW s, NEW f, NEW t, NEW d
  PROVE  LET h == aHeap(m, s, f, t, d)
         IN  /\ h.memory = m /\ h.STREND = s /\ h.FRETOP = f /\ h.TEMPPT = t /\ h.descriptor = d
             /\ IsRecord(h)
BY DEF aHeap, IsRecord

-----------------------------------------------------------------------------
LEMMA StringConstants ==
  /\ MEMSIZ \in Nat /\ Len(ProgramText) \in Nat /\ Len(ProgramText) <= MEMSIZ
  /\ Len(Temporaries) \in Nat /\ ArrayBytes \in Nat \ {0} /\ MaxLength \in Nat
  /\ \A k \in 1 .. Len(Temporaries) : Temporaries[k] \in Names /\ Temporaries[k] \notin Variables
  /\ \A k, l \in 1 .. Len(Temporaries) : Temporaries[k] = Temporaries[l] => k = l
  /\ \A v \in Variables : v \in Names /\ v \notin Range(Temporaries)
<1>1. Temporaries \in Seq(STRING) /\ ProgramText \in Seq(Range(ProgramText))
      BY BasicAssumption
<1>2. DOMAIN Temporaries = 1 .. Len(Temporaries) /\ Len(Temporaries) \in Nat
      BY <1>1, LenProperties
<1>3. Len(ProgramText) \in Nat
      BY <1>1, LenProperties
<1>4. \A k \in 1 .. Len(Temporaries) : Temporaries[k] \in Range(Temporaries)
      BY <1>2 DEF Range
<1>5. QED BY <1>2, <1>3, <1>4, BasicAssumption DEF Names, Variables

LEMMA InUseFacts ==
  ASSUME NEW h, h.TEMPPT \in 0 .. Len(Temporaries), NEW t \in inUse(h)
  PROVE  t \in Names /\ t \notin Variables
BY StringConstants DEF inUse

(* What the heap and its strings are if only the memory above a place is   *)
(* written: a string whose bytes are the same is the same.                 *)
LEMMA SameBytes ==
  ASSUME NEW h, NEW g, NEW n, NEW k,
         g.descriptor[n].len = h.descriptor[k].len,
         \A i \in 1 .. h.descriptor[k].len :
            g.memory[g.descriptor[n].at + i - 1] = h.memory[h.descriptor[k].at + i - 1]
  PROVE  stringOf(g, n) = stringOf(h, k)
BY DEF stringOf

-----------------------------------------------------------------------------
(* The collection.                                                         *)

(* What a collection keeps of the heap it began with.                      *)
SameStrings(h, g) ==
  /\ g.STREND = h.STREND /\ g.TEMPPT = h.TEMPPT
  /\ \A n \in Names : g.descriptor[n].len = h.descriptor[n].len
  /\ \A n \in Range(Temporaries) : g.descriptor[n] = h.descriptor[n]
  /\ \A v \in Variables : stored(h, v) <=> stored(g, v)
  /\ \A n \in Variables \cup inUse(h) : stringOf(g, n) = stringOf(h, n)

(* During a collection: the strings below FRETOP have not been moved.      *)
CollectInv(h) ==
  /\ IsHeap(h) /\ VariablesApart(h)
  /\ \A t \in inUse(h) : end(h.descriptor[t]) <= h.FRETOP
  /\ \A v \in Variables :
       stored(h, v) /\ h.descriptor[v].at < h.FRETOP => end(h.descriptor[v]) <= h.FRETOP

toMove(h) == {v \in Variables : stored(h, v) /\ h.descriptor[v].at < h.FRETOP}

LEMMA MoveUpFields ==
  ASSUME NEW h, IsHeap(h), NEW n \in Variables, stored(h, n),
         end(h.descriptor[n]) <= h.FRETOP
  PROVE  LET d == h.descriptor[n]
             to == h.FRETOP - d.len
             g == moveUp(h, n)
         IN  /\ to \in Nat /\ d.at <= to /\ d.at \in Nat /\ d.len \in Nat /\ h.STREND <= d.at
             /\ IsRecord(g) /\ g.STREND = h.STREND /\ g.FRETOP = to /\ g.TEMPPT = h.TEMPPT
             /\ g.memory = [a \in 0 .. MEMSIZ - 1 |-> g.memory[a]]
             /\ \A a \in 0 .. MEMSIZ - 1 : g.memory[a] =
                  IF to <= a /\ a < h.FRETOP THEN h.memory[d.at + a - to] ELSE h.memory[a]
             /\ g.descriptor \in [Names -> Descriptors]
             /\ g.descriptor[n] = [len |-> d.len, at |-> to]
             /\ \A k \in Names : k # n => g.descriptor[k] = h.descriptor[k]
<1> DEFINE d == h.descriptor[n]
           to == h.FRETOP - d.len
           g == moveUp(h, n)
<1>1. n \in Names
      BY StringConstants
<1>2. d \in Descriptors /\ d.at \in Nat /\ d.len \in Nat
      BY <1>1 DEF IsHeap, Descriptors
<1>3. to \in Nat /\ d.at <= to /\ h.STREND <= d.at
      BY <1>2 DEF IsHeap, end, stored
<1> DEFINE desc == [h.descriptor EXCEPT ![n].at = to]
           mem == [a \in 0 .. MEMSIZ - 1 |-> IF to <= a /\ a < h.FRETOP
                                             THEN h.memory[d.at + a - to] ELSE h.memory[a]]
<1>4. DOMAIN h.memory = 0 .. MEMSIZ - 1
      BY DEF IsHeap, IsMemory
<1>5. g = aHeap(mem, h.STREND, to, h.TEMPPT, desc)
      <2> DEFINE e1 == [h EXCEPT !.FRETOP = to]
                 e2 == [e1 EXCEPT !.descriptor = [e1.descriptor EXCEPT ![n] =
                                                    [e1.descriptor[n] EXCEPT !.at = to]]]
                 e3 == [e2 EXCEPT !.memory = mem]
      <2>1. g = e3
            BY <1>4 DEF moveUp
      <2>2. e1 = aHeap(h.memory, h.STREND, to, h.TEMPPT, h.descriptor)
            BY HeapUpdates DEF IsHeap
      <2>3. e1.descriptor = h.descriptor /\ IsRecord(e1)
            BY <2>2, HeapFields
      <2>4. e2 = [e1 EXCEPT !.descriptor = desc]
            BY <2>3
      <2>5. e2 = aHeap(h.memory, h.STREND, to, h.TEMPPT, desc)
            <3> HIDE DEF e1, e2, desc, to
            <3>1. QED BY <2>2, <2>4 DEF aHeap
      <2>6. e3 = aHeap(mem, h.STREND, to, h.TEMPPT, desc)
            <3> HIDE DEF e2, desc, to, mem
            <3>1. QED BY <2>5 DEF aHeap
      <2>7. QED BY <2>1, <2>6
<1>6. /\ desc \in [Names -> Descriptors] /\ desc[n] = [len |-> d.len, at |-> to]
      /\ \A k \in Names : k # n => desc[k] = h.descriptor[k]
      BY <1>1, <1>2, <1>3 DEF IsHeap, Descriptors
<1>7. /\ IsRecord(g) /\ g.STREND = h.STREND /\ g.FRETOP = to /\ g.TEMPPT = h.TEMPPT
      /\ g.memory = mem /\ g.descriptor = desc
      <2> HIDE DEF g, mem, desc, to
      <2>1. QED BY <1>5, HeapFields
<1>8. QED
      <2> HIDE DEF g, mem, desc
      <2>1. /\ mem = [a \in 0 .. MEMSIZ - 1 |-> mem[a]]
            /\ \A a \in 0 .. MEMSIZ - 1 : mem[a] =
                  IF to <= a /\ a < h.FRETOP THEN h.memory[d.at + a - to] ELSE h.memory[a]
            BY DEF mem
      <2>2. QED BY <1>2, <1>3, <1>6, <1>7, <2>1 DEF g

LEMMA ByteOutside ==
  ASSUME NEW at \in Nat, NEW len \in Nat, NEW low \in Nat, NEW high \in Nat, NEW top \in Nat,
         at + len <= top, at + len <= low \/ high <= at, NEW i \in 1 .. len
  PROVE  /\ at + i - 1 \in 0 .. top - 1
         /\ ~(low <= at + i - 1 /\ at + i - 1 < high)
OBVIOUS

LEMMA DescriptorFacts ==
  ASSUME NEW h, IsHeap(h), NEW n \in Names
  PROVE  /\ h.descriptor[n].len \in Nat /\ h.descriptor[n].at \in Nat
         /\ end(h.descriptor[n]) = h.descriptor[n].at + h.descriptor[n].len
         /\ end(h.descriptor[n]) \in Nat
<1>1. h.descriptor[n] \in Descriptors
      BY DEF IsHeap
<1>2. QED BY <1>1 DEF Descriptors, end

(* Of the strings not yet moved the highest is moved up: the others, and   *)
(* the values in the expression, lie below it.                             *)
LEMMA MoveUpKeeps ==
  ASSUME NEW h, CollectInv(h), NEW n \in toMove(h),
         \A v \in toMove(h) : h.descriptor[v].at <= h.descriptor[n].at
  PROVE  LET g == moveUp(h, n)
         IN  CollectInv(g) /\ SameStrings(h, g) /\ toMove(g) \subseteq toMove(h) \ {n}
<1> DEFINE d == h.descriptor[n]
           to == h.FRETOP - d.len
           g == moveUp(h, n)
<1>1. /\ n \in Variables /\ stored(h, n) /\ end(d) <= h.FRETOP /\ d.at < h.FRETOP
      /\ IsHeap(h) /\ VariablesApart(h) /\ d.len > 0
      BY DEF toMove, CollectInv, stored
<1>2. /\ to \in Nat /\ d.at <= to /\ d.at \in Nat /\ d.len \in Nat /\ h.STREND <= d.at
      /\ IsRecord(g) /\ g.STREND = h.STREND /\ g.FRETOP = to /\ g.TEMPPT = h.TEMPPT
      /\ g.memory = [a \in 0 .. MEMSIZ - 1 |-> g.memory[a]]
      /\ \A a \in 0 .. MEMSIZ - 1 : g.memory[a] =
           IF to <= a /\ a < h.FRETOP THEN h.memory[d.at + a - to] ELSE h.memory[a]
      /\ g.descriptor \in [Names -> Descriptors]
      /\ g.descriptor[n] = [len |-> d.len, at |-> to]
      /\ \A k \in Names : k # n => g.descriptor[k] = h.descriptor[k]
      BY <1>1, MoveUpFields
<1>3. /\ MEMSIZ \in Nat /\ h.FRETOP \in Nat /\ h.STREND \in Nat /\ h.FRETOP <= MEMSIZ
      /\ Len(ProgramText) \in Nat /\ Len(ProgramText) <= h.STREND /\ to + d.len = h.FRETOP
      /\ g.descriptor[n].at = to /\ g.descriptor[n].len = d.len
      BY <1>1, <1>2, StringConstants DEF IsHeap
<1> HIDE DEF g, to
<1>20. /\ to \in Nat /\ d.at <= to /\ d.at \in Nat /\ h.STREND <= d.at /\ to <= h.FRETOP
       /\ h.FRETOP <= MEMSIZ /\ Len(ProgramText) <= d.at /\ MEMSIZ \in Nat /\ h.FRETOP \in Nat
       /\ Len(ProgramText) \in Nat
      BY <1>2, <1>3
<1>4. inUse(g) = inUse(h) /\ \A t \in inUse(h) : t \in Names /\ t # n /\ t \in Range(Temporaries)
      <2>1. \A t \in inUse(h) : t \in Names /\ t \notin Variables
            BY <1>1, InUseFacts DEF IsHeap
      <2>2. QED BY <1>1, <1>2, <2>1 DEF inUse, Names
<1>5. \A v \in Variables : v \in Names /\ v \notin Range(Temporaries)
      BY StringConstants
<1>6. \A v \in Variables : v # n /\ stored(h, v) =>
        \/ end(h.descriptor[v]) <= d.at /\ h.descriptor[v].at < h.FRETOP
        \/ h.FRETOP <= h.descriptor[v].at
      <2>1. SUFFICES ASSUME NEW v \in Variables, v # n, stored(h, v), h.descriptor[v].at < h.FRETOP
                     PROVE  end(h.descriptor[v]) <= d.at
            BY <1>3, <1>5, <1>1, DescriptorFacts
      <2>2. h.descriptor[v].at <= d.at
            BY <2>1 DEF toMove
      <2>3. disjoint(h.descriptor[v], d)
            BY <2>1, <1>1 DEF VariablesApart
      <2>4. h.descriptor[v].at \in Nat /\ end(h.descriptor[v]) \in Nat /\ end(d) = d.at + d.len
            BY <1>5, <1>1, DescriptorFacts
      <2>5. QED BY <2>2, <2>3, <2>4, <1>1, <1>2 DEF disjoint
<1>7. \A v \in Variables : stored(g, v) <=> stored(h, v)
      BY <1>1, <1>2, <1>3, <1>5 DEF stored
<1>8. \A t \in inUse(h) : end(h.descriptor[t]) <= d.at
      BY <1>1 DEF VariablesApart
<1>9. \A k \in Variables \cup inUse(h) : stringOf(g, k) = stringOf(h, k)
      <2>1. SUFFICES ASSUME NEW k \in Variables \cup inUse(h)
                     PROVE  stringOf(g, k) = stringOf(h, k)
            OBVIOUS
      <2>2. CASE k = n
            <3>1. \A i \in 1 .. d.len : g.memory[to + i - 1] = h.memory[d.at + i - 1]
                  <4>1. TAKE i \in 1 .. d.len
                  <4>2. /\ to \in Nat /\ d.at \in Nat /\ d.len \in Nat /\ MEMSIZ \in Nat
                         /\ h.FRETOP \in Nat /\ h.FRETOP <= MEMSIZ /\ to + d.len = h.FRETOP
                        BY <1>2, <1>3
                  <4>3. to + i - 1 \in 0 .. MEMSIZ - 1 /\ to <= to + i - 1 /\ to + i - 1 < h.FRETOP
                        BY <4>1, <4>2
                  <4>4. d.at + (to + i - 1) - to = d.at + i - 1
                        BY <4>2
                  <4>5. QED BY <4>3, <4>4, <1>2
            <3>2. QED BY <3>1, <2>2, <1>3, SameBytes
      <2>3. CASE k # n
            <3> DEFINE c == h.descriptor[k]
            <3>1. g.descriptor[k] = c /\ k \in Names
                  BY <2>1, <2>3, <1>2, <1>4, <1>5
            <3>2. c.at \in Nat /\ c.len \in Nat /\ end(c) = c.at + c.len /\ end(c) \in Nat
                  BY <3>1, <1>1, DescriptorFacts
            <3>3. c.len > 0 => end(c) <= MEMSIZ /\ (end(c) <= d.at \/ h.FRETOP <= c.at)
                  <4>1. CASE k \in inUse(h)
                        BY <4>1, <1>1, <1>8 DEF VariablesApart
                  <4>2. CASE k \in Variables
                        <5>1. SUFFICES ASSUME c.len > 0
                                       PROVE  end(c) <= MEMSIZ /\ (end(c) <= d.at \/ h.FRETOP <= c.at)
                              OBVIOUS
                        <5>2. CASE inText(c)
                              BY <5>2, <3>2, <1>20 DEF inText
                        <5>3. CASE stored(h, k) /\ end(c) <= MEMSIZ
                              BY <5>3, <4>2, <2>3, <1>6
                        <5>4. QED BY <5>1, <5>2, <5>3, <4>2, <1>1 DEF VariablesApart
                  <4>3. QED BY <4>1, <4>2, <2>1
            <3>4. \A i \in 1 .. c.len : g.memory[c.at + i - 1] = h.memory[c.at + i - 1]
                  <4>1. TAKE i \in 1 .. c.len
                  <4>2. /\ c.at + i - 1 \in 0 .. MEMSIZ - 1
                        /\ ~(to <= c.at + i - 1 /\ c.at + i - 1 < h.FRETOP)
                        <5>1. c.len > 0
                              BY <3>2
                        <5>2. c.at + c.len <= MEMSIZ /\ (c.at + c.len <= to \/ h.FRETOP <= c.at)
                              BY <5>1, <1>20, <3>2, <3>3
                        <5> HIDE DEF c
                        <5>3. QED BY <5>2, <1>20, <3>2, ByteOutside
                  <4>3. QED BY <4>2, <1>2
            <3>5. QED BY <3>1, <3>4, SameBytes
      <2>4. QED BY <2>2, <2>3
<1>10. SameStrings(h, g)
      <2>1. \A k \in Names : g.descriptor[k].len = h.descriptor[k].len
            BY <1>2, <1>3
      <2>2. \A k \in Range(Temporaries) : g.descriptor[k] = h.descriptor[k]
            BY <1>1, <1>2, <1>5 DEF Names
      <2>3. QED BY <2>1, <2>2, <1>2, <1>7, <1>9 DEF SameStrings
<1>11. IsHeap(g)
      <2>1. \A a \in 0 .. Len(ProgramText) - 1 : g.memory[a] = ProgramText[a + 1]
            <3>1. TAKE a \in 0 .. Len(ProgramText) - 1
            <3>2. a \in 0 .. MEMSIZ - 1 /\ ~(to <= a /\ a < h.FRETOP)
                  BY <1>20
            <3>3. QED BY <3>2, <1>1, <1>2 DEF IsHeap, IsMemory
      <2>4. IsMemory(g.memory)
            BY <2>1, <1>2 DEF IsMemory
      <2>2. g.STREND <= g.FRETOP /\ g.FRETOP <= MEMSIZ
            BY <1>2, <1>3
      <2>3. QED BY <2>4, <2>2, <1>1, <1>2, <1>3 DEF IsHeap
<1>12. end(g.descriptor[n]) = h.FRETOP
      BY <1>3 DEF end
<1>13. VariablesApart(g)
      <2>1. \A v \in Variables : g.descriptor[v].len > 0 =>
              inText(g.descriptor[v]) \/ (stored(g, v) /\ end(g.descriptor[v]) <= MEMSIZ)
            <3>1. SUFFICES ASSUME NEW v \in Variables, g.descriptor[v].len > 0
                           PROVE  inText(g.descriptor[v]) \/ (stored(g, v) /\ end(g.descriptor[v]) <= MEMSIZ)
                  OBVIOUS
            <3>2. CASE v = n
                  BY <3>2, <1>1, <1>3, <1>7, <1>12
            <3>3. CASE v # n
                  BY <3>1, <3>3, <1>1, <1>2, <1>5, <1>7 DEF VariablesApart
            <3>4. QED BY <3>2, <3>3
      <2>2. \A v, w \in Variables : stored(g, v) /\ stored(g, w) /\ v # w
              => disjoint(g.descriptor[v], g.descriptor[w])
            <3>1. SUFFICES ASSUME NEW v \in Variables, NEW w \in Variables,
                                  stored(h, v), stored(h, w), v # w
                           PROVE  disjoint(g.descriptor[v], g.descriptor[w])
                  BY <1>7
            <3>2. CASE v # n /\ w # n
                  BY <3>1, <3>2, <1>1, <1>2, <1>5 DEF VariablesApart
            <3>3. ASSUME NEW u \in Variables, u # n, stored(h, u)
                  PROVE  end(g.descriptor[u]) <= to \/ h.FRETOP <= g.descriptor[u].at
                  <4>1. end(h.descriptor[u]) \in Nat /\ h.descriptor[u].at \in Nat
                        BY <1>1, <1>5, DescriptorFacts
                  <4>2. QED BY <3>3, <4>1, <1>2, <1>5, <1>6
            <3>4. QED BY <3>1, <3>2, <3>3, <1>3, <1>12 DEF disjoint
      <2>3. \A t \in inUse(g) : /\ end(g.descriptor[t]) <= MEMSIZ
                                /\ \A v \in Variables : stored(g, v) =>
                                     end(g.descriptor[t]) <= g.descriptor[v].at
            <3>1. SUFFICES ASSUME NEW t \in inUse(h)
                           PROVE  /\ end(h.descriptor[t]) <= MEMSIZ
                                  /\ \A v \in Variables : stored(h, v) =>
                                       end(h.descriptor[t]) <= g.descriptor[v].at
                  BY <1>2, <1>4, <1>7
            <3>2. end(h.descriptor[t]) <= MEMSIZ
                  BY <1>1 DEF VariablesApart
            <3>3. \A v \in Variables : stored(h, v) /\ v # n =>
                                       end(h.descriptor[t]) <= g.descriptor[v].at
                  BY <1>1, <1>2, <1>5 DEF VariablesApart
            <3>4. end(h.descriptor[t]) <= to
                  <4>1. end(h.descriptor[t]) \in Nat
                        BY <1>1, <1>4, DescriptorFacts
                  <4>2. QED BY <4>1, <1>2, <1>8
            <3>5. QED BY <3>2, <3>3, <3>4, <1>3
      <2>4. QED BY <2>1, <2>2, <2>3 DEF VariablesApart
<1>14. \A t \in inUse(g) : end(g.descriptor[t]) <= g.FRETOP
      <2>1. SUFFICES ASSUME NEW t \in inUse(h) PROVE end(h.descriptor[t]) <= to
            BY <1>2, <1>4
      <2>2. end(h.descriptor[t]) \in Nat
            BY <1>1, <1>4, DescriptorFacts
      <2>3. QED BY <2>2, <1>2, <1>8
<1>15. ASSUME NEW v \in Variables, stored(g, v), g.descriptor[v].at < g.FRETOP
       PROVE  end(g.descriptor[v]) <= g.FRETOP /\ v \in toMove(h) \ {n}
      <2>1. v # n
            BY <1>15, <1>2, <1>3
      <2>2. g.descriptor[v] = h.descriptor[v] /\ stored(h, v)
            BY <2>1, <1>15, <1>2, <1>5, <1>7
      <2>3. h.descriptor[v].at \in Nat /\ end(h.descriptor[v]) \in Nat
            BY <1>1, <1>5, DescriptorFacts
      <2>4. to <= h.FRETOP
            BY <1>2, <1>3
      <2>5. end(h.descriptor[v]) <= d.at /\ h.descriptor[v].at < h.FRETOP
            BY <1>15, <2>1, <2>2, <2>3, <2>4, <1>2, <1>3, <1>6
      <2>6. QED BY <2>1, <2>2, <2>3, <2>5, <1>2 DEF toMove
<1>16. CollectInv(g)
      BY <1>11, <1>13, <1>14, <1>15 DEF CollectInv
<1>17. toMove(g) \subseteq toMove(h) \ {n}
      BY <1>15 DEF toMove
<1>18. QED BY <1>10, <1>16, <1>17 DEF g

LEMMA SameStringsTwice ==
  ASSUME NEW h, NEW f, NEW g, SameStrings(h, f), SameStrings(f, g)
  PROVE  SameStrings(h, g)
<1>1. inUse(f) = inUse(h)
      BY DEF SameStrings, inUse
<1>2. QED BY <1>1 DEF SameStrings

(* The names that are not moved yet: a value in an expression is the       *)
(* highest only when no variable is left to move.                          *)
LEMMA OneScan ==
  ASSUME NEW h, CollectInv(h)
  PROVE  LET g == moveHighest(h)
         IN  /\ CollectInv(g) /\ SameStrings(h, g)
             /\ toMove(h) = {} \/ \E n \in toMove(h) : toMove(g) \subseteq toMove(h) \ {n}
             /\ toMove(h) = {} => g = h
<1> DEFINE m == highestString(h)
<1>1. IsHeap(h) /\ VariablesApart(h)
      BY DEF CollectInv
<1>2. \A n \in Variables \cup inUse(h) : n \in Names /\ h.descriptor[n].at \in Nat
                                         /\ h.descriptor[n].len \in Nat
      BY <1>1, InUseFacts, StringConstants, DescriptorFacts DEF IsHeap
<1>3. toMove(h) \subseteq notMoved(h)
      BY DEF toMove, notMoved, stored
<1>4. ASSUME notMoved(h) # {}
      PROVE  m \in notMoved(h) /\ \A o \in notMoved(h) : h.descriptor[o].at <= h.descriptor[m].at
      <2> DEFINE ats == {MEMSIZ - h.descriptor[n].at : n \in notMoved(h)}
      <2>1. \A n \in notMoved(h) : h.descriptor[n].at \in Nat /\ h.descriptor[n].at < h.FRETOP
            BY <1>2 DEF notMoved
      <2>2. h.FRETOP <= MEMSIZ /\ MEMSIZ \in Nat /\ h.FRETOP \in Nat
            BY <1>1, StringConstants DEF IsHeap
      <2>3. ats \in SUBSET Nat /\ ats # {}
            BY <2>1, <2>2, <1>4
      <2>4. PICK l \in ats : \A a \in ats : l <= a
            BY <2>3, LeastNumber
      <2>5. PICK n \in notMoved(h) : l = MEMSIZ - h.descriptor[n].at
            BY <2>4
      <2>6. \A o \in notMoved(h) : h.descriptor[o].at <= h.descriptor[n].at
            <3>1. TAKE o \in notMoved(h)
            <3>2. MEMSIZ - h.descriptor[n].at <= MEMSIZ - h.descriptor[o].at
                  BY <2>4, <2>5
            <3>3. QED BY <3>2, <2>1, <2>2
      <2>7. QED BY <2>6 DEF highestString
<1>5. ASSUME NEW t \in inUse(h), t \in notMoved(h),
             \A o \in notMoved(h) : h.descriptor[o].at <= h.descriptor[t].at
      PROVE  toMove(h) = {}
      <2>1. SUFFICES ASSUME NEW v \in toMove(h) PROVE FALSE
            OBVIOUS
      <2>2. v \in Variables /\ stored(h, v) /\ h.descriptor[v].at <= h.descriptor[t].at
            BY <2>1, <1>3, <1>5 DEF toMove
      <2>3. end(h.descriptor[t]) <= h.descriptor[v].at
            BY <2>2, <1>1 DEF VariablesApart
      <2>4. h.descriptor[t].len > 0
            BY <1>5 DEF notMoved
      <2>5. QED BY <2>2, <2>3, <2>4, <1>2 DEF end
<1>6. CASE notMoved(h) = {} \/ m \in inUse(h)
      <2>1. moveHighest(h) = h
            BY <1>6 DEF moveHighest
      <2>2. toMove(h) = {}
            BY <1>3, <1>4, <1>5, <1>6
      <2>3. SameStrings(h, h)
            BY DEF SameStrings
      <2>4. QED BY <2>1, <2>2, <2>3
<1>7. CASE notMoved(h) # {} /\ m \notin inUse(h)
      <2>1. moveHighest(h) = moveUp(h, m)
            BY <1>7 DEF moveHighest
      <2>2. m \in toMove(h)
            BY <1>4, <1>7 DEF toMove, notMoved, stored
      <2>3. \A v \in toMove(h) : h.descriptor[v].at <= h.descriptor[m].at
            BY <1>3, <1>4, <1>7
      <2> HIDE DEF m
      <2>4. QED BY <2>1, <2>2, <2>3, MoveUpKeeps
<1>8. QED BY <1>6, <1>7

(* After so many scans so many strings have been moved, or all.            *)
LEMMA ScansKeep ==
  ASSUME NEW h, CollectInv(h), NEW k \in 0 .. Cardinality(Variables)
  PROVE  /\ CollectInv(scans(h)[k]) /\ SameStrings(h, scans(h)[k])
         /\ Cardinality(toMove(scans(h)[k])) <= Cardinality(Variables) - k
<1> DEFINE N == Cardinality(Variables)
           Keeps(j) == /\ CollectInv(scans(h)[j]) /\ SameStrings(h, scans(h)[j])
                      /\ Cardinality(toMove(scans(h)[j])) <= N - j
           S == {j \in 0 .. N : ~Keeps(j)}
<1>1. N \in Nat /\ IsFiniteSet(Variables)
      BY ManyVariables
<1>2. \A f : /\ IsFiniteSet(toMove(f)) /\ Cardinality(toMove(f)) \in Nat
             /\ Cardinality(toMove(f)) <= N
      <2>1. \A f : toMove(f) \in SUBSET Variables
            BY DEF toMove
      <2>2. QED BY <2>1, <1>1, FS_Subset, FS_CardinalityType
<1>3. Keeps(0)
      <2>1. SameStrings(h, h)
            BY DEF SameStrings
      <2>2. QED BY <2>1, <1>1, <1>2, Scans
<1>4. ASSUME NEW j \in 1 .. N, Keeps(j - 1) PROVE Keeps(j)
      <2> DEFINE f == scans(h)[j - 1]
      <2>1. scans(h)[j] = moveHighest(f)
            BY Scans
      <2> HIDE DEF f
      <2>2. CollectInv(f) /\ SameStrings(h, f) /\ Cardinality(toMove(f)) <= N - (j - 1)
            BY <1>4 DEF f
      <2> DEFINE g == moveHighest(f)
      <2>3. /\ CollectInv(g) /\ SameStrings(f, g)
            /\ toMove(f) = {} \/ \E n \in toMove(f) : toMove(g) \subseteq toMove(f) \ {n}
            /\ toMove(f) = {} => g = f
            BY <2>2, OneScan
      <2> HIDE DEF g
      <2>4. SameStrings(h, g)
            BY <2>2, <2>3, SameStringsTwice
      <2>5. Cardinality(toMove(g)) <= N - j
            <3>1. CASE toMove(f) = {}
                  BY <3>1, <2>3, <1>1, FS_EmptySet
            <3>2. CASE toMove(f) # {}
                  <4>1. PICK n \in toMove(f) : toMove(g) \in SUBSET (toMove(f) \ {n})
                        BY <3>2, <2>3
                  <4>2. /\ IsFiniteSet(toMove(f) \ {n})
                        /\ Cardinality(toMove(f) \ {n}) = Cardinality(toMove(f)) - 1
                        BY <1>2, <4>1, FS_RemoveElement
                  <4>3. Cardinality(toMove(g)) <= Cardinality(toMove(f) \ {n})
                        BY <4>1, <4>2, FS_Subset
                  <4>4. QED BY <4>2, <4>3, <1>1, <1>2, <2>2
            <3>3. QED BY <3>1, <3>2
      <2>6. QED BY <2>1, <2>3, <2>4, <2>5 DEF g
<1> HIDE DEF Keeps
<1>5. S = {}
      <2>1. SUFFICES ASSUME S # {} PROVE FALSE
            OBVIOUS
      <2>2. S \in SUBSET Nat
            OBVIOUS
      <2>3. PICK j \in S : \A i \in S : j <= i
            BY <2>1, <2>2, LeastNumber
      <2>4. j # 0
            BY <1>3
      <2>5. j - 1 \in 0 .. N /\ j - 1 \notin S
            BY <2>3, <2>4, <1>1
      <2>6. QED BY <2>3, <2>4, <2>5, <1>4
<1>6. QED BY <1>5, <1>1 DEF Keeps

(* A collection keeps the strings; the values in an expression, which lie  *)
(* below those of the variables, are left where they are.                  *)
LEMMA Collected ==
  ASSUME NEW h, HeapInv(h)
  PROVE  LET g == GARBAG(h)
         IN  /\ HeapInv(g) /\ SameStrings(h, g)
             /\ ~leavesTemporary(h) => \A t \in inUse(h) :
                  h.descriptor[t].len > 0 => h.descriptor[t].at < h.STREND
<1> DEFINE f == [h EXCEPT !.FRETOP = MEMSIZ]
           g == GARBAG(h)
<1>1. IsHeap(h) /\ VariablesApart(h)
      BY DEF HeapInv
<1>2. /\ IsRecord(f) /\ f.memory = h.memory /\ f.STREND = h.STREND /\ f.FRETOP = MEMSIZ
      /\ f.TEMPPT = h.TEMPPT /\ f.descriptor = h.descriptor
      <2>1. f = aHeap(h.memory, h.STREND, MEMSIZ, h.TEMPPT, h.descriptor)
            BY <1>1, HeapUpdates DEF IsHeap
      <2> HIDE DEF f
      <2>2. QED BY <2>1, HeapFields
<1>3. g = scans(f)[Cardinality(Variables)]
      BY DEF GARBAG, moveStrings
<1> HIDE DEF f, g
<1>4. inUse(f) = inUse(h) /\ \A v \in Variables : stored(f, v) <=> stored(h, v)
      BY <1>2 DEF inUse, stored
<1>5. SameStrings(h, f)
      <2>1. \A k \in Variables \cup inUse(h) : stringOf(f, k) = stringOf(h, k)
            BY <1>2 DEF stringOf
      <2>2. QED BY <1>2, <1>4, <2>1 DEF SameStrings
<1>6. CollectInv(f)
      <2>1. MEMSIZ \in Nat /\ h.STREND \in Nat /\ h.STREND <= MEMSIZ
            BY <1>1, StringConstants DEF IsHeap
      <2>2. IsHeap(f)
            BY <1>1, <1>2, <2>1 DEF IsHeap
      <2>3. VariablesApart(f)
            BY <1>1, <1>2, <1>4 DEF VariablesApart
      <2>4. \A t \in inUse(f) : end(f.descriptor[t]) <= f.FRETOP
            BY <1>1, <1>2, <1>4 DEF VariablesApart
      <2>5. ASSUME NEW v \in Variables, stored(f, v) PROVE end(f.descriptor[v]) <= f.FRETOP
            <3>1. stored(h, v) /\ h.descriptor[v].len > 0
                  BY <2>5, <1>4 DEF stored
            <3>2. CASE inText(h.descriptor[v])
                  <4>1. end(h.descriptor[v]) \in Nat
                        BY <1>1, StringConstants, DescriptorFacts
                  <4>2. QED BY <3>2, <4>1, <1>2, StringConstants DEF inText
            <3>3. CASE end(h.descriptor[v]) <= MEMSIZ
                  BY <3>3, <1>2
            <3>4. QED BY <3>1, <3>2, <3>3, <1>1 DEF VariablesApart
      <2>6. QED BY <2>2, <2>3, <2>4, <2>5 DEF CollectInv
<1>7. /\ CollectInv(g) /\ SameStrings(f, g)
      /\ Cardinality(toMove(g)) <= Cardinality(Variables) - Cardinality(Variables)
      BY <1>3, <1>6, ScansKeep, ManyVariables
<1>8. toMove(g) = {}
      <2>1. toMove(g) \in SUBSET Variables
            BY DEF toMove
      <2>2. IsFiniteSet(toMove(g)) /\ Cardinality(toMove(g)) \in Nat
            BY <2>1, ManyVariables, FS_Subset, FS_CardinalityType
      <2>3. Cardinality(toMove(g)) = 0
            BY <1>7, <2>2, ManyVariables
      <2>4. QED BY <2>2, <2>3, FS_EmptySet
<1>9. IsHeap(g) /\ SameStrings(h, g)
      BY <1>5, <1>7, SameStringsTwice DEF CollectInv
<1>10. VariablesAbove(g)
      <2>1. SUFFICES ASSUME NEW v \in Variables, stored(g, v)
                     PROVE  g.FRETOP <= g.descriptor[v].at
            BY DEF VariablesAbove
      <2>2. ~(g.descriptor[v].at < g.FRETOP)
            BY <1>8, <2>1 DEF toMove
      <2>3. g.descriptor[v].at \in Nat /\ g.FRETOP \in Nat
            BY <1>9, StringConstants, DescriptorFacts DEF IsHeap
      <2>4. QED BY <2>2, <2>3
<1>11. ASSUME ~leavesTemporary(h), NEW t \in inUse(h), h.descriptor[t].len > 0
       PROVE  h.descriptor[t].at < h.STREND
      <2>1. notMoved(g) = {}
            BY <1>11 DEF leavesTemporary, g
      <2>2. inUse(g) = inUse(h)
            BY <1>9 DEF SameStrings, inUse
      <2>3. t \in Names /\ t \in Range(Temporaries)
            BY <1>1, <1>11, InUseFacts DEF Names, IsHeap
      <2>4. g.descriptor[t] = h.descriptor[t] /\ g.STREND = h.STREND
            BY <1>9, <2>3 DEF SameStrings
      <2>5. /\ h.descriptor[t].at \in Nat /\ h.descriptor[t].len \in Nat
            /\ end(h.descriptor[t]) = h.descriptor[t].at + h.descriptor[t].len
            BY <1>1, <2>3, DescriptorFacts
      <2>6. end(h.descriptor[t]) <= g.FRETOP
            BY <1>7, <1>11, <2>2, <2>4 DEF CollectInv
      <2>7. g.FRETOP \in Nat /\ h.STREND \in Nat
            BY <1>1, <1>9 DEF IsHeap
      <2>8. h.descriptor[t].at < g.FRETOP
            BY <2>5, <2>6, <2>7, <1>11
      <2>9. ~(h.STREND <= h.descriptor[t].at)
            BY <2>1, <2>2, <2>4, <2>8, <1>11 DEF notMoved
      <2>10. QED BY <2>5, <2>7, <2>9
<1>12. QED BY <1>7, <1>9, <1>10, <1>11 DEF HeapInv, CollectInv, g

LEMMA CollectedTemporaries ==
  ASSUME NEW h, HeapInv(h), TemporariesAbove(h), ~leavesTemporary(h)
  PROVE  TemporariesAbove(GARBAG(h))
<1> DEFINE g == GARBAG(h)
<1>1. SameStrings(h, g) /\ \A t \in inUse(h) :
                  h.descriptor[t].len > 0 => h.descriptor[t].at < h.STREND
      BY Collected
<1> HIDE DEF g
<1>2. inUse(g) = inUse(h)
      BY <1>1 DEF SameStrings, inUse
<1>3. IsHeap(h)
      BY DEF HeapInv
<1>4. \A t \in inUse(h) : /\ g.descriptor[t] = h.descriptor[t] /\ h.descriptor[t].at \in Nat
      BY <1>1, <1>3, InUseFacts, DescriptorFacts DEF SameStrings, Names, IsHeap
<1>5. \A t \in inUse(h) : h.descriptor[t].len > 0 => inText(h.descriptor[t])
      <2>1. SUFFICES ASSUME NEW t \in inUse(h), h.descriptor[t].len > 0
                     PROVE  ~(h.FRETOP <= h.descriptor[t].at)
            BY DEF TemporariesAbove
      <2>2. h.descriptor[t].at < h.STREND /\ h.descriptor[t].at \in Nat
            BY <2>1, <1>1, <1>4
      <2>3. h.STREND <= h.FRETOP /\ h.STREND \in Nat /\ h.FRETOP \in Nat
            BY <1>3 DEF IsHeap
      <2>4. QED BY <2>2, <2>3
<1>6. QED BY <1>2, <1>4, <1>5 DEF TemporariesAbove, g

-----------------------------------------------------------------------------
(* Getting space, moving a string, releasing a temporary.                  *)

LEMMA OperandNames ==
  ASSUME NEW h, NEW os, OperandsInv(h, os), NEW k \in DOMAIN os
  PROVE  os[k] \in Names /\ os[k] \in Variables \cup inUse(h)
<1>1. DOMAIN os = 1 .. Len(os) /\ \A j \in 1 .. Len(os) : os[j] \in Names
      BY ElementOfSeq, LenProperties DEF OperandsInv
<1>2. QED BY <1>1 DEF OperandsInv

LEMMA SameInv ==
  ASSUME NEW h, NEW g, NEW os, NEW ms, NEW as, NEW f, NEW left,
         StringInv(h, os, ms, as, f), HeapInv(g), SameStrings(h, g),
         ~left => ~f /\ TemporariesAbove(g)
  PROVE  StringInv(g, os, ms, as, left)
<1>1. inUse(g) = inUse(h) /\ g.TEMPPT = h.TEMPPT /\ g.STREND = h.STREND
      BY DEF SameStrings, inUse
<1>2. OperandsInv(h, os) /\ VariablesInv(h, as) /\ ValuesInv(h, os, ms, f)
      BY DEF StringInv
<1>3. OperandsInv(g, os)
      BY <1>1, <1>2 DEF OperandsInv
<1>4. VariablesInv(g, as)
      <2>1. \A v \in Variables : /\ g.descriptor[v].len = h.descriptor[v].len
                                 /\ stringOf(g, v) = stringOf(h, v)
            BY StringConstants DEF SameStrings
      <2>2. dimensioned(g) = dimensioned(h)
            BY <1>1 DEF dimensioned
      <2>3. QED BY <2>1, <2>2, <1>2 DEF VariablesInv, Variables
<1>5. \A k \in DOMAIN os : /\ g.descriptor[os[k]].len = h.descriptor[os[k]].len
                           /\ stringOf(g, os[k]) = stringOf(h, os[k])
      BY <1>2, OperandNames DEF SameStrings
<1>6. ValuesInv(g, os, ms, left)
      BY <1>2, <1>5 DEF ValuesInv
<1>7. QED BY <1>3, <1>4, <1>6 DEF StringInv

LEMMA Space ==
  ASSUME NEW h, HeapInv(h), NEW n \in Nat
  PROVE  LET e == afterGETSPA(h, n)
         IN  /\ HeapInv(e) /\ SameStrings(h, e)
             /\ TemporariesAbove(h) /\ ~(~fits(h, n) /\ leavesTemporary(h)) => TemporariesAbove(e)
<1>1. CASE fits(h, n)
      <2>1. SameStrings(h, h)
            BY DEF SameStrings
      <2>2. QED BY <1>1, <2>1 DEF afterGETSPA
<1>2. CASE ~fits(h, n)
      BY <1>2, Collected, CollectedTemporaries DEF afterGETSPA
<1>3. QED BY <1>1, <1>2

LEMMA SpaceFields ==
  ASSUME NEW h, HeapInv(h), NEW n \in Nat, hasSpace(h, n)
  PROVE  LET e == afterGETSPA(h, n)
             g == GETSPA(h, n)
         IN  /\ IsRecord(g) /\ g.memory = e.memory /\ g.STREND = e.STREND
             /\ g.TEMPPT = e.TEMPPT /\ g.descriptor = e.descriptor
             /\ g.FRETOP = e.FRETOP - n /\ g.FRETOP \in Nat /\ e.STREND <= g.FRETOP
             /\ g.FRETOP + n = e.FRETOP
<1> DEFINE e == afterGETSPA(h, n)
           g == GETSPA(h, n)
<1>1. IsHeap(e) /\ IsRecord(e)
      BY Space DEF HeapInv, IsHeap
<1>2. g = [e EXCEPT !.FRETOP = e.FRETOP - n] /\ e.STREND <= e.FRETOP - n
      BY DEF GETSPA, hasSpace, fits
<1> HIDE DEF e, g
<1>3. g = aHeap(e.memory, e.STREND, e.FRETOP - n, e.TEMPPT, e.descriptor)
      BY <1>1, <1>2, HeapUpdates
<1>4. e.FRETOP - n \in Nat /\ (e.FRETOP - n) + n = e.FRETOP
      BY <1>1, <1>2 DEF IsHeap
<1>5. QED BY <1>2, <1>3, <1>4, HeapFields DEF e, g

IsBytes(m) == m = [a \in 0 .. MEMSIZ - 1 |-> m[a]]
(* The memory r is m with n bytes moved.                                   *)
HasMoved(r, m, from, to, n) ==
  /\ IsBytes(r)
  /\ \A a \in 0 .. MEMSIZ - 1 : ~(to <= a /\ a < to + n) => r[a] = m[a]
  /\ to + n <= MEMSIZ /\ (from <= to \/ to + n <= from) =>
       \A k \in 1 .. n : r[to + k - 1] = m[from + k - 1]

LEMMA MovedBytes ==
  ASSUME NEW m, IsBytes(m), NEW from \in Nat, NEW to \in Nat, NEW n \in Nat
  PROVE  HasMoved(moved(m, from, to, n), m, from, to, n)
<1> DEFINE ByteIs(b) == b = [i \in 0 .. n - 1 |-> IF from > to /\ i + from - to < n
                                              THEN b[i + from - to] ELSE m[from + i]]
           byte == CHOOSE b : ByteIs(b)
           r == moved(m, from, to, n)
<1>1. DOMAIN m = 0 .. MEMSIZ - 1
      BY DEF IsBytes
<1>2. r = [a \in 0 .. MEMSIZ - 1 |-> IF to <= a /\ a < to + n THEN byte[a - to] ELSE m[a]]
      BY <1>1 DEF moved
<1> HIDE DEF byte, r
<1>3. ASSUME to + n <= MEMSIZ, from <= to \/ to + n <= from, NEW k \in 1 .. n
      PROVE  r[to + k - 1] = m[from + k - 1]
      <2> DEFINE c == [i \in 0 .. n - 1 |-> m[from + i]]
      <2>1. ByteIs(c)
            <3>1. \A i \in 0 .. n - 1 : ~(from > to /\ i + from - to < n)
                  BY <1>3
            <3>2. QED BY <3>1
      <2>2. ByteIs(byte)
            <3> HIDE DEF c, ByteIs
            <3>1. QED BY <2>1 DEF byte
      <2>3. k - 1 \in 0 .. n - 1 /\ ~(from > to /\ (k - 1) + from - to < n)
            BY <1>3
      <2>4. byte[k - 1] = m[from + (k - 1)]
            BY <2>2, <2>3
      <2>5. to + k - 1 \in 0 .. MEMSIZ - 1 /\ to <= to + k - 1 /\ to + k - 1 < to + n
            BY <1>3, StringConstants
      <2>6. (to + k - 1) - to = k - 1 /\ from + (k - 1) = from + k - 1
            BY <1>3
      <2>7. QED BY <1>2, <2>4, <2>5, <2>6
<1>4. /\ r = [a \in 0 .. MEMSIZ - 1 |-> r[a]]
      /\ \A a \in 0 .. MEMSIZ - 1 : ~(to <= a /\ a < to + n) => r[a] = m[a]
      BY <1>2
<1>5. HasMoved(r, m, from, to, n)
      BY <1>3, <1>4 DEF HasMoved, IsBytes
<1>6. QED BY <1>5 DEF r

LEMMA MovedFields ==
  ASSUME NEW h, IsRecord(h), NEW from, NEW to, NEW n
  PROVE  LET g == MOVSTR1(h, from, to, n)
         IN  /\ IsRecord(g) /\ g.memory = moved(h.memory, from, to, n) /\ g.STREND = h.STREND
             /\ g.FRETOP = h.FRETOP /\ g.TEMPPT = h.TEMPPT /\ g.descriptor = h.descriptor
<1> DEFINE g == MOVSTR1(h, from, to, n)
           m == moved(h.memory, from, to, n)
<1>1. g = [h EXCEPT !.memory = m]
      BY DEF MOVSTR1
<1> HIDE DEF g, m
<1>2. g = aHeap(m, h.STREND, h.FRETOP, h.TEMPPT, h.descriptor)
      BY <1>1, HeapUpdates
<1>3. QED BY <1>2, HeapFields DEF g, m

LEMMA ReleasedFields ==
  ASSUME NEW h, IsRecord(h), NEW n
  PROVE  LET g == FRETMP(h, n)
             last == isLastTemporary(h, n)
             lowest == last /\ h.descriptor[n].at = h.FRETOP
         IN  /\ IsRecord(g) /\ g.memory = h.memory /\ g.STREND = h.STREND
             /\ g.descriptor = h.descriptor
             /\ g.TEMPPT = IF last THEN h.TEMPPT - 1 ELSE h.TEMPPT
             /\ g.FRETOP = IF lowest THEN h.FRETOP + h.descriptor[n].len ELSE h.FRETOP
<1> DEFINE f == FRETMS(h, n)
           g == FRETMP(h, n)
           last == isLastTemporary(h, n)
           P == IF last THEN h.TEMPPT - 1 ELSE h.TEMPPT
           lowest == last /\ h.descriptor[n].at = h.FRETOP
           F == IF lowest THEN h.FRETOP + h.descriptor[n].len ELSE h.FRETOP
<1>1. h = aHeap(h.memory, h.STREND, h.FRETOP, h.TEMPPT, h.descriptor)
      BY DEF IsRecord
<1>2. f = aHeap(h.memory, h.STREND, h.FRETOP, P, h.descriptor)
      <2>1. f = IF last THEN [h EXCEPT !.TEMPPT = h.TEMPPT - 1] ELSE h
            BY DEF FRETMS
      <2>2. [h EXCEPT !.TEMPPT = h.TEMPPT - 1] =
              aHeap(h.memory, h.STREND, h.FRETOP, h.TEMPPT - 1, h.descriptor)
            BY HeapUpdates
      <2>3. QED BY <2>1, <2>2, <1>1
<1>3. IsRecord(f) /\ f.FRETOP = h.FRETOP
      <2> HIDE DEF f, P
      <2>1. QED BY <1>2, HeapFields
<1>4. g = aHeap(h.memory, h.STREND, F, P, h.descriptor)
      <2>1. g = IF lowest THEN [f EXCEPT !.FRETOP = f.FRETOP + h.descriptor[n].len] ELSE f
            BY DEF FRETMP
      <2>2. [f EXCEPT !.FRETOP = f.FRETOP + h.descriptor[n].len] =
              aHeap(h.memory, h.STREND, h.FRETOP + h.descriptor[n].len, P, h.descriptor)
            <3> HIDE DEF f, P
            <3>1. QED BY <1>2, <1>3 DEF aHeap
      <2> HIDE DEF g, f, lowest, P
      <2>3. QED BY <2>1, <2>2, <1>2
<1>5. /\ IsRecord(g) /\ g.memory = h.memory /\ g.STREND = h.STREND /\ g.descriptor = h.descriptor
      /\ g.TEMPPT = P /\ g.FRETOP = F
      <2> HIDE DEF g, F, P
      <2>1. QED BY <1>4, HeapFields
<1>6. QED BY <1>5

-----------------------------------------------------------------------------
(* The heap g in which a result of n bytes was built at low, in the space  *)
(* below the strings of e, and some temporaries were released.             *)
Built(g, e, low, n) ==
  /\ IsRecord(g) /\ g.memory = [a \in 0 .. MEMSIZ - 1 |-> g.memory[a]]
  /\ g.STREND = e.STREND /\ g.descriptor = e.descriptor
  /\ g.TEMPPT \in 0 .. e.TEMPPT
  /\ low \in Nat /\ n \in Nat /\ e.STREND <= low /\ low + n <= e.FRETOP
  /\ \A a \in 0 .. MEMSIZ - 1 : ~(low <= a /\ a < low + n) => g.memory[a] = e.memory[a]
  /\ g.FRETOP \in Nat /\ low <= g.FRETOP /\ g.FRETOP <= MEMSIZ
  /\ \A v \in Variables : stored(e, v) => g.FRETOP <= e.descriptor[v].at

LEMMA BuiltKeeps ==
  ASSUME NEW e, NEW g, NEW low, NEW n, HeapInv(e), Built(g, e, low, n)
  PROVE  /\ HeapInv(g) /\ inUse(g) \subseteq inUse(e)
         /\ \A v \in Variables : stringOf(g, v) = stringOf(e, v) /\ (stored(g, v) <=> stored(e, v))
         /\ TemporariesAbove(e) => \A t \in inUse(g) : stringOf(g, t) = stringOf(e, t)
<1>1. /\ IsHeap(e) /\ VariablesApart(e) /\ VariablesAbove(e)
      BY DEF HeapInv
<1>2. /\ low \in Nat /\ n \in Nat /\ e.STREND \in Nat /\ e.STREND <= low /\ low + n <= e.FRETOP
      /\ e.FRETOP \in Nat /\ e.FRETOP <= MEMSIZ /\ MEMSIZ \in Nat
      /\ Len(ProgramText) \in Nat /\ Len(ProgramText) <= e.STREND
      /\ g.FRETOP \in Nat /\ low <= g.FRETOP /\ g.FRETOP <= MEMSIZ
      BY <1>1, StringConstants DEF IsHeap, Built
<1>3. e.TEMPPT \in 0 .. Len(Temporaries) /\ g.TEMPPT \in 0 .. e.TEMPPT
      /\ g.TEMPPT \in 0 .. Len(Temporaries)
      BY <1>1, StringConstants DEF IsHeap, Built
<1>4. inUse(g) \subseteq inUse(e)
      BY <1>3 DEF inUse
<1>5. \A v \in Variables : stored(g, v) <=> stored(e, v)
      BY DEF Built, stored
<1>6. ASSUME NEW k \in Names, e.descriptor[k].len > 0 => end(e.descriptor[k]) <= MEMSIZ
                    /\ (inText(e.descriptor[k]) \/ e.FRETOP <= e.descriptor[k].at)
      PROVE  stringOf(g, k) = stringOf(e, k)
      <2> DEFINE c == e.descriptor[k]
      <2>1. c.at \in Nat /\ c.len \in Nat /\ end(c) = c.at + c.len /\ end(c) \in Nat
            BY <1>1, DescriptorFacts
      <2>2. \A i \in 1 .. c.len : g.memory[c.at + i - 1] = e.memory[c.at + i - 1]
            <3>1. TAKE i \in 1 .. c.len
            <3>2. c.len > 0
                  BY <2>1
            <3>3. c.at + c.len <= MEMSIZ /\ (c.at + c.len <= low \/ low + n <= c.at)
                  BY <1>2, <1>6, <2>1, <3>2 DEF inText
            <3>4. low + n \in Nat
                  BY <1>2
            <3> HIDE DEF c
            <3>5. c.at + i - 1 \in 0 .. MEMSIZ - 1 /\ ~(low <= c.at + i - 1 /\ c.at + i - 1 < low + n)
                  BY <3>3, <3>4, <2>1, <1>2, ByteOutside
            <3>6. QED BY <3>5 DEF Built
      <2>3. g.descriptor[k] = e.descriptor[k]
            BY DEF Built
      <2>4. QED BY <2>2, <2>3, SameBytes
<1>7. ASSUME NEW v \in Variables PROVE stringOf(g, v) = stringOf(e, v)
      <2>1. v \in Names
            BY StringConstants
      <2>2. e.descriptor[v].len > 0 => end(e.descriptor[v]) <= MEMSIZ
                    /\ (inText(e.descriptor[v]) \/ e.FRETOP <= e.descriptor[v].at)
            <3>1. end(e.descriptor[v]) \in Nat
                  BY <1>1, <2>1, DescriptorFacts
            <3>2. inText(e.descriptor[v]) => end(e.descriptor[v]) <= MEMSIZ
                  BY <3>1, <1>2 DEF inText
            <3>3. QED BY <3>2, <1>1 DEF VariablesApart, VariablesAbove
      <2>3. QED BY <2>1, <2>2, <1>6
<1>8. ASSUME TemporariesAbove(e), NEW t \in inUse(g) PROVE stringOf(g, t) = stringOf(e, t)
      <2>1. t \in inUse(e) /\ t \in Names
            BY <1>1, <1>3, <1>4, <1>8, InUseFacts
      <2>2. end(e.descriptor[t]) <= MEMSIZ
            BY <2>1, <1>1 DEF VariablesApart
      <2>3. QED BY <2>1, <2>2, <1>6, <1>8 DEF TemporariesAbove
<1>9. IsHeap(g)
      <2>1. \A a \in 0 .. Len(ProgramText) - 1 : g.memory[a] = ProgramText[a + 1]
            <3>1. TAKE a \in 0 .. Len(ProgramText) - 1
            <3>2. a \in 0 .. MEMSIZ - 1 /\ ~(low <= a /\ a < low + n)
                  BY <1>2
            <3>3. QED BY <3>2, <1>1 DEF IsHeap, IsMemory, Built
      <2>2. IsMemory(g.memory)
            BY <2>1 DEF IsMemory, Built
      <2>3. g.STREND <= g.FRETOP
            BY <1>2 DEF Built
      <2>4. QED BY <2>2, <2>3, <1>1, <1>2, <1>3 DEF IsHeap, Built
<1>10. g.descriptor = e.descriptor
      BY DEF Built
<1>11. VariablesApart(g)
      BY <1>1, <1>4, <1>5, <1>10 DEF VariablesApart
<1>12. VariablesAbove(g)
      BY <1>5, <1>10 DEF VariablesAbove, Built
<1>13. QED BY <1>4, <1>5, <1>7, <1>8, <1>9, <1>11, <1>12 DEF HeapInv

LEMMA Prefix ==
  ASSUME NEW S, NEW s \in Seq(S), NEW j \in 0 .. Len(s)
  PROVE  /\ SubSeq(s, 1, j) \in Seq(S) /\ Len(SubSeq(s, 1, j)) = j
         /\ DOMAIN SubSeq(s, 1, j) = 1 .. j
         /\ \A k \in 1 .. j : SubSeq(s, 1, j)[k] = s[k] /\ k \in DOMAIN s /\ s[k] \in S
<1>1. Len(s) \in Nat /\ DOMAIN s = 1 .. Len(s)
      BY LenProperties
<1>2. \A k \in 1 .. j : s[k] \in S /\ k \in DOMAIN s
      BY <1>1, ElementOfSeq
<1>3. /\ SubSeq(s, 1, j) \in Seq(S)
      /\ Len(SubSeq(s, 1, j)) = IF 1 <= j THEN j - 1 + 1 ELSE 0
      /\ \A k \in 1 .. j - 1 + 1 : SubSeq(s, 1, j)[k] = s[1 + k - 1]
      BY <1>1, <1>2, SubSeqProperties
<1>4. Len(SubSeq(s, 1, j)) = j
      BY <1>3, <1>1
<1>5. DOMAIN SubSeq(s, 1, j) = 1 .. j
      BY <1>3, <1>4, LenProperties
<1>6. QED BY <1>1, <1>2, <1>3, <1>4, <1>5

(* The operands that remain have kept their values.                        *)
LEMMA BuiltInv ==
  ASSUME NEW e, NEW g, NEW low, NEW n, NEW os, NEW ms, NEW as, NEW left,
         StringInv(e, os, ms, as, left), Built(g, e, low, n),
         NEW j \in 0 .. Len(os), OperandsInv(g, SubSeq(os, 1, j)),
         ~left => \A t \in inUse(g) : e.descriptor[t].len > 0 =>
                    inText(e.descriptor[t]) \/ g.FRETOP <= e.descriptor[t].at
  PROVE  StringInv(g, SubSeq(os, 1, j), SubSeq(ms, 1, j), as, left)
<1> DEFINE os1 == SubSeq(os, 1, j)
           ms1 == SubSeq(ms, 1, j)
<1>1. /\ HeapInv(e) /\ OperandsInv(e, os) /\ VariablesInv(e, as) /\ ValuesInv(e, os, ms, left)
      BY DEF StringInv
<1>2. /\ HeapInv(g) /\ inUse(g) \subseteq inUse(e) /\ g.descriptor = e.descriptor
      /\ \A v \in Variables : stringOf(g, v) = stringOf(e, v)
      /\ TemporariesAbove(e) => \A t \in inUse(g) : stringOf(g, t) = stringOf(e, t)
      BY <1>1, BuiltKeeps DEF Built
<1>3. VariablesInv(g, as)
      <2>1. dimensioned(g) = dimensioned(e)
            BY DEF dimensioned, Built
      <2>2. QED BY <2>1, <1>1, <1>2 DEF VariablesInv
<1>4. /\ os \in Seq(Names) /\ ms \in Seq(Seq(Characters)) /\ Len(ms) = Len(os)
      BY <1>1 DEF OperandsInv, ValuesInv
<1>5. /\ Len(os1) = j /\ DOMAIN os1 = 1 .. j
      /\ \A k \in 1 .. j : os1[k] = os[k] /\ k \in DOMAIN os
      BY <1>4, Prefix
<1>6. /\ ms1 \in Seq(Seq(Characters)) /\ Len(ms1) = j /\ DOMAIN ms1 = 1 .. j
      /\ \A k \in 1 .. j : ms1[k] = ms[k]
      BY <1>4, Prefix
<1> HIDE DEF os1, ms1
<1>7. OperandsInv(g, os1)
      BY DEF os1
<1>8. \A k \in DOMAIN os1 : Len(ms1[k]) = g.descriptor[os1[k]].len
      BY <1>1, <1>2, <1>5, <1>6 DEF ValuesInv
<1>9. ASSUME ~left
      PROVE  /\ TemporariesAbove(g)
             /\ \A k \in DOMAIN os1 : stringOf(g, os1[k]) = ms1[k]
      <2>1. TemporariesAbove(e) /\ \A k \in DOMAIN os : stringOf(e, os[k]) = ms[k]
            BY <1>1, <1>9 DEF ValuesInv
      <2>2. TemporariesAbove(g)
            BY <2>1, <1>2, <1>9 DEF TemporariesAbove
      <2>3. \A k \in DOMAIN os1 : stringOf(g, os1[k]) = stringOf(e, os1[k])
            BY <2>1, <1>2, <1>7 DEF OperandsInv
      <2>4. QED BY <2>1, <2>2, <2>3, <1>5, <1>6
<1>10. ValuesInv(g, os1, ms1, left)
      BY <1>5, <1>6, <1>8, <1>9 DEF ValuesInv
<1>11. QED BY <1>2, <1>3, <1>7, <1>10 DEF StringInv, os1, ms1

-----------------------------------------------------------------------------
(* The values of an expression: the last one is taken, a new one put.      *)

LEMMA DropLast ==
  ASSUME NEW h, NEW os, OperandsInv(h, os), h.TEMPPT \in 0 .. Len(Temporaries),
         NEW m \in Nat \ {0}, m = Len(os), NEW g,
         g.TEMPPT = IF isLastTemporary(h, os[m]) THEN h.TEMPPT - 1 ELSE h.TEMPPT
  PROVE  /\ OperandsInv(g, SubSeq(os, 1, m - 1))
         /\ g.TEMPPT \in 0 .. h.TEMPPT /\ inUse(g) \subseteq inUse(h)
         /\ isLastTemporary(h, os[m]) <=> os[m] \in inUse(h)
<1> DEFINE os1 == SubSeq(os, 1, m - 1)
           P == h.TEMPPT
<1>1. os \in Seq(Names) /\ DOMAIN os = 1 .. m
      BY LenProperties DEF OperandsInv
<1>2. /\ os1 \in Seq(Names) /\ DOMAIN os1 = 1 .. m - 1
      /\ \A k \in 1 .. m - 1 : os1[k] = os[k] /\ k \in DOMAIN os
      <2>1. m - 1 \in 0 .. Len(os)
            OBVIOUS
      <2>2. QED BY <1>1, <2>1, Prefix
<1> HIDE DEF os1
<1>3. \A k \in 1 .. P : k \in 1 .. Len(Temporaries)
      BY StringConstants
<1>4. m \in DOMAIN os
      BY <1>1
<1>5. CASE os[m] \in inUse(h)
      <2>1. PICK c \in 1 .. P : os[m] = Temporaries[c]
            BY <1>5 DEF inUse
      <2>2. P > 0 /\ P \in 1 .. P
            BY <2>1
      <2>3. PICK k \in DOMAIN os : os[k] = Temporaries[P]
            BY <2>2 DEF OperandsInv, inUse
      <2>4. c = P
            <3>1. k < m => P < c
                  BY <2>1, <2>2, <2>3, <1>4 DEF OperandsInv
            <3>2. CASE k = m
                  BY <3>2, <2>1, <2>2, <2>3, <1>3, StringConstants
            <3>3. CASE k < m
                  BY <3>1, <3>3, <2>1
            <3>4. QED BY <3>2, <3>3, <1>1
      <2>5. isLastTemporary(h, os[m]) /\ g.TEMPPT = P - 1
            BY <2>1, <2>2, <2>4 DEF isLastTemporary
      <2>6. \A k1 \in 1 .. m - 1 : os[k1] \in Variables \cup inUse(g)
            <3>1. SUFFICES ASSUME NEW k1 \in 1 .. m - 1, os[k1] \notin Variables
                           PROVE  os[k1] \in inUse(g)
                  OBVIOUS
            <3>2. k1 \in DOMAIN os /\ k1 < m
                  BY <1>1
            <3>3. PICK b \in 1 .. P : os[k1] = Temporaries[b]
                  BY <3>1, <3>2 DEF OperandsInv, inUse
            <3>4. b < c
                  BY <3>2, <3>3, <2>1, <1>4 DEF OperandsInv
            <3>5. b \in 1 .. P - 1
                  BY <3>3, <3>4, <2>4
            <3>6. QED BY <3>3, <3>5, <2>5 DEF inUse
      <2>7. \A t \in inUse(g) : \E k1 \in 1 .. m - 1 : os[k1] = t
            <3>1. SUFFICES ASSUME NEW b \in 1 .. P - 1
                           PROVE  \E k1 \in 1 .. m - 1 : os[k1] = Temporaries[b]
                  BY <2>5 DEF inUse
            <3>2. b \in 1 .. P /\ b # P
                  BY <2>2
            <3>3. PICK k1 \in DOMAIN os : os[k1] = Temporaries[b]
                  BY <3>2 DEF OperandsInv, inUse
            <3>4. k1 # m
                  BY <3>2, <3>3, <2>1, <2>2, <2>4, <1>3, StringConstants
            <3>5. QED BY <3>3, <3>4, <1>1
      <2>8. \A k1, l1 \in 1 .. m - 1 : \A b, d \in 1 .. g.TEMPPT :
               k1 < l1 /\ os[k1] = Temporaries[b] /\ os[l1] = Temporaries[d] => b < d
            <3>1. \A b \in 1 .. g.TEMPPT : b \in 1 .. P
                  BY <2>5
            <3>2. QED BY <3>1, <1>2 DEF OperandsInv
      <2>9. OperandsInv(g, os1)
            <3>1. os1 \in Seq(Names) /\ \A k1 \in DOMAIN os1 : os1[k1] \in Variables \cup inUse(g)
                  BY <1>2, <2>6
            <3>2. \A t \in inUse(g) : \E k1 \in DOMAIN os1 : os1[k1] = t
                  BY <1>2, <2>7
            <3>3. \A k1, l1 \in DOMAIN os1 : \A b, d \in 1 .. g.TEMPPT :
                    k1 < l1 /\ os1[k1] = Temporaries[b] /\ os1[l1] = Temporaries[d] => b < d
                  BY <1>2, <2>8
            <3>4. QED BY <3>1, <3>2, <3>3 DEF OperandsInv
      <2>10. g.TEMPPT \in 0 .. P /\ inUse(g) \subseteq inUse(h)
            BY <2>2, <2>5 DEF inUse
      <2>11. QED BY <1>5, <2>5, <2>9, <2>10 DEF os1
<1>6. CASE os[m] \notin inUse(h)
      <2>1. ~isLastTemporary(h, os[m]) /\ g.TEMPPT = P
            BY <1>6 DEF isLastTemporary, inUse
      <2>2. inUse(g) = inUse(h)
            BY <2>1 DEF inUse
      <2>3. \A t \in inUse(g) : \E k1 \in 1 .. m - 1 : os[k1] = t
            <3>1. SUFFICES ASSUME NEW t \in inUse(h) PROVE \E k1 \in 1 .. m - 1 : os[k1] = t
                  BY <2>2
            <3>2. PICK k1 \in DOMAIN os : os[k1] = t
                  BY DEF OperandsInv
            <3>3. k1 # m
                  BY <3>1, <3>2, <1>6
            <3>4. QED BY <3>2, <3>3, <1>1
      <2>4. OperandsInv(g, os1)
            <3>1. os1 \in Seq(Names) /\ \A k1 \in DOMAIN os1 : os1[k1] \in Variables \cup inUse(g)
                  BY <1>2, <2>2 DEF OperandsInv
            <3>2. \A t \in inUse(g) : \E k1 \in DOMAIN os1 : os1[k1] = t
                  BY <1>2, <2>3
            <3>3. \A k1, l1 \in DOMAIN os1 : \A b, d \in 1 .. g.TEMPPT :
                    k1 < l1 /\ os1[k1] = Temporaries[b] /\ os1[l1] = Temporaries[d] => b < d
                  BY <1>2, <2>1 DEF OperandsInv
            <3>4. QED BY <3>1, <3>2, <3>3 DEF OperandsInv
      <2>5. QED BY <1>6, <2>1, <2>2, <2>4 DEF os1
<1>7. QED BY <1>5, <1>6

LEMMA PutFields ==
  ASSUME NEW h, IsRecord(h), NEW d
  PROVE  LET c == PUTNEW(h, d)
         IN  /\ IsRecord(c) /\ c.memory = h.memory /\ c.STREND = h.STREND /\ c.FRETOP = h.FRETOP
             /\ c.TEMPPT = h.TEMPPT + 1
             /\ c.descriptor = [h.descriptor EXCEPT ![newTemporary(h)] = d]
<1> DEFINE t == newTemporary(h)
           desc == [h.descriptor EXCEPT ![t] = d]
           e1 == [h EXCEPT !.descriptor = desc]
           c == PUTNEW(h, d)
<1>1. c = [e1 EXCEPT !.TEMPPT = e1.TEMPPT + 1]
      BY DEF PUTNEW
<1>2. e1 = aHeap(h.memory, h.STREND, h.FRETOP, h.TEMPPT, desc)
      <2> HIDE DEF t, desc
      <2>1. QED BY HeapUpdates
<1> HIDE DEF e1, desc, c
<1>3. e1.TEMPPT = h.TEMPPT
      BY <1>2, HeapFields
<1>4. c = aHeap(h.memory, h.STREND, h.FRETOP, h.TEMPPT + 1, desc)
      BY <1>1, <1>2, <1>3 DEF aHeap
<1>5. /\ IsRecord(c) /\ c.memory = h.memory /\ c.STREND = h.STREND /\ c.FRETOP = h.FRETOP
      /\ c.TEMPPT = h.TEMPPT + 1 /\ c.descriptor = desc
      BY <1>4, HeapFields
<1>6. QED BY <1>5 DEF c, desc

(* A new value with its descriptor, which lies below the strings of the    *)
(* variables and apart from the values that wait.                          *)
LEMMA PutInv ==
  ASSUME NEW g, NEW os, NEW ms, NEW as, NEW left, NEW d \in Descriptors, NEW value,
         StringInv(g, os, ms, as, left), ~tooComplex(g),
         end(d) <= MEMSIZ, value \in Seq(Characters), Len(value) = d.len,
         \A v \in Variables : stored(g, v) => end(d) <= g.descriptor[v].at,
         ~left => /\ [i \in 1 .. d.len |-> g.memory[d.at + i - 1]] = value
                  /\ d.len > 0 => inText(d) \/ g.FRETOP <= d.at
                  /\ d.len > 0 /\ ~inText(d) => \A t \in inUse(g) :
                       g.descriptor[t].len > 0 /\ ~inText(g.descriptor[t])
                         => disjoint(d, g.descriptor[t])
  PROVE  StringInv(PUTNEW(g, d), Append(os, newTemporary(g)), Append(ms, value), as, left)
<1> DEFINE c == PUTNEW(g, d)
           nt == newTemporary(g)
           os1 == Append(os, nt)
           ms1 == Append(ms, value)
           P == g.TEMPPT
<1>1. /\ HeapInv(g) /\ OperandsInv(g, os) /\ VariablesInv(g, as) /\ ValuesInv(g, os, ms, left)
      /\ IsHeap(g) /\ VariablesApart(g) /\ VariablesAbove(g)
      BY DEF StringInv, HeapInv
<1>2. P \in Nat /\ P + 1 \in 1 .. Len(Temporaries) /\ nt = Temporaries[P + 1]
      BY <1>1, StringConstants DEF tooComplex, IsHeap, newTemporary
<1>3. nt \in Names /\ nt \notin Variables /\ nt \notin inUse(g)
      <2>1. \A k \in 1 .. P : k \in 1 .. Len(Temporaries) /\ k # P + 1
            BY <1>2, StringConstants
      <2>2. QED BY <1>2, <2>1, StringConstants DEF inUse
<1>4. /\ IsRecord(c) /\ c.memory = g.memory /\ c.STREND = g.STREND /\ c.FRETOP = g.FRETOP
      /\ c.TEMPPT = P + 1 /\ c.descriptor = [g.descriptor EXCEPT ![nt] = d]
      BY <1>1, PutFields DEF IsHeap
<1> HIDE DEF c, nt
<1>5. /\ c.descriptor \in [Names -> Descriptors] /\ c.descriptor[nt] = d
      /\ \A k \in Names : k # nt => c.descriptor[k] = g.descriptor[k]
      BY <1>1, <1>3, <1>4 DEF IsHeap
<1>6. inUse(c) = inUse(g) \cup {nt}
      <2>1. 1 .. P + 1 = (1 .. P) \cup {P + 1}
            BY <1>2
      <2>2. QED BY <1>2, <1>4, <2>1 DEF inUse
<1>7. /\ \A v \in Variables : v \in Names /\ v # nt
      /\ \A t \in inUse(g) : t \in Names /\ t # nt
      BY <1>1, <1>3, StringConstants, InUseFacts DEF IsHeap
<1>8. \A k \in Variables \cup inUse(g) : c.descriptor[k] = g.descriptor[k] /\ stringOf(c, k) = stringOf(g, k)
      BY <1>4, <1>5, <1>7 DEF stringOf
<1>9. \A v \in Variables : stored(c, v) <=> stored(g, v)
      BY <1>4, <1>8 DEF stored
<1>10. HeapInv(c)
      <2>1. P + 1 \in 0 .. Len(Temporaries)
            BY <1>2
      <2>2. IsHeap(c)
            BY <2>1, <1>1, <1>4, <1>5 DEF IsHeap
      <2>3. VariablesApart(c)
            BY <1>1, <1>3, <1>5, <1>6, <1>8, <1>9 DEF VariablesApart
      <2>4. VariablesAbove(c)
            BY <1>1, <1>4, <1>8, <1>9 DEF VariablesAbove
      <2>5. QED BY <2>2, <2>3, <2>4 DEF HeapInv
<1>11. VariablesInv(c, as)
      <2>1. dimensioned(c) = dimensioned(g)
            BY <1>4 DEF dimensioned
      <2>2. QED BY <2>1, <1>1, <1>8 DEF VariablesInv, Variables
<1>12. os \in Seq(Names) /\ ms \in Seq(Seq(Characters)) /\ Len(ms) = Len(os)
      BY <1>1 DEF OperandsInv, ValuesInv
<1>13. /\ Len(os) \in Nat /\ DOMAIN os = 1 .. Len(os)
       /\ os1 \in Seq(Names) /\ Len(os1) = Len(os) + 1 /\ DOMAIN os1 = 1 .. Len(os) + 1
       /\ os1[Len(os) + 1] = nt /\ \A k \in 1 .. Len(os) : os1[k] = os[k]
      <2>1. Len(os) \in Nat /\ DOMAIN os = 1 .. Len(os)
            BY <1>12, LenProperties
      <2>2. /\ os1 \in Seq(Names) /\ Len(os1) = Len(os) + 1
            /\ os1[Len(os) + 1] = nt /\ \A k \in 1 .. Len(os) : os1[k] = os[k]
            BY <1>3, <1>12, AppendProperties
      <2>3. DOMAIN os1 = 1 .. Len(os1)
            BY <2>2, LenProperties
      <2>4. QED BY <2>1, <2>2, <2>3
<1>14. /\ ms1 \in Seq(Seq(Characters)) /\ Len(ms1) = Len(os) + 1
       /\ ms1[Len(os) + 1] = value /\ \A k \in 1 .. Len(os) : ms1[k] = ms[k]
      <2>1. value \in Seq(Characters)
            OBVIOUS
      <2>2. QED BY <2>1, <1>12, AppendProperties
<1> HIDE DEF os1, ms1
<1>15. OperandsInv(c, os1)
      <2>1. \A k \in DOMAIN os1 : os1[k] \in Variables \cup inUse(c)
            BY <1>1, <1>6, <1>13 DEF OperandsInv
      <2>2. \A t \in inUse(c) : \E k \in DOMAIN os1 : os1[k] = t
            <3>1. SUFFICES ASSUME NEW t \in inUse(c) PROVE \E k \in DOMAIN os1 : os1[k] = t
                  OBVIOUS
            <3>2. CASE t = nt
                  <4>1. Len(os) + 1 \in DOMAIN os1
                        BY <1>13
                  <4>2. QED BY <3>2, <4>1, <1>13
            <3>3. CASE t \in inUse(g)
                  <4>1. PICK k \in DOMAIN os : os[k] = t
                        BY <3>3, <1>1 DEF OperandsInv
                  <4>2. k \in DOMAIN os1 /\ os1[k] = t
                        BY <4>1, <1>13
                  <4>3. QED BY <4>2
            <3>4. QED BY <3>1, <3>2, <3>3, <1>6
      <2>3. ASSUME NEW k \in DOMAIN os1, NEW l \in DOMAIN os1, NEW a \in 1 .. P + 1, NEW b \in 1 .. P + 1,
                   k < l, os1[k] = Temporaries[a], os1[l] = Temporaries[b]
            PROVE  a < b
            <3>1. k \in DOMAIN os /\ os1[k] = os[k]
                  BY <2>3, <1>13
            <3>2. Temporaries[a] \in inUse(g)
                  <4>1. a \in 1 .. Len(Temporaries)
                        BY <1>2, StringConstants
                  <4>2. Temporaries[a] \notin Variables
                        BY <4>1, StringConstants
                  <4>3. QED BY <2>3, <3>1, <4>2, <1>1 DEF OperandsInv
            <3>3. a # P + 1
                  BY <3>2, <1>2, <1>3
            <3>4. a \in 1 .. P
                  BY <3>3, <1>2
            <3>5. CASE b = P + 1
                  BY <3>4, <3>5, <1>2
            <3>6. CASE b \in 1 .. P
                  <4>1. Temporaries[b] # nt
                        BY <3>6, <1>3 DEF inUse
                  <4>2. l \in DOMAIN os /\ os1[l] = os[l]
                        BY <4>1, <2>3, <1>13
                  <4>3. QED BY <2>3, <3>1, <3>4, <3>6, <4>2, <1>1 DEF OperandsInv
            <3>7. QED BY <3>5, <3>6, <1>2
      <2>4. QED BY <2>1, <2>2, <2>3, <1>4, <1>13 DEF OperandsInv
<1>16. \A k \in 1 .. Len(os) : k \in DOMAIN os /\ os[k] \in Variables \cup inUse(g)
      BY <1>1, <1>13 DEF OperandsInv
<1>17. \A k \in DOMAIN os1 : Len(ms1[k]) = c.descriptor[os1[k]].len
      <2>1. TAKE k \in DOMAIN os1
      <2>2. CASE k = Len(os) + 1
            BY <2>2, <1>5, <1>13, <1>14
      <2>3. CASE k \in 1 .. Len(os)
            <3>1. os1[k] = os[k] /\ ms1[k] = ms[k]
                  BY <2>3, <1>13, <1>14
            <3>2. k \in DOMAIN os /\ os[k] \in Variables \cup inUse(g)
                  BY <2>3, <1>16
            <3>3. Len(ms[k]) = g.descriptor[os[k]].len
                  BY <3>2, <1>1 DEF ValuesInv
            <3>4. c.descriptor[os[k]] = g.descriptor[os[k]]
                  BY <3>2, <1>8
            <3>5. QED BY <3>1, <3>3, <3>4
      <2>4. QED BY <2>2, <2>3, <1>13
<1>18. ASSUME ~left
       PROVE  TemporariesAbove(c) /\ \A k \in DOMAIN os1 : stringOf(c, os1[k]) = ms1[k]
      <2>1. TemporariesAbove(g) /\ \A k \in DOMAIN os : stringOf(g, os[k]) = ms[k]
            BY <1>1, <1>18 DEF ValuesInv
      <2>2. ASSUME NEW t \in inUse(c), c.descriptor[t].len > 0
            PROVE  inText(c.descriptor[t]) \/ c.FRETOP <= c.descriptor[t].at
            <3>1. CASE t = nt
                  BY <2>2, <3>1, <1>4, <1>5, <1>18
            <3>2. CASE t \in inUse(g)
                  BY <2>1, <2>2, <3>2, <1>4, <1>8 DEF TemporariesAbove
            <3>3. QED BY <3>1, <3>2, <1>6
      <2>3. ASSUME NEW t \in inUse(c), NEW u \in inUse(c), t # u,
                   c.descriptor[t].len > 0, c.descriptor[u].len > 0,
                   ~inText(c.descriptor[t]), ~inText(c.descriptor[u])
            PROVE  disjoint(c.descriptor[t], c.descriptor[u])
            <3>1. CASE t = nt
                  BY <2>3, <3>1, <1>5, <1>6, <1>8, <1>18
            <3>2. CASE u = nt
                  BY <2>3, <3>2, <1>5, <1>6, <1>8, <1>18 DEF disjoint
            <3>3. CASE t \in inUse(g) /\ u \in inUse(g)
                  BY <2>1, <2>3, <3>3, <1>8 DEF TemporariesAbove
            <3>4. QED BY <2>3, <3>1, <3>2, <3>3, <1>6
      <2>4. TemporariesAbove(c)
            BY <2>2, <2>3 DEF TemporariesAbove
      <2>5. ASSUME NEW k \in DOMAIN os1 PROVE stringOf(c, os1[k]) = ms1[k]
            <3>1. CASE k = Len(os) + 1
                  <4>1. stringOf(c, nt) = [i \in 1 .. d.len |-> g.memory[d.at + i - 1]]
                        BY <1>4, <1>5 DEF stringOf
                  <4>2. QED BY <3>1, <4>1, <1>13, <1>14, <1>18
            <3>2. CASE k \in 1 .. Len(os)
                  BY <3>2, <2>1, <1>8, <1>13, <1>14, <1>16
            <3>3. QED BY <3>1, <3>2, <1>13
      <2>6. QED BY <2>4, <2>5
<1>19. ValuesInv(c, os1, ms1, left)
      BY <1>13, <1>14, <1>17, <1>18 DEF ValuesInv
<1>20. QED BY <1>10, <1>11, <1>15, <1>19 DEF StringInv, c, nt, os1, ms1

-----------------------------------------------------------------------------
(* The steps of an operation, one by one.                                  *)

LEMMA SpaceBuilt ==
  ASSUME NEW h, HeapInv(h), NEW n \in Nat, hasSpace(h, n)
  PROVE  Built(GETSPA(h, n), afterGETSPA(h, n), GETSPA(h, n).FRETOP, n)
<1> DEFINE e == afterGETSPA(h, n)
           g == GETSPA(h, n)
<1>1. HeapInv(e)
      BY Space
<1>2. /\ IsRecord(g) /\ g.memory = e.memory /\ g.STREND = e.STREND
      /\ g.TEMPPT = e.TEMPPT /\ g.descriptor = e.descriptor
      /\ g.FRETOP = e.FRETOP - n /\ g.FRETOP \in Nat /\ e.STREND <= g.FRETOP
      /\ g.FRETOP + n = e.FRETOP
      BY SpaceFields
<1> HIDE DEF e, g
<1>3. /\ IsHeap(e) /\ VariablesAbove(e) /\ e.FRETOP \in Nat /\ e.FRETOP <= MEMSIZ /\ MEMSIZ \in Nat
      /\ e.TEMPPT \in 0 .. e.TEMPPT
      BY <1>1, StringConstants DEF HeapInv, IsHeap
<1>4. g.FRETOP <= e.FRETOP /\ g.FRETOP <= MEMSIZ /\ g.FRETOP + n <= e.FRETOP
      BY <1>2, <1>3
<1>5. \A v \in Variables : stored(e, v) => g.FRETOP <= e.descriptor[v].at
      <2>1. \A v \in Variables : e.descriptor[v].at \in Nat
            BY <1>3, StringConstants, DescriptorFacts
      <2>2. QED BY <2>1, <1>2, <1>3, <1>4 DEF VariablesAbove
<1>6. QED BY <1>2, <1>3, <1>4, <1>5 DEF Built, IsHeap, IsMemory, e, g

(* A move to a place in the space for the result.                          *)
MovesTo(e, g, low, n, from, to, k) ==
  /\ Built(g, e, low, n) /\ HeapInv(e)
  /\ from \in Nat /\ to \in Nat /\ k \in Nat /\ low <= to /\ to + k <= low + n

LEMMA MoveBuilt ==
  ASSUME NEW e, NEW g, NEW low, NEW n, NEW from, NEW to, NEW k, MovesTo(e, g, low, n, from, to, k)
  PROVE  LET r == MOVSTR1(g, from, to, k)
         IN  /\ Built(r, e, low, n) /\ r.FRETOP = g.FRETOP /\ r.TEMPPT = g.TEMPPT
             /\ \A a \in 0 .. MEMSIZ - 1 : ~(to <= a /\ a < to + k) => r.memory[a] = g.memory[a]
             /\ from <= to \/ to + k <= from =>
                  \A i \in 1 .. k : r.memory[to + i - 1] = g.memory[from + i - 1]
<1> DEFINE r == MOVSTR1(g, from, to, k)
<1>0. /\ Built(g, e, low, n) /\ HeapInv(e)
      /\ from \in Nat /\ to \in Nat /\ k \in Nat /\ low <= to /\ to + k <= low + n
      BY DEF MovesTo
<1> USE <1>0
<1>1. /\ IsRecord(r) /\ r.memory = moved(g.memory, from, to, k) /\ r.STREND = g.STREND
      /\ r.FRETOP = g.FRETOP /\ r.TEMPPT = g.TEMPPT /\ r.descriptor = g.descriptor
      BY MovedFields DEF Built
<1> HIDE DEF r
<1>2. /\ low \in Nat /\ n \in Nat /\ low + n <= e.FRETOP /\ e.FRETOP \in Nat /\ e.FRETOP <= MEMSIZ
      /\ MEMSIZ \in Nat
      BY StringConstants DEF Built, HeapInv, IsHeap
<1>3. to + k <= MEMSIZ
      BY <1>2
<1>4. g.memory = [a \in 0 .. MEMSIZ - 1 |-> g.memory[a]]
      BY DEF Built
<1>5. /\ r.memory = [a \in 0 .. MEMSIZ - 1 |-> r.memory[a]]
      /\ \A a \in 0 .. MEMSIZ - 1 : ~(to <= a /\ a < to + k) => r.memory[a] = g.memory[a]
      /\ to + k <= MEMSIZ /\ (from <= to \/ to + k <= from) =>
           \A i \in 1 .. k : r.memory[to + i - 1] = g.memory[from + i - 1]
      <2> DEFINE mem == g.memory
                 out == moved(mem, from, to, k)
      <2>1. mem = [a \in 0 .. MEMSIZ - 1 |-> mem[a]]
            BY <1>4
      <2> HIDE DEF mem
      <2>2. /\ out = [a \in 0 .. MEMSIZ - 1 |-> out[a]]
            /\ \A a \in 0 .. MEMSIZ - 1 : ~(to <= a /\ a < to + k) => out[a] = mem[a]
            /\ to + k <= MEMSIZ /\ (from <= to \/ to + k <= from) =>
                 \A i \in 1 .. k : out[to + i - 1] = mem[from + i - 1]
            <3>1. from \in Nat /\ to \in Nat /\ k \in Nat
                  BY <1>0
            <3>2. IsBytes(mem)
                  BY <2>1 DEF IsBytes
            <3>3. HasMoved(out, mem, from, to, k)
                  BY <3>1, <3>2, MovedBytes
            <3> HIDE DEF out
            <3>4. QED BY <3>3 DEF HasMoved, IsBytes
      <2> HIDE DEF out
      <2>3. r.memory = out
            BY <1>1 DEF out, mem
      <2>4. QED BY <2>2, <2>3 DEF mem
<1>6. \A a \in 0 .. MEMSIZ - 1 : ~(low <= a /\ a < low + n) => r.memory[a] = e.memory[a]
      <2>1. SUFFICES ASSUME NEW a \in 0 .. MEMSIZ - 1, ~(low <= a /\ a < low + n)
                     PROVE  r.memory[a] = e.memory[a]
            OBVIOUS
      <2>2. ~(to <= a /\ a < to + k)
            BY <2>1, <1>2
      <2>3. QED BY <2>1, <2>2, <1>5 DEF Built
<1>7. Built(r, e, low, n)
      BY <1>1, <1>5, <1>6 DEF Built
<1>8. QED BY <1>1, <1>3, <1>5, <1>7 DEF r

LEMMA ReleaseBuilt ==
  ASSUME NEW e, NEW g, NEW low, NEW n, Built(g, e, low, n), HeapInv(e),
         NEW os, OperandsInv(g, os), NEW m \in Nat \ {0}, m = Len(os)
  PROVE  LET r == FRETMP(g, os[m])
         IN  /\ Built(r, e, low, n) /\ OperandsInv(r, SubSeq(os, 1, m - 1))
             /\ r.memory = g.memory /\ inUse(r) \subseteq inUse(g)
             /\ r.TEMPPT = IF os[m] \in inUse(g) THEN g.TEMPPT - 1 ELSE g.TEMPPT
             /\ r.FRETOP = IF os[m] \in inUse(g) /\ e.descriptor[os[m]].at = g.FRETOP
                           THEN g.FRETOP + e.descriptor[os[m]].len ELSE g.FRETOP
<1> DEFINE n1 == os[m]
           r == FRETMP(g, n1)
           d == e.descriptor[n1]
<1>1. /\ IsRecord(r) /\ r.memory = g.memory /\ r.STREND = g.STREND
      /\ r.descriptor = g.descriptor /\ g.descriptor = e.descriptor
      /\ r.TEMPPT = IF isLastTemporary(g, n1) THEN g.TEMPPT - 1 ELSE g.TEMPPT
      /\ r.FRETOP = IF isLastTemporary(g, n1) /\ d.at = g.FRETOP
                    THEN g.FRETOP + d.len ELSE g.FRETOP
      BY ReleasedFields DEF Built
<1> HIDE DEF r
<1>2. /\ e.TEMPPT \in 0 .. Len(Temporaries) /\ g.TEMPPT \in 0 .. e.TEMPPT
      /\ g.TEMPPT \in 0 .. Len(Temporaries)
      BY StringConstants DEF Built, HeapInv, IsHeap
<1>3. /\ OperandsInv(r, SubSeq(os, 1, m - 1))
      /\ r.TEMPPT \in 0 .. g.TEMPPT /\ inUse(r) \subseteq inUse(g)
      /\ isLastTemporary(g, n1) <=> n1 \in inUse(g)
      BY <1>1, <1>2, DropLast
<1>4. r.TEMPPT \in 0 .. e.TEMPPT
      BY <1>2, <1>3
<1>5. m \in DOMAIN os
      BY LenProperties DEF OperandsInv
<1>6. inUse(g) \subseteq inUse(e)
      BY <1>2 DEF inUse
<1>7. /\ r.FRETOP \in Nat /\ low <= r.FRETOP /\ r.FRETOP <= MEMSIZ
      /\ \A v \in Variables : stored(e, v) => r.FRETOP <= e.descriptor[v].at
      <2>1. CASE n1 \in inUse(g) /\ d.at = g.FRETOP
            <3>1. n1 \in Names /\ n1 \in inUse(e)
                  BY <2>1, <1>5, <1>6, OperandNames
            <3>2. d.at \in Nat /\ d.len \in Nat /\ end(d) = d.at + d.len /\ end(d) \in Nat
                  BY <3>1, DescriptorFacts DEF HeapInv
            <3>3. r.FRETOP = end(d)
                  BY <2>1, <3>2, <1>1, <1>3
            <3>4. end(d) <= MEMSIZ /\ \A v \in Variables : stored(e, v) => end(d) <= e.descriptor[v].at
                  BY <3>1 DEF HeapInv, VariablesApart
            <3>5. g.FRETOP \in Nat /\ low <= g.FRETOP /\ low \in Nat
                  BY DEF Built
            <3>6. low <= end(d)
                  BY <2>1, <3>2, <3>5
            <3>7. QED BY <3>2, <3>3, <3>4, <3>6
      <2>2. CASE ~(n1 \in inUse(g) /\ d.at = g.FRETOP)
            <3>1. r.FRETOP = g.FRETOP
                  BY <2>2, <1>1, <1>3
            <3>2. QED BY <3>1 DEF Built
      <2>3. QED BY <2>1, <2>2
<1>8. Built(r, e, low, n)
      BY <1>1, <1>4, <1>7 DEF Built
<1>9. QED BY <1>1, <1>3, <1>8 DEF r

(* Where the strings of the operands are, so that a result does not come   *)
(* over them.                                                              *)
LEMMA OperandPlace ==
  ASSUME NEW e, NEW os, NEW k \in DOMAIN os, HeapInv(e), OperandsInv(e, os)
  PROVE  LET d == e.descriptor[os[k]]
         IN  /\ d.at \in Nat /\ d.len \in Nat /\ end(d) = d.at + d.len /\ end(d) \in Nat
             /\ d.len > 0 => end(d) <= MEMSIZ
             /\ TemporariesAbove(e) /\ d.len > 0 => inText(d) \/ e.FRETOP <= d.at
<1> DEFINE d == e.descriptor[os[k]]
<1>1. os[k] \in Names /\ os[k] \in Variables \cup inUse(e)
      BY OperandNames
<1>2. d.at \in Nat /\ d.len \in Nat /\ end(d) = d.at + d.len /\ end(d) \in Nat
      BY <1>1, DescriptorFacts DEF HeapInv
<1>3. CASE os[k] \in inUse(e)
      BY <1>2, <1>3 DEF HeapInv, VariablesApart, TemporariesAbove
<1>4. CASE os[k] \in Variables
      <2>1. inText(d) => end(d) <= MEMSIZ
            BY <1>2, StringConstants DEF inText
      <2>2. QED BY <1>2, <1>4, <2>1 DEF HeapInv, VariablesApart, VariablesAbove
<1>5. QED BY <1>1, <1>3, <1>4

(* A released temporary that is the lowest string leaves its place; the    *)
(* other values are above it.                                              *)
LEMMA ReleaseAbove ==
  ASSUME NEW e, NEW g, NEW low, NEW n, Built(g, e, low, n), HeapInv(e),
         NEW os, OperandsInv(g, os), NEW m \in Nat \ {0}, m = Len(os),
         TemporariesAbove(e), g.FRETOP = low
  PROVE  LET r == FRETMP(g, os[m])
         IN  /\ \A t \in inUse(r) : e.descriptor[t].len > 0 =>
                  inText(e.descriptor[t]) \/ r.FRETOP <= e.descriptor[t].at
             /\ n > 0 \/ e.descriptor[os[m]].len = 0 => r.FRETOP = low
<1> DEFINE n1 == os[m]
           r == FRETMP(g, n1)
           d == e.descriptor[n1]
<1>1. /\ inUse(r) \subseteq inUse(g)
      /\ r.TEMPPT = IF n1 \in inUse(g) THEN g.TEMPPT - 1 ELSE g.TEMPPT
      /\ r.FRETOP = IF n1 \in inUse(g) /\ d.at = low THEN low + d.len ELSE low
      BY ReleaseBuilt
<1>2. /\ e.TEMPPT \in 0 .. Len(Temporaries) /\ g.TEMPPT \in 0 .. e.TEMPPT
      /\ g.TEMPPT \in 0 .. Len(Temporaries)
      BY StringConstants DEF Built, HeapInv, IsHeap
<1>3. inUse(g) \subseteq inUse(e)
      BY <1>2 DEF inUse
<1>4. m \in DOMAIN os
      BY LenProperties DEF OperandsInv
<1>5. n1 \in inUse(g) => isLastTemporary(g, n1)
      <2>1. FRETMP(g, n1).TEMPPT = IF isLastTemporary(g, n1) THEN g.TEMPPT - 1 ELSE g.TEMPPT
            BY ReleasedFields DEF Built
      <2>2. QED BY <2>1, <1>2, DropLast
<1> HIDE DEF r
<1>6. /\ low \in Nat /\ n \in Nat /\ low + n <= e.FRETOP /\ e.FRETOP \in Nat
      /\ Len(ProgramText) \in Nat /\ Len(ProgramText) <= low
      <2>1. Len(ProgramText) \in Nat /\ e.STREND \in Nat /\ Len(ProgramText) <= e.STREND
            BY StringConstants DEF HeapInv, IsHeap
      <2>2. QED BY <2>1 DEF Built, HeapInv, IsHeap
<1>7. ASSUME NEW t \in inUse(e)
      PROVE  /\ e.descriptor[t].at \in Nat /\ e.descriptor[t].len \in Nat
             /\ end(e.descriptor[t]) = e.descriptor[t].at + e.descriptor[t].len
             /\ end(e.descriptor[t]) \in Nat
      BY <1>2, InUseFacts, DescriptorFacts DEF HeapInv
<1>8. CASE n1 \in inUse(g) /\ d.at = low /\ d.len > 0
      <2>1. n1 \in inUse(e) /\ d.at \in Nat /\ d.len \in Nat /\ end(d) = d.at + d.len /\ end(d) \in Nat
            BY <1>3, <1>7, <1>8
      <2>2. ~inText(d)
            BY <2>1, <1>6, <1>8 DEF inText
      <2>3. e.FRETOP <= d.at
            BY <2>1, <2>2, <1>8 DEF TemporariesAbove
      <2>4. n = 0
            BY <2>3, <1>6, <1>8
      <2>5. r.FRETOP = end(d)
            BY <2>1, <1>1, <1>8
      <2>6. ASSUME NEW t \in inUse(r), e.descriptor[t].len > 0, ~inText(e.descriptor[t])
            PROVE  r.FRETOP <= e.descriptor[t].at
            <3>1. t \in inUse(e)
                  BY <1>1, <1>3
            <3>2. t # n1
                  <4>1. n1 = Temporaries[g.TEMPPT] /\ g.TEMPPT > 0 /\ r.TEMPPT = g.TEMPPT - 1
                        BY <1>1, <1>5, <1>8 DEF isLastTemporary
                  <4>2. PICK c \in 1 .. r.TEMPPT : t = Temporaries[c]
                        BY <2>6 DEF inUse
                  <4>3. /\ c \in 1 .. Len(Temporaries) /\ g.TEMPPT \in 1 .. Len(Temporaries)
                        /\ c # g.TEMPPT
                        BY <4>1, <4>2, <1>2, StringConstants
                  <4>4. QED BY <4>1, <4>2, <4>3, StringConstants
            <3>3. disjoint(e.descriptor[t], d)
                  BY <2>1, <2>2, <2>6, <3>1, <3>2, <1>8 DEF TemporariesAbove
            <3>4. e.FRETOP <= e.descriptor[t].at
                  BY <2>6, <3>1 DEF TemporariesAbove
            <3>5. /\ e.descriptor[t].at \in Nat /\ e.descriptor[t].len \in Nat
                  /\ end(e.descriptor[t]) = e.descriptor[t].at + e.descriptor[t].len
                  BY <3>1, <1>7
            <3>6. ~(end(e.descriptor[t]) <= d.at)
                  BY <2>4, <2>6, <3>4, <3>5, <1>6, <1>8
            <3>7. QED BY <2>5, <3>3, <3>6 DEF disjoint
      <2>7. QED BY <2>4, <2>6, <1>8 DEF r
<1>9. CASE ~(n1 \in inUse(g) /\ d.at = low /\ d.len > 0)
      <2>1. r.FRETOP = low
            <3>1. n1 \in inUse(g) => d.len \in Nat
                  BY <1>3, <1>7
            <3>2. QED BY <3>1, <1>1, <1>6, <1>9
      <2>2. ASSUME NEW t \in inUse(r), e.descriptor[t].len > 0, ~inText(e.descriptor[t])
            PROVE  low <= e.descriptor[t].at
            <3>1. t \in inUse(e)
                  BY <1>1, <1>3
            <3>2. e.FRETOP <= e.descriptor[t].at /\ e.descriptor[t].at \in Nat
                  BY <2>2, <3>1, <1>7 DEF TemporariesAbove
            <3>3. QED BY <3>2, <1>6
      <2>3. QED BY <2>1, <2>2 DEF r
<1>10. QED BY <1>8, <1>9

-----------------------------------------------------------------------------
(* The end of an expression, and an operation as a whole.                  *)

LEMMA NoneInUse ==
  ASSUME NEW g, HeapInv(g), g.TEMPPT = 0, NEW as, VariablesInv(g, as)
  PROVE  StringInv(g, << >>, << >>, as, FALSE)
<1>1. inUse(g) = {}
      BY DEF inUse
<1>2. << >> \in Seq(Names) /\ Len(<< >>) = 0 /\ DOMAIN << >> = {}
      BY EmptySeq, LenProperties
<1>3. << >> \in Seq(Seq(Characters))
      BY EmptySeq
<1>4. OperandsInv(g, << >>)
      BY <1>1, <1>2 DEF OperandsInv
<1>5. ValuesInv(g, << >>, << >>, FALSE)
      BY <1>1, <1>2, <1>3 DEF ValuesInv, TemporariesAbove
<1>6. QED BY <1>4, <1>5 DEF StringInv

LEMMA EndInv ==
  ASSUME NEW g, HeapInv(g), NEW as, VariablesInv(g, as)
  PROVE  StringInv([g EXCEPT !.TEMPPT = 0], << >>, << >>, as, FALSE)
<1> DEFINE z == [g EXCEPT !.TEMPPT = 0]
<1>1. /\ IsRecord(z) /\ z.memory = g.memory /\ z.STREND = g.STREND /\ z.FRETOP = g.FRETOP
      /\ z.TEMPPT = 0 /\ z.descriptor = g.descriptor
      <2>1. z = aHeap(g.memory, g.STREND, g.FRETOP, 0, g.descriptor)
            BY HeapUpdates DEF HeapInv, IsHeap
      <2> HIDE DEF z
      <2>2. QED BY <2>1, HeapFields
<1> HIDE DEF z
<1>2. inUse(z) = {}
      BY <1>1 DEF inUse
<1>3. \A v \in Variables : (stored(z, v) <=> stored(g, v)) /\ stringOf(z, v) = stringOf(g, v)
      BY <1>1 DEF stored, stringOf
<1>4. IsHeap(z)
      BY <1>1, StringConstants DEF HeapInv, IsHeap
<1>5. VariablesApart(z) /\ VariablesAbove(z)
      BY <1>1, <1>2, <1>3 DEF HeapInv, VariablesApart, VariablesAbove
<1>6. VariablesInv(z, as)
      BY <1>1, <1>3 DEF VariablesInv, dimensioned
<1>7. QED BY <1>1, <1>4, <1>5, <1>6, NoneInUse DEF HeapInv, z

Results(g, e, low, n, os, j, value, left) ==
  /\ Built(g, e, low, n) /\ OperandsInv(g, SubSeq(os, 1, j))
  /\ ~left => /\ n > 0 => g.FRETOP = low
              /\ \A t \in inUse(g) : e.descriptor[t].len > 0 =>
                   inText(e.descriptor[t]) \/ g.FRETOP <= e.descriptor[t].at
              /\ \A i \in 1 .. n : g.memory[low + i - 1] = value[i]

LEMMA SpaceInv ==
  ASSUME NEW h, NEW os, NEW ms, NEW as, NEW f, StringInv(h, os, ms, as, f), NEW n \in Nat
  PROVE  StringInv(afterGETSPA(h, n), os, ms, as, f \/ (~fits(h, n) /\ leavesTemporary(h)))
<1> DEFINE left == f \/ (~fits(h, n) /\ leavesTemporary(h))
           e == afterGETSPA(h, n)
<1>1. HeapInv(h) /\ ValuesInv(h, os, ms, f)
      BY DEF StringInv
<1>2. HeapInv(e) /\ SameStrings(h, e)
      BY <1>1, Space
<1>3. ASSUME ~left PROVE ~f /\ TemporariesAbove(e)
      <2>1. TemporariesAbove(h) /\ ~(~fits(h, n) /\ leavesTemporary(h))
            BY <1>1, <1>3 DEF ValuesInv
      <2>2. QED BY <1>1, <1>3, <2>1, Space
<1> HIDE DEF e, left
<1>4. StringInv(e, os, ms, as, left)
      BY <1>2, <1>3, SameInv
<1>5. QED BY <1>4 DEF e, left

LEMMA ResultInv ==
  ASSUME NEW e, NEW g, NEW low, NEW n, NEW os, NEW ms, NEW as, NEW left,
         StringInv(e, os, ms, as, left), NEW j \in 0 .. Len(os),
         NEW value \in Seq(Characters), Len(value) = n,
         Results(g, e, low, n, os, j, value, left)
  PROVE  /\ StringInv(g, SubSeq(os, 1, j), SubSeq(ms, 1, j), as, left)
         /\ ~tooComplex(g) =>
              StringInv(PUTNEW(g, [len |-> n, at |-> low]),
                        Append(SubSeq(os, 1, j), newTemporary(g)),
                        Append(SubSeq(ms, 1, j), value), as, left)
<1> DEFINE d == [len |-> n, at |-> low]
           os1 == SubSeq(os, 1, j)
           ms1 == SubSeq(ms, 1, j)
<1>1. HeapInv(e) /\ Built(g, e, low, n) /\ ValuesInv(e, os, ms, left)
      BY DEF StringInv, Results
<1>2. StringInv(g, os1, ms1, as, left)
      <2>1. ~left => \A t \in inUse(g) : e.descriptor[t].len > 0 =>
                    inText(e.descriptor[t]) \/ g.FRETOP <= e.descriptor[t].at
            BY DEF Results
      <2>2. OperandsInv(g, os1)
            BY DEF Results
      <2>3. QED BY <1>1, <2>1, <2>2, BuiltInv
<1>3. /\ low \in Nat /\ n \in Nat /\ low + n <= e.FRETOP /\ e.FRETOP \in Nat
      /\ e.FRETOP <= MEMSIZ /\ MEMSIZ \in Nat
      BY <1>1, StringConstants DEF Built, HeapInv, IsHeap
<1>4. /\ d \in Descriptors /\ d.len = n /\ d.at = low /\ end(d) = low + n /\ end(d) \in Nat
      /\ end(d) <= MEMSIZ /\ end(d) <= e.FRETOP
      BY <1>3 DEF Descriptors, end
<1> HIDE DEF d, os1, ms1
<1>5. g.descriptor = e.descriptor /\ inUse(g) \subseteq inUse(e)
      /\ \A v \in Variables : stored(g, v) => stored(e, v)
      BY <1>1, BuiltKeeps DEF Built
<1>6. \A v \in Variables : stored(g, v) => end(d) <= g.descriptor[v].at
      <2>1. \A v \in Variables : e.descriptor[v].at \in Nat
            BY <1>1, StringConstants, DescriptorFacts DEF HeapInv
      <2>2. \A v \in Variables : stored(g, v) => e.FRETOP <= e.descriptor[v].at
            BY <1>1, <1>5 DEF HeapInv, VariablesAbove
      <2>3. QED BY <2>1, <2>2, <1>3, <1>4, <1>5
<1>7. ASSUME ~left
      PROVE  /\ [i \in 1 .. d.len |-> g.memory[d.at + i - 1]] = value
             /\ d.len > 0 => inText(d) \/ g.FRETOP <= d.at
             /\ d.len > 0 /\ ~inText(d) => \A t \in inUse(g) :
                  g.descriptor[t].len > 0 /\ ~inText(g.descriptor[t])
                    => disjoint(d, g.descriptor[t])
      <2>1. value = [i \in 1 .. n |-> value[i]]
            BY LenProperties
      <2>2. [i \in 1 .. d.len |-> g.memory[d.at + i - 1]] = value
            BY <2>1, <1>4, <1>7 DEF Results
      <2>3. n > 0 => g.FRETOP <= low
            BY <1>3, <1>7 DEF Results
      <2>4. ASSUME NEW t \in inUse(g), g.descriptor[t].len > 0, ~inText(g.descriptor[t])
            PROVE  disjoint(d, g.descriptor[t])
            <3>1. t \in inUse(e) /\ TemporariesAbove(e)
                  BY <2>4, <1>1, <1>5, <1>7 DEF ValuesInv
            <3>2. e.FRETOP <= e.descriptor[t].at
                  BY <2>4, <3>1, <1>5 DEF TemporariesAbove
            <3>3. e.descriptor[t].at \in Nat
                  BY <3>1, <1>1, InUseFacts, DescriptorFacts DEF HeapInv, IsHeap
            <3>4. QED BY <3>2, <3>3, <1>3, <1>4, <1>5 DEF disjoint
      <2>5. QED BY <2>2, <2>3, <2>4, <1>4
<1>8. ASSUME ~tooComplex(g)
      PROVE  StringInv(PUTNEW(g, d), Append(os1, newTemporary(g)), Append(ms1, value), as, left)
      <2>1. value \in Seq(Characters) /\ Len(value) = d.len
            BY <1>4
      <2>2. QED BY <2>1, <1>2, <1>4, <1>6, <1>7, <1>8, PutInv
<1>9. QED BY <1>2, <1>8 DEF d, os1, ms1

LEMMA PushKeeps ==
  ASSUME ~spoiled, StringsInv, NEW k, NEW g, NEW d, NEW value, NEW left \in BOOLEAN,
         HeapInv(g), VariablesInv(g, assigned),
         ~tooComplex(g) =>
           StringInv(PUTNEW(g, d), Append(SubSeq(operands, 1, Len(operands) - k), newTemporary(g)),
                     Append(SubSeq(meant, 1, Len(meant) - k), value), assigned, left),
         pushTemporary(k, g, d, value, left)
  PROVE  StringsInv'
<1>1. CASE tooComplex(g)
      <2>1. /\ heap' = [g EXCEPT !.TEMPPT = 0] /\ operands' = << >> /\ meant' = << >>
            /\ forsaken' = FALSE /\ assigned' = assigned /\ spoiled' = spoiled
            BY <1>1 DEF pushTemporary, ERROR, nextStatement
      <2>2. StringInv(heap', operands', meant', assigned', forsaken')
            BY <2>1, EndInv
      <2>3. QED BY <2>1, <2>2 DEF StringsInv
<1>2. CASE ~tooComplex(g)
      <2>1. /\ heap' = PUTNEW(g, d)
            /\ operands' = Append(SubSeq(operands, 1, Len(operands) - k), newTemporary(g))
            /\ meant' = Append(SubSeq(meant, 1, Len(meant) - k), value)
            /\ forsaken' = left /\ assigned' = assigned /\ spoiled' = spoiled
            BY <1>2 DEF pushTemporary, replaceLast
      <2>2. StringInv(heap', operands', meant', assigned', forsaken')
            BY <1>2, <2>1
      <2>3. QED BY <2>1, <2>2 DEF StringsInv
<1>3. QED BY <1>1, <1>2

LEMMA OperationKeeps ==
  ASSUME ~spoiled, StringsInv, NEW k \in Nat, k <= Len(operands), NEW n \in Nat, NEW g,
         NEW value \in Seq(Characters), Len(value) = n,
         hasSpace(heap, n) =>
           Results(g, afterGETSPA(heap, n), GETSPA(heap, n).FRETOP, n, operands,
                   Len(operands) - k, value, forsaken \/ collecting(n)),
         Operation(k, n, g, value)
  PROVE  StringsInv'
<1> DEFINE left == forsaken \/ collecting(n)
           e == afterGETSPA(heap, n)
           low == GETSPA(heap, n).FRETOP
           j == Len(operands) - k
<1>1. StringInv(heap, operands, meant, assigned, forsaken) /\ forsaken \in BOOLEAN
      BY DEF StringsInv
<1>2. HeapInv(heap) /\ VariablesInv(heap, assigned) /\ Len(meant) = Len(operands)
      /\ operands \in Seq(Names)
      BY <1>1 DEF StringInv, ValuesInv, OperandsInv
<1>3. CASE ~hasSpace(heap, n)
      <2>1. /\ heap' = [GARBAG(heap) EXCEPT !.TEMPPT = 0] /\ operands' = << >> /\ meant' = << >>
            /\ forsaken' = FALSE /\ assigned' = assigned /\ spoiled' = spoiled
            BY <1>3 DEF Operation, ERROR, nextStatement
      <2>2. HeapInv(GARBAG(heap)) /\ VariablesInv(GARBAG(heap), assigned)
            <3>1. HeapInv(GARBAG(heap)) /\ SameStrings(heap, GARBAG(heap))
                  BY <1>2, Collected
            <3>2. StringInv(GARBAG(heap), operands, meant, assigned, TRUE)
                  BY <3>1, <1>1, SameInv
            <3>3. QED BY <3>2 DEF StringInv
      <2>3. StringInv(heap', operands', meant', assigned', forsaken')
            BY <2>1, <2>2, EndInv
      <2>4. QED BY <2>1, <2>3 DEF StringsInv
<1>4. CASE hasSpace(heap, n)
      <2>1. pushTemporary(k, g, [len |-> n, at |-> low], value, left)
            BY <1>4 DEF Operation
      <2>2. StringInv(e, operands, meant, assigned, left)
            BY <1>1, SpaceInv DEF collecting
      <2>3. j \in 0 .. Len(operands) /\ Len(meant) - k = j
            BY <1>2, LenProperties
      <2>4. left \in BOOLEAN
            BY <1>1 DEF collecting, fits, leavesTemporary
      <2>5. Results(g, e, low, n, operands, j, value, left)
            BY <1>4
      <2> HIDE DEF e, low, left, j
      <2>6. /\ StringInv(g, SubSeq(operands, 1, j), SubSeq(meant, 1, j), assigned, left)
            /\ ~tooComplex(g) =>
                 StringInv(PUTNEW(g, [len |-> n, at |-> low]),
                           Append(SubSeq(operands, 1, j), newTemporary(g)),
                           Append(SubSeq(meant, 1, j), value), assigned, left)
            BY <2>2, <2>3, <2>5, ResultInv
      <2>7. HeapInv(g) /\ VariablesInv(g, assigned)
            BY <2>6 DEF StringInv
      <2>8. Len(operands) - k = j
            BY DEF j
      <2>9. QED BY <2>1, <2>3, <2>4, <2>6, <2>7, <2>8, PushKeeps
<1>5. QED BY <1>3, <1>4

-----------------------------------------------------------------------------
(* The operations.                                                         *)

LEMMA WholePrefix ==
  ASSUME NEW S, NEW s \in Seq(S)
  PROVE  SubSeq(s, 1, Len(s)) = s /\ Len(s) \in Nat /\ DOMAIN s = 1 .. Len(s)
<1>1. Len(s) \in Nat /\ DOMAIN s = 1 .. Len(s)
      BY LenProperties
<1>2. Len(s) \in 0 .. Len(s)
      BY <1>1
<1>3. /\ SubSeq(s, 1, Len(s)) \in Seq(S) /\ Len(SubSeq(s, 1, Len(s))) = Len(s)
      /\ \A k \in 1 .. Len(s) : SubSeq(s, 1, Len(s))[k] = s[k]
      BY <1>2, Prefix
<1>4. QED BY <1>1, <1>3, SeqEqual

LEMMA OperandsAre ==
  ASSUME ~spoiled, StringsInv
  PROVE  /\ StringInv(heap, operands, meant, assigned, forsaken) /\ forsaken \in BOOLEAN
         /\ HeapInv(heap) /\ IsHeap(heap) /\ OperandsInv(heap, operands)
         /\ VariablesInv(heap, assigned) /\ ValuesInv(heap, operands, meant, forsaken)
         /\ operands \in Seq(Names) /\ meant \in Seq(Seq(Characters)) /\ Len(meant) = Len(operands)
         /\ Len(operands) \in Nat /\ DOMAIN operands = 1 .. Len(operands)
         /\ SubSeq(operands, 1, Len(operands)) = operands /\ SubSeq(meant, 1, Len(meant)) = meant
         /\ \A k \in 1 .. Len(operands) : meant[k] \in Seq(Characters)
<1>1. StringInv(heap, operands, meant, assigned, forsaken) /\ forsaken \in BOOLEAN
      BY DEF StringsInv
<1>2. /\ HeapInv(heap) /\ IsHeap(heap) /\ OperandsInv(heap, operands)
      /\ VariablesInv(heap, assigned) /\ ValuesInv(heap, operands, meant, forsaken)
      BY <1>1 DEF StringInv, HeapInv
<1>3. operands \in Seq(Names) /\ meant \in Seq(Seq(Characters)) /\ Len(meant) = Len(operands)
      BY <1>2 DEF OperandsInv, ValuesInv
<1>4. \A k \in 1 .. Len(operands) : meant[k] \in Seq(Characters)
      BY <1>3, ElementOfSeq
<1>5. QED BY <1>1, <1>2, <1>3, <1>4, WholePrefix

LEMMA LiteralKeeps ==
  ASSUME ~spoiled, StringsInv, NEW d \in Literals, Literal(d)
  PROVE  StringsInv'
<1> DEFINE value == SubSeq(ProgramText, d.at + 1, d.at + d.len)
<1>1. /\ StringInv(heap, operands, meant, assigned, forsaken) /\ forsaken \in BOOLEAN
      /\ HeapInv(heap) /\ IsHeap(heap) /\ VariablesInv(heap, assigned)
      /\ SubSeq(operands, 1, Len(operands)) = operands /\ SubSeq(meant, 1, Len(meant)) = meant
      /\ Len(operands) \in Nat /\ Len(meant) = Len(operands)
      BY OperandsAre
<1>2. d \in Descriptors /\ d.at \in Nat /\ d.len \in Nat /\ end(d) = d.at + d.len /\ inText(d)
      /\ end(d) \in Nat
      BY BasicAssumption DEF Descriptors, end, inText
<1>3. /\ heap.STREND \in Nat /\ Len(ProgramText) \in Nat /\ Len(ProgramText) <= heap.STREND
      /\ MEMSIZ \in Nat /\ Len(ProgramText) <= MEMSIZ /\ end(d) <= Len(ProgramText)
      BY <1>1, <1>2, StringConstants DEF IsHeap, inText
<1>4. \A i \in d.at + 1 .. d.at + d.len : ProgramText[i] \in Characters /\ i \in 1 .. Len(ProgramText)
      <2>1. ProgramText \in Seq(Range(ProgramText))
            BY BasicAssumption
      <2>2. \A i \in 1 .. Len(ProgramText) : ProgramText[i] \in Characters
            BY <2>1, ElementOfSeq DEF Characters
      <2>3. \A i \in d.at + 1 .. d.at + d.len : i \in 1 .. Len(ProgramText)
            BY <1>2, <1>3
      <2>4. QED BY <2>2, <2>3
<1>5. /\ value \in Seq(Characters) /\ Len(value) = d.len
      /\ \A i \in 1 .. d.len : value[i] = ProgramText[d.at + i]
      <2>1. d.at + 1 \in Int /\ d.at + d.len \in Int
            BY <1>2
      <2> DEFINE lo == d.at + 1
                 hi == d.at + d.len
      <2>6. lo \in Int /\ hi \in Int
            BY <2>1
      <2>7. \A i \in lo .. hi : ProgramText[i] \in Characters
            BY <1>4
      <2>8. value = SubSeq(ProgramText, lo, hi)
            OBVIOUS
      <2> HIDE DEF value, lo, hi
      <2>9. /\ value \in Seq(Characters)
            /\ Len(value) = IF lo <= hi THEN hi - lo + 1 ELSE 0
            /\ \A i \in 1 .. hi - lo + 1 : value[i] = ProgramText[lo + i - 1]
            BY <2>6, <2>7, <2>8, SubSeqProperties
      <2>2. lo = d.at + 1 /\ hi = d.at + d.len
            BY DEF lo, hi
      <2>3. Len(value) = d.len
            BY <2>2, <2>9, <1>2
      <2>4. \A i \in 1 .. d.len : value[i] = ProgramText[d.at + i]
            <3>1. TAKE i \in 1 .. d.len
            <3>2. i \in 1 .. hi - lo + 1 /\ lo + i - 1 = d.at + i
                  BY <2>2, <1>2
            <3>3. QED BY <2>9, <3>2
      <2>5. QED BY <2>3, <2>4, <2>9 DEF value
<1> HIDE DEF value
<1>6. [i \in 1 .. d.len |-> heap.memory[d.at + i - 1]] = value
      <2>1. value = [i \in 1 .. d.len |-> value[i]]
            BY <1>5, LenProperties
      <2>2. \A i \in 1 .. d.len : heap.memory[d.at + i - 1] = value[i]
            <3>1. TAKE i \in 1 .. d.len
            <3>2. d.at + i - 1 \in 0 .. Len(ProgramText) - 1 /\ d.at + i - 1 + 1 = d.at + i
                  BY <1>2, <1>3
            <3>3. QED BY <3>2, <1>1, <1>5 DEF IsHeap, IsMemory
      <2>3. QED BY <2>1, <2>2
<1>7. \A v \in Variables : stored(heap, v) => end(d) <= heap.descriptor[v].at
      <2>1. \A v \in Variables : heap.descriptor[v].at \in Nat
            BY <1>1, StringConstants, DescriptorFacts
      <2>2. QED BY <2>1, <1>2, <1>3 DEF stored
<1>8. end(d) <= MEMSIZ
      BY <1>2, <1>3
<1>9. ~tooComplex(heap) => StringInv(PUTNEW(heap, d), Append(operands, newTemporary(heap)),
                                     Append(meant, value), assigned, forsaken)
      <2>1. value \in Seq(Characters)
            BY <1>5
      <2>2. QED BY <2>1, <1>1, <1>2, <1>5, <1>6, <1>7, <1>8, PutInv
<1>10. pushTemporary(0, heap, d, value, forsaken)
      BY DEF Literal, value
<1>11. Len(operands) - 0 = Len(operands) /\ Len(meant) - 0 = Len(meant)
      BY <1>1
<1>12. QED BY <1>1, <1>9, <1>10, <1>11, PushKeeps

(* A variable is one more operand.                                         *)
LEMMA AppendVariable ==
  ASSUME NEW h, NEW os, NEW ms, NEW as, NEW left, StringInv(h, os, ms, as, left),
         NEW v \in Variables
  PROVE  StringInv(h, Append(os, v), Append(ms, as[v]), as, left)
<1> DEFINE os1 == Append(os, v)
           ms1 == Append(ms, as[v])
<1>1. /\ HeapInv(h) /\ OperandsInv(h, os) /\ VariablesInv(h, as) /\ ValuesInv(h, os, ms, left)
      BY DEF StringInv
<1>2. v \in Names /\ v \notin Range(Temporaries)
      BY StringConstants
<1>3. os \in Seq(Names) /\ ms \in Seq(Seq(Characters)) /\ Len(ms) = Len(os)
      /\ as[v] \in Seq(Characters)
      BY <1>1 DEF OperandsInv, ValuesInv, VariablesInv
<1>4. /\ Len(os) \in Nat /\ DOMAIN os = 1 .. Len(os)
      /\ os1 \in Seq(Names) /\ Len(os1) = Len(os) + 1 /\ DOMAIN os1 = 1 .. Len(os) + 1
      /\ os1[Len(os) + 1] = v /\ \A k \in 1 .. Len(os) : os1[k] = os[k]
      <2>1. Len(os) \in Nat /\ DOMAIN os = 1 .. Len(os)
            BY <1>3, LenProperties
      <2>2. /\ os1 \in Seq(Names) /\ Len(os1) = Len(os) + 1
            /\ os1[Len(os) + 1] = v /\ \A k \in 1 .. Len(os) : os1[k] = os[k]
            BY <1>2, <1>3, AppendProperties
      <2>3. DOMAIN os1 = 1 .. Len(os1)
            BY <2>2, LenProperties
      <2>4. QED BY <2>1, <2>2, <2>3
<1>5. /\ ms1 \in Seq(Seq(Characters)) /\ Len(ms1) = Len(os) + 1
      /\ ms1[Len(os) + 1] = as[v] /\ \A k \in 1 .. Len(os) : ms1[k] = ms[k]
      <2> DEFINE val == as[v]
                 all == Append(ms, val)
      <2>1. ms \in Seq(Seq(Characters))
            BY <1>3
      <2>2. val \in Seq(Characters)
            BY <1>3
      <2> HIDE DEF val
      <2>3. /\ all \in Seq(Seq(Characters)) /\ Len(all) = Len(ms) + 1
            /\ all[Len(ms) + 1] = val /\ \A k \in 1 .. Len(ms) : all[k] = ms[k]
            BY <2>1, <2>2, AppendProperties
      <2>4. QED BY <2>3, <1>3 DEF val
<1> HIDE DEF os1, ms1
<1>6. h.TEMPPT \in 0 .. Len(Temporaries)
      BY <1>1 DEF HeapInv, IsHeap
<1>7. OperandsInv(h, os1)
      <2>1. \A k \in DOMAIN os1 : os1[k] \in Variables \cup inUse(h)
            BY <1>1, <1>4 DEF OperandsInv
      <2>2. \A t \in inUse(h) : \E k \in DOMAIN os1 : os1[k] = t
            <3>1. SUFFICES ASSUME NEW t \in inUse(h) PROVE \E k \in DOMAIN os1 : os1[k] = t
                  OBVIOUS
            <3>2. PICK k \in DOMAIN os : os[k] = t
                  BY <1>1 DEF OperandsInv
            <3>3. k \in DOMAIN os1 /\ os1[k] = t
                  BY <3>2, <1>4
            <3>4. QED BY <3>3
      <2>3. ASSUME NEW k \in DOMAIN os1, NEW l \in DOMAIN os1, NEW a \in 1 .. h.TEMPPT,
                   NEW b \in 1 .. h.TEMPPT,
                   k < l, os1[k] = Temporaries[a], os1[l] = Temporaries[b]
            PROVE  a < b
            <3>1. k \in DOMAIN os /\ os1[k] = os[k]
                  BY <2>3, <1>4
            <3>2. b \in 1 .. Len(Temporaries)
                  BY <1>6, StringConstants
            <3>3. l # Len(os) + 1
                  BY <2>3, <3>2, <1>4, StringConstants
            <3>4. l \in DOMAIN os /\ os1[l] = os[l]
                  BY <3>3, <1>4
            <3>5. QED BY <2>3, <3>1, <3>4, <1>1 DEF OperandsInv
      <2>4. QED BY <2>1, <2>2, <2>3, <1>4 DEF OperandsInv
<1>8. \A k \in DOMAIN os1 : Len(ms1[k]) = h.descriptor[os1[k]].len
      <2>1. TAKE k \in DOMAIN os1
      <2>2. CASE k = Len(os) + 1
            BY <2>2, <1>1, <1>4, <1>5 DEF VariablesInv
      <2>3. CASE k \in 1 .. Len(os)
            BY <2>3, <1>1, <1>4, <1>5 DEF ValuesInv
      <2>4. QED BY <2>2, <2>3, <1>4
<1>9. ASSUME ~left
      PROVE  TemporariesAbove(h) /\ \A k \in DOMAIN os1 : stringOf(h, os1[k]) = ms1[k]
      <2>1. TemporariesAbove(h) /\ \A k \in DOMAIN os : stringOf(h, os[k]) = ms[k]
            BY <1>1, <1>9 DEF ValuesInv
      <2>2. ASSUME NEW k \in DOMAIN os1 PROVE stringOf(h, os1[k]) = ms1[k]
            <3>1. CASE k = Len(os) + 1
                  BY <3>1, <1>1, <1>4, <1>5 DEF VariablesInv
            <3>2. CASE k \in 1 .. Len(os)
                  BY <3>2, <2>1, <1>4, <1>5
            <3>3. QED BY <3>1, <3>2, <1>4
      <2>3. QED BY <2>1, <2>2
<1>10. ValuesInv(h, os1, ms1, left)
      BY <1>4, <1>5, <1>8, <1>9 DEF ValuesInv
<1>11. QED BY <1>1, <1>7, <1>10 DEF StringInv, os1, ms1

LEMMA VariableKeeps ==
  ASSUME ~spoiled, StringsInv, NEW v \in Variables, Variable(v)
  PROVE  StringsInv'
<1>1. /\ heap' = heap /\ forsaken' = forsaken /\ assigned' = assigned /\ spoiled' = spoiled
      /\ operands' = Append(SubSeq(operands, 1, Len(operands) - 0), v)
      /\ meant' = Append(SubSeq(meant, 1, Len(meant) - 0), assigned[v])
      BY DEF Variable, replaceLast
<1>2. /\ StringInv(heap, operands, meant, assigned, forsaken) /\ forsaken \in BOOLEAN
      /\ SubSeq(operands, 1, Len(operands)) = operands /\ SubSeq(meant, 1, Len(meant)) = meant
      /\ Len(operands) \in Nat /\ Len(meant) = Len(operands)
      BY OperandsAre
<1>3. operands' = Append(operands, v) /\ meant' = Append(meant, assigned[v])
      BY <1>1, <1>2
<1>4. StringInv(heap', operands', meant', assigned', forsaken')
      BY <1>1, <1>2, <1>3, AppendVariable
<1>5. QED BY <1>1, <1>2, <1>4 DEF StringsInv

(* What remains after a collection.                                        *)
LEMMA GarbageInv ==
  ASSUME NEW h, NEW os, NEW ms, NEW as, NEW f, StringInv(h, os, ms, as, f)
  PROVE  StringInv(GARBAG(h), os, ms, as, f \/ leavesTemporary(h))
<1> DEFINE left == f \/ leavesTemporary(h)
           g == GARBAG(h)
<1>1. HeapInv(h) /\ ValuesInv(h, os, ms, f)
      BY DEF StringInv
<1>2. HeapInv(g) /\ SameStrings(h, g)
      BY <1>1, Collected
<1>3. ASSUME ~left PROVE ~f /\ TemporariesAbove(g)
      <2>1. TemporariesAbove(h) /\ ~leavesTemporary(h)
            BY <1>1, <1>3 DEF ValuesInv
      <2>2. QED BY <1>1, <1>3, <2>1, CollectedTemporaries
<1> HIDE DEF g, left
<1>4. StringInv(g, os, ms, as, left)
      BY <1>2, <1>3, SameInv
<1>5. QED BY <1>4 DEF g, left

(* An array takes the place where it is put, below all strings.            *)
WithArray(h, low, top) ==
  [h EXCEPT !.STREND = top,
            !.memory = [a \in DOMAIN @ |-> IF low <= a /\ a < top THEN arrayText ELSE @[a]]]

LEMMA ArrayInv ==
  ASSUME NEW h, NEW os, NEW ms, NEW as, NEW left, StringInv(h, os, ms, as, left),
         NEW low, low = h.STREND, NEW top, top = low + ArrayBytes, top < h.FRETOP
  PROVE  StringInv(WithArray(h, low, top), os, ms, as, left)
<1> DEFINE g == WithArray(h, low, top)
           mem == [a \in DOMAIN h.memory |-> IF low <= a /\ a < top THEN arrayText ELSE h.memory[a]]
           g1 == [h EXCEPT !.STREND = top]
<1>1. /\ HeapInv(h) /\ IsHeap(h) /\ VariablesApart(h) /\ VariablesAbove(h)
      /\ OperandsInv(h, os) /\ VariablesInv(h, as) /\ ValuesInv(h, os, ms, left)
      BY DEF StringInv, HeapInv
<1>2. /\ IsRecord(g) /\ g.memory = mem /\ g.STREND = top /\ g.FRETOP = h.FRETOP
      /\ g.TEMPPT = h.TEMPPT /\ g.descriptor = h.descriptor
      <2>1. g1 = aHeap(h.memory, top, h.FRETOP, h.TEMPPT, h.descriptor)
            BY <1>1, HeapUpdates DEF IsHeap
      <2>2. g = [g1 EXCEPT !.memory = [a \in DOMAIN g1.memory |->
                               IF low <= a /\ a < top THEN arrayText ELSE g1.memory[a]]]
            BY DEF WithArray
      <2> HIDE DEF g1, g
      <2>3. g1.memory = h.memory /\ IsRecord(g1) /\ g1.STREND = top /\ g1.FRETOP = h.FRETOP
            /\ g1.TEMPPT = h.TEMPPT /\ g1.descriptor = h.descriptor
            BY <2>1, HeapFields
      <2>4. g = [g1 EXCEPT !.memory = mem]
            BY <2>2, <2>3
      <2> HIDE DEF mem
      <2>5. g = aHeap(mem, top, h.FRETOP, h.TEMPPT, h.descriptor)
            <3>1. [g1 EXCEPT !.memory = mem]
                    = aHeap(mem, g1.STREND, g1.FRETOP, g1.TEMPPT, g1.descriptor)
                  BY <2>3, HeapUpdates
            <3>2. QED BY <3>1, <2>3, <2>4
      <2>6. QED BY <2>5, HeapFields
<1> HIDE DEF g1, g
<1>3. /\ MEMSIZ \in Nat /\ Len(ProgramText) \in Nat /\ low \in Nat /\ top \in Nat /\ low < top
      /\ h.FRETOP \in Nat /\ h.FRETOP <= MEMSIZ /\ Len(ProgramText) <= low
      BY <1>1, StringConstants DEF IsHeap
<1>4. /\ mem = [a \in 0 .. MEMSIZ - 1 |-> mem[a]]
      /\ \A a \in 0 .. MEMSIZ - 1 : ~(low <= a /\ a < top) => mem[a] = h.memory[a]
      <2>1. DOMAIN h.memory = 0 .. MEMSIZ - 1
            BY <1>1 DEF IsHeap, IsMemory
      <2>2. QED BY <2>1
<1> HIDE DEF mem
<1>5. inUse(g) = inUse(h)
      BY <1>2 DEF inUse
<1>6. \A v \in Variables : stored(g, v) <=> stored(h, v)
      <2>1. SUFFICES ASSUME NEW v \in Variables PROVE stored(g, v) <=> stored(h, v)
            OBVIOUS
      <2>2. h.descriptor[v].at \in Nat
            BY <1>1, StringConstants, DescriptorFacts
      <2>3. stored(h, v) => h.FRETOP <= h.descriptor[v].at
            BY <1>1 DEF VariablesAbove
      <2>4. stored(h, v) => top <= h.descriptor[v].at
            BY <2>2, <2>3, <1>3
      <2>5. top <= h.descriptor[v].at => h.STREND <= h.descriptor[v].at
            BY <2>2, <1>3
      <2>6. QED BY <2>4, <2>5, <1>2 DEF stored
<1>7. ASSUME NEW k \in Names, h.descriptor[k].len > 0 => end(h.descriptor[k]) <= MEMSIZ
                    /\ (inText(h.descriptor[k]) \/ h.FRETOP <= h.descriptor[k].at)
      PROVE  stringOf(g, k) = stringOf(h, k)
      <2> DEFINE c == h.descriptor[k]
      <2>1. c.at \in Nat /\ c.len \in Nat /\ end(c) = c.at + c.len /\ end(c) \in Nat
            BY <1>1, DescriptorFacts
      <2>2. \A i \in 1 .. c.len : g.memory[c.at + i - 1] = h.memory[c.at + i - 1]
            <3>1. TAKE i \in 1 .. c.len
            <3>2. c.len > 0
                  BY <2>1
            <3>3. c.at + c.len <= MEMSIZ /\ (c.at + c.len <= low \/ top <= c.at)
                  BY <1>3, <1>7, <2>1, <3>2 DEF inText
            <3> HIDE DEF c
            <3>5. c.at + i - 1 \in 0 .. MEMSIZ - 1 /\ ~(low <= c.at + i - 1 /\ c.at + i - 1 < top)
                  BY <3>3, <2>1, <1>3, ByteOutside
            <3>6. QED BY <3>5, <1>2, <1>4
      <2>3. QED BY <2>2, <1>2, SameBytes
<1>8. \A v \in Variables : stringOf(g, v) = stringOf(h, v)
      <2>1. SUFFICES ASSUME NEW v \in Variables PROVE stringOf(g, v) = stringOf(h, v)
            OBVIOUS
      <2>2. v \in Names
            BY StringConstants
      <2>3. end(h.descriptor[v]) \in Nat
            BY <1>1, <2>2, DescriptorFacts
      <2>4. inText(h.descriptor[v]) => end(h.descriptor[v]) <= MEMSIZ
            BY <2>3, <1>3, StringConstants DEF inText
      <2>5. h.descriptor[v].len > 0 => end(h.descriptor[v]) <= MEMSIZ
                    /\ (inText(h.descriptor[v]) \/ h.FRETOP <= h.descriptor[v].at)
            BY <2>4, <1>1 DEF VariablesApart, VariablesAbove
      <2>6. QED BY <2>2, <2>5, <1>7
<1>9. TemporariesAbove(h) => \A t \in inUse(h) : stringOf(g, t) = stringOf(h, t)
      <2>1. SUFFICES ASSUME TemporariesAbove(h), NEW t \in inUse(h) PROVE stringOf(g, t) = stringOf(h, t)
            OBVIOUS
      <2>2. t \in Names
            BY <1>1, InUseFacts DEF IsHeap
      <2>3. end(h.descriptor[t]) <= MEMSIZ
            BY <1>1 DEF VariablesApart
      <2>4. h.descriptor[t].len > 0 => inText(h.descriptor[t]) \/ h.FRETOP <= h.descriptor[t].at
            BY <2>1 DEF TemporariesAbove
      <2>5. QED BY <2>2, <2>3, <2>4, <1>7
<1>10. HeapInv(g)
      <2>1. \A a \in 0 .. Len(ProgramText) - 1 : g.memory[a] = ProgramText[a + 1]
            <3>1. TAKE a \in 0 .. Len(ProgramText) - 1
            <3>2. a \in 0 .. MEMSIZ - 1 /\ ~(low <= a /\ a < top)
                  BY <1>3, StringConstants
            <3>3. QED BY <3>2, <1>1, <1>2, <1>4 DEF IsHeap, IsMemory
      <2>2. IsMemory(g.memory)
            BY <2>1, <1>2, <1>4 DEF IsMemory
      <2>3. Len(ProgramText) <= top /\ top <= h.FRETOP
            BY <1>3
      <2>4. IsHeap(g)
            BY <2>2, <2>3, <1>1, <1>2, <1>3 DEF IsHeap
      <2>5. VariablesApart(g)
            BY <1>1, <1>2, <1>5, <1>6 DEF VariablesApart
      <2>6. VariablesAbove(g)
            BY <1>1, <1>2, <1>6 DEF VariablesAbove
      <2>7. QED BY <2>4, <2>5, <2>6 DEF HeapInv
<1>11. VariablesInv(g, as)
      <2>1. dimensioned(g)
            BY <1>2, <1>3 DEF dimensioned
      <2>2. QED BY <2>1, <1>1, <1>2, <1>8 DEF VariablesInv
<1>12. OperandsInv(g, os)
      BY <1>1, <1>2, <1>5 DEF OperandsInv
<1>13. ValuesInv(g, os, ms, left)
      <2>1. \A k \in DOMAIN os : os[k] \in Variables \cup inUse(h)
            BY <1>1 DEF OperandsInv
      <2>2. ~left => TemporariesAbove(g)
            BY <1>1, <1>2, <1>5 DEF ValuesInv, TemporariesAbove
      <2>3. ASSUME ~left, NEW k \in DOMAIN os PROVE stringOf(g, os[k]) = ms[k]
            <3>1. TemporariesAbove(h) /\ stringOf(h, os[k]) = ms[k]
                  BY <2>3, <1>1 DEF ValuesInv
            <3>2. QED BY <3>1, <2>1, <1>8, <1>9
      <2>4. QED BY <2>2, <2>3, <1>1, <1>2 DEF ValuesInv
<1>14. QED BY <1>10, <1>11, <1>12, <1>13 DEF StringInv, g

LEMMA NewArrayKeeps ==
  ASSUME ~spoiled, StringsInv, NEW v \in Variables, NewArray(v)
  PROVE  StringsInv'
<1> DEFINE low == heap.STREND
           top == low + ArrayBytes
           h == IF top < heap.FRETOP THEN heap ELSE GARBAG(heap)
           left == forsaken \/ (h # heap /\ leavesTemporary(heap))
<1>1. /\ StringInv(heap, operands, meant, assigned, forsaken) /\ forsaken \in BOOLEAN
      /\ SubSeq(operands, 1, Len(operands)) = operands /\ SubSeq(meant, 1, Len(meant)) = meant
      /\ Len(operands) \in Nat /\ Len(meant) = Len(operands) /\ HeapInv(heap)
      /\ VariablesInv(heap, assigned)
      BY OperandsAre
<1>2. StringInv(h, operands, meant, assigned, left)
      <2>1. CASE h = heap
            <3>1. left <=> forsaken
                  BY <2>1
            <3>2. StringInv(heap, operands, meant, assigned, left)
                  BY <3>1, <1>1 DEF StringInv, ValuesInv
            <3>3. QED BY <3>2, <2>1
      <2>2. CASE h # heap
            <3>1. h = GARBAG(heap)
                  BY <2>2
            <3>2. StringInv(GARBAG(heap), operands, meant, assigned, forsaken \/ leavesTemporary(heap))
                  BY <1>1, GarbageInv
            <3>3. left <=> (forsaken \/ leavesTemporary(heap))
                  BY <2>2
            <3>4. StringInv(GARBAG(heap), operands, meant, assigned, left)
                  BY <3>2, <3>3 DEF StringInv, ValuesInv
            <3>5. QED BY <3>1, <3>4
      <2>3. QED BY <2>1, <2>2
<1>3. h.STREND = low
      BY <1>1, Collected DEF SameStrings
<1>4. v \in Elements /\ ~dimensioned(heap) /\ left \in BOOLEAN
      <2>1. (h # heap) \in BOOLEAN /\ leavesTemporary(heap) \in BOOLEAN
            BY DEF leavesTemporary
      <2>2. left \in BOOLEAN
            BY <2>1, <1>1
      <2>3. QED BY <2>2 DEF NewArray
<1>5. assigned[v] = << >>
      <2>1. Len(assigned[v]) = 0 /\ assigned[v] \in Seq(Characters)
            BY <1>1, <1>4 DEF VariablesInv
      <2>2. QED BY <2>1, EmptySeq
<1>6. CASE top >= h.FRETOP
      <2>1. ERROR(h)
            BY <1>6 DEF NewArray
      <2> HIDE DEF h
      <2>2. /\ heap' = [h EXCEPT !.TEMPPT = 0] /\ operands' = << >> /\ meant' = << >>
            /\ forsaken' = FALSE /\ assigned' = assigned /\ spoiled' = spoiled
            BY <2>1 DEF ERROR, nextStatement
      <2>3. HeapInv(h) /\ VariablesInv(h, assigned)
            BY <1>2 DEF StringInv
      <2>4. StringInv(heap', operands', meant', assigned', forsaken')
            BY <2>2, <2>3, EndInv
      <2>5. QED BY <2>2, <2>4 DEF StringsInv
<1>7. CASE ~(top >= h.FRETOP)
      <2> DEFINE g == WithArray(h, low, top)
      <2>1. /\ heap' = g /\ replaceLast(0, v, << >>) /\ (forsaken' <=> left) /\ forsaken' = left
            BY <1>7 DEF NewArray, WithArray
      <2> HIDE DEF h, left
      <2>2. top < h.FRETOP
            <3>1. h.FRETOP \in Nat /\ h.STREND \in Nat
                  BY <1>2 DEF StringInv, HeapInv, IsHeap
            <3>2. low \in Nat /\ top \in Nat
                  BY <3>1, <1>3, StringConstants
            <3>3. QED BY <3>1, <3>2, <1>7
      <2>3. StringInv(g, operands, meant, assigned, left)
            <3>1. low = h.STREND /\ top = low + ArrayBytes
                  BY <1>3
            <3> HIDE DEF low, top
            <3>2. QED BY <3>1, <1>2, <2>2, ArrayInv
      <2>4. /\ assigned' = assigned /\ spoiled' = spoiled
            /\ operands' = Append(SubSeq(operands, 1, Len(operands) - 0), v)
            /\ meant' = Append(SubSeq(meant, 1, Len(meant) - 0), << >>)
            BY <2>1 DEF replaceLast
      <2>5. operands' = Append(operands, v) /\ meant' = Append(meant, assigned[v])
            BY <2>4, <1>1, <1>5
      <2> HIDE DEF g
      <2>6. StringInv(heap', operands', meant', assigned', forsaken')
            BY <2>1, <2>3, <2>4, <2>5, AppendVariable
      <2>7. QED BY <2>1, <2>4, <2>6, <1>4 DEF StringsInv
<1>8. QED BY <1>6, <1>7

-----------------------------------------------------------------------------
(* The operations that put a string of their own.                          *)

LEMMA SameTemporaries ==
  ASSUME NEW h, NEW g, g.TEMPPT = h.TEMPPT, NEW os
  PROVE  inUse(g) = inUse(h) /\ (OperandsInv(h, os) => OperandsInv(g, os))
<1>1. inUse(g) = inUse(h)
      BY DEF inUse
<1>2. QED BY <1>1 DEF OperandsInv

LEMMA Section ==
  ASSUME NEW S, NEW s \in Seq(S), NEW first \in Nat, NEW n \in Nat, first + n <= Len(s)
  PROVE  LET c == SubSeq(s, first + 1, first + n)
         IN  c \in Seq(S) /\ Len(c) = n /\ \A i \in 1 .. n : c[i] = s[first + i]
<1> DEFINE lo == first + 1
           hi == first + n
           c == SubSeq(s, first + 1, first + n)
<1>1. Len(s) \in Nat /\ \A i \in 1 .. Len(s) : s[i] \in S
      BY LenProperties, ElementOfSeq
<1>2. lo \in Int /\ hi \in Int /\ lo = first + 1 /\ hi = first + n
      OBVIOUS
<1>3. \A i \in lo .. hi : s[i] \in S
      <2>1. \A i \in lo .. hi : i \in 1 .. Len(s)
            BY <1>1
      <2>2. QED BY <2>1, <1>1
<1>4. c = SubSeq(s, lo, hi)
      OBVIOUS
<1> HIDE DEF lo, hi, c
<1>5. /\ c \in Seq(S) /\ Len(c) = IF lo <= hi THEN hi - lo + 1 ELSE 0
      /\ \A i \in 1 .. hi - lo + 1 : c[i] = s[lo + i - 1]
      BY <1>2, <1>3, <1>4, SubSeqProperties
<1>6. Len(c) = n
      BY <1>2, <1>5
<1>7. ASSUME NEW i \in 1 .. n PROVE c[i] = s[first + i]
      <2>1. i \in 1 .. hi - lo + 1 /\ lo + i - 1 = first + i
            BY <1>2
      <2>2. QED BY <1>5, <2>1
<1>8. QED BY <1>5, <1>6, <1>7 DEF c

(* MOVSTR1 does not come over the string it moves.                         *)
Copies(e, g, low, n, os, k, s, f, j, to) ==
  /\ Built(g, e, low, n) /\ HeapInv(e) /\ TemporariesAbove(e)
  /\ OperandsInv(e, os) /\ k \in DOMAIN os /\ stringOf(e, os[k]) = s
  /\ f \in Nat /\ j \in Nat /\ f + j <= e.descriptor[os[k]].len
  /\ to \in Nat /\ low <= to /\ to + j <= low + n

LEMMA CopiedString ==
  ASSUME NEW e, NEW g, NEW low, NEW n, NEW os, NEW k, NEW s, NEW f, NEW j, NEW to,
         Copies(e, g, low, n, os, k, s, f, j, to)
  PROVE  \A i \in 1 .. j :
           MOVSTR1(g, e.descriptor[os[k]].at + f, to, j).memory[to + i - 1] = s[f + i]
<1> DEFINE d == e.descriptor[os[k]]
           from == d.at + f
           r == MOVSTR1(g, from, to, j)
<1>0. /\ Built(g, e, low, n) /\ HeapInv(e) /\ TemporariesAbove(e)
      /\ OperandsInv(e, os) /\ k \in DOMAIN os /\ stringOf(e, os[k]) = s
      /\ f \in Nat /\ j \in Nat /\ f + j <= e.descriptor[os[k]].len
      /\ to \in Nat /\ low <= to /\ to + j <= low + n
      BY DEF Copies
<1> USE <1>0
<1>1. /\ d.at \in Nat /\ d.len \in Nat /\ end(d) = d.at + d.len /\ end(d) \in Nat
      /\ d.len > 0 => end(d) <= MEMSIZ
      /\ d.len > 0 => inText(d) \/ e.FRETOP <= d.at
      BY OperandPlace
<1>2. /\ low \in Nat /\ n \in Nat /\ low + n <= e.FRETOP /\ e.FRETOP \in Nat /\ e.FRETOP <= MEMSIZ
      /\ MEMSIZ \in Nat /\ Len(ProgramText) \in Nat /\ Len(ProgramText) <= low
      <2>1. e.STREND \in Nat /\ Len(ProgramText) <= e.STREND /\ e.STREND <= low
            BY DEF Built, HeapInv, IsHeap
      <2>2. QED BY <2>1, StringConstants DEF Built, HeapInv, IsHeap
<1>3. SUFFICES ASSUME NEW i \in 1 .. j PROVE r.memory[to + i - 1] = s[f + i]
      OBVIOUS
<1>4. f + j <= d.len /\ d.len > 0 /\ f + i \in 1 .. d.len
      BY <1>1
<1>5. s = [x \in 1 .. d.len |-> e.memory[d.at + x - 1]]
      BY DEF stringOf
<1> HIDE DEF d
<1>6. from \in Nat /\ (from <= to \/ to + j <= from)
      <2>1. CASE inText(d)
            <3>1. d.at + d.len <= Len(ProgramText)
                  BY <2>1, <1>1 DEF inText
            <3>2. from \in Nat /\ from <= d.at + d.len
                  BY <1>1, <1>4
            <3> HIDE DEF from
            <3>3. from <= to
                  BY <3>1, <3>2, <1>1, <1>2
            <3>4. QED BY <3>2, <3>3
      <2>2. CASE e.FRETOP <= d.at
            <3>1. to + j <= e.FRETOP
                  BY <1>2
            <3>2. from \in Nat /\ d.at <= from
                  BY <1>1
            <3> HIDE DEF from
            <3>3. to + j <= from
                  BY <2>2, <3>1, <3>2, <1>1, <1>2
            <3>4. QED BY <3>2, <3>3
      <2>3. QED BY <2>1, <2>2, <1>1, <1>4
<1>7. r.memory[to + i - 1] = g.memory[from + i - 1]
      <2> HIDE DEF from
      <2>1. from \in Nat
            BY <1>6
      <2>2. MovesTo(e, g, low, n, from, to, j)
            BY <2>1 DEF MovesTo
      <2>3. from <= to \/ to + j <= from =>
              \A x \in 1 .. j : MOVSTR1(g, from, to, j).memory[to + x - 1] = g.memory[from + x - 1]
            BY <2>2, MoveBuilt
      <2>4. QED BY <2>3, <1>6
<1>8. g.memory[from + i - 1] = e.memory[from + i - 1]
      <2>1. d.at + d.len <= MEMSIZ
            BY <1>1, <1>4
      <2>2. d.at + d.len <= low \/ low + n <= d.at
            <3>1. CASE inText(d)
                  <4>1. d.at + d.len <= Len(ProgramText)
                        BY <3>1, <1>1 DEF inText
                  <4>2. QED BY <4>1, <1>1, <1>2
            <3>2. CASE e.FRETOP <= d.at
                  BY <3>2, <1>1, <1>2
            <3>3. QED BY <3>1, <3>2, <1>1, <1>4
      <2>3. low + n \in Nat
            BY <1>2
      <2> DEFINE x == f + i
      <2>4. x \in 1 .. d.len /\ from + i - 1 = d.at + x - 1
            BY <1>1, <1>4
      <2> HIDE DEF x, from
      <2>5. /\ d.at + x - 1 \in 0 .. MEMSIZ - 1
            /\ ~(low <= d.at + x - 1 /\ d.at + x - 1 < low + n)
            BY <1>1, <1>2, <2>1, <2>2, <2>3, <2>4, ByteOutside
      <2>6. QED BY <2>4, <2>5 DEF Built
<1>9. s[f + i] = e.memory[d.at + (f + i) - 1]
      BY <1>4, <1>5
<1>10. d.at + (f + i) - 1 = from + i - 1
      BY <1>1
<1>11. QED BY <1>7, <1>8, <1>9, <1>10

(* An operation begins with the space for its result.                      *)
LEMMA OperationBegins ==
  ASSUME ~spoiled, StringsInv, NEW n \in Nat, hasSpace(heap, n)
  PROVE  LET e == afterGETSPA(heap, n)
             g == GETSPA(heap, n)
             left == forsaken \/ collecting(n)
         IN  /\ HeapInv(e) /\ Built(g, e, g.FRETOP, n) /\ OperandsInv(e, operands)
             /\ OperandsInv(g, operands) /\ inUse(g) = inUse(e) /\ IsRecord(g)
             /\ g.memory = e.memory /\ g.descriptor = e.descriptor /\ g.STREND = e.STREND
             /\ g.TEMPPT = e.TEMPPT /\ g.FRETOP + n = e.FRETOP /\ g.FRETOP \in Nat
             /\ VariablesInv(e, assigned)
             /\ \A k \in DOMAIN operands :
                  /\ e.descriptor[operands[k]].len = heap.descriptor[operands[k]].len
                  /\ e.descriptor[operands[k]].len = Len(meant[k])
             /\ ~left => /\ TemporariesAbove(e)
                         /\ \A k \in DOMAIN operands : stringOf(e, operands[k]) = meant[k]
<1> DEFINE e == afterGETSPA(heap, n)
           g == GETSPA(heap, n)
           left == forsaken \/ collecting(n)
<1>1. /\ StringInv(heap, operands, meant, assigned, forsaken) /\ HeapInv(heap)
      /\ OperandsInv(heap, operands) /\ ValuesInv(heap, operands, meant, forsaken)
      BY OperandsAre
<1>2. StringInv(e, operands, meant, assigned, left)
      BY <1>1, SpaceInv DEF collecting
<1>3. Built(g, e, g.FRETOP, n)
      BY <1>1, SpaceBuilt
<1>4. /\ IsRecord(g) /\ g.memory = e.memory /\ g.STREND = e.STREND
      /\ g.TEMPPT = e.TEMPPT /\ g.descriptor = e.descriptor
      /\ g.FRETOP + n = e.FRETOP /\ g.FRETOP \in Nat
      BY <1>1, SpaceFields
<1> HIDE DEF e, g, left
<1>5. /\ HeapInv(e) /\ OperandsInv(e, operands) /\ VariablesInv(e, assigned)
      /\ ValuesInv(e, operands, meant, left)
      BY <1>2 DEF StringInv
<1>6. OperandsInv(g, operands) /\ inUse(g) = inUse(e)
      BY <1>4, <1>5, SameTemporaries
<1>7. \A k \in DOMAIN operands :
                  /\ e.descriptor[operands[k]].len = heap.descriptor[operands[k]].len
                  /\ e.descriptor[operands[k]].len = Len(meant[k])
      BY <1>1, <1>5 DEF ValuesInv
<1>8. ~left => /\ TemporariesAbove(e)
               /\ \A k \in DOMAIN operands : stringOf(e, operands[k]) = meant[k]
      BY <1>5 DEF ValuesInv
<1>9. QED BY <1>3, <1>4, <1>5, <1>6, <1>7, <1>8 DEF e, g, left

LEMMA ChrKeeps ==
  ASSUME ~spoiled, StringsInv, NEW c \in Codes, CHRSTR(c)
  PROVE  StringsInv'
<1> DEFINE e == afterGETSPA(heap, 1)
           h == GETSPA(heap, 1)
           low == h.FRETOP
           left == forsaken \/ collecting(1)
           g == [h EXCEPT !.memory[low] = c]
<1>1. /\ operands \in Seq(Names) /\ Len(operands) \in Nat
      /\ SubSeq(operands, 1, Len(operands)) = operands
      BY OperandsAre
<1>2. << c >> \in Seq(Characters) /\ Len(<< c >>) = 1 /\ << c >>[1] = c
      BY DEF Characters
<1>3. Operation(0, 1, g, << c >>)
      BY DEF CHRSTR
<1>4. ASSUME hasSpace(heap, 1)
      PROVE  Results(g, e, low, 1, operands, Len(operands) - 0, << c >>, left)
      <2>1. /\ HeapInv(e) /\ Built(h, e, low, 1) /\ OperandsInv(h, operands) /\ IsRecord(h)
            /\ inUse(h) = inUse(e) /\ h.FRETOP + 1 = e.FRETOP /\ h.FRETOP \in Nat
            /\ ~left => TemporariesAbove(e)
            BY <1>4, OperationBegins
      <2> HIDE DEF h, e, left
      <2>2. /\ IsRecord(g) /\ g.memory = [h.memory EXCEPT ![low] = c] /\ g.STREND = h.STREND
            /\ g.FRETOP = h.FRETOP /\ g.TEMPPT = h.TEMPPT /\ g.descriptor = h.descriptor
            <3> DEFINE x == [h.memory EXCEPT ![low] = c]
            <3>1. g = [h EXCEPT !.memory = x]
                  OBVIOUS
            <3> HIDE DEF x, g
            <3>2. g = aHeap(x, h.STREND, h.FRETOP, h.TEMPPT, h.descriptor)
                  BY <3>1, <2>1, HeapUpdates
            <3>3. QED BY <3>2, HeapFields DEF x
      <2> HIDE DEF g
      <2>3. /\ low \in Nat /\ low + 1 = e.FRETOP /\ e.FRETOP \in Nat /\ e.FRETOP <= MEMSIZ
            /\ MEMSIZ \in Nat /\ low \in 0 .. MEMSIZ - 1
            BY <2>1, StringConstants DEF HeapInv, IsHeap
      <2>4. h.memory = [a \in 0 .. MEMSIZ - 1 |-> h.memory[a]]
            BY <2>1 DEF Built
      <2>5. /\ g.memory = [a \in 0 .. MEMSIZ - 1 |-> g.memory[a]] /\ g.memory[low] = c
            /\ \A a \in 0 .. MEMSIZ - 1 : a # low => g.memory[a] = h.memory[a]
            BY <2>2, <2>3, <2>4
      <2>6. \A a \in 0 .. MEMSIZ - 1 : ~(low <= a /\ a < low + 1) => g.memory[a] = e.memory[a]
            <3>1. TAKE a \in 0 .. MEMSIZ - 1
            <3>2. HAVE ~(low <= a /\ a < low + 1)
            <3>3. a # low
                  BY <3>2, <2>3
            <3>4. QED BY <3>2, <3>3, <2>1, <2>5 DEF Built
      <2>7. Built(g, e, low, 1)
            BY <2>1, <2>2, <2>5, <2>6 DEF Built
      <2>8. OperandsInv(g, operands) /\ inUse(g) = inUse(e)
            BY <2>1, <2>2, SameTemporaries
      <2>9. ASSUME ~left, NEW t \in inUse(g), e.descriptor[t].len > 0
            PROVE  inText(e.descriptor[t]) \/ g.FRETOP <= e.descriptor[t].at
            <3>1. inText(e.descriptor[t]) \/ e.FRETOP <= e.descriptor[t].at
                  BY <2>1, <2>8, <2>9 DEF TemporariesAbove
            <3>2. t \in inUse(e) /\ e.TEMPPT \in 0 .. Len(Temporaries) /\ IsHeap(e)
                  BY <2>1, <2>8, <2>9 DEF HeapInv, IsHeap
            <3>3. e.descriptor[t].at \in Nat
                  BY <3>2, InUseFacts, DescriptorFacts
            <3>4. QED BY <3>1, <3>3, <2>2, <2>3
      <2>10. \A i \in 1 .. 1 : g.memory[low + i - 1] = << c >>[i]
            <3>1. TAKE i \in 1 .. 1
            <3>2. i = 1 /\ low + i - 1 = low
                  BY <2>3
            <3>3. QED BY <3>2, <2>5, <1>2
      <2>11. Len(operands) - 0 = Len(operands)
            BY <1>1
      <2>12. g.FRETOP = low
            BY <2>2
      <2>13. OperandsInv(g, SubSeq(operands, 1, Len(operands) - 0))
            BY <1>1, <2>8, <2>11
      <2>14. QED BY <2>7, <2>9, <2>10, <2>12, <2>13 DEF Results
<1> HIDE DEF g
<1>5. 0 \in Nat /\ 0 <= Len(operands)
      BY <1>1
<1>6. QED BY <1>2, <1>3, <1>4, <1>5, OperationKeeps

(* The heap in which the last operand was released, below the space.       *)
LEMMA LastReleased ==
  ASSUME NEW e, NEW g, NEW low, NEW n, Built(g, e, low, n), HeapInv(e),
         NEW os, OperandsInv(g, os), NEW m \in Nat \ {0}, m = Len(os), NEW left,
         ~left => TemporariesAbove(e) /\ g.FRETOP = low
  PROVE  LET r == FRETMP(g, os[m])
         IN  /\ Built(r, e, low, n) /\ OperandsInv(r, SubSeq(os, 1, m - 1)) /\ r.memory = g.memory
             /\ ~left =>
                  /\ \A t \in inUse(r) : e.descriptor[t].len > 0 =>
                       inText(e.descriptor[t]) \/ r.FRETOP <= e.descriptor[t].at
                  /\ n > 0 \/ e.descriptor[os[m]].len = 0 => r.FRETOP = low
<1>1. LET r == FRETMP(g, os[m])
      IN  Built(r, e, low, n) /\ OperandsInv(r, SubSeq(os, 1, m - 1)) /\ r.memory = g.memory
      BY ReleaseBuilt
<1>2. ASSUME ~left
      PROVE  LET r == FRETMP(g, os[m])
             IN  /\ \A t \in inUse(r) : e.descriptor[t].len > 0 =>
                       inText(e.descriptor[t]) \/ r.FRETOP <= e.descriptor[t].at
                 /\ n > 0 \/ e.descriptor[os[m]].len = 0 => r.FRETOP = low
      <2>1. TemporariesAbove(e) /\ g.FRETOP = low
            BY <1>2
      <2>2. QED BY <2>1, ReleaseAbove
<1>3. QED BY <1>1, <1>2

LEMMA SubstringKeeps ==
  ASSUME ~spoiled, StringsInv, NEW first \in Nat, NEW n \in Nat, SUBSTRING(first, n)
  PROVE  StringsInv'
<1> DEFINE m == Len(operands)
           name == operands[m]
           e == afterGETSPA(heap, n)
           h == GETSPA(heap, n)
           low == h.FRETOP
           left == forsaken \/ collecting(n)
           freed == FRETMP(h, name)
           from == h.descriptor[name].at + first
           result == MOVSTR1(freed, from, low, n)
           source == meant[m]
           value == SubSeq(source, first + 1, first + n)
<1>1. /\ operands \in Seq(Names) /\ m \in Nat /\ DOMAIN operands = 1 .. m /\ Len(meant) = m
      /\ ValuesInv(heap, operands, meant, forsaken)
      BY OperandsAre
<1>2. /\ operands # << >> /\ first + n <= heap.descriptor[name].len
      /\ Operation(1, n, result, value)
      <2>1. Last(operands) = name /\ Last(meant) = source
            BY <1>1 DEF Last
      <2>2. QED BY <2>1 DEF SUBSTRING
<1>3. m \in Nat \ {0} /\ m \in DOMAIN operands /\ Len(operands) - 1 = m - 1 /\ m = Len(operands)
      <2>1. m # 0
            BY <1>1, <1>2, EmptySeq
      <2>2. QED BY <2>1, <1>1
<1>4. source \in Seq(Characters) /\ first + n <= Len(source)
      <2>1. source \in Seq(Characters)
            BY <1>3, OperandsAre
      <2>2. Len(source) = heap.descriptor[name].len
            BY <1>1, <1>3 DEF ValuesInv
      <2>3. QED BY <2>1, <2>2, <1>2
<1> HIDE DEF source, name
<1>5. value \in Seq(Characters) /\ Len(value) = n /\ \A i \in 1 .. n : value[i] = source[first + i]
      BY <1>4, Section
<1>6. ASSUME hasSpace(heap, n)
      PROVE  Results(result, e, low, n, operands, Len(operands) - 1, value, left)
      <2>1. /\ HeapInv(e) /\ Built(h, e, low, n) /\ OperandsInv(e, operands)
            /\ OperandsInv(h, operands) /\ h.descriptor = e.descriptor
            /\ \A k \in DOMAIN operands :
                  e.descriptor[operands[k]].len = heap.descriptor[operands[k]].len
            /\ ~left => /\ TemporariesAbove(e)
                        /\ \A k \in DOMAIN operands : stringOf(e, operands[k]) = meant[k]
            BY <1>6, OperationBegins
      <2> HIDE DEF h, e, left, m
      <2>2. /\ Built(freed, e, low, n) /\ OperandsInv(freed, SubSeq(operands, 1, m - 1))
            /\ ~left => /\ \A t \in inUse(freed) : e.descriptor[t].len > 0 =>
                             inText(e.descriptor[t]) \/ freed.FRETOP <= e.descriptor[t].at
                        /\ n > 0 => freed.FRETOP = low
            <3>1. ~left => TemporariesAbove(e) /\ h.FRETOP = low
                  BY <2>1
            <3> HIDE DEF low
            <3>2. LET r == FRETMP(h, operands[m])
                  IN  /\ Built(r, e, low, n) /\ OperandsInv(r, SubSeq(operands, 1, m - 1))
                      /\ ~left =>
                         /\ \A t \in inUse(r) : e.descriptor[t].len > 0 =>
                             inText(e.descriptor[t]) \/ r.FRETOP <= e.descriptor[t].at
                         /\ n > 0 \/ e.descriptor[operands[m]].len = 0 => r.FRETOP = low
                  BY <3>1, <2>1, <1>3, LastReleased
            <3>3. QED BY <3>2 DEF name
      <2>3. from \in Nat /\ from = e.descriptor[name].at + first
            <3>1. e.descriptor[name].at \in Nat
                  BY <2>1, <1>3, OperandPlace DEF name
            <3>2. QED BY <3>1, <2>1
      <2>4. low \in Nat /\ low <= low /\ low + n <= low + n
            BY <2>2 DEF Built
      <2> HIDE DEF from, freed, low
      <2>5. MovesTo(e, freed, low, n, from, low, n)
            BY <2>1, <2>2, <2>3, <2>4 DEF MovesTo
      <2>6. Built(result, e, low, n) /\ result.FRETOP = freed.FRETOP /\ result.TEMPPT = freed.TEMPPT
            BY <2>5, MoveBuilt
      <2>7. ASSUME ~left, NEW i \in 1 .. n PROVE result.memory[low + i - 1] = value[i]
            <3>1. TemporariesAbove(e) /\ stringOf(e, operands[m]) = source
                  BY <2>1, <2>7, <1>3 DEF source
            <3>2. first + n <= e.descriptor[operands[m]].len
                  BY <2>1, <1>2, <1>3 DEF name
            <3>3. \A x \in 1 .. n :
                    MOVSTR1(freed, e.descriptor[operands[m]].at + first, low, n).memory[low + x - 1]
                       = source[first + x]
                  <4>1. Copies(e, freed, low, n, operands, m, source, first, n, low)
                        BY <3>1, <3>2, <2>1, <2>2, <2>4, <1>3 DEF Copies
                  <4>2. QED BY <4>1, CopiedString
            <3>4. result.memory[low + i - 1] = source[first + i]
                  BY <3>3, <2>3 DEF name
            <3>5. QED BY <3>4, <1>5
      <2> HIDE DEF result
      <2>8. inUse(result) = inUse(freed) /\ OperandsInv(result, SubSeq(operands, 1, m - 1))
            BY <2>2, <2>6, SameTemporaries
      <2>9. QED BY <2>2, <2>6, <2>7, <2>8, <1>3 DEF Results
<1>7. 1 \in Nat /\ 1 <= Len(operands)
      BY <1>3
<1> HIDE DEF value, result
<1>8. QED BY <1>2, <1>5, <1>6, <1>7, OperationKeeps

(* The last operand but one, behind the operands that remain then.         *)
LEMMA PrefixTwice ==
  ASSUME NEW S, NEW s \in Seq(S), NEW m \in Nat, m = Len(s), m > 1
  PROVE  LET p == SubSeq(s, 1, m - 1)
         IN  /\ p \in Seq(S) /\ Len(p) = m - 1 /\ DOMAIN p = 1 .. m - 1 /\ p[m - 1] = s[m - 1]
             /\ \A k \in 1 .. m - 1 : p[k] = s[k]
             /\ SubSeq(p, 1, (m - 1) - 1) = SubSeq(s, 1, m - 2)
<1> DEFINE p == SubSeq(s, 1, m - 1)
           q == SubSeq(p, 1, m - 2)
           r == SubSeq(s, 1, m - 2)
<1>1. m - 1 \in 0 .. Len(s) /\ m - 2 \in 0 .. Len(s) /\ m - 1 \in 1 .. m - 1 /\ (m - 1) - 1 = m - 2
      OBVIOUS
<1>2. /\ p \in Seq(S) /\ Len(p) = m - 1 /\ DOMAIN p = 1 .. m - 1
      /\ \A k \in 1 .. m - 1 : p[k] = s[k]
      BY <1>1, Prefix
<1>3. r \in Seq(S) /\ Len(r) = m - 2 /\ \A k \in 1 .. m - 2 : r[k] = s[k]
      BY <1>1, Prefix
<1>4. m - 2 \in 0 .. Len(p)
      BY <1>1, <1>2
<1> HIDE DEF p
<1>5. q \in Seq(S) /\ Len(q) = m - 2 /\ \A k \in 1 .. m - 2 : q[k] = p[k]
      BY <1>2, <1>4, Prefix
<1> HIDE DEF q, r
<1>6. \A k \in 1 .. m - 2 : q[k] = r[k]
      <2>1. \A k \in 1 .. m - 2 : k \in 1 .. m - 1
            BY <1>1
      <2>2. QED BY <2>1, <1>2, <1>3, <1>5
<1>7. q = r
      BY <1>3, <1>5, <1>6, SeqEqual
<1>8. QED BY <1>1, <1>2, <1>7 DEF p, q, r

LEMMA CatKeeps ==
  ASSUME ~spoiled, StringsInv, CAT
  PROVE  StringsInv'
<1> DEFINE m == Len(operands)
           one == operands[m - 1]
           two == operands[m]
           l1 == heap.descriptor[one].len
           l2 == heap.descriptor[two].len
           n == l1 + l2
           e == afterGETSPA(heap, n)
           h == GETSPA(heap, n)
           low == h.FRETOP
           d1 == h.descriptor[one]
           d2 == h.descriptor[two]
           left == forsaken \/ collecting(n)
           g1 == MOVSTR1(h, d1.at, low, d1.len)
           g2 == FRETMP(g1, two)
           g3 == MOVSTR1(g2, d2.at, low + d1.len, d2.len)
           g4 == FRETMP(g3, one)
           s1 == meant[m - 1]
           s2 == meant[m]
           value == s1 \o s2
<1>1. /\ operands \in Seq(Names) /\ m \in Nat /\ DOMAIN operands = 1 .. m /\ Len(meant) = m
      /\ ValuesInv(heap, operands, meant, forsaken) /\ HeapInv(heap) /\ VariablesInv(heap, assigned)
      /\ \A k \in 1 .. m : meant[k] \in Seq(Characters)
      BY OperandsAre
<1>2. m > 1 /\ IF n > MaxLength THEN ERROR(heap) ELSE Operation(2, n, g4, value)
      BY DEF CAT
<1>3. /\ m \in Nat \ {0} /\ m \in DOMAIN operands /\ m - 1 \in DOMAIN operands
      /\ m - 1 \in Nat \ {0} /\ Len(operands) - 2 = m - 2 /\ m = Len(operands)
      <2>1. m \in Nat /\ DOMAIN operands = 1 .. m
            BY <1>1
      <2>2. m > 1
            BY <1>2
      <2>3. m = Len(operands)
            OBVIOUS
      <2> HIDE DEF m
      <2>4. QED BY <2>1, <2>2, <2>3
<1>4. /\ s1 \in Seq(Characters) /\ s2 \in Seq(Characters) /\ Len(s1) = l1 /\ Len(s2) = l2
      /\ l1 \in Nat /\ l2 \in Nat
      <2>1. s1 \in Seq(Characters) /\ s2 \in Seq(Characters)
            BY <1>1, <1>3
      <2>2. Len(s1) = l1 /\ Len(s2) = l2
            BY <1>1, <1>3 DEF ValuesInv
      <2> HIDE DEF s1, s2
      <2>3. QED BY <2>1, <2>2, LenProperties
<1>5. n \in Nat
      BY <1>4
<1> HIDE DEF s1, s2, l1, l2
<1>6. /\ value \in Seq(Characters) /\ Len(value) = n
      /\ \A i \in 1 .. l1 : value[i] = s1[i]
      /\ \A i \in 1 .. l2 : value[l1 + i] = s2[i]
      <2>1. /\ value \in Seq(Characters) /\ Len(value) = Len(s1) + Len(s2)
            /\ \A i \in 1 .. Len(s1) + Len(s2) :
                 value[i] = IF i <= Len(s1) THEN s1[i] ELSE s2[i - Len(s1)]
            BY <1>4, ConcatProperties
      <2> HIDE DEF value
      <2>2. \A i \in 1 .. l1 : i \in 1 .. l1 + l2 /\ i <= l1
            BY <1>4
      <2>3. \A i \in 1 .. l2 : l1 + i \in 1 .. l1 + l2 /\ ~(l1 + i <= l1) /\ (l1 + i) - l1 = i
            BY <1>4
      <2>4. \A i \in 1 .. l1 : value[i] = s1[i]
            BY <2>1, <2>2, <1>4
      <2>5. \A i \in 1 .. l2 : value[l1 + i] = s2[i]
            <3>1. TAKE i \in 1 .. l2
            <3>2. value[l1 + i] = s2[(l1 + i) - l1]
                  BY <2>1, <2>3, <1>4
            <3>3. QED BY <3>2, <2>3
      <2>6. QED BY <2>1, <2>4, <2>5, <1>4
<1> HIDE DEF value, n
<1>7. n = l1 + l2
      BY DEF n
<1>8. ASSUME hasSpace(heap, n)
      PROVE  Results(g4, e, low, n, operands, Len(operands) - 2, value, left)
      <2> DEFINE os1 == SubSeq(operands, 1, m - 1)
      <2>1. /\ HeapInv(e) /\ Built(h, e, low, n) /\ OperandsInv(e, operands)
            /\ OperandsInv(h, operands) /\ h.descriptor = e.descriptor
            /\ h.memory = e.memory
            /\ \A k \in DOMAIN operands :
                  e.descriptor[operands[k]].len = heap.descriptor[operands[k]].len
            /\ ~left => /\ TemporariesAbove(e)
                        /\ \A k \in DOMAIN operands : stringOf(e, operands[k]) = meant[k]
            BY <1>5, <1>8, OperationBegins
      <2>2. d1.len = l1 /\ d2.len = l2 /\ d1 = e.descriptor[one] /\ d2 = e.descriptor[two]
            BY <2>1, <1>3 DEF l1, l2
      <2>3. d1.at \in Nat /\ d2.at \in Nat
            <3>1. e.descriptor[one].at \in Nat /\ e.descriptor[two].at \in Nat
                  BY <2>1, <1>3, OperandPlace
            <3>2. QED BY <3>1, <2>2
      <2>4. /\ low \in Nat /\ low + l1 \in Nat /\ low <= low /\ low + l1 <= low + n
            /\ low <= low + l1 /\ (low + l1) + l2 = low + n
            <3>1. low \in Nat
                  BY <2>1 DEF Built
            <3> HIDE DEF low
            <3>2. QED BY <3>1, <1>4, <1>7
      <2>5. os1 \in Seq(Names) /\ Len(os1) = m - 1 /\ os1[m - 1] = one
            /\ SubSeq(os1, 1, (m - 1) - 1) = SubSeq(operands, 1, m - 2)
            BY <1>1, <1>2, PrefixTwice
      <2>6. \A k \in DOMAIN operands : (~left => stringOf(e, operands[k]) = meant[k])
            BY <2>1
      <2>7. ~left => /\ TemporariesAbove(e) /\ stringOf(e, one) = s1 /\ stringOf(e, two) = s2
            BY <2>1, <1>3 DEF s1, s2
      <2> DEFINE a1 == d1.at
                 a2 == d2.at
                 mid == low + l1
      <2>8. g1 = MOVSTR1(h, a1, low, l1) /\ g3 = MOVSTR1(g2, a2, mid, l2)
            BY <2>2
      <2>9. a1 = e.descriptor[one].at /\ a2 = e.descriptor[two].at /\ a1 \in Nat /\ a2 \in Nat
            /\ l1 = e.descriptor[one].len /\ l2 = e.descriptor[two].len
            BY <2>2, <2>3
      <2>10. h.FRETOP = low /\ one = operands[m - 1] /\ two = operands[m]
            /\ g2 = FRETMP(g1, two) /\ g4 = FRETMP(g3, one) /\ mid = low + l1
            OBVIOUS
      <2> HIDE DEF g1, g2, g3, g4, h, e, low, left, m, os1, a1, a2, one, two
      <2>11. /\ Built(g1, e, low, n) /\ g1.FRETOP = low /\ g1.TEMPPT = h.TEMPPT
             /\ OperandsInv(g1, operands)
             <3>1. MovesTo(e, h, low, n, a1, low, l1)
                   BY <2>1, <2>4, <2>9, <1>4 DEF MovesTo
             <3>2. Built(g1, e, low, n) /\ g1.FRETOP = h.FRETOP /\ g1.TEMPPT = h.TEMPPT
                   BY <3>1, <2>8, MoveBuilt
             <3>3. QED BY <3>2, <2>1, <2>10, SameTemporaries
      <2>12. /\ Built(g2, e, low, n) /\ OperandsInv(g2, os1) /\ g2.memory = g1.memory
             /\ ~left => g2.FRETOP = low
             <3>1. LET r == FRETMP(g1, operands[m])
                   IN  /\ Built(r, e, low, n) /\ OperandsInv(r, SubSeq(operands, 1, m - 1))
                       /\ r.memory = g1.memory
                       /\ ~left =>
                          /\ \A t \in inUse(r) : e.descriptor[t].len > 0 =>
                              inText(e.descriptor[t]) \/ r.FRETOP <= e.descriptor[t].at
                          /\ n > 0 \/ e.descriptor[operands[m]].len = 0 => r.FRETOP = low
                   BY <2>1, <2>7, <2>11, <1>3, LastReleased
             <3>2. n > 0 \/ l2 = 0
                   BY <1>4, <1>7
             <3>3. e.descriptor[operands[m]].len = l2 /\ g2 = FRETMP(g1, operands[m])
                   BY <2>9, <2>10
             <3>4. QED BY <3>1, <3>2, <3>3 DEF os1
      <2>13. /\ Built(g3, e, low, n) /\ g3.FRETOP = g2.FRETOP /\ OperandsInv(g3, os1)
             /\ \A a \in 0 .. MEMSIZ - 1 : ~(mid <= a /\ a < mid + l2) => g3.memory[a] = g2.memory[a]
             <3>1. MovesTo(e, g2, low, n, a2, mid, l2)
                   BY <2>1, <2>4, <2>9, <2>12, <1>4 DEF MovesTo
             <3> HIDE DEF mid
             <3>2. /\ Built(g3, e, low, n) /\ g3.FRETOP = g2.FRETOP /\ g3.TEMPPT = g2.TEMPPT
                   /\ \A a \in 0 .. MEMSIZ - 1 : ~(mid <= a /\ a < mid + l2)
                                                   => g3.memory[a] = g2.memory[a]
                   BY <3>1, <2>8, MoveBuilt
             <3>3. QED BY <3>2, <2>12, SameTemporaries
      <2>14. /\ Built(g4, e, low, n) /\ OperandsInv(g4, SubSeq(operands, 1, m - 2))
             /\ g4.memory = g3.memory
             /\ ~left => /\ \A t \in inUse(g4) : e.descriptor[t].len > 0 =>
                              inText(e.descriptor[t]) \/ g4.FRETOP <= e.descriptor[t].at
                         /\ g4.FRETOP = low
             <3> DEFINE k == m - 1
             <3>1. k \in Nat \ {0} /\ k = Len(os1)
                   BY <1>3, <2>5
             <3>2. SubSeq(os1, 1, k - 1) = SubSeq(operands, 1, m - 2) /\ os1[k] = one
                   BY <2>5
             <3> HIDE DEF k
             <3>3. LET r == FRETMP(g3, os1[k])
                   IN  /\ Built(r, e, low, n) /\ OperandsInv(r, SubSeq(os1, 1, k - 1))
                       /\ r.memory = g3.memory
                       /\ ~left =>
                          /\ \A t \in inUse(r) : e.descriptor[t].len > 0 =>
                              inText(e.descriptor[t]) \/ r.FRETOP <= e.descriptor[t].at
                          /\ n > 0 \/ e.descriptor[os1[k]].len = 0 => r.FRETOP = low
                   BY <2>1, <2>7, <2>12, <2>13, <3>1, LastReleased
             <3>4. n > 0 \/ l1 = 0
                   BY <1>4, <1>7
             <3>5. e.descriptor[os1[k]].len = l1 /\ g4 = FRETMP(g3, os1[k])
                   BY <2>9, <2>10, <3>2
             <3>6. QED BY <3>2, <3>3, <3>4, <3>5
      <2>15. ASSUME ~left, NEW i \in 1 .. n PROVE g4.memory[low + i - 1] = value[i]
             <3>1. CASE i \in 1 .. l1
                   <4>1. Copies(e, h, low, n, operands, m - 1, s1, 0, l1, low)
                         <5>1. 0 \in Nat /\ 0 + l1 <= e.descriptor[operands[m - 1]].len
                               BY <2>9, <2>10, <1>4
                         <5>2. stringOf(e, operands[m - 1]) = s1
                               BY <2>7, <2>10, <2>15
                         <5>3. low + l1 <= low + n
                               BY <2>4
                         <5>4. QED BY <5>1, <5>2, <5>3, <2>1, <2>4, <2>7, <2>15, <1>3, <1>4 DEF Copies
                   <4>2. \A x \in 1 .. l1 :
                           MOVSTR1(h, e.descriptor[operands[m - 1]].at + 0, low, l1).memory[low + x - 1]
                             = s1[0 + x]
                         BY <4>1, CopiedString
                   <4>3. e.descriptor[operands[m - 1]].at + 0 = a1 /\ 0 + i = i
                         BY <2>9, <2>10, <3>1
                   <4>4. g1.memory[low + i - 1] = s1[i]
                         BY <4>2, <4>3, <3>1, <2>8
                   <4>5. low + i - 1 \in 0 .. MEMSIZ - 1 /\ ~(mid <= low + i - 1 /\ low + i - 1 < mid + l2)
                         <5>1. low + n <= MEMSIZ /\ MEMSIZ \in Nat
                               <6>1. low + n <= e.FRETOP /\ e.FRETOP <= MEMSIZ /\ e.FRETOP \in Nat
                                     BY <2>1 DEF Built, HeapInv, IsHeap
                               <6>2. QED BY <6>1, <2>4, <1>5, StringConstants
                         <5>2. QED BY <5>1, <2>4, <3>1, <1>4, <1>5
                   <4>6. g3.memory[low + i - 1] = g2.memory[low + i - 1]
                         BY <4>5, <2>13
                   <4>7. QED BY <4>4, <4>6, <3>1, <2>12, <2>14, <1>6
             <3>2. CASE i \notin 1 .. l1
                   <4> DEFINE x == i - l1
                   <4>1. x \in 1 .. l2 /\ l1 + x = i /\ low + i - 1 = mid + x - 1
                         BY <3>2, <1>4, <1>5, <1>7, <2>4
                   <4> HIDE DEF x
                   <4>2. Copies(e, g2, low, n, operands, m, s2, 0, l2, mid)
                         <5>1. 0 \in Nat /\ 0 + l2 <= e.descriptor[operands[m]].len
                               BY <2>9, <2>10, <1>4
                         <5>2. stringOf(e, operands[m]) = s2
                               BY <2>7, <2>10, <2>15
                         <5>3. mid \in Nat /\ low <= mid /\ mid + l2 <= low + n
                               BY <2>4, <1>5
                         <5>4. QED BY <5>1, <5>2, <5>3, <2>1, <2>7, <2>12, <2>15, <1>3, <1>4 DEF Copies
                   <4> HIDE DEF mid
                   <4>3. \A y \in 1 .. l2 :
                           MOVSTR1(g2, e.descriptor[operands[m]].at + 0, mid, l2).memory[mid + y - 1]
                             = s2[0 + y]
                         BY <4>2, CopiedString
                   <4>4. e.descriptor[operands[m]].at + 0 = a2 /\ 0 + x = x
                         BY <2>9, <2>10, <4>1
                   <4>5. g3.memory[mid + x - 1] = s2[x]
                         BY <4>3, <4>4, <4>1, <2>8
                   <4>6. value[i] = s2[x]
                         BY <4>1, <1>6
                   <4>7. QED BY <4>1, <4>5, <4>6, <2>14
             <3>3. QED BY <3>1, <3>2
      <2>16. OperandsInv(g4, SubSeq(operands, 1, Len(operands) - 2))
             BY <2>14, <1>3
      <2>17. QED BY <2>14, <2>15, <2>16 DEF Results
<1> HIDE DEF g4, g3, g2, g1
<1>9. CASE n > MaxLength
      <2>1. /\ heap' = [heap EXCEPT !.TEMPPT = 0] /\ operands' = << >> /\ meant' = << >>
            /\ forsaken' = FALSE /\ assigned' = assigned /\ spoiled' = spoiled
            BY <1>2, <1>9 DEF ERROR, nextStatement
      <2>2. StringInv(heap', operands', meant', assigned', forsaken')
            BY <2>1, <1>1, EndInv
      <2>3. QED BY <2>1, <2>2 DEF StringsInv
<1>10. CASE ~(n > MaxLength)
      <2>1. Operation(2, n, g4, value)
            BY <1>2, <1>10
      <2>2. 2 \in Nat /\ 2 <= Len(operands)
            BY <1>1, <1>2
      <2>3. QED BY <2>1, <2>2, <1>5, <1>6, <1>8, OperationKeeps
<1>11. QED BY <1>9, <1>10

-----------------------------------------------------------------------------
(* The end of an expression: an assignment, or another use of the value.   *)

LEMMA NoOperands ==
  ASSUME NEW g, g.TEMPPT \in Nat, NEW os, OperandsInv(g, os), Len(os) = 0
  PROVE  g.TEMPPT = 0
<1>1. DOMAIN os = 1 .. 0
      BY LenProperties DEF OperandsInv
<1>2. SUFFICES ASSUME g.TEMPPT # 0 PROVE FALSE
      OBVIOUS
<1>3. 1 \in 1 .. g.TEMPPT
      BY <1>2
<1>4. Temporaries[1] \in inUse(g)
      BY <1>3 DEF inUse
<1>5. PICK k \in DOMAIN os : os[k] = Temporaries[1]
      BY <1>4 DEF OperandsInv
<1>6. QED BY <1>1, <1>5

(* The only value is released: then no temporary is in use.                *)
LEMMA OneOperand ==
  ASSUME NEW h, NEW os, OperandsInv(h, os), h.TEMPPT \in 0 .. Len(Temporaries), Len(os) = 1,
         NEW g, g.TEMPPT = IF isLastTemporary(h, os[1]) THEN h.TEMPPT - 1 ELSE h.TEMPPT
  PROVE  /\ g.TEMPPT = 0 /\ OperandsInv(g, SubSeq(os, 1, 0))
         /\ isLastTemporary(h, os[1]) <=> os[1] \in inUse(h)
<1> DEFINE m == 1
           p == SubSeq(os, 1, m - 1)
<1>1. m \in Nat \ {0} /\ m = Len(os) /\ os[m] = os[1] /\ SubSeq(os, 1, 0) = p
      OBVIOUS
<1>2. g.TEMPPT = IF isLastTemporary(h, os[m]) THEN h.TEMPPT - 1 ELSE h.TEMPPT
      OBVIOUS
<1>3. Len(p) = 0
      <2>1. 0 \in 0 .. Len(os) /\ os \in Seq(Names)
            BY DEF OperandsInv
      <2>2. Len(SubSeq(os, 1, 0)) = 0
            BY <2>1, Prefix
      <2>3. QED BY <2>2, <1>1
<1> HIDE DEF m
<1>4. /\ OperandsInv(g, p) /\ g.TEMPPT \in 0 .. h.TEMPPT
      /\ isLastTemporary(h, os[m]) <=> os[m] \in inUse(h)
      BY <1>1, <1>2, DropLast
<1> HIDE DEF p
<1>5. g.TEMPPT \in Nat
      BY <1>4
<1>6. g.TEMPPT = 0
      BY <1>3, <1>4, <1>5, NoOperands
<1>7. QED BY <1>1, <1>4, <1>6

(* A variable v has been given the string d.                               *)
Given(h, g, v, d) ==
  /\ IsRecord(g) /\ g.memory = h.memory /\ g.STREND = h.STREND /\ g.FRETOP = h.FRETOP
  /\ g.TEMPPT = 0 /\ g.descriptor = [h.descriptor EXCEPT ![v] = d]

(* It may be given one that lies apart from those of the other variables.  *)
MayHave(h, v, d, value) ==
  /\ d \in Descriptors /\ value \in Seq(Characters) /\ Len(value) = d.len
  /\ [i \in 1 .. d.len |-> h.memory[d.at + i - 1]] = value
  /\ d.len > 0 => \/ inText(d)
                  \/ /\ h.FRETOP <= d.at /\ end(d) <= MEMSIZ
                     /\ \A w \in Variables : w # v /\ stored(h, w) => disjoint(d, h.descriptor[w])

LEMMA GivenInv ==
  ASSUME NEW h, NEW as, HeapInv(h), VariablesInv(h, as), NEW v \in Variables,
         v \in Scalars \/ dimensioned(h), NEW d, NEW value, MayHave(h, v, d, value),
         NEW g, Given(h, g, v, d)
  PROVE  StringInv(g, << >>, << >>, [as EXCEPT ![v] = value], FALSE)
<1> DEFINE as1 == [as EXCEPT ![v] = value]
<1>1. /\ IsHeap(h) /\ VariablesApart(h) /\ VariablesAbove(h)
      /\ \A w \in Variables : w \in Names
      BY StringConstants DEF HeapInv
<1>2. /\ IsRecord(g) /\ g.memory = h.memory /\ g.STREND = h.STREND /\ g.FRETOP = h.FRETOP
      /\ g.TEMPPT = 0 /\ inUse(g) = {} /\ v \in Names
      /\ g.descriptor \in [Names -> Descriptors] /\ g.descriptor[v] = d
      /\ \A w \in Names : w # v => g.descriptor[w] = h.descriptor[w]
      <2>1. g.TEMPPT = 0
            BY DEF Given
      <2>2. inUse(g) = {}
            BY <2>1 DEF inUse
      <2>3. h.descriptor \in [Names -> Descriptors] /\ d \in Descriptors /\ v \in Names
            BY <1>1 DEF IsHeap, MayHave
      <2>4. g.descriptor = [h.descriptor EXCEPT ![v] = d]
            BY DEF Given
      <2>5. QED BY <2>1, <2>2, <2>3, <2>4 DEF Given
<1>3. /\ MEMSIZ \in Nat /\ Len(ProgramText) \in Nat /\ h.STREND \in Nat /\ h.FRETOP \in Nat
      /\ Len(ProgramText) <= h.STREND /\ h.STREND <= h.FRETOP
      BY <1>1, StringConstants DEF IsHeap
<1>4. d.at \in Nat /\ d.len \in Nat /\ end(d) = d.at + d.len /\ end(d) \in Nat
      BY DEF MayHave, Descriptors, end
<1>5. ASSUME d.len > 0
      PROVE  \/ inText(d) /\ ~stored(g, v)
             \/ /\ stored(g, v) /\ end(d) <= MEMSIZ /\ h.FRETOP <= d.at
                /\ \A w \in Variables : w # v /\ stored(h, w) => disjoint(d, h.descriptor[w])
      <2>1. CASE inText(d)
            <3>1. ~(h.STREND <= d.at)
                  BY <2>1, <1>3, <1>4, <1>5 DEF inText
            <3>2. QED BY <2>1, <3>1, <1>2 DEF stored
      <2>2. CASE ~inText(d)
            <3>1. /\ h.FRETOP <= d.at /\ end(d) <= MEMSIZ
                  /\ \A w \in Variables : w # v /\ stored(h, w) => disjoint(d, h.descriptor[w])
                  BY <2>2, <1>5 DEF MayHave
            <3>2. h.STREND <= d.at
                  BY <3>1, <1>3, <1>4
            <3>3. QED BY <3>1, <3>2, <1>2, <1>5 DEF stored
      <2>3. QED BY <2>1, <2>2
<1>6. \A w \in Variables : w # v => (stored(g, w) <=> stored(h, w))
      BY <1>1, <1>2 DEF stored
<1>7. IsHeap(g)
      BY <1>1, <1>2, StringConstants DEF IsHeap
<1>8. \A w \in Variables : g.descriptor[w].len > 0 =>
       \/ inText(g.descriptor[w])
       \/ stored(g, w) /\ end(g.descriptor[w]) <= MEMSIZ
      <2>1. SUFFICES ASSUME NEW w \in Variables, g.descriptor[w].len > 0
                     PROVE  \/ inText(g.descriptor[w])
                            \/ stored(g, w) /\ end(g.descriptor[w]) <= MEMSIZ
            OBVIOUS
      <2>2. CASE w = v
            BY <2>1, <2>2, <1>2, <1>5
      <2>3. CASE w # v
            BY <2>1, <2>3, <1>1, <1>2, <1>6 DEF VariablesApart
      <2>4. QED BY <2>2, <2>3
<1>9. \A w, x \in Variables :
        stored(g, w) /\ stored(g, x) /\ w # x => disjoint(g.descriptor[w], g.descriptor[x])
      <2>1. ASSUME NEW w \in Variables, stored(g, v), stored(g, w), w # v
            PROVE  disjoint(d, g.descriptor[w]) /\ disjoint(g.descriptor[w], d)
            <3>1. d.len > 0
                  BY <2>1, <1>2 DEF stored
            <3>2. disjoint(d, h.descriptor[w])
                  BY <2>1, <3>1, <1>5, <1>6
            <3>3. QED BY <2>1, <3>2, <1>1, <1>2 DEF disjoint
      <2>2. SUFFICES ASSUME NEW w \in Variables, NEW x \in Variables,
                            stored(g, w), stored(g, x), w # x
                     PROVE  disjoint(g.descriptor[w], g.descriptor[x])
            OBVIOUS
      <2>3. CASE w = v
            BY <2>1, <2>2, <2>3, <1>2
      <2>4. CASE x = v
            BY <2>1, <2>2, <2>4, <1>2
      <2>5. CASE w # v /\ x # v
            BY <2>2, <2>5, <1>1, <1>2, <1>6 DEF VariablesApart
      <2>6. QED BY <2>3, <2>4, <2>5
<1>10. VariablesApart(g)
      BY <1>2, <1>8, <1>9 DEF VariablesApart
<1>11. VariablesAbove(g)
      <2>1. SUFFICES ASSUME NEW w \in Variables, stored(g, w)
                     PROVE  g.FRETOP <= g.descriptor[w].at
            BY DEF VariablesAbove
      <2>2. CASE w = v
            <3>1. d.len > 0
                  BY <2>1, <2>2, <1>2 DEF stored
            <3>2. QED BY <2>1, <2>2, <3>1, <1>2, <1>5
      <2>3. CASE w # v
            BY <2>1, <2>3, <1>1, <1>2, <1>6 DEF VariablesAbove
      <2>4. QED BY <2>2, <2>3
<1>12. VariablesInv(g, as1)
      <2>1. as \in [Variables -> Seq(Characters)] /\ value \in Seq(Characters)
            BY DEF VariablesInv, MayHave
      <2>2. /\ as1 \in [Variables -> Seq(Characters)] /\ as1[v] = value
            /\ \A w \in Variables : w # v => as1[w] = as[w]
            BY <2>1
      <2> HIDE DEF as1
      <2>3. stringOf(g, v) = value /\ Len(value) = g.descriptor[v].len
            BY <1>2 DEF MayHave, stringOf
      <2>4. \A w \in Variables : w # v => /\ stringOf(g, w) = as[w]
                                          /\ Len(as[w]) = g.descriptor[w].len
            BY <1>1, <1>2 DEF VariablesInv, stringOf
      <2>5. ASSUME ~dimensioned(g), NEW w \in Elements PROVE g.descriptor[w].len = 0
            <3>1. ~dimensioned(h)
                  BY <2>5, <1>2 DEF dimensioned
            <3>2. w # v /\ w \in Variables
                  BY <3>1, BasicAssumption DEF Variables
            <3>3. QED BY <3>1, <3>2, <1>1, <1>2 DEF VariablesInv
      <2>6. \A w \in Variables : stringOf(g, w) = as1[w] /\ Len(as1[w]) = g.descriptor[w].len
            BY <2>2, <2>3, <2>4
      <2>7. QED BY <2>2, <2>5, <2>6 DEF VariablesInv
<1>13. HeapInv(g)
      BY <1>7, <1>10, <1>11 DEF HeapInv
<1> HIDE DEF as1
<1>14. StringInv(g, << >>, << >>, as1, FALSE)
      BY <1>2, <1>12, <1>13, NoneInUse
<1>15. QED BY <1>14 DEF as1

LEMMA FreedFields ==
  ASSUME NEW h, IsRecord(h), NEW k
  PROVE  LET g == FRETMS(h, k)
         IN  /\ IsRecord(g) /\ g.memory = h.memory /\ g.STREND = h.STREND /\ g.FRETOP = h.FRETOP
             /\ g.descriptor = h.descriptor
             /\ g.TEMPPT = IF isLastTemporary(h, k) THEN h.TEMPPT - 1 ELSE h.TEMPPT
<1> DEFINE g == FRETMS(h, k)
<1>1. CASE isLastTemporary(h, k)
      <2>1. g = [h EXCEPT !.TEMPPT = h.TEMPPT - 1]
            BY <1>1 DEF FRETMS
      <2> HIDE DEF g
      <2>2. g = aHeap(h.memory, h.STREND, h.FRETOP, h.TEMPPT - 1, h.descriptor)
            BY <2>1, HeapUpdates
      <2> DEFINE P == h.TEMPPT - 1
      <2> HIDE DEF P
      <2>3. g = aHeap(h.memory, h.STREND, h.FRETOP, P, h.descriptor)
            BY <2>2 DEF P
      <2>4. /\ IsRecord(g) /\ g.memory = h.memory /\ g.STREND = h.STREND /\ g.FRETOP = h.FRETOP
            /\ g.descriptor = h.descriptor /\ g.TEMPPT = P
            BY <2>3, HeapFields
      <2>5. QED BY <1>1, <2>4 DEF g, P
<1>2. CASE ~isLastTemporary(h, k)
      BY <1>2 DEF FRETMS
<1>3. QED BY <1>1, <1>2

(* A variable gets a descriptor, when no temporary is in use any more.     *)
LEMMA WithDescriptor ==
  ASSUME NEW h, IsRecord(h), NEW v, NEW d, h.TEMPPT = 0
  PROVE  Given(h, [h EXCEPT !.descriptor[v] = d], v, d)
<1> DEFINE x == [h.descriptor EXCEPT ![v] = d]
           g == [h EXCEPT !.descriptor[v] = d]
<1>1. g = [h EXCEPT !.descriptor = x]
      OBVIOUS
<1> HIDE DEF x, g
<1>2. g = aHeap(h.memory, h.STREND, h.FRETOP, h.TEMPPT, x)
      BY <1>1, HeapUpdates
<1>3. /\ g.memory = h.memory /\ g.STREND = h.STREND /\ g.FRETOP = h.FRETOP
      /\ g.TEMPPT = h.TEMPPT /\ g.descriptor = x /\ IsRecord(g)
      BY <1>2, HeapFields
<1>4. Given(h, g, v, d)
      BY <1>3 DEF Given, x
<1>5. QED BY <1>4 DEF g

(* The string of the only value, taken over: it is a literal, or that of   *)
(* the temporary that is now given up.                                     *)
LEMMA TakenString ==
  ASSUME NEW h, NEW os, NEW ms, NEW as, StringInv(h, os, ms, as, FALSE), Len(os) = 1,
         h.descriptor[os[1]].at < h.FRETOP \/ os[1] \in inUse(h), NEW v
  PROVE  MayHave(h, v, h.descriptor[os[1]], ms[1])
<1> DEFINE name == os[1]
           d == h.descriptor[name]
<1>1. /\ HeapInv(h) /\ IsHeap(h) /\ VariablesApart(h) /\ VariablesAbove(h) /\ OperandsInv(h, os)
      /\ ValuesInv(h, os, ms, FALSE) /\ TemporariesAbove(h)
      BY DEF StringInv, HeapInv, ValuesInv
<1>2. 1 \in DOMAIN os /\ ms \in Seq(Seq(Characters)) /\ Len(ms) = 1
      <2>1. os \in Seq(Names)
            BY <1>1 DEF OperandsInv
      <2>2. DOMAIN os = 1 .. 1
            BY <2>1, LenProperties
      <2>3. QED BY <2>2, <1>1 DEF ValuesInv
<1>3. name \in Names /\ name \in Variables \cup inUse(h)
      BY <1>1, <1>2, OperandNames
<1>4. /\ d \in Descriptors /\ d.at \in Nat /\ d.len \in Nat /\ end(d) = d.at + d.len
      /\ h.FRETOP \in Nat
      <2>1. d \in Descriptors /\ h.FRETOP \in Nat
            BY <1>1, <1>3 DEF IsHeap
      <2>2. QED BY <2>1, <1>1, <1>3, DescriptorFacts
<1>5. ms[1] \in Seq(Characters) /\ Len(ms[1]) = d.len /\ stringOf(h, name) = ms[1]
      <2>1. 1 \in 1 .. Len(ms)
            BY <1>2
      <2>2. ms[1] \in Seq(Characters)
            BY <2>1, <1>2, ElementOfSeq
      <2>3. QED BY <2>2, <1>1, <1>2 DEF ValuesInv
<1>6. [i \in 1 .. d.len |-> h.memory[d.at + i - 1]] = ms[1]
      BY <1>5 DEF stringOf
<1>7. ASSUME d.len > 0, ~inText(d)
      PROVE  /\ h.FRETOP <= d.at /\ end(d) <= MEMSIZ
             /\ \A w \in Variables : stored(h, w) => disjoint(d, h.descriptor[w])
      <2>1. name \in inUse(h)
            <3>1. SUFFICES ASSUME name \in Variables, name \notin inUse(h) PROVE FALSE
                  BY <1>3
            <3>2. stored(h, name)
                  BY <3>1, <1>1, <1>7 DEF VariablesApart
            <3>3. h.FRETOP <= d.at /\ d.at < h.FRETOP
                  BY <3>1, <3>2, <1>1 DEF VariablesAbove
            <3>4. QED BY <3>3, <1>4
      <2>2. QED BY <2>1, <1>1, <1>7 DEF VariablesApart, TemporariesAbove, disjoint
<1> HIDE DEF d
<1>8. MayHave(h, v, d, ms[1])
      BY <1>4, <1>5, <1>6, <1>7 DEF MayHave
<1>9. QED BY <1>8 DEF d

LEMMA PutTakes ==
  ASSUME ~spoiled, ~forsaken, StringsInv, NEW v \in Variables, PUTSTR(v),
         heap.descriptor[operands[1]].at < heap.FRETOP \/ operands[1] \in inUse(heap)
  PROVE  StringInv(heap', << >>, << >>, assigned', FALSE)
<1> DEFINE name == operands[1]
           d == heap.descriptor[name]
           f == FRETMS(heap, name)
<1>1. /\ StringInv(heap, operands, meant, assigned, FALSE) /\ HeapInv(heap) /\ IsHeap(heap)
      /\ OperandsInv(heap, operands) /\ VariablesInv(heap, assigned) /\ operands \in Seq(Names)
      <2>1. forsaken = FALSE
            BY OperandsAre
      <2>2. QED BY <2>1, OperandsAre
<1>2. /\ heap' = [f EXCEPT !.descriptor[v] = d]
      /\ assigned' = [assigned EXCEPT ![v] = meant[1]]
      BY DEF PUTSTR
<1>3. /\ IsRecord(f) /\ f.memory = heap.memory /\ f.STREND = heap.STREND /\ f.FRETOP = heap.FRETOP
      /\ f.descriptor = heap.descriptor
      /\ f.TEMPPT = IF isLastTemporary(heap, name) THEN heap.TEMPPT - 1 ELSE heap.TEMPPT
      BY <1>1, FreedFields DEF IsHeap
<1> HIDE DEF f
<1>4. Len(operands) = 1
      BY DEF PUTSTR
<1>5. f.TEMPPT = 0
      <2>1. heap.TEMPPT \in 0 .. Len(Temporaries)
            BY <1>1 DEF IsHeap
      <2>2. QED BY <2>1, <1>1, <1>3, <1>4, OneOperand
<1>6. MayHave(heap, v, d, meant[1])
      BY <1>1, <1>4, TakenString
<1> HIDE DEF d
<1>7. Given(f, heap', v, d)
      BY <1>2, <1>3, <1>5, WithDescriptor
<1>8. Given(heap, heap', v, d)
      BY <1>3, <1>7 DEF Given
<1>9. v \in Scalars \/ dimensioned(heap)
      BY DEF PUTSTR
<1>10. StringInv(heap', << >>, << >>, [assigned EXCEPT ![v] = meant[1]], FALSE)
      BY <1>1, <1>6, <1>8, <1>9, GivenInv
<1>11. assigned' = [assigned EXCEPT ![v] = meant[1]]
      BY DEF PUTSTR
<1>12. QED BY <1>10, <1>11

LEMMA PutCopies ==
  ASSUME ~spoiled, ~forsaken, StringsInv, NEW v \in Variables, PUTSTR(v),
         ~(heap.descriptor[operands[1]].at < heap.FRETOP \/ operands[1] \in inUse(heap)),
         hasSpace(heap, heap.descriptor[operands[1]].len)
  PROVE  StringInv(heap', << >>, << >>, assigned', FALSE)
<1> DEFINE name == operands[1]
           n == heap.descriptor[name].len
           e == afterGETSPA(heap, n)
           h == GETSPA(heap, n)
           low == h.FRETOP
           from == h.descriptor[name].at
           copy == MOVSTR1(h, from, low, n)
           d == [len |-> n, at |-> low]
           value == meant[1]
<1>1. /\ HeapInv(heap) /\ IsHeap(heap) /\ OperandsInv(heap, operands)
      /\ VariablesInv(heap, assigned) /\ ValuesInv(heap, operands, meant, forsaken)
      /\ operands \in Seq(Names) /\ DOMAIN operands = 1 .. Len(operands)
      /\ \A k \in 1 .. Len(operands) : meant[k] \in Seq(Characters)
      BY OperandsAre
<1>2. /\ Len(operands) = 1 /\ assigned' = [assigned EXCEPT ![v] = value]
      /\ heap' = [copy EXCEPT !.descriptor[v] = d]
      <2>1. ~(heap.descriptor[name].at < heap.FRETOP \/ name \in inUse(heap))
            OBVIOUS
      <2>2. QED BY <2>1 DEF PUTSTR
<1>3. v \in Scalars \/ dimensioned(heap)
      BY DEF PUTSTR
<1>4. 1 \in DOMAIN operands /\ name \in Variables /\ n \in Nat
      <2>1. 1 \in DOMAIN operands
            <3>1. DOMAIN operands = 1 .. Len(operands)
                  BY <1>1
            <3>2. Len(operands) = 1
                  BY <1>2
            <3>3. QED BY <3>1, <3>2
      <2>2. name \in Variables /\ name \in Names
            BY <2>1, <1>1, OperandNames
      <2>3. QED BY <2>1, <2>2, <1>1, DescriptorFacts
<1>5. heap.TEMPPT = 0
      <2>1. heap.TEMPPT \in 0 .. Len(Temporaries)
            BY <1>1 DEF IsHeap
      <2> DEFINE g == FRETMS(heap, name)
      <2>2. g.TEMPPT = IF isLastTemporary(heap, name) THEN heap.TEMPPT - 1 ELSE heap.TEMPPT
            BY <1>1, FreedFields DEF IsHeap
      <2> HIDE DEF g
      <2>3. g.TEMPPT = 0 /\ (isLastTemporary(heap, name) <=> name \in inUse(heap))
            BY <2>1, <2>2, <1>1, <1>2, OneOperand
      <2>4. QED BY <2>2, <2>3
<1>6. value \in Seq(Characters) /\ Len(value) = n /\ value = assigned[name]
      <2>1. value \in Seq(Characters) /\ Len(value) = n /\ stringOf(heap, name) = value
            BY <1>1, <1>2, <1>4 DEF ValuesInv
      <2>2. stringOf(heap, name) = assigned[name]
            BY <1>1, <1>4 DEF VariablesInv
      <2>3. QED BY <2>1, <2>2
<1> HIDE DEF value, n
<1>7. /\ HeapInv(e) /\ Built(h, e, low, n) /\ OperandsInv(e, operands)
      /\ OperandsInv(h, operands) /\ h.descriptor = e.descriptor /\ low + n = e.FRETOP
      /\ h.TEMPPT = e.TEMPPT /\ VariablesInv(e, assigned) /\ low \in Nat
      /\ \A k \in DOMAIN operands :
            e.descriptor[operands[k]].len = heap.descriptor[operands[k]].len
      <2>1. hasSpace(heap, n)
            BY DEF n
      <2>2. QED BY <2>1, <1>4, OperationBegins
<1>8. e.TEMPPT = 0 /\ e.STREND = heap.STREND
      <2>1. SameStrings(heap, e)
            BY <1>1, <1>4, Space
      <2>2. QED BY <2>1, <1>5 DEF SameStrings
<1>9. TemporariesAbove(e) /\ stringOf(e, name) = value
      <2>1. inUse(e) = {}
            BY <1>8 DEF inUse
      <2>2. stringOf(e, name) = assigned[name]
            BY <1>4, <1>7 DEF VariablesInv
      <2>3. QED BY <2>1, <2>2, <1>6 DEF TemporariesAbove
<1> HIDE DEF e, h, low, name
<1>10. from \in Nat /\ from = e.descriptor[operands[1]].at /\ name = operands[1]
      <2>1. e.descriptor[operands[1]].at \in Nat
            BY <1>4, <1>7, OperandPlace
      <2>2. QED BY <2>1, <1>7 DEF name
<1> HIDE DEF from
<1>11. Built(copy, e, low, n) /\ copy.FRETOP = low /\ copy.TEMPPT = 0
      <2>1. MovesTo(e, h, low, n, from, low, n)
            BY <1>4, <1>7, <1>10 DEF MovesTo
      <2>2. Built(copy, e, low, n) /\ copy.FRETOP = h.FRETOP /\ copy.TEMPPT = h.TEMPPT
            BY <2>1, MoveBuilt
      <2>3. QED BY <2>2, <1>7, <1>8 DEF low
<1>12. \A i \in 1 .. n : copy.memory[low + i - 1] = value[i]
      <2>1. 0 + n <= e.descriptor[operands[1]].len /\ 0 \in Nat
            <3>1. e.descriptor[operands[1]].len = n
                  BY <1>4, <1>7 DEF n, name
            <3>2. QED BY <3>1, <1>4
      <2>2. Copies(e, h, low, n, operands, 1, value, 0, n, low)
            BY <2>1, <1>4, <1>7, <1>9, <1>10 DEF Copies
      <2>3. \A x \in 1 .. n :
              MOVSTR1(h, e.descriptor[operands[1]].at + 0, low, n).memory[low + x - 1] = value[0 + x]
            BY <2>2, CopiedString
      <2>4. e.descriptor[operands[1]].at + 0 = from /\ \A x \in 1 .. n : 0 + x = x
            BY <1>4, <1>10
      <2>5. QED BY <2>3, <2>4
<1> HIDE DEF copy
<1>13. HeapInv(copy) /\ VariablesInv(copy, assigned)
       /\ \A w \in Variables : stored(copy, w) <=> stored(e, w)
      <2>1. /\ HeapInv(copy)
            /\ \A w \in Variables : stringOf(copy, w) = stringOf(e, w)
                                    /\ (stored(copy, w) <=> stored(e, w))
            BY <1>7, <1>11, BuiltKeeps
      <2>2. copy.STREND = e.STREND /\ copy.descriptor = e.descriptor
            BY <1>11 DEF Built
      <2>3. VariablesInv(copy, assigned)
            BY <2>1, <2>2, <1>7 DEF VariablesInv, dimensioned
      <2>4. QED BY <2>1, <2>3
<1>14. MayHave(copy, v, d, value)
      <2>1. d \in Descriptors /\ d.len = n /\ d.at = low /\ end(d) = e.FRETOP
            BY <1>4, <1>7 DEF Descriptors, end
      <2> HIDE DEF d
      <2>2. [i \in 1 .. d.len |-> copy.memory[d.at + i - 1]] = value
            <3>1. value = [i \in 1 .. n |-> value[i]]
                  BY <1>6, LenProperties
            <3>2. QED BY <3>1, <2>1, <1>12
      <2>3. e.FRETOP <= MEMSIZ /\ copy.FRETOP <= d.at
            <3>1. copy.FRETOP = d.at /\ d.at \in Nat
                  BY <2>1, <1>7, <1>11
            <3>2. QED BY <3>1, <1>7 DEF HeapInv, IsHeap
      <2>4. \A w \in Variables : stored(copy, w) => disjoint(d, copy.descriptor[w])
            <3>1. \A w \in Variables : stored(e, w) => e.FRETOP <= e.descriptor[w].at
                  BY <1>7 DEF HeapInv, VariablesAbove
            <3>2. copy.descriptor = e.descriptor
                  BY <1>11 DEF Built
            <3>3. QED BY <3>1, <3>2, <2>1, <1>13 DEF disjoint
      <2>5. QED BY <2>1, <2>2, <2>3, <2>4, <1>6 DEF MayHave
<1>15. v \in Scalars \/ dimensioned(copy)
      BY <1>3, <1>8, <1>11 DEF dimensioned, Built
<1> HIDE DEF d
<1>16. Given(copy, heap', v, d)
      <2>1. IsRecord(copy)
            BY <1>11 DEF Built
      <2>2. QED BY <2>1, <1>2, <1>11, WithDescriptor
<1>17. StringInv(heap', << >>, << >>, [assigned EXCEPT ![v] = value], FALSE)
      BY <1>13, <1>14, <1>15, <1>16, GivenInv
<1>18. QED BY <1>2, <1>17

LEMMA PutStringKeeps ==
  ASSUME ~spoiled, StringsInv, NEW v \in Variables, PUTSTR(v)
  PROVE  StringsInv'
<1> DEFINE name == operands[1]
           d == heap.descriptor[name]
           taken == d.at < heap.FRETOP \/ name \in inUse(heap)
<1>1. StringInv(heap, operands, meant, assigned, forsaken) /\ forsaken \in BOOLEAN
      /\ HeapInv(heap) /\ spoiled \in BOOLEAN
      BY OperandsAre DEF StringsInv
<1>2. CASE ~taken /\ ~hasSpace(heap, d.len)
      <2>1. ERROR(GARBAG(heap))
            BY <1>2 DEF PUTSTR
      <2>2. /\ heap' = [GARBAG(heap) EXCEPT !.TEMPPT = 0] /\ operands' = << >> /\ meant' = << >>
            /\ forsaken' = FALSE /\ assigned' = assigned /\ spoiled' = spoiled
            BY <2>1 DEF ERROR, nextStatement
      <2>3. StringInv(GARBAG(heap), operands, meant, assigned, forsaken \/ leavesTemporary(heap))
            BY <1>1, GarbageInv
      <2>4. HeapInv(GARBAG(heap)) /\ VariablesInv(GARBAG(heap), assigned)
            BY <2>3 DEF StringInv
      <2>5. StringInv(heap', operands', meant', assigned', forsaken')
            BY <2>2, <2>4, EndInv
      <2>6. QED BY <2>2, <2>5 DEF StringsInv
<1>3. CASE taken \/ hasSpace(heap, d.len)
      <2>1. /\ operands' = << >> /\ meant' = << >> /\ forsaken' = FALSE
            /\ spoiled' = (spoiled \/ forsaken)
            BY <1>3 DEF PUTSTR, nextStatement
      <2>2. CASE forsaken
            BY <2>1, <2>2, <1>1 DEF StringsInv
      <2>3. CASE ~forsaken
            <3>1. StringInv(heap', << >>, << >>, assigned', FALSE)
                  <4>1. CASE taken
                        BY <2>3, <4>1, PutTakes
                  <4>2. CASE ~taken
                        BY <1>3, <2>3, <4>2, PutCopies
                  <4>3. QED BY <4>1, <4>2
            <3>2. spoiled' = FALSE
                  BY <2>1, <2>3, <1>1
            <3>3. StringInv(heap', operands', meant', assigned', forsaken')
                  BY <2>1, <3>1
            <3>4. QED BY <2>1, <3>2, <3>3 DEF StringsInv
      <2>4. QED BY <2>2, <2>3
<1>4. QED BY <1>2, <1>3

LEMMA FreKeeps ==
  ASSUME ~spoiled, StringsInv, FREFAC
  PROVE  StringsInv'
<1> DEFINE m == 1
           low == heap.FRETOP
           r == FRETMP(heap, operands[1])
<1>1. /\ StringInv(heap, operands, meant, assigned, forsaken) /\ HeapInv(heap) /\ IsHeap(heap)
      /\ VariablesAbove(heap) /\ OperandsInv(heap, operands)
      /\ operands \in Seq(Names) /\ spoiled \in BOOLEAN
      BY OperandsAre DEF StringsInv, HeapInv
<1>2. /\ Len(operands) = 1 /\ heap' = r /\ operands' = << >> /\ meant' = << >>
      /\ forsaken' = FALSE /\ assigned' = assigned /\ spoiled' = spoiled
      BY DEF FREFAC, nextStatement
<1>3. Built(heap, heap, low, 0)
      <2>1. /\ heap.TEMPPT \in 0 .. heap.TEMPPT /\ low \in Nat /\ heap.STREND <= low
            /\ low + 0 = low /\ low <= low /\ low <= MEMSIZ
            BY <1>1, StringConstants DEF IsHeap
      <2>2. \A v \in Variables : stored(heap, v) => low <= heap.descriptor[v].at
            BY <1>1 DEF VariablesAbove
      <2>3. IsRecord(heap) /\ heap.memory = [a \in 0 .. MEMSIZ - 1 |-> heap.memory[a]]
            BY <1>1 DEF IsHeap, IsMemory
      <2>4. 0 \in Nat /\ heap.FRETOP = low
            OBVIOUS
      <2> HIDE DEF low
      <2>5. QED BY <2>1, <2>2, <2>3, <2>4 DEF Built
<1>4. m \in Nat \ {0} /\ m = Len(operands) /\ operands[1] = operands[m]
      BY <1>2
<1> HIDE DEF low
<1>5. Built(r, heap, low, 0) /\ OperandsInv(r, SubSeq(operands, 1, m - 1))
      <2> HIDE DEF m
      <2>1. LET x == FRETMP(heap, operands[m])
            IN  Built(x, heap, low, 0) /\ OperandsInv(x, SubSeq(operands, 1, m - 1))
            BY <1>1, <1>3, <1>4, ReleaseBuilt
      <2>2. QED BY <2>1, <1>4
<1>6. m - 1 = 0 /\ 0 \in 0 .. Len(operands)
      BY <1>2
<1>7. r.TEMPPT = 0
      <2>1. OperandsInv(r, SubSeq(operands, 1, 0))
            BY <1>5, <1>6
      <2>2. Len(SubSeq(operands, 1, 0)) = 0
            BY <1>1, <1>6, Prefix
      <2>3. r.TEMPPT \in Nat
            <3>1. heap.TEMPPT \in 0 .. Len(Temporaries)
                  BY <1>1 DEF IsHeap
            <3>2. QED BY <3>1, <1>5, StringConstants DEF Built
      <2> HIDE DEF r
      <2>4. QED BY <2>1, <2>2, <2>3, NoOperands
<1> HIDE DEF r
<1>8. HeapInv(r) /\ VariablesInv(r, assigned)
      <2>1. /\ HeapInv(r)
            /\ \A w \in Variables : stringOf(r, w) = stringOf(heap, w)
            BY <1>1, <1>5, BuiltKeeps
      <2>2. r.STREND = heap.STREND /\ r.descriptor = heap.descriptor
            BY <1>5 DEF Built
      <2>3. QED BY <2>1, <2>2, <1>1 DEF StringInv, VariablesInv, dimensioned
<1>9. StringInv(r, << >>, << >>, assigned, FALSE)
      BY <1>7, <1>8, NoneInUse
<1>10. QED BY <1>1, <1>2, <1>9 DEF StringsInv

(* No variable has a string.                                               *)
LEMMA AllEmpty ==
  ASSUME NEW h, IsHeap(h), h.TEMPPT = 0, h.STREND = Len(ProgramText),
         \A k \in Names : h.descriptor[k] = Empty
  PROVE  StringInv(h, << >>, << >>, [v \in Variables |-> << >>], FALSE)
<1> DEFINE as == [v \in Variables |-> << >>]
<1>1. \A v \in Variables : h.descriptor[v].len = 0
      BY StringConstants DEF Empty
<1>2. inUse(h) = {}
      BY DEF inUse
<1>3. \A v \in Variables : ~stored(h, v)
      BY <1>1 DEF stored
<1>4. HeapInv(h)
      BY <1>1, <1>2, <1>3 DEF HeapInv, VariablesApart, VariablesAbove
<1>5. << >> \in Seq(Characters) /\ Len(<< >>) = 0
      BY EmptySeq
<1>6. \A v \in Variables : stringOf(h, v) = << >>
      <2>1. TAKE v \in Variables
      <2>2. stringOf(h, v) = [i \in 1 .. 0 |-> h.memory[h.descriptor[v].at + i - 1]]
            BY <1>1 DEF stringOf
      <2>3. << >> = [i \in 1 .. 0 |-> << >>[i]]
            BY <1>5, LenProperties
      <2>4. QED BY <2>2, <2>3
<1>7. VariablesInv(h, as)
      <2>1. as \in [Variables -> Seq(Characters)]
            BY <1>5
      <2>2. \A v \in Variables : as[v] = << >>
            OBVIOUS
      <2> HIDE DEF as
      <2>3. \A v \in Elements : v \in Variables
            BY DEF Variables
      <2>4. QED BY <2>1, <2>2, <2>3, <1>1, <1>5, <1>6 DEF VariablesInv
<1> HIDE DEF as
<1>8. StringInv(h, << >>, << >>, as, FALSE)
      BY <1>4, <1>7, NoneInUse
<1>9. QED BY <1>8 DEF as

LEMMA ClearKeeps ==
  ASSUME ~spoiled, StringsInv, CLEARC
  PROVE  StringsInv'
<1> DEFINE desc == [k \in DOMAIN heap.descriptor |-> Empty]
           e1 == [heap EXCEPT !.FRETOP = MEMSIZ]
           e2 == [e1 EXCEPT !.STREND = Len(ProgramText)]
           e3 == [e2 EXCEPT !.TEMPPT = 0]
           e4 == [e3 EXCEPT !.descriptor = [k \in DOMAIN e3.descriptor |-> Empty]]
<1>1. /\ StringInv(heap, operands, meant, assigned, forsaken) /\ IsHeap(heap)
      /\ Len(meant) = Len(operands) /\ meant \in Seq(Seq(Characters)) /\ forsaken \in BOOLEAN
      BY OperandsAre
<1>2. /\ operands = << >> /\ operands' = operands /\ meant' = meant /\ forsaken' = forsaken
      /\ spoiled' = spoiled /\ assigned' = [v \in Variables |-> << >>] /\ heap' = e4
      BY DEF CLEARC
<1>3. heap' = aHeap(heap.memory, Len(ProgramText), MEMSIZ, 0, desc)
      <2> HIDE DEF e1, e2, e3, e4
      <2>1. e1 = aHeap(heap.memory, heap.STREND, MEMSIZ, heap.TEMPPT, heap.descriptor)
            BY <1>1, HeapUpdates DEF IsHeap, e1
      <2>2. e2 = aHeap(heap.memory, Len(ProgramText), MEMSIZ, heap.TEMPPT, heap.descriptor)
            <3>1. /\ IsRecord(e1) /\ e1.memory = heap.memory /\ e1.FRETOP = MEMSIZ
                  /\ e1.TEMPPT = heap.TEMPPT /\ e1.descriptor = heap.descriptor
                  BY <2>1, HeapFields
            <3>2. e2 = aHeap(e1.memory, Len(ProgramText), e1.FRETOP, e1.TEMPPT, e1.descriptor)
                  BY <3>1, HeapUpdates DEF e2
            <3>3. QED BY <3>1, <3>2
      <2>3. e3 = aHeap(heap.memory, Len(ProgramText), MEMSIZ, 0, heap.descriptor)
            <3>1. /\ IsRecord(e2) /\ e2.memory = heap.memory /\ e2.FRETOP = MEMSIZ
                  /\ e2.STREND = Len(ProgramText) /\ e2.descriptor = heap.descriptor
                  BY <2>2, HeapFields
            <3>2. e3 = aHeap(e2.memory, e2.STREND, e2.FRETOP, 0, e2.descriptor)
                  BY <3>1, HeapUpdates DEF e3
            <3>3. QED BY <3>1, <3>2
      <2>4. /\ IsRecord(e3) /\ e3.memory = heap.memory /\ e3.FRETOP = MEMSIZ
            /\ e3.STREND = Len(ProgramText) /\ e3.TEMPPT = 0 /\ e3.descriptor = heap.descriptor
            BY <2>3, HeapFields
      <2>5. e4 = [e3 EXCEPT !.descriptor = desc]
            BY <2>4 DEF e4
      <2> HIDE DEF desc
      <2>6. e4 = aHeap(e3.memory, e3.STREND, e3.FRETOP, e3.TEMPPT, desc)
            BY <2>4, <2>5, HeapUpdates
      <2>7. QED BY <2>4, <2>6, <1>2
<1>4. DOMAIN heap.descriptor = Names
      BY <1>1 DEF IsHeap
<1>5. desc \in [Names -> Descriptors] /\ \A k \in Names : desc[k] = Empty
      BY <1>4 DEF Descriptors, Empty
<1> HIDE DEF desc, e4
<1>6. /\ IsRecord(heap') /\ heap'.memory = heap.memory /\ heap'.STREND = Len(ProgramText)
      /\ heap'.FRETOP = MEMSIZ /\ heap'.TEMPPT = 0 /\ heap'.descriptor = desc
      BY <1>3, HeapFields
<1>7. IsHeap(heap')
      BY <1>1, <1>5, <1>6, StringConstants DEF IsHeap
<1>8. StringInv(heap', << >>, << >>, [v \in Variables |-> << >>], FALSE)
      BY <1>5, <1>6, <1>7, AllEmpty
<1>9. meant = << >>
      BY <1>1, <1>2, EmptySeq
<1>10. StringInv(heap', operands', meant', assigned', FALSE)
      BY <1>2, <1>8, <1>9
<1>11. StringInv(heap', operands', meant', assigned', forsaken')
      BY <1>10 DEF StringInv, ValuesInv
<1>12. QED BY <1>1, <1>2, <1>11 DEF StringsInv

(* The first state.                                                        *)
LEMMA StringsBegin ==
  ASSUME BasicInit
  PROVE  StringsInv
<1> DEFINE mem == [a \in 0 .. MEMSIZ - 1 |->
                     IF a < Len(ProgramText) THEN ProgramText[a + 1] ELSE arrayText]
           desc == [n \in Variables \cup Range(Temporaries) |-> Empty]
<1>1. heap = aHeap(mem, Len(ProgramText), MEMSIZ, 0, desc)
      BY DEF BasicInit, aHeap
<1>2. /\ mem = [a \in 0 .. MEMSIZ - 1 |-> mem[a]]
      /\ \A a \in 0 .. Len(ProgramText) - 1 : mem[a] = ProgramText[a + 1]
      <2>1. \A a \in 0 .. Len(ProgramText) - 1 : a \in 0 .. MEMSIZ - 1 /\ a < Len(ProgramText)
            BY StringConstants
      <2>2. QED BY <2>1
<1>3. desc \in [Names -> Descriptors] /\ \A k \in Names : desc[k] = Empty
      BY DEF Descriptors, Empty, Names
<1> HIDE DEF mem, desc
<1>4. /\ IsRecord(heap) /\ heap.memory = mem /\ heap.STREND = Len(ProgramText)
      /\ heap.FRETOP = MEMSIZ /\ heap.TEMPPT = 0 /\ heap.descriptor = desc
      BY <1>1, HeapFields
<1>5. IsHeap(heap)
      <2>1. IsMemory(heap.memory)
            BY <1>2, <1>4 DEF IsMemory
      <2>2. heap.descriptor \in [Names -> Descriptors]
            BY <1>3, <1>4
      <2>3. heap.TEMPPT \in 0 .. Len(Temporaries)
            BY <1>4, StringConstants
      <2>4. QED BY <2>1, <2>2, <2>3, <1>4, StringConstants DEF IsHeap
<1>6. StringInv(heap, << >>, << >>, [v \in Variables |-> << >>], FALSE)
      BY <1>3, <1>4, <1>5, AllEmpty
<1>7. /\ operands = << >> /\ meant = << >> /\ assigned = [v \in Variables |-> << >>]
      /\ forsaken = FALSE /\ spoiled = FALSE
      BY DEF BasicInit
<1>8. QED BY <1>6, <1>7 DEF StringsInv

LEMMA OperationsKeep ==
  ASSUME ~spoiled, StringsInv, BasicOperation
  PROVE  StringsInv'
<1>1. CASE \E d \in Literals : Literal(d)
      BY <1>1, LiteralKeeps
<1>2. CASE \E v \in Variables : Variable(v) \/ NewArray(v) \/ PUTSTR(v)
      BY <1>2, VariableKeeps, NewArrayKeeps, PutStringKeeps
<1>3. CASE \E c \in Codes : CHRSTR(c)
      BY <1>3, ChrKeeps
<1>4. CASE \E first, n \in 0 .. MaxLength : SUBSTRING(first, n)
      <2>1. PICK first \in 0 .. MaxLength, n \in 0 .. MaxLength : SUBSTRING(first, n)
            BY <1>4
      <2>2. first \in Nat /\ n \in Nat
            BY StringConstants
      <2>3. QED BY <2>1, <2>2, SubstringKeeps
<1>5. CASE CAT
      BY <1>5, CatKeeps
<1>6. CASE FREFAC
      BY <1>6, FreKeeps
<1>7. CASE CLEARC
      BY <1>7, ClearKeeps
<1>8. QED BY <1>1, <1>2, <1>3, <1>4, <1>5, <1>6, <1>7 DEF BasicOperation

(* Once the value of an expression with a lost temporary was assigned,     *)
(* nothing is claimed, and that does not change.                           *)
LEMMA StaysSpoiled ==
  ASSUME spoiled, StringsInv, BasicOperation
  PROVE  StringsInv'
<1>1. forsaken \in BOOLEAN /\ spoiled = TRUE
      BY DEF StringsInv
<1> DEFINE Spoiled == spoiled' = TRUE /\ forsaken' \in BOOLEAN
<1>2. \A h : ERROR(h) => Spoiled
      BY <1>1 DEF ERROR, nextStatement
<1>3. ASSUME NEW k, NEW h, NEW d, NEW value, NEW left \in BOOLEAN,
             pushTemporary(k, h, d, value, left)
      PROVE  Spoiled
      BY <1>1, <1>2, <1>3 DEF pushTemporary, replaceLast
<1>4. ASSUME NEW k, NEW n, NEW h, NEW value, Operation(k, n, h, value)
      PROVE  Spoiled
      <2> DEFINE left == forsaken \/ collecting(n)
                 d == [len |-> n, at |-> GETSPA(heap, n).FRETOP]
      <2>1. left \in BOOLEAN
            BY <1>1 DEF collecting, fits, leavesTemporary
      <2>2. CASE ~hasSpace(heap, n)
            BY <1>2, <1>4, <2>2 DEF Operation
      <2>3. CASE hasSpace(heap, n)
            <3>1. pushTemporary(k, h, d, value, left)
                  BY <1>4, <2>3 DEF Operation
            <3> HIDE DEF left, d, Spoiled
            <3>2. QED BY <2>1, <3>1, <1>3
      <2>4. QED BY <2>2, <2>3
<1>5. ASSUME NEW d \in Literals, Literal(d) PROVE Spoiled
      <2> DEFINE value == SubSeq(ProgramText, d.at + 1, d.at + d.len)
      <2>1. pushTemporary(0, heap, d, value, forsaken)
            BY <1>5 DEF Literal
      <2> HIDE DEF value, Spoiled
      <2>2. QED BY <2>1, <1>1, <1>3
<1>6. ASSUME NEW v, Variable(v) PROVE Spoiled
      BY <1>1, <1>6 DEF Variable, replaceLast
<1>7. ASSUME NEW v, NewArray(v) PROVE Spoiled
      <2> DEFINE top == heap.STREND + ArrayBytes
                 h == IF top < heap.FRETOP THEN heap ELSE GARBAG(heap)
                 left == forsaken \/ (h # heap /\ leavesTemporary(heap))
      <2>1. ERROR(h) \/ (replaceLast(0, v, << >>) /\ forsaken' = left)
            BY <1>7 DEF NewArray
      <2>2. left \in BOOLEAN
            BY <1>1 DEF leavesTemporary
      <2> HIDE DEF h, left
      <2>3. QED BY <2>1, <2>2, <1>1, <1>2 DEF replaceLast
<1>8. ASSUME NEW v, PUTSTR(v) PROVE Spoiled
      <2>1. ERROR(GARBAG(heap)) \/ (nextStatement /\ spoiled' = (spoiled \/ forsaken))
            BY <1>8 DEF PUTSTR
      <2>2. QED BY <2>1, <1>1, <1>2 DEF nextStatement
<1>9. ASSUME NEW c, CHRSTR(c) PROVE Spoiled
      <2>1. \E h : Operation(0, 1, h, << c >>)
            BY <1>9 DEF CHRSTR
      <2> HIDE DEF Spoiled
      <2>2. QED BY <2>1, <1>4
<1>10. ASSUME NEW first, NEW n, SUBSTRING(first, n) PROVE Spoiled
      <2>1. \E h, value : Operation(1, n, h, value)
            BY <1>10 DEF SUBSTRING
      <2> HIDE DEF Spoiled
      <2>2. QED BY <2>1, <1>4
<1>11. ASSUME CAT PROVE Spoiled
      <2>1. ERROR(heap) \/ \E n, h, value : Operation(2, n, h, value)
            BY <1>11 DEF CAT
      <2> HIDE DEF Spoiled
      <2>2. QED BY <2>1, <1>2, <1>4
<1>12. ASSUME FREFAC \/ CLEARC PROVE Spoiled
      BY <1>1, <1>12 DEF FREFAC, CLEARC, nextStatement
<1> HIDE DEF Spoiled
<1>13. Spoiled
      BY <1>5, <1>6, <1>7, <1>8, <1>9, <1>10, <1>11, <1>12 DEF BasicOperation
<1>14. QED BY <1>13 DEF Spoiled, StringsInv

(* A variable keeps the string it was assigned, wherever the collections   *)
(* move it, and an expression has the value it should, for any program,    *)
(* any memory and any number of variables, of temporaries and of operands  *)
(* (string.s, GARBAG, GETSPA, CAT, PUTSTR).                                *)
THEOREM StringsAreKept == BasicSpec => []StringsKept
<1>1. BasicInit => StringsInv
      BY StringsBegin
<1>2. StringsInv /\ [BasicNext]_stringVars => StringsInv'
      <2>1. SUFFICES ASSUME StringsInv, [BasicNext]_stringVars PROVE StringsInv'
            OBVIOUS
      <2>2. CASE BasicNext
            <3>1. BasicOperation
                  BY <2>2 DEF BasicNext
            <3>2. CASE spoiled
                  BY <2>1, <3>1, <3>2, StaysSpoiled
            <3>3. CASE ~spoiled
                  BY <2>1, <3>1, <3>3, OperationsKeep
            <3>4. QED BY <3>2, <3>3
      <2>3. CASE UNCHANGED stringVars
            BY <2>1, <2>3 DEF stringVars, StringsInv
      <2>4. QED BY <2>1, <2>2, <2>3
<1>3. StringsInv => StringsKept
      <2>1. SUFFICES ASSUME StringsInv, ~spoiled
                     PROVE  /\ \A v \in Variables : stringOf(heap, v) = assigned[v]
                            /\ forsaken \/ \A i \in DOMAIN operands :
                                             stringOf(heap, operands[i]) = meant[i]
            BY DEF StringsKept
      <2>2. VariablesInv(heap, assigned) /\ ValuesInv(heap, operands, meant, forsaken)
            BY <2>1, OperandsAre
      <2>3. \A v \in Variables : stringOf(heap, v) = assigned[v]
            BY <2>2 DEF VariablesInv
      <2>4. forsaken \/ \A i \in DOMAIN operands : stringOf(heap, operands[i]) = meant[i]
            BY <2>2 DEF ValuesInv
      <2>5. QED BY <2>3, <2>4
<1>4. QED BY <1>1, <1>2, <1>3, PTL DEF BasicSpec
=============================================================================
