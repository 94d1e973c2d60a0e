------------------------------- MODULE SidPlayer --------------------------------
(***************************************************************************)
(* The player of the cc65 sample nachtm.c: three voices of the SID play    *)
(* from tables of tones and pauses, one beat at a time.  The beats are     *)
(* taken from the clock: the program polls the low byte of clock() until   *)
(* it equals the time of the next beat.  The clock goes on whatever the    *)
(* program does, so a poll may miss its value and must then wait until the *)
(* byte comes round again.  A key ends the music, or starts the debugger.  *)
(***************************************************************************)
EXTENDS Integers, Sequences

CONSTANTS
  Voices,            (* {1, 2, 3}                                          *)
  Tune,              (* [Voices -> Seq([length, pause])]: Voice1 .. Voice3 *)
  TICKS_PER_TONE,    (* (4)                                                *)
  ByteBase           (* values of an unsigned char (256)                   *)

(* The time the first k tones take.                                        *)
lengths(tones) ==
  LET first[k \in 0 .. Len(tones)] ==
        IF k = 0 THEN 0 ELSE first[k - 1] + tones[k].length
  IN  first

totalLength(tones) == lengths(tones)[Len(tones)]

(* What holds of the tables: lengths fit into seven bits and are not zero, *)
(* and the three voices are equally long.                                  *)
ASSUME TuneAssumption ==
  /\ ByteBase \in Nat \ {0}
  /\ TICKS_PER_TONE \in 1 .. ByteBase - 1
  /\ \A v \in Voices :
       /\ Tune[v] \in Seq([length : 1 .. ByteBase - 1, pause : BOOLEAN])
       /\ \A w \in Voices : totalLength(Tune[v]) = totalLength(Tune[w])

VARIABLES
  sidPc,             (* "sync", "key", "beat" or "end"                     *)
  clock,             (* the low byte of the clock                          *)
  NextClock,
  Ticks, Data,       (* of every voice: what is left of the tone, and the  *)
                     (* number of entries read                             *)
  Done,              (* the voices that have ended                         *)
  ctrl,              (* the control register of every voice: "gate" while  *)
                     (* a tone is held, "release", or "off"                *)
  keys,              (* the keyboard buffer                                *)
  waited             (* history: clock ticks since the last beat           *)

sidVars == <<sidPc, clock, NextClock, Ticks, Data, Done, ctrl, keys, waited>>

SidInit ==
  /\ sidPc = "sync" /\ clock \in 0 .. ByteBase - 1
  /\ NextClock = (clock + TICKS_PER_TONE) % ByteBase
  /\ Ticks = [v \in Voices |-> 0] /\ Data = [v \in Voices |-> 0]
  /\ Done = {} /\ ctrl = [v \in Voices |-> "off"]
  /\ keys = <<>> /\ waited = 0

(* The interrupt that counts the clock.                                    *)
ClockTick ==
  /\ sidPc # "end"
  /\ clock' = (clock + 1) % ByteBase
  /\ waited' = (waited + 1) % ByteBase
  /\ UNCHANGED <<sidPc, NextClock, Ticks, Data, Done, ctrl, keys>>

KeyPress ==
  /\ sidPc # "end" /\ keys = <<>>
  /\ \E k \in {"d", "other"} : keys' = <<k>>
  /\ UNCHANGED <<sidPc, clock, NextClock, Ticks, Data, Done, ctrl, waited>>

(* Mutant: the time of the next beat is wider than a byte.                 *)
TimeSyncWide ==
  /\ sidPc = "sync" /\ clock = NextClock
  /\ NextClock' = clock + TICKS_PER_TONE
  /\ waited' = 0
  /\ sidPc' = "key"
  /\ UNCHANGED <<clock, Ticks, Data, Done, ctrl, keys>>

(* The poll that finds the time of the next beat.                          *)
TimeSync ==
  /\ sidPc = "sync" /\ clock = NextClock
  /\ NextClock' = (clock + TICKS_PER_TONE) % ByteBase
  /\ waited' = 0
  /\ sidPc' = "key"
  /\ UNCHANGED <<clock, Ticks, Data, Done, ctrl, keys>>

silenced == [v \in Voices |-> "off"]

(* A key other than d leaves the loop, and the SID is reset.               *)
CheckKey ==
  /\ sidPc = "key"
  /\ IF keys = <<"other">> THEN sidPc' = "end" /\ ctrl' = silenced
                           ELSE sidPc' = "beat" /\ UNCHANGED ctrl
  /\ keys' = <<>>
  /\ UNCHANGED <<clock, NextClock, Ticks, Data, Done, waited>>

atEnd(v) == Data[v] = Len(Tune[v])
needsData(v) == v \notin Done /\ Ticks[v] = 0
nextTone(v) == Tune[v][Data[v] + 1]

ticksAfter(v) == IF v \in Done \/ (needsData(v) /\ atEnd(v)) THEN Ticks[v]
                 ELSE IF needsData(v) THEN nextTone(v).length - 1
                 ELSE Ticks[v] - 1

(* A tone is released in its last tick, a pause releases at once.          *)
ctrlAfter(v) ==
  IF v \in Done \/ (needsData(v) /\ atEnd(v)) THEN ctrl[v]
  ELSE IF needsData(v) THEN (IF nextTone(v).pause THEN "release" ELSE "gate")
  ELSE IF Ticks[v] = 1 THEN "release" ELSE ctrl[v]

(* The loop over the voices; when all are done the SID is reset.           *)
PlayBeat ==
  /\ sidPc = "beat"
  /\ Done' = Done \cup {v \in Voices : needsData(v) /\ atEnd(v)}
  /\ Ticks' = [v \in Voices |-> ticksAfter(v)]
  /\ Data' = [v \in Voices |-> IF needsData(v) /\ ~atEnd(v) THEN Data[v] + 1 ELSE Data[v]]
  /\ IF Done' = Voices
     THEN sidPc' = "end" /\ ctrl' = silenced
     ELSE sidPc' = "sync" /\ ctrl' = [v \in Voices |-> ctrlAfter(v)]
  /\ UNCHANGED <<clock, NextClock, keys, waited>>

SidNext == ClockTick \/ KeyPress \/ TimeSync \/ CheckKey \/ PlayBeat

(* The clock goes on, and the program does too; a poll is quicker than the *)
(* clock, so the time of the beat is not missed for ever.                  *)
SidFairness == /\ WF_sidVars(ClockTick)
               /\ SF_sidVars(TimeSync)
               /\ WF_sidVars(CheckKey) /\ WF_sidVars(PlayBeat)

SidSpec == SidInit /\ [][SidNext]_sidVars /\ SidFairness

-----------------------------------------------------------------------------
(* The voices stay together: however they cut the time into tones, they    *)
(* have played equally long, and end in the same beat.                     *)
playedBy(v) == lengths(Tune[v])[Data[v]] - Ticks[v]

VoicesTogether ==
  \A v, w \in Voices : playedBy(v) = playedBy(w) /\ (v \in Done <=> w \in Done)

(* The rhythm survives the debugger and a missed poll: the time between    *)
(* two beats is the length of a tone, or that and whole rounds of the      *)
(* clock byte (TimeSync).                                                  *)
BeatOnTime ==
  [][sidPc = "sync" /\ sidPc' = "key" => waited = TICKS_PER_TONE]_sidVars

(* No tone hangs: a voice whose tone is longer than a tick has been        *)
(* released when the tone ends, and when the program ends, by itself or by *)
(* a key, every voice is silent.                                           *)
toneEnded(v) == Data[v] > 0 /\ Ticks[v] = 0 /\ Tune[v][Data[v]].length > 1

ToneReleased ==
  IF sidPc = "end" THEN ctrl = silenced
                   ELSE \A v \in Voices : toneEnded(v) => ctrl[v] = "release"

(* Music that has begun comes to an end even if nobody presses a key.      *)
MusicEnds == (\E v \in Voices : Data[v] > 0) ~> sidPc = "end"

(* Together: the piece is played as it is written, to its end.             *)
MusicPlayed == [](VoicesTogether /\ ToneReleased) /\ BeatOnTime /\ MusicEnds
=============================================================================
