---------------------------- MODULE Programs_proofs ----------------------------
(***************************************************************************)
(* The programs for the machines that the repository carries, proved one   *)
(* after the other: each part has the inductive invariant of one module,   *)
(* the lemmas it rests on, the invariant kept by every action, and the     *)
(* theorem.  The arguments:                                                *)
(*                                                                         *)
(* PageFlip    the interrupt handler is quiet between the two statements   *)
(*             that change its flags, so the page shown is the loop's.     *)
(* JMonMemory  a loop has done its work exactly up to the cell its pointer *)
(*             has come to, and touched nothing else but its arguments.    *)
(* DiskCopy    the variables of the driver stand for a place in the copy   *)
(*             of one sector; every step is a step of SectorCopy or none.  *)
(* Overlays    the pages of the stored overlays lie apart, below nextPage, *)
(*             so that a later copy cannot overwrite an earlier one.       *)
(* WozMon      the line in the buffer is the keys edited, one by one.      *)
(* Samples     four loops: what the sieve has struck out, where an orbit   *)
(*             may be, what is behind the end of a file, what the screen   *)
(*             says.                                                       *)
(* DirWalk     the active calls go down one path from the start, so that   *)
(*             what was listed came from an entry that was passed.         *)
(* SidPlayer   the time waited is the distance of the clock to the next    *)
(*             beat, but for rounds of the clock byte; a voice is at its   *)
(*             end exactly when it has played the length of the piece.     *)
(***************************************************************************)
EXTENDS PageFlip, JMonMemory, DiskCopy, Overlays, WozMon, Samples, DirWalk,
        SidPlayer, SequenceTheorems, WellFoundedInduction, TLAPS

-----------------------------------------------------------------------------
(* The page demo (PageFlip).                                               *)

Before    == {"colors", "bank", "flags", "addr"}
InLoop    == {"loop", "draw1", "show1", "draw2", "show2"}
Behind    == {"restoreAddr", "restoreBank", "restoreFlags", "restoreColors", "end"}
Places    == Before \cup InLoop \cup Behind

(* The handler is quiet between the two statements that change its flags.  *)
Flags ==
  /\ flags = IF flipPc \in {"addr"} \cup InLoop
                            \cup {"restoreAddr", "restoreBank", "restoreFlags"}
             THEN "demo" ELSE "text"
  /\ flipPc \notin {"colors", "bank", "flags"} => saved.flags = "text"

(* The demo's bank is selected for as long as it can be drawn.             *)
Bank ==
  /\ bank = IF flipPc \in {"flags", "addr", "restoreAddr", "restoreBank"} \cup InLoop
            THEN "demo" ELSE "text"
  /\ flipPc \notin {"colors", "bank"} => saved.bank = "text"

Colors ==
  /\ colors = IF flipPc \in {"colors", "end"} THEN "text" ELSE "demo"
  /\ flipPc # "colors" => saved.colors = "text"

(* The address register holds the page the loop put there last.            *)
Addr ==
  /\ flipPc \in Before \cup (Behind \ {"restoreAddr"}) => addr = "text"
  /\ flipPc \notin Before => saved.addr = "text"
  /\ flipPc \in Before => latest = "none"
  /\ flipPc = "loop"  => addr = IF latest = "none" THEN "text" ELSE "page2"
  /\ flipPc = "draw1" => addr # "page1"
  /\ flipPc \in {"loop", "draw1"} => latest \in {"none", "page2"}
  /\ flipPc = "draw1" => addr = IF latest = "none" THEN "text" ELSE "page2"
  /\ flipPc = "show1" => latest = "page1"
  /\ flipPc = "draw2" => latest = "page1" /\ addr = "page1"
  /\ flipPc = "show2" => latest = "page2"

FlipIInv ==
  /\ flipPc \in Places
  /\ saved = [addr |-> saved.addr, bank |-> saved.bank,
              flags |-> saved.flags, colors |-> saved.colors]
  /\ Flags /\ Bank /\ Colors /\ Addr

LEMMA FlipInitIInv == FlipInit => FlipIInv
  BY DEF FlipInit, FlipIInv, Places, Before, InLoop, Behind, Flags, Bank, Colors, Addr

LEMMA FlipStep == FlipIInv /\ [FlipNext]_flipVars => FlipIInv'
<1> SUFFICES ASSUME FlipIInv, [FlipNext]_flipVars PROVE FlipIInv'
  OBVIOUS
<1> USE DEF FlipIInv, Places, Before, InLoop, Behind, Flags, Bank, Colors, Addr, step
<1>1. CASE setColors
  BY <1>1 DEF setColors
<1>2. CASE moveBank
  BY <1>2 DEF moveBank
<1>3. CASE changeFlags
  BY <1>3 DEF changeFlags
<1>4. CASE rememberAddr
  BY <1>4 DEF rememberAddr
<1>5. CASE enterLoop
  BY <1>5 DEF enterLoop
<1>6. CASE finishPage1
  BY <1>6 DEF finishPage1
<1>7. CASE showPage1
  BY <1>7 DEF showPage1
<1>8. CASE finishPage2
  BY <1>8 DEF finishPage2
<1>9. CASE showPage2
  BY <1>9 DEF showPage2
<1>10. CASE leaveLoop
  BY <1>10 DEF leaveLoop
<1>11. CASE restoreAddr
  BY <1>11 DEF restoreAddr
<1>12. CASE restoreBank
  BY <1>12 DEF restoreBank
<1>13. CASE restoreFlags
  BY <1>13 DEF restoreFlags
<1>14. CASE restoreColors
  BY <1>14 DEF restoreColors
<1>15. CASE kernalInterrupt
  BY <1>15 DEF kernalInterrupt
<1>16. CASE UNCHANGED flipVars
  BY <1>16 DEF flipVars
<1> QED
  BY <1>1, <1>2, <1>3, <1>4, <1>5, <1>6, <1>7, <1>8, <1>9, <1>10, <1>11,
     <1>12, <1>13, <1>14, <1>15, <1>16 DEF FlipNext

LEMMA FlipShows == FlipIInv => NoFlicker
  BY DEF FlipIInv, Places, Before, InLoop, Behind, Flags, Bank, Colors, Addr, NoFlicker,
         HiddenPageDrawn, LatestFrameShown, ScreenRestored, shown

(* Nobody sees a half-drawn frame, with the interrupt handler or without,  *)
(* and at the end the screen is as it was (fire.c, plasma.c).              *)
THEOREM FlickerFree == FlipSpec => []NoFlicker
<1>1. FlipSpec => []FlipIInv
  BY FlipInitIInv, FlipStep, PTL DEF FlipSpec
<1> QED
  BY <1>1, FlipShows, PTL

-----------------------------------------------------------------------------
(* The memory commands of JMon (JMonMemory).                               *)

Loops == {"DoCopy", "DoSearch", "DoVerify", "DoFill"}
Others == Space \ own       (* cells that hold no argument             *)

(* The loop of a command is at a cell of the range it was asked for.       *)
InRange == mem[SL] \in from..to /\ mem[EL] = to

UnchangedOthers == \A a \in Others : mem[a] = started[a]

JMonTyped ==
  /\ mem \in [Space -> Space] /\ started \in [Space -> Space]
  /\ jmonAt \in {"MainLoop", "GetAddress"} \cup Loops
  /\ command \in {"none"} \cup Loops
  /\ jmonAt = "GetAddress" => command \in Loops /\ asked \in 0..3
  /\ jmonAt \in Loops => command = jmonAt /\ ran

Entering == jmonAt = "GetAddress" => UnchangedOthers /\ report = <<>>

Filling ==
  jmonAt = "DoFill" /\ apart =>
    /\ InRange /\ mem[DA] = data
    /\ \A a \in Others : mem[a] = IF a \in from..(mem[SL] - 1) THEN data ELSE started[a]

separate == target \cap source = {} /\ source \cap own = {}

Copying ==
  jmonAt = "DoCopy" /\ apart =>
    /\ InRange /\ mem[DL] = place(mem[SL])
    /\ separate =>
         /\ \A a \in from..(mem[SL] - 1) : mem[place(a)] = started[a]
         /\ \A a \in Others \ target : mem[a] = started[a]

Searching ==
  jmonAt = "DoSearch" =>
    /\ UnchangedOthers /\ InRange /\ mem[DA] = data
    /\ source \cap own = {} => \A a \in from..(mem[SL] - 1) : started[a] # data

reported(a) == \E h \in 1..Len(report) : report[h] = a

Verifying ==
  jmonAt = "DoVerify" =>
    /\ UnchangedOthers /\ InRange /\ mem[DL] = place(mem[SL])
    /\ report \in Seq(Space) /\ \A h \in 1..Len(report) : report[h] < mem[SL]
    /\ \A h, j \in 1..Len(report) : h < j => report[h] < report[j]
    /\ source \cap own = {} /\ apart =>
         \A a \in from..(mem[SL] - 1) : reported(a) <=> started[a] # started[place(a)]

JMonIInv == /\ JMonTyped /\ Entering /\ Filling /\ Copying /\ Searching /\ Verifying
            /\ CommandsExact

-----------------------------------------------------------------------------
LEMMA Arguments ==
  /\ Top \in Nat /\ SL \in Space /\ EL \in Space /\ DL \in Space /\ DA \in Space
  /\ SL # EL /\ SL # DL /\ SL # DA /\ EL # DL /\ EL # DA /\ DL # DA
  /\ T1 \in Space /\ T1 \notin {SL, EL, DL, DA} /\ Text \in Space
  /\ Others = Space \ {T1, SL, EL, DL, DA}
  BY JMonAssumption DEF Others, own

(* Printing a string changes the scratch cell alone.                       *)
LEMMA Printed ==
  ASSUME NEW m \in [Space -> Space]
  PROVE  /\ printed(m) \in [Space -> Space]
         /\ \A a \in Space \ {T1} : printed(m)[a] = m[a]
  BY Arguments DEF printed

(* Addresses wrap around once at most.                                     *)
LEMMA Wrap ==
  ASSUME NEW n \in Nat, NEW w \in Nat, n < 2 * w
  PROVE  n % w = IF n >= w THEN n - w ELSE n
<1>1. CASE n < w
  BY <1>1, SMT
<1>2. CASE n >= w
  BY <1>2, SMT
<1> QED
  BY <1>1, <1>2

LEMMA Begun ==
  ASSUME started \in [Space -> Space]
  PROVE  /\ from \in Space /\ to \in Space /\ dest \in Space /\ data \in Space
         /\ from \in Int /\ to \in Int
<1>1. from \in Space /\ to \in Space /\ dest \in Space /\ data \in Space
  BY Arguments DEF from, to, dest, data
<1>2. Space \subseteq Int
  BY Arguments DEF Space
<1> QED
  BY <1>1, <1>2

placeAt(d, f, a) == (d + (a - f)) % (Top + 1)

LEMMA PlaceIsSum ==
  ASSUME NEW d \in Space, NEW f \in Space, NEW a \in Space, f <= a
  PROVE  placeAt(d, f, a) = IF d + (a - f) > Top THEN d + (a - f) - (Top + 1) ELSE d + (a - f)
<1>1. Top \in Nat /\ d \in 0..Top /\ f \in 0..Top /\ a \in 0..Top
  BY Arguments DEF Space
<1> DEFINE n == d + (a - f)
           w == Top + 1
<1>2. n \in Nat /\ w \in Nat /\ n < 2 * w /\ (n > Top <=> n >= w)
  BY <1>1
<1>3. placeAt(d, f, a) = n % w
  BY DEF placeAt
<1> HIDE DEF n, w
<1>4. n % w = IF n >= w THEN n - w ELSE n
  BY <1>2, Wrap
<1>5. placeAt(d, f, a) = IF n > Top THEN n - w ELSE n
  BY <1>2, <1>3, <1>4
<1> QED
  BY <1>1, <1>5 DEF n, w

LEMMA PlacesOf ==
  ASSUME NEW d \in Space, NEW f \in Space, NEW t \in Space
  PROVE  /\ \A a \in f..t : a \in Space /\ placeAt(d, f, a) \in Space
         /\ \A a \in f..t : a # t => placeAt(d, f, a + 1) = next(placeAt(d, f, a))
         /\ placeAt(d, f, f) = d
         /\ \A a, b \in f..t : placeAt(d, f, a) = placeAt(d, f, b) => a = b
<1> DEFINE p(a) == IF d + (a - f) > Top THEN d + (a - f) - (Top + 1) ELSE d + (a - f)
<1>1. Top \in Nat /\ d \in 0..Top /\ f \in 0..Top /\ t \in 0..Top
  BY Arguments DEF Space
<1>2. \A a \in f..t : a \in Space /\ f <= a
  BY <1>1 DEF Space
<1>3. \A a \in Space : f <= a => placeAt(d, f, a) = p(a)
  BY PlaceIsSum
<1>4. \A a \in f..t : placeAt(d, f, a) = p(a)
  BY <1>2, <1>3
<1>5. placeAt(d, f, f) = d
  <2>1. placeAt(d, f, f) = p(f)
    BY <1>1, <1>3
  <2>2. p(f) = d
    BY <1>1
  <2> QED
    BY <2>1, <2>2
<1>6. \A a \in f..t : placeAt(d, f, a) \in Space
  <2>1. \A a \in f..t : p(a) \in Space
    BY <1>1 DEF Space
  <2> QED
    BY <1>4, <2>1
<1>7. \A a, b \in f..t : placeAt(d, f, a) = placeAt(d, f, b) => a = b
  <2>1. \A a, b \in f..t : p(a) = p(b) => a = b
    BY <1>1
  <2> QED
    BY <1>4, <2>1
<1>8. ASSUME NEW a \in f..t, a # t
      PROVE  placeAt(d, f, a + 1) = next(placeAt(d, f, a))
  <2>1. a + 1 \in f..t
    BY <1>1, <1>8
  <2>2. placeAt(d, f, a + 1) = p(a + 1) /\ placeAt(d, f, a) = p(a)
    BY <1>4, <2>1
  <2>3. p(a + 1) = next(p(a))
    BY <1>1, <2>1 DEF next
  <2> QED
    BY <2>2, <2>3
<1> QED
  BY <1>2, <1>5, <1>6, <1>7, <1>8

LEMMA JMonPlaces ==
  ASSUME started \in [Space -> Space]
  PROVE  /\ \A a \in source : a \in Space /\ place(a) \in Space
         /\ \A a \in source : a # to => place(a + 1) = next(place(a))
         /\ place(from) = dest
         /\ \A a, b \in source : place(a) = place(b) => a = b
<1>1. from \in Space /\ to \in Space /\ dest \in Space
  BY Begun
<1>2. source = from..to /\ \A a : place(a) = placeAt(dest, from, a)
  BY DEF source, place, placeAt
<1> DEFINE d == dest  f == from  t == to
<1> HIDE DEF d, f, t
<1>3. d \in Space /\ f \in Space /\ t \in Space
  BY <1>1 DEF d, f, t
<1>4. /\ \A a \in f..t : a \in Space /\ placeAt(d, f, a) \in Space
      /\ \A a \in f..t : a # t => placeAt(d, f, a + 1) = next(placeAt(d, f, a))
      /\ placeAt(d, f, f) = d
      /\ \A a, b \in f..t : placeAt(d, f, a) = placeAt(d, f, b) => a = b
  BY <1>3, PlacesOf
<1> QED
  BY <1>2, <1>4 DEF d, f, t

LEMMA JMonInitIInv == JMonInit => JMonIInv
<1> SUFFICES ASSUME JMonInit PROVE JMonIInv
  OBVIOUS
<1>1. mem \in [Space -> Space] /\ started = mem /\ jmonAt = "MainLoop" /\ command = "none"
  BY JMonAssumption, Printed DEF JMonInit
<1>2. JMonTyped
  BY <1>1 DEF JMonTyped, Loops
<1>3. CommandsExact
  BY <1>1 DEF CommandsExact, FillExact, CopyExact, SearchFirst, VerifyComplete, OnlyArguments, finished
<1> QED
  BY <1>1, <1>2, <1>3 DEF JMonIInv, Entering, Filling, Copying, Searching, Verifying

(* What a loop was asked to do is not changed by it.                       *)
LEMMA SameRequest ==
  ASSUME UNCHANGED <<started, command, asked>>
  PROVE  /\ from' = from /\ to' = to /\ dest' = dest /\ data' = data
         /\ source' = source /\ target' = target /\ apart' = apart /\ ran' = ran
         /\ \A a : place(a)' = place(a)
         /\ separate' = separate
<1>1. from' = from /\ to' = to /\ dest' = dest /\ data' = data
  BY DEF from, to, dest, data
<1>2. source' = source /\ \A a : place(a)' = place(a)
  BY <1>1 DEF source, place
<1>3. target' = target /\ ran' = ran
  BY <1>1, <1>2 DEF target, ran
<1>4. apart' = apart
  BY <1>3 DEF apart
<1>5. separate' = separate
  BY <1>2, <1>3 DEF separate
<1> QED
  BY <1>1, <1>2, <1>3, <1>4, <1>5

-----------------------------------------------------------------------------
LEMMA UserStep ==
  ASSUME JMonIInv, JMonUser
  PROVE  JMonIInv'
<1>0. JMonTyped /\ Entering /\ CommandsExact
  BY DEF JMonIInv
<1>1. ASSUME NEW c \in Loops, GiveCommand(c)
      PROVE  JMonIInv'
  <2>1. /\ jmonAt' = "GetAddress" /\ command' = c /\ asked' = 0 /\ started' = mem /\ mem' = mem
        /\ report' = <<>>
    BY <1>1 DEF GiveCommand
  <2>2. JMonTyped'
    BY <1>0, <2>1 DEF JMonTyped, Loops
  <2>3. Entering'
    BY <2>1 DEF Entering, UnchangedOthers
  <2>4. CommandsExact'
    BY <2>1 DEF CommandsExact, FillExact, CopyExact, SearchFirst, VerifyComplete, OnlyArguments, finished
  <2> QED
    BY <2>1, <2>2, <2>3, <2>4 DEF JMonIInv, Filling, Copying, Searching, Verifying
<1>2. ASSUME NEW v \in Space, Enter(v)
      PROVE  JMonIInv'
  <2>1. /\ jmonAt = "GetAddress" /\ asked < 3 /\ asked' = asked + 1
        /\ mem' = [mem EXCEPT ![T1] = v, ![arguments[asked + 1]] = v]
        /\ UNCHANGED <<jmonAt, command, report, started, commands>>
    BY <1>2 DEF Enter
  <2>2. asked \in 0..3 /\ command \in Loops
    BY <1>0, <2>1 DEF JMonTyped
  <2>3. arguments[asked + 1] \in own /\ T1 \in own
    <3>1. asked + 1 \in {1, 2, 3}
      BY <2>1, <2>2
    <3>2. arguments = <<SL, EL, DL>> \/ arguments = <<SL, EL, DA>>
      BY <2>2 DEF arguments, Loops
    <3> QED
      BY <3>1, <3>2 DEF own
  <2>4. mem' \in [Space -> Space] /\ \A a \in Others : mem'[a] = mem[a]
    BY <1>0, <2>1, <2>3 DEF JMonTyped, Others
  <2>5. JMonTyped'
    BY <1>0, <2>1, <2>2, <2>4 DEF JMonTyped, Loops
  <2>6. Entering'
    BY <1>0, <2>1, <2>4 DEF Entering, UnchangedOthers
  <2>7. CommandsExact'
    BY <2>1 DEF CommandsExact, FillExact, CopyExact, SearchFirst, VerifyComplete, OnlyArguments, finished
  <2> QED
    BY <2>1, <2>5, <2>6, <2>7 DEF JMonIInv, Filling, Copying, Searching, Verifying
<1>3. CASE Escape
  <2>1. /\ jmonAt = "GetAddress" /\ asked < 3 /\ jmonAt' = "MainLoop"
        /\ mem' = printed(mem)
        /\ UNCHANGED <<command, asked, report, started, commands>>
    BY <1>3 DEF Escape
  <2>6. mem' \in [Space -> Space] /\ \A a \in Others : mem'[a] = mem[a]
    BY <1>0, <2>1, Printed, Arguments DEF JMonTyped
  <2>2. JMonTyped'
    BY <1>0, <2>1, <2>6 DEF JMonTyped, Loops
  <2>3. UnchangedOthers'
    BY <1>0, <2>1, <2>6 DEF Entering, UnchangedOthers
  <2>4. ~ran /\ ran' = ran
    BY <1>0, <2>1, SameRequest DEF ran, JMonTyped
  <2>5. CommandsExact'
    BY <2>1, <2>3, <2>4 DEF CommandsExact, FillExact, CopyExact, SearchFirst, VerifyComplete,
                            OnlyArguments, finished, UnchangedOthers, Others
  <2> QED
    BY <2>1, <2>2, <2>5 DEF JMonIInv, Entering, Filling, Copying, Searching, Verifying
<1> QED
  BY <1>1, <1>2, <1>3 DEF JMonUser, Loops

LEMMA CheckStep ==
  ASSUME JMonIInv, CheckRange
  PROVE  JMonIInv'
<1>0. JMonTyped /\ Entering
  BY DEF JMonIInv
<1>1. /\ jmonAt = "GetAddress" /\ asked = 3 /\ started' = mem
      /\ jmonAt' = (IF invalidRange \/ overlapping THEN "MainLoop" ELSE command)
      /\ mem' = (IF invalidRange \/ overlapping THEN printed(mem) ELSE mem)
      /\ UNCHANGED <<command, asked, report, commands>>
  BY DEF CheckRange
<1>2. /\ command \in Loops /\ mem \in [Space -> Space] /\ started' \in [Space -> Space]
      /\ mem' \in [Space -> Space] /\ \A a \in Others : mem'[a] = mem[a]
  BY <1>0, <1>1, Printed, Arguments DEF JMonTyped
<1>3. mem[SL] \in Int /\ mem[EL] \in Int /\ mem[DL] \in Int
  <2>1. mem[SL] \in Space /\ mem[EL] \in Space /\ mem[DL] \in Space
    BY <1>2, Arguments
  <2> QED
    BY <2>1 DEF Space
<1>4. /\ from' = mem[SL] /\ to' = mem[EL] /\ dest' = mem[DL] /\ data' = mem[DA]
  BY <1>1 DEF from, to, dest, data
<1>5. ran' <=> ~(invalidRange \/ overlapping)
  BY <1>1, <1>3, <1>4 DEF ran, invalidRange, overlapping
<1>6. JMonTyped'
  BY <1>0, <1>1, <1>2, <1>5 DEF JMonTyped, Loops
<1>7. UnchangedOthers'
  BY <1>1, <1>2 DEF UnchangedOthers
<1>8. CASE invalidRange \/ overlapping
  <2>1. jmonAt' = "MainLoop" /\ ~ran'
    BY <1>1, <1>5, <1>8
  <2>2. CommandsExact'
    BY <2>1, <1>7 DEF CommandsExact, FillExact, CopyExact, SearchFirst, VerifyComplete,
                      OnlyArguments, finished, UnchangedOthers, Others
  <2> QED
    BY <1>6, <2>1, <2>2 DEF JMonIInv, Entering, Filling, Copying, Searching, Verifying
<1>9. CASE ~(invalidRange \/ overlapping)
  <2>1. jmonAt' = command /\ ran' /\ jmonAt' \in Loops
    BY <1>1, <1>2, <1>5, <1>9
  <2>2. mem'[SL] = from' /\ mem'[EL] = to' /\ mem'[DL] = dest' /\ mem'[DA] = data'
    BY <1>1, <1>4, <1>9
  <2>3. from' < to' /\ from' \in Int /\ to' \in Int
    BY <1>3, <1>4, <1>9 DEF invalidRange
  <2>4. InRange'
    BY <2>2, <2>3 DEF InRange
  <2>5. placeAt(dest', from', from') = dest'
    <3>1. from' \in Space /\ dest' \in Space
      BY <1>2, <1>4, Arguments
    <3> QED
      BY <3>1, PlacesOf
  <2>6. place(from)' = dest'
    BY <2>5 DEF place, placeAt
  <2>7. \A a : a \notin from'..(mem'[SL] - 1)
    BY <2>2, <2>3
  <2>8. \A a \in Others : mem'[a] = started'[a]
    BY <1>7 DEF UnchangedOthers
  <2>9. Filling' /\ Copying'
    BY <2>2, <2>4, <2>6, <2>7, <2>8 DEF Filling, Copying
  <2>10. Searching'
    BY <1>7, <2>2, <2>4, <2>7 DEF Searching
  <2>13. Verifying'
    <3>1. report = <<>>
      BY <1>0, <1>1 DEF Entering
    <3>2. report' = <<>> /\ Len(report') = 0 /\ report' \in Seq(Space)
      BY <1>1, <3>1
    <3>3. \A h : h \notin 1..Len(report')
      BY <3>2
    <3> QED
      BY <1>7, <2>2, <2>4, <2>6, <2>7, <3>2, <3>3 DEF Verifying
  <2>11. CommandsExact'
    BY <2>1 DEF Loops, CommandsExact, FillExact, CopyExact, SearchFirst, VerifyComplete, OnlyArguments, finished
  <2>12. Entering'
    BY <2>1 DEF Entering, Loops
  <2> QED
    BY <1>6, <2>9, <2>10, <2>11, <2>12, <2>13 DEF JMonIInv
<1> QED
  BY <1>8, <1>9

-----------------------------------------------------------------------------
(* One pass of a loop: the end, or the addresses counted up.               *)
LEMMA NextAddress ==
  /\ \A a \in Space : next(a) \in Space
  /\ \A a, b \in Space : a < b => next(a) = a + 1
  BY Arguments DEF Space, next

LEMMA Advanced ==
  ASSUME NEW m \in [Space -> Space], NEW counted, advance(m, counted), jmonAt \in Loops
  PROVE  /\ mem' \in [Space -> Space] /\ jmonAt' \in {"MainLoop", jmonAt}
         /\ m[SL] = m[EL] => /\ jmonAt' = "MainLoop"
                             /\ \A a \in Space \ {T1} : mem'[a] = m[a]
         /\ m[SL] # m[EL] => /\ jmonAt' = jmonAt
                            /\ \A a \in Space : mem'[a] = IF a \in counted THEN next(m[a]) ELSE m[a]
  BY NextAddress, Printed DEF advance

LEMMA LoopTyped ==
  ASSUME JMonTyped, jmonAt \in Loops, mem' \in [Space -> Space], jmonAt' \in {"MainLoop", jmonAt},
         UNCHANGED <<command, asked, started>>
  PROVE  JMonTyped'
<1>1. ran' = ran
  BY SameRequest
<1> QED
  BY <1>1 DEF JMonTyped, Loops

LEMMA FillStep ==
  ASSUME JMonIInv, DoFill
  PROVE  JMonIInv'
<1> DEFINE here == mem[SL]
           m == [mem EXCEPT ![here] = mem[DA]]
<1>1. /\ jmonAt = "DoFill" /\ advance(m, {SL})
      /\ UNCHANGED <<command, asked, report, started, commands>>
  BY DEF DoFill
<1>2. /\ JMonTyped /\ Filling /\ command = "DoFill" /\ ran
      /\ mem \in [Space -> Space] /\ started \in [Space -> Space]
  BY <1>1 DEF JMonIInv, JMonTyped, Loops
<1>3. m \in [Space -> Space] /\ here \in Space
  BY <1>2, Arguments
<1>4. /\ mem' \in [Space -> Space] /\ jmonAt' \in {"MainLoop", jmonAt}
      /\ m[SL] = m[EL] => /\ jmonAt' = "MainLoop"
                          /\ \A a \in Space \ {T1} : mem'[a] = m[a]
      /\ m[SL] # m[EL] => /\ jmonAt' = jmonAt
                         /\ \A a \in Space : mem'[a] = IF a \in {SL} THEN next(m[a]) ELSE m[a]
  <2> HIDE DEF m
  <2> QED
    BY <1>1, <1>3, Advanced DEF Loops
<1>5. JMonTyped'
  BY <1>1, <1>2, <1>4, LoopTyped DEF Loops
<1>6. /\ from' = from /\ to' = to /\ dest' = dest /\ data' = data
      /\ source' = source /\ target' = target /\ apart' = apart /\ ran' = ran
  BY <1>1, SameRequest
<1>7. ASSUME apart
      PROVE  /\ here \in from..to /\ from \in Int /\ to \in Space
             /\ m[SL] = here /\ m[EL] = to /\ m[DA] = data
             /\ \A a \in Others : m[a] = IF a \in from..here THEN data ELSE started[a]
  <2>1. /\ here \in from..to /\ mem[EL] = to /\ mem[DA] = data
        /\ \A a \in Others : mem[a] = IF a \in from..(here - 1) THEN data ELSE started[a]
    BY <1>1, <1>2, <1>7 DEF Filling, InRange
  <2>2. here \in Others
    BY <1>2, <1>3, <1>7, <2>1 DEF apart, target, source, Others
  <2>3. from \in Int /\ to \in Int /\ to \in Space
    BY <1>2, Begun
  <2>4. \A a \in Space : m[a] = IF a = here THEN mem[DA] ELSE mem[a]
    BY <1>2
  <2> HIDE DEF m
  <2>5. m[SL] = here /\ m[EL] = to /\ m[DA] = data
    BY <2>1, <2>2, <2>4, Arguments DEF own
  <2> HIDE DEF here
  <2>6. \A a \in Others : m[a] = IF a \in from..here THEN data ELSE started[a]
    <3>1. ASSUME NEW a \in Others
          PROVE  m[a] = IF a \in from..here THEN data ELSE started[a]
      <4>1. a \in Space /\ a \in Int
        BY Arguments DEF Others, Space
      <4>2. a \in from..here <=> a = here \/ a \in from..(here - 1)
        BY <2>1, <2>3, <4>1
      <4> QED
        BY <2>1, <2>4, <4>1, <4>2
    <3> QED
      BY <3>1
  <2> QED
    BY <2>1, <2>3, <2>5, <2>6
<1> HIDE DEF m, here
<1>8. Filling'
  <2> SUFFICES ASSUME jmonAt' = "DoFill", apart
               PROVE  /\ mem'[SL] \in from..to /\ mem'[EL] = to /\ mem'[DA] = data
                      /\ \A a \in Others : mem'[a] = IF a \in from..(mem'[SL] - 1) THEN data ELSE started[a]
    BY <1>1, <1>6 DEF Filling, InRange
  <2>1. m[SL] # m[EL]
    BY <1>4
  <2>2. here < to /\ here \in Space
    BY <1>3, <1>7, <2>1 DEF Space
  <2>3. mem'[SL] = here + 1
    BY <1>4, <1>7, <2>1, <2>2, NextAddress, Arguments
  <2>4. mem'[EL] = to /\ mem'[DA] = data
    BY <1>4, <1>7, <2>1, Arguments
  <2>5. \A a \in Others : mem'[a] = m[a]
    BY <1>4, <2>1, Arguments
  <2>6. here + 1 \in from..to /\ (here + 1) - 1 = here
    BY <1>7, <2>2, Arguments DEF Space
  <2> QED
    BY <1>7, <2>3, <2>4, <2>5, <2>6
<1>9. CommandsExact'
  <2>1. FillExact'
    <3> SUFFICES ASSUME jmonAt' = "MainLoop", apart
                 PROVE  \A a \in Space \ own : mem'[a] = IF a \in source THEN data ELSE started[a]
      BY <1>1, <1>6 DEF FillExact, finished
    <3>1. here = to /\ \A a \in Others : mem'[a] = m[a]
      BY <1>1, <1>4, <1>7, Arguments
    <3> QED
      BY <1>7, <3>1 DEF Others, source
  <2>2. CopyExact' /\ SearchFirst' /\ VerifyComplete' /\ OnlyArguments'
    BY <1>1, <1>2, <1>6 DEF CopyExact, SearchFirst, VerifyComplete, OnlyArguments, finished
  <2> QED
    BY <2>1, <2>2 DEF CommandsExact
<1> QED
  BY <1>1, <1>4, <1>5, <1>8, <1>9 DEF JMonIInv, Entering, Copying, Searching, Verifying

LEMMA JMonCopyStep ==
  ASSUME JMonIInv, DoCopy
  PROVE  JMonIInv'
<1> DEFINE here == mem[SL]
           there == mem[DL]
           m == [mem EXCEPT ![there] = mem[here]]
<1>1. /\ jmonAt = "DoCopy" /\ advance(m, {SL, DL})
      /\ UNCHANGED <<command, asked, report, started, commands>>
  BY DEF DoCopy
<1>2. /\ JMonTyped /\ Copying /\ command = "DoCopy" /\ ran
      /\ mem \in [Space -> Space] /\ started \in [Space -> Space]
  BY <1>1 DEF JMonIInv, JMonTyped, Loops
<1>3. m \in [Space -> Space] /\ here \in Space /\ there \in Space /\ mem[here] \in Space
  BY <1>2, Arguments
<1>4. /\ mem' \in [Space -> Space] /\ jmonAt' \in {"MainLoop", jmonAt}
      /\ m[SL] = m[EL] => /\ jmonAt' = "MainLoop"
                          /\ \A a \in Space \ {T1} : mem'[a] = m[a]
      /\ m[SL] # m[EL] => /\ jmonAt' = jmonAt
                         /\ \A a \in Space : mem'[a] = IF a \in {SL, DL} THEN next(m[a]) ELSE m[a]
  <2> HIDE DEF m
  <2> QED
    BY <1>1, <1>3, Advanced DEF Loops
<1>5. JMonTyped'
  BY <1>1, <1>2, <1>4, LoopTyped DEF Loops
<1>6. /\ from' = from /\ to' = to /\ dest' = dest /\ data' = data
      /\ source' = source /\ target' = target /\ apart' = apart /\ ran' = ran
      /\ separate' = separate /\ \A a : place(a)' = place(a)
  BY <1>1, SameRequest
<1>7. from \in Int /\ to \in Int /\ to \in Space /\ source = from..to
  BY <1>2, Begun DEF source
<1>8. ASSUME NEW a \in source
      PROVE  a \in Space /\ place(a) \in Space /\ place(a) \in target
  BY <1>2, JMonPlaces DEF target
<1>9. ASSUME apart
      PROVE  /\ here \in from..to /\ there = place(here) /\ there \in target
             /\ m[SL] = here /\ m[EL] = to /\ m[DL] = there
             /\ separate => /\ \A a \in from..here : m[place(a)] = started[a]
                            /\ \A a \in Others \ target : m[a] = started[a]
  <2>1. /\ here \in from..to /\ mem[EL] = to /\ there = place(here)
        /\ separate => /\ \A a \in from..(here - 1) : mem[place(a)] = started[a]
                       /\ \A a \in Others \ target : mem[a] = started[a]
    BY <1>1, <1>2, <1>9 DEF Copying, InRange
  <2>2. there \in target /\ there \notin own
    BY <1>7, <1>8, <1>9, <2>1 DEF apart
  <2>3. \A a \in Space : m[a] = IF a = there THEN mem[here] ELSE mem[a]
    BY <1>2
  <2> HIDE DEF m
  <2>4. m[SL] = here /\ m[EL] = to /\ m[DL] = there
    BY <2>1, <2>2, <2>3, Arguments DEF own
  <2> HIDE DEF here, there
  <2>5. ASSUME separate
        PROVE  /\ \A a \in from..here : m[place(a)] = started[a]
               /\ \A a \in Others \ target : m[a] = started[a]
    <3>1. mem[here] = started[here]
      <4>1. here \in Others \ target
        BY <1>3, <1>7, <2>1, <2>5 DEF separate, Others
      <4> QED
        BY <2>1, <2>5, <4>1
    <3>2. ASSUME NEW a \in from..here
          PROVE  m[place(a)] = started[a]
      <4>1. a \in source /\ here \in source /\ (a = here \/ a \in from..(here - 1))
        BY <1>7, <2>1, <3>2
      <4>2. CASE a = here
        BY <1>3, <2>1, <2>3, <3>1, <4>2
      <4>3. CASE a # here
        <5>1. place(a) # there /\ place(a) \in Space
          BY <1>2, <2>1, <4>1, <4>3, JMonPlaces
        <5>2. a \in from..(here - 1)
          BY <4>1, <4>3
        <5> QED
          BY <2>1, <2>3, <2>5, <5>1, <5>2
      <4> QED
        BY <4>2, <4>3
    <3>3. \A a \in Others \ target : m[a] = started[a]
      BY <2>1, <2>2, <2>3, <2>5 DEF Others
    <3> QED
      BY <3>2, <3>3
  <2> QED
    BY <2>1, <2>2, <2>4, <2>5
<1> HIDE DEF m, here, there
<1>10. Copying'
  <2> SUFFICES ASSUME jmonAt' = "DoCopy", apart
               PROVE  /\ mem'[SL] \in from..to /\ mem'[EL] = to /\ mem'[DL] = place(mem'[SL])
                      /\ separate =>
                           /\ \A a \in from..(mem'[SL] - 1) : mem'[place(a)] = started[a]
                           /\ \A a \in Others \ target : mem'[a] = started[a]
    BY <1>1, <1>6 DEF Copying, InRange, place
  <2>1. m[SL] # m[EL]
    BY <1>4
  <2>2. here < to /\ here # to /\ here \in source /\ here \in Int
    BY <1>7, <1>9, <2>1
  <2>3. mem'[SL] = here + 1
    BY <1>3, <1>4, <1>7, <1>9, <2>1, <2>2, NextAddress, Arguments
  <2>4. mem'[EL] = to
    BY <1>4, <1>9, <2>1, Arguments
  <2>5. mem'[DL] = place(here + 1)
    <3>1. mem'[DL] = next(place(here))
      BY <1>4, <1>9, <2>1, Arguments
    <3> QED
      BY <1>2, <2>2, <3>1, JMonPlaces
  <2>6. \A a \in Others : mem'[a] = m[a]
    BY <1>4, <2>1, Arguments
  <2>7. here + 1 \in from..to /\ (here + 1) - 1 = here
    BY <1>7, <1>9, <2>2
  <2>8. ASSUME separate
        PROVE  /\ \A a \in from..here : mem'[place(a)] = started[a]
               /\ \A a \in Others \ target : mem'[a] = started[a]
    <3>1. \A a \in from..here : a \in source
      BY <1>7, <2>2
    <3>2. \A a \in source : place(a) \in Others
      BY <1>8 DEF Others, apart
    <3> QED
      BY <1>9, <2>6, <2>8, <3>1, <3>2
  <2> QED
    BY <2>3, <2>4, <2>5, <2>7, <2>8
<1>11. CommandsExact'
  <2>1. CopyExact'
    <3> SUFFICES ASSUME jmonAt' = "MainLoop", apart, separate
                 PROVE  /\ \A a \in source : mem'[place(a)] = started[a]
                        /\ \A a \in Space \ (target \cup own) : mem'[a] = started[a]
      BY <1>1, <1>6 DEF CopyExact, finished, separate
    <3>1. here = to /\ \A a \in Others : mem'[a] = m[a]
      BY <1>1, <1>4, <1>9, Arguments
    <3>2. \A a \in source : place(a) \in Others
      BY <1>8 DEF Others, apart
    <3> QED
      BY <1>7, <1>9, <3>1, <3>2 DEF Others
  <2>2. FillExact' /\ SearchFirst' /\ VerifyComplete' /\ OnlyArguments'
    BY <1>1, <1>2, <1>6 DEF FillExact, SearchFirst, VerifyComplete, OnlyArguments, finished
  <2> QED
    BY <2>1, <2>2 DEF CommandsExact
<1> QED
  BY <1>1, <1>4, <1>5, <1>10, <1>11 DEF JMonIInv, Entering, Filling, Searching, Verifying

LEMMA SearchStep ==
  ASSUME JMonIInv, DoSearch
  PROVE  JMonIInv'
<1> DEFINE here == mem[SL]
<1>1. /\ jmonAt = "DoSearch"
      /\ IF mem[here] = mem[DA]
         THEN jmonAt' = "MainLoop" /\ report' = <<here>> /\ mem' = printed(mem)
         ELSE /\ advance(mem, {SL})
              /\ report' = IF mem[SL] = mem[EL] THEN <<NotFound>> ELSE report
      /\ UNCHANGED <<command, asked, started, commands>>
  BY DEF DoSearch
<1>2. /\ JMonTyped /\ Searching /\ command = "DoSearch" /\ ran
      /\ mem \in [Space -> Space] /\ started \in [Space -> Space]
  BY <1>1 DEF JMonIInv, JMonTyped, Loops
<1>3. /\ from' = from /\ to' = to /\ dest' = dest /\ data' = data
      /\ source' = source /\ target' = target /\ apart' = apart /\ ran' = ran
  BY <1>1, SameRequest
<1>4. from \in Int /\ to \in Int /\ to \in Space /\ source = from..to /\ here \in Space
  BY <1>2, Begun, Arguments DEF source
<1>5. /\ UnchangedOthers /\ here \in from..to /\ mem[EL] = to /\ mem[DA] = data
      /\ source \cap own = {} => \A a \in from..(here - 1) : started[a] # data
  BY <1>1, <1>2 DEF Searching, InRange
<1>6. source \cap own = {} => mem[here] = started[here]
  <2> SUFFICES ASSUME source \cap own = {} PROVE mem[here] = started[here]
    OBVIOUS
  <2>1. here \in Others
    BY <1>4, <1>5 DEF Others
  <2> QED
    BY <1>5, <2>1 DEF UnchangedOthers
<1> HIDE DEF here
<1>7. ASSUME mem[here] = mem[DA]
      PROVE  JMonIInv'
  <2>1. /\ jmonAt' = "MainLoop" /\ report' = <<here>>
        /\ mem' \in [Space -> Space] /\ \A a \in Others : mem'[a] = mem[a]
    BY <1>1, <1>2, <1>7, Printed, Arguments
  <2>2. JMonTyped'
    BY <1>1, <1>2, <2>1, LoopTyped DEF Loops
  <2>3. SearchFirst'
    <3> SUFFICES ASSUME source \cap own = {}
                 PROVE  IF report' = <<NotFound>>
                        THEN \A a \in source : started[a] # data
                        ELSE LET f == report'[1] IN /\ f \in source /\ started[f] = data
                                                   /\ \A a \in from..(f - 1) : started[a] # data
      BY <1>1, <1>3 DEF SearchFirst
    <3>1. report'[1] = here /\ report' # <<NotFound>>
      <4>1. here # NotFound
        BY <1>4, Arguments DEF Space, NotFound
      <4> QED
        BY <2>1, <4>1
    <3>2. here \in source /\ started[here] = data /\ \A a \in from..(here - 1) : started[a] # data
      BY <1>4, <1>5, <1>6, <1>7
    <3> QED
      BY <3>1, <3>2
  <2>4. OnlyArguments'
    BY <1>1, <1>5, <2>1 DEF OnlyArguments, UnchangedOthers, Others
  <2>5. FillExact' /\ CopyExact' /\ VerifyComplete'
    BY <1>1, <1>2 DEF FillExact, CopyExact, VerifyComplete, finished
  <2> QED
    BY <2>1, <2>2, <2>3, <2>4, <2>5
       DEF JMonIInv, CommandsExact, Entering, Filling, Copying, Searching, Verifying
<1>8. ASSUME mem[here] # mem[DA]
      PROVE  JMonIInv'
  <2>1. /\ mem' \in [Space -> Space] /\ jmonAt' \in {"MainLoop", jmonAt}
        /\ mem[SL] = mem[EL] => /\ jmonAt' = "MainLoop"
                                /\ \A a \in Space \ {T1} : mem'[a] = mem[a]
        /\ mem[SL] # mem[EL] => /\ jmonAt' = jmonAt
                           /\ \A a \in Space : mem'[a] = IF a \in {SL} THEN next(mem[a]) ELSE mem[a]
    BY <1>1, <1>2, <1>8, Advanced DEF Loops
  <2>2. report' = IF mem[SL] = mem[EL] THEN <<NotFound>> ELSE report
    BY <1>1, <1>8
  <2>3. JMonTyped'
    BY <1>1, <1>2, <2>1, LoopTyped DEF Loops
  <2>4. UnchangedOthers'
    BY <1>1, <1>5, <2>1, Arguments DEF UnchangedOthers
  <2>5. ASSUME source \cap own = {}
        PROVE  \A a \in from..here : started[a] # data
    <3>1. started[here] # data
      BY <1>5, <1>6, <1>8, <2>5
    <3>2. \A a \in from..here : a = here \/ a \in from..(here - 1)
      BY <1>4, <1>5
    <3> QED
      BY <1>5, <2>5, <3>1, <3>2
  <2>6. CASE mem[SL] = mem[EL]
    <3>1. jmonAt' = "MainLoop" /\ report' = <<NotFound>> /\ here = to
      BY <1>5, <2>1, <2>2, <2>6 DEF here
    <3>2. SearchFirst'
      BY <1>1, <1>3, <1>4, <2>5, <3>1 DEF SearchFirst
    <3>3. OnlyArguments'
      BY <1>1, <2>4, <3>1 DEF OnlyArguments, UnchangedOthers, Others
    <3>4. FillExact' /\ CopyExact' /\ VerifyComplete'
      BY <1>1, <1>2 DEF FillExact, CopyExact, VerifyComplete, finished
    <3> QED
      BY <2>3, <3>1, <3>2, <3>3, <3>4
         DEF JMonIInv, CommandsExact, Entering, Filling, Copying, Searching, Verifying
  <2>7. CASE mem[SL] # mem[EL]
    <3>1. jmonAt' = "DoSearch" /\ \A a \in Space : mem'[a] = IF a \in {SL} THEN next(mem[a]) ELSE mem[a]
      BY <1>1, <2>1, <2>7
    <3>2. here < to
      BY <1>4, <1>5, <2>7 DEF here
    <3>3. mem'[SL] = here + 1
      BY <1>4, <3>1, <3>2, NextAddress, Arguments DEF here
    <3>4. mem'[EL] = to /\ mem'[DA] = data
      BY <1>5, <3>1, Arguments
    <3>5. here + 1 \in from..to /\ (here + 1) - 1 = here
      BY <1>4, <1>5, <3>2
    <3>6. InRange'
      BY <1>3, <3>3, <3>4, <3>5 DEF InRange
    <3>7. source' \cap own = {} => \A a \in from'..(mem'[SL] - 1) : started'[a] # data'
      BY <1>1, <1>3, <2>5, <3>3, <3>5
    <3>8. Searching'
      BY <1>3, <2>4, <3>4, <3>6, <3>7 DEF Searching
    <3>9. CommandsExact'
      BY <3>1 DEF CommandsExact, FillExact, CopyExact, SearchFirst, VerifyComplete, OnlyArguments, finished
    <3> QED
      BY <2>3, <3>1, <3>8, <3>9 DEF JMonIInv, Entering, Filling, Copying, Verifying
  <2> QED
    BY <2>6, <2>7
<1> QED
  BY <1>7, <1>8

LEMMA VerifyStep ==
  ASSUME JMonIInv, DoVerify
  PROVE  JMonIInv'
<1> DEFINE here == mem[SL]
           there == mem[DL]
           m == IF mem[here] = mem[there] THEN mem ELSE printed(mem)
<1>1. /\ jmonAt = "DoVerify" /\ advance(m, {SL, DL})
      /\ report' = (IF mem[here] = mem[there] THEN report ELSE Append(report, here))
      /\ UNCHANGED <<command, asked, started, commands>>
  BY DEF DoVerify
<1>2. /\ JMonTyped /\ Verifying /\ command = "DoVerify" /\ ran
      /\ mem \in [Space -> Space] /\ started \in [Space -> Space]
  BY <1>1 DEF JMonIInv, JMonTyped, Loops
<1>3. /\ from' = from /\ to' = to /\ dest' = dest /\ data' = data
      /\ source' = source /\ target' = target /\ apart' = apart /\ ran' = ran
      /\ \A a : place(a)' = place(a)
  BY <1>1, SameRequest
<1>4. from \in Int /\ to \in Int /\ to \in Space /\ source = from..to /\ here \in Space /\ here \in Int
  <2>1. Space \subseteq Int
    BY Arguments DEF Space
  <2> QED
    BY <1>2, <2>1, Begun, Arguments DEF source
<1>5. /\ UnchangedOthers /\ here \in from..to /\ mem[EL] = to /\ there = place(here)
      /\ report \in Seq(Space) /\ \A h \in 1..Len(report) : report[h] < here
      /\ \A h, j \in 1..Len(report) : h < j => report[h] < report[j]
      /\ source \cap own = {} /\ apart =>
           \A a \in from..(here - 1) : reported(a) <=> started[a] # started[place(a)]
  BY <1>1, <1>2 DEF Verifying, InRange
<1>6. /\ mem' \in [Space -> Space] /\ jmonAt' \in {"MainLoop", jmonAt}
      /\ mem[SL] = mem[EL] => /\ jmonAt' = "MainLoop"
                              /\ \A a \in Space \ {T1} : mem'[a] = mem[a]
      /\ mem[SL] # mem[EL] =>
           /\ jmonAt' = jmonAt
           /\ \A a \in Space \ {T1} : mem'[a] = IF a \in {SL, DL} THEN next(mem[a]) ELSE mem[a]
  <2>1. m \in [Space -> Space] /\ \A a \in Space \ {T1} : m[a] = mem[a]
    BY <1>2, Printed
  <2>2. m[SL] = mem[SL] /\ m[EL] = mem[EL]
    BY <2>1, Arguments
  <2> HIDE DEF m
  <2>3. /\ mem' \in [Space -> Space] /\ jmonAt' \in {"MainLoop", jmonAt}
        /\ m[SL] = m[EL] => /\ jmonAt' = "MainLoop"
                            /\ \A a \in Space \ {T1} : mem'[a] = m[a]
        /\ m[SL] # m[EL] => /\ jmonAt' = jmonAt
                            /\ \A a \in Space : mem'[a] = IF a \in {SL, DL} THEN next(m[a]) ELSE m[a]
    BY <1>1, <2>1, Advanced DEF Loops
  <2> QED
    BY <2>1, <2>2, <2>3
<1> HIDE DEF m
<1>7. JMonTyped'
  BY <1>1, <1>2, <1>6, LoopTyped DEF Loops
<1>8. UnchangedOthers'
  BY <1>1, <1>5, <1>6, Arguments DEF UnchangedOthers
<1>9. ASSUME source \cap own = {}, apart
      PROVE  mem[here] = started[here] /\ mem[there] = started[place(here)]
  <2>1. here \in source /\ here \in Others
    BY <1>4, <1>5, <1>9 DEF Others
  <2>2. there \in target /\ there \in Space
    BY <1>2, <1>5, <2>1, JMonPlaces DEF target
  <2>3. there \in Others
    BY <1>9, <2>2 DEF Others, apart
  <2> QED
    BY <1>5, <2>1, <2>3 DEF UnchangedOthers
<1>10. /\ report' \in Seq(Space) /\ \A h \in 1..Len(report') : report'[h] < here + 1
       /\ \A h, j \in 1..Len(report') : h < j => report'[h] < report'[j]
       /\ \A a : reported(a)' <=> reported(a) \/ (a = here /\ mem[here] # mem[there])
  <2> DEFINE n == Len(report)
  <2>1. n \in Nat /\ \A h \in 1..n : report[h] \in Space /\ report[h] \in Int
    <3>1. Space \subseteq Int
      BY Arguments DEF Space
    <3> QED
      BY <1>5, <3>1, LenProperties, ElementOfSeq
  <2>2. CASE mem[here] = mem[there]
    <3>1. report' = report
      BY <1>1, <2>2
    <3>2. \A h \in 1..n : report[h] < here + 1
      BY <1>4, <1>5, <2>1
    <3> QED
      BY <1>5, <2>2, <3>1, <3>2 DEF reported
  <2>3. CASE mem[here] # mem[there]
    <3> HIDE DEF here, there
    <3>1. report' = Append(report, here)
      BY <1>1, <2>3
    <3>2. /\ report' \in Seq(Space) /\ Len(report') = n + 1 /\ report'[n + 1] = here
          /\ \A h \in 1..n : report'[h] = report[h]
      BY <1>4, <1>5, <3>1, AppendProperties
    <3> HIDE DEF n
    <3>3. \A h \in 1..(n + 1) : h = n + 1 \/ h \in 1..n
      BY <2>1
    <3>4. \A h \in 1..n : h \in 1..(n + 1) /\ report[h] < here
      BY <1>5, <2>1 DEF n
    <3>5. \A h \in 1..(n + 1) : report'[h] < here + 1
      BY <1>4, <2>1, <3>2, <3>3, <3>4
    <3>6. \A h, j \in 1..(n + 1) : h < j => report'[h] < report'[j]
      <4>1. ASSUME NEW h \in 1..(n + 1), NEW j \in 1..(n + 1), h < j
            PROVE  report'[h] < report'[j]
        <5>1. h \in 1..n
          BY <2>1, <4>1
        <5>2. CASE j = n + 1
          BY <3>2, <3>4, <5>1, <5>2
        <5>3. CASE j \in 1..n
          BY <1>5, <3>2, <4>1, <5>1, <5>3 DEF n
        <5> QED
          BY <3>3, <5>2, <5>3
      <4> QED
        BY <4>1
    <3>7. \A a : (\E h \in 1..(n + 1) : report'[h] = a) <=> (\E h \in 1..n : report[h] = a) \/ a = here
      <4>1. n + 1 \in 1..(n + 1)
        BY <2>1
      <4> QED
        BY <3>2, <3>3, <3>4, <4>1
    <3> QED
      BY <2>3, <3>2, <3>5, <3>6, <3>7 DEF n, reported
  <2> QED
    BY <2>2, <2>3
<1>11. ASSUME source \cap own = {}, apart
       PROVE  \A a \in from..here : reported(a)' <=> started[a] # started[place(a)]
  <2>1. ASSUME NEW a \in from..here
        PROVE  reported(a)' <=> started[a] # started[place(a)]
    <3>1. CASE a = here
      <4>1. ~reported(here)
        <5>1. \A h \in 1..Len(report) : report[h] # here
          <6>1. \A h \in 1..Len(report) : report[h] < here
            BY <1>5
          <6> QED
            BY <1>4, <6>1
        <5> QED
          BY <5>1 DEF reported
      <4> QED
        BY <1>9, <1>10, <1>11, <3>1, <4>1
    <3>2. CASE a # here
      <4>1. a \in from..(here - 1)
        BY <1>4, <3>2
      <4> QED
        BY <1>5, <1>10, <1>11, <3>2, <4>1
    <3> QED
      BY <3>1, <3>2
  <2> QED
    BY <2>1
<1> HIDE DEF here, there
<1>12. CASE mem[SL] = mem[EL]
  <2>1. jmonAt' = "MainLoop" /\ here = to
    BY <1>5, <1>6, <1>12 DEF here
  <2>2. VerifyComplete'
    <3> SUFFICES ASSUME source \cap own = {}, apart
                 PROVE  /\ \A a \in source : reported(a)' <=> started[a] # started[place(a)]
                        /\ \A h, j \in 1..Len(report') : h < j => report'[h] < report'[j]
      BY <1>1, <1>3 DEF VerifyComplete, reported
    <3> QED
      BY <1>4, <1>10, <1>11, <2>1
  <2>3. OnlyArguments'
    BY <1>1, <1>8, <2>1 DEF OnlyArguments, UnchangedOthers, Others
  <2>4. FillExact' /\ CopyExact' /\ SearchFirst'
    BY <1>1, <1>2 DEF FillExact, CopyExact, SearchFirst, finished
  <2> QED
    BY <1>7, <2>1, <2>2, <2>3, <2>4
       DEF JMonIInv, CommandsExact, Entering, Filling, Copying, Searching, Verifying
<1>13. CASE mem[SL] # mem[EL]
  <2>1. jmonAt' = "DoVerify" /\ \A a \in Space \ {T1} : mem'[a] = IF a \in {SL, DL} THEN next(mem[a]) ELSE mem[a]
    BY <1>1, <1>6, <1>13
  <2>2. here < to /\ here # to
    BY <1>4, <1>5, <1>13 DEF here
  <2>3. mem'[SL] = here + 1
    BY <1>4, <2>1, <2>2, NextAddress, Arguments DEF here
  <2>4. mem'[EL] = to
    BY <1>5, <2>1, Arguments
  <2>5. mem'[DL] = place(here + 1)
    <3>1. mem'[DL] = next(place(here))
      BY <1>5, <2>1, Arguments DEF there
    <3> QED
      BY <1>2, <1>4, <1>5, <2>2, <3>1, JMonPlaces
  <2>6. here + 1 \in from..to /\ (here + 1) - 1 = here
    BY <1>4, <1>5, <2>2
  <2>7. InRange' /\ (mem[DL] = place(mem[SL]))'
    BY <1>3, <2>3, <2>4, <2>5, <2>6 DEF InRange, place
  <2>8. (source \cap own = {} /\ apart)' =>
           \A a \in from'..(mem'[SL] - 1) : reported(a)' <=> started'[a] # started'[place(a)']
    BY <1>1, <1>3, <1>11, <2>3, <2>6
  <2>9. Verifying'
    BY <1>8, <1>10, <2>3, <2>7, <2>8 DEF Verifying, place
  <2>10. CommandsExact'
    BY <2>1 DEF CommandsExact, FillExact, CopyExact, SearchFirst, VerifyComplete, OnlyArguments, finished
  <2> QED
    BY <1>7, <2>1, <2>9, <2>10 DEF JMonIInv, Entering, Filling, Copying, Searching
<1> QED
  BY <1>12, <1>13

LEMMA JMonStutter ==
  ASSUME JMonIInv, UNCHANGED jmonVars
  PROVE  JMonIInv'
  BY DEF jmonVars, JMonIInv, JMonTyped, Entering, Filling, Copying, Searching, Verifying, CommandsExact,
         FillExact, CopyExact, SearchFirst, VerifyComplete, OnlyArguments, finished, UnchangedOthers, InRange,
         apart, target, source, ran, separate, reported, place, from, to, dest, data

(* Every command of JMon does exactly what it was asked for.               *)
THEOREM JMonCommandsAreExact == JMonSpec => []CommandsExact
<1>1. JMonInit => JMonIInv
  BY JMonInitIInv
<1>2. JMonIInv /\ [JMonNext]_jmonVars => JMonIInv'
  BY UserStep, CheckStep, FillStep, JMonCopyStep, SearchStep, VerifyStep, JMonStutter DEF JMonNext, JMonLoop
<1>3. JMonIInv => CommandsExact
  BY DEF JMonIInv
<1> QED
  BY <1>1, <1>2, <1>3, PTL DEF JMonSpec

-----------------------------------------------------------------------------
(* The sector copy of the disk demo (DiskCopy).                            *)

copyPlaces == {"top", "openSource", "read", "openTarget", "write", "done", "failed"}
contents == Disks \X Int         (* what a sector may hold                  *)

CopyTyped ==
  /\ copyPc \in copyPlaces /\ opened \subseteq {"source", "target"}
  /\ sourceId \in Drives /\ targetId \in Drives
  /\ drive \in [Drives -> Disks \cup {NoDisk}]
  /\ DOMAIN content = Disks
  /\ \A d \in Disks : DOMAIN content[d] = SectorsOf(d) /\ \A s \in SectorsOf(d) : content[d][s] \in contents
  /\ chunkCount \in Nat /\ chunkOffset \in Nat /\ sector \in Nat
  /\ buffer \in Seq(contents)

(* The disk that is worked on is the right one; with two drives it stays   *)
(* where it was found.                                                     *)
InPlace ==
  /\ copyPc \in {"openSource", "read"} => drive[sourceId] = SourceDisk
  /\ copyPc \in {"openTarget", "write"} => drive[targetId] = TargetDisk
  /\ sourceId # targetId =>
       /\ "source" \in opened => drive[sourceId] = SourceDisk
       /\ "target" \in opened => drive[targetId] = TargetDisk

Formats ==
  /\ "source" \in opened => format = Format[SourceDisk]
  /\ "target" \in opened => Format[TargetDisk] = Format[SourceDisk]
  /\ copyPc \in {"read", "openTarget", "write", "done"} => "source" \in opened
  /\ copyPc \in {"write", "done"} => "target" \in opened
  /\ copyPc = "openSource" => "source" \notin opened

Offsets ==
  /\ "source" \notin opened => chunkOffset = 0
  /\ copyPc = "top" /\ "source" \in opened => chunkOffset < format.count
  /\ copyPc \in {"openSource", "openTarget"} => sector = chunkOffset
  /\ copyPc \in {"read", "openTarget", "write"} =>
       chunkOffset <= sector /\ sector <= format.count /\ sector - chunkOffset <= chunkCount

(* The buffer holds the sectors of this round: those read so far, and all  *)
(* of them before the first is written.                                    *)
Buffered ==
  /\ copyPc \in {"top", "openSource"} => buffer = <<>>
  /\ copyPc = "read" => Len(buffer) = sector - chunkOffset
  /\ copyPc \in {"openTarget", "write"} =>
       Len(buffer) >= chunkCount \/ chunkOffset + Len(buffer) >= format.count
  /\ copyPc \in {"read", "openTarget", "write"} =>
       \A k \in 1..Len(buffer) : /\ chunkOffset + k - 1 < format.count
                                 /\ buffer[k] = content[SourceDisk][chunkOffset + k - 1]

CopyIInv == ~wrong => CopyTyped /\ InPlace /\ Formats /\ Offsets /\ Buffered

-----------------------------------------------------------------------------
LEMMA FormatOf ==
  \A d \in Disks : Format[d].count \in 0 .. WordBase - 1 /\ Format[d].size \in 1 .. WordBase - 1
                   /\ Format[d].count \in Nat
  BY CopyAssumption

LEMMA AllocatedChunk ==
  ASSUME NEW d \in Disks, NEW heap, NEW c \in AllocBuffer(Format[d], heap)
  PROVE  c \in Nat
<1>1. PICK k \in 1 .. MAX_CHUNKS : c = chunkOf(Format[d].count, k)
  BY DEF AllocBuffer
<1>2. k \in Nat /\ k >= 1 /\ Format[d].count \in Nat /\ WordBase \in Nat /\ WordBase > 0
  BY FormatOf, CopyAssumption
<1> DEFINE n == Format[d].count + k - 1
           m == n % WordBase
<1>3. n \in Nat
  BY <1>2
<1>4. m \in Nat
  BY <1>2, <1>3
<1>5. c = m \div k
  BY <1>1 DEF chunkOf
<1> HIDE DEF m
<1>6. m \div k \in Nat
  BY <1>2, <1>4
<1> QED
  BY <1>5, <1>6

LEMMA CopyInitIInv == CopyInit => CopyIInv
<1> SUFFICES ASSUME CopyInit PROVE CopyIInv
  OBVIOUS
<1>1. \A d \in Disks : \A s \in SectorsOf(d) : <<d, s>> \in contents
  BY FormatOf DEF SectorsOf, contents
<1>2. CopyTyped
  BY <1>1 DEF CopyInit, CopyTyped, copyPlaces, Blank
<1> QED
  BY <1>2 DEF CopyInit, CopyIInv, InPlace, Formats, Offsets, Buffered

(* The user is asked for a disk and brings it.                             *)
LEMMA Inserted ==
  ASSUME CopyTyped, NEW id \in Drives, NEW wanted \in Disks, Insert(id, wanted), ~wrong'
  PROVE  /\ ~wrong /\ drive' \in [Drives -> Disks \cup {NoDisk}] /\ drive'[id] = wanted
         /\ \A e \in Drives : e # id /\ drive[e] # wanted => drive'[e] = drive[e]
<1>1. PICK d \in Disks \cup {drive[id]} :
    /\ drive' = [e \in Drives |-> IF e = id THEN d
                                  ELSE IF drive[e] = d THEN NoDisk ELSE drive[e]]
    /\ wrong' = (wrong \/ d # wanted)
  BY DEF Insert
<1>2. d = wanted /\ ~wrong
  BY <1>1
<1> QED
  BY <1>1, <1>2 DEF CopyTyped

LEMMA AskForSourceStep ==
  ASSUME CopyIInv, AskForSource
  PROVE  CopyIInv'
<1> SUFFICES ASSUME ~wrong' PROVE (CopyTyped /\ InPlace /\ Formats /\ Offsets /\ Buffered)'
  BY DEF CopyIInv
<1>1. /\ copyPc = "top" /\ copyPc' = (IF "source" \in opened THEN "read" ELSE "openSource")
      /\ sector' = chunkOffset
      /\ UNCHANGED <<sourceId, targetId, opened, format, chunkCount, chunkOffset, buffer, content>>
  BY DEF AskForSource, at, goto
<1>2. ~wrong
  BY DEF AskForSource, Insert
<1>3. CopyTyped /\ InPlace /\ Formats /\ Offsets /\ Buffered
  BY <1>2 DEF CopyIInv
<1>4. SourceDisk \in Disks /\ TargetDisk \in Disks /\ SourceDisk # TargetDisk
  BY CopyAssumption
<1>5. /\ drive' \in [Drives -> Disks \cup {NoDisk}]
      /\ drive'[sourceId] = SourceDisk
      /\ sourceId # targetId /\ drive[targetId] = TargetDisk => drive'[targetId] = TargetDisk
  <2>1. CASE mustAsk("source")
    <3>1. Insert(sourceId, SourceDisk) /\ sourceId \in Drives /\ targetId \in Drives
      BY <1>3, <2>1 DEF AskForSource, CopyTyped
    <3>2. /\ drive' \in [Drives -> Disks \cup {NoDisk}] /\ drive'[sourceId] = SourceDisk
          /\ \A e \in Drives : e # sourceId /\ drive[e] # SourceDisk => drive'[e] = drive[e]
      BY <1>3, <1>4, <3>1, Inserted
    <3> QED
      BY <1>4, <3>1, <3>2
  <2>2. CASE ~mustAsk("source")
    BY <1>3, <2>2 DEF AskForSource, CopyTyped, mustAsk, InPlace
  <2> QED
    BY <2>1, <2>2
<1>6. CopyTyped'
  BY <1>1, <1>3, <1>5 DEF CopyTyped, copyPlaces
<1>7. InPlace'
  BY <1>1, <1>3, <1>5 DEF InPlace
<1>8. Formats'
  BY <1>1, <1>3 DEF Formats
<1>9. "source" \in opened => format.count \in Nat
  BY <1>3, <1>4, FormatOf DEF Formats
<1>10. Offsets'
  BY <1>1, <1>3, <1>9 DEF Offsets, CopyTyped
<1>11. Buffered'
  BY <1>1, <1>3 DEF Buffered, CopyTyped
<1> QED
  BY <1>6, <1>7, <1>8, <1>10, <1>11

LEMMA OpenSourceStep ==
  ASSUME CopyIInv, OpenSource
  PROVE  CopyIInv'
<1> SUFFICES ASSUME ~wrong' PROVE (CopyTyped /\ InPlace /\ Formats /\ Offsets /\ Buffered)'
  BY DEF CopyIInv
<1>1. /\ copyPc = "openSource" /\ copyPc' = "read" /\ opened' = opened \cup {"source"}
      /\ UNCHANGED <<sourceId, targetId, chunkOffset, sector, buffer, drive, content, wrong>>
  BY DEF OpenSource, at, goto
<1>2. CopyTyped /\ InPlace /\ Formats /\ Offsets /\ Buffered
  BY <1>1 DEF CopyIInv
<1>3. drive[sourceId] = SourceDisk /\ SourceDisk \in Disks
  BY <1>1, <1>2, CopyAssumption DEF InPlace
<1>4. format' = Format[SourceDisk] /\ chunkCount' \in Nat
  BY <1>3, AllocatedChunk DEF OpenSource
<1>5. format'.count \in Nat /\ chunkOffset = 0 /\ sector = 0 /\ buffer = <<>>
  BY <1>1, <1>2, <1>3, <1>4, FormatOf DEF Formats, Offsets, Buffered
<1>6. CopyTyped'
  BY <1>1, <1>2, <1>4 DEF CopyTyped, copyPlaces
<1>7. InPlace' /\ Formats'
  BY <1>1, <1>2, <1>3, <1>4 DEF InPlace, Formats
<1>8. Offsets'
  BY <1>1, <1>2, <1>4, <1>5 DEF Offsets, CopyTyped
<1>9. Buffered'
  BY <1>1, <1>5 DEF Buffered
<1> QED
  BY <1>6, <1>7, <1>8, <1>9

(* What is known of a disk that is read or written.                        *)
LEMMA Accessed ==
  ASSUME NEW d \in Disks, NEW s, s \in SectorsOf(d)
  PROVE  s \in Nat /\ s < Format[d].count
  BY FormatOf DEF SectorsOf

LEMMA ReadSectorStep ==
  ASSUME CopyIInv, ReadSector
  PROVE  CopyIInv'
<1> SUFFICES ASSUME ~wrong' PROVE (CopyTyped /\ InPlace /\ Formats /\ Offsets /\ Buffered)'
  BY DEF CopyIInv
<1> DEFINE c == content[SourceDisk][sector]
<1>1. /\ copyPc = "read" /\ sector < format.count /\ sector - chunkOffset < chunkCount
      /\ sector' = sector + 1
      /\ UNCHANGED <<copyPc, sourceId, targetId, opened, format, chunkCount, chunkOffset, drive, content, wrong>>
  BY DEF ReadSector, at, inChunk
<1>2. CopyTyped /\ InPlace /\ Formats /\ Offsets /\ Buffered
  BY <1>1 DEF CopyIInv
<1>3. drive[sourceId] = SourceDisk /\ SourceDisk \in Disks
  BY <1>1, <1>2, CopyAssumption DEF InPlace
<1>4. sector \in SectorsOf(SourceDisk) /\ buffer' = Append(buffer, c)
  BY <1>3 DEF ReadSector, canAccess
<1>5. c \in contents
  BY <1>2, <1>3, <1>4 DEF CopyTyped
<1>6. format = Format[SourceDisk] /\ format.count \in Nat
  BY <1>1, <1>2, <1>3, FormatOf DEF Formats
<1> HIDE DEF c
<1>7. /\ buffer \in Seq(contents) /\ Len(buffer) \in Nat /\ buffer' \in Seq(contents)
      /\ Len(buffer') = Len(buffer) + 1
      /\ buffer'[Len(buffer) + 1] = c
      /\ \A k \in 1..Len(buffer) : buffer'[k] = buffer[k]
  BY <1>2, <1>4, <1>5, AppendProperties, LenProperties DEF CopyTyped
<1>8. /\ sector \in Nat /\ chunkOffset \in Nat /\ chunkCount \in Nat
      /\ chunkOffset <= sector /\ Len(buffer) = sector - chunkOffset
  BY <1>1, <1>2 DEF CopyTyped, Offsets, Buffered
<1>9. CopyTyped' /\ InPlace' /\ Formats'
  BY <1>1, <1>2, <1>7 DEF CopyTyped, InPlace, Formats
<1>10. Offsets'
  BY <1>1, <1>2, <1>6, <1>8 DEF Offsets
<1>11. \A k \in 1..Len(buffer') : /\ chunkOffset + k - 1 < format.count
                                  /\ buffer'[k] = content[SourceDisk][chunkOffset + k - 1]
  <2> SUFFICES ASSUME NEW k \in 1..Len(buffer')
               PROVE  /\ chunkOffset + k - 1 < format.count
                      /\ buffer'[k] = content[SourceDisk][chunkOffset + k - 1]
    OBVIOUS
  <2>1. CASE k = Len(buffer) + 1
    <3>1. chunkOffset + k - 1 = sector
      BY <1>8, <2>1
    <3> QED
      BY <1>1, <1>7, <2>1, <3>1 DEF c
  <2>2. CASE k # Len(buffer) + 1
    <3>1. k \in 1..Len(buffer)
      BY <1>7, <2>2
    <3> QED
      BY <1>1, <1>2, <1>7, <3>1 DEF Buffered
  <2> QED
    BY <2>1, <2>2
<1>12. Buffered'
  <2>1. Len(buffer') = sector' - chunkOffset
    BY <1>1, <1>7, <1>8
  <2> QED
    BY <1>1, <1>11, <2>1 DEF Buffered
<1> QED
  BY <1>9, <1>10, <1>12

LEMMA AskForTargetStep ==
  ASSUME CopyIInv, AskForTarget
  PROVE  CopyIInv'
<1> SUFFICES ASSUME ~wrong' PROVE (CopyTyped /\ InPlace /\ Formats /\ Offsets /\ Buffered)'
  BY DEF CopyIInv
<1>1. /\ copyPc = "read" /\ ~(sector < format.count /\ sector - chunkOffset < chunkCount)
      /\ copyPc' = (IF "target" \in opened THEN "write" ELSE "openTarget")
      /\ sector' = chunkOffset
      /\ UNCHANGED <<sourceId, targetId, opened, format, chunkCount, chunkOffset, buffer, content>>
  BY DEF AskForTarget, at, goto, inChunk
<1>2. ~wrong
  BY DEF AskForTarget, Insert
<1>3. CopyTyped /\ InPlace /\ Formats /\ Offsets /\ Buffered
  BY <1>2 DEF CopyIInv
<1>4. SourceDisk \in Disks /\ TargetDisk \in Disks /\ SourceDisk # TargetDisk
  BY CopyAssumption
<1>5. /\ drive' \in [Drives -> Disks \cup {NoDisk}]
      /\ drive'[targetId] = TargetDisk
      /\ sourceId # targetId /\ drive[sourceId] = SourceDisk => drive'[sourceId] = SourceDisk
  <2>1. CASE mustAsk("target")
    <3>1. Insert(targetId, TargetDisk) /\ sourceId \in Drives /\ targetId \in Drives
      BY <1>3, <2>1 DEF AskForTarget, CopyTyped
    <3>2. /\ drive' \in [Drives -> Disks \cup {NoDisk}] /\ drive'[targetId] = TargetDisk
          /\ \A e \in Drives : e # targetId /\ drive[e] # TargetDisk => drive'[e] = drive[e]
      BY <1>3, <1>4, <3>1, Inserted
    <3> QED
      BY <1>4, <3>1, <3>2
  <2>2. CASE ~mustAsk("target")
    BY <1>3, <2>2 DEF AskForTarget, CopyTyped, mustAsk, InPlace
  <2> QED
    BY <2>1, <2>2
<1>6. CopyTyped'
  BY <1>1, <1>3, <1>5 DEF CopyTyped, copyPlaces
<1>7. InPlace'
  BY <1>1, <1>3, <1>5 DEF InPlace
<1>8. Formats'
  BY <1>1, <1>3 DEF Formats
<1>9. format.count \in Nat
  BY <1>1, <1>3, <1>4, FormatOf DEF Formats
<1>10. Offsets'
  BY <1>1, <1>3, <1>9 DEF Offsets, CopyTyped
<1>11. Len(buffer) >= chunkCount \/ chunkOffset + Len(buffer) >= format.count
  BY <1>1, <1>3, <1>9 DEF Buffered, CopyTyped
<1>12. Buffered'
  BY <1>1, <1>3, <1>11 DEF Buffered, CopyTyped
<1> QED
  BY <1>6, <1>7, <1>8, <1>10, <1>12

LEMMA OpenTargetStep ==
  ASSUME CopyIInv, OpenTarget
  PROVE  CopyIInv'
<1> SUFFICES ASSUME ~wrong' PROVE (CopyTyped /\ InPlace /\ Formats /\ Offsets /\ Buffered)'
  BY DEF CopyIInv
<1>1. /\ copyPc = "openTarget" /\ copyPc' = "write" /\ opened' = opened \cup {"target"}
      /\ Format[drive[targetId]] = format
      /\ UNCHANGED <<sourceId, targetId, format, chunkCount, chunkOffset, sector,
                     buffer, drive, content, wrong>>
  BY DEF OpenTarget, at, goto
<1>2. CopyTyped /\ InPlace /\ Formats /\ Offsets /\ Buffered
  BY <1>1 DEF CopyIInv
<1>3. CopyTyped'
  BY <1>1, <1>2 DEF CopyTyped, copyPlaces
<1>4. InPlace' /\ Formats'
  BY <1>1, <1>2 DEF InPlace, Formats
<1>5. Offsets' /\ Buffered'
  BY <1>1, <1>2 DEF Offsets, Buffered
<1> QED
  BY <1>3, <1>4, <1>5

LEMMA WriteSectorStep ==
  ASSUME CopyIInv, WriteSector, ~wrong
  PROVE  /\ CopyIInv'
         /\ sector \in SectorsOf(SourceDisk) /\ sector \in SectorsOf(TargetDisk)
         /\ content'[SourceDisk] = content[SourceDisk]
         /\ content'[TargetDisk] = [content[TargetDisk] EXCEPT ![sector] = content[SourceDisk][sector]]
<1> DEFINE h == sector - chunkOffset + 1
<1>1. /\ copyPc = "write" /\ sector < format.count /\ sector - chunkOffset < chunkCount
      /\ sector \in SectorsOf(drive[targetId])
      /\ content' = [content EXCEPT ![drive[targetId]][sector] = buffer[h]]
      /\ sector' = sector + 1
      /\ UNCHANGED <<copyPc, sourceId, targetId, opened, format, chunkCount, chunkOffset, buffer, drive, wrong>>
  BY DEF WriteSector, at, inChunk, canAccess
<1>2. CopyTyped /\ InPlace /\ Formats /\ Offsets /\ Buffered
  BY DEF CopyIInv
<1>3. drive[targetId] = TargetDisk /\ SourceDisk \in Disks /\ TargetDisk \in Disks /\ SourceDisk # TargetDisk
  BY <1>1, <1>2, CopyAssumption DEF InPlace
<1>4. format = Format[SourceDisk] /\ format.count \in Nat
  BY <1>1, <1>2, <1>3, FormatOf DEF Formats
<1>5. /\ sector \in Nat /\ chunkOffset \in Nat /\ chunkCount \in Nat /\ Len(buffer) \in Nat
      /\ chunkOffset <= sector /\ buffer \in Seq(contents)
  BY <1>1, <1>2, LenProperties DEF CopyTyped, Offsets
<1>6. h \in 1..Len(buffer) /\ chunkOffset + h - 1 = sector
  <2>1. Len(buffer) >= chunkCount \/ chunkOffset + Len(buffer) >= format.count
    BY <1>1, <1>2 DEF Buffered
  <2> QED
    BY <1>1, <1>4, <1>5, <2>1
<1>7. buffer[h] = content[SourceDisk][sector] /\ buffer[h] \in contents
  BY <1>1, <1>2, <1>5, <1>6, ElementOfSeq DEF Buffered
<1>8. sector \in SectorsOf(SourceDisk) /\ sector \in SectorsOf(TargetDisk)
  BY <1>1, <1>3, <1>4, <1>5 DEF SectorsOf
<1>9. /\ DOMAIN content' = Disks
      /\ content'[TargetDisk] = [content[TargetDisk] EXCEPT ![sector] = buffer[h]]
      /\ \A d \in Disks : d # TargetDisk => content'[d] = content[d]
  BY <1>1, <1>2, <1>3 DEF CopyTyped
<1>10. content'[SourceDisk] = content[SourceDisk]
  BY <1>3, <1>9
<1>11. ASSUME NEW d \in Disks
       PROVE  DOMAIN content'[d] = SectorsOf(d) /\ \A s \in SectorsOf(d) : content'[d][s] \in contents
  <2>1. DOMAIN content[d] = SectorsOf(d) /\ \A s \in SectorsOf(d) : content[d][s] \in contents
    BY <1>2 DEF CopyTyped
  <2>2. CASE d = TargetDisk
    BY <1>7, <1>9, <2>1, <2>2
  <2>3. CASE d # TargetDisk
    BY <1>9, <2>1, <2>3
  <2> QED
    BY <2>2, <2>3
<1>12. CopyTyped'
  BY <1>1, <1>2, <1>9, <1>11 DEF CopyTyped
<1>13. InPlace' /\ Formats'
  BY <1>1, <1>2 DEF InPlace, Formats
<1>14. Offsets'
  BY <1>1, <1>2, <1>4, <1>5 DEF Offsets
<1>15. Buffered'
  BY <1>1, <1>2, <1>10 DEF Buffered
<1> QED
  BY <1>7, <1>8, <1>9, <1>10, <1>12, <1>13, <1>14, <1>15 DEF CopyIInv

LEMMA SmallSum ==
  ASSUME NEW n \in Nat, NEW w \in Nat, n < w
  PROVE  n % w = n
  BY SMT

LEMMA NextChunkStep ==
  ASSUME CopyIInv, NextChunk, ~wrong
  PROVE  /\ CopyIInv'
         /\ sector < format.count => chunkOffset' = sector
         /\ ~(sector < format.count) => sector = format.count
<1>1. /\ copyPc = "write" /\ ~(sector < format.count /\ sector - chunkOffset < chunkCount)
      /\ chunkOffset' = (chunkOffset + chunkCount) % WordBase
      /\ buffer' = <<>>
      /\ copyPc' = (IF sector < format.count THEN "top" ELSE "done")
      /\ UNCHANGED <<sourceId, targetId, opened, format, chunkCount, sector, drive, content, wrong>>
  BY DEF NextChunk, at, goto, inChunk
<1>2. CopyTyped /\ InPlace /\ Formats /\ Offsets /\ Buffered
  BY DEF CopyIInv
<1>3. format = Format[SourceDisk] /\ format.count \in 0..WordBase - 1 /\ WordBase \in Nat /\ WordBase > 0
  BY <1>1, <1>2, FormatOf, CopyAssumption DEF Formats
<1>4. /\ sector \in Nat /\ chunkOffset \in Nat /\ chunkCount \in Nat
      /\ chunkOffset <= sector /\ sector <= format.count /\ sector - chunkOffset <= chunkCount
  BY <1>1, <1>2 DEF CopyTyped, Offsets
<1>5. ASSUME sector < format.count
      PROVE  chunkOffset' = sector
  <2>1. chunkOffset + chunkCount = sector
    BY <1>1, <1>3, <1>4, <1>5
  <2>2. sector < WordBase
    BY <1>3, <1>4, <1>5
  <2>3. sector % WordBase = sector
    BY <1>3, <1>4, <2>2, SmallSum
  <2> QED
    BY <1>1, <2>1, <2>3
<1>6. ~(sector < format.count) => sector = format.count
  BY <1>3, <1>4
<1>7. chunkOffset' \in Nat
  <2> DEFINE n == chunkOffset + chunkCount
  <2>1. n \in Nat
    BY <1>4
  <2> HIDE DEF n
  <2>2. n % WordBase \in Nat
    BY <1>3, <2>1
  <2> QED
    BY <1>1, <2>2 DEF n
<1>8. CopyTyped'
  BY <1>1, <1>2, <1>7 DEF CopyTyped, copyPlaces
<1>9. InPlace' /\ Formats'
  BY <1>1, <1>2 DEF InPlace, Formats
<1>10. "source" \in opened
  BY <1>1, <1>2 DEF Formats
<1>11. Offsets' /\ Buffered'
  BY <1>1, <1>5, <1>10 DEF Offsets, Buffered
<1> QED
  BY <1>5, <1>6, <1>8, <1>9, <1>11 DEF CopyIInv

LEMMA CopyFailsStep ==
  ASSUME CopyIInv, CopyFails
  PROVE  CopyIInv'
  BY DEF CopyFails, goto, CopyIInv, CopyTyped, copyPlaces, InPlace, Formats, Offsets, Buffered

LEMMA CopyStutter ==
  ASSUME CopyIInv, UNCHANGED diskCopyVars
  PROVE  CopyIInv'
  BY DEF diskCopyVars, CopyIInv, CopyTyped, InPlace, Formats, Offsets, Buffered

(* Once the wrong disk was inserted it stays so.                           *)
LEMMA StaysWrong ==
  ASSUME [CopyNext]_diskCopyVars, wrong
  PROVE  wrong'
  BY DEF CopyNext, AskForSource, OpenSource, ReadSector, AskForTarget, OpenTarget, WriteSector,
         NextChunk, CopyFails, Insert, diskCopyVars

LEMMA CopyStep ==
  ASSUME CopyIInv, [CopyNext]_diskCopyVars
  PROVE  CopyIInv'
<1>1. CASE wrong
  BY <1>1, StaysWrong DEF CopyIInv
<1>2. CASE ~wrong
  BY <1>2, AskForSourceStep, OpenSourceStep, ReadSectorStep, AskForTargetStep, OpenTargetStep,
     WriteSectorStep, NextChunkStep, CopyFailsStep, CopyStutter DEF CopyNext
<1> QED
  BY <1>1, <1>2

-----------------------------------------------------------------------------
LEMMA CopyRefines ==
  ASSUME CopyIInv, CopyIInv', [CopyNext]_diskCopyVars
  PROVE  [Promise!Next]_(Promise!copyVars)
<1> DEFINE original == content[SourceDisk]
           image == content[TargetDisk]
           copied == sectorsWritten
           state == IF wrong THEN "void"
                    ELSE IF copyPc \in {"done", "failed"} THEN copyPc ELSE "running"
<1>1. CASE wrong'
  BY <1>1 DEF Promise!Next, Promise!WrongDisk
<1>2. CASE ~wrong' /\ content' = content /\ copyPc \notin {"done", "failed"} /\ copyPc' \notin {"done", "failed"}
           /\ sectorsWritten' = sectorsWritten /\ ~wrong
  <2>1. UNCHANGED Promise!copyVars
    BY <1>2 DEF Promise!copyVars
  <2> QED
    BY <2>1
<1>3. CASE ~wrong'
  <2>1. ~wrong
    BY <1>3, StaysWrong
  <2>2. CopyTyped /\ InPlace /\ Formats /\ Offsets /\ Buffered
    BY <2>1 DEF CopyIInv
  <2>3. CASE AskForSource
    <3>1. /\ content' = content /\ copyPc = "top" /\ copyPc' \in {"read", "openSource"} /\ chunkOffset' = chunkOffset
      BY <2>3 DEF AskForSource, at, goto
    <3> QED
      BY <1>2, <1>3, <2>1, <3>1 DEF sectorsWritten
  <2>4. CASE OpenSource
    <3>1. /\ content' = content /\ copyPc = "openSource" /\ copyPc' = "read" /\ chunkOffset' = chunkOffset
      BY <2>4 DEF OpenSource, at, goto
    <3> QED
      BY <1>2, <1>3, <2>1, <3>1 DEF sectorsWritten
  <2>5. CASE ReadSector
    <3>1. /\ content' = content /\ copyPc = "read" /\ copyPc' = "read" /\ chunkOffset' = chunkOffset
      BY <2>5 DEF ReadSector, at
    <3> QED
      BY <1>2, <1>3, <2>1, <3>1 DEF sectorsWritten
  <2>6. CASE AskForTarget
    <3>1. /\ content' = content /\ copyPc = "read" /\ copyPc' \in {"write", "openTarget"}
          /\ chunkOffset' = chunkOffset /\ sector' = chunkOffset
      BY <2>6 DEF AskForTarget, at, goto
    <3> QED
      BY <1>2, <1>3, <2>1, <3>1 DEF sectorsWritten
  <2>7. CASE OpenTarget
    <3>1. /\ content' = content /\ copyPc = "openTarget" /\ copyPc' = "write"
          /\ chunkOffset' = chunkOffset /\ sector' = sector
      BY <2>7 DEF OpenTarget, at, goto
    <3>2. sector = chunkOffset
      BY <2>2, <3>1 DEF Offsets
    <3> QED
      BY <1>2, <1>3, <2>1, <3>1, <3>2 DEF sectorsWritten
  <2>8. CASE WriteSector
    <3>1. /\ sector \in SectorsOf(SourceDisk) /\ sector \in SectorsOf(TargetDisk)
          /\ content'[SourceDisk] = content[SourceDisk]
          /\ content'[TargetDisk] = [content[TargetDisk] EXCEPT ![sector] = content[SourceDisk][sector]]
      BY <2>1, <2>8, WriteSectorStep
    <3>2. copyPc = "write" /\ copyPc' = "write" /\ sector' = sector + 1 /\ wrong' = wrong
      BY <2>8 DEF WriteSector, at
    <3>3. sectorsWritten = sector /\ sectorsWritten' = sector + 1
      BY <3>2 DEF sectorsWritten
    <3>4. DOMAIN content[SourceDisk] = SectorsOf(SourceDisk) /\ DOMAIN content[TargetDisk] = SectorsOf(TargetDisk)
      BY <2>2, CopyAssumption DEF CopyTyped
    <3>5. Promise!CopySector
      BY <2>1, <1>3, <3>1, <3>2, <3>3, <3>4 DEF Promise!CopySector
    <3> QED
      BY <3>5 DEF Promise!Next
  <2>9. CASE NextChunk
    <3>1. /\ copyPc = "write" /\ content' = content /\ sector' = sector /\ format' = format
          /\ copyPc' = (IF sector < format.count THEN "top" ELSE "done")
          /\ sectorsWritten = sector
      BY <2>9 DEF NextChunk, at, goto, sectorsWritten
    <3>2. /\ sector < format.count => chunkOffset' = sector
          /\ ~(sector < format.count) => sector = format.count
      BY <2>1, <2>9, NextChunkStep
    <3>3. CASE sector < format.count
      BY <1>2, <1>3, <2>1, <3>1, <3>2, <3>3 DEF sectorsWritten
    <3>4. CASE ~(sector < format.count)
      <4>1. sectorsWritten' = sectorsWritten /\ copyPc' = "done"
        BY <3>1, <3>2, <3>4 DEF sectorsWritten
      <4>2. format = Format[SourceDisk] /\ Format[TargetDisk] = Format[SourceDisk] /\ sector = format.count
        BY <2>2, <3>1, <3>2, <3>4 DEF Formats
      <4>3. DOMAIN content[SourceDisk] = SectorsOf(SourceDisk) /\ DOMAIN content[TargetDisk] = SectorsOf(TargetDisk)
            /\ SourceDisk \in Disks
        BY <2>2, CopyAssumption DEF CopyTyped
      <4>4. SectorsOf(TargetDisk) = SectorsOf(SourceDisk) /\ \A s \in SectorsOf(SourceDisk) : s < sector
        BY <4>2, <4>3, FormatOf DEF SectorsOf
      <4>5. Promise!Finish
        BY <1>3, <2>1, <3>1, <4>1, <4>3, <4>4 DEF Promise!Finish
      <4> QED
        BY <4>5 DEF Promise!Next
    <3> QED
      BY <3>3, <3>4
  <2>10. CASE CopyFails
    <3>1. copyPc \in {"openSource", "openTarget", "read", "write"} /\ copyPc' = "failed" /\ content' = content
      BY <2>10 DEF CopyFails, goto
    <3>2. Promise!GiveUp
      BY <1>3, <2>1, <3>1 DEF Promise!GiveUp
    <3> QED
      BY <3>2 DEF Promise!Next
  <2>11. CASE UNCHANGED diskCopyVars
    <3>1. UNCHANGED Promise!copyVars
      BY <2>11 DEF diskCopyVars, Promise!copyVars, sectorsWritten
    <3> QED
      BY <3>1
  <2> QED
    BY <2>3, <2>4, <2>5, <2>6, <2>7, <2>8, <2>9, <2>10, <2>11 DEF CopyNext
<1> QED
  BY <1>1, <1>3

(* The disk copy of the samples keeps the promise of a disk copy.          *)
THEOREM CopyKeepsPromise == CopySpec => ImplementsSectorCopy
<1>1. CopyInit => CopyIInv
  BY CopyInitIInv
<1>2. CopyIInv /\ [CopyNext]_diskCopyVars => CopyIInv'
  BY CopyStep
<1>3. CopyInit => Promise!Init
  BY DEF CopyInit, Promise!Init, sectorsWritten
<1>4. CopyIInv /\ CopyIInv' /\ [CopyNext]_diskCopyVars => [Promise!Next]_(Promise!copyVars)
  BY CopyRefines
<1> QED
  BY <1>1, <1>2, <1>3, <1>4, PTL DEF CopySpec, ImplementsSectorCopy, Promise!Spec

-----------------------------------------------------------------------------
(* The overlay demo (Overlays).                                            *)

cellOf(n, j) == page[n] * EM_PAGE_SIZE + j     (* where a stored byte is       *)

OvTyped ==
  /\ variant \in {"multi", "file", "geos"}
  /\ ovPc \in {"driver", "copy", "open", "call", "end"}
  /\ ovPc # "end" => num \in Nums
  /\ ovPc \in {"driver", "copy"} => variant = "multi"
  /\ ovPc = "open" => variant = "geos"
  /\ ovPc = "driver" => nextPage = 0 /\ num = 1
  /\ page \in [Nums -> Int] /\ nextPage \in Nat /\ emPages \in Nat /\ nextPage <= emPages
  /\ DOMAIN em = 0 .. emPages * EM_PAGE_SIZE - 1
  /\ DOMAIN area = 0 .. AreaSize - 1

(* Which overlays may be stored, and which of those have been called.      *)
Progress ==
  /\ ovPc = "driver" \/ variant # "multi" => \A n \in Nums : ~stored(n)
  /\ ovPc = "copy" => \A n \in Nums : n >= num => ~stored(n)
  /\ ovPc = "call" => \A n \in Nums : n < num /\ stored(n) => n \in called
  /\ StoredIsCalled

(* The bytes of a stored overlay are its own.                              *)
StoredRight ==
  \A n \in Nums : stored(n) /\ n \notin short =>
    \A j \in 0 .. Size[n] - 1 : em[cellOf(n, j)] = <<n, j>>

OvIInv == OvTyped /\ Progress /\ StoredApart /\ StoredRight

-----------------------------------------------------------------------------
(* A page holds so many bytes that the pages of an overlay are enough.     *)
LEMMA RoundedUp ==
  ASSUME NEW s \in Nat \ {0}, NEW p \in Nat \ {0}
  PROVE  (s + p - 1) \div p \in Nat /\ (s + p - 1) \div p >= 1 /\ s <= ((s + p - 1) \div p) * p
<1> DEFINE n == s + p - 1
           c == n \div p
           rest == n % p
<1>1. n \in Nat /\ p \in Nat /\ p > 0
  OBVIOUS
<1> HIDE DEF n
<1>2. c \in Nat /\ rest \in Nat /\ rest < p
  BY <1>1
<1>3. n = c * p + rest
  BY <1>1
<1> HIDE DEF c, rest
<1>4. s <= c * p
  BY <1>2, <1>3 DEF n
<1>5. c >= 1
  <2>1. CASE c = 0
    BY <1>4, <2>1
  <2> QED
    BY <1>2, <2>1
<1> QED
  BY <1>2, <1>4, <1>5 DEF c, n

LEMMA PageFacts ==
  /\ EM_PAGE_SIZE \in Nat /\ EM_PAGE_SIZE > 0
  /\ \A n \in Nums : /\ Size[n] \in Nat /\ Size[n] > 0 /\ Size[n] <= AreaSize
                     /\ pagesOf(n) \in Nat /\ pagesOf(n) >= 1
                     /\ Size[n] <= pagesOf(n) * EM_PAGE_SIZE
<1>1. EM_PAGE_SIZE \in Nat \ {0}
  BY OverlayAssumption
<1>2. ASSUME NEW n \in Nums
      PROVE  /\ Size[n] \in Nat \ {0} /\ Size[n] <= AreaSize
             /\ pagesOf(n) \in Nat /\ pagesOf(n) >= 1
             /\ Size[n] <= pagesOf(n) * EM_PAGE_SIZE
  <2>1. Size[n] \in Nat \ {0} /\ Size[n] <= AreaSize
    BY OverlayAssumption DEF Nums
  <2> QED
    BY <1>1, <2>1, RoundedUp DEF pagesOf
<1> QED
  BY <1>1, <1>2

(* The bytes of some pages lie within those pages.                         *)
LEMMA WithinPages ==
  ASSUME NEW p \in Nat, NEW first \in Int, NEW many \in Nat, NEW size \in Nat, NEW j \in 0 .. size - 1,
         NEW end \in Int, size <= many * p, first + many <= end
  PROVE  first * p <= first * p + j /\ first * p + j < end * p
<1> DEFINE a == first * p
           b == many * p
           e == end * p
<1>1. a \in Int /\ b \in Int /\ e \in Int
  OBVIOUS
<1>2. a + b = (first + many) * p
  OBVIOUS
<1>3. (first + many) * p <= e
  <2> DEFINE d == end - (first + many)
  <2>1. d \in Nat /\ end = (first + many) + d
    OBVIOUS
  <2> HIDE DEF d
  <2>2. end * p = (first + many) * p + d * p
    BY <2>1
  <2>3. d * p >= 0
    BY <2>1
  <2> QED
    BY <2>2, <2>3
<1>4. a + b <= e /\ size <= b /\ j >= 0 /\ j < size /\ j \in Int
  BY <1>2, <1>3
<1> HIDE DEF a, b, e
<1>5. a <= a + j /\ a + j < e
  BY <1>1, <1>4
<1> QED
  BY <1>5 DEF a, e

LEMMA Overlaid ==
  ASSUME NEW m, NEW base, NEW bytes, NEW k
  PROVE  /\ DOMAIN overlaid(m, base, bytes, k) = DOMAIN m
         /\ \A j \in DOMAIN m : overlaid(m, base, bytes, k)[j] = IF base <= j /\ j < base + k THEN bytes[j - base] ELSE m[j]
  BY DEF overlaid

LEMMA OvInitIInv == OvInit => OvIInv
<1> SUFFICES ASSUME OvInit PROVE OvIInv
  OBVIOUS
<1>1. NumOverlays \in Nat \ {0} /\ EM_PAGE_SIZE \in Nat
  BY OverlayAssumption
<1>2. /\ num = 1 /\ page = [n \in Nums |-> -1] /\ nextPage = 0 /\ emPages = 0 /\ em = <<>>
      /\ DOMAIN area = 0 .. AreaSize - 1
      /\ variant \in {"multi", "file", "geos"} /\ ovPc \in {"driver", "call", "open"}
      /\ (ovPc = "driver" => variant = "multi") /\ (ovPc = "open" => variant = "geos")
  BY DEF OvInit
<1>3. DOMAIN em = 0 .. emPages * EM_PAGE_SIZE - 1
  BY <1>1, <1>2
<1>4. 1 \in Nums
  BY <1>1 DEF Nums
<1>5. OvTyped
  BY <1>2, <1>3, <1>4 DEF OvTyped
<1>6. \A n \in Nums : ~stored(n)
  BY <1>2 DEF stored
<1> QED
  BY <1>2, <1>5, <1>6 DEF OvIInv, Progress, StoredApart, StoredRight, StoredIsCalled

(* What a stored overlay occupies.                                         *)
LEMMA StoredCells ==
  ASSUME OvIInv, NEW n \in Nums, stored(n)
  PROVE  /\ page[n] \in Nat /\ page[n] + pagesOf(n) <= nextPage
         /\ \A j \in 0 .. Size[n] - 1 : /\ cellOf(n, j) \in DOMAIN em
                                        /\ cellOf(n, j) < nextPage * EM_PAGE_SIZE
<1>1. /\ page[n] \in Nat /\ nextPage \in Nat /\ emPages \in Nat /\ nextPage <= emPages
      /\ pagesOf(n) \in Nat /\ pagesOf(n) >= 1 /\ Size[n] \in Nat
      /\ Size[n] <= pagesOf(n) * EM_PAGE_SIZE /\ EM_PAGE_SIZE \in Nat
      /\ DOMAIN em = 0 .. emPages * EM_PAGE_SIZE - 1
  BY PageFacts DEF OvIInv, OvTyped, stored
<1>2. page[n] + pagesOf(n) - 1 \in pagesHeld(n)
  BY <1>1 DEF pagesHeld
<1>3. page[n] + pagesOf(n) - 1 \in 0 .. nextPage - 1
  BY <1>2 DEF OvIInv, StoredApart
<1>4. page[n] + pagesOf(n) <= nextPage /\ page[n] + pagesOf(n) <= emPages
  BY <1>1, <1>3
<1>5. ASSUME NEW j \in 0 .. Size[n] - 1
      PROVE  cellOf(n, j) \in DOMAIN em /\ cellOf(n, j) < nextPage * EM_PAGE_SIZE
  <2> DEFINE p == page[n]
             k == pagesOf(n)
             s == Size[n]
             c == p * EM_PAGE_SIZE
             u == nextPage * EM_PAGE_SIZE
             e == emPages * EM_PAGE_SIZE
  <2>0. /\ p \in Nat /\ k \in Nat /\ s \in Nat /\ j \in 0 .. s - 1
        /\ s <= k * EM_PAGE_SIZE /\ p + k <= nextPage /\ p + k <= emPages
    BY <1>1, <1>4
  <2>3. c \in Nat /\ u \in Nat /\ e \in Nat /\ j \in Nat
    <3>1. p \in Nat /\ nextPage \in Nat /\ emPages \in Nat /\ EM_PAGE_SIZE \in Nat /\ s \in Nat
      BY <1>1
    <3>2. j \in Nat
      BY <3>1
    <3> HIDE DEF p
    <3> QED
      BY <3>1, <3>2
  <2> HIDE DEF p, k, s
  <2>6. /\ EM_PAGE_SIZE \in Nat /\ p \in Int /\ k \in Nat /\ s \in Nat /\ j \in 0 .. s - 1
        /\ nextPage \in Int /\ emPages \in Int
        /\ s <= k * EM_PAGE_SIZE /\ p + k <= nextPage /\ p + k <= emPages
    BY <1>1, <2>0
  <2>1. c <= c + j /\ c + j < u
    BY <2>6, WithinPages
  <2>2. c + j < e
    BY <2>6, WithinPages
  <2> USE DEF p
  <2>4. DOMAIN em = 0 .. e - 1 /\ cellOf(n, j) = c + j
    BY <1>1 DEF cellOf
  <2> HIDE DEF c, u, e
  <2>5. c + j \in DOMAIN em /\ c + j < u
    BY <2>1, <2>2, <2>3, <2>4
  <2> QED
    BY <2>4, <2>5 DEF u
<1> QED
  BY <1>1, <1>4, <1>5

(* What is in the area after an overlay was loaded.                        *)
LEMMA Loaded ==
  ASSUME OvIInv, NEW n \in Nums, loadoverlay(n)
  PROVE  /\ DOMAIN area' = DOMAIN area /\ short \subseteq short'
         /\ n \notin short' => \A j \in 0 .. Size[n] - 1 : area'[j] = <<n, j>>
<1>1. /\ Size[n] \in Nat /\ \A j \in 0 .. Size[n] - 1 : j \in DOMAIN area /\ j \in Nat
  BY PageFacts, OverlayAssumption DEF OvIInv, OvTyped
<1>2. CASE page[n] < 0
  <2>1. PICK k \in 0 .. Size[n] :
          /\ area' = overlaid(area, 0, Bytes(n), k)
          /\ short' = IF k < Size[n] THEN short \cup {n} ELSE short
    BY <1>2 DEF loadoverlay, readFile
  <2>2. n \notin short' => k = Size[n]
    BY <1>1, <2>1
  <2>3. DOMAIN area' = DOMAIN area
        /\ \A j \in DOMAIN area : area'[j] = IF 0 <= j /\ j < 0 + k THEN Bytes(n)[j - 0] ELSE area[j]
    BY <2>1, Overlaid
  <2>4. ASSUME n \notin short', NEW j \in 0 .. Size[n] - 1
        PROVE  area'[j] = <<n, j>>
    <3>1. area'[j] = Bytes(n)[j]
      BY <1>1, <2>2, <2>3, <2>4
    <3> QED
      BY <3>1 DEF Bytes
  <2> QED
    BY <2>1, <2>3, <2>4
<1>3. CASE ~(page[n] < 0)
  <2> DEFINE origin == [j \in 0 .. Size[n] - 1 |-> em[cellOf(n, j)]]
  <2>1. area' = overlaid(area, 0, origin, Size[n]) /\ short' = short
    BY <1>3 DEF loadoverlay, copyFrom, cellOf
  <2>5. \A j \in 0 .. Size[n] - 1 : origin[j] = em[cellOf(n, j)]
    OBVIOUS
  <2> HIDE DEF origin
  <2>2. DOMAIN area' = DOMAIN area
        /\ \A j \in DOMAIN area : area'[j] = IF 0 <= j /\ j < 0 + Size[n] THEN origin[j - 0] ELSE area[j]
    BY <2>1, Overlaid
  <2>3. stored(n)
    BY <1>3 DEF stored, OvIInv, OvTyped
  <2>4. ASSUME n \notin short', NEW j \in 0 .. Size[n] - 1
        PROVE  area'[j] = <<n, j>>
    <3>1. area'[j] = origin[j]
      <4>1. j \in DOMAIN area /\ 0 <= j /\ j < 0 + Size[n] /\ j - 0 = j
        BY <1>1
      <4> QED
        BY <4>1, <2>2
    <3>2. em[cellOf(n, j)] = <<n, j>>
      BY <2>1, <2>3, <2>4 DEF OvIInv, StoredRight
    <3> QED
      BY <2>5, <3>1, <3>2
  <2> QED
    BY <2>1, <2>2, <2>4
<1> QED
  BY <1>2, <1>3

(* Nothing is stored or moved: what is stored stays as it is.              *)
LEMMA NothingStored ==
  ASSUME OvIInv, UNCHANGED <<page, nextPage, emPages, em>>, short \subseteq short'
  PROVE  StoredApart' /\ StoredRight' /\ \A n : stored(n)' <=> stored(n)
  BY DEF OvIInv, StoredApart, StoredRight, stored, pagesHeld, cellOf

LEMMA NextCalled ==
  ASSUME OvIInv, ovPc = "call", nextToCall, UNCHANGED <<variant, page, nextPage, emPages, em>>,
         DOMAIN area' = DOMAIN area, short \subseteq short', called \subseteq called',
         stored(num) => num \in called'
  PROVE  OvIInv'
<1>1. StoredApart' /\ StoredRight' /\ \A n : stored(n)' <=> stored(n)
  BY NothingStored
<1>2. num \in Nums /\ NumOverlays \in Nat /\ Nums = 1 .. NumOverlays
  BY OverlayAssumption DEF OvIInv, OvTyped, Nums
<1>3. num' = num + 1 /\ ovPc' = IF num < NumOverlays THEN "call" ELSE "end"
  BY DEF nextToCall
<1>4. OvTyped'
  BY <1>2, <1>3 DEF OvIInv, OvTyped
<1>5. \A n \in Nums : n < num + 1 /\ stored(n) => n \in called'
  BY <1>2 DEF OvIInv, Progress
<1>6. Progress'
  BY <1>1, <1>2, <1>3, <1>5 DEF OvIInv, Progress, StoredIsCalled
<1> QED
  BY <1>1, <1>4, <1>6 DEF OvIInv

(* One more overlay is stored, behind those that are.                      *)
LEMMA StoreIInv ==
  ASSUME OvIInv, storeOverlay
  PROVE  OvIInv'
<1> DEFINE base == nextPage * EM_PAGE_SIZE
<1>1. /\ num \in Nums /\ page \in [Nums -> Int] /\ nextPage \in Nat /\ emPages \in Nat
      /\ nextPage <= emPages /\ variant = "multi" /\ ~stored(num)
      /\ DOMAIN em = 0 .. emPages * EM_PAGE_SIZE - 1
      /\ NumOverlays \in Nat /\ Nums = 1 .. NumOverlays /\ num >= num
  BY OverlayAssumption DEF storeOverlay, OvIInv, OvTyped, Progress, Nums
<1>2. /\ pagesOf(num) \in Nat /\ pagesOf(num) >= 1 /\ Size[num] \in Nat
      /\ Size[num] <= pagesOf(num) * EM_PAGE_SIZE /\ EM_PAGE_SIZE \in Nat
  BY <1>1, PageFacts
<1>3. /\ pagesOf(num) <= emPages - nextPage /\ loadoverlay(num)
      /\ em' = overlaid(em, base, area', Size[num])
      /\ page' = [page EXCEPT ![num] = nextPage] /\ nextPage' = nextPage + pagesOf(num)
      /\ UNCHANGED <<variant, emPages, called>> /\ ovPc = "copy"
      /\ num' = IF num < NumOverlays THEN num + 1 ELSE 1
      /\ ovPc' = IF num < NumOverlays THEN "copy" ELSE "call"
  BY DEF storeOverlay, nextToCopy
<1>4. /\ DOMAIN area' = DOMAIN area /\ short \subseteq short'
      /\ num \notin short' => \A j \in 0 .. Size[num] - 1 : area'[j] = <<num, j>>
  BY <1>1, <1>3, Loaded
<1>5. /\ DOMAIN em' = DOMAIN em
      /\ \A j \in DOMAIN em : em'[j] = IF base <= j /\ j < base + Size[num] THEN area'[j - base] ELSE em[j]
  BY <1>3, Overlaid
<1>6. page'[num] = nextPage /\ \A n \in Nums \ {num} : page'[n] = page[n] /\ (stored(n)' <=> stored(n))
  BY <1>1, <1>3 DEF stored
<1>7. OvTyped'
  <2>1. page' \in [Nums -> Int] /\ nextPage' \in Nat /\ nextPage' <= emPages
    BY <1>1, <1>2, <1>3
  <2>2. num' \in Nums
    BY <1>1, <1>3
  <2> QED
    BY <1>1, <1>3, <1>4, <1>5, <2>1, <2>2 DEF OvIInv, OvTyped
<1>8. Progress'
  <2>1. ASSUME ovPc' = "copy", NEW n \in Nums, n >= num'
        PROVE  ~stored(n)'
    <3>1. n # num /\ n >= num
      BY <1>1, <1>3, <2>1
    <3> QED
      BY <3>1, <1>3, <1>6 DEF OvIInv, Progress
  <2>2. ovPc' = "call" => num' = 1
    BY <1>3
  <2> QED
    BY <1>1, <1>3, <2>1, <2>2 DEF Progress, StoredIsCalled
<1>9. StoredApart'
  <2>1. \A n \in Nums \ {num} : pagesHeld(n)' = pagesHeld(n)
    BY <1>6 DEF pagesHeld, pagesOf
  <2>2. \A n \in Nums : n = num => pagesHeld(n)' = nextPage .. nextPage + pagesOf(num) - 1
    BY <1>6 DEF pagesHeld, pagesOf
  <2>3. \A n \in Nums \ {num} : stored(n) => pagesHeld(n) \subseteq 0 .. nextPage - 1
    BY DEF OvIInv, StoredApart
  <2>4. /\ nextPage .. nextPage + pagesOf(num) - 1 \subseteq 0 .. nextPage' - 1
        /\ nextPage' <= emPages'
    <3>1. /\ nextPage \in Nat /\ emPages \in Nat /\ pagesOf(num) \in Nat
          /\ pagesOf(num) <= emPages - nextPage
      BY <1>1, <1>2, <1>3
    <3>2. nextPage' = nextPage + pagesOf(num) /\ emPages' = emPages
      BY <1>3
    <3> QED
      BY <3>1, <3>2
  <2>5. \A n \in Nums \ {num} : stored(n) =>
          /\ pagesHeld(n) \subseteq 0 .. nextPage' - 1
          /\ pagesHeld(n) \cap (nextPage .. nextPage + pagesOf(num) - 1) = {}
    <3>1. TAKE n \in Nums \ {num}
    <3>2. HAVE stored(n)
    <3>3. pagesHeld(n) \subseteq 0 .. nextPage - 1
      BY <2>3, <3>2
    <3>4. nextPage \in Nat /\ nextPage' \in Nat /\ nextPage <= nextPage' /\ pagesOf(num) \in Nat
      BY <1>1, <1>2, <1>3
    <3> HIDE DEF pagesHeld, pagesOf
    <3> QED
      BY <3>3, <3>4
  <2>6. \A n, o \in Nums : n # o /\ stored(n) /\ stored(o) => pagesHeld(n) \cap pagesHeld(o) = {}
    BY DEF OvIInv, StoredApart
  <2>7. ASSUME NEW n \in Nums, stored(n)'
        PROVE  /\ pagesHeld(n)' \subseteq 0 .. nextPage' - 1 /\ nextPage' <= emPages'
               /\ \A o \in Nums \ {n} : stored(o)' => pagesHeld(n)' \cap pagesHeld(o)' = {}
    <3>1. CASE n = num
      <4>1. pagesHeld(n)' = nextPage .. nextPage + pagesOf(num) - 1
        BY <2>2, <3>1
      <4>2. ASSUME NEW o \in Nums \ {n}, stored(o)'
            PROVE  pagesHeld(n)' \cap pagesHeld(o)' = {}
        <5>1. o \in Nums \ {num} /\ stored(o) /\ pagesHeld(o)' = pagesHeld(o)
          BY <1>6, <2>1, <3>1, <4>2
        <5>2. pagesHeld(o) \cap (nextPage .. nextPage + pagesOf(num) - 1) = {}
          BY <2>5, <5>1
        <5> QED
          BY <4>1, <5>1, <5>2, Zenon
      <4> QED
        BY <2>4, <4>1, <4>2
    <3>2. CASE n # num
      <4>1. stored(n) /\ pagesHeld(n)' = pagesHeld(n)
        BY <1>6, <2>1, <2>7, <3>2
      <4>2. ASSUME NEW o \in Nums \ {n}, stored(o)'
            PROVE  pagesHeld(n)' \cap pagesHeld(o)' = {}
        <5>1. CASE o = num
          BY <2>2, <2>5, <3>2, <4>1, <5>1
        <5>2. CASE o # num
          BY <1>6, <2>1, <2>6, <4>1, <4>2, <5>2
        <5> QED
          BY <5>1, <5>2
      <4> QED
        BY <2>4, <2>5, <3>2, <4>1, <4>2
    <3> QED
      BY <3>1, <3>2
  <2> QED
    BY <2>7 DEF StoredApart
<1>10. StoredRight'
  <2>1. ASSUME NEW n \in Nums, stored(n)', n \notin short', NEW j \in 0 .. Size[n] - 1
        PROVE  em'[cellOf(n, j)'] = <<n, j>>
    <3>1. CASE n = num
      <4>1. cellOf(n, j)' = base + j
        BY <1>6, <3>1 DEF cellOf
      <4>2. base \in Nat /\ j \in Nat /\ j < Size[num]
        BY <1>1, <1>2, <3>1
      <4>3. base + j \in DOMAIN em
        <5> DEFINE k == pagesOf(num)
                   s == Size[num]
                   e == emPages * EM_PAGE_SIZE
        <5>1. k \in Nat /\ s \in Nat /\ j \in 0 .. s - 1 /\ s <= k * EM_PAGE_SIZE /\ nextPage + k <= emPages
          BY <1>1, <1>2, <1>3, <3>1
        <5>2. e \in Nat /\ DOMAIN em = 0 .. e - 1
          BY <1>1, <1>2
        <5> HIDE DEF k, s
        <5>3. base + j < e
          <6>1. EM_PAGE_SIZE \in Nat /\ nextPage \in Int /\ emPages \in Int
            BY <1>1, <1>2
          <6> QED
            BY <5>1, <6>1, WithinPages
        <5> HIDE DEF base, e
        <5> QED
          BY <4>2, <5>2, <5>3
      <4> HIDE DEF base
      <4>4. em'[base + j] = area'[j]
        BY <1>2, <1>5, <4>2, <4>3
      <4> QED
        BY <1>4, <2>1, <3>1, <4>1, <4>4
    <3>2. CASE n # num
      <4>1. stored(n) /\ cellOf(n, j)' = cellOf(n, j)
        BY <1>6, <2>1, <3>2 DEF cellOf
      <4>2. cellOf(n, j) \in DOMAIN em /\ cellOf(n, j) < base /\ base \in Int /\ DOMAIN em \subseteq Int
        BY <1>1, <1>2, <4>1, StoredCells
      <4> HIDE DEF base
      <4>3. em'[cellOf(n, j)] = em[cellOf(n, j)]
        BY <1>5, <4>2
      <4>4. em[cellOf(n, j)] = <<n, j>>
        BY <1>4, <2>1, <4>1 DEF OvIInv, StoredRight
      <4> QED
        BY <4>1, <4>3, <4>4
    <3> QED
      BY <3>1, <3>2
  <2> QED
    BY <2>1 DEF StoredRight
<1> QED
  BY <1>7, <1>8, <1>9, <1>10 DEF OvIInv

LEMMA OvStepIInv ==
  ASSUME OvIInv, [OvNext]_overlayVars
  PROVE  OvIInv'
<1>1. NumOverlays \in Nat \ {0} /\ Nums = 1 .. NumOverlays /\ EM_PAGE_SIZE \in Nat /\ PageCounts \subseteq Nat
  BY OverlayAssumption DEF Nums
<1>2. CASE loademdriver
  <2>1. /\ \A n \in Nums : ~stored(n)
        /\ page' = page /\ nextPage' = nextPage /\ short' = short /\ nextPage \in Nat
    BY <1>2 DEF loademdriver, OvIInv, Progress, OvTyped
  <2>2. \A n \in Nums : ~stored(n)'
    BY <2>1 DEF stored
  <2>3. nextPage = 0
    BY <1>2 DEF loademdriver, OvIInv, OvTyped
  <2>4. emPages' \in Nat /\ nextPage' <= emPages' /\ DOMAIN em' = 0 .. emPages' * EM_PAGE_SIZE - 1
    BY <1>1, <1>2, <2>1, <2>3 DEF loademdriver, OvIInv, OvTyped
  <2>5. OvTyped'
    BY <1>2, <2>1, <2>4 DEF loademdriver, OvIInv, OvTyped
  <2> QED
    BY <1>2, <2>2, <2>5 DEF loademdriver, OvIInv, Progress, StoredApart, StoredRight, StoredIsCalled
<1>3. CASE leaveOverlay
  <2>1. StoredApart' /\ StoredRight' /\ \A n : stored(n)' <=> stored(n)
    BY <1>3, NothingStored DEF leaveOverlay
  <2>2. /\ num \in Nums /\ ovPc = "copy" /\ variant = "multi"
        /\ num' = IF num < NumOverlays THEN num + 1 ELSE 1
        /\ ovPc' = IF num < NumOverlays THEN "copy" ELSE "call"
    BY <1>3 DEF leaveOverlay, nextToCopy, OvIInv, OvTyped
  <2>3. num' \in Nums
    BY <1>1, <2>2
  <2>4. OvTyped'
    BY <1>3, <2>2, <2>3 DEF leaveOverlay, OvIInv, OvTyped
  <2>5. \A n \in Nums : n >= num => ~stored(n)
    BY <2>2 DEF OvIInv, Progress
  <2>6. (ovPc' = "copy" => \A n \in Nums : n >= num' => n >= num) /\ (ovPc' = "call" => num' = 1)
    BY <1>1, <2>2
  <2>7. Progress'
    BY <1>1, <1>3, <2>1, <2>2, <2>5, <2>6 DEF leaveOverlay, Progress, StoredIsCalled
  <2> QED
    BY <2>1, <2>4, <2>7 DEF OvIInv
<1>4. CASE storeOverlay
  BY <1>4, StoreIInv
<1>5. CASE callOverlay
  <2>1. num \in Nums /\ loadoverlay(num)
    BY <1>5 DEF callOverlay, OvIInv, OvTyped
  <2>2. DOMAIN area' = DOMAIN area /\ short \subseteq short'
    BY <2>1, Loaded
  <2> QED
    BY <1>5, <2>2, NextCalled DEF callOverlay
<1>6. CASE skipOverlay
  <2>1. ~stored(num)
    BY <1>6 DEF skipOverlay, stored, OvIInv, OvTyped
  <2> QED
    BY <1>6, <2>1, NextCalled DEF skipOverlay
<1>7. CASE openRecordFile
  <2>1. StoredApart' /\ StoredRight' /\ \A n : stored(n)' <=> stored(n)
    BY <1>7, NothingStored DEF openRecordFile
  <2>2. OvTyped'
    BY <1>7 DEF openRecordFile, OvIInv, OvTyped
  <2>3. Progress'
    BY <1>7, <2>1 DEF openRecordFile, OvIInv, OvTyped, Progress, StoredIsCalled
  <2> QED
    BY <2>1, <2>2, <2>3 DEF OvIInv
<1>8. CASE callRecord
  <2>1. DOMAIN area' = DOMAIN area
    BY <1>8, Overlaid DEF callRecord
  <2> QED
    BY <1>8, <2>1, NextCalled DEF callRecord
<1>9. CASE recordError
  <2>1. DOMAIN area' = DOMAIN area
    BY <1>9, Overlaid DEF recordError
  <2>2. StoredApart' /\ StoredRight' /\ \A n : stored(n)' <=> stored(n)
    BY <1>9, NothingStored DEF recordError
  <2>3. OvTyped'
    BY <1>9, <2>1 DEF recordError, OvIInv, OvTyped
  <2>4. Progress'
    BY <1>9, <2>2 DEF recordError, OvIInv, Progress, StoredIsCalled
  <2> QED
    BY <2>2, <2>3, <2>4 DEF OvIInv
<1>10. CASE UNCHANGED overlayVars
  <2>1. StoredApart' /\ StoredRight' /\ \A n : stored(n)' <=> stored(n)
    BY <1>10, NothingStored DEF overlayVars
  <2>2. OvTyped' /\ Progress'
    BY <1>10, <2>1 DEF overlayVars, OvIInv, OvTyped, Progress, StoredIsCalled
  <2> QED
    BY <2>1, <2>2 DEF OvIInv
<1> QED
  BY <1>2, <1>3, <1>4, <1>5, <1>6, <1>7, <1>8, <1>9, <1>10 DEF OvNext

LEMMA OvCalls ==
  ASSUME OvIInv, [OvNext]_overlayVars
  PROVE  [CalledRight]_overlayVars
<1>1. CASE callOverlay
  <2>1. num \in Nums /\ loadoverlay(num) /\ called' = called \cup {num}
    BY <1>1 DEF callOverlay, OvIInv, OvTyped
  <2>2. num \notin short' => \A j \in 0 .. Size[num] - 1 : area'[j] = <<num, j>>
    BY <2>1, Loaded
  <2> QED
    BY <2>1, <2>2 DEF CalledRight
<1>2. CASE callRecord
  <2>1. num \in Nums /\ area' = overlaid(area, 0, Bytes(num), Size[num]) /\ called' = called \cup {num}
    BY <1>2 DEF callRecord, OvIInv, OvTyped
  <2>2. Size[num] \in Nat /\ \A j \in 0 .. Size[num] - 1 : j \in DOMAIN area /\ j \in Nat
    BY <2>1, PageFacts, OverlayAssumption DEF OvIInv, OvTyped
  <2>3. \A j \in DOMAIN area : area'[j] = IF 0 <= j /\ j < 0 + Size[num] THEN Bytes(num)[j - 0] ELSE area[j]
    BY <2>1, Overlaid
  <2>4. ASSUME NEW j \in 0 .. Size[num] - 1
        PROVE  area'[j] = <<num, j>>
    <3>1. j \in DOMAIN area /\ 0 <= j /\ j < 0 + Size[num] /\ j - 0 = j
      BY <2>2
    <3>2. area'[j] = Bytes(num)[j]
      BY <2>3, <3>1
    <3> QED
      BY <3>2 DEF Bytes
  <2> QED
    BY <2>1, <2>4 DEF CalledRight
<1>3. CASE ~callOverlay /\ ~callRecord
  BY <1>3 DEF CalledRight, OvNext, overlayVars, loademdriver, leaveOverlay, storeOverlay, skipOverlay, openRecordFile, recordError
<1> QED
  BY <1>1, <1>2, <1>3

(* overlaydemo.c and multidemo.c keep every overlay they put in extended   *)
(* memory, whatever its size and the size of a page: no copy overwrites    *)
(* another, what is called is the overlay that was asked for, and an       *)
(* overlay that was stored is called even if its disk is gone by then.     *)
THEOREM OverlaysAreKept == OvSpec => OverlaysKept
<1>1. OvIInv => StoredApart /\ StoredIsCalled
  BY DEF OvIInv, Progress
<1>2. OvIInv /\ [OvNext]_overlayVars => OvIInv'
  BY OvStepIInv
<1>3. OvIInv /\ [OvNext]_overlayVars => [CalledRight]_overlayVars
  BY OvCalls
<1> QED
  BY <1>1, <1>2, <1>3, OvInitIInv, PTL DEF OvSpec, OverlaysKept, RightOverlayCalled

-----------------------------------------------------------------------------
(* The line editor of the Woz monitor (WozMon).                            *)

WozTyped ==
  /\ wozAt \in {"NEXTCHAR", "NEXTITEM", "NEXTHEX", "NOTHEX", "RUN"}
  /\ DOMAIN inputLine = 0 .. PageSize - 1
  /\ edited \in Seq(Int)
  /\ wozAt = "NEXTCHAR" => Y < LineLength

(* While a line is parsed, what was typed before it is forgotten.          *)
WozIInv ==
  /\ WozTyped
  /\ wozAt # "NEXTCHAR" => edited = <<>>
  /\ LineAsEdited

LEMMA WozSizes ==
  PageSize \in 3..256 /\ LineLength \in 2..(PageSize - 1) /\ 0 < LineLength
  BY WozSizeAssumption

LEMMA WozInitIInv == WozInit => WozIInv
<1> SUFFICES ASSUME WozInit PROVE WozIInv
  OBVIOUS
<1>1. /\ wozAt = "NEXTCHAR" /\ Y = 0 /\ edited = <<>> /\ LineLength > 0
      /\ DOMAIN inputLine = 0 .. PageSize - 1
  <2>1. LineLength > 0
    BY WozSizes
  <2>2. inputLine \in [0 .. PageSize - 1 -> Cells]
    BY DEF WozInit
  <2>3. wozAt = "NEXTCHAR" /\ Y = 0 /\ edited = <<>>
    BY DEF WozInit
  <2> QED
    BY <2>1, <2>2, <2>3
<1>2. Len(edited) = 0 /\ edited \in Seq(Int)
  BY <1>1
<1> QED
  BY <1>1, <1>2 DEF WozIInv, WozTyped, LineAsEdited

(* The keys: a character is taken, taken back, or ends the line.           *)
LEMMA KeyIInv ==
  ASSUME WozIInv, NEW c \in Typeable, NEXTCHAR(c)
  PROVE  WozIInv'
<1>1. /\ wozAt = "NEXTCHAR" /\ edited \in Seq(Int) /\ Y = Len(edited) /\ Y \in Nat /\ Y < LineLength
      /\ \A n \in 1..Y : inputLine[n - 1] = edited[n]
      /\ DOMAIN inputLine = 0 .. PageSize - 1
      /\ c \in Int /\ PageSize \in 3..256 /\ LineLength \in 2..(PageSize - 1)
      /\ Len(edited) \in Nat
  <2>1. wozAt = "NEXTCHAR" /\ edited \in Seq(Int) /\ Y < LineLength /\ LineAsEdited
    BY DEF NEXTCHAR, WozIInv, WozTyped
  <2>2. Len(edited) \in Nat
    BY <2>1, LenProperties
  <2>3. c \in Int /\ PageSize \in 3..256 /\ LineLength \in 2..(PageSize - 1)
    BY WozAssumption, WozSizes
  <2> QED
    BY <2>1, <2>2, <2>3 DEF LineAsEdited, WozIInv, WozTyped
<1>2. inputLine' = [inputLine EXCEPT ![Y] = c] /\ edited' = edit(edited, c)
  BY DEF NEXTCHAR
<1>3. /\ DOMAIN inputLine' = DOMAIN inputLine
      /\ \A n \in 1..Y : inputLine'[n - 1] = edited[n]
      /\ inputLine'[Y] = c
  BY <1>1, <1>2
<1>4. CR # BS /\ CR # ESC /\ BS # ESC
  BY DEF CR, BS, ESC
<1>5. CASE c = CR
  <2>1. edited' = <<>> /\ wozAt' = "NEXTITEM"
    BY <1>2, <1>4, <1>5 DEF edit, NEXTCHAR, parseLine
  <2> QED
    BY <1>1, <1>3, <2>1 DEF WozIInv, WozTyped, LineAsEdited
<1>6. CASE c = ESC \/ (c \notin {CR, BS} /\ Y + 1 = LineLength)
  <2>1. edited' = <<>> /\ wozAt' = "NEXTCHAR" /\ Y' = 0
    BY <1>1, <1>2, <1>4, <1>6 DEF edit, NEXTCHAR, GETLINE
  <2>2. Len(edited') = 0 /\ edited' \in Seq(Int)
    BY <2>1
  <2> QED
    BY <1>1, <1>3, <2>1, <2>2 DEF WozIInv, WozTyped, LineAsEdited
<1>7. CASE c = BS
  <2>1. edited' = SubSeq(edited, 1, Len(edited) - 1)
    BY <1>2, <1>4, <1>7 DEF edit
  <2>2. wozAt' = "NEXTCHAR" /\ Y' = IF Y = 0 THEN 0 ELSE Y - 1
    BY <1>4, <1>7 DEF NEXTCHAR, BACKSPACE, GETLINE
  <2>3. edited' \in Seq(Int) /\ Len(edited') = Y'
        /\ \A n \in 1..Y' : edited'[n] = edited[n]
    BY <1>1, <2>1, <2>2, SubSeqProperties
  <2> QED
    BY <1>1, <1>3, <2>2, <2>3 DEF WozIInv, WozTyped, LineAsEdited
<1>8. CASE c \notin {CR, BS, ESC} /\ Y + 1 # LineLength
  <2>1. edited' = Append(edited, c)
    BY <1>1, <1>2, <1>8 DEF edit
  <2>2. wozAt' = "NEXTCHAR" /\ Y' = Y + 1
    BY <1>8 DEF NEXTCHAR
  <2>3. edited' \in Seq(Int) /\ Len(edited') = Y + 1 /\ edited'[Y + 1] = c
        /\ \A n \in 1..Y : edited'[n] = edited[n]
    BY <1>1, <2>1, AppendProperties
  <2>4. ASSUME NEW n \in 1..Y' PROVE inputLine'[n - 1] = edited'[n]
    <3>1. CASE n = Y + 1
      <4>1. n - 1 = Y
        BY <1>1, <3>1
      <4>2. inputLine'[n - 1] = c
        BY <1>3, <4>1
      <4>3. edited'[n] = c
        BY <2>3, <3>1, Zenon
      <4> QED
        BY <4>2, <4>3
    <3>2. CASE n # Y + 1
      <4>1. n \in 1..Y
        BY <1>1, <2>2, <3>2
      <4>2. inputLine'[n - 1] = edited[n]
        BY <1>3, <4>1
      <4>3. edited'[n] = edited[n]
        BY <2>3, <4>1
      <4> QED
        BY <4>2, <4>3
    <3> QED
      BY <3>1, <3>2
  <2>5. Y' \in Nat /\ Y' < LineLength /\ Y' = Len(edited')
    BY <1>1, <1>8, <2>2, <2>3
  <2> QED
    BY <1>1, <1>3, <2>2, <2>3, <2>4, <2>5 DEF WozIInv, WozTyped, LineAsEdited
<1> QED
  BY <1>5, <1>6, <1>7, <1>8

(* Whatever the parser stores in the line, it begins a new one after it.   *)
LEMMA ParserIInv ==
  ASSUME WozIInv, WozParser
  PROVE  WozIInv'
<1>1. wozAt # "NEXTCHAR" /\ edited = <<>> /\ UNCHANGED edited
  BY DEF WozParser, NEXTITEM, NEXTHEX, NOTHEX, WozIInv
<1>2. wozAt' \in {"NEXTCHAR", "NEXTITEM", "NEXTHEX", "NOTHEX", "RUN"} /\ (wozAt' = "NEXTCHAR" => Y' = 0)
  BY DEF WozParser, NEXTITEM, NEXTHEX, NOTHEX, GETLINE, setMode
<1>3. Len(edited) = 0 /\ 0 < LineLength
  <2>1. Len(edited) = 0
    BY <1>1
  <2>2. 0 < LineLength
    BY WozSizes
  <2> QED
    BY <2>1, <2>2
<1>4. DOMAIN inputLine' = DOMAIN inputLine
  <2>1. ASSUME NEXTITEM \/ NEXTHEX PROVE inputLine' = inputLine
    BY <2>1 DEF NEXTITEM, NEXTHEX
  <2>2. ASSUME NOTHEX PROVE DOMAIN inputLine' = DOMAIN inputLine
    <3>1. CASE Y = YSAV
      BY <2>2, <3>1 DEF NOTHEX
    <3>2. CASE Y # YSAV
      BY <2>2, <3>2 DEF NOTHEX, store, examine
    <3> QED
      BY <3>1, <3>2
  <2> QED
    BY <2>1, <2>2 DEF WozParser
<1> QED
  BY <1>1, <1>2, <1>3, <1>4 DEF WozIInv, WozTyped, LineAsEdited

(* While a line is typed, IN holds it as it was edited.                    *)
THEOREM LineIsAsEdited == WozSpec => []LineAsEdited
<1>1. WozIInv /\ [WozNext]_wozVars => WozIInv'
  <2>1. ASSUME WozIInv, UNCHANGED wozVars PROVE WozIInv'
    BY <2>1 DEF wozVars, WozIInv, WozTyped, LineAsEdited
  <2> QED
    BY <2>1, KeyIInv, ParserIInv DEF WozNext
<1>2. WozIInv => LineAsEdited
  BY DEF WozIInv
<1> QED
  BY <1>1, <1>2, WozInitIInv, PTL DEF WozSpec

-----------------------------------------------------------------------------
(* The sieve (Sieve).                                                      *)

SieveTyped ==
  /\ sievePc \in {"outer", "inner", "list", "end"}
  /\ marked \in [Numbers -> BOOLEAN]
  /\ sievePc \in {"outer", "inner"} => I \in 2 .. SQRT_COUNT
  /\ sievePc = "inner" => I < SQRT_COUNT /\ J \in Nat
  /\ sievePc = "list" => I \in Nat /\ I >= 2
  /\ primes \subseteq Numbers

(* Every product of two factors, the first below i, is marked.             *)
MarkedBelow(j) ==
  \A a, b \in Numbers : 2 <= a /\ a < j /\ 2 <= b /\ a * b < COUNT => marked[a * b]

SieveIInv ==
  /\ SieveTyped
  /\ \A n \in Numbers : n >= 2 /\ marked[n] => Composite(n)
  /\ sievePc \in {"outer", "inner"} => MarkedBelow(I)
  /\ sievePc \in {"list", "end"} => MarkedBelow(SQRT_COUNT)
  /\ sievePc = "inner" =>
       \E k \in Nat : k >= 2 /\ J = I * k /\ \A b \in Numbers : 2 <= b /\ b < k /\ I * b < COUNT => marked[I * b]
  /\ sievePc \in {"outer", "inner"} => primes = {}
  /\ \A n \in primes : n >= 2 /\ ~marked[n]

LEMMA SieveConstants == COUNT \in Nat /\ SQRT_COUNT \in Nat /\ SQRT_COUNT >= 2
  /\ SQRT_COUNT < COUNT /\ COUNT <= SQRT_COUNT * SQRT_COUNT
  BY SieveAssumption

(* What multiplication of positive numbers does to an order.               *)
LEMMA ProductBounds ==
  ASSUME NEW a \in Nat, NEW b \in Nat, a >= 2, b >= 1
  PROVE  a * b \in Nat /\ a * b > b /\ a * b >= a /\ a * b >= 2
<1>1. a - 2 \in Nat /\ b - 1 \in Nat
  OBVIOUS
<1>2. a * b = (a - 2) * b + 2 * b /\ (a - 2) * b >= 0
  <2>1. (a - 2) * b = a * b - 2 * b
    OBVIOUS
  <2>2. a * b \in Int /\ (a - 2) * b \in Nat
    BY <1>1
  <2> QED
    BY <2>1, <2>2
<1>3. a * b = a * (b - 1) + a /\ a * (b - 1) >= 0
  <2>1. a * (b - 1) = a * b - a
    OBVIOUS
  <2>2. a * b \in Int /\ a * (b - 1) \in Nat
    BY <1>1
  <2> QED
    BY <2>1, <2>2
<1>4. a * b \in Nat
  OBVIOUS
<1> QED
  BY <1>2, <1>3, <1>4

LEMMA SquareBound ==
  ASSUME NEW a \in Nat, NEW b \in Nat, NEW s \in Nat, a >= s, b >= s
  PROVE  a * b >= s * s
<1>1. a * b = (a - s) * b + s * b
  OBVIOUS
<1>2. s * b = s * (b - s) + s * s
  OBVIOUS
<1>3. (a - s) * b \in Nat /\ s * (b - s) \in Nat /\ s * s \in Nat /\ a * b \in Nat /\ s * b \in Nat
  <2>1. a - s \in Nat /\ b - s \in Nat
    OBVIOUS
  <2> QED
    BY <2>1
<1> QED
  BY <1>1, <1>2, <1>3

(* A number below COUNT that is a product has a factor below SQRT_COUNT;   *)
(* when the multiples of those are marked, so is the number.               *)
LEMMA SieveThrough ==
  ASSUME SieveTyped, MarkedBelow(SQRT_COUNT), NEW n \in Numbers, n >= 2, Composite(n)
  PROVE  marked[n]
<1>1. PICK a \in 2 .. n - 1, b \in 2 .. n - 1 : n = a * b
  BY DEF Composite
<1>2. a \in Nat /\ b \in Nat /\ a \in Numbers /\ b \in Numbers /\ n < COUNT /\ n \in Nat
  BY <1>1, SieveConstants DEF Numbers
<1>3. a < SQRT_COUNT \/ b < SQRT_COUNT
  <2>1. CASE a >= SQRT_COUNT /\ b >= SQRT_COUNT
    <3>1. a * b >= SQRT_COUNT * SQRT_COUNT
      BY <1>2, <2>1, SieveConstants, SquareBound
    <3> DEFINE p == a * b
               q == SQRT_COUNT * SQRT_COUNT
    <3>2. p = n /\ p >= q /\ q \in Int /\ COUNT <= q
      BY <1>1, <3>1, SieveConstants
    <3> HIDE DEF p, q
    <3> QED
      BY <1>2, <3>2, SieveConstants
  <2> QED
    BY <1>2, <2>1, SieveConstants
<1>4. a * b = b * a
  BY <1>2
<1>5. 2 <= a /\ 2 <= b /\ a * b < COUNT
  BY <1>1, <1>2
<1> QED
  BY <1>1, <1>2, <1>3, <1>4, <1>5 DEF MarkedBelow

LEMMA SieveInitIInv == SieveInit => SieveIInv
<1> SUFFICES ASSUME SieveInit PROVE SieveIInv
  OBVIOUS
<1>1. SieveTyped
  BY SieveConstants DEF SieveInit, SieveTyped
<1>2. \A n \in Numbers : ~marked[n]
  BY DEF SieveInit
<1>3. MarkedBelow(I)
  BY DEF SieveInit, MarkedBelow, Numbers
<1> QED
  BY <1>1, <1>2, <1>3 DEF SieveInit, SieveIInv

(* A number that is marked has its multiples marked: they are multiples of *)
(* the factor it was marked for.                                           *)
LEMMA SkipIInv ==
  ASSUME SieveIInv, SkipMarked
  PROVE  SieveIInv'
<1>1. /\ sievePc = "outer" /\ I \in Nat /\ I >= 2 /\ I < SQRT_COUNT /\ I < COUNT /\ marked[I]
      /\ I' = I + 1 /\ UNCHANGED <<sievePc, marked, J, primes>> /\ MarkedBelow(I) /\ SieveTyped
      /\ I \in Numbers
  BY SieveConstants DEF SkipMarked, SieveIInv, SieveTyped, Numbers
<1>2. PICK c \in 2 .. I - 1, d \in 2 .. I - 1 : I = c * d
  BY <1>1 DEF SieveIInv, Composite
<1>3. ASSUME NEW b \in Numbers, 2 <= b, I * b < COUNT
      PROVE  marked[I * b]
  <2>1. b \in Nat /\ c \in Nat /\ d \in Nat /\ c >= 2 /\ d >= 2 /\ c < I /\ c \in Numbers
    BY <1>1, <1>2, <1>3, SieveConstants DEF Numbers
  <2>2. I * b = c * (d * b)
    BY <1>2, <2>1
  <2>3. d * b \in Nat /\ d * b >= 2
    BY <1>3, <2>1, ProductBounds
  <2>4. c * (d * b) > d * b
    <3> DEFINE e == d * b
    <3>1. e \in Nat /\ e >= 1
      BY <2>3
    <3> HIDE DEF e
    <3>2. c * e > e
      BY <2>1, <3>1, ProductBounds
    <3> QED
      BY <3>2 DEF e
  <2>5. d * b < COUNT
    <3> DEFINE e == d * b
               f == c * e
    <3>1. f = I * b /\ f > e /\ e \in Nat /\ f \in Nat /\ f < COUNT
      BY <1>3, <2>1, <2>2, <2>3, <2>4
    <3> HIDE DEF e, f
    <3>2. e < COUNT
      BY <3>1, SieveConstants
    <3> QED
      BY <3>2 DEF e
  <2>6. d * b \in Numbers
    BY <2>3, <2>5, SieveConstants DEF Numbers
  <2>7. marked[c * (d * b)]
    BY <1>1, <1>3, <2>1, <2>2, <2>3, <2>6 DEF MarkedBelow
  <2> QED
    BY <2>2, <2>7
<1>4. MarkedBelow(I + 1)
  <2>1. ASSUME NEW a \in Numbers, NEW b \in Numbers, 2 <= a, a < I + 1, 2 <= b, a * b < COUNT
        PROVE  marked[a * b]
    <3>1. CASE a = I
      BY <1>3, <2>1, <3>1
    <3>2. CASE a # I
      <4>1. a < I
        BY <1>1, <2>1, <3>2 DEF Numbers
      <4> QED
        BY <1>1, <2>1, <4>1 DEF MarkedBelow
    <3> QED
      BY <3>1, <3>2
  <2> QED
    BY <2>1 DEF MarkedBelow
<1>5. SieveTyped'
  BY <1>1, SieveConstants DEF SieveTyped
<1>6. MarkedBelow(I)'
  BY <1>1, <1>4 DEF MarkedBelow
<1> QED
  BY <1>1, <1>5, <1>6 DEF SieveIInv

(* The multiples of I are marked one after the other.                      *)
LEMMA MarkIInv ==
  ASSUME SieveIInv, MarkMultiple
  PROVE  SieveIInv'
<1>1. /\ sievePc = "inner" /\ I \in Nat /\ I >= 2 /\ I < SQRT_COUNT /\ J \in Nat /\ J < COUNT
      /\ marked' = [marked EXCEPT ![J] = TRUE] /\ J' = J + I
      /\ UNCHANGED <<sievePc, I, primes>> /\ MarkedBelow(I) /\ SieveTyped /\ J \in Numbers
      /\ marked \in [Numbers -> BOOLEAN] /\ primes = {}
  BY SieveConstants DEF MarkMultiple, SieveIInv, SieveTyped, Numbers
<1>2. PICK k \in Nat : k >= 2 /\ J = I * k
        /\ \A b \in Numbers : 2 <= b /\ b < k /\ I * b < COUNT => marked[I * b]
  BY <1>1 DEF SieveIInv
<1>3. \A n \in Numbers : (n = J \/ marked[n]) <=> marked'[n]
  BY <1>1
<1>4. Composite(J)
  <2>1. I * k > k /\ k * I > I /\ k * I = I * k
    BY <1>1, <1>2, ProductBounds
  <2>2. I \in 2 .. J - 1 /\ k \in 2 .. J - 1
    <3> DEFINE p == I * k
    <3>1. p = J /\ p > k /\ p > I
      BY <1>2, <2>1
    <3> HIDE DEF p
    <3> QED
      BY <1>1, <1>2, <3>1
  <2> QED
    BY <1>2, <2>2 DEF Composite
<1>5. k + 1 \in Nat /\ k + 1 >= 2 /\ J' = I * (k + 1)
  <2>1. I * (k + 1) = I * k + I
    BY <1>1
  <2> QED
    BY <1>1, <1>2, <2>1
<1>6. ASSUME NEW b \in Numbers, 2 <= b, b < k + 1, I * b < COUNT
      PROVE  marked'[I * b]
  <2>1. b \in Nat /\ I * b \in Nat
    BY <1>1, <1>6, SieveConstants DEF Numbers
  <2>2. I * b \in Numbers
    <3> DEFINE p == I * b
    <3>1. p \in Nat /\ p < COUNT
      BY <1>6, <2>1
    <3> HIDE DEF p
    <3>2. p \in Numbers
      BY <3>1, SieveConstants DEF Numbers
    <3> QED
      BY <3>2 DEF p
  <2>3. CASE b = k
    BY <1>2, <1>3, <2>2, <2>3
  <2>4. CASE b # k
    <3>1. b < k
      BY <1>2, <1>6, <2>1, <2>4
    <3>2. marked[I * b]
      BY <1>2, <1>6, <3>1
    <3> QED
      BY <1>3, <2>2, <3>2
  <2> QED
    BY <2>3, <2>4
<1>7. ASSUME NEW a \in Numbers, NEW b \in Numbers, 2 <= a, a < I, 2 <= b, a * b < COUNT
      PROVE  marked'[a * b]
  <2>1. marked[a * b]
    BY <1>1, <1>7 DEF MarkedBelow
  <2>2. a * b \in Numbers
    <3> DEFINE p == a * b
    <3>1. p \in Nat /\ p < COUNT
      BY <1>7, SieveConstants DEF Numbers
    <3> HIDE DEF p
    <3>2. p \in Numbers
      BY <3>1, SieveConstants DEF Numbers
    <3> QED
      BY <3>2 DEF p
  <2> QED
    BY <1>3, <2>1, <2>2
<1>8. SieveTyped'
  BY <1>1 DEF SieveTyped
<1>9. MarkedBelow(I)'
  BY <1>1, <1>7 DEF MarkedBelow
<1>10. \A n \in Numbers : n >= 2 /\ marked'[n] => Composite(n)
  BY <1>3, <1>4 DEF SieveIInv
<1>11. \E m \in Nat : m >= 2 /\ J' = I * m
        /\ \A b \in Numbers : 2 <= b /\ b < m /\ I * b < COUNT => marked'[I * b]
  BY <1>5, <1>6
<1> QED
  BY <1>1, <1>8, <1>9, <1>10, <1>11 DEF SieveIInv

(* All multiples of I are marked when J has reached COUNT.                 *)
LEMMA EndMultiplesIInv ==
  ASSUME SieveIInv, EndMultiples
  PROVE  SieveIInv'
<1>1. /\ sievePc = "inner" /\ I \in Nat /\ I >= 2 /\ I < SQRT_COUNT /\ J \in Nat /\ J >= COUNT
      /\ sievePc' = "outer" /\ I' = I + 1 /\ UNCHANGED <<marked, J, primes>>
      /\ MarkedBelow(I) /\ SieveTyped
  BY DEF EndMultiples, SieveIInv, SieveTyped
<1>2. PICK k \in Nat : k >= 2 /\ J = I * k
        /\ \A b \in Numbers : 2 <= b /\ b < k /\ I * b < COUNT => marked[I * b]
  BY <1>1 DEF SieveIInv
<1>3. ASSUME NEW b \in Numbers, 2 <= b, I * b < COUNT
      PROVE  marked[I * b]
  <2>1. b \in Nat
    BY SieveConstants DEF Numbers
  <2>2. CASE b >= k
    <3>1. I * b = I * k + I * (b - k)
      BY <1>1, <1>2, <2>1
    <3>2. I * (b - k) \in Nat /\ I * b \in Nat /\ I * k \in Nat
      <4>1. b - k \in Nat
        BY <1>2, <2>1, <2>2
      <4> QED
        BY <1>1, <1>2, <2>1, <4>1
    <3> DEFINE p == I * b
               q == I * k
               rest == I * (b - k)
    <3>3. p = q + rest /\ p \in Nat /\ q \in Nat /\ rest \in Nat /\ p < COUNT /\ q >= COUNT
      BY <1>1, <1>2, <1>3, <3>1, <3>2
    <3> HIDE DEF p, q, rest
    <3> QED
      BY <3>3, SieveConstants
  <2> QED
    BY <1>2, <1>3, <2>1, <2>2
<1>4. MarkedBelow(I + 1)
  <2>1. ASSUME NEW a \in Numbers, NEW b \in Numbers, 2 <= a, a < I + 1, 2 <= b, a * b < COUNT
        PROVE  marked[a * b]
    <3>1. CASE a = I
      BY <1>3, <2>1, <3>1
    <3>2. CASE a # I
      <4>1. a < I
        BY <1>1, <2>1, <3>2, SieveConstants DEF Numbers
      <4> QED
        BY <1>1, <2>1, <4>1 DEF MarkedBelow
    <3> QED
      BY <3>1, <3>2
  <2> QED
    BY <2>1 DEF MarkedBelow
<1>5. SieveTyped'
  BY <1>1, SieveConstants DEF SieveTyped
<1>6. MarkedBelow(I)'
  BY <1>1, <1>4 DEF MarkedBelow
<1> QED
  BY <1>1, <1>5, <1>6 DEF SieveIInv

LEMMA SieveStepIInv ==
  ASSUME SieveIInv, [SieveNext]_sieveVars
  PROVE  SieveIInv'
<1> USE SieveConstants
<1>1. CASE SkipMarked
  BY <1>1, SkipIInv
<1>2. CASE StartMultiples
  <2>1. /\ sievePc = "outer" /\ I \in Nat /\ I >= 2 /\ I < SQRT_COUNT /\ J' = I * 2
        /\ sievePc' = "inner" /\ UNCHANGED <<marked, I, primes>> /\ MarkedBelow(I) /\ SieveTyped
    BY <1>2 DEF StartMultiples, SieveIInv, SieveTyped
  <2>2. \E k \in Nat : k >= 2 /\ J' = I * k
          /\ \A b \in Numbers : 2 <= b /\ b < k /\ I * b < COUNT => marked[I * b]
    <3>1. \A b \in Numbers : ~(2 <= b /\ b < 2)
      BY DEF Numbers
    <3> QED
      BY <2>1, <3>1
  <2>3. SieveTyped'
    BY <2>1 DEF SieveTyped
  <2>4. MarkedBelow(I)'
    BY <2>1 DEF MarkedBelow
  <2> QED
    BY <2>1, <2>2, <2>3, <2>4 DEF SieveIInv
<1>3. CASE MarkMultiple
  BY <1>3, MarkIInv
<1>4. CASE EndMultiples
  BY <1>4, EndMultiplesIInv
<1>5. CASE EndSieve
  <2>1. /\ sievePc = "outer" /\ I = SQRT_COUNT /\ UNCHANGED <<marked, primes>>
        /\ (sievePc' = "list" /\ I' = 2) \/ (sievePc' = "end")
        /\ MarkedBelow(I) /\ SieveTyped
    BY <1>5 DEF EndSieve, SieveIInv, SieveTyped
  <2>2. SieveTyped'
    BY <2>1 DEF SieveTyped
  <2>3. MarkedBelow(SQRT_COUNT)'
    BY <2>1 DEF MarkedBelow
  <2> QED
    BY <2>1, <2>2, <2>3 DEF SieveIInv
<1>6. CASE ListNumber \/ EndList
  <2>1. /\ sievePc = "list" /\ sievePc' \in {"list", "end"} /\ UNCHANGED marked
        /\ SieveTyped /\ MarkedBelow(SQRT_COUNT) /\ I \in Nat /\ I >= 2
        /\ I' = I \/ I' = I + 1
        /\ \A n \in primes' : n \in primes \/ (n = I /\ ~marked[I] /\ I < COUNT)
    BY <1>6 DEF ListNumber, EndList, SieveIInv, SieveTyped
  <2>2. SieveTyped'
    <3>1. primes' \subseteq Numbers
      <4>1. I < COUNT => I \in Numbers
        BY <2>1 DEF Numbers
      <4>2. \A n \in primes : n \in Numbers
        BY <2>1 DEF SieveTyped
      <4> QED
        BY <2>1, <4>1, <4>2
    <3>2. I' \in Nat /\ I' >= 2
      BY <2>1
    <3> QED
      BY <2>1, <3>1, <3>2 DEF SieveTyped
  <2>3. MarkedBelow(SQRT_COUNT)'
    BY <2>1 DEF MarkedBelow
  <2> QED
    BY <2>1, <2>2, <2>3 DEF SieveIInv
<1>7. CASE UNCHANGED sieveVars
  BY <1>7 DEF sieveVars, SieveIInv, SieveTyped, MarkedBelow
<1> QED
  BY <1>1, <1>2, <1>3, <1>4, <1>5, <1>6, <1>7 DEF SieveNext

(* The sieve is exact.                                                     *)
THEOREM SieveIsExact == SieveSpec => []SieveExact
<1>1. SieveIInv => SieveExact
  <2> SUFFICES ASSUME SieveIInv, sievePc \in {"list", "end"} PROVE SieveExact
    BY DEF SieveExact
  <2>1. \A n \in Numbers : n >= 2 => (marked[n] <=> Composite(n))
    BY SieveThrough DEF SieveIInv
  <2>2. \A n \in primes : n >= 2 /\ ~Composite(n)
    BY <2>1 DEF SieveIInv, SieveTyped
  <2> QED
    BY <2>1, <2>2 DEF SieveExact
<1>2. SieveIInv /\ [SieveNext]_sieveVars => SieveIInv'
  BY SieveStepIInv
<1> QED
  BY <1>1, <1>2, SieveInitIInv, PTL DEF SieveSpec

-----------------------------------------------------------------------------
(* The Mandelbrot demo (Mandelbrot).                                       *)

(* The point of the orbit stays within ten units, the point of the plane   *)
(* is that of the pixel.                                                   *)
MandelIInv ==
  /\ r \in Int /\ -10 * One <= r /\ r <= 10 * One
  /\ i \in Int /\ -10 * One <= i /\ i <= 10 * One
  /\ x \in Nat /\ x < Screen.x /\ xx = tofp(-2) + (x + 1) * xs
  /\ y \in Nat /\ y < Screen.y /\ yy = tofp(-2) + (y + 1) * ys

LEMMA Quotient ==
  ASSUME NEW n \in Int, NEW lo \in Int, NEW hi \in Int, NEW p \in Nat, p > 0,
         lo * p <= n, n <= hi * p
  PROVE  n \div p \in lo .. hi
<1> DEFINE q == n \div p
           m == n % p
<1>1. q \in Int /\ m \in Nat /\ m < p /\ n = q * p + m
  OBVIOUS
<1> HIDE DEF q, m
<1>2. q >= lo
  <2>1. CASE q < lo
    <3>1. lo * p = (q + 1) * p + (lo - (q + 1)) * p /\ (lo - (q + 1)) * p \in Nat
      <4>1. lo - (q + 1) \in Nat
        BY <1>1, <2>1
      <4> QED
        BY <1>1, <4>1
    <3>2. (q + 1) * p = q * p + p
      BY <1>1
    <3> DEFINE a == lo * p
               b == q * p
               c == (lo - (q + 1)) * p
               d == (q + 1) * p
    <3>3. a \in Int /\ b \in Int /\ c \in Nat /\ d \in Int /\ a = d + c /\ d = b + p /\ a <= n /\ n = b + m
      BY <1>1, <3>1, <3>2
    <3> HIDE DEF a, b, c, d
    <3> QED
      BY <1>1, <3>3
  <2> QED
    BY <1>1, <2>1
<1>3. q <= hi
  <2>1. CASE q > hi
    <3>1. q * p = (hi + 1) * p + (q - (hi + 1)) * p /\ (q - (hi + 1)) * p \in Nat
      <4>1. q - (hi + 1) \in Nat
        BY <1>1, <2>1
      <4> QED
        BY <1>1, <4>1
    <3>2. (hi + 1) * p = hi * p + p
      BY <1>1
    <3> DEFINE a == hi * p
               b == q * p
               c == (q - (hi + 1)) * p
               d == (hi + 1) * p
    <3>3. a \in Int /\ b \in Int /\ c \in Nat /\ d \in Int /\ b = d + c /\ d = a + p /\ n <= a /\ n = b + m
      BY <1>1, <3>1, <3>2
    <3> HIDE DEF a, b, c, d
    <3> QED
      BY <1>1, <3>3
  <2> QED
    BY <1>1, <2>1
<1> QED
  BY <1>1, <1>2, <1>3 DEF q

LEMMA ProductWithin ==
  ASSUME NEW m \in Nat, NEW a \in Int, NEW b \in Int, -m <= a, a <= m, -m <= b, b <= m
  PROVE  a * b \in Int /\ -(m * m) <= a * b /\ a * b <= m * m
<1>1. m - a \in Nat /\ m + a \in Nat /\ m - b \in Nat /\ m + b \in Nat
  OBVIOUS
<1>2. (m - a) * (m + b) \in Nat /\ (m + a) * (m - b) \in Nat
      /\ (m - a) * (m - b) \in Nat /\ (m + a) * (m + b) \in Nat
  BY <1>1
<1>3. (m - a) * (m + b) + (m + a) * (m - b) = 2 * (m * m) - 2 * (a * b)
  OBVIOUS
<1>4. (m - a) * (m - b) + (m + a) * (m + b) = 2 * (m * m) + 2 * (a * b)
  OBVIOUS
<1>5. a * b \in Int /\ m * m \in Int
  OBVIOUS
<1> QED
  BY <1>2, <1>3, <1>4, <1>5

(* A square is not negative.                                               *)
LEMMA Square ==
  ASSUME NEW a \in Int
  PROVE  a * a >= 0
  OBVIOUS

(* A pixel is in the plane: so many steps do not leave it.                 *)
LEMMA PixelInPlane ==
  ASSUME NEW one \in Nat, NEW n \in Nat, n > 0, NEW p \in Nat, p < n
  PROVE  (p + 1) * ((2 * one - (-2) * one) \div n) \in 0 .. 4 * one
<1> DEFINE t == 4 * one
           q == t \div n
           m == t % n
<1>1. 2 * one - (-2) * one = t /\ t \in Nat
  OBVIOUS
<1> HIDE DEF t
<1>2. q \in Nat /\ m \in Nat /\ t = q * n + m
  BY <1>1
<1> HIDE DEF q, m
<1>3. n * q = (p + 1) * q + (n - (p + 1)) * q
  BY <1>2
<1>4. (p + 1) * q \in Nat /\ (n - (p + 1)) * q \in Nat /\ n * q = q * n
  <2>1. n - (p + 1) \in Nat
    OBVIOUS
  <2> QED
    BY <1>2, <2>1
<1>5. (p + 1) * q <= t
  <2> DEFINE a == n * q
             b == (p + 1) * q
             c == (n - (p + 1)) * q
  <2>1. a = b + c /\ b \in Nat /\ c \in Nat /\ t = a + m
    BY <1>2, <1>3, <1>4
  <2> HIDE DEF a, b, c
  <2>2. b <= t
    BY <1>2, <2>1
  <2> QED
    BY <2>2 DEF b
<1>6. (p + 1) * q \in 0 .. t
  BY <1>1, <1>4, <1>5
<1> QED
  BY <1>1, <1>6 DEF q, t

LEMMA Plane ==
  ASSUME MandelIInv
  PROVE  xx \in tofp(-2) .. tofp(2) /\ yy \in tofp(-2) .. tofp(2)
<1>1. One \in Nat /\ One > 0 /\ Screen.x \in Nat /\ Screen.x > 0 /\ Screen.y \in Nat /\ Screen.y > 0
  BY MandelAssumption
<1>2. (x + 1) * xs \in 0 .. 4 * One
  <2> DEFINE n == Screen.x
  <2>1. n \in Nat /\ n > 0 /\ x < n /\ x \in Nat
    BY <1>1 DEF MandelIInv
  <2> HIDE DEF n
  <2>2. (x + 1) * ((2 * One - (-2) * One) \div n) \in 0 .. 4 * One
    BY <1>1, <2>1, PixelInPlane
  <2> QED
    BY <2>2 DEF xs, tofp, n
<1>3. (y + 1) * ys \in 0 .. 4 * One
  <2> DEFINE n == Screen.y
  <2>1. n \in Nat /\ n > 0 /\ y < n /\ y \in Nat
    BY <1>1 DEF MandelIInv
  <2> HIDE DEF n
  <2>2. (y + 1) * ((2 * One - (-2) * One) \div n) \in 0 .. 4 * One
    BY <1>1, <2>1, PixelInPlane
  <2> QED
    BY <2>2 DEF ys, tofp, n
<1> DEFINE a == (x + 1) * xs
           b == (y + 1) * ys
<1>4. xx = -2 * One + a /\ yy = -2 * One + b /\ a \in 0 .. 4 * One /\ b \in 0 .. 4 * One
  BY <1>1, <1>2, <1>3 DEF MandelIInv, tofp
<1> HIDE DEF a, b
<1> QED
  BY <1>1, <1>4 DEF tofp

(* The next point of the orbit is within bounds if the last one was tested. *)
LEMMA IterateIInv ==
  ASSUME MandelIInv, Iterate
  PROVE  MandelIInv'
<1>1. One \in Nat /\ One > 0
  BY MandelAssumption
<1>2. /\ r \in Int /\ i \in Int /\ -(2 * One) <= r /\ r <= 2 * One /\ -(2 * One) <= i /\ i <= 2 * One
      /\ r' = (mulfp(r, r) - mulfp(i, i)) + xx /\ i' = (2 * r * i) \div One + yy
      /\ UNCHANGED <<xx, yy, x, y>>
  BY <1>1 DEF Iterate, MandelIInv, inBounds, fpabs, tofp
<1> DEFINE sq == (2 * One) * (2 * One)
           rr == r * r
           ii == i * i
           ri == r * i
<1>3. /\ rr \in Int /\ 0 <= rr /\ rr <= sq /\ ii \in Int /\ 0 <= ii /\ ii <= sq
      /\ ri \in Int /\ -sq <= ri /\ ri <= sq
  <2> DEFINE m == 2 * One
  <2>1. m \in Nat /\ -m <= r /\ r <= m /\ -m <= i /\ i <= m
    BY <1>1, <1>2
  <2> HIDE DEF m
  <2>2. /\ r * r \in Int /\ r * r <= m * m /\ i * i \in Int /\ i * i <= m * m
        /\ r * i \in Int /\ -(m * m) <= r * i /\ r * i <= m * m
    BY <1>2, <2>1, ProductWithin
  <2>3. r * r >= 0 /\ i * i >= 0
    BY <1>2, Square
  <2> QED
    BY <2>2, <2>3 DEF m
<1>4. sq = (4 * One) * One /\ 2 * sq = (8 * One) * One /\ sq \in Int
      /\ (-8 * One) * One = -(2 * sq) /\ 0 * One = 0
  BY <1>1
<1>5. 2 * r * i = 2 * ri
  BY <1>2
<1> HIDE DEF sq, rr, ii, ri
<1>6. rr \div One \in 0 .. 4 * One /\ ii \div One \in 0 .. 4 * One
  <2>1. 0 * One <= rr /\ rr <= (4 * One) * One /\ 0 * One <= ii /\ ii <= (4 * One) * One
    BY <1>3, <1>4
  <2>2. 4 * One \in Int /\ 0 \in Int
    BY <1>1
  <2> QED
    BY <1>1, <1>3, <2>1, <2>2, Quotient
<1>7. (2 * ri) \div One \in -8 * One .. 8 * One
  <2>1. (-8 * One) * One <= 2 * ri /\ 2 * ri <= (8 * One) * One
    BY <1>3, <1>4
  <2>2. 8 * One \in Int /\ -8 * One \in Int /\ 2 * ri \in Int
    BY <1>1, <1>3
  <2> QED
    BY <1>1, <2>1, <2>2, Quotient
<1>8. r' = (rr \div One) - (ii \div One) + xx /\ i' = (2 * ri) \div One + yy
  BY <1>2, <1>5 DEF mulfp, rr, ii
<1>9. xx \in -2 * One .. 2 * One /\ yy \in -2 * One .. 2 * One
  BY <1>1, Plane DEF tofp
<1>10. r' \in Int /\ -10 * One <= r' /\ r' <= 10 * One /\ i' \in Int /\ -10 * One <= i' /\ i' <= 10 * One
  BY <1>1, <1>6, <1>7, <1>8, <1>9
<1> QED
  BY <1>2, <1>10 DEF MandelIInv, xs, ys

(* The products stay within their longs, the points within their shorts.   *)
THEOREM MandelFits == MandelSpec => []FitsShort
<1>1. One \in Nat /\ One > 0 /\ ShortLimit = 32 * One
      /\ Screen.x \in Nat /\ Screen.x > 0 /\ Screen.y \in Nat /\ Screen.y > 0
  BY MandelAssumption
<1>2. xs \in Int /\ ys \in Int /\ tofp(-2) \in Int
  <2> DEFINE n == Screen.x
             m == Screen.y
  <2>1. n \in Nat /\ n > 0 /\ m \in Nat /\ m > 0
    BY <1>1
  <2> HIDE DEF n, m
  <2>2. (2 * One - (-2) * One) \div n \in Int /\ (2 * One - (-2) * One) \div m \in Int /\ (-2) * One \in Int
    BY <1>1, <2>1
  <2> QED
    BY <2>2 DEF xs, ys, tofp, n, m
<1>3. MandelInit => MandelIInv
  BY <1>1, <1>2 DEF MandelInit, MandelIInv
<1>4. MandelIInv => FitsShort
  <2> SUFFICES ASSUME MandelIInv PROVE FitsShort
    OBVIOUS
  <2>1. r \in Shorts /\ i \in Shorts
    BY <1>1 DEF MandelIInv, Shorts
  <2> QED
    BY <2>1, Plane DEF FitsShort
<1>5. MandelIInv /\ [MandelNext]_mandelVars => MandelIInv'
  <2> SUFFICES ASSUME MandelIInv, [MandelNext]_mandelVars PROVE MandelIInv'
    OBVIOUS
  <2>1. CASE Iterate
    BY <2>1, IterateIInv
  <2>2. CASE NextPixel
    <3>1. /\ x' = x + 1 /\ x' < Screen.x /\ xx' = xx + xs /\ UNCHANGED <<yy, y>> /\ r' = 0 /\ i' = 0
          /\ x \in Nat /\ xx = tofp(-2) + (x + 1) * xs /\ y \in Nat /\ y < Screen.y
          /\ yy = tofp(-2) + (y + 1) * ys
      BY <2>2 DEF NextPixel, MandelIInv
    <3>2. (x' + 1) * xs = (x + 1) * xs + xs
      BY <1>2, <3>1
    <3>3. xx' = tofp(-2) + (x' + 1) * xs
      BY <1>2, <3>1, <3>2
    <3> QED
      BY <1>1, <3>1, <3>3 DEF MandelIInv, xs, ys
  <2>3. CASE NextLine
    <3>1. /\ y' = y + 1 /\ y' < Screen.y /\ yy' = yy + ys /\ x' = 0 /\ xx' = tofp(-2) + xs /\ r' = 0 /\ i' = 0
          /\ y \in Nat /\ yy = tofp(-2) + (y + 1) * ys
      BY <2>3 DEF NextLine, MandelIInv
    <3>2. (y' + 1) * ys = (y + 1) * ys + ys
      BY <1>2, <3>1
    <3>3. yy' = tofp(-2) + (y' + 1) * ys
      BY <1>2, <3>1, <3>2
    <3>4. xx' = tofp(-2) + (x' + 1) * xs
      BY <1>2, <3>1
    <3> QED
      BY <1>1, <3>1, <3>3, <3>4 DEF MandelIInv, xs, ys
  <2>4. CASE UNCHANGED mandelVars
    BY <2>4 DEF mandelVars, MandelIInv, xs, ys
  <2> QED
    BY <2>1, <2>2, <2>3, <2>4 DEF MandelNext
<1> QED
  BY <1>3, <1>4, <1>5, PTL DEF MandelSpec

-----------------------------------------------------------------------------
(* The mouse demo (MouseTest).                                             *)

(* What the screen says is what the program has in its variables.          *)
TextShown == stateShown = [invisible |-> Invisible # 0, jailed |-> Jailed]

(* The driver counts as the program does; the program counts in a byte.    *)
Counted ==
  /\ presses \in Nat /\ presses <= MaxPresses
  /\ hidden \in Nat /\ hidden <= presses + 1 /\ Invisible = hidden
  /\ pos \in 0 .. Width /\ info \in 0 .. Width
  /\ Jailed \in BOOLEAN
  /\ box.min \in 0 .. Width /\ box.max \in 0 .. Width
  /\ Jailed => box.max - box.min <= 2 * Reach
  /\ ~Jailed => box = full_box

MouseIInv == TextShown /\ Counted

LEMMA LargerOfTwo ==
  ASSUME NEW a \in Int, NEW b \in Int
  PROVE  Max({a, b}) = IF a >= b THEN a ELSE b
<1> DEFINE m == IF a >= b THEN a ELSE b
<1>1. m \in {a, b} /\ \A z \in {a, b} : m >= z
  OBVIOUS
<1>2. \A u \in {a, b} : (\A z \in {a, b} : u >= z) => u = m
  OBVIOUS
<1> HIDE DEF m
<1>3. Max({a, b}) = m
  BY <1>1, <1>2 DEF Max
<1> QED
  BY <1>3 DEF m

LEMMA SmallerOfTwo ==
  ASSUME NEW a \in Int, NEW b \in Int
  PROVE  Min({a, b}) = IF a <= b THEN a ELSE b
<1> DEFINE m == IF a <= b THEN a ELSE b
<1>1. m \in {a, b} /\ \A z \in {a, b} : m <= z
  OBVIOUS
<1>2. \A u \in {a, b} : (\A z \in {a, b} : u <= z) => u = m
  OBVIOUS
<1> HIDE DEF m
<1>3. Min({a, b}) = m
  BY <1>1, <1>2 DEF Min
<1> QED
  BY <1>3 DEF m

LEMMA MouseInitIInv == MouseInit => MouseIInv
<1> SUFFICES ASSUME MouseInit PROVE MouseIInv
  OBVIOUS
<1>1. Width \in Nat /\ Reach \in Nat /\ MaxPresses \in Nat
  BY MouseAssumption
<1>2. /\ pos = 0 /\ box = full_box /\ hidden = 1 /\ info = 0 /\ Invisible = 1 /\ Jailed = FALSE /\ presses = 0
      /\ stateShown = [invisible |-> TRUE, jailed |-> FALSE]
  BY DEF MouseInit
<1>3. TextShown
  <2>1. (Invisible # 0) = TRUE
    BY <1>2
  <2> QED
    BY <1>2, <2>1 DEF TextShown
<1>4. box.min \in 0 .. Width /\ box.max \in 0 .. Width
  BY <1>1, <1>2 DEF full_box
<1>5. Counted
  <2>1. /\ pos = 0 /\ box = full_box /\ hidden = 1 /\ info = 0 /\ Invisible = 1 /\ ~Jailed /\ presses = 0
        /\ Jailed \in BOOLEAN
    BY <1>2
  <2> QED
    BY <1>1, <1>4, <2>1 DEF Counted
<1> QED
  BY <1>3, <1>5 DEF MouseIInv

LEMMA CountedStep ==
  ASSUME MaxPresses <= 254, Counted, [MouseNext]_mouseVars
  PROVE  Counted'
<1> USE DEF Counted
<1>1. Width \in Nat /\ Reach \in Nat /\ MaxPresses \in Nat
  BY MouseAssumption
<1>2. CASE PointerMoves
  BY <1>1, <1>2 DEF PointerMoves
<1>3. CASE mouse_info \/ NoKey
  BY <1>1, <1>3 DEF mouse_info, NoKey
<1>4. CASE KeyD \/ KeyQ
  BY <1>1, <1>4 DEF KeyD, KeyQ, press, again, ShowState
<1>5. CASE KeyH
  <2>1. /\ presses < MaxPresses /\ presses' = presses + 1 /\ hidden' = hidden + 1
        /\ Invisible' = (Invisible + 1) % 256 /\ UNCHANGED <<box, Jailed, pos, info>>
        /\ stateShown' = [invisible |-> Invisible' # 0, jailed |-> Jailed]
    BY <1>5 DEF KeyH, press, again, ShowState
  <2>2. Invisible' = hidden + 1
    <3>1. hidden + 1 \in 0 .. 255
      BY <1>1, <2>1
    <3>2. (hidden + 1) % 256 = hidden + 1
      BY <3>1
    <3> QED
      BY <2>1, <3>2
  <2> QED
    BY <1>1, <2>1, <2>2
<1>6. CASE KeyS
  BY <1>1, <1>6 DEF KeyS, press, again, ShowState
<1>7. CASE KeyJ
  <2>1. /\ presses < MaxPresses /\ presses' = presses + 1 /\ UNCHANGED <<hidden, Invisible, pos, info>>
        /\ Jailed' \in BOOLEAN /\ (Jailed' <=> ~Jailed)
        /\ box' = IF Jailed THEN full_box
                  ELSE [min |-> Max({info - Reach, full_box.min}), max |-> Min({info + Reach, full_box.max})]
    BY <1>7 DEF KeyJ, press, again, ShowState
  <2>2. full_box.min = 0 /\ full_box.max = Width /\ 0 \in 0 .. Width /\ Width \in 0 .. Width
    BY <1>1 DEF full_box
  <2>3. CASE Jailed
    BY <1>1, <2>1, <2>2, <2>3
  <2>4. CASE ~Jailed
    <3> DEFINE lo == Max({info - Reach, 0})
               hi == Min({info + Reach, Width})
    <3>1. lo = (IF info - Reach >= 0 THEN info - Reach ELSE 0)
          /\ hi = (IF info + Reach <= Width THEN info + Reach ELSE Width)
      BY <1>1, LargerOfTwo, SmallerOfTwo
    <3>2. box' = [min |-> lo, max |-> hi]
      BY <2>1, <2>2, <2>4
    <3> HIDE DEF lo, hi
    <3>3. lo \in 0 .. Width /\ hi \in 0 .. Width /\ hi - lo <= 2 * Reach
      BY <1>1, <3>1
    <3>4. box'.min \in 0 .. Width /\ box'.max \in 0 .. Width /\ box'.max - box'.min <= 2 * Reach
      BY <3>2, <3>3
    <3> QED
      BY <1>1, <2>1, <2>4, <3>4
  <2> QED
    BY <2>3, <2>4
<1>8. CASE UNCHANGED mouseVars
  BY <1>8 DEF mouseVars
<1> QED
  BY <1>2, <1>3, <1>4, <1>5, <1>6, <1>7, <1>8 DEF MouseNext

LEMMA TextStep ==
  ASSUME TextShown, [MouseNext]_mouseVars
  PROVE  TextShown'
<1> USE DEF TextShown
<1>1. CASE PointerMoves \/ mouse_info \/ NoKey
  BY <1>1 DEF PointerMoves, mouse_info, NoKey
<1>2. CASE KeyD \/ KeyQ
  BY <1>2 DEF KeyD, KeyQ, again, ShowState
<1>3. CASE KeyH \/ KeyS \/ KeyJ
  BY <1>3 DEF KeyH, KeyS, KeyJ, again, ShowState
<1>4. CASE UNCHANGED mouseVars
  BY <1>4 DEF mouseVars
<1> QED
  BY <1>1, <1>2, <1>3, <1>4 DEF MouseNext

(* What the screen says of the pointer is so, for fewer keys than the      *)
(* counter of the program, a byte, can hold.                               *)
THEOREM PointerTextIsTrue ==
  ASSUME MaxPresses <= 254
  PROVE  MouseSpec => []PointerTextTrue
<1>1. MouseIInv => PointerTextTrue
  <2> SUFFICES ASSUME TextShown, Counted PROVE PointerTextTrue
    BY DEF MouseIInv
  <2>1. stateShown.invisible = (Invisible # 0) /\ stateShown.jailed = Jailed
    BY DEF TextShown
  <2>2. Invisible # 0 <=> hidden > 0
    BY DEF Counted
  <2>3. full_box.min = 0 /\ full_box.max = Width
    BY DEF full_box
  <2>4. Jailed => full_box.min <= box.min /\ box.max <= full_box.max /\ box.max - box.min <= 2 * Reach
    BY <2>3, MouseAssumption DEF Counted
  <2>5. stateShown.invisible <=> hidden > 0
    BY <2>1, <2>2
  <2> QED
    BY <2>1, <2>4, <2>5 DEF Counted, PointerTextTrue
<1>2. MouseIInv /\ [MouseNext]_mouseVars => MouseIInv'
  BY CountedStep, TextStep DEF MouseIInv
<1> QED
  BY <1>1, <1>2, MouseInitIInv, PTL DEF MouseSpec

-----------------------------------------------------------------------------
(* The decompression sample (Gunzip).                                      *)

(* The header is passed part by part.                                      *)
partEnd ==
  CASE gzAt = "extra" -> 0 [] gzAt = "name" -> extraEnd(gzFile) [] gzAt = "comment" -> nameEnd(gzFile)
    [] gzAt = "crc" -> commentEnd(gzFile) [] gzAt = "move" -> dataAt(gzFile)

InHeader == gzAt \in {"extra", "name", "comment", "crc", "move"}

GzTyped ==
  /\ gzFile \in GzFiles
  /\ gzAt \in {"read", "extra", "name", "comment", "crc", "move", "inflate", "failed", "Ok", "not written"}
  /\ DOMAIN gzBuffer = 0 .. GzBufferSize - 1
  /\ piece \in 0 .. Len(gzFile.ends) /\ total_out = outLength(gzFile, piece)

FileRead ==
  InHeader =>
    /\ complen = fileLength(gzFile) /\ fileLength(gzFile) < GzBufferSize
    /\ \A j \in 0 .. fileLength(gzFile) - 1 : gzBuffer[j] = fileByte(gzFile, j)
    /\ piece = 0 /\ ptr = partEnd /\ unclen(gzFile) <= GzBufferSize

(* What is behind the end of the data that was written is still to be read. *)
Inflating ==
  gzAt = "inflate" =>
    /\ complen = inAll(gzFile) /\ fileLength(gzFile) < GzBufferSize
    /\ unclen(gzFile) <= GzBufferSize
    /\ \A n \in 1 .. inAll(gzFile) :
         GzBufferSize - inAll(gzFile) + n - 1 >= total_out =>
           gzBuffer[GzBufferSize - inAll(gzFile) + n - 1] = <<"in", n>>
    /\ \A j \in 0 .. total_out - 1 : gzBuffer[j] = <<"out", j>>

GzIInv == GzTyped /\ (gzAt = "read" => piece = 0 /\ ptr = 0) /\ FileRead /\ Inflating /\ GoodFileInflated

LEMMA FileFacts ==
  ASSUME NEW f \in GzFiles
  PROVE  /\ GzBufferSize \in Nat /\ f.extra \in Nat /\ f.name \in Nat /\ f.comment \in Nat
         /\ Len(f.ends) \in Nat
         /\ \A n \in 0 .. Len(f.ends) : inLength(f, n) \in Nat /\ outLength(f, n) \in Nat
         /\ \A n \in 0 .. Len(f.ends) - 1 : inLength(f, n) <= inLength(f, n + 1)
                                          /\ outLength(f, n) <= outLength(f, n + 1)
         /\ \A n \in 0 .. Len(f.ends) : inLength(f, n) <= inAll(f) /\ outLength(f, n) <= unclen(f)
         /\ inAll(f) \in Nat /\ unclen(f) \in Nat
<1>1. /\ GzBufferSize \in Nat /\ f.extra \in Nat /\ f.name \in Nat /\ f.comment \in Nat
      /\ f.ends \in Seq([in : Nat, out : Nat])
      /\ \A m, n \in DOMAIN f.ends :
           m <= n => f.ends[m].in <= f.ends[n].in /\ f.ends[m].out <= f.ends[n].out
  BY GunzipAssumption
<1>2. Len(f.ends) \in Nat /\ DOMAIN f.ends = 1 .. Len(f.ends)
  BY <1>1, LenProperties
<1>3. \A n \in 1 .. Len(f.ends) : f.ends[n] \in [in : Nat, out : Nat]
  BY <1>1, <1>2, ElementOfSeq
<1>4. \A n \in 1 .. Len(f.ends) : f.ends[n].in \in Nat /\ f.ends[n].out \in Nat
  BY <1>3
<1>5. ASSUME NEW n \in 0 .. Len(f.ends)
      PROVE  inLength(f, n) \in Nat /\ outLength(f, n) \in Nat
  BY <1>2, <1>4 DEF inLength, outLength
<1>6. ASSUME NEW m \in 0 .. Len(f.ends), NEW n \in 0 .. Len(f.ends), m <= n
      PROVE  inLength(f, m) <= inLength(f, n) /\ outLength(f, m) <= outLength(f, n)
  <2>1. CASE m = 0
    <3>1. inLength(f, m) = 0 /\ outLength(f, m) = 0
      BY <2>1 DEF inLength, outLength
    <3>2. inLength(f, n) \in Nat /\ outLength(f, n) \in Nat
      BY <1>5
    <3> QED
      BY <3>1, <3>2
  <2>2. CASE m # 0
    <3>1. m \in DOMAIN f.ends /\ n \in DOMAIN f.ends /\ n # 0
      BY <1>2, <1>6, <2>2
    <3> QED
      BY <1>1, <1>6, <2>2, <3>1 DEF inLength, outLength
  <2> QED
    BY <2>1, <2>2
<1>7. ASSUME NEW n \in 0 .. Len(f.ends) - 1
      PROVE  inLength(f, n) <= inLength(f, n + 1) /\ outLength(f, n) <= outLength(f, n + 1)
  <2>1. n \in 0 .. Len(f.ends) /\ n + 1 \in 0 .. Len(f.ends) /\ n <= n + 1
    BY <1>2
  <2> QED
    BY <1>6, <2>1
<1>8. ASSUME NEW n \in 0 .. Len(f.ends)
      PROVE  inLength(f, n) <= inAll(f) /\ outLength(f, n) <= unclen(f)
  <2>1. Len(f.ends) \in 0 .. Len(f.ends) /\ n <= Len(f.ends)
    BY <1>2
  <2> QED
    BY <1>6, <2>1 DEF inAll, unclen
<1>9. inAll(f) \in Nat /\ unclen(f) \in Nat
  <2>1. Len(f.ends) \in 0 .. Len(f.ends)
    BY <1>2
  <2> QED
    BY <1>5, <2>1 DEF inAll, unclen
<1> QED
  BY <1>1, <1>2, <1>5, <1>7, <1>8, <1>9

LEMMA HeaderFacts ==
  ASSUME NEW f \in GzFiles
  PROVE  /\ extraEnd(f) \in Nat /\ extraEnd(f) >= 10
         /\ nameEnd(f) \in Nat /\ nameEnd(f) >= extraEnd(f)
         /\ commentEnd(f) \in Nat /\ commentEnd(f) >= nameEnd(f)
         /\ dataAt(f) \in Nat /\ dataAt(f) >= commentEnd(f)
         /\ "FNAME" \in f.flags => nameEnd(f) > extraEnd(f)
         /\ "FCOMMENT" \in f.flags => commentEnd(f) > nameEnd(f)
         /\ fileLength(f) = dataAt(f) + inAll(f) + 8 /\ fileLength(f) \in Nat
<1>1. f.extra \in Nat /\ f.name \in Nat /\ f.comment \in Nat /\ inAll(f) \in Nat
  BY FileFacts
<1>2. extraEnd(f) \in Nat /\ extraEnd(f) >= 10
  BY <1>1 DEF extraEnd
<1>3. nameEnd(f) \in Nat /\ nameEnd(f) >= extraEnd(f) /\ ("FNAME" \in f.flags => nameEnd(f) > extraEnd(f))
  BY <1>1, <1>2 DEF nameEnd
<1>4. /\ commentEnd(f) \in Nat /\ commentEnd(f) >= nameEnd(f)
      /\ "FCOMMENT" \in f.flags => commentEnd(f) > nameEnd(f)
  BY <1>1, <1>3 DEF commentEnd
<1>5. dataAt(f) \in Nat /\ dataAt(f) >= commentEnd(f)
  BY <1>4 DEF dataAt
<1> QED
  BY <1>1, <1>2, <1>3, <1>4, <1>5 DEF fileLength

LEMMA SmallestIs ==
  ASSUME NEW S \in SUBSET Int, NEW m \in S, \A z \in S : m <= z
  PROVE  Min(S) = m
<1>1. \A u \in S : (\A z \in S : u <= z) => u = m
  OBVIOUS
<1> QED
  BY <1>1 DEF Min

LEMMA BytesDiffer == zero # some /\ \A n \in Int : <<"in", n>> # zero
  BY DEF zero, some

(* The first zero at or behind a place of the file.                        *)
LEMMA FirstZero ==
  ASSUME GzIInv, InHeader, NEW here \in Nat, ptr <= here, ptr \in Nat, here < fileLength(gzFile),
         fileByte(gzFile, here) = zero, \A j \in ptr .. here - 1 : fileByte(gzFile, j) = some
  PROVE  behindZero = here + 1
<1> DEFINE S == {j \in DOMAIN gzBuffer : j >= ptr /\ gzBuffer[j] = zero}
<1>1. /\ DOMAIN gzBuffer = 0 .. GzBufferSize - 1 /\ GzBufferSize \in Nat /\ fileLength(gzFile) < GzBufferSize
      /\ \A j \in 0 .. fileLength(gzFile) - 1 : gzBuffer[j] = fileByte(gzFile, j)
      /\ fileLength(gzFile) \in Nat
  BY FileFacts, HeaderFacts DEF GzIInv, GzTyped, FileRead
<1>2. here \in S
  BY <1>1
<1>3. \A z \in S : here <= z
  <2>1. ASSUME NEW z \in S, z < here PROVE FALSE
    <3>1. z \in ptr .. here - 1 /\ z \in 0 .. fileLength(gzFile) - 1 /\ gzBuffer[z] = zero
      BY <1>1, <2>1
    <3> QED
      BY <1>1, <3>1, BytesDiffer
  <2> QED
    BY <1>1, <2>1
<1>4. S \in SUBSET Int
  BY <1>1
<1> HIDE DEF S
<1>5. Min(S) = here
  BY <1>2, <1>3, <1>4, SmallestIs
<1> QED
  BY <1>5 DEF behindZero, S

LEMMA GzInitIInv == GunzipInit => GzIInv
<1> SUFFICES ASSUME GunzipInit PROVE GzIInv
  OBVIOUS
<1>1. /\ gzFile \in GzFiles /\ gzAt = "read" /\ DOMAIN gzBuffer = 0 .. GzBufferSize - 1
      /\ piece = 0 /\ total_out = 0 /\ ptr = 0
  BY DEF GunzipInit
<1>2. piece \in 0 .. Len(gzFile.ends)
  BY <1>1, FileFacts
<1> QED
  BY <1>1, <1>2 DEF GzIInv, GzTyped, FileRead, Inflating, GoodFileInflated, InHeader, outLength

LEMMA ReadIInv ==
  ASSUME GzIInv, ReadGz
  PROVE  GzIInv'
<1>1. /\ gzFile \in GzFiles /\ gzFile' = gzFile /\ ptr' = 0 /\ piece' = piece /\ total_out' = total_out
      /\ piece = 0 /\ DOMAIN gzBuffer = 0 .. GzBufferSize - 1
      /\ piece \in 0 .. Len(gzFile.ends) /\ total_out = outLength(gzFile, piece)
  BY DEF ReadGz, GzIInv, GzTyped
<1>2. GzBufferSize \in Nat /\ fileLength(gzFile) \in Nat /\ unclen(gzFile) \in Nat
  BY <1>1, FileFacts, HeaderFacts
<1>3. CASE fileLength(gzFile) >= GzBufferSize
  <2>1. gzAt' = "failed" /\ gzBuffer' = gzBuffer
    BY <1>3 DEF ReadGz
  <2> QED
    BY <1>1, <1>3, <2>1 DEF GzIInv, GzTyped, FileRead, Inflating, GoodFileInflated, InHeader
<1>4. CASE fileLength(gzFile) < GzBufferSize
  <2>1. /\ complen' = fileLength(gzFile)
        /\ gzBuffer' = [j \in DOMAIN gzBuffer |-> IF j < complen' THEN fileByte(gzFile, j) ELSE zero]
        /\ gzAt' = IF unclen(gzFile) > GzBufferSize THEN "failed" ELSE "extra"
    BY <1>2, <1>4 DEF ReadGz
  <2>2. /\ DOMAIN gzBuffer' = DOMAIN gzBuffer
        /\ \A j \in 0 .. fileLength(gzFile) - 1 : gzBuffer'[j] = fileByte(gzFile, j)
    BY <1>1, <1>2, <1>4, <2>1
  <2>3. CASE unclen(gzFile) > GzBufferSize
    BY <1>1, <2>1, <2>2, <2>3 DEF GzIInv, GzTyped, FileRead, Inflating, GoodFileInflated, InHeader
  <2>4. CASE unclen(gzFile) <= GzBufferSize
    <3>1. gzAt' = "extra"
      BY <1>2, <2>1, <2>4
    <3>2. GzTyped'
      BY <1>1, <2>2, <3>1 DEF GzTyped
    <3>3. partEnd' = 0
      BY <3>1 DEF partEnd
    <3>4. FileRead'
      BY <1>1, <1>4, <2>1, <2>2, <2>4, <3>1, <3>3 DEF FileRead
    <3> QED
      BY <3>1, <3>2, <3>4 DEF GzIInv, Inflating, GoodFileInflated
  <2> QED
    BY <1>2, <2>3, <2>4
<1> QED
  BY <1>2, <1>3, <1>4

(* A part of the header is passed.                                         *)
LEMMA PassKeeps ==
  ASSUME GzIInv, InHeader, UNCHANGED <<gzFile, gzBuffer, complen, piece, total_out>>,
         InHeader', ptr' = partEnd'
  PROVE  GzIInv'
<1>1. GzTyped'
  BY DEF GzIInv, GzTyped, InHeader
<1>2. FileRead'
  BY DEF GzIInv, FileRead
<1> QED
  BY <1>1, <1>2 DEF GzIInv, Inflating, GoodFileInflated, InHeader

LEMMA GunzipSkips ==
  ASSUME GzIInv, SkipExtra \/ SkipName \/ SkipComment \/ SkipCrc
  PROVE  GzIInv'
<1> DEFINE f == gzFile
<1>1. /\ f \in GzFiles /\ InHeader /\ gzFile' = gzFile /\ ptr = partEnd
      /\ UNCHANGED <<gzFile, gzBuffer, complen, piece, total_out>>
  BY DEF SkipExtra, SkipName, SkipComment, SkipCrc, skipTo, InHeader, GzIInv, GzTyped, FileRead
<1>2. /\ extraEnd(f) \in Nat /\ extraEnd(f) >= 10 /\ nameEnd(f) \in Nat /\ nameEnd(f) >= extraEnd(f)
      /\ commentEnd(f) \in Nat /\ commentEnd(f) >= nameEnd(f) /\ dataAt(f) \in Nat
      /\ dataAt(f) >= commentEnd(f) /\ inAll(f) \in Nat
      /\ "FNAME" \in f.flags => nameEnd(f) > extraEnd(f)
      /\ "FCOMMENT" \in f.flags => commentEnd(f) > nameEnd(f)
      /\ fileLength(f) = dataAt(f) + inAll(f) + 8
  BY <1>1, HeaderFacts, FileFacts
<1>3. f.extra \in Nat
  BY <1>1, FileFacts
<1>4. CASE SkipExtra
  <2>1. gzAt' = "name" /\ ptr' = IF "FEXTRA" \in f.flags THEN 12 + f.extra ELSE 10
    BY <1>4 DEF SkipExtra, skipTo
  <2>2. ptr' = extraEnd(f) /\ InHeader' /\ partEnd' = extraEnd(f)
    BY <1>1, <1>3, <2>1 DEF extraEnd, InHeader, partEnd
  <2> QED
    BY <1>1, <2>2, PassKeeps
<1>5. CASE SkipName
  <2>1. gzAt = "name" /\ gzAt' = "comment" /\ ptr' = IF "FNAME" \in f.flags THEN behindZero ELSE ptr
    BY <1>5 DEF SkipName, skipTo
  <2>2. ptr = extraEnd(f)
    BY <1>1, <2>1 DEF partEnd
  <2>3. InHeader' /\ partEnd' = nameEnd(f)
    BY <1>1, <2>1 DEF InHeader, partEnd
  <2>4. CASE "FNAME" \in f.flags
    <3> DEFINE here == nameEnd(f) - 1
    <3>1. here \in Nat /\ ptr <= here /\ ptr \in Nat /\ here < fileLength(f) /\ here < commentEnd(f) /\ here < dataAt(f)
      BY <1>2, <2>2, <2>4
    <3>2. fileByte(f, here) = zero
      BY <1>2, <2>4, <3>1 DEF fileByte, zeroAt
    <3>3. \A j \in ptr .. here - 1 : fileByte(f, j) = some
      BY <1>2, <2>2, <2>4, <3>1 DEF fileByte, zeroAt
    <3> HIDE DEF here
    <3>4. behindZero = here + 1
      BY <1>1, <3>1, <3>2, <3>3, FirstZero
    <3>5. ptr' = nameEnd(f)
      BY <1>2, <2>1, <2>4, <3>4 DEF here
    <3> QED
      BY <1>1, <2>3, <3>5, PassKeeps
  <2>5. CASE "FNAME" \notin f.flags
    <3>1. nameEnd(f) = extraEnd(f)
      BY <1>2, <2>5 DEF nameEnd
    <3> QED
      BY <1>1, <2>1, <2>2, <2>3, <2>5, <3>1, PassKeeps
  <2> QED
    BY <2>4, <2>5
<1>6. CASE SkipComment
  <2>1. gzAt = "comment" /\ gzAt' = "crc" /\ ptr' = IF "FCOMMENT" \in f.flags THEN behindZero ELSE ptr
    BY <1>6 DEF SkipComment, skipTo
  <2>2. ptr = nameEnd(f)
    BY <1>1, <2>1 DEF partEnd
  <2>3. InHeader' /\ partEnd' = commentEnd(f)
    BY <1>1, <2>1 DEF InHeader, partEnd
  <2>4. CASE "FCOMMENT" \in f.flags
    <3> DEFINE here == commentEnd(f) - 1
    <3>1. here \in Nat /\ ptr <= here /\ ptr \in Nat /\ here < fileLength(f) /\ here < commentEnd(f) /\ here < dataAt(f)
      BY <1>2, <2>2, <2>4
    <3>2. fileByte(f, here) = zero
      BY <1>2, <2>4, <3>1 DEF fileByte, zeroAt
    <3>3. \A j \in ptr .. here - 1 : fileByte(f, j) = some
      BY <1>2, <2>2, <2>4, <3>1 DEF fileByte, zeroAt
    <3> HIDE DEF here
    <3>4. behindZero = here + 1
      BY <1>1, <3>1, <3>2, <3>3, FirstZero
    <3>5. ptr' = commentEnd(f)
      BY <1>2, <2>1, <2>4, <3>4 DEF here
    <3> QED
      BY <1>1, <2>3, <3>5, PassKeeps
  <2>5. CASE "FCOMMENT" \notin f.flags
    <3>1. commentEnd(f) = nameEnd(f)
      BY <1>2, <2>5 DEF commentEnd
    <3> QED
      BY <1>1, <2>1, <2>2, <2>3, <2>5, <3>1, PassKeeps
  <2> QED
    BY <2>4, <2>5
<1>7. CASE SkipCrc
  <2>1. gzAt = "crc" /\ gzAt' = "move" /\ ptr' = IF "FHCRC" \in f.flags THEN ptr + 2 ELSE ptr
    BY <1>7 DEF SkipCrc, skipTo
  <2>2. ptr = commentEnd(f)
    BY <1>1, <2>1 DEF partEnd
  <2>3. InHeader' /\ partEnd' = dataAt(f) /\ ptr' = dataAt(f)
    BY <1>1, <1>2, <2>1, <2>2 DEF InHeader, partEnd, dataAt
  <2> QED
    BY <1>1, <2>3, PassKeeps
<1> QED
  BY <1>4, <1>5, <1>6, <1>7

(* The data lands at the end of the buffer.                                *)
LEMMA MoveIInv ==
  ASSUME GzIInv, MoveData
  PROVE  GzIInv'
<1> DEFINE f == gzFile
           z == GzBufferSize - inAll(f)
<1>1. /\ f \in GzFiles /\ ptr = dataAt(f) /\ complen = fileLength(f) /\ fileLength(f) < GzBufferSize
      /\ \A j \in 0 .. fileLength(f) - 1 : gzBuffer[j] = fileByte(f, j)
      /\ piece = 0 /\ unclen(f) <= GzBufferSize /\ DOMAIN gzBuffer = 0 .. GzBufferSize - 1
      /\ gzFile' = gzFile /\ piece' = piece /\ total_out' = total_out /\ gzAt' = "inflate"
      /\ piece \in 0 .. Len(f.ends) /\ total_out = outLength(f, piece)
  BY DEF MoveData, GzIInv, GzTyped, FileRead, InHeader, partEnd
<1>2. /\ GzBufferSize \in Nat /\ inAll(f) \in Nat /\ dataAt(f) \in Nat
      /\ fileLength(f) = dataAt(f) + inAll(f) + 8
  BY <1>1, FileFacts, HeaderFacts
<1>3. complen' = inAll(f)
  BY <1>1, <1>2 DEF MoveData
<1>4. gzBuffer' = [j \in DOMAIN gzBuffer |->
                     IF j >= GzBufferSize - complen' THEN gzBuffer[ptr + j - (GzBufferSize - complen')] ELSE gzBuffer[j]]
  BY DEF MoveData
<1>5. ASSUME NEW n \in 1 .. inAll(f)
      PROVE  gzBuffer'[z + n - 1] = <<"in", n>>
  <2>1. z + n - 1 \in DOMAIN gzBuffer /\ z + n - 1 >= z /\ ptr + (z + n - 1) - z = dataAt(f) + n - 1
    BY <1>1, <1>2
  <2>2. gzBuffer'[z + n - 1] = gzBuffer[ptr + (z + n - 1) - z]
    BY <1>3, <1>4, <2>1
  <2>3. dataAt(f) + n - 1 \in 0 .. fileLength(f) - 1
    BY <1>2
  <2>4. fileByte(f, dataAt(f) + n - 1) = <<"in", n>>
    <3> DEFINE here == dataAt(f) + n - 1
    <3>1. dataAt(f) <= here /\ here < dataAt(f) + inAll(f) /\ (here - dataAt(f)) + 1 = n
      BY <1>2
    <3> HIDE DEF here
    <3>2. fileByte(f, here) = <<"in", n>>
      BY <3>1 DEF fileByte
    <3> QED
      BY <3>2 DEF here
  <2> QED
    BY <1>1, <2>1, <2>2, <2>3, <2>4
<1>6. DOMAIN gzBuffer' = DOMAIN gzBuffer
  BY <1>4
<1>7. total_out' = 0
  BY <1>1 DEF outLength
<1>8. GzTyped'
  BY <1>1, <1>6 DEF GzTyped
<1>9. Inflating'
  BY <1>1, <1>3, <1>5, <1>7 DEF Inflating
<1> QED
  BY <1>1, <1>8, <1>9 DEF GzIInv, FileRead, InHeader, GoodFileInflated

(* A piece is read and written, or had been overwritten before.            *)
LEMMA InflateIInv ==
  ASSUME GzIInv, Inflate
  PROVE  GzIInv'
<1> DEFINE f == gzFile
           z == GzBufferSize - inAll(f)
           end == f.ends[piece + 1]
           intact == \A n \in inLength(f, piece) + 1 .. end.in : gzBuffer[z + n - 1] = <<"in", n>>
<1>1. /\ f \in GzFiles /\ gzAt = "inflate" /\ complen = inAll(f) /\ fileLength(f) < GzBufferSize
      /\ unclen(f) <= GzBufferSize /\ DOMAIN gzBuffer = 0 .. GzBufferSize - 1
      /\ piece \in 0 .. Len(f.ends) /\ piece < Len(f.ends) /\ total_out = outLength(f, piece)
      /\ gzFile' = gzFile /\ complen' = complen
      /\ \A n \in 1 .. inAll(f) : z + n - 1 >= total_out => gzBuffer[z + n - 1] = <<"in", n>>
      /\ \A j \in 0 .. total_out - 1 : gzBuffer[j] = <<"out", j>>
  BY DEF Inflate, GzIInv, GzTyped, Inflating
<1>2. /\ GzBufferSize \in Nat /\ inAll(f) \in Nat /\ unclen(f) \in Nat /\ dataAt(f) \in Nat /\ Len(f.ends) \in Nat
      /\ fileLength(f) = dataAt(f) + inAll(f) + 8
  BY <1>1, FileFacts, HeaderFacts
<1>3. piece + 1 \in 0 .. Len(f.ends) /\ piece \in 0 .. Len(f.ends) - 1 /\ piece + 1 # 0 /\ piece \in Nat
  BY <1>1, <1>2
<1>4. end.in = inLength(f, piece + 1) /\ end.out = outLength(f, piece + 1)
  BY <1>3 DEF inLength, outLength
<1>5. /\ inLength(f, piece) \in Nat /\ inLength(f, piece + 1) \in Nat /\ inLength(f, piece + 1) <= inAll(f)
      /\ outLength(f, piece) \in Nat /\ outLength(f, piece + 1) \in Nat
      /\ outLength(f, piece) <= outLength(f, piece + 1) /\ outLength(f, piece + 1) <= unclen(f)
  BY <1>1, <1>3, FileFacts
<1>6. \/ /\ intact
         /\ gzBuffer' = [j \in DOMAIN gzBuffer |-> IF j \in total_out .. end.out - 1 THEN <<"out", j>> ELSE gzBuffer[j]]
         /\ piece' = piece + 1 /\ total_out' = end.out /\ gzAt' = gzAt
      \/ /\ ~intact
         /\ gzAt' = "failed" /\ UNCHANGED <<gzBuffer, piece, total_out>>
  BY <1>1 DEF Inflate
<1>7. CASE intact /\ gzAt' = gzAt
  <2> DEFINE e == outLength(f, piece + 1)
  <2>1. /\ gzBuffer' = [j \in DOMAIN gzBuffer |-> IF j \in total_out .. e - 1 THEN <<"out", j>> ELSE gzBuffer[j]]
        /\ piece' = piece + 1 /\ total_out' = e /\ gzAt' = "inflate"
    BY <1>1, <1>4, <1>6, <1>7
  <2>2. e \in Nat /\ total_out \in Nat /\ total_out <= e /\ e <= GzBufferSize
    BY <1>1, <1>2, <1>5
  <2> HIDE DEF e
  <2>3. \A j \in 0 .. e - 1 : gzBuffer'[j] = <<"out", j>>
    BY <1>1, <1>2, <2>1, <2>2
  <2>4. ASSUME NEW n \in 1 .. inAll(f), z + n - 1 >= e
        PROVE  gzBuffer'[z + n - 1] = <<"in", n>>
    <3>1. z + n - 1 \in DOMAIN gzBuffer /\ z + n - 1 >= total_out /\ z + n - 1 \notin total_out .. e - 1
      <4>1. z \in Int /\ n \in 1 .. inAll(f) /\ z + inAll(f) = GzBufferSize /\ inAll(f) \in Nat
            /\ GzBufferSize \in Nat
        BY <1>2
      <4>2. DOMAIN gzBuffer = 0 .. GzBufferSize - 1
        BY <1>1
      <4> HIDE DEF z, f
      <4> QED
        BY <4>1, <4>2, <2>2, <2>4
    <3>2. gzBuffer[z + n - 1] = <<"in", n>>
      BY <1>1, <3>1
    <3> QED
      BY <2>1, <3>1, <3>2
  <2>5. GzTyped'
    BY <1>1, <1>3, <2>1 DEF GzTyped, e
  <2>6. Inflating'
    BY <1>1, <2>1, <2>3, <2>4 DEF Inflating
  <2> QED
    BY <2>1, <2>5, <2>6 DEF GzIInv, FileRead, InHeader, GoodFileInflated
<1>8. CASE ~intact /\ gzAt' = "failed"
  <2>1. UNCHANGED <<gzBuffer, piece, total_out>>
    BY <1>1, <1>6, <1>8
  <2>2. PICK n \in inLength(f, piece) + 1 .. inLength(f, piece + 1) : gzBuffer[z + n - 1] # <<"in", n>>
    BY <1>4, <1>8
  <2>3. n \in 1 .. inAll(f) /\ n > inLength(f, piece)
    <3>1. inAll(f) \in Nat /\ inLength(f, piece) \in Nat /\ inLength(f, piece + 1) \in Nat
          /\ inLength(f, piece + 1) <= inAll(f)
      BY <1>2, <1>5
    <3> HIDE DEF f
    <3> QED
      BY <3>1, <2>2
  <2>4. ~(z + n - 1 >= total_out)
    BY <1>1, <2>2, <2>3
  <2>5. outLength(f, piece) > GzBufferSize - (inAll(f) - inLength(f, piece))
    <3>1. total_out = outLength(f, piece)
      BY <1>1
    <3>2. /\ inAll(f) \in Nat /\ GzBufferSize \in Nat /\ n \in Nat
          /\ inLength(f, piece) \in Nat /\ outLength(f, piece) \in Nat
      BY <1>2, <1>5, <2>3
    <3>3. n > inLength(f, piece) /\ ~(GzBufferSize - inAll(f) + n - 1 >= outLength(f, piece))
      BY <2>3, <2>4, <3>1
    <3> HIDE DEF f
    <3> QED
      BY <3>2, <3>3
  <2>6. ~fitsInPlace(f)
    <3>1. ~(outLength(f, piece) <= GzBufferSize - (inAll(f) - inLength(f, piece)))
      BY <1>2, <1>5, <2>5
    <3> QED
      BY <1>3, <3>1 DEF fitsInPlace
  <2>7. GzTyped'
    BY <1>1, <1>8, <2>1 DEF GzTyped
  <2>8. GoodFileInflated'
    BY <1>1, <1>8, <2>6 DEF GoodFileInflated
  <2> QED
    BY <1>8, <2>7, <2>8 DEF GzIInv, FileRead, InHeader, Inflating
<1> QED
  BY <1>1, <1>6, <1>7, <1>8

LEMMA GzStepIInv ==
  ASSUME GzIInv, [GunzipNext]_gunzipVars
  PROVE  GzIInv'
<1>1. CASE WriteGz
  <2>1. /\ gzFile \in GzFiles /\ gzAt = "inflate" /\ piece = Len(gzFile.ends)
        /\ gzAt' \in {"failed", "Ok", "not written"} /\ (gzAt' = "failed" => total_out = 0)
        /\ UNCHANGED <<gzFile, gzBuffer, ptr, complen, piece, total_out>>
        /\ total_out = outLength(gzFile, piece) /\ GzTyped
    BY <1>1 DEF WriteGz, GzIInv, GzTyped
  <2>2. total_out = unclen(gzFile) /\ \A j \in 0 .. total_out - 1 : gzBuffer[j] = <<"out", j>>
    BY <2>1 DEF unclen, GzIInv, Inflating
  <2>3. GzTyped'
    BY <2>1 DEF GzTyped
  <2>4. GoodFileInflated'
    BY <2>1, <2>2 DEF GoodFileInflated
  <2> QED
    BY <2>1, <2>3, <2>4 DEF GzIInv, FileRead, InHeader, Inflating
<1>2. CASE UNCHANGED gunzipVars
  BY <1>2 DEF gunzipVars, GzIInv, GzTyped, FileRead, InHeader, Inflating, GoodFileInflated, partEnd
<1> QED
  BY <1>1, <1>2, ReadIInv, GunzipSkips, MoveIInv, InflateIInv DEF GunzipNext

(* A good file is unpacked.                                                *)
THEOREM GoodFileIsInflated == GunzipSpec => []GoodFileInflated
<1>1. GzIInv => GoodFileInflated
  BY DEF GzIInv
<1>2. GzIInv /\ [GunzipNext]_gunzipVars => GzIInv'
  BY GzStepIInv
<1> QED
  BY <1>1, <1>2, GzInitIInv, PTL DEF GunzipSpec

-----------------------------------------------------------------------------
(* The four samples together (Samples).                                    *)

(* The cc65 samples do what they say: sieve.c lists exactly the primes,    *)
(* the fixed-point orbit of mandelbrot.c fits its variables, gunzip65.c    *)
(* unpacks a good file, and mousetest.c tells what the pointer does - as   *)
(* long as the byte that counts how often it was hidden does not wrap.     *)
THEOREM SamplesAreRight ==
  ASSUME MaxPresses <= 254
  PROVE  SieveSpec /\ MandelSpec /\ GunzipSpec /\ MouseSpec => []SamplesRight
<1>1. SieveSpec => []SieveExact
  BY SieveIsExact
<1>2. MandelSpec => []FitsShort
  BY MandelFits
<1>3. GunzipSpec => []GoodFileInflated
  BY GoodFileIsInflated
<1>4. MouseSpec => []PointerTextTrue
  BY PointerTextIsTrue
<1> QED
  BY <1>1, <1>2, <1>3, <1>4, PTL DEF SamplesRight

-----------------------------------------------------------------------------
(* The directory listing (DirWalk).                                        *)

Frames == [olddir : Dirs, listing : {Subdirs[d] : d \in Dirs}, num : Nat]

(* The directory the k-th of the active calls is in, when c is the current *)
(* one; and whether the calls are past the i-th entry of directory p.      *)
dirOf(cs, c, k) == IF k = Len(cs) THEN c ELSE cs[k + 1].olddir
passed(cs, c, p, q) == \A k \in DOMAIN cs : dirOf(cs, c, k) = p => q <= cs[k].num

DirTyped ==
  /\ device \in 0 .. Len(Devices) /\ cwd \in Dirs /\ calls \in Seq(Frames) /\ listed \in Seq(Dirs)

(* The active calls go down one path from where the program was started,   *)
(* and none has left its listing.                                          *)
OnPath(cs, c, ls) ==
  /\ IF cs = <<>> THEN c = Start ELSE cs[1].olddir = Start
  /\ \A k \in DOMAIN cs : /\ cs[k].listing = Subdirs[dirOf(cs, c, k)]
                          /\ cs[k].num <= Len(cs[k].listing)
                          /\ dirOf(cs, c, k) \in Range(ls)
  /\ \A j, k \in DOMAIN cs : dirOf(cs, c, j) = dirOf(cs, c, k) => j = k

(* What was listed came from a device or from an entry that was passed;    *)
(* what was passed was listed or skipped.                                  *)
Origin(cs, c, ls, dv) ==
  \A d \in Range(ls) :
    \/ \E k \in 1 .. dv : d = Devices[k]
    \/ \E p \in Range(ls) : \E q \in DOMAIN Subdirs[p] : d = Subdirs[p][q].dir /\ passed(cs, c, p, q)

Complete(cs, c, ls, sk, dv) ==
  /\ \A k \in 1 .. dv : Devices[k] \in Range(ls) \cup sk
  /\ \A p \in Range(ls) : \A q \in DOMAIN Subdirs[p] :
       passed(cs, c, p, q) => Subdirs[p][q].dir \in Range(ls) \cup sk

DirIInv ==
  lost \/ /\ DirTyped
          /\ OnPath(calls, cwd, listed)
          /\ Origin(calls, cwd, listed, device)
          /\ Complete(calls, cwd, listed, skipped, device)
          /\ IsInjective(listed)

LEMMA TreeFacts ==
  /\ Start \in Dirs /\ Devices \in Seq(Dirs) /\ Len(Devices) \in Nat /\ DOMAIN Devices = 1 .. Len(Devices)
  /\ \A d \in Dirs : /\ Len(Subdirs[d]) \in Nat /\ DOMAIN Subdirs[d] = 1 .. Len(Subdirs[d])
                     /\ \A q \in DOMAIN Subdirs[d] : Subdirs[d][q].dir \in Dirs
<1>1. Start \in Dirs /\ Devices \in Seq(Dirs)
  BY DirAssumption
<1>2. Len(Devices) \in Nat /\ DOMAIN Devices = 1 .. Len(Devices)
  BY <1>1, LenProperties
<1>3. ASSUME NEW d \in Dirs
      PROVE  /\ Len(Subdirs[d]) \in Nat /\ DOMAIN Subdirs[d] = 1 .. Len(Subdirs[d])
             /\ \A q \in DOMAIN Subdirs[d] : Subdirs[d][q].dir \in Dirs
  <2>1. Subdirs[d] \in Seq(Range(Subdirs[d])) /\ \A e \in Range(Subdirs[d]) : e.dir \in Dirs
    BY DirAssumption
  <2>2. Len(Subdirs[d]) \in Nat /\ DOMAIN Subdirs[d] = 1 .. Len(Subdirs[d])
    BY <2>1, LenProperties
  <2>3. \A q \in DOMAIN Subdirs[d] : Subdirs[d][q] \in Range(Subdirs[d])
    BY DEF Range
  <2> QED
    BY <2>1, <2>2, <2>3
<1> QED
  BY <1>1, <1>2, <1>3

LEMMA AppendRange ==
  ASSUME NEW S, NEW s \in Seq(S), NEW d \in S
  PROVE  /\ Range(Append(s, d)) = Range(s) \cup {d} /\ Append(s, d) \in Seq(S)
         /\ IsInjective(s) /\ d \notin Range(s) => IsInjective(Append(s, d))
<1> DEFINE t == Append(s, d)
<1>1. /\ t \in Seq(S) /\ Len(t) = Len(s) + 1 /\ Len(s) \in Nat /\ DOMAIN s = 1 .. Len(s) /\ DOMAIN t = 1 .. Len(s) + 1
      /\ t[Len(s) + 1] = d /\ \A q \in 1 .. Len(s) : t[q] = s[q]
  BY AppendProperties, LenProperties
<1> HIDE DEF t
<1>2. DOMAIN t = DOMAIN s \cup {Len(s) + 1} /\ Len(s) + 1 \notin DOMAIN s
  BY <1>1
<1>3. Range(t) = Range(s) \cup {d}
  BY <1>1, <1>2 DEF Range
<1>4. IsInjective(s) /\ d \notin Range(s) => IsInjective(t)
  BY <1>1, <1>2 DEF IsInjective, Range
<1> QED
  BY <1>1, <1>3, <1>4 DEF t

(* The calls after one of them went to its next entry, and down to it.     *)
LEMMA Down ==
  ASSUME NEW cs \in Seq(Frames), NEW c \in Dirs, NEW f \in Frames, f.olddir = c, NEW d \in Dirs
  PROVE  LET t == Append(cs, f)
         IN  /\ t \in Seq(Frames) /\ Len(t) = Len(cs) + 1 /\ DOMAIN t = DOMAIN cs \cup {Len(cs) + 1}
             /\ Len(cs) + 1 \notin DOMAIN cs
             /\ \A k \in DOMAIN cs : t[k] = cs[k] /\ dirOf(t, d, k) = dirOf(cs, c, k)
             /\ t[Len(cs) + 1] = f /\ dirOf(t, d, Len(cs) + 1) = d
             /\ t # <<>> /\ t[1].olddir = IF cs = <<>> THEN c ELSE cs[1].olddir
<1> DEFINE t == Append(cs, f)
<1>1. /\ t \in Seq(Frames) /\ Len(t) = Len(cs) + 1 /\ Len(cs) \in Nat /\ DOMAIN cs = 1 .. Len(cs)
      /\ DOMAIN t = 1 .. Len(cs) + 1
      /\ t[Len(cs) + 1] = f /\ \A k \in 1 .. Len(cs) : t[k] = cs[k]
  BY AppendProperties, LenProperties
<1> HIDE DEF t
<1>2. DOMAIN t = DOMAIN cs \cup {Len(cs) + 1} /\ Len(cs) + 1 \notin DOMAIN cs
  BY <1>1
<1>3. ASSUME NEW k \in DOMAIN cs
      PROVE  t[k] = cs[k] /\ dirOf(t, d, k) = dirOf(cs, c, k)
  <2>1. t[k] = cs[k] /\ k # Len(t) /\ k \in Nat
    BY <1>1
  <2>2. dirOf(t, d, k) = t[k + 1].olddir
    BY <2>1 DEF dirOf
  <2>3. CASE k = Len(cs)
    BY <1>1, <2>1, <2>2, <2>3 DEF dirOf
  <2>4. CASE k # Len(cs)
    <3>1. k + 1 \in 1 .. Len(cs)
      BY <1>1, <2>4
    <3>2. t[k + 1] = cs[k + 1]
      BY <1>1, <3>1
    <3> QED
      BY <2>1, <2>2, <2>4, <3>2 DEF dirOf
  <2> QED
    BY <2>3, <2>4
<1>4. dirOf(t, d, Len(cs) + 1) = d
  BY <1>1 DEF dirOf
<1>5. t # <<>> /\ t[1].olddir = IF cs = <<>> THEN c ELSE cs[1].olddir
  <2>1. t # <<>>
    BY <1>1, EmptySeq
  <2>2. CASE cs = <<>>
    <3>1. Len(cs) = 0
      BY <2>2
    <3> QED
      BY <1>1, <2>1, <2>2, <3>1
  <2>3. CASE cs # <<>>
    <3>1. 1 \in 1 .. Len(cs)
      BY <1>1, <2>3, EmptySeq
    <3> QED
      BY <1>1, <2>1, <2>3, <3>1
  <2> QED
    BY <2>2, <2>3
<1> QED
  BY <1>1, <1>2, <1>3, <1>4, <1>5 DEF t

LEMMA FrameParts ==
  ASSUME NEW cs \in Seq(Frames), NEW k \in DOMAIN cs
  PROVE  /\ cs[k] \in Frames /\ cs[k].num \in Nat /\ cs[k].olddir \in Dirs
         /\ [cs[k] EXCEPT !.num = @ + 1] \in Frames
<1>1. k \in 1 .. Len(cs)
  BY LenProperties
<1>2. cs[k] \in Frames
  BY <1>1, ElementOfSeq
<1>3. PICK u \in Frames : cs[k] = u
  BY <1>2
<1>4. u.num \in Nat /\ u.olddir \in Dirs
  BY DEF Frames
<1>5. u.num + 1 \in Nat
  BY <1>4
<1>6. [u EXCEPT !.num = u.num + 1] \in Frames
  BY <1>5 DEF Frames
<1> QED
  BY <1>2, <1>3, <1>4, <1>6


(* The call of printdir for a directory that was not listed yet.           *)
LEMMA EnterDir ==
  ASSUME NEW cs \in Seq(Frames), NEW c \in Dirs, NEW ls \in Seq(Dirs), NEW d \in Dirs,
         OnPath(cs, c, ls), d \notin Range(ls)
  PROVE  LET f == [olddir |-> c, listing |-> Subdirs[d], num |-> 0]
             t == Append(cs, f)
         IN  /\ t \in Seq(Frames)
             /\ OnPath(t, d, Append(ls, d))
             /\ \A p \in Range(ls) : \A q \in Nat : passed(t, d, p, q) <=> passed(cs, c, p, q)
             /\ \A q \in DOMAIN Subdirs[d] : ~passed(t, d, d, q)
<1> DEFINE f == [olddir |-> c, listing |-> Subdirs[d], num |-> 0]
           t == Append(cs, f)
           n == Len(cs) + 1
           us == Append(ls, d)
<1>1. f \in Frames /\ f.olddir = c /\ f.num = 0 /\ f.listing = Subdirs[d]
  BY DEF Frames
<1> HIDE DEF f
<1>2. /\ t \in Seq(Frames) /\ DOMAIN t = DOMAIN cs \cup {n} /\ n \notin DOMAIN cs
      /\ \A k \in DOMAIN cs : t[k] = cs[k] /\ dirOf(t, d, k) = dirOf(cs, c, k)
      /\ t[n] = f /\ dirOf(t, d, n) = d
      /\ t # <<>> /\ t[1].olddir = IF cs = <<>> THEN c ELSE cs[1].olddir
  BY <1>1, Down
<1>3. Range(us) = Range(ls) \cup {d}
  BY AppendRange
<1>4. Len(Subdirs[d]) \in Nat /\ DOMAIN Subdirs[d] = 1 .. Len(Subdirs[d])
  BY TreeFacts
<1> HIDE DEF t, n, us
<1>5. /\ IF cs = <<>> THEN c = Start ELSE cs[1].olddir = Start
      /\ \A k \in DOMAIN cs : /\ cs[k].listing = Subdirs[dirOf(cs, c, k)]
                              /\ cs[k].num <= Len(cs[k].listing)
                              /\ dirOf(cs, c, k) \in Range(ls)
      /\ \A j, k \in DOMAIN cs : dirOf(cs, c, j) = dirOf(cs, c, k) => j = k
  BY DEF OnPath
<1>6. OnPath(t, d, us)
  <2>1. IF t = <<>> THEN d = Start ELSE t[1].olddir = Start
    BY <1>2, <1>5
  <2>2. ASSUME NEW k \in DOMAIN t
        PROVE  /\ t[k].listing = Subdirs[dirOf(t, d, k)] /\ t[k].num <= Len(t[k].listing)
               /\ dirOf(t, d, k) \in Range(us)
    <3>1. CASE k = n
      BY <1>1, <1>2, <1>3, <1>4, <3>1
    <3>2. CASE k \in DOMAIN cs
      BY <1>2, <1>3, <1>5, <3>2
    <3> QED
      BY <1>2, <3>1, <3>2
  <2>3. ASSUME NEW j \in DOMAIN t, NEW k \in DOMAIN t, dirOf(t, d, j) = dirOf(t, d, k)
        PROVE  j = k
    BY <1>2, <1>5, <2>3
  <2> QED
    BY <2>1, <2>2, <2>3 DEF OnPath
<1>7. ASSUME NEW p \in Range(ls), NEW q \in Nat
      PROVE  passed(t, d, p, q) <=> passed(cs, c, p, q)
  BY <1>2 DEF passed
<1>8. ASSUME NEW q \in DOMAIN Subdirs[d]
      PROVE  ~passed(t, d, d, q)
  <2>1. q > 0 /\ t[n].num = 0 /\ n \in DOMAIN t /\ dirOf(t, d, n) = d
    BY <1>1, <1>2, <1>4
  <2> QED
    BY <2>1, <1>4 DEF passed
<1> QED
  BY <1>2, <1>6, <1>7, <1>8 DEF t, f, us

(* The call that is active goes past its next entry.                       *)
LEMMA Past ==
  ASSUME NEW cs \in Seq(Frames), NEW c \in Dirs, NEW ls \in Seq(Dirs),
         OnPath(cs, c, ls), cs # <<>>, cs[Len(cs)].num < Len(cs[Len(cs)].listing)
  PROVE  LET a == [cs EXCEPT ![Len(cs)].num = @ + 1]
             m == cs[Len(cs)].num + 1
         IN  /\ a \in Seq(Frames) /\ OnPath(a, c, ls)
             /\ m \in DOMAIN Subdirs[c] /\ cs[Len(cs)].listing = Subdirs[c] /\ c \in Range(ls)
             /\ passed(a, c, c, m) /\ ~passed(cs, c, c, m)
             /\ \A p \in Dirs : \A q \in Nat :
                  /\ passed(cs, c, p, q) => passed(a, c, p, q)
                  /\ passed(a, c, p, q) => passed(cs, c, p, q) \/ (p = c /\ q = m)
<1> DEFINE l == Len(cs)
           a == [cs EXCEPT ![l].num = @ + 1]
           m == cs[l].num + 1
<1>1. l \in Nat /\ DOMAIN cs = 1 .. l /\ l \in DOMAIN cs
  BY LenProperties, EmptySeq
<1>2. \A k \in DOMAIN cs : cs[k] \in Frames /\ cs[k].num \in Nat
  BY FrameParts
<1>3. /\ DOMAIN a = DOMAIN cs /\ a[l] = [cs[l] EXCEPT !.num = @ + 1]
      /\ \A k \in DOMAIN cs : k # l => a[k] = cs[k]
  BY <1>1
<1>4. a[l] \in Frames /\ a[l].num = m /\ a[l].listing = cs[l].listing /\ a[l].olddir = cs[l].olddir
  <2>1. [cs[l] EXCEPT !.num = @ + 1] \in Frames /\ cs[l] \in Frames
    BY <1>1, FrameParts
  <2> QED
    BY <1>3, <2>1 DEF Frames
<1> HIDE DEF a
<1>5. a \in Seq(Frames) /\ Len(a) = l
  <2>1. \A k \in 1 .. l : a[k] \in Frames
    BY <1>1, <1>2, <1>3, <1>4
  <2>2. a = [k \in 1 .. l |-> a[k]]
    BY <1>1, <1>3 DEF a
  <2>3. a \in Seq(Frames)
    BY <1>1, <2>1, <2>2, IsASeq
  <2> QED
    BY <1>1, <1>3, <2>3, LenProperties
<1>6. \A k \in DOMAIN cs : a[k].olddir = cs[k].olddir /\ a[k].listing = cs[k].listing
  BY <1>3, <1>4
<1>7. \A k \in DOMAIN cs : dirOf(a, c, k) = dirOf(cs, c, k)
  <2>1. TAKE k \in DOMAIN cs
  <2>2. CASE k = l
    BY <1>5, <2>2 DEF dirOf
  <2>3. CASE k # l
    <3>1. k + 1 \in DOMAIN cs
      BY <1>1, <2>3
    <3> QED
      BY <1>5, <1>6, <2>3, <3>1 DEF dirOf
  <2> QED
    BY <2>2, <2>3
<1>8. dirOf(cs, c, l) = c
  BY DEF dirOf
<1>9. /\ IF cs = <<>> THEN c = Start ELSE cs[1].olddir = Start
      /\ \A k \in DOMAIN cs : /\ cs[k].listing = Subdirs[dirOf(cs, c, k)]
                              /\ cs[k].num <= Len(cs[k].listing)
                              /\ dirOf(cs, c, k) \in Range(ls)
      /\ \A j, k \in DOMAIN cs : dirOf(cs, c, j) = dirOf(cs, c, k) => j = k
  BY DEF OnPath
<1>10. cs[l].listing = Subdirs[c] /\ c \in Range(ls)
  BY <1>1, <1>8, <1>9
<1>11. m \in DOMAIN Subdirs[c] /\ m <= Len(cs[l].listing)
  <2>1. Len(Subdirs[c]) \in Nat /\ DOMAIN Subdirs[c] = 1 .. Len(Subdirs[c])
    BY TreeFacts
  <2>2. cs[l].num \in Nat
    BY <1>1, <1>2
  <2> QED
    BY <1>10, <2>1, <2>2
<1>12. cs[l].num \in Nat /\ m = cs[l].num + 1
  BY <1>1, <1>2
<1> HIDE DEF l, m
<1>13. OnPath(a, c, ls)
  <2>1. a # <<>> /\ a[1].olddir = Start
    <3>1. a # <<>>
      BY <1>1, <1>5, EmptySeq DEF l
    <3>2. 1 \in DOMAIN cs
      BY <1>1
    <3> QED
      BY <1>6, <1>9, <3>1, <3>2
  <2>2. ASSUME NEW k \in DOMAIN a
        PROVE  /\ a[k].listing = Subdirs[dirOf(a, c, k)] /\ a[k].num <= Len(a[k].listing)
               /\ dirOf(a, c, k) \in Range(ls)
    <3>1. k \in DOMAIN cs
      BY <1>3
    <3>2. a[k].num <= Len(a[k].listing)
      BY <1>3, <1>4, <1>6, <1>9, <1>11, <3>1
    <3> QED
      BY <1>6, <1>7, <1>9, <3>1, <3>2
  <2>3. \A j, k \in DOMAIN a : dirOf(a, c, j) = dirOf(a, c, k) => j = k
    BY <1>3, <1>7, <1>9
  <2> QED
    BY <2>1, <2>2, <2>3 DEF OnPath
<1>14. \A k \in DOMAIN cs : dirOf(cs, c, k) = c => k = l
  BY <1>1, <1>8, <1>9
<1>15. passed(a, c, c, m)
  <2>1. \A k \in DOMAIN a : dirOf(a, c, k) = c => k = l
    BY <1>3, <1>7, <1>14
  <2>2. m <= a[l].num
    BY <1>4, <1>12
  <2> QED
    BY <2>1, <2>2 DEF passed
<1>16. ~passed(cs, c, c, m)
  BY <1>1, <1>8, <1>12 DEF passed
<1>17. ASSUME NEW p \in Dirs, NEW q \in Nat, passed(cs, c, p, q)
       PROVE  passed(a, c, p, q)
  <2>1. ASSUME NEW k \in DOMAIN a, dirOf(a, c, k) = p
        PROVE  q <= a[k].num
    <3>1. k \in DOMAIN cs /\ q <= cs[k].num
      BY <1>3, <1>7, <1>17, <2>1 DEF passed
    <3>2. CASE k = l
      BY <1>4, <1>12, <3>1, <3>2
    <3>3. CASE k # l
      BY <1>3, <3>1, <3>3
    <3> QED
      BY <3>2, <3>3
  <2> QED
    BY <2>1 DEF passed
<1>18. ASSUME NEW p \in Dirs, NEW q \in Nat, passed(a, c, p, q), ~(p = c /\ q = m)
       PROVE  passed(cs, c, p, q)
  <2>1. ASSUME NEW k \in DOMAIN cs, dirOf(cs, c, k) = p
        PROVE  q <= cs[k].num
    <3>1. q <= a[k].num
      BY <1>3, <1>7, <1>18, <2>1 DEF passed
    <3>2. CASE k = l
      <4>1. p = c /\ q <= m
        BY <1>4, <1>8, <2>1, <3>1, <3>2
      <4> QED
        BY <1>12, <1>18, <3>2, <4>1
    <3>3. CASE k # l
      BY <1>3, <3>1, <3>3
    <3> QED
      BY <3>2, <3>3
  <2> QED
    BY <2>1 DEF passed
<1>19. \A p \in Dirs : \A q \in Nat :
         /\ passed(cs, c, p, q) => passed(a, c, p, q)
         /\ passed(a, c, p, q) => passed(cs, c, p, q) \/ (p = c /\ q = m)
  BY <1>17, <1>18
<1> QED
  BY <1>5, <1>10, <1>11, <1>13, <1>15, <1>16, <1>19 DEF a, l, m

(* The call that has reached the end of its listing returns.               *)
LEMMA Back ==
  ASSUME NEW cs \in Seq(Frames), NEW c \in Dirs, NEW ls \in Seq(Dirs),
         OnPath(cs, c, ls), cs # <<>>, cs[Len(cs)].num = Len(cs[Len(cs)].listing)
  PROVE  LET b == SubSeq(cs, 1, Len(cs) - 1)
             o == cs[Len(cs)].olddir
         IN  /\ b \in Seq(Frames) /\ o \in Dirs /\ OnPath(b, o, ls)
             /\ \A p \in Dirs : \A q \in DOMAIN Subdirs[p] : passed(b, o, p, q) <=> passed(cs, c, p, q)
<1> DEFINE l == Len(cs)
           b == SubSeq(cs, 1, l - 1)
           o == cs[l].olddir
<1>1. l \in Nat /\ DOMAIN cs = 1 .. l /\ l \in DOMAIN cs
  BY LenProperties, EmptySeq
<1>2. \A k \in DOMAIN cs : cs[k] \in Frames /\ cs[k].num \in Nat /\ cs[k].olddir \in Dirs
  BY FrameParts
<1>3. b \in Seq(Frames) /\ Len(b) = l - 1 /\ \A k \in 1 .. (l - 1) : b[k] = cs[k]
  BY <1>1, <1>2, SubSeqProperties
<1>4. DOMAIN b = 1 .. (l - 1)
  BY <1>3, LenProperties
<1>5. o \in Dirs
  BY <1>1, <1>2
<1> HIDE DEF b, l
<1>6. \A k \in DOMAIN b : k \in DOMAIN cs /\ k # l /\ b[k] = cs[k] /\ dirOf(b, o, k) = dirOf(cs, c, k)
  <2>1. TAKE k \in DOMAIN b
  <2>2. k \in DOMAIN cs /\ k # l /\ b[k] = cs[k]
    BY <1>1, <1>3, <1>4
  <2>3. dirOf(cs, c, k) = cs[k + 1].olddir
    BY <2>2 DEF dirOf, l
  <2>4. CASE k = l - 1
    <3>1. k + 1 = l /\ k = Len(b)
      BY <1>1, <1>3, <2>4
    <3> QED
      BY <2>2, <2>3, <3>1 DEF dirOf
  <2>5. CASE k # l - 1
    <3>1. k + 1 \in 1 .. (l - 1) /\ k # Len(b)
      BY <1>1, <1>3, <1>4, <2>5
    <3> QED
      BY <1>3, <2>2, <2>3, <3>1 DEF dirOf
  <2> QED
    BY <2>4, <2>5
<1>7. /\ cs[1].olddir = Start
      /\ \A k \in DOMAIN cs : /\ cs[k].listing = Subdirs[dirOf(cs, c, k)]
                              /\ cs[k].num <= Len(cs[k].listing)
                              /\ dirOf(cs, c, k) \in Range(ls)
      /\ \A j, k \in DOMAIN cs : dirOf(cs, c, j) = dirOf(cs, c, k) => j = k
  BY DEF OnPath
<1>8. OnPath(b, o, ls)
  <2>1. IF b = <<>> THEN o = Start ELSE b[1].olddir = Start
    <3>1. CASE l = 1
      <4>1. b = <<>>
        BY <1>3, <3>1, EmptySeq
      <4> QED
        BY <1>7, <3>1, <4>1
    <3>2. CASE l # 1
      <4>1. Len(b) # 0 /\ 1 \in 1 .. (l - 1)
        BY <1>1, <1>3, <3>2
      <4>2. b # <<>> /\ b[1] = cs[1]
        BY <1>3, <4>1, EmptySeq
      <4> QED
        BY <1>7, <4>2
    <3> QED
      BY <3>1, <3>2
  <2> QED
    BY <1>6, <1>7, <2>1 DEF OnPath
<1>9. ASSUME NEW p \in Dirs, NEW q \in DOMAIN Subdirs[p]
      PROVE  passed(b, o, p, q) <=> passed(cs, c, p, q)
  <2>1. ASSUME passed(cs, c, p, q)
        PROVE  passed(b, o, p, q)
    BY <1>6, <2>1 DEF passed
  <2>2. ASSUME passed(b, o, p, q)
        PROVE  passed(cs, c, p, q)
    <3>1. ASSUME NEW k \in DOMAIN cs, dirOf(cs, c, k) = p
          PROVE  q <= cs[k].num
      <4>1. CASE k = l
        <5>1. cs[k].listing = Subdirs[p]
          BY <1>7, <3>1
        <5>2. q \in 1 .. Len(Subdirs[p])
          BY TreeFacts
        <5>3. cs[k].num = Len(cs[k].listing)
          BY <4>1 DEF l
        <5> QED
          BY <5>1, <5>2, <5>3
      <4>2. CASE k # l
        <5>1. k \in DOMAIN b
          BY <1>1, <1>4, <4>2
        <5>2. q <= b[k].num
          BY <1>6, <2>2, <3>1, <5>1 DEF passed
        <5> QED
          BY <1>6, <5>1, <5>2
      <4> QED
        BY <4>1, <4>2
    <3> QED
      BY <3>1 DEF passed
  <2> QED
    BY <2>1, <2>2
<1> QED
  BY <1>3, <1>5, <1>8, <1>9 DEF b, l

-----------------------------------------------------------------------------
(* A directory that is entered for the first time keeps the invariant.     *)
LEMMA EnterKeeps ==
  ASSUME DirTyped, NEW cs \in Seq(Frames), OnPath(cs, cwd, listed),
         NEW d \in Dirs, d \notin Range(listed), IsInjective(listed),
         NEW dv \in 0 .. Len(Devices),
         \A e \in Range(listed) \cup {d} :
           \/ \E k \in 1 .. dv : e = Devices[k]
           \/ \E p \in Range(listed) : \E q \in DOMAIN Subdirs[p] :
                e = Subdirs[p][q].dir /\ passed(cs, cwd, p, q),
         \A k \in 1 .. dv : Devices[k] \in Range(listed) \cup skipped \cup {d},
         \A p \in Range(listed) : \A q \in DOMAIN Subdirs[p] :
           passed(cs, cwd, p, q) => Subdirs[p][q].dir \in Range(listed) \cup skipped \cup {d},
         descend(d, cs), device' = dv
  PROVE  DirIInv'
<1> DEFINE f == [olddir |-> cwd, listing |-> Subdirs[d], num |-> 0]
           t == Append(cs, f)
           us == Append(listed, d)
<1>1. cwd \in Dirs /\ listed \in Seq(Dirs)
  BY DEF DirTyped
<1>2. cwd' = d /\ calls' = t /\ listed' = us /\ skipped' = skipped
  BY DEF descend
<1>3. /\ t \in Seq(Frames) /\ OnPath(t, d, us)
      /\ \A p \in Range(listed) : \A q \in Nat : passed(t, d, p, q) <=> passed(cs, cwd, p, q)
      /\ \A q \in DOMAIN Subdirs[d] : ~passed(t, d, d, q)
  BY <1>1, EnterDir
<1>4. Range(us) = Range(listed) \cup {d} /\ us \in Seq(Dirs) /\ IsInjective(us)
  BY <1>1, AppendRange
<1>5. Range(listed) \subseteq Dirs
  <2>1. \A q \in DOMAIN listed : listed[q] \in Dirs
    BY <1>1, LenProperties, ElementOfSeq
  <2> QED
    BY <2>1 DEF Range
<1>6. \A p \in Dirs : \A q \in DOMAIN Subdirs[p] : q \in Nat
  BY TreeFacts
<1> HIDE DEF t, us
<1>7. DirTyped'
  BY <1>2, <1>3, <1>4 DEF DirTyped
<1>8. Origin(t, d, us, dv)
  <2>1. ASSUME NEW e \in Range(us)
        PROVE  \/ \E k \in 1 .. dv : e = Devices[k]
               \/ \E p \in Range(us) : \E q \in DOMAIN Subdirs[p] :
                    e = Subdirs[p][q].dir /\ passed(t, d, p, q)
    <3>1. CASE \E k \in 1 .. dv : e = Devices[k]
      BY <3>1
    <3>2. CASE \E p \in Range(listed) : \E q \in DOMAIN Subdirs[p] :
                 e = Subdirs[p][q].dir /\ passed(cs, cwd, p, q)
      <4>1. PICK p \in Range(listed) : \E q \in DOMAIN Subdirs[p] :
                   e = Subdirs[p][q].dir /\ passed(cs, cwd, p, q)
        BY <3>2
      <4>2. PICK q \in DOMAIN Subdirs[p] : e = Subdirs[p][q].dir /\ passed(cs, cwd, p, q)
        BY <4>1
      <4>3. passed(t, d, p, q)
        BY <1>3, <1>5, <1>6, <4>2
      <4> QED
        BY <1>4, <4>2, <4>3
    <3> QED
      BY <1>4, <3>1, <3>2
  <2> QED
    BY <2>1 DEF Origin
<1>9. Complete(t, d, us, skipped, dv)
  <2>1. \A k \in 1 .. dv : Devices[k] \in Range(us) \cup skipped
    BY <1>4
  <2>2. ASSUME NEW p \in Range(us), NEW q \in DOMAIN Subdirs[p], passed(t, d, p, q)
        PROVE  Subdirs[p][q].dir \in Range(us) \cup skipped
    <3>1. p \in Range(listed)
      BY <1>3, <1>4, <2>2
    <3>2. passed(cs, cwd, p, q)
      BY <1>3, <1>5, <1>6, <2>2, <3>1
    <3> QED
      BY <1>4, <3>1, <3>2
  <2> QED
    BY <2>1, <2>2 DEF Complete
<1> QED
  BY <1>2, <1>3, <1>4, <1>7, <1>8, <1>9 DEF DirIInv

(* A directory that cannot be entered is skipped: the same, without it.    *)
LEMMA SkipKeeps ==
  ASSUME DirTyped, NEW cs \in Seq(Frames), OnPath(cs, cwd, listed), IsInjective(listed), NEW d,
         NEW dv \in 0 .. Len(Devices),
         Origin(cs, cwd, listed, dv),
         \A k \in 1 .. dv : Devices[k] \in Range(listed) \cup skipped \cup {d},
         \A p \in Range(listed) : \A q \in DOMAIN Subdirs[p] :
           passed(cs, cwd, p, q) => Subdirs[p][q].dir \in Range(listed) \cup skipped \cup {d},
         printOnly(d, cs), device' = dv
  PROVE  DirIInv'
<1>1. calls' = cs /\ cwd' = cwd /\ listed' = listed /\ skipped' = skipped \cup {d}
  BY DEF printOnly
<1>2. DirTyped'
  BY <1>1 DEF DirTyped
<1>3. Complete(cs, cwd, listed, skipped \cup {d}, dv)
  BY DEF Complete
<1> QED
  BY <1>1, <1>2, <1>3 DEF DirIInv

LEMMA DeviceKeeps ==
  ASSUME DirIInv, ~lost, NextDevice
  PROVE  DirIInv'
<1>1. /\ DirTyped /\ OnPath(calls, cwd, listed) /\ Origin(calls, cwd, listed, device)
      /\ Complete(calls, cwd, listed, skipped, device) /\ IsInjective(listed)
  BY DEF DirIInv
<1> DEFINE dv == device + 1
           d == Devices[dv]
<1>2. /\ calls = <<>> /\ device \in Nat /\ device < Len(Devices) /\ device' = dv
      /\ descend(d, calls) \/ printOnly(d, calls)
  BY <1>1, TreeFacts DEF NextDevice, DirTyped
<1>3. dv \in 1 .. Len(Devices) /\ d \in Dirs /\ d \in Range(Devices)
  <2>1. dv \in 1 .. Len(Devices)
    BY <1>2, TreeFacts
  <2>2. d \in Dirs
    BY <2>1, TreeFacts, ElementOfSeq
  <2> QED
    BY <2>1, <2>2, TreeFacts DEF Range
<1>4. \A k \in 1 .. dv : k \in 1 .. device \/ k = dv
  BY <1>2
<1>5. Range(listed) \subseteq Dirs
  <2>1. \A q \in DOMAIN listed : listed[q] \in Dirs
    BY <1>1, LenProperties, ElementOfSeq DEF DirTyped
  <2> QED
    BY <2>1 DEF Range
<1>6. calls \in Seq(Frames)
  BY <1>1 DEF DirTyped
<1>7. d \notin Range(listed)
  <2>1. SUFFICES ASSUME d \in Range(listed) PROVE FALSE
    OBVIOUS
  <2>2. CASE \E k \in 1 .. device : d = Devices[k]
    <3>1. PICK k \in 1 .. device : d = Devices[k]
      BY <2>2
    <3>2. k \in DOMAIN Devices /\ dv \in DOMAIN Devices /\ k # dv
      BY <1>2, <1>3, TreeFacts
    <3> QED
      BY <3>1, <3>2, TreeAssumption DEF IsInjective
  <2>3. CASE \E p \in Range(listed) : \E q \in DOMAIN Subdirs[p] :
               d = Subdirs[p][q].dir /\ passed(calls, cwd, p, q)
    BY <1>3, <1>5, <2>3, TreeAssumption
  <2> QED
    BY <1>1, <2>1, <2>2, <2>3 DEF Origin
<1>8. \A e \in Range(listed) \cup {d} :
        \/ \E k \in 1 .. dv : e = Devices[k]
        \/ \E p \in Range(listed) : \E q \in DOMAIN Subdirs[p] :
             e = Subdirs[p][q].dir /\ passed(calls, cwd, p, q)
  <2>1. \A k \in 1 .. device : k \in 1 .. dv
    BY <1>2
  <2>2. dv \in 1 .. dv
    BY <1>2
  <2> QED
    BY <1>1, <2>1, <2>2 DEF Origin
<1>9. \A k \in 1 .. dv : Devices[k] \in Range(listed) \cup skipped \cup {d}
  BY <1>1, <1>4 DEF Complete
<1>10. \A p \in Range(listed) : \A q \in DOMAIN Subdirs[p] :
         passed(calls, cwd, p, q) => Subdirs[p][q].dir \in Range(listed) \cup skipped \cup {d}
  BY <1>1 DEF Complete
<1>11. dv \in 0 .. Len(Devices)
  BY <1>3
<1> HIDE DEF d, dv
<1>12. CASE descend(d, calls)
  BY <1>1, <1>2, <1>3, <1>6, <1>7, <1>8, <1>9, <1>10, <1>11, <1>12, EnterKeeps
<1>13. CASE printOnly(d, calls)
  <2>1. Origin(calls, cwd, listed, dv)
    BY <1>8 DEF Origin
  <2> QED
    BY <1>1, <1>2, <1>6, <1>9, <1>10, <1>11, <1>13, <2>1, SkipKeeps
<1> QED
  BY <1>2, <1>12, <1>13

LEMMA SubdirKeeps ==
  ASSUME DirIInv, ~lost, PrintSubdir
  PROVE  DirIInv'
<1>1. /\ DirTyped /\ OnPath(calls, cwd, listed) /\ Origin(calls, cwd, listed, device)
      /\ Complete(calls, cwd, listed, skipped, device) /\ IsInjective(listed)
  BY DEF DirIInv
<1> DEFINE a == [calls EXCEPT ![Len(calls)].num = @ + 1]
           n == calls[Len(calls)].num + 1
           d == Subdirs[cwd][n].dir
<1>2. /\ calls # <<>> /\ calls[Len(calls)].num < Len(calls[Len(calls)].listing) /\ device' = device
  BY DEF PrintSubdir, frame, Last
<1>3. cwd \in Dirs /\ calls \in Seq(Frames) /\ listed \in Seq(Dirs) /\ device \in 0 .. Len(Devices)
  BY <1>1 DEF DirTyped
<1>4. /\ a \in Seq(Frames) /\ OnPath(a, cwd, listed)
      /\ n \in DOMAIN Subdirs[cwd] /\ calls[Len(calls)].listing = Subdirs[cwd] /\ cwd \in Range(listed)
      /\ passed(a, cwd, cwd, n) /\ ~passed(calls, cwd, cwd, n)
      /\ \A p \in Dirs : \A q \in Nat :
           /\ passed(calls, cwd, p, q) => passed(a, cwd, p, q)
           /\ passed(a, cwd, p, q) => passed(calls, cwd, p, q) \/ (p = cwd /\ q = n)
  BY <1>1, <1>2, <1>3, Past
<1>5. Range(listed) \subseteq Dirs
  <2>1. \A q \in DOMAIN listed : listed[q] \in Dirs
    BY <1>3, LenProperties, ElementOfSeq
  <2> QED
    BY <2>1 DEF Range
<1>6. \A p \in Range(listed) : \A q \in DOMAIN Subdirs[p] : q \in Nat
  BY <1>5, TreeFacts
<1>7. d \in Dirs
  BY <1>3, <1>4, TreeFacts
<1>8. nextEntry = Subdirs[cwd][n] /\ advanced = a
  BY <1>4 DEF nextEntry, frame, Last, advanced
<1> HIDE DEF a, n
<1>9. found(nextEntry.name) \subseteq {d}
  <2>1. SUFFICES ASSUME NEW e \in Range(Subdirs[cwd]), e.name = Subdirs[cwd][n].name PROVE e.dir = d
    BY <1>8 DEF found
  <2>2. PICK j \in DOMAIN Subdirs[cwd] : e = Subdirs[cwd][j]
    BY <2>1 DEF Range
  <2>3. j = n
    BY <1>3, <1>4, <2>1, <2>2, TreeAssumption
  <2> QED
    BY <2>2, <2>3
<1>10. d \notin Range(listed)
  <2>1. SUFFICES ASSUME d \in Range(listed) PROVE FALSE
    OBVIOUS
  <2>2. CASE \E k \in 1 .. device : d = Devices[k]
    <3>1. PICK k \in 1 .. device : d = Devices[k]
      BY <2>2
    <3>2. k \in DOMAIN Devices
      BY <1>3, TreeFacts
    <3>3. d \in Range(Devices)
      BY <3>1, <3>2 DEF Range
    <3> QED
      BY <1>3, <1>4, <3>3, TreeAssumption
  <2>3. CASE \E p \in Range(listed) : \E q \in DOMAIN Subdirs[p] :
               d = Subdirs[p][q].dir /\ passed(calls, cwd, p, q)
    <3>1. PICK p \in Range(listed) : \E q \in DOMAIN Subdirs[p] :
                 d = Subdirs[p][q].dir /\ passed(calls, cwd, p, q)
      BY <2>3
    <3>2. PICK q \in DOMAIN Subdirs[p] : d = Subdirs[p][q].dir /\ passed(calls, cwd, p, q)
      BY <3>1
    <3>3. p \in Dirs
      BY <1>5
    <3>4. p = cwd /\ q = n
      BY <1>3, <1>4, <3>2, <3>3, TreeAssumption
    <3> QED
      BY <1>4, <3>2, <3>4
  <2> QED
    BY <1>1, <2>1, <2>2, <2>3 DEF Origin
<1>11. \A e \in Range(listed) :
        \/ \E k \in 1 .. device : e = Devices[k]
        \/ \E p \in Range(listed) : \E q \in DOMAIN Subdirs[p] :
             e = Subdirs[p][q].dir /\ passed(a, cwd, p, q)
  <2>1. TAKE e \in Range(listed)
  <2>2. CASE \E k \in 1 .. device : e = Devices[k]
    BY <2>2
  <2>3. CASE \E p \in Range(listed) : \E q \in DOMAIN Subdirs[p] :
               e = Subdirs[p][q].dir /\ passed(calls, cwd, p, q)
    <3>1. PICK p \in Range(listed) : \E q \in DOMAIN Subdirs[p] :
                 e = Subdirs[p][q].dir /\ passed(calls, cwd, p, q)
      BY <2>3
    <3>2. PICK q \in DOMAIN Subdirs[p] : e = Subdirs[p][q].dir /\ passed(calls, cwd, p, q)
      BY <3>1
    <3>3. passed(a, cwd, p, q)
      BY <1>4, <1>5, <1>6, <3>2
    <3> QED
      BY <3>2, <3>3
  <2> QED
    BY <1>1, <2>2, <2>3 DEF Origin
<1>12. \E p \in Range(listed) : \E q \in DOMAIN Subdirs[p] :
         d = Subdirs[p][q].dir /\ passed(a, cwd, p, q)
  BY <1>4
<1>13. \A k \in 1 .. device : Devices[k] \in Range(listed) \cup skipped \cup {d}
  BY <1>1 DEF Complete
<1>14. ASSUME NEW p \in Range(listed), NEW q \in DOMAIN Subdirs[p], passed(a, cwd, p, q)
       PROVE  Subdirs[p][q].dir \in Range(listed) \cup skipped \cup {d}
  <2>1. passed(calls, cwd, p, q) \/ (p = cwd /\ q = n)
    BY <1>4, <1>5, <1>6, <1>14
  <2> QED
    BY <1>1, <2>1 DEF Complete
<1>15. \/ descend(d, a)
       \/ printOnly(d, a)
  BY <1>8, <1>9 DEF PrintSubdir
<1>16. Origin(a, cwd, listed, device)
  BY <1>11 DEF Origin
<1> HIDE DEF d
<1>17. CASE descend(d, a)
  BY <1>1, <1>2, <1>3, <1>4, <1>7, <1>10, <1>11, <1>12, <1>13, <1>14, <1>17, EnterKeeps
<1>18. CASE printOnly(d, a)
  BY <1>1, <1>2, <1>3, <1>4, <1>13, <1>14, <1>16, <1>18, SkipKeeps
<1> QED
  BY <1>15, <1>17, <1>18

LEMMA ReturnKeeps ==
  ASSUME DirIInv, ~lost, Return
  PROVE  DirIInv'
<1>1. /\ DirTyped /\ OnPath(calls, cwd, listed) /\ Origin(calls, cwd, listed, device)
      /\ Complete(calls, cwd, listed, skipped, device) /\ IsInjective(listed)
  BY DEF DirIInv
<1> DEFINE b == SubSeq(calls, 1, Len(calls) - 1)
           o == calls[Len(calls)].olddir
<1>2. /\ calls # <<>> /\ calls[Len(calls)].num = Len(calls[Len(calls)].listing) /\ calls' = b
      /\ cwd' = o \/ lost'
      /\ device' = device /\ listed' = listed /\ skipped' = skipped
  BY DEF Return, frame, Last, Front
<1>3. cwd \in Dirs /\ calls \in Seq(Frames) /\ listed \in Seq(Dirs) /\ device \in 0 .. Len(Devices)
  BY <1>1 DEF DirTyped
<1>4. /\ b \in Seq(Frames) /\ o \in Dirs /\ OnPath(b, o, listed)
      /\ \A p \in Dirs : \A q \in DOMAIN Subdirs[p] : passed(b, o, p, q) <=> passed(calls, cwd, p, q)
  BY <1>1, <1>2, <1>3, Back
<1>5. Range(listed) \subseteq Dirs
  <2>1. \A q \in DOMAIN listed : listed[q] \in Dirs
    BY <1>3, LenProperties, ElementOfSeq
  <2> QED
    BY <2>1 DEF Range
<1> HIDE DEF b, o
<1>6. Origin(b, o, listed, device)
  BY <1>1, <1>4, <1>5 DEF Origin
<1>7. Complete(b, o, listed, skipped, device)
  BY <1>1, <1>4, <1>5 DEF Complete
<1>8. CASE cwd' = o
  <2>1. DirTyped'
    BY <1>2, <1>3, <1>4, <1>8 DEF DirTyped
  <2> QED
    BY <1>1, <1>2, <1>4, <1>6, <1>7, <1>8, <2>1 DEF DirIInv
<1>9. CASE lost'
  BY <1>9 DEF DirIInv
<1> QED
  BY <1>2, <1>8, <1>9

LEMMA LostStays ==
  ASSUME lost, DirNext
  PROVE  lost'
<1>1. CASE Return
  BY <1>1 DEF Return
<1> QED
  BY <1>1 DEF DirNext, NextDevice, PrintSubdir

LEMMA DirBegins ==
  ASSUME DirInit
  PROVE  DirIInv
<1>1. device = 0 /\ cwd = Start /\ calls = <<>> /\ listed = <<>> /\ skipped = {}
  BY DEF DirInit
<1>2. Range(<<>>) = {} /\ DOMAIN (<<>>) = {}
  BY DEF Range
<1>3. DirTyped
  BY <1>1, TreeFacts DEF DirTyped
<1>4. OnPath(calls, cwd, listed)
  BY <1>1, <1>2 DEF OnPath
<1>5. Origin(calls, cwd, listed, device) /\ Complete(calls, cwd, listed, skipped, device)
  BY <1>1, <1>2 DEF Origin, Complete
<1>6. IsInjective(listed)
  BY <1>1, <1>2 DEF IsInjective
<1> QED
  BY <1>3, <1>4, <1>5, <1>6 DEF DirIInv

LEMMA DirIInvSuffices ==
  ASSUME DirIInv
  PROVE  TreeListed
<1>1. SUFFICES ASSUME ~lost
               PROVE  /\ IF calls = <<>> THEN cwd = Start ELSE frame.listing = Subdirs[cwd]
                      /\ IsInjective(listed)
                      /\ calls = <<>> /\ device = Len(Devices) =>
                           /\ Range(Devices) \subseteq Range(listed) \cup skipped
                           /\ \A d \in Range(listed) : \A e \in Range(Subdirs[d]) :
                                e.dir \in Range(listed) \cup skipped
  BY DEF TreeListed, NamesMeaningful, ListedOnce
<1>2. /\ DirTyped /\ OnPath(calls, cwd, listed) /\ Origin(calls, cwd, listed, device)
      /\ Complete(calls, cwd, listed, skipped, device) /\ IsInjective(listed)
  BY <1>1 DEF DirIInv
<1>3. CASE calls # <<>>
  <2>1. calls \in Seq(Frames)
    BY <1>2 DEF DirTyped
  <2>2. Len(calls) \in DOMAIN calls
    BY <1>3, <2>1, LenProperties, EmptySeq
  <2>3. frame.listing = Subdirs[cwd]
    BY <1>2, <2>2 DEF OnPath, dirOf, frame, Last
  <2> QED
    BY <1>2, <1>3, <2>3
<1>4. CASE calls = <<>>
  <2>1. cwd = Start
    BY <1>2, <1>4 DEF OnPath
  <2>2. \A p, q : passed(calls, cwd, p, q)
    <3>1. DOMAIN calls = {}
      BY <1>4
    <3> QED
      BY <3>1 DEF passed
  <2>3. \A d \in Range(listed) : \A e \in Range(Subdirs[d]) : e.dir \in Range(listed) \cup skipped
    <3>1. TAKE d \in Range(listed)
    <3>2. TAKE e \in Range(Subdirs[d])
    <3>3. PICK q \in DOMAIN Subdirs[d] : e = Subdirs[d][q]
      BY DEF Range
    <3> QED
      BY <1>2, <2>2, <3>3 DEF Complete
  <2>4. device = Len(Devices) => Range(Devices) \subseteq Range(listed) \cup skipped
    BY <1>2, TreeFacts DEF Complete, Range
  <2> QED
    BY <1>2, <1>4, <2>1, <2>3, <2>4
<1> QED
  BY <1>3, <1>4

(* printdir walks the trees of any devices whatever their shape and        *)
(* whichever directories cannot be entered: as long as every way back      *)
(* succeeds, names are looked up where they were read, nothing is listed   *)
(* twice and nothing that can be entered is left out.                      *)
THEOREM TreesAreListed == DirSpec => []TreeListed
<1>1. DirInit => DirIInv
  BY DirBegins
<1>2. DirIInv /\ [DirNext]_dirVars => DirIInv'
  <2>1. SUFFICES ASSUME DirIInv, [DirNext]_dirVars PROVE DirIInv'
    OBVIOUS
  <2>2. CASE lost /\ DirNext
    BY <2>2, LostStays DEF DirIInv
  <2>3. CASE ~lost /\ NextDevice
    BY <2>1, <2>3, DeviceKeeps
  <2>4. CASE ~lost /\ PrintSubdir
    BY <2>1, <2>4, SubdirKeeps
  <2>5. CASE ~lost /\ Return
    BY <2>1, <2>5, ReturnKeeps
  <2>6. CASE UNCHANGED dirVars
    BY <2>1, <2>6 DEF dirVars, DirIInv, DirTyped
  <2> QED
    BY <2>1, <2>2, <2>3, <2>4, <2>5, <2>6 DEF DirNext
<1>3. DirIInv => TreeListed
  BY DirIInvSuffices
<1> QED
  BY <1>1, <1>2, <1>3, PTL DEF DirSpec

-----------------------------------------------------------------------------
(* The player (SidPlayer).                                                 *)

(* The time since the last beat is what lies between the time of the next  *)
(* one and the clock, and a tone, but for rounds of the clock byte.        *)
Timed ==
  /\ clock \in 0 .. ByteBase - 1 /\ NextClock \in 0 .. ByteBase - 1
  /\ waited \in 0 .. ByteBase - 1
  /\ \/ NextClock + waited = clock + TICKS_PER_TONE
     \/ NextClock + waited = clock + TICKS_PER_TONE + ByteBase
     \/ NextClock + waited = clock + TICKS_PER_TONE - ByteBase

(* A voice counts down; one that has run out of ticks has been released.   *)
Counting ==
  /\ \A v \in Voices : Ticks[v] \in Nat /\ Data[v] \in 0 .. Len(Tune[v])
  /\ ToneReleased

LEMMA SidConstants ==
  /\ ByteBase \in Nat \ {0} /\ TICKS_PER_TONE \in 1 .. ByteBase - 1
  /\ \A v \in Voices : Len(Tune[v]) \in Nat /\ \A n \in 1 .. Len(Tune[v]) : Tune[v][n].length \in Nat \ {0}
<1>1. ByteBase \in Nat \ {0} /\ TICKS_PER_TONE \in 1 .. ByteBase - 1
  BY TuneAssumption
<1>2. ASSUME NEW v \in Voices
      PROVE  Len(Tune[v]) \in Nat /\ \A n \in 1 .. Len(Tune[v]) : Tune[v][n].length \in Nat \ {0}
  <2> DEFINE T == [length : 1 .. ByteBase - 1, pause : BOOLEAN]
  <2>1. Tune[v] \in Seq(T)
    BY TuneAssumption
  <2>2. Len(Tune[v]) \in Nat /\ \A n \in 1 .. Len(Tune[v]) : Tune[v][n] \in T
    BY <2>1, LenProperties, ElementOfSeq
  <2>3. \A t \in T : t.length \in Nat \ {0}
    BY <1>1
  <2> QED
    BY <2>2, <2>3
<1> QED
  BY <1>1, <1>2

(* A sum of two bytes, in a byte.                                          *)
LEMMA ByteSum ==
  ASSUME NEW a \in 0 .. ByteBase - 1, NEW b \in 0 .. ByteBase - 1
  PROVE  (a + b) % ByteBase = IF a + b < ByteBase THEN a + b ELSE a + b - ByteBase
<1>1. ByteBase \in Nat \ {0}
  BY SidConstants
<1> QED
  BY <1>1

LEMMA SidInitIInv == SidInit => Timed /\ Counting
<1>1. SUFFICES ASSUME SidInit
               PROVE  Timed /\ Counting
  OBVIOUS
<1>2. NextClock = IF clock + TICKS_PER_TONE < ByteBase THEN clock + TICKS_PER_TONE
                  ELSE clock + TICKS_PER_TONE - ByteBase
  <2>1. TICKS_PER_TONE \in 0 .. ByteBase - 1 /\ clock \in 0 .. ByteBase - 1
    BY <1>1, SidConstants DEF SidInit
  <2>2. NextClock = (clock + TICKS_PER_TONE) % ByteBase
    BY <1>1 DEF SidInit
  <2> QED
    BY <2>1, <2>2, ByteSum
<1>3. Timed
  BY <1>1, <1>2, SidConstants DEF SidInit, Timed
<1>4. Counting
  BY <1>1, SidConstants DEF SidInit, Counting, ToneReleased, toneEnded
<1> QED
  BY <1>3, <1>4

LEMMA TimedStep ==
  ASSUME Timed, [SidNext]_sidVars
  PROVE  /\ Timed'
         /\ sidPc = "sync" /\ sidPc' = "key" => waited = TICKS_PER_TONE
<1>1. ByteBase \in Nat \ {0} /\ TICKS_PER_TONE \in 1 .. ByteBase - 1
  BY SidConstants
<1>2. CASE ClockTick
  <2>1. ByteBase > 1 /\ 1 \in 0 .. ByteBase - 1
    BY <1>1
  <2>2. clock' = IF clock + 1 < ByteBase THEN clock + 1 ELSE clock + 1 - ByteBase
    BY <1>2, <2>1, ByteSum DEF ClockTick, Timed
  <2>3. waited' = IF waited + 1 < ByteBase THEN waited + 1 ELSE waited + 1 - ByteBase
    BY <1>2, <2>1, ByteSum DEF ClockTick, Timed
  <2> QED
    BY <1>1, <1>2, <2>2, <2>3 DEF ClockTick, Timed
<1>3. CASE TimeSync
  <2>1. NextClock' = IF clock + TICKS_PER_TONE < ByteBase THEN clock + TICKS_PER_TONE
                     ELSE clock + TICKS_PER_TONE - ByteBase
    <3>1. TICKS_PER_TONE \in 0 .. ByteBase - 1 /\ clock \in 0 .. ByteBase - 1
      BY <1>1 DEF Timed
    <3>2. NextClock' = (clock + TICKS_PER_TONE) % ByteBase
      BY <1>3 DEF TimeSync
    <3> QED
      BY <3>1, <3>2, ByteSum
  <2> QED
    BY <1>1, <1>3, <2>1 DEF TimeSync, Timed
<1>4. CASE KeyPress \/ CheckKey \/ PlayBeat \/ UNCHANGED sidVars
  BY <1>4 DEF KeyPress, CheckKey, PlayBeat, sidVars, Timed
<1> QED
  BY <1>2, <1>3, <1>4 DEF SidNext

LEMMA CountingStep ==
  ASSUME Counting, [SidNext]_sidVars
  PROVE  Counting'
<1>1. CASE ClockTick \/ KeyPress \/ TimeSync \/ UNCHANGED sidVars
  BY <1>1 DEF ClockTick, KeyPress, TimeSync, sidVars, Counting, ToneReleased, toneEnded
<1>2. CASE CheckKey
  BY <1>2 DEF CheckKey, Counting, ToneReleased, toneEnded, silenced
<1>3. CASE PlayBeat
  <2>1. ASSUME NEW v \in Voices
        PROVE  /\ Ticks'[v] \in Nat /\ Data'[v] \in 0 .. Len(Tune[v])
               /\ toneEnded(v)' => ctrlAfter(v) = "release"
    <3>1. /\ Ticks'[v] = ticksAfter(v)
          /\ Data'[v] = IF needsData(v) /\ ~atEnd(v) THEN Data[v] + 1 ELSE Data[v]
      BY <1>3 DEF PlayBeat
    <3>2. /\ Ticks[v] \in Nat /\ Data[v] \in 0 .. Len(Tune[v]) /\ Len(Tune[v]) \in Nat
          /\ toneEnded(v) => ctrl[v] = "release"
      BY <1>3, SidConstants DEF Counting, ToneReleased, PlayBeat
    <3>3. CASE v \in Done \/ (needsData(v) /\ atEnd(v))
      BY <3>1, <3>2, <3>3 DEF ticksAfter, ctrlAfter, toneEnded, needsData
    <3>4. CASE needsData(v) /\ ~atEnd(v)
      <4>1. Data[v] + 1 \in 1 .. Len(Tune[v])
        BY <3>2, <3>4 DEF atEnd
      <4>2. nextTone(v).length \in Nat \ {0}
        BY <4>1, SidConstants DEF nextTone
      <4>3. Ticks'[v] = nextTone(v).length - 1 /\ Data'[v] = Data[v] + 1
        BY <3>1, <3>4 DEF ticksAfter, needsData
      <4> QED
        BY <4>1, <4>2, <4>3 DEF toneEnded, nextTone
    <3>5. CASE v \notin Done /\ ~needsData(v)
      BY <3>1, <3>2, <3>5 DEF ticksAfter, ctrlAfter, toneEnded, needsData
    <3> QED
      BY <3>3, <3>4, <3>5 DEF needsData
  <2>2. \/ sidPc' = "end" /\ ctrl' = silenced
        \/ sidPc' = "sync" /\ ctrl' = [v \in Voices |-> ctrlAfter(v)]
    BY <1>3 DEF PlayBeat
  <2>3. ToneReleased'
    BY <2>1, <2>2 DEF ToneReleased, silenced
  <2> QED
    BY <2>1, <2>3 DEF Counting
<1> QED
  BY <1>1, <1>2, <1>3 DEF SidNext

(* However long the debugger takes, and however often a poll misses its    *)
(* value, a beat of nachtm.c comes a tone after the one before, or that    *)
(* and whole rounds of the clock byte.                                     *)
THEOREM BeatsAreOnTime == SidSpec => BeatOnTime
<1>1. SidInit => Timed
  BY SidInitIInv
<1>2. Timed /\ [SidNext]_sidVars => Timed'
  BY TimedStep
<1>3. Timed /\ [SidNext]_sidVars => [sidPc = "sync" /\ sidPc' = "key" => waited = TICKS_PER_TONE]_sidVars
  BY TimedStep
<1> QED
  BY <1>1, <1>2, <1>3, PTL DEF SidSpec, BeatOnTime

(* No tone of nachtm.c hangs, whatever the tables: it is released by the   *)
(* time it ends, and when the program ends every voice is silent.          *)
THEOREM TonesAreReleased == SidSpec => []ToneReleased
<1>1. SidInit => Counting
  BY SidInitIInv
<1>2. Counting /\ [SidNext]_sidVars => Counting'
  BY CountingStep
<1>3. Counting => ToneReleased
  BY DEF Counting
<1> QED
  BY <1>1, <1>2, <1>3, PTL DEF SidSpec

(* The least number of a set.                                              *)
LEMMA LeastNumber ==
  ASSUME NEW S \in SUBSET Nat, S # {}
  PROVE  \E n \in S : \A m \in S : n <= m
<1>1. PICK n \in S : \A m \in S : ~(<<m, n>> \in OpToRel(<, Nat))
  BY NatLessThanWellFounded, WFMin, Zenon
<1>2. \A m \in S : ~(m < n)
  BY <1>1, Zenon DEF OpToRel
<1> QED
  BY <1>2

(* The times are what their equation says.                                 *)
LEMMA LengthsExist ==
  ASSUME NEW tones, NEW N \in Nat
  PROVE  \E f : f = [k \in 0 .. N |-> IF k = 0 THEN 0 ELSE f[k - 1] + tones[k].length]
<1> DEFINE S == {n \in 0 .. N :
                   ~\E f : f = [k \in 0 .. n |-> IF k = 0 THEN 0 ELSE f[k - 1] + tones[k].length]}
<1>1. SUFFICES ASSUME S # {}
               PROVE  FALSE
  OBVIOUS
<1>2. PICK n \in S : \A m \in S : n <= m
  <2>1. S \in SUBSET Nat
    OBVIOUS
  <2> QED
    BY <2>1, <1>1, LeastNumber
<1>3. n # 0
  <2>1. SUFFICES ASSUME n = 0
                 PROVE  FALSE
    OBVIOUS
  <2> DEFINE f == [k \in 0 .. 0 |-> 0]
  <2>2. f = [k \in 0 .. 0 |-> IF k = 0 THEN 0 ELSE f[k - 1] + tones[k].length]
    OBVIOUS
  <2> QED
    BY <2>1, <2>2
<1>4. n - 1 \in 0 .. N /\ n - 1 \notin S
  <2>1. n \in 0 .. N
    OBVIOUS
  <2> HIDE DEF S
  <2>2. n - 1 \in 0 .. N /\ ~(n <= n - 1)
    BY <2>1, <1>3
  <2> QED
    BY <1>2, <2>2
<1>5. PICK f : f = [k \in 0 .. n - 1 |-> IF k = 0 THEN 0 ELSE f[k - 1] + tones[k].length]
  BY <1>4
<1> DEFINE g == [k \in 0 .. n |-> IF k = n THEN f[n - 1] + tones[n].length ELSE f[k]]
<1>6. \A k \in 0 .. n : g[k] = IF k = 0 THEN 0 ELSE g[k - 1] + tones[k].length
  <2>1. TAKE k \in 0 .. n
  <2>2. CASE k = n
    <3>1. g[n] = f[n - 1] + tones[n].length /\ g[n - 1] = f[n - 1]
      BY <1>3
    <3> QED
      BY <3>1, <2>2, <1>3
  <2>3. CASE k = 0
    <3>1. g[0] = f[0] /\ f[0] = 0
      BY <1>3, <1>5
    <3> QED
      BY <3>1, <2>3
  <2>4. CASE k # n /\ k # 0
    <3>1. g[k] = f[k] /\ g[k - 1] = f[k - 1] /\ k \in 0 .. n - 1
      BY <2>4
    <3>2. f[k] = f[k - 1] + tones[k].length
      BY <3>1, <2>4, <1>5
    <3> QED
      BY <3>1, <3>2, <2>4
  <2> QED
    BY <2>2, <2>3, <2>4
<1>7. g = [k \in 0 .. n |-> IF k = 0 THEN 0 ELSE g[k - 1] + tones[k].length]
  <2> HIDE DEF g
  <2>1. g = [k \in 0 .. n |-> g[k]]
    BY DEF g
  <2> QED
    BY <2>1, <1>6
<1>8. n \notin S
  BY <1>7
<1> QED
  BY <1>8

LEMMA LengthsAre ==
  ASSUME NEW tones, Len(tones) \in Nat
  PROVE  /\ lengths(tones)[0] = 0
         /\ \A k \in 1 .. Len(tones) :
              lengths(tones)[k] = lengths(tones)[k - 1] + tones[k].length
<1> DEFINE body(k) == IF k = 0 THEN 0 ELSE lengths(tones)[k - 1] + tones[k].length
<1>1. \E f : f = [k \in 0 .. Len(tones) |-> IF k = 0 THEN 0 ELSE f[k - 1] + tones[k].length]
  BY LengthsExist
<1>2. lengths(tones) = [k \in 0 .. Len(tones) |-> body(k)]
  BY <1>1 DEF lengths
<1> HIDE DEF body
<1>3. \A k \in 0 .. Len(tones) : lengths(tones)[k] = body(k)
  BY <1>2, Zenon
<1> QED
  BY <1>3 DEF body

(* As no tone is empty, the times grow.                                    *)
LEMMA LengthsGrow ==
  ASSUME NEW v \in Voices
  PROVE  /\ \A k \in 0 .. Len(Tune[v]) : lengths(Tune[v])[k] \in Nat
         /\ \A k \in 0 .. Len(Tune[v]) - 1 : lengths(Tune[v])[k] < totalLength(Tune[v])
<1> DEFINE f == lengths(Tune[v])
           N == Len(Tune[v])
<1>1. N \in Nat /\ \A n \in 1 .. N : Tune[v][n].length \in Nat \ {0}
  BY SidConstants
<1>2. f[0] = 0 /\ \A k \in 1 .. N : f[k] = f[k - 1] + Tune[v][k].length
  BY <1>1, LengthsAre
<1> DEFINE grows(n) == f[n] \in Nat /\ \A k \in 0 .. n - 1 : f[k] < f[n]
           S == {n \in 0 .. N : ~grows(n)}
<1>3. S = {}
  <2>1. SUFFICES ASSUME S # {}
                 PROVE  FALSE
    OBVIOUS
  <2>2. PICK n \in S : \A m \in S : n <= m
    <3>1. S \in SUBSET Nat
      BY <1>1
    <3> QED
      BY <3>1, <2>1, LeastNumber
  <2> HIDE DEF f
  <2>3. n \in 0 .. N /\ ~grows(n)
    OBVIOUS
  <2>4. n # 0
    BY <1>2, <2>3
  <2>5. n - 1 \in 0 .. N /\ n - 1 \notin S
    <3> HIDE DEF S
    <3>1. n - 1 \in 0 .. N /\ ~(n <= n - 1)
      BY <1>1, <2>3, <2>4
    <3> QED
      BY <2>2, <3>1
  <2>6. grows(n - 1)
    BY <2>5
  <2>7. n \in 1 .. N
    BY <1>1, <2>3, <2>4
  <2>8. f[n] = f[n - 1] + Tune[v][n].length /\ Tune[v][n].length \in Nat \ {0}
    BY <1>1, <1>2, <2>7
  <2>9. f[n] \in Nat /\ f[n - 1] < f[n] /\ f[n - 1] \in Nat
    BY <2>6, <2>8
  <2>10. ASSUME NEW k \in 0 .. n - 1
         PROVE  f[k] < f[n]
    <3>1. CASE k = n - 1
      BY <3>1, <2>9
    <3>2. CASE k # n - 1
      <4>1. k \in 0 .. (n - 1) - 1
        BY <3>2, <2>7, <1>1
      <4>2. f[k] < f[n - 1]
        BY <4>1, <2>6
      <4>3. f[k] \in Nat
        <5>1. k \in 0 .. N /\ ~(n <= k)
          BY <4>1, <1>1, <2>7
        <5>2. k \notin S
          BY <2>2, <5>1
        <5>3. grows(k)
          BY <5>1, <5>2
        <5> QED
          BY <5>3
      <4> QED
        BY <4>2, <4>3, <2>9
    <3> QED
      BY <3>1, <3>2
  <2> QED
    BY <2>3, <2>9, <2>10
<1> HIDE DEF grows
<1>4. \A n \in 0 .. N : grows(n)
  BY <1>3
<1>5. (\A n \in 0 .. N : f[n] \in Nat) /\ (\A k \in 0 .. N - 1 : f[k] < f[N])
  <2>1. N \in 0 .. N
    BY <1>1
  <2> QED
    BY <2>1, <1>4 DEF grows
<1> QED
  BY <1>5 DEF totalLength

(* What every voice has played; one that is done has played all.           *)
Together ==
  /\ \A v \in Voices : Ticks[v] \in Nat /\ Data[v] \in 0 .. Len(Tune[v])
  /\ Done \subseteq Voices /\ \A v \in Done : Ticks[v] = 0 /\ atEnd(v)
  /\ VoicesTogether

hasPlayed(v) == v \in Done \/ (needsData(v) /\ atEnd(v))

(* A voice is at its end exactly when it has played the whole piece.       *)
LEMMA EndIsWhole ==
  ASSUME Together, NEW v \in Voices
  PROVE  /\ playedBy(v) \in Int
         /\ hasPlayed(v) <=> playedBy(v) = totalLength(Tune[v])
<1> DEFINE f == lengths(Tune[v])
           N == Len(Tune[v])
<1>1. Ticks[v] \in Nat /\ Data[v] \in 0 .. N /\ N \in Nat
  BY SidConstants DEF Together
<1>2. /\ \A k \in 0 .. N : f[k] \in Nat
      /\ \A k \in 0 .. N - 1 : f[k] < totalLength(Tune[v])
  BY LengthsGrow
<1>3. totalLength(Tune[v]) = f[N] /\ playedBy(v) = f[Data[v]] - Ticks[v]
  BY DEF totalLength, playedBy
<1>4. f[Data[v]] \in Nat /\ f[N] \in Nat
  BY <1>1, <1>2
<1> HIDE DEF f
<1>5. hasPlayed(v) <=> Ticks[v] = 0 /\ Data[v] = N
  BY DEF hasPlayed, needsData, atEnd, Together
<1>6. CASE Data[v] = N
  BY <1>1, <1>3, <1>4, <1>5, <1>6
<1>7. CASE Data[v] # N
  <2>1. f[Data[v]] < f[N]
    BY <1>1, <1>2, <1>3, <1>7
  <2> QED
    BY <2>1, <1>1, <1>3, <1>4, <1>5, <1>7
<1> QED
  BY <1>6, <1>7

(* A beat is one tick for a voice that is not at its end.                  *)
LEMMA BeatPlays ==
  ASSUME Together, PlayBeat, NEW v \in Voices
  PROVE  /\ Ticks'[v] \in Nat /\ Data'[v] \in 0 .. Len(Tune[v])
         /\ (playedBy(v))' = IF hasPlayed(v) THEN playedBy(v) ELSE playedBy(v) + 1
         /\ v \in Done' <=> hasPlayed(v)
         /\ v \in Done' => Ticks'[v] = 0 /\ Data'[v] = Len(Tune[v])
<1> DEFINE f == lengths(Tune[v])
           N == Len(Tune[v])
<1>1. Ticks[v] \in Nat /\ Data[v] \in 0 .. N /\ N \in Nat
  BY SidConstants DEF Together
<1>2. /\ Ticks'[v] = ticksAfter(v)
      /\ Data'[v] = IF needsData(v) /\ ~atEnd(v) THEN Data[v] + 1 ELSE Data[v]
      /\ v \in Done' <=> hasPlayed(v)
  BY DEF PlayBeat, hasPlayed
<1>3. playedBy(v) = f[Data[v]] - Ticks[v] /\ (playedBy(v))' = f[Data'[v]] - Ticks'[v]
  BY DEF playedBy
<1>4. \A k \in 0 .. N : f[k] \in Nat
  BY LengthsGrow
<1>5. \A k \in 1 .. N : f[k] = f[k - 1] + Tune[v][k].length
  BY <1>1, LengthsAre
<1> HIDE DEF f
<1>6. CASE hasPlayed(v)
  <2>1. Ticks'[v] = Ticks[v] /\ Data'[v] = Data[v]
    BY <1>2, <1>6 DEF hasPlayed, ticksAfter, needsData
  <2>2. Ticks[v] = 0 /\ Data[v] = N
    BY <1>6 DEF hasPlayed, needsData, atEnd, Together
  <2> QED
    BY <2>1, <2>2, <1>1, <1>2, <1>3, <1>6
<1>7. CASE ~hasPlayed(v) /\ needsData(v)
  <2>1. Data[v] + 1 \in 1 .. N
    BY <1>1, <1>7 DEF hasPlayed, atEnd
  <2>2. /\ Data'[v] = Data[v] + 1 /\ Ticks'[v] = nextTone(v).length - 1
        /\ Ticks[v] = 0
    BY <1>2, <1>7 DEF hasPlayed, ticksAfter, needsData
  <2>3. nextTone(v).length = Tune[v][Data[v] + 1].length
    BY DEF nextTone
  <2>4. Tune[v][Data[v] + 1].length \in Nat \ {0}
    BY <2>1, SidConstants
  <2>5. f[Data[v] + 1] = f[Data[v]] + Tune[v][Data[v] + 1].length
    BY <1>1, <1>5, <2>1
  <2>6. f[Data[v]] \in Nat
    BY <1>1, <1>4
  <2>7. (playedBy(v))' = playedBy(v) + 1
    BY <1>3, <2>2, <2>3, <2>4, <2>5, <2>6
  <2> QED
    BY <2>1, <2>2, <2>3, <2>4, <2>7, <1>2, <1>7
<1>8. CASE ~hasPlayed(v) /\ ~needsData(v)
  <2>1. Data'[v] = Data[v] /\ Ticks'[v] = Ticks[v] - 1 /\ Ticks[v] # 0
    BY <1>2, <1>8 DEF hasPlayed, ticksAfter, needsData
  <2>2. f[Data[v]] \in Nat
    BY <1>1, <1>4
  <2> QED
    BY <2>1, <2>2, <1>1, <1>2, <1>3, <1>8
<1> QED
  BY <1>6, <1>7, <1>8

LEMMA TogetherInit == SidInit => Together
<1>1. SUFFICES ASSUME SidInit
               PROVE  Together
  OBVIOUS
<1>2. ASSUME NEW v \in Voices
      PROVE  Ticks[v] = 0 /\ Data[v] = 0 /\ Len(Tune[v]) \in Nat /\ playedBy(v) = 0
  <2>1. Ticks[v] = 0 /\ Data[v] = 0 /\ Len(Tune[v]) \in Nat
    BY <1>1, SidConstants DEF SidInit
  <2>2. lengths(Tune[v])[0] = 0
    BY <2>1, LengthsAre
  <2> QED
    BY <2>1, <2>2 DEF playedBy
<1>3. Done = {}
  BY <1>1 DEF SidInit
<1> QED
  BY <1>2, <1>3 DEF Together, VoicesTogether

LEMMA TogetherStep ==
  ASSUME Together, [SidNext]_sidVars
  PROVE  Together'
<1>1. CASE ClockTick \/ KeyPress \/ TimeSync \/ CheckKey \/ UNCHANGED sidVars
  <2>1. UNCHANGED <<Ticks, Data, Done>>
    BY <1>1 DEF ClockTick, KeyPress, TimeSync, CheckKey, sidVars
  <2> QED
    BY <2>1 DEF Together, VoicesTogether, playedBy, atEnd
<1>2. CASE PlayBeat
  <2>1. \A v \in Voices : /\ Ticks'[v] \in Nat /\ Data'[v] \in 0 .. Len(Tune[v])
                          /\ v \in Done' => Ticks'[v] = 0 /\ Data'[v] = Len(Tune[v])
    BY <1>2, BeatPlays
  <2>2. Done' \subseteq Voices
    BY <1>2 DEF PlayBeat, Together
  <2>3. \A v \in Done' : Ticks'[v] = 0 /\ Data'[v] = Len(Tune[v])
    BY <2>1, <2>2
  <2>4. ASSUME NEW v \in Voices, NEW w \in Voices
        PROVE  (playedBy(v))' = (playedBy(w))' /\ (v \in Done' <=> w \in Done')
    <3>1. playedBy(v) = playedBy(w)
      BY DEF Together, VoicesTogether
    <3>2. totalLength(Tune[v]) = totalLength(Tune[w])
      BY TuneAssumption
    <3>3. hasPlayed(v) <=> hasPlayed(w)
      BY <3>1, <3>2, EndIsWhole
    <3>4. /\ (playedBy(v))' = IF hasPlayed(v) THEN playedBy(v) ELSE playedBy(v) + 1
          /\ v \in Done' <=> hasPlayed(v)
      BY <1>2, BeatPlays
    <3>5. /\ (playedBy(w))' = IF hasPlayed(w) THEN playedBy(w) ELSE playedBy(w) + 1
          /\ w \in Done' <=> hasPlayed(w)
      BY <1>2, BeatPlays
    <3> QED
      BY <3>1, <3>3, <3>4, <3>5
  <2> QED
    BY <2>1, <2>2, <2>3, <2>4 DEF Together, VoicesTogether, atEnd
<1> QED
  BY <1>1, <1>2 DEF SidNext

(* The three voices of nachtm.c stay together, whatever the tables and     *)
(* however often the music waits: at every moment they have played equally *)
(* long, and they end in the same beat.                                    *)
THEOREM VoicesAreTogether == SidSpec => []VoicesTogether
<1>1. SidInit => Together
  BY TogetherInit
<1>2. Together /\ [SidNext]_sidVars => Together'
  BY TogetherStep
<1>3. Together => VoicesTogether
  BY DEF Together
<1> QED
  BY <1>1, <1>2, <1>3, PTL DEF SidSpec
=============================================================================
