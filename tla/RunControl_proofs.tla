-------------------------- MODULE RunControl_proofs --------------------------
(***************************************************************************)
(* Proofs about the run control of the simulator, for every number of run  *)
(* loops, every type-ahead capacity and every set of step counts.          *)
(***************************************************************************)
EXTENDS TraceWindow, FiniteSetTheorems, TLAPS

(* The next-state relation preserves the types of the variables.           *)
LEMMA TypeStep == TypeOK /\ [Next]_vars => TypeOK'
<1> SUFFICES ASSUME TypeOK, [Next]_vars PROVE TypeOK'
  OBVIOUS
<1> USE RunControlAssumption DEF TypeOK, Stepping, Points, EdtStepping, EdtStates
<1>1. ASSUME handleStart PROVE TypeOK'
  BY <1>1 DEF handleStart, UserActs
<1>2. ASSUME handleStop PROVE TypeOK'
  BY <1>2 DEF handleStop, UserActs, requestStop, screen
<1>3. ASSUME ResetBegin PROVE TypeOK'
  BY <1>3 DEF ResetBegin, UserActs, requestStop, screen
<1>4. ASSUME ClickStep PROVE TypeOK'
  BY <1>4 DEF ClickStep, UserActs, screen
<1>5. ASSUME ClickLoad PROVE TypeOK'
  BY <1>5 DEF ClickLoad, UserActs, screen
<1>6. ASSUME SelectMachine PROVE TypeOK'
  BY <1>6 DEF SelectMachine, UserActs, requestStop
<1>7. ASSUME keyTyped PROVE TypeOK'
  BY <1>7 DEF keyTyped, screen
<1>8. ASSUME ResetEnd PROVE TypeOK'
  BY <1>8 DEF ResetEnd
<1>9. ASSUME EdtStepCpu PROVE TypeOK'
  BY <1>9 DEF EdtStepCpu, screen
<1>10. ASSUME EdtHasInput PROVE TypeOK'
  BY <1>10 DEF EdtHasInput, EdtStepDone, screen
<1>11. ASSUME EdtPop PROVE TypeOK'
  BY <1>11 DEF EdtPop, EdtStepDone, screen
<1>12. ASSUME CloseDialog PROVE TypeOK'
  BY <1>12 DEF CloseDialog, screen
<1>13. ASSUME LoadEnd PROVE TypeOK'
  BY <1>13 DEF LoadEnd, Tasks, screen
<1>14. ASSUME Dispatch PROVE TypeOK'
  BY <1>14 DEF Dispatch, Tasks
<1>15. ASSUME NEW l \in Loops, RunLoopNext(l) PROVE TypeOK'
  <2>1. CASE RunBegin(l)
    BY <2>1 DEF RunBegin, Goto, edtState, screen
  <2>2. CASE PostStart(l)
    BY <2>2 DEF PostStart, Goto, post, Tasks, edtState, screen
  <2>3. CASE StepCpu(l)
    BY <2>3 DEF StepCpu, Goto, edtState, screen
  <2>4. CASE HasInput(l)
    BY <2>4 DEF HasInput, Goto, edtState, screen
  <2>5. CASE Pop(l)
    BY <2>5 DEF Pop, Goto, edtState, screen
  <2>6. CASE shouldContinue(l)
    BY <2>6 DEF shouldContinue, Goto, edtState, screen
  <2>7. CASE PostStop(l)
    BY <2>7 DEF PostStop, Goto, post, Tasks, edtState, screen
  <2>8. CASE RunEnd(l)
    BY <2>8 DEF RunEnd, Goto, requestStop, edtState, screen
  <2> QED
    BY <1>15, <2>1, <2>2, <2>3, <2>4, <2>5, <2>6, <2>7, <2>8 DEF RunLoopNext
<1>16. CASE UNCHANGED vars
  BY <1>16 DEF vars
<1> QED
  BY <1>1, <1>2, <1>3, <1>4, <1>5, <1>6, <1>7, <1>8, <1>9, <1>10, <1>11, <1>12,
     <1>13, <1>14, <1>15, <1>16 DEF Next, UserNext, EdtNext

LEMMA TypeInit == Init => TypeOK
<1> SUFFICES ASSUME Init PROVE TypeOK
  OBVIOUS
<1>1. queue \in Seq(Tasks)
  BY DEF Init
<1>2. isRunning \in [Loops -> BOOLEAN] /\ pc \in [Loops -> Points]
  BY DEF Init, Points
<1>3. typeAhead \in 0 .. MaxTypeAhead
  BY RunControlAssumption DEF Init
<1> QED
  BY <1>1, <1>2, <1>3 DEF Init, TypeOK, EdtStates

(* Type correctness of the run control: queued Runnables are well formed   *)
(* and the type-ahead buffer never holds more than its capacity.           *)
THEOREM TypeCorrect == Spec => []TypeOK
  BY TypeInit, TypeStep, PTL DEF Spec

-----------------------------------------------------------------------------
(* A user who lets the controls settle.  The argument: at most one loop is *)
(* alive, none while the event dispatch thread uses the machine, and the   *)
(* only Runnable that can wait while a loop is stepping is its first       *)
(* report; so in a settled state the button shows whether there is a loop, *)
(* and runLoop is that loop.                                               *)

didStart(l) == [task |-> "didStart", loop |-> l]

Starting == {"started", "post"}

OneAlive == \A l, m \in Loops : alive(l) /\ alive(m) => l = m

EdtAlone ==
  edt \in EdtStepping \cup {"load", "dialog"} => \A l \in Loops : ~alive(l)

ResetAlone ==
  edt = "reset" => \A l \in Loops : alive(l) => ~isRunning[l] /\ pc[l] \notin Starting

Referenced ==
  \A l \in Loops : alive(l) /\ (pc[l] = "started" \/ isRunning[l]) => runLoop = l

StartingQuiet == \A l \in Loops : pc[l] \in Starting => queue = <<>>

SteppingShown ==
  \A l \in Loops : pc[l] \in Stepping \cup {"exit"} =>
    (queue = <<>> /\ ui = "Stop") \/ queue = <<didStart(l)>>

Calm == /\ OneAlive /\ EdtAlone /\ ResetAlone /\ Referenced
        /\ StartingQuiet /\ SteppingShown

IInv == TypeOK /\ (~hasty => Calm)

(* In a settled state a loop that is alive is the one runLoop refers to,   *)
(* and the button says so.                                                 *)
LEMMA SettledState ==
  ASSUME TypeOK, Calm, settled, NEW l \in Loops, alive(l)
  PROVE  runLoop = l /\ loopIsRunning /\ ui = "Stop" /\ pc[l] \in Stepping
<1>1. pc[l] \in Stepping /\ isRunning[l] /\ queue = <<>>
  BY DEF settled
<1>2. runLoop = l
  BY <1>1 DEF Calm, Referenced
<1>3. l # NoLoop
  BY RunControlAssumption
<1>4. queue # <<didStart(l)>>
  BY <1>1
<1>5. ui = "Stop"
  BY <1>1, <1>4 DEF Calm, SteppingShown
<1> QED
  BY <1>1, <1>2, <1>3, <1>5 DEF loopIsRunning

(* What the user does in a settled state.                                  *)
LEMMA UserKeepsCalm ==
  ASSUME TypeOK, Calm, ~hasty', UserNext
  PROVE  Calm'
<1> USE DEF Calm, alive, Stepping, Starting, EdtStepping
<1>1. CASE handleStart
  <2>1. settled /\ edt = "idle" /\ ~loopIsRunning
    BY <1>1 DEF handleStart, UserActs
  <2>2. \A m \in Loops : ~alive(m)
    BY <2>1, SettledState
  <2>3. queue = <<>>
    BY <2>1 DEF settled
  <2>4. PICK l \in Loops : /\ pc[l] = "new" /\ runLoop' = l
                           /\ pc' = [pc EXCEPT ![l] = "started"]
    BY <1>1 DEF handleStart
  <2>5. /\ queue' = <<>> /\ edt' = "idle"
        /\ UNCHANGED <<isRunning, ui>>
    BY <1>1, <2>1, <2>3 DEF handleStart
  <2>6. \A m \in Loops : pc'[m] = IF m = l THEN "started" ELSE pc[m]
    BY <2>4 DEF TypeOK
  <2> QED
    BY <2>2, <2>4, <2>5, <2>6
    DEF OneAlive, EdtAlone, ResetAlone, Referenced, StartingQuiet, SteppingShown
<1>2. CASE handleStop
  <2>1. settled /\ edt' = "idle" /\ UNCHANGED <<pc, queue, ui>>
    BY <1>2 DEF handleStop, UserActs, screen
  <2>2. runLoop \in Loops /\ isRunning' = [isRunning EXCEPT ![runLoop] = FALSE]
    BY <1>2 DEF handleStop, loopIsRunning, requestStop, TypeOK
  <2>3. \A m \in Loops : isRunning'[m] = (isRunning[m] /\ m # runLoop)
    BY <2>2 DEF TypeOK
  <2>4. \A m \in Loops : alive(m) => m = runLoop /\ pc[m] \in Stepping
    BY <2>1, SettledState
  <2> QED
    BY <2>1, <2>3, <2>4
    DEF OneAlive, EdtAlone, ResetAlone, Referenced, StartingQuiet, SteppingShown
<1>3. CASE ResetBegin
  <2>1. settled /\ edt' = "reset" /\ UNCHANGED <<pc, queue, ui>>
    BY <1>3 DEF ResetBegin, UserActs, screen
  <2>2. \A m \in Loops : alive(m) => m = runLoop /\ loopIsRunning /\ pc[m] \in Stepping
    BY <2>1, SettledState
  <2>3. \A m \in Loops : alive(m) => ~isRunning'[m]
    <3> SUFFICES ASSUME NEW m \in Loops, alive(m) PROVE ~isRunning'[m]
      OBVIOUS
    <3>1. isRunning' = [isRunning EXCEPT ![m] = FALSE]
      BY <1>3, <2>2 DEF ResetBegin, requestStop
    <3> QED
      BY <3>1 DEF TypeOK
  <2> QED
    BY <2>1, <2>2, <2>3
    DEF OneAlive, EdtAlone, ResetAlone, Referenced, StartingQuiet, SteppingShown
<1>4. CASE ClickStep \/ ClickLoad
  <2>1. /\ settled /\ ui = "Run" /\ edt' \in {"step", "dialog"}
        /\ UNCHANGED <<runLoop, isRunning, pc, queue, ui>>
    BY <1>4 DEF ClickStep, ClickLoad, UserActs, screen
  <2>2. \A m \in Loops : ~alive(m)
    BY <2>1, SettledState
  <2> QED
    BY <2>1, <2>2
    DEF OneAlive, EdtAlone, ResetAlone, Referenced, StartingQuiet, SteppingShown
<1>5. CASE SelectMachine
  <2>1. settled /\ edt' = edt /\ edt = "idle" /\ UNCHANGED <<runLoop, pc, queue, ui>>
    BY <1>5 DEF SelectMachine, UserActs
  <2>2. \A m \in Loops : alive(m) => pc[m] \in Stepping
    BY <2>1, SettledState
  <2>3. \A m \in Loops : isRunning'[m] => isRunning[m]
    BY <1>5 DEF SelectMachine, requestStop, TypeOK
  <2> QED
    BY <2>1, <2>2, <2>3
    DEF OneAlive, EdtAlone, ResetAlone, Referenced, StartingQuiet, SteppingShown
<1>6. CASE keyTyped
  BY <1>6 DEF keyTyped, screen,
    OneAlive, EdtAlone, ResetAlone, Referenced, StartingQuiet, SteppingShown
<1> QED
  BY <1>1, <1>2, <1>3, <1>4, <1>5, <1>6 DEF UserNext

(* What the event dispatch thread does.                                    *)
LEMMA EdtKeepsCalm ==
  ASSUME TypeOK, Calm, EdtNext
  PROVE  Calm'
<1> USE DEF Calm, alive, Stepping, Starting, EdtStepping
<1>1. CASE ResetEnd
  BY <1>1 DEF ResetEnd,
    OneAlive, EdtAlone, ResetAlone, Referenced, StartingQuiet, SteppingShown
<1>2. CASE EdtStepCpu \/ EdtHasInput \/ EdtPop
  <2>1. /\ edt \in EdtStepping /\ edt' \in EdtStepping \cup {"idle"}
        /\ UNCHANGED <<runLoop, isRunning, pc, queue, ui>>
    BY <1>2 DEF EdtStepCpu, EdtHasInput, EdtPop, EdtStepDone, screen
  <2> QED
    BY <2>1
    DEF OneAlive, EdtAlone, ResetAlone, Referenced, StartingQuiet, SteppingShown
<1>3. CASE CloseDialog
  BY <1>3 DEF CloseDialog, screen,
    OneAlive, EdtAlone, ResetAlone, Referenced, StartingQuiet, SteppingShown
<1>4. CASE LoadEnd
  <2>1. /\ edt' = "idle" /\ UNCHANGED <<runLoop, isRunning, pc, ui>>
        /\ \A l \in Loops : ~alive(l)
    BY <1>4 DEF LoadEnd, screen, EdtAlone
  <2> QED
    BY <2>1
    DEF OneAlive, EdtAlone, ResetAlone, Referenced, StartingQuiet, SteppingShown
<1>5. CASE Dispatch
  <2>1. /\ queue # <<>> /\ queue' = Tail(queue)
        /\ UNCHANGED <<runLoop, isRunning, pc, edt>>
        /\ Head(queue).task = "didStart" => ui' = "Stop"
    BY <1>5 DEF Dispatch
  <2>2. ASSUME NEW l \in Loops, pc[l] \in Stepping \cup {"exit"}
        PROVE  queue' = <<>> /\ ui' = "Stop"
    <3>1. queue = <<didStart(l)>>
      BY <2>1, <2>2 DEF SteppingShown
    <3>2. Head(queue).task = "didStart" /\ Tail(queue) = <<>>
      BY <3>1 DEF didStart
    <3> QED
      BY <2>1, <3>2
  <2>3. \A l \in Loops : pc[l] \notin Starting
    BY <2>1 DEF StartingQuiet
  <2> QED
    BY <2>1, <2>2, <2>3
    DEF OneAlive, EdtAlone, ResetAlone, Referenced, StartingQuiet, SteppingShown
<1> QED
  BY <1>1, <1>2, <1>3, <1>4, <1>5 DEF EdtNext

(* What the thread of a run loop does.                                     *)
LEMMA LoopKeepsCalm ==
  ASSUME TypeOK, Calm, NEW l \in Loops, RunLoopNext(l)
  PROVE  Calm'
<1> USE DEF Calm, alive, Stepping, Starting, EdtStepping
<1>1. /\ alive(l) /\ \A m \in Loops : alive(m) => m = l
      /\ UNCHANGED <<runLoop, edt, ui>>
      /\ edt \notin EdtStepping \cup {"load", "dialog"}
      /\ \A m \in Loops : m # l => pc'[m] = pc[m] /\ isRunning'[m] = isRunning[m]
  <2>1. alive(l) /\ UNCHANGED <<runLoop, edt, ui>>
    BY DEF RunLoopNext, RunBegin, PostStart, StepCpu, HasInput, Pop,
           shouldContinue, PostStop, RunEnd, Goto, edtState, screen
  <2>2. \A m \in Loops : m # l => pc'[m] = pc[m] /\ isRunning'[m] = isRunning[m]
    BY DEF RunLoopNext, RunBegin, PostStart, StepCpu, HasInput, Pop,
           shouldContinue, PostStop, RunEnd, Goto, TypeOK, requestStop
  <2> QED
    BY <2>1, <2>2 DEF OneAlive, EdtAlone
<1>2. \A m \in Loops : m # l => ~alive(m)'
  BY <1>1
<1>3. CASE RunBegin(l)
  <2>1. /\ pc[l] = "started" /\ pc'[l] = "post" /\ queue' = queue
    BY <1>3 DEF RunBegin, Goto, TypeOK
  <2> QED
    BY <1>1, <1>2, <2>1
    DEF OneAlive, EdtAlone, ResetAlone, Referenced, StartingQuiet, SteppingShown
<1>4. CASE PostStart(l)
  <2>1. /\ pc[l] = "post" /\ pc'[l] = "step" /\ isRunning' = isRunning
        /\ queue' = Append(queue, didStart(l))
    BY <1>4 DEF PostStart, Goto, post, didStart, TypeOK
  <2>2. queue = <<>>
    BY <2>1 DEF StartingQuiet
  <2>3. \A x : Append(<<>>, x) = <<x>>
    OBVIOUS
  <2>4. queue' = <<didStart(l)>>
    <3> HIDE DEF Calm, alive, Stepping, Starting, EdtStepping
    <3> QED
      BY <2>1, <2>2, <2>3
  <2> QED
    BY <1>1, <1>2, <2>1, <2>4
    DEF OneAlive, EdtAlone, ResetAlone, Referenced, StartingQuiet, SteppingShown
<1>5. CASE StepCpu(l) \/ HasInput(l) \/ Pop(l) \/ shouldContinue(l)
  <2>1. /\ pc[l] \in Stepping /\ pc'[l] \in Stepping \cup {"exit", "crashed"}
        /\ isRunning' = isRunning /\ queue' = queue
    BY <1>5 DEF StepCpu, HasInput, Pop, shouldContinue, Goto, TypeOK
  <2> QED
    BY <1>1, <1>2, <2>1
    DEF OneAlive, EdtAlone, ResetAlone, Referenced, StartingQuiet, SteppingShown
<1>6. CASE PostStop(l)
  <2>1. pc[l] = "exit" /\ pc'[l] = "clear" /\ isRunning' = isRunning
    BY <1>6 DEF PostStop, Goto, TypeOK
  <2> QED
    BY <1>1, <1>2, <2>1
    DEF OneAlive, EdtAlone, ResetAlone, Referenced, StartingQuiet, SteppingShown
<1>7. CASE RunEnd(l)
  <2>1. pc[l] = "clear" /\ pc'[l] = "dead"
    BY <1>7 DEF RunEnd, Goto, TypeOK
  <2> QED
    BY <1>1, <1>2, <2>1
    DEF OneAlive, EdtAlone, ResetAlone, Referenced, StartingQuiet, SteppingShown
<1> QED
  BY <1>3, <1>4, <1>5, <1>6, <1>7 DEF RunLoopNext

LEMMA InvariantAlways == Spec => []IInv
<1>1. Init => IInv
  <2>1. Init => Calm
    BY DEF Init, Calm, alive, Stepping, Starting, EdtStepping,
       OneAlive, EdtAlone, ResetAlone, Referenced, StartingQuiet, SteppingShown
  <2> QED
    BY <2>1, TypeInit DEF IInv
<1>2. IInv /\ [Next]_vars => IInv'
  <2> SUFFICES ASSUME IInv, [Next]_vars, ~hasty' PROVE Calm'
    BY TypeStep DEF IInv
  <2>1. ~hasty
    <3>1. TypeOK
      BY DEF IInv
    <3> QED
      BY <3>1 DEF Next, UserNext, EdtNext, RunLoopNext, vars, UserActs,
        handleStart, handleStop, ResetBegin, ClickStep, ClickLoad, SelectMachine,
        keyTyped, ResetEnd, EdtStepCpu, EdtHasInput, EdtPop, CloseDialog, LoadEnd,
        Dispatch, RunBegin, PostStart, StepCpu, HasInput, Pop, shouldContinue,
        PostStop, RunEnd
  <2>2. TypeOK /\ Calm
    BY <2>1 DEF IInv
  <2>3. CASE UNCHANGED vars
    BY <2>2, <2>3 DEF vars, Calm, alive,
       OneAlive, EdtAlone, ResetAlone, Referenced, StartingQuiet, SteppingShown
  <2> QED
    BY <2>2, <2>3, UserKeepsCalm, EdtKeepsCalm, LoopKeepsCalm DEF Next
<1> QED
  BY <1>1, <1>2, PTL DEF Spec

-----------------------------------------------------------------------------
(* For a user who lets the controls settle at most one thread uses the     *)
(* machine, however many loops were started before.                        *)
THEOREM OneUserCorrect == Spec => []OneMachineUser
<1>1. IInv => OneMachineUser
  <2> SUFFICES ASSUME TypeOK, Calm PROVE Cardinality(MachineUsers) <= 1
    BY DEF IInv, OneMachineUser
  <2>1. \A x, y \in MachineUsers : x = y
    BY DEF MachineUsers, Calm, OneAlive, EdtAlone, alive, Stepping, EdtStepping
  <2>2. CASE MachineUsers = {}
    BY <2>2, FS_EmptySet
  <2>3. CASE MachineUsers # {}
    <3>1. PICK x : MachineUsers = {x}
      BY <2>1, <2>3
    <3> QED
      BY <3>1, FS_Singleton
  <2> QED
    BY <2>2, <2>3
<1> QED
  BY <1>1, InvariantAlways, PTL

(* For such a user every running loop can be stopped.                      *)
THEOREM NoOrphanCorrect == Spec => []NoOrphan
<1>1. IInv => NoOrphan
  BY DEF IInv, NoOrphan, Calm, Referenced, Live
<1> QED
  BY <1>1, InvariantAlways, PTL

(* For such a user the button shows that a loop is stepping.               *)
THEOREM ControlsCorrect == Spec => []ControlsTrackLoop
<1>1. IInv => ControlsTrackLoop
  <2> SUFFICES ASSUME Calm, NEW l \in Loops, Reported(l)
               PROVE  ui = "Stop"
    BY DEF IInv, ControlsTrackLoop
  <2>1. queue # <<didStart(l)>>
    <3>1. ASSUME queue = <<didStart(l)>>
          PROVE  1 \in DOMAIN queue /\ queue[1] = didStart(l)
      BY <3>1
    <3> QED
      BY <3>1 DEF Reported, didStart
  <2> QED
    BY <2>1 DEF Calm, SteppingShown, Reported
<1> QED
  BY <1>1, InvariantAlways, PTL

-----------------------------------------------------------------------------
(* Any user.  The reports of all loops go through one queue, and each loop *)
(* ends with the report that it stopped; so what the button shows and what *)
(* waits in the queue is always followed by a "did stop", unless a loop is *)
(* still to make it, or crashed before it could.                           *)

Owing == Stepping \cup {"exit", "crashed"}

StopFollows ==
  /\ ui = "Stop" => \E j \in DOMAIN queue : queue[j].task = "didStop"
  /\ \A i \in DOMAIN queue : queue[i].task = "didStart" =>
       \E j \in DOMAIN queue : i < j /\ queue[j].task = "didStop"

Accounted == StopFollows \/ \E m \in Loops : pc[m] \in Owing

(* What a Runnable posted at the end, and one taken from the front, do to  *)
(* the rest of the queue.                                                  *)
LEMMA QueueEnds ==
  ASSUME TypeOK, NEW t \in Tasks
  PROVE  /\ DOMAIN queue = 1 .. Len(queue) /\ Len(queue) \in Nat
         /\ DOMAIN Append(queue, t) = 1 .. Len(queue) + 1
         /\ Append(queue, t)[Len(queue) + 1] = t
         /\ \A i \in DOMAIN queue : Append(queue, t)[i] = queue[i]
         /\ queue # <<>> => /\ DOMAIN Tail(queue) = 1 .. Len(queue) - 1
                            /\ Head(queue) = queue[1] /\ 1 \in DOMAIN queue
                            /\ \A i \in DOMAIN Tail(queue) : Tail(queue)[i] = queue[i + 1]
  BY DEF TypeOK

LEMMA AppendFollows ==
  ASSUME TypeOK, StopFollows, UNCHANGED ui, NEW t \in Tasks, t.task # "didStart",
         queue' = Append(queue, t)
  PROVE  StopFollows'
  BY QueueEnds DEF StopFollows

LEMMA ReportFollows ==
  ASSUME TypeOK, UNCHANGED ui, NEW t \in Tasks, t.task = "didStop",
         queue' = Append(queue, t)
  PROVE  StopFollows'
<1>1. /\ DOMAIN queue' = 1 .. Len(queue) + 1 /\ Len(queue) \in Nat
      /\ queue'[Len(queue) + 1].task = "didStop"
  BY QueueEnds
<1> QED
  BY <1>1 DEF StopFollows

LEMMA DispatchFollows ==
  ASSUME TypeOK, StopFollows, Dispatch
  PROVE  StopFollows'
<1>1. /\ queue # <<>> /\ queue' = Tail(queue)
      /\ ui' = CASE Head(queue).task = "didStart" -> "Stop"
                 [] Head(queue).task = "didStop"  -> "Run"
                 [] OTHER -> ui
  BY DEF Dispatch
<1>2. /\ DOMAIN queue = 1 .. Len(queue) /\ Len(queue) \in Nat
      /\ DOMAIN queue' = 1 .. Len(queue) - 1
      /\ Head(queue) = queue[1] /\ 1 \in DOMAIN queue
      /\ \A i \in DOMAIN queue' : queue'[i] = queue[i + 1]
  <2>1. \A l \in Loops : didStart(l) \in Tasks
    BY DEF didStart, Tasks
  <2>2. [task |-> "consoleReset", loop |-> NoLoop] \in Tasks
    BY DEF Tasks
  <2> QED
    BY <1>1, <2>2, QueueEnds
<1>3. ASSUME ui' = "Stop"
      PROVE  \E j \in DOMAIN queue' : queue'[j].task = "didStop"
  <2>1. PICK j \in DOMAIN queue : j # 1 /\ queue[j].task = "didStop"
    <3>1. CASE queue[1].task = "didStart"
      BY <1>2, <3>1 DEF StopFollows
    <3>2. CASE queue[1].task # "didStart"
      <4>1. queue[1].task # "didStop" /\ ui = "Stop"
        BY <1>1, <1>2, <1>3, <3>2
      <4> QED
        BY <4>1 DEF StopFollows
    <3> QED
      BY <3>1, <3>2
  <2>2. j - 1 \in DOMAIN queue' /\ queue'[j - 1] = queue[j]
    BY <1>2, <2>1
  <2> QED
    BY <2>1, <2>2
<1>4. ASSUME NEW i \in DOMAIN queue', queue'[i].task = "didStart"
      PROVE  \E j \in DOMAIN queue' : i < j /\ queue'[j].task = "didStop"
  <2>1. PICK j \in DOMAIN queue : i + 1 < j /\ queue[j].task = "didStop"
    BY <1>2, <1>4 DEF StopFollows
  <2>2. j - 1 \in DOMAIN queue' /\ queue'[j - 1] = queue[j] /\ i < j - 1
    BY <1>2, <2>1
  <2> QED
    BY <2>1, <2>2
<1> QED
  BY <1>3, <1>4 DEF StopFollows

(* Only a loop's last report ends what it owes.                            *)
LEMMA AccountedStep ==
  ASSUME TypeOK, Accounted, [Next]_vars
  PROVE  Accounted'
<1>1. CASE UNCHANGED <<pc, queue, ui>>
  BY <1>1 DEF Accounted, StopFollows
<1>2. CASE handleStart
  <2>1. /\ UNCHANGED <<queue, ui>>
        /\ \E l \in Loops : pc[l] = "new" /\ pc' = [pc EXCEPT ![l] = "started"]
    BY <1>2 DEF handleStart
  <2>2. \A m \in Loops : pc[m] \in Owing => pc'[m] \in Owing
    BY <2>1 DEF TypeOK, Owing, Stepping
  <2> QED
    BY <2>1, <2>2 DEF Accounted, StopFollows
<1>3. CASE LoadEnd
  <2>1. UNCHANGED <<pc, ui>>
    BY <1>3 DEF LoadEnd, screen
  <2>2. CASE queue' = Append(queue, [task |-> "consoleReset", loop |-> NoLoop])
    <3>1. [task |-> "consoleReset", loop |-> NoLoop] \in Tasks
      BY DEF Tasks
    <3> QED
      BY <2>1, <2>2, <3>1, AppendFollows DEF Accounted
  <2> QED
    BY <1>1, <1>3, <2>1, <2>2 DEF LoadEnd
<1>4. CASE Dispatch
  <2>1. UNCHANGED pc
    BY <1>4 DEF Dispatch
  <2> QED
    BY <1>4, <2>1, DispatchFollows DEF Accounted
<1>5. ASSUME NEW l \in Loops, RunLoopNext(l)
      PROVE  Accounted'
  <2>1. CASE PostStart(l)
    <3>1. pc'[l] = "step"
      BY <2>1 DEF PostStart, Goto, TypeOK
    <3> QED
      BY <3>1 DEF Accounted, Owing, Stepping
  <2>2. CASE PostStop(l)
    <3>1. /\ [task |-> "didStop", loop |-> l] \in Tasks /\ UNCHANGED ui
          /\ queue' = Append(queue, [task |-> "didStop", loop |-> l])
      BY <2>2 DEF PostStop, post, Tasks, screen
    <3> QED
      BY <3>1, ReportFollows DEF Accounted
  <2>3. CASE RunBegin(l) \/ StepCpu(l) \/ HasInput(l) \/ Pop(l)
               \/ shouldContinue(l) \/ RunEnd(l)
    <3>1. UNCHANGED <<queue, ui>>
      BY <2>3 DEF RunBegin, StepCpu, HasInput, Pop, shouldContinue, RunEnd, screen
    <3>2. /\ \A m \in Loops : m # l => pc'[m] = pc[m]
          /\ pc[l] \in Owing => pc'[l] \in Owing
      BY <2>3 DEF RunBegin, StepCpu, HasInput, Pop, shouldContinue, RunEnd, Goto,
                  TypeOK, Owing, Stepping
    <3> QED
      BY <3>1, <3>2 DEF Accounted, StopFollows
  <2> QED
    BY <1>5, <2>1, <2>2, <2>3 DEF RunLoopNext
<1>6. ASSUME \/ handleStop \/ ResetBegin \/ ClickStep \/ ClickLoad \/ SelectMachine
             \/ keyTyped \/ ResetEnd \/ EdtStepCpu \/ EdtHasInput \/ EdtPop
             \/ CloseDialog \/ UNCHANGED vars
      PROVE  UNCHANGED <<pc, queue, ui>>
  BY <1>6 DEF handleStop, ResetBegin, ClickStep, ClickLoad, SelectMachine, keyTyped,
    ResetEnd, EdtStepCpu, EdtHasInput, EdtPop, CloseDialog, screen, vars
<1> QED
  BY <1>1, <1>2, <1>3, <1>4, <1>5, <1>6 DEF Next, UserNext, EdtNext

(* However hastily the controls were used: when every loop has ended in    *)
(* the regular way and its reports are served, the button shows "Run".     *)
THEOREM SettleCorrect == Spec => []ControlsSettle
<1>1. Init => Accounted
  BY DEF Init, Accounted, StopFollows
<1>2. TypeOK /\ Accounted => ControlsSettle
  BY DEF TypeOK, Accounted, StopFollows, ControlsSettle, Live, Crashed, alive, Owing,
         Stepping, Points
<1> QED
  BY <1>1, <1>2, TypeInit, TypeStep, AccountedStep, PTL DEF Spec

-----------------------------------------------------------------------------
(* The trace window.  A disabled text area, or one that is behind, is      *)
(* never forgotten: a loop still owes its last report, which redraws the   *)
(* window, or that report waits in the queue; or, with the text enabled,   *)
(* the EDT is stepping or an update waits.                                 *)

WillReport == \/ \E j \in DOMAIN queue : queue[j].task = "didStop"
              \/ \E m \in Loops : pc[m] \in Starting \cup Owing

TraceInv ==
  /\ ~tracing => WillReport
  /\ trace = "behind" => WillReport \/ edt \in EdtStepping \/ update

(* The trace window adds to the steps of the run control and hinders none  *)
(* of its invariants.                                                      *)
LEMMA TraceImplements == [TraceNext]_traceLog => [Next]_vars
  BY DEF TraceNext, traceLog, TraceStart, TraceReset, TraceStepCpu, TraceStepRest,
    TraceLoad, TraceDispose, TraceDispatch, Update, ToggleTraceWindow, LoopStepCpu,
    LoopStepRest, Elsewhere, Next, UserNext, EdtNext, RunLoopNext

LEMMA WillReportAppend ==
  ASSUME TypeOK, NEW t \in Tasks, queue' = Append(queue, t),
         \E j \in DOMAIN queue : queue[j].task = "didStop"
  PROVE  WillReport'
  BY QueueEnds DEF WillReport

LEMMA WillReportStarts ==
  ASSUME TypeOK, handleStart \/ \E l \in Loops : StepCpu(l)
  PROVE  WillReport'
<1>1. \E l \in Loops : pc'[l] \in Starting \cup Owing
  BY DEF handleStart, StepCpu, Goto, TypeOK, Starting, Owing, Stepping
<1> QED
  BY <1>1 DEF WillReport

LEMMA WillReportDispatch ==
  ASSUME TypeOK, WillReport, Dispatch, Head(queue).task # "didStop"
  PROVE  WillReport'
<1>1. UNCHANGED pc /\ queue # <<>> /\ queue' = Tail(queue)
  BY DEF Dispatch
<1>2. /\ DOMAIN queue = 1 .. Len(queue) /\ Len(queue) \in Nat
      /\ DOMAIN queue' = 1 .. Len(queue) - 1
      /\ Head(queue) = queue[1]
      /\ \A i \in DOMAIN queue' : queue'[i] = queue[i + 1]
  <2>1. [task |-> "consoleReset", loop |-> NoLoop] \in Tasks
    BY DEF Tasks
  <2> QED
    BY <1>1, <2>1, QueueEnds
<1>3. ASSUME NEW j \in DOMAIN queue, queue[j].task = "didStop"
      PROVE  WillReport'
  <2>1. j - 1 \in DOMAIN queue' /\ queue'[j - 1] = queue[j]
    BY <1>2, <1>3
  <2> QED
    BY <1>3, <2>1 DEF WillReport
<1> QED
  BY <1>1, <1>3 DEF WillReport

(* Everything but running a Runnable.                                      *)
Undispatched ==
  \/ UserNext \/ ResetEnd \/ EdtStepCpu \/ EdtHasInput \/ EdtPop \/ CloseDialog
  \/ LoadEnd \/ \E l \in Loops : RunLoopNext(l)
  \/ UNCHANGED vars

LEMMA WillReportStays ==
  ASSUME TypeOK, WillReport, Undispatched
  PROVE  WillReport'
<1>1. CASE UNCHANGED <<pc, queue>>
  BY <1>1 DEF WillReport
<1>2. CASE handleStart
  BY <1>2, WillReportStarts
<1>3. CASE LoadEnd
  <2>1. UNCHANGED pc
    BY <1>3 DEF LoadEnd
  <2>2. CASE queue' = Append(queue, [task |-> "consoleReset", loop |-> NoLoop])
    <3>1. [task |-> "consoleReset", loop |-> NoLoop] \in Tasks
      BY DEF Tasks
    <3> QED
      BY <2>1, <2>2, <3>1, WillReportAppend DEF WillReport
  <2> QED
    BY <1>1, <1>3, <2>1, <2>2 DEF LoadEnd
<1>4. ASSUME NEW l \in Loops, RunLoopNext(l)
      PROVE  WillReport'
  <2>1. CASE RunBegin(l) \/ PostStart(l) \/ StepCpu(l) \/ HasInput(l) \/ Pop(l)
               \/ shouldContinue(l)
    <3>1. pc'[l] \in Starting \cup Owing
      BY <2>1 DEF RunBegin, PostStart, StepCpu, HasInput, Pop, shouldContinue, Goto,
                  TypeOK, Starting, Owing, Stepping
    <3> QED
      BY <3>1 DEF WillReport
  <2>2. CASE PostStop(l)
    <3>1. /\ [task |-> "didStop", loop |-> l] \in Tasks
          /\ queue' = Append(queue, [task |-> "didStop", loop |-> l])
      BY <2>2 DEF PostStop, post, Tasks
    <3>2. /\ Len(queue) + 1 \in DOMAIN queue'
          /\ queue'[Len(queue) + 1].task = "didStop"
      BY <3>1, QueueEnds
    <3> QED
      BY <3>2 DEF WillReport
  <2>3. CASE RunEnd(l)
    <3>1. /\ UNCHANGED queue
          /\ pc[l] = "clear" /\ pc' = [pc EXCEPT ![l] = "dead"]
      BY <2>3 DEF RunEnd, Goto
    <3>2. \A m \in Loops : pc[m] \in Starting \cup Owing => pc'[m] = pc[m]
      BY <3>1 DEF TypeOK, Starting, Owing, Stepping
    <3> QED
      BY <3>1, <3>2 DEF WillReport
  <2> QED
    BY <1>4, <2>1, <2>2, <2>3 DEF RunLoopNext
<1>5. ASSUME \/ handleStop \/ ResetBegin \/ ClickStep \/ ClickLoad \/ SelectMachine
             \/ keyTyped \/ ResetEnd \/ EdtStepCpu \/ EdtHasInput \/ EdtPop
             \/ CloseDialog \/ UNCHANGED vars
      PROVE  UNCHANGED <<pc, queue>>
  BY <1>5 DEF handleStop, ResetBegin, ClickStep, ClickLoad, SelectMachine, keyTyped,
    ResetEnd, EdtStepCpu, EdtHasInput, EdtPop, CloseDialog, vars
<1> QED
  BY <1>1, <1>2, <1>3, <1>4, <1>5 DEF Undispatched, UserNext

LEMMA TraceStep ==
  ASSUME TypeOK, TraceInv, [TraceNext]_traceLog
  PROVE  TraceInv'
<1>1. CASE WillReport'
  BY <1>1 DEF TraceInv
<1>2. CASE TraceStart
  BY <1>1, <1>2, WillReportStarts DEF TraceStart
<1>3. CASE TraceDispatch
  <2>1. Dispatch /\ UNCHANGED <<edt, update>>
    BY <1>3 DEF TraceDispatch, Dispatch
  <2>2. CASE Head(queue).task = "didStop"
    BY <1>3, <2>2 DEF TraceDispatch, refresh, isVisible, TraceInv
  <2>3. CASE Head(queue).task # "didStop"
    <3>1. UNCHANGED <<tracing, trace>>
      BY <1>3, <2>3 DEF TraceDispatch
    <3>2. CASE WillReport
      BY <1>1, <2>1, <2>3, <3>2, WillReportDispatch
    <3> QED
      BY <2>1, <3>1, <3>2 DEF TraceInv
  <2> QED
    BY <2>2, <2>3
<1>4. ASSUME NEW l \in Loops, LoopStepCpu(l)
      PROVE  TraceInv'
  BY <1>1, <1>4, WillReportStarts DEF LoopStepCpu
<1>5. ASSUME \/ TraceReset \/ TraceStepCpu \/ TraceStepRest \/ TraceLoad
             \/ TraceDispose \/ Update \/ ToggleTraceWindow
             \/ (\E l \in Loops : LoopStepRest(l)) \/ Elsewhere
             \/ UNCHANGED traceLog
      PROVE  TraceInv'
  <2>1. Undispatched
    BY <1>5 DEF Undispatched, UserNext, RunLoopNext, TraceReset, TraceStepCpu,
      TraceStepRest, TraceLoad, TraceDispose, Update, ToggleTraceWindow, LoopStepRest,
      Elsewhere, traceLog
  <2> SUFFICES ASSUME ~WillReport
               PROVE  TraceInv'
    BY <1>1, <2>1, WillReportStays
  <2>2. tracing /\ (trace = "behind" => edt \in EdtStepping \/ update)
    BY DEF TraceInv
  <2>3. CASE TraceReset \/ Update \/ ToggleTraceWindow \/ TraceDispose
    BY <2>2, <2>3 DEF TraceReset, Update, ToggleTraceWindow, TraceDispose, refresh,
      isVisible, TraceInv
  <2>4. CASE TraceStepCpu
    BY <2>2, <2>4 DEF TraceStepCpu, EdtStepCpu, append, stepFailed, EdtStepping, TraceInv
  <2>5. CASE TraceStepRest
    <3>1. /\ UNCHANGED tracing
          /\ \/ trace' # "behind"
             \/ /\ UNCHANGED trace
                /\ \/ edt' = "pop"
                   \/ edt' = "step"
                   \/ edt' = "idle" /\ update'
      BY <2>5 DEF TraceStepRest, stepFailed, EdtHasInput, EdtPop, EdtStepDone
    <3> QED
      BY <2>2, <3>1 DEF EdtStepping, TraceInv
  <2>6. CASE TraceLoad
    BY <2>2, <2>6 DEF TraceLoad, LoadEnd, mayUpdate, EdtStepping, TraceInv
  <2>7. ASSUME NEW l \in Loops, LoopStepRest(l)
        PROVE  TraceInv'
    <3>1. UNCHANGED <<edt, tracing, trace>> /\ (update => update')
      BY <2>7 DEF LoopStepRest, HasInput, Pop, edtState, mayUpdate
    <3> QED
      BY <2>2, <3>1 DEF TraceInv
  <2>8. CASE Elsewhere
    <3>1. UNCHANGED traceVars /\ (edt \in EdtStepping => edt' = edt)
      BY <2>8 DEF Elsewhere, handleStop, ResetBegin, ClickStep, ClickLoad, keyTyped,
        CloseDialog, RunBegin, PostStart, shouldContinue, PostStop, RunEnd, edtState,
        UserActs, EdtStepping
    <3> QED
      BY <2>2, <3>1 DEF traceVars, TraceInv
  <2>9. CASE UNCHANGED traceLog
    BY <2>2, <2>9 DEF traceLog, vars, TraceInv
  <2> QED
    BY <1>5, <2>3, <2>4, <2>5, <2>6, <2>7, <2>8, <2>9
<1> QED
  BY <1>2, <1>3, <1>4, <1>5 DEF TraceNext

(* For every user, also the hasty one: when the threads, the handlers and  *)
(* the Runnables are done, a visible trace window shows every step.        *)
THEOREM TraceCorrect == TraceSpec => []TraceShown
<1>1. TraceInit => TypeOK /\ TraceInv
  BY TypeInit DEF TraceInit, TraceInv
<1>2. TypeOK /\ TraceInv /\ [TraceNext]_traceLog => (TypeOK /\ TraceInv)'
  BY TraceImplements, TypeStep, TraceStep
<1>3. TypeOK /\ TraceInv => TraceShown
  BY DEF TypeOK, TraceInv, TraceShown, WillReport, Live, Crashed, alive, Starting, Owing,
    Stepping, EdtStepping
<1> QED
  BY <1>1, <1>2, <1>3, PTL DEF TraceSpec
===============================================================================
