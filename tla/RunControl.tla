----------------------------- MODULE RunControl -----------------------------
(***************************************************************************)
(* Run control of the Symon simulator (Simulator.java): the Swing event    *)
(* dispatch thread (EDT) that handles buttons and menus, the RunLoop       *)
(* threads it starts, the invokeLater queue through which a RunLoop        *)
(* reports back to the controls, and the console's type-ahead buffer that  *)
(* both sides touch without a lock.  What the handlers do to the trace     *)
(* window is added by module TraceWindow.                                  *)
(*                                                                         *)
(* One RunLoop object is one member of Loops; it is used at most once, as  *)
(* in the code.  isRunning is a plain field, but every iteration of the    *)
(* loop enters a monitor (TraceLog.append), so that each iteration reads   *)
(* it afresh: it is modelled as sequentially consistent.                   *)
(***************************************************************************)
EXTENDS Naturals, Sequences, FiniteSets

CONSTANTS
  Loops,         (* the RunLoop objects that may be created: a bound       *)
  NoLoop,        (* the null reference                                     *)
  MaxTypeAhead,  (* capacity of the console's FifoRingBuffer (128)         *)
  StepCounts,    (* the counts the step drop-down offers (1 .. 100)        *)
  MaxQueue       (* bound: no load is started on a longer invokeLater queue*)

ASSUME RunControlAssumption ==
  /\ NoLoop \notin Loops
  /\ MaxTypeAhead \in Nat \ {0}
  /\ StepCounts \subseteq Nat \ {0}
  /\ MaxQueue \in Nat \ {0}

VARIABLES
  runLoop,     (* Simulator.runLoop                                        *)
  isRunning,   (* RunLoop.isRunning of every loop                          *)
  pc,          (* where every RunLoop thread is                            *)
  edt,         (* what the EDT is doing                                    *)
  stepsLeft,   (* steps the current handleStep still has to make           *)
  queue,       (* Runnables posted with SwingUtilities.invokeLater         *)
  ui,          (* text of the run/stop button; with "Run" the step button  *)
               (* and the load items are enabled, with "Stop" disabled     *)
  typeAhead,   (* number of keys in Console.typeAheadBuffer                *)
  closed,      (* the windows were disposed by "Switch emulated machine"   *)
  hasty        (* history: a control was used while the EDT and the loops  *)
               (* had not settled after the previous use                   *)

vars == <<runLoop, isRunning, pc, edt, stepsLeft, queue, ui, typeAhead,
          closed, hasty>>

(* The windows, and the EDT's place in its handler.                        *)
screen   == <<ui, closed>>
edtState == <<edt, stepsLeft>>

(* Points of RunLoop.run: "step" is inside Cpu.step, "input" before        *)
(* console.hasInput, "pop" before console.readInputChar, "check" before    *)
(* shouldContinue.                                                         *)
Stepping == {"step", "input", "pop", "check"}
Points   == {"new", "started", "post"} \cup Stepping
              \cup {"exit", "clear", "dead", "crashed"}

(* What the EDT does: nothing, one of the phases of step(), a reset, the   *)
(* modal file chooser, or the load that follows it.                        *)
EdtStepping == {"step", "input", "pop"}
EdtStates   == {"idle", "reset", "dialog", "load"} \cup EdtStepping

Tasks == [task : {"didStart", "didStop"}, loop : Loops]
           \cup [task : {"consoleReset"}, loop : {NoLoop}]

alive(l) == pc[l] \notin {"new", "dead", "crashed"}

(* A user who lets the controls settle acts only in such a state: nothing  *)
(* is queued and a live loop is stepping and has not been told to stop.    *)
settled == /\ queue = <<>>
           /\ \A l \in Loops : alive(l) => pc[l] \in Stepping /\ isRunning[l]

Init ==
  /\ runLoop = NoLoop
  /\ isRunning = [l \in Loops |-> FALSE]
  /\ pc = [l \in Loops |-> "new"]
  /\ edt = "idle"
  /\ queue = <<>>
  /\ ui = "Run"
  /\ stepsLeft = 0
  /\ typeAhead = 0
  /\ closed = FALSE
  /\ hasty = FALSE

-----------------------------------------------------------------------------
(* Handlers of the EDT.                                                    *)

UserActs == /\ edt = "idle"
            /\ ~closed
            /\ hasty' = (hasty \/ ~settled)

loopIsRunning == runLoop # NoLoop /\ isRunning[runLoop]

requestStop(l) == isRunning' = [isRunning EXCEPT ![l] = FALSE]

(* Mutant: Run pressed on a running loop starts another one.               *)
handleStartUnguarded ==
  /\ UserActs
  /\ \E l \in Loops : /\ pc[l] = "new"
                      /\ runLoop' = l
                      /\ pc' = [pc EXCEPT ![l] = "started"]
  /\ UNCHANGED <<isRunning, edt, stepsLeft, queue, ui, typeAhead, closed>>

handleStart ==
  /\ UserActs
  /\ ~loopIsRunning
  /\ \E l \in Loops : /\ pc[l] = "new"
                      /\ runLoop' = l
                      /\ pc' = [pc EXCEPT ![l] = "started"]
  /\ UNCHANGED <<isRunning, edt, stepsLeft, queue, ui, typeAhead, closed>>

handleStop ==
  /\ UserActs
  /\ loopIsRunning
  /\ requestStop(runLoop)
  /\ runLoop' = NoLoop
  /\ UNCHANGED <<pc, edt, stepsLeft, queue, screen, typeAhead>>

(* handleReset stops a running loop but does not wait for its thread.      *)
ResetBegin ==
  /\ UserActs
  /\ IF loopIsRunning
     THEN requestStop(runLoop) /\ runLoop' = NoLoop
     ELSE UNCHANGED <<isRunning, runLoop>>
  /\ edt' = "reset"
  /\ UNCHANGED <<pc, stepsLeft, queue, screen, typeAhead>>

ResetEnd ==
  /\ edt = "reset"
  /\ edt' = "idle"
  /\ typeAhead' = 0
  /\ UNCHANGED <<runLoop, isRunning, pc, stepsLeft, queue, ui, closed, hasty>>

(* Mutant: the step button is not disabled.                                *)
ClickStepAlways ==
  /\ UserActs
  /\ edt' = "step"
  /\ stepsLeft' \in StepCounts
  /\ UNCHANGED <<runLoop, isRunning, pc, queue, screen, typeAhead>>

ClickStep ==
  /\ UserActs
  /\ ui = "Run"
  /\ edt' = "step"
  /\ stepsLeft' \in StepCounts
  /\ UNCHANGED <<runLoop, isRunning, pc, queue, screen, typeAhead>>

(* One iteration of handleStep is over: the next one, or the handler ends. *)
EdtStepDone == edt' = IF stepsLeft' > 0 THEN "step" ELSE "idle"

(* Cpu.step on the EDT; a SymonException ends the handler.                 *)
EdtStepCpu ==
  /\ edt = "step"
  /\ \/ edt' = "input" /\ stepsLeft' = stepsLeft - 1
     \/ edt' = "idle"  /\ stepsLeft' = 0
  /\ UNCHANGED <<runLoop, isRunning, pc, queue, screen, typeAhead, hasty>>

EdtHasInput ==
  /\ edt = "input"
  /\ UNCHANGED stepsLeft
  /\ IF typeAhead > 0 THEN edt' = "pop" ELSE EdtStepDone
  /\ UNCHANGED <<runLoop, isRunning, pc, queue, screen, typeAhead, hasty>>

(* On an empty buffer LinkedList.remove throws NoSuchElementException,     *)
(* which ends the handler; the EDT itself survives.                        *)
EdtPop ==
  /\ edt = "pop"
  /\ \/ /\ typeAhead > 0
        /\ typeAhead' = typeAhead - 1
        /\ UNCHANGED stepsLeft
        /\ EdtStepDone
     \/ /\ typeAhead = 0
        /\ stepsLeft' = 0
        /\ edt' = "idle"
        /\ UNCHANGED typeAhead
  /\ UNCHANGED <<runLoop, isRunning, pc, queue, screen, hasty>>

(* Load Program and Load ROM: the modal chooser keeps serving the queue.   *)
ClickLoad ==
  /\ UserActs
  /\ ui = "Run"
  /\ Len(queue) < MaxQueue
  /\ edt' = "dialog"
  /\ UNCHANGED <<runLoop, isRunning, pc, stepsLeft, queue, screen, typeAhead>>

CloseDialog ==
  /\ edt = "dialog"
  /\ edt' \in {"load", "idle"}
  /\ UNCHANGED <<runLoop, isRunning, pc, stepsLeft, queue, screen, typeAhead, hasty>>

(* A loaded program posts a console reset; a ROM, or a failure, does not.  *)
LoadEnd ==
  /\ edt = "load"
  /\ edt' = "idle"
  /\ \/ queue' = Append(queue, [task |-> "consoleReset", loop |-> NoLoop])
     \/ UNCHANGED queue
  /\ UNCHANGED <<runLoop, isRunning, pc, stepsLeft, screen, typeAhead, hasty>>

(* SelectMachineAction: the stop is requested whether or not the loop has  *)
(* already set isRunning, and the loop stays referenced.                   *)
SelectMachine ==
  /\ UserActs
  /\ IF runLoop # NoLoop THEN requestStop(runLoop) ELSE UNCHANGED isRunning
  /\ closed' = TRUE
  /\ UNCHANGED <<runLoop, pc, edt, stepsLeft, queue, ui, typeAhead>>

(* Console.keyTyped: a full buffer drops its oldest key, which leaves the  *)
(* number of keys as it is.                                                *)
keyTyped ==
  /\ edt = "idle"
  /\ ~closed
  /\ typeAhead < MaxTypeAhead
  /\ typeAhead' = typeAhead + 1
  /\ UNCHANGED <<runLoop, isRunning, pc, edt, stepsLeft, queue, screen, hasty>>

(* The EDT runs the oldest Runnable: the button changes with               *)
(* menuBar.simulatorDidStart, those with simulatorDidStop, or the console  *)
(* reset that follows a load.                                              *)
Dispatch ==
  /\ edt \in {"idle", "dialog"}
  /\ queue # <<>>
  /\ queue' = Tail(queue)
  /\ LET task == Head(queue).task
     IN  /\ ui' = CASE task = "didStart" -> "Stop"
                    [] task = "didStop"  -> "Run"
                    [] OTHER -> ui
         /\ typeAhead' = IF task = "consoleReset" THEN 0 ELSE typeAhead
  /\ UNCHANGED <<runLoop, isRunning, pc, edt, stepsLeft, closed, hasty>>

-----------------------------------------------------------------------------
(* RunLoop.run, one thread per loop.                                       *)

Goto(l, from, to) == pc[l] = from /\ pc' = [pc EXCEPT ![l] = to]

post(t, l) == queue' = Append(queue, [task |-> t, loop |-> l])

RunBegin(l) ==
  /\ Goto(l, "started", "post")
  /\ isRunning' = [isRunning EXCEPT ![l] = TRUE]
  /\ UNCHANGED <<runLoop, edtState, queue, screen, typeAhead, hasty>>

(* Mutant: the loop does not report that it runs.                          *)
PostStartForgotten(l) ==
  /\ Goto(l, "post", "step")
  /\ UNCHANGED <<runLoop, isRunning, edtState, queue, screen, typeAhead, hasty>>

PostStart(l) ==
  /\ Goto(l, "post", "step")
  /\ post("didStart", l)
  /\ UNCHANGED <<runLoop, isRunning, edtState, screen, typeAhead, hasty>>

(* Mutant: a SymonException leaves run() without the final report.         *)
StepCpuNoReport(l) ==
  /\ Goto(l, "step", "input") \/ Goto(l, "step", "dead")
  /\ UNCHANGED <<runLoop, isRunning, edtState, queue, screen, typeAhead, hasty>>

(* Cpu.step and the trace log; a SymonException ends the loop.             *)
StepCpu(l) ==
  /\ Goto(l, "step", "input") \/ Goto(l, "step", "exit")
  /\ UNCHANGED <<runLoop, isRunning, edtState, queue, screen, typeAhead, hasty>>

HasInput(l) ==
  /\ IF typeAhead > 0 THEN Goto(l, "input", "pop") ELSE Goto(l, "input", "check")
  /\ UNCHANGED <<runLoop, isRunning, edtState, queue, screen, typeAhead, hasty>>

(* NoSuchElementException is no SymonException: the thread dies in run().  *)
Pop(l) ==
  /\ IF typeAhead > 0
     THEN Goto(l, "pop", "check") /\ typeAhead' = typeAhead - 1
     ELSE Goto(l, "pop", "crashed") /\ UNCHANGED typeAhead
  /\ UNCHANGED <<runLoop, isRunning, edtState, queue, screen, hasty>>

(* Mutant: a loop looks only at breakpoints and BRK, not at isRunning.     *)
shouldContinueRegardless(l) ==
  /\ Goto(l, "check", "exit") \/ Goto(l, "check", "step")
  /\ UNCHANGED <<runLoop, isRunning, edtState, queue, screen, typeAhead, hasty>>

(* A breakpoint or a halt on BRK may end the loop at any time.             *)
shouldContinue(l) ==
  /\ Goto(l, "check", "exit") \/ (isRunning[l] /\ Goto(l, "check", "step"))
  /\ UNCHANGED <<runLoop, isRunning, edtState, queue, screen, typeAhead, hasty>>

PostStop(l) ==
  /\ Goto(l, "exit", "clear")
  /\ post("didStop", l)
  /\ UNCHANGED <<runLoop, isRunning, edtState, screen, typeAhead, hasty>>

RunEnd(l) ==
  /\ Goto(l, "clear", "dead")
  /\ requestStop(l)
  /\ UNCHANGED <<runLoop, edtState, queue, screen, typeAhead, hasty>>

-----------------------------------------------------------------------------
UserNext == \/ handleStart \/ handleStop \/ ResetBegin \/ ClickStep
            \/ ClickLoad \/ SelectMachine \/ keyTyped

EdtNext == \/ ResetEnd \/ EdtStepCpu \/ EdtHasInput \/ EdtPop
           \/ CloseDialog \/ LoadEnd \/ Dispatch

RunLoopNext(l) == \/ RunBegin(l) \/ PostStart(l) \/ StepCpu(l) \/ HasInput(l)
                  \/ Pop(l) \/ shouldContinue(l) \/ PostStop(l) \/ RunEnd(l)

Next == UserNext \/ EdtNext \/ \E l \in Loops : RunLoopNext(l)

(* Threads keep running, the EDT finishes its handlers, and its event      *)
(* queue is served in order, so that a stream of user events cannot hold   *)
(* back a Runnable for ever; nothing obliges the user to act.              *)
Fairness == /\ \A l \in Loops : WF_vars(RunLoopNext(l))
            /\ WF_vars(EdtNext)
            /\ SF_vars(Dispatch)

Spec == Init /\ [][Next]_vars /\ Fairness

TypeOK ==
  /\ runLoop \in Loops \cup {NoLoop}
  /\ isRunning \in [Loops -> BOOLEAN]
  /\ pc \in [Loops -> Points]
  /\ edt \in EdtStates
  /\ stepsLeft \in Nat
  /\ edt = "step" => stepsLeft > 0
  /\ queue \in Seq(Tasks)
  /\ ui \in {"Run", "Stop"}
  /\ typeAhead \in 0 .. MaxTypeAhead
  /\ closed \in BOOLEAN
  /\ hasty \in BOOLEAN

-----------------------------------------------------------------------------
Live    == {l \in Loops : alive(l)}
Crashed == {l \in Loops : pc[l] = "crashed"}

(* Threads that are using the CPU, the bus or the devices; NoLoop stands   *)
(* for the EDT.  A reset is not counted: handleReset never waits.          *)
MachineUsers == {l \in Loops : pc[l] \in Stepping}
                  \cup IF edt \in EdtStepping \cup {"load"} THEN {NoLoop} ELSE {}

(* The first Runnable of loop l has been run by the EDT.                   *)
Reported(l) ==
  /\ pc[l] \in Stepping
  /\ [task |-> "didStart", loop |-> l] \notin {queue[i] : i \in DOMAIN queue}

(* Nothing in the simulated machine is locked, so only one thread may step *)
(* it or load into it.  The buttons give this to a user who lets them      *)
(* settle (Simulator.java 217-226, 405-467).                               *)
OneMachineUser == ~hasty => Cardinality(MachineUsers) <= 1

(* For such a user a loop that is running can be stopped: runLoop refers   *)
(* to it.                                                                  *)
NoOrphan == ~hasty => \A l \in Live : isRunning[l] => runLoop = l

(* For such a user the button shows that a loop is stepping, from its      *)
(* first report on: the last report of an earlier loop does not undo it.   *)
ControlsTrackLoop == ~hasty => \A l \in Loops : Reported(l) => ui = "Stop"

(* However hastily the controls were used, once every loop has ended in    *)
(* the regular way and the queue is served the controls say so.            *)
ControlsSettle ==
  queue = <<>> /\ Live = {} /\ Crashed = {} => ui = "Run"

(* A loop that is told to stop after it set isRunning ends, whatever the   *)
(* user does meanwhile; switching the machine ends the run loop of the old *)
(* one, if the controls had settled before.                                *)
StopHonoured ==
  /\ \A l \in Loops : (pc[l] \in Stepping /\ ~isRunning[l]) ~> ~alive(l)
  /\ (closed /\ ~hasty) ~> (Live = {})

-----------------------------------------------------------------------------
(* What comments of the source say and the code does not keep.             *)

(* "Don't allow step while the simulator is running" (Simulator.java 423): *)
(* the step button is disabled while a reported loop is stepping.          *)
StepDisabledWhileRunning == \A l \in Loops : Reported(l) => ui = "Stop"
=============================================================================
