----------------------------- MODULE TraceWindow -----------------------------
(***************************************************************************)
(* The trace window of the Symon simulator (TraceLog.java, and its uses in *)
(* Simulator.java) beside the run control: every action of RunControl with *)
(* what the same handler does to the window, the Runnable that redraws the *)
(* windows, and the menu item that shows or hides this one.  Nothing here  *)
(* changes what the run control does.                                      *)
(*                                                                         *)
(* The text is compared with the trace buffer, never spelled out.          *)
(***************************************************************************)
EXTENDS RunControl

VARIABLES
  tracing,  (* the text area is enabled                                    *)
  trace,    (* the window: "hidden", "shown" with every step of the buffer *)
            (* in its text, "behind" the buffer, or "lost": still behind   *)
            (* when an exception ended handleStep before its redraw        *)
  update    (* a Runnable of updateVisibleState is queued.  It only redraws,*)
            (* so it may run in any order with the others, and one stands  *)
            (* for all those that wait                                     *)

traceVars == <<tracing, trace, update>>
traceLog  == <<vars, tracing, trace, update>>

TraceInit == Init /\ tracing = TRUE /\ trace = "hidden" /\ update = FALSE

-----------------------------------------------------------------------------
(* The parts of a handler that touch the window.                           *)

isVisible == trace # "hidden"

refresh == trace' = IF isVisible THEN "shown" ELSE trace

append == trace' = IF isVisible THEN "behind" ELSE trace

(* step() ends with an update if MAX_STEPS_BETWEEN_UPDATES steps are over. *)
mayUpdate == update' \in {update, TRUE}

(* An exception leaves handleStep without its update of the windows.       *)
stepFailed == /\ trace' = IF trace = "behind" THEN "lost" ELSE trace
              /\ UNCHANGED update

-----------------------------------------------------------------------------
(* Handlers of the EDT.                                                    *)

TraceStart == handleStart /\ tracing' = FALSE /\ UNCHANGED <<trace, update>>

(* The trace buffer and the text of the window are emptied together.       *)
TraceReset == ResetEnd /\ tracing' = TRUE /\ refresh /\ update' = TRUE

TraceStepCpu ==
  /\ EdtStepCpu
  /\ IF edt' = "input" THEN append /\ UNCHANGED update ELSE stepFailed
  /\ UNCHANGED tracing

(* The rest of step(), and the end of handleStep: the last step updates    *)
(* the windows.                                                            *)
TraceStepRest ==
  /\ EdtHasInput \/ EdtPop
  /\ IF edt = "pop" /\ typeAhead = 0
     THEN stepFailed
     ELSE /\ UNCHANGED trace
          /\ CASE edt' = "pop"  -> UNCHANGED update
               [] edt' = "step" -> mayUpdate
               [] edt' = "idle" -> update' = TRUE
  /\ UNCHANGED tracing

(* A loaded program or ROM updates the windows, a failure does not.        *)
TraceLoad ==
  /\ LoadEnd
  /\ IF queue' # queue THEN update' = TRUE ELSE mayUpdate
  /\ UNCHANGED <<tracing, trace>>

(* The windows are disposed.                                               *)
TraceDispose ==
  /\ SelectMachine
  /\ trace' = "hidden"
  /\ UNCHANGED <<tracing, update>>

(* Mutant: the final report redraws the text area only if it is enabled.   *)
TraceDispatchIfEnabled ==
  /\ Dispatch
  /\ IF Head(queue).task = "didStop"
     THEN (IF tracing THEN refresh ELSE UNCHANGED trace) /\ tracing' = TRUE
     ELSE UNCHANGED <<tracing, trace>>
  /\ UNCHANGED update

(* A loop's final report redraws a visible window, then enables its text.  *)
TraceDispatch ==
  /\ Dispatch
  /\ IF Head(queue).task = "didStop"
     THEN refresh /\ tracing' = TRUE
     ELSE UNCHANGED <<tracing, trace>>
  /\ UNCHANGED update

(* The Runnable of updateVisibleState: a disabled text area is left alone. *)
Update ==
  /\ edt \in {"idle", "dialog"}
  /\ update
  /\ update' = FALSE
  /\ IF tracing THEN refresh ELSE UNCHANGED trace
  /\ UNCHANGED <<vars, tracing>>

(* ToggleTraceWindowAction hides the window (as closing it does), or       *)
(* redraws and shows it, whether or not a loop is running.                 *)
ToggleTraceWindow ==
  /\ edt = "idle"
  /\ ~closed
  /\ trace' = IF isVisible THEN "hidden" ELSE "shown"
  /\ UNCHANGED <<vars, tracing, update>>

-----------------------------------------------------------------------------
(* The threads of the run loops.                                           *)

LoopStepCpu(l) ==
  /\ StepCpu(l)
  /\ IF pc'[l] = "input" THEN append ELSE UNCHANGED trace
  /\ UNCHANGED <<tracing, update>>

LoopStepRest(l) ==
  /\ HasInput(l) \/ Pop(l)
  /\ IF pc'[l] = "check" THEN mayUpdate ELSE UNCHANGED update
  /\ UNCHANGED <<tracing, trace>>

(* What does not concern the window.                                       *)
Elsewhere ==
  /\ \/ handleStop \/ ResetBegin \/ ClickStep \/ ClickLoad \/ keyTyped
     \/ CloseDialog
     \/ \E l \in Loops : RunBegin(l) \/ PostStart(l) \/ shouldContinue(l)
                           \/ PostStop(l) \/ RunEnd(l)
  /\ UNCHANGED traceVars

TraceNext ==
  \/ TraceStart \/ TraceReset \/ TraceStepCpu \/ TraceStepRest \/ TraceLoad
  \/ TraceDispose \/ TraceDispatch \/ Update \/ ToggleTraceWindow
  \/ \E l \in Loops : LoopStepCpu(l) \/ LoopStepRest(l)
  \/ Elsewhere

TraceSpec == TraceInit /\ [][TraceNext]_traceLog

TraceTypeOK == /\ TypeOK
               /\ tracing \in BOOLEAN
               /\ trace \in {"hidden", "shown", "behind", "lost"}
               /\ update \in BOOLEAN

-----------------------------------------------------------------------------
(* While a loop runs the text area is disabled and updates that come then  *)
(* are dropped (Simulator.java 927); a reset may enable it under a loop    *)
(* that is still alive.  Still, however hastily the controls and the menu  *)
(* item were used: when all is quiet a visible trace window shows every    *)
(* step that was made, unless an exception ended a thread or a handler     *)
(* before the redraw.                                                      *)
TraceShown ==
  /\ edt = "idle" /\ queue = <<>> /\ ~update
  /\ Live = {} /\ Crashed = {}
  => trace # "behind"
=============================================================================
