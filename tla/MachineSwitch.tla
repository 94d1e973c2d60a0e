------------------------------ MODULE MachineSwitch ------------------------------
(***************************************************************************)
(* "Switch emulated machine...": the main thread of Symon (Main.java)      *)
(* creates one simulator after the other and waits for a command, which    *)
(* the event dispatch thread (EDT) gives after it closed the windows.      *)
(* Each simulator has a monitor of its own.  The wait has no condition     *)
(* around it: a notification that comes before it is lost, and it may end  *)
(* without one.                                                            *)
(***************************************************************************)
EXTENDS Naturals

CONSTANT MaxSimulators   (* bound: simulators created                      *)

ASSUME SwitchAssumption == MaxSimulators \in Nat \ {0}

Simulators == 1..MaxSimulators

VARIABLES
  mainAt,     (* main: before, in and behind waitForCommand, or returned   *)
  simulator,  (* the simulator created last                                *)
  toShow,     (* simulators whose createAndShowUi is queued for the EDT    *)
  windows,    (* simulators with open windows                              *)
  mainCommand,  (* Simulator.command of each                               *)
  notifying   (* simulators whose command is given but not yet notified    *)

switchVars == <<mainAt, simulator, toShow, windows, mainCommand, notifying>>

SwitchInit ==
  /\ mainAt = "create" /\ simulator = 0
  /\ toShow = {} /\ windows = {} /\ notifying = {}
  /\ mainCommand = [s \in Simulators |-> "NONE"]

(* The machine is chosen (closing the dialog chooses one), the simulator   *)
(* created and its user interface left to the EDT.                         *)
CreateSimulator ==
  /\ mainAt = "create" /\ simulator < MaxSimulators
  /\ mainAt' = "enter" /\ simulator' = simulator + 1
  /\ toShow' = toShow \cup {simulator + 1}
  /\ UNCHANGED <<windows, mainCommand, notifying>>

EnterWait ==
  /\ mainAt = "enter"
  /\ mainAt' = "wait"
  /\ UNCHANGED <<simulator, toShow, windows, mainCommand, notifying>>

SpuriousWakeup ==
  /\ mainAt = "wait"
  /\ mainAt' = "return"
  /\ UNCHANGED <<simulator, toShow, windows, mainCommand, notifying>>

(* The command is read behind the wait, outside of the monitor.            *)
waitForCommand ==
  /\ mainAt = "return"
  /\ mainAt' = IF mainCommand[simulator] = "SELECTMACHINE" THEN "create" ELSE "left"
  /\ UNCHANGED <<simulator, toShow, windows, mainCommand, notifying>>

-----------------------------------------------------------------------------
(* The EDT.                                                                *)
createAndShowUi(s) ==
  /\ s \in toShow
  /\ toShow' = toShow \ {s} /\ windows' = windows \cup {s}
  /\ UNCHANGED <<mainAt, simulator, mainCommand, notifying>>

(* The windows are closed, then the command is given.                      *)
SelectMachine(s) ==
  /\ s \in windows /\ notifying = {} /\ s < MaxSimulators
  /\ windows' = windows \ {s}
  /\ mainCommand' = [mainCommand EXCEPT ![s] = "SELECTMACHINE"]
  /\ notifying' = {s}
  /\ UNCHANGED <<mainAt, simulator, toShow>>

(* Mutant: a notification to the monitor of another simulator.             *)
notifyAllOther(s) ==
  /\ s \in notifying
  /\ notifying' = {}
  /\ UNCHANGED <<mainAt, simulator, toShow, windows, mainCommand>>

notifyAll(s) ==
  /\ s \in notifying
  /\ mainAt' = IF mainAt = "wait" /\ simulator = s THEN "return" ELSE mainAt
  /\ notifying' = {}
  /\ UNCHANGED <<simulator, toShow, windows, mainCommand>>

MainNext == CreateSimulator \/ EnterWait \/ waitForCommand
EdtNext == \E s \in Simulators : createAndShowUi(s) \/ notifyAll(s)
SwitchNext == MainNext \/ EdtNext \/ SpuriousWakeup \/ \E s \in Simulators : SelectMachine(s)

-----------------------------------------------------------------------------
(* Never two simulators have windows, or are about to: the windows of one  *)
(* are closed before main hears of the command that creates the next.      *)
OneSimulator == \A s, t \in windows \cup toShow : s = t

(* A command that finds main waiting, or just woken, is carried out: the   *)
(* next simulator appears, also if the wait ends of itself meanwhile.  One *)
(* that is notified before the wait begins is not, nor is one that is      *)
(* given after a wait that ended of itself.                                *)
CommandCarriedOut ==
  \A s \in Simulators :
    (simulator = s /\ (\/ mainAt = "wait" /\ s \in notifying
                       \/ mainAt = "return" /\ mainCommand[s] = "SELECTMACHINE")) ~>
      (s + 1 \in windows)

(* Together: one machine is replaced by the next, never joined by it.      *)
SwitchHonoured == []OneSimulator /\ CommandCarriedOut
=============================================================================
