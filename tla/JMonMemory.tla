------------------------------- MODULE JMonMemory --------------------------------
(***************************************************************************)
(* The memory commands of JMon (jmon.s): copy, search, verify and fill.    *)
(* The addresses and the data they were given are cells of the memory they *)
(* work on, and are counted up there; a command whose target contains them *)
(* changes its own arguments.  So is T1, which entering a byte and printing*)
(* a string use.  ESC at a prompt goes back to the main loop.              *)
(*                                                                         *)
(* An address and a byte are one cell each here (the code compares and     *)
(* counts the two bytes of an address one after the other), and the        *)
(* addresses wrap around.  A pass of a loop is a step.                     *)
(***************************************************************************)
EXTENDS Integers, Sequences

CONSTANTS
  Top,                 (* the highest address                              *)
  SL, EL, DL, DA,      (* the cells of start, end, destination and data    *)
  T1, Text,            (* the scratch cell; the address of a string        *)
  Memories,            (* contents of the memory to begin with             *)
  MaxCommands          (* bound: commands given                            *)

Space == 0..Top
own == {T1, SL, EL, DL, DA}
NotFound == Top + 1    (* printed instead of an address                    *)

ASSUME JMonAssumption ==
  /\ Top \in Nat
  /\ SL \in Space /\ EL \in Space /\ DL \in Space /\ DA \in Space
  /\ T1 \in Space /\ T1 \notin {SL, EL, DL, DA} /\ Text \in Space
  /\ SL # EL /\ SL # DL /\ SL # DA /\ EL # DL /\ EL # DA /\ DL # DA
  /\ Memories \subseteq [Space -> Space]
  /\ MaxCommands \in Nat

VARIABLES
  mem,
  jmonAt,               (* where the monitor is                             *)
  command,             (* the command given last                           *)
  asked,               (* its arguments that were entered                  *)
  report,              (* the addresses it printed                         *)
  started,             (* history: the memory before it ran                  *)
  commands             (* the commands given so far                        *)

jmonVars == <<mem, jmonAt, command, asked, report, started, commands>>

(* PrintString; the last string a command prints is the prompt of the next. *)
printed(m) == [m EXCEPT ![T1] = Text]

JMonInit ==
  /\ mem \in {printed(m) : m \in Memories}
  /\ jmonAt = "MainLoop" /\ command = "none" /\ asked = 0 /\ report = <<>>
  /\ started = mem /\ commands = 0

arguments == CASE command \in {"DoCopy", "DoVerify"} -> <<SL, EL, DL>>
               [] command \in {"DoSearch", "DoFill"} -> <<SL, EL, DA>>

GiveCommand(c) ==
  /\ jmonAt = "MainLoop" /\ commands < MaxCommands
  /\ command' = c /\ commands' = commands + 1
  /\ jmonAt' = "GetAddress" /\ asked' = 0 /\ report' = <<>>
  /\ started' = mem
  /\ UNCHANGED mem

(* GetAddress or GetByte, which leaves a part of the last byte in T1.      *)
Enter(v) ==
  /\ jmonAt = "GetAddress" /\ asked < 3
  /\ mem' = [mem EXCEPT ![T1] = v, ![arguments[asked + 1]] = v]
  /\ asked' = asked + 1
  /\ UNCHANGED <<jmonAt, command, report, started, commands>>

Escape ==
  /\ jmonAt = "GetAddress" /\ asked < 3
  /\ jmonAt' = "MainLoop" /\ mem' = printed(mem)
  /\ UNCHANGED <<command, asked, report, started, commands>>

invalidRange == mem[SL] >= mem[EL]
overlapping  == command = "DoCopy" /\ mem[SL] >= mem[DL]

CheckRange ==
  /\ jmonAt = "GetAddress" /\ asked = 3
  /\ started' = mem
  /\ IF invalidRange \/ overlapping
     THEN jmonAt' = "MainLoop" /\ mem' = printed(mem)
     ELSE jmonAt' = command /\ UNCHANGED mem
  /\ UNCHANGED <<command, asked, report, commands>>

-----------------------------------------------------------------------------
next(a) == IF a = Top THEN 0 ELSE a + 1

(* The end of a pass: the end is reached, or the addresses are counted up. *)
advance(m, counted) ==
  IF m[SL] = m[EL]
  THEN jmonAt' = "MainLoop" /\ mem' = printed(m)
  ELSE mem' = [a \in Space |-> IF a \in counted THEN next(m[a]) ELSE m[a]] /\ UNCHANGED jmonAt

(* Mutant: the start is not counted up.                                    *)
DoFillThere ==
  /\ jmonAt = "DoFill"
  /\ advance([mem EXCEPT ![mem[SL]] = mem[DA]], {})
  /\ UNCHANGED <<command, asked, report, started, commands>>

DoFill ==
  /\ jmonAt = "DoFill"
  /\ advance([mem EXCEPT ![mem[SL]] = mem[DA]], {SL})
  /\ UNCHANGED <<command, asked, report, started, commands>>

(* Mutant: the destination is not counted up.                              *)
DoCopyOnto ==
  /\ jmonAt = "DoCopy"
  /\ advance([mem EXCEPT ![mem[DL]] = mem[mem[SL]]], {SL})
  /\ UNCHANGED <<command, asked, report, started, commands>>

DoCopy ==
  /\ jmonAt = "DoCopy"
  /\ advance([mem EXCEPT ![mem[DL]] = mem[mem[SL]]], {SL, DL})
  /\ UNCHANGED <<command, asked, report, started, commands>>

DoVerify ==
  /\ jmonAt = "DoVerify"
  /\ IF mem[mem[SL]] = mem[mem[DL]]
     THEN advance(mem, {SL, DL}) /\ UNCHANGED report
     ELSE advance(printed(mem), {SL, DL}) /\ report' = Append(report, mem[SL])
  /\ UNCHANGED <<command, asked, started, commands>>

DoSearch ==
  /\ jmonAt = "DoSearch"
  /\ IF mem[mem[SL]] = mem[DA]
     THEN jmonAt' = "MainLoop" /\ report' = <<mem[SL]>> /\ mem' = printed(mem)
     ELSE /\ advance(mem, {SL})
          /\ report' = IF mem[SL] = mem[EL] THEN <<NotFound>> ELSE report
  /\ UNCHANGED <<command, asked, started, commands>>

JMonUser ==
  \/ \E c \in {"DoCopy", "DoSearch", "DoVerify", "DoFill"} : GiveCommand(c)
  \/ \E v \in Space : Enter(v)
  \/ Escape
JMonLoop == CheckRange \/ DoFill \/ DoCopy \/ DoVerify \/ DoSearch
JMonNext == JMonUser \/ JMonLoop

JMonSpec == JMonInit /\ [][JMonNext]_jmonVars /\ WF_jmonVars(JMonLoop)

-----------------------------------------------------------------------------
(* The arguments with which a loop began, and what it was to work on.      *)
from == started[SL]
to   == started[EL]
dest == started[DL]
data == started[DA]
place(a) == (dest + (a - from)) % (Top + 1)
source == from..to
target == IF command = "DoFill" THEN source ELSE {place(a) : a \in source}

ran  == asked = 3 /\ from < to /\ (command = "DoCopy" => from < dest)
finished(c) == jmonAt = "MainLoop" /\ command = c /\ ran
apart == target \cap own = {}

(* A fill sets the cells from start to end, both of them, and no others    *)
(* but those of JMon itself.                                               *)
FillExact ==
  finished("DoFill") /\ apart =>
    \A a \in Space \ own : mem[a] = IF a \in source THEN data ELSE started[a]

(* A copy to a place that does not overlap its source leaves there what    *)
(* the source held, and changes nothing else.                              *)
CopyExact ==
  finished("DoCopy") /\ apart /\ target \cap source = {} /\ source \cap own = {} =>
    /\ \A a \in source : mem[place(a)] = started[a]
    /\ \A a \in Space \ (target \cup own) : mem[a] = started[a]

(* DoCopy refuses a destination that is not behind the start "to avoid     *)
(* overlapping memory issues": then what it accepts should be moved        *)
(* unharmed.                                                               *)
CopyMoves ==
  finished("DoCopy") /\ apart /\ source \cap own = {} =>
    \A a \in source : mem[place(a)] = started[a]

(* A search reports the first cell of the range that holds the data, and   *)
(* that there is none only if there is none.                               *)
SearchFirst ==
  finished("DoSearch") /\ source \cap own = {} =>
    IF report = <<NotFound>>
    THEN \A a \in source : started[a] # data
    ELSE LET f == report[1] IN /\ f \in source /\ started[f] = data
                              /\ \A a \in from..(f - 1) : started[a] # data

(* A verify reports the cells that differ, each of them once, in order.    *)
VerifyComplete ==
  finished("DoVerify") /\ source \cap own = {} /\ apart =>
    /\ \A a \in source :
         (\E i \in 1..Len(report) : report[i] = a) <=> started[a] # started[place(a)]
    /\ \A i, j \in 1..Len(report) : i < j => report[i] < report[j]

(* A command that was cancelled or refused changed nothing but the cells   *)
(* of JMon itself, nor did one that only reads.                            *)
OnlyArguments ==
  jmonAt = "MainLoop" /\ (~ran \/ command \in {"DoSearch", "DoVerify"}) =>
    \A a \in Space \ own : mem[a] = started[a]

(* Together: every command did exactly what it was asked for.              *)
CommandsExact == FillExact /\ CopyExact /\ SearchFirst /\ VerifyComplete /\ OnlyArguments

(* A command that does not write on its own arguments ends.                *)
CommandEnds ==
  (jmonAt \in {"DoCopy", "DoSearch", "DoVerify", "DoFill"}
     /\ (target \cap own \subseteq {T1} \/ command \in {"DoSearch", "DoVerify"})) ~> jmonAt = "MainLoop"
=============================================================================
