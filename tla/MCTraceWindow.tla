---------------------------- MODULE MCTraceWindow ----------------------------
(***************************************************************************)
(* An instance for TLC of the run control alone, and of the run control    *)
(* with the trace window.  With the window one loop of those there are is  *)
(* never started.                                                          *)
(***************************************************************************)
EXTENDS TraceWindow, TLC

VARIABLE window     (* whether the window is there; it does not change     *)

Symmetry == Permutations(Loops)

MCInit == TraceInit /\ window \in BOOLEAN

MCNext == /\ \/ ~window /\ Next /\ UNCHANGED traceVars
             \/ window /\ TraceNext /\ \E l \in Loops : pc'[l] = "new"
          /\ UNCHANGED window

MCSpec == MCInit /\ [][MCNext]_<<traceLog, window>>
=============================================================================
