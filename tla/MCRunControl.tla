---------------------------- MODULE MCRunControl ----------------------------
(* Instances of RunControl for TLC.                                        *)
EXTENDS RunControl

(* Safety alone: a disagreement needs no fairness.                         *)
SafetySpec == Init /\ [][Next]_vars
=============================================================================
