------------------------------- MODULE SectorCopy -------------------------------
(***************************************************************************)
(* What a disk copy promises: the target becomes the original sector by    *)
(* sector, in order; the copy may give up at any point, but it says so,    *)
(* and it is done only when every sector has been copied.  Once the wrong  *)
(* disk was inserted nothing is promised ("void").                         *)
(***************************************************************************)
EXTENDS Integers

VARIABLES original, image,   (* the contents of the two disks              *)
          copied,            (* sectors copied so far                      *)
          state              (* "running", "failed", "done" or "void"      *)

copyVars == <<original, image, copied, state>>

Init == state = "running" /\ copied = 0

CopySector ==
  /\ state = "running"
  /\ copied \in DOMAIN original /\ copied \in DOMAIN image
  /\ image' = [image EXCEPT ![copied] = original[copied]]
  /\ copied' = copied + 1
  /\ UNCHANGED <<original, state>>

Finish == /\ state = "running"
          /\ DOMAIN image = DOMAIN original
          /\ \A s \in DOMAIN original : s < copied
          /\ state' = "done"
          /\ UNCHANGED <<original, image, copied>>

GiveUp == /\ state = "running"
          /\ state' = "failed"
          /\ UNCHANGED <<original, image>>

WrongDisk == state' = "void"

Next == CopySector \/ Finish \/ GiveUp \/ WrongDisk

Spec == Init /\ [][Next]_copyVars
=============================================================================
