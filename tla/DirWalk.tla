-------------------------------- MODULE DirWalk ---------------------------------
(***************************************************************************)
(* The directory listing of the cc65 samples (enumdevdir.c): printdir      *)
(* changes into a directory, lists it, and calls itself for every          *)
(* subdirectory by the bare name it remembers, which means something only  *)
(* in the directory it was read in.  chdir may fail - a subdirectory that  *)
(* cannot be entered is printed like a file; coming back is not checked.   *)
(***************************************************************************)
EXTENDS Integers, Sequences, SequencesExt

CONSTANTS
  Dirs, Start,         (* the directories, and where the program starts    *)
  Devices,             (* Seq(Dirs): the root directory of every device    *)
  Subdirs              (* [Dirs -> Seq([name, dir])]: what readdir returns *)

ASSUME DirAssumption ==
  /\ Start \in Dirs /\ Devices \in Seq(Dirs)
  /\ \A d \in Dirs : /\ Subdirs[d] \in Seq(Range(Subdirs[d]))
                     /\ \A e \in Range(Subdirs[d]) : e.dir \in Dirs

(* The directories are trees: a name occurs once in a directory, and a     *)
(* directory in one place, which is the root of a device or a directory.   *)
ASSUME TreeAssumption ==
  /\ IsInjective(Devices)
  /\ \A d \in Dirs : \A i, j \in DOMAIN Subdirs[d] :
       Subdirs[d][i].name = Subdirs[d][j].name => i = j
  /\ \A d, e \in Dirs : \A i \in DOMAIN Subdirs[d], j \in DOMAIN Subdirs[e] :
       Subdirs[d][i].dir = Subdirs[e][j].dir => d = e /\ i = j
  /\ \A d \in Dirs : \A i \in DOMAIN Subdirs[d] : Subdirs[d][i].dir \notin Range(Devices)

VARIABLES
  device,              (* the number of the device that is listed          *)
  cwd,                 (* the current directory                            *)
  calls,               (* the active calls of printdir, the latest last:   *)
                       (* [olddir, listing, num]                           *)
  listed,              (* history: the directories printed, in order       *)
  skipped,             (* history: the directories printed like a file     *)
  lost                 (* history: a way back failed                       *)

dirVars == <<device, cwd, calls, listed, skipped, lost>>

DirInit == /\ device = 0 /\ cwd = Start /\ calls = <<>>
           /\ listed = <<>> /\ skipped = {} /\ lost = FALSE

frame == Last(calls)

(* chdir (newdir) succeeds, and the directory is read to its end.          *)
descend(d, frames) ==
  /\ cwd' = d
  /\ calls' = Append(frames, [olddir |-> cwd, listing |-> Subdirs[d], num |-> 0])
  /\ listed' = Append(listed, d)
  /\ UNCHANGED skipped

(* chdir (newdir) fails.                                                   *)
printOnly(d, frames) ==
  /\ calls' = frames
  /\ skipped' = skipped \cup {d}
  /\ UNCHANGED <<cwd, listed>>

(* main: the next device; its directory is an absolute name, or not there. *)
NextDevice ==
  /\ calls = <<>> /\ device < Len(Devices)
  /\ device' = device + 1
  /\ descend(Devices[device'], calls) \/ printOnly(Devices[device'], calls)
  /\ UNCHANGED lost

(* The call for the next subdirectory, whose name is looked up in the      *)
(* current directory.                                                      *)
found(name) == {e.dir : e \in {s \in Range(Subdirs[cwd]) : s.name = name}}
nextEntry == frame.listing[frame.num + 1]
advanced == [calls EXCEPT ![Len(calls)].num = @ + 1]

PrintSubdir ==
  /\ calls # <<>> /\ frame.num < Len(frame.listing)
  /\ \/ \E d \in found(nextEntry.name) : descend(d, advanced)
     \/ printOnly(nextEntry.dir, advanced)
  /\ UNCHANGED <<device, lost>>

(* Mutant: printdir does not go back.                                      *)
ReturnThere ==
  /\ calls # <<>> /\ frame.num = Len(frame.listing)
  /\ calls' = Front(calls)
  /\ UNCHANGED <<device, cwd, listed, skipped, lost>>

(* The end of printdir.                                                    *)
Return ==
  /\ calls # <<>> /\ frame.num = Len(frame.listing)
  /\ calls' = Front(calls)
  /\ \/ cwd' = frame.olddir /\ UNCHANGED lost
     \/ UNCHANGED cwd /\ lost' = TRUE
  /\ UNCHANGED <<device, listed, skipped>>

DirNext == NextDevice \/ PrintSubdir \/ Return

DirSpec == DirInit /\ [][DirNext]_dirVars

-----------------------------------------------------------------------------
(* While no way back fails, the names a call has left are looked up in the *)
(* directory they were read in, however deep the calls in between went,    *)
(* and the program ends where it was started (printdir).                   *)
NamesMeaningful ==
  ~lost => IF calls = <<>> THEN cwd = Start ELSE frame.listing = Subdirs[cwd]

(* Nothing is listed twice, and at the end nothing is left out but what    *)
(* could not be entered.                                                   *)
ListedOnce ==
  ~lost =>
    /\ IsInjective(listed)
    /\ calls = <<>> /\ device = Len(Devices) =>
         /\ Range(Devices) \subseteq Range(listed) \cup skipped
         /\ \A d \in Range(listed) : \A e \in Range(Subdirs[d]) :
              e.dir \in Range(listed) \cup skipped

(* Together: the walk is a walk of the tree.                               *)
TreeListed == NamesMeaningful /\ ListedOnce
=============================================================================
