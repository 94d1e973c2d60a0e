------------------------------- MODULE MCPrograms -------------------------------
(***************************************************************************)
(* An instance for TLC of the small programs, of the arithmetic they use,  *)
(* and of Symon's main program.  One of them runs, the others stay where   *)
(* they begin; the properties of a program hold of one that has not begun. *)
(***************************************************************************)
EXTENDS DiskCopy, Overlays, SidPlayer, PageFlip, DirWalk, Samples,
        JMonMemory, WozMon, Alu, MachineSwitch, BasicStrings

VARIABLE program       (* the program that runs; it does not change        *)

(* Every disk but one has the same format.                                 *)
MCFormat == [d \in Disks |-> [size |-> 1, count |-> IF d = "big" THEN 7 ELSE 5]]

MCSize == <<3, 2, 5>>

Tone(n) == [length |-> n, pause |-> FALSE]
Pause(n) == [length |-> n, pause |-> TRUE]
MCTune == << <<Tone(2), Pause(1), Tone(1), Tone(1)>>,
             <<Tone(3), Tone(2)>>,
             <<Pause(1), Tone(4)>> >>

(* Two devices; the same names occur at several places.                    *)
Entry(n, d) == [name |-> n, dir |-> d]
MCDevices == <<"root1", "root2">>
MCSubdirs == [d \in Dirs |->
  CASE d = "root1" -> <<Entry("x", "a"), Entry("y", "b")>>
    [] d = "a"     -> <<Entry("x", "c"), Entry("y", "d")>>
    [] d = "c"     -> <<Entry("y", "e")>>
    [] d = "root2" -> <<Entry("x", "f")>>
    [] OTHER       -> <<>>]

MCScreen == [x |-> 16, y |-> 11]

(* Files that fit and files that do not: with every combination of header  *)
(* fields, with data that grows, shrinks at first, and is too long.        *)
End(in, out) == [in |-> in, out |-> out]
File(fields, ends) == [flags |-> fields, extra |-> 2, name |-> 3, comment |-> 1, ends |-> ends]
MCFiles ==
  {File(fields, <<End(1, 2), End(4, 9), End(6, 11)>>) :
     fields \in SUBSET {"FEXTRA", "FNAME", "FCOMMENT", "FHCRC"}}
  \cup {File({}, e) : e \in {<<End(2, 34), End(8, 35)>>, <<End(2, 34), End(5, 35)>>,
                             <<End(4, 38)>>, <<End(20, 30)>>, <<>>}}

MCMemories == {[a \in 0..11 |-> (5 * a) % 7], [a \in 0..11 |-> a]}

(* Two variables and an array; a literal, an empty one, and CHR$.          *)
MCText == <<1, 2>>
MCLiterals == {[len |-> 2, at |-> 0], [len |-> 0, at |-> 0]}
MCTemporaries == <<"T1", "T2">>

(* The cell before the line, and the others.                               *)
MCPages == {[n \in 0..(PageSize - 1) |-> IF n = PageSize - 1 THEN c ELSE o] :
              c \in Cells, o \in {0, 141}}

MCInit ==
  /\ program \in {"copy", "overlays", "sid", "flip", "dirs", "sieve", "mandelbrot",
                  "gunzip", "mouse", "jmon", "woz", "alu",
                  "switch", "basic"}
  /\ CASE program = "copy" -> TRUE [] OTHER -> sourceId = "A" /\ targetId = "A"
  /\ CASE program = "overlays" -> TRUE [] OTHER -> variant = "multi"
  /\ CASE program = "sid" -> TRUE [] OTHER -> clock = 0
  /\ CASE program = "gunzip" -> TRUE [] OTHER -> gzFile = File({}, <<>>)
  /\ CASE program = "jmon" -> TRUE [] OTHER -> mem = printed([a \in 0..11 |-> a])
  /\ CASE program = "woz" -> inputLine \in MCPages
       [] OTHER -> inputLine = [n \in 0..(PageSize - 1) |-> 0] /\ ST = 38
  /\ CASE program = "alu" -> TRUE
       [] OTHER -> /\ decimal = FALSE /\ carry = 0 /\ operation = "add"
                   /\ acc = <<0, 0>> /\ operand = <<0, 0>>
  /\ CopyInit /\ OvInit /\ SidInit /\ FlipInit /\ DirInit /\ SieveInit /\ MandelInit
  /\ GunzipInit /\ MouseInit /\ JMonInit /\ WozInit /\ AluInit
  /\ SwitchInit /\ BasicInit
  /\ XAM = ST
  /\ operation \in {"left", "right"} => operand = acc

(* Only the variables of the program that runs change.                     *)
others(runs) ==
  /\ runs # "copy" => UNCHANGED diskCopyVars
  /\ runs # "overlays" => UNCHANGED overlayVars
  /\ runs # "sid" => UNCHANGED sidVars
  /\ runs # "flip" => UNCHANGED flipVars
  /\ runs # "dirs" => UNCHANGED dirVars
  /\ runs # "sieve" => UNCHANGED sieveVars
  /\ runs # "mandelbrot" => UNCHANGED mandelVars
  /\ runs # "gunzip" => UNCHANGED gunzipVars
  /\ runs # "mouse" => UNCHANGED mouseVars
  /\ runs # "jmon" => UNCHANGED jmonVars
  /\ runs # "woz" => UNCHANGED wozVars
  /\ runs # "alu" => UNCHANGED aluVars
  /\ runs # "switch" => UNCHANGED switchVars
  /\ runs # "basic" => UNCHANGED stringVars

MCNext ==
  /\ UNCHANGED program /\ others(program)
  /\ \/ program = "copy" /\ CopyNext
     \/ program = "overlays" /\ OvNext
     \/ program = "sid" /\ SidNext
     \/ program = "flip" /\ FlipNext
     \/ program = "dirs" /\ DirNext
     \/ program = "sieve" /\ SieveNext
     \/ program = "mandelbrot" /\ MandelNext
     \/ program = "gunzip" /\ GunzipNext
     \/ program = "mouse" /\ MouseNext
     \/ program = "jmon" /\ JMonNext
     \/ program = "woz" /\ WozNext
     \/ program = "alu" /\ AluByte
     \/ program = "switch" /\ SwitchNext
     \/ program = "basic" /\ ~spoiled /\ BasicNext

MCVars == <<program, diskCopyVars, overlayVars, sidVars, flipVars, dirVars,
            sieveVars, mandelVars, gunzipVars, mouseVars, jmonVars, wozVars,
            aluVars, switchVars, stringVars>>

MCFairness == /\ WF_diskCopyVars(program = "copy" /\ CopyNext)
              /\ WF_sidVars(program = "sid" /\ ClockTick)
              /\ SF_sidVars(program = "sid" /\ TimeSync)
              /\ WF_sidVars(program = "sid" /\ CheckKey)
              /\ WF_sidVars(program = "sid" /\ PlayBeat)
              /\ WF_jmonVars(program = "jmon" /\ JMonLoop)
              /\ WF_wozVars(program = "woz" /\ WozParser)
              /\ WF_switchVars(program = "switch" /\ MainNext)
              /\ WF_switchVars(program = "switch" /\ EdtNext)

MCSpec == MCInit /\ [][MCNext]_MCVars /\ MCFairness

(* The user is not left waiting: every command of JMon that does not write *)
(* on its own arguments, every line of the Woz monitor and every disk copy *)
(* that has opened its source ends.                                        *)
ProgramsReturn == CommandEnds /\ LineEnds /\ CopyEnds

=============================================================================
