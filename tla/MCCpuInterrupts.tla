--------------------------- MODULE MCCpuInterrupts ---------------------------
(* An instance of CpuInterrupts for TLC.  The program lies across the end  *)
(* of the address space, so that return addresses wrap; it has a main loop *)
(* with a subroutine and a BRK, and handlers that use the stack, call the  *)
(* subroutine and may clear I; where two instructions are possible both    *)
(* programs are explored.                                                  *)
EXTENDS CpuInterrupts, TLC

Op(o)      == [op |-> o, arg |-> 0]
Arg(o, n)  == [op |-> o, arg |-> n]

Main == 65530 :> {Arg("LDA", 9)} @@ 65532 :> {Op("PHA")}
     @@ 65533 :> {Arg("JSR", 10)} @@ 0 :> {Op("PLA")} @@ 1 :> {Op("BRK")}
     @@ 3 :> {Op("SEC")} @@ 4 :> {Op("CLC")}
     @@ 5 :> {Arg("JMP", 65530)}

Subroutine == 10 :> {Op("PHP")} @@ 11 :> {Op("SEI")} @@ 12 :> {Op("PLP")}
           @@ 13 :> {Op("RTS")}

IrqHandler == 20 :> {Op("CLI"), Op("SEC")} @@ 21 :> {Op("PHA")}
           @@ 22 :> {Op("PLA")} @@ 23 :> {Op("RTI")}

NmiHandler == 30 :> {Arg("JSR", 10), Op("RTI")} @@ 33 :> {Op("RTI")}

MCProgram == Main @@ Subroutine @@ IrqHandler @@ NmiHandler
=============================================================================
