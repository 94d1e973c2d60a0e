---------------------------- MODULE CpuInterrupts ----------------------------
(***************************************************************************)
(* Interrupts, subroutines and the stack page of Symon's 6502 (Cpu.java).  *)
(*                                                                         *)
(* One step of the CPU is Cpu.step: a pending NMI or an enabled pending    *)
(* IRQ is taken first, and the instruction found at the resulting program  *)
(* counter is executed in the same step.  The program is a constant: the   *)
(* instructions that may be found at every address.  A return or a pull is *)
(* taken only where it matches what was entered or pushed, which is what   *)
(* well-structured code does.  Memory outside the stack page, the index    *)
(* registers and the flags other than C, I and B play no part here.        *)
(*                                                                         *)
(* The functions below take a CPU state and return the next, as the        *)
(* methods of Cpu do with CpuState.  Two fields are history: shadow, the   *)
(* bytes that were pushed and not yet pulled, and frames, the activations  *)
(* (subroutine calls and interrupts) these bytes belong to.                *)
(***************************************************************************)
EXTENDS Integers, Sequences, FiniteSets

CONSTANTS
  StackSize,    (* bytes in the stack page (256)                           *)
  Program,      (* a function: address -> instructions that may be there   *)
  ResetVector,  (* what the three vectors contain                          *)
  NmiVector,
  IrqVector,
  MaxPushed     (* bound: bytes pushed and not yet pulled                  *)

Byte == 0 .. 255
MaxWord == 65535
Word == 0 .. MaxWord

CodeAddrs == DOMAIN Program

(* An instruction and its operand: the byte of LDA #, the target of JSR    *)
(* and JMP, 0 for the others.                                              *)
Implied == {"BRK", "RTS", "RTI", "PHA", "PLA", "PHP", "PLP",
            "CLI", "SEI", "CLC", "SEC"}

Instructions == [op : Implied, arg : {0}]
                  \cup [op : {"LDA"}, arg : Byte]
                  \cup [op : {"JSR", "JMP"}, arg : Word]

ASSUME CpuAssumption ==
  /\ StackSize \in Nat \ {0}
  /\ CodeAddrs \subseteq Word
  /\ {ResetVector, NmiVector, IrqVector} \subseteq CodeAddrs
  /\ \A n \in CodeAddrs : Program[n] \subseteq Instructions
  /\ MaxPushed \in Nat

VARIABLE cpu

Slots    == 0 .. StackSize - 1
Entries  == {"irq", "nmi", "brk"}
Frames   == [kind : Entries \cup {"call"}, ret : Word, status : Byte,
             at : Nat, masked : BOOLEAN]

States   == [pc : Word, sp : Slots, a : Byte, c : BOOLEAN, i : BOOLEAN,
             b : BOOLEAN, irq : BOOLEAN, nmi : BOOLEAN,
             stack : [Slots -> Byte], shadow : Seq(Byte), deepest : Nat,
             frames : Seq(Frames)]

(* What reset leaves of state s: an asserted NMI, and the memory.          *)
reset(s) ==
  [s EXCEPT !.sp = StackSize - 1, !.pc = ResetVector, !.a = 0,
            !.c = FALSE, !.i = FALSE, !.b = FALSE, !.irq = FALSE,
            !.shadow = <<>>, !.deepest = 0, !.frames = <<>>]

Init ==
  cpu = [pc |-> ResetVector, sp |-> StackSize - 1, a |-> 0,
         c |-> FALSE, i |-> FALSE, b |-> FALSE, irq |-> FALSE, nmi |-> FALSE,
         stack |-> [k \in Slots |-> 0], shadow |-> <<>>, deepest |-> 0,
         frames |-> <<>>]

-----------------------------------------------------------------------------
(* The stack page.                                                         *)

hiByte(n) == (n \div 256) % 256
loByte(n) == n % 256
address(lo, hi) == 256 * hi + lo

below(sp) == IF sp = 0 THEN StackSize - 1 ELSE sp - 1
above(sp) == IF sp = StackSize - 1 THEN 0 ELSE sp + 1

(* Mutant: the stack pointer moves before the byte is written.             *)
stackPushAfterMove(s, v) ==
  [s EXCEPT !.stack = [@ EXCEPT ![below(s.sp)] = v],
            !.sp = below(@),
            !.shadow = Append(@, v),
            !.deepest = IF @ > Len(s.shadow) THEN @ ELSE Len(s.shadow) + 1]

stackPush(s, v) ==
  [s EXCEPT !.stack = [@ EXCEPT ![s.sp] = v],
            !.sp = below(@),
            !.shadow = Append(@, v),
            !.deepest = IF @ > Len(s.shadow) THEN @ ELSE Len(s.shadow) + 1]

(* stackPop moves sp and returns the byte found there.                     *)
top(s) == s.stack[above(s.sp)]

popped(s) == [s EXCEPT !.sp = above(@),
                       !.shadow = SubSeq(@, 1, Len(@) - 1)]

-----------------------------------------------------------------------------
(* The status register, its activations and interrupts.                    *)

getStatusFlag(s) == 32 + (IF s.b THEN 16 ELSE 0) + (IF s.i THEN 4 ELSE 0)
                       + (IF s.c THEN 1 ELSE 0)

setProcessorStatus(s, v) ==
  [s EXCEPT !.c = (v % 2 = 1),
            !.i = ((v \div 4) % 2 = 1),
            !.b = ((v \div 16) % 2 = 1)]

enter(s, kind, ret, status, at) ==
  [s EXCEPT !.frames = Append(@, [kind |-> kind, ret |-> ret,
                                  status |-> status, at |-> at,
                                  masked |-> kind # "call"])]

leave(s) == [s EXCEPT !.frames = SubSeq(@, 1, Len(@) - 1)]

(* The innermost interrupt activation, if any, counts as masked until its  *)
(* handler executes a CLI, or a PLP that leaves I clear.                   *)
innermost(s) ==
  {k \in DOMAIN s.frames :
     s.frames[k].kind # "call" /\ \A j \in DOMAIN s.frames :
                                    j > k => s.frames[j].kind = "call"}

noteMask(s) ==
  LET masked(k) == s.frames[k].masked /\ (k \in innermost(s) => s.i)
  IN  [s EXCEPT !.frames = [k \in DOMAIN s.frames |->
                              [s.frames[k] EXCEPT !.masked = masked(k)]]]

(* Mutants: B is set for BRK but not cleared for the others; I is not set. *)
handleInterruptKeepB(s, kind, returnPc, vector) ==
  LET flagged == [s EXCEPT !.b = @ \/ kind = "brk"]
      status  == getStatusFlag(flagged)
      pushed  == stackPush(stackPush(stackPush(flagged, hiByte(returnPc)),
                                     loByte(returnPc)), status)
  IN  enter([pushed EXCEPT !.i = TRUE, !.pc = vector],
            kind, returnPc % 65536, status, Len(s.shadow))

handleInterruptKeepI(s, kind, returnPc, vector) ==
  LET flagged == [s EXCEPT !.b = (kind = "brk")]
      status  == getStatusFlag(flagged)
      pushed  == stackPush(stackPush(stackPush(flagged, hiByte(returnPc)),
                                     loByte(returnPc)), status)
  IN  enter([pushed EXCEPT !.pc = vector],
            kind, returnPc % 65536, status, Len(s.shadow))

handleInterrupt(s, kind, returnPc, vector) ==
  LET flagged == [s EXCEPT !.b = (kind = "brk")]
      status  == getStatusFlag(flagged)
      pushed  == stackPush(stackPush(stackPush(flagged, hiByte(returnPc)),
                                     loByte(returnPc)), status)
  IN  enter([pushed EXCEPT !.i = TRUE, !.pc = vector],
            kind, returnPc % 65536, status, Len(s.shadow))

handleIrq(s) == [handleInterrupt(s, "irq", s.pc, IrqVector) EXCEPT !.irq = FALSE]
(* Mutant: an NMI acknowledges the IRQ as well.                            *)
handleNmiClearsBoth(s) ==
  [handleInterrupt(s, "nmi", s.pc, NmiVector) EXCEPT !.nmi = FALSE, !.irq = FALSE]
handleNmi(s) == [handleInterrupt(s, "nmi", s.pc, NmiVector) EXCEPT !.nmi = FALSE]

(* BRK shares the IRQ's vector and its clearIrq.                           *)
handleBrk(s, returnPc) ==
  [handleInterrupt(s, "brk", returnPc, IrqVector) EXCEPT !.irq = FALSE]

takeInterrupt(s) ==
  CASE s.nmi             -> handleNmi(s)
    [] ~s.nmi /\ s.irq /\ ~s.i -> handleIrq(s)
    [] OTHER             -> s

-----------------------------------------------------------------------------
(* The instructions, applied after the fetch has moved pc past them.       *)

fetched(s, size) == [s EXCEPT !.pc = (@ + size) % 65536]

topFrame(s)  == s.frames[Len(s.frames)]
frameSize(f) == IF f.kind = "call" THEN 2 ELSE 3

(* The stack holds, above its innermost activation, n bytes.               *)
localBytes(s) ==
  Len(s.shadow) - IF s.frames = <<>> THEN 0
                  ELSE topFrame(s).at + frameSize(topFrame(s))

mayReturn(s, kinds) ==
  s.frames # <<>> /\ topFrame(s).kind \in kinds /\ localBytes(s) = 0

BRK(s) == LET f == fetched(s, 1) IN handleBrk(f, f.pc + 1)

(* Mutant: the address of the next instruction is pushed, not its          *)
(* predecessor.                                                            *)
JSRNext(s, target) ==
  LET f   == fetched(s, 3)
      ret == f.pc
  IN  [enter(stackPush(stackPush(f, hiByte(ret)), loByte(ret)),
             "call", f.pc, 0, Len(s.shadow)) EXCEPT !.pc = target]

JSR(s, target) ==
  LET f   == fetched(s, 3)
      ret == (f.pc - 1) % 65536
  IN  [enter(stackPush(stackPush(f, hiByte(ret)), loByte(ret)),
             "call", f.pc, 0, Len(s.shadow)) EXCEPT !.pc = target]

RTS(s) ==
  LET one == popped(s)
  IN  [leave(popped(one)) EXCEPT !.pc = (address(top(s), top(one)) + 1) % 65536]

RTI(s) ==
  LET one == popped(s)
      two == popped(one)
  IN  [leave(setProcessorStatus(popped(two), top(s))) EXCEPT
         !.pc = address(top(one), top(two))]

PHA(s) == stackPush(fetched(s, 1), s.a)
PLA(s) == [popped(fetched(s, 1)) EXCEPT !.a = top(s)]

(* The break flag is always set in the pushed value.                       *)
PHP(s) == stackPush(fetched(s, 1), getStatusFlag([s EXCEPT !.b = TRUE]))
PLP(s) == setProcessorStatus(popped(fetched(s, 1)), top(s))

CLI(s) == [fetched(s, 1) EXCEPT !.i = FALSE]
SEI(s) == [fetched(s, 1) EXCEPT !.i = TRUE]
CLC(s) == [fetched(s, 1) EXCEPT !.c = FALSE]
SEC(s) == [fetched(s, 1) EXCEPT !.c = TRUE]
LDA(s, v) == [fetched(s, 2) EXCEPT !.a = v]
JMP(s, target) == [s EXCEPT !.pc = target]

-----------------------------------------------------------------------------
(* Cpu.step of a program that has instruction at the program counter, and  *)
(* the calls the devices and the simulator make between two steps.         *)

started == takeInterrupt(cpu)

(* The operands with which instruction op may be next.                     *)
fetch(op) == IF started.pc \in CodeAddrs
             THEN {ins.arg : ins \in {x \in Program[started.pc] : x.op = op}}
             ELSE {}

result(s) == /\ Len(s.shadow) <= MaxPushed
             /\ cpu' = s

StepBRK == fetch("BRK") # {} /\ result(BRK(started))
StepRTS == fetch("RTS") # {} /\ mayReturn(started, {"call"}) /\ result(RTS(started))
StepRTI == fetch("RTI") # {} /\ mayReturn(started, Entries) /\ result(RTI(started))
StepPHA == fetch("PHA") # {} /\ result(PHA(started))
StepPLA == fetch("PLA") # {} /\ localBytes(started) > 0 /\ result(PLA(started))
StepPHP == fetch("PHP") # {} /\ result(PHP(started))
StepPLP == fetch("PLP") # {} /\ localBytes(started) > 0 /\ result(noteMask(PLP(started)))
StepCLI == fetch("CLI") # {} /\ result(noteMask(CLI(started)))
StepSEI == fetch("SEI") # {} /\ result(SEI(started))
StepCLC == fetch("CLC") # {} /\ result(CLC(started))
StepSEC == fetch("SEC") # {} /\ result(SEC(started))
StepLDA == \E v \in fetch("LDA") : result(LDA(started, v))
StepJSR == \E n \in fetch("JSR") : result(JSR(started, n))
StepJMP == \E n \in fetch("JMP") : result(JMP(started, n))

assertIrq == cpu' = [cpu EXCEPT !.irq = TRUE]
assertNmi == cpu' = [cpu EXCEPT !.nmi = TRUE]
Reset     == cpu' = reset(cpu)

Next == \/ StepBRK \/ StepRTS \/ StepRTI \/ StepPHA \/ StepPLA \/ StepPHP
        \/ StepPLP \/ StepCLI \/ StepSEI \/ StepCLC \/ StepSEC
        \/ StepLDA \/ StepJSR \/ StepJMP
        \/ assertIrq \/ assertNmi \/ Reset

Spec == Init /\ [][Next]_cpu

TypeOK == cpu \in States

-----------------------------------------------------------------------------
(* The stack page is a last-in first-out store of StackSize bytes: as long *)
(* as no more were pushed since the last reset, the k-th byte pushed and   *)
(* not yet pulled is in its place, although sp wraps around when the page  *)
(* is full (Cpu.stackPush, stackPop).                                      *)
Lifo(s) ==
  s.deepest <= StackSize =>
    \A k \in 1 .. Len(s.shadow) : s.stack[StackSize - k] = s.shadow[k]

StackIsLifo == Lifo(cpu)

(* RTS and RTI resume the activation below: at the program counter that    *)
(* was interrupted or follows the JSR and, after an interrupt, with its I  *)
(* and carry flags.  (The live break flag is not preserved: taking an IRQ  *)
(* clears it before the status is pushed.)                                 *)
ReturnResumes ==
  [][ LET f == topFrame(cpu)
      IN  /\ Len(cpu'.frames) < Len(cpu.frames)
          /\ cpu'.frames # <<>> \/ cpu' # reset(cpu)
          /\ cpu.deepest <= StackSize
          => /\ cpu'.pc = f.ret
             /\ f.kind # "call" => /\ cpu'.i = ((f.status \div 4) % 2 = 1)
                                   /\ cpu'.c = (f.status % 2 = 1) ]_cpu

(* An IRQ that is not taken in a step, because an NMI goes first or I is   *)
(* set, stays pending; only BRK, which shares clearIrq with it, and reset  *)
(* drop it.                                                                *)
PendingIrqKept ==
  [][ cpu.irq /\ ~cpu'.irq /\ (cpu.nmi \/ cpu.i) =>
        \/ cpu' = reset(cpu)
        \/ cpu'.frames # <<>> /\ topFrame(cpu').kind = "brk" ]_cpu

(* A handler that reads the byte the interrupt left on the stack page can  *)
(* tell a BRK from an interrupt by its B bit, whatever the break flag was  *)
(* left at before and whatever was nested, pushed and pulled above since,  *)
(* as long as the page was not overrun.                                    *)
BreakVisible ==
  cpu.deepest <= StackSize =>
  \A k \in DOMAIN cpu.frames :
    LET f    == cpu.frames[k]
        byte == cpu.stack[StackSize - (f.at + 3)]
    IN  f.kind # "call" => (byte \div 16) % 2 = IF f.kind = "brk" THEN 1 ELSE 0

(* An IRQ interrupts a handler only after that handler has cleared I       *)
(* itself: whatever came and went in between, be it an NMI, a BRK or a     *)
(* subroutine that saves and restores the flags.                           *)
NestingNeedsUnmask ==
  cpu.deepest <= StackSize =>
  \A j, k \in DOMAIN cpu.frames :
    /\ cpu.frames[j].kind = "irq"
    /\ k < j
    /\ cpu.frames[k].kind # "call"
    /\ \A m \in k + 1 .. j - 1 : cpu.frames[m].kind = "call"
    => ~cpu.frames[k].masked
=============================================================================
