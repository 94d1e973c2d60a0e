# Formal models of 6502-Builds

This directory holds TLA+ models of the programs in this repository, the TLC
configurations that check them on small instances, and theorems about them that
the TLA+ proof system (TLAPS) checks for every value of the constants. A reader
needs the repository next to it: every definition translates code, and
`PROJECT.json` names the lines (`map`).

- [The system](#the-system): an inventory, with the state, the operations and
  the hazards of every component
- [The models](#the-models): module by module
- [What the runs show](#what-the-runs-show): bounds, fairness, results
- [What is proved](#what-is-proved)
- [Disagreements](#disagreements) between the code and its comments
- [Not modelled](#not-modelled) and [the plan](#the-plan)

To check a model: `tlc -config MCTraceWindow.cfg MCTraceWindow.tla`; to check
proofs: `tlapm RunControl_proofs.tla`.

## The system

The repository collects what one person needs to build 6502 computers: a
simulator of such machines written in Java (Symon), the monitors, drivers and
BASIC interpreters that run on them, in assembly language, and the toolchain.
Symon is where threads, callbacks and simulated hardware meet. The assembly
programs are sequential and alone on their machine, apart from what the
hardware does to them.

### Symon: threads

| thread | runs | touches |
|---|---|---|
| event dispatch thread (EDT) | button and menu handlers, key presses, repainting, Runnables posted with `invokeLater` | everything |
| run loop threads | `Simulator.RunLoop`: `step()` until told to stop | CPU, bus, devices, type-ahead buffer, trace log |
| main thread | `Main`: creates a simulator, waits for "switch machine" | the command monitor |
| cursor blinker | `VideoWindow.CursorBlinker`, on a timer | the video window |

`Simulator` has no lock for the machine it simulates. What keeps two threads
from stepping one CPU is that the buttons are in the right state at the right
time; they are set by Runnables the run loop posts. That protocol is the core of
the program and the first thing modelled.

### Symon: components

**Run control** (`Simulator.java`). *State*: `runLoop`, `isRunning` of each
loop, the text and enabled state of the controls, the step count, the queue of
Runnables. *Operations*: Run/Stop, Reset, Step, Load Program, Load ROM, Switch
machine; in the loop: begin, report, step, look for a key, move it, decide to
go on, report, end. *Interactions*: starts threads, receives Runnables from
them; both sides use the console's buffer. *Hard*: every interleaving of a
hasty user with loops that start and end; a stop that overtakes the start; an
exception in the middle of a step. *Correct when* one thread at a time uses the
machine, every live loop can be stopped, and the controls say what is running.

**CPU** (`Cpu.java`, `CpuState.java`, `InstructionTable.java`). *State*:
registers, flags, two interrupt lines, the memory behind the bus. *Operations*:
`reset`, `step`, `assertIrq`/`clearIrq`, `assertNmi`/`clearNmi`. *Interactions*:
reads and writes the bus; the devices assert its lines. *Hard*: interrupts at
every point of nested handlers, BRK and IRQ on one vector, wrap-around of stack
pointer and program counter, decimal arithmetic. *Correct when* returns resume
what was interrupted, nothing pending is forgotten, the stack is a stack, and
each instruction computes what the data sheet says.

**Serial terminal** (`Acia*.java`, `Console.java`, `FifoRingBuffer.java`).
*State*: the type-ahead buffer; receive and transmit registers, their full and
empty flags, overrun, interrupt enables, times of last transfers. *Operations*:
key press, status/data/command reads and writes of the guest, the transfers
`Simulator.step` makes after every instruction, reset. *Interactions*: three
parties share one register pair, two of them on other threads; the ACIA asserts
the CPU's IRQ. *Hard*: overwriting at both buffers, reads with side effects
from the memory window, interrupts that are raised once, delays. *Correct when*
what arrives is in order and not duplicated, every loss is reported, and the
guest is not left waiting.

**Bus and machines** (`Bus.java`, `MemoryRange.java`, `Device.java`,
`machines/*`). *State*: devices by priority, a lookup table. *Operations*: add,
remove, replace ROM, read, write. *Interactions*: the EDT changes the map while
a loop reads through it. *Hard*: the table is rebuilt in place; overlapping
ranges. *Correct when* each address leads to the device it should, always with
an offset in that device's range.

**CRT controller and video window** (`Crtc.java`, `VideoWindow.java`). *State*:
a register file, a current register, derived page size; a cache of the geometry
in the window. *Operations*: select and write a register; paint; blink. *Hard*:
16-bit values written as two bytes with a check after each; a listener called on
the CPU's thread. *Correct when* the displayed page stays in memory and the
window shows what the registers say.

**SD card controller** (`SdController.java`). *State*: mode, block address,
position, two buffers, the image file. *Operations*: command, data, status,
address bytes. *Hard*: abandoned transfers, short files, addresses beyond an
int. *Correct when* it is a block store.

**Memory** (`Memory.java`): an array, read-only or not, with a file loader.
**VIA, PIA** (`Via6522.java`, `Pia.java`): stubs.

**Trace log** (`TraceLog.java`). *State*: a buffer of executed instructions, the
text that was made of it, whether the text area is enabled. *Operations*: append
after an instruction, redraw, reset, show and hide. *Interactions*: run loop and
EDT append; reports, updates and the menu redraw. *Hard*: updates that come while
a loop runs are dropped. *Correct when* the window shows every step once all is
quiet.

**Memory window, breakpoints, status panel, preferences**: windows. *Hard*: device
reads made for display.

**Main** (`Main.java`): the hand-over when another machine is chosen, with a
`wait` that has no condition.

### Programs for the machines

| program | state and operations | hard | correct when |
|---|---|---|---|
| JMon (`jmon/jmon.s`) | pointers and registers in page zero; copy, search, verify, fill, dump, go, math | overlapping copies, ranges to $FFFF, ESC out of nested input | each command does to memory what its help says, and the stack stays level |
| Woz monitor (`wozmon/wozmon.s`) | an input line, a mode, two addresses | the index that starts before the line, the order of mode changes | a line is parsed into examine, store and run |
| Potpourri6502 monitor and drivers (`Potpourri6502/*.asm`) | single-letter commands; ACIA, LCD, VIA | a subroutine left by a jump; delays instead of a status bit | the loop keeps the stack level; drivers follow the chips' protocols |
| PS/2 driver (`Potpourri6502/pckybd.asm`) | shift, control and lock flags; bits on two wires | resends, false start bits, extended and break codes | the ASCII returned is what was pressed |
| Microsoft BASIC (`msbasic/*.s`) | program lines, variables, arrays, strings growing towards each other, frames on the stack | inserting lines, FOR and GOSUB frames, string garbage collection | lines are sorted and linked, frames nest, collection preserves the values |
| EhBASIC, Tiny BASIC, microchess | third-party | | |

## The models

### RunControl — `Simulator.java`

One member of `Loops` is one `RunLoop` object; `pc[l]` is where its thread is in
`run()`, `edt` where the EDT is in its handler. The EDT handles one event at a
time, but `Simulator.step` is split at the points where another thread can get
between (`EdtStepCpu`, `EdtHasInput`, `EdtPop`), and so is the loop's
(`StepCpu`, `HasInput`, `Pop`, `shouldContinue`). `handleReset` is `ResetBegin`
and `ResetEnd`, since the loop's thread goes on in between. `queue` is the event
queue's Runnables, in order; a file chooser (`edt = "dialog"`) keeps serving it.
`typeAhead` counts the keys in the console's buffer. What a Cpu.step computes is
left out; that it may throw, and that a breakpoint or BRK may end the loop, is a
choice. The run loop reads `isRunning` afresh in each iteration, because each
passes through a monitor.

`hasty` is history: some control was used in a state that was not `settled`
(nothing queued, and any live loop stepping). The properties about correct
controls hold for the user who waits; what a hasty user can do to the program is
real, and shown by a run that expects a violation.

### TraceWindow — `TraceLog.java`, `Simulator.java`

Every action of `RunControl` with what the same handler or thread does to the trace
window, conjoined to it, plus the menu item (`ToggleTraceWindow`, which redraws a
hidden window and shows it, loop or no loop) and the Runnable of
`updateVisibleState` (`Update`). The text is not spelled out: `trace` says whether
it holds every step of the buffer. `update` is apart from `RunControl`'s queue: the
Runnable only redraws, so it may run in any order with the reports, which is more
than the event queue allows, and one stands for all that wait. An exception in the
middle of `handleStep` leaves it without the update that would redraw; a window
that was behind then is `"lost"`, and nothing is promised of it until it is redrawn.

### CpuInterrupts — `Cpu.java`

The functions (`stackPush`, `handleInterrupt`, `JSR`, `RTI`, ...) take a CPU
state and return one, like the methods of `Cpu`. A step takes a pending NMI or
enabled IRQ and then executes an instruction in the same call, as `Cpu.step`
does. The program is a constant, a set of possible instructions per address.
Two history fields, `shadow` (bytes pushed and not pulled) and `frames`
(activations), say what the stack should hold; the stack page itself is the
array the code uses, and `top` reads only that, as does `BreakVisible`, which takes
the status byte from the page as a handler would. Programs are structured: they
return to where they were entered from and pull what they pushed.

### SerialTerminal — `Acia*.java`, `Console.java`, `Simulator.step`, echo programs

A character is the number of the key press that made it, so that order and loss
can be seen. `step` is one instruction of the guest, followed by the transfers:
a character in the transmitter goes to the console, a key in the buffer goes
into the receiver, *whether or not it is free*. The memory window may read the
data register between two instructions (`getValueAt`) and inside a step, before
the transfers. Time is two flags, "less than the baud delay has passed since".
The guest is the polling echo of `samples/echo_poll.asm` (with `ACIA_READ` and
`ACIA_ECHO` of `Potpourri6502/acia.asm` the same loop), which may also reprogram
the ACIA, or the one of `samples/echo_irq/echo_irq.asm`, whose handler reads the
data register without a look at the status. Between its accesses any number of
other instructions run (`GuestOther`), and a transfer follows each. `since` is
history, not the overrun bit written twice: it counts the characters that arrived
since the guest's own last read or a reset, and notes whether the memory window
took one of them.

### Bus — `Bus.java`, `MemoryRange.java`, `setRom`

`addDevice`, `removeDevice` and `setRom` end in `rebuild`, which publishes an
empty table; `enterNext` fills in one device at a time, in the order of the
`TreeSet` the code uses (by start address; equal start addresses are one
element). `lookup` and `callDevice` are the two halves of a read or write on the
CPU's thread; any part of a rebuild may come between. In `MCDevices` the ROM
contains an I/O window, as on the Multicomp machine. The names begin with `Bus`
where `SerialTerminal` has the same, since one instance holds both.

### Crtc, VideoWindow — `Crtc.java`, `VideoWindow.java`

`Crtc` is the register file as the guest's thread writes it: assign the field
(`writeRegisterValue`), check, and then refuse with one field restored
(`RefusePage`, `RefuseCursor`) or call the listener. `VideoWindow` composes it
with the three steps of the listener (`copyGeometry`, `copyBlinkRate`,
`buildImage`), with a paint that reads registers and copied geometry cell by
cell on the event dispatch thread, and with the timer that posts blink
Runnables. A write that was refused leaves registers that no listener has seen;
the window copies all of them at the next one that is accepted. Two history
variables name what the code does not protect against: `disturbed` (the shape of
the page changed, or was illegal, during the frame) and `overtaken` (the rate
changed between a blink Runnable's test and its toggle).

### BlockStore, SdController — `SdController.java`

`BlockStore` is what a guest may expect of a card: whole sectors, read when the
command is given and written with the last byte, whatever is abandoned, and
transfers that fail. `SdController` has the registers, the two buffers with their
positions, the file, whose reads and writes may fail or come short, and the byte
arithmetic of Java (a signed int for the position, signed bytes on reading). The
run checks `SdController` as an implementation of `BlockStore`.

### Ps2Keyboard, KeyboardDriver — `pckybd.asm`

`Ps2Keyboard` is the device as the driver uses it (external; it holds what a
keyboard with scan code set 2 does): keys go down and up, codes of one to eight
bytes are buffered, commands are answered, a damaged byte is asked for again.
`KeyboardDriver` is the driver: `pc` and `calls` are its program counter and
return addresses, since `kbinit` is entered by a jump from anywhere in `kbsend`.
`KBINPUT` with its prefixes, locks and LEDs, `kbget`, `kbsend`, `kbresend` and
the restart are actions; the scan-code tables are reduced to ten keys that take
every path. A byte on the two wires is one step; a parity error or a missing
acknowledge is a choice, within bounds. `InOrder`, the safe half of `KeysDelivered`,
holds for any number of damaged bytes. What must happen in the end, and
`LedsShown`, are promised for one (`errors <= 1`): when the LED command and the
request to send it again are both damaged, `kbget` has put its own request in the
place of the byte `kbresend` is to repeat, and the two ask each other for the LEDs
for ever.

### JMonMemory — `jmon.s`

Copy, fill, verify and search as loops of one step a pass, on a memory in whose
first cells the arguments lie, where the loops count them; so a command can
overwrite its own arguments. `Enter` and `Escape` are the prompts. `T1` is the
scratch cell that `GetByte` and `PrintString` write, and so every command changes
it. An address is one cell (so T1 and T2 are one), and all strings are at one
address.

### WozMon — `wozmon.s`

The line editor (`NEXTCHAR`, `BACKSPACE`) and the parser, character by character
(`NEXTITEM`, `NEXTHEX`, `NOTHEX`), with the characters as the numbers KBD
delivers and the constants as the port writes them. `NOTHEX` stores a byte (`store`)
wherever `ST` points - into the line, into the mode, XAM or ST itself, or elsewhere
in memory - or opens and prints addresses (`examine`). RESET sets none of these
variables, so that `XAM`, `ST` and the cells of the line begin with any value of
`Words` and `Cells`. `edited` is history: the line as the keys say it should be,
which the buffer is compared with; `lineEnd` is where the return of the line is that
is parsed. Stores to the registers of the PIA are not modelled.

### Alu — `Cpu.java`

`adc`, `sbc`, their decimal forms, `cmp`, shifts and rotations are operators on
bytes; `AluByte` applies one to the next byte of a number, with the carry, and
the properties speak of the whole number.

### MachineSwitch — `Main.java`, `Simulator.java`

The main thread creates a simulator and waits in its monitor; the event dispatch
thread opens and closes windows, and gives the command and the notification as
two steps. A wait may end of itself (`SpuriousWakeup`).

### BasicStrings — `msbasic/string.s`, `memory.s`, `misc1.s`, `array.s`

The string space of Microsoft BASIC as built for this board: a memory with
program text, arrays, free space and strings; a descriptor per variable, array
element and temporary; `STREND`, `FRETOP` and `TEMPPT`. `Literal`, `Variable`,
`NewArray`, `CHRSTR`, `SUBSTRING` (LEFT$, RIGHT$, MID$), `CAT`, `PUTSTR`, `FREFAC`
and `CLEARC` are the operations expressions and assignments are made of; each one
does all its routine does, the collection in the middle included (`GETSPA`,
`GARBAG`, `REASON`). `meant` and `assigned` are history: the values the same
operations have in mathematics. The collector of this build has a defect (see
Disagreements); `forsaken` and `spoiled` say when it has struck, and what is
stated without them is stated of everything else.

### The samples of the compiler

`DiskCopy` (`diodemo.c`) is checked as an implementation of `SectorCopy`, a copy
that goes sector by sector, or fails, or ends. `Overlays` holds the three overlay
programs (`multidemo.c`, `overlaydemo.c`, `geos/overlay-demo.c`); `SidPlayer` the
player of `nachtm.c` with its clock; `PageFlip` the double buffering of `fire.c`
and `plasma.c` against the interrupt handler of the C128; `DirWalk` the recursion
of `enumdevdir.c` with its one current directory; `Gunzip` the buffer that
`gunzip65.c` inflates in place; `MouseTest` the calls of `mousetest.c`; `Sieve` and
`Mandelbrot` the calculations of `sieve.c` and `mandelbrot.c`. `Samples` puts the
last four together, whose property is one about results.

What these programs take from outside is in constants: how the linker limits an
overlay (`AreaSize`), how far inflate is with input and output behind each piece of
a file (`ends`), that directories are trees (`TreeAssumption`).

## What the runs show

| run | module | instance | shows |
|---|---|---|---|
| `run_control` | `MCTraceWindow` | 3 loops, 1 key, 2 steps per click; 2 loops with the trace window | `OneMachineUser`, `NoOrphan`, `ControlsTrackLoop` for the user who waits; `ControlsSettle` and `TraceShown` for every user |
| `run_control_live` | `MCRunControl` | 2 loops, 2 steps per click | `StopHonoured`: every stop, reset or change of machine ends the loop it meant |
| `run_control_step` | `MCRunControl` | 2 loops | a disagreement, below |
| `cpu_interrupts` | `MCCpuInterrupts` | stack page of 6 bytes, a program across $FFFF/$0000 | `StackIsLifo`, `ReturnResumes`, `PendingIrqKept`, `BreakVisible`, `NestingNeedsUnmask` |
| `devices` | `MCDevices` | terminal: 7 keys, buffer of 3, baud delay, memory window; 6551 polled and interrupted, 6850 polled, 6551 polled without the window. Bus: 7 devices on 7 addresses, 2 priorities | `OrderKept`, `EchoIsFaithful`, `LossReported`, `InterruptPending`, `LastKeyReceived`; `HighestStartWins`, `OffsetInRange`, `RomReplaced` |
| `bus_priority` | `MCDevices` | the same | a disagreement, below |
| `video` | `VideoWindow` | 3 addresses, bytes of 2 values, sizes 1 and 2 | `CanScroll`, `WindowFollows`, `FrameInBounds`, `CursorShown` |
| `sd_card` | `SdController` | sectors of 2 bytes, a file of 5 that may grow to 7, addresses to 7, an int that ends at sector 3 | `ImplementsStore` |
| `keyboard` | `KeyboardDriver` | 10 keys, 3 presses or releases, 1 damaged byte, 1 refused byte | `KeysDelivered`, `ModifiersTracked`, `LedsShown`, `ComesBack` |
| `programs` | `MCPrograms` | each program as described below | `NoFlicker`, `TreeListed`, `SamplesRight`, `CommandsExact`, `LineAsEdited`, `ArithmeticRight`, `StringsKept`, `ImplementsSectorCopy`, `OverlaysKept`, `MusicPlayed`, `ProgramsReturn`, `SwitchHonoured` |
| `jmon_overlap`, `string_heap` | `MCPrograms` | the same | two disagreements |

`MCDevices` and `MCPrograms` put components that have nothing to do with each
other into one run: a constant of the state chooses the one that moves, the rest
stand still where they begin.

Each property is shown not to be vacuous by a mutant of the code that breaks it
(the definitions whose comment begins "Mutant"). What properties promise under a
condition, they promise because the code does not protect the rest: a user who
does not wait (`hasty`), a frame that was `disturbed`, a keyboard whose buffer
overflowed or which was restarted (`Faithful`), a directory that could not be
left (`lost`), the wrong disk (`wrong`), a command whose target contains its own
arguments (`apart`), a collection that stopped too early (`forsaken`, `spoiled`),
a character the memory window took, and with it the report of a loss
(`since.taken`), a page whose size was refused (`reshaping`), a line of the Woz
monitor that stored over its own return (`LineEnds`: without this excuse TLC finds
the parser running on, with ST = 513), a gzip file that does not fit in place
(`fitsInPlace`), a byte the keyboard refused (`refused`).

**Bounds.** *Loops*: a loop object is never used again; with three, one can be
ending, one starting and one be ahead in the queue, which is as many as the
protocol tells apart (a fourth adds a further copy of one of these). With
the trace window two are used, one ending and one running (`MCTraceWindow` has both
instances); two steps per click make one that is not the last. *Queue*:
`MaxQueue` only keeps the user from opening file choosers without end; loops
post two Runnables each. *Type-ahead in run control*: one key is enough for "a
key is there" and "it is gone when popped". *Stack page*: six bytes hold two
interrupt frames, or a subroutine in an interrupt; the seventh wraps, and
`MaxPushed` = 7 allows that. *Program*: every modelled instruction occurs, a
JSR's return address and an instruction cross $FFFF, and handlers may unmask.
*Serial*: seven keys overflow a buffer of three while one is in the receiver and
another in the transmitter. *Bus*: the overlapping devices cover each relation
of two ranges (from below, same start, contained, beyond the end), and two
priorities are all the machines use. *Video*: with a page of up to four cells in
three of memory, every size can be too large, every start too far, and an
intermediate start illegal; one blink Runnable is posted at a time, as the one
behind it adds nothing to the order. *SD card*: the file ends inside its third
sector, sectors behind it exist that an int reaches and that it does not, and one
growth of the file covers a write behind the end. *Keyboard*: three events are a
modifier or lock with a key inside, or a lock switched twice; a code has at most
eight bytes, and a buffer of ten overflows on the second long one. One damaged
byte falls on every byte of every code and answer. *Copy*: a heap that holds
nothing, a part or all of the disk, five sectors. *Overlays*: three, of one, two
and three pages, and extended memory for none, some and all. *SidPlayer*: a clock
byte of eight values with two per tone, so that every missed poll meets its
value again. *JMon*: twelve cells, all starts, ends and destinations, one
command. *Woz*: seven characters with each role the parser tells apart, five
keys, a line of four, in a page of eight cells; a store pointer that begins at the
mode, at itself, in the line and at the cell the parser starts with (the examine
pointer alike); six stores, more than a line that ends needs. *Alu*: two-byte numbers made of seven bytes at the borders
of digits, nibbles and signs. *Strings*: seven operations in a space of three
characters with two temporaries (the code has three); the run ends where the
value of a spoiled expression was assigned.

**Fairness.** `RunControl`: each loop's thread is scheduled (weak fairness of
its next step), the EDT ends its handlers, and the event queue is served first
in, first out, so that a stream of key presses cannot hold back a Runnable for
ever (strong fairness of `Dispatch`). Nothing is assumed of the user: no button
is fair, and a dialog may be assumed to close, as it keeps serving the queue
meanwhile. `SerialTerminal`: the run loop executes instructions, time passes.
Nothing is assumed of who types. The memory window, which may take every single
character, and reprogramming the ACIA are not part of the liveness machine.
`VideoWindow`: the timer runs, a handler on the event dispatch thread ends, and a
blink Runnable gets its turn (strong fairness: the queue is first in, first
out). `KeyboardDriver`: the driver runs, and the keyboard sends what it has when it
may. `MCPrograms`: the program runs; in `DiskCopy` the user answers a prompt; in
`SidPlayer` the clock goes on, and the poll, which is much shorter than a tick,
does not miss its value for ever (strong fairness of `TimeSync`); in
`MachineSwitch` both threads run. `SdController` needs none.

## What is proved

TLAPS checks these for all values of the constants, under the assumptions named
in each module. Most say what kind of value a constant is, and that buffers,
stacks, sectors and memories are not empty. Five say more: an operand is a byte
and a number has at most three (`AluAssumption`, the numbers the programs here
add); an overlay is no larger than the area it is linked for
(`OverlayAssumption`); a directory has one name and one place (`TreeAssumption`);
what inflate has read and written grows piece by piece (`GunzipAssumption`);
variables and temporaries have different descriptors, there are finitely many
variables, and a literal lies in the program (`BasicAssumption`). Each
`TypeCorrect` is the typed part of the invariant behind the others.

- **RunControl_proofs**: `TypeCorrect`; for the user who waits `OneUserCorrect`,
  `NoOrphanCorrect`, `ControlsCorrect`. The invariant (`Calm`) is needed because
  none of the three is inductive: that a second loop is not started depends on
  `runLoop` referring to the live one, that the step button is disabled depends
  on the Runnable that disables it being in the queue or done, and that in turn
  depends on the queue having been empty when the loop was started. `Calm` says:
  at most one loop is alive and it is `runLoop` unless it was told to stop; the
  EDT does not use the machine meanwhile; a loop that is starting has an empty
  queue and quiet controls; a stepping one has just its first report queued, or
  the controls show it. For every user, the hasty one included, `SettleCorrect`
  (`ControlsSettle`): each start that is queued or shown by the button has a stop
  behind it in the queue, unless there is a loop that still owes one, or crashed
  (`Accounted`). `TraceCorrect` (`TraceShown`), for every user too: a window that is
  behind has something ahead that will redraw it - a last report that is queued or
  that a loop owes, an update that is queued while the text area is enabled, or a
  step in progress that ends in one - and a disabled text area always has a last
  report ahead (`TraceInv`, `WillReport`).
- **CpuInterrupts_proofs**: `TypeCorrect`, `StackCorrect`, `ReturnsCorrect`, for
  every program, vectors and stack size. The invariant relates three views of
  the stack: the array with `sp`, the bytes that were pushed, and the
  activations. Its parts: `sp` is the number of pushed bytes below the top,
  modulo the page; as long as the page was not overrun the k-th byte is in the
  k-th slot; activations lie above one another; and each one's two or three
  bytes spell its return address and status. The arithmetic (a word is put
  together from its bytes; I and C are read back from the status byte) is proved
  as lemmas. `BreakCorrect` (`BreakVisible`; it takes the byte from the page, which
  the invariant says still holds what the interrupt pushed), `NestingCorrect`
  (`NestingNeedsUnmask`) and `PendingCorrect` (`PendingIrqKept`) hold for every
  program as well. `NestingNeedsUnmask` is about two neighbouring handlers only,
  but an RTI goes back to the outer one, so the invariant (`Masks`) covers the
  whole chain: I is set while the innermost handler counts as masked, and for
  each handler that does the status byte of the next one above has I set, to be
  restored when it returns.
- **Alu_proofs**: `ArithmeticIsRight`, for all operands, digits or not where that
  matters, and every carry to begin with. The invariant (`AluIInv`) says that after
  n bytes the bytes so far and the carry together are the result for the low n
  bytes (for a right shift, the high ones). The lemmas are about one byte: what a
  decimal addition with its two corrections makes of two bytes of digits, and that
  the overflow flag, which the code takes from two carries, is set when the signed
  result does not fit.
- **Devices_proofs**, the serial console: `TerminalTypeCorrect`, `OrderCorrect`,
  `EchoCorrect`, `LossCorrect` and `InterruptCorrect`, for either ACIA and guest
  and any delay. The invariant orders the whole pipeline: characters received so
  far, the one in the accumulator or receiver, those in the buffer, the last
  typed, each less than the next; says what is in the transmitter at each point
  of the guest; and that a pending interrupt means a character newer than all
  that were read. For the losses (`Told`): what arrived since the guest's read and
  was not taken by the window is in the receiver, and if it was more than one
  character the overrun bit is set. The bus: `BusTypeCorrect`, `OffsetsCorrect`, `TableCorrect`. The
  invariant says that during a rebuild the table shows, for the devices already
  entered, the one with the highest start, and that all that are missing start no
  lower than those. `RomCorrect` (`RomReplaced`) holds for machines whose ROMs
  share one range in which no other device starts (`RomsAlike`), as the machines
  with a ROM have it: the entries of the other devices are then the same before
  and after, and the new ROM competes with them as the old one did.
- **VideoWindow_proofs**: `TypeCorrect`, `PageCorrect` (`PageStaysInMemory`),
  `WindowCorrect` (`WindowFollows`), for every memory and every value written.
  The heart of the invariant is `Refusable`: a write the check refuses restores
  the state before it, which the window shows, or one that is still illegal. Then
  `FrameCorrect` (`FrameInBounds`), from the agreement of registers and window at
  every point of a write while the page keeps its shape (`PageShown`), and
  `ScrollCorrect` (`CanScroll`): after each byte both checks are made, of page and
  cursor, so it rests on the registers being legal before - which a refused address
  restores and a refused size does not (`reshaping`) - and on one order of the two
  bytes having an address in between that fits when the old and the new one do
  (`OneOrderHasRoom`). With a start or a cursor that stays where it is, `CanScroll`
  says in particular that page and cursor are in memory.
- **SdController_proofs**: `TypeCorrect` and `StoreImplemented`, the refinement,
  for every size of sector, card, byte, address register and int that reaches the
  end of the card. It needs no history: the store's disk and remainder of a
  transfer are functions of the controller's state. The work is in where a sector
  lies in the file after its position went through an int and past the file's end.
- **Potpourri_proofs**, the keyboard driver, for every set of keys, size of the buffer
  and number of presses, damaged and refused bytes. `LedsAreShown` (`LedsShown`):
  the invariant (`LedIInv`) says at every place of the driver what is left of the
  answer to the LED command, and that a damaged one is still known where the
  keyboard asks for it. `ModifiersAreTracked` (`ModifiersTracked`) and
  `KeysAreInOrder` (`InOrder`, the safe half of `KeysDelivered`) come from one
  invariant, `TrackIInv`. Neither is inductive, as both speak of codes that were
  read while codes wait in the keyboard, half of a key's among them. The
  invariant looks ahead: `Parse` is what the driver makes of one code, as a function of its place, its bits and the
  characters so far, and what is left to read, with a damaged code that is sent
  again in front, leads from where the driver is to what the user did (`Leads`).
  A press or a release adds codes that lead on from whatever was typed before
  (`UserReads`, one lemma for each kind of key); a code the driver takes is the
  first of what is left; and what happens elsewhere changes neither. Control with
  print screen starts the keyboard anew, after which nothing is claimed: codes that
  will be read to there lead to a part of what was typed (`RightFor`).
  The strings of BASIC, for every program text, size of memory, set of variables
  and number of temporaries: `StringsAreKept` (`StringsKept`). That variables have
  the right bytes is not inductive: a collection, a result or an array could be put
  over them. The invariant (`StringInv`) says where the strings are. Each variable's
  is empty, in the program, or behind the arrays and above `FRETOP`, and apart from
  those of the other variables; unless a temporary was left behind, those of the
  values that wait lie above `FRETOP` too, apart from each other and below those of
  the variables; the temporaries in use are those among the operands, in their order.
  During a collection (`CollectInv`) what was not moved lies below `FRETOP` and what
  was moved above. As the highest string goes first, nothing is moved onto a string
  that is still to move, and as none is moved twice, a scan for each variable moves
  them all or stops at a temporary. For the results: the space lies below every
  string (`Built`), `MOVSTR1` does not come over its source (`Copies`), and a
  temporary that is released gives back only its own bytes.
- **Programs_proofs**, the programs that run alone on their machine:
  - `FlickerFree` (`NoFlicker`): at each statement, which register is the demo's
    and which has been saved.
  - `JMonCommandsAreExact` (`CommandsExact`), for every memory and every place of
    the arguments in it: each loop has done its work exactly up to the cell its
    pointer has come to, and nothing else was touched but the arguments.
  - `CopyKeepsPromise` (`ImplementsSectorCopy`), the refinement, for all disks,
    formats, heaps and failures: every step is a step of `SectorCopy` or none. The
    invariant relates the offsets in the buffer to the sectors, until a wrong disk
    is inserted.
  - `OverlaysAreKept` (`OverlaysKept`): the stored overlays lie apart, below the
    next free page, so that no later copy overwrites an earlier one.
  - `LineIsAsEdited` (`LineAsEdited`): the buffer is the keys edited one by one,
    for every length of line up to the 128 the sign test allows.
  - `SamplesAreRight` (`SamplesRight`), from `SieveIsExact`, `MandelFits`,
    `GoodFileIsInflated` and `PointerTextIsTrue`. The last needs `MaxPresses <= 254`,
    as does the theorem: each press of a key may hide the pointer once more, and
    mousetest counts that in a byte, which wraps. The sieve's invariant is what has been struck out
    so far; that the strikes find every composite rests on its smallest divisor,
    which is not larger than its root. The orbit's is a square around the origin
    from which one iteration cannot leave the range of a short. The inflated file's
    says where the parts of the header end, and that the rest of the compressed
    data is untouched.
  - `TreesAreListed` (`TreeListed`), for trees of any shape and depth: the active
    calls go down one path, each directory of the path was reached by an entry that
    is passed, and what was listed lies behind entries that were passed. So no
    directory can be met again, and none is left out.
  - `BeatsAreOnTime` (`BeatOnTime`), `TonesAreReleased` (`ToneReleased`) and
    `VoicesAreTogether` (`VoicesTogether`), the safety parts of `MusicPlayed`: the
    ticks waited are the distance of the clock to the next beat, but for rounds of
    the clock byte; a voice without ticks has been released; and as no tone is empty,
    a voice is at its end exactly when it has played the length of the piece, so that
    voices that have played equally long end together.

**Only model-checked**: liveness, which this proof system does not reach
(`StopHonoured`, `LastKeyReceived`, `CursorShown`, `ComesBack`, `SwitchHonoured`,
`ProgramsReturn`, and the parts of `KeysDelivered` and `MusicPlayed` that say what
happens in the end). Every safety property of the passing runs is proved. Sums and
scans are recursive functions; what they compute follows from their equations by
the least number for which it fails (`LeastNumber`), as an induction theorem cannot
be instantiated.

## Disagreements

Places where the code does not do what a comment says, each with a run whose
counterexample shows it.

| run | comment | code |
|---|---|---|
| `run_control_step` | "Don't allow step while the simulator is running" (`Simulator.java` 423) | the button turns into Stop only with the loop's first report: Run pressed twice before that starts two, and the last report of the one that ends first enables Step while the other, which has reported, is stepping |
| `bus_priority` | "getDevices() provides an OrderedSet with devices ordered by priorities" (`Bus.java` 83), "create an ordered set of devices, ordered by device priorities" (219) | the set is ordered by start addresses: a device of higher priority that starts where another does is not on the bus at all, and of two that overlap the one that starts higher is seen |
| `jmon_overlap` | "Check that start address < dest address to avoid overlapping memory issues" (`jmon.s` 267) | the copy goes upwards, so that this is the order in which an overlap destroys the source; the other one, which is refused, would be harmless |
| `string_heap` | "Shove all referenced strings as high as possible in memory" (`string.s` 174) | without `CONFIG_2` a descriptor in page zero, that is, of a temporary, is taken for "no string found": the collection ends, and the values waiting in the expression are overwritten |

Others were met on the way and have no run.

*Symon.* A loop that dies of `NoSuchElementException`, because the console was
reset between `hasInput` and the read, never reports, and the menu items stay
disabled. A pending NMI survives the reset that is to bring the CPU "to known
initial values" (`Cpu.java` 108). Keys leave the type-ahead buffer after every
instruction and overwrite one another in the ACIA, so that it holds nothing back
for a slow guest. A key typed before the guest enables the receive interrupt
waits for the next one (`Acia6551.java` 99). `handleReset` does not wait for the
loop it stops. A notification of the command monitor that comes before the wait
is lost, and a wait that ends of itself ends the program (`Simulator.java` 268).
`addDevice` does not look for overlaps (`Bus.java` 125); the ACIAs do assert
interrupts (`Acia6551.java` 31). A size register whose write is refused keeps the
value that was refused (`Crtc.java` 265); a cursor that stops blinking may stay
hidden. Sectors from 2 GB on are written to sector 0, a read that failed still
reports data, and bytes from $80 on are read sign-extended
(`SdController.java` 111-160). The Z flag of a decimal subtraction is that of the
unmasked result.

*Assembly.* The keyboard driver does not notice that the keyboard dropped codes
and keeps a modifier that was released meanwhile; releasing one of two shift
keys clears the bit of both; a byte of the LED command that is refused every time
is sent for ever; two damaged bytes, the LED command and the request to
repeat it, make driver and keyboard ask each other for ever.
The Woz monitor compares what it was sent, which has bit 7 set, with `#'.'`, `#':'`
and `#'R'`, which have it clear: they are not recognised, and the line is thrown
away ("Set BLOCK XAM mode ("." = $AE)", `wozmon.s` 123). Its parser begins at $02FF, a cell no key writes: if it holds a colon,
the line is stored as data at an address that RESET left as it was, which may be
the line itself and its return.

*Samples.* `gunzip65` takes an empty file for a failure; `ascii.c` (69) compares its row
with the height for equality after a pass that may have counted two rows, and
then writes below the screen.

## Not modelled

`PROJECT.json` lists every component with its reason. In short:

- *Third-party programs* that are carried along as software for the board:
  EhBASIC, Tiny BASIC, microchess. Of the compiler only the samples are source
  that runs; the many headers beside them are declarations of constants,
  structures and functions, without behaviour, and `nachtm.c` is for the greater
  part the table of its tones, which the model takes as a constant. The share of
  C lines the models cover is therefore low, and cannot be much higher.
- *Without state worth the name*: the VIA and PIA of Symon (stubs), `Memory`, the
  LCD and VIA routines, `hello.c`, `ascii.c`, `tgidemo.c`, the tutorials.
- *Presentation*: windows, preferences, the layout of numbers.
- *Planned*: the line store, the frames and the numbers of Microsoft BASIC; the
  dump, disassembler and registers of JMon; the addressing modes.

Inside the modelled components: the ACIA's echo mode and parity, the layout of
control bits, Symon's preferences and speed control, the differences between the
CPU models of `InstructionTable.java`, the registers of the CRT controller
without effect, `KBSCAN`, the right shift and Alt keys, strings in the input
buffer and the table of variables of BASIC. A reset is not counted as a user of
the machine by `OneMachineUser`, because `handleReset` never waits for the loop
it stops.

## The plan

In order of importance; what is done comes first.

1. `RunControl`, `TraceWindow`: run control and threads, and the window beside them.
   Checked and proved.
2. `CpuInterrupts`: interrupts and stack. Checked and proved.
3. `SerialTerminal`: console, ACIA, guest. Checked and proved.
4. `Bus`: memory map under a running CPU. Checked and proved.
5. `Crtc`, `VideoWindow`: refused writes and the window that follows. Checked;
   all its invariants are proved, `CursorShown` is liveness.
6. `BlockStore`, `SdController`: the refinement is checked, and proved for every
   size.
7. `Ps2Keyboard`, `KeyboardDriver`: checked, and proved but for liveness.
8. `JMonMemory`, `WozMon`, `Alu` and the samples: checked together, and proved but for
   liveness. `MachineSwitch` is liveness: checked.
   `BasicStrings`: checked and proved.
9. To do: `BasicLines` (the line store implements a map from numbers to lines) and
   `BasicFrames` (FOR and GOSUB frames nest); the other
   commands of JMon; the monitor of Potpourri6502.
