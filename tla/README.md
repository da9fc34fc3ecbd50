# A formal model of Xhomer

Xhomer emulates a DEC Professional 350: a PDP-11/23+ processor (the SIMH
simulator, `src/src/simh`) and the boards of the PRO (`src/src/pro_*.c`).
This directory holds TLA+ modules of the parts of the emulator that keep state
and interact, TLC configurations that check them on small instances, and proofs
of the most important facts for instances of every size.

The emulator is one thread. What makes it hard is that the guest's program, the
devices' delayed events, the host (keyboard, serial ports, mouse) and the
console user act on the same registers in an order nobody chooses, and that
much of the state is a cache of other state: the interrupt line, the trap
request, the translation caches, the active registers, the parameters of a
serial line.

## 1. The system

### Components and their state

| component | source | state | operations |
|---|---|---|---|
| interrupt controllers | `pro_int.c` | request, mask, service, auto-clear and mode registers, vectors, preselected port, bit INT_PIR4 of `int_req` | `pro_int_set`, register read/write with the command decoder, `pro_int_ack`, reset |
| main loop | `simh/pdp11_cpu.c` `sim_instr` | `trap_req`, `int_req`, `ipl`, `sim_interval` | trap and interrupt sequence, clock queue, event of the instruction, execution |
| memory management | `pdp11_cpu.c` `relocR/W/C` | MMR0, MMR2, MMR3, PDR, PAR, two translation caches | translate for read, write, console; register writes; RESET |
| modes and register banks | `pdp11_cpu.c` | PSW, `R[]`, REGFILE, STACKFILE, `isenable`, `dsenable` | traps, RTI, CSM, MTPI/MFPI, PSW writes, stop, start, console |
| instructions | `pdp11_cpu.c` 1023-1117 and 1700-2587 | registers, condition codes, MMR1, MMR2 | one case per opcode, operands by addressing mode, aborts by long jump |
| floating point | `pdp11_fp.c` | six accumulators, FPS, FEC, FEA | one case per opcode |
| event queue | `pro_eq.c` | a ring of one slot per instruction | schedule, serve, reset |
| USARTs | `pro_2661kb.c`, `pro_2661ptr.c` | status, data, mode and command registers, a poll and a write event | poll, end of a write, register accesses |
| communication port | `pro_com.c` | two register files, data queue, interrupt queue, three events | the same, and end-of-interrupt |
| hard disk | `pro_rd.c` | task file, sector buffer, one event, the image file | commands, data words, reset |
| floppy | `pro_rx.c` | command and status registers, sector buffer, door state | commands, menu opening and closing doors |
| clock | `pro_clk.c` | calendar registers, tick counters, two events | periodic and update-cycle events, registers |
| video | `pro_vid.c` | plane control, counters, a command event, a frame event | pixel commands, frame interrupt |
| keyboard | `pro_lk201.c` | modifiers, lock, a ring of what is still to be sent | a key, a command and its answers |
| printer | `pro_la50.c` | filter state, picture, a ring with its level | a character in, a poll of the device |
| tablet | `pro_digipad.c` | mode, last report, a ring | a command, a report |
| host serial line | `pro_serial.c` | file descriptor, buffer | read, write, parameters |
| menu | `pro_menu.c`, `pro_kb.c` | where it stands, device of each port, file and directory of each drive | a key: moves, gives ports, opens and closes doors |
| bus, memory, small registers | `pro_init.c`, `pro_mem.c`, `pro_reg.c`, `pro_maint.c` | address decoder, battery RAM, LEDs | reads, writes, start-up |
| console | `simh/scp.c`, `pdp11_sys.c` | commands, breakpoints | run, reset, examine, deposit |
| screen | `term/*` | window, which lines of it are valid, colour maps, queue of keys | retrace, keys, invalidation |

### How they interact

* A device that needs the guest calls `pro_int_set`; that may raise the bit
  INT_PIR4 of `int_req`, which the loop sees when `calc_ints` next computes
  `trap_req`. The loop acknowledges with `pro_int_ack`.
* A device that needs time calls `pro_eq_sched`; the loop calls its handler
  before the instruction whose slot holds the event.
* A guest access to the I/O page goes through `iopageR/W` to the device's
  `_rd` or `_wr`, and `calc_ints` follows.
* The USARTs and the communication port reach what is attached to them through
  five function pointers (`get`, `put`, `ctrl_get`, `ctrl_put`, `reset`).
* Keys go from the window through the menu into its queue, from there to the
  keyboard, and through the menu again to the keyboard port; keys of a terminal
  on a serial line only through the menu. The menu replaces the five function
  pointers of a port and opens and closes the doors of the floppy drives.
* The video board marks lines invalid, the window draws them at the retrace.
* RESET and RUN at the console reset the event queue and every device; the
  RESET instruction resets only the processor's registers.

### What is hard

Requests that vanish between their computation and their use; events that come
after the operation they belong to was replaced; polls that must never stop;
the queues whose overflow nobody checks; aborts in the middle of a trap; caches
that one forgotten flush makes wrong; a disk write that is interrupted; a
diskette changed while the guest looks away; several codes for one key with a
menu between them; rings without a check for full.
`PROJECT.json` lists the hazards one by one, with their lines and the
properties that would notice.

## 2. The modules

Names are the code's where TLA+ allows it. Each module's comments say what
stands for what; each `..._NoX` definition before an operator is a plausible
slip in the code below it, used to show that the properties can fail.

**`IntController`** has one action per command of the controller, one for a
request, one for the acknowledge cycle and one for reset. The variable `pir4`
is the bit the processor sees, and `Update` is called where the code calls
`pro_int_update`.

**`CpuInterrupts`** EXTENDS it with the loop: `ServeClockQueue`, `TakeTrap`,
`TakeInterrupt`, `AbortInSequence`, `FetchAndEvent`, `FetchAbort`, the kinds of
instruction that matter here, and the console. `trapInt` is TRAP_INT. A vector
of 0 goes through `NothingToDo`, as in the code. Two history variables:
`lag` counts the instructions since a request went unnoticed, up to one more
than the quantum, and `floatAbort` says that a floating-point instruction has
been aborted, which leaves through the long jump before `calc_ints`.

**`Mmu`** is translation without caches; **`MmuCached`** EXTENDS it with the
caches and is shown to implement it. Page indexes are sets of bits because the
code ORs them.

**`Alu`** has one operator per opcode: the result and the condition codes, for
words of any number of bits, in the order the code computes them.
**`Instructions`** executes one instruction on registers and memory with the
operands of all addressing modes. Each reference to memory may abort
(`Abort`, at the reference `fuse` counts to), which leaves what was done before
it, and the guest's handler (`Repair`, external) undoes what MMR1 and MMR2 tell.
The history variable `ideal` is the machine on which nothing aborts.
**`GuestPrograms`** has short programs and what they must compute.

**`RegisterBanks`** is what the programmer's manual promises of the registers;
**`CpuMode`** is the code with its copies, and implements it.

**`EventTimers`** is a timer for each kind of event; **`EventQueue`** is the
ring with probing, and implements it for a guest that waits for its devices.

**`SerialLine`** is a line that neither loses nor repeats a character.
**`Usart2661`** and **`ComPort`** are the controllers with any guest;
**`UsartDriver`** and **`ComDriver`** compose each with an interrupt-driven
program, and implement the line. `pro_2661ptr.c` is line for line the program
of `pro_2661kb.c`, so one module stands for both.

**`SectorStore`** is a store of sectors with whole, addressed updates;
**`RdDisk`** is the disk controller with any guest, **`RdDriver`** composes it
with a driver program and implements the store. A restart can come at any
point.

**`MediaStore`** is a store on diskettes that come and go; **`RxDisk`** is the
floppy controller with its doors, **`RxDriver`** composes it with a program
that asks for the status after each change it hears of, and an operator. A
command runs at once, in the access to the start register, as in the code.

**`FloatingPoint`** is `fp11`: one operator for each instruction on a record of
the machine, whose field `ok` says that it has not been left by a signalled
exception. A number is a sign, an exponent and a fraction, of any width.
`FloatExact` compares what an instruction left with the real result, kept as a
quotient of integers and rounded as the manual says.

**`Clock`** starts with the arithmetic on host time in three digits; the two
events, the counters and the registers follow. The history variables
`origin` and `given` say since when, and how many, ticks were given.

**`Screen`** is the window with its valid lines and colours; **`Video`**
EXTENDS it with the board. A word of memory is the set of its bits that are on.

**`Lk201`** is the keyboard, **`Menu`** the menu with the ports and doors,
**`Desk`** EXTENDS both with the queue of the window and what the machine reads:
`due` is the key it has to read next, with the modifiers it should have.

**`La50`** is the printer. `ring` is what lies between the tail and the head, so
that the put which closes the circle empties it, as in the code. Three history
variables say what happened: `unsent` what the device has still to get (kept
until the ring overruns), `laps` how often it did, `most` how much was put at
once. **`Digipad`** is the tablet.

**`HostSerial`** is one device number of `pro_serial.c` with the lines of the
host that the menu, a reset and an exit give it or take from it; a character is
its line and its number on it, `taken` and `delivered` count those the host
gave and those the machine got.

**`Bus`** is the address decoder with the registers that belong to no device,
and the battery-backed memory with its file; `meant` is what the program may
expect to find.

The driver modules and the programs are not in the repository: they are the
guest's side of the handshake the controllers expect, and are marked external.
So are the pen, the device behind the printer and the operator.

`MCPeripherals` puts the devices that share nothing into one run: the first
state chooses one of ten units (three desks, clock, two video boards, printer,
tablet, serial line, bus) and the others rest.

## 3. The runs

| run | question | instance and bounds |
|---|---|---|
| `int_controller` | is the line exactly what the registers ask for? is every service preceded by a request? | two controllers, two sources each, so both priority between sources and between controllers occur; every register value; every step is checked, but TLC goes on only from states with at most one line in service, only the last line of the first controller bypassing the service register, and vectors written while nothing is requested (`FewInService`); the vectors play no part in the two properties, and all are zero |
| `cpu_interrupts` | does the loop use the controllers properly, never vector without a request, notice one in bounded time? | one controller, one source, priorities 0 and 7, a clock queue of two instructions: a request can arrive before, between and after |
| `cpu_mode` | do the copies of the registers stay invisible? | kernel and supervisor (CSM needs both), two values, a stack space of three words so that addresses wrap |
| `mmu_cached` | are the caches invisible? is the first fault kept? | two pages that collide in the caches, blocks that run past the page and wrap around, both mappings |
| `event_queue` | is no event lost, early or too late? do polls go on? | five kinds of events, two that poll, one that retries, one that spawns; ten slots, the least that satisfies the assumption on intervals |
| `usart_driver` | is every character moved once, in order? | two characters, two modes, normal and loopback; two typed and two pending writes |
| `com_driver` | the same; do the queues stay within their rings? | three-place data ring, five-place interrupt ring; the poll's limit is reached |
| `rd_driver` | are updates whole and in place, and do operations end? | 2x2x2 sectors of two words, addresses one past each limit, two changes, a restart anywhere |
| `rx_driver` | does the program hear of every change of a diskette? are sectors whole, in place, on the right diskette, and errors told? | two drives and a missing one; a writable, a protected and a wrong file; four sectors of two bytes, addresses one past each limit; one write; doors and restarts anywhere |
| `instructions` | is an aborted instruction restarted exactly? do codes and branches, carries, shifts and division agree with integers, floating point with rounded fractions? | words of eight bits (bytes of four): the code's 16 and 8 are the same expressions; operands where signs and carries change, each shift count; every opcode and addressing mode with a general register, SP and PC, up to two aborts at any reference; floating numbers with five bits of exponent and fractions of four and seven bits, at both ends of the range and around one, all in six status words; the results checked are those of sums, products, quotients, MOD, CMP, conversions and LDEXP, the aborts those of any floating instruction |
| `peripherals` | see the next table | |
| `mmu_page_field` | does the page field name the fault (comment at `pdp11_cpu.c:665`)? No | two pages |

The units of `peripherals`:

| unit | property and question | instance |
|---|---|---|
| window | `KeyboardRight`: does the machine read each key with the modifiers it should have (`GuestReads`) and all answers in order (`RepliesInOrder`)? `MenuKept`: does the menu keep devices on one port and files behind their doors? | rings of eight and three, keys that are replaced and keys that are not, the menu with all its items, two drives, commands that lock and reset the keyboard |
| terminal | the same, for keys of a terminal | a directory longer than the menu, one that is gone |
| keyboard | the first | every command of the keyboard, no menu |
| clock | `TicksFollowTime`: is no tick early and none forgotten? `CalendarSteady`: does the calendar change only when the program is warned? | digits of base 2, host time up to 3, rates of 3 and 2 ticks a second, throttle on |
| drawing | `ScreenRight`: does the window show the memory? `DoneIsTold`: is the end of each command told? | two lines of a word of two bits, five commands, two of them under way |
| colours | `ScreenRight` with colour maps, with and without a palette | one colour, a menu over one row |
| printer | `PrintsInOrder`: does the ring hold exactly what is to be printed, when can it overrun, what does the level count? | a ring of six, two columns, rows repeated once, twice and four times, up to three refusals between two resets: the ring overruns by text and by graphics, after refusals, and by a line of four rows without any |
| tablet | `ReportsFollowPen`: is the last report about where the pen is? | a ring of eleven, reports of three, two places |
| serial line | `LinesKept`: is every character of a line delivered once and in order, does a line have the settings asked for while it is open and its own again after? | two lines, one whose waiting characters the host cannot count, four characters on one, a buffer of three, two speeds of which the host has one, the line missing or not at every opening; menu, reset and exit at any moment |
| bus | `BatteryKept`: does the program find in the battery-backed memory what it stored, and nothing of it changed by other writes? | both ends of the memory, the addresses around it, one of each kind; three words, as words and bytes; exits, resets and kills |

Bounds that are not in the code, all named in the modules: `MaxTyped` and
`MaxWrites` (characters on the line, write events pending), `MaxEvents` (disk
events), `MaxChanges` (writes and formats in a run), `Quantum` (10000 in the
code), the `faults` of a program (aborts in it), `MaxTime` (host time), `MaxDrawing`
(commands under way), `MaxCome` (characters on a host line), `HostDepth` (what
the host takes before it refuses); `MaxReferences` is more than an instruction
makes. They limit how often the environment acts. Two are bounds of a run alone,
which neither the module nor its theorem knows: `MaxRefused` (characters the
device refuses between two resets of the printer; three make its ring overrun,
and the code has no limit) and `FewInService` (states from which
`int_controller` goes on; `LineIsExact` and `ServiceFollowsRequest` hold for any
number of controllers, sources and lines in service). Sizes of tables are
constants with the assumptions that the proofs use.

### Fairness

`CpuSpec`: the loop of `sim_instr` is never idle, so its step is weakly fair;
that the guest makes progress (fetches instructions for ever, rather than
aborting each fetch) is a hypothesis of `InterruptServed`. `EventQueue`: an
instruction is fetched and executed whenever the loop runs. Drivers: an event
in the queue comes up (this is what `event_queue` shows), the port does not
refuse a character for ever (the code retries every 1000 instructions), and the
guest's program serves the interrupts it gets. Entering the interrupt routine
of the communication port needs strong fairness, as the program masks
interrupts between two register writes again and again.

## 4. The proofs

TLAPS checks these for every value of the constants that satisfies the named
assumptions. The proofs of a component are in the module `..._proofs` of that
name; those of the interrupt controllers are with the loop, those of the
arithmetic instructions with the modes in `Processor_proofs`, and those of
clock, video, bus, communication port, host serial lines, tablet, printer,
menu, keyboard and screen in `Peripherals_proofs`.

**Interrupts** (`CpuInterrupts_proofs`). Types (`TypeCorrect`), and
`LineAgrees`: the line equals the registers' answer, apart from a request the
processor dropped itself. That equality is inductive because each action
either leaves the registers of the answer alone (`DeliverableFrame`) or ends
with `Update`. `LineIsSound` and `LineIsComplete` follow.
`ServiceFollowsRequest`: a source enters service only in an acknowledge, which
takes the first of the requests that are up, unmasked and above what is in
service; it needs that invariant, because the processor acknowledges by the
line and not by the registers.

A step of the loop is a step of the controllers or leaves them alone
(`CpuImplementsController`), so the theorems above hold of the whole loop.
`CpuInv`, the inductive invariant, says that TRAP_INT at the top of the loop
implies a request, and bounds `lag` by the instructions used up of the quantum;
`TrapIntIsSound` and `LatencyIsBounded` are two of its parts. It needs the
line's soundness, because the acknowledge is defined only for a deliverable
request.

**Memory management** (`MmuCached_proofs`). Types, `FirstFaultIsKept`, and
`CacheInv`: an entry that hits is what the uncached unit would answer now, for
a write including the W bit. Each miss establishes it for one entry, each flush
for all, and each other step leaves what a translation depends on alone.
`CachesAreInvisible` (the unit with caches implements the one without) is then
a case split.

**Registers and arithmetic** (`Processor_proofs`). Types, `SpacesFollowMode`,
and `BanksImplemented`, one lemma for each step of the code, under the
refinement mapping that reads a register from `R` or SP when it is active and
from the files otherwise. For words of every width, `CompareDecides` and
`SubtractDecides` (the codes give every order of the operands, signed or not),
`AddIsExact`, and `DoubleAddIsExact` (ADD, ADC, ADD on two words is addition:
the carry is passed on exactly). Each is a case split on the signs of the
operands; the codes' masks become comparisons with half the word's size.

**Instructions** (`Processor_proofs`). `RestartAlwaysExact`, for any programs,
start values, faults and words (`ProgramsAssumption`; bytes of two bits or more).
`InstrInv` is types and `Restartable`: what the handler can make of an abort.
The proof of a step follows the code: an instruction that may still abort has
made at most two changes to registers, which MMR1 tells and `Undone` takes back,
and has not changed memory (`Early`); its last reference is the one that writes.
This is a lemma for each addressing mode, each operand and each opcode. An abort
after the codes were set leaves codes the instruction does not depend on
(`Alike`), and two runs that differ in the codes only make the same references
(`Twin`). MFPS to memory reads the codes it has changed, which is why the property leaves
it out (section 5).

`BranchesAlwaysDecide` and `ArithmeticAlwaysExact` are about the programs of
`GuestPrograms`, for any words (`KindsAssumption` says that a program of a named
kind has the code of that kind). `GuestInv` adds to `InstrInv` that the
undisturbed machine is what the instructions before `at` make of the start
(`Ran`), so that each property is a statement about one, two or three opcodes.
Double words go through the carry (`Residue`, `PairBounds`); a shift of n places
is n single ones, which by induction are a product or quotient by the power of
two (`ShiftsLeft`, `ShiftsRight`), where the power is the recursive function of
the model; a division truncates, undoes a multiplication, and takes back the
signs it removed (`Truncates`, `ProductDivides`, `SignedBack`).

`RefusalIsClean` is the part of `FloatExact` about instructions that abort. Each
operator of `FloatingPoint` either goes on, having changed at most the error, its
code and the traps (`Calm`), or has been refused with everything else as it was
(`Stopped`); an instruction changes accumulators or memory only after its last
possible refusal (`InstructionClean`, one case for each opcode). Its invariant
`FloatInv` says that an instruction still to be executed finds the operands that
`before` recorded.

**Event queue** (`EventQueue_proofs`). `QueueAlwaysSound`: every slot holds one
event or none, and no event is in two. It is inductive only together with the
search for a free slot: `SomeProbeFree` is the pigeonhole argument that fewer
other events exist than slots are probed, which `QueueAssumption` states of the
intervals and the ring. `RingImplementsTimers` maps each event to its distance
from the pointer; serving a slot brings every other event one nearer (`Nearer`)
and puts those its handler schedules where `DistanceIn` is at least the interval
and at most the other events more. The reset schedules the polls one after the
other in a recursive function; that the function exists, and what it holds after
n of them (`SomeStages`, `AllReset`), is by induction, from the least natural
number of a set (`Least`).

**USARTs** (`UsartDriver_proofs`). `UsartSignals`, `LineIsCurrent` and
`UsartImplementsLine`, for any characters, modes and commands. `Signalled` is
not inductive: a write that ends in a loopback test puts a character where one
may wait. `NoOverrun` says that none does, as the program sends the next
character after it has read the last.

**Communication port** (`Peripherals_proofs`). `PortSignals` and
`PortImplementsLine`. `PortInv` enumerates what the queue of interrupts can be
(`Shapes`): the transmitter's is in it at most once, with at most one character
from before and one looped back behind it, because the poll takes a character
only when none waits and a write under way means that the transmitter's is not
in the queue. From that follow the counts of `Signalled` and the bound on both
rings; `RoomAssumption` asks for room for three characters and five interrupts,
where the code has six and sixteen. It is the only reason why the rings, whose
filling nobody checks, never seem empty.

**Host serial lines** (`Peripherals_proofs`). `LinesAlwaysKept`, for any lines,
chunk sizes and speeds. `SerialInv` says that the buffer holds what was read at
once from one line and is empty again by the next read, because each poll takes
one character and a read comes only every `RSize` polls (`Buffered`); that the
settings to restore are those the line had before, and that a port remembers the
line it has to close unless a reset made it forget (`Restorable`).

**Tablet** (`Peripherals_proofs`). `ReportsAlwaysFollow`, for any places, length
of a report and ring with room for three reports (`PadAssumption`; the code's has
room for two hundred). `PadInv` says that at most one echo waits, and that little
follows it: one report outside of suppressed mode (`Calm`), and in suppressed mode
one more than was there when the pen was last seen to move, which is only after
the first character of the report before was read (`Recent`). A full ring, which
the code never notices, is therefore not reached.

**Printer** (`Peripherals_proofs`). `AlwaysPrintsInOrder`, for any ring, dots and
repetitions and a device that refuses as often as it likes; `La50Assumption`
only gives the constants their types. The level tells how much room there is but
for the characters refused (`PrinterInv`), so what the port accepts at less than
half a ring goes round it only if what was refused and the most put at once
exceed half of it (`PutsAll`), and each overrun and each refusal moves the level
by just so much. `PrintsAllWithRoom` is its consequence for the resolution of the
device: a line of graphics has at most six times the largest repetition of rows,
at each turn of the repetitions, by induction over the rows (`SomeRowSums`,
`RowsBound`, `RowsFit`), and as long as that and the refused characters fit half
the ring nothing is lost.

**Menu** (`Peripherals_proofs`). `MenuAlwaysKept`, for any files, directories,
keys and commands, and a configuration that gives a device to one port. What the
run calls `MenuKept` is this for both of its desks. `MenuInv` says what each menu
offers: a serial menu only devices that no other port has (`Taken`), a file menu
only while the door of its drive is open (`Offered`), because the items are
chosen when the menu is opened and used at a later key. A step of the desk is a
key that goes through the menu, a reset, or leaves the menu alone (`DeskOnMenu`).
Where a move ends is the least or greatest item that counts, which exists by
induction. The window has to be as high as the top menu (`WindowAssumption`;
in the code MENU_AH is MENU_TOP_NUM).

**Keyboard** (`Peripherals_proofs`). `KeyboardAlwaysRight`, for any keys,
modifiers, commands, directories and ports. A key that is sent with a modifier
is wrapped by it. `KeyInv` says that the ring is what is left to read of one
wrapped key (`Wrapped`: the key and its modifier, the modifier, or nothing)
followed by the awaited answers, all of them and in order (`RingOf`), that the
key due is the first of it, and what the modifiers the machine believes to be
down have to do with those the keyboard holds at each of these places. It is
proved together with `MenuInv`, as the menu gives the keyboard a port and takes
it. The ring has no test for full: `Depth > 6` has room for a wrapped key and
four answers, where the code has 1024.

**Screen** (`Peripherals_proofs`). `ScreenAlwaysRight`, for any picture, planes,
commands, patterns, palettes and menus that satisfy `BoardAssumption` and
`DrawingAssumption`. `ScreenInv` is the run's property with types. It is
inductive because every operation that writes a word of memory, a colour or a
setting also takes away the mark of each line that shows it: a command draws point
by point or word by word, so that its lemma is an induction over the points drawn,
each of which invalidates its own line and leaves every other as it was.

**Hard disk** (`RdDriver_proofs`). `OperationSignalled` and `RdImplementsStore`,
for any geometry and register values. `RdInv` says that exactly one event,
interrupt or service is coming while an operation is under way, that the
registers still hold what was asked (the code reads them again at the last
word), and that the part of the buffer behind the pointer is what the program
has or gave. The offset of a sector is inside the disk and different sectors are
apart by arithmetic alone (`Quotient`).

**Floppy** (`RxDriver_proofs`). `AlwaysKnownOrTold`, for any drives, files,
diskette size and operator. The run's property is not inductive. `ToldInv` adds
that an interrupt is due (`intbEn`), requested, taken, or unnecessary because
the program will ask anyway (`WillHear`), that a delivered status is right
unless its drive changed since (`Fresh`), and that no write tab outlives its
diskette; `Types` is the other half, where a sector read is of the image because
an offset that passed the checks lies in it (`OffsetInImage`).
`RxImplementsMedia` adds what the registers and the buffer hold of the request
under way (`MediaInv`), until the command has run and after.

**Clock, video, bus** (`Peripherals_proofs`). `SubIsExact`, `AddIsExact` and
`MulIsExact` (arithmetic on host times is exact in any base), and
`TicksAlwaysFollow`. The invariant `ClockInv` says that the start time is the
number of ticks given since the rate was set, times the base, after the time of
setting it, and that it is not ahead of the host's time; the second is what the
subtraction needs, and it is kept because a tick is only given when one is
outstanding. `CalendarAlwaysSteady` needs only that the update in progress is
shown while its end is scheduled. `DoneIsAlwaysTold` holds for any number of
commands under way; its invariant adds that two are under way only after a
command given to a board that was not done. `BatteryAlwaysKept` is for any
addresses and words; `BusInv` adds that what the file holds can be loaded.

Only model-checked: liveness (`InterruptServed`, `PollersRun`,
`CharactersMove`, `OperationEnds`; it is beyond this prover) and `FloatExact`, of
which only the refusals are proved. What a floating-point instruction computes is
written with powers of two (rounding at a bit, aligning by a difference of
exponents), and none of the installed provers knows a fact about `^`, not even
that `2^n` is a number; the law of exponents would have to be an assumption.

## 5. What the work found

A run shows the first; the others are statements about single lines.

* The page field of MMR0 is OR-ed at each abort and never cleared, so the
  second abort of a program may show a page that did not fault
  (`mmu_page_field`).
* The test for auto-echo in the USARTs compares a masked bit with 1 and is
  never true (`pro_2661kb.c:280`, comment at 278).
* A write of the modem control register does not reach the host line until
  another register is written (`pro_com.c:475`).
* DIV refuses the quotient 077777, which fits in 16 bits: the overflow test at
  `pdp11_cpu.c:2194` has `>=` where the lower bound has `<`.
* MFPS to memory changes N, Z and V before its write. If the write aborts, the
  restarted instruction stores the changed codes.
* ASH and ASHC by -32 shift a C `int` by 32, which C leaves undefined; the
  constant `FullShiftKeeps` is the outcome on the usual hosts.
* A reset of the running machine clears video memory, colour mode and scroll
  without taking away the marks of valid lines, though the comments at
  `term_x11.c:1471` and 1557 say that a change of mode or scroll does; the old
  picture stays until something renews it (`stale` in `Video`).
* The menu opens on Control-HOLD, the documents say Control-F1
  (`doc/control_menu.html:14`). Keys typed ahead of it at the window pass its
  filter twice. After a reset, the file names shown are those of the
  configuration while a drive keeps another file open.
* The printer's ring has no check of its own, and overruns in two ways. At
  600 dpi the port accepts a line of graphics, 29025 bytes at once, up to a level
  of 15312 of 30624. At any resolution the level drifts: `ptr_fifo_get`
  (`pro_la50.c:121`) takes it down for a character that the host's line then
  refuses (`pro_serial.c:141`, at nearly every poll while the host has characters
  queued), and nothing puts it back before a reset. A busy host therefore brings
  the level below zero in the end and the port accepts everything; at 300 dpi (a
  line of at most 7498 bytes) the ring can overrun after 7815 refusals. What was
  in the ring is lost, and the level then counts it: the port may wait, until a
  reset, for characters that are gone. `PrintsInOrder` says when this happens and
  what the level is; it does not say that it never does.
* The tablet's test for a full ring is never true. After a question, a change
  of place may go unreported until a reset.
* NEGF and ABSF to memory write the operand in words: an abort between them
  leaves a half-changed operand that the restarted instruction changes again.
* Opening a host line does nothing while one is open (`pro_serial.c:252`), and
  the console's reset closes none: a port that the menu gave another line shows
  the configured one after the reset and goes on using the other. If the
  configured device is not a line of the host, an exit then leaves the line with
  the program's settings (`moved` in `HostSerial`).
* Characters left in a line's read buffer are delivered after the port has been
  given another line; without an open line a character counts as sent; a host
  that cannot count waiting characters leaves the test for them to an
  uninitialized variable (`pro_serial.c:134`).
* A reset of the running machine reads the battery-backed memory from its file
  again (`pro_init.c:240`), and the file is written at exit only.

## 6. Not modelled

Floating point without its addressing modes and aborts; the end-of-frame
interrupt, which is only a request; SDL and curses terminals; the mouse. Drawing
of the screen, the console's parser, the configuration file and the image tools
are input, output and formatting. Of the bus, the boot ROM (an array that is
read), the memory board (not built, `PRO_MEM_PRESENT` is 0) and the maintenance
terminal, which passes its registers on to the printer port's; a host line's
modem signals and break. The WAIT instruction's idling is
disabled in the code (`wait_enable` stays 0), single step and breakpoints belong
to the console, and the guest cannot reach PIRQ or the supervisor's page
registers, because the PRO's address table does not map them. Host time does
not step back: the code assumes it, and its tick counter goes negative
otherwise.

## 7. Plan

1. (done) Interrupts, the loop, memory management, register banks.
2. (done) Event queue, serial controllers, hard disk.
3. (done) Instructions: condition codes, addressing modes, restart after an
   abort.
4. (done) Floppy: commands, the volume-change interrupt, doors.
5. (done) Clock and video: periodic events, real-time catch-up, command
   completion, the window's cache.
6. (done) Keyboard, menu, tablet and printer; host lines, bus and battery memory.
7. (partly) Floating point: operands that abort are left.
8. (done) Proofs: every safety property of the runs but `FloatExact`, of which
   the refusals are proved.
