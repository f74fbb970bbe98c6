# Verification of the RV32I system on the Zynq-7000

TLA+ models of the hardware in `src/hardware/vsrc` and of the software in
`src/software` that runs on it, on other processors or on the host, checked with
TLC on small instances and, where marked, proved with TLAPS for all values of the
parameters.

## 1. The system

A single-clock FPGA design: a three-stage RV32I processor with a BIOS ROM, an
instruction memory and a data memory (each with two ports), a UART, a cycle
counter, an instruction counter and a microsecond timer, all memory mapped. A
host sends programs over the UART to the BIOS monitor, which stores them in the
memories and jumps to them. A button resets the processor. Programs are built
against a small C library (`151_library`) or the abstract machine (`am`, `klib`),
which also runs the same programs on x86 and RISC-V emulators and as Linux
processes.

| Component | Source | State | Operations | Talks to |
|---|---|---|---|---|
| Register cells | `EECS151.v` | one register each | clock edge with reset and enable | everything |
| UART transmitter | `io_circuits/uart_transmitter.v` | clock counter, bit counter, shift register | accept a byte, shift, reset | CPU (ready/valid), line |
| UART receiver | `io_circuits/uart_receiver.v` | clock counter, bit counter, shift register, `start`, `has_byte` | see start bit, sample, announce, be read, reset | line, CPU (ready/valid) |
| UART | `io_circuits/uart.v` | one flip-flop at each pad | | transmitter, receiver, pads |
| Pipeline | `riscv_core/cpu.v`, `mux.v`, `opcode.vh`, `cycleCounter.v`, `instCounter.v` | `pc_if`, memory output registers, register file, memories, `tohost`, EX/WB registers, counters | one clock edge | UART, timer, reset |
| Datapath circuits | `adder.v`, `shifter.v`, `alu.v`, `brCond.v`, `loadControl.v`, `storeControl.v`, `immGen.v` | none | functions of their inputs | pipeline |
| Timer | `io_circuits/timer.v` | prescaler, `usCount` | clock edge | pipeline (loads) |
| Reset chain | `synchronizer.v`, `debouncer.v`, `edge_detector.v`, `button_parser.v`, `z1top.v` | two synchronizer bits, sampling counter, saturating counter, last level | clock edge | button, every reset input |
| AM uptime | `am/src/riscv/npc/timer.c` | `init_us` | init, uptime: two loads each | timer |
| UART drivers, BIOS monitor, `echo`, `uart_parse` | `151_library/*.c`, `bios/bios.c`, `echo/echo.c`, `uart_parse/` | token buffer, command, arguments, memory | poll, read with echo, write; the monitor's commands | UART registers, user, loader |
| Host loader | `scripts/hex_to_serial.py` | position in the image | send a character, sleep | BIOS, over the line |
| klib, soft arithmetic | `klib/src/*.c`, `riscv/npc/libgcc/` | the number buffer of `stdio.c` | strings, formatting, multiplication, division | programs |
| RISC-V contexts (`nemu`) | `am/src/riscv/nemu/{cte.c,trap.S,vme.c}`, `yield-os.c` | registers, stacks of contexts, `mscratch`, `satp`, `pcb` | trap, handle, schedule, return, make a context | programs, page tables |
| x86 processors, thread-os | `am/src/x86/qemu/{trm,mpe,cte}.c`, `thread-os.c` | per processor: stack, flag, current task; lock | boot, start others, trap, schedule | each other, timers |
| Page tables | `am/src/x86/qemu/vme.c`, `riscv/nemu/vme.c` | tables, free pages, `cr3` | protect, map, unmap, unprotect, switch | contexts |
| Native machine | `am/src/native` | per process: context, signal mask, mapped pages; shared page lists | signal, irq_handle, map, switch, iret | Linux |
| Devices | `x86/qemu/ioe.c`, `platform/nemu/ioe`, `native/ioe` | clock, key queue, frame buffer, disk, canvases, router | read and write of device registers | programs, host |
| Boot loader, host interface | `x86/qemu/boot/main.c`, `spike/htif.c` | memory; `tohost`, `fromhost`, buffer | load segments; put and get a character | host |
| litenes | `kernels/litenes/src` | 6502, RAM, picture unit, canvas | instruction, scanline, frame | AM display |
| Games and demonstrations | `snake-uart`, `snake`, `typing-game`, `demo/src`, `small/mmult`, `small/bdd` | boards, rings, screens | a step of the game, drawing | display or UART |

The interactions are wires sampled at each clock edge (ready/valid at the UART,
addresses and data at the memories), loads and stores of memory-mapped
registers, bytes on a serial line whose two ends run on different clocks,
interrupts and signals that switch contexts, and memory shared by processors.

What is hard here, and the property that makes each part correct:

- **Pipeline**: neighbouring instructions overlap. An operand may still be in
  WB; the next instruction is fetched in the cycle in which the current one may
  store; a load takes a received byte one cycle after a store would hand one to
  the transmitter; a reset lands in the middle of all of it, and the memories'
  write enables ignore it. Correct means: *no software can tell that it is not
  the one-instruction-at-a-time machine.*
- **Serial line**: the ends count symbols with different clocks, start bits may
  follow stop bits immediately, the received byte is read out of the register
  that is already assembling the next one, a read may coincide with the next
  announcement. Correct means: *with a program that reads in time, the line is
  a reliable FIFO.*
- **Transmitter**: a byte may be offered at any time, also while busy or in the
  cycle of a reset. Correct means: *every accepted byte is one intact frame.*
- **Timer**: two registers wrap together, and software reads 64 bits in two
  loads. Correct means: *no microsecond is lost or counted twice, and a torn
  reading is off by exactly one carry.*
- **Reset chain**: bounces, and presses that begin anywhere between two samples.
  Correct means: *a held press resets once, a bounce never.*
- **Circuits**: carries, signs, lanes and scrambled immediates. Correct means:
  *equal to the arithmetic definition for all inputs.*
- **Monitor, drivers, loader**: polling without timeouts, an echo of two bytes for
  one, tokens as long as their buffer, a host that paces itself by sleeping.
  Correct means: *what is read is what was typed and not erased, the screen shows
  it, the image stored is the image sent.*
- **Processors**: interrupts switch tasks while other processors may stand on their
  stacks; a spin lock is taken with interrupts on. Correct means: *no two
  processors on one stack, every line whole, every task runs again and again.*
- **Address spaces**: shared kernel tables, teardown, contexts that carry their
  space. Correct means: *a process sees what was mapped for it and nothing else.*
- **Devices and platforms**: clocks that go on while they are read, a queue between
  two threads, sectors read whole, answers that come late. Correct means: *each
  request is answered as it was made.*
- **Emulated console**: bytes and pages wrap, ports have latches, a flag is cleared
  by the read that polls it. Correct means: *the manual of the 6502 and of its
  picture unit.*
- **Games, demonstrations, diagrams**: what is drawn is not drawn anew, rings wrap,
  arrays have a fixed size. Correct means: *the screen shows the state and no trace
  of earlier ones; the numbers are right.*

`PROJECT.json` lists these hazards line by line with the properties that cover
them, and the one that nothing covers.

## 2. Modules

    Eecs151 <- UartTransmitter -> SerialSender   (abstract: frames)
       ^    <- UartReceiver <- SerialLink -> ByteChannel   (abstract: FIFO)
       |                       (a peer is an instance of UartTransmitter)
       |    <- UptimeReader, ResetChain
       +--- Cpu -> Rv32i               (abstract: the instruction set)
             \      /
             Machine                   (shared vocabulary)
    Datapath <- MCCpu
    Ascii <- Console <- MCConsole
    Cte -> Threads                     (abstract: threads that go on where they left off)
    NesBus <- NesCpu <- NesPpu <- NesFrame
    NesBus <- NesPort
    Smp, Cte, UptimeReader, ResetChain, NesFrame, NesPort, Devices, Htif <- MCComponents
        -> Paging, NativeAm, X86Boot, Ioe
    Datapath <- Circuits
    Circuits, Ascii, Klib, NesPpu <- MCSequential -> Bdd, Snake, Games, Programs

    Proofs: Cpu_proofs, SerialLink_proofs (receiver and link),
    IoCircuits_proofs (transmitter, timer, uptime, reset chain), Circuits_proofs,
    Multitasking_proofs (Smp, Cte), Devices_proofs (Devices, Htif, NesPort), Console_proofs

(`<-` is "is extended by", `->` is an INSTANCE that states a refinement or a part.) One
step of every hardware module is one rising edge of the clock: every register
gets its new value from the old values of all, as in the Verilog. A register
cell is an operator of `Eecs151` applied to the same arguments as the Verilog
instance, in `REGISTER_R_CE` order of precedence, so the code's enables and
resets can be compared argument by argument.

Hardware:

**UartTransmitter**: `clock_counter`, `bit_counter`, `tx_shifter` are the
registers, `TxCycle(reset, valid, b)` the edge, `data_in_ready`, `symbol_edge`,
`serial_out` the wires. `byte`, `in_frame` and `was_reset` are history variables: the byte
last accepted, the cycles since its frame began, counted one by one, and whether the last
cycle was one of reset. **SerialSender** is what a peer relies on: a byte is accepted only
when idle, and then symbol *i* of its frame is on the line in cycles *i·T .. (i+1)·T-1*, ten
symbols long; `Abort`, which ends a frame early, is a step of a cycle of reset and of no other.
The refinement mapping takes the cycle of the frame and the reset from the history and not from the
registers, so that counters that end a frame too soon do not map to an abstract one that
does.

**UartReceiver**: every register, `RxCycle(reset, serial_in, ready)` the edge.

**SerialLink** composes a peer (a transmitter with its own symbol time out of
`PEER_SYMBOL_TIMES`), the input flip-flop `serial_in_reg`, the receiver and a
program that reads a byte at any cycle at most `READ_WITHIN` after it became
valid; a reset may come in any cycle. `chan`, `got`, `turn`, `age`, `quiet` and `synced` are
history variables that no register reads (`age` constrains the program); reads are recorded
while the receiver is in step. **ByteChannel** is the
abstract FIFO of two bytes: one on the wire, one waiting to be read.

**Machine** declares the words, the address map, the fields of an instruction and
the arithmetic, as CONSTANTS with named assumptions. **Cpu** is `cpu.v`: the
wires of WB and EX are state functions with the Verilog's names (`io_out`,
`mem_out`, `wd`, `RS1`, `alu_out`, `jmp_flag`, ...), the registers are variables, and
`Cycle` is one edge, in the parts `Fetch`, `Execute`, `Counters`, `MemoryAccess`,
`WriteBack` and `Uart`. The UART is modelled at its port: a frame may end, a byte
may be complete and the receiver's shift register may change in any cycle; the
timer is a value that may change in any cycle. **Rv32i** is the abstract
machine: one action per instruction class, plus `Reset`. The mapping takes as
architectural registers the register file with the pending write-back applied,
and as the waiting byte `has_byte` unless the load in WB is about to take it:
a load of the UART then appears to happen in the step of its instruction, though
the hardware does it a cycle later.

**Datapath** defines each circuit bit by bit or lane by lane as its source does, the
immediate generator included, and the operations of C with which the testbench of the
ALU (`csrc/alu.cpp`) compares it. **Circuits** says of any two words and any immediate
what these circuits are for.

**UptimeReader** is `timer.v`, with a history variable `elapsed` counting cycles, and
the program that loads the high half, then the low half, with any number
of instructions in between; `init` and `last` record the true time and whether
the low half wrapped, for each reading.

**ResetChain** is synchronizer, debouncer and edge detector for one button; `held`
and `armed` are history variables.

Software on the board:

**Console** is everything that talks over the UART. Time is counted in frames of the
line. `uwrite_int8` and `uread_int8` are the polling drivers with their echo
(`todo` is what an echo or a message still has to write), `read_token`, the
commands and `store` the monitor, `uart_parse` and `echo` the two test programs. The
other end is a user who types when the program waits, hits wrong keys and erases
them, and then starts the loader, which sends by its own clock whether or not
anyone reads: a frame that begins while a byte waits garbles it, as `SerialLink`
shows. `cells` and `col` are the terminal. **Ascii** holds the number conversions.

**Klib** has the algorithms of `klib` and `libgcc`: strings as bytes in one memory, so that overlaps and missing terminators
show; `vprintf`'s directive parser and its writers into one static buffer; division
and multiplication on words of `W` bits. **Bdd** builds the diagrams of a multiplier
level by level. **Snake**, **Games** and **Programs** are the games and the
demonstrations, each a state machine with the screen as part of the state: the terminal
with its border for the snake on the serial line, `donut`'s depth buffer, the frames and
the sound of `bad-apple`.

Other machines:

**Smp** has one program counter, flag and stack per processor, from the boot loader
through `mpe_init` to the scheduling of tasks by interrupts. **Cte** is one RISC-V
processor: its registers, stack pointer, `mscratch` and `satp`, and for each thread the
contexts that traps have left on its stack. The kernel's space is one as the others are; `satp`
holds none before the first switch, and keeps what it holds when a thread without a space
goes on. `trap` is `trap.S` down to the handler,
`Return` and `schedule` are what the handler decides, with `__am_switch` and the rest of
`trap.S`. **Threads** is what a program is promised: threads that are stacks of
activations, of which one goes on and the others stay as they are; the mapping reads a
thread's activations out of the contexts on its stack and, for the thread that runs, out of the
registers. **Paging** has page
tables as functions and the walk of the processor; `port` chooses the x86 or the
RISC-V version. **NativeAm** is the Linux port: a trap is a signal, an address space a
list of pages that a switch maps into the process. **Devices** has
what programs ask of clock, keys, displays and disks; **X86Boot** what loads and
starts a program on x86: boot loader, processor table, segment and gate descriptors, the heap,
interrupt router; **Ioe** the register tables and canvases of all platforms; **Htif** the
console of spike, two words of memory between a program and its host.

**NesBus**, **NesCpu** and **NesPpu** are litenes as operators from machine to machine;
**NesFrame** runs a cartridge over scanlines and frames with the vertical blank's
interrupt; **NesPort** is a game that sets addresses at the ports of the picture unit and moves data
through them; `expected` and `stored` are what the manual says of the address and the memory.

**MCSequential** and **MCComponents** put components side by side that share nothing:
`subject` and `which` choose one at the start, the others stay as they began. What is
checked of each is the same as in a run of its own. The
reference definitions of the pure functions are in MCSequential.

Definitions marked "Mutant" in a module are plausible bugs of the definition that
follows; they are used only to confirm that a run would notice them.

## 3. Runs

| Run | Module, configuration | Question | Bounds |
|---|---|---|---|
| `uart_transmitter` | UartTransmitter | Is every accepted byte one intact frame of ten symbols (`FrameIntact`, `SendsFrames`), cut short by a cycle of reset only, whatever is offered and whenever reset comes? | 4 cycles per symbol, six bytes (`FewBytes`) |
| `link` | MCSerialLink | Clocks that are equal or differ by 3%, reads within two thirds of a symbol: is the line a FIFO (`DeliversInOrder`), and does the receiver end its frame at the sample of the stop bit (`StaysInFrame`)? | 32 cycles per symbol, peers of 31, 32 and 33, 4 bytes |
| `link_reset` | MCSerialLinkReset | After resets in any cycles, does a pause of one frame bring the receiver back (`Resynchronises`, `ReadsOldest`)? | 4 cycles, 2 bytes, resets in any cycle, also before the receiver is back in step |
| `link_reset_frames` | MCSerialLinkResetFrames | Is every announced byte a frame (`AnnouncesFrames`)? *No: see 6.* | as above |
| `cpu_hazards` | MCCpuHazards | Does the pipeline implement RV32I (`ImplementsIsa`) and execute only current words (`FetchCoherent`)? | all programs of three dependent instructions, then a jump back |
| `cpu_io` | MCCpuIo | The same for every pair of accesses to UART, counters, timer, with `OnePerCycle` | all pairs, UART free in every cycle, resets |
| `sequential` | MCSequential | Is what nothing interrupts right: circuits, libraries, emulated instructions and lines, and programs that run alone? | per subject, below |
| `components` | MCComponents | Are the components that share no state right, each from its own initial states? | per component, below |
| `console` | MCConsole | Is what is read what was typed and not erased (`TokenAsEdited`), does the screen show it (`WhatYouSee`), is the image stored the image sent (`ImageStored`), and does no wait last for ever (`ComesBackToRead`)? | 9 sessions, one typo anywhere, two words, buffer of 10 |
| `console_loader` | MCConsoleLoader | Does the loader's first carriage return clear what a user left (`NewlineClearsTokens`)? *No: see 6.* | three leftovers |
| `native_smp` | NativeAm, MCNativeSmp.cfg | Does leaving a space unmap all of it (`LeavesNothingMapped`)? *No with two processors: see 6.* | two processors, one mapping |
| `kthread_stack` | Cte, MCCte.cfg | Does a thread of `kcontext` run on the stack it was given (`OnItsStack`)? *No on riscv/nemu: see 6.* | one thread of each kind, two values, two contexts per stack |

What `sequential` checks, one property per subject:

| Property | Modules | What it says |
|---|---|---|
| `AluExact` | Circuits | the ALU agrees with the operations of C that its testbench expects, shifts and bit operations included |
| `WordsExact` | Circuits | sums, differences, their flags and the orders are those of the numbers; a load takes out what a store put in and nothing else changes |
| `ImmediateDecoded` | Circuits | each format's immediate is decoded to the value encoded |
| `StringsExact` | Ascii, Klib | numbers are read back as written, but for the tenth decimal digit; comparison, copy, overlapping moves as the C standard says, `strncpy` and `strcat` only where section 5 says |
| `PrintfExact` | Klib | every directive prints what the standard says, with the exceptions of section 5, whatever the buffer held |
| `ArithmeticExact` | Klib | division, multiplication and bit counts are exact |
| `InstructionsExact`, `PictureExact` | NesCpu, NesPpu | the manual's results at the edges of bytes, pages and stack; scrolled background and sprites in place |
| `BddExact` | Bdd | diagrams reduced, ordered, counted, within their arrays, and equal to multiplication for all factors |
| `GamesExact` | Snake, Games | the screen shows the game and no trace; every character counts once |
| `ProgramsExact` | Programs | life, ant, towers, balls, brackets, products, clock, rain, the ring in perspective and the film with its sound are what they set out to be |

What `components` checks:

| Property | Module | What it says |
|---|---|---|
| `StacksApart` | Smp | no two processors are on one stack, also while booting or between saving a context and leaving its stack |
| `LinesWhole` | Smp | no line of `thread-os` is mixed with another |
| `TasksRun` | Smp | every task gets a processor again and again |
| `KeepsThreads` | Cte | a thread goes on where it left off, with its registers, its stack and its space, whatever handlers and other threads did; on top of it lie the handlers of its own traps |
| `TimerExact`, `UptimeOffByCarries` | UptimeReader | the timer counts every microsecond; a reading is off by exactly its missed carries |
| `PressIsHeld`, `OneResetPerPress` | ResetChain | only held presses reset, each once |
| `FramesExact`, `NesStartsUp` | NesFrame | one interrupt per frame, seen by a program that keeps its place; what is shown was drawn; both waits for the flag end |
| `DataPortExact` | NesPort | every store goes to the address the manual gives it, over wraps, mirrors and palettes |
| `PagingExact` | Paging | each walk finds what was mapped with its rights; no table belongs to two spaces, is free in use or lost; a process runs on its own tables |
| `MachinesExact` | NativeAm, X86Boot, Ioe | on Linux the event handled is the one that trapped, and a process runs in its own space on its own kernel stack; elsewhere the loader loads what the file says, processors are counted, descriptors hold what was put into them, lines are routed, canvases drawn, and no register without a handler is reached |
| `HtifExact` | Htif | every character is printed once and in order, every key got once and in order, and no answer is one the program does not know |
| `RequestsExact` | Devices | a date was on the clock during its read, keys come in the order typed, displays and disks hold what was asked last |

Why the bounds are enough to see what they are meant to see:

- *Symbol times.* The code uses the symbol time only in comparisons with
  `SYMBOL_EDGE_TIME - 1` and `SAMPLE_TIME`, half of it. Four cycles are the least
  that keep start edge, sample and symbol edge apart; eight and 32 give the drift
  room. The four bytes (all zeros, all ones, alternating, a lone zero) make every
  pattern of neighbouring symbols, so a sample taken a symbol early or late shows.
- *Programs of the pipeline.* Only two instructions are in the pipeline, so three in
  sequence give every producer and consumer at distances one and two. The programs run
  over and over with a reset in any cycle, so each also meets itself across the jump.
  `LoadedPrograms` store instructions to the instruction memory and jump there, as
  the BIOS does, and try to store more from there. Words have eight bits: four
  bytes of two bits, four bits of region, so that byte lanes, sign extension and
  carries exist. `Arith` and the load and store alignment of these runs are those
  of `Datapath`, not stubs. The timer is constant in these runs (the proof lets it
  change); the counters have two bits.
- *Circuits.* They are uniform in the word length (the shifter has one stage per bit
  of the amount); eight bits in four lanes exercise every stage and lane, for every word
  with the words around zero and around the change of sign. Immediates have their real
  32-bit formats: every value of the I, S, B and CSR formats, and for U and J the values
  with one or two bits set and their negatives, which tell every bit's place.
- *Libraries.* Strings of up to three bytes on a terminator's either side and every
  overlap of up to six bytes; every combination of `printf` flags with widths and
  precisions below, at and above the number's length, after a call that left the buffer
  dirty; words of four bits, double words of eight, with all divisors, which takes every
  branch of `__udivmoddi4`. The division is written in terms of the word's width alone.
- *litenes.* Operands at 0, 127, 128, 255 and their neighbours, pointers at the ends of
  pages, every stack pointer; scrolls at a tile's ends; four frames with the startup code
  of the cartridge; seven accesses to the ports, more than setting an address twice takes,
  with addresses whose high byte is 32, 36 or 63 and whose low byte is 0, 16 or 255, two
  colours and both mirrorings: both nametables and the palettes, with their mirrors and
  their ends (the proof has no such bounds). Stores to the pattern
  tables are not made: the test at `ppu.c:391` is always true, so that they would reach a
  second table, and no cartridge here makes one.
- *Small programs.* Boards of at least three places each way (the torus and the ant's
  moves over the edge), three disks, two rows of pegs, all programs of five commands with
  brackets, five-bit words, all minutes of the clock. The diagrams are those of N = 4, the size
  the program is compiled for. Snakes on boards of two by three and four by five (with the
  frame), rings that wrap.
- *Timer.* A range of nine with a low half of three wraps the low half three times
  within one wrap of the whole; five cycles let a wrap fall between the two loads
  and stay below the nine that would be two wraps, as in the code where a wrap of
  2^32 microseconds takes over an hour.
- *Processors.* Two processors and three tasks: one has one task and the other two, so
  both the switch to another and to the same task happen; interrupts at any step.
- *Threads.* The thread of `main`, one with a space and one without, and two contexts on a
  stack, so that a handler is trapped into; with two values, with two threads in spaces,
  and with three contexts the result is the same, and the proof has no bounds.
- *Host interface.* Three characters and three keys, machines of 32 and 64 bits.
- *Devices.* Four keys for a queue of three, so that it fills up; a clock
  of twelve seconds to the minute and two minutes to the hour that runs for 40; displays of three by
  two with two rectangles of any place and size; three blocks.
- *Loader.* All pairs of segments of up to three words that do not overlap, in sectors of
  two: 756 files, in 180 of which they share a sector, of these 72 laid out otherwise in the file than
  in memory, and 117 in which the first ends with words that should be zero.
- *Tables.* Two levels of four entries and seven pages: two spaces and the kernel fill them,
  so that the panic for want of a page is reached. One native processor passes; two
  are the finding.
- *Console.* Every command of the monitor with its edge cases (tokens as long as the
  buffer, empty tokens, erasing at the start, leftovers of three kinds); the loader's pauses
  are those of the code in frames of 115200 baud (10 ms are 115 frames, 1 ms is 11).
  Two words separate the first address from the following ones. The code's buffer has 128
  characters: with a leftover token longer than about 86 of them the message that the
  token is unknown takes longer than the loader's 10 ms.

The type invariants of the pipeline, UART, timer and reset chain are proved (section 4)
and used in the proofs; they are no property of a run because they show nothing else.

What the link says about timing: with equal clocks a program must read a byte
within exactly one symbol time of its announcement; one cycle more, and the byte is
already moving in the shift register. With a peer one cycle in 32 faster the
deadline shrinks to 22 cycles, by the ten cycles of drift in a frame; a slower peer
leaves the full symbol. The run takes the shortest of them. Trials outside the configured runs also gave the limit of
the scheme: with 8 cycles per symbol a drift of one cycle (12%), and with 16
cycles one of 6% on the fast side, no reading deadline is safe.

### Fairness

- `DeliversInOrder`: weak fairness of `LinkNext`, that is, the clock runs. That the
  program reads within `READ_WITHIN` cycles is not fairness but a guard: a byte that is
  old enough must be read. The code does not guarantee it: a program that computes for
  longer than a symbol between polls loses bytes, and the property says exactly what
  it must do not to.
- `ComesBackToRead`: weak fairness of `Program` (the processor executes) and of `Frame`
  (the line's time passes). Nothing is asked of the user or the loader.
- `TasksRun`: weak fairness of each processor's next step, of the first processor's boot
  and of each processor's timer, which is periodic. Nothing is assumed of the lock: a
  task may wait for it as long as others take it first, but it gets its processor.
- `NesStartsUp`: weak fairness of `Cycle`; `fce_run` loops for ever.

In the runs that put components side by side the fairness of a component is stated for
the behaviours that chose it.

Deadlock is checked where nothing may stop: in the runs of the clocked modules. It
is not in `sequential` (functions have no step, and the programs end), in `components`,
`native_smp` and `kthread_stack` (bounded numbers of requests, frames, mappings and nested
traps; a panic stops), and in the console runs (the user has typed all, the loader has sent all).

## 4. Proofs

| Theorem | Module | Statement |
|---|---|---|
| `PipelineImplementsIsa` | Cpu_proofs | `CpuSpec => ImplementsIsa` |
| `FetchAlwaysCoherent`, `OneInstructionPerCycle`, `CpuTypeCorrect` | Cpu_proofs | `[]FetchCoherent`, `[]OnePerCycle`, `[]CpuTypeOK` |
| `TransmitterSendsFrames`, `FrameIntactAlways`, `TxTypeCorrect` | IoCircuits_proofs | `TxSpec => SendsFrames`, `[]FrameIntact`, `[]TxTypeOK` |
| `RxStaysInFrame`, `RxTypeCorrect` | SerialLink_proofs | `RxSpec => []StaysInFrame`, `[]RxTypeOK` |
| `LinkResynchronises`, `LinkReadsOldest` | SerialLink_proofs | `LinkSpec => []Resynchronises`, `LinkSpec => ReadsOldest` |
| `LinkIsFifo` | SerialLink_proofs | without resets, `LinkSpec` implements the safety part of `DeliversInOrder` |
| `TimerCorrect` | IoCircuits_proofs | `[](TimerTypeOK /\ TimerExact)` |
| `UptimeCorrect` | IoCircuits_proofs | `UptimeSpec => []UptimeOffByCarries` |
| `ChainCorrect`, `ChainResetsOnce` | IoCircuits_proofs | `[](ChainTypeOK /\ PressIsHeld)`, `[]OneResetPerPress` |
| `WordsCorrect`, `ImmediateCorrect` | Circuits_proofs | `WordsExact` of any two words, `ImmediateDecoded` of any immediate |
| `AluCorrect` | Circuits_proofs | `AluExact` of any two words: all ten operations |
| `CircuitsFitPipeline` | Circuits_proofs | the circuits are what the pipeline's proofs assume of them |
| `StacksStayApart`, `LinesStayWhole` | Multitasking_proofs | `SmpSpec => []StacksApart`, `[]LinesWhole` |
| `CteKeepsThreads` | Multitasking_proofs | `CteSpec => KeepsThreads` |
| `DevicesExact` | Devices_proofs | `DevicesSpec => []RequestsExact` |
| `HtifKeepsOrder` | Devices_proofs | `HtifSpec => []HtifExact` |
| `PortKeepsPlace` | Devices_proofs | `PortSpec => []DataPortExact` |
| `TokenTrue` | Console_proofs | `ConsoleSpec => []TokenAsEdited` |
| `ScreenTrue` | Console_proofs | `ConsoleSpec /\ []ImageUnedited => []WhatYouSee` |

**The pipeline.** The inductive invariant is `FetchInv == CpuTypeOK /\ FetchCoherent`.
`FetchCoherent` is needed because the abstract machine decodes what memory holds
*now*, the pipeline what memory held when the fetch was issued. It is inductive
because a store reaches the instruction memory only from the BIOS
(`imem_we` tests bit 30 of `pc_if`) while the next fetch reads it only if the
next instruction is outside; that the BIOS never falls off its end with a store
is `BiosAssumption`. On top of it, each clock edge is classified by the decoded
opcode: `RegsStep` shows what one edge does to the mapped registers, `DeviceStep`
what it does to the UART as software sees it, and one lemma per instruction class
(`ComputeRefines`, `JumpRefines`, `LoadRefines`, `StoreRefines`, `ResetRefines`)
concludes that the edge is that instruction of `Rv32i`.

**The transmitter.** `FrameIntact` (the symbols still to go are the tail of the
accepted byte's frame) is inductive with the type invariant. `FrameClock` says that while a frame
is sent the registers have counted as many cycles as went by: nothing but reset makes them skip one.
With both, each cycle is the step of `SerialSender` that its reset input asks for; that a frame
ends with the last cycle of its tenth symbol follows from the count.

**The receiver.** `StaysInFrame` is inductive with `RxTypeOK`: the tenth symbol ends at
its sample, so the counters never pass it.

**The link.** `LinkInv` relates two clocks. `elapsed` counts the cycles since the peer
began its frame, by its own symbol time; `position` those since the receiver saw the
start bit, by the receiver's. While the receiver is in a frame `elapsed = position + 2`
(`StepInv`): one cycle for the input flip-flop, one for `start`. The line carries symbol *k*
in cycles *k·t+1 .. (k+1)·t* of that count (`LineInv`), and `TimingAssumption` puts each sample
in the symbol it is of, so that what was sampled so far are the first symbols of the
byte sent (`SampleInv`). `AgeInv` bounds how old an unread byte is, which keeps it from
being shifted away or overwritten, and `ChanInv` says what is on its way: the byte
announced, the byte pending, both in this order, or none. After a reset, and after each
that follows, none of this holds until the line has been quiet; what does is `QuietInv`: a frame
begun by a 0 is older than the silence since, so a silence of one frame ends it. That
is `LinkResynchronises`, and from there on reads return the oldest byte
(`LinkReadsOldest`). Without resets every cycle is a step of the FIFO or none
(`LinkIsFifo`).

**The timer.** `elapsed = usCount * NEXT_US + counter` is inductive with the types; the
one hard step is the wrap of both registers at once.

**The uptime.** `UptimeInv` says of a reading under way (`ReadingInv`) that the high half has
moved by at most one since it was loaded: if it has, the cycles since the low half was
zero are no more than those since the first load, and `ReaderAssumption` leaves no
time for a second. `InitialInv` says the same of the reading `__am_timer_init` kept, from
which every later one is subtracted modulo the range.

**The reset chain.** `ChainInv` adds `Samples`, which says how far an unfinished
press is: with the samples taken so far and the position of the sampling counter it
bounds the length of the press from both sides, and the press has not reset yet.
`PressIsHeld` speaks of finished presses only and is not inductive without it;
`OneResetPerPress` follows because a press is `armed` exactly until its reset.

**The circuits.** These are statements about two words, not about runs. A word is its four
bytes (`Word4`) and quotient and remainder are unique (`DivUnique`); with these the lanes that a
store fills and a load takes out are compared one by one. Sums and differences go
through the carry, orders through the sign bit. For the immediates, powers of two stay
symbols: each field of a format is a sum of bits, and above its sign every bit is the sign.
They are proved for words of any width that is four bytes.

For `AluCorrect` the shifter's stages and the word's bits are taken by induction, in the
form the provers can follow: the set of the numbers that a recursive function has been
understood for has no least number outside it (`LeastNatural`, `UpTo`, `Recursion`). A shift
followed by a shift is one by the sum (`ShiftLeftTwice`, `ShiftRightTwice`), so that the stages up to *i* shift by the
low *i* bits of the amount (`Shifts`); the fill of an arithmetic shift is the quotient of the signed number,
rounded down. A word is the sum of its bits (`SumHasBits`), and its bits decide it (`BitsDecide`),
which makes the circuits' `and`, `or` and `xor` those of the sets of bits. With the results in
range, `CircuitsFitPipeline` states of `Datapath` what `ArithAssumption`, `StoreAssumption`
and `TxAssumption` ask of the operators the pipeline is given.

**The processors.** `SmpInv` has four parts on stacks: at most one processor is between
`boot.S` and its own stack (`OneStarting`), which is what keeps the one boot stack from being
shared; a processor stands on its own stack or on that of a task that is its own
(`OwnStacks`), also in the handler, where it is still on the stack of the task it
interrupted, and after it has chosen the next task but not yet left; every saved
context lies on its task's stack (`OwnContexts`). For the lines, `At(t)` says where task *t* is,
whether it runs, is being interrupted or waits in its context: at most one task is in
the critical section, then the lock is taken, and an unfinished line is that of the
task about to end it (`LockInv`).

**The devices.** `ClockInv`: the registers were read at times that follow one another
within `SECONDS - 1`, so that equal seconds at both ends mean the same minute. `KeyInv`: front
and rear are the numbers of keys taken and stored modulo the ring's length, and between them
lie the keys typed, in order. A ring that fills up has front equal to rear and its keys are
lost, so that between two keys it is never full: nothing is overwritten, and a ring
that looks empty has no key in it. `DisplayInv`: each pixel has the
colour of the last rectangle over it, in all three displays, whose offsets are
computed in three ways. `DiskInv`: the block number that goes out in three bytes and four bits
comes back whole, and every byte of the image belongs to one block.

**The host interface.** What makes `HtifExact` inductive is where a command can be:
`CommandInv` says which one the program waits to store, `PrintInv` that the characters not yet
printed are the one in `tohost` or the one about to go there, `DoneInv` that the answer
to a system call is in at most one place and only while its caller waits for it, `PlaceInv` that a
key is asked for or on its way in at most one place of five.

**The data port.** `LandingInv` says that the unit's latched address is the manual's,
and `StoredInv` that its memory agrees with the manual's on every address written
(`Agrees`): the lemmas show for each region that a store changes, through the mirror tables,
exactly the bytes that the manual says are the same byte.

**The RISC-V contexts.** `StacksInv` says what contexts lie on a thread's stack, from the one its
maker or its program left to those of the handlers; `RunningInv` that in a program with a space of its own
`mscratch` is the end of the thread's stack and `satp` its space, and in a handler the
stack pointer and the argument are the context of the trap; `WaitingInv` that
`pcb` names the last context of each thread that waits. From these each step is a step of
`Threads` (`NextImplements`): a trap appends an activation, and what a handler leaves is what it found but
for the answer it stored, the instruction it steps over and, where the context names no
space, the space in use, which stays.

**The console.** `Basis` has the types and what the commands rely on: how many arguments
each read finds (`ArgsInv`), and that no character of a token edits it (`BufInv`). With it
`TokenAsEdited` is inductive, because the last key of a sequence is the last step of its
editing (`EditedAppend`, by the induction of the circuits). `WhatYouSee` speaks of moments
when the monitor waits and is not inductive; `MonitorInv` says what the terminal's line
is in between: the monitor waits, writes whole lines (`Plain`: each line feed behind a
carriage return, nothing erased), echoes the end of a line, a key or one that erases, or blanks
what was erased, and in each case which characters stand before the cursor and from where the line is
empty. One lemma per phase says where a character written leads, one per action what a key read
does. `ImageUnedited` is needed: `store` echoes an erasing key among the words of an
image and does not edit, so that enough of them leave the next prompt left of other characters.
Frames, pauses and losses on the line play no part: whatever arrives is a character.

What the proofs assume, all named ASSUMEs that TLC evaluates on the instances above:

- `WordAssumption`, `StoreAssumption`: the circuits return words; the I/O registers lie
  in region 8. `ArithAssumption`: operation 0 of the ALU is its adder and
  subtractor, and bit 30 matters for operations 0 and 5 only. What *values* the
  circuits compute is not assumed: pipeline and instruction set use the same
  operators, `AluExact` says what these are, and `CircuitsFitPipeline` that the circuits
  meet the assumptions.
- `TxAssumption`: the address of the transmitter is word aligned.
- `BiosAssumption`: reset enters the BIOS, and the last word of the ROM is not a store.
- `TimerAssumption` (a clock of at least 1 MHz), `ChainAssumption`, and in
  the UART modules a symbol time of at least two (transmitter) or four (receiver)
  cycles. `ReaderAssumption`: both halves of the timer have a width, and the second load
  follows the first before the low half can wrap twice.
- `TimingAssumption`: each of the receiver's ten samples falls into the symbol it is of,
  and a program reads a byte before the next frame's first sample moves it. It is what
  the runs found to be the limit of the scheme (section 3), as an inequality on the
  two symbol times and `READ_WITHIN`, and all runs of the link satisfy it.
- `WidthAssumption` (a word is four bytes, and a power of two of bits) and `PowerAssumption`:
  powers of two up to the word's are positive and multiply as powers do, and a shift
  amount has no more bits than a word, which the provers cannot derive from the library's
  recursive definition of `^`.
- `DigitAssumption`: the powers of 16 and 256 that four bytes need are positive.
  `ConsoleAssumption`: keys are not line feeds (a terminal's enter is a carriage return), sessions
  are sequences of keys, the buffer has a place besides the terminator, an image is words at
  addresses of the memory. Its length has at most two digits, a bound of the model's `Decimal`.
- `CteAssumption`: the threads of the three kinds are different, and an instruction's place is a
  number. `CharsAssumption` and the bounds in `PortAssumption` are numbers; what it says of
  the data is that they are bytes.
- `SmpAssumption`: at least one processor, and no more processors than tasks, for a
  processor without a task looks for one for ever. `DevicesAssumption`: sizes are
  positive, and the disk has no more bytes than its three-byte and four-bit block
  address reaches.

## 5. What is only model-checked, and what is not modelled

Only model-checked, because the proof system cannot state or reach it:

- Liveness and fairness: `TasksRun`, `NesStartsUp`, `ComesBackToRead`, and the half of
  `DeliversInOrder` that says every byte is delivered.
- What the recursive operators and folds of the programs compute for every input, which is induction
  over data (that of the ALU's stages and bits goes through a well-founded order,
  section 4; the operators here have no such form): the libraries and the
  emulated instructions (`StringsExact`, `PrintfExact`, `ArithmeticExact`,
  `InstructionsExact`, `PictureExact`), diagrams, games and programs (`BddExact`,
  `GamesExact`, `ProgramsExact`).
- `ImageStored`: that no character is lost depends on the loader's pauses and on how many frames each
  echo takes, and that the words are those sent on the sums of their digits; the
  invariant would count frames through every command.
- `PagingExact` and `MachinesExact`, whose modules follow tables and lists with RECURSIVE
  operators; section 7 has the part of them that can be restated.
- `FramesExact`: it is about one cartridge, so that the interrupt meets the
  program's instructions only where the frames of this run place it; and the instructions it runs are written with the
  bitwise operators of a module that the provers cannot use.

Simplifications inside modelled parts:

- `CpuInit` is the state after configuration: memories and registers zero, pipeline
  registers as after reset. The memories' initialisation files are the constant
  `BiosImages`.
- `Rv32i` is the instruction set as this processor has it: `JALR` does not clear the
  lowest bit of its target, misaligned accesses take the lanes the alignment circuits
  give, of the CSR instructions only `csrrw` and `csrrwi` of `tohost` are specified,
  a store in the cycle of a reset still writes memory, and other encodings leave
  their `rd` unspecified.
- Bounds: between the two loads of a
  reading at most `READ_WITHIN` cycles in `UptimeReader`; the CONSTANTS of the other modules
  that their declarations call bounds.
- The output flip-flop `serial_out_reg` of `uart.v` (one cycle's delay), the
  flip-flops in the pads and the clock primitive of `clk_wiz.v` are left out, and so
  are the switches and the three buttons that nothing reads. Metastability is outside a
  model in whole cycles.
- A program between two polls of the UART takes less than a frame in `Console`; the user
  types when the program waits.
- Contexts are their program counter, stack, flag and space; the layout of
  trap frames and assembly stubs is left out, that of descriptors is in X86Boot.
- litenes' palette, its output to the display and its pacing by uptime are left out; the
  cartridge's data is external, its first instructions are those of `mario-rom.c`.
- Balls, rain and characters of the games take every chance the program's random numbers
  could give them.

Where the code differs from what one may expect, the properties say so, and hold:

- `ascii.c` drops the tenth digit of a decimal number; `strncpy` does not clear the last
  byte of its field, and clears memory far behind it when the source is as long as the
  field; `strcat` does not terminate its result.
- `printf`: a 0 without digits loses sign and width; a precision of 0 given by `*` is none;
  a right-justified string ignores its precision, and a right-justified character is followed by
  what an earlier number left in the buffer. `atoi` returns 0 for numbers with a sign.
- The BIOS echoes a backspace among the words of an image and takes it for a digit that is none:
  the cursor moves, the word does not change, and a later prompt may stand left of what is
  still on the line.
- The native key queue does not check for room: when it fills up it looks empty, and all keys in it
  are lost.
- The loader of x86 leaves in an earlier segment what a later one's first sector brings with
  it: words of the file where zero should be, or other words if the file is laid out otherwise than the
  memory.
- The snake's head is erased when it follows its tail directly (both snakes draw the head,
  then clear the tail); a snake that eats on its tail's last place is one place shorter
  than its length says.
- The row of the hour hand (`aclock.c:210`) is outside its table from 11:50 until one.
- `ant.c` draws the ant at row y+1, column x+1 while it moves and at y, x when the board is
  redrawn.
- litenes draws sprites of two tiles as their first one, and rows of a sprite below the
  last line are lost.
- `bad-apple` never counts down the sound that is left (`audio_left`), and goes on handing on
  what lies behind the payload when the film is longer than its sound.
- npc and spike panic when a program asks for the CONFIG of a device that they do not know;
  a native program whose first access came before `ioe_init` cannot call it any more.

Not modelled, and why:

- `timer.v:8` rounds a clock of 62.5 MHz down to 62 cycles per microsecond: a
  number of the configuration, about which `NEXT_US` says nothing.
- Floating-point conversions and `%n` of `printf`; `malloc` and `rand`, which are one
  assignment each and promise nothing about the heap's end.
- The native audio thread and its unlocked counter: what two unlocked updates leave is up
  to the compiler, and the code promises nothing about it. Audio and the calibration of the
  time stamp counter elsewhere only copy data.
- Acceleration (`MEMCPY`, `RENDER`): no platform's CONFIG says that it has it.
- The ports of npc, mips and loongarch have stubs for contexts that return NULL: `yield-os` runs
  on none of them, and on x86 and native its switching is that of Smp and NativeAm. On nemu
  (Cte) every trap, a timer interrupt too, returns behind the instruction it interrupted. Halting and
  stopping the other processors of x86 ends a run.
- Vendored code (`longlong.h`, `libgcc2.h`, `mario-rom.c`'s data, `vsim_models`, `stubs`),
  testbenches and C++ drivers, benchmarks and C tests, which are programs run on the processor,
  the build scripts and the vendor's project files.
- The slider, which copies pictures from a table.

## 6. Findings

1. `uart_receiver.v:63` says that `has_byte` becomes high once all ten bits of a frame
   are sampled. The flip-flop `start` (lines 77-83) is cleared by `done` only, while both
   counters are cleared by reset. A reset in the middle of a frame therefore leaves the
   receiver assembling ten samples of whatever the line carries: it announces a byte
   whose first sampled bit is no start bit (`link_reset_frames`). `link_reset` shows that
   the damage is bounded: after one frame time of silence the receiver is in step.
2. `hex_to_serial.py:27` says that the carriage return sent first clears any input tokens.
   For the monitor it is a separator: a token left behind is taken for a command, whose
   arguments it then reads from the loader's command line (`console_loader`). At an
   empty prompt the image arrives whole (`ImageStored`), although the loader reads no echo.
3. `native/vme.c:63` says that all mappings of the space left are unmapped. With two
   processors, which are processes with mappings of their own, the mark that an entry is mapped is in
   shared memory: the second processor to leave a space finds it cleared and keeps the
   pages (`native_smp`).
4. `yield-os.c:27` and `am.h:64` give a thread of the kernel a stack. `kcontext` of
   `riscv/nemu/cte.c` stores no stack pointer in the context it makes, and `trap.S` leaves with
   what lies there (`kthread_stack`). `KeepsThreads` holds: such a thread
   starts at its entry, and can do nothing from there.

## 7. Plan

Done, as models: transmitter and its abstract sender; receiver and the link; instruction
set, pipeline and refinement; circuits; timer and uptime; reset chain; monitor, drivers and
loader; libraries; processors, page tables, native machine, devices and platforms;
litenes; games and demonstrations.

Done, as proofs: the hardware's refinements and invariants; the link, with and
without resets; the uptime; the circuits, and that they fit the pipeline; the
processors' stacks and lines; the devices; the host interface; the data port of the
emulated picture unit; the contexts of nemu's handlers; the monitor's tokens and what the
terminal shows of them.

Next:

1. The native machine's part of `MachinesExact` for one processor and any number of mappings:
   the pages on a list as the smallest set closed under its links, and the invariant that a
   list without a cycle lists every page mapped.
2. The snake's ring: types, and a length below `MAX_LENGTH` keeps the tail's place distinct from
   the head's.
3. **UartPort**: the two halves of the UART as the pipeline's `Uart` action sees them, shown
   to be implemented by UartTransmitter and UartReceiver, so that the abstract UART
   of Cpu is derived and not asserted.
4. Invariants of the interrupt router of `X86Boot`.
5. Paging without RECURSIVE operators: no table belongs to two spaces.
