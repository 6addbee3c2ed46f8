# Verification of the FPGA projects: the SLC-3 computer and the screensaver

The repository holds three course projects. Lab 5 is the SLC-3, a 16-bit
microprogrammed computer in SystemVerilog (a cut-down LC-3) with a program
loader, an on-chip RAM, two push buttons, ten switches and four hex displays,
and a ROM image of seven programs. Lab 7 is a VGA text interface on an Avalon
bus, the C driver and the screensaver on a Nios II that use it, and the board
support package (the HAL and its drivers) the program is linked with. Lab 2 is a
report only. The remaining files (about nine hundred) are generated: the SoC
interconnect and its IP blocks, Quartus databases.

This directory models

* Lab 5 as it is synthesised (`slc3_sramtop`) and as it is simulated
  (`slc3_testtop`), from the clock edge up to what the programs compute;
* Lab 7's hardware and program: timing generator, video memory, palette, pixel
  pipeline, bus cycles, driver and screensaver, with resets of the board;
* the part of Lab 7's HAL that has state two actors share: interrupts and the
  boot, the JTAG UART driver against its device and its host, the tick and the
  alarms, the time of day, and the file descriptors.

Paths below are relative to the lab; `HAL/` and `drivers/` are those under
`src/Lab 7 - Screensaver interface with VGA/software/lab7_bsp/`.

## 1. Inventory

| Component | State it keeps | Operations | Talks to |
|---|---|---|---|
| Sequencer `ISDU.sv` | `State` (Moore machine, 30 states) | reset, next state from Run/Continue/opcode/BEN | drives every load, gate, mux and RAM signal of the datapath |
| Datapath `slc3.sv`, `MUXes.sv`, `ALU.sv`, `REGs.sv`, `REG_FILE.sv` | PC, MAR, MDR, IR, R0..R7 | register loads over one bus | ISDU, RAM, Mem2IO |
| Branch logic `BEN.sv` | n/z/p, BEN | LD_CC from the bus, LD_BEN from IR and n/z/p | bus, ISDU |
| I/O `Mem2IO.sv` | hex display word | a read of xFFFF gives the switches, a store to it shows | MAR, MDR, RAM output |
| RAM `ram.v` | 1024 words, output latch, output register | one read or write per clock, answer two clocks later | processor and loader share its only port |
| Loader `Instantiateram.sv` | `state`, `address` | copies the image after each reset, one word per clock | RAM port; nothing tells the processor it is busy |
| Buttons `synchronizers.sv` in `slc3_sramtop.sv` | one flip-flop per button | Reset = both pressed, Run, Continue | asynchronous operator |
| Instruction set `SLC3_2.sv` | none | assembler functions; comments give the meaning of each opcode | program image |
| Program image `Instantiateram.sv` | 175 words | boot, three I/O tests, XOR test, run-once test, multiplier, sort, auto counter | executed from RAM, some of it modifies itself |
| Simulation top `slc3_testtop.sv`, `test_memory.sv`, `memory_contents.sv` | 256-word memory, one-clock latency, reloaded by a reset | the same processor and buttons on another memory | simulator only |
| VGA timing `VGA_controller.sv` | `clkdiv`, `hc`, `vc`, `hs`, `vs` | pixel counters, sync pulses, blanking, asynchronous reset | position and blanking to the text interface, pulses to the monitor |
| Text interface `vga_text_avl_interface.sv`, `ONCHIPMEM.v` | palette registers, dual-port video memory, read data, pixel | Avalon read and write, glyph lookup, one pixel per two clocks | bus master on one port, the beam on the other |
| Driver and screensaver `software/lab7/*.c` | the loop's indices | clear the screen, set the palette, draw texts at random places, sleep | text interface through the bus; a reset of the board starts it again |
| Alarms and clock `alt_tick.c`, `alt_alarm_start.c`, `alt_llist.h`, `altera_avalon_timer_sc.c` | `_alt_nticks`, the doubly linked list of alarms, the timer's request | start, stop, tick, callbacks | timer interrupt; UART driver and program |
| Time of day `alt_settod.c`, `alt_gettod.c` | `alt_resettime` | set, get | tick counter |
| Interrupts `alt_irq_handler.c`, `alt_iic.c`, `alt_iic_isr_register.c` | enable bit, mask, table of handlers | register, dispatch loop | all drivers |
| Boot `alt_main.c`, `alt_sys_init.c`, `alt_io_redirect.c` | where it is | set up timer and UART, redirect standard input and output, call `main` | interrupts come in from the first device on |
| Descriptors `alt_dev.c`, `alt_open.c`, `alt_close.c`, `alt_fd_lock.c`, `alt_ioctl.c`, `alt_fcntl.c`, ... | `alt_fd_list`, `alt_max_fd`, `alt_dev_list` | open, close, lock, unlock, flags, redirect, read, write | devices and file systems |
| JTAG UART `altera_avalon_jtag_uart_{init,read,write,ioctl,fd}.c` | two ring buffers, the interrupt enables, `host_inactive`, `timeout` | write, read, close, ioctl; interrupt handler; alarm of every second | device FIFOs, a host that comes and goes |
| Rest of the HAL, other drivers, font ROM, Lab 7 top level, interconnect | | | left out, see *Not modelled* |

What is hard in this system, and what has to hold:

* **Latency.** The SLC-3's RAM has a registered input and a registered output;
  the ISDU counts four wait states instead of waiting for an answer. The video
  memory and the slave's read data make three stages against one wait state.
* **Sharing without arbitration.** Loader and processor use one RAM port and
  the loader always wins. The beam reads the video memory while the driver
  writes it, byte by byte.
* **Reset anywhere.** A reset may cut an instruction between any two clocks; the
  loader and the timing generator are reset asynchronously, the rest
  synchronously; condition codes, video memory and palette are not reset at all.
* **Buttons are levels.** A pause must be passed once per press of Continue.
* **The undriven bus.** Every branch loads the condition codes from it.
* **Words that are not instructions**, hand-counted offsets, code that rewrites
  itself.
* **Two memories for one processor.** The board's RAM and the simulator's
  differ in latency, in what a reset does and in what an idle cycle returns.
* **Read-modify-write of a register two colours share**, cut by a reset.
* **Handler against program.** The UART's ring buffers and interrupt enables are
  shared by a call and the handler; each decides on a copy of what the other
  changes. An interrupt turned off one moment too late is never turned on again.
* **A list walked while callbacks change it**, by a tick counter that wraps.
* **A host that goes away** in the middle of a write, and comes back.
* **Interrupts from the first device on**, while the second is being set up.
* **Bounds that are off by one**: the mark up to which descriptors are searched.

PROJECT.json lists these as hazards, each at its line.

## 2. Modules

What extends what (MC modules give the constants for TLC; `AltAlarm`, `JtagUart`,
`TimeOfDay` and `VGAController` get theirs in their own .cfg files):

```
SLC3          = Word16, ISDU                    the processor
SramTop       = SLC3, Ram, Instantiateram, Buttons      the board
  PauseHandshake = SramTop
  SramTopISA     = SramTop, ISAView             implements LC3ISA
  MCSramTop      = SramTopISA, PauseHandshake   one instance for both
TestTop       = SLC3, TestMemory, Buttons, ISAView      the simulation, implements LC3ISA
LC3ISA        = Word16                          abstract: the instruction set
  Programs       = LC3ISA, ProgramImage         ProgramImage = SLC3_2
BitwiseWords  = Word16                          And, fields and the bitwise operators

VGAController                                   implements Raster (abstract)
  TextInterface  = VGAController
    ScreenSaver    = TextInterface              implements Raster and TextScreen (abstract)

AltAlarm                                        implements Countdown (abstract)
TimeOfDay
AltMain       = FileTable, AltIrq               implements Descriptors (abstract)
JtagUart

MCSramTop, MCTestTop, MCPrograms
MCScreenSaver, MCTextInterface, MCAltMain
TLAPS: SLC3_proofs (lemmas), SramTop_proofs, TestTop_proofs,
       Programs_proofs, ScreenSaver_proofs, JtagUart_proofs,
       AltAlarm_proofs, AltMain_proofs
```

| Module | Models | How it corresponds |
|---|---|---|
| `Word16` | 16-bit arithmetic, instruction fields | a word is a natural below 2^16; `Plus` wraps; `And` is spelled out bit by bit because the provers have no bitwise operators |
| `BitwiseWords` | | assumptions that say `And` and the fields are the bitwise ones; TLC evaluates them in the run `programs` |
| `ISDU` | `ISDU.sv` | `NextState` is the first `always_comb`; each control signal is a predicate on `State`, true in exactly the states whose case arm sets it |
| `SLC3` | `slc3.sv` and the files it instantiates | one operator per multiplexer and per `always_ff` block; `CPU_Clock` is one rising edge of all of them |
| `Ram` | `ram.v` | `latch` is the altsyncram's output latch, `q` its output register; a read during a write returns any word (`DONT_CARE`) |
| `Instantiateram` | the loader | three states; its reset is `posedge clk or posedge Reset`, so a level of Reset either before or after the edge holds it |
| `Buttons` | the buttons of both top levels | `Reset_ah` is both buttons, `Run_ah` and `Continue_ah` one each; `Sample` is the edge of the two synchronisers |
| `SramTop` | `slc3_sramtop.sv` | a step is a clock edge; the operator, the switches, the floating bus and don't-care reads are chosen at every edge |
| `LC3ISA` | the comments of `SLC3_2.sv` and the opcode case of the ISDU | the abstract specification: one atomic step per instruction and per button event |
| `ISAView` | | the part of the refinement mapping that depends only on the processor: which register, condition code or display word an instruction's reader sees in each state of the sequencer |
| `SramTopISA` | | refinement mapping of `SramTop` to `LC3ISA` |
| `TestMemory` | `test_memory.sv`, `memory_contents.sv` | one clock of latency; a reset, at once, puts the contents back; any word (`Unknown`) comes out of a cycle that is no plain read |
| `TestTop` | `slc3_testtop.sv` | a step is a clock edge; no loader, so no restriction on the operator; refinement mapping to the same `LC3ISA` |
| `PauseHandshake` | | `SramTop` with a history variable for the Continue button |
| `SLC3_2` | the assembler functions | an instruction word as a number |
| `ProgramImage` | the image | the 175 words, assembled with `SLC3_2` |
| `Programs` | | what the programs must show, run by `LC3ISA` |
| `VGAController` | `VGA_controller.sv` | `ClkEdge` is a rising edge of the 50 MHz clock; every second one is an edge of `clkdiv` and runs `counter_proc`, `hsync_proc` and `vsync_proc`; Reset comes and goes between edges. The numbers 799, 524, 640, 480, 656, 752, 490 are constants |
| `Raster` | | abstract: one counter `n` of the pixels of a frame, every output a function of `n` |
| `TextInterface` | `vga_text_avl_interface.sv`, `ONCHIPMEM.v`, the bus cycles of the interconnect | `Interface_Clock` is a rising edge of CLK for slave, memory and bus, and for the pipeline when it is one of VGA_CLK as well; a word is four byte lanes; the font is a constant |
| `ScreenSaver` | `main.c`, `palette_test.c`, `text_mode_vga_color.c` | one action per place of the program that issues a bus cycle (`Clear`, `PaletteRead`, `PaletteMask`, `PaletteAdd`, `Draw`), `Roll` for the calls of `rand()`, `WakeUp` for the end of the sleep; `BoardReset` puts the program at its beginning and keeps what is not reset |
| `TextScreen` | | abstract: cells and colours change one at a time, and the beam paints the cell it is over. No words, lanes, registers or buses |
| `AltAlarm` | `alt_tick.c`, `alt_alarm_start.c`, `alt_llist.h`, `altera_avalon_timer_sc.c` | the handler takes the request and enters the walk; `Pass`, `Call` and `Return` are one alarm of the walk; between `Call` and `Return` the callback calls whatever it likes |
| `Countdown` | | abstract: each alarm has a number of ticks left and is called when there are none; no list, no absolute time, no wrap |
| `TimeOfDay` | `alt_settod.c`, `alt_gettod.c` | the product of ticks and microseconds is cut to the width of a word where the code does so |
| `FileTable` | `alt_open.c` and the other calls on descriptors | one operator per call; the system has no threads and no handler uses the table, so a call is one step. A device's own `open` may fail |
| `AltIrq` | `alt_irq.h`, `alt_iic*.c`, `alt_irq_handler.c`, the frame of a handler | every look at the pending lines, every call and every change of the enable bit is a step |
| `AltMain` | `alt_main.c`, `alt_sys_init.c`, `alt_io_redirect.c` | `pc` is the place in `alt_main`; then the program makes any calls on descriptors until it returns |
| `Descriptors` | | abstract: what each descriptor stands for, and which ones hold their device |
| `JtagUart` | the interrupt-driven driver, the device's registers and FIFOs | one action per access to a variable or register that the other side changes; `pc` is the call, `isr` the handler, which runs to its end before the call goes on; calls of the program come one at a time. The host is external: it connects, disconnects, sends, pauses and takes |

Definitions named `..._Something` and commented *Faulty variant* are not used by
the model: each is a plausible mistake in the code, kept to show that a property
notices it (PROJECT.json, `mutants`).

Abstractions: the decoding of a nibble to seven segments is left out, the
displayed word kept. Metastability is below the level of the model: the
sampled button level is already chosen freely. Every flip-flop of the device
powers up at 0. `mem` of the SLC-3 is an array of `RamWords` words and `Cell`
keeps the address bits that reach it, as `ADDR[9:0]` does. Bytes through the
UART are numbered modulo `Values`, so that order can be seen and nothing else.
Names of devices are the devices themselves.

What of the C code is built follows from the BSP's settings (`system.h`, the
public makefile): no threads (`ALT_SEM` and `ALT_FLAG` macros are empty), the
internal interrupt controller, 1000 ticks per second from `TIMER_0`, no
timestamp clock, the interrupt-driven UART driver and not the small one, no
logging, no profiling.

The operator of `SramTop` presses what he likes at every edge. The code has no
interlock that keeps the processor from being started while the loader still
writes; the history variable `patient` records that this has not happened since
power-up or since the last reset. No action reads it. The properties that an
early start can break (`ReadsSettled`, `OneRamMaster`, `ImplementsISA` and
`InstructionsTakeEffect`) say `patient`; the others hold whatever he does.

## 3. Runs

| Run | Question | Bounds |
|---|---|---|
| `sram` | does the clocked machine implement the instruction set, with buttons and resets anywhere? are all reads settled, is the RAM never shared? what survives an operator who starts the processor during a load? can a pause always be passed, and only one by each press? | 16 words of RAM, a 13-word program with every kind of instruction, branches both ways, call and return, a store, a load of what was stored, two pauses a few clocks apart and an unknown opcode; 2 switch values, 2 words on the floating bus, a don't-care read that is a store over the image |
| `simulation_isa` | does the simulated machine implement the same instruction set, and use no unknown word? | 32 words of memory, a 16-word program of the same kinds of instructions; x is either all zeros or all ones |
| `programs` | multiplier: is the product right, does it end and start again, whatever the branches leave in the condition codes? XOR: is it the exclusive or? sort: sorted, the same numbers, all sixteen shown, menu reached again? | the whole image, started at the XOR test, the multiplier and the sort (20, 49, 90); switches change at every step between eight values at the edges of a byte, signed and unsigned, that also take every branch of the sort's menu but the entry of numbers |
| `screen` | program, bus, memory, palette, pipeline and timing generator together: is every pixel the one the cell under the beam calls for? are the texts drawn, and readable? is the raster right? | a frame of 12 by 7 around a picture of 8 by 4: 2 rows of 4 cells of 2 by 2 pixels; 4 colours in 2 registers; texts of 1 and 2 characters at two places that depend on their length; a reset at every moment |
| `jtag_uart` | is a byte lost, repeated or overtaken? is an interrupt that is needed left off? do calls end? | ring buffers of 3 (two bytes fit), FIFOs of 1 and 2, a host given up after two alarms, bytes numbered modulo 2, a program that writes, closes and changes the timeout, and one that reads while the host types |
| `hal_time` | are alarms called exactly when they asked for, is a timer request given up for anything but a tick of all alarms, does the list stay intact? | 3 alarms, a tick counter that wraps at 5, delays of 0 and 3 |
| `hal_files` | is the dispatch loop safe, is the UART's host watched, do standard input and output stay connected, do the descriptors keep their promises? | a table of 5, the null device, the UART, a file system whose open may fail, 3 interrupt lines of which one has no handler |
| `noop_clobbers_cc` | does NO_OP do nothing? (violated) | 4-word program |
| `vga_vsync_early` | is the vertical pulse on the two lines its comment names? (violated) | the frame of `screen` |
| `vram_readback` | does a read of the video memory return what is there? (violated) | any bus master, three addresses |
| `fd_lock` | is a lock granted only when nobody else has the device? (violated) | the table of `hal_files` |
| `settod` | does `gettimeofday` return the time just set? (violated) | words of 5 bits, 12 microseconds and 3 ticks in a second |

Why the bounds are enough. The SLC-3 is data-independent outside the ALU: every
path through the sequencer, every position of a reset within an instruction and
every position of the loader relative to the processor occur in them; the
latency argument does not depend on the RAM's size, and the theorems hold for
every size. The small VGA frame has every distance of the real one (picture,
front porch, pulse, back porch, each at least one pixel or line); a cell has
more than one pixel in each direction, a row more than one word, and two colours
share each register, as in the real screen. A ring buffer of 3 wraps after every
second byte, so that every position of the two indices and both shapes of a
chunk (up to the other index, up to the end) occur, and each FIFO can be full
while its buffer is not and the other way around; `WriteCounts` = 3 is more than
buffer and FIFO take without the handler. Bytes numbered modulo 2 tell a lost or a
repeated byte from the next one; 2 is prime to the buffer's length, so that a
place in the buffer does not always hold the same number. Two bytes lost at once
would go unnoticed; with `Values` = 4 they would not, and TLC finds no error there
either (520 thousand states; 2 is kept for its running time). Three alarms give a list with a first, a middle and a last entry; the
counter wraps several times within a behaviour, and a delay of 3 of 5 falls on
both sides of the wrap. Two descriptors beside the standard three suffice for two
users of a device and for a gap below the mark.

In `programs` the switches never show 1, which selects the entry of sixteen
numbers in the sort's menu: sixteen free numbers are out of TLC's reach, so
the sort is checked on the image's own numbers.

What they show:

* `ImplementsISA` is the safety part of the refinement of `LC3ISA`, and
  `InstructionsTakeEffect` its fairness: an instruction that has begun is finished
  or cancelled by a reset. The effect of an instruction appears at
  one clock edge, the one that leaves its execution state (for a store the edge
  that leaves `S_16_1`). A reset that falls inside a store may find the store done
  or not; no other half-done instruction can be seen. The abstract
  specification itself says what the code does that the comments do not: a
  store to xFFFF also overwrites a RAM word, a branch leaves arbitrary condition
  codes, and the condition codes after a reset are unspecified.
* `ImageReady`: also a processor that is started too early and stores over the image
  during a load does no lasting harm, because the loader owns the address bus
  while it writes and a processor, once started, can only come back to
  Halted by a reset, which restarts the copy.
* `OnePausePerPress`, `PausesEnd`: the two pause states debounce the level; a
  reset between them loses nothing.
* `InstructionsEnd`: whatever word is fetched, the sequencer returns to fetch,
  a pause or Halted.
* `TestImplementsISA`, `TestInstructionsTakeEffect`: the simulated machine implements
  the same `LC3ISA`, for every operator. The two memories do not ask the same of the ISDU: the simulator's
  memory has answered after the first wait state, so an ISDU that drops `Mem_OE`
  in the last two passes every simulation and fails on the board. That is why
  `KnownReads` and `ReadsSettled` are separate properties with separate proofs.
* The programs: `ProductShown` holds for a signed first operand (switches as a
  signed byte) and with arbitrary condition codes after each branch;
  `DisplayShows` holds although the display routine rewrites its own pause.
* `ImplementsRaster`: the two counters, the registered pulses and the
  asynchronous reset are one counter of pixels, with one horizontal pulse in
  each line and one vertical pulse two lines long in each frame, from every reset
  on and across every wrap. `Raster` takes the place of the vertical pulse as a
  constant, and here it is where the code puts it, one line less one pixel before
  the place its comment names: disagreement 2 below.
  `BlankDuringSync` has one exception: after a reset both pulses are on (`hs` and
  `vs` are cleared to the active level) while the first pixel is shown.
* `ImplementsTextScreen`: the colour reaches the pins one pixel after the position
  it belongs to, so the picture is one pixel late and the first column of each
  line shows the last colour looked up before; a write that meets the reading
  of its word may spoil one pixel, never a cell; and setting a colour disturbs no
  other colour although two share a register. Byte writes change one cell.
* `PaletteLoaded` and `TextDrawn` hold from every reset on. The driver reads a
  palette register before it has written it, and what it reads may come from a run
  that was cut: it masks and adds, so nothing of it stays. That the late read
  data (next paragraph) does no harm here is the bus's: a read of a *register* has
  its data one clock sooner than one of the memory.
* `BytesInOrder`, `NoLostWakeup`: the handler and the calls decide on copies of each
  other's indices, and every place where a copy can be old is safe: the write
  turns its interrupt on after it has published the bytes, the handler turns it
  off only when the device still has space; a read turns its interrupt on at its
  end, when there is room.
* `OutputArrives`, `InputArrives`, `CallsReturn`: with a host that stays, bytes do
  not get stuck, and whether it stays or stays away, a write or close returns, unless
  the program has set the timeout to for ever. That a write may give up on a
  host that has been away for a second and comes back is what the code does (see
  below), and no property forbids it.
* `ImplementsCountdown`: a callback may stop and start other alarms, and its own by
  what it returns, in the middle of the walk, and no alarm is called early, late or
  not at all, also when its time lies beyond the wrap (the `rollover` flag). Two
  things are left out by guards: a callback does not stop the alarm the walk goes
  on with (see below), and does not start its own alarm again instead of
  returning its next delay.
* `PeriodsCounted`: a timer request is taken away only by a tick of the counter that
  is a tick of every running alarm too, with none of them due; it waits while
  a walk goes on. Nothing but the return of its own callback moves a running alarm's
  time otherwise. It does not say that every period makes a tick: the timer has one
  timeout bit, and periods that end while it is set share its tick.
* `ImplementsDescriptors`: a refused open leaves nothing behind; a device that a
  descriptor has locked is not opened again; `StdioConnected` needs that the three
  redirections each find descriptor 3 free and give it back.

Disagreements between code and comments, each with a violated run:

1. `S_0` asserts `LD_CC` with no gate open (`ISDU.sv:411`), so `NO_OP`, "branch
   never" (`SLC3_2.sv:37`), changes the condition codes. No program in the image
   depends on them after a branch, as the program runs show.
2. `vsync_proc` looks one line ahead although the line changes only in the last
   column (`VGA_controller.sv:105`): `vs` is low from pixel 1 of line 489 to pixel 0 of
   line 491, while the comment at line 98 says "vertical sync pulse is 2 lines(800
   pixels) long at line 490-491". `VSyncOnItsLines` says what the comment says.
3. `vga_text_avl_interface.sv:114` answers a read of the video memory with the
   word of the read before it: registered address and registered read data take
   two clocks, the interconnect waits one. The readback test in
   `text_mode_vga.c:36` would notice (main() does not call it, and the driver
   itself reads only palette registers).
4. `alt_fd_lock.c:61` looks at descriptors below `alt_max_fd`, not up to it as
   `alt_open.c:79` does, so the user of the highest descriptor is overlooked.
5. `alt_settod.c:83` multiplies in 32 bits what `alt_gettod.c` multiplies in 64:
   after 2^32 microseconds (72 minutes) the time set is not the time read, against
   the comment at `alt_settod.c:61-63`. As
   long as the product fits, `SetThenGet` holds (checked by TLC on all 14 thousand
   states with M beyond the product).

Observed while modelling, without a run:

* The third I/O test stores its own pause word incremented
  (`Instantiateram.sv:119`); after 1022 rounds it has become opcode xE, which the
  ISDU skips, and the loop no longer stops there.
* A blocked UART write gives up as soon as the host has been inactive for one
  second (`altera_avalon_jtag_uart_write.c:187`), long before the timeout of the
  wait just above it.
* A callback that stops the alarm `alt_tick` goes on with (`alt_tick.c:98`) makes
  the walk's next entry point at itself and `alt_tick` never returns. The model
  excludes this one call by a guard.
* An alarm started with a delay of 2^32 - 1 ticks is called at the next tick
  (`DelaysAssumption` leaves it out).
* `alt_busy_sleep.c:104` with a remainder of exactly 0 after the big loops would
  count down from 0 through 2^32 (not modelled).
* `testbench.sv` never presses Run without Continue, so its processor never leaves
  Halted; the comment of `opCLR` describes another encoding of clear.

## 4. Fairness

`SramTop` has `WF_vars(Next)`: the oscillator does not stop. Nothing is assumed of
the operator in `Spec`; `PausesEnd` has the operator's part as its antecedent
(Continue is pressed infinitely often and released infinitely often), and
`LoadingEnds` that resets stop; `HandshakeSpec` is the same with its history
variable. `LC3ISA` has weak fairness on `Instruction` only, the button events are
free; that this follows from the oscillator is `InstructionsTakeEffect` and
`TestInstructionsTakeEffect`. `TestTop` has `WF_testVars(Next)`: the testbench's clock is an
`always` block. `Programs` has weak fairness on "an instruction, or Continue at a
pause": an operator who keeps pressing.

`VGAController` has weak fairness on `ClkEdge`, the same oscillator; `FramesGoOn` has
as its antecedent that resets stop. `ScreenSaver_Spec` has weak fairness on `Clock`
(the oscillator) and on `Program` (the processor executes).

`AltAlarm`: weak fairness on the timer, on its interrupt and on the walk, a
callback's return included: the code has no watchdog against a callback that does
not return. `Countdown`'s own fairness is part of `ImplementsCountdown`.

`JtagUart`: weak fairness on the handler (interrupts are served), strong fairness on
the steps of the program and on the alarm. Strong, because the handler may come
in between any two of their steps and takes their turn away each time; it cannot
do so for ever on hardware, where a byte takes the line thousands of
instructions. Weak fairness on the host taking bytes and pausing: actions only a
connected host has, and the properties have "the host stays" or "stays away" as
their antecedent where it matters. Nothing says that a host connects.

`AltMain`, `TimeOfDay` and the bus of `MCTextInterface` have safety properties only.

## 5. Proofs

`SramTop_proofs`, for every image, every RAM size up to 64K words that holds the
image, and every set of switch values, floating words and don't-care words:

* `TypeCorrect`: `Spec => []TypeOK`. Inductive on its own; the loader's address
  stays in its image because it is reset together with its state.
* `ImageAlwaysReady`: `Spec => []ImageReady`, whenever the processor is started.
  Inductive relative to `TypeOK`: the words below `address` are copied, the
  state `done` has them all, and from then on a processor in Halted has not
  written (`NeverBackToHalted`).
* `ReadsAlwaysSettled` and `AlwaysOneRamMaster` from the inductive invariant
  `ReadInv`. `ReadsSettled` says only that MDR is right where it is used; to be
  inductive it needs where the word is one and two clocks earlier
  (`ReadPipeline`: in `latch`, then in `q`), that the loader is idle meanwhile
  (`OneRamMaster`), all as long as `patient` holds, and what the sampled buttons say
  about the loader: a reset finds it, or puts it, at work, which is what makes
  `patient` true again.

* `AlwaysOnePausePerPress`: `HandshakeSpec => OnePausePerPress`, for every operator.
  `HandshakeInv`: while Continue is down, and in the second pause state, which
  waits for its release, there is a press that has passed no pause yet.
* `BoardImplementsISA`: `Spec => ImplementsISA`, for every program, also one that
  changes itself: a step after which `patient` holds is a step of the instruction set
  or shows nothing to the program. An early start suspends that until the
  next reset. Besides `ReadInv` and `ImageReady` the
  refinement needs `DecodeInv`: in each state of the sequencer IR is the word the
  program's memory holds before PC, MAR and MDR are the address and the word of the
  load or store, BEN is the branch decision, and a store that has happened stays as it
  is through the three wait states that repeat it. The memory meant is the
  one the program sees (`absMem`, as the loader will leave it), which changes by stores
  and resets only (`MemorySeen`).

`SLC3_proofs` has what the proofs of both machines share. The lemmas say what the
operators on words return; what a clock edge does to each register in each state of
the sequencer (`Addresses`, `Data`, `Results`, `Successors`); that it keeps what is
remembered of the instruction (`DecodedStep`); that the RAM changes at one edge of a
store only (`StoreOnce`); and what the program sees of the edge: an instruction, a
button or nothing (`EdgeSeen`, from one lemma for each kind of state). They speak of
any memory; each machine shows that its own moves as they ask (`MemoryMoves`), and that
what is seen is what its instance of `LC3ISA` allows (`SeenIsAllowed`).

`TestTop_proofs`, for every memory size and contents, every operator and every choice
of unknown words: `ReadsAlwaysKnown`, `Spec => []KnownReads`, from `TestReadInv` (from
the second wait state on, unless a reset is pending, the memory's output is the word
at MAR); and `SimulationImplementsISA`, `Spec => TestImplementsISA`, from `TestISAInv`,
which has the types, the program in the memory while reset is on, and `Decoded`.

`Programs_proofs`, for every setting of the switches at every read, every RAM that
holds the image and the cell of xFFFF beyond it, and whatever an undriven bus leaves
in the condition codes:

* The proof reads the image first. `XorWords`, `MultiplierWords`, `MenuWords`,
  `EntryWords`, `PassWords` and `DisplayWords` say which instruction each word is, as
  the assembler made it; `DoesADD`, `DoesBR`, `DoesJSR` and the others say what
  `LC3ISA` does with such a word; together they give each program as a list of
  small steps (`XorStep`, `MultiplierStep`, `MenuStep`, `EntryStep`, `PassStep`,
  `DisplayStep`), which is the disassembly, and `XorExecutes` to `DisplayExecutes`
  show that the machine takes no other step while the program's words are in the RAM.
* `XorAlwaysShown`: `ProgramSpec => []XorShown`, from `XorInv` (what each register
  holds at each address) and `NandsMakeXor`. `AndIsBitwise` and `ComplementIsBitwise`
  say, bit by bit, what the two instructions return.
* `ProductAlwaysShown`: `ProgramSpec => []ProductShown`, from `MultiplierInv`. After k
  rounds of the loop R3 is, modulo 2^16, the product of the second operand and the
  top k bits of the first's low byte (`Times`, `Top`; `TopMoves`, `TimesDoubles`,
  `TimesAdds`), the sign bit having been subtracted (`TimesNegates`). A branch leaves
  any condition codes behind; the invariant says that each branch comes right
  after the instruction it depends on.
* `AlwaysOrdered`: `ProgramSpec => []SortOrders`, the sort returns with the sixteen numbers
  in order, whatever the operator has entered before. In `PassRegisters`: the numbers
  from `Placed` on are in order and no smaller than any before (`OrderedFrom`); the last
  number looked at is the largest so far (`LastIsLargest`); and between the two stores of
  an exchange, where one number is in two cells and the other in R4 only, R4 takes
  the place of the cell still to be written (`FirstMoved`, `SecondMoved`).
* `AlwaysSorted`: `1 \notin SwitchValues` implies `ProgramSpec => []SortSorts`; the hypothesis
  says that the menu's entry of numbers is never chosen, for otherwise the numbers
  are not those of the image. `SameNumbers` adds to `SortInv` that no number is lost,
  in the middle of an exchange neither.
* `NumbersAlwaysShown`: `ProgramSpec => []DisplayShows`, with numbers entered or not. The
  function writes the next pause over the one it has just taken; `SortMemory`
  says that this cell always holds some pause, and that the sixteen numbers are the
  only other cells between 90 and 155 that change.

`SortInv` was checked by TLC without the entry of numbers exhaustively, and
with it by simulation.

The timing generator in `ScreenSaver_proofs`, for every frame, picture and pulse
position that `TimingAssumption` allows: `PositionOnRaster` (`Spec => []TypeOK`);
`AlwaysBlankDuringSync`, from `PulsePositions`, which says where the pulses are;
`AlwaysOnRaster` (`Spec => RasterSafety`), the safety part of the refinement, from
`PixelNumber` (number and position of a pixel determine each other), `NextPixel`
(the counters' step is the number's step, with the wraps) and `PulseLines` (the
vertical pulse's pixels are those of two whole lines).

The text interface and its driver in `ScreenSaver_proofs`, for every screen, glyph
size, font, palette of at most 16 colours, frame, text and random roll:

* `AlwaysPaletteLoaded` and `AlwaysTextDrawn`. Neither is inductive: the driver
  counts on bytes it has put on the bus and that are not in a memory yet.
  `SaverInv` therefore speaks of `Memory` and `FinalRegisters`, what the memories
  hold once the bus cycle under way is over, and says where the driver is in its
  loops (`LoopInv`), what the bus does meanwhile and what a read has returned
  (`BusInv`), which colours are set and what is left of a register between mask and
  addition (`PaletteInv`), how much of the text is drawn (`TextInv`), that every
  character not 0 has contrasting attributes (`ColouredInv`), and that what is being
  written is a byte of a cell or a whole register (`WriteInv`). A reset leaves the
  memories alone, so the invariant survives it. The numbers come from `NumberLanes`
  (32 bits are four lanes), `MaskClears` and `AddSets` (the mask clears one field of
  a register, the addition fills it, without a borrow or a carry into the other).
* `AlwaysTextScreen`: `ScreenSaver_Spec => ImplementsTextScreen`, the refinement, which
  has no fairness and so is proved whole: `FetchStep` (a position of the picture is
  over the cell whose word is addressed, and a write meets the read only in that
  word), `PaintStep` (the glyph row, the inverse bit and the two colours),
  `ScreenClock` and `ScreenReset`.
* `BeamUnderSaver`: every step of the composition is a step of `VGAController`, so the
  timing theorems hold under the driver, too.

`JtagUart_proofs`, for every size of the buffers and FIFOs, every threshold, timeout
and set of calls:

* `NeverLostWakeup`: `Spec => []NoLostWakeup`. `NoLostWakeup` only speaks of the
  calls that are under way; to be inductive it needs what the handler in the middle of its
  work has seen (`WakeupInv`: a handler that has left bytes in the device has a buffer
  that is not empty), and what a read remembers (`moved`: a read that has taken
  bytes and finds the buffer empty goes on to turn the interrupt on).
* `TypeCorrect`: `Spec => []TypeOK`. The inductive invariant `TypeInv` adds what a
  call knows of its chunk between computing and using it: the bytes to be copied
  end inside the buffer, although the other index has moved on meanwhile.
* `AlwaysInOrder`: `Spec => []BytesInOrder`. `BytesInOrder` says what has come out; the
  inductive invariant `OrderInv` says where everything else is. From what the host has
  taken to what the program has written, the bytes are those in the FIFO, in the
  buffer from `tx_out` to `tx_in` across its wrap, and the copied ones not published
  yet (`OutputInv`), and likewise on the way in (`InputInv`). The room a call or the
  handler has seen can only have grown since (`SpaceInv` and the chunks in `OutputInv`
and `InputInv`): this is why nothing is
  overwritten although the indices it was computed from are old.

`AltAlarm_proofs`, for every set of alarms, every width of the counter and all
delays allowed: `AlwaysListIntact`, from `ListInv` = the links (inverse to each
other, one cycle) and where the walk is (`WalkSafe`: `succ` is in the list or
the head, also after the callback); `AlwaysCountsDown`, `Spec => Countdown!Counts`, the
safety part of the refinement; and, from the same invariant, `AlwaysCounted`,
`Spec => PeriodsCounted`. That invariant, `TickInv`, says which alarms the walk has still to pass
(`Pending`): all others are settled, neither due nor waiting for a wrap that has
happened. `TimesInv` says that but for the tick of the wrap itself `rollover` is set
exactly when an alarm's time is behind the counter, and `CallingInv` that the alarm
whose callback runs is due now.

`AltMain_proofs`, for every set of lines up to 32, every set of devices and file
systems, every size of the table and all flags the program passes:

* `AlwaysDispatchSafe` from `DispatchInv`: a line is enabled only after its handler
  is known, and the line that took the processor away from the program stays up
  until its handler runs, so the first look at the pending lines, which the code
  does not test, finds one.
* `AlwaysWatched` from `BootInv`: which device is being set up, and that the first
  has set the clock rate.
* `AlwaysConnected`: `Spec => []StdioConnected`, from `ConsoleInv` = `BootInv`, the
  table (`TableInv`: standard descriptors in use, what is in use below the mark,
  only devices locked), `BootTable` (nothing else is open or locked before the
  program starts) and `Console` (what is connected at each place of the boot).
* `TableImplementsDescriptors`: `Spec => ImplementsDescriptors`, the refinement.
  `alt_get_fd` finds the abstract lowest free number (`LowestFree`, by well-founded
  induction on the numbers); no descriptor beyond the mark holds a lock, so the
  bounded search of `alt_open` sees every lock (`Opened`); a lock or unlock holds
  or releases one descriptor (`IoctlOutcome`), `fcntl` none (`FcntlOutcome`).

Every other inductive invariant was checked by TLC on the small instance of its run before
it was proved. Assumptions: the named ASSUMEs of `Ram`, `Instantiateram`, `SramTop`,
`TestMemory`, `TestTop`, `Programs` (`ImageAssumption`, `RoomAssumption`,
`SwitchesAssumption`, `StartsAssumption`: the image is in the RAM, the switches are ten
bits, the program is one of three), `VGAController`, `TextInterface` (`ScreenAssumption`),
`ScreenSaver` (`DriverAssumption`: colours of 12 bits, two to a register and all
different, strings of ASCII shorter than a row), `JtagUart` (`UartAssumption`), `AltAlarm`
(`AlarmsAssumption`, `DelaysAssumption`), `FileTable` (`TableAssumption`) and
`AltMain` (`MainAssumption`, with the calls the UART's driver implements), which TLC
evaluates in the runs; nothing else.

Only model-checked: everything about liveness (fairness and ENABLED are out of the
prover's reach), so also the fairness of `Raster`, `Countdown` and `LC3ISA`, and that
the programs come back (`MultiplierReturns`, `MenuReturns`); and that `And` equals the
community modules' bitwise operator, which is recursive (`AndIsBitwise` proves what
its bits are).

## 6. Not modelled

* **The generated interconnect** (and `system.h`, which names its addresses): the
  length of its bus cycles is part of `TextInterface`. **The Lab 7 top level** is
  wiring, **the font ROM** a table, **the seven-segment decoder** is not in the
  repository, and of **Lab 2** there is only the report.
* **The rest of the HAL.** Logging (`alt_log_printf`), profiling (`alt_gmon`), DMA,
  flash and the timestamp clock are compiled out or have no user in this system;
  caches are absent; `alt_sbrk`, `alt_busy_sleep`, `alt_exit`'s newlib part, the
  environment and process calls (`alt_fork`, `alt_kill`, ... return an error) are
  straight lines with no state that two actors share; crt0 and the exception
  entry are assembly, of which `AltIrq` keeps that it saves the state and calls the
  handler. **The SPI, system ID and timestamp drivers** are used by no program.
* Within modelled parts: `textVGATest` and `paletteTest`, which main() does not
  call (any bus master reads and writes the same memory in `vram_readback`); the
  auto counter of the SLC-3 image, and in the run `programs` the entry of numbers, which
  only `AlwaysOrdered` and `NumbersAlwaysShown` cover; `alt_irq_disable`,
  which nothing calls; time zones; `lseek` and `fstat`, which pass their arguments
  on.

Much of the repository's text is therefore outside the map, and stays there:
headers of macros and register layouts (most of `HAL/inc` and `drivers/inc`),
vendor licence headers (about half of each HAL file), assembly, the compiled-out
parts above, and the font. What keeps state that several actors change is in.

## 7. What could come next

1. `Programs`: entry of numbers for the sort (with two or three numbers) and the
   auto counter.
