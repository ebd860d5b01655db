# amiga-emu in TLA+

TLA+ models of the Amiga 500 emulator in `src/` (C++, about 7000 lines under `src/src`), checked
with TLC, with theorems checked by TLAPS. Paths below are those of the repository: `core/` is
`src/src/core/`, `frontend/` is `src/src/frontend/`, `main.cpp` is `src/src/main.cpp`.

The emulator is one process and one thread. Its concurrency is that of the machine it emulates:
within `Machine::run_frame` the CPU, the custom chips, the two CIAs, the keyboard and the disk take
turns at clock granularity, and between frames the user's input and disk swaps come in. Software on
the emulated CPU is an arbitrary program: it can access any register between any two clocks. This is
what makes the code hard to test, and what the models are about: each lets every party take its
steps in any order.

## Inventory

| Part | Code | State | Operations | Talks to |
|---|---|---|---|---|
| CIA 8520 (two) | `core/cia.*` | timers, control registers, ICR, serial register, TOD, alarm, ports | register reads and writes, E clock, TOD pulse, /FLAG pulse, serial input, /RES | CPU (registers, /IRQ through Paula), keyboard (serial port), drive (port lines, index pulse), beam (TOD) |
| Keyboard | `core/keyboard.hpp` | ring of 32 transitions, handshake wait, caps lock | `key`, `tick`, `reset` | host input, CIA-A's serial port |
| Floppy drive | `core/floppy.hpp` | line levels, head, motor, change latch, disk, track buffer, rotation | `control`, `tick`, `next_word`, `insert`, `eject` | CIA-B port B, disk controller |
| Disk controller | `core/disk_controller.hpp` | DSKLEN handshake, pointer, word count, shift register, sync | register accesses, `disk_word` | drive (words), chip RAM, Paula (DSKBLK, DSKSYN) |
| Machine | `core/machine.*` | CPU and chip clocks, sampled interrupt level, halt, pending disk, warp, loop detector | `run_frame`, `reset`, `insert_disk`, `eject_disk` | everything |
| Paula: interrupts, pots | `core/paula.hpp` | INTREQ, INTENA, POTGO | register accesses, `request`, `interrupt_level` | all sources, CPU |
| CPU 68000 | `core/cpu68000.*` | registers, SR, STOP, pending level | `step`, `reset`, exceptions, the instruction set | bus, interrupt level |
| Chipset | `core/chipset.*` | shadow registers, frame | register dispatch, `tick`, pending blits | all custom chips |
| Copper | `core/copper.*` | program counter, two instruction words, state | `tick`, COPJMP, vertical blank | chip RAM, all custom registers |
| Agnus | `core/agnus.hpp` | beam, DMACON, bitplane pointers | registers, `advance_beam`, `fetch_line` | chip RAM |
| Blitter | `core/blitter.*` | pointers, modulos, control, pending | registers, `run` | chip RAM, DMACON, Paula |
| Sprites | `core/sprites.hpp` | eight sprites, the line's event log | registers, `dma_line`, `triggers` | chip RAM, Denise |
| Paula audio | `core/paula_audio.hpp` | four channels | registers, `tick` | chip RAM, DMACON, Paula |
| Denise | `core/denise.*` | palette, priorities, collisions, mouse counters | registers, `render_line` | frame |
| Memory bus | `core/memory_bus.*` | RAM, ROM, overlay | reads and writes of the CPU | all |
| Frame pacing | `core/timing.hpp`, `main.cpp` | next deadline | `frame_done`, `time_until_next_frame`, `reset` | host clock |
| Host input | `main.cpp`, `frontend/` | keys, buttons, capture, modes | one handler per host event | Machine |
| ADF, disassembler, dumps, window | `core/adf.*`, `core/disassembler.*`, `core/debug_dump.*`, `main.cpp` | none that evolves | loading, formatting, output | |

What is hard in it, by kind (each is in `PROJECT.json` under `hazards`, with its line):

- **Interleavings** of the program's register accesses with clocks and pins: a clock that moves
  while its bytes are read, an event between an interrupt and its acknowledgement, a transfer
  stopped, restarted, or deprived of its sync word half-way, a swap during a swap.
- **Stale state**: an interrupt level sampled one instruction ago, a track buffer keyed by its
  number and not by its disk, a change latch, a key whose meaning changed while it was held, a cached table of
  banks, cached collision tables, an idle flag that stands for four channels.
- **Time-outs and lost messages**: the keyboard's handshake.
- **Bounds**: the keyboard's queue, the 16-bit disk word count, the sprites' event log, the host's lag.
- **Arithmetic at its edges**: flags of chained additions, BCD, shifts by more than the width, a blit's masks and
  shifter, negative modulos, accesses that straddle two banks.
- **Partial failure**: a CPU that halts while the chips go on, RESET under a pending byte, an instruction that faults
  after it has moved the stack pointer, a bus panic in the middle of an instruction or of an exception's stacking.
- **Liveness**: frames end, queued keys leave, transfers and the warp end.

What makes each part correct is stated by its properties, below.

## Modules

Each module's comments name the code. Every action is one handler, operation or clock of the code,
whole. History variables are grouped apart and marked as such; no guard reads one, except for the
bound `MaxResets`.
Definitions marked "a mutant" are bugs a programmer could have written, used only to confirm that
the properties notice them.

| Module | Models | Lines up with the code |
|---|---|---|
| `Cia8520` | `Cia8520` | one action per register with an effect, `Tick`, `TodPulse`, `FlagPulse`, `SerialInput`, `Reset`. A control register is a record of its fields; ICR is a set of flags. A byte has `ByteValues` values. |
| `Keyboard` | `Keyboard` and CIA-A's serial port | the ring as in the code, indices and all. The program's handler is external: it reads ICR, reads SDR, pulls the line, releases it; other software may switch the port at any time. |
| `KeyFifo` | the abstract keyboard | a bounded FIFO; `Keyboard!ImplementsFifo` is its specification under a refinement mapping. |
| `FloppyDrive` | `FloppyDrive`, the swaps of `Machine` | `Control` for CIA-B port B, `Tick` and `NextTurboWord` for rotation, `InsertDisk`, `EjectDisk`, `EndFrame`. A word is named by the disk and the track it was encoded from. |
| `DiskController` | `DiskController` fed by `Machine::tick_chipset` | each bit of `disk_word` is a step; the feed of a clock comes before that of the turbo. Whether the shift register equals DSKSYNC is the disk's choice. |
| `Machine` | `run_frame`, Paula's levels, `Cpu68000::execute`'s interrupts | `Step` when the CPU's time has come, `ColorClock` otherwise. Of an instruction only its cycles and its effect on the interrupt path remain. The two 64-bit clocks appear as their difference. |
| `Chipset` | `Chipset`, `Copper`, the beam and DMACON of `Agnus`, the start of blits | `Tick` is a color clock, with the vertical blank; `CpuWrite` and `CpuRead` come between clocks. `WriteCustom` is shared by the CPU and the Copper's MOVE, as `write_custom` is. Words fetched are any words: WAIT positions and masks come from small sets, MOVEs go to every register. |
| `HostInput` | `HostInput`, `KeyHolds`, `KeyboardJoystick` | one action per host event, including those for the gamepad. `hostDown` is what the host's keyboard holds; the histories `given` and `taken` are the host keys passed on as Amiga keys, and those of them whose release never came through. |
| `Cpu68000` | `Cpu68000`: control and stacks | a step is `step()`: the interrupt check, the fetch, one handler. A7, the other stack pointer, PC and SR's system byte are kept; other registers and memory outside exception frames are any value. A handler without control of its own is the list of formats it accepts: words fetched, operands read, written or modified, in order, each with its address check and the panic of an access that nothing answers, which `Settle` turns into a halted CPU as `run_frame` does. |
| `TwoStacks` | the abstract stacks of the 68000 | USP and SSP as two registers; `Cpu68000!ImplementsTwoStacks` is the refinement. |
| `Alu68000` | `Cpu68000`: arithmetic | one operator per helper or handler, with its flags, beside the mathematics it should agree with. |
| `Blitter` | `Blitter` | a blit is one step in the code: an operator on the registers and chip RAM. Words are sets of bits. The references are bit strings shifted and combined, and a line rounded to pixels. |
| `Display` | `Agnus::fetch_line`, `Denise::render_line` | a frame as a fold over its lines: window, fetch, modulos, playfields, HAM, sprite layer, priorities, collisions with their cached tables. The reference computes each pixel and each collision from the bitmap alone. |
| `MemoryBus` | `MemoryBus`, the CIAs' decoding, the overlay pin | the table of banks as a cache; one action per event that rebuilds it. An access is announced (`access`) and then served, so that `BusFollowsItsMap` speaks of the state it is served in. Addresses are scaled (see the module). |
| `Sprites` | `Sprites` | `dma_line` with its per-sprite state machine, the log of writes, `triggers` as the replay of the log, past the end of the line too, as in the code. |
| `PaulaAudio` | `PaulaAudio` | `AudioTick` is `tick`, `write_audio` a register write. Volume only scales the output. |
| `FramePacer` | `FramePacer` and the loop of `main` | `EmitFrame` and `SleepAndAdvance`; the 64-bit clock and the deadline appear as their difference. |
| `Recursion` | induction over the numbers, and that recursively defined functions exist, for the proofs | |
| `*Proofs` | theorems about the module | `DiskProofs` is about `DiskController` and `FloppyDrive`, `UnitsProofs` about `HostInput`, `FramePacer`, `PaulaAudio` and `Sprites`. |
| `MC*` | the values TLC gives the constants | `MCUnits` runs five independent modules, one at a time (`unit`), `MCAlgorithms` probes operators without state and runs `MemoryBus`, `MCCia8520` splits the chip in two halves. |

How they compose: `Keyboard` contains the half of the CIA it talks to (CRA's direction, SDR, the SP
flag); `DiskController` is driven by what `FloppyDrive` offers (a word or none, per clock), which it
leaves to choice; `Machine` sees a CIA as an /IRQ line that is asserted by itself and released by a
read of ICR, which `Cia8520!IrqHeldUntilServed` justifies; `Chipset` requests BLIT, one of the sources
`Machine` chooses, and its DMACON is the switch `DiskController` has as `dmaEnabled`; its `StartBlitIfEnabled` is the
moment at which `Blitter`'s operator applies; `Sprites` is clocked like `Chipset`, and the starts its replay yields are those
`Display` draws; what `Machine` keeps of an instruction, `Cpu68000` shows in full, between the same two points where the level
is sampled; `HostInput` ends where `Keyboard!KeyEvent` begins.

## Runs

All of them finish without a depth bound: the state spaces, within the bounds named, are explored completely.

| Run | What it asks | Bounds |
|---|---|---|
| `Cia` | one-shot timers (`OneShotFiresOnce`), cascaded timers are one counter (`CascadeIsOneCounter`), three-byte reads and writes of a running clock are atomic (`TodReadAtomic`, `TodWriteAtomic`), /IRQ (`IrqHeldUntilServed`) | bytes of two values: the timers count 0..3, reach zero, wrap, and have both bytes written; three underflows per byte shifted; all combinations of modes; a clock of 0..7, with every carry between bytes and the wrap-around; alarms of 0, 1 and 4. A behaviour uses the timers and the serial port, or the clock, its alarm and the pins; the two halves meet in the interrupt register only |
| `Keyboard` | no key stays stuck (`NoStuckKeys`), no unread byte is overwritten (`NoByteMissed`), a FIFO (`ImplementsFifo`) | three slots, one always free: the queue is full with two; a key and caps lock; a time-out of two E clocks; one machine reset |
| `KeyboardLive` | every queued byte leaves (`EveryByteLeaves`) | the same, one key |
| `DiskController` | `TransferIntact`, `NothingBeforeSync`, `Aligned`, `BlkMeansComplete`; and `TransferEnds`, `WarpEnds` | three-bit words, lengths up to two, two words of RAM, one frame of warp |
| `Machine` | `NoDrift`, `OncePerRequest`, `NotPassedOver`; and `FrameEnds` | instructions of one and two color clocks, an E clock every other, frames of three, so that the two fall on each other in all ways; masks 0, 2 and 3; sources of two levels |
| `Chipset` | the Copper keeps in step with its list (`ListInStep`), misses no WAIT, from the color clock after the one where it began (`NoWaitMissed`), keeps to what COPCON allows (`CopperContained`); blits run once they may and are reported (`BlitsAreServed`) | five lines of five clocks, of which WAIT sees two and three bits: the last line looks like the first, as lines 256 and up do, a position past the line's end exists, and one missed on the WAIT's own line is not reached again before the next line or the next frame; masks that hide lines, or clocks; two words of chip RAM, enough to tell first words from second ones |
| `HostInputUp` | violated: `UpWithTheLast` (see Findings) | a key of each kind, the two Ctrl keys, pad buttons that share keys with the keyboard and with each other |
| `Cpu68000` | the stack pointers do not mix (`ImplementsTwoStacks`), RTE goes back to where the exception came from (`ReturnsWhereItLeft`), user programs are contained (`UserContained`), an even SSP stays even and the CPU can stack its exceptions on it where there is memory (`StackStaysAligned`) | every format after every other; 64 bytes of address space, in which the user's stack has three positions, the system's seven, odd ones included, the code the addresses 0, 2 and 6 and an odd one; at most two exceptions pending; levels 0 and 7; user programs are traced; nothing answers at 6, where the code may arrive, nor the word below the system's stack, in which there is an operand |
| `Cpu68000BusError` | violated: `TakesBusErrors` (see Findings) | the same |
| `Units` | sprites: what is displayed is what the beam met (`LineShowsWhatTheBeamMeets`), an undisturbed image appears in place (`ImageInPlace`). Audio: `BuffersPlayWhole`, `IdlePathIsExact`. Pacing: `NoBurst`. Drive: what is read is what is there (`FreshWord`), no swap goes unnoticed (`NoSwapUnnoticed`), the drive is seen empty (`SwapLeavesDriveEmpty`). Host: the Amiga's keys and mouse buttons are those that the host's keys, buttons and mode hold (`HoldsMatch`) | sprites: four lines of three clocks, a log of three events (it overflows), two starts a line, two sprites, of which one only has its DMA in the log, an HSTART past the line. Audio: three words of RAM, lengths and periods of 0 (which stands for 3), 1 and 2, one channel with DMA and one without. Pacing: frames of 3 units, a lag of two frames, delays up to 25. Drive: two disks; two cylinders of two sides; two words a track; a swap of two frames. Host: as `HostInputUp` |
| `UnitsStart` | violated: `NoStartUnmet` (see Findings) | the same |
| `Algorithms` | arithmetic (`AluRight`), blits (`BlitsRight`), pictures and collisions (`ScreenShowsBitmap`), the bus (`BusFollowsItsMap`) | operands of three bits, all of them, BCD over all pairs of digits; blits of up to 4 by 3 words of four bits in all directions and lines of all octants; frames of three lines in all modes; every event that rebuilds the table of banks in any order and every write of the overlay's port between them, all sizes of access at every byte of the banks on both sides of each border of the map |

`Cia`, `Keyboard`, `Chipset` and `Units` are the large ones (1.2, 1.3, 0.7 and 2.0 million states); `Cpu68000` has 0.1 million, with many steps from each.
Why these bounds are enough: sizes appear in the code only as limits (a ring's, a track's, a
counter's), each of which is reached, passed and wrapped in the instances; the number of parties is
the code's own. Where a theorem exists it covers all sizes.

`MaxResets` bounds the machine resets of a behaviour in `Keyboard`. `firedA` and `emptyFrames` stop
counting at their caps, `quiet` at the first frame past the warp's hold. In `Cpu68000`, `InBounds` keeps the stack pointers
in `UserStack` and `SystemStack`, PC in `Code`, and the pending exceptions to `MaxFrames`: a step that would leave them
is not taken. In `MCCia8520`, `Alarms` bounds the alarm, and `half` the two halves. Nothing else is bounded
in a state machine's state, except the CPU's (below). The clocks' difference in `Machine` needs no cap: `NoDrift` bounds it.

## Fairness

- `Keyboard`: the E clock ticks for ever, and the program's handler, once begun, goes on
  (`WF(Tick)`, `WF(Handler)`). The host owes nothing. `LiveSpec` leaves out software that takes the
  port for itself, which may stop the keyboard for good, as on hardware.
- `DiskController`: the chips are clocked and frames follow one another, since `run_frame` is a loop
  called for ever; the disk turns and its track carries a sync word, so words and matches keep coming
  (`SF`, since the program moves in between). `TransferEnds` adds what the program must do for its part:
  leave DMA on, WORDSYNC in place while it waits, and the transfer alone.
- `Chipset`, `Cpu68000`, `Cia8520` and the units have safety properties only: what they do next is the program's choice.
- `Machine`: `run_frame` never pauses between its steps (`WF(Step)`, `WF(ColorClock)`). `CiaInterrupt`
  and the host owe nothing.

## Proofs

The theorems hold for every value of the constants that the modules' named assumptions admit (sizes
are positive naturals, ranges sets of naturals); TLC evaluates these assumptions in every run.

- `Cia8520Proofs`: type correctness for any byte size. `ShiftOnlyInOutputMode` and `OneShotFiresOnce` are
  inductive with a supplement each: a timer that fired in one-shot mode is stopped, so that only arming
  it lets it fire again. `IrqHeldUntilServed` and `CascadeIsOneCounter` are step properties, the latter by
  the arithmetic of a two-digit counter with the latch plus one as its base. `TodReadAtomic` follows from
  `ReadsSnapshot` (the bytes read so far are those of the value latched at the first of them) and from a lemma that
  three bytes compose the counter they were taken from. `ShiftOnlyInOutputMode` is proved and no longer a run's property.
  `TodWriteAtomic` rests on one fact, that a write of the time begun and not finished has stopped the clock.
- `KeyboardProofs`: the ring's indices and the time-out (a wait is never entered with zero left, so the
  unsigned counter cannot wrap). `NoByteMissed` needs to know where the handler stands while a byte is
  unread: SP pending, or the handler about to read, or a fault.
  `NoStuckKeys` is inductive with the type invariant and the fact that caps lock is queued only under its own code: what
  a key will be is what its last waiting transition says, so an event appended to the queue, one dropped and one sent
  are three cases on the ends of a sequence. `KeyboardIsFifo` maps each step to one of `KeyFifo` or to a stutter: the
  contents of the ring, read from `tail` to `head`, gain an element at the end, lose the first, or are cleared.
- `DiskProofs`. The drive: `FreshWord` rests on the track buffer belonging to the disk that is in whenever it
  is taken for some track; `NoSwapUnnoticed` on an empty drive's latch being set; `SwapLeavesDriveEmpty` is
  inductive with the countdown bound. The controller: `TransferIntact`, `NothingBeforeSync` and `Aligned` as invariants, each inductive
  together with the type invariant; `BlkMeansComplete` follows from `TransferIntact` step by step.
- `MachineProofs`: `IInv` is the type invariant, `NoDrift`, and two facts on the sampled level: it is at
  least the level of every active request that is not recent (`SampleCovers`), and, unless the program has
  lowered its mask over a request already taken, a sample above the mask is the level of a request that
  is due, and requests already taken and still up are at or below the mask (`SampleIsDue`). The first gives
  `NotPassedOver`, the second `OncePerRequest`.
- `MachineProofs`, the bus. `BusInv` says that the cached table is the one the configuration makes (`rebuild_banks`),
  that the overlay is at the level of its pin, and that the pin is pulled up while there is no CIA: each event rebuilds what
  it makes stale, and a write moves the pin only by reaching CIA-A, which it cannot before the CIAs are attached
  (`NoCiaNoHit`). `Table` gives every entry for every configuration, the later steps of the construction over the earlier;
  `Decodes` compares it with the documented map; `ByteAt` and `WordAt` follow a byte and a word cycle to what the map says,
  and `Chained` joins the cycles of odd words and of long words, with what was done before a panic. So
  `BusFollowsItsMap` holds for every address and any set of accesses, where the run samples the borders. TLC agrees on `BusInv` on the
  run's instance.

- `ChipsetProofs`: `ListInStep` is proved together with the type invariant, for every even number of words
  of chip RAM: each word fetched changes the parity of the program counter, a SKIP keeps it, and a
  restart resets it. `BlitsAreServed` (no blit waits with its DMA on, none goes unreported) is inductive;
  `CopperContained` follows since a clock writes registers only by an allowed MOVE.
  `NoWaitMissed` is by induction on the clocks since the WAIT began: the comparison is of one number, made of the
  masked bits of line and clock, and its two halves compare in that order because the clock's stay below the line's
  weight (`MaskedBelow`, by induction on the bits). `since` is the beam's position where the WAIT's second word was fetched,
  so the rest of that line counts. A clock that passes without a match adds itself to those that did not match (`WaitGoesOn`);
  a WAIT that begins has none (`WaitBegins`).
- `UnitsProofs`, host. `HoldsMatch` for any finite sets of keys, codes and buttons and any mapping. `InputsMatch` compares what
  the Amiga sees with the host's own keys and buttons: every Amiga key that is down has a pad button, a host key still down, or one whose
  release F12 took; every pad button, and every host key that is alone for its code, has its Amiga key down. It needs, besides the
  counts, that each entry of `keys_down` comes from a key in `given` or `taken`, and that a key of `given` alone for its code is in `keys_down`. `KeysMatch` says that the count of
  an Amiga key is the number of keyboard keys and pad buttons that hold it, `MouseMatches` the same of the
  mouse's buttons, `ModesApart` that what is held in one mode is not released in another; a button that comes
  down or up changes one count by one, by lemmas on the cardinality of what holds a key.
  `NoBurst` by the balance `burst + behind <= MaxLag + FrameTime`: what the loop has gained on the
  clock and what it still owes together stay within what it may owe. It holds while a frame is emitted, and while the
  loop is about to sleep unless that frame took so long that nothing is left of the burst.
- `UnitsProofs`, audio. Of the audio channels, `AudioInv` says of each that its pointer and count are where the first announced buffer
  and the word that sounds say (`Plays`), and of the idle flag that it is up only while no channel has DMA or a word
  of its own. A fetch from such a channel (`Ready`) plays the next word (`NextSounds`) and announces a buffer exactly at
  the last one (`FetchPlays`); register writes change only what the next buffer latches. `BuffersPlayWhole` and
  `IdlePathIsExact` follow, for every size of RAM, every buffer length, and any writes.
- `UnitsProofs`, sprites. The invariant `SpritesInv` relates, from the second clock of a line on, the log to the registers
  (`LogMatches`): replayed as far as the beam, it yields the sprite as it is and the starts met so far, of which the replay
  keeps the first `MaxTriggers`. A write appends an event where the beam is (`EventMatches`), a clock moves the beam past two
  positions (`BeamMatches`); neither DMA nor a write for another sprite disturbs it (`Along`). At the end of a line that is
  `LineShowsWhatTheBeamMeets`: the replay has one start more than the beam met exactly when the sprite is left armed with an HSTART
  past the line (`Stray`), and no value of HSTART escapes the replay, whose end (`Never`) is past all nine bits of it. `InPlace` says of a sprite that waits that its pointer is at its image, of one that is active
  that pointer and data are those of the row of the last line whose DMA is past: `SpriteDmaPlace` takes it from line
  to line, through a control pair's fetch, the start, the rows and the end. `triggers` and `dma_line` are recursive functions;
  `ReplayAppend` (one event more is one event applied to the result) and `DmaLine` (all the sprites, one after the
  other) are proved with the induction of `Recursion`.
- `Cpu68000Proofs`: the four properties of the run, for any even address space of at least 16 bytes, any targets, pointers,
  SR values and displacements, any set of addresses that nothing answers, and any number of pending exceptions. The invariant `IInv` says that between steps
  nothing is thrown, and that memory holds each pending frame, whole, at an even address; TLC agrees on the
  run's instance. `InstructionDoes` shows of every instruction that it `Runs`: it leaves SR and the other stack
  pointer (`Keeps`), or raises an exception, or is one a supervisor may run (`Supervises`). A panic leaves a CPU that has thrown as an address
  error does, but is not caught by it: what an instruction leads to is a step, an address error on top of it (`AddressErrorEnters`) or a halted CPU
  (`Halts`), and `StackStaysAligned` names the words below SSP that must answer (`Room`). Data instructions are
  proved regular format by format: each operand moves A7 by whole words (`Level`), a load of A7 comes last. `Stacked` frames are
  proved to lie in memory with the return address and the old status register below where SSP was (`ExceptionExcepts`,
  `InterruptExcepts`), an address error to put its words below such a frame (`AddressErrorEnters`), which needs the addresses
  modulo the address space to be distinct (`PlusApart`).
  Memory outside what an instruction wrote is undisturbed, and a frame written over is no longer pending: so RTE finds
  what the exception pushed.

Only model-checked:

- `EveryByteLeaves`, `TransferEnds`, `WarpEnds` and `FrameEnds`: liveness and ENABLED are outside the prover's reach.
- `AluRight`, `BlitsRight`, `ScreenShowsBitmap`: equalities of values computed by folds over bits, words and pixels, over bounded
  inputs; what a fold computes for every input is induction over data.

## Findings

Each is a violated property with a run of its own, of what the repository says against what the code does.

- `UpWithTheLast`: `frontend/gamepad_mapping.hpp:46-47` promises that an Amiga key held by several host
  inputs goes "down with the first and up with the last". With F1 held, F12 pressed and F1 released
  (`main.cpp:327-334` returns before `amiga_key`), no host input holds the key and the Amiga still sees it
  down. `HoldsMatch` shows that this is the only way a key outlives what holds it.
- `NoStartUnmet`: `sprites.hpp:32-33` calls a trigger the moment the beam reaches HSTART. The replay of a line goes on to `~0u`
  (`sprites.hpp:120`), so an armed sprite with HSTART 454 to 511 has a trigger on a line of 454 positions. It shows no pixel, but
  `is_attached` (`denise.cpp:71-77`) looks at it: a sprite moved out of the line with ATTACH set, after it was met without it, is drawn as
  attached from the line's start.
- `TakesBusErrors`: `README.md:179` of the repository says that the CPU takes a bus error exception. `BusError` (`memory_bus.cpp:204-208`)
  is not caught in the CPU: `machine.cpp:54-60` freezes it.

Three more disagreements came up, which have no run of their own:

- The promise of `gamepad_mapping.hpp:46-47` the other way round: left and right Ctrl are one Amiga key (`sdl_keymap.hpp:107-108`); with
  both down, the release of either lets it go, since `keys_down_` is kept per Amiga key and the second press is dropped (`main.cpp:336`).
  `HoldsMatch` names the case (`Alone`) and shows that no other key held by a host input goes up.
- `cpu68000.cpp:286` gives an odd SSP as the reason of a double bus fault. `in_address_error_` outlives a panic that falls into the
  stacking of an address error, and `reset()`; after that reset the first address error halts a CPU whose stack is sound. Latent:
  `main.cpp` resets the machine once. `StackStaysAligned` names `inAddressError`.
- `debug_dump.cpp:115-117` says that address errors are not stacked and that a double bus fault cannot happen; both are older than `address_error`.

## Modelling choices worth knowing

- `Machine` has two of Paula's sources, of levels 2 and 3. Level 7 is left out: Paula never asserts it, so
  the CPU's latch for it is never set. The program's writes to INTENA are of one source at a time; the
  master enable bit is not separate, as clearing it equals clearing all sources for `interrupt_level`.
- `OncePerRequest` excuses a program that lowers its mask over a request it was interrupted for and has
  not cleared: that is interrupted again by right.
- `NoStuckKeys` excuses a key whose latest transition a full queue dropped (`lost`), which is what the code
  does and says.
- `TransferEnds` assumes WORDSYNC stays on during the wait. The code's `disk_word` requires it, though the
  transfer was told to wait when it started; `NothingBeforeSync` is the other side of that coin.
- `Chipset` leaves out what a blit computes: it is one step in the code too. A write of one half of COP1LC or
  COP2LC may leave any address, torn ones included. INTREQ is only its BLIT bit.
- `Cpu68000`: `Machine::reset` writes SR without exchanging the stack pointers; in the program it runs only before the first instruction
  (`main.cpp:612`), so `ImplementsTwoStacks` excuses it. A CPU that halts, by a double bus fault or by a panic, stays as it is until a
  reset; `ImplementsTwoStacks` and `UserContained` say nothing of that last step. Of an access that panics half-way (MOVEM, a long word
  whose second half nothing answers) the model does not keep which words went out: nothing is executed after it, and a reset
  forgets what memory held.
- `Cpu68000`, what answers: `Unmapped` is a set of addresses fixed for a behaviour. Both bytes of a word must be in it for a word access to panic, as one CIA is enough
  (`read_io16`); vectors are always readable, as chip RAM or the overlay is at 0.
- `StackStaysAligned`. UNLK loads A7 before it reads: with an odd address in the register, in supervisor mode, the CPU has a double bus fault, which the
  property names; it names the loads of SSP with an odd value too: by an instruction that loads A7, by MOVE USP, and by LINK with
  an odd displacement (which the run includes). A panic may halt the CPU in any instruction, whatever SSP is; the property says of interrupts and of
  jumps to odd addresses that only missing memory below SSP does.
- `ReturnsWhereItLeft`: a handler that moves past or overwrites its frame has given it up. The system stack is taken to be plain RAM
  where it answers at all: what is written there is read back at that address and at no other.
- `LineShowsWhatTheBeamMeets` says nothing of a line whose log overflowed (`lost`): there the code drops writes from the
  display, by design.
- `PaulaAudio`: a write of one half of AUDxLC may leave any address, torn ones included, as `location` writes any of
  a set. The two samples of a word follow each other in `SampleDone`; what is heard of them is the output only.
- `FramePacer`: a frame may take any time of `Delays`; the host's clock only goes forward, as `SDL_GetTicksNS` does.
- `HoldsMatch` excuses the two cases under Findings, each by name: `taken` is a host key whose release F12 took, `Alone` a host key
  that shares its Amiga key with no other.
- `HostInput` keeps of the joystick port only whether the keyboard joystick fires; the gamepad's stick and
  fire button are polled anew at each update and leave no state.

## Plan

Done: the components in the table of modules, and the proofs above. Left, most valuable first:

1. Denise's mouse and joystick counters with the motion events of `main.cpp`; the loop detector of `Machine`.
2. The MFM encoding of `core/adf.cpp` as operators against a decoder.

## Not modelled

- The window, audio output and command line: calls of the host's library.
- The disassembler, the state dumps, the trace ring and the loop detector: they only report.
- ROM and disk image loading, the MFM encoder: file input and a pure encoding; `FloppyDrive` names the words it yields.
- Denise's mouse and joystick counters and the expansion of a colour: data without control.
- Volume and the mixing of channels: sums of what `PaulaAudio` puts out.
- The CPU's cycle counts: `Machine` lets an instruction take any of its costs.
