# x68k-stackchan in TLA+

A verification project for the X68000 emulator of this repository: TLA+ models of
its core, TLC runs that check them on small instances, and theorems that TLAPS has
checked for every instance. Paths are those of the repository; `core/`, `platform/`
abbreviate `src/x68k/core/` and `src/x68k/platform/`, and `main.cpp` is
`main/main.cpp`.

The reference is the code. Where a comment, a document or a test says something
else, that is a divergence (section 6), not a definition.

## 1. Inventory

The firmware runs on an ESP32-S3 with two cores. Core1 runs the *emulation task*:
it runs the guest for one slice, drains the host's input into the devices, makes
sound, draws a picture into a borrowed buffer, and now and then saves the SRAM.
Core0 runs the *display task*, which takes finished pictures and sends them to the
LCD, moves the face, polls touch and the serial console. The *audio task* takes
blocks of sound out of a ring and hands them to the speaker. Inside the guest
everything - CPU, devices, interrupts, DMA - is sequential, but the default loop
leaves the devices behind the CPU and catches up when it must, and the translator
replaces runs of instructions by native code made earlier.

| component | state | operations | what makes it correct |
|---|---|---|---|
| Virtual-time scheduler `core/scheduler.h` | `debt`, `now`, `unsettled`, deadline, slice | advance, consume, armDeadline, wake, hold, injectPending | no cycle lost or counted twice; a slice overruns by less than an instruction |
| Run loops `core/machine.cpp` | CPU, devices, which loop | `runWith`, `runEventDriven`, `settle`, `reachSlow`, `skipStopped`, MMIO hooks, `pressKey`, `moveMouse` | both loops show the guest the same machine; no interrupt is lost; every run returns |
| MFP `core/dev/mfp`, CRTC timing, RTC | interrupt registers and timers; frame position; calendar | tick, predict, acknowledge, register writes | late ticking equals prompt ticking; predictions exact; the calendar turns right |
| SCC and mouse `core/dev/scc` | registers, pointer, FIFOs, pending bits | register access, report, acknowledge | whole reports, no dead FIFO |
| Input queues `platform/key_queue`, touch `platform/input_touch` | events; pending motion and buttons; last touch | push and sample (Core0), drain (Core1) | nothing accepted is lost or reordered; releases arrive; the cursor does not jump |
| Frame exchange `platform/frame_channel` | slot of each buffer, serials | tryWriteBuffer, publish, take, done | the cores never share a buffer; the channel is a queue |
| Tile damage `core/video/tile_generations.h`, `platform/display_lcd` | generation per tile and buffer, flags | damage, render | each picture is the whole screen; the LCD catches up |
| Application modes, tasks `main.cpp` | mode, redraw request, pacing | transitions, the loops | no redraw is lost between the cores; the guest goes on |
| Audio ring `platform/audio.h`, player, `speaker_m5` | indices, epochs, buffers in flight | commit, lease, pause and restart, submit | no slot shared; nothing of an ended stream starts to play; nothing dropped |
| SRAM and its file `core/dev/sram`, `platform/sram_persist.h` | image, dirty flag, two files | write, save, load | an image survives any power loss; a change is saved in the end |
| SASI disk, floppy controller, DMAC, IOSC | bus phase; command, execution, result; channel registers; enables | commands, transfers, interrupts | whole sectors; success means moved, where the storage looks; every command ends |
| Native code `platform/jit`, `core/cpu/block_planner` | caches, page generations, epoch, code memory | plan, emit, look up, run, flush | no stale block runs; native code does what the interpreter does |
| Instruction decoding and arithmetic `core/cpu` | - | length table, interpreter, planner; flags, BCD, division, shifts | three decoders agree; results are those of the numbers |
| OPM and ADPCM, rasterisers, face, servo, host program | | | not modelled, or only as far as others see them (section 7) |

How they interact: the devices tell the loop the next cycle at which something
observable can happen, and the loop arms the scheduler with it; an MMIO access to a
clocked device first settles what is owed and, if it writes, cuts the deadline; the
host's input arrives between two slices, on the emulation core, out of queues the
display core fills; video writes report damage, which decides what is drawn, and
writes to RAM advance the page generations that decide which native blocks may still
run; a DMA transfer is run to its end by the write that starts it. A mutex guards
each queue and the frame channel, while the audio ring has none; drawing, sending
and offering a mouse report happen outside of the mutex.

The hard behaviours: state that is deliberately stale (devices behind the CPU, tiles
behind the scene, blocks behind the program); events no device predicts (keys,
register writes); edge-triggered acknowledges that destroy the pending bit; two cores
with three buffers, a ring without a lock and independent flags; retries of refused
reports; power losses between two file operations; devices that stop in the middle of
a transfer; counters that wrap. `PROJECT.json` lists each with its line and the
properties that cover it.

## 2. Modules

```
Scheduler ─┬─ RunLoop ── RunLoopProofs             RunLoop implements TwoClocks
           └─ Machine ── LoopAgreement ─┐          Machine implements RunLoop
Mfp, Crtc, Rtc ── Devices ─┬─ Machine   ├─ MachineProofs
                           ├─ DeviceTime┤
                           └─ DeviceProofs
FrameChannel, TiledRenderer ── FramePipeline ─┬─ ExchangeProofs
                       AudioRing ── AudioPath ┘    FramePipeline implements FrameQueue
                                                   AudioPath implements AudioRing
Scc ── MouseChannel ─┬─ HostInput ── HostInputProofs
          KeyChannel ┘
Fdc, Sasi ── DiskSystem ── DiskProofs
GuestCode ─┬─ NativeCode ── NativeCodeProofs       NativeCode implements CodeCache
CodeCache ─┘
SramSave ──────────────────────────────────────────┐
OpcodeWord ── Interpreter ── Planner ─┬─ Opcodes ── SramAndAluProofs
                                 Alu ─┘
```

`MC*` modules give the constants values that a `.cfg` cannot write.

* **Scheduler** - the class as operators on a record, one per method, field names
  kept. `CpuTime` is `deadlineAt + debt`.
* **TwoClocks** - the promise: CPU time only grows, device time follows and never
  leads, and outside a run they are equal.
* **RunLoop** - what the event-driven loop does to the scheduler, for *any* devices
  and guest: `pc` is where the thread is (`hot` the inner loop, `slow` in
  `reachSlow`, `skip` in `skipStopped`, `idle` outside `run`). What a device would
  answer is chosen freely.
* **Mfp, Crtc, Rtc, Devices** - the devices that keep time, as operators on records.
  Timers count by a loop and by the closed form of `tickFast`; both are modelled.
  The SCC, IOSC and FDC appear as the interrupt they hold.
* **Machine** - both loops over these devices. One action is one call of `step()`
  with all it touches, one `reachSlow`, one turn of `skipStopped`, or one input of
  the host. The guest is arbitrary: any element of `GuestOps` at any cost.
* **LoopAgreement** - Machine with a `twin` that lives through the same instructions
  under `runWith`; the two are compared before each instruction.
* **DeviceTime** - the same devices twice, ticked by instruction and settled late,
  with every prediction compared with what then happens. A second kind of guest sets
  the clock digit by digit, with any nibble, and the calendar is compared with a
  count of days.
* **FrameChannel, FrameQueue** - the channel and the queue it promises to be.
* **TiledRenderer, FramePipeline** - which tiles `renderTo` draws, the two cores
  around the channel, and the way from a guest's write to the LCD. Drawing takes two
  steps, so a picture can be caught half drawn. A tile's pixels are the tuple of what
  they depend on.
* **Scc, MouseChannel, KeyChannel, HostInput** - the SCC's ports; the way of a report
  from `MouseQueue` to the cursor; the key queue, the MFP's one-byte buffer and the
  guest; and, around both, the panel, the serial console and the mode switch. The
  handler in the IPL-ROM is external, modelled from what `scc.cpp` says of it. A
  behaviour uses one of the two ways in (`way`), as they share nothing but the turn in
  which both are drained.
* **AudioRing, AudioPath** - the ring, where each access to an atomic that the other
  side writes is a step; then the emulation task's turn (pause, pacing, slice,
  publishing), the audio task and the speaker with the buffers it plays from.
  `playRaw` and the hardware are external.
* **SramSave** - the SRAM, `saveSramImage` and `loadSramImage`, one step per file
  operation (two for a write, since opening empties the file), with power loss between
  any two. Contents are versions; a version in `Spoilt` is one whose magic the guest
  destroyed.
* **Fdc, Sasi, DiskSystem** - the controllers as operators on records, then the I/O
  interrupt controller, the
  DMA channels, the disks and the guest that sends commands byte by byte, transfers by
  DMA or by hand, and serves the interrupt. A card may fail at any sector, in the write
  or in the flush behind it: `ok` is what `fwrite` answers and the controllers hear,
  `kept` whether the data is on the card. `lost` only observes: the sectors of the
  command that were handed over and not kept. A read that runs past the end of the
  hard disk's image fails; a write past it makes the image longer.
* **CodeCache** - the promise of a translation cache: translations are made from one
  page's words, keyed by that page's generation and the epoch of the address map.
* **GuestCode, NativeCode** - a 68000 cut down to one instruction of each kind the
  translator treats differently, with its two prefetched words, and the planner, the emitter and `BlockRunner` beside it: one
  turn runs a block or a step of the interpreter. Blocks are data, the words they were
  made of baked in.
* **OpcodeWord, Interpreter, Planner, Opcodes** - three decoders of an instruction
  word: `m68k_length.h` (in OpcodeWord), the `m68k_ops_*.cpp`, and `block_planner.cpp`
  with what `block_emitter.cpp` makes of a plan. An instruction is what it does:
  operation, operands, size, extension words, cycles of each outcome, and whether it
  may trap.
* **Alu** - sums, comparisons, BCD, division, shifts and flags by value, and the flags
  as native code computes them from sign bits; `H`, half the number of values, gives
  the size.

## 3. Runs

| run | question |
|---|---|
| RunLoop | Does the scheduler keep its account whatever the devices announce? |
| Machine | With real devices, both loops and the switch between them: does nothing observable precede the deadline, is no interrupt swallowed or left behind, does each run return, and is the scheduler used as RunLoop says? |
| LoopAgreement | Do the two loops show the guest the same machine, for the same duration? |
| DeviceTime | Are late settlement and prediction exact, and does each second lead to the next instant? |
| FramePipeline | Do the cores stay apart, is the channel a queue, is each published picture the whole screen, and does the LCD catch up? |
| HostInput | Do reports stay whole, do motion and releases arrive, does nothing jump when the mode changes, is each accepted key heard once and in order? |
| AudioPath | Is no cell shared, does nothing old start to play, is nothing dropped or overwritten, does the guest go on? |
| DiskSystem | When devices stop in the middle, are sectors whole, does success mean moved but for flushes nobody looks at, does every command end? |
| SramSave | Does an image survive every power loss, and is a change saved in the end? |
| SecondSave | (violation) Does a save never take away what a start would have found? |
| NativeCode | Is what the runner remembers still true, is a turn of native code some number of interpreted instructions, and is the runner a CodeCache? |
| Opcodes | For all 65 536 words: do the three decoders agree, are native flags the interpreter's, is the arithmetic that of the numbers? |

Every property of a passing run has a mutant in `PROJECT.json`: a plausible slip in a
modelled definition that TLC then reports.

Some definitions are stated beside those the runs check and are not among them,
because a checked one contains them or a theorem proves them: `Owed` and `Overrun`
(RunLoop), `InOrder` (FramePipeline), `CleanIsStored` (SramSave). Others are what the code
does not keep and section 6 tells of: `NothingSwallowed` (Machine), `DeadlineExact`
(DeviceTime), `CompletionAgrees` and `SuccessIsStored` (DiskSystem). Type invariants are
proved for RunLoop, the frame channel, the audio ring, the SRAM, CodeCache, Machine
(`MachineTyped`) and the disks (`Types`), as part of each inductive invariant; that of
FramePipeline is stated and holds when added to its run.

### Bounds

* *Times* are scaled down, keeping order and divisibility: everything the CPU spends
  is even, as in the code; a minimum deadline (256) becomes 3-4, the fallback span
  (65536) 5-16, a frame 24-36 cycles, a timer period 6-8, the largest chunk of a
  settlement less than a frame, so all cross each other within a run or two.
  `Instants` (RunLoop: the times at which a run may begin), `MaxTime` and `MaxElapsed`
  end the time after each device had several events.
* *MaxRuns = 2, MaxInputs = 1*: an effect across a slice boundary needs two slices,
  and inputs only matter by where they fall.
* *MFP*: `TimerModulus` 4 or 5 stands for 256 and lets a data register of 0 (= 256)
  occur; `PrescaleTable` has three ratios that do not all divide each other.
* *LoopAgreement*: a timer of 6, 12 or 16 cycles, a frame of 24 with a blank of 8, a
  second of 26 and slices of 14, so that a timer falls on, just before and just after an
  edge of the blank, and in 16 cycles with it.
* *DeviceTime*: the two last seconds before each turn of the calendar, two register
  writes, nibbles in and out of the decimal range; control values that stop a timer, start
  it and shrink the prescale of a running one, a data register of 1.
* *FramePipeline*: two tiles, so a change can miss one; three tiles of video memory,
  so that the scroll moves something out of sight; generations modulo 3, so they wrap;
  two changes. `Programs` are the kinds of change that occur in one execution; they
  leave out two combinations, which section 6 tells. After `MaxPublished` pictures
  nothing more is published, which only zoomed screens reach, as they are redrawn on
  every turn; `LcdCatchesUp` says so.
* *HostInput*: four samples of the panel, two places and the lifted finger, mode
  changes between them; three typed characters for a queue of two; the FIFO has its
  real eight places, of which two reports take six. `Routines` are two writes of WR5.
* *AudioPath*: three cells, four blocks, so the ring goes round; two restarts, so a
  block of a stream can be stale twice over; time in quarters of a block, and slices
  that do not divide it. `Slack = 0` is the tightest pacing.
* *DiskSystem*: two commands in a row, so one can leave something for the next; two
  cylinders, two sectors of two units, DMA counts short, exact, long and zero
  (`CountZero`, `MtcZero` stand for the 65536 and more that a zero means); one fault,
  at a read, a write or a flush. A command writes across the end of the hard disk's four
  sectors, and another reads there.
* *SramSave*: three versions, one of them spoilt, two failures and two power losses:
  enough for a loss during the recovery from a loss.
* *NativeCode*: two pages of eight words and a ROM; blocks of three instructions; two
  slots of the cache, so entries collide; generations up to 4, then 5, which never
  matches; code memory for two blocks; two disturbances (DMA, reset, remapping) per
  execution. The programs patch themselves, call across pages and run into the ROM.
* *Opcodes*: every word of sixteen bits. As data the same word is a pair of bytes, a
  dividend of ten bits with a divisor of five, or a byte with a shift count and kind.

### Fairness

* Machine: a run that has begun goes on (the thread executes it). It is the weak
  fairness of `Progress` with its ENABLED spelt out (`CanGoOn`), which TLC would take
  too long to evaluate. The guest promises nothing.
* FramePipeline: both tasks loop for ever: weak fairness of borrowing, rendering,
  taking and sending. The guest and the user promise nothing; the drawing budget
  (`PutOff`) may interrupt but not for ever.
* HostInput: both cores go on; `drain` runs after each slice (weak); the guest does
  not mask level 5 for ever and its handler, once begun, ends (strong, since slices
  and drains alternate). That the guest reads a byte within `GuestLatency` slices is an
  assumption on the guest, the one `kStepsPerEvent` is chosen for.
* AudioPath: the two tasks are scheduled, the clock advances, the speaker plays
  (weak fairness of each).
* DiskSystem: the guest goes on with its driver and a transfer with its units.
* SramSave: the task keeps running; power losses and faults are bounded and promise
  nothing.
* The other runs check safety only.

Deadlock checking is on in RunLoop and Opcodes, which never stop, and off in the
others, whose bounds end the execution.

## 4. What is proved

TLAPS checks eight modules of proofs to the last leaf. No theorem bounds time, counters
or sizes; each holds for all values of the constants that meet the named assumptions
of its module.

**RunLoopProofs** (costs and slices positive, delays natural, the order of the
constants). `TypeCorrect`, `TimeConserved` (`Settled`, `Owed`), `DebtBounded`,
`SliceRespected` (`InsideSlice`, `Overrun`), and `ImplementsTwoClocks`: the initial
state and every step map to a step of TwoClocks or a stutter. The invariant is the
conjunction of the run's own invariants, inductive as it stands, but only together:
`DebtInRange` at `slow` needs `InsideSlice` at `hot`, `Overrun` needs both, and
`Settled` needs `Owed` to hand over a natural number. One lemma per scheduler operator
says which fields it moves (`ArmFacts`, `WakeFacts`, ...); three lemmas say that a step
which arms, holds or settles re-establishes the invariant; one lemma per action puts
them together.

**DeviceProofs** (any prescales, frames, seconds and modulus that meet the assumptions of
Mfp, Crtc and Rtc). What the devices that keep time do, as lemmas on their operators.
For each: its types; that ticking it by less than it announces raises nothing and leaves
the announcement shorter by as much; and that ticking it by `a` and then by `b` is ticking
it by `a + b` (`TickDevicesAdds`, for chunks that do not reach past the second edge of a
blank, the one thing a chunk can lose). A timer counts by the short path or by a loop, so
both need the recursive count of `TickTimerCounted`, by induction on its passes; the clock
the same for its seconds. `SettleIsTick` puts the chunks of a settlement together.

**MachineProofs** is about Machine, LoopAgreement and DeviceTime.

*The machine* (any guest, devices, costs and inputs that meet Machine's
assumptions). `MachineImplementsRunLoop` maps every step of the machine to a step of
RunLoop or a stutter, so RunLoopProofs hold of the machine's scheduler; what carries it
is that a settlement, however it is cut into chunks, spends what was owed.
`MachineAcknowledges`: what a device has acknowledged the CPU takes. It rests on
`RequestInv`, that a request in the CPU lies above its mask, which the order of
serving, stopping and executing in each pass keeps. `MachineServes`: no slice ends with
an interrupt that the CPU would take. `MachineIsQuiet` is about prediction: between two
device events nothing that is raised could have been served. Its invariant (`Deadlines`)
says that the deadline is no later than what each device would announce now (`Armed`),
and that every timer is `Drained`, that is, has collected less than one count of its
prescaler (or the deadline is already over). As every timer is drained when a deadline is
armed, the unsigned subtraction of `cyclesUntilNextRaise` does not wrap there; where it
does wrap, between a register write and the next tick, nothing is armed with it.

*The two loops.* `TheLoopsAgree` is `LoopsAgree`, for any guest, devices, costs and
inputs, if an instruction is shorter than the blank and the rest of the frame
(`LoopAgreementAssumption`; it takes some hundred cycles, they take some ten thousand).
`LoopsAgree` looks only at two places of the loop. The invariant `InPhase` says how the
twin relates to the machine at each `pc`: in `hot`, the twin after serviceInterrupts has
the CPU and the devices settled up to now; in `slow`, the devices are behind by what
`reachSlow` is about to settle; in `skip` they are level, asleep and with nothing
pending. It needs three other invariants. `Armed`: what is owed lies before the next
event, so a settlement raises nothing that the twin has not seen and the MMIO paths, which
settle or do not (`HotAccess`), end in the same state. The hot loop below the deadline has
nothing pending: this is what `holdForPendingInterrupt` is for, and where it fails is what
`late` marks. And RunLoop's account, by which the run ends in the same cycle. A skip of
`n` cycles is compared with as many passes of a sleeping twin by induction: none before
the last meets an event, and the last one is the step that rounding up to the grid adds.

*Late settlement.* `LateIsPrompt` is `DeferredIsPrompt`, for any writes to the timers
and the clock and any order of settlements, if an instruction is shorter than the blank,
the rest of the frame and a second (`DeviceTimeAssumption`). `PromptInv` adds that the
deferred devices hold less than a second and show the blank the beam is in (`InTime`), and
are owed an even number of cycles, less than leads past the second edge of the blank; that holds because the deadline is at most
the first edge away when the last instruction begins, and an instruction does not reach
from one edge past the other.

*The calendar.* `ClockCounts` is `NextInstant`. `DeferredIsPrompt` is not needed; what is
is that at most one second is carried in an instruction (`AtMostOneSecond`), and then that
`advanceOneSecond` turns each date of the century into the next (`SecondCounts`). The
carry chain is followed from below: `DayRuns` for the days of a month, `MonthsFollow` and
`YearsFollow` for the start of the next month and year in the count of days.

*The predictions.* `PredictionsHold` is `PredictionsExact`, from the same invariant. The
walk of the property, two cycles a step, is followed by induction twice. Until the next
event every announcement shrinks by two cycles a step and nothing else moves
(`WalkStill`); if after the last step no device were due, the deadline could have been
later, but it is the latest that is after no event (`EventIsThere`); and the device that
is due does what it announced: the blank changes, the second is another, or the timer's
channel is pending (`SomethingHappens`). Until the first prescaler is full the others
only collect (`WalkCollects`), and the step that fills it changes its counter
(`ChangeIsExact`), unless it ends on a data register of 1. It needs that `kNoDeadline`
lies beyond a frame and beyond every prescale, which `DeviceTimeAssumption` says. The
hypothesis `Drained` is the invariant of a machine that arms deadlines (`Deadlines`).

**ExchangeProofs**, pictures (any buffers, tiles and changes; fewer pictures than serial
numbers). `PipelineExclusive`: the cores never work in one buffer. `PipelineInOrder`:
the picture being sent is older than all that wait. Neither is inductive: `Ownership`
ties what each core holds to the slot states, `Numbering` keeps every serial below the
next. Every step of the pipeline is an operation of the channel or leaves it alone
(`StepIsOperation`). `PipelineImplementsQueue` is the safety part of `ImplementsQueue`:
the serials that wait have no gap (`QueueInv`), so in ascending order they are a queue,
with publishing at one end and taking at the other. `PublishedPictures`: each published
picture is the screen, for programs that do not write a scrolled plane
(`NoScrolledWrites`, the divergence of section 6). `PictureInv` says what makes drawing
only changed tiles enough: a tile a buffer holds in the scene's generation has the right
pixel unless all of the picture is pending; generations may wrap.

**ExchangeProofs**, sound (at least two cells, any blocks and restarts). `CellsNeverShared` needs
only that the indices stay within one turn of the ring. `RingCurrent` needs what the
cells between the indices hold, that a block is of the current epoch exactly when it
lies at or above `discardBefore`, and how much of it the consumer may rely on between
two of its loads: nothing if the stream has changed since, which is what it looks at
last. `PathImplementsRing` carries both to the whole path
(`PathCellsNeverShared`, `PathCurrent`), and `PathNothingDropped` adds that pacing leaves room for the block a
slice may end. `PathPlayedIntact` (three buffers or more): the buffers the speaker holds
are the last ones submitted, in a row, and the next to fill comes after them.

**HostInputProofs** (any positions, codes, routines, queue length and FIFO).
`KeysHeardInOrder`: the guest hears the accepted bytes in order, if it reads within
`GuestLatency <= StepsPerEvent + 1` slices, which is what `kStepsPerEvent` is chosen
for. The invariant gives each event that waits its place among the accepted bytes, and
says how long the byte in the MFP has been there. `MouseNeverJumps` is `NoJump`: a drag
remembers the last sample, and there is none while the face is shown. Three theorems are
about the way of the mouse, if what the guest writes to the SCC leaves WR2 and WR9 alone
and goes on receiving (`PoliteRoutines`; without it section 6 has a counterexample).
`GuestIsInterrupted` is `ByteHasInterrupt`; its invariant also follows the register
pointer, since the byte that ends the handler is a command only at WR0 and otherwise
goes into a register that must be one the mouse does not need. `ReportsStayWhole` is
`WholeReports`. `NoDistanceLost` is `MotionConserved`, if as many of the largest moves as
there are samples fit the byte of a report (`FitsByte`; otherwise `saturateDelta` cuts
them, *Fast motion* in section 6): the invariant bounds what gathers in the queue and in
`drain()`'s hands by the samples so far.

Some of these speak of whole sequences, and the library's rules of induction cannot be
used. The induction needed is proved from its facts on finite sets instead
(`Induction`): if a set of numbers with 0 and all successors lacked one, the predecessor
map on the numbers missing below would be injective and not surjective on a finite set.
`FoldExists` then gives the function that a fold over a sequence stands for, which is
how `PlayRoutine` and `Distance` are unfolded.

**SramAndAluProofs**, first part (any images, spoilt ones, faults and power losses). `SramRecoverable`:
a start after any step finds the last saved image or the one being saved, unless a
rename has failed. `CleanSramIsStored`: a clean SRAM is on the card. `Recoverable` is
not inductive, for it says what the next start finds and not in which file. The
invariant adds that: the primary file between saves (`Settled`), the temporary one
while a save replaces it (`Replacing`), and the same again for a start that was
interrupted (`Starting`).

**DiskProofs** (any disks, sectors, commands, counts and failures; `FdcAssumption`,
`SasiAssumption` and `DiskAssumption` ask that commands have the length their code gives
and that their bytes tell the two controllers apart). `SectorsStayWhole` is
`WholeSectors`, `StatusIsHonest` is `HonestStatus`: success means moved except for
sectors in `lost`, and nothing is lost while the card has not failed. Both speak of the time after a
command, when the controllers have forgotten it, so neither is inductive. `DiskInvariant`
follows the data through the command instead.

1. *Positions.* The n-th unit of a command has one place: `FloppySector` counts the
   sectors across the two heads, `Number` and `Before` say how many the registers have
   passed. `Executing` says that record, head and the ends of the track are where that
   count puts them and that sectors so far were of the disk and ascending, so no sector
   is met twice.
2. *What has moved.* `Reading`: the controller's buffer is the sector it stands on, and
   the guest has all units before the position. `Writing`: the buffer holds the units
   since the last full sector, and all sectors before are on the disk or in `lost`
   (`Stands`, `StandsHard`).
   `DataIn`, `DataOut` and `Served` say it of the bus. `Moved` is what the DMAC has
   counted, or what the guest moved by hand.
3. *How a transfer ends.* By terminal count, in the middle or on a sector's last unit;
   by the end of the track; by a card that fails; by a device that stops before the
   DMAC. `WrittenSoFar` says that a controller that is out of its execution phase
   early has a failed ST0, and `Cause` that the ROM's table holds it.
4. *What is lost.* A sector is lost by a step in which the card fails, and in no other
   (`LossKept`).

A lemma for each operation of a controller says which registers it may change
(`ShapeBegin`, `ShapeAdvance`, ...), one for each action what it keeps, and
`DisksKept` puts the 22 actions together. TLC agrees with `DiskInvariant` on the states
of the run DiskSystem.

**NativeCodeProofs** (any RAM, ROM and images of it, any words and places for DMA, any
sizes of the runner's tables; `GuestAssumption` asks for two pages, two words a page and
a generation that can saturate, `NativeAssumption` for tables that are not empty). Three
arguments meet here.

1. *Blocks are well made* (`PlanMakesABlock`): what the planner and the emitter make is
   a row of instructions without gap that begins on the entry's page, no longer than the
   block's words, and none that the interpreter must do. `PlanStays`: the plan depends on
   nothing but those words, so what could not be translated still cannot while the
   generation stands.
2. *A block does what the interpreter does* (`InstructionDoesTheSame`, one lemma for
   each kind of instruction, then `BlockRuns`). Between two instructions of a block the
   prefetched words need not be what the interpreter would hold, so the two machines are
   compared up to these, and at each exit - a guard, a write to the block's own page, a
   taken branch, the end - `Boundary` restores them. `NativeCodeIsInterpreted` is
   `NativeIsInterpreted`, for blocks of any length.
3. *What is remembered is true* (`RunnerIsSound`). `CacheIsCurrent` is not inductive: it
   speaks of blocks whose key matches now. `RunnerInvariant` speaks of all: none has a
   generation or an epoch ahead of memory's, and one level with them shows what memory
   shows, snapshots included; refusals likewise. What every step of the guest, DMA and
   the switch keeps is `Evolves`: memory changes only where a generation grows or is
   saturated, or the epoch grows. `CacheStaysCurrent` follows, and with it
   `NativeCodeImplementsCache`: each step is a visit of CodeCache, a fresh start, or a
   stutter.

The module ends with CodeCache itself, for any pages, slots and words. `CacheHitIsFresh`:
a hit runs what the page holds. `CacheKeepsThePast` is the inductive half: no translation
remembers a generation or an epoch of the future, so a miss cannot become a hit by
accident. Plans and runs are recursive functions, reasoned about by `SetInduction`: the
least number outside a set that has 0 and all successors cannot exist
(`WFMin` of the library needs no operator as a parameter).
TLC agrees with `RunnerInvariant` on the states of the run NativeCode.

**SramAndAluProofs**, second part (any `H`, so bytes, words and longs). `EmittedFlags`: the sign-bit
formulas of the emitter give the interpreter's flags, and `NativeFlagsHold` states the
run's property with it. `CompareThenBranch`: after a comparison the conditions order
the numbers, signed and unsigned. `SumsExactInEverySize`: ADD, SUB, ADDX, SUBX and NEGX
have the carry, overflow and value of the sum of numbers, with the exception that
section 6 tells of NEGX. `DecimalHolds` (bytes, as BCD has no other size): ABCD, SBCD and
NBCD are exact on valid digits, with either carry in; the half-carry and the correction
by six are split by digit.

Only model-checked:

* All liveness (`RunReturns`, `LcdCatchesUp`, `ButtonFollowsFinger`, `AllHeard`,
  `GuestRuns`, `EveryCommandEnds`, `EventuallySaved`, the fairness half of
  `ImplementsQueue`): temporal reasoning with ENABLED is out of this prover's reach.
* `LengthsAgree` and `PlannedIsExecuted`, which a look at every word settles.
* Division and shifts, the part of `ArithmeticExact` that no theorem states.

## 5. What the properties exclude on purpose

* `LoopsAgree` excuses the rest of a run when an interrupt was already pending as the
  run began, was raised by a device that does not cut the deadline (SCC, IOSC and FDC
  writes), or was left pending by the jump over a STOP that delivered another. The second
  is accepted by `docs/knowledge/event-driven-implementation.md`; the others are
  divergences (*Masked across slices*, *Two at the end of a STOP* in section 6).
* `AcknowledgedIsRequested` excuses the first pass of `runWith` (section 6).
* A click shorter than a slice is lost by design (`MouseQueue` keeps a state, not
  events), and so is what does not fit in a full `KeyQueue`; a raw scan code that
  does not fit is reported to the caller.
* `Recoverable` excuses the time after a rename that failed (`exposed`), when the
  temporary file is the only copy.
* `HonestStatus` excuses the sectors of a command whose flush failed (`lost`), for the
  storage does not look (*Failed flush* in section 6). Of every other failure - at a read,
  in `fwrite`, of the DMAC's count - the guest must hear.
* `WholeSectors` takes a sector as what the card stores whole or not at all; a `fwrite` of
  1024 bytes that stops in the middle could tear one. What a stream still held when its
  flush failed counts as gone, and an image grows by the sectors written, with contents
  of nobody where a gap remains.
* `GuestRuns` does not promise it to a paused guest.
* `NativeIsInterpreted` holds where the prefetched words are those of memory
  (`Coherent`), the precondition `native_exec.h` states.
* `LengthsAgree` says nothing of words the length table does not know or that do not
  run, `ArithmeticExact` nothing of NEGX of the most negative number with X set.
* `PredictionsExact` says nothing between the write that shrinks the prescale of a
  running timer and the next tick (*Shrinking prescale* in section 6), and allows a timer
  that ends on a data register of 1 to show the same count again.

## 6. Divergences

One has a run that TLC finds violated:

* **SecondSave** (`sram_persist.h:90`) - after a rename that fails, `sram.dat` is gone
  and the temporary file is the only copy. The next save truncates it first; if its
  write then fails, `write` removes it. Line 100 says what is left is picked up at the
  next start.

These show when the named run is changed as told:

* *Switching loops* (`main.cpp:1627`): check `NothingSwallowed` instead of
  `AcknowledgedIsRequested` in Machine. `runEventDriven` may return with a request in
  the CPU; the first pass of `runWith` acknowledges another of the same level, which
  `requestInterrupt` drops. `machine.cpp:1013` says this must not happen.
* *Shrinking prescale* (`mfp.h:264`): DeviceTime violates `DeadlineExact`, which is
  `PredictionsExact` without `Drained`. A running timer switched to a smaller prescale has collected more
  than a count; `cyclesUntilNextRaise` subtracts below zero and the timer drops out of
  the deadline.
* *Failed flush* (`storage_sd.cpp:326`, `storage_sd.cpp:459`): check `SuccessIsStored`
  instead of `HonestStatus` in DiskSystem; floppy and hard disk both violate it.
  `SdDisk::writeSector` and `SdFloppy::writeSector` return what `fwrite` says and drop
  what `fflush` says, while `fwrite` only fills a buffer: a card that fails at the flush is
  reported as success and keeps the old sector. `machine.cpp:1613` says that a write
  that failed must not look like success; the SRAM's writer in the same file (lines 137
  to 142) checks both calls.
* *Palette of the text screen* (`display_lcd.cpp:225`): FramePipeline with
  `Programs = {{"enable", "palette"}}` violates `LcdCatchesUp`. With text alone shown,
  `renderTo` looks at dirty rows only.
* *Scrolled write* (`bus.cpp:210`): FramePipeline with
  `Programs = {{"graphic", "scroll", "enable"}}` violates `PublishedIsScreen`. Damage is
  reported at the place in video memory, the compositor shows it at that place minus
  the scroll.
* *Fast motion* (`scc.cpp:441`): HostInput with the positions `<<0, 0>>`, `<<100, 0>>`
  and `<<200, 0>>` violates `MotionConserved`. What has gathered in the queue is cut to
  127, against `key_queue.h:89`.
* *Master enable* (`scc.cpp:267`): HostInput with the routine `<<9, 1, 9, 9>>` besides
  violates `ByteHasInterrupt`. Switching WR9 off and on leaves a byte without its
  interrupt.

These were met while modelling and are told from the source alone:

* *Late key*: `pressKey` cuts the deadline, but `runEventDriven` begins by arming it
  again (`machine.cpp:415`), so the key interrupts at the next device event. The comment
  at `machine.cpp:1075` and `test/test_scheduler.cpp:1235` promise the next instruction.
* *Masked across slices* (`machine.cpp:415`): an interrupt masked at the end of a slice
  and unmasked in the next is noticed only at the next deadline (the `late` of
  LoopAgreement's twin excuses it).
* *Two at the end of a STOP* (`machine.cpp:634`): when the jump of `skipStopped` ends
  where two devices interrupt, it delivers one and arms the deadline without asking
  whether another waits, as `reachSlow` does at `machine.cpp:544`. Once the guest lowers
  its mask again, the other is noticed only at the next device event; `runWith` delivers
  it at once (`ArmedOverPending` of LoopAgreement excuses it).
* *Point High* (`scc.cpp:230`): bit 3 is tested alone, so $38 also selects register 8.
* *Stale motion* (`key_queue.cpp:175`): motion refused while the mouse is disabled is
  kept and flows in on enabling it, which `scc.cpp:408` means to avoid.
* *Serial wrap* (`frame_channel.cpp:113`): after 2^32 pictures the order of two waiting
  ones is misjudged once. `FramePipelineAssumption` excludes it.
* *Audio index* (`platform/audio.h`): the 32-bit block index wraps after more than a
  year of sound, past which the order of index and `discardBefore` is lost.
* *End of track* (`fdc.cpp:928`): a write that ends with the last sector before EOT is
  reported as abnormal by `dmaWrite`; `test/test_fdc.cpp:907` wants a transfer that
  ends exactly at the end of a sector to stay a normal one.
* *Drives 2 and 3* (`fdc.cpp:498`): RECALIBRATE of a drive that is not there succeeds.
* *Silent freeze* (`main.cpp:1657`): pacing waits for room in the ring. If the audio
  task could not allocate its player it is gone (`main.cpp:2115`), nobody drains, and
  the guest stands still; `main.cpp:3273` says of a missing task that it runs without sound.
* *Prefetch*: `machine.cpp:466` calls `tryNative` without looking whether the
  prefetched words are still those of memory, which `native_exec.h` requires. The
  interpreter would run the words it had fetched, a block runs those of the page.
* *NEGX* (`m68k_ops_group4.cpp:591`): overflow is the or of two subtractions, so NEGX of
  the most negative number with X set raises V although the result is exact;
  `m68k_ops_alu.cpp:122` tells why ADDX does not do so.
* *To SR* (`m68k_ops_misc.cpp`): only the word forms of ORI, ANDI and EORI to SR check
  the privilege; the long encodings reach SR unchecked.
* `native_exec.h:82` says `verifyHit + verifyMiss == keyMissGen` always; a block without
  a snapshot counts in neither.
* `sram_persist.h:118` says that with both files present the temporary one is never the
  newer; a power loss after the write and before the removal leaves just that. The
  start then takes the older image, which `Recoverable` allows.
* `main.cpp:3110` says a missing file is created by the save ten seconds later; a save
  happens only when the guest has changed the SRAM.
* The comment of `frame_channel.h:63` is of the version with two buffers.

## 7. Not modelled

OPM and ADPCM (signal processing; nobody else sees its state), the host program, the
face animation and the servo protocol (they share no state with the machine), and
pixels: the rasterisers are the tuple of what they read. Of modelled components: the
shadow verification of the loop, GPIP poll acceleration and audio synchronisation in
`machine.cpp`; address decoding; exceptions of group 0 and trace; what the full
instruction set leaves in registers and memory (GuestCode does that for one
instruction of each kind the translator treats differently); register allocation,
literal folding and host encodings of the emitter; the viewport's following of the
cursor; serial diagnostics, profiling and start-up; sense bytes and drive geometry of
SASI; mount order of the storage; RTC alarms, which are stored and nothing else.
`PROJECT.json` gives the reason for each component.

## 8. Running it

```
tlc -workers 2 -config Machine.cfg MCMachine.tla
tlapm RunLoopProofs.tla
```

A configuration without an `MC` module of its name belongs to the module of its name,
SecondSave to SramSave. The longest runs take a few minutes.

## 9. What is left

In order of importance:

1. The slice policy of the modes and the profiles in `main.cpp`, then GPIP poll
   acceleration, which skips guest time.
2. Registers and memory of more instructions in GuestCode, exceptions of group 0.
3. OPM timers and the ADPCM's DMA channel, if a guest is to see them.
