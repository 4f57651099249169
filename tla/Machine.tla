-------------------------------- MODULE Machine --------------------------------
(******************************************************************************)
(* Machine::run (core/machine.{h,cpp}): the guest CPU, the devices that tell    *)
(* the time and raise interrupts, and the two loops that drive them.            *)
(*                                                                              *)
(*   per instruction   runWith: deliver interrupts, execute one instruction,    *)
(*                     tick the devices by its cycles;                          *)
(*   event driven      runEventDriven: execute against an armed deadline and    *)
(*                     settle the devices, deliver and re-arm only when it is   *)
(*                     reached (reachSlow) or while the CPU sleeps (skipStopped)*)
(*                                                                              *)
(* The guest is arbitrary: each instruction is any element of GuestOps and any  *)
(* cost in InstrCycles.  Between two runs the host may press a key and switch    *)
(* the loop.  Everything happens on one thread; the hazard is that the slow     *)
(* side runs at the wrong time.                                                 *)
(******************************************************************************)
EXTENDS Scheduler, Devices

CONSTANTS
    GuestOps,           \* the instructions the guest may execute (records, below)
    InstrCycles,        \* what an instruction may cost
    StopStep,           \* 4: what step() returns while the CPU is stopped
    ExceptionCycles,    \* 44: what taking an interrupt costs
    SliceCycles,        \* the lengths Machine::run is asked for
    MaxRuns, MaxInputs, \* bounds: runs of the machine, host inputs between them
    InitialMfp,         \* what the boot code has left in the MFP
    Modes               \* values of eventDriven_: {TRUE}, {FALSE} or both

\* Instructions by what the machine sees of them: the mask, the state of the CPU, or
\* an access to a device.
Instruction ==
    [kind : {"plain", "halt", "mfpRead", "gpip"}]
    \cup [kind : {"mask", "stop"}, level : 0 .. 7]
    \cup [kind : {"imr", "ier"}, group : {GroupA, GroupB}, bits : SUBSET Channel]
    \cup [kind : {"control"}, timer : Timer, value : 0 .. 15]
    \cup [kind : {"data"}, timer : Timer, value : 0 .. TimerModulus - 1]
    \cup [kind : {"scc"}, pending : BOOLEAN]
    \cup [kind : {"iosc"}, enable : BOOLEAN] \cup [kind : {"fdc"}, line : BOOLEAN]

ASSUME MachineAssumption ==
    /\ InstrCycles \subseteq Nat \ {0} /\ StopStep \in Nat \ {0} /\ ExceptionCycles \in Nat \ {0}
    /\ \A c \in InstrCycles \cup {StopStep, ExceptionCycles} : c % 2 = 0
    /\ SliceCycles \subseteq Nat \ {0}
    /\ {MaxRuns, MaxInputs} \subseteq Nat
    /\ GuestOps \subseteq Instruction
    /\ InitialMfp \subseteq MfpType /\ \A m \in InitialMfp : Drained(m)
    /\ Modes \subseteq BOOLEAN /\ Modes # {}

MfpLevel == 6       \* kMfpInterruptLevel
SccLevel == 5       \* kSccInterruptLevel
IoScLevel == 1      \* IoSc::kInterruptLevel

\* The part of M68k that decides about interrupts: the mask in SR, the accepted
\* request (pendingIrq_, 0 when there is none), STOP and the halted state.
CpuType == [mask : 0 .. 7, irq : 0 .. 7, stopped : BOOLEAN, halted : BOOLEAN]

--------------------------------------------------------------------------------
(* Interrupt delivery *)

\* M68k::requestInterrupt
RequestInterrupt(c, level) == IF level > c.irq THEN [c EXCEPT !.irq = level] ELSE c

\* Machine::serviceInterrupts: the first of the MFP, the SCC and the I/O controller
\* that has something the CPU would take; the FDC line is read from the FDC again.
\* Acknowledging the MFP or the SCC clears its pending bit; the I/O controller is
\* level-held and keeps it.
SourceLevel == [mfp |-> MfpLevel, scc |-> SccLevel, iosc |-> IoScLevel]
Requesting(d) ==
    {src \in DOMAIN SourceLevel :
        CASE src = "mfp" -> MfpHasPending(d.mfp)
          [] src = "scc" -> d.scc
          [] src = "iosc" -> IoScHasPending(d)}
Acceptable(c, d) == {src \in Requesting(d) : SourceLevel[src] > c.mask}
Source(c, d) ==
    CHOOSE src \in Acceptable(c, d) :
        \A other \in Acceptable(c, d) : SourceLevel[src] >= SourceLevel[other]

ServicedCpu(c, d) ==
    IF Acceptable(c, d) = {} THEN c ELSE RequestInterrupt(c, SourceLevel[Source(c, d)])
ServicedDevices(c, d) ==
    CASE Acceptable(c, d) = {} -> d
      [] Acceptable(c, d) # {} /\ Source(c, d) = "mfp" -> [d EXCEPT !.mfp = Acknowledge(@)]
      [] Acceptable(c, d) # {} /\ Source(c, d) = "scc" -> [d EXCEPT !.scc = FALSE]
      [] OTHER -> d

--------------------------------------------------------------------------------
(* One call of M68k::step *)

\* Mutant: only the non-maskable level gets through.
TakesNonMaskable(c) == c.irq = 7

TakesInterrupt(c) == c.irq # 0 /\ (c.irq = 7 \/ c.irq > c.mask)
Executes(c) == ~c.halted /\ ~TakesInterrupt(c) /\ ~c.stopped

\* The CPU after step(): the accepted interrupt, the STOP that goes on, or the
\* instruction.  A halted CPU does not change.
SteppedCpu(c, op) ==
    CASE TakesInterrupt(c) /\ ~c.halted -> [c EXCEPT !.mask = c.irq, !.irq = 0, !.stopped = FALSE]
      [] Executes(c) /\ op.kind = "mask" -> [c EXCEPT !.mask = op.level]
      [] Executes(c) /\ op.kind = "stop" -> [c EXCEPT !.mask = op.level, !.stopped = TRUE]
      [] Executes(c) /\ op.kind = "halt" -> [c EXCEPT !.halted = TRUE]
      [] OTHER -> c

\* What step() returns: 0 from a halted CPU or from the instruction that halts it.
StepCycles(c, op, cycles) ==
    CASE c.halted \/ (Executes(c) /\ op.kind = "halt") -> 0
      [] TakesInterrupt(c) /\ ~c.halted -> ExceptionCycles
      [] ~c.halted /\ ~TakesInterrupt(c) /\ (c.stopped \/ op.kind = "stop") -> StopStep
      [] OTHER -> cycles

\* The instructions that reach a device, with their effect on it.
MfpWrites == {"imr", "ier", "control", "data"}
MfpAccess(op) == op.kind \in MfpWrites \cup {"mfpRead", "gpip"}
Accessed(d, op) ==
    CASE op.kind = "imr" -> [d EXCEPT !.mfp = WriteImr(@, op.group, op.bits)]
      [] op.kind = "ier" -> [d EXCEPT !.mfp = WriteIer(@, op.group, op.bits)]
      [] op.kind = "control" -> [d EXCEPT !.mfp = WriteTimerControl(@, op.timer, op.value)]
      [] op.kind = "data" -> [d EXCEPT !.mfp = WriteTimerData(@, op.timer, op.value)]
      [] op.kind = "scc" -> [d EXCEPT !.scc = op.pending]
      [] op.kind = "iosc" -> [d EXCEPT !.iosc.enable = op.enable]
      [] op.kind = "fdc" -> [d EXCEPT !.iosc.line = op.line]
      [] OTHER -> d

\* Machine::ioRead8 / ioWrite8: an access to the MFP settles first (materialize),
\* except a read of GPIP before the deadline (stableGpip); a write also cuts the
\* deadline when it is done (the destructor of Rearm).  The other devices are
\* written where they stand.
Settles(s, op) == MfpAccess(op) /\ ~(op.kind = "gpip" /\ s.debt < 0)
Materialized(s) ==
    LET synced == SyncUnsettled(s) IN Consume(synced, Pending(synced))
AccessedDevices(s, d, op) ==
    Accessed(IF Settles(s, op) THEN Settle(d, CpuTime(s) - s.now) ELSE d, op)
AccessedScheduler(s, op) ==
    CASE op.kind \in MfpWrites -> Wake(Materialized(s))
      [] Settles(s, op) /\ op.kind \notin MfpWrites -> Materialized(s)
      [] OTHER -> s

--------------------------------------------------------------------------------
VARIABLES
    cpu, dev, sched,
    pc,         \* where the thread is: "idle", "linear", "hot", "slow" or "skip"
    spent,      \* runWith's spent
    wanted,     \* the argument of the current run
    runs, inputs    \* how many runs have begun, how many inputs have come

vars == <<cpu, dev, sched, pc, spent, wanted, runs, inputs>>

TypeOK ==
    /\ cpu \in CpuType /\ dev \in DeviceType /\ sched \in SchedulerType
    /\ pc \in {"idle", "linear", "hot", "slow", "skip"}
    /\ spent \in Nat /\ wanted \in Nat /\ runs \in 0 .. MaxRuns /\ inputs \in 0 .. MaxInputs

Init ==
    /\ cpu = [mask |-> 0, irq |-> 0, stopped |-> FALSE, halted |-> FALSE]
    /\ dev \in [mfp : InitialMfp, crtc : {ResetCrtc}, rtc : {ResetRtc},
                scc : {FALSE}, iosc : {[enable |-> FALSE, line |-> FALSE]}]
    /\ sched = ResetScheduler
    /\ pc = "idle" /\ spent = 0 /\ wanted = 0 /\ runs = 0 /\ inputs = 0

\* Machine::pressKey, from the host between two runs.
PressKey ==
    /\ pc = "idle" /\ inputs < MaxInputs
    /\ dev' = [dev EXCEPT !.mfp = ReceiveKeyboardByte(@)]
    /\ sched' = Wake(sched)
    /\ inputs' = inputs + 1
    /\ UNCHANGED <<cpu, pc, spent, wanted, runs>>

\* Machine::moveMouse, accepted: the SCC may now ask for an interrupt.
MoveMouse ==
    /\ pc = "idle" /\ inputs < MaxInputs
    /\ \E pending \in {dev.scc, TRUE} : dev' = [dev EXCEPT !.scc = pending]
    /\ sched' = Wake(sched)
    /\ inputs' = inputs + 1
    /\ UNCHANGED <<cpu, pc, spent, wanted, runs>>

--------------------------------------------------------------------------------
(* The per-instruction loop *)

BeginLinear(cycles) ==
    /\ pc = "idle" /\ runs < MaxRuns /\ FALSE \in Modes
    /\ pc' = "linear" /\ spent' = 0 /\ wanted' = cycles /\ runs' = runs + 1
    /\ UNCHANGED <<cpu, dev, sched, inputs>>

\* One pass of the loop of runWith.  The scheduler is not used: its pending is 0.
LinearPass(op, cycles) ==
    LET c == ServicedCpu(cpu, dev)
        d == ServicedDevices(cpu, dev)
        used == StepCycles(c, op, cycles)
        accessed == IF Executes(c) THEN Accessed(d, op) ELSE d
        writes == Executes(c) /\ op.kind \in MfpWrites
    IN  /\ pc = "linear"
        /\ cpu' = SteppedCpu(c, op)
        /\ dev' = IF used = 0 THEN accessed ELSE TickDevices(accessed, used)
        /\ sched' = IF writes THEN Wake(sched) ELSE sched
        /\ spent' = spent + used
        /\ pc' = IF used = 0 \/ spent' >= wanted THEN "idle" ELSE "linear"
        /\ UNCHANGED <<wanted, runs, inputs>>

--------------------------------------------------------------------------------
(* The event-driven loop *)

\* STOP with nothing accepted: the CPU sleeps until a device wakes it.
Sleeps(c) == c.stopped /\ c.irq = 0

\* runEventDriven up to its loop.
BeginEventDriven(cycles) ==
    LET begun == BeginSlice(sched, cycles)
    IN  /\ pc = "idle" /\ runs < MaxRuns /\ TRUE \in Modes
        /\ sched' = ArmDeadline(begun, NextEventCycle(begun, dev))
        /\ pc' = IF Sleeps(cpu) THEN "skip" ELSE "hot"
        /\ wanted' = cycles /\ runs' = runs + 1
        /\ UNCHANGED <<cpu, dev, spent, inputs>>

\* One pass of its loop: step(), then advance().  A CPU that returns 0 cycles
\* settles what is owed and leaves.
HotPass(op, cycles) ==
    LET used == StepCycles(cpu, op, cycles)
        s == IF Executes(cpu) THEN AccessedScheduler(sched, op) ELSE sched
        d == IF Executes(cpu) THEN AccessedDevices(sched, dev, op) ELSE dev
        advanced == Advance(s, used)
    IN  /\ pc = "hot"
        /\ cpu' = SteppedCpu(cpu, op)
        /\ IF used = 0
             THEN /\ dev' = Settle(d, CpuTime(s) - s.now)
                  /\ sched' = Materialized(s)
                  /\ pc' = "idle"
             ELSE /\ dev' = d
                  /\ sched' = advanced
                  /\ pc' = IF Due(advanced) THEN "slow" ELSE "hot"
        /\ UNCHANGED <<spent, wanted, runs, inputs>>

\* Mutant: the end of the slice returns before the interrupts are looked at.
ReachSlowReturnsFirst ==
    LET s == Materialized(sched)
    IN  /\ pc = "slow" /\ ReachedSliceEnd(s)
        /\ dev' = Settle(dev, CpuTime(sched) - sched.now)
        /\ sched' = s /\ pc' = "idle"
        /\ UNCHANGED <<cpu, spent, wanted, runs, inputs>>

\* Machine::reachSlow: settle, deliver; then leave at the end of the slice, else
\* hold while something could not be delivered, else sleep, else re-arm.
ReachSlow ==
    LET s == Materialized(sched)
        settled == Settle(dev, CpuTime(sched) - sched.now)
        c == ServicedCpu(cpu, settled)
        d == ServicedDevices(cpu, settled)
    IN  /\ pc = "slow"
        /\ cpu' = c /\ dev' = d
        /\ CASE ReachedSliceEnd(s) -> sched' = s /\ pc' = "idle"
             [] ~ReachedSliceEnd(s) /\ AnyPending(d) ->
                    sched' = HoldForPendingInterrupt(s) /\ pc' = "hot"
             [] ~ReachedSliceEnd(s) /\ ~AnyPending(d) /\ Sleeps(c) ->
                    sched' = s /\ pc' = "skip"
             [] OTHER -> sched' = ArmDeadline(s, NextEventCycle(s, d)) /\ pc' = "hot"
        /\ UNCHANGED <<spent, wanted, runs, inputs>>

\* Mutant: rounded down.
RoundDown(n, step) == (n \div step) * step

\* One pass of the loop of skipStopped: jump to the next event, rounded up to the
\* grid of the stopped CPU, settle and deliver.
RoundUp(n, step) == ((n + step - 1) \div step) * step
\* Mutant: the jump does not stop at the end of the slice.
JumpToEvent == NextEventCycle(sched, dev)

JumpTarget == Least(NextEventCycle(sched, dev), sched.sliceEnd)
Jump == RoundUp(JumpTarget - sched.now, StopStep)

LeaveSkip(s) == IF ReachedSliceEnd(s) THEN "idle" ELSE "hot"

SkipStopped ==
    /\ pc = "skip"
    /\ IF JumpTarget <= sched.now
         THEN /\ sched' = HoldForPendingInterrupt(sched)
              /\ pc' = LeaveSkip(sched)
              /\ UNCHANGED <<cpu, dev>>
         ELSE LET injected == InjectPending(sched, Jump)
                  s == Materialized(injected)
                  settled == Settle(dev, CpuTime(injected) - injected.now)
                  c == ServicedCpu(cpu, settled)
                  d == ServicedDevices(cpu, settled)
              IN  /\ cpu' = c /\ dev' = d
                  /\ CASE c.irq # 0 \/ ReachedSliceEnd(s) ->
                            sched' = ArmDeadline(s, NextEventCycle(s, d)) /\ pc' = LeaveSkip(s)
                       [] c.irq = 0 /\ ~ReachedSliceEnd(s) /\ AnyPending(d) ->
                            sched' = HoldForPendingInterrupt(s) /\ pc' = "hot"
                       [] OTHER -> sched' = s /\ pc' = "skip"
    /\ UNCHANGED <<spent, wanted, runs, inputs>>

--------------------------------------------------------------------------------
Next ==
    \/ PressKey \/ MoveMouse
    \/ \E cycles \in SliceCycles : BeginLinear(cycles) \/ BeginEventDriven(cycles)
    \/ \E op \in GuestOps, cycles \in InstrCycles : LinearPass(op, cycles) \/ HotPass(op, cycles)
    \/ ReachSlow
    \/ SkipStopped

Spec == Init /\ [][Next]_vars

\* The thread that called run() keeps executing it; no host input is promised.
\* This is WF_vars(Progress), with ENABLED <<Progress>>_vars spelt out as CanGoOn:
\* each pass changes something, but one of skipStopped that would jump nowhere.
Progress ==
    \/ \E op \in GuestOps, cycles \in InstrCycles : LinearPass(op, cycles) \/ HotPass(op, cycles)
    \/ ReachSlow
    \/ SkipStopped
CanGoOn ==
    \/ pc \in {"linear", "hot", "slow"}
    \/ pc = "skip" /\ (JumpTarget <= sched.now \/ Jump > 0)
FairSpec == Spec /\ ([]<><<Progress>>_vars \/ []<>~CanGoOn)

--------------------------------------------------------------------------------
\* The devices as they would be if everything owed to them were settled now.
SettledDevices == Settle(dev, CpuTime(sched) - sched.now)

\* Nothing that can interrupt happens before the armed deadline: as long as debt is
\* negative, settling would make no MFP channel pending and move no edge of the
\* vertical blank.  This is what lets the loop not look, and what lets a read of
\* GPIP be answered without settling (nextEventCycle, and stableGpip in ioRead8).
NothingBeforeDeadline ==
    pc = "hot" /\ sched.debt < 0 =>
        /\ SettledDevices.mfp.ipr = dev.mfp.ipr
        /\ SettledDevices.mfp.vdisp = dev.mfp.vdisp

\* An acknowledgement of the MFP or the SCC destroys the pending bit, so it must
\* become a request of the CPU of its own: when a service is due, no request of the
\* same or a higher level is still waiting there to swallow it (serviceMfpInterrupt
\* and serviceSccInterrupt against M68k::requestInterrupt).
ServiceDue == pc \in {"linear", "slow"} /\ ~cpu.halted
SwallowedBy(d) ==
    /\ Acceptable(cpu, d) # {} /\ Source(cpu, d) # "iosc"
    /\ SourceLevel[Source(cpu, d)] <= cpu.irq
NothingSwallowed ==
    ServiceDue => ~SwallowedBy(IF pc = "linear" THEN dev ELSE SettledDevices)

\* The same inside a run: neither loop swallows a request of its own.  Only the
\* first pass of runWith can, when an event-driven run went before it.
AcknowledgedIsRequested == (pc = "linear" /\ spent = 0) \/ NothingSwallowed

\* An event-driven run that has reached the end of its slice hands back a machine
\* in which nothing acceptable waits at a device, unless the CPU has already
\* accepted a request: the next run begins by executing, not by looking
\* (reachSlow, skipStopped).
NothingWaits == cpu.irq # 0 \/ Acceptable(cpu, dev) = {}
SliceEnds == pc \in {"slow", "skip"} /\ pc' = "idle"
NothingLeftUnserved == [][SliceEnds => NothingWaits']_vars

\* Every run comes back to its caller, whatever the guest does: not even a STOP with
\* every interrupt masked keeps it (skipStopped is a loop of its own).
RunReturns == pc # "idle" ~> pc = "idle"

\* The scheduler's share of what the machine does is RunLoop, with the answers the devices give.
Loop == INSTANCE RunLoop
        WITH pc <- IF pc = "linear" THEN "idle" ELSE pc,
             InstrCycles <- InstrCycles \cup {StopStep, ExceptionCycles},
             Delays <- 0 .. FrameCycles,
             Instants <- Nat
ImplementsRunLoop == Loop!Spec

================================================================================
