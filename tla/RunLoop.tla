-------------------------------- MODULE RunLoop --------------------------------
(******************************************************************************)
(* The event-driven loop of Machine::run reduced to what it does to the          *)
(* scheduler (runEventDriven, settle, reachSlow, skipStopped, materialize and     *)
(* the wake of an MMIO write or of the host in core/machine.cpp).  What the       *)
(* devices and the CPU answer - the next event, whether an interrupt is blocked,  *)
(* whether the CPU sleeps - is left open: every answer is allowed.  Machine       *)
(* implements this module, and this module implements TwoClocks.                  *)
(******************************************************************************)
EXTENDS Scheduler

CONSTANTS
    InstrCycles,    \* what one call of step() may return
    StopStep,       \* 4: the grid of a stopped CPU
    SliceCycles,    \* what run() may be asked for
    Delays,         \* how far ahead the next event of the devices may be
    Instants        \* bound: the instants at which a run may begin

ASSUME RunLoopAssumption ==
    /\ InstrCycles \subseteq Nat \ {0}
    /\ StopStep \in Nat \ {0}
    /\ SliceCycles \subseteq Nat \ {0}
    /\ Delays \subseteq Nat /\ Delays # {}
    /\ Instants \subseteq Int

VARIABLES sched, pc

vars == <<sched, pc>>

Init == sched = ResetScheduler /\ pc = "idle"

\* Machine::materialize, and settle: everything owed is handed to the devices.
Materialized(s) == LET synced == SyncUnsettled(s) IN Consume(synced, Pending(synced))

\* The next event the devices may announce (nextEventCycle).
Future(s) == {s.now + d : d \in Delays}

\* runEventDriven up to its loop.
Begin ==
    /\ pc = "idle" /\ sched.now \in Instants
    /\ \E cycles \in SliceCycles : \E next \in Future(sched) :
          sched' = ArmDeadline(BeginSlice(sched, cycles), next)
    /\ pc' \in {"hot", "skip"}

\* pressKey or moveMouse between two runs, or a device write of the other loop.
External == pc = "idle" /\ sched' = Wake(sched) /\ pc' = pc

\* The instruction may read a clocked device, or write one, before its own cycles
\* are added.
Access(s) == {s, Materialized(s), Wake(Materialized(s))}

Execute ==
    /\ pc = "hot"
    /\ \E s \in Access(sched), used \in InstrCycles :
          /\ sched' = Advance(s, used)
          /\ pc' = IF Due(sched') THEN "slow" ELSE "hot"

\* step() returned 0: the CPU has halted.
Halt ==
    /\ pc = "hot"
    /\ \E s \in Access(sched) : sched' = Materialized(s)
    /\ pc' = "idle"

ReachSlow ==
    LET s == Materialized(sched)
    IN  /\ pc = "slow"
        /\ IF ReachedSliceEnd(s)
             THEN sched' = s /\ pc' = "idle"
             ELSE \/ sched' = HoldForPendingInterrupt(s) /\ pc' = "hot"
                  \/ sched' = s /\ pc' = "skip"
                  \/ /\ \E next \in Future(s) : sched' = ArmDeadline(s, next)
                     /\ pc' = "hot"

\* The jump of skipStopped lands on the first point of the grid, counted from
\* now, that is not before the target.
Landing(s, target, jump) ==
    jump \in Nat /\ jump >= target - s.now /\ jump < target - s.now + StopStep

SkipStopped ==
    /\ pc = "skip"
    /\ \E next \in Future(sched) :
          LET target == Least(next, sched.sliceEnd)
          IN  IF target <= sched.now
                THEN /\ sched' = HoldForPendingInterrupt(sched)
                     /\ pc' = IF ReachedSliceEnd(sched) THEN "idle" ELSE "hot"
                ELSE \E jump \in 1 .. target - sched.now + StopStep :
                       LET s == Materialized(InjectPending(sched, jump))
                       IN  /\ Landing(sched, target, jump)
                           /\ \/ /\ \E later \in Future(s) : sched' = ArmDeadline(s, later)
                                 /\ pc' = IF ReachedSliceEnd(s) THEN "idle" ELSE "hot"
                              \/ /\ ~ReachedSliceEnd(s)
                                 /\ sched' = HoldForPendingInterrupt(s) /\ pc' = "hot"
                              \/ /\ ~ReachedSliceEnd(s)
                                 /\ sched' = s /\ pc' = "skip"

Next == Begin \/ External \/ Execute \/ Halt \/ ReachSlow \/ SkipStopped

Spec == Init /\ [][Next]_vars

--------------------------------------------------------------------------------
\* The devices' time is unsigned in the code.
TypeOK ==
    /\ sched \in SchedulerType /\ 0 <= sched.now
    /\ pc \in {"idle", "hot", "slow", "skip"}

\* No cycle is lost or invented: outside the hot path, which only touches debt,
\* the stored time is the CPU's time and nothing is owed to the devices.
Settled == pc \in {"idle", "skip"} => sched.now = CpuTime(sched) /\ sched.unsettled = CpuTime(sched)

\* What is owed is never negative (pending() is unsigned), and debt stays in the range the code's signed
\* 32-bit counter is meant to hold: at most the longest armed stretch below zero,
\* at most zero before an instruction.
Owed == sched.now <= CpuTime(sched)
DebtInRange ==
    /\ sched.debt >= -FallbackSpan
    /\ pc = "hot" => sched.debt <= 0
    /\ pc = "slow" => sched.debt >= 0 /\ \E c \in InstrCycles : sched.debt <= c

\* The deadline is inside the slice: before each instruction the CPU is still
\* before the end of the slice, so a slice overruns by less than one instruction
\* (armDeadline's first comment: the caller's frame pacing depends on it).
InsideSlice ==
    /\ pc \in {"hot", "skip"} => CpuTime(sched) < sched.sliceEnd
    /\ pc = "hot" => sched.deadlineAt <= sched.sliceEnd
Overrun ==
    pc \in {"slow", "idle"} =>
        \/ CpuTime(sched) <= sched.sliceEnd
        \/ \E c \in InstrCycles \cup {StopStep} : CpuTime(sched) < sched.sliceEnd + c

Clocks == INSTANCE TwoClocks
          WITH cpuTime <- CpuTime(sched), deviceTime <- sched.now, running <- pc # "idle"

ClocksSpec == Clocks!Spec

================================================================================
