------------------------------- MODULE Scheduler -------------------------------
(******************************************************************************)
(* The virtual-time account of the event-driven run loop, class x68k::Scheduler *)
(* (core/scheduler.h), as operators on one record.                              *)
(*                                                                              *)
(* The CPU adds the cycles of an instruction to debt alone; unsettled is only   *)
(* brought up to date on the slow side.  The two are tied by                    *)
(*     debt = unsettled - deadlineAt        once SyncUnsettled has run,         *)
(* and CpuTime is the CPU's own time at any moment.  now is the time the        *)
(* devices have been told about; CpuTime - now is what is still owed to them.   *)
(*                                                                              *)
(* The statistics (stats_) and the flag degraded_ are not modelled: the program *)
(* never reads them back.                                                       *)
(******************************************************************************)
EXTENDS Integers

CONSTANTS
    MinDeadline,    \* kMinDeadline: a deadline nearer than this is not worth arming
    FallbackSpan    \* kFallbackSpan: the longest stretch run without settling

ASSUME SchedulerAssumption ==
    /\ MinDeadline \in Nat \ {0}
    /\ FallbackSpan \in Nat
    /\ MinDeadline <= FallbackSpan

SchedulerType ==
    [debt: Int, now: Int, unsettled: Int, deadlineAt: Int, sliceEnd: Int, sliceBegin: Int]

\* std::min of the time values, and the minimum of a list of them.
Least(a, b) == IF a <= b THEN a ELSE b

\* Scheduler::reset
ResetScheduler ==
    [debt |-> 0, now |-> 0, unsettled |-> 0, deadlineAt |-> 0,
     sliceEnd |-> 0, sliceBegin |-> 0]

--------------------------------------------------------------------------------
(* Queries *)

\* Scheduler::pending - meaningful only after SyncUnsettled.
Pending(s) == s.unsettled - s.now

\* Scheduler::cpuTime
CpuTime(s) == s.deadlineAt + s.debt

\* Scheduler::sliceSpent
SliceSpent(s) == s.now - s.sliceBegin

\* Scheduler::reachedSliceEnd
ReachedSliceEnd(s) == s.now >= s.sliceEnd

\* advance() returns debt >= 0: the loop must take the slow side.
Due(s) == s.debt >= 0

--------------------------------------------------------------------------------
(* Operations *)

\* Scheduler::beginSlice
BeginSlice(s, cycles) ==
    [s EXCEPT !.sliceBegin = s.now, !.sliceEnd = s.now + cycles]

\* Scheduler::advance - the only thing every instruction does.
Advance(s, used) == [s EXCEPT !.debt = @ + used]

\* Mutant: the deadline that debt counts from is forgotten.
SyncWithoutDeadline(s) == [s EXCEPT !.unsettled = s.debt]

\* Scheduler::syncUnsettled
SyncUnsettled(s) == [s EXCEPT !.unsettled = s.deadlineAt + s.debt]

\* Mutant: what was handed to the devices is not entered.
ConsumeNothing(s, cycles) == s

\* Scheduler::consume
Consume(s, cycles) == [s EXCEPT !.now = @ + cycles]

\* Scheduler::injectPending
InjectPending(s, cycles) ==
    [s EXCEPT !.unsettled = @ + cycles, !.debt = @ + cycles]

\* Degraded: the deadline is already reached, the very next instruction falls to the slow side.
CutAt(s, t) == [s EXCEPT !.deadlineAt = t, !.debt = 0]

\* Mutants: the deadline is not limited by the fallback span, or by the slice.
ArmTo(s, limit) ==
    IF limit - s.now < MinDeadline THEN CutAt(s, s.now)
    ELSE [s EXCEPT !.deadlineAt = limit, !.debt = s.now - limit]
ArmWithoutFallback(s, next) == ArmTo(s, Least(next, s.sliceEnd))
ArmPastSlice(s, next) == ArmTo(s, Least(next, s.now + FallbackSpan))

\* Scheduler::armDeadline
ArmDeadline(s, next) ==
    LET limit == Least(next, Least(s.sliceEnd, s.now + FallbackSpan))
        delta == IF limit > s.now THEN limit - s.now ELSE 0
    IN  IF delta < MinDeadline
          THEN CutAt(s, s.now)
          ELSE [s EXCEPT !.deadlineAt = limit, !.debt = -delta]

\* Scheduler::holdForPendingInterrupt
HoldForPendingInterrupt(s) == CutAt(s, s.now)

\* Mutant: no wake at all.
WakeNothing(s) == s

\* Scheduler::wake, and Scheduler::requestRearm but for their statistics.
Wake(s) == LET synced == SyncUnsettled(s) IN CutAt(synced, synced.unsettled)

================================================================================
