------------------------------- MODULE TwoClocks -------------------------------
(******************************************************************************)
(* What the run loop promises about time, with nothing of how it does it: the   *)
(* CPU has a clock, the devices have another, and                                *)
(*   - neither ever goes back;                                                   *)
(*   - the devices are only ever brought to a time the CPU has lived through;    *)
(*   - when the loop returns to its caller, the devices are owed nothing.        *)
(******************************************************************************)
EXTENDS Integers

VARIABLES cpuTime, deviceTime, running

clocks == <<cpuTime, deviceTime, running>>

Init == cpuTime = 0 /\ deviceTime = 0 /\ running = FALSE

\* The CPU executes, or sleeps: its clock moves on.  The devices are left behind,
\* or brought to where the CPU was, or to where it is now.
Run ==
    /\ cpuTime' \in Int /\ cpuTime' >= cpuTime
    /\ deviceTime' \in {deviceTime, cpuTime, cpuTime'}
    /\ running' \in BOOLEAN
    /\ ~running' => deviceTime' = cpuTime'

Spec == Init /\ [][Run]_clocks

================================================================================
