------------------------------- MODULE MCMachine -------------------------------
(* Machine scaled down as in MCLoopAgreement, with both loops and host input. *)
EXTENDS Machine

MCPrescaleTable == [i \in 0 .. 7 |-> CASE i = 0 -> 0 [] i = 1 -> 1 [] i = 2 -> 3 [] OTHER -> 4]

\* Timer C of 6 cycles, the vertical blank and the keyboard, all enabled.
MCInitialMfp ==
    {WriteImr(WriteImr(WriteIer(WriteIer(
        WriteTimerControl(WriteTimerData(ResetMfp, "C", 2), "C", 2),
        GroupA, {12}), GroupB, {5, 6}), GroupA, {12}), GroupB, {5, 6})}

Plain == [kind |-> "plain"]
Mask(level) == [kind |-> "mask", level |-> level]
StopOp(level) == [kind |-> "stop", level |-> level]
TimerControlOp(value) == [kind |-> "control", timer |-> "C", value |-> value]

\* An instruction for each part of the machine, and enough of them to keep the CPU
\* asleep, awake, masked or halted.
MCGuestOps ==
    {Plain, [kind |-> "halt"], [kind |-> "mfpRead"],
     Mask(0), Mask(6), StopOp(0), StopOp(7),
     [kind |-> "ier", group |-> GroupB, bits |-> {5}],
     TimerControlOp(0),
     [kind |-> "scc", pending |-> TRUE],
     [kind |-> "iosc", enable |-> TRUE], [kind |-> "fdc", line |-> TRUE]}

================================================================================
