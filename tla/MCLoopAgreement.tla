---------------------------- MODULE MCLoopAgreement ----------------------------
(* LoopAgreement on a scaled-down machine: a frame of 24 cycles with a blank of  *)
(* 8, a second of 26, a timer C of 6, 12 or 16 cycles, STOP in steps of 2.  In 16   *)
(* cycles the timer and the edge of the blank fall together.                      *)
EXTENDS LoopAgreement

MCPrescaleTable == [i \in 0 .. 7 |-> CASE i = 0 -> 0 [] i = 1 -> 1 [] i = 2 -> 3 [] OTHER -> 4]

\* The boot code has programmed timer C and enabled it and the vertical blank.
Programmed(control, data, ier, imr) ==
    LET timed == WriteTimerControl(WriteTimerData(ResetMfp, "C", data), "C", control)
    IN  WriteImr(WriteImr(WriteIer(WriteIer(timed, GroupA, ier), GroupB, ier), GroupA, imr), GroupB, imr)

MCInitialMfp ==
    {Programmed(2, 2, {5, 6, 12}, {5, 6, 12}), Programmed(1, 3, {5}, {}),
     Programmed(3, 2, {5, 6, 12}, {5, 6, 12})}

Mask(level) == [kind |-> "mask", level |-> level]
StopOp(level) == [kind |-> "stop", level |-> level]
Imr(bits) == [kind |-> "imr", group |-> GroupB, bits |-> bits]
TimerControlOp(value) == [kind |-> "control", timer |-> "C", value |-> value]
MfpRead == [kind |-> "mfpRead"]
Gpip == [kind |-> "gpip"]

\* Everything that goes through the MFP, the CPU's own mask and STOP, and the
\* devices that are written without a wake.
MCGuestOps ==
    {Plain, MfpRead, Gpip, Mask(0), Mask(6), StopOp(0), Imr({5, 6}), TimerControlOp(0),
     [kind |-> "halt"],
     [kind |-> "iosc", enable |-> TRUE], [kind |-> "fdc", line |-> TRUE]}

================================================================================
