---------------------------------- MODULE Mfp ----------------------------------
(******************************************************************************)
(* The MC68901 multi-function peripheral, class x68k::Mfp (core/dev/mfp.{h,cpp}) *)
(* as operators on a record m: the interrupt registers, the four timers, the     *)
(* GPIP4 line of the vertical blank and the keyboard receive buffer.             *)
(*                                                                               *)
(* An interrupt channel is its number 0..15, the low nibble of the vector:       *)
(* group A (IERA, IPRA, IMRA, ISRA) is 8..15 and group B is 0..7, and a larger   *)
(* number has the higher priority.  A register of interrupt bits is the set of   *)
(* its channels.                                                                 *)
(******************************************************************************)
EXTENDS Integers, FiniteSetsExt

CONSTANTS
    PrescaleTable,  \* kPrescaleTable: control bits 0..7 -> prescale, 0 when stopped
    TimerModulus,   \* 256: a data register of 0 counts this many
    NoDeadline      \* kNoDeadline: nothing is due

ASSUME MfpAssumption ==
    /\ PrescaleTable \in [0 .. 7 -> Nat] /\ PrescaleTable[0] = 0
    /\ TimerModulus \in Nat /\ TimerModulus > 1
    /\ NoDeadline \in Nat

Timer == {"A", "B", "C", "D"}
Channel == 0 .. 15
GroupA == 8 .. 15
GroupB == 0 .. 7

\* kIntTimerA..D, kIntRecvFull, kIntGpip4
TimerChannel == [A |-> 13, B |-> 8, C |-> 5, D |-> 4]
RecvFull == 12
Gpip4 == 6

\* Control registers hold 4 bits; those of timers C and D, only 3.
Control(t) == IF t \in {"A", "B"} THEN 0 .. 15 ELSE 0 .. 7

MfpType ==
    [ier : SUBSET Channel, ipr : SUBSET Channel, imr : SUBSET Channel, isr : SUBSET Channel,
     softwareEoi : BOOLEAN,                 \* VR bit 3
     risingEdge : BOOLEAN, vdisp : BOOLEAN, \* AER bit 4, GPIP bit 4 (low in the blank)
     control : [Timer -> 0 .. 15],
     prescaleCounter : [Timer -> Nat],
     timerValue : [Timer -> 0 .. TimerModulus - 1],
     data : [Timer -> 0 .. TimerModulus - 1],
     received : BOOLEAN]                    \* RSR bit 7: the receive buffer is full

\* Mfp::reset
ResetMfp ==
    [ier |-> {}, ipr |-> {}, imr |-> {}, isr |-> {}, softwareEoi |-> FALSE,
     risingEdge |-> FALSE, vdisp |-> TRUE,
     control |-> [t \in Timer |-> 0], prescaleCounter |-> [t \in Timer |-> 0],
     timerValue |-> [t \in Timer |-> 0], data |-> [t \in Timer |-> 0],
     received |-> FALSE]

--------------------------------------------------------------------------------
(* Interrupts *)

\* Mfp::raise - a channel that is not enabled does not even become pending.
Raise(m, c) == IF c \in m.ier THEN [m EXCEPT !.ipr = @ \cup {c}] ELSE m

\* Mfp::serviceBlockMask - while a channel is in service only a strictly higher
\* one may interrupt.
Unblocked(m) == {c \in Channel : \A s \in m.isr : c > s}

\* IPR & IMR & serviceBlockMask, over both groups.
Deliverable(m) == m.ipr \cap m.imr \cap Unblocked(m)

\* Mfp::hasPendingInterrupt
MfpHasPending(m) == Deliverable(m) # {}

\* Mfp::acknowledgeInterrupt - only called when something is deliverable.
Acknowledged(m) == Max(Deliverable(m))
Acknowledge(m) ==
    LET c == Acknowledged(m)
    IN  [m EXCEPT !.ipr = @ \ {c},
                  !.isr = IF m.softwareEoi THEN @ \cup {c} ELSE @]

--------------------------------------------------------------------------------
(* Timers *)

\* Mfp::timerPrescale and refreshRunningTimers: bit 3 asks for an external input
\* that is not emulated, so such a timer does not move.
Prescale(m, t) == IF m.control[t] >= 8 THEN 0 ELSE PrescaleTable[m.control[t] % 8]
Running(m) == {t \in Timer : Prescale(m, t) # 0}

\* A tick leaves every running timer with less than one prescale collected.
Drained(m) == \A t \in Running(m) : m.prescaleCounter[t] < Prescale(m, t)

\* One pass of the loop in Mfp::tickTimerCounted.
CountDown(m, t) ==
    LET v == IF m.timerValue[t] = 0 THEN TimerModulus - 1 ELSE m.timerValue[t] - 1
        counted == [m EXCEPT !.prescaleCounter[t] = @ - Prescale(m, t), !.timerValue[t] = v]
    IN  IF v # 0
          THEN counted
          ELSE Raise([counted EXCEPT !.timerValue[t] = m.data[t]], TimerChannel[t])

\* Mfp::tickTimerCounted, all its passes.
TickTimerCounted(m, t) ==
    LET passes == m.prescaleCounter[t] \div Prescale(m, t)
        after[n \in 0 .. passes] == IF n = 0 THEN m ELSE CountDown(after[n - 1], t)
    IN  after[passes]

\* Mutant: the short path also takes the count that reaches 0.
TickTimerShort(fastPath, m, t, mfpCycles) ==
    LET added == [m EXCEPT !.prescaleCounter[t] = @ + mfpCycles]
        remainder == added.prescaleCounter[t] - Prescale(m, t)
    IN  IF remainder < 0 THEN added
        ELSE IF fastPath /\ remainder < Prescale(m, t) /\ m.timerValue[t] > 0
          THEN [added EXCEPT !.prescaleCounter[t] = remainder, !.timerValue[t] = @ - 1]
          ELSE TickTimerCounted(added, t)

\* The body of the loop of Mfp::tickFast for one running timer.
TickTimer(fastPath, m, t, mfpCycles) ==
    LET p == Prescale(m, t)
        added == [m EXCEPT !.prescaleCounter[t] = @ + mfpCycles]
        remainder == added.prescaleCounter[t] - p
    IN  IF remainder < 0 THEN added
        ELSE IF fastPath /\ remainder < p /\ m.timerValue[t] > 1
          THEN [added EXCEPT !.prescaleCounter[t] = remainder, !.timerValue[t] = @ - 1]
          ELSE TickTimerCounted(added, t)

\* Mfp::tickFast - its loop over the running timers.  The MFP sees half of the CPU's
\* cycles (kCpuToMfpShift).
TickIfRunning(fastPath, m, t, mfpCycles) ==
    IF t \in Running(m) THEN TickTimer(fastPath, m, t, mfpCycles) ELSE m
MfpTick(fastPath, m, cycles) ==
    LET a == TickIfRunning(fastPath, m, "A", cycles \div 2)
        b == TickIfRunning(fastPath, a, "B", cycles \div 2)
        c == TickIfRunning(fastPath, b, "C", cycles \div 2)
    IN  TickIfRunning(fastPath, c, "D", cycles \div 2)

\* Mfp::timerRaises
TimerRaises(m, t) == TimerChannel[t] \in m.ier

\* How often a timer has to be counted down until it raises.
Decrements(m, t) == IF m.timerValue[t] = 0 THEN TimerModulus ELSE m.timerValue[t]

\* Mutant: what the prescaler has collected is left out.
NextRaiseFromWhole(m) ==
    Min({NoDeadline} \cup
        {2 * Decrements(m, t) * Prescale(m, t) : t \in {u \in Running(m) : TimerRaises(m, u)}})

\* needMfp of Mfp::cyclesUntilNextRaise, which is unsigned 64-bit: where the prescale
\* counter exceeds the product the subtraction wraps to a number that is larger than
\* any deadline, and the timer drops out of the minimum.
NeedMfp(m, t) == Decrements(m, t) * Prescale(m, t) - m.prescaleCounter[t]

\* Mfp::cyclesUntilNextRaise
CyclesUntilNextRaise(m) ==
    Min({NoDeadline} \cup
        {2 * NeedMfp(m, t) : t \in {u \in Running(m) : TimerRaises(m, u) /\ NeedMfp(m, u) >= 0}})

\* Mutant: the same for the other prediction.
AnyChangeFromWhole(m) == Min({NoDeadline} \cup {2 * Prescale(m, t) : t \in Running(m)})

\* Mfp::cyclesUntilAnyTimerChange, on 32 bits: the same remark applies.
CyclesUntilAnyTimerChange(m) ==
    LET needMfp(t) == Prescale(m, t) - m.prescaleCounter[t]
    IN  Min({NoDeadline} \cup {2 * needMfp(t) : t \in {u \in Running(m) : needMfp(u) >= 0}})

--------------------------------------------------------------------------------
(* The outside: the vertical blank, the keyboard *)

\* Mfp::setVerticalBlank
SetVerticalBlank(m, active) ==
    LET moved == [m EXCEPT !.vdisp = ~active]
    IN  IF moved.vdisp # m.vdisp /\ moved.vdisp = m.risingEdge THEN Raise(moved, Gpip4) ELSE moved

\* Mfp::receiveKeyboardByte
ReceiveKeyboardByte(m) == Raise([m EXCEPT !.received = TRUE], RecvFull)

--------------------------------------------------------------------------------
(* Mfp::read and Mfp::write, register by register.  group is GroupA or GroupB. *)

\* Reading UDR empties the receive buffer.
ReadUdr(m) == [m EXCEPT !.received = FALSE]

\* IPRx and ISRx: a bit can only be written to 0.
WriteIpr(m, group, bits) == [m EXCEPT !.ipr = @ \ (group \ bits)]
WriteIsr(m, group, bits) == [m EXCEPT !.isr = @ \ (group \ bits)]

\* IERx: disabling a channel drops what it has pending.
WriteIer(m, group, bits) ==
    [m EXCEPT !.ier = (@ \ group) \cup (bits \cap group), !.ipr = @ \ (group \ bits)]
WriteImr(m, group, bits) == [m EXCEPT !.imr = (@ \ group) \cup (bits \cap group)]

\* VR: leaving software end-of-interrupt forgets what was in service.
WriteVr(m, software) ==
    [m EXCEPT !.softwareEoi = software, !.isr = IF software THEN @ ELSE {}]

WriteAer(m, rising) == [m EXCEPT !.risingEdge = rising]

\* TxDR: the counter follows only while the timer is stopped (loadTimerIfStopped).
WriteTimerData(m, t, v) ==
    [m EXCEPT !.data[t] = v, !.timerValue[t] = IF m.control[t] = 0 THEN v ELSE @]

\* TxCR: stopping clears what the prescaler had collected (clearPrescalerIfStopped).
\* TCDCR writes C and D together: it is this operator twice.
WriteTimerControl(m, t, v) ==
    [m EXCEPT !.control[t] = v, !.prescaleCounter[t] = IF v = 0 THEN 0 ELSE @]

================================================================================
