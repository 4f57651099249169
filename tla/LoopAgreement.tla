----------------------------- MODULE LoopAgreement -----------------------------
(******************************************************************************)
(* The two loops of Machine::run side by side.  machine.h promises of the        *)
(* event-driven one that its state transitions are exactly those of the          *)
(* per-instruction one; here a twin executes the same guest with runWith, one     *)
(* pass for every instruction of the event-driven loop, and the two are compared *)
(* at every instruction boundary.                                                 *)
(*                                                                                *)
(* At the start of each run the twin is the event-driven machine itself, so a     *)
(* disagreement is caused by the run it appears in.                               *)
(******************************************************************************)
EXTENDS Machine

\* An instruction costs at most some hundred cycles: less than the display period or the
\* blank lasts.
ASSUME LoopAgreementAssumption ==
    \A c \in InstrCycles \cup {StopStep, ExceptionCycles} : c <= VBlankBegin /\ c <= VBlankCycles

VARIABLE twin   \* [cpu, dev, spent, late]

agreementVars == <<vars, twin>>

\* One pass of runWith over the twin; none once it has spent what was wanted.
TwinPass(t, op, cycles) ==
    LET c == ServicedCpu(t.cpu, t.dev)
        d == ServicedDevices(t.cpu, t.dev)
        used == StepCycles(c, op, cycles)
        accessed == IF Executes(c) THEN Accessed(d, op) ELSE d
    IN  IF t.spent >= wanted THEN t
        ELSE [cpu |-> SteppedCpu(c, op),
              dev |-> IF used = 0 THEN accessed ELSE TickDevices(accessed, used),
              spent |-> t.spent + used, late |-> t.late]

\* The passes of runWith while the CPU sleeps for n cycles.
Plain == [kind |-> "plain"]
TwinSleep(t, n) ==
    LET after[i \in 0 .. n \div StopStep] ==
            IF i = 0 THEN t ELSE TwinPass(after[i - 1], Plain, StopStep)
    IN  after[n \div StopStep]

\* Three ways for an interrupt to be pending without the loop looking for it: it was
\* pending when the run began; a device without a wake raised it; or skipStopped, which
\* has delivered one interrupt to the sleeping CPU, arms the next deadline without asking
\* for another (reachSlow does ask).
RaisedQuietly(op) == ~MfpAccess(op) /\ ~AnyPending(dev) /\ AnyPending(dev')
ArmedOverPending == sched'.debt < 0 /\ AnyPending(dev')

\* A twin that is late is not followed any further in its run.
Followed(t, late) == IF twin.late THEN twin ELSE [t EXCEPT !.late = late]

AgreementInit ==
    /\ Init
    /\ twin = [cpu |-> cpu, dev |-> dev, spent |-> 0, late |-> FALSE]

AgreementNext ==
    \/ (PressKey \/ MoveMouse) /\ UNCHANGED twin
    \/ /\ \E cycles \in SliceCycles : BeginEventDriven(cycles)
       /\ twin' = [cpu |-> cpu, dev |-> dev, spent |-> 0, late |-> AnyPending(dev)]
    \/ \E op \in GuestOps, cycles \in InstrCycles :
          /\ HotPass(op, cycles)
          /\ twin' = Followed(TwinPass(twin, op, cycles), RaisedQuietly(op))
    \/ ReachSlow /\ UNCHANGED twin
    \/ /\ SkipStopped
       /\ twin' = IF JumpTarget <= sched.now THEN twin
                  ELSE Followed(TwinSleep(twin, Jump), ArmedOverPending)

AgreementSpec == AgreementInit /\ [][AgreementNext]_agreementVars

--------------------------------------------------------------------------------
\* The event-driven machine as the guest sees it: what is owed to the devices is
\* settled before they are looked at.
SeenDevices == Settle(dev, CpuTime(sched) - sched.now)

TwinAgrees ==
    /\ cpu = ServicedCpu(twin.cpu, twin.dev)
    /\ SeenDevices = ServicedDevices(twin.cpu, twin.dev)

\* Before every instruction the event-driven machine is where runWith would be
\* after serviceInterrupts, unless an interrupt was already pending when the run
\* began, was raised by a device that does not cut the deadline, or was left pending
\* by the skip that delivered another (runEventDriven, reachSlow, skipStopped against
\* runWith); and a run takes as many cycles as one of runWith: it ends neither before
\* nor after the instruction that reaches the end of the slice.
LoopsAgree ==
    ~twin.late =>
        /\ pc = "hot" /\ ~cpu.halted => TwinAgrees
        /\ pc = "idle" => SliceSpent(sched) = twin.spent

================================================================================
