----------------------------- MODULE MachineProofs -----------------------------
(******************************************************************************)
(* Proofs about Machine, LoopAgreement and DeviceTime, for every speed of the *)
(* CPU, every timing of the devices and every program: the machine's type,    *)
(* that virtual time moves as RunLoop says, that an acknowledged interrupt is *)
(* one that was requested, that a slice leaves none unserved, that the        *)
(* devices owe no interrupt before the deadline, that the event-driven loop   *)
(* is the per-instruction one, that settling late is settling in time, that   *)
(* the clock counts the seconds, and that the predictions are exact.          *)
(******************************************************************************)
EXTENDS LoopAgreement, DeviceTime, DeviceProofs

--------------------------------------------------------------------------------
(* Interrupts *)

\* Mfp::raise keeps the type and the timers.
LEMMA RaiseTyped ==
    ASSUME NEW m \in MfpType, NEW c \in Channel
    PROVE  /\ Raise(m, c) \in MfpType /\ Raise(m, c).control = m.control
           /\ Raise(m, c).prescaleCounter = m.prescaleCounter
<1>1. m \in Counting /\ m.prescaleCounter \in [Timer -> Nat]
  BY MfpIsCounting DEF MfpType
<1>2. /\ Raise(m, c) \in Counting /\ Raise(m, c).control = m.control
      /\ Raise(m, c).prescaleCounter = m.prescaleCounter
  BY <1>1, RaiseFacts
<1> QED BY <1>1, <1>2, MfpIsCounting

\* Mfp::receiveKeyboardByte keeps the type and the timers.
LEMMA KeyTyped ==
    ASSUME NEW m \in MfpType
    PROVE  /\ ReceiveKeyboardByte(m) \in MfpType
           /\ Drained(m) => Drained(ReceiveKeyboardByte(m))
<1> DEFINE n == [m EXCEPT !.received = TRUE]
<1>1. n \in MfpType /\ n.control = m.control /\ n.prescaleCounter = m.prescaleCounter
  BY DEF MfpType
<1>2. RecvFull \in Channel
  BY DEF RecvFull, Channel
<1> HIDE DEF n
<1>3. /\ Raise(n, RecvFull) \in MfpType /\ Raise(n, RecvFull).control = n.control
      /\ Raise(n, RecvFull).prescaleCounter = n.prescaleCounter
  BY <1>1, <1>2, RaiseTyped
<1>4. ReceiveKeyboardByte(m) = Raise(n, RecvFull)
  BY DEF ReceiveKeyboardByte, n
<1> QED BY <1>1, <1>3, <1>4 DEF Drained, Running, Prescale

\* The greatest of a set of channels.
LEMMA MaxFacts ==
    ASSUME NEW S \in SUBSET Channel, S # {}
    PROVE  Max(S) \in S
<1> DEFINE R == {15 - x : x \in S}
<1>1. R \in SUBSET Nat /\ R # {}
  BY DEF Channel
<1>2. Min(R) \in R /\ \A y \in R : Min(R) <= y
  <2> HIDE DEF R
  <2> QED BY <1>1, MinFacts
<1>3. \A x \in S : x \in Int /\ 15 - x \in R
  BY DEF Channel
<1>4. PICK x \in S : Min(R) = 15 - x
  BY <1>2
<1> HIDE DEF R
<1>5. \A y \in S : x >= y
  BY <1>2, <1>3, <1>4
<1> QED BY <1>5 DEF Max

\* Mfp::acknowledge keeps the type and the timers.
LEMMA AcknowledgeTyped ==
    ASSUME NEW m \in MfpType, MfpHasPending(m)
    PROVE  /\ Acknowledge(m) \in MfpType
           /\ Drained(m) => Drained(Acknowledge(m))
<1> DEFINE c == Acknowledged(m)
           pending == m.ipr \ {c}
           service == IF m.softwareEoi THEN m.isr \cup {c} ELSE m.isr
           n == [m EXCEPT !.ipr = pending]
<1>1. m.ipr \in SUBSET Channel /\ m.isr \in SUBSET Channel
  BY DEF MfpType
<1>2. c \in Channel
  <2>1. Deliverable(m) \in SUBSET Channel /\ Deliverable(m) # {}
    BY <1>1 DEF Deliverable, MfpHasPending
  <2> QED BY <2>1, MaxFacts DEF Acknowledged
<1> HIDE DEF c
<1>3. pending \in SUBSET Channel /\ service \in SUBSET Channel
  BY <1>1, <1>2
<1>4. Acknowledge(m) = [n EXCEPT !.isr = service]
  BY DEF Acknowledge, c
<1> HIDE DEF pending, service
<1>5. n \in MfpType /\ n.control = m.control /\ n.prescaleCounter = m.prescaleCounter
  BY <1>3 DEF MfpType
<1> HIDE DEF n
<1>6. /\ Acknowledge(m) \in MfpType /\ Acknowledge(m).control = n.control
      /\ Acknowledge(m).prescaleCounter = n.prescaleCounter
  BY <1>3, <1>4, <1>5 DEF MfpType
<1> QED BY <1>5, <1>6 DEF Drained, Running, Prescale

\* The writes to the registers of the MFP keep the type.
LEMMA WritesKeepType ==
    ASSUME NEW m \in MfpType
    PROVE  /\ \A group, bits : bits \in SUBSET Channel =>
                 WriteImr(m, group, bits) \in MfpType /\ WriteIer(m, group, bits) \in MfpType
           /\ \A t \in Timer, v \in 0 .. 15 : WriteTimerControl(m, t, v) \in MfpType
           /\ \A t \in Timer, v \in 0 .. TimerModulus - 1 : WriteTimerData(m, t, v) \in MfpType
<1>1. ASSUME NEW group, NEW bits, bits \in SUBSET Channel
      PROVE  WriteImr(m, group, bits) \in MfpType /\ WriteIer(m, group, bits) \in MfpType
  <2> DEFINE mask == (m.imr \ group) \cup (bits \cap group)
             enabled == (m.ier \ group) \cup (bits \cap group)
             pending == m.ipr \ (group \ bits)
             n == [m EXCEPT !.ier = enabled]
  <2>1. mask \in SUBSET Channel /\ enabled \in SUBSET Channel /\ pending \in SUBSET Channel
    BY <1>1 DEF MfpType
  <2>2. WriteImr(m, group, bits) = [m EXCEPT !.imr = mask]
        /\ WriteIer(m, group, bits) = [n EXCEPT !.ipr = pending]
    BY DEF WriteImr, WriteIer
  <2> HIDE DEF mask, enabled, pending
  <2>3. n \in MfpType
    BY <2>1 DEF MfpType
  <2> HIDE DEF n
  <2> QED BY <2>1, <2>2, <2>3 DEF MfpType
<1>2. ASSUME NEW t \in Timer, NEW v \in 0 .. 15 PROVE WriteTimerControl(m, t, v) \in MfpType
  <2> DEFINE counter == IF v = 0 THEN 0 ELSE m.prescaleCounter[t]
             n == [m EXCEPT !.control[t] = v]
  <2>1. counter \in Nat
    BY DEF MfpType
  <2>2. WriteTimerControl(m, t, v) = [n EXCEPT !.prescaleCounter[t] = counter]
    BY DEF WriteTimerControl
  <2> HIDE DEF counter
  <2>3. n \in MfpType
    BY DEF MfpType
  <2> HIDE DEF n
  <2> QED BY <2>1, <2>2, <2>3, SMTT(60) DEF MfpType
<1>3. ASSUME NEW t \in Timer, NEW v \in 0 .. TimerModulus - 1
      PROVE  WriteTimerData(m, t, v) \in MfpType
  <2> DEFINE u == IF m.control[t] = 0 THEN v ELSE m.timerValue[t]
             n == [m EXCEPT !.data[t] = v]
  <2>1. u \in 0 .. TimerModulus - 1
    BY DEF MfpType
  <2>2. WriteTimerData(m, t, v) = [n EXCEPT !.timerValue[t] = u]
    BY DEF WriteTimerData
  <2> HIDE DEF u
  <2>3. n \in MfpType
    BY DEF MfpType
  <2> HIDE DEF n
  <2> QED BY <2>1, <2>2, <2>3, SMTT(60) DEF MfpType
<1> QED BY <1>1, <1>2, <1>3

\* So do those of the guest.
LEMMA WritesTyped ==
    ASSUME NEW m \in MfpType, NEW op \in GuestOps
    PROVE  /\ op.kind = "imr" => WriteImr(m, op.group, op.bits) \in MfpType
           /\ op.kind = "ier" => WriteIer(m, op.group, op.bits) \in MfpType
           /\ op.kind = "control" => WriteTimerControl(m, op.timer, op.value) \in MfpType
           /\ op.kind = "data" => WriteTimerData(m, op.timer, op.value) \in MfpType
<1>1. /\ op.kind \in {"imr", "ier"} => op.bits \in SUBSET Channel
      /\ op.kind = "control" => op.timer \in Timer /\ op.value \in 0 .. 15
      /\ op.kind = "data" => op.timer \in Timer /\ op.value \in 0 .. TimerModulus - 1
  BY MachineAssumption DEF Instruction
<1> QED BY <1>1, WritesKeepType

\* Another MFP in the same machine
LEMMA SetMfp ==
    ASSUME NEW d, InTime(d), NEW m \in MfpType
    PROVE  InTime([d EXCEPT !.mfp = m])
<1> DEFINE x == [d EXCEPT !.mfp = m]
<1>1. d \in DeviceType
  BY DEF InTime
<1>2. x \in DeviceType /\ x.rtc = d.rtc /\ x.crtc = d.crtc
  BY <1>1 DEF DeviceType
<1> QED BY <1>2 DEF InTime

\* An access of the guest keeps the devices in time; only a write to the MFP moves a timer.
LEMMA AccessedFacts ==
    ASSUME NEW d, InTime(d), NEW op \in GuestOps
    PROVE  /\ InTime(Accessed(d, op))
           /\ op.kind \notin MfpWrites =>
                 /\ Accessed(d, op).mfp = d.mfp /\ Accessed(d, op).crtc = d.crtc
                 /\ Accessed(d, op).rtc = d.rtc
<1>1. d \in DeviceType /\ d.mfp \in MfpType
  BY DEF InTime, DeviceType
<1>2. CASE op.kind \in MfpWrites
  BY <1>1, <1>2, WritesTyped, SetMfp DEF Accessed, MfpWrites
<1>3. CASE op.kind \notin MfpWrites
  <2> DEFINE x == Accessed(d, op)
  <2>1. CASE op.kind = "scc"
    <3>1. x = [d EXCEPT !.scc = op.pending] /\ op.pending \in BOOLEAN
      BY <2>1, MachineAssumption DEF Accessed, Instruction
    <3>2. x \in DeviceType /\ x.mfp = d.mfp /\ x.crtc = d.crtc /\ x.rtc = d.rtc
      BY <1>1, <3>1 DEF DeviceType
    <3> QED BY <3>2 DEF InTime
  <2>2. CASE op.kind = "iosc"
    <3>1. x = [d EXCEPT !.iosc.enable = op.enable] /\ op.enable \in BOOLEAN
      BY <2>2, MachineAssumption DEF Accessed, Instruction
    <3>2. x \in DeviceType /\ x.mfp = d.mfp /\ x.crtc = d.crtc /\ x.rtc = d.rtc
      BY <1>1, <3>1 DEF DeviceType
    <3> QED BY <3>2 DEF InTime
  <2>3. CASE op.kind = "fdc"
    <3>1. x = [d EXCEPT !.iosc.line = op.line] /\ op.line \in BOOLEAN
      BY <2>3, MachineAssumption DEF Accessed, Instruction
    <3>2. x \in DeviceType /\ x.mfp = d.mfp /\ x.crtc = d.crtc /\ x.rtc = d.rtc
      BY <1>1, <3>1 DEF DeviceType
    <3> QED BY <3>2 DEF InTime
  <2>4. CASE op.kind \notin {"scc", "iosc", "fdc"}
    <3>1. x = d
      BY <1>3, <2>4 DEF Accessed, MfpWrites
    <3> QED BY <3>1
  <2> QED BY <2>1, <2>2, <2>3, <2>4
<1> QED BY <1>2, <1>3

\* Whatever the CPU was requested to take it takes next, unless it is halted.
Waits(c) == c.irq = 0 \/ TakesInterrupt(c) \/ c.halted

\* And it holds no request where it is about to be given one.
RequestInv ==
    /\ cpu \in CpuType /\ spent \in Nat
    /\ Waits(cpu)
    /\ pc = "slow" \/ (pc = "linear" /\ spent # 0) => cpu.irq = 0 \/ cpu.halted

\* The fields of the CPU.
LEMMA CpuFields ==
    ASSUME NEW c \in CpuType
    PROVE  c.mask \in 0 .. 7 /\ c.irq \in 0 .. 7 /\ c.stopped \in BOOLEAN /\ c.halted \in BOOLEAN
BY DEF CpuType

\* The source the machine picks is one it may pick, and its level is above the mask.
LEMMA SourceIsAcceptable ==
    ASSUME NEW c \in CpuType, NEW d, Acceptable(c, d) # {}
    PROVE  /\ Source(c, d) \in Acceptable(c, d)
           /\ SourceLevel[Source(c, d)] \in {IoScLevel, SccLevel, MfpLevel}
           /\ SourceLevel[Source(c, d)] > c.mask
<1> DEFINE A == Acceptable(c, d)
<1>1. A \subseteq {"mfp", "scc", "iosc"} /\ \A src \in A : SourceLevel[src] > c.mask
  BY DEF Acceptable, Requesting, SourceLevel
<1>2. \E src \in A : \A other \in A : SourceLevel[src] >= SourceLevel[other]
  <2> HIDE DEF A
  <2>1. A # {}
    BY DEF A
  <2>2. SourceLevel["mfp"] = 6 /\ SourceLevel["scc"] = 5 /\ SourceLevel["iosc"] = 1
    BY DEF SourceLevel, MfpLevel, SccLevel, IoScLevel
  <2>3. CASE "mfp" \in A
    BY <2>2, <2>3, <1>1
  <2>4. CASE "mfp" \notin A /\ "scc" \in A
    BY <2>2, <2>4, <1>1
  <2>5. CASE "mfp" \notin A /\ "scc" \notin A
    <3>1. A = {"iosc"}
      BY <2>1, <2>5, <1>1
    <3> QED BY <2>2, <3>1
  <2> QED BY <2>3, <2>4, <2>5
<1>3. Source(c, d) \in A
  <2> HIDE DEF A
  <2>1. Source(c, d) = CHOOSE src \in A : \A other \in A : SourceLevel[src] >= SourceLevel[other]
    BY DEF Source, A
  <2> QED BY <1>2, <2>1
<1> QED BY <1>1, <1>3 DEF SourceLevel, MfpLevel, SccLevel, IoScLevel

\* After serviceInterrupts the CPU holds a request it will take, or no source is left
\* that it would.
LEMMA ServicedFacts ==
    ASSUME NEW c \in CpuType, NEW d, Waits(c)
    PROVE  /\ ServicedCpu(c, d) \in CpuType /\ Waits(ServicedCpu(c, d))
           /\ ServicedCpu(c, d).halted = c.halted
           /\ ServicedCpu(c, d).irq # 0 \/ Acceptable(ServicedCpu(c, d), ServicedDevices(c, d)) = {}
<1>1. CASE Acceptable(c, d) = {}
  BY <1>1 DEF ServicedCpu, ServicedDevices
<1>2. CASE Acceptable(c, d) # {}
  <2> DEFINE l == SourceLevel[Source(c, d)]
  <2>1. l \in 1 .. 6 /\ l > c.mask
    BY <1>2, SourceIsAcceptable DEF IoScLevel, SccLevel, MfpLevel
  <2>2. ServicedCpu(c, d) = IF l > c.irq THEN [c EXCEPT !.irq = l] ELSE c
    BY <1>2 DEF ServicedCpu, RequestInterrupt
  <2> HIDE DEF l
  <2>3. c.irq \in 0 .. 7 /\ c.mask \in 0 .. 7
    BY CpuFields
  <2>4. CASE l > c.irq
    <3>1. [c EXCEPT !.irq = l] \in CpuType
      BY <2>1 DEF CpuType
    <3>2. [c EXCEPT !.irq = l].irq = l /\ [c EXCEPT !.irq = l].mask = c.mask /\ [c EXCEPT !.irq = l].halted = c.halted
      BY DEF CpuType
    <3> QED BY <2>1, <2>2, <2>4, <3>1, <3>2 DEF Waits, TakesInterrupt
  <2>5. CASE ~(l > c.irq)
    BY <2>1, <2>2, <2>3, <2>5
  <2> QED BY <2>4, <2>5
<1> QED BY <1>1, <1>2

\* An instruction consumes the request it was given.
LEMMA SteppedFacts ==
    ASSUME NEW c \in CpuType, Waits(c), NEW op \in GuestOps, NEW cycles \in InstrCycles
    PROVE  /\ SteppedCpu(c, op) \in CpuType /\ Waits(SteppedCpu(c, op))
           /\ SteppedCpu(c, op).irq = 0 \/ SteppedCpu(c, op).halted
           /\ StepCycles(c, op, cycles) \in Nat
           /\ StepCycles(c, op, cycles) # 0 => ~SteppedCpu(c, op).halted
           /\ StepCycles(c, op, cycles) # 0 => SteppedCpu(c, op).irq = 0
<1>a. op.kind \in {"mask", "stop"} => op.level \in 0 .. 7
  BY MachineAssumption DEF Instruction
<1>0. c.mask \in 0 .. 7 /\ c.irq \in 0 .. 7 /\ c.stopped \in BOOLEAN /\ c.halted \in BOOLEAN
  BY CpuFields
<1>c. StepCycles(c, op, cycles) \in Nat
  BY MachineAssumption DEF StepCycles
<1>1. CASE TakesInterrupt(c) /\ ~c.halted
  <2>1. SteppedCpu(c, op) = [c EXCEPT !.mask = c.irq, !.irq = 0, !.stopped = FALSE]
    BY <1>1 DEF SteppedCpu, Executes
  <2> DEFINE s == SteppedCpu(c, op)
  <2>2. s.irq = 0 /\ s.halted = c.halted
    BY <2>1 DEF CpuType
  <2>3. s \in CpuType
    <3>1. s = [mask |-> c.irq, irq |-> 0, stopped |-> FALSE, halted |-> c.halted]
      BY <2>1 DEF CpuType
    <3> QED BY <1>0, <3>1 DEF CpuType
  <2> QED BY <1>0, <1>c, <1>1, <2>2, <2>3 DEF Waits
<1>2. CASE Executes(c) /\ op.kind = "mask"
  <2>1. SteppedCpu(c, op) = [c EXCEPT !.mask = op.level] /\ c.irq = 0 /\ ~c.halted
    BY <1>2 DEF SteppedCpu, Executes, Waits
  <2> QED BY <1>0, <1>a, <1>c, <1>2, <2>1 DEF CpuType, Waits
<1>3. CASE Executes(c) /\ op.kind = "stop"
  <2>1. SteppedCpu(c, op) = [c EXCEPT !.mask = op.level, !.stopped = TRUE] /\ c.irq = 0 /\ ~c.halted
    BY <1>3 DEF SteppedCpu, Executes, Waits
  <2> QED BY <1>0, <1>a, <1>c, <1>3, <2>1 DEF CpuType, Waits
<1>4. CASE Executes(c) /\ op.kind = "halt"
  <2>1. SteppedCpu(c, op) = [c EXCEPT !.halted = TRUE]
    BY <1>4 DEF SteppedCpu, Executes, Waits
  <2>2. StepCycles(c, op, cycles) = 0
    BY <1>4 DEF StepCycles, Executes
  <2> QED BY <1>0, <1>c, <1>4, <2>1, <2>2 DEF CpuType, Waits
<1>5. CASE /\ ~(TakesInterrupt(c) /\ ~c.halted)
           /\ ~(Executes(c) /\ op.kind \in {"mask", "stop", "halt"})
  <2>1. SteppedCpu(c, op) = c
    BY <1>5 DEF SteppedCpu
  <2>2. c.irq = 0 \/ c.halted
    BY <1>5 DEF Waits
  <2>3. c.halted => StepCycles(c, op, cycles) = 0
    BY DEF StepCycles
  <2> QED BY <1>0, <1>c, <2>1, <2>2, <2>3
<1> QED BY <1>1, <1>2, <1>3, <1>4, <1>5

\* A machine that was just built requests nothing.
LEMMA RequestInit == Init => RequestInv
BY DEF Init, RequestInv, Waits, CpuType

\* One step per action.
LEMMA RequestStep == RequestInv /\ [Next]_vars => RequestInv'
<1> SUFFICES ASSUME RequestInv, [Next]_vars PROVE RequestInv'
  OBVIOUS
<1> USE DEF RequestInv
<1>1. CASE PressKey \/ MoveMouse
  BY <1>1 DEF PressKey, MoveMouse, Waits, TakesInterrupt
<1>2. ASSUME NEW cycles \in SliceCycles, BeginLinear(cycles) PROVE RequestInv'
  BY <1>2 DEF BeginLinear, Waits, TakesInterrupt
<1>3. ASSUME NEW cycles \in SliceCycles, BeginEventDriven(cycles) PROVE RequestInv'
  BY <1>3 DEF BeginEventDriven, Waits, TakesInterrupt
<1>4. ASSUME NEW op \in GuestOps, NEW cycles \in InstrCycles, LinearPass(op, cycles)
      PROVE  RequestInv'
  <2> DEFINE c == ServicedCpu(cpu, dev)
             used == StepCycles(c, op, cycles)
  <2>1. c \in CpuType /\ Waits(c)
    BY ServicedFacts
  <2>2. pc = "linear" /\ cpu' = SteppedCpu(c, op) /\ spent' = spent + used
        /\ pc' = IF used = 0 \/ spent' >= wanted THEN "idle" ELSE "linear"
    BY <1>4 DEF LinearPass
  <2> HIDE DEF c
  <2>3. /\ cpu' \in CpuType /\ Waits(cpu') /\ used \in Nat
        /\ used # 0 => cpu'.irq = 0
    BY <2>1, <2>2, SteppedFacts
  <2> QED BY <2>2, <2>3 DEF Waits, TakesInterrupt
<1>5. ASSUME NEW op \in GuestOps, NEW cycles \in InstrCycles, HotPass(op, cycles)
      PROVE  RequestInv'
  <2> DEFINE used == StepCycles(cpu, op, cycles)
  <2>1. /\ pc = "hot" /\ cpu' = SteppedCpu(cpu, op) /\ spent' = spent
        /\ used = 0 => pc' = "idle"
        /\ used # 0 => pc' \in {"slow", "hot"}
    BY <1>5 DEF HotPass
  <2>2. cpu' \in CpuType /\ Waits(cpu') /\ (used # 0 => cpu'.irq = 0)
    BY <2>1, SteppedFacts
  <2> QED BY <2>1, <2>2 DEF Waits, TakesInterrupt
<1>6. CASE ReachSlow
  <2> DEFINE d == Settle(dev, CpuTime(sched) - sched.now)
             s == Materialized(sched)
  <2>1. /\ pc = "slow" /\ cpu' = ServicedCpu(cpu, d) /\ spent' = spent
        /\ pc' \in {"idle", "hot", "skip"}
    BY <1>6 DEF ReachSlow
  <2> HIDE DEF d
  <2>2. cpu' \in CpuType /\ Waits(cpu')
    BY <2>1, ServicedFacts
  <2> QED BY <2>1, <2>2 DEF Waits, TakesInterrupt
<1>7. CASE SkipStopped
  <2>1. CASE JumpTarget <= sched.now
    BY <1>7, <2>1 DEF SkipStopped, LeaveSkip, Waits, TakesInterrupt
  <2>2. CASE ~(JumpTarget <= sched.now)
    <3> DEFINE injected == InjectPending(sched, Jump)
               s == Materialized(injected)
               d == Settle(dev, CpuTime(injected) - injected.now)
    <3>1. /\ pc = "skip" /\ cpu' = ServicedCpu(cpu, d) /\ spent' = spent
          /\ pc' \in {"idle", "hot", "skip"}
      BY <1>7, <2>2 DEF SkipStopped, LeaveSkip
    <3> HIDE DEF d, injected
    <3>2. cpu' \in CpuType /\ Waits(cpu')
      BY <3>1, ServicedFacts
    <3> QED BY <3>1, <3>2 DEF Waits, TakesInterrupt
  <2> QED BY <2>1, <2>2
<1>8. CASE UNCHANGED vars
  BY <1>8 DEF vars, Waits, TakesInterrupt
<1> QED BY <1>1, <1>2, <1>3, <1>4, <1>5, <1>6, <1>7, <1>8 DEF Next

\* A request the CPU holds is one it will take: serviceInterrupts raises irq only above
\* the mask, and an instruction that raises the mask has consumed it first.
THEOREM RequestInvariant == Spec => []RequestInv
BY RequestInit, RequestStep, PTL DEF Spec

\* AcknowledgedIsRequested: what serviceInterrupts acknowledges it also hands to the CPU;
\* no device loses its pending interrupt to a CPU that would not take it.
THEOREM MachineAcknowledges == Spec => []AcknowledgedIsRequested
<1>1. RequestInv => AcknowledgedIsRequested
  <2> SUFFICES ASSUME RequestInv, ServiceDue, ~(pc = "linear" /\ spent = 0), NEW d
               PROVE  ~SwallowedBy(d)
    BY DEF AcknowledgedIsRequested, NothingSwallowed
  <2>1. cpu.irq = 0 /\ cpu \in CpuType
    BY DEF ServiceDue, RequestInv
  <2>2. CASE Acceptable(cpu, d) # {}
    BY <2>1, <2>2, SourceIsAcceptable DEF SwallowedBy, IoScLevel, SccLevel, MfpLevel
  <2> QED BY <2>2 DEF SwallowedBy
<1> QED BY <1>1, RequestInvariant, PTL

\* Servicing an interrupt keeps the devices in time and the timers drained.
LEMMA ServicedInTime ==
    ASSUME NEW c \in CpuType, NEW d, InTime(d)
    PROVE  /\ InTime(ServicedDevices(c, d))
           /\ Drained(d.mfp) => Drained(ServicedDevices(c, d).mfp)
<1> DEFINE x == ServicedDevices(c, d)
<1>1. d \in DeviceType /\ d.mfp \in MfpType
  BY DEF InTime, DeviceType
<1>2. CASE Acceptable(c, d) # {} /\ Source(c, d) = "mfp"
  <2>1. MfpHasPending(d.mfp)
    <3>1. Source(c, d) \in Acceptable(c, d)
      BY <1>2, SourceIsAcceptable
    <3> QED BY <1>2, <3>1 DEF Acceptable, Requesting
  <2>2. x = [d EXCEPT !.mfp = Acknowledge(d.mfp)]
    BY <1>2 DEF ServicedDevices
  <2>3. x.mfp = Acknowledge(d.mfp)
    BY <1>1, <2>2 DEF DeviceType
  <2> QED BY <1>1, <2>1, <2>2, <2>3, AcknowledgeTyped, SetMfp
<1>3. CASE Acceptable(c, d) # {} /\ Source(c, d) = "scc"
  <2>1. x = [d EXCEPT !.scc = FALSE]
    BY <1>3 DEF ServicedDevices
  <2>2. x \in DeviceType /\ x.crtc = d.crtc /\ x.rtc = d.rtc /\ x.mfp = d.mfp
    BY <1>1, <2>1 DEF DeviceType
  <2> QED BY <2>2 DEF InTime
<1>4. CASE Acceptable(c, d) = {} \/ Source(c, d) \notin {"mfp", "scc"}
  <2>1. x = d
    BY <1>4 DEF ServicedDevices
  <2> QED BY <2>1
<1> QED BY <1>2, <1>3, <1>4

--------------------------------------------------------------------------------
(* The loop the machine implements, with what is proved about it. *)

LoopProofs == INSTANCE RunLoopProofs
        WITH pc <- IF pc = "linear" THEN "idle" ELSE pc,
             InstrCycles <- InstrCycles \cup {StopStep, ExceptionCycles},
             Delays <- 0 .. FrameCycles,
             Instants <- Nat

\* The constants of the machine are constants a RunLoop may have.
LEMMA LoopAssumptions == LoopProofs!RunLoopAssumption /\ LoopProofs!SchedulerAssumption
<1>1. LoopProofs!RunLoopAssumption
  BY MachineAssumption, CrtcAssumption DEF LoopProofs!RunLoopAssumption
<1>2. LoopProofs!SchedulerAssumption
  BY SchedulerAssumption DEF LoopProofs!SchedulerAssumption
<1> QED BY <1>1, <1>2

\* The operators of that RunLoop's scheduler are those of the machine's: types,
LEMMA SameTypes == LoopProofs!SchedulerType = SchedulerType
BY DEF LoopProofs!SchedulerType, SchedulerType

\* queries,
LEMMA SameQueries ==
    ASSUME NEW s
    PROVE  /\ LoopProofs!CpuTime(s) = CpuTime(s)
           /\ LoopProofs!ReachedSliceEnd(s) <=> ReachedSliceEnd(s)
           /\ LoopProofs!Due(s) <=> Due(s)
BY DEF LoopProofs!CpuTime, CpuTime, LoopProofs!ReachedSliceEnd, ReachedSliceEnd,
       LoopProofs!Due, Due

\* operations,
LEMMA SameOperations ==
    ASSUME NEW s
    PROVE  /\ LoopProofs!Materialized(s) = Materialized(s)
           /\ LoopProofs!Wake(s) = Wake(s)
           /\ LoopProofs!HoldForPendingInterrupt(s) = HoldForPendingInterrupt(s)
BY Zenon DEF LoopProofs!Materialized, Materialized, LoopProofs!SyncUnsettled, SyncUnsettled,
       LoopProofs!Consume, Consume, LoopProofs!Pending, Pending,
       LoopProofs!Wake, Wake, LoopProofs!CutAt, CutAt,
       LoopProofs!HoldForPendingInterrupt, HoldForPendingInterrupt

\* operations with a number,
LEMMA SameMoves ==
    ASSUME NEW s, NEW n
    PROVE  /\ LoopProofs!Advance(s, n) = Advance(s, n)
           /\ LoopProofs!ArmDeadline(s, n) = ArmDeadline(s, n)
           /\ LoopProofs!InjectPending(s, n) = InjectPending(s, n)
           /\ LoopProofs!BeginSlice(s, n) = BeginSlice(s, n)
           /\ LoopProofs!Least(s, n) = Least(s, n)
BY Zenon DEF LoopProofs!Advance, Advance, LoopProofs!ArmDeadline, ArmDeadline,
       LoopProofs!InjectPending, InjectPending, LoopProofs!BeginSlice, BeginSlice,
       LoopProofs!Least, Least, LoopProofs!CutAt, CutAt

\* and the loop is the one ImplementsRunLoop names.
LEMMA SameLoop ==
    /\ LoopProofs!Init <=> Loop!Init
    /\ LoopProofs!Next <=> Loop!Next
    /\ LoopProofs!vars = Loop!vars
<1>1. LoopProofs!Init <=> Loop!Init
  BY Zenon DEF LoopProofs!Init, Loop!Init, LoopProofs!ResetScheduler, Loop!ResetScheduler
<1>2. LoopProofs!Begin <=> Loop!Begin
  BY Zenon DEF LoopProofs!Begin, Loop!Begin, LoopProofs!ArmDeadline, Loop!ArmDeadline,
        LoopProofs!BeginSlice, Loop!BeginSlice, LoopProofs!Least, Loop!Least,
        LoopProofs!CutAt, Loop!CutAt, LoopProofs!Future, Loop!Future
<1>3. LoopProofs!External <=> Loop!External
  BY Zenon DEF LoopProofs!External, Loop!External, LoopProofs!Wake, Loop!Wake,
     LoopProofs!SyncUnsettled, Loop!SyncUnsettled, LoopProofs!CutAt, Loop!CutAt
<1>4. LoopProofs!Execute <=> Loop!Execute
  BY Zenon DEF LoopProofs!Execute, Loop!Execute, LoopProofs!Wake, Loop!Wake,
     LoopProofs!SyncUnsettled, Loop!SyncUnsettled, LoopProofs!CutAt, Loop!CutAt,
     LoopProofs!Access, Loop!Access, LoopProofs!Materialized, Loop!Materialized,
     LoopProofs!Consume, Loop!Consume, LoopProofs!Pending, Loop!Pending,
     LoopProofs!Advance, Loop!Advance, LoopProofs!Due, Loop!Due
<1>5. LoopProofs!Halt <=> Loop!Halt
  BY Zenon DEF LoopProofs!Halt, Loop!Halt, LoopProofs!Wake, Loop!Wake,
     LoopProofs!SyncUnsettled, Loop!SyncUnsettled, LoopProofs!CutAt, Loop!CutAt,
     LoopProofs!Access, Loop!Access, LoopProofs!Materialized, Loop!Materialized,
     LoopProofs!Consume, Loop!Consume, LoopProofs!Pending, Loop!Pending
<1>6. LoopProofs!ReachSlow <=> Loop!ReachSlow
  BY Zenon DEF LoopProofs!ReachSlow, Loop!ReachSlow, LoopProofs!ArmDeadline, Loop!ArmDeadline,
     LoopProofs!Least, Loop!Least,
     LoopProofs!SyncUnsettled, Loop!SyncUnsettled, LoopProofs!CutAt, Loop!CutAt,
     LoopProofs!Future, Loop!Future, LoopProofs!Materialized, Loop!Materialized,
     LoopProofs!Consume, Loop!Consume, LoopProofs!Pending, Loop!Pending,
     LoopProofs!HoldForPendingInterrupt, Loop!HoldForPendingInterrupt,
     LoopProofs!ReachedSliceEnd, Loop!ReachedSliceEnd
<1>7. LoopProofs!SkipStopped <=> Loop!SkipStopped
  BY Zenon DEF LoopProofs!SkipStopped, Loop!SkipStopped, LoopProofs!ArmDeadline, Loop!ArmDeadline,
     LoopProofs!Least, Loop!Least,
     LoopProofs!SyncUnsettled, Loop!SyncUnsettled, LoopProofs!CutAt, Loop!CutAt,
     LoopProofs!Future, Loop!Future, LoopProofs!Materialized, Loop!Materialized,
     LoopProofs!Consume, Loop!Consume, LoopProofs!Pending, Loop!Pending,
     LoopProofs!HoldForPendingInterrupt, Loop!HoldForPendingInterrupt,
     LoopProofs!ReachedSliceEnd, Loop!ReachedSliceEnd,
     LoopProofs!InjectPending, Loop!InjectPending, LoopProofs!Landing, Loop!Landing
<1>8. LoopProofs!Next <=> Loop!Next
  BY <1>2, <1>3, <1>4, <1>5, <1>6, <1>7 DEF LoopProofs!Next, Loop!Next
<1>9. LoopProofs!vars = Loop!vars
  BY DEF LoopProofs!vars, Loop!vars
<1> QED BY <1>1, <1>8, <1>9

\* The fields of the account are numbers.
LEMMA AccountTypes ==
    ASSUME NEW s \in SchedulerType
    PROVE  /\ s.now \in Int /\ s.sliceEnd \in Int /\ s.debt \in Int /\ s.deadlineAt \in Int
           /\ CpuTime(s) \in Int
<1>1. /\ s.debt \in Int /\ s.now \in Int /\ s.deadlineAt \in Int /\ s.sliceEnd \in Int
  BY DEF SchedulerType
<1> QED BY <1>1 DEF CpuTime

\* Materializing brings the account's now to the CPU's time and moves nothing else.
LEMMA MaterializedHere ==
    ASSUME NEW s \in SchedulerType
    PROVE  /\ Materialized(s) \in SchedulerType
           /\ Materialized(s).now = CpuTime(s) /\ CpuTime(Materialized(s)) = CpuTime(s)
           /\ Materialized(s).debt = s.debt /\ Materialized(s).deadlineAt = s.deadlineAt
           /\ Materialized(s).sliceEnd = s.sliceEnd
<1>1. s \in LoopProofs!SchedulerType
  BY SameTypes
<1>2. /\ LoopProofs!Materialized(s) \in LoopProofs!SchedulerType
      /\ LoopProofs!Materialized(s).now = LoopProofs!CpuTime(s)
      /\ LoopProofs!CpuTime(LoopProofs!Materialized(s)) = LoopProofs!CpuTime(s)
      /\ LoopProofs!Materialized(s).debt = s.debt
      /\ LoopProofs!Materialized(s).deadlineAt = s.deadlineAt
      /\ LoopProofs!Materialized(s).sliceEnd = s.sliceEnd
  BY <1>1, LoopAssumptions, LoopProofs!MaterializedFacts
<1> QED BY <1>2, SameTypes, SameQueries, SameOperations

\* Wake makes the deadline due at once.
LEMMA WakeHere ==
    ASSUME NEW s \in SchedulerType
    PROVE  /\ Wake(s) \in SchedulerType /\ Wake(s).now = s.now /\ Wake(s).debt = 0
           /\ CpuTime(Wake(s)) = CpuTime(s)
<1>1. s \in LoopProofs!SchedulerType
  BY SameTypes
<1>2. /\ LoopProofs!Wake(s) \in LoopProofs!SchedulerType
      /\ LoopProofs!Wake(s).now = s.now /\ LoopProofs!Wake(s).debt = 0
      /\ LoopProofs!CpuTime(LoopProofs!Wake(s)) = LoopProofs!CpuTime(s)
  BY <1>1, LoopAssumptions, LoopProofs!WakeFacts
<1> QED BY <1>2, SameTypes, SameQueries, SameOperations

\* Advance moves the CPU, and the devices not.
LEMMA AdvanceHere ==
    ASSUME NEW s \in SchedulerType, NEW used \in Nat
    PROVE  /\ Advance(s, used).now = s.now /\ Advance(s, used).debt = s.debt + used
           /\ Advance(s, used).deadlineAt = s.deadlineAt
           /\ CpuTime(Advance(s, used)) = CpuTime(s) + used
<1>1. s \in LoopProofs!SchedulerType /\ used \in Int
  BY SameTypes
<1>2. /\ LoopProofs!Advance(s, used).now = s.now
      /\ LoopProofs!Advance(s, used).debt = s.debt + used
      /\ LoopProofs!Advance(s, used).deadlineAt = s.deadlineAt
      /\ LoopProofs!CpuTime(LoopProofs!Advance(s, used)) = LoopProofs!CpuTime(s) + used
  BY <1>1, LoopAssumptions, LoopProofs!AdvanceFacts
<1> QED BY <1>2, SameQueries, SameMoves

\* A jump of a stopped CPU moves both.
LEMMA JumpHere ==
    ASSUME NEW s \in SchedulerType, NEW jump \in Int, s.now = CpuTime(s)
    PROVE  /\ Materialized(InjectPending(s, jump)) \in SchedulerType
           /\ Materialized(InjectPending(s, jump)).now = s.now + jump
           /\ Materialized(InjectPending(s, jump)).sliceEnd = s.sliceEnd
           /\ InjectPending(s, jump).now = s.now
           /\ CpuTime(InjectPending(s, jump)) = s.now + jump
<1>1. s \in LoopProofs!SchedulerType /\ s.now = LoopProofs!CpuTime(s)
  BY SameTypes, SameQueries
<1> DEFINE m == LoopProofs!Materialized(LoopProofs!InjectPending(s, jump))
<1>2. m \in LoopProofs!SchedulerType /\ m.now = s.now + jump /\ m.sliceEnd = s.sliceEnd
  BY <1>1, LoopAssumptions, LoopProofs!JumpFacts
<1>3. m = Materialized(InjectPending(s, jump))
  BY SameOperations, SameMoves
<1>4. /\ InjectPending(s, jump).now = s.now
      /\ InjectPending(s, jump).debt = s.debt + jump
      /\ InjectPending(s, jump).deadlineAt = s.deadlineAt
  BY DEF InjectPending, SchedulerType
<1>5. CpuTime(InjectPending(s, jump)) = CpuTime(s) + jump
  BY <1>4, AccountTypes DEF CpuTime
<1> QED BY <1>2, <1>3, <1>4, <1>5, SameTypes

\* The invariant
Clockwise ==
    /\ LoopProofs!Inv
    /\ InTime(dev)
    /\ cpu \in CpuType
    /\ pc \in {"idle", "linear", "hot", "slow", "skip"}

\* The parts of the invariant the steps use.
LEMMA AccountFacts ==
    ASSUME Clockwise
    PROVE  /\ sched \in SchedulerType /\ 0 <= sched.now /\ CpuTime(sched) - sched.now \in Nat
           /\ pc \in {"idle", "linear", "skip"} => sched.now = CpuTime(sched)
           /\ pc \in {"hot", "skip"} => CpuTime(sched) < sched.sliceEnd
           /\ pc = "hot" => sched.debt <= 0
           /\ pc = "slow" => sched.debt >= 0
<1>1. LoopProofs!TypeOK /\ LoopProofs!Settled /\ LoopProofs!Owed /\ LoopProofs!InsideSlice
      /\ LoopProofs!DebtInRange
  BY DEF Clockwise, LoopProofs!Inv
<1>2. sched \in SchedulerType /\ 0 <= sched.now /\ sched.now <= CpuTime(sched)
  BY <1>1, SameTypes, SameQueries DEF LoopProofs!TypeOK, LoopProofs!Owed
<1>3. pc \in {"idle", "linear", "skip"} => sched.now = CpuTime(sched)
  BY <1>1, SameQueries DEF LoopProofs!Settled
<1>4. pc \in {"hot", "skip"} => CpuTime(sched) < sched.sliceEnd
  BY <1>1, SameQueries DEF LoopProofs!InsideSlice
<1>5. (pc = "hot" => sched.debt <= 0) /\ (pc = "slow" => sched.debt >= 0)
  BY <1>1 DEF LoopProofs!DebtInRange
<1> QED BY <1>2, <1>3, <1>4, <1>5, AccountTypes

\* The deadline the machine arms is one RunLoop allows.
LEMMA NextEventIsFuture ==
    ASSUME NEW s \in SchedulerType, NEW d, InTime(d)
    PROVE  NextEventCycle(s, d) \in LoopProofs!Future(s) /\ NextEventCycle(s, d) \in Int
           /\ NextEventCycle(s, d) >= s.now
<1>1. CyclesToNextEvent(d) \in 0 .. FrameCycles /\ FrameCycles \in Nat
  BY NextEventFacts, CrtcAssumption
<1>2. s.now \in Int
  BY AccountTypes
<1> QED BY <1>1, <1>2 DEF NextEventCycle, LoopProofs!Future

\* Rounding up to the period of a stopped CPU.
LEMMA RoundUpFacts ==
    ASSUME NEW n \in Nat, n # 0, NEW p \in Nat, p # 0
    PROVE  RoundUp(n, p) \in Nat /\ RoundUp(n, p) >= n /\ RoundUp(n, p) < n + p
<1>1. ((n + p - 1) \div p) * p >= n /\ ((n + p - 1) \div p) * p < n + p
      /\ ((n + p - 1) \div p) * p \in Int
  OBVIOUS
<1> QED BY <1>1 DEF RoundUp

\* The cycles an instruction may use.
LEMMA StepUses ==
    ASSUME NEW c, NEW op, NEW cycles \in InstrCycles
    PROVE  StepCycles(c, op, cycles) \in {0} \cup InstrCycles \cup {StopStep, ExceptionCycles}
BY DEF StepCycles

\* An access of the guest moves the account as RunLoop allows.
LEMMA AccessHere ==
    ASSUME NEW op
    PROVE  /\ AccessedScheduler(sched, op) \in {sched, Materialized(sched), Wake(Materialized(sched))}
           /\ AccessedScheduler(sched, op) \in LoopProofs!Access(sched)
<1>1. AccessedScheduler(sched, op) \in {sched, Materialized(sched), Wake(Materialized(sched))}
  BY DEF AccessedScheduler
<1> QED BY <1>1, SameOperations DEF LoopProofs!Access

--------------------------------------------------------------------------------
(* Step by step *)

\* The machine starts where the loop starts.
LEMMA InitSimulated == Init => LoopProofs!Init /\ Clockwise
<1> SUFFICES ASSUME Init PROVE LoopProofs!Init /\ Clockwise
  OBVIOUS
<1>1. LoopProofs!Init
  BY DEF Init, LoopProofs!Init, LoopProofs!ResetScheduler, ResetScheduler
<1>2. LoopProofs!Inv
  BY <1>1, LoopAssumptions, LoopProofs!InitInv
<1>3. InTime(dev)
  <2>1. dev.mfp \in MfpType /\ dev.crtc = ResetCrtc /\ dev.rtc = ResetRtc
        /\ dev.scc = FALSE /\ dev.iosc = [enable |-> FALSE, line |-> FALSE]
    BY MachineAssumption DEF Init
  <2>2. ResetCrtc \in CrtcType /\ InStep(ResetCrtc)
    BY CrtcAssumption DEF ResetCrtc, CrtcType, InStep, VBlankBegin
  <2>3. ResetRtc \in RtcType /\ ResetRtc.accumulator = 0
    BY DEF ResetRtc, RtcType
  <2>4. dev \in DeviceType
    <3>1. dev.scc \in BOOLEAN
      BY <2>1, Zenon
    <3>3. dev.iosc \in [enable : BOOLEAN, line : BOOLEAN]
      <4>1. [enable |-> FALSE, line |-> FALSE] \in [enable : BOOLEAN, line : BOOLEAN]
        OBVIOUS
      <4> QED BY <2>1, <4>1, Zenon
    <3>2. dev = [mfp |-> dev.mfp, crtc |-> dev.crtc, rtc |-> dev.rtc, scc |-> dev.scc, iosc |-> dev.iosc]
      BY DEF Init
    <3> QED BY <2>1, <2>2, <2>3, <3>1, <3>2, <3>3 DEF DeviceType
  <2> QED BY <2>1, <2>2, <2>3, <2>4, RtcAssumption DEF InTime
<1> QED BY <1>1, <1>2, <1>3 DEF Clockwise, Init, CpuType

\* A machine whose account moves as the loop says keeps the loop's invariant.
LEMMA LoopStep ==
    ASSUME Clockwise, [LoopProofs!Next]_(LoopProofs!vars)
    PROVE  LoopProofs!Inv'
BY LoopAssumptions, LoopProofs!NextInv DEF Clockwise

\* What a step of the machine is to the loop.
Simulated == [LoopProofs!Next]_(LoopProofs!vars) /\ InTime(dev)'

\* Input of the host does not touch the account.
LEMMA HostSimulated ==
    ASSUME Clockwise, PressKey \/ MoveMouse PROVE Simulated
<1>1. pc = "idle" /\ pc' = pc /\ sched' = Wake(sched)
  BY DEF PressKey, MoveMouse
<1>2. LoopProofs!External
  BY <1>1, SameOperations DEF LoopProofs!External
<1>3. InTime(dev')
  <2>1. CASE PressKey
    <3>1. dev' = [dev EXCEPT !.mfp = ReceiveKeyboardByte(dev.mfp)]
      BY <2>1 DEF PressKey
    <3>2. ReceiveKeyboardByte(dev.mfp) \in MfpType
      BY KeyTyped DEF Clockwise, InTime, DeviceType
    <3> QED BY <3>1, <3>2, SetMfp DEF Clockwise
  <2>2. CASE MoveMouse
    <3>1. PICK pending \in {dev.scc, TRUE} : dev' = [dev EXCEPT !.scc = pending]
      BY <2>2 DEF MoveMouse
    <3>2. dev \in DeviceType /\ pending \in BOOLEAN
      BY DEF Clockwise, InTime, DeviceType
    <3>3. dev' \in DeviceType /\ dev'.crtc = dev.crtc /\ dev'.rtc = dev.rtc
      BY <3>1, <3>2 DEF DeviceType
    <3> QED BY <3>3 DEF Clockwise, InTime
  <2> QED BY <2>1, <2>2
<1> QED BY <1>2, <1>3 DEF Simulated, LoopProofs!Next, InTime, InStep

\* The linear loop keeps the account level with the CPU: the loop does not see it.
LEMMA LinearSimulated ==
    ASSUME Clockwise, NEW op \in GuestOps, NEW cycles \in InstrCycles, LinearPass(op, cycles)
    PROVE  Simulated
<1> DEFINE c == ServicedCpu(cpu, dev)
           d == ServicedDevices(cpu, dev)
           used == StepCycles(c, op, cycles)
           accessed == IF Executes(c) THEN Accessed(d, op) ELSE d
<1>1. /\ pc = "linear" /\ pc' \in {"idle", "linear"} /\ sched' \in {sched, Wake(sched)}
      /\ dev' = IF used = 0 THEN accessed ELSE TickDevices(accessed, used)
  BY DEF LinearPass
<1>2. InTime(d)
  BY ServicedInTime DEF Clockwise
<1>3. used \in Nat
  <2>1. used \in {0} \cup InstrCycles \cup {StopStep, ExceptionCycles}
    BY StepUses
  <2> HIDE DEF used
  <2> QED BY <2>1, MachineAssumption
<1> HIDE DEF c, d, used
<1>4. InTime(accessed)
  BY <1>2, AccessedFacts
<1> HIDE DEF accessed
<1>5. InTime(dev')
  BY <1>1, <1>3, <1>4, TickDevicesFacts
<1>6. [LoopProofs!Next]_(LoopProofs!vars)
  <2>1. CASE sched' = sched
    BY <1>1, <2>1 DEF LoopProofs!vars
  <2>2. CASE sched' = Wake(sched)
    <3>1. LoopProofs!External
      BY <1>1, <2>2, SameOperations DEF LoopProofs!External
    <3> QED BY <3>1 DEF LoopProofs!Next
  <2> QED BY <1>1, <2>1, <2>2
<1> QED BY <1>5, <1>6 DEF Simulated, InTime, InStep

\* An event-driven slice begins as a run of the loop does.
LEMMA BeginSimulated ==
    ASSUME Clockwise, NEW cycles \in SliceCycles, BeginEventDriven(cycles)
    PROVE  Simulated
<1> DEFINE begun == BeginSlice(sched, cycles)
           next == NextEventCycle(begun, dev)
<1>1. pc = "idle" /\ pc' \in {"hot", "skip"} /\ dev' = dev /\ sched' = ArmDeadline(begun, next)
  BY DEF BeginEventDriven
<1>2. sched \in SchedulerType /\ sched.now \in Nat
  BY AccountFacts, AccountTypes
<1>3. begun.now = sched.now
  BY <1>2 DEF BeginSlice, SchedulerType
<1>4. next \in LoopProofs!Future(sched)
  <2>1. NextEventCycle(sched, dev) \in LoopProofs!Future(sched)
    BY <1>2, NextEventIsFuture DEF Clockwise
  <2> QED BY <1>3, <2>1 DEF NextEventCycle
<1>5. LoopProofs!Begin
  BY <1>1, <1>2, <1>4, SameMoves DEF LoopProofs!Begin
<1> QED BY <1>1, <1>5 DEF Simulated, LoopProofs!Next, Clockwise, InTime, InStep

\* An instruction and its accesses are one of the hot passes of the loop.
LEMMA HotSimulated ==
    ASSUME Clockwise, NEW op \in GuestOps, NEW cycles \in InstrCycles, HotPass(op, cycles)
    PROVE  Simulated
<1> DEFINE used == StepCycles(cpu, op, cycles)
           s == IF Executes(cpu) THEN AccessedScheduler(sched, op) ELSE sched
           d == IF Executes(cpu) THEN AccessedDevices(sched, dev, op) ELSE dev
<1>1. /\ pc = "hot"
      /\ used = 0 => dev' = Settle(d, CpuTime(s) - s.now) /\ sched' = Materialized(s) /\ pc' = "idle"
      /\ used # 0 => /\ dev' = d /\ sched' = Advance(s, used)
                     /\ pc' = IF Due(Advance(s, used)) THEN "slow" ELSE "hot"
  BY DEF HotPass
<1>2. used \in {0} \cup InstrCycles \cup {StopStep, ExceptionCycles}
  BY StepUses
<1>3. s \in LoopProofs!Access(sched) /\ s \in {sched, Materialized(sched), Wake(Materialized(sched))}
  BY AccessHere DEF LoopProofs!Access
<1>4. InTime(d)
  <2>1. CpuTime(sched) - sched.now \in Nat /\ InTime(dev)
    BY AccountFacts DEF Clockwise
  <2>2. InTime(Settle(dev, CpuTime(sched) - sched.now))
    BY <2>1, SettleFacts
  <2>3. AccessedDevices(sched, dev, op) \in
          {Accessed(Settle(dev, CpuTime(sched) - sched.now), op), Accessed(dev, op)}
    BY DEF AccessedDevices
  <2> QED BY <2>1, <2>2, <2>3, AccessedFacts
<1> HIDE DEF used, s, d
<1>5. CASE used = 0
  <2>1. LoopProofs!Halt
    BY <1>1, <1>3, <1>5, SameOperations DEF LoopProofs!Halt
  <2>2. CpuTime(s) - s.now \in Nat
    <3>1. /\ CpuTime(s) \in Int /\ s.now \in Int /\ s.now <= CpuTime(s)
      <4>1. LoopProofs!TypeOK /\ LoopProofs!Owed
        BY DEF Clockwise, LoopProofs!Inv
      <4>2. s \in LoopProofs!SchedulerType /\ s.now <= LoopProofs!CpuTime(s)
        BY <1>3, <4>1, LoopAssumptions, LoopProofs!AccessFacts
      <4> QED BY <4>2, SameTypes, SameQueries, AccountTypes
    <3> QED BY <3>1
  <2>3. InTime(dev')
    BY <1>1, <1>4, <1>5, <2>2, SettleFacts
  <2> QED BY <2>1, <2>3 DEF Simulated, LoopProofs!Next, InTime, InStep
<1>6. CASE used # 0
  <2>1. /\ used \in InstrCycles \cup {StopStep, ExceptionCycles} /\ sched' = LoopProofs!Advance(s, used)
        /\ pc = "hot" /\ pc' = IF LoopProofs!Due(sched') THEN "slow" ELSE "hot"
    BY <1>1, <1>2, <1>6, SameMoves, SameQueries
  <2>2. LoopProofs!Execute
    BY <1>3, <2>1 DEF LoopProofs!Execute
  <2>3. InTime(dev')
    BY <1>1, <1>4, <1>6
  <2> QED BY <2>2, <2>3 DEF Simulated, LoopProofs!Next, InTime, InStep
<1> QED BY <1>5, <1>6

\* The slow path.
LEMMA SlowSimulated == ASSUME Clockwise, ReachSlow PROVE Simulated
<1> DEFINE s == Materialized(sched)
           settled == Settle(dev, CpuTime(sched) - sched.now)
           c == ServicedCpu(cpu, settled)
           d == ServicedDevices(cpu, settled)
<1>1. /\ pc = "slow" /\ dev' = d
      /\ \/ ReachedSliceEnd(s) /\ sched' = s /\ pc' = "idle"
         \/ ~ReachedSliceEnd(s) /\ sched' = HoldForPendingInterrupt(s) /\ pc' = "hot"
         \/ ~ReachedSliceEnd(s) /\ sched' = s /\ pc' = "skip"
         \/ ~ReachedSliceEnd(s) /\ sched' = ArmDeadline(s, NextEventCycle(s, d)) /\ pc' = "hot"
  BY DEF ReachSlow
<1>2. sched \in SchedulerType /\ CpuTime(sched) - sched.now \in Nat
  BY AccountFacts
<1>3. s \in SchedulerType
  BY <1>2, MaterializedHere
<1>4. InTime(settled)
  BY <1>2, SettleFacts DEF Clockwise
<1> HIDE DEF settled
<1>5. InTime(d)
  BY <1>4, ServicedInTime DEF Clockwise
<1> HIDE DEF d
<1>6. NextEventCycle(s, d) \in LoopProofs!Future(s)
  BY <1>3, <1>5, NextEventIsFuture
<1>7. s = LoopProofs!Materialized(sched)
  BY SameOperations
<1> HIDE DEF s
<1>8. LoopProofs!ReachSlow
  BY <1>1, <1>6, <1>7, SameOperations, SameQueries, SameMoves DEF LoopProofs!ReachSlow
<1> QED BY <1>1, <1>5, <1>8 DEF Simulated, LoopProofs!Next, InTime, InStep

\* The skip of a stopped CPU.
LEMMA SkipSimulated == ASSUME Clockwise, SkipStopped PROVE Simulated
<1> DEFINE next == NextEventCycle(sched, dev)
<1>1. /\ sched \in SchedulerType /\ sched.now = CpuTime(sched) /\ pc = "skip"
      /\ sched.now \in Int /\ sched.sliceEnd \in Int /\ sched.now < sched.sliceEnd
  BY AccountFacts, AccountTypes DEF SkipStopped
<1>2. next \in LoopProofs!Future(sched) /\ next \in Int
  BY <1>1, NextEventIsFuture DEF Clockwise
<1>3. JumpTarget = LoopProofs!Least(next, sched.sliceEnd) /\ JumpTarget \in Int
  BY <1>1, <1>2, SameMoves DEF JumpTarget, Least
<1>4. CASE JumpTarget <= sched.now
  <2>1. /\ sched' = HoldForPendingInterrupt(sched) /\ pc' = LeaveSkip(sched) /\ dev' = dev
    BY <1>4 DEF SkipStopped
  <2>2. /\ sched' = LoopProofs!HoldForPendingInterrupt(sched)
        /\ pc' = IF LoopProofs!ReachedSliceEnd(sched) THEN "idle" ELSE "hot"
    BY <2>1, SameOperations, SameQueries DEF LeaveSkip
  <2>3. LoopProofs!SkipStopped
    BY <1>1, <1>2, <1>3, <1>4, <2>2 DEF LoopProofs!SkipStopped
  <2> QED BY <2>1, <2>3 DEF Simulated, LoopProofs!Next, Clockwise, InTime, InStep
<1>5. CASE ~(JumpTarget <= sched.now)
  <2> DEFINE injected == InjectPending(sched, Jump)
             s == Materialized(injected)
             settled == Settle(dev, CpuTime(injected) - injected.now)
             c == ServicedCpu(cpu, settled)
             d == ServicedDevices(cpu, settled)
  <2>1. /\ Jump \in Nat /\ Jump >= JumpTarget - sched.now /\ Jump < JumpTarget - sched.now + StopStep
        /\ Jump \in 1 .. JumpTarget - sched.now + StopStep
    <3>1. JumpTarget - sched.now \in Nat /\ JumpTarget - sched.now # 0 /\ StopStep \in Nat /\ StopStep # 0
      BY <1>1, <1>3, <1>5, MachineAssumption
    <3>2. /\ Jump \in Nat /\ Jump >= JumpTarget - sched.now /\ Jump < JumpTarget - sched.now + StopStep
      BY <3>1, RoundUpFacts DEF Jump
    <3> QED BY <3>1, <3>2
  <2>2. /\ dev' = d
        /\ \/ sched' = ArmDeadline(s, NextEventCycle(s, d)) /\ pc' = LeaveSkip(s)
           \/ ~ReachedSliceEnd(s) /\ sched' = HoldForPendingInterrupt(s) /\ pc' = "hot"
           \/ ~ReachedSliceEnd(s) /\ sched' = s /\ pc' = "skip"
    BY <1>5 DEF SkipStopped
  <2>3. s \in SchedulerType /\ CpuTime(injected) - injected.now \in Nat
    <3>1. Jump \in Int
      BY <2>1
    <3>2. s \in SchedulerType /\ injected.now = sched.now /\ CpuTime(injected) = sched.now + Jump
      BY <1>1, <3>1, JumpHere
    <3>3. CpuTime(injected) - injected.now = Jump
      BY <1>1, <3>1, <3>2
    <3> QED BY <2>1, <3>2, <3>3
  <2>4. InTime(settled)
    BY <2>3, SettleFacts DEF Clockwise
  <2> HIDE DEF settled
  <2>5. InTime(d)
    BY <2>4, ServicedInTime DEF Clockwise
  <2> HIDE DEF d
  <2>6. NextEventCycle(s, d) \in LoopProofs!Future(s)
    BY <2>3, <2>5, NextEventIsFuture
  <2>7. s = LoopProofs!Materialized(LoopProofs!InjectPending(sched, Jump))
    BY SameOperations, SameMoves
  <2> HIDE DEF s
  <2>8. LoopProofs!Landing(sched, JumpTarget, Jump)
    BY <2>1 DEF LoopProofs!Landing
  <2>9. \/ /\ \E later \in LoopProofs!Future(s) : sched' = LoopProofs!ArmDeadline(s, later)
           /\ pc' = IF LoopProofs!ReachedSliceEnd(s) THEN "idle" ELSE "hot"
        \/ /\ ~LoopProofs!ReachedSliceEnd(s)
           /\ sched' = LoopProofs!HoldForPendingInterrupt(s) /\ pc' = "hot"
        \/ /\ ~LoopProofs!ReachedSliceEnd(s)
           /\ sched' = s /\ pc' = "skip"
    BY <2>2, <2>6, SameOperations, SameQueries, SameMoves DEF LeaveSkip
  <2>10. LoopProofs!SkipStopped
    BY <1>1, <1>2, <1>3, <1>5, <2>1, <2>7, <2>8, <2>9 DEF LoopProofs!SkipStopped
  <2> QED BY <2>2, <2>5, <2>10 DEF Simulated, LoopProofs!Next, InTime, InStep
<1> QED BY <1>4, <1>5

\* Every step of the machine is a step of the loop or leaves its variables alone.
LEMMA Simulation ==
    ASSUME Clockwise, RequestInv, [Next]_vars
    PROVE  Clockwise' /\ [LoopProofs!Next]_(LoopProofs!vars)
<1>1. Simulated
  <2>1. CASE PressKey \/ MoveMouse
    BY <2>1, HostSimulated
  <2>2. ASSUME NEW cycles \in SliceCycles, BeginLinear(cycles) PROVE Simulated
    <3>1. dev' = dev /\ UNCHANGED LoopProofs!vars
      BY <2>2 DEF BeginLinear, LoopProofs!vars
    <3> QED BY <3>1 DEF Simulated, Clockwise, InTime, InStep
  <2>3. ASSUME NEW cycles \in SliceCycles, BeginEventDriven(cycles) PROVE Simulated
    BY <2>3, BeginSimulated
  <2>4. ASSUME NEW op \in GuestOps, NEW cycles \in InstrCycles,
               LinearPass(op, cycles) \/ HotPass(op, cycles)
        PROVE  Simulated
    BY <2>4, LinearSimulated, HotSimulated
  <2>5. CASE ReachSlow
    BY <2>5, SlowSimulated
  <2>6. CASE SkipStopped
    BY <2>6, SkipSimulated
  <2>7. CASE UNCHANGED vars
    BY <2>7 DEF vars, Simulated, LoopProofs!vars, Clockwise, InTime, InStep
  <2> QED BY <2>1, <2>2, <2>3, <2>4, <2>5, <2>6, <2>7 DEF Next
<1>2. LoopProofs!Inv'
  BY <1>1, LoopStep DEF Simulated
<1>3. RequestInv'
  BY RequestStep
<1>4. pc' \in {"idle", "linear", "hot", "slow", "skip"}
  BY <1>2 DEF LoopProofs!Inv, LoopProofs!TypeOK
<1> QED BY <1>1, <1>2, <1>3, <1>4 DEF Simulated, Clockwise, RequestInv

\* The invariant of the loop holds of the machine's account, whatever the devices do.
THEOREM Timekeeping == Spec => [](Clockwise /\ RequestInv)
<1>1. Init => Clockwise /\ RequestInv
  BY InitSimulated, RequestInit
<1>2. Clockwise /\ RequestInv /\ [Next]_vars => Clockwise' /\ RequestInv'
  BY Simulation, RequestStep
<1> QED BY <1>1, <1>2, PTL DEF Spec

\* ImplementsRunLoop: Machine::run, with its devices and the access paths of the bus,
\* moves virtual time as RunLoop says, so RunLoopProofs holds of it.
THEOREM MachineImplementsRunLoop == Spec => ImplementsRunLoop
<1>1. Init => Loop!Init
  BY InitSimulated, SameLoop
<1>2. Clockwise /\ RequestInv /\ [Next]_vars => [Loop!Next]_(Loop!vars)
  <2> SUFFICES ASSUME Clockwise, RequestInv, [Next]_vars PROVE [Loop!Next]_(Loop!vars)
    OBVIOUS
  <2>1. CASE LoopProofs!Next
    BY <2>1, SameLoop
  <2>2. CASE UNCHANGED LoopProofs!vars
    BY <2>2 DEF LoopProofs!vars, Loop!vars
  <2> QED BY <2>1, <2>2, Simulation
<1> QED BY <1>1, <1>2, Timekeeping, PTL DEF Spec, ImplementsRunLoop, Loop!Spec

\* The counters of the model's bounds.
Counted == wanted \in Nat /\ runs \in 0 .. MaxRuns /\ inputs \in 0 .. MaxInputs

\* The bounds of the model hold.
LEMMA CountedStep == Counted /\ [Next]_vars => Counted'
<1> SUFFICES ASSUME Counted, [Next]_vars PROVE Counted'
  OBVIOUS
<1> USE DEF Counted
<1>1. MaxRuns \in Nat /\ MaxInputs \in Nat /\ SliceCycles \subseteq Nat
  BY MachineAssumption
<1>2. CASE PressKey \/ MoveMouse
  BY <1>1, <1>2 DEF PressKey, MoveMouse
<1>3. ASSUME NEW cycles \in SliceCycles, BeginLinear(cycles) \/ BeginEventDriven(cycles)
      PROVE  Counted'
  <2>1. /\ runs < MaxRuns /\ runs' = runs + 1 /\ wanted' = cycles /\ inputs' = inputs
    BY <1>3 DEF BeginLinear, BeginEventDriven
  <2> QED BY <1>1, <2>1
<1>4. ASSUME NEW op \in GuestOps, NEW cycles \in InstrCycles,
             LinearPass(op, cycles) \/ HotPass(op, cycles)
      PROVE  Counted'
  BY <1>4 DEF LinearPass, HotPass
<1>5. CASE ReachSlow \/ SkipStopped \/ UNCHANGED vars
  BY <1>5 DEF ReachSlow, SkipStopped, vars
<1> QED BY <1>2, <1>3, <1>4, <1>5 DEF Next

\* TypeOK.
THEOREM MachineTyped == Spec => []TypeOK
<1>1. Init => Counted
  BY MachineAssumption DEF Init, Counted
<1>2. Spec => []Counted
  BY <1>1, CountedStep, PTL DEF Spec
<1>3. Clockwise /\ RequestInv /\ Counted => TypeOK
  BY AccountFacts DEF Clockwise, InTime, RequestInv, Counted, TypeOK
<1> QED BY <1>2, <1>3, Timekeeping, PTL

\* The two steps that end a slice have just serviced the interrupts.
LEMMA ServedAtTheEnd ==
    ASSUME Clockwise, RequestInv, Next, SliceEnds PROVE NothingWaits'
<1>1. CASE ReachSlow
  <2> DEFINE d == Settle(dev, CpuTime(sched) - sched.now)
  <2>1. cpu' = ServicedCpu(cpu, d) /\ dev' = ServicedDevices(cpu, d)
    BY <1>1 DEF ReachSlow
  <2> HIDE DEF d
  <2> QED BY <2>1, ServicedFacts DEF RequestInv, NothingWaits
<1>2. CASE SkipStopped
  <2>1. CASE JumpTarget <= sched.now
    <3>1. pc' = LeaveSkip(sched) /\ pc = "skip" /\ pc' = "idle"
      BY <1>2, <2>1 DEF SkipStopped, SliceEnds
    <3>2. sched.now = CpuTime(sched) /\ CpuTime(sched) < sched.sliceEnd
          /\ sched.now \in Int /\ sched.sliceEnd \in Int
      BY <3>1, AccountFacts, AccountTypes
    <3> QED BY <3>1, <3>2 DEF LeaveSkip, ReachedSliceEnd
  <2>2. CASE ~(JumpTarget <= sched.now)
    <3> DEFINE d == Settle(dev, CpuTime(InjectPending(sched, Jump)) - InjectPending(sched, Jump).now)
    <3>1. cpu' = ServicedCpu(cpu, d) /\ dev' = ServicedDevices(cpu, d)
      BY <1>2, <2>2 DEF SkipStopped
    <3> HIDE DEF d
    <3> QED BY <3>1, ServicedFacts DEF RequestInv, NothingWaits
  <2> QED BY <2>1, <2>2
<1> QED
  BY <1>1, <1>2 DEF Next, SliceEnds, PressKey, MoveMouse, BeginLinear, BeginEventDriven, LinearPass, HotPass

\* NothingLeftUnserved: a slice does not end with an interrupt waiting that the CPU
\* would take.
THEOREM MachineServes == Spec => NothingLeftUnserved
<1>1. Clockwise /\ RequestInv /\ [Next]_vars => [SliceEnds => NothingWaits']_vars
  BY ServedAtTheEnd
<1> QED BY <1>1, Timekeeping, PTL DEF Spec, NothingLeftUnserved

--------------------------------------------------------------------------------
(* Nothing before the deadline *)

\* Every timer is drained, but while the control register just written is still to be settled.
DrainedOrDue == Drained(dev.mfp) \/ (pc = "slow" /\ CpuTime(sched) > sched.now)

\* A deadline ahead of the CPU is not later than the next event of the devices.
Armed == pc = "hot" /\ sched.debt < 0 => sched.deadlineAt <= sched.now + CyclesToNextEvent(dev)

\* ArmDeadline arms for no later than it was asked.
LEMMA ArmedDeadline ==
    ASSUME NEW s \in SchedulerType, NEW next \in Int
    PROVE  ArmDeadline(s, next).debt < 0 =>
              ArmDeadline(s, next).deadlineAt <= next /\ ArmDeadline(s, next).now = s.now
<1> DEFINE limit == Least(next, Least(s.sliceEnd, s.now + FallbackSpan))
           delta == IF limit > s.now THEN limit - s.now ELSE 0
<1>1. limit \in Int /\ limit <= next
  BY SchedulerAssumption, AccountTypes DEF Least
<1>2. CASE delta < MinDeadline
  <2>1. ArmDeadline(s, next) = CutAt(s, s.now)
    BY <1>2 DEF ArmDeadline
  <2>2. CutAt(s, s.now).debt = 0
    BY DEF CutAt, SchedulerType
  <2> QED BY <2>1, <2>2
<1>3. CASE ~(delta < MinDeadline)
  <2>1. ArmDeadline(s, next) = [s EXCEPT !.deadlineAt = limit, !.debt = -delta]
    BY <1>3 DEF ArmDeadline
  <2> HIDE DEF limit, delta
  <2>2. ArmDeadline(s, next).deadlineAt = limit /\ ArmDeadline(s, next).now = s.now
    BY <2>1 DEF SchedulerType
  <2> QED BY <1>1, <2>2
<1> QED BY <1>2, <1>3

\* Arming for the next event of the devices as they are left.
LEMMA ArmedStep ==
    ASSUME NEW s \in SchedulerType, InTime(dev'), sched' = ArmDeadline(s, NextEventCycle(s, dev'))
    PROVE  Armed'
<1>1. NextEventCycle(s, dev') \in Int
  BY NextEventIsFuture
<1>2. sched'.debt < 0 => sched'.deadlineAt <= NextEventCycle(s, dev') /\ sched'.now = s.now
  BY <1>1, ArmedDeadline
<1> QED BY <1>2 DEF Armed, NextEventCycle

\* A pending interrupt is not armed ahead of the CPU.
LEMMA HeldStep ==
    ASSUME NEW s \in SchedulerType, sched' = HoldForPendingInterrupt(s)
    PROVE  Armed'
<1>1. sched'.debt = 0
  BY DEF HoldForPendingInterrupt, CutAt, SchedulerType
<1> QED BY <1>1 DEF Armed

\* An instruction that writes to the MFP takes time, so the write is followed by a settle.
LEMMA WriteUses ==
    ASSUME NEW op \in GuestOps, NEW cycles \in InstrCycles, op.kind \in MfpWrites, Executes(cpu)
    PROVE  StepCycles(cpu, op, cycles) \in Nat \ {0}
BY MachineAssumption DEF StepCycles, MfpWrites, Executes

\* Only a write to a device of the MFP leaves something a timer must still be settled for.
LEMMA DrainedInit == Init => DrainedOrDue /\ Armed
<1> SUFFICES ASSUME Init PROVE Drained(dev.mfp) /\ pc = "idle"
  BY DEF DrainedOrDue, Armed
<1>1. dev.mfp \in InitialMfp
  BY DEF Init
<1> QED BY <1>1, MachineAssumption DEF Init

\* One step per action.
LEMMA QuietStep ==
    ASSUME Clockwise, RequestInv, DrainedOrDue, Armed, [Next]_vars
    PROVE  DrainedOrDue' /\ Armed'
<1>0. /\ sched \in SchedulerType /\ CpuTime(sched) - sched.now \in Nat
      /\ InTime(dev) /\ dev \in DeviceType /\ dev.mfp \in MfpType /\ cpu \in CpuType
      /\ sched.now \in Int /\ CpuTime(sched) \in Int
  BY AccountFacts, AccountTypes DEF Clockwise, InTime, DeviceType
<1>1. CASE PressKey \/ MoveMouse
  <2>1. pc = "idle" /\ pc' = "idle" /\ Drained(dev.mfp)
    BY <1>1 DEF PressKey, MoveMouse, DrainedOrDue
  <2>2. Drained(dev'.mfp)
    <3>1. CASE PressKey
      <4>1. dev' = [dev EXCEPT !.mfp = ReceiveKeyboardByte(dev.mfp)]
        BY <3>1 DEF PressKey
      <4>2. dev'.mfp = ReceiveKeyboardByte(dev.mfp)
        BY <1>0, <4>1 DEF DeviceType
      <4> QED BY <1>0, <2>1, <4>2, KeyTyped
    <3>2. CASE MoveMouse
      <4>1. PICK pending \in {dev.scc, TRUE} : dev' = [dev EXCEPT !.scc = pending]
        BY <3>2 DEF MoveMouse
      <4>2. dev'.mfp = dev.mfp
        BY <1>0, <4>1 DEF DeviceType
      <4> QED BY <2>1, <4>2
    <3> QED BY <1>1, <3>1, <3>2
  <2> QED BY <2>1, <2>2 DEF DrainedOrDue, Armed
<1>2. ASSUME NEW cycles \in SliceCycles, BeginLinear(cycles) PROVE DrainedOrDue' /\ Armed'
  BY <1>2 DEF BeginLinear, DrainedOrDue, Armed
<1>3. ASSUME NEW cycles \in SliceCycles, BeginEventDriven(cycles) PROVE DrainedOrDue' /\ Armed'
  <2> DEFINE begun == BeginSlice(sched, cycles)
  <2>1. pc = "idle" /\ dev' = dev /\ sched' = ArmDeadline(begun, NextEventCycle(begun, dev))
    BY <1>3 DEF BeginEventDriven
  <2>2. begun \in SchedulerType
    <3>1. sched \in LoopProofs!SchedulerType /\ cycles \in Int
      BY <1>0, SameTypes, MachineAssumption
    <3>2. LoopProofs!BeginSlice(sched, cycles) \in LoopProofs!SchedulerType
      BY <3>1, LoopAssumptions, LoopProofs!BeginFacts
    <3> QED BY <3>2, SameTypes, SameMoves
  <2> HIDE DEF begun
  <2>3. Armed'
    BY <1>0, <2>1, <2>2, ArmedStep
  <2> QED BY <2>1, <2>3 DEF DrainedOrDue
<1>4. ASSUME NEW op \in GuestOps, NEW cycles \in InstrCycles, LinearPass(op, cycles)
      PROVE  DrainedOrDue' /\ Armed'
  <2> DEFINE c == ServicedCpu(cpu, dev)
             d == ServicedDevices(cpu, dev)
             used == StepCycles(c, op, cycles)
             accessed == IF Executes(c) THEN Accessed(d, op) ELSE d
  <2>1. /\ pc = "linear" /\ pc' \in {"idle", "linear"}
        /\ dev' = IF used = 0 THEN accessed ELSE TickDevices(accessed, used)
    BY <1>4 DEF LinearPass
  <2>2. InTime(d) /\ Drained(d.mfp)
    BY <1>0, <2>1, ServicedInTime DEF DrainedOrDue
  <2>3. used \in {0} \cup InstrCycles \cup {StopStep, ExceptionCycles}
    BY StepUses
  <2>4. used = 0 => ~Executes(c) \/ op.kind = "halt"
    BY MachineAssumption DEF StepCycles, Executes
  <2> HIDE DEF c, d, used
  <2>5. InTime(accessed) /\ (used = 0 => Drained(accessed.mfp))
    BY <2>2, <2>4, AccessedFacts DEF MfpWrites
  <2> HIDE DEF accessed
  <2>6. used \in Nat
    BY <2>3, MachineAssumption
  <2>7. Drained(dev'.mfp)
    BY <2>1, <2>5, <2>6, TickDevicesFacts
  <2> QED BY <2>1, <2>7 DEF DrainedOrDue, Armed
<1>5. ASSUME NEW op \in GuestOps, NEW cycles \in InstrCycles, HotPass(op, cycles)
      PROVE  DrainedOrDue' /\ Armed'
  <2> DEFINE used == StepCycles(cpu, op, cycles)
             s == IF Executes(cpu) THEN AccessedScheduler(sched, op) ELSE sched
             d == IF Executes(cpu) THEN AccessedDevices(sched, dev, op) ELSE dev
             behind == CpuTime(sched) - sched.now
  <2>1. /\ pc = "hot" /\ sched.debt <= 0 /\ Drained(dev.mfp)
        /\ used = 0 => dev' = Settle(d, CpuTime(s) - s.now) /\ pc' = "idle"
        /\ used # 0 => /\ dev' = d /\ sched' = Advance(s, used)
                       /\ pc' = IF Due(Advance(s, used)) THEN "slow" ELSE "hot"
    BY <1>5, AccountFacts DEF HotPass, DrainedOrDue
  <2>2. used \in {0} \cup InstrCycles \cup {StopStep, ExceptionCycles}
    BY StepUses
  <2>3. used \in Nat
    <3> HIDE DEF used
    <3> QED BY <2>2, MachineAssumption
  <2>4. CASE used = 0
    <3>1. ~Executes(cpu) \/ op.kind = "halt"
      BY <2>4, MachineAssumption DEF StepCycles, Executes
    <3>2. s = sched /\ (d = dev \/ d = Accessed(dev, op))
      BY <3>1 DEF AccessedScheduler, AccessedDevices, Settles, MfpAccess, MfpWrites
    <3>3. InTime(d) /\ Drained(d.mfp)
      BY <1>0, <2>1, <3>1, <3>2, AccessedFacts DEF MfpWrites
    <3> HIDE DEF d, s, used
    <3>4. Drained(dev'.mfp)
      BY <1>0, <2>1, <2>4, <3>2, <3>3, SettleFacts
    <3> QED BY <2>1, <2>4, <3>4 DEF DrainedOrDue, Armed
  <2>5. CASE used # 0 /\ Executes(cpu) /\ op.kind \in MfpWrites
    <3>1. s = Wake(Materialized(sched))
      BY <2>5 DEF AccessedScheduler
    <3>2. s \in SchedulerType /\ s.now = CpuTime(s) /\ s.debt = 0
      <4>1. Materialized(sched) \in SchedulerType /\ Materialized(sched).now = CpuTime(sched)
            /\ CpuTime(Materialized(sched)) = CpuTime(sched)
        BY <1>0, MaterializedHere
      <4> QED BY <3>1, <4>1, WakeHere
    <3> HIDE DEF s, used
    <3>3. sched'.debt = used /\ sched'.now = s.now /\ CpuTime(sched') = CpuTime(s) + used
      BY <2>1, <2>3, <2>5, <3>2, AdvanceHere
    <3>4. pc' = "slow" /\ CpuTime(sched') > sched'.now
      BY <2>1, <2>3, <2>5, <3>2, <3>3, AccountTypes DEF Due
    <3> QED BY <3>4 DEF DrainedOrDue, Armed
  <2>6. CASE used # 0 /\ ~(Executes(cpu) /\ op.kind \in MfpWrites)
    <3>1. \/ s = sched /\ (d = dev \/ (d = Accessed(dev, op) /\ op.kind \notin MfpWrites))
          \/ /\ s = Materialized(sched) /\ op.kind \notin MfpWrites
             /\ d = Accessed(Settle(dev, behind), op)
      <4>1. CASE ~Executes(cpu)
        <5>1. s = sched
          BY <4>1
        <5>2. d = dev
          BY <4>1
        <5> HIDE DEF s, d
        <5> QED BY <5>1, <5>2
      <4>2. CASE Executes(cpu) /\ Settles(sched, op)
        BY <2>6, <4>2 DEF AccessedScheduler, AccessedDevices
      <4>3. CASE Executes(cpu) /\ ~Settles(sched, op)
        BY <2>6, <4>3 DEF AccessedScheduler, AccessedDevices
      <4> QED BY <4>1, <4>2, <4>3
    <3> HIDE DEF s, used, d
    <3>2. CASE s = sched /\ (d = dev \/ (d = Accessed(dev, op) /\ op.kind \notin MfpWrites))
      <4>1. InTime(d) /\ d.mfp = dev.mfp /\ CyclesToNextEvent(d) = CyclesToNextEvent(dev)
        BY <1>0, <3>2, AccessedFacts DEF CyclesToNextEvent
      <4>2. sched'.debt = sched.debt + used /\ sched'.now = sched.now
            /\ sched'.deadlineAt = sched.deadlineAt
        BY <1>0, <2>1, <2>3, <2>6, <3>2, AdvanceHere
      <4>3. sched'.debt < 0 => sched.debt < 0
        BY <1>0, <2>3, <4>2, AccountTypes
      <4> QED BY <2>1, <2>6, <4>1, <4>2, <4>3 DEF DrainedOrDue, Armed
    <3>3. CASE /\ s = Materialized(sched) /\ op.kind \notin MfpWrites
               /\ d = Accessed(Settle(dev, behind), op)
      <4> DEFINE settled == Settle(dev, behind)
      <4>1. /\ InTime(settled) /\ Drained(settled.mfp)
            /\ behind < CyclesToNextEvent(dev) => Unmoved(dev, settled, behind)
        BY <1>0, <2>1, SettleFacts
      <4> HIDE DEF settled
      <4>2. /\ InTime(d) /\ d.mfp = settled.mfp
            /\ CyclesToNextEvent(d) = CyclesToNextEvent(settled)
        BY <3>3, <4>1, AccessedFacts DEF CyclesToNextEvent, settled
      <4>3. s \in SchedulerType /\ s.now = CpuTime(sched) /\ s.debt = sched.debt
            /\ s.deadlineAt = sched.deadlineAt
        BY <1>0, <3>3, MaterializedHere
      <4>4. sched'.debt = sched.debt + used /\ sched'.now = CpuTime(sched)
            /\ sched'.deadlineAt = sched.deadlineAt
        BY <2>1, <2>3, <2>6, <4>3, AdvanceHere
      <4>5. Drained(dev'.mfp) /\ dev' = d
        BY <2>1, <2>6, <4>1, <4>2
      <4>6. ASSUME sched'.debt < 0
            PROVE  sched'.deadlineAt <= sched'.now + CyclesToNextEvent(dev')
        <5>1. sched.debt < 0 /\ sched.debt \in Int /\ sched.deadlineAt \in Int
          BY <1>0, <2>3, <4>4, <4>6, AccountTypes
        <5>2. sched.deadlineAt <= sched.now + CyclesToNextEvent(dev)
          BY <2>1, <5>1 DEF Armed
        <5>3. CyclesToNextEvent(dev) \in Int /\ CyclesToNextEvent(settled) \in Int
          BY <1>0, <4>1, NextEventFacts
        <5>4. behind < CyclesToNextEvent(dev)
          BY <1>0, <5>1, <5>2, <5>3 DEF CpuTime
        <5>5. CyclesToNextEvent(settled) >= CyclesToNextEvent(dev) - behind
          BY <4>1, <5>4 DEF Unmoved
        <5> QED BY <1>0, <4>2, <4>4, <4>5, <5>1, <5>2, <5>3, <5>5
      <4> QED BY <4>5, <4>6 DEF DrainedOrDue, Armed
    <3> QED BY <3>1, <3>2, <3>3
  <2> QED BY <2>4, <2>5, <2>6
<1>6. CASE ReachSlow
  <2> DEFINE s == Materialized(sched)
             settled == Settle(dev, CpuTime(sched) - sched.now)
             d == ServicedDevices(cpu, settled)
  <2>1. /\ pc = "slow" /\ dev' = d /\ pc' # "slow"
        /\ \/ sched' = s /\ pc' \in {"idle", "skip"}
           \/ sched' = HoldForPendingInterrupt(s)
           \/ sched' = ArmDeadline(s, NextEventCycle(s, d))
    BY <1>6 DEF ReachSlow
  <2>2. s \in SchedulerType
    BY <1>0, MaterializedHere
  <2>3. InTime(settled) /\ Drained(settled.mfp)
    <3>1. Drained(dev.mfp) \/ CpuTime(sched) - sched.now > 0
      BY <1>0 DEF DrainedOrDue
    <3> QED BY <1>0, <3>1, SettleFacts
  <2> HIDE DEF settled, s
  <2>4. InTime(d) /\ Drained(d.mfp)
    BY <1>0, <2>3, ServicedInTime
  <2> HIDE DEF d
  <2>5. Armed'
    <3>1. CASE sched' = s /\ pc' \in {"idle", "skip"}
      BY <3>1 DEF Armed
    <3>2. CASE sched' = HoldForPendingInterrupt(s)
      BY <2>2, <3>2, HeldStep
    <3>3. CASE sched' = ArmDeadline(s, NextEventCycle(s, d))
      BY <2>1, <2>2, <2>4, <3>3, ArmedStep
    <3> QED BY <2>1, <3>1, <3>2, <3>3
  <2> QED BY <2>1, <2>4, <2>5 DEF DrainedOrDue
<1>7. CASE SkipStopped
  <2>1. pc = "skip" /\ Drained(dev.mfp) /\ sched.now = CpuTime(sched)
    BY <1>7, AccountFacts DEF SkipStopped, DrainedOrDue
  <2>2. CASE JumpTarget <= sched.now
    <3>1. sched' = HoldForPendingInterrupt(sched) /\ dev' = dev
      BY <1>7, <2>2 DEF SkipStopped
    <3>2. Armed'
      BY <1>0, <3>1, HeldStep
    <3> QED BY <2>1, <3>1, <3>2 DEF DrainedOrDue
  <2>3. CASE ~(JumpTarget <= sched.now)
    <3> DEFINE injected == InjectPending(sched, Jump)
               s == Materialized(injected)
               settled == Settle(dev, CpuTime(injected) - injected.now)
               d == ServicedDevices(cpu, settled)
    <3>1. /\ dev' = d
          /\ \/ sched' = ArmDeadline(s, NextEventCycle(s, d))
             \/ sched' = HoldForPendingInterrupt(s)
             \/ sched' = s /\ pc' = "skip"
      BY <1>7, <2>3 DEF SkipStopped
    <3>2. Jump \in Nat
      <4>1. JumpTarget \in Int
        <5>1. NextEventCycle(sched, dev) \in Int /\ sched.sliceEnd \in Int
          BY <1>0, NextEventIsFuture, AccountTypes
        <5> QED BY <5>1 DEF JumpTarget, Least
      <4>2. JumpTarget - sched.now \in Nat /\ JumpTarget - sched.now # 0 /\ StopStep \in Nat /\ StopStep # 0
        BY <1>0, <2>3, <4>1, MachineAssumption
      <4> QED BY <4>2, RoundUpFacts DEF Jump
    <3>3. s \in SchedulerType /\ CpuTime(injected) - injected.now \in Nat
      <4>1. Jump \in Int
        BY <3>2
      <4>2. s \in SchedulerType /\ injected.now = sched.now /\ CpuTime(injected) = sched.now + Jump
        BY <1>0, <2>1, <4>1, JumpHere
      <4>3. CpuTime(injected) - injected.now = Jump
        BY <1>0, <4>1, <4>2
      <4> QED BY <3>2, <4>2, <4>3
    <3>4. InTime(settled) /\ Drained(settled.mfp)
      BY <1>0, <2>1, <3>3, SettleFacts
    <3> HIDE DEF settled, s
    <3>5. InTime(d) /\ Drained(d.mfp)
      BY <1>0, <3>4, ServicedInTime
    <3> HIDE DEF d
    <3>6. Armed'
      <4>1. CASE sched' = s /\ pc' = "skip"
        BY <4>1 DEF Armed
      <4>2. CASE sched' = HoldForPendingInterrupt(s)
        BY <3>3, <4>2, HeldStep
      <4>3. CASE sched' = ArmDeadline(s, NextEventCycle(s, d))
        BY <3>1, <3>3, <3>5, <4>3, ArmedStep
      <4> QED BY <3>1, <4>1, <4>2, <4>3
    <3> QED BY <3>1, <3>5, <3>6 DEF DrainedOrDue
  <2> QED BY <2>2, <2>3
<1>8. CASE UNCHANGED vars
  BY <1>8 DEF vars, DrainedOrDue, Armed, CpuTime
<1> QED BY <1>1, <1>2, <1>3, <1>4, <1>5, <1>6, <1>7, <1>8 DEF Next

\* NothingBeforeDeadline: settling the devices while the CPU runs ahead of them to the
\* deadline raises nothing, so deferring them delays no interrupt.  The unsigned wrap in
\* cyclesUntilNextRaise never counts: whenever a deadline is armed every timer is drained.
THEOREM MachineIsQuiet == Spec => []NothingBeforeDeadline
<1>1. Spec => [](DrainedOrDue /\ Armed)
  <2>1. (Clockwise /\ RequestInv) /\ (DrainedOrDue /\ Armed) /\ [Next]_vars => (DrainedOrDue /\ Armed)'
    BY QuietStep
  <2>2. Init => DrainedOrDue /\ Armed
    BY DrainedInit
  <2> QED BY <2>1, <2>2, Timekeeping, PTL DEF Spec
<1>2. Clockwise /\ DrainedOrDue /\ Armed => NothingBeforeDeadline
  <2> SUFFICES ASSUME Clockwise, DrainedOrDue, Armed, pc = "hot", sched.debt < 0
               PROVE  SettledDevices.mfp.ipr = dev.mfp.ipr /\ SettledDevices.mfp.vdisp = dev.mfp.vdisp
    BY DEF NothingBeforeDeadline
  <2> DEFINE behind == CpuTime(sched) - sched.now
  <2>1. /\ InTime(dev) /\ behind \in Nat /\ Drained(dev.mfp) /\ sched.now \in Int
        /\ sched.deadlineAt \in Int /\ sched.debt \in Int
    BY AccountFacts, AccountTypes DEF Clockwise, DrainedOrDue
  <2>2. sched.deadlineAt <= sched.now + CyclesToNextEvent(dev) /\ CyclesToNextEvent(dev) \in Int
    BY <2>1, NextEventFacts DEF Armed
  <2>3. behind < CyclesToNextEvent(dev)
    BY <2>1, <2>2 DEF CpuTime
  <2>4. Unmoved(dev, Settle(dev, behind), behind)
    BY <2>1, <2>3, SettleFacts
  <2> QED BY <2>4 DEF Unmoved, SettledDevices
<1> QED BY <1>1, <1>2, Timekeeping, PTL

--------------------------------------------------------------------------------
(* What the event-driven loop sees *)

\* The last edge before which the lemmas of the devices hold is a number, later than the
\* next event, and further away from it than any step.
LEMMA EdgeFacts ==
    ASSUME NEW d, InTime(d)
    PROVE  /\ SecondEdge(d.crtc) \in Int /\ SecondEdge(d.crtc) > 0
           /\ CyclesToNextEvent(d) \in Nat
           /\ \A n \in Nat, used \in InstrCycles \cup {StopStep, ExceptionCycles} :
                 n = 0 \/ n < CyclesToNextEvent(d) => n + used < SecondEdge(d.crtc)
<1> DEFINE e == CyclesUntilVBlankEdge(d.crtc)
           L == SecondEdge(d.crtc)
           x == CyclesToNextEvent(d)
<1>1. d.crtc \in CrtcType
  BY DEF InTime, DeviceType
<1>2. e \in 1 .. FrameCycles /\ FrameCycles \in Nat /\ VBlankCycles \in Nat /\ VBlankBegin \in Nat
      /\ VBlankBegin = FrameCycles - VBlankCycles
  BY <1>1, CrtcTickFacts, CrtcAssumption DEF VBlankBegin
<1>3. L = e + (IF d.crtc.inVBlank THEN VBlankBegin ELSE VBlankCycles)
  BY DEF SecondEdge
<1>4. x \in 0 .. FrameCycles /\ x <= e
  BY NextEventFacts DEF Deadline
<1> HIDE DEF e, L, x
<1>5. \A used \in InstrCycles \cup {StopStep, ExceptionCycles} :
         used \in Nat /\ used <= VBlankBegin /\ used <= VBlankCycles
  BY MachineAssumption, LoopAgreementAssumption
<1>6. ASSUME NEW n \in Nat, NEW used \in InstrCycles \cup {StopStep, ExceptionCycles},
             n = 0 \/ n < x
      PROVE  n + used < L
  BY <1>2, <1>3, <1>4, <1>5, <1>6
<1> QED BY <1>2, <1>3, <1>4, <1>6 DEF L, x

\* Settling nothing changes nothing.
LEMMA SettleNothing ==
    ASSUME NEW d, InTime(d) PROVE Settle(d, 0) = d
BY EdgeFacts, SettleIsTick

\* What is owed before the next event makes nothing pending.
LEMMA StillQuiet ==
    ASSUME NEW d, InTime(d), Drained(d.mfp), NEW n \in Nat, n < CyclesToNextEvent(d), ~AnyPending(d)
    PROVE  InTime(Settle(d, n)) /\ Drained(Settle(d, n).mfp) /\ ~AnyPending(Settle(d, n))
<1> DEFINE x == Settle(d, n)
           m == AllLive(d.mfp, n \div 2)
           c == CrtcTick(d.crtc, n)
<1>1. InTime(x) /\ Drained(x.mfp) /\ x.mfp.ipr = d.mfp.ipr
  BY SettleFacts DEF Unmoved
<1>2. x = d \/ x = TickDevices(d, n)
  <2>1. n < SecondEdge(d.crtc)
    <3>1. StopStep \in Nat /\ n + StopStep < SecondEdge(d.crtc) /\ SecondEdge(d.crtc) \in Int
      BY EdgeFacts, MachineAssumption
    <3> QED BY <3>1
  <2> QED BY <2>1, SettleIsTick
<1> HIDE DEF x
<1>3. Kept(d.mfp, x.mfp) /\ x.scc = d.scc /\ x.iosc = d.iosc
  <2>1. CASE x = d
    BY <2>1 DEF Kept
  <2>2. CASE x = TickDevices(d, n)
    <3>1. d.mfp \in MfpType /\ d.crtc \in CrtcType
      BY DEF InTime, DeviceType
    <3>2. m \in MfpType /\ Kept(d.mfp, m)
      <4> DEFINE k == n \div 2
      <4>1. k \in Nat
        OBVIOUS
      <4> HIDE DEF k
      <4>2. AllLive(d.mfp, k) \in MfpType /\ Kept(d.mfp, AllLive(d.mfp, k))
        <5>1. 2 * k \in Nat /\ k = (2 * k) \div 2
          BY <4>1
        <5> QED BY <3>1, <4>1, <5>1, MfpTickLives
      <4> QED BY <4>2 DEF k
    <3>3. c.inVBlank \in BOOLEAN
      BY <3>1, CrtcTickFacts DEF CrtcType
    <3>4. /\ x.mfp = (IF c.inVBlank # d.crtc.inVBlank THEN SetVerticalBlank(m, c.inVBlank) ELSE m)
          /\ x.scc = d.scc /\ x.iosc = d.iosc
      BY <2>2, TickDevicesExact DEF TickDevices
    <3> HIDE DEF m, c
    <3>5. m \in Counting
      BY <3>2, MfpIsCounting
    <3>6. Kept(m, SetVerticalBlank(m, c.inVBlank))
      BY <3>3, <3>5, BlankExact
    <3>7. Kept(d.mfp, x.mfp)
      BY <3>2, <3>4, <3>6, KeptBoth
    <3> QED BY <3>4, <3>7
  <2> QED BY <1>2, <2>1, <2>2
<1>4. AnyPending(x) = AnyPending(d)
  <2>1. MfpHasPending(x.mfp) = MfpHasPending(d.mfp)
    BY <1>1, <1>3 DEF Kept, MfpHasPending, Deliverable, Unblocked
  <2>2. IoScHasPending(x) = IoScHasPending(d)
    BY <1>3 DEF IoScHasPending
  <2>3. x.scc = d.scc
    BY <1>3
  <2> QED BY <2>1, <2>2, <2>3, Zenon DEF AnyPending
<1> QED BY <1>1, <1>4 DEF x

\* With nothing pending there is nothing to deliver.
LEMMA NothingToDeliver ==
    ASSUME NEW c, NEW d, ~AnyPending(d) PROVE ServicedCpu(c, d) = c /\ ServicedDevices(c, d) = d
<1>1. Requesting(d) = {}
  BY DEF AnyPending, Requesting, SourceLevel
<1>2. Acceptable(c, d) = {}
  BY <1>1 DEF Acceptable
<1> QED BY <1>2 DEF ServicedCpu, ServicedDevices

\* And nothing was delivered where the CPU holds no request afterwards.
LEMMA NothingDelivered ==
    ASSUME NEW c \in CpuType, NEW d, ServicedCpu(c, d).irq = 0
    PROVE  ServicedCpu(c, d) = c /\ ServicedDevices(c, d) = d
<1>1. CASE Acceptable(c, d) = {}
  BY <1>1 DEF ServicedCpu, ServicedDevices
<1>2. CASE Acceptable(c, d) # {}
  <2> DEFINE l == SourceLevel[Source(c, d)]
  <2>1. l \in 1 .. 6
    BY <1>2, SourceIsAcceptable DEF IoScLevel, SccLevel, MfpLevel
  <2>2. ServicedCpu(c, d) = IF l > c.irq THEN [c EXCEPT !.irq = l] ELSE c
    BY <1>2 DEF ServicedCpu, RequestInterrupt
  <2> HIDE DEF l
  <2>3. c.irq \in 0 .. 7
    BY CpuFields
  <2>4. [c EXCEPT !.irq = l].irq = l
    BY DEF CpuType
  <2> QED BY <2>1, <2>2, <2>3, <2>4
<1> QED BY <1>1, <1>2

\* Delivering leaves the CPU asleep or awake, running or halted.
LEMMA ServicedKeeps ==
    ASSUME NEW c \in CpuType, NEW d
    PROVE  /\ ServicedCpu(c, d) \in CpuType
           /\ ServicedCpu(c, d).halted = c.halted /\ ServicedCpu(c, d).stopped = c.stopped
<1>1. CASE Acceptable(c, d) = {}
  BY <1>1 DEF ServicedCpu
<1>2. CASE Acceptable(c, d) # {}
  <2> DEFINE l == SourceLevel[Source(c, d)]
  <2>1. l \in 1 .. 6
    BY <1>2, SourceIsAcceptable DEF IoScLevel, SccLevel, MfpLevel
  <2>2. ServicedCpu(c, d) = IF l > c.irq THEN [c EXCEPT !.irq = l] ELSE c
    BY <1>2 DEF ServicedCpu, RequestInterrupt
  <2> HIDE DEF l
  <2>3. [c EXCEPT !.irq = l] \in CpuType /\ [c EXCEPT !.irq = l].halted = c.halted
        /\ [c EXCEPT !.irq = l].stopped = c.stopped
    BY <2>1 DEF CpuType
  <2> QED BY <2>2, <2>3
<1> QED BY <1>1, <1>2

\* An instruction that does not write to the MFP does not mind what is still owed.
LEMMA AccessedSettles ==
    ASSUME NEW d, InTime(d), NEW op \in GuestOps, op.kind \notin MfpWrites,
           NEW n \in Nat, n < SecondEdge(d.crtc)
    PROVE  /\ Accessed(d, op).crtc = d.crtc
           /\ Settle(Accessed(d, op), n) = Accessed(Settle(d, n), op)
<1> DEFINE x == Settle(d, n)
<1>1. InTime(x)
  BY SettleFacts
<1>2. x.scc = d.scc /\ x.iosc = d.iosc
  <2>1. x = d \/ x = TickDevices(d, n)
    BY SettleIsTick
  <2>2. TickDevices(d, n).scc = d.scc /\ TickDevices(d, n).iosc = d.iosc
    BY TickDevicesExact DEF TickDevices
  <2> QED BY <2>1, <2>2
<1> HIDE DEF x
<1>3. d \in DeviceType /\ x \in DeviceType
  BY <1>1 DEF InTime
<1>4. d.scc \in BOOLEAN /\ d.iosc \in [enable : BOOLEAN, line : BOOLEAN]
  BY <1>3 DEF DeviceType
<1>5. ASSUME NEW scc \in BOOLEAN, NEW iosc \in [enable : BOOLEAN, line : BOOLEAN],
             Accessed(d, op) = Silent(d, scc, iosc), Accessed(x, op) = Silent(x, scc, iosc)
      PROVE  Accessed(d, op).crtc = d.crtc /\ Settle(Accessed(d, op), n) = Accessed(x, op)
  BY <1>5, SilentSettles DEF x
<1>6. CASE op.kind = "scc"
  <2>1. op.pending \in BOOLEAN
    BY <1>6, MachineAssumption DEF Instruction
  <2>2. \A y \in DeviceType : Accessed(y, op) = Silent(y, op.pending, y.iosc)
    BY <1>6 DEF Accessed, Silent, DeviceType
  <2> QED BY <1>2, <1>3, <1>4, <1>5, <2>1, <2>2 DEF x
<1>7. CASE op.kind = "iosc"
  <2> DEFINE v == [d.iosc EXCEPT !.enable = op.enable]
  <2>1. v \in [enable : BOOLEAN, line : BOOLEAN]
    BY <1>4, <1>7, MachineAssumption DEF Instruction
  <2>2. \A y \in DeviceType : Accessed(y, op) = Silent(y, y.scc, [y.iosc EXCEPT !.enable = op.enable])
    BY <1>7 DEF Accessed, Silent, DeviceType
  <2> HIDE DEF v
  <2>3. Accessed(d, op) = Silent(d, d.scc, v) /\ Accessed(x, op) = Silent(x, d.scc, v)
    BY <1>2, <1>3, <2>2 DEF v
  <2> QED BY <1>4, <1>5, <2>1, <2>3 DEF x
<1>8. CASE op.kind = "fdc"
  <2> DEFINE v == [d.iosc EXCEPT !.line = op.line]
  <2>1. v \in [enable : BOOLEAN, line : BOOLEAN]
    BY <1>4, <1>8, MachineAssumption DEF Instruction
  <2>2. \A y \in DeviceType : Accessed(y, op) = Silent(y, y.scc, [y.iosc EXCEPT !.line = op.line])
    BY <1>8 DEF Accessed, Silent, DeviceType
  <2> HIDE DEF v
  <2>3. Accessed(d, op) = Silent(d, d.scc, v) /\ Accessed(x, op) = Silent(x, d.scc, v)
    BY <1>2, <1>3, <2>2 DEF v
  <2> QED BY <1>4, <1>5, <2>1, <2>3 DEF x
<1>9. CASE op.kind \notin {"scc", "iosc", "fdc"}
  <2>1. Accessed(d, op) = d /\ Accessed(x, op) = x
    BY <1>9 DEF Accessed, MfpWrites
  <2> QED BY <2>1 DEF x
<1> QED BY <1>6, <1>7, <1>8, <1>9 DEF x

--------------------------------------------------------------------------------
(* The two loops side by side *)

\* The slice stays the slice of its run.
SameSlice(s, x) == x.sliceBegin = s.sliceBegin /\ x.sliceEnd = s.sliceEnd

\* Neither settling nor waking moves the slice.
LEMMA SliceKept ==
    ASSUME NEW s \in SchedulerType
    PROVE  /\ SameSlice(s, Materialized(s)) /\ SameSlice(s, Wake(s))
           /\ \A used \in Nat : SameSlice(s, Advance(s, used))
           /\ \A jump \in Int : SameSlice(s, Materialized(InjectPending(s, jump)))
<1>1. SameSlice(s, Materialized(s))
  BY DEF SameSlice, Materialized, Consume, SyncUnsettled, SchedulerType
<1>2. SameSlice(s, Wake(s))
  BY DEF SameSlice, Wake, CutAt, SyncUnsettled, SchedulerType
<1>3. \A used \in Nat : SameSlice(s, Advance(s, used))
  BY DEF SameSlice, Advance, SchedulerType
<1>4. ASSUME NEW jump \in Int PROVE SameSlice(s, Materialized(InjectPending(s, jump)))
  <2> DEFINE i == InjectPending(s, jump)
  <2>1. s.unsettled + jump \in Int /\ s.debt + jump \in Int
    BY DEF SchedulerType
  <2>2. i = [s EXCEPT !.unsettled = s.unsettled + jump, !.debt = s.debt + jump]
    BY DEF InjectPending
  <2>3. i.sliceBegin = s.sliceBegin /\ i.sliceEnd = s.sliceEnd /\ i \in SchedulerType
    BY <2>1, <2>2 DEF SchedulerType
  <2> HIDE DEF i
  <2>4. SameSlice(i, Materialized(i))
    BY <2>3 DEF SameSlice, Materialized, Consume, SyncUnsettled, SchedulerType
  <2> QED BY <2>3, <2>4 DEF SameSlice, i
<1> QED BY <1>1, <1>2, <1>3, <1>4

\* An armed or held account is level with the CPU where the devices are.
LEMMA ArmedHere ==
    ASSUME NEW s \in SchedulerType, NEW next \in Int, NEW x,
           x \in {ArmDeadline(s, next), HoldForPendingInterrupt(s)}
    PROVE  SameSlice(s, x) /\ x.now = s.now /\ CpuTime(x) = s.now /\ x.debt \in Int
           /\ (x = HoldForPendingInterrupt(s) => x.debt = 0)
<1> DEFINE limit == Least(next, Least(s.sliceEnd, s.now + FallbackSpan))
           delta == IF limit > s.now THEN limit - s.now ELSE 0
<1>0. s.now \in Int
  BY AccountTypes
<1>1. LET h == HoldForPendingInterrupt(s)
      IN  SameSlice(s, h) /\ h.now = s.now /\ CpuTime(h) = s.now /\ h.debt = 0
  BY <1>0 DEF HoldForPendingInterrupt, CutAt, CpuTime, SameSlice, SchedulerType
<1>2. CASE x = ArmDeadline(s, next) /\ ~(delta < MinDeadline)
  <2>1. limit \in Int
    BY SchedulerAssumption, AccountTypes DEF Least
  <2>2. limit > s.now /\ delta = limit - s.now
    BY <1>0, <1>2, <2>1, SchedulerAssumption
  <2>3. x = [s EXCEPT !.deadlineAt = limit, !.debt = -delta]
    BY <1>2 DEF ArmDeadline
  <2> HIDE DEF limit, delta
  <2>4. x.now = s.now /\ x.deadlineAt = limit /\ x.debt = -delta /\ SameSlice(s, x)
    BY <2>3 DEF SameSlice, SchedulerType
  <2>5. CpuTime(x) = s.now /\ x.debt \in Int
    BY <1>0, <2>1, <2>2, <2>4 DEF CpuTime
  <2>6. x # HoldForPendingInterrupt(s)
    BY <1>0, <1>1, <2>1, <2>2, <2>4
  <2> QED BY <2>4, <2>5, <2>6
<1>3. CASE x = ArmDeadline(s, next) /\ delta < MinDeadline
  <2>1. x = HoldForPendingInterrupt(s)
    BY <1>3 DEF ArmDeadline, HoldForPendingInterrupt
  <2> QED BY <1>1, <2>1
<1>4. CASE x = HoldForPendingInterrupt(s)
  BY <1>1, <1>4
<1> QED BY <1>2, <1>3, <1>4

\* The start of a run.
LEMMA BeginHere ==
    ASSUME NEW s \in SchedulerType, NEW cycles \in Nat
    PROVE  LET b == BeginSlice(s, cycles)
           IN  b \in SchedulerType /\ b.now = s.now /\ b.sliceBegin = s.now /\ b.sliceEnd = s.now + cycles
<1> DEFINE b == BeginSlice(s, cycles)
           end == s.now + cycles
<1>1. s.now \in Int /\ end \in Int
  BY AccountTypes
<1>2. b = [s EXCEPT !.sliceBegin = s.now, !.sliceEnd = end]
  BY DEF BeginSlice
<1> HIDE DEF b, end
<1>3. b \in SchedulerType /\ b.now = s.now /\ b.sliceBegin = s.now /\ b.sliceEnd = end
  BY <1>1, <1>2 DEF SchedulerType
<1> QED BY <1>3 DEF b, end

--------------------------------------------------------------------------------
(* The twin *)

\* What a twin is made of.
TwinShape(t) == t = [cpu |-> t.cpu, dev |-> t.dev, spent |-> t.spent, late |-> t.late]

\* A pass of runWith, field by field.
LEMMA TwinPassFacts ==
    ASSUME NEW t, TwinShape(t), NEW op, NEW cycles
    PROVE  LET c == ServicedCpu(t.cpu, t.dev)
               d == ServicedDevices(t.cpu, t.dev)
               used == StepCycles(c, op, cycles)
               accessed == IF Executes(c) THEN Accessed(d, op) ELSE d
               x == TwinPass(t, op, cycles)
           IN  /\ TwinShape(x) /\ x.late = t.late
               /\ t.spent >= wanted => x = t
               /\ ~(t.spent >= wanted) =>
                     /\ x.cpu = SteppedCpu(c, op) /\ x.spent = t.spent + used
                     /\ x.dev = IF used = 0 THEN accessed ELSE TickDevices(accessed, used)
<1> DEFINE c == ServicedCpu(t.cpu, t.dev)
           d == ServicedDevices(t.cpu, t.dev)
           used == StepCycles(c, op, cycles)
           accessed == IF Executes(c) THEN Accessed(d, op) ELSE d
           x == TwinPass(t, op, cycles)
           c1 == SteppedCpu(c, op)
           d1 == IF used = 0 THEN accessed ELSE TickDevices(accessed, used)
           n1 == t.spent + used
           y == [cpu |-> c1, dev |-> d1, spent |-> n1, late |-> t.late]
<1>1. x = IF t.spent >= wanted THEN t ELSE y
  BY DEF TwinPass
<1> HIDE DEF c1, d1, n1, x
<1>2. TwinShape(y) /\ y.late = t.late /\ y.cpu = c1 /\ y.dev = d1 /\ y.spent = n1
  <2>1. y.cpu = c1 /\ y.dev = d1 /\ y.spent = n1 /\ y.late = t.late
    OBVIOUS
  <2> HIDE DEF y
  <2>2. y = [cpu |-> c1, dev |-> d1, spent |-> n1, late |-> t.late]
    BY DEF y
  <2> QED BY <2>1, <2>2 DEF TwinShape
<1> HIDE DEF y
<1> QED BY <1>1, <1>2 DEF x, c1, d1, n1

\* What becomes of late.
LEMMA TwinLate ==
    ASSUME TwinShape(twin), NEW t, ~twin.late => TwinShape(t), NEW late
    PROVE  LET x == Followed(t, late)
           IN  /\ TwinShape(x)
               /\ ~x.late => /\ ~twin.late /\ ~late
                             /\ x.cpu = t.cpu /\ x.dev = t.dev /\ x.spent = t.spent
<1> DEFINE x == [t EXCEPT !.late = late]
           z == [cpu |-> t.cpu, dev |-> t.dev, spent |-> t.spent, late |-> late]
<1>1. CASE twin.late
  BY <1>1 DEF Followed
<1>2. CASE ~twin.late
  <2>1. x = z
    BY <1>2 DEF TwinShape
  <2>2. z.cpu = t.cpu /\ z.dev = t.dev /\ z.spent = t.spent /\ z.late = late
    BY Zenon
  <2> HIDE DEF x
  <2>3. TwinShape(x)
    BY <2>1, <2>2 DEF TwinShape
  <2>4. Followed(t, late) = x
    BY <1>2 DEF Followed, x
  <2> QED BY <1>2, <2>1, <2>2, <2>3, <2>4
<1> QED BY <1>1, <1>2

\* The passes of a sleep are what a list of passes says.
LEMMA SleepUnfolds ==
    ASSUME NEW t, NEW n \in Nat, NEW k \in Nat, k = n \div StopStep, NEW b,
           b = [i \in 0 .. k |-> IF i = 0 THEN t ELSE TwinPass(b[i - 1], Plain, StopStep)]
    PROVE  TwinSleep(t, n) = b[k]
<1> DEFINE B(g) == [i \in 0 .. k |-> IF i = 0 THEN t ELSE TwinPass(g[i - 1], Plain, StopStep)]
           a == CHOOSE g : g = B(g)
<1>1. TwinSleep(t, n) = a[k]
  BY Zenon DEF TwinSleep
<1>2. b = B(b)
  OBVIOUS
<1>3. a = B(a)
  <2> HIDE DEF B
  <2> QED BY <1>2, Zenon
<1> DEFINE V == {i \in 0 .. k : a[i] = b[i]}
<1>4. 0 \in V
  <2>1. a[0] = t
    <3> HIDE DEF a
    <3> QED BY <1>3
  <2>2. b[0] = t
    BY <1>2
  <2> QED BY <2>1, <2>2
<1>5. ASSUME NEW i \in 1 .. k, i - 1 \in V PROVE i \in V
  <2>1. i \in 0 .. k /\ i # 0 /\ a[i - 1] = b[i - 1]
    BY <1>5
  <2>2. a[i] = TwinPass(a[i - 1], Plain, StopStep)
    <3> HIDE DEF a
    <3> QED BY <1>3, <2>1
  <2>3. b[i] = TwinPass(b[i - 1], Plain, StopStep)
    BY <1>2, <2>1
  <2> QED BY <2>1, <2>2, <2>3
<1> HIDE DEF V, a
<1>6. 0 .. k \subseteq V
  BY <1>4, <1>5, InductionUpTo
<1> QED BY <1>1, <1>6 DEF V

\* A twin whose CPU sleeps and whose devices are quiet up to the last pass: each pass is
\* four cycles of a stopped CPU, and they add up to one settle.
LEMMA TwinSleeps ==
    ASSUME NEW t, TwinShape(t), t.cpu \in CpuType, Sleeps(t.cpu), ~t.cpu.halted,
           InTime(t.dev), Drained(t.dev.mfp), ~AnyPending(t.dev), t.spent \in Int,
           NEW k \in Nat, k # 0, NEW target \in Int, (k - 1) * StopStep < target,
           target <= CyclesToNextEvent(t.dev), wanted \in Int, target <= wanted - t.spent
    PROVE  LET x == TwinSleep(t, k * StopStep)
           IN  /\ TwinShape(x) /\ x.late = t.late /\ x.cpu = t.cpu
               /\ x.dev = Settle(t.dev, k * StopStep) /\ x.spent = t.spent + k * StopStep
<1> DEFINE S == StopStep
           c == t.cpu
           d == t.dev
           b == [i \in 0 .. k |-> IF i = 0 THEN t
                    ELSE [cpu |-> c, dev |-> Settle(d, i * S), spent |-> t.spent + i * S, late |-> t.late]]
           n == k * S
<1>1. S \in Nat /\ S # 0 /\ S % 2 = 0 /\ n \in Nat
  <2>1. S \in Nat /\ S # 0 /\ S % 2 = 0
    BY MachineAssumption
  <2> HIDE DEF S
  <2> QED BY <2>1
<1>2. k = n \div S
  <2>1. n <= n /\ n < n + S
    BY <1>1
  <2>2. k * S <= n /\ n < k * S + S
    BY <2>1
  <2> HIDE DEF n, S
  <2> QED BY <1>1, <2>2, DivOnly
<1>a. InTime(d) /\ Drained(d.mfp) /\ ~AnyPending(d) /\ d \in DeviceType
  BY DEF InTime
<1>b. CyclesToNextEvent(d) \in Nat
  BY <1>a, EdgeFacts
<1>c. S \in InstrCycles \cup {StopStep, ExceptionCycles}
  OBVIOUS
<1> HIDE DEF S, n, d
<1>3. \A i \in 0 .. k : /\ b[i].cpu = c /\ b[i].dev = Settle(d, i * S) /\ b[i].spent = t.spent + i * S
                        /\ b[i].late = t.late /\ TwinShape(b[i])
  <2> TAKE i \in 0 .. k
  <2>1. CASE i = 0
    <3>1. b[i] = t /\ i * S = 0
      BY <1>1, <2>1
    <3>2. Settle(d, 0) = d
      BY <1>a, SettleNothing
    <3> QED BY <3>1, <3>2 DEF d
  <2>2. CASE i # 0
    <3> DEFINE x == Settle(d, i * S)
               m == t.spent + i * S
    <3>1. b[i] = [cpu |-> c, dev |-> x, spent |-> m, late |-> t.late]
      BY <2>2
    <3> HIDE DEF b, x, m
    <3>2. b[i].cpu = c /\ b[i].dev = x /\ b[i].spent = m /\ b[i].late = t.late
      BY <3>1
    <3>3. TwinShape(b[i])
      BY ONLY <3>1, <3>2 DEF TwinShape
    <3> QED BY <3>2, <3>3 DEF x, m
  <2> QED BY <2>1, <2>2
<1>4. b[0] = t /\ b = [i \in 0 .. k |-> b[i]]
  OBVIOUS
<1>5. \A i \in 0 .. k : i # 0 => b[i] = [cpu |-> c, dev |-> Settle(d, i * S),
                                        spent |-> t.spent + i * S, late |-> t.late]
  OBVIOUS
<1> HIDE DEF b
<1>6. ASSUME NEW i \in 0 .. k, i # 0 PROVE b[i] = TwinPass(b[i - 1], Plain, S)
  <2> DEFINE j == i - 1
             p == j * S
             y == b[j]
             x == TwinPass(y, Plain, S)
             z == Settle(d, p)
  <2>1. j \in 0 .. k /\ p \in Nat /\ p < target /\ p + S = i * S /\ t.spent + p \in Int
    <3>1. j \in Nat /\ j <= k - 1
      BY <1>6
    <3>2. j * S <= (k - 1) * S /\ j * S \in Nat /\ (k - 1) * S \in Int
      BY <1>1, <3>1
    <3>3. j * S + S = i * S
      BY <1>1
    <3>4. (k - 1) * S < target
      BY DEF S
    <3> HIDE DEF j
    <3> QED BY <3>1, <3>2, <3>3, <3>4
  <2>2. p % 2 = 0
    <3>1. PICK h \in Nat : S = 2 * h
      <4>1. S = 2 * (S \div 2) /\ S \div 2 \in Nat
        BY <1>1
      <4> QED BY <4>1
    <3>2. p = 2 * (j * h) /\ j * h \in Nat
      BY <2>1, <3>1
    <3> HIDE DEF p
    <3> QED BY <3>2
  <2>3. TwinShape(y) /\ y.cpu = c /\ y.dev = z /\ y.spent = t.spent + p /\ y.late = t.late
    BY <1>3, <2>1
  <2> HIDE DEF j, p, y, z
  <2>4. ~(y.spent >= wanted) /\ p < CyclesToNextEvent(d)
    <3>1. target <= CyclesToNextEvent(d)
      BY DEF d
    <3> QED BY <1>b, <2>1, <2>3, <3>1
  <2>5. ~AnyPending(z)
    BY <1>a, <2>1, <2>4, StillQuiet DEF z
  <2>6. ServicedCpu(y.cpu, y.dev) = c /\ ServicedDevices(y.cpu, y.dev) = z
    BY <2>3, <2>5, NothingToDeliver
  <2>7. ~Executes(c) /\ SteppedCpu(c, Plain) = c /\ StepCycles(c, Plain, S) = S
    <3>1. ~TakesInterrupt(c) /\ ~c.halted /\ c.stopped
      BY DEF Sleeps, TakesInterrupt
    <3> QED BY <3>1 DEF Executes, SteppedCpu, StepCycles, S
  <2>8. TickDevices(z, S) = Settle(d, p + S)
    <3>1. p + S < SecondEdge(d.crtc)
      BY <1>a, <1>c, <2>1, <2>4, EdgeFacts
    <3>2. TickDevices(Settle(d, p), S) = Settle(d, p + S)
      BY <1>1, <1>a, <2>1, <2>2, <3>1, SettleThenTick
    <3> QED BY <3>2 DEF z
  <2>9. /\ TwinShape(x) /\ x.late = t.late /\ x.cpu = c /\ x.spent = (t.spent + p) + S
        /\ x.dev = Settle(d, p + S)
    <3>1. /\ TwinShape(x) /\ x.late = y.late /\ x.cpu = c /\ x.spent = y.spent + S
          /\ x.dev = IF S = 0 THEN z ELSE TickDevices(z, S)
      BY <2>3, <2>4, <2>6, <2>7, TwinPassFacts
    <3> HIDE DEF x
    <3> QED BY <1>1, <2>3, <2>8, <3>1
  <2> HIDE DEF x
  <2>10. (t.spent + p) + S = t.spent + i * S
    BY <1>1, <2>1
  <2>11. x = [cpu |-> c, dev |-> Settle(d, i * S), spent |-> t.spent + i * S, late |-> t.late]
    BY <2>1, <2>9, <2>10 DEF TwinShape
  <2>12. b[i] = x
    BY <1>5, <1>6, <2>11
  <2> QED BY <2>12 DEF x, y, j
<1>7. b = [i \in 0 .. k |-> IF i = 0 THEN t ELSE TwinPass(b[i - 1], Plain, S)]
  BY <1>4, <1>6
<1>8. TwinSleep(t, n) = b[k]
  <2>1. k = n \div StopStep
    BY <1>2 DEF S
  <2>2. b = [i \in 0 .. k |-> IF i = 0 THEN t ELSE TwinPass(b[i - 1], Plain, StopStep)]
    BY <1>7 DEF S
  <2>3. n \in Nat
    BY <1>1
  <2> QED BY ONLY <2>1, <2>2, <2>3, k \in Nat, SleepUnfolds
<1>9. k \in 0 .. k
  OBVIOUS
<1> QED BY <1>3, <1>8, <1>9 DEF n, S, d

--------------------------------------------------------------------------------
(* In phase *)

\* The cycles the CPU is ahead of the devices.
Behind == CpuTime(sched) - sched.now

\* What is true of every state, late or not.
Steady ==
    /\ TwinShape(twin) /\ pc # "linear" /\ (cpu.stopped => ~cpu.halted)
    /\ pc \in {"hot", "slow"} => Behind % 2 = 0
    /\ pc = "hot" /\ sched.debt = 0 => Behind = 0

\* The two loops at each place the event-driven one can be.
Phase ==
    /\ pc # "idle" => /\ twin.spent = CpuTime(sched) - sched.sliceBegin
                      /\ wanted = sched.sliceEnd - sched.sliceBegin
    /\ pc = "idle" => twin.spent = sched.now - sched.sliceBegin
    /\ pc = "hot" => IF cpu.halted THEN twin.cpu \in CpuType /\ twin.cpu.halted ELSE TwinAgrees
    /\ pc = "hot" /\ sched.debt < 0 => ~AnyPending(dev)
    /\ pc = "slow" => cpu = twin.cpu /\ SeenDevices = twin.dev
    /\ pc = "skip" => cpu = twin.cpu /\ dev = twin.dev /\ ~AnyPending(dev) /\ Sleeps(cpu)

InPhase == Steady /\ (~twin.late => Phase)

\* In the hot loop no more is owed than the next event is away.
LEMMA BehindFacts ==
    ASSUME Clockwise, Armed, Steady, pc = "hot"
    PROVE  /\ Behind \in Nat /\ Behind % 2 = 0 /\ InTime(dev)
           /\ Behind = 0 \/ Behind < CyclesToNextEvent(dev)
<1>1. /\ Behind \in Nat /\ InTime(dev) /\ sched \in SchedulerType /\ sched.debt <= 0
      /\ sched.now \in Int /\ sched.debt \in Int /\ sched.deadlineAt \in Int
  BY AccountFacts, AccountTypes DEF Clockwise, Behind
<1>2. ASSUME sched.debt < 0 PROVE Behind < CyclesToNextEvent(dev)
  <2>1. CyclesToNextEvent(dev) \in Nat
    BY <1>1, EdgeFacts
  <2>2. sched.deadlineAt <= sched.now + CyclesToNextEvent(dev)
    BY <1>2 DEF Armed
  <2> QED BY <1>1, <1>2, <2>1, <2>2 DEF Behind, CpuTime
<1>3. sched.debt = 0 => Behind = 0
  BY DEF Steady
<1> QED BY <1>1, <1>2, <1>3 DEF Steady

\* Whichever way the bus lets an instruction reach a device, the devices end up where an
\* access after everything was settled, and a tick of the instruction, leave them.
LEMMA HotAccess ==
    ASSUME Clockwise, Armed, Steady, pc = "hot", NEW op \in GuestOps,
           NEW used \in {0} \cup InstrCycles \cup {StopStep, ExceptionCycles}
    PROVE  LET s == IF Executes(cpu) THEN AccessedScheduler(sched, op) ELSE sched
               d == IF Executes(cpu) THEN AccessedDevices(sched, dev, op) ELSE dev
               accessed == IF Executes(cpu) THEN Accessed(SeenDevices, op) ELSE SeenDevices
           IN  /\ s \in SchedulerType /\ CpuTime(s) = CpuTime(sched) /\ SameSlice(sched, s)
               /\ CpuTime(s) - s.now \in {0, Behind} /\ s.debt \in {0, sched.debt} /\ s.now \in Int
               /\ Settle(d, (CpuTime(s) - s.now) + used)
                    = IF used = 0 THEN accessed ELSE TickDevices(accessed, used)
<1> DEFINE s == IF Executes(cpu) THEN AccessedScheduler(sched, op) ELSE sched
           d == IF Executes(cpu) THEN AccessedDevices(sched, dev, op) ELSE dev
           accessed == IF Executes(cpu) THEN Accessed(SeenDevices, op) ELSE SeenDevices
           late == Behind
           ticked == IF used = 0 THEN accessed ELSE TickDevices(accessed, used)
           settles == Executes(cpu) /\ Settles(sched, op)
<1>1. /\ late \in Nat /\ late % 2 = 0 /\ InTime(dev) /\ used \in Nat
      /\ late = 0 \/ late < CyclesToNextEvent(dev)
  BY BehindFacts, MachineAssumption
<1>2. sched \in SchedulerType /\ sched.now \in Int /\ CpuTime(sched) \in Int /\ sched.debt \in Int
  BY AccountFacts, AccountTypes
<1>3. late + used < SecondEdge(dev.crtc) /\ late < SecondEdge(dev.crtc)
  <2>1. SecondEdge(dev.crtc) \in Int /\ StopStep \in Nat /\ late + StopStep < SecondEdge(dev.crtc)
    BY <1>1, EdgeFacts, MachineAssumption
  <2>2. used # 0 => late + used < SecondEdge(dev.crtc)
    BY <1>1, EdgeFacts
  <2> HIDE DEF late
  <2> QED BY <1>1, <2>1, <2>2
<1>4. SeenDevices = Settle(dev, late) /\ InTime(SeenDevices)
  BY <1>1, SettleFacts DEF SeenDevices, Behind
<1>5. CASE settles
  <2>1. d = Accessed(SeenDevices, op) /\ accessed = d
    BY <1>5 DEF AccessedDevices, SeenDevices
  <2>2. Materialized(sched) \in SchedulerType /\ Materialized(sched).now = CpuTime(sched)
        /\ CpuTime(Materialized(sched)) = CpuTime(sched) /\ Materialized(sched).debt = sched.debt
        /\ SameSlice(sched, Materialized(sched))
    BY <1>2, MaterializedHere, SliceKept
  <2>3. s \in {Materialized(sched), Wake(Materialized(sched))}
    BY <1>5 DEF AccessedScheduler
  <2> HIDE DEF s
  <2>4. s \in SchedulerType /\ s.now = CpuTime(sched) /\ CpuTime(s) = CpuTime(sched)
        /\ s.debt \in {0, sched.debt} /\ SameSlice(sched, s)
    <3>1. CASE s = Materialized(sched)
      BY <2>2, <3>1
    <3>2. CASE s = Wake(Materialized(sched))
      BY <2>2, <3>2, WakeHere, SliceKept DEF SameSlice
    <3> QED BY <2>3, <3>1, <3>2
  <2>5. CpuTime(s) - s.now = 0
    BY <1>2, <2>4
  <2>6. InTime(d)
    BY <1>4, <2>1, AccessedFacts
  <2> HIDE DEF d, accessed
  <2>7. Settle(d, used) = IF used = 0 THEN d ELSE TickDevices(d, used)
    <3>1. used < SecondEdge(d.crtc)
      <4>1. used # 0 => 0 + used < SecondEdge(d.crtc)
        BY <2>6, EdgeFacts
      <4> QED BY <1>1, <2>6, <4>1, EdgeFacts
    <3> QED BY <1>1, <2>6, <3>1, SettleIsTick
  <2>8. Settle(d, (CpuTime(s) - s.now) + used) = ticked
    <3>1. (CpuTime(s) - s.now) + used = used
      BY <1>1, <2>5
    <3> QED BY <2>1, <2>7, <3>1
  <2>9. s.now \in Int /\ CpuTime(s) - s.now \in {0, late}
    BY <1>2, <2>4, <2>5
  <2> QED BY <2>4, <2>8, <2>9 DEF s, d, accessed
<1>6. CASE ~settles
  <2>1. s = sched
    <3>1. CASE ~Executes(cpu)
      BY <3>1
    <3>2. CASE Executes(cpu)
      BY <1>6, <3>2 DEF AccessedScheduler, Settles, MfpAccess, MfpWrites
    <3> QED BY <3>1, <3>2
  <2>2. InTime(d) /\ d.crtc = dev.crtc /\ Settle(d, late) = accessed
    <3>1. CASE ~Executes(cpu)
      BY <1>1, <1>4, <3>1
    <3>2. CASE Executes(cpu)
      <4>1. d = Accessed(dev, op) /\ op.kind \notin MfpWrites /\ accessed = Accessed(SeenDevices, op)
        BY <1>6, <3>2 DEF AccessedDevices, Settles, MfpAccess, MfpWrites
      <4> HIDE DEF d, accessed
      <4>2. Accessed(dev, op).crtc = dev.crtc
            /\ Settle(Accessed(dev, op), late) = Accessed(Settle(dev, late), op)
        BY <1>1, <1>3, <4>1, AccessedSettles
      <4> QED BY <1>1, <1>4, <4>1, <4>2, AccessedFacts
    <3> QED BY <3>1, <3>2
  <2> HIDE DEF s, d, accessed, late
  <2>3. Settle(d, late + used) = ticked
    <3>1. CASE used = 0
      <4>1. late + used = late
        BY <1>1, <3>1
      <4> QED BY <2>2, <3>1, <4>1
    <3>2. CASE used # 0
      <4>1. late + used < SecondEdge(d.crtc)
        BY <1>3, <2>2
      <4>2. TickDevices(Settle(d, late), used) = Settle(d, late + used)
        BY <1>1, <2>2, <3>2, <4>1, SettleThenTick
      <4> QED BY <2>2, <3>2, <4>2
    <3> QED BY <3>1, <3>2
  <2>4. CpuTime(s) - s.now = late
    BY <2>1 DEF late, Behind
  <2> QED BY <1>2, <2>1, <2>3, <2>4 DEF s, d, accessed, SameSlice, late
<1> QED BY <1>5, <1>6

\* The loop goes on without looking only while nothing is pending.
LEMMA HotQuiet ==
    ASSUME Clockwise, Armed, DrainedOrDue, Steady, InTime(dev'), Armed', DrainedOrDue',
           NEW op \in GuestOps, NEW cycles \in InstrCycles, HotPass(op, cycles), pc' = "hot",
           sched.debt < 0 => ~AnyPending(dev), ~RaisedQuietly(op)
    PROVE  ~AnyPending(dev') /\ ~AnyPending(SeenDevices')
<1> DEFINE used == StepCycles(cpu, op, cycles)
           s == IF Executes(cpu) THEN AccessedScheduler(sched, op) ELSE sched
           d == IF Executes(cpu) THEN AccessedDevices(sched, dev, op) ELSE dev
<1>1. pc = "hot" /\ used # 0 /\ dev' = d /\ sched' = Advance(s, used) /\ ~Due(sched')
  <2>1. used # 0
    BY DEF HotPass
  <2> QED BY <2>1 DEF HotPass
<1>2. used \in {0} \cup InstrCycles \cup {StopStep, ExceptionCycles}
  BY StepUses
<1>3. /\ s \in SchedulerType /\ s.debt \in {0, sched.debt}
      /\ (Executes(cpu) /\ op.kind \in MfpWrites) => s.debt = 0
  <2>1. s \in SchedulerType /\ s.debt \in {0, sched.debt}
    <3> HIDE DEF used
    <3> QED BY <1>1, <1>2, HotAccess
  <2>2. ASSUME Executes(cpu), op.kind \in MfpWrites PROVE s.debt = 0
    <3>1. s = Wake(Materialized(sched)) /\ sched \in SchedulerType
      BY <2>2, AccountFacts DEF AccessedScheduler
    <3>2. Materialized(sched) \in SchedulerType
      BY <3>1, MaterializedHere
    <3> HIDE DEF s
    <3> QED BY <3>1, <3>2, WakeHere
  <2> QED BY <2>1, <2>2
<1>a. CpuTime(s) - s.now \in Nat
  <2>1. CpuTime(s) - s.now \in {0, Behind} /\ Behind \in Nat
    <3> HIDE DEF used
    <3> QED BY <1>1, <1>2, HotAccess, BehindFacts
  <2> QED BY <2>1
<1>4. used \in Nat
  <2> HIDE DEF used
  <2> QED BY <1>2, MachineAssumption
<1> HIDE DEF used, s
<1>5. sched'.debt = s.debt + used /\ sched'.debt < 0 /\ sched'.debt \in Int /\ s.debt \in Int
  <2>1. sched'.debt = s.debt + used /\ s.debt \in Int
    BY <1>1, <1>3, <1>4, AdvanceHere, AccountTypes
  <2> QED BY <1>1, <1>4, <2>1 DEF Due
<1>6. s.debt # 0 /\ sched.debt < 0 /\ s.debt = sched.debt /\ ~AnyPending(dev)
  BY <1>3, <1>4, <1>5
<1>7. ~AnyPending(dev')
  <2>1. CASE ~MfpAccess(op)
    BY <1>6, <2>1 DEF RaisedQuietly
  <2>2. CASE MfpAccess(op) /\ ~Executes(cpu)
    BY <1>1, <1>6, <2>2
  <2>3. CASE MfpAccess(op) /\ Executes(cpu)
    <3>1. op.kind \in {"mfpRead", "gpip"}
      BY <1>3, <1>6, <2>3 DEF MfpAccess
    <3>2. d \in {dev, Settle(dev, Behind)}
      BY <2>3, <3>1 DEF AccessedDevices, Accessed, Behind
    <3> HIDE DEF d
    <3>3. Drained(dev.mfp)
      BY <1>1 DEF DrainedOrDue
    <3>4. Behind \in Nat /\ InTime(dev) /\ (Behind = 0 \/ Behind < CyclesToNextEvent(dev))
      BY <1>1, BehindFacts
    <3>5. ~AnyPending(Settle(dev, Behind))
      <4>1. CASE Behind = 0
        BY <1>6, <3>4, <4>1, SettleNothing
      <4>2. CASE Behind # 0
        BY <1>6, <3>3, <3>4, <4>2, StillQuiet
      <4> QED BY <4>1, <4>2
    <3> QED BY <1>1, <1>6, <3>2, <3>5
  <2> QED BY <2>1, <2>2, <2>3
<1>8. ~AnyPending(SeenDevices')
  <2>1. Behind' \in Nat /\ Behind' < CyclesToNextEvent(dev') /\ InTime(dev') /\ Drained(dev'.mfp)
    <3>1. /\ sched'.now = s.now /\ sched'.deadlineAt = s.deadlineAt
          /\ CpuTime(sched') = CpuTime(s) + used
      BY <1>1, <1>3, <1>4, AdvanceHere
    <3>2. s.now \in Int /\ s.deadlineAt \in Int /\ CpuTime(s) - s.now \in Nat /\ CpuTime(s) \in Int
      BY <1>3, <1>a, AccountTypes
    <3>3. sched'.deadlineAt <= sched'.now + CyclesToNextEvent(dev') /\ Drained(dev'.mfp)
      BY <1>5 DEF Armed, DrainedOrDue
    <3>4. CyclesToNextEvent(dev') \in Nat
      BY EdgeFacts
    <3>5. CpuTime(sched') = sched'.deadlineAt + sched'.debt
      BY DEF CpuTime
    <3>6. Behind' = CpuTime(sched') - sched'.now
      BY DEF Behind, CpuTime
    <3> QED BY <1>4, <1>5, <3>1, <3>2, <3>3, <3>4, <3>5, <3>6
  <2>2. SeenDevices' = Settle(dev', Behind')
    BY DEF SeenDevices, Behind, CpuTime
  <2> QED BY <1>7, <2>1, <2>2, StillQuiet
<1> QED BY <1>7, <1>8

\* Where nothing is owed, the devices are seen as they stand.
LEMMA SeenAsTheyStand ==
    ASSUME InTime(dev'), CpuTime(sched') = sched'.now, sched'.now \in Int
    PROVE  Behind' = 0 /\ SeenDevices' = dev'
<1>1. Behind' = CpuTime(sched') - sched'.now
  BY DEF Behind, CpuTime
<1>2. SeenDevices' = Settle(dev', CpuTime(sched') - sched'.now)
  BY DEF SeenDevices, CpuTime
<1>3. CpuTime(sched') - sched'.now = 0
  OBVIOUS
<1> QED BY <1>1, <1>2, <1>3, SettleNothing

\* The host's input: between two runs only the count of the last one matters.
LEMMA HostInPhase ==
    ASSUME Clockwise, InPhase, PressKey \/ MoveMouse, twin' = twin
    PROVE  InPhase'
<1>1. pc = "idle" /\ pc' = "idle" /\ sched' = Wake(sched) /\ cpu' = cpu
  BY DEF PressKey, MoveMouse
<1>2. sched'.now = sched.now /\ sched'.sliceBegin = sched.sliceBegin
  BY <1>1, AccountFacts, WakeHere, SliceKept DEF SameSlice
<1>3. Steady'
  BY <1>1 DEF InPhase, Steady, TwinShape
<1>4. Phase => Phase'
  BY <1>1, <1>2 DEF Phase
<1> QED BY <1>3, <1>4 DEF InPhase

\* A run begins with a twin of the machine it begins with.
LEMMA BeginInPhase ==
    ASSUME Clockwise, RequestInv, InPhase, NEW cycles \in SliceCycles, BeginEventDriven(cycles),
           twin' = [cpu |-> cpu, dev |-> dev, spent |-> 0, late |-> AnyPending(dev)]
    PROVE  InPhase'
<1> DEFINE begun == BeginSlice(sched, cycles)
           next == NextEventCycle(begun, dev)
<1>1. /\ dev' = dev /\ cpu' = cpu /\ sched' = ArmDeadline(begun, next) /\ wanted' = cycles
      /\ pc' = IF Sleeps(cpu) THEN "skip" ELSE "hot"
  BY DEF BeginEventDriven
<1>2. sched \in SchedulerType /\ InTime(dev) /\ cpu \in CpuType /\ cycles \in Nat
  BY AccountFacts, MachineAssumption DEF Clockwise
<1>3. /\ begun \in SchedulerType /\ begun.now = sched.now /\ begun.sliceBegin = sched.now
      /\ begun.sliceEnd = sched.now + cycles
  BY <1>2, BeginHere
<1> HIDE DEF begun
<1>4. next \in Int
  BY <1>2, <1>3, NextEventIsFuture
<1> HIDE DEF next
<1>5. SameSlice(begun, sched') /\ sched'.now = begun.now /\ CpuTime(sched') = begun.now
  BY <1>1, <1>3, <1>4, ArmedHere
<1>6. sched.now \in Int /\ sched'.now = sched.now /\ CpuTime(sched') = sched'.now
      /\ sched'.sliceBegin = sched.now /\ sched'.sliceEnd = sched.now + cycles
  BY <1>2, <1>3, <1>5, AccountTypes DEF SameSlice
<1>7. Behind' = 0 /\ SeenDevices' = dev'
  BY <1>1, <1>2, <1>6, SeenAsTheyStand
<1>8. twin'.cpu = cpu /\ twin'.dev = dev /\ twin'.spent = 0 /\ twin'.late = AnyPending(dev)
  BY Zenon
<1>9. TwinShape(twin')
  BY <1>8 DEF TwinShape
<1>10. Steady'
  BY <1>1, <1>7, <1>9 DEF InPhase, Steady, TwinShape
<1>11. ASSUME ~AnyPending(dev) PROVE Phase'
  <2>1. TwinAgrees'
    <3>1. ServicedCpu(twin'.cpu, twin'.dev) = cpu' /\ ServicedDevices(twin'.cpu, twin'.dev) = dev'
      BY <1>1, <1>8, <1>11, NothingToDeliver
    <3> QED BY <1>7, <3>1 DEF TwinAgrees
  <2>2. twin'.spent = CpuTime(sched') - sched'.sliceBegin /\ wanted' = sched'.sliceEnd - sched'.sliceBegin
    BY <1>1, <1>2, <1>6, <1>8
  <2>3. cpu'.halted => twin'.cpu \in CpuType /\ twin'.cpu.halted
    BY <1>1, <1>2, <1>8
  <2> QED BY <1>1, <1>8, <1>11, <2>1, <2>2, <2>3 DEF Phase, CpuTime, AnyPending, Sleeps, MfpHasPending, IoScHasPending
<1> QED BY <1>8, <1>10, <1>11 DEF InPhase

\* A pass of the hot loop is a pass of runWith.
LEMMA HotInPhase ==
    ASSUME Clockwise, RequestInv, Armed, DrainedOrDue, InPhase,
           InTime(dev'), Armed', DrainedOrDue',
           NEW op \in GuestOps, NEW cycles \in InstrCycles, HotPass(op, cycles),
           twin' = Followed(TwinPass(twin, op, cycles), RaisedQuietly(op))
    PROVE  InPhase'
<1> DEFINE used == StepCycles(cpu, op, cycles)
           s == IF Executes(cpu) THEN AccessedScheduler(sched, op) ELSE sched
           d == IF Executes(cpu) THEN AccessedDevices(sched, dev, op) ELSE dev
           accessed == IF Executes(cpu) THEN Accessed(SeenDevices, op) ELSE SeenDevices
           next == SteppedCpu(cpu, op)
           pass == TwinPass(twin, op, cycles)
<1>1. /\ pc = "hot" /\ cpu' = next /\ wanted' = wanted
      /\ used = 0 => dev' = Settle(d, CpuTime(s) - s.now) /\ sched' = Materialized(s) /\ pc' = "idle"
      /\ used # 0 => /\ dev' = d /\ sched' = Advance(s, used)
                     /\ pc' = IF Due(Advance(s, used)) THEN "slow" ELSE "hot"
  BY DEF HotPass
<1>2. used \in {0} \cup InstrCycles \cup {StopStep, ExceptionCycles}
  BY StepUses
<1>3. used \in Nat /\ used % 2 = 0
  <2> HIDE DEF used
  <2> QED BY <1>2, MachineAssumption
<1>4. cpu \in CpuType /\ Waits(cpu) /\ (cpu.stopped => ~cpu.halted) /\ Steady
  BY DEF RequestInv, InPhase, Steady
<1>5. /\ next \in CpuType /\ (used # 0 => ~next.halted)
      /\ (next.stopped => ~next.halted)
  <2>1. next \in CpuType /\ (used # 0 => ~next.halted)
    BY <1>4, SteppedFacts
  <2>2. next.stopped => ~next.halted
    <3>1. CASE TakesInterrupt(cpu) /\ ~cpu.halted
      <4>1. next = [cpu EXCEPT !.mask = cpu.irq, !.irq = 0, !.stopped = FALSE]
        BY <3>1 DEF SteppedCpu, Executes
      <4>2. next.stopped = FALSE
        BY <1>4, <4>1 DEF CpuType
      <4> QED BY <4>2
    <3>2. CASE Executes(cpu) /\ op.kind = "mask"
      <4>1. next = [cpu EXCEPT !.mask = op.level] /\ ~cpu.halted
        BY <3>2 DEF SteppedCpu, Executes
      <4>2. next.halted = cpu.halted
        BY <1>4, <4>1 DEF CpuType
      <4> QED BY <4>1, <4>2
    <3>3. CASE Executes(cpu) /\ op.kind = "stop"
      <4>1. next = [cpu EXCEPT !.mask = op.level, !.stopped = TRUE] /\ ~cpu.halted
        BY <3>3 DEF SteppedCpu, Executes
      <4>2. next.halted = cpu.halted
        BY <1>4, <4>1 DEF CpuType
      <4> QED BY <4>1, <4>2
    <3>4. CASE Executes(cpu) /\ op.kind = "halt"
      <4>1. next = [cpu EXCEPT !.halted = TRUE] /\ ~cpu.stopped
        BY <3>4 DEF SteppedCpu, Executes
      <4>2. next.stopped = cpu.stopped
        BY <1>4, <4>1 DEF CpuType
      <4> QED BY <4>1, <4>2
    <3>5. CASE /\ ~(TakesInterrupt(cpu) /\ ~cpu.halted)
               /\ ~(Executes(cpu) /\ op.kind \in {"mask", "stop", "halt"})
      <4>1. next = cpu
        BY <3>5 DEF SteppedCpu
      <4> QED BY <1>4, <4>1
    <3> QED BY <3>1, <3>2, <3>3, <3>4, <3>5
  <2> QED BY <2>1, <2>2
<1>6. /\ s \in SchedulerType /\ CpuTime(s) = CpuTime(sched) /\ SameSlice(sched, s)
      /\ CpuTime(s) - s.now \in {0, Behind}
      /\ Settle(d, (CpuTime(s) - s.now) + used)
           = IF used = 0 THEN accessed ELSE TickDevices(accessed, used)
  <2> HIDE DEF used
  <2> QED BY <1>1, <1>2, <1>4, HotAccess
<1>7. Behind \in Nat /\ Behind % 2 = 0 /\ CpuTime(sched) \in Int /\ sched \in SchedulerType
  BY <1>1, <1>4, BehindFacts, AccountFacts, AccountTypes
<1>8. s.now \in Int /\ CpuTime(s) \in Int /\ sched.sliceBegin \in Int /\ sched.sliceEnd \in Int
  BY <1>6, <1>7, AccountTypes DEF SchedulerType
<1>9. TwinShape(twin)
  BY <1>4 DEF Steady
<1>10. /\ TwinShape(twin')
       /\ ~twin'.late => /\ ~twin.late /\ ~RaisedQuietly(op)
                         /\ twin'.cpu = pass.cpu /\ twin'.dev = pass.dev /\ twin'.spent = pass.spent
  BY <1>9, TwinPassFacts, TwinLate
<1>11. CASE used = 0
  <2>1. pc' = "idle" /\ sched' = Materialized(s)
    BY <1>1, <1>11
  <2>2. sched'.now = CpuTime(sched) /\ sched'.sliceBegin = sched.sliceBegin
    BY <1>6, <2>1, MaterializedHere, SliceKept DEF SameSlice
  <2>3. Steady'
    BY <1>1, <1>5, <1>10, <2>1 DEF Steady, TwinShape
  <2>4. ASSUME ~twin'.late PROVE twin'.spent = twin.spent
    <3>1. Phase
      BY <1>10, <2>4 DEF InPhase
    <3>2. CASE cpu.halted
      <4>1. twin.cpu \in CpuType /\ twin.cpu.halted
        BY <1>1, <3>1, <3>2 DEF Phase
      <4>2. ServicedCpu(twin.cpu, twin.dev).halted
        BY <4>1, ServicedKeeps
      <4>3. StepCycles(ServicedCpu(twin.cpu, twin.dev), op, cycles) = 0
        BY <4>2 DEF StepCycles
      <4>4. pass.spent = twin.spent \/ pass.spent = twin.spent + 0
        BY <1>9, <4>3, TwinPassFacts
      <4>5. twin.spent \in Int
        BY <1>1, <1>7, <1>8, <3>1 DEF Phase
      <4> QED BY <1>10, <2>4, <4>4, <4>5
    <3>3. CASE ~cpu.halted
      <4>1. cpu = ServicedCpu(twin.cpu, twin.dev)
        BY <1>1, <3>1, <3>3 DEF Phase, TwinAgrees
      <4>2. StepCycles(ServicedCpu(twin.cpu, twin.dev), op, cycles) = 0
        BY <1>11, <4>1
      <4>4. pass.spent = twin.spent \/ pass.spent = twin.spent + 0
        BY <1>9, <4>2, TwinPassFacts
      <4>5. twin.spent \in Int
        BY <1>1, <1>7, <1>8, <3>1 DEF Phase
      <4> QED BY <1>10, <2>4, <4>4, <4>5
    <3> QED BY <3>2, <3>3
  <2>5. ASSUME ~twin'.late PROVE Phase'
    <3>1. Phase
      BY <1>10, <2>5 DEF InPhase
    <3>2. twin'.spent = sched'.now - sched'.sliceBegin
      BY <1>1, <2>2, <2>4, <2>5, <3>1 DEF Phase
    <3> QED BY <2>1, <3>2 DEF Phase
  <2> QED BY <2>3, <2>5 DEF InPhase
<1>12. CASE used # 0
  <2>1. dev' = d /\ sched' = Advance(s, used) /\ pc' = IF Due(sched') THEN "slow" ELSE "hot"
    BY <1>1, <1>12
  <2> HIDE DEF used, d, s, accessed, next, pass
  <2>2. /\ sched'.now = s.now /\ sched'.debt = s.debt + used /\ CpuTime(sched') = CpuTime(sched) + used
        /\ sched'.sliceBegin = sched.sliceBegin /\ sched'.sliceEnd = sched.sliceEnd
    BY <1>3, <1>6, <2>1, AdvanceHere, SliceKept DEF SameSlice
  <2>3. Behind' = (CpuTime(s) - s.now) + used
    <3>1. Behind' = CpuTime(sched') - sched'.now
      BY DEF Behind, CpuTime
    <3> QED BY <1>3, <1>6, <1>8, <2>2, <3>1
  <2>4. Behind' % 2 = 0
    BY <1>3, <1>6, <1>7, <2>3
  <2>5. Steady'
    <3>1. pc' = "hot" => sched'.debt # 0
      BY <2>1 DEF Due
    <3> QED BY <1>1, <1>5, <1>10, <2>1, <2>4, <3>1 DEF Steady, TwinShape
  <2>6. ASSUME ~twin'.late PROVE Phase'
    <3>1. Phase /\ ~RaisedQuietly(op)
      BY <1>10, <2>6 DEF InPhase
    <3>2. ~cpu.halted
      BY <1>12 DEF used, StepCycles
    <3>3. cpu = ServicedCpu(twin.cpu, twin.dev) /\ SeenDevices = ServicedDevices(twin.cpu, twin.dev)
      BY <1>1, <3>1, <3>2 DEF Phase, TwinAgrees
    <3>4. ~(twin.spent >= wanted) /\ twin.spent \in Int
          /\ twin.spent = CpuTime(sched) - sched.sliceBegin /\ wanted = sched.sliceEnd - sched.sliceBegin
      <4>1. CpuTime(sched) < sched.sliceEnd
        BY <1>1, AccountFacts
      <4>2. twin.spent = CpuTime(sched) - sched.sliceBegin /\ wanted = sched.sliceEnd - sched.sliceBegin
        BY <1>1, <3>1 DEF Phase
      <4> QED BY <1>7, <1>8, <4>1, <4>2
    <3>5. /\ twin'.cpu = next /\ twin'.spent = twin.spent + used
          /\ twin'.dev = IF used = 0 THEN accessed ELSE TickDevices(accessed, used)
      BY <1>9, <1>10, <2>6, <3>3, <3>4, TwinPassFacts DEF pass, next, used, accessed
    <3>6. SeenDevices' = twin'.dev
      <4>1. SeenDevices' = Settle(dev', Behind')
        BY DEF SeenDevices, Behind, CpuTime
      <4> QED BY <1>6, <2>1, <2>3, <3>5, <4>1
    <3>7. twin'.spent = CpuTime(sched') - sched'.sliceBegin
      BY <1>3, <1>7, <1>8, <2>2, <3>4, <3>5
    <3>8. wanted' = sched'.sliceEnd - sched'.sliceBegin
      BY <1>1, <2>2, <3>4
    <3>9. CASE pc' = "slow"
      BY <1>1, <3>5, <3>6, <3>7, <3>8, <3>9 DEF Phase, CpuTime
    <3>10. CASE pc' = "hot"
      <4>1. sched.debt < 0 => ~AnyPending(dev)
        BY <1>1, <3>1 DEF Phase
      <4>2. ~AnyPending(dev') /\ ~AnyPending(SeenDevices')
        BY <1>4, <3>1, <3>10, <4>1, HotQuiet
      <4>3. TwinAgrees'
        <5>1. ServicedCpu(twin'.cpu, twin'.dev) = twin'.cpu /\ ServicedDevices(twin'.cpu, twin'.dev) = twin'.dev
          BY <3>6, <4>2, NothingToDeliver
        <5> QED BY <1>1, <3>5, <3>6, <5>1 DEF TwinAgrees
      <4>4. ~AnyPending(dev)'
        BY <4>2 DEF AnyPending, MfpHasPending, IoScHasPending, Deliverable, Unblocked
      <4>5. ~cpu'.halted
        BY <1>1, <1>5, <1>12
      <4> QED BY <3>7, <3>8, <3>10, <4>3, <4>4, <4>5 DEF Phase, CpuTime
    <3> QED BY <2>1, <3>9, <3>10
  <2> QED BY <2>5, <2>6 DEF InPhase
<1> QED BY <1>11, <1>12

\* The loop looks where runWith looks before every instruction.
LEMMA SlowInPhase ==
    ASSUME Clockwise, RequestInv, InPhase, InTime(dev'), ReachSlow, twin' = twin
    PROVE  InPhase'
<1> DEFINE s == Materialized(sched)
           settled == Settle(dev, CpuTime(sched) - sched.now)
           c == ServicedCpu(cpu, settled)
           d == ServicedDevices(cpu, settled)
           next == NextEventCycle(s, d)
<1>1. /\ pc = "slow" /\ cpu' = c /\ dev' = d /\ wanted' = wanted
      /\ \/ sched' = s /\ pc' = "idle"
         \/ sched' = HoldForPendingInterrupt(s) /\ pc' = "hot"
         \/ sched' = s /\ pc' = "skip" /\ ~AnyPending(d) /\ Sleeps(c)
         \/ sched' = ArmDeadline(s, next) /\ pc' = "hot" /\ ~AnyPending(d)
  BY DEF ReachSlow
<1>2. sched \in SchedulerType /\ cpu \in CpuType /\ CpuTime(sched) \in Int
      /\ CpuTime(sched) - sched.now \in Nat /\ InTime(dev)
  BY AccountFacts, AccountTypes DEF Clockwise
<1>3. /\ s \in SchedulerType /\ s.now = CpuTime(sched) /\ CpuTime(s) = CpuTime(sched)
      /\ s.sliceBegin = sched.sliceBegin /\ s.sliceEnd = sched.sliceEnd
  BY <1>2, MaterializedHere, SliceKept DEF SameSlice
<1>4. settled = SeenDevices
  BY DEF SeenDevices
<1>5. c \in CpuType /\ c.halted = cpu.halted /\ c.stopped = cpu.stopped
  <2> HIDE DEF settled
  <2> QED BY <1>2, ServicedKeeps
<1>6. InTime(d)
  BY <1>1
<1> HIDE DEF s, settled, c, d
<1>7. next \in Int
  BY <1>3, <1>6, NextEventIsFuture
<1> HIDE DEF next
<1>8. sched'.now = CpuTime(sched) /\ CpuTime(sched') = CpuTime(sched)
      /\ sched'.sliceBegin = sched.sliceBegin /\ sched'.sliceEnd = sched.sliceEnd
  <2>1. CASE sched' = s
    BY <1>3, <2>1
  <2>2. CASE sched' \in {ArmDeadline(s, next), HoldForPendingInterrupt(s)}
    <3>1. SameSlice(s, sched') /\ sched'.now = s.now /\ CpuTime(sched') = s.now
      BY <1>3, <1>7, <2>2, ArmedHere
    <3> QED BY <1>3, <3>1 DEF SameSlice
  <2> QED BY <1>1, <2>1, <2>2
<1>9. Behind' = 0 /\ SeenDevices' = dev'
  BY <1>2, <1>8, SeenAsTheyStand
<1>10. Steady'
  BY <1>1, <1>5, <1>9 DEF InPhase, Steady, TwinShape
<1>11. ASSUME Phase PROVE Phase'
  <2>1. /\ cpu = twin.cpu /\ settled = twin.dev /\ twin.spent = CpuTime(sched) - sched.sliceBegin
        /\ wanted = sched.sliceEnd - sched.sliceBegin
    BY <1>1, <1>4, <1>11 DEF Phase
  <2>2. c = ServicedCpu(twin.cpu, twin.dev) /\ d = ServicedDevices(twin.cpu, twin.dev)
    BY <2>1 DEF c, d
  <2>3. twin'.spent = CpuTime(sched') - sched'.sliceBegin /\ twin'.spent = sched'.now - sched'.sliceBegin
        /\ wanted' = sched'.sliceEnd - sched'.sliceBegin
    BY <1>1, <1>8, <2>1
  <2>4. CASE pc' = "idle"
    BY <2>3, <2>4 DEF Phase
  <2>5. CASE pc' = "hot"
    <3>1. TwinAgrees'
      BY <1>1, <1>9, <2>2 DEF TwinAgrees
    <3>2. cpu'.halted => twin'.cpu \in CpuType /\ twin'.cpu.halted
      BY <1>1, <1>2, <1>5, <2>1
    <3>3. sched'.debt < 0 => ~AnyPending(dev')
      <4>1. CASE sched' = HoldForPendingInterrupt(s)
        BY <1>3, <1>7, <4>1, ArmedHere
      <4>2. CASE ~AnyPending(d)
        BY <1>1, <4>2
      <4> QED BY <1>1, <2>5, <4>1, <4>2
    <3>4. AnyPending(dev)' = AnyPending(dev')
      BY DEF AnyPending, MfpHasPending, IoScHasPending, Deliverable, Unblocked
    <3> QED BY <2>3, <2>5, <3>1, <3>2, <3>3, <3>4 DEF Phase, CpuTime
  <2>6. CASE pc' = "skip"
    <3>1. ~AnyPending(d) /\ Sleeps(c)
      BY <1>1, <2>6
    <3>2. c = cpu /\ d = settled
      BY <1>2, <3>1, NothingDelivered DEF Sleeps, c, d
    <3>3. cpu' = twin'.cpu /\ dev' = twin'.dev /\ ~AnyPending(dev') /\ Sleeps(cpu')
      BY <1>1, <2>1, <3>1, <3>2
    <3>4. AnyPending(dev)' = AnyPending(dev') /\ Sleeps(cpu)' = Sleeps(cpu')
      BY DEF AnyPending, MfpHasPending, IoScHasPending, Deliverable, Unblocked, Sleeps
    <3> QED BY <2>3, <2>6, <3>3, <3>4 DEF Phase, CpuTime
  <2> QED BY <1>1, <2>4, <2>5, <2>6
<1> QED BY <1>10, <1>11 DEF InPhase

\* A jump of skipStopped, with nothing left to jump over: it holds.
LEMMA HeldInPhase ==
    ASSUME Clockwise, RequestInv, InPhase, InTime(dev'), SkipStopped, JumpTarget <= sched.now,
           twin' = twin
    PROVE  InPhase'
<1>1. /\ pc = "skip" /\ sched' = HoldForPendingInterrupt(sched) /\ pc' = LeaveSkip(sched)
      /\ cpu' = cpu /\ dev' = dev /\ wanted' = wanted
  BY DEF SkipStopped
<1>2. sched \in SchedulerType /\ sched.now = CpuTime(sched) /\ CpuTime(sched) < sched.sliceEnd
      /\ sched.now \in Int /\ sched.sliceEnd \in Int
  BY <1>1, AccountFacts, AccountTypes
<1>3. pc' = "hot"
  BY <1>1, <1>2 DEF LeaveSkip, ReachedSliceEnd
<1>4. SameSlice(sched, sched') /\ sched'.now = sched.now /\ CpuTime(sched') = sched.now /\ sched'.debt = 0
  BY <1>1, <1>2, ArmedHere
<1>5. Behind' = 0 /\ SeenDevices' = dev'
  BY <1>2, <1>4, SeenAsTheyStand
<1>6. Steady'
  BY <1>1, <1>3, <1>5 DEF InPhase, Steady, TwinShape
<1>7. ASSUME Phase PROVE Phase'
  <2>1. /\ cpu = twin.cpu /\ dev = twin.dev /\ ~AnyPending(dev) /\ Sleeps(cpu)
        /\ twin.spent = CpuTime(sched) - sched.sliceBegin /\ wanted = sched.sliceEnd - sched.sliceBegin
    BY <1>1, <1>7 DEF Phase
  <2>2. ServicedCpu(twin.cpu, twin.dev) = cpu' /\ ServicedDevices(twin.cpu, twin.dev) = dev'
    BY <1>1, <2>1, NothingToDeliver
  <2>3. TwinAgrees'
    BY <1>5, <2>2 DEF TwinAgrees
  <2>4. ~cpu'.halted
    BY <1>1, <2>1 DEF InPhase, Steady, Sleeps
  <2>5. twin'.spent = CpuTime(sched') - sched'.sliceBegin /\ wanted' = sched'.sliceEnd - sched'.sliceBegin
    BY <1>1, <1>2, <1>4, <2>1 DEF SameSlice
  <2> QED BY <1>3, <1>4, <2>3, <2>4, <2>5 DEF Phase, CpuTime
<1> QED BY <1>6, <1>7 DEF InPhase

\* A jump of skipStopped is as many passes of runWith over a stopped CPU.
LEMMA SkipInPhase ==
    ASSUME Clockwise, RequestInv, DrainedOrDue, InPhase, InTime(dev'), SkipStopped,
           ~(JumpTarget <= sched.now),
           twin' = Followed(TwinSleep(twin, Jump), ArmedOverPending)
    PROVE  InPhase'
<1> DEFINE injected == InjectPending(sched, Jump)
           s == Materialized(injected)
           settled == Settle(dev, CpuTime(injected) - injected.now)
           c == ServicedCpu(cpu, settled)
           d == ServicedDevices(cpu, settled)
           next == NextEventCycle(s, d)
           slept == TwinSleep(twin, Jump)
<1>1. /\ pc = "skip" /\ cpu' = c /\ dev' = d /\ wanted' = wanted
      /\ \/ sched' = ArmDeadline(s, next) /\ pc' = LeaveSkip(s)
         \/ sched' = HoldForPendingInterrupt(s) /\ pc' = "hot"
         \/ sched' = s /\ pc' = "skip" /\ c.irq = 0 /\ ~AnyPending(d)
  BY DEF SkipStopped
<1>2. /\ sched \in SchedulerType /\ sched.now = CpuTime(sched) /\ CpuTime(sched) < sched.sliceEnd
      /\ sched.now \in Int /\ sched.sliceEnd \in Int /\ sched.sliceBegin \in Int
      /\ cpu \in CpuType /\ InTime(dev) /\ Drained(dev.mfp)
  BY <1>1, AccountFacts, AccountTypes DEF Clockwise, SchedulerType, DrainedOrDue
<1>3. JumpTarget \in Int /\ JumpTarget <= sched.now + CyclesToNextEvent(dev) /\ JumpTarget <= sched.sliceEnd
  <2>1. CyclesToNextEvent(dev) \in Nat
    BY <1>2, EdgeFacts
  <2> QED BY <1>2, <2>1 DEF JumpTarget, Least, NextEventCycle
<1> DEFINE target == JumpTarget - sched.now
           S == StopStep
           k == (target + S - 1) \div S
<1>4. target \in Nat /\ target # 0 /\ S \in Nat /\ S # 0 /\ S % 2 = 0
  BY <1>2, <1>3, MachineAssumption
<1>5. k \in Nat /\ k # 0 /\ Jump = k * S /\ (k - 1) * S < target /\ Jump \in Nat
  <2>1. Jump = k * S
    BY DEF Jump, RoundUp
  <2> HIDE DEF target, S
  <2>2. k \in Nat
    <3> DEFINE m == target + S - 1
    <3>1. m \in Nat
      BY <1>4
    <3> HIDE DEF m
    <3>2. m \div S \in Nat
      BY <1>4, <3>1, DivBound
    <3> QED BY <3>2 DEF m
  <2>3. k * S >= target /\ k * S < target + S /\ k * S \in Nat
    <3>1. RoundUp(target, S) >= target /\ RoundUp(target, S) < target + S /\ RoundUp(target, S) \in Nat
      BY <1>4, RoundUpFacts
    <3> QED BY <3>1 DEF RoundUp
  <2> HIDE DEF k
  <2>4. k # 0
    <3>1. k = 0 => k * S = 0
      BY <1>4
    <3> QED BY <1>4, <2>3, <3>1
  <2>5. (k - 1) * S = k * S - S
    BY <1>4, <2>2
  <2> QED BY <1>4, <2>1, <2>2, <2>3, <2>4, <2>5
<1>6. s \in SchedulerType /\ s.now = sched.now + Jump /\ s.sliceEnd = sched.sliceEnd
      /\ s.sliceBegin = sched.sliceBegin /\ CpuTime(injected) - injected.now = Jump
      /\ CpuTime(s) = s.now
  <2>1. Jump \in Int
    BY <1>5
  <2> HIDE DEF k
  <2>2. /\ s \in SchedulerType /\ s.now = sched.now + Jump /\ s.sliceEnd = sched.sliceEnd
        /\ injected.now = sched.now /\ CpuTime(injected) = sched.now + Jump
    BY <1>2, <2>1, JumpHere
  <2>3. s.sliceBegin = sched.sliceBegin
    BY <1>2, <2>1, SliceKept DEF SameSlice
  <2>4. CpuTime(s) = s.now
    <3>1. sched.debt \in Int /\ sched.unsettled \in Int /\ sched.deadlineAt \in Int
      BY <1>2 DEF SchedulerType
    <3>2. injected = [sched EXCEPT !.unsettled = sched.unsettled + Jump, !.debt = sched.debt + Jump]
      BY DEF InjectPending
    <3>3. injected \in SchedulerType
      <4>1. sched.unsettled + Jump \in Int /\ sched.debt + Jump \in Int
        BY <2>1, <3>1
      <4> HIDE DEF injected
      <4> QED BY <1>2, <3>2, <4>1 DEF SchedulerType
    <3> HIDE DEF injected
    <3>4. s.now = CpuTime(injected) /\ CpuTime(s) = CpuTime(injected)
      BY <3>3, MaterializedHere
    <3> QED BY <3>4
  <2> QED BY <1>2, <2>1, <2>2, <2>3, <2>4
<1>7. settled = Settle(dev, Jump)
  BY <1>6
<1> HIDE DEF s, settled
<1>8. c \in CpuType /\ c.halted = cpu.halted /\ c.stopped = cpu.stopped
  BY <1>2, ServicedKeeps
<1>9. InTime(d)
  BY <1>1
<1> HIDE DEF c, d
<1>10. next \in Int
  BY <1>6, <1>9, NextEventIsFuture
<1> HIDE DEF next
<1>11. /\ sched'.now = s.now /\ CpuTime(sched') = s.now /\ s.now \in Int
       /\ sched'.sliceBegin = sched.sliceBegin /\ sched'.sliceEnd = sched.sliceEnd
  <2>1. CASE sched' = s
    BY <1>2, <1>5, <1>6, <2>1
  <2>2. CASE sched' \in {ArmDeadline(s, next), HoldForPendingInterrupt(s)}
    <3>1. SameSlice(s, sched') /\ sched'.now = s.now /\ CpuTime(sched') = s.now
      BY <1>6, <1>10, <2>2, ArmedHere
    <3> QED BY <1>2, <1>5, <1>6, <3>1 DEF SameSlice
  <2> QED BY <1>1, <2>1, <2>2
<1>12. Behind' = 0 /\ SeenDevices' = dev'
  BY <1>11, SeenAsTheyStand
<1>13. TwinShape(twin)
  BY DEF InPhase, Steady
<1> HIDE DEF slept
<1>14. Phase => /\ TwinShape(slept) /\ slept.late = twin.late /\ slept.cpu = cpu /\ slept.dev = settled
                /\ slept.spent = s.now - sched.sliceBegin
  <2> SUFFICES ASSUME Phase
               PROVE  /\ TwinShape(slept) /\ slept.late = twin.late /\ slept.cpu = cpu
                      /\ slept.dev = settled /\ slept.spent = s.now - sched.sliceBegin
    OBVIOUS
  <2>1. /\ cpu = twin.cpu /\ dev = twin.dev /\ ~AnyPending(dev) /\ Sleeps(cpu)
        /\ twin.spent = CpuTime(sched) - sched.sliceBegin /\ wanted = sched.sliceEnd - sched.sliceBegin
    BY <1>1 DEF Phase
  <2>2. ~twin.cpu.halted
    BY <2>1 DEF InPhase, Steady, Sleeps
  <2>3. twin.spent \in Int /\ wanted \in Int /\ target <= wanted - twin.spent
        /\ target <= CyclesToNextEvent(twin.dev) /\ target \in Int
    <3>1. CyclesToNextEvent(dev) \in Nat
      BY <1>2, EdgeFacts
    <3> QED BY <1>2, <1>3, <2>1, <3>1
  <2> HIDE DEF target, k
  <2>4. LET x == TwinSleep(twin, k * StopStep)
        IN  /\ TwinShape(x) /\ x.late = twin.late /\ x.cpu = twin.cpu
            /\ x.dev = Settle(twin.dev, k * StopStep) /\ x.spent = twin.spent + k * StopStep
    BY <1>2, <1>5, <1>13, <2>1, <2>2, <2>3, TwinSleeps
  <2>5. slept = TwinSleep(twin, k * StopStep) /\ Jump = k * StopStep
    BY <1>5 DEF slept
  <2>6. twin.spent + Jump = s.now - sched.sliceBegin
    BY <1>2, <1>5, <1>6, <2>1
  <2> QED BY <1>7, <2>1, <2>4, <2>5, <2>6
<1>15. TwinShape(twin') /\ (~twin'.late => ~twin.late /\ ~ArmedOverPending)
  BY <1>13, <1>14, TwinLate DEF InPhase, slept
<1>16. ~twin'.late => twin'.cpu = slept.cpu /\ twin'.dev = slept.dev /\ twin'.spent = slept.spent
  BY <1>13, <1>14, TwinLate DEF InPhase, slept
<1>17. Steady'
  BY <1>1, <1>8, <1>12, <1>15 DEF InPhase, Steady, TwinShape, LeaveSkip
<1>18. ASSUME ~twin'.late PROVE Phase'
  <2>1. Phase /\ ~ArmedOverPending
    BY <1>15, <1>18 DEF InPhase
  <2>2. twin'.cpu = cpu /\ twin'.dev = settled /\ twin'.spent = s.now - sched.sliceBegin
    BY <1>14, <1>16, <1>18, <2>1
  <2>3. Sleeps(cpu) /\ wanted = sched.sliceEnd - sched.sliceBegin
    BY <1>1, <2>1 DEF Phase
  <2>4. twin'.spent = CpuTime(sched') - sched'.sliceBegin /\ twin'.spent = sched'.now - sched'.sliceBegin
        /\ wanted' = sched'.sliceEnd - sched'.sliceBegin
    BY <1>1, <1>11, <2>2, <2>3
  <2>5. CASE pc' = "idle"
    BY <2>4, <2>5 DEF Phase
  <2>6. CASE pc' = "hot"
    <3>1. TwinAgrees'
      <4>1. cpu' = ServicedCpu(twin'.cpu, twin'.dev) /\ dev' = ServicedDevices(twin'.cpu, twin'.dev)
        BY <1>1, <2>2 DEF c, d
      <4> QED BY <1>12, <4>1 DEF TwinAgrees
    <3>2. ~cpu'.halted
      BY <1>1, <1>8, <2>3 DEF InPhase, Steady, Sleeps
    <3>3. sched'.debt < 0 => ~AnyPending(dev')
      BY <2>1 DEF ArmedOverPending
    <3>4. AnyPending(dev)' = AnyPending(dev')
      BY DEF AnyPending, MfpHasPending, IoScHasPending, Deliverable, Unblocked
    <3> QED BY <2>4, <2>6, <3>1, <3>2, <3>3, <3>4 DEF Phase, CpuTime
  <2>7. CASE pc' = "skip"
    <3>1. c.irq = 0 /\ ~AnyPending(d)
      BY <1>1, <2>7 DEF LeaveSkip
    <3>2. c = cpu /\ d = settled
      BY <1>2, <3>1, NothingDelivered DEF c, d
    <3>3. cpu' = twin'.cpu /\ dev' = twin'.dev /\ ~AnyPending(dev') /\ Sleeps(cpu')
      BY <1>1, <2>2, <2>3, <3>1, <3>2
    <3>4. AnyPending(dev)' = AnyPending(dev') /\ Sleeps(cpu)' = Sleeps(cpu')
      BY DEF AnyPending, MfpHasPending, IoScHasPending, Deliverable, Unblocked, Sleeps
    <3> QED BY <2>4, <2>7, <3>3, <3>4 DEF Phase, CpuTime
  <2>8. pc' \in {"idle", "hot", "skip"}
    BY <1>1 DEF LeaveSkip
  <2> QED BY <2>5, <2>6, <2>7, <2>8
<1> QED BY <1>17, <1>18 DEF InPhase

\* Every step keeps the two loops in phase.
LEMMA InPhaseStep ==
    ASSUME Clockwise, RequestInv, DrainedOrDue, Armed, InPhase, [AgreementNext]_agreementVars
    PROVE  InPhase'
<1>1. CASE UNCHANGED agreementVars
  <2>1. /\ cpu' = cpu /\ dev' = dev /\ sched' = sched /\ pc' = pc /\ wanted' = wanted /\ twin' = twin
    BY <1>1 DEF agreementVars, vars
  <2> QED BY <2>1 DEF InPhase, Steady, Phase, TwinShape, Behind, TwinAgrees, SeenDevices, CpuTime,
                      AnyPending, MfpHasPending, IoScHasPending, Deliverable, Unblocked, Sleeps
<1>2. CASE AgreementNext
  <2>1. [Next]_vars
    BY <1>2 DEF AgreementNext, Next
  <2>2. InTime(dev') /\ Armed' /\ DrainedOrDue'
    <3>1. Clockwise'
      BY <2>1, Simulation
    <3>2. InTime(dev)' = InTime(dev')
      BY DEF InTime, InStep
    <3> QED BY <2>1, <3>1, <3>2, QuietStep DEF Clockwise
  <2>3. CASE (PressKey \/ MoveMouse) /\ twin' = twin
    BY <2>3, HostInPhase
  <2>4. ASSUME NEW cycles \in SliceCycles, BeginEventDriven(cycles),
               twin' = [cpu |-> cpu, dev |-> dev, spent |-> 0, late |-> AnyPending(dev)]
        PROVE  InPhase'
    BY <2>4, BeginInPhase
  <2>5. ASSUME NEW op \in GuestOps, NEW cycles \in InstrCycles, HotPass(op, cycles),
               twin' = Followed(TwinPass(twin, op, cycles), RaisedQuietly(op))
        PROVE  InPhase'
    BY <2>2, <2>5, HotInPhase
  <2>6. CASE ReachSlow /\ twin' = twin
    BY <2>2, <2>6, SlowInPhase
  <2>7. CASE SkipStopped /\ JumpTarget <= sched.now /\ twin' = twin
    BY <2>2, <2>7, HeldInPhase
  <2>8. CASE SkipStopped /\ ~(JumpTarget <= sched.now)
             /\ twin' = Followed(TwinSleep(twin, Jump), ArmedOverPending)
    BY <2>2, <2>8, SkipInPhase
  <2> QED BY <1>2, <2>3, <2>4, <2>5, <2>6, <2>7, <2>8 DEF AgreementNext
<1> QED BY <1>1, <1>2

\* A deadline that lies ahead is no later than the next event of any device, and every
\* timer then holds less than one count of its prescaler, whatever the guest writes.
THEOREM Deadlines == Spec => [](DrainedOrDue /\ Armed)
<1>1. (Clockwise /\ RequestInv) /\ (DrainedOrDue /\ Armed) /\ [Next]_vars => (DrainedOrDue /\ Armed)'
  BY QuietStep
<1>2. Init => DrainedOrDue /\ Armed
  BY DrainedInit
<1> QED BY <1>1, <1>2, Timekeeping, PTL DEF Spec

\* A machine that was just built.
LEMMA InPhaseInit == AgreementInit => InPhase
<1> SUFFICES ASSUME AgreementInit PROVE InPhase
  OBVIOUS
<1>1. /\ pc = "idle" /\ cpu = [mask |-> 0, irq |-> 0, stopped |-> FALSE, halted |-> FALSE]
      /\ sched = ResetScheduler /\ twin = [cpu |-> cpu, dev |-> dev, spent |-> 0, late |-> FALSE]
  BY DEF AgreementInit, Init
<1>2. twin.cpu = cpu /\ twin.dev = dev /\ twin.spent = 0 /\ twin.late = FALSE
  BY <1>1, Zenon
<1>3. TwinShape(twin)
  BY <1>1, <1>2 DEF TwinShape
<1>4. sched.now = 0 /\ sched.sliceBegin = 0
  BY <1>1 DEF ResetScheduler
<1>5. cpu.stopped = FALSE
  BY <1>1
<1> QED BY <1>1, <1>2, <1>3, <1>4, <1>5 DEF InPhase, Steady, Phase

\* LoopsAgree: at every instruction runEventDriven shows the guest the CPU and the devices
\* that runWith would, and ends its slice in the same cycle, for any guest, any costs and
\* any devices, apart from the three ways to be late that LoopAgreement names.
THEOREM TheLoopsAgree == AgreementSpec => []LoopsAgree
<1>1. AgreementSpec => Spec
  <2>1. AgreementInit => Init
    BY DEF AgreementInit
  <2>2. [AgreementNext]_agreementVars => [Next]_vars
    BY DEF AgreementNext, Next, agreementVars
  <2> QED BY <2>1, <2>2, PTL DEF AgreementSpec, Spec
<1>2. AgreementSpec => [](Clockwise /\ RequestInv) /\ [](DrainedOrDue /\ Armed)
  BY <1>1, Timekeeping, Deadlines, PTL
<1>3. (Clockwise /\ RequestInv) /\ (DrainedOrDue /\ Armed) /\ InPhase
        /\ [AgreementNext]_agreementVars => InPhase'
  BY InPhaseStep
<1>4. AgreementSpec => []InPhase
  BY <1>2, <1>3, InPhaseInit, PTL DEF AgreementSpec
<1>5. InPhase => LoopsAgree
  BY DEF InPhase, Phase, LoopsAgree, SliceSpent
<1> QED BY <1>4, <1>5, PTL

--------------------------------------------------------------------------------
(* Settling late *)

\* What the guest of DeviceTime writes to the MFP keeps its type.
LEMMA WrittenTyped ==
    ASSUME NEW m \in MfpType, NEW w \in Writes
    PROVE  Written(m, w) \in MfpType
<1>1. /\ w.kind \in {"control", "data", "ier"}
      /\ w.kind = "control" => w.timer \in Timer /\ w.value \in 0 .. 15
      /\ w.kind = "data" => w.timer \in Timer /\ w.value \in 0 .. TimerModulus - 1
      /\ w.kind = "ier" => w.bits \in SUBSET Channel
  <2>1. \A c \in {TimerChannel[t] : t \in GuestTimers} : c \in Channel
    BY ChannelOfTimer, DeviceTimeAssumption
  <2> QED BY <2>1, DeviceTimeAssumption DEF Writes
<1> QED BY <1>1, WritesKeepType DEF Written

\* What it writes to the clock keeps its type and the phase of the second.
LEMMA ClockWrittenTyped ==
    ASSUME NEW r \in RtcType, NEW w \in ClockWrites
    PROVE  ClockWritten(r, w) \in RtcType /\ ClockWritten(r, w).accumulator = r.accumulator
<1> DEFINE f == w.field
           v == w.value
           x == ClockWritten(r, w)
<1>1. v \in 0 .. 15 /\ f \in ClockField \cup {"weekday"} /\ (f # "weekday" => w.digit \in {1, 10})
  BY DeviceTimeAssumption DEF ClockWrites
<1>2. CASE f = "weekday"
  <2>1. x = [r EXCEPT !.weekday = v % 7] /\ v % 7 \in 0 .. 6
    BY <1>1, <1>2 DEF ClockWritten, WriteWeekday
  <2> HIDE DEF x, v
  <2> QED BY <2>1 DEF RtcType, x
<1>3. CASE f # "weekday"
  <2> DEFINE n == IF w.digit = 1 THEN (r[f] \div 10) * 10 + v ELSE v * 10 + (r[f] % 10)
  <2>1. r[f] \in Nat
    BY <1>1, <1>3, ClockFields DEF ClockField
  <2>2. n \in Nat
    BY <1>1, <2>1, SMTT(60)
  <2>3. x = [r EXCEPT ![f] = n]
    BY <1>3 DEF ClockWritten, WriteDigit
  <2>4. f \in ClockField
    BY <1>1, <1>3
  <2> HIDE DEF x, n, f
  <2> QED BY <2>2, <2>3, <2>4 DEF RtcType, ClockField, x
<1> QED BY <1>2, <1>3

\* The deferred copy has been kept in time, and is owed less than what leads past the
\* second edge of the blank; settled it is the prompt one.
PromptInv ==
    /\ InTime(deferred)
    /\ owed \in Nat /\ owed % 2 = 0 /\ owed < SecondEdge(deferred.crtc)
    /\ Settle(deferred, owed) = prompt

\* Where nothing is owed the copies are the same.
LEMMA NothingOwed ==
    ASSUME NEW d, InTime(d) PROVE  0 < SecondEdge(d.crtc) /\ Settle(d, 0) = d
<1>1. 0 < SecondEdge(d.crtc)
  BY CrtcTickFacts, CrtcAssumption DEF SecondEdge, VBlankBegin, InTime, DeviceType
<1> QED BY <1>1, SettleIsTick

\* Both copies begin in time, with nothing owed.
LEMMA PromptInit == TimeInit => PromptInv
<1> SUFFICES ASSUME TimeInit PROVE PromptInv
  OBVIOUS
<1>1. deferred = prompt /\ owed = 0
  BY DEF TimeInit
<1>2. prompt.mfp \in MfpType /\ prompt.crtc = ResetCrtc /\ prompt \in DeviceType
      /\ prompt.rtc.accumulator = 0
  <2>1. ResetMfp \in MfpType
    BY MfpAssumption DEF ResetMfp, MfpType
  <2>2. ResetRtc \in RtcType /\ ResetRtc.accumulator = 0
    BY DEF ResetRtc, RtcType
  <2>3. \A d \in Dates : SetClock(d) \in RtcType /\ SetClock(d).accumulator = 0
    <3> TAKE d \in Dates
    <3>1. /\ d[1] \in Nat /\ d[2] \in Nat /\ d[3] \in Nat
          /\ d[4] \in Nat /\ d[5] \in Nat /\ d[6] \in Nat
      BY DeviceTimeAssumption
    <3> DEFINE y == d[1] % 100
               mo == IF d[2] \in 1 .. 12 THEN d[2] ELSE 1
               da == IF d[3] \in 1 .. DaysInMonth(mo, y) THEN d[3] ELSE 1
               h == d[4] % 24
               mi == d[5] % 60
               s == d[6] % 60
    <3>2. y \in Nat /\ mo \in Nat /\ h \in Nat /\ mi \in Nat /\ s \in Nat
      BY <3>1
    <3>3. da \in Nat
      BY <3>1
    <3>4. SetClock(d) = [ResetRtc EXCEPT !.year = y, !.month = mo, !.day = da,
                                         !.hour = h, !.minute = mi, !.second = s]
      BY DEF SetClock, SetDateTime
    <3> HIDE DEF y, mo, da, h, mi, s
    <3>5. SetClock(d) = [second |-> s, minute |-> mi, hour |-> h, weekday |-> 0,
                         day |-> da, month |-> mo, year |-> y, accumulator |-> 0]
      BY <3>4 DEF ResetRtc
    <3> QED BY <3>2, <3>3, <3>5 DEF RtcType
  <2>4. ResetCrtc \in CrtcType
    BY CrtcAssumption DEF ResetCrtc, CrtcType
  <2> DEFINE M == IF program = "timers" THEN BootMfp ELSE {ResetMfp}
             R == IF program = "timers" THEN {ResetRtc} ELSE {SetClock(d) : d \in Dates}
             I == [enable |-> FALSE, line |-> FALSE]
  <2>5. prompt \in [mfp : M, crtc : {ResetCrtc}, rtc : R, scc : {FALSE}, iosc : {I}]
    BY DEF TimeInit
  <2>6. M \subseteq MfpType
    BY <2>1, DeviceTimeAssumption
  <2>7. \A r \in R : r \in RtcType /\ r.accumulator = 0
    BY <2>2, <2>3
  <2>8. I \in [enable : BOOLEAN, line : BOOLEAN]
    OBVIOUS
  <2> HIDE DEF M, R, I
  <2> QED BY <2>4, <2>5, <2>6, <2>7, <2>8 DEF DeviceType
<1>3. InStep(ResetCrtc)
  BY CrtcAssumption DEF InStep, ResetCrtc, VBlankBegin
<1>4. InTime(deferred)
  BY <1>1, <1>2, <1>3, RtcAssumption DEF InTime
<1> QED BY <1>1, <1>4, NothingOwed DEF PromptInv

\* Every instruction, settlement and write keeps them together.
LEMMA PromptStep == PromptInv /\ [TimeNext]_deviceVars => PromptInv'
<1> SUFFICES ASSUME PromptInv, [TimeNext]_deviceVars PROVE PromptInv'
  OBVIOUS
<1>1. InTime(deferred) /\ owed \in Nat /\ owed % 2 = 0 /\ Settle(deferred, owed) = prompt
  BY DEF PromptInv
<1>2. InTime(prompt) /\ prompt \in DeviceType /\ prompt.mfp \in MfpType /\ prompt.rtc \in RtcType
  BY <1>1, SettleFacts DEF InTime, DeviceType
<1>3. ASSUME NEW cycles \in Pace, Elapse(cycles) PROVE PromptInv'
  <2> DEFINE e == CyclesUntilVBlankEdge(deferred.crtc)
             L == SecondEdge(deferred.crtc)
             n == owed + cycles
  <2>1. /\ cycles \in Nat /\ cycles # 0 /\ cycles % 2 = 0
        /\ cycles <= VBlankBegin /\ cycles <= VBlankCycles
    BY DeviceTimeAssumption DEF Pace
  <2>2. /\ owed < CyclesToNextEvent(deferred) /\ deferred' = deferred /\ owed' = owed + cycles
        /\ prompt' = TickDevicesBy(FALSE, prompt, cycles)
    BY <1>3 DEF Elapse
  <2>3. e \in Nat /\ CyclesToNextEvent(deferred) \in Nat /\ CyclesToNextEvent(deferred) <= e
    <3> DEFINE x == CyclesToNextEvent(deferred)
    <3>1. e \in 1 .. FrameCycles /\ FrameCycles \in Nat
      BY <1>1, CrtcTickFacts, CrtcAssumption DEF InTime, DeviceType
    <3>2. x \in 0 .. FrameCycles /\ Deadline(deferred, x)
      BY <1>1, NextEventFacts
    <3>3. x <= e
      BY <3>2 DEF Deadline
    <3> QED BY <3>1, <3>2, <3>3
  <2>4. L = e + VBlankBegin \/ L = e + VBlankCycles
    BY DEF SecondEdge
  <2>5. VBlankBegin \in Nat /\ VBlankCycles \in Nat
    BY CrtcAssumption DEF VBlankBegin
  <2> HIDE DEF e, L
  <2>6. n \in Nat /\ n % 2 = 0 /\ owed + cycles < L
    BY <1>1, <2>1, <2>2, <2>3, <2>4, <2>5
  <2>7. TickDevices(Settle(deferred, owed), cycles) = Settle(deferred, owed + cycles)
    BY <1>1, <2>1, <2>6, SettleThenTick, ZenonT(60) DEF L
  <2>8. TickDevicesBy(FALSE, prompt, cycles) = TickDevices(prompt, cycles)
    BY <1>2, <2>1, TickDevicesExact
  <2> QED BY <1>1, <2>2, <2>6, <2>7, <2>8 DEF PromptInv, n, L
<1>4. ASSUME SettleOwed PROVE PromptInv'
  BY <1>1, <1>2, <1>4, NothingOwed DEF SettleOwed, PromptInv
<1>5. ASSUME NEW w \in Writes, Write(w) PROVE PromptInv'
  <2> DEFINE x == [prompt EXCEPT !.mfp = Written(@, w)]
  <2>1. InTime(x)
    BY <1>2, WrittenTyped, SetMfp
  <2>2. prompt' = x /\ deferred' = x /\ owed' = 0
    BY <1>1, <1>5 DEF Write
  <2> HIDE DEF x
  <2> QED BY <2>1, <2>2, NothingOwed DEF PromptInv
<1>6. ASSUME NEW w \in ClockWrites, WriteClock(w) PROVE PromptInv'
  <2> DEFINE r == ClockWritten(prompt.rtc, w)
             x == [prompt EXCEPT !.rtc = r]
  <2>1. r \in RtcType /\ r.accumulator = prompt.rtc.accumulator
    BY <1>2, ClockWrittenTyped
  <2>2. prompt' = x /\ deferred' = x /\ owed' = 0
    BY <1>1, <1>6 DEF WriteClock
  <2> HIDE DEF r
  <2>3. x \in DeviceType /\ x.rtc = r /\ x.crtc = prompt.crtc
    BY <1>2, <2>1 DEF DeviceType
  <2>4. InTime(x)
    BY <1>2, <2>1, <2>3 DEF InTime
  <2> HIDE DEF x
  <2> QED BY <2>2, <2>4, NothingOwed DEF PromptInv
<1>7. CASE UNCHANGED deviceVars
  BY <1>7 DEF deviceVars, PromptInv
<1> QED BY <1>3, <1>4, <1>5, <1>6, <1>7 DEF TimeNext

\* DeferredIsPrompt: settling what is owed in one go, in chunks and by the short path of
\* the timers (settle, Mfp::tickFast), leaves MFP, CRTC and clock exactly where ticking
\* them by every instruction does, for any instructions, timers and register writes.
THEOREM LateIsPrompt == TimeSpec => []DeferredIsPrompt
<1>1. PromptInv => DeferredIsPrompt
  BY DEF PromptInv, DeferredIsPrompt
<1> QED BY <1>1, PromptInit, PromptStep, PTL DEF TimeSpec

--------------------------------------------------------------------------------
(* The calendar *)

\* The year that follows begins where the days of this one end, up to the century.
LEMMA YearsFollow ==
    ASSUME NEW y \in 0 .. 99
    PROVE  /\ YearStart(y) \in Nat /\ LeapDay(y) \in 0 .. 1
           /\ y < 99 => YearStart(y + 1) = YearStart(y) + 365 + LeapDay(y)
           /\ y < 99 => YearStart(y) + 365 + LeapDay(y) < CenturyDays
           /\ y = 99 => YearStart(y) + 365 + LeapDay(y) = CenturyDays
<1>1. (y + 3) \div 4 \in 0 .. 25 /\ y \in Nat
  OBVIOUS
<1>2. y < 99 => ((y + 1) + 3) \div 4 = ((y + 3) \div 4) + IF y % 4 = 0 THEN 1 ELSE 0
  OBVIOUS
<1>3. y = 99 => (y + 3) \div 4 = 25 /\ y % 4 # 0
  OBVIOUS
<1>4. LeapDay(y) \in 0 .. 1
  BY DEF LeapDay
<1>5. CASE y % 4 = 0
  <2>1. LeapDay(y) = 1
    BY <1>5 DEF LeapDay
  <2> QED BY <1>1, <1>2, <1>3, <1>5, <2>1 DEF YearStart, CenturyDays
<1>6. CASE y % 4 # 0
  <2>1. LeapDay(y) = 0
    BY <1>6 DEF LeapDay
  <2> QED BY <1>1, <1>2, <1>3, <1>6, <2>1 DEF YearStart, CenturyDays
<1> QED BY <1>5, <1>6

\* So does the month that follows.
LEMMA MonthsFollow ==
    ASSUME NEW m \in 1 .. 12, NEW y \in Nat
    PROVE  /\ DaysInMonth(m, y) = MonthLength(m, y) /\ MonthLength(m, y) \in 28 .. 31
           /\ MonthStart(m, y) \in Nat /\ MonthStart(1, y) = 0
           /\ m < 12 => MonthStart(m + 1, y) = MonthStart(m, y) + MonthLength(m, y)
           /\ m < 12 => MonthStart(m, y) + MonthLength(m, y) < 365
           /\ m = 12 => MonthStart(m, y) + MonthLength(m, y) = 365 + LeapDay(y)
<1>1. LeapDay(y) \in 0 .. 1 /\ (LeapDay(y) = 1 <=> y % 4 = 0)
  BY DEF LeapDay
<1> DEFINE l == LeapDay(y)
<1>2. CASE m \in {1, 2}
  <2>1. DaysInMonth(m, y) = MonthLength(m, y)
    BY <1>1, <1>2 DEF DaysInMonth, MonthLength
  <2> QED BY <1>1, <1>2, <2>1 DEF MonthLength, MonthStart
<1>3. CASE m \in {3, 4, 5}
  BY <1>1, <1>3 DEF DaysInMonth, MonthLength, MonthStart
<1>4. CASE m \in {6, 7, 8}
  BY <1>1, <1>4 DEF DaysInMonth, MonthLength, MonthStart
<1>5. CASE m \in {9, 10}
  BY <1>1, <1>5 DEF DaysInMonth, MonthLength, MonthStart
<1>6. CASE m \in {11, 12}
  BY <1>1, <1>6 DEF DaysInMonth, MonthLength, MonthStart
<1> QED BY <1>2, <1>3, <1>4, <1>5, <1>6

\* Counting on within a range, and back to its beginning.
LEMMA CountsWithin ==
    ASSUME NEW limit \in Nat, NEW n \in Nat, n < limit
    PROVE  n % limit = n /\ limit % limit = 0
OBVIOUS

\* The seconds of a day run through its minutes and hours.
AtTime(h, mi, se) == 3600 * h + 60 * mi + se

LEMMA DayRuns ==
    ASSUME NEW h \in 0 .. 23, NEW mi \in 0 .. 59, NEW se \in 0 .. 59
    PROVE  /\ AtTime(h, mi, se) \in Nat
           /\ AtTime(h, mi, se + 1) = AtTime(h, mi, se) + 1
           /\ AtTime(h, mi + 1, 0) = AtTime(h, mi, 59) + 1
           /\ AtTime(h + 1, 0, 0) = AtTime(h, 59, 59) + 1
           /\ AtTime(0, 0, 0) = 0 /\ AtTime(23, 59, 59) = LastSecond
           /\ se < 59 \/ mi < 59 \/ h < 23 => AtTime(h, mi, se) < LastSecond
BY DEF AtTime, LastSecond

\* A second leads from a date of the calendar to the next instant.
LEMMA SecondCounts ==
    ASSUME NEW r \in RtcType, InRange(r), NEW s \in RtcType,
           /\ s.second = IF ToMinute(r) THEN 0 ELSE r.second + 1
           /\ s.minute = IF ~ToMinute(r) THEN r.minute ELSE IF ToHour(r) THEN 0 ELSE r.minute + 1
           /\ s.hour = IF ~ToHour(r) THEN r.hour ELSE IF ToDay(r) THEN 0 ELSE r.hour + 1
           /\ s.weekday = IF ToDay(r) THEN (r.weekday + 1) % 7 ELSE r.weekday
           /\ s.day = IF ~ToDay(r) THEN r.day ELSE IF ToMonth(r) THEN 1 ELSE r.day + 1
           /\ s.month = IF ~ToMonth(r) THEN r.month ELSE IF ToYear(r) THEN 1 ELSE r.month + 1
           /\ s.year = IF ToYear(r) THEN (r.year + 1) % 100 ELSE r.year
    PROVE  CountsOn(r, s)
<1> DEFINE y == r.year
           m == r.month
           d == r.day
           leap == LeapDay(y)
           past == YearStart(y)
           start == MonthStart(m, y)
           length == MonthLength(m, y)
<1>1. /\ r.second \in 0 .. 59 /\ r.minute \in 0 .. 59 /\ r.hour \in 0 .. 23 /\ r.weekday \in 0 .. 6
      /\ y \in 0 .. 99 /\ m \in 1 .. 12 /\ d \in 1 .. length
  <2>1. /\ r.second \in Nat /\ r.minute \in Nat /\ r.hour \in Nat /\ r.weekday \in 0 .. 6
        /\ r.year \in Nat
    BY ClockFields
  <2>2. /\ r.second < 60 /\ r.minute < 60 /\ r.hour < 24 /\ r.year < 100
        /\ m \in 1 .. 12 /\ d \in 1 .. length
    BY DEF InRange
  <2> QED BY <2>1, <2>2
<1>20. m \in 1 .. 12 /\ y \in Nat
  BY <1>1
<1>2. /\ DaysInMonth(m, y) = length /\ length \in 28 .. 31
      /\ start \in Nat /\ MonthStart(1, y) = 0
      /\ m < 12 => MonthStart(m + 1, y) = start + length
      /\ m < 12 => start + length < 365
      /\ m = 12 => start + length = 365 + leap
  <2> HIDE DEF y, m
  <2> QED BY ONLY <1>20, MonthsFollow, Zenon
<1>3. m < 12 => MonthStart(m + 1, y) = start + length
  BY ONLY <1>2
<1>4. /\ ToMinute(r) <=> r.second = 59
      /\ ToHour(r) <=> r.second = 59 /\ r.minute = 59
      /\ ToDay(r) <=> r.second = 59 /\ r.minute = 59 /\ r.hour = 23
  BY <1>1 DEF ToMinute, ToHour, ToDay, Carries
<1>5. LastDay(r) <=> d = length
  BY <1>1, <1>2 DEF LastDay, Carries
<1>6. /\ ToMonth(r) <=> ToDay(r) /\ d = length
      /\ ToYear(r) <=> ToDay(r) /\ d = length /\ m = 12
  BY <1>1, <1>5 DEF ToMonth, ToYear, Carries
<1>7. /\ SecondOfDay(s) = (SecondOfDay(r) + 1) % (LastSecond + 1)
      /\ SecondOfDay(r) < LastSecond <=> ~ToDay(r)
  <2> DEFINE h == r.hour
             mi == r.minute
             se == r.second
             now == AtTime(h, mi, se)
             then == AtTime(s.hour, s.minute, s.second)
  <2>1. SecondOfDay(r) = now /\ SecondOfDay(s) = then
    BY DEF SecondOfDay, AtTime
  <2>2. h \in 0 .. 23 /\ mi \in 0 .. 59 /\ se \in 0 .. 59
    BY <1>1
  <2>3. LastSecond \in Nat
    BY DEF LastSecond
  <2>4. CASE ~ToDay(r)
    <3>1. then = now + 1 /\ (se < 59 \/ mi < 59 \/ h < 23)
      <4>1. CASE ~ToMinute(r)
        <5>1. ~ToHour(r) /\ se < 59
          BY <1>1, <1>4, <4>1
        <5>2. s.hour = h /\ s.minute = mi /\ s.second = se + 1
          BY <2>4, <4>1, <5>1
        <5> HIDE DEF h, mi, se
        <5>3. AtTime(h, mi, se + 1) = AtTime(h, mi, se) + 1
          BY ONLY <2>2, DayRuns, Zenon
        <5>4. then = AtTime(h, mi, se + 1)
          BY <5>2
        <5> QED BY <5>1, <5>3, <5>4
      <4>2. CASE ToMinute(r) /\ ~ToHour(r)
        <5>1. se = 59 /\ mi < 59
          BY <1>1, <1>4, <4>2
        <5>2. s.hour = h /\ s.minute = mi + 1 /\ s.second = 0
          BY <2>4, <4>2, <5>1
        <5> HIDE DEF h, mi, se
        <5>3. AtTime(h, mi + 1, 0) = AtTime(h, mi, 59) + 1
          BY ONLY <2>2, DayRuns, Zenon
        <5>4. now = AtTime(h, mi, 59) /\ then = AtTime(h, mi + 1, 0)
          BY <5>1, <5>2
        <5> HIDE DEF now, then
        <5> QED BY <5>1, <5>3, <5>4
      <4>3. CASE ToHour(r)
        <5>1. ToMinute(r) /\ se = 59 /\ mi = 59 /\ h < 23
          BY <1>1, <1>4, <2>4, <4>3
        <5>2. s.hour = h + 1 /\ s.minute = 0 /\ s.second = 0
          BY <2>4, <4>3, <5>1
        <5> HIDE DEF h, mi, se
        <5>3. AtTime(h + 1, 0, 0) = AtTime(h, 59, 59) + 1
          BY ONLY <2>2, DayRuns, Zenon
        <5>4. now = AtTime(h, 59, 59) /\ then = AtTime(h + 1, 0, 0)
          BY <5>1, <5>2
        <5> HIDE DEF now, then
        <5> QED BY <5>1, <5>3, <5>4
      <4> QED BY <1>4, <4>1, <4>2, <4>3
    <3> HIDE DEF h, mi, se
    <3>2. now \in Nat /\ now < LastSecond
      BY <2>2, <3>1, DayRuns, ZenonT(60)
    <3> HIDE DEF now, then
    <3>3. now + 1 \in Nat /\ LastSecond + 1 \in Nat /\ now + 1 < LastSecond + 1
      BY <2>3, <3>2
    <3>4. (now + 1) % (LastSecond + 1) = now + 1
      BY ONLY <3>3, CountsWithin, Zenon
    <3> QED BY <2>1, <2>4, <3>1, <3>2, <3>4
  <2>5. CASE ToDay(r)
    <3>1. ToMinute(r) /\ ToHour(r) /\ se = 59 /\ mi = 59 /\ h = 23
      BY <1>1, <1>4, <2>5
    <3>2. s.second = 0 /\ s.minute = 0 /\ s.hour = 0
      BY <2>5, <3>1
    <3>3. then = 0 /\ now = LastSecond
      BY <2>2, <3>1, <3>2, DayRuns, ZenonT(60)
    <3> HIDE DEF h, mi, se, now, then
    <3>4. LastSecond + 1 \in Nat /\ 0 \in Nat /\ 0 < LastSecond + 1
      BY <2>3
    <3>5. (LastSecond + 1) % (LastSecond + 1) = 0
      BY ONLY <3>4, CountsWithin, Zenon
    <3> QED BY <2>1, <2>3, <2>5, <3>3, <3>5
  <2> QED BY <2>4, <2>5
<1>9. /\ past \in Nat /\ leap \in 0 .. 1
      /\ y < 99 => YearStart(y + 1) = past + 365 + leap
      /\ past + 365 + leap <= CenturyDays
      /\ y < 99 => past + 365 + leap < CenturyDays
      /\ y = 99 => past + 365 + leap = CenturyDays
  <2>1. y \in 0 .. 99 /\ (y < 99 \/ y = 99)
    BY <1>1
  <2> HIDE DEF y
  <2>2. /\ past \in Nat /\ leap \in 0 .. 1
        /\ y < 99 => YearStart(y + 1) = past + 365 + leap
        /\ y < 99 => past + 365 + leap < CenturyDays
        /\ y = 99 => past + 365 + leap = CenturyDays
    BY ONLY <2>1, YearsFollow, Zenon
  <2> HIDE DEF past, leap
  <2> QED BY <2>1, <2>2 DEF CenturyDays
<1>0. CenturyDays \in Nat /\ 0 \in Nat /\ 0 < CenturyDays
  BY DEF CenturyDays
<1>10. DayNumber(r) = past + start + (d - 1)
  BY DEF DayNumber
<1>11. CASE ~ToDay(r)
  <2>1. s.day = d /\ s.month = m /\ s.year = y /\ s.weekday = r.weekday
    BY <1>6, <1>11
  <2>2. s.second < 60 /\ s.minute < 60 /\ s.hour < 24
    BY <1>1, <1>4, <1>11
  <2>3. DayNumber(s) = DayNumber(r)
    BY <2>1 DEF DayNumber
  <2>4. InRange(s)
    BY <1>1, <2>1, <2>2 DEF InRange
  <2> HIDE DEF y, m, d, leap, past, start, length
  <2>5. (s.weekday = r.weekday) = (s.day = r.day)
    BY <2>1 DEF d
  <2> QED BY <1>7, <1>11, <2>3, <2>4, <2>5 DEF CountsOn
<1>12. CASE ToDay(r)
  <2>1. s.second = 0 /\ s.minute = 0 /\ s.hour = 0 /\ s.weekday = (r.weekday + 1) % 7
    BY <1>4, <1>12
  <2>2. s.weekday # r.weekday
    BY <1>1, <2>1
  <2>3. InRange(s) /\ s.day # d /\ DayNumber(s) = (DayNumber(r) + 1) % CenturyDays
    <3>1. CASE d # length
      <4>1. s.day = d + 1 /\ s.month = m /\ s.year = y
        BY <1>6, <1>12, <3>1
      <4>2. InRange(s)
        <5>1. d + 1 \in 1 .. length
          BY <1>1, <1>2, <3>1
        <5> QED BY <1>1, <2>1, <4>1, <5>1 DEF InRange
      <4>3. DayNumber(s) = past + start + ((d + 1) - 1)
        BY <4>1 DEF DayNumber
      <4>4. m < 12 \/ m = 12
        BY <1>1
      <4> HIDE DEF y, m, d, leap, past, start, length
      <4>5. /\ DayNumber(r) + 1 \in Nat /\ DayNumber(r) + 1 < CenturyDays
            /\ DayNumber(s) = DayNumber(r) + 1
        BY <1>1, <1>2, <1>9, <1>10, <3>1, <4>3, <4>4, <1>0
      <4>6. s.day # d
        BY <1>1, <4>1
      <4>7. (DayNumber(r) + 1) % CenturyDays = DayNumber(r) + 1
        BY ONLY <1>0, <4>5, CountsWithin, Zenon
      <4> QED BY <4>2, <4>5, <4>6, <4>7
    <3>2. CASE d = length /\ m # 12
      <4>1. s.day = 1 /\ s.month = m + 1 /\ s.year = y
        BY <1>6, <1>12, <3>2
      <4>2. m + 1 \in 1 .. 12 /\ m < 12
        BY <1>1, <3>2
      <4>3. MonthLength(m + 1, y) \in 28 .. 31
        <5> HIDE DEF y, m
        <5> QED BY ONLY <1>20, <4>2, MonthsFollow, Zenon
      <4>4. InRange(s)
        BY <1>1, <2>1, <4>1, <4>2, <4>3 DEF InRange
      <4>5. DayNumber(s) = past + MonthStart(m + 1, y) + (1 - 1)
        BY <4>1 DEF DayNumber
      <4> HIDE DEF y, m, d, leap, past, start, length
      <4>6. /\ DayNumber(r) + 1 \in Nat /\ DayNumber(r) + 1 < CenturyDays
            /\ DayNumber(s) = DayNumber(r) + 1
        BY <1>1, <1>2, <1>3, <1>9, <1>10, <3>2, <4>2, <4>5, <1>0
      <4>7. s.day # d
        BY <1>2, <3>2, <4>1
      <4>8. (DayNumber(r) + 1) % CenturyDays = DayNumber(r) + 1
        BY ONLY <1>0, <4>6, CountsWithin, Zenon
      <4> QED BY <4>4, <4>6, <4>7, <4>8
    <3>3. CASE d = length /\ m = 12
      <4>1. s.day = 1 /\ s.month = 1 /\ s.year = (y + 1) % 100
        BY <1>6, <1>12, <3>3
      <4>2. s.year \in 0 .. 99 /\ s.year \in Nat /\ 1 \in 1 .. 12
        BY <1>1, <4>1
      <4>3. MonthLength(1, s.year) \in 28 .. 31 /\ MonthStart(1, s.year) = 0
        BY ONLY <4>2, MonthsFollow, Zenon
      <4>4. InRange(s)
        BY <2>1, <4>1, <4>2, <4>3 DEF InRange
      <4>5. DayNumber(s) = YearStart(s.year) + 0 + (1 - 1)
        BY <4>1, <4>3 DEF DayNumber
      <4>6. s.day # d
        BY <1>2, <3>3, <4>1
      <4>7. DayNumber(r) + 1 = past + 365 + leap
        <5> HIDE DEF y, m, d, leap, past, start, length
        <5> QED BY <1>1, <1>2, <1>9, <1>10, <3>3
      <4>8. CASE y = 99
        <5>1. s.year = 0 /\ YearStart(0) = 0
          BY <4>1, <4>8 DEF YearStart
        <5> HIDE DEF y, m, d, leap, past, start, length
        <5>2. DayNumber(s) = 0 /\ DayNumber(r) + 1 = CenturyDays
          BY <1>9, <4>5, <4>7, <4>8, <5>1
        <5>3. CenturyDays % CenturyDays = 0
          BY ONLY <1>0, CountsWithin, Zenon
        <5> QED BY <4>4, <4>6, <5>2, <5>3
      <4>9. CASE y # 99
        <5>1. s.year = y + 1 /\ y < 99
          BY <1>1, <4>1, <4>9
        <5> HIDE DEF y, m, d, leap, past, start, length
        <5>2. /\ DayNumber(r) + 1 \in Nat /\ DayNumber(r) + 1 < CenturyDays
              /\ DayNumber(s) = DayNumber(r) + 1
          BY <1>9, <4>5, <4>7, <5>1, <1>0
        <5>3. (DayNumber(r) + 1) % CenturyDays = DayNumber(r) + 1
          BY ONLY <1>0, <5>2, CountsWithin, Zenon
        <5> QED BY <4>4, <4>6, <5>2, <5>3
      <4> QED BY <4>8, <4>9
    <3> QED BY <3>1, <3>2, <3>3
  <2>4. (s.weekday = r.weekday) = (s.day = r.day)
    BY <2>2, <2>3
  <2> HIDE DEF y, m, d, leap, past, start, length
  <2> QED BY <1>7, <1>12, <2>3, <2>4 DEF CountsOn
<1> HIDE DEF y, m, d, leap, past, start, length
<1> QED BY <1>11, <1>12

\* Less than a second crosses at most one second: the calendar stands still, or it
\* advances once and the phase falls back.
LEMMA AtMostOneSecond ==
    ASSUME NEW r \in RtcType, r.accumulator < CyclesPerSecond,
           NEW cycles \in Nat, cycles < CyclesPerSecond
    PROVE  LET x == RtcTick(r, cycles)
               y == AdvanceOneSecond(r)
           IN  /\ x \in RtcType
               /\ x.accumulator < r.accumulator =>
                     /\ x.second = y.second /\ x.minute = y.minute /\ x.hour = y.hour
                     /\ x.weekday = y.weekday /\ x.day = y.day /\ x.month = y.month
                     /\ x.year = y.year
<1> DEFINE total == r.accumulator + cycles
           q == total \div CyclesPerSecond
           n == total % CyclesPerSecond
           x == RtcTick(r, cycles)
           y == AdvanceOneSecond(r)
           z == Nth(RtcType, Second, r, q)
<1>1. total \in Nat /\ r.accumulator \in Nat /\ total < 2 * CyclesPerSecond /\ r.accumulator <= total
  BY ClockFields, RtcAssumption
<1>2. x \in RtcType
  BY RtcTickFacts
<1>3. x = Phased(z, n)
  BY RtcTickIs
<1>4. ASSUME x.accumulator < r.accumulator
      PROVE  /\ x.second = y.second /\ x.minute = y.minute /\ x.hour = y.hour
             /\ x.weekday = y.weekday /\ x.day = y.day /\ x.month = y.month
             /\ x.year = y.year
  <2>1. y \in RtcType
    BY AdvanceTyped
  <2>2. z \in RtcType
    <3>1. q \in Nat
      BY <1>1, DivBound, RtcAssumption
    <3> HIDE DEF q
    <3> QED BY <3>1, SecondIsStep, NthUnfolds
  <2>3. x.accumulator = n
    BY <1>3, <2>2 DEF Phased, RtcType
  <2>4. total >= CyclesPerSecond
    <3> SUFFICES ASSUME total < CyclesPerSecond PROVE FALSE
      BY <1>1, RtcAssumption
    <3>1. n = total
      <4> HIDE DEF total
      <4> QED BY <1>1, RtcAssumption
    <3> HIDE DEF total, n, x
    <3> QED BY <1>1, <1>4, <2>3, <3>1
  <2>5. q = 1
    <3>1. 1 * CyclesPerSecond <= total /\ total < 1 * CyclesPerSecond + CyclesPerSecond
      <4> HIDE DEF total
      <4> QED BY <1>1, <2>4, RtcAssumption
    <3> HIDE DEF total
    <3> QED BY <1>1, <3>1, DivOnly, RtcAssumption
  <2>6. z = y
    <3>1. Nth(RtcType, Second, r, 0) = r
          /\ Nth(RtcType, Second, r, 0 + 1) = Second[Nth(RtcType, Second, r, 0)]
      BY SecondIsStep, NthUnfolds
    <3>2. Second[r] = y
      BY DEF Second
    <3> HIDE DEF q, y
    <3> QED BY <2>5, <3>1, <3>2
  <2> HIDE DEF x, z, y, n
  <2> QED BY <1>3, <2>1, <2>6 DEF Phased, RtcType
<1> HIDE DEF x, y
<1> QED BY <1>2, <1>4 DEF x, y

\* No field is counted out of its range.
LEMMA SecondStaysIn ==
    ASSUME NEW r \in RtcType, NEW s \in RtcType,
           /\ s.second = IF ToMinute(r) THEN 0 ELSE r.second + 1
           /\ s.minute = IF ~ToMinute(r) THEN r.minute ELSE IF ToHour(r) THEN 0 ELSE r.minute + 1
           /\ s.hour = IF ~ToHour(r) THEN r.hour ELSE IF ToDay(r) THEN 0 ELSE r.hour + 1
           /\ s.weekday = IF ToDay(r) THEN (r.weekday + 1) % 7 ELSE r.weekday
           /\ s.day = IF ~ToDay(r) THEN r.day ELSE IF ToMonth(r) THEN 1 ELSE r.day + 1
           /\ s.month = IF ~ToMonth(r) THEN r.month ELSE IF ToYear(r) THEN 1 ELSE r.month + 1
           /\ s.year = IF ToYear(r) THEN (r.year + 1) % 100 ELSE r.year
    PROVE  NotFurtherOut(r, s)
<1> DEFINE Bounded(f) == s[f] <= r[f] \/ s[f] <= Limit[f]
<1>1. /\ r.second \in Nat /\ r.minute \in Nat /\ r.hour \in Nat
      /\ r.day \in Nat /\ r.month \in Nat /\ r.year \in Nat
  BY ClockFields
<1>2. /\ Limit["second"] = 59 /\ Limit["minute"] = 59 /\ Limit["hour"] = 23
      /\ Limit["day"] = 31 /\ Limit["month"] = 12 /\ Limit["year"] = 99
  BY DEF Limit
<1>3. Bounded("second")
  BY <1>1, <1>2 DEF ToMinute, Carries
<1>4. Bounded("minute")
  <2>1. ToMinute(r) /\ ~ToHour(r) => r.minute + 1 < 60
    BY <1>1 DEF ToHour, Carries
  <2> QED BY <1>1, <1>2, <2>1
<1>5. Bounded("hour")
  <2>1. ToHour(r) /\ ~ToDay(r) => r.hour + 1 < 24
    BY <1>1 DEF ToDay, Carries
  <2> QED BY <1>1, <1>2, <2>1
<1>6. Bounded("day")
  <2>1. DaysInMonth(r.month, r.year) \in 28 .. 31
    BY DEF DaysInMonth
  <2>2. ToDay(r) /\ ~ToMonth(r) => r.day + 1 <= 31
    BY <1>1, <2>1 DEF ToMonth, LastDay, Carries
  <2> QED BY <1>1, <1>2, <2>2
<1>7. Bounded("month")
  <2>1. ToMonth(r) /\ ~ToYear(r) => r.month + 1 < 13
    BY <1>1 DEF ToYear, Carries
  <2> QED BY <1>1, <1>2, <2>1
<1>8. Bounded("year")
  <2>1. (r.year + 1) % 100 <= 99
    BY <1>1
  <2> QED BY <1>1, <1>2, <2>1
<1> HIDE DEF Bounded
<1>9. \A f \in ClockField : Bounded(f)
  BY <1>3, <1>4, <1>5, <1>6, <1>7, <1>8 DEF ClockField
<1> QED BY <1>9 DEF NotFurtherOut, Bounded

\* Whenever the phase falls back a second has been counted.
LEMMA CarriedCounts ==
    PromptInv /\ [TimeNext]_deviceVars =>
        (Carried => /\ InRange(prompt.rtc) => CountsOn(prompt.rtc, prompt'.rtc)
                    /\ NotFurtherOut(prompt.rtc, prompt'.rtc))
<1> DEFINE r == prompt.rtc
           s == prompt'.rtc
<1> SUFFICES ASSUME PromptInv, [TimeNext]_deviceVars, Carried
             PROVE  (InRange(r) => CountsOn(r, s)) /\ NotFurtherOut(r, s)
  OBVIOUS
<1>1. InTime(deferred) /\ owed \in Nat /\ owed < SecondEdge(deferred.crtc)
      /\ Settle(deferred, owed) = prompt
  BY DEF PromptInv
<1>2. InTime(prompt)
  BY <1>1, SettleFacts
<1>3. prompt \in DeviceType /\ r \in RtcType /\ r.accumulator \in Nat
      /\ r.accumulator < CyclesPerSecond
  BY <1>2, ClockFields DEF InTime, DeviceType
<1>4. s.accumulator < r.accumulator
  BY DEF Carried
<1>5. PICK cycles \in Pace : Elapse(cycles)
  <2>1. ASSUME NEW w \in Writes, Write(w) PROVE FALSE
    <3>1. s = r
      BY <1>3, <2>1 DEF Write, DeviceType
    <3> QED BY <1>3, <1>4, <3>1
  <2>2. ASSUME NEW w \in ClockWrites, WriteClock(w) PROVE FALSE
    <3>1. s = ClockWritten(r, w)
      BY <1>3, <2>2 DEF WriteClock, DeviceType
    <3>2. s.accumulator = r.accumulator
      BY <1>3, <3>1, ClockWrittenTyped
    <3> QED BY <1>3, <1>4, <3>2
  <2>3. ASSUME prompt' = prompt PROVE FALSE
    BY <1>3, <1>4, <2>3
  <2> QED BY <2>1, <2>2, <2>3 DEF TimeNext, SettleOwed, deviceVars
<1>6. cycles \in Nat /\ cycles < CyclesPerSecond
  BY DeviceTimeAssumption DEF Pace
<1>7. s = RtcTick(r, cycles)
  BY <1>3, <1>5, <1>6 DEF Elapse, TickDevicesBy, DeviceType
<1> DEFINE x == RtcTick(r, cycles)
           y == AdvanceOneSecond(r)
<1>8. /\ s \in RtcType
      /\ s.second = y.second /\ s.minute = y.minute /\ s.hour = y.hour
      /\ s.weekday = y.weekday /\ s.day = y.day /\ s.month = y.month
      /\ s.year = y.year
  <2>1. x \in RtcType /\ (x.accumulator < r.accumulator =>
           /\ x.second = y.second /\ x.minute = y.minute /\ x.hour = y.hour
           /\ x.weekday = y.weekday /\ x.day = y.day /\ x.month = y.month
           /\ x.year = y.year)
    <3> HIDE DEF r
    <3> QED BY <1>3, <1>6, AtMostOneSecond
  <2> HIDE DEF x, y, r
  <2> QED BY <1>4, <1>7, <2>1 DEF x
<1>9. /\ y.second = IF ToMinute(r) THEN 0 ELSE r.second + 1
      /\ y.minute = IF ~ToMinute(r) THEN r.minute ELSE IF ToHour(r) THEN 0 ELSE r.minute + 1
      /\ y.hour = IF ~ToHour(r) THEN r.hour ELSE IF ToDay(r) THEN 0 ELSE r.hour + 1
      /\ y.weekday = IF ToDay(r) THEN (r.weekday + 1) % 7 ELSE r.weekday
      /\ y.day = IF ~ToDay(r) THEN r.day ELSE IF ToMonth(r) THEN 1 ELSE r.day + 1
      /\ y.month = IF ~ToMonth(r) THEN r.month ELSE IF ToYear(r) THEN 1 ELSE r.month + 1
      /\ y.year = IF ToYear(r) THEN (r.year + 1) % 100 ELSE r.year
  <2> HIDE DEF r
  <2> QED BY <1>3, AdvanceExact
<1> HIDE DEF r, s, y
<1>10. /\ s.second = IF ToMinute(r) THEN 0 ELSE r.second + 1
       /\ s.minute = IF ~ToMinute(r) THEN r.minute ELSE IF ToHour(r) THEN 0 ELSE r.minute + 1
       /\ s.hour = IF ~ToHour(r) THEN r.hour ELSE IF ToDay(r) THEN 0 ELSE r.hour + 1
       /\ s.weekday = IF ToDay(r) THEN (r.weekday + 1) % 7 ELSE r.weekday
       /\ s.day = IF ~ToDay(r) THEN r.day ELSE IF ToMonth(r) THEN 1 ELSE r.day + 1
       /\ s.month = IF ~ToMonth(r) THEN r.month ELSE IF ToYear(r) THEN 1 ELSE r.month + 1
       /\ s.year = IF ToYear(r) THEN (r.year + 1) % 100 ELSE r.year
  BY <1>8, <1>9, Zenon
<1>11. NotFurtherOut(r, s)
  BY <1>3, <1>8, <1>10, SecondStaysIn
<1>12. ASSUME InRange(r) PROVE CountsOn(r, s)
  BY <1>3, <1>8, <1>10, <1>12, SecondCounts
<1> QED BY <1>11, <1>12

\* Every second counted leads from a date of the calendar to the next instant of the
\* century, however long the devices were left behind, and counts no field out of its
\* range.
THEOREM ClockCounts == TimeSpec => NextInstant
<1> QED BY CarriedCounts, PromptInit, PromptStep, PTL DEF TimeSpec, NextInstant

--------------------------------------------------------------------------------
(* The predictions *)

\* Walk takes them.
LEMMA WalkIs ==
    ASSUME NEW d \in DevicesInTime, NEW q \in Nat
    PROVE  Walk(d, q) = Nth(DevicesInTime, TwoOn, d, q)
<1> DEFINE B(g) == [n \in 0 .. q |-> IF n = 0 THEN d ELSE TickDevices(g[n - 1], 2)]
           a == CHOOSE g : g = B(g)
           N(k) == Nth(DevicesInTime, TwoOn, d, k)
           b == [n \in 0 .. q |-> N(n)]
<1>1. SUFFICES a[q] = N(q)
  BY Zenon DEF Walk
<1>2. \A k \in Nat : N(k) \in DevicesInTime /\ N(0) = d /\ N(k + 1) = TwoOn[N(k)]
  BY TwoIsStep, NthUnfolds
<1>3. \A x \in DevicesInTime : TwoOn[x] = TickDevices(x, 2)
  BY DEF TwoOn
<1> HIDE DEF N
<1>4. ASSUME NEW k \in 0 .. q PROVE N(k) = IF k = 0 THEN d ELSE TickDevices(b[k - 1], 2)
  <2>1. CASE k = 0
    BY <1>2, <2>1
  <2>2. CASE k # 0
    <3>1. k - 1 \in Nat /\ k - 1 \in 0 .. q /\ (k - 1) + 1 = k
      BY <2>2
    <3>2. N(k) = TwoOn[N(k - 1)] /\ N(k - 1) \in DevicesInTime
      BY <1>2, <3>1
    <3> QED BY <1>3, <2>2, <3>1, <3>2
  <2> QED BY <2>1, <2>2
<1>5. b = B(b)
  BY <1>4
<1>6. a = B(a)
  <2> HIDE DEF B, b
  <2> QED BY <1>5, Zenon
<1> DEFINE V == {k \in 0 .. q : a[k] = N(k)}
<1>7. 0 \in V
  <2> HIDE DEF a
  <2> QED BY <1>2, <1>6
<1>8. ASSUME NEW k \in 1 .. q, k - 1 \in V PROVE k \in V
  <2>1. k - 1 \in Nat /\ k \in 0 .. q /\ k # 0 /\ (k - 1) + 1 = k
    OBVIOUS
  <2>2. a[k] = TickDevices(a[k - 1], 2)
    <3> HIDE DEF a
    <3> QED BY <1>6, <2>1
  <2>3. N(k) = TwoOn[N(k - 1)] /\ N(k - 1) \in DevicesInTime
    BY <1>2, <2>1
  <2> HIDE DEF a
  <2> QED BY <1>3, <1>8, <2>1, <2>2, <2>3
<1> HIDE DEF V
<1>9. 0 .. q \subseteq V
  BY <1>7, <1>8, InductionUpTo
<1> USE DEF V
<1> HIDE DEF a
<1> QED BY <1>9

\* One by one.
LEMMA WalkUnfolds ==
    ASSUME NEW d, InTime(d), NEW n \in Nat
    PROVE  /\ InTime(Walk(d, n)) /\ Walk(d, 0) = d /\ Walk(d, n + 1) = TickDevices(Walk(d, n), 2)
<1>1. d \in DevicesInTime
  BY DEF InTime, DevicesInTime
<1>2. /\ Walk(d, n) = Nth(DevicesInTime, TwoOn, d, n) /\ Walk(d, 0) = Nth(DevicesInTime, TwoOn, d, 0)
      /\ Walk(d, n + 1) = Nth(DevicesInTime, TwoOn, d, n + 1)
  BY <1>1, WalkIs
<1>3. /\ Nth(DevicesInTime, TwoOn, d, n) \in DevicesInTime /\ Nth(DevicesInTime, TwoOn, d, 0) = d
      /\ Nth(DevicesInTime, TwoOn, d, n + 1) = TwoOn[Nth(DevicesInTime, TwoOn, d, n)]
  BY <1>1, TwoIsStep, NthUnfolds
<1> QED BY <1>2, <1>3 DEF TwoOn, DevicesInTime

\* Nothing happens on a walk that ends before the next event.
LEMMA WalkStill ==
    ASSUME NEW d, InTime(d), Drained(d.mfp), NEW n \in Nat, n = 0 \/ Far(d, n)
    PROVE  Still(d, Walk(d, n), n)
<1>1. d.mfp \in MfpType /\ d.crtc \in CrtcType /\ d.rtc \in RtcType
  BY DEF InTime, DeviceType
<1>2. CyclesUntilVBlankEdge(d.crtc) \in Nat /\ CyclesUntilCarry(d.rtc) \in Int
  <2>1. CyclesUntilVBlankEdge(d.crtc) \in 1 .. FrameCycles
    BY <1>1, CrtcTickFacts
  <2>2. d.rtc.accumulator \in Nat
    BY <1>1, ClockFields
  <2> QED BY <2>1, <2>2, CrtcAssumption, RtcAssumption DEF CyclesUntilCarry
<1>3. \A t \in Running(d.mfp) : NeedMfp(d.mfp, t) \in Int
  BY <1>1, NeedIsInt DEF Running
<1> DEFINE T == {k \in 0 .. n : Still(d, Walk(d, k), k)}
<1>4. 0 \in T
  <2>1. Walk(d, 0) = d
    BY WalkUnfolds
  <2>2. Phased(d.rtc, d.rtc.accumulator + 2 * 0) = d.rtc
    <3>1. d.rtc.accumulator + 2 * 0 = d.rtc.accumulator
      BY <1>1, ClockFields
    <3> QED BY <1>1, <3>1 DEF Phased, RtcType
  <2>3. CyclesUntilVBlankEdge(d.crtc) = CyclesUntilVBlankEdge(d.crtc) - 2 * 0
        /\ \A t \in Running(d.mfp) : NeedMfp(d.mfp, t) = NeedMfp(d.mfp, t) - 0
    BY <1>2, <1>3
  <2>4. Still(d, d, 0)
    BY <2>2, <2>3 DEF Still
  <2> QED BY <2>1, <2>4
<1>5. ASSUME NEW k \in 1 .. n, k - 1 \in T PROVE k \in T
  <2>1. k - 1 \in Nat /\ (k - 1) + 1 = k /\ k \in 0 .. n /\ n # 0
    OBVIOUS
  <2>2. Far(d, k)
    BY <1>2, <1>3, <2>1 DEF Far, Quiet
  <2>3. Walk(d, k) = TickDevices(Walk(d, k - 1), 2)
    BY <2>1, WalkUnfolds
  <2>4. Still(d, Walk(d, k - 1), k - 1)
    BY <1>5
  <2>5. Still(d, TickDevices(Walk(d, k - 1), 2), (k - 1) + 1)
    BY <2>1, <2>2, <2>4, StillOn
  <2> QED BY <2>1, <2>3, <2>5
<1> HIDE DEF T
<1>6. 0 .. n \subseteq T
  BY <1>4, <1>5, InductionUpTo
<1> USE DEF T
<1> QED BY <1>6

\* No instruction lasts as long as a part of the frame or a second.
LEMMA StepsAreShort == 2 <= VBlankBegin /\ 2 <= VBlankCycles /\ 2 < CyclesPerSecond
<1>1. PICK c \in StepCosts : TRUE
  BY DeviceTimeAssumption
<1>2. c \in Nat /\ c # 0 /\ c % 2 = 0 /\ c <= VBlankBegin /\ c <= VBlankCycles /\ c < CyclesPerSecond
  BY DeviceTimeAssumption
<1>3. c >= 2
  BY <1>2
<1> QED BY <1>2, <1>3, CrtcAssumption, RtcAssumption DEF VBlankBegin

\* At the distance of two cycles the event happens, and shows.
LEMMA SomethingHappens ==
    ASSUME NEW d, InTime(d), Drained(d.mfp),
           \/ CyclesUntilVBlankEdge(d.crtc) <= 2
           \/ CyclesUntilCarry(d.rtc) <= 2
           \/ \E t \in Running(d.mfp) : TimerRaises(d.mfp, t) /\ NeedMfp(d.mfp, t) <= 1
    PROVE  LET x == TickDevices(d, 2)
           IN  \/ x.crtc.inVBlank # d.crtc.inVBlank
               \/ x.rtc.second # d.rtc.second
               \/ x.mfp.ipr # {}
<1> DEFINE x == TickDevices(d, 2)
           m == d.mfp
<1>1. d.mfp \in MfpType /\ d.crtc \in CrtcType /\ d.rtc \in RtcType /\ InStep(d.crtc)
      /\ d.rtc.accumulator < CyclesPerSecond
  BY DEF InTime, DeviceType
<1>2. /\ \A t \in Timer : Ends(m, t) \subseteq x.mfp.ipr
      /\ x.crtc = CrtcTick(d.crtc, 2) /\ x.rtc = RtcTick(d.rtc, 2)
  BY TwoCycles
<1> HIDE DEF x
<1>3. CASE CyclesUntilVBlankEdge(d.crtc) <= 2
  <2>1. CyclesUntilVBlankEdge(d.crtc) \in 1 .. FrameCycles /\ VBlankBegin \in Int /\ VBlankCycles \in Int
        /\ FrameCycles \in Nat
    BY <1>1, CrtcTickFacts, CrtcAssumption DEF VBlankBegin
  <2>2. 2 < SecondEdge(d.crtc) /\ ~(2 < CyclesUntilVBlankEdge(d.crtc))
    BY <1>3, <2>1, StepsAreShort DEF SecondEdge
  <2>3. CrtcTick(d.crtc, 2).inVBlank = ~d.crtc.inVBlank
    BY <1>1, <2>2, OneEdge
  <2> QED BY <1>1, <1>2, <2>3 DEF x, CrtcType
<1>4. CASE CyclesUntilCarry(d.rtc) <= 2
  <2> DEFINE r == d.rtc
             total == r.accumulator + 2
             P == CyclesPerSecond
             s == Nth(RtcType, Second, r, 1)
  <2>1. r \in RtcType /\ r.accumulator \in Nat /\ P \in Nat /\ P # 0 /\ 2 < P /\ r.accumulator < P
    BY <1>1, ClockFields, RtcAssumption, StepsAreShort
  <2>2. total \in Nat /\ 1 * P <= total /\ total < 1 * P + P
    BY <1>4, <2>1 DEF CyclesUntilCarry
  <2>3. total \div P = 1
    <3> HIDE DEF total, P
    <3> QED BY <2>1, <2>2, DivOnly
  <2>4. RtcTick(r, 2) = Phased(Nth(RtcType, Second, r, total \div P), total % P)
    BY <2>1, RtcTickIs
  <2>5. s \in RtcType /\ s = AdvanceOneSecond(r)
    <3>1. Nth(RtcType, Second, r, 0) = r /\ Nth(RtcType, Second, r, 0 + 1) = Second[Nth(RtcType, Second, r, 0)]
      BY <2>1, SecondIsStep, NthUnfolds
    <3>2. s = Second[r]
      BY <3>1
    <3> QED BY <2>1, <3>2, AdvanceTyped DEF Second
  <2>6. s.second = IF ToMinute(r) THEN 0 ELSE r.second + 1
    BY <2>1, <2>5, AdvanceExact
  <2>7. s.second # r.second
    BY <2>1, <2>6, ClockFields DEF ToMinute, Carries
  <2> HIDE DEF s, total, P
  <2>8. RtcTick(r, 2) = Phased(s, total % P)
    BY <2>3, <2>4 DEF s
  <2>9. RtcTick(r, 2).second = s.second
    BY <2>5, <2>8 DEF Phased, RtcType
  <2> QED BY <1>2, <2>7, <2>9 DEF x
<1>5. CASE \E t \in Running(m) : TimerRaises(m, t) /\ NeedMfp(m, t) <= 1
  <2>1. PICK t \in Running(m) : TimerRaises(m, t) /\ NeedMfp(m, t) <= 1
    BY <1>5
  <2>2. t \in Timer /\ t \in Filled(m) /\ m.timerValue[t] = 1
    BY <1>1, <2>1, LastCycle DEF Running
  <2>3. TimerChannel[t] \in Ends(m, t)
    BY <2>1, <2>2 DEF Ends, Raised, TimerRaises
  <2> QED BY <1>2, <2>2, <2>3 DEF x
<1> QED BY <1>3, <1>4, <1>5

\* The next event is the first instant at which something may happen: nothing can before it,
\* and of the instants of which that is true it is the last.
LEMMA EventIsThere ==
    ASSUME NEW d, InTime(d), Drained(d.mfp)
    PROVE  LET n == CyclesToNextEvent(d)
           IN  /\ n \in Nat /\ n >= 1
               /\ \A i \in Nat : 2 * i < n => Far(d, i)
               /\ \A i \in Nat : Far(d, i) => 2 * i + 1 <= n
<1> DEFINE n == CyclesToNextEvent(d)
           e == CyclesUntilVBlankEdge(d.crtc)
           c == CyclesUntilCarry(d.rtc)
<1>1. d.mfp \in MfpType /\ d.crtc \in CrtcType /\ d.rtc \in RtcType /\ d.rtc.accumulator < CyclesPerSecond
  BY DEF InTime, DeviceType
<1>2. e \in Nat /\ e >= 1 /\ e <= NoDeadline
  <2>1. e \in 1 .. FrameCycles
    BY <1>1, CrtcTickFacts
  <2> QED BY <2>1, CrtcAssumption, MfpAssumption, DeviceTimeAssumption
<1>3. c \in Nat /\ c >= 1
  BY <1>1, ClockFields, RtcAssumption DEF CyclesUntilCarry
<1>4. \A t \in Running(d.mfp) : NeedMfp(d.mfp, t) \in Nat /\ NeedMfp(d.mfp, t) >= 1
  BY <1>1, LastCycle
<1>5. n \in Nat /\ Deadline(d, n) /\ \A x \in Int : Deadline(d, x) => x <= n
  BY NextEventFacts, CrtcAssumption
<1> HIDE DEF n
<1>6. n >= 1
  <2>1. Deadline(d, 1)
    BY <1>2, <1>3, <1>4, MfpAssumption DEF Deadline
  <2> QED BY <1>5, <2>1
<1>7. ASSUME NEW i \in Nat, 2 * i < n PROVE Far(d, i)
  <2>1. n <= e /\ n <= c
    BY <1>5 DEF Deadline
  <2>2. ASSUME NEW t \in Running(d.mfp), TimerRaises(d.mfp, t) PROVE i < NeedMfp(d.mfp, t)
    <3>1. n <= 2 * NeedMfp(d.mfp, t)
      BY <1>4, <1>5, <2>2 DEF Deadline
    <3> QED BY <1>4, <1>5, <1>7, <3>1
  <2> QED BY <1>2, <1>3, <1>5, <1>7, <2>1, <2>2 DEF Far, Quiet
<1>8. ASSUME NEW i \in Nat, Far(d, i) PROVE 2 * i + 1 <= n
  <2>1. 2 * i + 1 <= e /\ 2 * i + 1 <= c /\ 2 * i + 1 \in Int
    BY <1>2, <1>3, <1>8 DEF Far
  <2>2. 2 * i + 1 <= NoDeadline
    BY <1>2, <2>1, MfpAssumption
  <2>3. ASSUME NEW t \in Running(d.mfp), TimerRaises(d.mfp, t) PROVE 2 * i + 1 <= 2 * NeedMfp(d.mfp, t)
    BY <1>4, <1>8, <2>3 DEF Far, Quiet
  <2>4. Deadline(d, 2 * i + 1)
    BY <2>1, <2>2, <2>3 DEF Deadline
  <2> QED BY <1>5, <2>1, <2>4
<1> QED BY <1>5, <1>6, <1>7, <1>8 DEF n

\* The predicted event is exact to a step of two cycles.
LEMMA EventIsExact ==
    ASSUME NEW d, InTime(d), Drained(d.mfp), d.mfp.ipr = {},
           NEW steps \in Int, steps = (CyclesToNextEvent(d) + 1) \div 2
    PROVE  /\ steps > 0 => Seen(Walk(d, steps - 1)) = Seen(d)
           /\ Seen(Walk(d, steps)) # Seen(d)
<1> DEFINE n == CyclesToNextEvent(d)
           i == steps - 1
           x == Walk(d, i)
           y == TickDevices(x, 2)
<1>1. /\ n \in Nat /\ n >= 1
      /\ \A j \in Nat : 2 * j < n => Far(d, j)
      /\ \A j \in Nat : Far(d, j) => 2 * j + 1 <= n
  BY EventIsThere
<1> HIDE DEF n
<1>2. steps \in Nat /\ i \in Nat /\ i + 1 = steps /\ 2 * i < n /\ n <= 2 * steps
  BY <1>1 DEF n
<1> HIDE DEF i
<1>3. Far(d, i) /\ ~Far(d, steps)
  BY <1>1, <1>2
<1>4. Still(d, x, i)
  BY <1>2, <1>3, WalkStill
<1>5. Walk(d, steps) = y
  BY <1>2, WalkUnfolds
<1> HIDE DEF x, y
<1>6. d.rtc \in RtcType /\ d.mfp \in MfpType /\ d.crtc \in CrtcType
  BY DEF InTime, DeviceType
<1>7. x.rtc.second = d.rtc.second /\ [x.rtc EXCEPT !.accumulator = 0] = [d.rtc EXCEPT !.accumulator = 0]
  BY <1>4, <1>6 DEF Still, Phased, RtcType
<1>8. Seen(x) = Seen(d)
  BY <1>4, <1>7 DEF Still, Seen
<1>9. \/ CyclesUntilVBlankEdge(x.crtc) <= 2
      \/ CyclesUntilCarry(x.rtc) <= 2
      \/ \E t \in Running(x.mfp) : TimerRaises(x.mfp, t) /\ NeedMfp(x.mfp, t) <= 1
  <2> SUFFICES ASSUME ~(CyclesUntilVBlankEdge(x.crtc) <= 2), ~(CyclesUntilCarry(x.rtc) <= 2),
                      \A t \in Running(x.mfp) : TimerRaises(x.mfp, t) => ~(NeedMfp(x.mfp, t) <= 1)
               PROVE  Far(d, steps)
    BY <1>3
  <2>1. CyclesUntilVBlankEdge(d.crtc) \in 1 .. FrameCycles
    BY <1>6, CrtcTickFacts
  <2>2. CyclesUntilVBlankEdge(d.crtc) \in Nat /\ d.rtc.accumulator \in Nat /\ CyclesPerSecond \in Nat
    BY <1>6, <2>1, ClockFields, CrtcAssumption, RtcAssumption
  <2>3. 2 * steps < CyclesUntilVBlankEdge(d.crtc)
    BY <1>2, <1>4, <2>2 DEF Still
  <2>4. x.rtc.accumulator = d.rtc.accumulator + 2 * i
    BY <1>4, <1>6 DEF Still, Phased, RtcType
  <2>5. 2 * steps < CyclesUntilCarry(d.rtc)
    BY <1>2, <2>2, <2>4 DEF CyclesUntilCarry
  <2>6. ASSUME NEW t \in Running(d.mfp), TimerRaises(d.mfp, t) PROVE steps < NeedMfp(d.mfp, t)
    <3>1. t \in Running(x.mfp) /\ TimerRaises(x.mfp, t)
      BY <1>4, <2>6 DEF Still, Running, Prescale, TimerRaises
    <3>2. NeedMfp(d.mfp, t) \in Int /\ NeedMfp(x.mfp, t) = NeedMfp(d.mfp, t) - i
      BY <1>4, <1>6, <2>6, NeedIsInt DEF Still, Running
    <3> QED BY <1>2, <3>1, <3>2
  <2> QED BY <2>3, <2>5, <2>6 DEF Far, Quiet
<1>10. y.crtc.inVBlank # x.crtc.inVBlank \/ y.rtc.second # x.rtc.second \/ y.mfp.ipr # {}
  <2>1. InTime(x) /\ Drained(x.mfp)
    BY <1>4 DEF Still
  <2> QED BY <1>9, <2>1, SomethingHappens DEF y
<1>11. y.rtc \in RtcType
  <2>1. InTime(x)
    BY <1>4 DEF Still
  <2>2. InTime(y)
    BY <2>1, TickDevicesFacts DEF y
  <2> QED BY <2>2 DEF InTime, DeviceType
<1>12. Seen(y) # Seen(d)
  <2>1. CASE y.crtc.inVBlank # x.crtc.inVBlank
    BY <1>4, <2>1 DEF Still, Seen
  <2>2. CASE y.rtc.second # x.rtc.second
    <3>1. [y.rtc EXCEPT !.accumulator = 0].second = y.rtc.second
          /\ [d.rtc EXCEPT !.accumulator = 0].second = d.rtc.second
      BY <1>6, <1>11 DEF RtcType
    <3>2. [y.rtc EXCEPT !.accumulator = 0] # [d.rtc EXCEPT !.accumulator = 0]
      BY <1>7, <2>2, <3>1
    <3> QED BY <3>2 DEF Seen
  <2>3. CASE y.mfp.ipr # {}
    BY <2>3 DEF Seen
  <2> QED BY <1>10, <2>1, <2>2, <2>3
<1> QED BY <1>5, <1>8, <1>12 DEF x, i

\* What cyclesUntilAnyTimerChange computes: twice the least that a prescaler lacks.
LEMMA ChangeIsThere ==
    ASSUME NEW m \in MfpType, Drained(m), Running(m) # {}
    PROVE  \E n \in Nat : /\ n >= 1 /\ CyclesUntilAnyTimerChange(m) = 2 * n
                          /\ \A t \in Running(m) : Lacks(m, t) \in Nat /\ n <= Lacks(m, t)
                          /\ \E t \in Running(m) : n = Lacks(m, t)
<1> DEFINE lacks == {2 * Lacks(m, t) : t \in {u \in Running(m) : Lacks(m, u) >= 0}}
           K == CyclesUntilAnyTimerChange(m)
<1>1. K = Min({NoDeadline} \cup lacks)
  BY DEF CyclesUntilAnyTimerChange, Lacks
<1>2. \A t \in Running(m) : Lacks(m, t) \in Nat /\ Lacks(m, t) >= 1 /\ 2 * Lacks(m, t) <= NoDeadline
  <2> SUFFICES ASSUME NEW t \in Running(m)
               PROVE  Lacks(m, t) \in Nat /\ Lacks(m, t) >= 1 /\ 2 * Lacks(m, t) <= NoDeadline
    OBVIOUS
  <2>1. t \in Timer /\ m \in Counting /\ m.prescaleCounter[t] \in Nat /\ m.control[t] \in 0 .. 15
    BY MfpIsCounting DEF Running, MfpType
  <2>2. Prescale(m, t) \in Nat /\ m.prescaleCounter[t] < Prescale(m, t)
    BY <2>1, PrescaleIsNat DEF Drained
  <2>3. m.control[t] < 8 => m.control[t] % 8 \in 0 .. 7
    BY <2>1
  <2>4. 2 * Prescale(m, t) <= NoDeadline
    BY <2>1, <2>3, MfpAssumption, DeviceTimeAssumption DEF Prescale
  <2> QED BY <2>1, <2>2, <2>4, MfpAssumption DEF Lacks
<1>3. {NoDeadline} \cup lacks \in SUBSET Nat /\ {NoDeadline} \cup lacks # {}
  BY <1>2, MfpAssumption
<1>4. K \in {NoDeadline} \cup lacks /\ \A y \in {NoDeadline} \cup lacks : K <= y
  <2> HIDE DEF lacks, K
  <2> QED BY <1>1, <1>3, MinFacts
<1>5. \A t \in Running(m) : K <= 2 * Lacks(m, t)
  BY <1>2, <1>4
<1> HIDE DEF K
<1>6. K \in Nat
  BY <1>3, <1>4
<1>7. PICK t \in Running(m) : K = 2 * Lacks(m, t)
  <2>1. CASE K \in lacks
    BY <2>1
  <2>2. CASE K = NoDeadline
    <3>1. PICK t \in Running(m) : TRUE
      OBVIOUS
    <3>2. K = 2 * Lacks(m, t)
      BY <1>2, <1>5, <1>6, <2>2, MfpAssumption
    <3> QED BY <3>2
  <2> QED BY <1>4, <2>1, <2>2
<1>8. \A u \in Running(m) : Lacks(m, t) <= Lacks(m, u)
  BY <1>2, <1>5, <1>7
<1> QED BY <1>2, <1>7, <1>8 DEF K

\* On a walk that ends before the first counter moves the timers only collect.
LEMMA WalkCollects ==
    ASSUME NEW d, InTime(d), Drained(d.mfp), NEW n \in Nat,
           \A t \in Running(d.mfp) : Lacks(d.mfp, t) \in Nat /\ n < Lacks(d.mfp, t)
    PROVE  Collected(d, Walk(d, n), n)
<1> DEFINE T == {k \in 0 .. n : Collected(d, Walk(d, k), k)}
<1>1. 0 \in T
  <2>1. Walk(d, 0) = d
    BY WalkUnfolds
  <2>2. Collected(d, d, 0)
    BY DEF Collected, Kept
  <2> QED BY <2>1, <2>2
<1>2. ASSUME NEW k \in 1 .. n, k - 1 \in T PROVE k \in T
  <2>1. k - 1 \in Nat /\ (k - 1) + 1 = k /\ k \in 0 .. n
    OBVIOUS
  <2>2. \A t \in Running(d.mfp) : Lacks(d.mfp, t) \in Nat /\ (k - 1) + 1 < Lacks(d.mfp, t)
    BY <2>1
  <2>3. Walk(d, k) = TickDevices(Walk(d, k - 1), 2)
    BY <2>1, WalkUnfolds
  <2>4. Collected(d, Walk(d, k - 1), k - 1)
    BY <1>2
  <2>5. Collected(d, TickDevices(Walk(d, k - 1), 2), (k - 1) + 1)
    BY <2>1, <2>2, <2>4, CollectsOn
  <2> QED BY <2>1, <2>3, <2>5
<1> HIDE DEF T
<1>3. 0 .. n \subseteq T
  BY <1>1, <1>2, InductionUpTo
<1> USE DEF T
<1> QED BY <1>3

\* The predicted change of a counter is exact.
LEMMA ChangeIsExact ==
    ASSUME NEW d, InTime(d), Drained(d.mfp), Running(d.mfp) # {},
           NEW steps \in Int, steps = CyclesUntilAnyTimerChange(d.mfp) \div 2
    PROVE  /\ Counters(Walk(d, steps - 1)) = Counters(d)
           /\ \/ Counters(Walk(d, steps)) # Counters(d)
              \/ \E t \in Running(d.mfp) : d.mfp.timerValue[t] = 1 /\ d.mfp.data[t] = 1
<1>1. d.mfp \in MfpType
  BY DEF InTime, DeviceType
<1>2. PICK n \in Nat : /\ n >= 1 /\ CyclesUntilAnyTimerChange(d.mfp) = 2 * n
                       /\ \A t \in Running(d.mfp) : Lacks(d.mfp, t) \in Nat /\ n <= Lacks(d.mfp, t)
                       /\ \E t \in Running(d.mfp) : n = Lacks(d.mfp, t)
  BY <1>1, ChangeIsThere
<1> DEFINE i == n - 1
           x == Walk(d, i)
           y == TickDevices(x, 2)
<1>3. steps = n /\ i \in Nat /\ i + 1 = n
  BY <1>2
<1>4. Collected(d, x, i)
  <2>1. \A t \in Running(d.mfp) : Lacks(d.mfp, t) \in Nat /\ i < Lacks(d.mfp, t)
    BY <1>2
  <2> HIDE DEF i
  <2> QED BY <1>3, <2>1, WalkCollects
<1> HIDE DEF i
<1>5. Walk(d, n) = y
  BY <1>3, WalkUnfolds
<1> HIDE DEF x
<1>6. x.mfp \in MfpType
  BY <1>4 DEF Collected, InTime, DeviceType
<1>7. Counters(x) = Counters(d)
  <2>1. x.mfp.timerValue \in [Timer -> 0 .. TimerModulus - 1] /\ d.mfp.timerValue \in [Timer -> 0 .. TimerModulus - 1]
    BY <1>1, <1>6 DEF MfpType
  <2>2. \A t \in Timer : x.mfp.timerValue[t] = d.mfp.timerValue[t]
    BY <1>4 DEF Collected
  <2> QED BY <2>1, <2>2 DEF Counters
<1>8. PICK t \in Running(d.mfp) : n = Lacks(d.mfp, t)
  BY <1>2
<1>9. t \in Timer /\ x.mfp.timerValue[t] = d.mfp.timerValue[t] /\ x.mfp.data = d.mfp.data
      /\ d.mfp.timerValue[t] \in 0 .. TimerModulus - 1 /\ d.mfp.data[t] \in 0 .. TimerModulus - 1
  BY <1>1, <1>4 DEF Running, Collected, Kept, MfpType
<1>10. t \in Filled(x.mfp)
  <2>1. Running(x.mfp) = Running(d.mfp)
    BY <1>4, KeptPrescale DEF Collected
  <2>2. Lacks(x.mfp, t) = 1
    BY <1>3, <1>4, <1>8 DEF Collected
  <2>3. x.mfp.prescaleCounter[t] \in Nat /\ Prescale(x.mfp, t) \in Nat
    BY <1>6, <1>9, MfpIsCounting, PrescaleIsNat DEF MfpType
  <2> QED BY <2>1, <2>2, <2>3 DEF Filled, Lacks
<1>11. y.mfp.timerValue[t] = Stepped(d.mfp.timerValue[t], d.mfp.data[t])
  <2>1. InTime(x) /\ Drained(x.mfp)
    BY <1>4 DEF Collected
  <2>2. y.mfp.timerValue[t] = IF t \in Filled(x.mfp) THEN Stepped(x.mfp.timerValue[t], x.mfp.data[t])
                              ELSE x.mfp.timerValue[t]
    BY <1>9, <2>1, TwoCycles
  <2> QED BY <1>9, <1>10, <2>2
<1>12. \/ y.mfp.timerValue[t] # d.mfp.timerValue[t]
       \/ d.mfp.timerValue[t] = 1 /\ d.mfp.data[t] = 1
  BY <1>9, <1>11, MfpAssumption DEF Stepped
<1>13. \/ Counters(y) # Counters(d)
       \/ \E u \in Running(d.mfp) : d.mfp.timerValue[u] = 1 /\ d.mfp.data[u] = 1
  BY <1>8, <1>12 DEF Counters
<1> HIDE DEF y
<1> QED BY <1>3, <1>5, <1>7, <1>13 DEF x, i

\* From a state with the timers drained both predictions are exact: nothing that can be
\* seen happens before the deadline of nextEventCycle and something does at it, and no
\* counter moves before cyclesUntilAnyTimerChange and one does at it.
THEOREM PredictionsHold == TimeSpec => []PredictionsExact
<1>1. PromptInv => PredictionsExact
  <2> SUFFICES ASSUME PromptInv, Drained(prompt.mfp) PROVE DeadlineExact /\ TimerChangeExact
    BY DEF PredictionsExact
  <2>1. InTime(prompt)
    BY SettleFacts DEF PromptInv
  <2> DEFINE d == Cleared
  <2>2. /\ d \in DeviceType /\ d.crtc = prompt.crtc /\ d.rtc = prompt.rtc
        /\ d.mfp = [prompt.mfp EXCEPT !.ipr = {}]
    BY <2>1 DEF Cleared, InTime, DeviceType, MfpType
  <2>3. /\ d.mfp.ipr = {} /\ d.mfp.ier = prompt.mfp.ier /\ d.mfp.control = prompt.mfp.control
        /\ d.mfp.prescaleCounter = prompt.mfp.prescaleCounter /\ d.mfp.timerValue = prompt.mfp.timerValue
    BY <2>1, <2>2 DEF InTime, DeviceType, MfpType
  <2> HIDE DEF d
  <2>4. /\ Running(d.mfp) = Running(prompt.mfp)
        /\ \A t \in Timer : /\ Prescale(d.mfp, t) = Prescale(prompt.mfp, t)
                            /\ TimerRaises(d.mfp, t) = TimerRaises(prompt.mfp, t)
                            /\ NeedMfp(d.mfp, t) = NeedMfp(prompt.mfp, t)
    BY <2>3 DEF Running, Prescale, TimerRaises, NeedMfp, Decrements
  <2>5. InTime(d) /\ Drained(d.mfp)
    BY <2>1, <2>2, <2>3, <2>4 DEF InTime, Drained, Running
  <2>6. CyclesToNextEvent(d) = CyclesToNextEvent(prompt)
    <3>1. \A x : Deadline(d, x) = Deadline(prompt, x)
      BY <2>2, <2>4 DEF Deadline, Running
    <3>2. /\ CyclesToNextEvent(d) \in Int /\ Deadline(d, CyclesToNextEvent(d))
          /\ \A x \in Int : Deadline(d, x) => x <= CyclesToNextEvent(d)
      BY <2>5, NextEventFacts
    <3>3. /\ CyclesToNextEvent(prompt) \in Int /\ Deadline(prompt, CyclesToNextEvent(prompt))
          /\ \A x \in Int : Deadline(prompt, x) => x <= CyclesToNextEvent(prompt)
      BY <2>1, NextEventFacts
    <3>4. CyclesToNextEvent(d) <= CyclesToNextEvent(prompt) /\ CyclesToNextEvent(prompt) <= CyclesToNextEvent(d)
      BY <3>1, <3>2, <3>3
    <3> QED BY <3>2, <3>3, <3>4
  <2>7. DeadlineExact
    <3> DEFINE n == Steps
    <3>1. n \in Int /\ n = (CyclesToNextEvent(d) + 1) \div 2
      BY <2>1, <2>6, NextEventFacts DEF Steps
    <3> HIDE DEF n
    <3>2. /\ n > 0 => Seen(Walk(d, n - 1)) = Seen(d)
          /\ Seen(Walk(d, n)) # Seen(d)
      BY <2>3, <2>5, <3>1, EventIsExact
    <3> QED BY <3>2 DEF DeadlineExact, n, d
  <2>8. TimerChangeExact
    <3> SUFFICES ASSUME Running(prompt.mfp) # {}
                 PROVE  LET n == CyclesUntilAnyTimerChange(prompt.mfp) \div 2
                        IN  /\ Counters(Walk(prompt, n - 1)) = Counters(prompt)
                            /\ \/ Counters(Walk(prompt, n)) # Counters(prompt)
                               \/ \E t \in Running(prompt.mfp) :
                                     prompt.mfp.timerValue[t] = 1 /\ prompt.mfp.data[t] = 1
      BY DEF TimerChangeExact
    <3> DEFINE n == CyclesUntilAnyTimerChange(prompt.mfp) \div 2
    <3>1. n \in Int
      <4>1. prompt.mfp \in MfpType
        BY <2>1 DEF InTime, DeviceType
      <4>2. PICK k \in Nat : CyclesUntilAnyTimerChange(prompt.mfp) = 2 * k
        BY <4>1, ChangeIsThere
      <4> QED BY <4>2
    <3>2. n = CyclesUntilAnyTimerChange(prompt.mfp) \div 2
      OBVIOUS
    <3> HIDE DEF n
    <3>3. /\ Counters(Walk(prompt, n - 1)) = Counters(prompt)
          /\ \/ Counters(Walk(prompt, n)) # Counters(prompt)
             \/ \E t \in Running(prompt.mfp) : prompt.mfp.timerValue[t] = 1 /\ prompt.mfp.data[t] = 1
      BY <2>1, <3>1, <3>2, ChangeIsExact
    <3> QED BY <3>3 DEF n
  <2> QED BY <2>7, <2>8
<1> QED BY <1>1, PromptInit, PromptStep, PTL DEF TimeSpec

================================================================================
