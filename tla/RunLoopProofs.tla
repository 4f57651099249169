----------------------------- MODULE RunLoopProofs -----------------------------
(******************************************************************************)
(* Proofs about RunLoop, for every set of instruction costs, slice lengths and   *)
(* device answers: its type, that no virtual time is lost, that the deadline      *)
(* stays inside the slice, and that it implements TwoClocks.                      *)
(******************************************************************************)
EXTENDS RunLoop, TLAPS

--------------------------------------------------------------------------------
(* What each operation of the scheduler does to the account. *)

\* The fields of the account are numbers.
LEMMA FieldTypes ==
    ASSUME NEW s \in SchedulerType
    PROVE  /\ s.debt \in Int /\ s.now \in Int /\ s.unsettled \in Int
           /\ s.deadlineAt \in Int /\ s.sliceEnd \in Int /\ s.sliceBegin \in Int
BY DEF SchedulerType

\* Changing one field keeps the type; two fields are two changes.
LEMMA SetDeadline ==
    ASSUME NEW s \in SchedulerType, NEW t \in Int, NEW d \in Int
    PROVE  [s EXCEPT !.deadlineAt = t, !.debt = d] \in SchedulerType
<1> DEFINE r == [s EXCEPT !.deadlineAt = t]
<1>1. r \in SchedulerType
  BY DEF SchedulerType
<1>2. [s EXCEPT !.deadlineAt = t, !.debt = d] = [r EXCEPT !.debt = d]
  OBVIOUS
<1> HIDE DEF r
<1>3. [r EXCEPT !.debt = d] \in SchedulerType
  BY <1>1 DEF SchedulerType
<1> QED
  BY <1>2, <1>3

\* syncUnsettled brings unsettled up to the CPU's time.
LEMMA SyncFacts ==
    ASSUME NEW s \in SchedulerType
    PROVE  /\ SyncUnsettled(s) \in SchedulerType
           /\ SyncUnsettled(s).unsettled = CpuTime(s)
           /\ SyncUnsettled(s).now = s.now /\ SyncUnsettled(s).debt = s.debt
           /\ SyncUnsettled(s).deadlineAt = s.deadlineAt
           /\ SyncUnsettled(s).sliceEnd = s.sliceEnd
<1>1. CpuTime(s) \in Int
  BY FieldTypes DEF CpuTime
<1>2. SyncUnsettled(s) = [s EXCEPT !.unsettled = CpuTime(s)]
  BY DEF SyncUnsettled, CpuTime
<1>3. [s EXCEPT !.unsettled = CpuTime(s)] \in SchedulerType
  BY <1>1 DEF SchedulerType
<1>4. DOMAIN s = {"debt", "now", "unsettled", "deadlineAt", "sliceEnd", "sliceBegin"}
  BY DEF SchedulerType
<1> QED
  BY <1>2, <1>3, <1>4

\* cut: the deadline is where it is put, nothing else moves.
LEMMA CutFacts ==
    ASSUME NEW s \in SchedulerType, NEW t \in Int
    PROVE  /\ CutAt(s, t) \in SchedulerType
           /\ CutAt(s, t).now = s.now /\ CutAt(s, t).unsettled = s.unsettled
           /\ CutAt(s, t).debt = 0 /\ CutAt(s, t).deadlineAt = t
           /\ CutAt(s, t).sliceEnd = s.sliceEnd
           /\ CpuTime(CutAt(s, t)) = t
<1>1. 0 \in Int
  OBVIOUS
<1>2. CutAt(s, t) \in SchedulerType
  BY <1>1, SetDeadline, Zenon DEF CutAt
<1>3. DOMAIN s = {"debt", "now", "unsettled", "deadlineAt", "sliceEnd", "sliceBegin"}
  BY DEF SchedulerType
<1> QED
  BY <1>2, <1>3 DEF CutAt, CpuTime

\* wake moves the deadline to the CPU's time, whatever was owed stays owed.
LEMMA WakeFacts ==
    ASSUME NEW s \in SchedulerType
    PROVE  /\ Wake(s) \in SchedulerType
           /\ Wake(s).now = s.now /\ Wake(s).unsettled = CpuTime(s)
           /\ Wake(s).debt = 0 /\ Wake(s).deadlineAt = CpuTime(s)
           /\ Wake(s).sliceEnd = s.sliceEnd
           /\ CpuTime(Wake(s)) = CpuTime(s)
<1> DEFINE synced == SyncUnsettled(s)
<1>1. CpuTime(s) \in Int
  BY FieldTypes DEF CpuTime
<1>2. Wake(s) = CutAt(synced, CpuTime(s))
  BY SyncFacts DEF Wake
<1>3. synced \in SchedulerType
  BY SyncFacts
<1>4. /\ synced.now = s.now /\ synced.unsettled = CpuTime(s)
      /\ synced.sliceEnd = s.sliceEnd
  BY SyncFacts
<1> HIDE DEF synced
<1> QED
  BY <1>1, <1>2, <1>3, <1>4, CutFacts

\* holdForPendingInterrupt: the deadline is where the devices are.
LEMMA HoldFacts ==
    ASSUME NEW s \in SchedulerType
    PROVE  /\ HoldForPendingInterrupt(s) \in SchedulerType
           /\ HoldForPendingInterrupt(s).now = s.now
           /\ HoldForPendingInterrupt(s).unsettled = s.unsettled
           /\ HoldForPendingInterrupt(s).debt = 0
           /\ HoldForPendingInterrupt(s).deadlineAt = s.now
           /\ HoldForPendingInterrupt(s).sliceEnd = s.sliceEnd
           /\ CpuTime(HoldForPendingInterrupt(s)) = s.now
BY FieldTypes, CutFacts DEF HoldForPendingInterrupt

\* materialize hands over everything owed and leaves the deadline alone.
LEMMA MaterializedFacts ==
    ASSUME NEW s \in SchedulerType
    PROVE  /\ Materialized(s) \in SchedulerType
           /\ Materialized(s).now = CpuTime(s) /\ Materialized(s).unsettled = CpuTime(s)
           /\ Materialized(s).debt = s.debt /\ Materialized(s).deadlineAt = s.deadlineAt
           /\ Materialized(s).sliceEnd = s.sliceEnd
           /\ CpuTime(Materialized(s)) = CpuTime(s)
<1> DEFINE synced == SyncUnsettled(s)
<1>1. synced \in SchedulerType
  BY SyncFacts
<1>2. /\ synced.now = s.now /\ synced.unsettled = CpuTime(s) /\ synced.debt = s.debt
      /\ synced.deadlineAt = s.deadlineAt /\ synced.sliceEnd = s.sliceEnd
  BY SyncFacts
<1>3. Materialized(s) = [synced EXCEPT !.now = synced.now + (synced.unsettled - synced.now)]
  BY DEF Materialized, Consume, Pending
<1> HIDE DEF synced
<1>4. /\ CpuTime(s) \in Int
      /\ synced.now + (synced.unsettled - synced.now) = CpuTime(s)
  BY <1>1, <1>2, FieldTypes DEF CpuTime
<1>5. Materialized(s) = [synced EXCEPT !.now = CpuTime(s)]
  BY <1>3, <1>4
<1>6. [synced EXCEPT !.now = CpuTime(s)] \in SchedulerType
  BY <1>1, <1>4 DEF SchedulerType
<1>7. DOMAIN synced = {"debt", "now", "unsettled", "deadlineAt", "sliceEnd", "sliceBegin"}
  BY <1>1 DEF SchedulerType
<1> QED
  BY <1>2, <1>5, <1>6, <1>7 DEF CpuTime

\* advance adds the instruction to the CPU's time and to nothing else.
LEMMA AdvanceFacts ==
    ASSUME NEW s \in SchedulerType, NEW used \in Int
    PROVE  /\ Advance(s, used) \in SchedulerType
           /\ Advance(s, used).now = s.now /\ Advance(s, used).unsettled = s.unsettled
           /\ Advance(s, used).debt = s.debt + used
           /\ Advance(s, used).deadlineAt = s.deadlineAt
           /\ Advance(s, used).sliceEnd = s.sliceEnd
           /\ CpuTime(Advance(s, used)) = CpuTime(s) + used
<1> DEFINE owed == s.debt + used
<1>1. owed \in Int
  BY FieldTypes
<1>2. Advance(s, used) = [s EXCEPT !.debt = owed]
  BY DEF Advance
<1> HIDE DEF owed
<1>3. [s EXCEPT !.debt = owed] \in SchedulerType
  BY <1>1 DEF SchedulerType
<1>4. DOMAIN s = {"debt", "now", "unsettled", "deadlineAt", "sliceEnd", "sliceBegin"}
  BY DEF SchedulerType
<1>5. /\ Advance(s, used).now = s.now /\ Advance(s, used).unsettled = s.unsettled
      /\ Advance(s, used).debt = owed /\ Advance(s, used).deadlineAt = s.deadlineAt
      /\ Advance(s, used).sliceEnd = s.sliceEnd
  BY <1>2, <1>4
<1> QED
  BY <1>2, <1>3, <1>5, FieldTypes DEF owed, CpuTime

\* armDeadline, on a settled scheduler: the deadline is inside the slice and at
\* most FallbackSpan away.
LEMMA ArmFacts ==
    ASSUME NEW s \in SchedulerType, NEW next \in Int
    PROVE  /\ ArmDeadline(s, next) \in SchedulerType
           /\ ArmDeadline(s, next).now = s.now
           /\ ArmDeadline(s, next).unsettled = s.unsettled
           /\ ArmDeadline(s, next).sliceEnd = s.sliceEnd
           /\ CpuTime(ArmDeadline(s, next)) = s.now
           /\ ArmDeadline(s, next).debt \in -FallbackSpan .. 0
           /\ s.now < s.sliceEnd => ArmDeadline(s, next).deadlineAt <= s.sliceEnd
<1> DEFINE limit == Least(next, Least(s.sliceEnd, s.now + FallbackSpan))
           delta == IF limit > s.now THEN limit - s.now ELSE 0
<1>1. limit \in Int /\ limit <= s.sliceEnd /\ limit <= s.now + FallbackSpan
  BY SchedulerAssumption, FieldTypes DEF Least
<1>2. s.now \in Int /\ s.sliceEnd \in Int
  BY FieldTypes
<1>3. CASE delta < MinDeadline
  <2>1. ArmDeadline(s, next) = CutAt(s, s.now)
    BY <1>3 DEF ArmDeadline
  <2>2. /\ CutAt(s, s.now) \in SchedulerType /\ CutAt(s, s.now).debt = 0
        /\ CutAt(s, s.now).now = s.now /\ CutAt(s, s.now).unsettled = s.unsettled
        /\ CutAt(s, s.now).deadlineAt = s.now /\ CutAt(s, s.now).sliceEnd = s.sliceEnd
        /\ CpuTime(CutAt(s, s.now)) = s.now
    BY <1>2, CutFacts
  <2>3. 0 \in -FallbackSpan .. 0
    BY SchedulerAssumption
  <2> QED
    BY <1>2, <2>1, <2>2, <2>3
<1>4. CASE ~(delta < MinDeadline)
  <2>1. delta = limit - s.now /\ delta \in 0 .. FallbackSpan
    BY <1>1, <1>2, <1>4, SchedulerAssumption
  <2>2. ArmDeadline(s, next) = [s EXCEPT !.deadlineAt = limit, !.debt = -delta]
    BY <1>4 DEF ArmDeadline
  <2> HIDE DEF limit, delta
  <2>3. -delta \in Int /\ -delta \in -FallbackSpan .. 0
    BY <2>1, SchedulerAssumption
  <2>4. ArmDeadline(s, next) \in SchedulerType
    BY <1>1, <2>2, <2>3, SetDeadline, Zenon
  <2>5. DOMAIN s = {"debt", "now", "unsettled", "deadlineAt", "sliceEnd", "sliceBegin"}
    BY DEF SchedulerType
  <2>6. /\ ArmDeadline(s, next).now = s.now /\ ArmDeadline(s, next).unsettled = s.unsettled
        /\ ArmDeadline(s, next).debt = -delta /\ ArmDeadline(s, next).deadlineAt = limit
        /\ ArmDeadline(s, next).sliceEnd = s.sliceEnd
    BY <2>2, <2>5
  <2>7. CpuTime(ArmDeadline(s, next)) = s.now
    BY <1>1, <1>2, <2>1, <2>6 DEF CpuTime
  <2> QED
    BY <1>1, <2>3, <2>4, <2>6, <2>7
<1> QED
  BY <1>3, <1>4

\* beginSlice fixes the two ends of the slice.
LEMMA BeginFacts ==
    ASSUME NEW s \in SchedulerType, NEW cycles \in Int
    PROVE  /\ BeginSlice(s, cycles) \in SchedulerType
           /\ BeginSlice(s, cycles).now = s.now
           /\ BeginSlice(s, cycles).unsettled = s.unsettled
           /\ BeginSlice(s, cycles).sliceEnd = s.now + cycles
<1> DEFINE r == [s EXCEPT !.sliceBegin = s.now]
           end == s.now + cycles
<1>1. s.now \in Int /\ end \in Int
  BY FieldTypes
<1>2. r \in SchedulerType
  BY <1>1 DEF SchedulerType
<1>3. BeginSlice(s, cycles) = [r EXCEPT !.sliceEnd = end]
  BY DEF BeginSlice
<1>4. r.now = s.now /\ r.unsettled = s.unsettled
  BY DEF SchedulerType
<1> HIDE DEF r, end
<1>5. [r EXCEPT !.sliceEnd = end] \in SchedulerType
  BY <1>1, <1>2 DEF SchedulerType
<1>6. DOMAIN r = {"debt", "now", "unsettled", "deadlineAt", "sliceEnd", "sliceBegin"}
  BY <1>2 DEF SchedulerType
<1> QED
  BY <1>3, <1>4, <1>5, <1>6 DEF end

\* The jump of a stopped CPU, injected into a settled scheduler and settled.
LEMMA JumpFacts ==
    ASSUME NEW s \in SchedulerType, NEW jump \in Int, s.now = CpuTime(s)
    PROVE  /\ Materialized(InjectPending(s, jump)) \in SchedulerType
           /\ Materialized(InjectPending(s, jump)).now = s.now + jump
           /\ Materialized(InjectPending(s, jump)).unsettled = s.now + jump
           /\ Materialized(InjectPending(s, jump)).debt = s.debt + jump
           /\ Materialized(InjectPending(s, jump)).sliceEnd = s.sliceEnd
           /\ CpuTime(Materialized(InjectPending(s, jump))) = s.now + jump
<1> DEFINE later == s.unsettled + jump
           owed == s.debt + jump
           r == [s EXCEPT !.unsettled = later]
           injected == InjectPending(s, jump)
<1>1. later \in Int /\ owed \in Int
  BY FieldTypes
<1>2. injected = [r EXCEPT !.debt = owed]
  BY DEF InjectPending
<1> HIDE DEF later, owed
<1>3. r \in SchedulerType
  BY <1>1 DEF SchedulerType
<1>4. r.deadlineAt = s.deadlineAt /\ r.sliceEnd = s.sliceEnd
  BY DEF SchedulerType
<1> HIDE DEF r
<1>5. [r EXCEPT !.debt = owed] \in SchedulerType
  BY <1>1, <1>3 DEF SchedulerType
<1>6. DOMAIN r = {"debt", "now", "unsettled", "deadlineAt", "sliceEnd", "sliceBegin"}
  BY <1>3 DEF SchedulerType
<1>7. /\ injected.debt = owed /\ injected.deadlineAt = s.deadlineAt
      /\ injected.sliceEnd = s.sliceEnd
  BY <1>2, <1>4, <1>6
<1>8. CpuTime(injected) = s.now + jump
  BY <1>7, FieldTypes DEF CpuTime, owed
<1>9. injected \in SchedulerType
  BY <1>2, <1>5
<1> HIDE DEF injected
<1>10. /\ Materialized(injected) \in SchedulerType
       /\ Materialized(injected).now = CpuTime(injected)
       /\ Materialized(injected).unsettled = CpuTime(injected)
       /\ Materialized(injected).debt = injected.debt
       /\ Materialized(injected).sliceEnd = injected.sliceEnd
       /\ CpuTime(Materialized(injected)) = CpuTime(injected)
  BY <1>9, MaterializedFacts
<1> QED
  BY <1>7, <1>8, <1>10 DEF owed, injected

--------------------------------------------------------------------------------
(* The invariant, and what each action does to it. *)

\* It is inductive as the conjunction of what the runs check: the overrun needs
\* the CPU to be inside the slice before each instruction, and that needs the
\* deadline to be inside the slice and debt to be at most zero.
Inv == TypeOK /\ Settled /\ Owed /\ DebtInRange /\ InsideSlice /\ Overrun

\* A device announces its next event in numbers.
LEMMA FutureIsTime ==
    ASSUME NEW s \in SchedulerType, NEW next \in Future(s)
    PROVE  next \in Int
<1>1. PICK d \in Delays : next = s.now + d
  BY DEF Future
<1>2. d \in Int
  BY RunLoopAssumption
<1>3. s.now \in Int
  BY FieldTypes
<1> QED
  BY <1>1, <1>2, <1>3

\* Before each instruction the account is one of three, all at the CPU's time and
\* none later than the deadline.
LEMMA AccessFacts ==
    ASSUME TypeOK, Owed, NEW s \in Access(sched)
    PROVE  /\ s \in SchedulerType
           /\ CpuTime(s) = CpuTime(sched) /\ s.sliceEnd = sched.sliceEnd
           /\ s.now \in Int /\ 0 <= s.now /\ s.now <= CpuTime(s)
           /\ s.now \in {sched.now, CpuTime(sched)}
           /\ \/ s.debt = sched.debt /\ s.deadlineAt = sched.deadlineAt
              \/ s.debt = 0 /\ s.deadlineAt = CpuTime(sched)
<1> DEFINE m == Materialized(sched)
<1>1. sched \in SchedulerType /\ 0 <= sched.now /\ sched.now <= CpuTime(sched)
  BY DEF TypeOK, Owed
<1>2. CpuTime(sched) \in Int /\ sched.now \in Int
  BY <1>1, FieldTypes DEF CpuTime
<1>3. /\ m \in SchedulerType /\ m.now = CpuTime(sched) /\ m.debt = sched.debt
      /\ m.deadlineAt = sched.deadlineAt /\ m.sliceEnd = sched.sliceEnd
      /\ CpuTime(m) = CpuTime(sched)
  BY <1>1, MaterializedFacts
<1> HIDE DEF m
<1>4. /\ Wake(m) \in SchedulerType /\ Wake(m).now = CpuTime(sched) /\ Wake(m).debt = 0
      /\ Wake(m).deadlineAt = CpuTime(sched) /\ Wake(m).sliceEnd = sched.sliceEnd
      /\ CpuTime(Wake(m)) = CpuTime(sched)
  BY <1>3, WakeFacts
<1>5. s \in {sched, m, Wake(m)}
  BY DEF Access, m
<1>6. CASE s = sched
  BY <1>1, <1>2, <1>6
<1>7. CASE s = m
  BY <1>1, <1>2, <1>3, <1>7
<1>8. CASE s = Wake(m)
  BY <1>1, <1>2, <1>4, <1>8
<1> QED
  BY <1>5, <1>6, <1>7, <1>8

LEMMA InitInv == Init => Inv
<1> SUFFICES ASSUME Init PROVE Inv
  OBVIOUS
<1>1. sched = ResetScheduler /\ pc = "idle"
  BY DEF Init
<1>2. /\ sched.debt = 0 /\ sched.now = 0 /\ sched.unsettled = 0
      /\ sched.deadlineAt = 0 /\ sched.sliceEnd = 0
  BY <1>1 DEF ResetScheduler
<1>3. sched \in SchedulerType
  BY <1>1 DEF ResetScheduler, SchedulerType
<1> QED
  BY <1>1, <1>2, <1>3, SchedulerAssumption
     DEF Inv, TypeOK, Settled, Owed, DebtInRange, InsideSlice, Overrun, CpuTime

\* Every step but the instruction itself leaves the account settled; what is left
\* of the invariant is then about the deadline and the end of the slice.
LEMMA SettledStep ==
    ASSUME sched' \in SchedulerType, 0 <= sched'.now,
           sched'.now = CpuTime(sched'), sched'.unsettled = CpuTime(sched'),
           sched'.debt >= -FallbackSpan,
           pc' \in {"idle", "hot", "skip"},
           pc' = "hot" => sched'.debt <= 0 /\ sched'.deadlineAt <= sched'.sliceEnd,
           pc' \in {"hot", "skip"} => sched'.now < sched'.sliceEnd,
           pc' = "idle" => Overrun'
    PROVE  Inv'
<1>1. sched'.now \in Int
  BY FieldTypes
<1>2. TypeOK' /\ Settled' /\ Owed'
  BY <1>1 DEF TypeOK, Settled, Owed
<1>3. DebtInRange' /\ InsideSlice' /\ Overrun'
  BY DEF DebtInRange, InsideSlice, Overrun
<1> QED
  BY <1>2, <1>3 DEF Inv

\* Arming a settled account before the end of the slice.
LEMMA ArmedStep ==
    ASSUME NEW s \in SchedulerType, 0 <= s.now, s.unsettled = s.now, s.now < s.sliceEnd,
           NEW next \in Int,
           sched' = ArmDeadline(s, next), pc' \in {"hot", "skip"}
    PROVE  Inv'
<1>1. s.now \in Int
  BY FieldTypes
<1>2. /\ sched' \in SchedulerType /\ sched'.now = s.now /\ sched'.unsettled = s.now
      /\ sched'.sliceEnd = s.sliceEnd /\ CpuTime(sched') = s.now
      /\ sched'.debt \in -FallbackSpan .. 0 /\ sched'.deadlineAt <= sched'.sliceEnd
  BY ArmFacts
<1>3. sched'.debt >= -FallbackSpan /\ sched'.debt <= 0
  BY <1>2, SchedulerAssumption
<1> QED
  BY <1>1, <1>2, <1>3, SettledStep

\* Holding a settled account before the end of the slice.
LEMMA HeldStep ==
    ASSUME NEW s \in SchedulerType, 0 <= s.now, s.unsettled = s.now, s.now < s.sliceEnd,
           sched' = HoldForPendingInterrupt(s), pc' = "hot"
    PROVE  Inv'
<1>1. s.now \in Int /\ s.sliceEnd \in Int
  BY FieldTypes
<1>2. /\ sched' \in SchedulerType /\ sched'.now = s.now /\ sched'.unsettled = s.now
      /\ sched'.debt = 0 /\ sched'.deadlineAt = s.now
      /\ sched'.sliceEnd = s.sliceEnd /\ CpuTime(sched') = s.now
  BY HoldFacts
<1>3. sched'.debt >= -FallbackSpan /\ sched'.deadlineAt <= sched'.sliceEnd
  BY <1>1, <1>2, SchedulerAssumption
<1> QED
  BY <1>1, <1>2, <1>3, SettledStep

LEMMA BeginInv == Inv /\ Begin => Inv'
<1> SUFFICES ASSUME Inv, Begin PROVE Inv'
  OBVIOUS
<1>1. PICK cycles \in SliceCycles, next \in Future(sched) :
        sched' = ArmDeadline(BeginSlice(sched, cycles), next)
  BY DEF Begin
<1> DEFINE begun == BeginSlice(sched, cycles)
<1>2. cycles \in Int /\ cycles > 0
  BY RunLoopAssumption
<1>3. /\ sched \in SchedulerType /\ 0 <= sched.now /\ sched.unsettled = sched.now
      /\ next \in Int /\ sched.now \in Int
  BY FutureIsTime, FieldTypes DEF Inv, TypeOK, Owed, Settled, Begin
<1>4. /\ begun \in SchedulerType /\ begun.now = sched.now
      /\ begun.unsettled = sched.now /\ begun.sliceEnd = sched.now + cycles
  BY <1>2, <1>3, BeginFacts
<1>5. sched' = ArmDeadline(begun, next) /\ pc' \in {"hot", "skip"}
  BY <1>1 DEF Begin
<1> HIDE DEF begun
<1>6. begun.now < begun.sliceEnd /\ 0 <= begun.now /\ begun.unsettled = begun.now
  BY <1>2, <1>3, <1>4
<1> QED
  BY <1>3, <1>4, <1>5, <1>6, ArmedStep

LEMMA ExternalInv == Inv /\ External => Inv'
<1> SUFFICES ASSUME Inv, External PROVE Inv'
  OBVIOUS
<1>1. /\ sched \in SchedulerType /\ pc = "idle" /\ pc' = "idle" /\ sched' = Wake(sched)
      /\ sched.now = CpuTime(sched) /\ 0 <= sched.now /\ sched.now \in Int
  BY FieldTypes DEF Inv, TypeOK, Settled, Owed, External
<1>2. /\ sched' \in SchedulerType /\ sched'.now = sched.now /\ sched'.unsettled = sched.now
      /\ sched'.debt = 0 /\ sched'.sliceEnd = sched.sliceEnd /\ CpuTime(sched') = sched.now
  BY <1>1, WakeFacts
<1>3. Overrun'
  BY <1>1, <1>2 DEF Inv, Overrun
<1> QED
  BY <1>1, <1>2, <1>3, SchedulerAssumption
     DEF Inv, TypeOK, Settled, Owed, DebtInRange, InsideSlice


LEMMA ExecuteInv == Inv /\ Execute => Inv'
<1> SUFFICES ASSUME Inv, Execute PROVE Inv'
  OBVIOUS
<1>1. PICK s \in Access(sched), used \in InstrCycles :
        /\ sched' = Advance(s, used)
        /\ pc' = IF Due(sched') THEN "slow" ELSE "hot"
  BY DEF Execute
<1>2. pc = "hot" /\ used \in Int /\ used > 0
  BY RunLoopAssumption DEF Execute
<1>3. /\ sched \in SchedulerType /\ sched.debt >= -FallbackSpan /\ sched.debt <= 0
      /\ CpuTime(sched) < sched.sliceEnd /\ sched.deadlineAt <= sched.sliceEnd
  BY <1>2 DEF Inv, TypeOK, DebtInRange, InsideSlice
<1>4. /\ s \in SchedulerType
      /\ CpuTime(s) = CpuTime(sched) /\ s.sliceEnd = sched.sliceEnd
      /\ s.now \in Int /\ 0 <= s.now /\ s.now <= CpuTime(s)
      /\ \/ s.debt = sched.debt /\ s.deadlineAt = sched.deadlineAt
         \/ s.debt = 0 /\ s.deadlineAt = CpuTime(sched)
  BY AccessFacts DEF Inv
<1>5. /\ sched.debt \in Int /\ s.debt \in Int /\ s.deadlineAt \in Int /\ s.sliceEnd \in Int
      /\ CpuTime(s) \in Int /\ FallbackSpan \in Int /\ CpuTime(s) = s.deadlineAt + s.debt
  BY <1>3, <1>4, FieldTypes, SchedulerAssumption DEF CpuTime
<1>6. /\ s.debt >= -FallbackSpan /\ s.debt <= 0 /\ CpuTime(s) < s.sliceEnd
      /\ s.deadlineAt <= s.sliceEnd
  BY <1>3, <1>4, <1>5, SchedulerAssumption
<1>7. /\ sched' \in SchedulerType /\ sched'.now = s.now
      /\ sched'.debt = s.debt + used /\ sched'.deadlineAt = s.deadlineAt
      /\ sched'.sliceEnd = s.sliceEnd /\ CpuTime(sched') = CpuTime(s) + used
  BY <1>1, <1>2, <1>4, AdvanceFacts
<1>8. TypeOK' /\ Settled' /\ Owed'
  BY <1>1, <1>2, <1>4, <1>5, <1>7 DEF TypeOK, Settled, Owed
<1>9. DebtInRange'
  BY <1>1, <1>2, <1>5, <1>6, <1>7 DEF DebtInRange, Due
<1>10. InsideSlice'
  BY <1>1, <1>2, <1>5, <1>6, <1>7 DEF InsideSlice, Due
<1>11. Overrun'
  BY <1>1, <1>2, <1>5, <1>6, <1>7 DEF Overrun
<1> QED
  BY <1>8, <1>9, <1>10, <1>11 DEF Inv

LEMMA HaltInv == Inv /\ Halt => Inv'
<1> SUFFICES ASSUME Inv, Halt PROVE Inv'
  OBVIOUS
<1>1. PICK s \in Access(sched) : sched' = Materialized(s)
  BY DEF Halt
<1>2. pc = "hot" /\ pc' = "idle"
  BY DEF Halt
<1>3. /\ sched \in SchedulerType /\ sched.debt >= -FallbackSpan
      /\ CpuTime(sched) < sched.sliceEnd
  BY <1>2 DEF Inv, TypeOK, DebtInRange, InsideSlice
<1>4. /\ s \in SchedulerType
      /\ CpuTime(s) = CpuTime(sched) /\ s.sliceEnd = sched.sliceEnd
      /\ s.now \in Int /\ 0 <= s.now /\ s.now <= CpuTime(s)
      /\ s.debt = sched.debt \/ s.debt = 0
  BY AccessFacts DEF Inv
<1>5. /\ sched' \in SchedulerType /\ sched'.now = CpuTime(s) /\ sched'.unsettled = CpuTime(s)
      /\ sched'.debt = s.debt /\ sched'.sliceEnd = s.sliceEnd /\ CpuTime(sched') = CpuTime(s)
  BY <1>1, <1>4, MaterializedFacts
<1>6. CpuTime(s) \in Int /\ s.sliceEnd \in Int
  BY <1>4, FieldTypes DEF CpuTime
<1>7. 0 <= sched'.now /\ sched'.debt >= -FallbackSpan
  BY <1>3, <1>4, <1>5, <1>6, SchedulerAssumption
<1>8. Overrun'
  BY <1>3, <1>4, <1>5, <1>6 DEF Overrun
<1> QED
  BY <1>2, <1>5, <1>7, <1>8, SettledStep

LEMMA ReachSlowInv == Inv /\ ReachSlow => Inv'
<1> SUFFICES ASSUME Inv, ReachSlow PROVE Inv'
  OBVIOUS
<1> DEFINE s == Materialized(sched)
<1>1. /\ pc = "slow" /\ sched \in SchedulerType /\ 0 <= sched.now /\ sched.now <= CpuTime(sched)
      /\ sched.debt >= -FallbackSpan /\ Overrun
  BY DEF Inv, TypeOK, Owed, DebtInRange, ReachSlow
<1>2. /\ s \in SchedulerType /\ s.now = CpuTime(sched) /\ s.unsettled = CpuTime(sched)
      /\ s.debt = sched.debt /\ s.sliceEnd = sched.sliceEnd /\ CpuTime(s) = CpuTime(sched)
  BY <1>1, MaterializedFacts
<1>3. sched.now \in Int /\ CpuTime(sched) \in Int /\ s.sliceEnd \in Int
  BY <1>1, <1>2, FieldTypes DEF CpuTime
<1>4. IF ReachedSliceEnd(s)
        THEN sched' = s /\ pc' = "idle"
        ELSE \/ sched' = HoldForPendingInterrupt(s) /\ pc' = "hot"
             \/ sched' = s /\ pc' = "skip"
             \/ \E next \in Future(s) : sched' = ArmDeadline(s, next) /\ pc' = "hot"
  BY DEF ReachSlow
<1> HIDE DEF s
<1>5. 0 <= s.now /\ s.unsettled = s.now /\ s.now = CpuTime(s)
  BY <1>1, <1>2, <1>3
<1>6. CASE ReachedSliceEnd(s)
  <2>1. sched' = s /\ pc' = "idle"
    BY <1>4, <1>6
  <2>2. Overrun'
    BY <1>1, <1>2, <2>1 DEF Overrun
  <2> QED
    BY <1>1, <1>2, <1>5, <2>1, <2>2, SettledStep
<1>7. CASE ~ReachedSliceEnd(s)
  <2>1. s.now < s.sliceEnd
    BY <1>2, <1>3, <1>7 DEF ReachedSliceEnd
  <2>2. CASE sched' = HoldForPendingInterrupt(s) /\ pc' = "hot"
    BY <1>2, <1>5, <2>1, <2>2, HeldStep
  <2>3. CASE sched' = s /\ pc' = "skip"
    BY <1>1, <1>2, <1>5, <2>1, <2>3, SettledStep
  <2>4. CASE \E next \in Future(s) : sched' = ArmDeadline(s, next) /\ pc' = "hot"
    <3>1. PICK next \in Future(s) : sched' = ArmDeadline(s, next) /\ pc' = "hot"
      BY <2>4
    <3>2. next \in Int
      BY <1>2, FutureIsTime
    <3> QED
      BY <1>2, <1>5, <2>1, <3>1, <3>2, ArmedStep
  <2> QED
    BY <1>4, <1>7, <2>2, <2>3, <2>4
<1> QED
  BY <1>6, <1>7

\* A sleeping CPU never passes the end of the slice by a whole step of its grid.
LEMMA SkipInv == Inv /\ SkipStopped => Inv'
<1> SUFFICES ASSUME Inv, SkipStopped PROVE Inv'
  OBVIOUS
<1>1. /\ pc = "skip" /\ sched \in SchedulerType /\ 0 <= sched.now
      /\ sched.now = CpuTime(sched) /\ sched.unsettled = sched.now
      /\ sched.debt >= -FallbackSpan /\ sched.now < sched.sliceEnd
  BY DEF Inv, TypeOK, Settled, Owed, DebtInRange, InsideSlice, SkipStopped
<1>2. /\ sched.now \in Int /\ sched.sliceEnd \in Int /\ sched.debt \in Int
      /\ StopStep \in Int /\ StopStep > 0 /\ FallbackSpan \in Int
  BY <1>1, FieldTypes, RunLoopAssumption, SchedulerAssumption
<1>3. PICK next \in Future(sched) :
        LET target == Least(next, sched.sliceEnd)
        IN  IF target <= sched.now
              THEN /\ sched' = HoldForPendingInterrupt(sched)
                   /\ pc' = IF ReachedSliceEnd(sched) THEN "idle" ELSE "hot"
              ELSE \E jump \in 1 .. target - sched.now + StopStep :
                     LET s == Materialized(InjectPending(sched, jump))
                     IN  /\ Landing(sched, target, jump)
                         /\ \/ /\ \E later \in Future(s) : sched' = ArmDeadline(s, later)
                               /\ pc' = IF ReachedSliceEnd(s) THEN "idle" ELSE "hot"
                            \/ /\ ~ReachedSliceEnd(s)
                               /\ sched' = HoldForPendingInterrupt(s) /\ pc' = "hot"
                            \/ /\ ~ReachedSliceEnd(s)
                               /\ sched' = s /\ pc' = "skip"
  BY DEF SkipStopped
<1> DEFINE target == Least(next, sched.sliceEnd)
<1>4. target \in Int /\ target <= sched.sliceEnd
  BY <1>1, <1>2, FutureIsTime DEF Least
<1>5. CASE target <= sched.now
  <2>1. /\ sched' = HoldForPendingInterrupt(sched)
        /\ pc' = IF ReachedSliceEnd(sched) THEN "idle" ELSE "hot"
    BY <1>3, <1>5
  <2>2. pc' = "hot"
    BY <1>1, <1>2, <2>1 DEF ReachedSliceEnd
  <2> QED
    BY <1>1, <2>1, <2>2, HeldStep
<1>6. CASE ~(target <= sched.now)
  <2>1. PICK jump \in 1 .. target - sched.now + StopStep :
          LET s == Materialized(InjectPending(sched, jump))
          IN  /\ Landing(sched, target, jump)
              /\ \/ /\ \E later \in Future(s) : sched' = ArmDeadline(s, later)
                    /\ pc' = IF ReachedSliceEnd(s) THEN "idle" ELSE "hot"
                 \/ /\ ~ReachedSliceEnd(s)
                    /\ sched' = HoldForPendingInterrupt(s) /\ pc' = "hot"
                 \/ /\ ~ReachedSliceEnd(s)
                    /\ sched' = s /\ pc' = "skip"
    BY <1>3, <1>6
  <2> DEFINE s == Materialized(InjectPending(sched, jump))
  <2>2. jump \in Int /\ jump >= 1 /\ jump < target - sched.now + StopStep
    BY <1>2, <1>4, <2>1 DEF Landing
  <2>3. /\ s \in SchedulerType /\ s.now = sched.now + jump /\ s.unsettled = sched.now + jump
        /\ s.debt = sched.debt + jump /\ s.sliceEnd = sched.sliceEnd
        /\ CpuTime(s) = sched.now + jump
    BY <1>1, <2>2, JumpFacts
  <2>4. \/ /\ \E later \in Future(s) : sched' = ArmDeadline(s, later)
           /\ pc' = IF ReachedSliceEnd(s) THEN "idle" ELSE "hot"
        \/ /\ ~ReachedSliceEnd(s)
           /\ sched' = HoldForPendingInterrupt(s) /\ pc' = "hot"
        \/ /\ ~ReachedSliceEnd(s)
           /\ sched' = s /\ pc' = "skip"
    BY <2>1
  <2> HIDE DEF s
  <2>5. /\ 0 <= s.now /\ s.unsettled = s.now /\ s.now = CpuTime(s)
        /\ s.debt >= -FallbackSpan /\ s.now < s.sliceEnd + StopStep
        /\ s.now \in Int /\ s.sliceEnd \in Int
    BY <1>1, <1>2, <1>4, <2>2, <2>3
  <2>6. CASE ReachedSliceEnd(s)
    <3>1. PICK later \in Future(s) : sched' = ArmDeadline(s, later)
      BY <2>4, <2>6
    <3>2. pc' = "idle"
      BY <2>4, <2>6
    <3>3. later \in Int
      BY <2>3, FutureIsTime
    <3>4. /\ sched' \in SchedulerType /\ sched'.now = s.now /\ sched'.unsettled = s.now
          /\ sched'.sliceEnd = s.sliceEnd /\ CpuTime(sched') = s.now
          /\ sched'.debt \in -FallbackSpan .. 0
      BY <2>3, <2>5, <3>1, <3>3, ArmFacts
    <3>5. sched'.debt >= -FallbackSpan
      BY <3>4, SchedulerAssumption
    <3>6. Overrun'
      BY <2>5, <3>4 DEF Overrun
    <3> QED
      BY <2>5, <3>2, <3>4, <3>5, <3>6, SettledStep
  <2>7. CASE ~ReachedSliceEnd(s)
    <3>1. s.now < s.sliceEnd
      BY <2>5, <2>7 DEF ReachedSliceEnd
    <3>2. CASE \E later \in Future(s) : sched' = ArmDeadline(s, later) /\ pc' = "hot"
      <4>1. PICK later \in Future(s) : sched' = ArmDeadline(s, later) /\ pc' = "hot"
        BY <3>2
      <4>2. later \in Int
        BY <2>3, FutureIsTime
      <4> QED
        BY <2>3, <2>5, <3>1, <4>1, <4>2, ArmedStep
    <3>3. CASE sched' = HoldForPendingInterrupt(s) /\ pc' = "hot"
      BY <2>3, <2>5, <3>1, <3>3, HeldStep
    <3>4. CASE sched' = s /\ pc' = "skip"
      BY <2>3, <2>5, <3>1, <3>4, SettledStep
    <3> QED
      BY <2>4, <2>7, <3>2, <3>3, <3>4
  <2> QED
    BY <2>6, <2>7
<1> QED
  BY <1>5, <1>6

LEMMA StutterInv == Inv /\ UNCHANGED vars => Inv'
BY DEF Inv, vars, TypeOK, Settled, Owed, DebtInRange, InsideSlice, Overrun, CpuTime

LEMMA NextInv == Inv /\ [Next]_vars => Inv'
BY BeginInv, ExternalInv, ExecuteInv, HaltInv, ReachSlowInv, SkipInv, StutterInv DEF Next

--------------------------------------------------------------------------------
(* The theorems. *)

\* The invariant holds throughout.
THEOREM Invariant == Spec => []Inv
BY InitInv, NextInv, PTL DEF Spec

\* The time of the devices, unsigned in the code, never underflows, every other time
\* value stays an integer and the loop stays in one of its four phases (Scheduler, Machine::runEventDriven).
THEOREM TypeCorrect == Spec => []TypeOK
<1>1. Inv => TypeOK
  BY DEF Inv
<1> QED
  BY <1>1, Invariant, PTL

\* No virtual time is lost or invented: between runs, and wherever the loop leaves
\* the hot path, now and unsettled are the CPU's own time (Scheduler::syncUnsettled,
\* consume; Machine::settle).
THEOREM TimeConserved == Spec => [](Settled /\ Owed)
<1>1. Inv => Settled /\ Owed
  BY DEF Inv
<1> QED
  BY <1>1, Invariant, PTL

\* debt never leaves [-FallbackSpan, one instruction], whatever the devices announce:
\* the 32-bit counter of the hot path cannot overflow (Scheduler::advance).
THEOREM DebtBounded == Spec => []DebtInRange
<1>1. Inv => DebtInRange
  BY DEF Inv
<1> QED
  BY <1>1, Invariant, PTL

\* A run overruns what its caller asked for by less than one instruction or one
\* step of a sleeping CPU (Scheduler::armDeadline, Machine::skipStopped).
THEOREM SliceRespected == Spec => [](InsideSlice /\ Overrun)
<1>1. Inv => InsideSlice /\ Overrun
  BY DEF Inv
<1> QED
  BY <1>1, Invariant, PTL

--------------------------------------------------------------------------------
(* RunLoop implements TwoClocks: every step is a step of the two clocks. *)

LEMMA ClocksInit == Init => Clocks!Init
BY DEF Init, ResetScheduler, CpuTime, Clocks!Init

\* A step that leaves the account settled at some instant not before the CPU's.
LEMMA SettledRun ==
    ASSUME Inv', CpuTime(sched) \in Int, sched'.now = CpuTime(sched'),
           CpuTime(sched') >= CpuTime(sched),
           pc \in {"idle", "hot", "slow", "skip"}
    PROVE  Clocks!Run
<1>1. CpuTime(sched') \in Int
  BY FieldTypes DEF Inv, TypeOK, CpuTime
<1> QED
  BY <1>1 DEF Clocks!Run

LEMMA BeginRun == Inv /\ Begin => Clocks!Run
<1> SUFFICES ASSUME Inv, Begin PROVE Clocks!Run
  OBVIOUS
<1>1. PICK cycles \in SliceCycles, next \in Future(sched) :
        sched' = ArmDeadline(BeginSlice(sched, cycles), next)
  BY DEF Begin
<1> DEFINE begun == BeginSlice(sched, cycles)
<1>2. sched \in SchedulerType /\ sched.now = CpuTime(sched) /\ pc = "idle"
  BY DEF Inv, TypeOK, Settled, Begin
<1>3. cycles \in Int /\ next \in Int /\ CpuTime(sched) \in Int
  BY <1>2, FutureIsTime, FieldTypes, RunLoopAssumption DEF CpuTime
<1>4. begun \in SchedulerType /\ begun.now = sched.now
  BY <1>2, <1>3, BeginFacts
<1>5. sched' = ArmDeadline(begun, next)
  BY <1>1
<1> HIDE DEF begun
<1>6. sched'.now = begun.now /\ CpuTime(sched') = begun.now
  BY <1>3, <1>4, <1>5, ArmFacts
<1>7. Inv'
  BY BeginInv
<1> QED
  BY <1>2, <1>3, <1>4, <1>6, <1>7, SettledRun

LEMMA ExternalRun == Inv /\ External => Clocks!Run
<1> SUFFICES ASSUME Inv, External PROVE Clocks!Run
  OBVIOUS
<1>1. /\ sched \in SchedulerType /\ sched.now = CpuTime(sched)
      /\ pc = "idle" /\ sched' = Wake(sched)
  BY DEF Inv, TypeOK, Settled, External
<1>2. CpuTime(sched) \in Int
  BY <1>1, FieldTypes DEF CpuTime
<1>3. sched'.now = sched.now /\ CpuTime(sched') = CpuTime(sched)
  BY <1>1, WakeFacts
<1>4. Inv'
  BY ExternalInv
<1> QED
  BY <1>1, <1>2, <1>3, <1>4, SettledRun

\* The devices stay behind, or were brought to the instant before the instruction.
LEMMA ExecuteRun == Inv /\ Execute => Clocks!Run
<1> SUFFICES ASSUME Inv, Execute PROVE Clocks!Run
  OBVIOUS
<1>1. PICK s \in Access(sched), used \in InstrCycles : sched' = Advance(s, used)
  BY DEF Execute
<1>2. used \in Int /\ used > 0 /\ pc' \in {"slow", "hot"}
  BY RunLoopAssumption DEF Execute
<1>3. /\ s \in SchedulerType /\ CpuTime(s) = CpuTime(sched)
      /\ s.now \in {sched.now, CpuTime(sched)}
  BY AccessFacts DEF Inv
<1>4. CpuTime(s) \in Int
  BY <1>3, FieldTypes DEF CpuTime
<1>5. sched'.now = s.now /\ CpuTime(sched') = CpuTime(s) + used
  BY <1>1, <1>2, <1>3, AdvanceFacts
<1>6. CpuTime(sched') \in Int /\ CpuTime(sched') >= CpuTime(sched)
  BY <1>2, <1>3, <1>4, <1>5
<1> QED
  BY <1>2, <1>3, <1>5, <1>6 DEF Clocks!Run

LEMMA HaltRun == Inv /\ Halt => Clocks!Run
<1> SUFFICES ASSUME Inv, Halt PROVE Clocks!Run
  OBVIOUS
<1>1. PICK s \in Access(sched) : sched' = Materialized(s)
  BY DEF Halt
<1>2. s \in SchedulerType /\ CpuTime(s) = CpuTime(sched)
  BY AccessFacts DEF Inv
<1>3. CpuTime(sched) \in Int
  BY <1>2, FieldTypes DEF CpuTime
<1>4. sched'.now = CpuTime(s) /\ CpuTime(sched') = CpuTime(s)
  BY <1>1, <1>2, MaterializedFacts
<1>5. Inv' /\ pc = "hot"
  BY HaltInv DEF Halt
<1> QED
  BY <1>2, <1>3, <1>4, <1>5, SettledRun

LEMMA ReachSlowRun == Inv /\ ReachSlow => Clocks!Run
<1> SUFFICES ASSUME Inv, ReachSlow PROVE Clocks!Run
  OBVIOUS
<1> DEFINE s == Materialized(sched)
<1>1. sched \in SchedulerType /\ pc = "slow"
  BY DEF Inv, TypeOK, ReachSlow
<1>2. CpuTime(sched) \in Int
  BY <1>1, FieldTypes DEF CpuTime
<1>3. s \in SchedulerType /\ s.now = CpuTime(sched) /\ CpuTime(s) = CpuTime(sched)
  BY <1>1, MaterializedFacts
<1>4. \/ sched' = s
      \/ sched' = HoldForPendingInterrupt(s)
      \/ \E next \in Future(s) : sched' = ArmDeadline(s, next)
  BY DEF ReachSlow
<1> HIDE DEF s
<1>5. sched'.now = CpuTime(sched) /\ CpuTime(sched') = CpuTime(sched)
  <2>1. CASE sched' = s
    BY <1>3, <2>1
  <2>2. CASE sched' = HoldForPendingInterrupt(s)
    BY <1>3, <2>2, HoldFacts
  <2>3. CASE \E next \in Future(s) : sched' = ArmDeadline(s, next)
    <3>1. PICK next \in Future(s) : sched' = ArmDeadline(s, next)
      BY <2>3
    <3>2. next \in Int
      BY <1>3, FutureIsTime
    <3> QED
      BY <1>3, <3>1, <3>2, ArmFacts
  <2> QED
    BY <1>4, <2>1, <2>2, <2>3
<1>6. Inv'
  BY ReachSlowInv
<1> QED
  BY <1>1, <1>2, <1>5, <1>6, SettledRun

LEMMA SkipRun == Inv /\ SkipStopped => Clocks!Run
<1> SUFFICES ASSUME Inv, SkipStopped PROVE Clocks!Run
  OBVIOUS
<1>1. sched \in SchedulerType /\ sched.now = CpuTime(sched) /\ pc = "skip"
  BY DEF Inv, TypeOK, Settled, SkipStopped
<1>2. CpuTime(sched) \in Int
  BY <1>1, FieldTypes DEF CpuTime
<1>3. \/ sched' = HoldForPendingInterrupt(sched)
      \/ \E jump \in Nat :
           LET s == Materialized(InjectPending(sched, jump))
           IN  \/ \E later \in Future(s) : sched' = ArmDeadline(s, later)
               \/ sched' = HoldForPendingInterrupt(s)
               \/ sched' = s
  BY DEF SkipStopped, Landing
<1>4. sched'.now = CpuTime(sched') /\ CpuTime(sched') >= CpuTime(sched)
  <2>1. CASE sched' = HoldForPendingInterrupt(sched)
    BY <1>1, <1>2, <2>1, HoldFacts
  <2>2. ASSUME NEW jump \in Nat,
               LET s == Materialized(InjectPending(sched, jump))
               IN  \/ \E later \in Future(s) : sched' = ArmDeadline(s, later)
                   \/ sched' = HoldForPendingInterrupt(s)
                   \/ sched' = s
        PROVE  sched'.now = CpuTime(sched') /\ CpuTime(sched') >= CpuTime(sched)
    <3> DEFINE s == Materialized(InjectPending(sched, jump))
    <3>1. jump \in Int /\ jump >= 0
      OBVIOUS
    <3>2. /\ s \in SchedulerType /\ s.now = sched.now + jump
          /\ CpuTime(s) = sched.now + jump
      BY <1>1, <3>1, JumpFacts
    <3>3. \/ \E later \in Future(s) : sched' = ArmDeadline(s, later)
          \/ sched' = HoldForPendingInterrupt(s)
          \/ sched' = s
      BY <2>2
    <3> HIDE DEF s
    <3>4. sched'.now = s.now /\ CpuTime(sched') = s.now
      <4>1. CASE \E later \in Future(s) : sched' = ArmDeadline(s, later)
        <5>1. PICK later \in Future(s) : sched' = ArmDeadline(s, later)
          BY <4>1
        <5>2. later \in Int
          BY <3>2, FutureIsTime
        <5> QED
          BY <3>2, <5>1, <5>2, ArmFacts
      <4>2. CASE sched' = HoldForPendingInterrupt(s)
        BY <3>2, <4>2, HoldFacts
      <4>3. CASE sched' = s
        BY <3>2, <4>3
      <4> QED
        BY <3>3, <4>1, <4>2, <4>3
    <3> QED
      BY <1>1, <1>2, <3>1, <3>2, <3>4
  <2> QED
    BY <1>3, <2>1, <2>2
<1>5. Inv'
  BY SkipInv
<1> QED
  BY <1>1, <1>2, <1>4, <1>5, SettledRun

\* Whatever the devices and the guest do, the loop moves the two clocks as
\* TwoClocks says: forward, the devices never ahead, and level at every return.
THEOREM ImplementsTwoClocks == Spec => ClocksSpec
<1>1. Inv /\ [Next]_vars => [Clocks!Run]_(Clocks!clocks)
  <2> SUFFICES ASSUME Inv, [Next]_vars PROVE [Clocks!Run]_(Clocks!clocks)
    OBVIOUS
  <2>1. CASE Next
    BY <2>1, BeginRun, ExternalRun, ExecuteRun, HaltRun, ReachSlowRun, SkipRun DEF Next
  <2>2. CASE UNCHANGED vars
    BY <2>2 DEF vars, Clocks!clocks, CpuTime
  <2> QED
    BY <2>1, <2>2
<1> QED
  BY <1>1, ClocksInit, Invariant, PTL DEF Spec, ClocksSpec, Clocks!Spec

================================================================================
