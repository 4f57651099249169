------------------------------ MODULE DeviceTime -------------------------------
(******************************************************************************)
(* Why the event-driven loop may leave the devices behind.  Two copies of the   *)
(* same devices live through the same instructions: prompt is ticked by every   *)
(* one of them, as runWith does, counting each timer decrement; deferred is only *)
(* owed the time, and gets it in one settlement when its deadline is reached or *)
(* when the guest writes a register (Machine::settle, materialize).              *)
(*                                                                              *)
(* The predictions are compared with what happens when the devices are stepped  *)
(* two cycles at a time, the resolution of the CPU's clock.                      *)
(*                                                                              *)
(* A guest either programs timers or sets the clock, digit by digit: a register  *)
(* takes any nibble, so the fields of the calendar can leave their ranges.       *)
(******************************************************************************)
EXTENDS Devices

CONSTANTS
    StepCosts,    \* what an instruction may cost
    Controls,       \* what the guest writes to a timer's control register
    DataValues,     \* and to its data register
    GuestTimers,    \* the timers it programs
    BootMfp,     \* what the boot code has left in the MFP
    Dates,          \* the instants the host sets: <<year, month, day, hour, minute, second>>
    Nibbles,        \* what the guest writes to a digit
    MaxClockWrites, \* bound on those writes
    MaxElapsed      \* bound on the time lived through

VARIABLES program, prompt, deferred, owed, elapsed, clockWrites

deviceVars == <<program, prompt, deferred, owed, elapsed, clockWrites>>

\* An instruction costs at most some hundred cycles: less than the display period, the
\* blank or a second lasts.  kNoDeadline lies beyond every event.
ASSUME DeviceTimeAssumption ==
    /\ StepCosts \subseteq Nat \ {0} /\ StepCosts # {}
    /\ \A c \in StepCosts : c % 2 = 0 /\ c <= VBlankBegin /\ c <= VBlankCycles /\ c < CyclesPerSecond
    /\ GuestTimers \subseteq Timer /\ Controls \subseteq 0 .. 15
    /\ DataValues \subseteq 0 .. TimerModulus - 1 /\ Nibbles \subseteq 0 .. 15
    /\ NoDeadline >= FrameCycles /\ \A i \in 0 .. 7 : NoDeadline >= 2 * PrescaleTable[i]
    /\ BootMfp \subseteq MfpType /\ Dates \subseteq Nat \X Nat \X Nat \X Nat \X Nat \X Nat

SetClock(d) == SetDateTime(ResetRtc, d[1], d[2], d[3], d[4], d[5], d[6])

TimeInit ==
    /\ program \in {"timers", "clock"}
    /\ prompt \in [mfp : IF program = "timers" THEN BootMfp ELSE {ResetMfp},
                   crtc : {ResetCrtc},
                   rtc : IF program = "timers" THEN {ResetRtc} ELSE {SetClock(d) : d \in Dates},
                   scc : {FALSE}, iosc : {[enable |-> FALSE, line |-> FALSE]}]
    /\ deferred = prompt /\ owed = 0 /\ elapsed = 0 /\ clockWrites = 0

\* The guest that sets the clock lives through it in its longest instructions.
Pace ==
    IF program = "timers" THEN StepCosts
    ELSE {cycles \in StepCosts : \A other \in StepCosts : cycles >= other}

\* One instruction, before the deadline of the deferred copy is reached.
Elapse(cycles) ==
    /\ elapsed < MaxElapsed
    /\ owed < CyclesToNextEvent(deferred)
    /\ prompt' = TickDevicesBy(FALSE, prompt, cycles)
    /\ owed' = owed + cycles /\ elapsed' = elapsed + cycles
    /\ UNCHANGED <<program, deferred, clockWrites>>

\* Machine::settle.
SettleOwed ==
    /\ owed > 0
    /\ deferred' = Settle(deferred, owed) /\ owed' = 0
    /\ UNCHANGED <<program, prompt, elapsed, clockWrites>>

\* What the guest writes to the MFP (Mfp::write).
Writes ==
    [kind : {"control"}, timer : GuestTimers, value : Controls]
    \cup [kind : {"data"}, timer : GuestTimers, value : DataValues]
    \cup [kind : {"ier"}, bits : SUBSET {TimerChannel[t] : t \in GuestTimers}]
Written(m, w) ==
    CASE w.kind = "control" -> WriteTimerControl(m, w.timer, w.value)
      [] w.kind = "data" -> WriteTimerData(m, w.timer, w.value)
      [] w.kind = "ier" -> WriteIer(m, GroupB, w.bits)

\* Such a write settles first (materialize).
Write(w) ==
    /\ program = "timers"
    /\ prompt' = [prompt EXCEPT !.mfp = Written(@, w)]
    /\ deferred' = [Settle(deferred, owed) EXCEPT !.mfp = Written(@, w)]
    /\ owed' = 0
    /\ UNCHANGED <<program, elapsed, clockWrites>>

\* A register of the clock takes a nibble; its range is accessed settled, too.
ClockField == {"second", "minute", "hour", "day", "month", "year"}
ClockWrites == [field : ClockField, digit : {1, 10}, value : Nibbles]
               \cup [field : {"weekday"}, digit : {1}, value : Nibbles]
ClockWritten(r, w) ==
    IF w.field = "weekday" THEN WriteWeekday(r, w.value)
    ELSE WriteDigit(r, w.field, w.digit, w.value)
WriteClock(w) ==
    /\ program = "clock" /\ clockWrites < MaxClockWrites
    /\ prompt' = [prompt EXCEPT !.rtc = ClockWritten(@, w)]
    /\ deferred' = [Settle(deferred, owed) EXCEPT !.rtc = ClockWritten(@, w)]
    /\ owed' = 0 /\ clockWrites' = clockWrites + 1
    /\ UNCHANGED <<program, elapsed>>

TimeNext ==
    \/ \E cycles \in Pace : Elapse(cycles)
    \/ SettleOwed
    \/ \E w \in Writes : Write(w)
    \/ \E w \in ClockWrites : WriteClock(w)

TimeSpec == TimeInit /\ [][TimeNext]_deviceVars

--------------------------------------------------------------------------------
\* Settling late and in one go leaves the devices exactly where ticking them by
\* every instruction does, down to the phase of each prescaler, and counting a
\* timer by the short path or by the loop is the same (settle, Mfp::tickFast).
DeferredIsPrompt == Settle(deferred, owed) = prompt

\* The devices n steps of two cycles later, and what of it the outside can see.
Walk(d, n) ==
    LET after[i \in 0 .. n] == IF i = 0 THEN d ELSE TickDevices(after[i - 1], 2)
    IN  after[n]
Seen(d) == <<d.mfp.ipr, d.mfp.vdisp, d.crtc.inVBlank,
             [d.rtc EXCEPT !.accumulator = 0]>>

\* The prompt copy with nothing pending, so that each timeout shows.
Cleared == [prompt EXCEPT !.mfp.ipr = {}]
Steps == (CyclesToNextEvent(prompt) + 1) \div 2

\* No timer raises, no edge passes and no second is carried before the predicted
\* cycle; and something does happen at it.
DeadlineExact ==
    /\ Steps > 0 => Seen(Walk(Cleared, Steps - 1)) = Seen(Cleared)
    /\ Seen(Walk(Cleared, Steps)) # Seen(Cleared)

\* The other prediction, for every running timer whether or not it interrupts: no
\* counter moves before it, one does at it, unless it ends and reloads a data register of 1.
Counters(d) == d.mfp.timerValue
TimerChangeExact ==
    LET cycles == CyclesUntilAnyTimerChange(prompt.mfp)
    IN  Running(prompt.mfp) # {} =>
          /\ Counters(Walk(prompt, (cycles \div 2) - 1)) = Counters(prompt)
          /\ \/ Counters(Walk(prompt, cycles \div 2)) # Counters(prompt)
             \/ \E t \in Running(prompt.mfp) : prompt.mfp.timerValue[t] = 1 /\ prompt.mfp.data[t] = 1

\* Both predictions are exact: jumping to them crosses nothing observable, and the
\* loop is not stopped for nothing (nextEventCycle and the comment over skipStopped;
\* Mfp::cyclesUntilAnyTimerChange).  Between a write that shrinks a prescale and the next
\* tick they are not: the subtraction wraps.
PredictionsExact == Drained(prompt.mfp) => DeadlineExact /\ TimerChangeExact

\* The reference: the months of a year (every fourth is a leap year from 1901 to
\* 2099), and the number of a day within its century.
LeapDay(y) == IF y % 4 = 0 THEN 1 ELSE 0
MonthLength(m, y) == <<31, 28 + LeapDay(y), 31, 30, 31, 30, 31, 31, 30, 31, 30, 31>>[m]
InRange(r) ==
    /\ r.second < 60 /\ r.minute < 60 /\ r.hour < 24 /\ r.year < 100
    /\ r.month \in 1 .. 12 /\ r.day \in 1 .. MonthLength(r.month, r.year)

YearStart(y) == 365 * y + ((y + 3) \div 4)
MonthStart(m, y) ==
    <<0, 31, 59, 90, 120, 151, 181, 212, 243, 273, 304, 334>>[m] + IF m > 2 THEN LeapDay(y) ELSE 0
DayNumber(r) == YearStart(r.year) + MonthStart(r.month, r.year) + (r.day - 1)
SecondOfDay(r) == 3600 * r.hour + 60 * r.minute + r.second
LastSecond == 86399
CenturyDays == 36525

\* From a date of the calendar a second leads to the next instant of the century,
\* over every minute, month, leap day and year, and the day of the week turns with
\* the day (advanceOneSecond, and daysInMonth).
CountsOn(r, s) ==
    /\ InRange(s)
    /\ SecondOfDay(s) = (SecondOfDay(r) + 1) % (LastSecond + 1)
    /\ DayNumber(s) = IF SecondOfDay(r) < LastSecond THEN DayNumber(r)
                      ELSE (DayNumber(r) + 1) % CenturyDays
    /\ (s.weekday = r.weekday) = (s.day = r.day)
Carried == prompt'.rtc.accumulator < prompt.rtc.accumulator
\* A field that a register write has put out of range is not counted further out: it
\* stays where it is until its carry comes, which brings it back.
Limit == [second |-> 59, minute |-> 59, hour |-> 23, day |-> 31, month |-> 12, year |-> 99]
NotFurtherOut(r, s) == \A f \in ClockField : s[f] <= r[f] \/ s[f] <= Limit[f]
NextInstant ==
    [][Carried => /\ InRange(prompt.rtc) => CountsOn(prompt.rtc, prompt'.rtc)
                  /\ NotFurtherOut(prompt.rtc, prompt'.rtc)]_deviceVars

================================================================================
