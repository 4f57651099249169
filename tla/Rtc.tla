---------------------------------- MODULE Rtc ----------------------------------
(******************************************************************************)
(* The real-time clock, class x68k::Rtc (core/dev/rtc.{h,cpp}), as operators on *)
(* a record r: the calendar and the cycles collected towards the next second.   *)
(* Bank 1 (alarm, never raised) only stores what is written and is left out.    *)
(******************************************************************************)
EXTENDS Integers

CONSTANT CyclesPerSecond    \* kCyclesPerSecond

ASSUME RtcAssumption == CyclesPerSecond \in Nat \ {0}

\* A register write puts any nibble in the place of a decimal digit, so a field
\* can leave its calendar range.
RtcType ==
    [second : Nat, minute : Nat, hour : Nat, weekday : 0 .. 6,
     day : Nat, month : Nat, year : Nat, accumulator : Nat]

\* Rtc::reset
ResetRtc ==
    [second |-> 0, minute |-> 0, hour |-> 0, weekday |-> 0,
     day |-> 1, month |-> 1, year |-> 26, accumulator |-> 0]

\* Mutant: no leap years.
DaysWithoutLeap(month, year) ==
    IF month = 2 THEN 28 ELSE IF month \in {4, 6, 9, 11} THEN 30 ELSE 31

\* daysInMonth
DaysInMonth(month, year) ==
    CASE month = 2 -> IF year % 4 = 0 THEN 29 ELSE 28
      [] month \in {4, 6, 9, 11} -> 30
      [] OTHER -> 31

\* A field passes its carry on.
Carries(value, limit) == value + 1 >= limit

\* Rtc::advanceOneSecond: each field either absorbs the carry or passes it on.
AdvanceOneSecond(r) ==
    LET midnight == [r EXCEPT !.second = 0, !.minute = 0, !.hour = 0, !.weekday = (@ + 1) % 7]
        lastDay == Carries(r.day, DaysInMonth(r.month, r.year) + 1)
    IN  CASE ~Carries(r.second, 60) -> [r EXCEPT !.second = @ + 1]
          [] Carries(r.second, 60) /\ ~Carries(r.minute, 60) ->
                [r EXCEPT !.second = 0, !.minute = @ + 1]
          [] Carries(r.second, 60) /\ Carries(r.minute, 60) /\ ~Carries(r.hour, 24) ->
                [r EXCEPT !.second = 0, !.minute = 0, !.hour = @ + 1]
          [] OTHER ->
                IF ~lastDay THEN [midnight EXCEPT !.day = @ + 1]
                ELSE IF ~Carries(r.month, 13) THEN [midnight EXCEPT !.day = 1, !.month = @ + 1]
                ELSE [midnight EXCEPT !.day = 1, !.month = 1, !.year = (@ + 1) % 100]

\* Rtc::tickFast and tickCarry
RtcTick(r, cycles) ==
    LET total == r.accumulator + cycles
        seconds == total \div CyclesPerSecond
        after[n \in 0 .. seconds] == IF n = 0 THEN r ELSE AdvanceOneSecond(after[n - 1])
    IN  [after[seconds] EXCEPT !.accumulator = total % CyclesPerSecond]

\* Rtc::cyclesUntilCarry
CyclesUntilCarry(r) == CyclesPerSecond - r.accumulator

\* Rtc::setDateTime: what is out of range is folded back, and the weekday and
\* the phase of the second are left as they are.
SetDateTime(r, year, month, day, hour, minute, second) ==
    LET y == year % 100
        mo == IF month \in 1 .. 12 THEN month ELSE 1
        d == IF day \in 1 .. DaysInMonth(mo, y) THEN day ELSE 1
    IN  [r EXCEPT !.year = y, !.month = mo, !.day = d,
                  !.hour = hour % 24, !.minute = minute % 60, !.second = second % 60]

\* Rtc::write with bank 0 selected: digit is 1 or 10, v any nibble.
WriteDigit(r, field, digit, v) ==
    [r EXCEPT ![field] = IF digit = 1 THEN (@ \div 10) * 10 + v ELSE v * 10 + (@ % 10)]
WriteWeekday(r, v) == [r EXCEPT !.weekday = v % 7]

================================================================================
