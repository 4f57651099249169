------------------------------ MODULE MCDeviceTime -----------------------------
(* DeviceTime with three timers of different prescales: A raises nothing the IER  *)
(* lets through, C and D do; timer B waits for an external input that never comes. *)
EXTENDS DeviceTime

MCPrescaleTable == [i \in 0 .. 7 |-> CASE i = 0 -> 0 [] i = 1 -> 1 [] i = 2 -> 3 [] OTHER -> 4]

Timed(m, t, control, data) == WriteTimerControl(WriteTimerData(m, t, data), t, control)
Enabled(m, bits) == WriteIer(m, GroupB, bits)

MCBootMfp ==
    LET free == Timed(Timed(ResetMfp, "A", 2, 3), "B", 9, 1)
    IN  {Enabled(Timed(Timed(free, "C", c, 2), "D", 3, 0), {5, 4, 6}) : c \in {1, 2}}
        \cup {WriteAer(Enabled(Timed(free, "C", 2, 2), {5, 6}), TRUE)}

\* The last two seconds of the days around each turn of the calendar.
MCDates ==
    {<<y, m, d, 23, 59, 58>> : y \in {3, 4}, m \in {2}, d \in {28, 29}}
    \cup {<<99, 12, 31, 23, 59, 58>>, <<4, 12, 30, 23, 59, 58>>, <<3, 4, 30, 23, 59, 58>>,
          <<4, 1, 31, 23, 59, 58>>, <<4, 6, 15, 23, 58, 59>>, <<4, 6, 15, 22, 59, 59>>}

================================================================================
