----------------------------- MODULE DeviceProofs ------------------------------
(******************************************************************************)
(* Lemmas about the timers, the CRTC, the clock and all the devices, for      *)
(* every timing: their types, that nothing becomes pending before the         *)
(* deadline they announce, that ticking them in one go is ticking them in     *)
(* steps, and what a second does to the clock.                                *)
(*                                                                            *)
(* The devices count in loops (tickTimerCounted, settle, the clock's          *)
(* seconds), so the proofs need induction; Induction below gets it, as a      *)
(* statement about sets, from the theorem that an injection of a finite set   *)
(* into itself is onto.                                                       *)
(******************************************************************************)
EXTENDS Devices, TLAPS, FiniteSetTheorems

--------------------------------------------------------------------------------
(* Induction, and what a loop of n passes computes. *)

\* A set that holds 0, and n + 1 with every n, holds every natural number: the least
\* missing number x would make y |-> y - 1 an injection of the missing ones that misses x.
LEMMA Induction ==
    ASSUME NEW T, 0 \in T, \A n \in Nat : n \in T => n + 1 \in T
    PROVE  Nat \subseteq T
<1> SUFFICES ASSUME NEW x \in Nat, x \notin T PROVE FALSE
  OBVIOUS
<1> DEFINE R == {y \in 0 .. x : y \notin T}
           f == [y \in R |-> y - 1]
<1>1. \A y \in R : y - 1 \in R
  OBVIOUS
<1>2. IsFiniteSet(R)
  <2>1. IsFiniteSet(0 .. x)
    BY FS_Interval
  <2>2. R \subseteq 0 .. x
    OBVIOUS
  <2> HIDE DEF R
  <2> QED BY <2>1, <2>2, FS_Subset
<1>3. f \in Injection(R, R)
  BY <1>1 DEF Injection, IsInjective
<1>4. x \in R /\ \A y \in R : f[y] # x
  OBVIOUS
<1> HIDE DEF R, f
<1>5. f \in Surjection(R, R)
  BY <1>2, <1>3, FS_Injection
<1> QED BY <1>4, <1>5 DEF Surjection

\* The same up to a bound.
LEMMA InductionUpTo ==
    ASSUME NEW n \in Nat, NEW T, 0 \in T, \A k \in 1 .. n : k - 1 \in T => k \in T
    PROVE  0 .. n \subseteq T
<1> DEFINE U == {k \in Nat : k <= n => k \in T}
<1>1. 0 \in U
  OBVIOUS
<1>2. \A k \in Nat : k \in U => k + 1 \in U
  <2> SUFFICES ASSUME NEW k \in Nat, k \in U, k + 1 <= n PROVE k + 1 \in T
    OBVIOUS
  <2>1. k \in T /\ k + 1 \in 1 .. n /\ (k + 1) - 1 = k
    OBVIOUS
  <2> QED BY <2>1
<1> HIDE DEF U
<1>3. Nat \subseteq U
  BY <1>1, <1>2, Induction
<1> USE DEF U
<1> QED BY <1>3

\* a lists base and the n first results of step.
IteratesIn(T, a, n, base, step) ==
    a \in [0 .. n -> T] /\ a[0] = base /\ \A k \in 1 .. n : a[k] = step[a[k - 1]]

\* Such a list exists: what the recursive functions of the model stand for.
LEMMA Iterates ==
    ASSUME NEW n \in Nat, NEW T, NEW base \in T, NEW step \in [T -> T]
    PROVE  \E a : IteratesIn(T, a, n, base, step)
<1> DEFINE U == {m \in Nat : \E a : IteratesIn(T, a, m, base, step)}
<1>1. 0 \in U
  <2> DEFINE a == [k \in 0 .. 0 |-> base]
  <2>1. a \in [0 .. 0 -> T] /\ a[0] = base
    OBVIOUS
  <2> HIDE DEF a
  <2> QED BY <2>1 DEF IteratesIn
<1>2. \A m \in Nat : m \in U => m + 1 \in U
  <2> SUFFICES ASSUME NEW m \in Nat, NEW a, IteratesIn(T, a, m, base, step)
               PROVE  m + 1 \in U
    OBVIOUS
  <2> USE DEF IteratesIn
  <2> DEFINE b == [k \in 0 .. m + 1 |-> IF k = m + 1 THEN step[a[m]] ELSE a[k]]
  <2>1. m \in 0 .. m /\ \A k \in 0 .. m + 1 : k # m + 1 => k \in 0 .. m
    OBVIOUS
  <2>2. b \in [0 .. m + 1 -> T]
    BY <2>1
  <2>3. b[0] = base /\ \A k \in 1 .. m + 1 : b[k] = step[b[k - 1]]
    <3>1. b[0] = base
      OBVIOUS
    <3>2. b[m + 1] = step[b[(m + 1) - 1]]
      OBVIOUS
    <3>3. \A k \in 1 .. m : b[k] = step[b[k - 1]]
      OBVIOUS
    <3>4. \A k \in 1 .. m + 1 : k = m + 1 \/ k \in 1 .. m
      OBVIOUS
    <3> QED BY <3>1, <3>2, <3>3, <3>4
  <2> HIDE DEF b
  <2> QED BY <2>2, <2>3
<1> HIDE DEF U
<1>3. Nat \subseteq U
  BY <1>1, <1>2, Induction
<1> USE DEF U
<1> QED BY <1>3

\* Division with remainder.
LEMMA DivBound ==
    ASSUME NEW c \in Nat, NEW p \in Nat, p # 0
    PROVE  /\ c \div p \in Nat /\ (c \div p) * p <= c /\ c < (c \div p) * p + p
           /\ c % p \in 0 .. p - 1
OBVIOUS

\* An MFP, whose prescale counters may be below zero while they are counted down.
Counting == [ier : SUBSET Channel, ipr : SUBSET Channel, imr : SUBSET Channel, isr : SUBSET Channel,
     softwareEoi : BOOLEAN, risingEdge : BOOLEAN, vdisp : BOOLEAN,
     control : [Timer -> 0 .. 15], prescaleCounter : [Timer -> Int],
     timerValue : [Timer -> 0 .. TimerModulus - 1],
     data : [Timer -> 0 .. TimerModulus - 1], received : BOOLEAN]

\* The fields of an MFP whose prescale counters may have gone below zero.
LEMMA CountingFields ==
    ASSUME NEW m \in Counting
    PROVE  /\ m.ier \in SUBSET Channel /\ m.ipr \in SUBSET Channel
           /\ m.imr \in SUBSET Channel /\ m.isr \in SUBSET Channel
           /\ m.softwareEoi \in BOOLEAN /\ m.risingEdge \in BOOLEAN /\ m.vdisp \in BOOLEAN
           /\ m.control \in [Timer -> 0 .. 15] /\ m.prescaleCounter \in [Timer -> Int]
           /\ m.timerValue \in [Timer -> 0 .. TimerModulus - 1]
           /\ m.data \in [Timer -> 0 .. TimerModulus - 1] /\ m.received \in BOOLEAN
BY DEF Counting

\* An MFP is one of these, and one of these with counters in Nat is an MFP.
LEMMA MfpIsCounting ==
    /\ MfpType \subseteq Counting
    /\ \A m \in Counting : m.prescaleCounter \in [Timer -> Nat] => m \in MfpType
BY DEF MfpType, Counting

\* Every timer has a channel.
LEMMA ChannelOfTimer == \A t \in Timer : TimerChannel[t] \in Channel
BY DEF Timer, TimerChannel, Channel

\* A prescale is a number, 0 for a stopped timer.
LEMMA PrescaleIsNat == ASSUME NEW m \in Counting, NEW t \in Timer PROVE Prescale(m, t) \in Nat
<1>1. m.control[t] \in 0 .. 15
  BY DEF Counting
<1>2. m.control[t] < 8 => m.control[t] % 8 \in 0 .. 7
  BY <1>1
<1> QED BY <1>1, <1>2, MfpAssumption DEF Prescale

\* What raise leaves alone.
LEMMA RaiseFacts ==
    ASSUME NEW m \in Counting, NEW c \in Channel
    PROVE  /\ Raise(m, c) \in Counting
           /\ Raise(m, c).prescaleCounter = m.prescaleCounter
           /\ Raise(m, c).control = m.control /\ Raise(m, c).timerValue = m.timerValue
           /\ Raise(m, c).data = m.data /\ Raise(m, c).ier = m.ier
           /\ Raise(m, c).vdisp = m.vdisp
           /\ c \notin m.ier => Raise(m, c).ipr = m.ipr
<1>1. CASE c \in m.ier
  <2>1. Raise(m, c) = [m EXCEPT !.ipr = m.ipr \cup {c}]
    BY <1>1 DEF Raise
  <2>2. m.ipr \cup {c} \in SUBSET Channel
    BY DEF Counting
  <2>3. [m EXCEPT !.ipr = m.ipr \cup {c}] \in Counting
    BY <2>2 DEF Counting
  <2> QED BY <1>1, <2>1, <2>3 DEF Counting
<1>2. CASE c \notin m.ier
  BY <1>2 DEF Raise
<1> QED BY <1>1, <1>2

\* Nothing but timer t has moved from m to n, and what it has raised.
OnlyTimer(t, m, n) ==
    /\ n.control = m.control /\ n.data = m.data /\ n.ier = m.ier /\ n.vdisp = m.vdisp
    /\ \A u \in Timer \ {t} :
          n.prescaleCounter[u] = m.prescaleCounter[u] /\ n.timerValue[u] = m.timerValue[u]

\* One pass of the loop of tickTimerCounted.
LEMMA CountDownFacts ==
    ASSUME NEW m \in Counting, NEW t \in Timer
    PROVE  /\ CountDown(m, t) \in Counting
           /\ OnlyTimer(t, m, CountDown(m, t))
           /\ CountDown(m, t).prescaleCounter[t] = m.prescaleCounter[t] - Prescale(m, t)
           /\ ~TimerRaises(m, t) => CountDown(m, t).ipr = m.ipr
           /\ Decrements(m, t) > 1 =>
                 /\ CountDown(m, t).ipr = m.ipr
                 /\ Decrements(CountDown(m, t), t) = Decrements(m, t) - 1
<1> DEFINE v == IF m.timerValue[t] = 0 THEN TimerModulus - 1 ELSE m.timerValue[t] - 1
           c == m.prescaleCounter[t] - Prescale(m, t)
           prescaled == [m EXCEPT !.prescaleCounter[t] = c]
           counted == [prescaled EXCEPT !.timerValue[t] = v]
           reloaded == [counted EXCEPT !.timerValue[t] = m.data[t]]
<1>1. v \in 0 .. TimerModulus - 1 /\ m.data[t] \in 0 .. TimerModulus - 1
  BY MfpAssumption DEF Counting
<1>2. c \in Int
  BY PrescaleIsNat DEF Counting
<1>3. v = 0 <=> m.timerValue[t] = 1
  BY MfpAssumption DEF Counting
<1>4. CountDown(m, t) = IF v # 0 THEN counted ELSE Raise(reloaded, TimerChannel[t])
  <2>1. [m EXCEPT !.prescaleCounter[t] = c, !.timerValue[t] = v] = counted
    OBVIOUS
  <2> QED BY <2>1 DEF CountDown
<1> HIDE DEF v, c
<1>5. prescaled \in Counting
  BY <1>2 DEF Counting
<1>6. counted \in Counting
  <2> HIDE DEF prescaled
  <2> QED BY <1>5, <1>1 DEF Counting
<1>7. reloaded \in Counting
  <2> HIDE DEF counted
  <2> QED BY <1>6, <1>1 DEF Counting
<1>8. /\ counted.control = m.control /\ counted.data = m.data /\ counted.ier = m.ier
      /\ counted.vdisp = m.vdisp /\ counted.ipr = m.ipr
      /\ counted.prescaleCounter = [m.prescaleCounter EXCEPT ![t] = c]
      /\ counted.timerValue = [m.timerValue EXCEPT ![t] = v]
  BY DEF Counting
<1>9. /\ reloaded.control = counted.control /\ reloaded.data = counted.data
      /\ reloaded.ier = counted.ier /\ reloaded.vdisp = counted.vdisp
      /\ reloaded.prescaleCounter = counted.prescaleCounter /\ reloaded.ipr = counted.ipr
      /\ reloaded.timerValue = [counted.timerValue EXCEPT ![t] = m.data[t]]
  <2> HIDE DEF counted
  <2> QED BY <1>6 DEF Counting
<1> HIDE DEF prescaled, counted, reloaded
<1>10. CASE v # 0
  <2>1. v \in Nat /\ v # 0 /\ CountDown(m, t).timerValue[t] = v
    BY <1>1, <1>4, <1>8, <1>10, CountingFields
  <2> QED
    BY <1>3, <1>4, <1>6, <1>8, <1>10, <2>1, MfpAssumption, CountingFields
       DEF v, c, OnlyTimer, Decrements
<1>11. CASE v = 0
  <2>1. TimerChannel[t] \in Channel
    BY ChannelOfTimer
  <2>2. /\ Raise(reloaded, TimerChannel[t]) \in Counting
        /\ Raise(reloaded, TimerChannel[t]).prescaleCounter = reloaded.prescaleCounter
        /\ Raise(reloaded, TimerChannel[t]).control = reloaded.control
        /\ Raise(reloaded, TimerChannel[t]).timerValue = reloaded.timerValue
        /\ Raise(reloaded, TimerChannel[t]).data = reloaded.data
        /\ Raise(reloaded, TimerChannel[t]).ier = reloaded.ier
        /\ Raise(reloaded, TimerChannel[t]).vdisp = reloaded.vdisp
        /\ TimerChannel[t] \notin reloaded.ier => Raise(reloaded, TimerChannel[t]).ipr = reloaded.ipr
    BY <1>7, <2>1, RaiseFacts
  <2>3. m.prescaleCounter \in [Timer -> Int] /\ m.timerValue \in [Timer -> 0 .. TimerModulus - 1]
    BY CountingFields
  <2>4. ~(Decrements(m, t) > 1)
    BY <1>3, <1>11, <2>3, MfpAssumption DEF Decrements
  <2> QED BY <1>4, <1>8, <1>9, <1>11, <2>2, <2>3, <2>4 DEF c, OnlyTimer, TimerRaises
<1> QED BY <1>10, <1>11

\* tickTimerCounted makes as many passes as the prescale goes into the counter.
LEMMA CountedUnfolds ==
    ASSUME NEW m \in Counting, NEW t \in Timer, NEW q \in Nat,
           q = m.prescaleCounter[t] \div Prescale(m, t)
    PROVE  \E a : /\ a \in [0 .. q -> Counting]
                  /\ a[0] = m /\ (\A k \in 1 .. q : a[k] = CountDown(a[k - 1], t))
                  /\ TickTimerCounted(m, t) = a[q]
<1> DEFINE B(g) == [n \in 0 .. q |-> IF n = 0 THEN m ELSE CountDown(g[n - 1], t)]
           a == CHOOSE g : g = B(g)
           step == [x \in Counting |-> CountDown(x, t)]
<1>1. TickTimerCounted(m, t) = a[q]
  BY Zenon DEF TickTimerCounted
<1>2. step \in [Counting -> Counting]
  BY CountDownFacts
<1>3. PICK b : IteratesIn(Counting, b, q, m, step)
  <2> HIDE DEF step, a, B
  <2> QED BY <1>2, Iterates
<1>4. \A k \in 1 .. q : k - 1 \in 0 .. q /\ k \in 0 .. q /\ k # 0
  OBVIOUS
<1>5. b = B(b)
  <2>1. \A k \in 0 .. q : k # 0 => k - 1 \in 0 .. q /\ k \in 1 .. q
    OBVIOUS
  <2>2. b \in [0 .. q -> Counting] /\ b[0] = m /\ \A k \in 1 .. q : b[k] = step[b[k - 1]]
    BY <1>3 DEF IteratesIn
  <2>3. \A x \in Counting : step[x] = CountDown(x, t)
    OBVIOUS
  <2> HIDE DEF step
  <2>4. ASSUME NEW k \in 0 .. q PROVE b[k] = IF k = 0 THEN m ELSE CountDown(b[k - 1], t)
    BY <2>1, <2>2, <2>3
  <2> QED BY <2>2, <2>4
<1>6. a = B(a)
  <2> HIDE DEF B
  <2> QED BY <1>5, Zenon
<1>7. a[0] = m /\ \A k \in 1 .. q : a[k] = CountDown(a[k - 1], t)
  <2> HIDE DEF a
  <2> QED BY <1>6, <1>4
<1> HIDE DEF a
<1>8. a \in [0 .. q -> Counting]
  <2> DEFINE V == {k \in 0 .. q : a[k] \in Counting}
  <2>1. 0 \in V /\ \A k \in 1 .. q : k - 1 \in V => k \in V
    BY <1>7, <1>4, CountDownFacts
  <2> HIDE DEF V
  <2>2. 0 .. q \subseteq V
    BY <2>1, InductionUpTo
  <2> USE DEF V
  <2> QED BY <2>2, <1>6
<1> QED BY <1>1, <1>7, <1>8

\* tickTimerCounted takes q prescales off the counter, and raises nothing while the
\* timer has more than q to count.
LEMMA CountedFacts ==
    ASSUME NEW m \in MfpType, NEW t \in Timer, NEW p \in Nat, p # 0, p = Prescale(m, t),
           NEW q \in Nat, q = m.prescaleCounter[t] \div p
    PROVE  /\ TickTimerCounted(m, t) \in MfpType
           /\ OnlyTimer(t, m, TickTimerCounted(m, t))
           /\ TickTimerCounted(m, t).prescaleCounter[t] = m.prescaleCounter[t] - q * p
           /\ ~TimerRaises(m, t) => TickTimerCounted(m, t).ipr = m.ipr
           /\ q < Decrements(m, t) =>
                 /\ TickTimerCounted(m, t).ipr = m.ipr
                 /\ Decrements(TickTimerCounted(m, t), t) = Decrements(m, t) - q
<1>1. m \in Counting /\ m.prescaleCounter \in [Timer -> Nat]
  BY MfpIsCounting DEF MfpType
<1> DEFINE c == m.prescaleCounter[t]
           d == Decrements(m, t)
<1>2. c \in Nat /\ d \in Nat
  BY <1>1, MfpAssumption, CountingFields DEF Decrements
<1>3. PICK a : /\ a \in [0 .. q -> Counting]
               /\ a[0] = m /\ (\A k \in 1 .. q : a[k] = CountDown(a[k - 1], t))
               /\ TickTimerCounted(m, t) = a[q]
  BY <1>1, CountedUnfolds
<1> HIDE DEF c, d
<1> DEFINE V == {k \in 0 .. q : /\ OnlyTimer(t, m, a[k])
                                /\ a[k].prescaleCounter[t] = c - k * p
                                /\ ~TimerRaises(m, t) => a[k].ipr = m.ipr
                                /\ k < d => a[k].ipr = m.ipr /\ Decrements(a[k], t) = d - k}
<1>4. 0 \in V
  <2>1. OnlyTimer(t, m, m)
    BY DEF OnlyTimer
  <2> QED BY <1>2, <1>3, <2>1 DEF c, d
<1>5. ASSUME NEW k \in 1 .. q, k - 1 \in V PROVE k \in V
  <2>1. k - 1 \in 0 .. q /\ k \in 0 .. q /\ (k - 1) * p + p = k * p
    OBVIOUS
  <2>2. a[k - 1] \in Counting /\ a[k] = CountDown(a[k - 1], t)
    BY <1>3, <2>1
  <2>3. /\ OnlyTimer(t, m, a[k - 1])
        /\ a[k - 1].prescaleCounter[t] = c - (k - 1) * p
        /\ ~TimerRaises(m, t) => a[k - 1].ipr = m.ipr
        /\ k - 1 < d => a[k - 1].ipr = m.ipr /\ Decrements(a[k - 1], t) = d - (k - 1)
    BY <1>5
  <2>4. Prescale(a[k - 1], t) = p /\ TimerRaises(a[k - 1], t) = TimerRaises(m, t)
    BY <2>3 DEF OnlyTimer, Prescale, TimerRaises
  <2>5. /\ OnlyTimer(t, a[k - 1], a[k])
        /\ a[k].prescaleCounter[t] = a[k - 1].prescaleCounter[t] - p
        /\ ~TimerRaises(a[k - 1], t) => a[k].ipr = a[k - 1].ipr
        /\ Decrements(a[k - 1], t) > 1 =>
              a[k].ipr = a[k - 1].ipr /\ Decrements(a[k], t) = Decrements(a[k - 1], t) - 1
    BY <2>2, <2>4, CountDownFacts
  <2>6. OnlyTimer(t, m, a[k])
    BY <2>3, <2>5 DEF OnlyTimer
  <2>7. a[k].prescaleCounter[t] = c - k * p
    <3>1. a[k].prescaleCounter[t] = (c - (k - 1) * p) - p
      BY <2>3, <2>5
    <3>2. (k - 1) * p \in Int /\ k * p \in Int
      OBVIOUS
    <3> QED BY <1>2, <2>1, <3>1, <3>2
  <2>8. k < d => a[k].ipr = m.ipr /\ Decrements(a[k], t) = d - k
    BY <1>2, <2>3, <2>5
  <2>9. ~TimerRaises(m, t) => a[k].ipr = m.ipr
    BY <2>3, <2>4, <2>5
  <2> QED BY <2>1, <2>6, <2>7, <2>8, <2>9
<1> HIDE DEF V
<1>6. q \in V
  BY <1>4, <1>5, InductionUpTo
<1> USE DEF V
<1>7. a[q] \in Counting
  BY <1>3
<1>8. a[q] \in MfpType
  <2>1. c - q * p \in Nat
    <3>1. q = c \div p
      BY DEF c
    <3>2. (c \div p) * p <= c
      BY <1>2, DivBound
    <3>3. q * p \in Int
      OBVIOUS
    <3> QED BY <1>2, <3>1, <3>2, <3>3
  <2>2. \A u \in Timer : a[q].prescaleCounter[u] \in Nat
    BY <1>1, <1>6, <2>1 DEF OnlyTimer
  <2>3. a[q].prescaleCounter \in [Timer -> Nat]
    BY <1>7, <2>2, CountingFields
  <2> QED BY <1>7, <2>3, MfpIsCounting
<1> QED BY <1>3, <1>6, <1>8 DEF c, d

\* One timer for a step of n MFP cycles: what is left until it raises gets n less,
\* and until then nothing is raised.
LEMMA TickTimerFacts ==
    ASSUME NEW m \in MfpType, NEW t \in Running(m), NEW n \in Nat, NEW fastPath \in BOOLEAN
    PROVE  /\ TickTimer(fastPath, m, t, n) \in MfpType
           /\ OnlyTimer(t, m, TickTimer(fastPath, m, t, n))
           /\ TickTimer(fastPath, m, t, n).prescaleCounter[t] < Prescale(m, t)
           /\ ~TimerRaises(m, t) => TickTimer(fastPath, m, t, n).ipr = m.ipr
           /\ n < NeedMfp(m, t) =>
                 /\ TickTimer(fastPath, m, t, n).ipr = m.ipr
                 /\ NeedMfp(TickTimer(fastPath, m, t, n), t) = NeedMfp(m, t) - n
<1> DEFINE p == Prescale(m, t)
           c == m.prescaleCounter[t] + n
           d == Decrements(m, t)
           added == [m EXCEPT !.prescaleCounter[t] = @ + n]
           r == TickTimer(fastPath, m, t, n)
<1>1. m \in Counting /\ t \in Timer
  BY MfpIsCounting DEF Running
<1>2. p \in Nat /\ p # 0
  BY <1>1, PrescaleIsNat DEF Running
<1>3. c \in Nat /\ m.prescaleCounter[t] \in Nat
  BY <1>1 DEF MfpType
<1>4. d \in Nat /\ d >= 1
  BY <1>1, MfpAssumption, CountingFields DEF Decrements
<1>5. /\ added \in MfpType /\ OnlyTimer(t, m, added) /\ added.ipr = m.ipr
      /\ added.prescaleCounter[t] = c /\ added.timerValue = m.timerValue
  <2>1. added \in MfpType
    BY <1>3 DEF MfpType
  <2> QED BY <1>1, <2>1 DEF MfpType, OnlyTimer
<1>6. Prescale(added, t) = p /\ Decrements(added, t) = d
  BY <1>5 DEF OnlyTimer, Prescale, Decrements
<1>7. r = IF c - p < 0 THEN added
          ELSE IF fastPath /\ c - p < p /\ m.timerValue[t] > 1
            THEN [added EXCEPT !.prescaleCounter[t] = c - p, !.timerValue[t] = m.timerValue[t] - 1]
            ELSE TickTimerCounted(added, t)
  <2>1. added.prescaleCounter[t] - p = c - p
    BY <1>5
  <2> DEFINE left == added.prescaleCounter[t] - p
  <2>2. r = IF left < 0 THEN added
            ELSE IF fastPath /\ left < p /\ m.timerValue[t] > 1
              THEN [added EXCEPT !.prescaleCounter[t] = left, !.timerValue[t] = @ - 1]
              ELSE TickTimerCounted(added, t)
    BY DEF TickTimer
  <2> HIDE DEF added, p, c, r
  <2>3. [added EXCEPT !.prescaleCounter[t] = c - p, !.timerValue[t] = @ - 1]
          = [added EXCEPT !.prescaleCounter[t] = c - p, !.timerValue[t] = m.timerValue[t] - 1]
    BY <1>5 DEF MfpType
  <2>4. left = c - p
    BY <2>1
  <2> HIDE DEF left
  <2> QED BY <2>2, <2>3, <2>4
<1>8. NeedMfp(m, t) = d * p - m.prescaleCounter[t]
  BY DEF NeedMfp
<1> HIDE DEF added, r, c, d, p
<1>9. CASE c - p < 0
  <2>1. r = added
    BY <1>7, <1>9
  <2>2. NeedMfp(added, t) = d * p - c
    BY <1>5, <1>6 DEF NeedMfp
  <2>3. added.prescaleCounter[t] < p
    BY <1>2, <1>3, <1>5, <1>9
  <2> QED BY <1>2, <1>3, <1>4, <1>5, <1>8, <2>1, <2>2, <2>3 DEF r, c, p
<1>10. CASE ~(c - p < 0) /\ fastPath /\ c - p < p /\ m.timerValue[t] > 1
  <2> DEFINE prescaled == [added EXCEPT !.prescaleCounter[t] = c - p]
  <2>1. m.timerValue[t] - 1 \in 0 .. TimerModulus - 1 /\ d = m.timerValue[t] /\ c - p \in Nat
    BY <1>1, <1>2, <1>3, <1>10, MfpAssumption, CountingFields DEF d, Decrements
  <2>2. prescaled \in MfpType
    BY <1>5, <2>1 DEF MfpType
  <2>3. r = [prescaled EXCEPT !.timerValue[t] = m.timerValue[t] - 1]
    BY <1>7, <1>10
  <2>4. /\ prescaled.control = added.control /\ prescaled.data = added.data
        /\ prescaled.ier = added.ier /\ prescaled.vdisp = added.vdisp
        /\ prescaled.ipr = added.ipr /\ prescaled.timerValue = added.timerValue
        /\ prescaled.prescaleCounter = [added.prescaleCounter EXCEPT ![t] = c - p]
    BY <1>5 DEF MfpType
  <2> HIDE DEF prescaled
  <2>5. r \in MfpType
    BY <2>1, <2>2, <2>3 DEF MfpType
  <2>6. /\ r.control = prescaled.control /\ r.data = prescaled.data
        /\ r.ier = prescaled.ier /\ r.vdisp = prescaled.vdisp
        /\ r.ipr = prescaled.ipr /\ r.prescaleCounter = prescaled.prescaleCounter
        /\ r.timerValue = [prescaled.timerValue EXCEPT ![t] = m.timerValue[t] - 1]
    BY <2>2, <2>3 DEF MfpType
  <2>7. added.prescaleCounter \in [Timer -> Nat] /\ added.timerValue \in [Timer -> 0 .. TimerModulus - 1]
    BY <1>5 DEF MfpType
  <2>8. OnlyTimer(t, m, r)
    BY <1>1, <1>5, <2>4, <2>6, <2>7 DEF OnlyTimer
  <2>9. r.prescaleCounter[t] = c - p /\ r.timerValue[t] = d - 1 /\ r.ipr = m.ipr
    BY <1>1, <1>5, <2>1, <2>4, <2>6, <2>7
  <2>10. Prescale(r, t) = p /\ Decrements(r, t) = d - 1
    BY <1>4, <1>10, <2>1, <2>8, <2>9 DEF OnlyTimer, Prescale, Decrements, p
  <2>11. NeedMfp(r, t) = (d - 1) * p - (c - p)
    BY <2>9, <2>10 DEF NeedMfp
  <2>12. (d - 1) * p - (c - p) = d * p - c
    BY <1>2, <1>3, <1>4
  <2>13. r.prescaleCounter[t] < p
    BY <1>10, <2>9
  <2> QED BY <1>2, <1>3, <1>4, <1>8, <2>5, <2>8, <2>9, <2>11, <2>12, <2>13 DEF r, c, p
<1>11. CASE ~(c - p < 0) /\ ~(fastPath /\ c - p < p /\ m.timerValue[t] > 1)
  <2> DEFINE q == c \div p
  <2>1. q \in Nat /\ q * p <= c /\ c < q * p + p /\ q * p \in Int
    <3>1. q \in Nat /\ q * p <= c /\ c < q * p + p
      BY <1>2, <1>3, DivBound
    <3> HIDE DEF q
    <3> QED BY <1>2, <3>1
  <2>2. r = TickTimerCounted(added, t)
    BY <1>7, <1>11
  <2> HIDE DEF q
  <2>3. q = added.prescaleCounter[t] \div p
    BY <1>5 DEF q
  <2>4. /\ r \in MfpType /\ OnlyTimer(t, added, r)
        /\ r.prescaleCounter[t] = added.prescaleCounter[t] - q * p
        /\ ~TimerRaises(added, t) => r.ipr = added.ipr
        /\ q < d => r.ipr = added.ipr /\ Decrements(r, t) = d - q
    BY <1>1, <1>2, <1>5, <1>6, <2>1, <2>2, <2>3, CountedFacts
  <2>5. OnlyTimer(t, m, r)
    BY <1>5, <2>4 DEF OnlyTimer
  <2>6. Prescale(r, t) = p
    BY <2>5 DEF OnlyTimer, Prescale, p
  <2>7. ASSUME n < NeedMfp(m, t) PROVE r.ipr = m.ipr /\ NeedMfp(r, t) = NeedMfp(m, t) - n
    <3>1. c < d * p
      BY <1>2, <1>3, <1>4, <1>8, <2>7 DEF c
    <3>2. q < d
      <4> SUFFICES ASSUME d <= q PROVE FALSE
        BY <1>4, <2>1
      <4>1. d * p <= q * p
        BY <1>2, <1>4, <2>1
      <4> QED BY <1>2, <1>3, <1>4, <2>1, <3>1, <4>1
    <3>3. NeedMfp(r, t) = (d - q) * p - (c - q * p)
      BY <1>5, <2>4, <2>6, <3>2 DEF NeedMfp
    <3>4. (d - q) * p - (c - q * p) = d * p - c
      BY <1>2, <1>3, <1>4, <2>1
    <3> QED BY <1>2, <1>3, <1>4, <1>5, <1>8, <2>4, <3>2, <3>3, <3>4 DEF c
  <2>8. ~TimerRaises(m, t) => r.ipr = m.ipr
    BY <1>5, <2>4 DEF OnlyTimer, TimerRaises
  <2>9. r.prescaleCounter[t] < p
    BY <1>2, <1>3, <1>5, <2>1, <2>4
  <2> QED BY <2>4, <2>5, <2>7, <2>8, <2>9 DEF r, p
<1> QED BY <1>2, <1>3, <1>9, <1>10, <1>11

\* No enabled timer reaches its end within n MFP cycles.
Quiet(m, n) == \A t \in Running(m) : TimerRaises(m, t) => n < NeedMfp(m, t)

\* The same registers and the same timers ahead, by n cycles.
AfterQuiet(m, x, n) ==
    /\ x.ipr = m.ipr
    /\ \A t \in Running(m) : TimerRaises(m, t) => NeedMfp(x, t) = NeedMfp(m, t) - n

\* The same for a timer that may be stopped.
LEMMA TickIfRunningFacts ==
    ASSUME NEW m \in MfpType, NEW t \in Timer, NEW n \in Nat, NEW fastPath \in BOOLEAN
    PROVE  LET x == TickIfRunning(fastPath, m, t, n)
           IN  /\ x \in MfpType /\ OnlyTimer(t, m, x)
               /\ t \in Running(m) => x.prescaleCounter[t] < Prescale(m, t)
               /\ (t \in Running(m) /\ TimerRaises(m, t) => n < NeedMfp(m, t)) => x.ipr = m.ipr
               /\ t \in Running(m) /\ n < NeedMfp(m, t) => NeedMfp(x, t) = NeedMfp(m, t) - n
<1>1. CASE t \in Running(m)
  BY <1>1, TickTimerFacts DEF TickIfRunning
<1>2. CASE t \notin Running(m)
  BY <1>2 DEF TickIfRunning, OnlyTimer
<1> QED BY <1>1, <1>2

\* What one timer does changes nothing for the others.
LEMMA OtherTimers ==
    ASSUME NEW m, NEW t, NEW x, OnlyTimer(t, m, x)
    PROVE  /\ Running(x) = Running(m)
           /\ \A u \in Timer : TimerRaises(x, u) = TimerRaises(m, u) /\ Prescale(x, u) = Prescale(m, u)
           /\ \A u \in Timer \ {t} : NeedMfp(x, u) = NeedMfp(m, u)
<1>1. \A u \in Timer : Prescale(x, u) = Prescale(m, u)
  BY DEF OnlyTimer, Prescale
<1> QED BY <1>1 DEF OnlyTimer, Running, TimerRaises, NeedMfp, Decrements

\* Mfp::tickFast drains every timer, and raises nothing in a step that is quiet.
LEMMA MfpTickFacts ==
    ASSUME NEW m \in MfpType, NEW cycles \in Nat, NEW n \in Nat, n = cycles \div 2,
           NEW fastPath \in BOOLEAN
    PROVE  LET x == MfpTick(fastPath, m, cycles)
           IN  /\ x \in MfpType /\ x.control = m.control /\ x.ier = m.ier /\ x.vdisp = m.vdisp
               /\ Drained(x)
               /\ Quiet(m, n) => AfterQuiet(m, x, n)
<1> DEFINE a == TickIfRunning(fastPath, m, "A", n)
           b == TickIfRunning(fastPath, a, "B", n)
           c == TickIfRunning(fastPath, b, "C", n)
           x == TickIfRunning(fastPath, c, "D", n)
<1>1. MfpTick(fastPath, m, cycles) = x
  BY DEF MfpTick
<1>2. Timer = {"A", "B", "C", "D"}
  BY DEF Timer
<1>3. /\ a \in MfpType /\ OnlyTimer("A", m, a)
      /\ "A" \in Running(m) => a.prescaleCounter["A"] < Prescale(m, "A")
      /\ ("A" \in Running(m) /\ TimerRaises(m, "A") => n < NeedMfp(m, "A")) => a.ipr = m.ipr
      /\ "A" \in Running(m) /\ n < NeedMfp(m, "A") => NeedMfp(a, "A") = NeedMfp(m, "A") - n
  BY <1>2, TickIfRunningFacts
<1> HIDE DEF a
<1>4. /\ b \in MfpType /\ OnlyTimer("B", a, b)
      /\ "B" \in Running(a) => b.prescaleCounter["B"] < Prescale(a, "B")
      /\ ("B" \in Running(a) /\ TimerRaises(a, "B") => n < NeedMfp(a, "B")) => b.ipr = a.ipr
      /\ "B" \in Running(a) /\ n < NeedMfp(a, "B") => NeedMfp(b, "B") = NeedMfp(a, "B") - n
  BY <1>2, <1>3, TickIfRunningFacts
<1> HIDE DEF b
<1>5. /\ c \in MfpType /\ OnlyTimer("C", b, c)
      /\ "C" \in Running(b) => c.prescaleCounter["C"] < Prescale(b, "C")
      /\ ("C" \in Running(b) /\ TimerRaises(b, "C") => n < NeedMfp(b, "C")) => c.ipr = b.ipr
      /\ "C" \in Running(b) /\ n < NeedMfp(b, "C") => NeedMfp(c, "C") = NeedMfp(b, "C") - n
  BY <1>2, <1>4, TickIfRunningFacts
<1> HIDE DEF c
<1>6. /\ x \in MfpType /\ OnlyTimer("D", c, x)
      /\ "D" \in Running(c) => x.prescaleCounter["D"] < Prescale(c, "D")
      /\ ("D" \in Running(c) /\ TimerRaises(c, "D") => n < NeedMfp(c, "D")) => x.ipr = c.ipr
      /\ "D" \in Running(c) /\ n < NeedMfp(c, "D") => NeedMfp(x, "D") = NeedMfp(c, "D") - n
  BY <1>2, <1>5, TickIfRunningFacts
<1> HIDE DEF x
<1>7. /\ Running(a) = Running(m) /\ \A u \in Timer : TimerRaises(a, u) = TimerRaises(m, u) /\ Prescale(a, u) = Prescale(m, u)
      /\ \A u \in Timer \ {"A"} : NeedMfp(a, u) = NeedMfp(m, u)
  BY <1>3, OtherTimers
<1>8. /\ Running(b) = Running(a) /\ \A u \in Timer : TimerRaises(b, u) = TimerRaises(a, u) /\ Prescale(b, u) = Prescale(a, u)
      /\ \A u \in Timer \ {"B"} : NeedMfp(b, u) = NeedMfp(a, u)
  BY <1>4, OtherTimers
<1>9. /\ Running(c) = Running(b) /\ \A u \in Timer : TimerRaises(c, u) = TimerRaises(b, u) /\ Prescale(c, u) = Prescale(b, u)
      /\ \A u \in Timer \ {"C"} : NeedMfp(c, u) = NeedMfp(b, u)
  BY <1>5, OtherTimers
<1>10. /\ Running(x) = Running(c) /\ \A u \in Timer : TimerRaises(x, u) = TimerRaises(c, u) /\ Prescale(x, u) = Prescale(c, u)
       /\ \A u \in Timer \ {"D"} : NeedMfp(x, u) = NeedMfp(c, u)
  BY <1>6, OtherTimers
<1>11. x.control = m.control /\ x.ier = m.ier /\ x.vdisp = m.vdisp
  BY <1>3, <1>4, <1>5, <1>6 DEF OnlyTimer
<1>12. ASSUME Quiet(m, n) PROVE AfterQuiet(m, x, n)
  <2>1. a.ipr = m.ipr /\ b.ipr = a.ipr /\ c.ipr = b.ipr /\ x.ipr = c.ipr
    BY <1>2, <1>3, <1>4, <1>5, <1>6, <1>7, <1>8, <1>9, <1>12 DEF Quiet
  <2>2. ASSUME NEW t \in Running(m), TimerRaises(m, t)
        PROVE  NeedMfp(x, t) = NeedMfp(m, t) - n
    <3>1. t \in Timer /\ n < NeedMfp(m, t)
      BY <1>12, <2>2 DEF Quiet, Running
    <3>2. CASE t = "A"
      BY <1>2, <1>3, <1>8, <1>9, <1>10, <2>2, <3>1, <3>2
    <3>3. CASE t = "B"
      BY <1>2, <1>4, <1>7, <1>9, <1>10, <2>2, <3>1, <3>3
    <3>4. CASE t = "C"
      BY <1>2, <1>5, <1>7, <1>8, <1>10, <2>2, <3>1, <3>4
    <3>5. CASE t = "D"
      BY <1>2, <1>6, <1>7, <1>8, <1>9, <2>2, <3>1, <3>5
    <3> QED BY <1>2, <3>1, <3>2, <3>3, <3>4, <3>5
  <2> QED BY <2>1, <2>2 DEF AfterQuiet
<1>13. ASSUME NEW t \in Running(x) PROVE x.prescaleCounter[t] < Prescale(x, t)
  <2>1. t \in Timer /\ t \in Running(a) /\ t \in Running(b) /\ t \in Running(c) /\ t \in Running(m)
    BY <1>7, <1>8, <1>9, <1>10, <1>13 DEF Running
  <2>2. Prescale(x, t) = Prescale(m, t) /\ Prescale(c, t) = Prescale(m, t)
        /\ Prescale(b, t) = Prescale(m, t) /\ Prescale(a, t) = Prescale(m, t)
    BY <1>7, <1>8, <1>9, <1>10, <2>1
  <2>3. CASE t = "A"
    BY <1>2, <1>3, <1>4, <1>5, <1>6, <2>1, <2>2, <2>3 DEF OnlyTimer
  <2>4. CASE t = "B"
    BY <1>2, <1>4, <1>5, <1>6, <2>1, <2>2, <2>4 DEF OnlyTimer
  <2>5. CASE t = "C"
    BY <1>2, <1>5, <1>6, <2>1, <2>2, <2>5 DEF OnlyTimer
  <2>6. CASE t = "D"
    BY <1>2, <1>6, <2>1, <2>2, <2>6
  <2> QED BY <1>2, <2>1, <2>3, <2>4, <2>5, <2>6
<1> QED BY <1>1, <1>6, <1>11, <1>12, <1>13 DEF Drained

\* The edge of the vertical blank moves GPIP4 and may raise its channel; no timer
\* collects anything by it.
LEMMA SetVerticalBlankFacts ==
    ASSUME NEW m \in MfpType, NEW active \in BOOLEAN
    PROVE  /\ SetVerticalBlank(m, active) \in MfpType
           /\ Drained(m) => Drained(SetVerticalBlank(m, active))
<1> DEFINE moved == [m EXCEPT !.vdisp = ~active]
<1>1. moved \in MfpType /\ moved.control = m.control /\ moved.prescaleCounter = m.prescaleCounter
  BY DEF MfpType
<1>2. SetVerticalBlank(m, active) \in {moved, Raise(moved, Gpip4)}
  BY DEF SetVerticalBlank
<1> HIDE DEF moved
<1>3. /\ Raise(moved, Gpip4) \in MfpType /\ Raise(moved, Gpip4).control = moved.control
      /\ Raise(moved, Gpip4).prescaleCounter = moved.prescaleCounter
  <2>1. moved \in Counting /\ moved.prescaleCounter \in [Timer -> Nat]
    BY <1>1, MfpIsCounting DEF MfpType
  <2>2. Raise(moved, Gpip4) \in Counting
        /\ Raise(moved, Gpip4).prescaleCounter = moved.prescaleCounter
        /\ Raise(moved, Gpip4).control = moved.control
    BY <2>1, RaiseFacts DEF Gpip4, Channel
  <2> QED BY <2>1, <2>2, MfpIsCounting
<1> QED BY <1>1, <1>2, <1>3 DEF Drained, Running, Prescale

--------------------------------------------------------------------------------
(* The clock *)

\* The fields of the clock.
LEMMA ClockFields ==
    ASSUME NEW r \in RtcType
    PROVE  /\ r.second \in Nat /\ r.minute \in Nat /\ r.hour \in Nat /\ r.weekday \in 0 .. 6
           /\ r.day \in Nat /\ r.month \in Nat /\ r.year \in Nat /\ r.accumulator \in Nat
BY DEF RtcType

\* Changing one of them keeps the type.
LEMMA SetClockField ==
    ASSUME NEW r \in RtcType, NEW v \in Nat
    PROVE  /\ [r EXCEPT !.second = v] \in RtcType /\ [r EXCEPT !.minute = v] \in RtcType
           /\ [r EXCEPT !.hour = v] \in RtcType /\ [r EXCEPT !.day = v] \in RtcType
           /\ [r EXCEPT !.month = v] \in RtcType /\ [r EXCEPT !.year = v] \in RtcType
           /\ [r EXCEPT !.accumulator = v] \in RtcType
           /\ v \in 0 .. 6 => [r EXCEPT !.weekday = v] \in RtcType
BY DEF RtcType

\* Rtc::advanceOneSecond keeps the type, month ends and leap years included.
LEMMA AdvanceTyped == ASSUME NEW r \in RtcType PROVE AdvanceOneSecond(r) \in RtcType
<1>1. /\ r.second \in Nat /\ r.minute \in Nat /\ r.hour \in Nat /\ r.weekday \in 0 .. 6
      /\ r.day \in Nat /\ r.month \in Nat /\ r.year \in Nat
  BY ClockFields
<1>0. r.second + 1 \in Nat /\ r.minute + 1 \in Nat /\ r.hour + 1 \in Nat
  BY <1>1
<1> DEFINE midnight == [r EXCEPT !.second = 0, !.minute = 0, !.hour = 0, !.weekday = (@ + 1) % 7]
           lastDay == Carries(r.day, DaysInMonth(r.month, r.year) + 1)
           minuteOn == [r EXCEPT !.second = 0]
           hourOn == [minuteOn EXCEPT !.minute = 0]
           dayOn == [hourOn EXCEPT !.hour = 0]
<1>2. minuteOn \in RtcType
  BY SetClockField
<1>3. hourOn \in RtcType
  <2> HIDE DEF minuteOn
  <2> QED BY <1>2, SetClockField
<1>4. dayOn \in RtcType
  <2> HIDE DEF hourOn
  <2> QED BY <1>3, SetClockField
<1>5. (r.weekday + 1) % 7 \in 0 .. 6 /\ (r.year + 1) % 100 \in Nat
  BY <1>1
<1>6. midnight \in RtcType
  <2>1. midnight = [dayOn EXCEPT !.weekday = (r.weekday + 1) % 7]
    OBVIOUS
  <2> HIDE DEF dayOn, midnight
  <2>2. (r.weekday + 1) % 7 \in Nat
    BY <1>5
  <2> QED BY <1>4, <1>5, <2>1, <2>2, SetClockField
<1>7. CASE ~Carries(r.second, 60)
  <2>1. AdvanceOneSecond(r) = [r EXCEPT !.second = r.second + 1]
    BY <1>7 DEF AdvanceOneSecond
  <2> QED BY <1>0, <2>1, SetClockField
<1>8. CASE Carries(r.second, 60) /\ ~Carries(r.minute, 60)
  <2>1. AdvanceOneSecond(r) = [r EXCEPT !.second = 0, !.minute = r.minute + 1]
    BY <1>8 DEF AdvanceOneSecond
  <2>2. [r EXCEPT !.second = 0, !.minute = r.minute + 1] = [minuteOn EXCEPT !.minute = r.minute + 1]
    OBVIOUS
  <2> HIDE DEF minuteOn
  <2>3. [minuteOn EXCEPT !.minute = r.minute + 1] \in RtcType
    BY <1>0, <1>2, SetClockField
  <2> QED BY <2>1, <2>2, <2>3
<1>9. CASE Carries(r.second, 60) /\ Carries(r.minute, 60) /\ ~Carries(r.hour, 24)
  <2>1. AdvanceOneSecond(r) = [r EXCEPT !.second = 0, !.minute = 0, !.hour = r.hour + 1]
    BY <1>9 DEF AdvanceOneSecond
  <2>2. [r EXCEPT !.second = 0, !.minute = 0, !.hour = r.hour + 1] = [hourOn EXCEPT !.hour = r.hour + 1]
    OBVIOUS
  <2> HIDE DEF hourOn
  <2> QED BY <1>0, <1>3, <2>1, <2>2, SetClockField, ZenonT(60)
<1>10. CASE Carries(r.second, 60) /\ Carries(r.minute, 60) /\ Carries(r.hour, 24)
  <2> DEFINE firstDay == [midnight EXCEPT !.day = 1]
             newYear == [firstDay EXCEPT !.month = 1]
  <2>1. AdvanceOneSecond(r) =
          IF ~lastDay THEN [midnight EXCEPT !.day = @ + 1]
          ELSE IF ~Carries(r.month, 13) THEN [midnight EXCEPT !.day = 1, !.month = @ + 1]
          ELSE [midnight EXCEPT !.day = 1, !.month = 1, !.year = (@ + 1) % 100]
    BY <1>10 DEF AdvanceOneSecond
  <2> HIDE DEF midnight, lastDay
  <2>2. midnight.day \in Nat /\ midnight.month \in Nat /\ midnight.year \in Nat
    BY <1>6, ClockFields
  <2>8. midnight.day + 1 \in Nat /\ midnight.month + 1 \in Nat
    BY <2>2
  <2>3. [midnight EXCEPT !.day = @ + 1] \in RtcType
    BY <1>6, <2>8, SetClockField
  <2>4. firstDay \in RtcType
    BY <1>6, SetClockField
  <2>5. [midnight EXCEPT !.day = 1, !.month = @ + 1] \in RtcType
    <3>1. [midnight EXCEPT !.day = 1, !.month = @ + 1] = [firstDay EXCEPT !.month = midnight.month + 1]
      OBVIOUS
    <3> HIDE DEF firstDay
    <3> QED BY <2>8, <2>4, <3>1, SetClockField
  <2>6. newYear \in RtcType
    <3> HIDE DEF firstDay
    <3> QED BY <2>4, SetClockField
  <2>7. [midnight EXCEPT !.day = 1, !.month = 1, !.year = (@ + 1) % 100] \in RtcType
    <3>1. [midnight EXCEPT !.day = 1, !.month = 1, !.year = (@ + 1) % 100]
            = [newYear EXCEPT !.year = (midnight.year + 1) % 100]
      OBVIOUS
    <3>2. (midnight.year + 1) % 100 \in Nat
      BY <2>2
    <3> HIDE DEF newYear
    <3> QED BY <2>6, <3>1, <3>2, SetClockField, ZenonT(60)
  <2> QED BY <2>1, <2>3, <2>5, <2>7
<1> QED BY <1>7, <1>8, <1>9, <1>10

\* So does any number of seconds.
LEMMA SecondsTyped ==
    ASSUME NEW r \in RtcType, NEW q \in Nat
    PROVE  LET after[n \in 0 .. q] == IF n = 0 THEN r ELSE AdvanceOneSecond(after[n - 1])
           IN  after[q] \in RtcType
<1> DEFINE B(g) == [n \in 0 .. q |-> IF n = 0 THEN r ELSE AdvanceOneSecond(g[n - 1])]
           a == CHOOSE g : g = B(g)
           step == [x \in RtcType |-> AdvanceOneSecond(x)]
<1>1. SUFFICES a[q] \in RtcType
  BY Zenon
<1>2. step \in [RtcType -> RtcType]
  BY AdvanceTyped
<1>3. PICK b : IteratesIn(RtcType, b, q, r, step)
  <2> HIDE DEF step, a, B
  <2> QED BY <1>2, Iterates
<1>4. \A k \in 1 .. q : k - 1 \in 0 .. q /\ k \in 0 .. q /\ k # 0
  OBVIOUS
<1>5. b = B(b)
  <2>1. \A k \in 0 .. q : k # 0 => k - 1 \in 0 .. q /\ k \in 1 .. q
    OBVIOUS
  <2>2. b \in [0 .. q -> RtcType] /\ b[0] = r /\ \A k \in 1 .. q : b[k] = step[b[k - 1]]
    BY <1>3 DEF IteratesIn
  <2>3. \A x \in RtcType : step[x] = AdvanceOneSecond(x)
    OBVIOUS
  <2> HIDE DEF step
  <2>4. ASSUME NEW k \in 0 .. q PROVE b[k] = IF k = 0 THEN r ELSE AdvanceOneSecond(b[k - 1])
    BY <2>1, <2>2, <2>3
  <2> QED BY <2>2, <2>4
<1>6. a = B(a)
  <2> HIDE DEF B
  <2> QED BY <1>5, Zenon
<1> DEFINE V == {k \in 0 .. q : a[k] \in RtcType}
<1>7. 0 \in V /\ \A k \in 1 .. q : k - 1 \in V => k \in V
  <2> HIDE DEF a
  <2> QED BY <1>6, <1>4, AdvanceTyped
<1> HIDE DEF V
<1>8. 0 .. q \subseteq V
  BY <1>7, InductionUpTo
<1> USE DEF V
<1> QED BY <1>8

\* Rtc::tick leaves less than a second, and only adds while no second is full.
LEMMA RtcTickFacts ==
    ASSUME NEW r \in RtcType, NEW cycles \in Nat
    PROVE  /\ RtcTick(r, cycles) \in RtcType
           /\ RtcTick(r, cycles).accumulator \in 0 .. CyclesPerSecond - 1
           /\ cycles < CyclesUntilCarry(r) =>
                 RtcTick(r, cycles).accumulator = r.accumulator + cycles
<1> DEFINE total == r.accumulator + cycles
           q == total \div CyclesPerSecond
           a == CHOOSE g : g = [n \in 0 .. q |-> IF n = 0 THEN r ELSE AdvanceOneSecond(g[n - 1])]
<1>1. total \in Nat /\ r.accumulator \in Nat
  BY ClockFields
<1>2. q \in Nat /\ total % CyclesPerSecond \in 0 .. CyclesPerSecond - 1
  BY <1>1, DivBound, RtcAssumption
<1>3. RtcTick(r, cycles) = [a[q] EXCEPT !.accumulator = total % CyclesPerSecond]
  BY Zenon DEF RtcTick
<1>4. a[q] \in RtcType
  <2> HIDE DEF q
  <2> QED BY <1>2, SecondsTyped, Zenon
<1> HIDE DEF a
<1>5. total % CyclesPerSecond \in Nat
  BY <1>2
<1>6. [a[q] EXCEPT !.accumulator = total % CyclesPerSecond] \in RtcType
  BY <1>4, <1>5, SetClockField
<1>7. [a[q] EXCEPT !.accumulator = total % CyclesPerSecond].accumulator = total % CyclesPerSecond
  BY <1>4 DEF RtcType
<1>8. cycles < CyclesUntilCarry(r) => total % CyclesPerSecond = total
  BY <1>1, RtcAssumption DEF CyclesUntilCarry
<1> QED BY <1>2, <1>3, <1>6, <1>7, <1>8

\* inVBlank says where the beam is.
InStep(c) == c.inVBlank <=> c.frameCycles >= VBlankBegin

\* Crtc::tick keeps inVBlank true to the beam, and does not change it before the edge
\* it announces.
LEMMA CrtcTickFacts ==
    ASSUME NEW c \in CrtcType, NEW cycles \in Nat
    PROVE  /\ CrtcTick(c, cycles) \in CrtcType /\ InStep(CrtcTick(c, cycles))
           /\ CyclesUntilVBlankEdge(c) \in 1 .. FrameCycles
           /\ InStep(c) /\ cycles < CyclesUntilVBlankEdge(c) =>
                 /\ CrtcTick(c, cycles).inVBlank = c.inVBlank
                 /\ CyclesUntilVBlankEdge(CrtcTick(c, cycles)) = CyclesUntilVBlankEdge(c) - cycles
<1> DEFINE moved == c.frameCycles + (cycles % FrameCycles)
           at == IF moved >= FrameCycles THEN moved - FrameCycles ELSE moved
           x == CrtcTick(c, cycles)
<1>1. /\ FrameCycles \in Nat /\ VBlankBegin \in 1 .. FrameCycles - 1
      /\ c.frameCycles \in 0 .. FrameCycles - 1 /\ c.inVBlank \in BOOLEAN
  BY CrtcAssumption DEF CrtcType, VBlankBegin
<1>2. cycles % FrameCycles \in 0 .. FrameCycles - 1
  BY <1>1, DivBound
<1>3. at \in 0 .. FrameCycles - 1
  BY <1>1, <1>2
<1>4. x = [frameCycles |-> at, inVBlank |-> at >= VBlankBegin]
  BY DEF CrtcTick
<1>5. cycles < FrameCycles => cycles % FrameCycles = cycles
  BY <1>1
<1> HIDE DEF x
<1>6. x \in CrtcType /\ x.frameCycles = at /\ x.inVBlank \in BOOLEAN /\ (x.inVBlank <=> at >= VBlankBegin)
  <2> DEFINE blank == at >= VBlankBegin
  <2>1. blank \in BOOLEAN
    OBVIOUS
  <2>2. x = [frameCycles |-> at, inVBlank |-> blank]
    BY <1>4
  <2>3. x \in CrtcType /\ x.frameCycles = at /\ x.inVBlank \in BOOLEAN /\ (x.inVBlank <=> blank)
    <3> HIDE DEF blank, at
    <3> QED BY <1>3, <2>1, <2>2 DEF CrtcType
  <2> QED BY <2>3
<1>7. ASSUME InStep(c), cycles < CyclesUntilVBlankEdge(c)
      PROVE  at = (IF c.frameCycles + cycles = FrameCycles THEN 0 ELSE c.frameCycles + cycles)
             /\ c.frameCycles + cycles < FrameCycles
  BY <1>1, <1>5, <1>7 DEF InStep, CyclesUntilVBlankEdge
<1> HIDE DEF at, moved
<1>8. ASSUME InStep(c), cycles < CyclesUntilVBlankEdge(c)
      PROVE  /\ x.inVBlank = c.inVBlank
             /\ CyclesUntilVBlankEdge(x) = CyclesUntilVBlankEdge(c) - cycles
  <2>1. at = c.frameCycles + cycles
    BY <1>7, <1>8, <1>1
  <2>2. (c.inVBlank <=> c.frameCycles >= VBlankBegin) /\ (x.inVBlank <=> c.frameCycles + cycles >= VBlankBegin)
    BY <1>6, <1>8, <2>1 DEF InStep
  <2>3. CASE c.frameCycles < VBlankBegin
    <3>1. ~c.inVBlank /\ CyclesUntilVBlankEdge(c) = VBlankBegin - c.frameCycles
      BY <1>1, <2>2, <2>3 DEF CyclesUntilVBlankEdge
    <3>2. c.frameCycles + cycles < VBlankBegin
      BY <1>1, <1>8, <3>1
    <3> QED BY <1>1, <1>6, <2>1, <2>2, <3>1, <3>2 DEF CyclesUntilVBlankEdge
  <2>4. CASE c.frameCycles >= VBlankBegin
    <3>1. c.inVBlank /\ CyclesUntilVBlankEdge(c) = FrameCycles - c.frameCycles
      BY <2>2, <2>4 DEF CyclesUntilVBlankEdge
    <3>2. c.frameCycles + cycles >= VBlankBegin
      BY <1>1, <2>4
    <3>3. x.inVBlank /\ x.frameCycles = c.frameCycles + cycles
      BY <1>6, <2>1, <2>2, <3>2
    <3>4. CyclesUntilVBlankEdge(x) = FrameCycles - x.frameCycles
      BY <3>3 DEF CyclesUntilVBlankEdge
    <3> QED BY <1>1, <1>6, <3>1, <3>3, <3>4
  <2> QED BY <1>1, <2>3, <2>4
<1>9. CyclesUntilVBlankEdge(c) \in 1 .. FrameCycles
  BY <1>1 DEF CyclesUntilVBlankEdge
<1> QED BY <1>6, <1>8, <1>9 DEF x, InStep

\* The least of a set of numbers.
LEMMA MinFacts ==
    ASSUME NEW S \in SUBSET Nat, S # {}
    PROVE  Min(S) \in S /\ \A y \in S : Min(S) <= y
<1> DEFINE T == {n \in Nat : \A x \in S : n <= x}
<1>1. \E x \in S : \A y \in S : x <= y
  <2> SUFFICES ASSUME \A x \in S : \E y \in S : ~(x <= y) PROVE FALSE
    OBVIOUS
  <2>1. 0 \in T
    OBVIOUS
  <2>2. \A n \in Nat : n \in T => n + 1 \in T
    <3> SUFFICES ASSUME NEW n \in Nat, n \in T, NEW x \in S, ~(n + 1 <= x) PROVE FALSE
      OBVIOUS
    <3>1. x = n /\ \A y \in S : n <= y
      OBVIOUS
    <3> QED BY <3>1
  <2> HIDE DEF T
  <2>3. Nat \subseteq T
    BY <2>1, <2>2, Induction
  <2> USE DEF T
  <2>4. PICK x \in S : TRUE
    OBVIOUS
  <2>5. x + 1 \in T
    BY <2>3
  <2> QED BY <2>4, <2>5
<1> QED BY <1>1 DEF Min

\* What nextEventCycle looks at.
Deadline(d, x) ==
    /\ x <= NoDeadline /\ x <= CyclesUntilVBlankEdge(d.crtc) /\ x <= CyclesUntilCarry(d.rtc)
    /\ \A t \in Running(d.mfp) :
          TimerRaises(d.mfp, t) /\ NeedMfp(d.mfp, t) >= 0 => x <= 2 * NeedMfp(d.mfp, t)

\* Devices as a tick leaves them: less than a second collected, inVBlank true to the beam.
InTime(d) ==
    d \in DeviceType /\ d.rtc.accumulator < CyclesPerSecond /\ InStep(d.crtc)

\* What a timer has to count is a number, though it may be below zero.
LEMMA NeedIsInt == ASSUME NEW m \in MfpType, NEW t \in Timer PROVE NeedMfp(m, t) \in Int
<1>1. m.control[t] \in 0 .. 15 /\ m.prescaleCounter[t] \in Int
      /\ m.timerValue[t] \in 0 .. TimerModulus - 1
  BY DEF MfpType
<1>2. m.control[t] < 8 => m.control[t] % 8 \in 0 .. 7
  BY <1>1
<1>3. Prescale(m, t) \in Nat /\ Decrements(m, t) \in Nat
  BY <1>1, <1>2, MfpAssumption DEF Prescale, Decrements
<1>4. Decrements(m, t) * Prescale(m, t) \in Int
  BY <1>3
<1> QED BY <1>1, <1>4 DEF NeedMfp

\* CyclesToNextEvent is the latest instant that is after no event of the devices.
LEMMA NextEventFacts ==
    ASSUME NEW d, InTime(d)
    PROVE  /\ CyclesToNextEvent(d) \in 0 .. FrameCycles
           /\ Deadline(d, CyclesToNextEvent(d))
           /\ \A x \in Int : Deadline(d, x) => x <= CyclesToNextEvent(d)
<1> DEFINE needs == {2 * NeedMfp(d.mfp, t) : t \in {u \in Running(d.mfp) : TimerRaises(d.mfp, u) /\ NeedMfp(d.mfp, u) >= 0}}
           a == CyclesUntilNextRaise(d.mfp)
           b == CyclesUntilVBlankEdge(d.crtc)
           c == CyclesUntilCarry(d.rtc)
           e == CyclesToNextEvent(d)
<1>1. d.mfp \in MfpType /\ d.crtc \in CrtcType /\ d.rtc \in RtcType
  BY DEF InTime, DeviceType
<1>2. \A t \in Running(d.mfp) : t \in Timer /\ NeedMfp(d.mfp, t) \in Int
  BY <1>1, NeedIsInt DEF Running
<1>3. {NoDeadline} \cup needs \in SUBSET Nat /\ {NoDeadline} \cup needs # {}
  BY <1>2, MfpAssumption
<1>4. a = Min({NoDeadline} \cup needs)
  BY DEF CyclesUntilNextRaise
<1>5. b \in 1 .. FrameCycles /\ FrameCycles \in Nat
  BY <1>1, CrtcTickFacts, CrtcAssumption
<1>6. c \in Nat
  BY <1>1, ClockFields, RtcAssumption DEF InTime, CyclesUntilCarry
<1>7. e = Min({a, b, c})
  BY DEF CyclesToNextEvent
<1>8. a \in {NoDeadline} \cup needs /\ \A y \in {NoDeadline} \cup needs : a <= y
  <2> HIDE DEF needs, a
  <2> QED BY <1>3, <1>4, MinFacts
<1>9. a \in Nat
  BY <1>3, <1>8
<1>10. e \in {a, b, c} /\ e <= a /\ e <= b /\ e <= c
  <2> HIDE DEF a, b, c, e
  <2>1. {a, b, c} \in SUBSET Nat /\ {a, b, c} # {}
    BY <1>5, <1>6, <1>9
  <2>2. e \in {a, b, c} /\ \A y \in {a, b, c} : e <= y
    BY <2>1, <1>7, MinFacts
  <2> QED BY <2>2
<1>11. a <= NoDeadline /\ \A y \in needs : a <= y
  BY <1>8
<1> HIDE DEF a, e, needs, b, c
<1>12. e \in 0 .. FrameCycles
  BY <1>5, <1>6, <1>9, <1>10
<1>13. Deadline(d, e)
  <2>1. e <= NoDeadline
    BY <1>9, <1>10, <1>11, <1>12, MfpAssumption
  <2>2. ASSUME NEW t \in Running(d.mfp), TimerRaises(d.mfp, t), NeedMfp(d.mfp, t) >= 0
        PROVE  e <= 2 * NeedMfp(d.mfp, t)
    <3>1. 2 * NeedMfp(d.mfp, t) \in needs
      BY <2>2 DEF needs
    <3> QED BY <3>1, <1>2, <1>9, <1>10, <1>11, <1>12
  <2> QED BY <1>10, <2>1, <2>2 DEF Deadline, b, c
<1>14. ASSUME NEW x \in Int, Deadline(d, x) PROVE x <= e
  <2>1. x <= b /\ x <= c /\ x <= NoDeadline
    BY <1>14 DEF Deadline, b, c
  <2>2. x <= a
    <3>1. CASE a = NoDeadline
      BY <2>1, <3>1
    <3>2. CASE a \in needs
      BY <1>14, <3>2 DEF needs, Deadline
    <3> QED BY <1>8, <3>1, <3>2
  <2> QED BY <1>10, <2>1, <2>2
<1> QED BY <1>12, <1>13, <1>14 DEF e

\* No running timer that can raise has collected more than it has to count.
AllAhead(m) == \A t \in Running(m) : TimerRaises(m, t) => NeedMfp(m, t) >= 0

\* After a tick the unsigned subtraction of cyclesUntilNextRaise cannot wrap.
LEMMA DrainedIsAhead == ASSUME NEW m \in MfpType, Drained(m) PROVE AllAhead(m)
<1> SUFFICES ASSUME NEW t \in Running(m) PROVE NeedMfp(m, t) >= 0
  BY DEF AllAhead
<1>1. t \in Timer /\ m \in Counting /\ m.prescaleCounter[t] \in Nat /\ m.timerValue[t] \in 0 .. TimerModulus - 1
  BY MfpIsCounting DEF Running, MfpType
<1>2. Prescale(m, t) \in Nat /\ m.prescaleCounter[t] < Prescale(m, t)
  BY <1>1, PrescaleIsNat DEF Drained
<1>3. Decrements(m, t) \in Nat /\ Decrements(m, t) >= 1
  BY <1>1, MfpAssumption DEF Decrements
<1>4. Decrements(m, t) * Prescale(m, t) >= Prescale(m, t) /\ Decrements(m, t) * Prescale(m, t) \in Int
  BY <1>2, <1>3
<1> QED BY <1>1, <1>2, <1>4 DEF NeedMfp

\* x is d after cycles in which nothing happened that could interrupt.
Unmoved(d, x, cycles) ==
    /\ x.mfp.ipr = d.mfp.ipr /\ x.mfp.vdisp = d.mfp.vdisp
    /\ CyclesToNextEvent(x) >= CyclesToNextEvent(d) - cycles

\* Machine::tickDevices keeps the devices in time, drains the timers, and before the
\* next event changes nothing the CPU could be interrupted by.
LEMMA TickDevicesFacts ==
    ASSUME NEW d, InTime(d), NEW cycles \in Nat
    PROVE  /\ InTime(TickDevices(d, cycles)) /\ Drained(TickDevices(d, cycles).mfp)
           /\ Drained(d.mfp) /\ cycles < CyclesToNextEvent(d) =>
                 Unmoved(d, TickDevices(d, cycles), cycles)
<1> DEFINE crtc == CrtcTick(d.crtc, cycles)
           mfp == MfpTick(TRUE, d.mfp, cycles)
           shown == IF crtc.inVBlank # d.crtc.inVBlank
                      THEN SetVerticalBlank(mfp, crtc.inVBlank) ELSE mfp
           rtc == RtcTick(d.rtc, cycles)
           x == TickDevices(d, cycles)
           n == cycles \div 2
<1>1. d.mfp \in MfpType /\ d.crtc \in CrtcType /\ d.rtc \in RtcType /\ InStep(d.crtc)
  BY DEF InTime, DeviceType
<1>2. n \in Nat /\ 2 * n <= cycles
  OBVIOUS
<1>3. /\ crtc \in CrtcType /\ InStep(crtc) /\ CyclesUntilVBlankEdge(d.crtc) \in 1 .. FrameCycles
      /\ cycles < CyclesUntilVBlankEdge(d.crtc) =>
            /\ crtc.inVBlank = d.crtc.inVBlank
            /\ CyclesUntilVBlankEdge(crtc) = CyclesUntilVBlankEdge(d.crtc) - cycles
  BY <1>1, CrtcTickFacts
<1>4. /\ rtc \in RtcType /\ rtc.accumulator \in 0 .. CyclesPerSecond - 1
      /\ cycles < CyclesUntilCarry(d.rtc) => rtc.accumulator = d.rtc.accumulator + cycles
  BY <1>1, RtcTickFacts
<1>5. /\ mfp \in MfpType /\ mfp.control = d.mfp.control /\ mfp.ier = d.mfp.ier
      /\ mfp.vdisp = d.mfp.vdisp /\ Drained(mfp)
      /\ Quiet(d.mfp, n) => AfterQuiet(d.mfp, mfp, n)
  BY <1>1, <1>2, MfpTickFacts
<1>6. x = [d EXCEPT !.mfp = shown, !.rtc = rtc, !.crtc = crtc]
  BY DEF TickDevices, TickDevicesBy
<1> HIDE DEF crtc, mfp, rtc, n
<1>7. shown \in MfpType /\ Drained(shown)
  BY <1>3, <1>5, SetVerticalBlankFacts DEF CrtcType
<1> HIDE DEF shown, x
<1>8. x \in DeviceType /\ x.mfp = shown /\ x.rtc = rtc /\ x.crtc = crtc
  <2> DEFINE r1 == [d EXCEPT !.mfp = shown]
             r2 == [r1 EXCEPT !.rtc = rtc]
  <2>1. x = [r2 EXCEPT !.crtc = crtc]
    BY <1>6
  <2>2. r1 \in DeviceType /\ r1.mfp = shown
    BY <1>7 DEF InTime, DeviceType
  <2> HIDE DEF r1
  <2>3. r2 \in DeviceType /\ r2.mfp = shown /\ r2.rtc = rtc
    BY <1>4, <2>2 DEF DeviceType
  <2> HIDE DEF r2
  <2> QED BY <1>3, <2>1, <2>3 DEF DeviceType
<1>9. InTime(x)
  BY <1>3, <1>4, <1>8, RtcAssumption DEF InTime
<1>10. ASSUME Drained(d.mfp), cycles < CyclesToNextEvent(d)
       PROVE  Unmoved(d, x, cycles)
  <2>a. AllAhead(d.mfp)
    BY <1>1, <1>10, DrainedIsAhead
  <2> DEFINE e == CyclesToNextEvent(d)
  <2>1. e \in Nat /\ cycles < e /\ Deadline(d, e)
    BY <1>10, NextEventFacts, CrtcAssumption
  <2> HIDE DEF e
  <2>2. \A t \in Running(d.mfp) : NeedMfp(d.mfp, t) \in Int
    BY <1>1, NeedIsInt DEF Running
  <2>3. Quiet(d.mfp, n)
    BY <1>2, <2>a, <2>1, <2>2 DEF Quiet, AllAhead, Deadline
  <2>4. mfp.ipr = d.mfp.ipr
        /\ \A t \in Running(d.mfp) : TimerRaises(d.mfp, t) => NeedMfp(mfp, t) = NeedMfp(d.mfp, t) - n
    BY <1>5, <2>3 DEF AfterQuiet
  <2>5. d.rtc.accumulator \in Nat /\ CyclesUntilCarry(d.rtc) \in Int /\ CyclesUntilVBlankEdge(d.crtc) \in Int
    BY <1>1, <1>3, ClockFields, RtcAssumption, CrtcAssumption DEF CyclesUntilCarry
  <2>6. cycles < CyclesUntilVBlankEdge(d.crtc) /\ cycles < CyclesUntilCarry(d.rtc)
    BY <2>1, <2>5 DEF Deadline
  <2>7. shown = mfp /\ CyclesUntilVBlankEdge(crtc) = CyclesUntilVBlankEdge(d.crtc) - cycles
    BY <1>3, <2>6 DEF shown
  <2>8. CyclesUntilCarry(rtc) = CyclesUntilCarry(d.rtc) - cycles
    BY <1>4, <2>5, <2>6, RtcAssumption DEF CyclesUntilCarry
  <2>9. Running(mfp) = Running(d.mfp) /\ \A t \in Timer : TimerRaises(mfp, t) = TimerRaises(d.mfp, t)
    BY <1>5 DEF Running, Prescale, TimerRaises
  <2>11. Deadline(x, e - cycles)
    <3>1. e - cycles <= NoDeadline /\ e - cycles <= CyclesUntilVBlankEdge(x.crtc)
          /\ e - cycles <= CyclesUntilCarry(x.rtc)
      BY <1>8, <2>1, <2>5, <2>7, <2>8, MfpAssumption DEF Deadline
    <3>2. ASSUME NEW t \in Running(mfp), TimerRaises(mfp, t)
          PROVE  e - cycles <= 2 * NeedMfp(mfp, t)
      <4>1. t \in Timer /\ t \in Running(d.mfp) /\ TimerRaises(d.mfp, t)
        BY <2>9, <3>2 DEF Running
      <4>2. NeedMfp(d.mfp, t) \in Int /\ e <= 2 * NeedMfp(d.mfp, t)
            /\ NeedMfp(mfp, t) = NeedMfp(d.mfp, t) - n
        BY <2>a, <2>1, <2>2, <2>4, <4>1 DEF AllAhead, Deadline
      <4> QED BY <1>2, <2>1, <4>2
    <3> QED BY <1>8, <2>7, <3>1, <3>2 DEF Deadline
  <2>12. e - cycles \in Int
    BY <2>1
  <2>13. e - cycles <= CyclesToNextEvent(x)
    BY <1>9, <2>11, <2>12, NextEventFacts
  <2>14. CyclesToNextEvent(x) \in Int
    BY <1>9, NextEventFacts
  <2>15. CyclesToNextEvent(x) >= e - cycles
    BY <2>12, <2>13, <2>14
  <2> QED BY <1>5, <1>8, <2>4, <2>7, <2>15 DEF Unmoved, e
<1> QED BY <1>7, <1>8, <1>9, <1>10 DEF x

\* Machine::settle, chunk by chunk.
Chunks(a, d, q, cycles) ==
    /\ \A k \in 0 .. q : InTime(a[k])
    /\ a[0] = d /\ \A k \in 1 .. q : a[k] = TickDevices(a[k - 1], MaxSettleChunk)
    /\ Settle(d, cycles) = IF cycles % MaxSettleChunk = 0 THEN a[q]
                           ELSE TickDevices(a[q], cycles % MaxSettleChunk)

\* Settling is a list of chunks.
LEMMA SettleUnfolds ==
    ASSUME NEW d, InTime(d), NEW cycles \in Nat
    PROVE  \E a : Chunks(a, d, cycles \div MaxSettleChunk, cycles)
<1> DEFINE q == cycles \div MaxSettleChunk
           T == {x \in DeviceType : InTime(x)}
           B(g) == [n \in 0 .. q |-> IF n = 0 THEN d ELSE TickDevices(g[n - 1], MaxSettleChunk)]
           a == CHOOSE g : g = B(g)
           step == [x \in T |-> TickDevices(x, MaxSettleChunk)]
<1>1. Settle(d, cycles) = IF cycles % MaxSettleChunk = 0 THEN a[q]
                          ELSE TickDevices(a[q], cycles % MaxSettleChunk)
  BY Zenon DEF Settle
<1>0. q \in Nat
  BY DivBound, DevicesAssumption
<1> HIDE DEF q
<1>2. step \in [T -> T]
  BY TickDevicesFacts, DevicesAssumption DEF InTime
<1>3. d \in T
  BY DEF InTime
<1>4. PICK b : IteratesIn(T, b, q, d, step)
  <2> HIDE DEF step, a, B, T
  <2> QED BY <1>0, <1>2, <1>3, Iterates
<1>5. \A k \in 1 .. q : k - 1 \in 0 .. q /\ k \in 0 .. q /\ k # 0
  BY <1>0
<1>6. b = B(b)
  <2>1. \A k \in 0 .. q : k # 0 => k - 1 \in 0 .. q /\ k \in 1 .. q
    BY <1>0
  <2>2. b \in [0 .. q -> T] /\ b[0] = d /\ \A k \in 1 .. q : b[k] = step[b[k - 1]]
    BY <1>4 DEF IteratesIn
  <2>3. \A x \in T : step[x] = TickDevices(x, MaxSettleChunk)
    OBVIOUS
  <2> HIDE DEF step, T
  <2>4. ASSUME NEW k \in 0 .. q
        PROVE  b[k] = IF k = 0 THEN d ELSE TickDevices(b[k - 1], MaxSettleChunk)
    BY <2>1, <2>2, <2>3
  <2> QED BY <1>0, <2>2, <2>4
<1>7. a = B(a)
  <2> HIDE DEF B
  <2> QED BY <1>6, Zenon
<1>8. a[0] = d /\ \A k \in 1 .. q : a[k] = TickDevices(a[k - 1], MaxSettleChunk)
  <2> HIDE DEF a
  <2> QED BY <1>0, <1>7, <1>5
<1> HIDE DEF a
<1> DEFINE V == {k \in 0 .. q : InTime(a[k])}
<1>9. 0 \in V /\ \A k \in 1 .. q : k - 1 \in V => k \in V
  <2>1. 0 \in V
    BY <1>0, <1>8
  <2>2. MaxSettleChunk \in Nat
    BY DevicesAssumption
  <2>3. ASSUME NEW k \in 1 .. q, k - 1 \in V PROVE k \in V
    <3>1. InTime(a[k - 1]) /\ a[k] = TickDevices(a[k - 1], MaxSettleChunk) /\ k \in 0 .. q
      BY <1>5, <1>8, <2>3
    <3>2. InTime(a[k])
      BY <2>2, <3>1, TickDevicesFacts
    <3> QED BY <3>1, <3>2
  <2> QED BY <2>1, <2>3
<1> HIDE DEF V
<1>10. 0 .. q \subseteq V
  BY <1>0, <1>9, InductionUpTo
<1> USE DEF V
<1> QED BY <1>1, <1>8, <1>10 DEF Chunks, q

\* Machine::settle, over any number of chunks, does what one tick does: before the next
\* event nothing, and the event stays where it was.
LEMMA SettleFacts ==
    ASSUME NEW d, InTime(d), NEW cycles \in Nat
    PROVE  /\ InTime(Settle(d, cycles))
           /\ Drained(d.mfp) \/ cycles > 0 => Drained(Settle(d, cycles).mfp)
           /\ Drained(d.mfp) /\ cycles < CyclesToNextEvent(d) =>
                 Unmoved(d, Settle(d, cycles), cycles)
<1> DEFINE q == cycles \div MaxSettleChunk
           r == cycles % MaxSettleChunk
           C == MaxSettleChunk
           x == Settle(d, cycles)
           e == CyclesToNextEvent(d)
<1>1. q \in Nat /\ r \in Nat /\ C \in Nat /\ C # 0 /\ cycles = q * C + r /\ q * C \in Nat
  <2>1. C \in Nat /\ C > 0
    BY DevicesAssumption
  <2>2. q \in Nat /\ r \in Nat
    BY <2>1, DivBound
  <2>3. cycles = q * C + r
    BY <2>1
  <2> HIDE DEF q, r
  <2> QED BY <2>1, <2>2, <2>3
<1>a. PICK a : Chunks(a, d, q, cycles)
  BY SettleUnfolds
<1>2. /\ \A k \in 0 .. q : InTime(a[k])
      /\ a[0] = d /\ (\A k \in 1 .. q : a[k] = TickDevices(a[k - 1], C))
      /\ x = IF r = 0 THEN a[q] ELSE TickDevices(a[q], r)
  BY <1>a DEF Chunks
<1> HIDE DEF q, r, C, x
<1>3. InTime(a[q])
  BY <1>1, <1>2
<1>4. InTime(x)
  BY <1>1, <1>2, <1>3, TickDevicesFacts
<1>6. ASSUME NEW k \in 0 .. q, Drained(d.mfp) \/ k # 0 PROVE Drained(a[k].mfp)
  <2>1. CASE k = 0
    BY <1>2, <1>6, <2>1
  <2>2. CASE k # 0
    <3>1. k \in 1 .. q /\ k - 1 \in 0 .. q
      BY <1>1, <2>2
    <3>2. InTime(a[k - 1]) /\ a[k] = TickDevices(a[k - 1], C)
      BY <1>2, <3>1
    <3> QED BY <1>1, <3>2, TickDevicesFacts
  <2> QED BY <2>1, <2>2
<1>7. ASSUME Drained(d.mfp) \/ cycles > 0 PROVE Drained(x.mfp)
  <2>1. CASE r = 0
    <3>1. Drained(d.mfp) \/ q # 0
      <4>1. q = 0 => q * C = 0
        BY <1>1
      <4> QED BY <1>1, <1>7, <2>1, <4>1
    <3>2. q \in 0 .. q
      BY <1>1
    <3> QED BY <1>2, <1>6, <2>1, <3>1, <3>2
  <2>2. CASE r # 0
    BY <1>1, <1>2, <1>3, <2>2, TickDevicesFacts
  <2> QED BY <2>1, <2>2
<1>5. ASSUME Drained(d.mfp), cycles < e PROVE Unmoved(d, x, cycles)
  <2>1. e \in Int /\ \A y : InTime(y) => CyclesToNextEvent(y) \in Int
    BY NextEventFacts
  <2> HIDE DEF e
  <2> DEFINE V == {k \in 0 .. q : Unmoved(d, a[k], k * C)}
  <2>2. 0 \in V
    <3>1. 0 * C = 0 /\ 0 \in 0 .. q
      BY <1>1
    <3> QED BY <1>2, <1>5, <2>1, <3>1 DEF Unmoved, e
  <2>3. ASSUME NEW k \in 1 .. q, k - 1 \in V PROVE k \in V
    <3>1. k \in 0 .. q /\ k - 1 \in 0 .. q /\ (k - 1) * C + C = k * C /\ k * C <= q * C
          /\ (k - 1) * C \in Int /\ k * C \in Int
      BY <1>1
    <3>2. Unmoved(d, a[k - 1], (k - 1) * C) /\ InTime(a[k - 1]) /\ a[k] = TickDevices(a[k - 1], C)
          /\ InTime(a[k])
      BY <1>2, <2>3, <3>1
    <3>3. CyclesToNextEvent(a[k - 1]) \in Int /\ CyclesToNextEvent(a[k - 1]) >= e - (k - 1) * C
      BY <2>1, <3>2 DEF Unmoved, e
    <3>4. C < CyclesToNextEvent(a[k - 1])
      BY <1>1, <1>5, <2>1, <3>1, <3>3
    <3>5. Unmoved(a[k - 1], a[k], C)
      BY <1>1, <1>5, <1>6, <3>1, <3>2, <3>4, TickDevicesFacts
    <3>6. CyclesToNextEvent(a[k]) >= e - k * C
      <4>1. CyclesToNextEvent(a[k]) \in Int /\ CyclesToNextEvent(a[k]) >= CyclesToNextEvent(a[k - 1]) - C
        BY <2>1, <3>2, <3>5 DEF Unmoved
      <4> QED BY <1>1, <2>1, <3>1, <3>3, <4>1
    <3> QED BY <3>1, <3>2, <3>5, <3>6 DEF Unmoved, e
  <2> HIDE DEF V
  <2>4. q \in V
    BY <1>1, <2>2, <2>3, InductionUpTo
  <2> USE DEF V
  <2>5. Unmoved(d, a[q], q * C)
    BY <2>4
  <2>6. CASE r = 0
    <3>1. q * C = cycles
      BY <1>1, <2>6
    <3> QED BY <1>2, <2>5, <2>6, <3>1
  <2>7. CASE r # 0
    <3>1. CyclesToNextEvent(a[q]) \in Int /\ CyclesToNextEvent(a[q]) >= e - q * C
      BY <1>3, <2>1, <2>5 DEF Unmoved, e
    <3>2. r < CyclesToNextEvent(a[q])
      BY <1>1, <1>5, <2>1, <3>1
    <3>3. Unmoved(a[q], x, r)
      <4>1. Drained(a[q].mfp)
        <5>1. q \in 0 .. q
          BY <1>1
        <5> QED BY <1>5, <1>6, <5>1
      <4> QED BY <1>1, <1>2, <1>3, <2>7, <3>2, <4>1, TickDevicesFacts
    <3>4. CyclesToNextEvent(x) >= e - cycles
      <4>1. CyclesToNextEvent(x) \in Int /\ CyclesToNextEvent(x) >= CyclesToNextEvent(a[q]) - r
        BY <1>4, <2>1, <3>3 DEF Unmoved
      <4> QED BY <1>1, <2>1, <3>1, <4>1
    <3> QED BY <2>5, <3>3, <3>4 DEF Unmoved, e
  <2> QED BY <2>6, <2>7
<1> QED BY <1>4, <1>5, <1>7 DEF x

--------------------------------------------------------------------------------
(* A step repeated *)

\* What n results of step make of base.
Nth(T, step, base, n) == (CHOOSE a : IteratesIn(T, a, n, base, step))[n]

\* Two lists of results agree as far as both go.
LEMMA IteratesAgree ==
    ASSUME NEW T, NEW step \in [T -> T], NEW base \in T, NEW n \in Nat, NEW m \in Nat, n <= m,
           NEW a, IteratesIn(T, a, n, base, step), NEW b, IteratesIn(T, b, m, base, step)
    PROVE  \A k \in 0 .. n : a[k] = b[k]
<1> DEFINE V == {k \in 0 .. n : a[k] = b[k]}
<1>1. 0 \in V
  BY DEF IteratesIn
<1>2. ASSUME NEW k \in 1 .. n, k - 1 \in V PROVE k \in V
  <2>1. k \in 1 .. m /\ k \in 0 .. n /\ a[k - 1] = b[k - 1]
    BY <1>2
  <2>2. a[k] = step[a[k - 1]] /\ b[k] = step[b[k - 1]]
    BY <2>1 DEF IteratesIn
  <2> QED BY <2>1, <2>2
<1> HIDE DEF V
<1>3. 0 .. n \subseteq V
  BY <1>1, <1>2, InductionUpTo
<1> USE DEF V
<1> QED BY <1>3

\* A list of results holds the repeated step.
LEMMA NthIs ==
    ASSUME NEW T, NEW step \in [T -> T], NEW base \in T, NEW n \in Nat,
           NEW a, IteratesIn(T, a, n, base, step)
    PROVE  \A k \in 0 .. n : a[k] = Nth(T, step, base, k)
<1> TAKE k \in 0 .. n
<1> DEFINE b == CHOOSE x : IteratesIn(T, x, k, base, step)
<1>1. IteratesIn(T, b, k, base, step)
  BY Iterates
<1>2. Nth(T, step, base, k) = b[k]
  BY DEF Nth
<1> HIDE DEF b
<1>3. \A i \in 0 .. k : b[i] = a[i]
  BY <1>1, IteratesAgree
<1> QED BY <1>2, <1>3

\* The repeated step, one by one.
LEMMA NthUnfolds ==
    ASSUME NEW T, NEW step \in [T -> T], NEW base \in T, NEW n \in Nat
    PROVE  /\ Nth(T, step, base, n) \in T
           /\ Nth(T, step, base, 0) = base
           /\ Nth(T, step, base, n + 1) = step[Nth(T, step, base, n)]
<1>1. PICK a : IteratesIn(T, a, n + 1, base, step)
  BY Iterates
<1>2. \A k \in 0 .. n + 1 : a[k] = Nth(T, step, base, k)
  BY <1>1, NthIs
<1>3. a[0] = base /\ a[n] \in T /\ a[n + 1] = step[a[(n + 1) - 1]]
  BY <1>1 DEF IteratesIn
<1>4. 0 \in 0 .. n + 1 /\ n \in 0 .. n + 1 /\ n + 1 \in 0 .. n + 1 /\ (n + 1) - 1 = n
  OBVIOUS
<1> QED BY <1>2, <1>3, <1>4

\* p times and then q times is p + q times.
LEMMA NthAdds ==
    ASSUME NEW T, NEW step \in [T -> T], NEW base \in T, NEW p \in Nat, NEW q \in Nat
    PROVE  Nth(T, step, Nth(T, step, base, p), q) = Nth(T, step, base, p + q)
<1> DEFINE x == Nth(T, step, base, p)
           U == {k \in Nat : Nth(T, step, x, k) = Nth(T, step, base, p + k)}
<1>1. x \in T
  BY NthUnfolds
<1> HIDE DEF x
<1>2. 0 \in U
  <2>1. Nth(T, step, x, 0) = x /\ p + 0 = p
    BY <1>1, NthUnfolds
  <2> QED BY <2>1 DEF x
<1>3. ASSUME NEW k \in Nat, k \in U PROVE k + 1 \in U
  <2>1. Nth(T, step, x, k + 1) = step[Nth(T, step, x, k)]
    BY <1>1, NthUnfolds
  <2>2. Nth(T, step, base, (p + k) + 1) = step[Nth(T, step, base, p + k)]
    BY NthUnfolds
  <2>3. (p + k) + 1 = p + (k + 1)
    OBVIOUS
  <2> QED BY <1>3, <2>1, <2>2, <2>3
<1> HIDE DEF U
<1>4. Nat \subseteq U
  BY <1>2, <1>3, Induction
<1> USE DEF U
<1> QED BY <1>4 DEF x

\* What commutes with one step commutes with all of them.
LEMMA NthCommutes ==
    ASSUME NEW T, NEW step \in [T -> T], NEW g \in [T -> T],
           \A x \in T : g[step[x]] = step[g[x]],
           NEW base \in T, NEW n \in Nat
    PROVE  g[Nth(T, step, base, n)] = Nth(T, step, g[base], n)
<1> DEFINE U == {k \in Nat : g[Nth(T, step, base, k)] = Nth(T, step, g[base], k)}
<1>1. g[base] \in T
  OBVIOUS
<1>2. 0 \in U
  BY <1>1, NthUnfolds
<1>3. ASSUME NEW k \in Nat, k \in U PROVE k + 1 \in U
  <2>1. Nth(T, step, g[base], k + 1) = step[Nth(T, step, g[base], k)]
    BY <1>1, NthUnfolds
  <2>2. Nth(T, step, base, k + 1) = step[Nth(T, step, base, k)] /\ Nth(T, step, base, k) \in T
    BY NthUnfolds
  <2> QED BY <1>3, <2>1, <2>2
<1> HIDE DEF U
<1>4. Nat \subseteq U
  BY <1>2, <1>3, Induction
<1> USE DEF U
<1> QED BY <1>4

\* Two steps that commute do so however often each is repeated.
LEMMA NthsCommute ==
    ASSUME NEW T, NEW f \in [T -> T], NEW g \in [T -> T],
           \A x \in T : g[f[x]] = f[g[x]],
           NEW base \in T, NEW i \in Nat, NEW j \in Nat
    PROVE  Nth(T, g, Nth(T, f, base, i), j) = Nth(T, f, Nth(T, g, base, j), i)
<1> DEFINE h == [x \in T |-> Nth(T, f, x, i)]
<1>1. h \in [T -> T] /\ \A x \in T : h[x] = Nth(T, f, x, i)
  BY NthUnfolds
<1> HIDE DEF h
<1>2. ASSUME NEW x \in T PROVE h[g[x]] = g[h[x]]
  <2>1. g[Nth(T, f, x, i)] = Nth(T, f, g[x], i)
    BY NthCommutes
  <2> QED BY <1>1, <2>1
<1>3. h[Nth(T, g, base, j)] = Nth(T, g, h[base], j)
  BY <1>1, <1>2, NthCommutes
<1>4. Nth(T, g, base, j) \in T
  BY NthUnfolds
<1> QED BY <1>1, <1>3, <1>4

--------------------------------------------------------------------------------
(* The timers tick apart *)

\* The moves of an MFP: a pass of the loop that counts a timer down, cycles handed to
\* its prescaler, and the edge of the blank.
Down(t) == [m \in Counting |-> CountDown(m, t)]
Ahead(m, t, n) == [m EXCEPT !.prescaleCounter[t] = @ + n]
Handed(t, n) == [m \in Counting |-> Ahead(m, t, n)]
Blank(active) == [m \in Counting |-> SetVerticalBlank(m, active)]

\* The fields no move touches.
Kept(m, n) ==
    /\ n.ier = m.ier /\ n.imr = m.imr /\ n.isr = m.isr /\ n.softwareEoi = m.softwareEoi
    /\ n.risingEdge = m.risingEdge /\ n.control = m.control /\ n.data = m.data
    /\ n.received = m.received

\* An MFP is what its fields are.
LEMMA SameMfp ==
    ASSUME NEW m \in Counting, NEW n \in Counting, Kept(m, n), n.ipr = m.ipr, n.vdisp = m.vdisp,
           n.prescaleCounter = m.prescaleCounter, n.timerValue = m.timerValue
    PROVE  m = n
BY DEF Counting, Kept

\* Both ways to keep the fields.
LEMMA KeptBoth ==
    /\ \A m, n, x : Kept(m, n) /\ Kept(n, x) => Kept(m, x)
    /\ \A m, n, x : Kept(m, n) /\ Kept(m, x) => Kept(n, x)
BY DEF Kept

\* What a channel adds to the pending ones.
Raised(m, c) == {c} \cap m.ier
\* The count after v.
Stepped(v, reload) == CASE v = 1 -> reload [] v = 0 -> TimerModulus - 1 [] OTHER -> v - 1

\* Raise, field by field.
LEMMA RaiseExact ==
    ASSUME NEW m \in Counting, NEW c \in Channel
    PROVE  /\ Raise(m, c) \in Counting /\ Kept(m, Raise(m, c)) /\ Raise(m, c).vdisp = m.vdisp
           /\ Raise(m, c).prescaleCounter = m.prescaleCounter
           /\ Raise(m, c).timerValue = m.timerValue
           /\ Raise(m, c).ipr = m.ipr \cup Raised(m, c)
<1>1. CASE c \in m.ier
  <2>1. Raise(m, c) = [m EXCEPT !.ipr = m.ipr \cup {c}] /\ Raised(m, c) = {c}
    BY <1>1 DEF Raise, Raised
  <2> QED BY <2>1 DEF Counting, Kept
<1>2. CASE c \notin m.ier
  BY <1>2 DEF Raise, Kept, Raised
<1> QED BY <1>1, <1>2

\* A pass of the loop of tickTimerCounted, field by field.
LEMMA CountDownExact ==
    ASSUME NEW m \in Counting, NEW t \in Timer
    PROVE  LET n == CountDown(m, t)
           IN  /\ n \in Counting /\ Kept(m, n) /\ n.vdisp = m.vdisp
               /\ n.prescaleCounter = [m.prescaleCounter EXCEPT ![t] = m.prescaleCounter[t] - Prescale(m, t)]
               /\ n.timerValue = [m.timerValue EXCEPT ![t] = Stepped(m.timerValue[t], m.data[t])]
               /\ n.ipr = m.ipr \cup (IF m.timerValue[t] = 1 THEN Raised(m, TimerChannel[t]) ELSE {})
<1> DEFINE w == m.timerValue[t]
           v == IF w = 0 THEN TimerModulus - 1 ELSE w - 1
           c == m.prescaleCounter[t] - Prescale(m, t)
           prescaled == [m EXCEPT !.prescaleCounter[t] = c]
           counted == [prescaled EXCEPT !.timerValue[t] = v]
           reloaded == [counted EXCEPT !.timerValue[t] = m.data[t]]
<1>1. v \in 0 .. TimerModulus - 1 /\ m.data[t] \in 0 .. TimerModulus - 1 /\ w \in 0 .. TimerModulus - 1
  BY MfpAssumption DEF Counting
<1>2. c \in Int
  BY PrescaleIsNat DEF Counting
<1>3. v = 0 <=> w = 1
  BY MfpAssumption DEF Counting
<1>4. CountDown(m, t) = IF v # 0 THEN counted ELSE Raise(reloaded, TimerChannel[t])
  <2>1. [m EXCEPT !.prescaleCounter[t] = c, !.timerValue[t] = v] = counted
    OBVIOUS
  <2> QED BY <2>1 DEF CountDown
<1>a. v # 0 => v = Stepped(w, m.data[t])
  BY <1>1, <1>3, MfpAssumption DEF Stepped
<1> HIDE DEF v, c, w
<1>5. prescaled \in Counting /\ Kept(m, prescaled) /\ prescaled.vdisp = m.vdisp /\ prescaled.ipr = m.ipr
      /\ prescaled.prescaleCounter = [m.prescaleCounter EXCEPT ![t] = c]
      /\ prescaled.timerValue = m.timerValue
  BY <1>2 DEF Counting, Kept
<1>6. counted \in Counting /\ Kept(m, counted) /\ counted.vdisp = m.vdisp /\ counted.ipr = m.ipr
      /\ counted.prescaleCounter = [m.prescaleCounter EXCEPT ![t] = c]
      /\ counted.timerValue = [m.timerValue EXCEPT ![t] = v]
  <2> HIDE DEF prescaled
  <2> QED BY <1>5, <1>1 DEF Counting, Kept
<1>7. reloaded \in Counting /\ Kept(m, reloaded) /\ reloaded.vdisp = m.vdisp /\ reloaded.ipr = m.ipr
      /\ reloaded.prescaleCounter = [m.prescaleCounter EXCEPT ![t] = c]
      /\ reloaded.timerValue = [m.timerValue EXCEPT ![t] = m.data[t]]
  <2> HIDE DEF counted
  <2>1. reloaded.timerValue = [counted.timerValue EXCEPT ![t] = m.data[t]]
    BY <1>6, <1>1 DEF Counting
  <2>2. m.timerValue \in [Timer -> 0 .. TimerModulus - 1]
    BY CountingFields
  <2>3. reloaded \in Counting /\ Kept(m, reloaded) /\ reloaded.vdisp = m.vdisp /\ reloaded.ipr = m.ipr
        /\ reloaded.prescaleCounter = counted.prescaleCounter
    BY <1>6, <1>1 DEF Counting, Kept
  <2> QED BY <1>6, <2>1, <2>2, <2>3
<1> HIDE DEF prescaled, counted, reloaded
<1>10. CASE v # 0
  BY <1>a, <1>3, <1>4, <1>6, <1>10 DEF w, c
<1>11. CASE v = 0
  <2>1. TimerChannel[t] \in Channel
    BY ChannelOfTimer
  <2>2. /\ Raise(reloaded, TimerChannel[t]) \in Counting /\ Kept(reloaded, Raise(reloaded, TimerChannel[t]))
        /\ Raise(reloaded, TimerChannel[t]).vdisp = reloaded.vdisp
        /\ Raise(reloaded, TimerChannel[t]).prescaleCounter = reloaded.prescaleCounter
        /\ Raise(reloaded, TimerChannel[t]).timerValue = reloaded.timerValue
        /\ Raise(reloaded, TimerChannel[t]).ipr = reloaded.ipr \cup Raised(reloaded, TimerChannel[t])
    BY <1>7, <2>1, RaiseExact
  <2>3. Raised(reloaded, TimerChannel[t]) = Raised(m, TimerChannel[t])
    BY <1>7 DEF Raised, Kept
  <2>4. Stepped(w, m.data[t]) = m.data[t]
    BY <1>3, <1>11 DEF Stepped
  <2> QED BY <1>3, <1>4, <1>7, <1>11, <2>2, <2>3, <2>4 DEF Kept, w, c
<1> QED BY <1>10, <1>11

\* Cycles handed to a prescaler, and the edge of the blank, field by field.
LEMMA AheadExact ==
    ASSUME NEW m \in Counting, NEW t \in Timer, NEW n \in Int
    PROVE  LET x == Ahead(m, t, n)
           IN  /\ x \in Counting /\ Kept(m, x) /\ x.vdisp = m.vdisp /\ x.ipr = m.ipr
               /\ x.prescaleCounter = [m.prescaleCounter EXCEPT ![t] = m.prescaleCounter[t] + n]
               /\ x.timerValue = m.timerValue
<1> DEFINE c == m.prescaleCounter[t] + n
<1>1. c \in Int
  BY DEF Counting
<1>2. Ahead(m, t, n) = [m EXCEPT !.prescaleCounter[t] = c]
  BY DEF Ahead, Counting
<1> HIDE DEF c
<1>3. LET x == [m EXCEPT !.prescaleCounter[t] = c]
      IN  /\ x \in Counting /\ Kept(m, x) /\ x.vdisp = m.vdisp /\ x.ipr = m.ipr
          /\ x.prescaleCounter = [m.prescaleCounter EXCEPT ![t] = c]
          /\ x.timerValue = m.timerValue
  BY <1>1 DEF Counting, Kept
<1> QED BY <1>2, <1>3 DEF c

\* What the edge of the blank adds to the pending channels.
BlankRaises(m, active) ==
    IF (~active) # m.vdisp /\ (~active) = m.risingEdge THEN Raised(m, Gpip4) ELSE {}

\* The edge moves GPIP4 and raises its channel at most.
LEMMA BlankExact ==
    ASSUME NEW m \in Counting, NEW active \in BOOLEAN
    PROVE  LET x == SetVerticalBlank(m, active)
           IN  /\ x \in Counting /\ Kept(m, x) /\ x.vdisp = ~active
               /\ x.prescaleCounter = m.prescaleCounter /\ x.timerValue = m.timerValue
               /\ x.ipr = m.ipr \cup BlankRaises(m, active)
<1> DEFINE v == ~active
           moved == [m EXCEPT !.vdisp = v]
<1>0. v \in BOOLEAN
  OBVIOUS
<1>1. SetVerticalBlank(m, active) =
        IF moved.vdisp # m.vdisp /\ moved.vdisp = m.risingEdge THEN Raise(moved, Gpip4) ELSE moved
  BY DEF SetVerticalBlank
<1>2. BlankRaises(m, active) = IF v # m.vdisp /\ v = m.risingEdge THEN Raised(m, Gpip4) ELSE {}
  BY Zenon DEF BlankRaises
<1> SUFFICES LET x == SetVerticalBlank(m, active)
             IN  /\ x \in Counting /\ Kept(m, x) /\ x.vdisp = v
                 /\ x.prescaleCounter = m.prescaleCounter /\ x.timerValue = m.timerValue
                 /\ x.ipr = m.ipr \cup BlankRaises(m, active)
  OBVIOUS
<1> HIDE DEF v
<1>3. moved \in Counting /\ Kept(m, moved) /\ moved.vdisp = v /\ moved.ipr = m.ipr
      /\ moved.prescaleCounter = m.prescaleCounter /\ moved.timerValue = m.timerValue
  BY <1>0 DEF Counting, Kept
<1> HIDE DEF moved
<1>4. /\ Raise(moved, Gpip4) \in Counting /\ Kept(moved, Raise(moved, Gpip4))
      /\ Raise(moved, Gpip4).vdisp = moved.vdisp
      /\ Raise(moved, Gpip4).prescaleCounter = moved.prescaleCounter
      /\ Raise(moved, Gpip4).timerValue = moved.timerValue
      /\ Raise(moved, Gpip4).ipr = moved.ipr \cup Raised(moved, Gpip4)
  <2>1. Gpip4 \in Channel
    BY DEF Gpip4, Channel
  <2> QED BY <1>3, <2>1, RaiseExact
<1>5. Raised(moved, Gpip4) = Raised(m, Gpip4)
  BY <1>3 DEF Raised, Kept
<1>6. CASE v # m.vdisp /\ v = m.risingEdge
  <2>1. SetVerticalBlank(m, active) = Raise(moved, Gpip4) /\ BlankRaises(m, active) = Raised(m, Gpip4)
    BY <1>1, <1>2, <1>3, <1>6
  <2> QED BY <1>3, <1>4, <1>5, <2>1, KeptBoth
<1>7. CASE ~(v # m.vdisp /\ v = m.risingEdge)
  <2>1. SetVerticalBlank(m, active) = moved /\ BlankRaises(m, active) = {}
    BY <1>1, <1>2, <1>3, <1>7
  <2> QED BY <1>3, <2>1
<1> QED BY <1>6, <1>7

\* The moves are functions on the MFPs.
LEMMA Moves ==
    /\ \A t \in Timer : Down(t) \in [Counting -> Counting]
    /\ \A t \in Timer, n \in Int : Handed(t, n) \in [Counting -> Counting]
    /\ \A active \in BOOLEAN : Blank(active) \in [Counting -> Counting]
<1>1. ASSUME NEW t \in Timer PROVE Down(t) \in [Counting -> Counting]
  BY CountDownExact DEF Down
<1>2. ASSUME NEW t \in Timer, NEW n \in Int PROVE Handed(t, n) \in [Counting -> Counting]
  BY AheadExact DEF Handed
<1>3. ASSUME NEW active \in BOOLEAN PROVE Blank(active) \in [Counting -> Counting]
  BY BlankExact DEF Blank
<1> QED BY <1>1, <1>2, <1>3

\* A prescale depends on the control register only.
LEMMA KeptPrescale ==
    ASSUME NEW m, NEW n, Kept(m, n)
    PROVE  /\ \A t \in Timer : Prescale(n, t) = Prescale(m, t)
           /\ Running(n) = Running(m)
           /\ \A c \in Channel : Raised(n, c) = Raised(m, c)
BY DEF Kept, Prescale, Running, Raised

\* Two timers counted down in either order.
LEMMA DownDown ==
    ASSUME NEW t \in Timer, NEW u \in Timer, t # u, NEW m \in Counting
    PROVE  CountDown(CountDown(m, t), u) = CountDown(CountDown(m, u), t)
<1> DEFINE a == CountDown(m, t)
           b == CountDown(m, u)
           R(x, v) == IF x.timerValue[v] = 1 THEN Raised(x, TimerChannel[v]) ELSE {}
<1>1. /\ a \in Counting /\ Kept(m, a) /\ a.vdisp = m.vdisp
      /\ a.prescaleCounter = [m.prescaleCounter EXCEPT ![t] = m.prescaleCounter[t] - Prescale(m, t)]
      /\ a.timerValue = [m.timerValue EXCEPT ![t] = Stepped(m.timerValue[t], m.data[t])]
      /\ a.ipr = m.ipr \cup R(m, t)
  BY CountDownExact
<1>2. /\ b \in Counting /\ Kept(m, b) /\ b.vdisp = m.vdisp
      /\ b.prescaleCounter = [m.prescaleCounter EXCEPT ![u] = m.prescaleCounter[u] - Prescale(m, u)]
      /\ b.timerValue = [m.timerValue EXCEPT ![u] = Stepped(m.timerValue[u], m.data[u])]
      /\ b.ipr = m.ipr \cup R(m, u)
  BY CountDownExact
<1> HIDE DEF a, b
<1> DEFINE ab == CountDown(a, u)
           ba == CountDown(b, t)
<1>3. /\ ab \in Counting /\ Kept(a, ab) /\ ab.vdisp = a.vdisp
      /\ ab.prescaleCounter = [a.prescaleCounter EXCEPT ![u] = a.prescaleCounter[u] - Prescale(a, u)]
      /\ ab.timerValue = [a.timerValue EXCEPT ![u] = Stepped(a.timerValue[u], a.data[u])]
      /\ ab.ipr = a.ipr \cup R(a, u)
  BY <1>1, CountDownExact
<1>4. /\ ba \in Counting /\ Kept(b, ba) /\ ba.vdisp = b.vdisp
      /\ ba.prescaleCounter = [b.prescaleCounter EXCEPT ![t] = b.prescaleCounter[t] - Prescale(b, t)]
      /\ ba.timerValue = [b.timerValue EXCEPT ![t] = Stepped(b.timerValue[t], b.data[t])]
      /\ ba.ipr = b.ipr \cup R(b, t)
  BY <1>2, CountDownExact
<1> HIDE DEF ab, ba
<1>5. /\ Prescale(a, u) = Prescale(m, u) /\ Prescale(b, t) = Prescale(m, t)
      /\ a.data = m.data /\ b.data = m.data
  BY <1>1, <1>2, KeptPrescale DEF Kept
<1>6. m.prescaleCounter \in [Timer -> Int] /\ m.timerValue \in [Timer -> 0 .. TimerModulus - 1]
  BY CountingFields
<1>7. /\ a.prescaleCounter[u] = m.prescaleCounter[u] /\ b.prescaleCounter[t] = m.prescaleCounter[t]
      /\ a.timerValue[u] = m.timerValue[u] /\ b.timerValue[t] = m.timerValue[t]
  BY <1>1, <1>2, <1>6
<1>8. R(a, u) = R(m, u) /\ R(b, t) = R(m, t)
  <2>1. TimerChannel[t] \in Channel /\ TimerChannel[u] \in Channel
    BY ChannelOfTimer
  <2>2. Raised(a, TimerChannel[u]) = Raised(m, TimerChannel[u]) /\ Raised(b, TimerChannel[t]) = Raised(m, TimerChannel[t])
    BY <1>1, <1>2, <2>1, KeptPrescale
  <2> QED BY <1>7, <2>2
<1>9. ab.prescaleCounter = ba.prescaleCounter
  BY <1>1, <1>2, <1>3, <1>4, <1>5, <1>6, <1>7
<1>10. ab.timerValue = ba.timerValue
  BY <1>1, <1>2, <1>3, <1>4, <1>5, <1>6, <1>7
<1>11. ab.ipr = ba.ipr
  <2> HIDE DEF R
  <2> QED BY <1>1, <1>2, <1>3, <1>4, <1>8
<1>12. ab = ba
  <2>1. Kept(ab, ba)
    BY <1>1, <1>2, <1>3, <1>4, KeptBoth
  <2>2. ab.vdisp = ba.vdisp
    BY <1>1, <1>2, <1>3, <1>4
  <2> QED BY <1>3, <1>4, <1>9, <1>10, <1>11, <2>1, <2>2, SameMfp
<1> QED BY <1>12 DEF ab, ba, a, b

\* A timer counted down, and cycles handed to its prescaler or to another's.
LEMMA DownAhead ==
    ASSUME NEW t \in Timer, NEW u \in Timer, NEW n \in Int, NEW m \in Counting
    PROVE  CountDown(Ahead(m, u, n), t) = Ahead(CountDown(m, t), u, n)
<1> DEFINE a == CountDown(m, t)
           b == Ahead(m, u, n)
           R(x, v) == IF x.timerValue[v] = 1 THEN Raised(x, TimerChannel[v]) ELSE {}
<1>1. /\ a \in Counting /\ Kept(m, a) /\ a.vdisp = m.vdisp
      /\ a.prescaleCounter = [m.prescaleCounter EXCEPT ![t] = m.prescaleCounter[t] - Prescale(m, t)]
      /\ a.timerValue = [m.timerValue EXCEPT ![t] = Stepped(m.timerValue[t], m.data[t])]
      /\ a.ipr = m.ipr \cup R(m, t)
  BY CountDownExact
<1>2. /\ b \in Counting /\ Kept(m, b) /\ b.vdisp = m.vdisp /\ b.ipr = m.ipr
      /\ b.prescaleCounter = [m.prescaleCounter EXCEPT ![u] = m.prescaleCounter[u] + n]
      /\ b.timerValue = m.timerValue
  BY AheadExact
<1> HIDE DEF a, b
<1> DEFINE ab == Ahead(a, u, n)
           ba == CountDown(b, t)
<1>3. /\ ab \in Counting /\ Kept(a, ab) /\ ab.vdisp = a.vdisp /\ ab.ipr = a.ipr
      /\ ab.prescaleCounter = [a.prescaleCounter EXCEPT ![u] = a.prescaleCounter[u] + n]
      /\ ab.timerValue = a.timerValue
  BY <1>1, AheadExact
<1>4. /\ ba \in Counting /\ Kept(b, ba) /\ ba.vdisp = b.vdisp
      /\ ba.prescaleCounter = [b.prescaleCounter EXCEPT ![t] = b.prescaleCounter[t] - Prescale(b, t)]
      /\ ba.timerValue = [b.timerValue EXCEPT ![t] = Stepped(b.timerValue[t], b.data[t])]
      /\ ba.ipr = b.ipr \cup R(b, t)
  BY <1>2, CountDownExact
<1> HIDE DEF ab, ba
<1>5. Prescale(b, t) = Prescale(m, t) /\ b.data = m.data /\ Prescale(m, t) \in Nat
  BY <1>2, KeptPrescale, PrescaleIsNat DEF Kept
<1>6. m.prescaleCounter \in [Timer -> Int]
  BY CountingFields
<1>8. R(b, t) = R(m, t)
  <2>1. TimerChannel[t] \in Channel
    BY ChannelOfTimer
  <2>2. Raised(b, TimerChannel[t]) = Raised(m, TimerChannel[t])
    BY <1>2, <2>1, KeptPrescale
  <2> QED BY <1>2, <2>2
<1>9. ab.prescaleCounter = ba.prescaleCounter
  <2>1. CASE t = u
    BY <1>1, <1>2, <1>3, <1>4, <1>5, <1>6, <2>1
  <2>2. CASE t # u
    BY <1>1, <1>2, <1>3, <1>4, <1>5, <1>6, <2>2
  <2> QED BY <2>1, <2>2
<1>10. ab.timerValue = ba.timerValue
  BY <1>1, <1>2, <1>3, <1>4, <1>5
<1>11. ab.ipr = ba.ipr
  <2> HIDE DEF R
  <2> QED BY <1>1, <1>2, <1>3, <1>4, <1>8
<1>12. ab = ba
  <2>1. Kept(ab, ba)
    BY <1>1, <1>2, <1>3, <1>4, KeptBoth
  <2>2. ab.vdisp = ba.vdisp
    BY <1>1, <1>2, <1>3, <1>4
  <2> QED BY <1>3, <1>4, <1>9, <1>10, <1>11, <2>1, <2>2, SameMfp
<1> QED BY <1>12 DEF ab, ba, a, b

\* Cycles handed to two prescalers, in either order; and twice to one.
LEMMA AheadAhead ==
    ASSUME NEW t \in Timer, NEW u \in Timer, NEW a \in Int, NEW b \in Int, NEW m \in Counting
    PROVE  /\ t # u => Ahead(Ahead(m, t, a), u, b) = Ahead(Ahead(m, u, b), t, a)
           /\ Ahead(Ahead(m, t, a), t, b) = Ahead(m, t, a + b)
<1> DEFINE x == Ahead(m, t, a)
           y == Ahead(m, u, b)
           z == Ahead(m, t, a + b)
           xu == Ahead(x, u, b)
           yt == Ahead(y, t, a)
           xt == Ahead(x, t, b)
<1>1. /\ x \in Counting /\ Kept(m, x) /\ x.vdisp = m.vdisp /\ x.ipr = m.ipr
      /\ x.prescaleCounter = [m.prescaleCounter EXCEPT ![t] = m.prescaleCounter[t] + a]
      /\ x.timerValue = m.timerValue
  BY AheadExact
<1>2. /\ y \in Counting /\ Kept(m, y) /\ y.vdisp = m.vdisp /\ y.ipr = m.ipr
      /\ y.prescaleCounter = [m.prescaleCounter EXCEPT ![u] = m.prescaleCounter[u] + b]
      /\ y.timerValue = m.timerValue
  BY AheadExact
<1>3. /\ z \in Counting /\ Kept(m, z) /\ z.vdisp = m.vdisp /\ z.ipr = m.ipr
      /\ z.prescaleCounter = [m.prescaleCounter EXCEPT ![t] = m.prescaleCounter[t] + (a + b)]
      /\ z.timerValue = m.timerValue
  <2> DEFINE n == a + b
  <2>1. n \in Int
    OBVIOUS
  <2> HIDE DEF n
  <2>2. LET w == Ahead(m, t, n)
        IN  /\ w \in Counting /\ Kept(m, w) /\ w.vdisp = m.vdisp /\ w.ipr = m.ipr
            /\ w.prescaleCounter = [m.prescaleCounter EXCEPT ![t] = m.prescaleCounter[t] + n]
            /\ w.timerValue = m.timerValue
    BY <2>1, AheadExact
  <2> QED BY <2>2 DEF n
<1> HIDE DEF x, y, z
<1>4. /\ xu \in Counting /\ Kept(x, xu) /\ xu.vdisp = x.vdisp /\ xu.ipr = x.ipr
      /\ xu.prescaleCounter = [x.prescaleCounter EXCEPT ![u] = x.prescaleCounter[u] + b]
      /\ xu.timerValue = x.timerValue
  BY <1>1, AheadExact
<1>5. /\ yt \in Counting /\ Kept(y, yt) /\ yt.vdisp = y.vdisp /\ yt.ipr = y.ipr
      /\ yt.prescaleCounter = [y.prescaleCounter EXCEPT ![t] = y.prescaleCounter[t] + a]
      /\ yt.timerValue = y.timerValue
  BY <1>2, AheadExact
<1>6. /\ xt \in Counting /\ Kept(x, xt) /\ xt.vdisp = x.vdisp /\ xt.ipr = x.ipr
      /\ xt.prescaleCounter = [x.prescaleCounter EXCEPT ![t] = x.prescaleCounter[t] + b]
      /\ xt.timerValue = x.timerValue
  BY <1>1, AheadExact
<1> HIDE DEF xu, yt, xt
<1>7. m.prescaleCounter \in [Timer -> Int]
  BY CountingFields
<1>8. t # u => xu.prescaleCounter = yt.prescaleCounter
  BY <1>1, <1>2, <1>4, <1>5, <1>7
<1>9. xt.prescaleCounter = z.prescaleCounter
  BY <1>1, <1>3, <1>6, <1>7
<1>10. t # u => xu = yt
  <2>1. Kept(xu, yt)
    BY <1>1, <1>2, <1>4, <1>5, KeptBoth
  <2> QED BY <1>1, <1>2, <1>4, <1>5, <1>8, <2>1, SameMfp
<1>11. xt = z
  <2>1. Kept(xt, z)
    BY <1>1, <1>3, <1>6, KeptBoth
  <2> QED BY <1>1, <1>3, <1>6, <1>9, <2>1, SameMfp
<1> QED BY <1>10, <1>11 DEF xu, yt, xt, x, y, z

\* The edge of the blank before or after a count, or cycles handed over.
LEMMA BlankDown ==
    ASSUME NEW t \in Timer, NEW active \in BOOLEAN, NEW m \in Counting
    PROVE  CountDown(SetVerticalBlank(m, active), t) = SetVerticalBlank(CountDown(m, t), active)
<1> DEFINE a == CountDown(m, t)
           b == SetVerticalBlank(m, active)
           R(x, v) == IF x.timerValue[v] = 1 THEN Raised(x, TimerChannel[v]) ELSE {}
<1>1. /\ a \in Counting /\ Kept(m, a) /\ a.vdisp = m.vdisp
      /\ a.prescaleCounter = [m.prescaleCounter EXCEPT ![t] = m.prescaleCounter[t] - Prescale(m, t)]
      /\ a.timerValue = [m.timerValue EXCEPT ![t] = Stepped(m.timerValue[t], m.data[t])]
      /\ a.ipr = m.ipr \cup R(m, t)
  BY CountDownExact
<1>2. /\ b \in Counting /\ Kept(m, b) /\ b.vdisp = ~active
      /\ b.prescaleCounter = m.prescaleCounter /\ b.timerValue = m.timerValue
      /\ b.ipr = m.ipr \cup BlankRaises(m, active)
  BY BlankExact
<1> HIDE DEF a, b
<1> DEFINE ab == SetVerticalBlank(a, active)
           ba == CountDown(b, t)
<1>3. /\ ab \in Counting /\ Kept(a, ab) /\ ab.vdisp = ~active
      /\ ab.prescaleCounter = a.prescaleCounter /\ ab.timerValue = a.timerValue
      /\ ab.ipr = a.ipr \cup BlankRaises(a, active)
  BY <1>1, BlankExact
<1>4. /\ ba \in Counting /\ Kept(b, ba) /\ ba.vdisp = b.vdisp
      /\ ba.prescaleCounter = [b.prescaleCounter EXCEPT ![t] = b.prescaleCounter[t] - Prescale(b, t)]
      /\ ba.timerValue = [b.timerValue EXCEPT ![t] = Stepped(b.timerValue[t], b.data[t])]
      /\ ba.ipr = b.ipr \cup R(b, t)
  BY <1>2, CountDownExact
<1> HIDE DEF ab, ba
<1>5. Prescale(b, t) = Prescale(m, t) /\ b.data = m.data
  BY <1>2, KeptPrescale DEF Kept
<1>6. R(b, t) = R(m, t)
  <2>1. TimerChannel[t] \in Channel
    BY ChannelOfTimer
  <2>2. Raised(b, TimerChannel[t]) = Raised(m, TimerChannel[t])
    BY <1>2, <2>1, KeptPrescale
  <2> QED BY <1>2, <2>2
<1>7. BlankRaises(a, active) = BlankRaises(m, active)
  <2>1. Raised(a, Gpip4) = Raised(m, Gpip4) /\ a.risingEdge = m.risingEdge
    BY <1>1 DEF Raised, Kept
  <2> QED BY <1>1, <2>1 DEF BlankRaises
<1>8. ab.ipr = ba.ipr
  <2> HIDE DEF R
  <2> QED BY <1>1, <1>2, <1>3, <1>4, <1>6, <1>7
<1>9. ab = ba
  <2>1. Kept(ab, ba)
    BY <1>1, <1>2, <1>3, <1>4, KeptBoth
  <2>2. ab.vdisp = ba.vdisp
    BY <1>2, <1>3, <1>4
  <2>3. ab.prescaleCounter = ba.prescaleCounter /\ ab.timerValue = ba.timerValue
    BY <1>1, <1>2, <1>3, <1>4, <1>5
  <2> QED BY <1>3, <1>4, <1>8, <2>1, <2>2, <2>3, SameMfp
<1> QED BY <1>9 DEF ab, ba, a, b

\* The edge does not mind what the prescaler holds.
LEMMA BlankAhead ==
    ASSUME NEW t \in Timer, NEW active \in BOOLEAN, NEW n \in Int, NEW m \in Counting
    PROVE  Ahead(SetVerticalBlank(m, active), t, n) = SetVerticalBlank(Ahead(m, t, n), active)
<1> DEFINE a == Ahead(m, t, n)
           b == SetVerticalBlank(m, active)
<1>1. /\ a \in Counting /\ Kept(m, a) /\ a.vdisp = m.vdisp /\ a.ipr = m.ipr
      /\ a.prescaleCounter = [m.prescaleCounter EXCEPT ![t] = m.prescaleCounter[t] + n]
      /\ a.timerValue = m.timerValue
  BY AheadExact
<1>2. /\ b \in Counting /\ Kept(m, b) /\ b.vdisp = ~active
      /\ b.prescaleCounter = m.prescaleCounter /\ b.timerValue = m.timerValue
      /\ b.ipr = m.ipr \cup BlankRaises(m, active)
  BY BlankExact
<1> HIDE DEF a, b
<1> DEFINE ab == SetVerticalBlank(a, active)
           ba == Ahead(b, t, n)
<1>3. /\ ab \in Counting /\ Kept(a, ab) /\ ab.vdisp = ~active
      /\ ab.prescaleCounter = a.prescaleCounter /\ ab.timerValue = a.timerValue
      /\ ab.ipr = a.ipr \cup BlankRaises(a, active)
  BY <1>1, BlankExact
<1>4. /\ ba \in Counting /\ Kept(b, ba) /\ ba.vdisp = b.vdisp /\ ba.ipr = b.ipr
      /\ ba.prescaleCounter = [b.prescaleCounter EXCEPT ![t] = b.prescaleCounter[t] + n]
      /\ ba.timerValue = b.timerValue
  BY <1>2, AheadExact
<1> HIDE DEF ab, ba
<1>7. BlankRaises(a, active) = BlankRaises(m, active)
  <2>1. Raised(a, Gpip4) = Raised(m, Gpip4) /\ a.risingEdge = m.risingEdge
    BY <1>1 DEF Raised, Kept
  <2> QED BY <1>1, <2>1 DEF BlankRaises
<1>9. ab = ba
  <2>1. Kept(ab, ba)
    BY <1>1, <1>2, <1>3, <1>4, KeptBoth
  <2>2. ab.vdisp = ba.vdisp
    BY <1>2, <1>3, <1>4
  <2>3. ab.prescaleCounter = ba.prescaleCounter /\ ab.timerValue = ba.timerValue /\ ab.ipr = ba.ipr
    BY <1>1, <1>2, <1>3, <1>4, <1>7
  <2> QED BY <1>3, <1>4, <2>1, <2>2, <2>3, SameMfp
<1> QED BY <1>9 DEF ab, ba, a, b

\* What a running timer does in n MFP cycles: the cycles are handed to its prescaler,
\* and it is counted down once for each prescale that is full.
Passes(m, t, n) == (m.prescaleCounter[t] + n) \div Prescale(m, t)
Run(m, t, n) == Nth(Counting, Down(t), Ahead(m, t, n), Passes(m, t, n))

\* Mfp::tickFast does so by the short path as by the loop (tickTimerCounted).
LEMMA TickTimerRuns ==
    ASSUME NEW m \in MfpType, NEW t \in Running(m), NEW n \in Nat, NEW fastPath \in BOOLEAN
    PROVE  TickTimer(fastPath, m, t, n) = Run(m, t, n) /\ Passes(m, t, n) \in Nat
<1> DEFINE p == Prescale(m, t)
           c == m.prescaleCounter[t] + n
           added == Ahead(m, t, n)
           r == TickTimer(fastPath, m, t, n)
           q == c \div p
           D == Down(t)
<1>1. m \in Counting /\ t \in Timer
  BY MfpIsCounting DEF Running
<1>2. p \in Nat /\ p # 0
  BY <1>1, PrescaleIsNat DEF Running
<1>3. c \in Nat /\ m.prescaleCounter[t] \in Nat
  BY <1>1 DEF MfpType
<1>4. /\ added \in Counting /\ Kept(m, added) /\ added.vdisp = m.vdisp /\ added.ipr = m.ipr
      /\ added.prescaleCounter = [m.prescaleCounter EXCEPT ![t] = c]
      /\ added.timerValue = m.timerValue
  BY <1>1, AheadExact
<1>5. added.prescaleCounter[t] = c /\ Prescale(added, t) = p
  <2>1. m.prescaleCounter \in [Timer -> Int]
    BY <1>1, CountingFields
  <2> QED BY <1>1, <1>4, <2>1, KeptPrescale
<1>6. q \in Nat /\ q * p <= c /\ c < q * p + p
  BY <1>2, <1>3, DivBound
<1>7. r = IF c - p < 0 THEN added
          ELSE IF fastPath /\ c - p < p /\ m.timerValue[t] > 1
            THEN [added EXCEPT !.prescaleCounter[t] = c - p, !.timerValue[t] = @ - 1]
            ELSE TickTimerCounted(added, t)
  <2>1. added.prescaleCounter[t] - p = c - p
    BY <1>5
  <2> DEFINE left == added.prescaleCounter[t] - p
  <2>2. r = IF left < 0 THEN added
            ELSE IF fastPath /\ left < p /\ m.timerValue[t] > 1
              THEN [added EXCEPT !.prescaleCounter[t] = left, !.timerValue[t] = @ - 1]
              ELSE TickTimerCounted(added, t)
    BY DEF TickTimer, Ahead
  <2>3. left = c - p
    BY <2>1
  <2> HIDE DEF left, added, c, p, r
  <2> QED BY <2>2, <2>3
<1>8. D \in [Counting -> Counting] /\ \A x \in Counting : D[x] = CountDown(x, t)
  BY <1>1, Moves DEF Down
<1>9. Nth(Counting, D, added, 0) = added /\ Nth(Counting, D, added, 0 + 1) = CountDown(added, t)
  <2> HIDE DEF D, added
  <2> QED BY <1>4, <1>8, NthUnfolds
<1> SUFFICES r = Nth(Counting, D, added, q) /\ q \in Nat
  BY DEF Run, Passes
<1> HIDE DEF p, c, added, r, D
<1>10. CASE c - p < 0
  <2>1. q = 0
    BY <1>2, <1>3, <1>10
  <2> QED BY <1>6, <1>7, <1>9, <1>10, <2>1
<1>11. CASE ~(c - p < 0) /\ fastPath /\ c - p < p /\ m.timerValue[t] > 1
  <2>1. q = 1
    <3>1. p <= c /\ c < p + p
      BY <1>2, <1>3, <1>11
    <3> HIDE DEF q
    <3>2. q # 0
      BY <1>2, <1>3, <1>6, <3>1
    <3>3. ~(q >= 2)
      <4> SUFFICES ASSUME q >= 2 PROVE FALSE
        OBVIOUS
      <4>1. q * p >= 2 * p /\ q * p \in Int
        BY <1>2, <1>6
      <4> QED BY <1>2, <1>3, <1>6, <3>1, <4>1
    <3> QED BY <1>6, <3>2, <3>3
  <2> DEFINE prescaled == [added EXCEPT !.prescaleCounter[t] = c - p]
             x == [prescaled EXCEPT !.timerValue[t] = m.timerValue[t] - 1]
             y == CountDown(added, t)
  <2>2. m.timerValue[t] \in 0 .. TimerModulus - 1 /\ m.timerValue[t] - 1 \in 0 .. TimerModulus - 1
        /\ c - p \in Int
    BY <1>1, <1>2, <1>3, <1>11, MfpAssumption, CountingFields
  <2>3. r = x
    <3>1. [added EXCEPT !.prescaleCounter[t] = c - p, !.timerValue[t] = @ - 1]
            = [added EXCEPT !.prescaleCounter[t] = c - p, !.timerValue[t] = m.timerValue[t] - 1]
      BY <1>4
    <3> QED BY <1>7, <1>11, <3>1
  <2>4. prescaled \in Counting /\ Kept(added, prescaled) /\ prescaled.vdisp = added.vdisp
        /\ prescaled.ipr = added.ipr /\ prescaled.timerValue = added.timerValue
        /\ prescaled.prescaleCounter = [added.prescaleCounter EXCEPT ![t] = c - p]
    BY <1>4, <2>2 DEF Counting, Kept
  <2>5. x \in Counting /\ Kept(prescaled, x) /\ x.vdisp = prescaled.vdisp
        /\ x.ipr = prescaled.ipr /\ x.prescaleCounter = prescaled.prescaleCounter
        /\ x.timerValue = [prescaled.timerValue EXCEPT ![t] = m.timerValue[t] - 1]
    <3> HIDE DEF prescaled
    <3> QED BY <2>2, <2>4 DEF Counting, Kept
  <2>6. /\ y \in Counting /\ Kept(added, y) /\ y.vdisp = added.vdisp
        /\ y.prescaleCounter = [added.prescaleCounter EXCEPT ![t] = added.prescaleCounter[t] - Prescale(added, t)]
        /\ y.timerValue = [added.timerValue EXCEPT ![t] = Stepped(added.timerValue[t], added.data[t])]
        /\ y.ipr = added.ipr \cup (IF added.timerValue[t] = 1 THEN Raised(added, TimerChannel[t]) ELSE {})
    BY <1>1, <1>4, CountDownExact
  <2> HIDE DEF prescaled, x, y
  <2>7. Stepped(added.timerValue[t], added.data[t]) = m.timerValue[t] - 1 /\ added.timerValue[t] # 1
    BY <1>4, <1>11, <2>2 DEF Stepped
  <2>8. x = y
    <3>1. Kept(x, y)
      BY <2>4, <2>5, <2>6, KeptBoth
    <3>2. y.ipr = x.ipr
      BY <2>4, <2>5, <2>6, <2>7
    <3>3. y.prescaleCounter = x.prescaleCounter /\ y.timerValue = x.timerValue /\ y.vdisp = x.vdisp
      BY <1>5, <2>4, <2>5, <2>6, <2>7
    <3> QED BY <2>5, <2>6, <3>1, <3>2, <3>3, SameMfp
  <2> QED BY <1>6, <1>9, <2>1, <2>3, <2>8 DEF y
<1>12. CASE ~(c - p < 0) /\ ~(fastPath /\ c - p < p /\ m.timerValue[t] > 1)
  <2>1. r = TickTimerCounted(added, t)
    BY <1>7, <1>12
  <2>2. q = added.prescaleCounter[t] \div Prescale(added, t)
    BY <1>5
  <2> HIDE DEF q
  <2>3. PICK a : /\ a \in [0 .. q -> Counting]
                 /\ a[0] = added /\ (\A k \in 1 .. q : a[k] = CountDown(a[k - 1], t))
                 /\ TickTimerCounted(added, t) = a[q]
    <3>1. added \in Counting /\ t \in Timer /\ q \in Nat
      BY <1>1, <1>4, <1>6
    <3> QED BY <3>1, <2>2, CountedUnfolds
  <2>4. IteratesIn(Counting, a, q, added, D)
    <3>1. \A k \in 1 .. q : a[k - 1] \in Counting
      BY <1>6, <2>3
    <3> QED BY <1>8, <2>3, <3>1 DEF IteratesIn
  <2>5. a[q] = Nth(Counting, D, added, q)
    <3>1. q \in 0 .. q
      BY <1>6
    <3> QED BY <1>4, <1>6, <1>8, <2>4, <3>1, NthIs
  <2> QED BY <1>6, <2>1, <2>3, <2>5
<1> QED BY <1>10, <1>11, <1>12

--------------------------------------------------------------------------------
(* A prescaler taken in two steps *)

\* A quotient is the only number that fits, so q divisors less are q less of it.
LEMMA DivOnly ==
    ASSUME NEW c \in Nat, NEW p \in Nat, p # 0, NEW q \in Nat, q * p <= c, c < q * p + p
    PROVE  c \div p = q
<1> DEFINE d == c \div p
<1>1. d \in Nat /\ d * p <= c /\ c < d * p + p
  BY DivBound
<1> HIDE DEF d
<1>2. ~(d >= q + 1)
  <2> SUFFICES ASSUME d >= q + 1 PROVE FALSE
    OBVIOUS
  <2>1. d * p >= (q + 1) * p /\ (q + 1) * p = q * p + p /\ d * p \in Int /\ q * p \in Int
    BY <1>1
  <2> QED BY <1>1, <2>1
<1>3. ~(q >= d + 1)
  <2> SUFFICES ASSUME q >= d + 1 PROVE FALSE
    OBVIOUS
  <2>1. q * p >= (d + 1) * p /\ (d + 1) * p = d * p + p /\ d * p \in Int /\ q * p \in Int
    BY <1>1
  <2> QED BY <1>1, <2>1
<1> QED BY <1>1, <1>2, <1>3 DEF d

\* Taking whole periods away takes them from the quotient.
LEMMA DivShift ==
    ASSUME NEW c \in Nat, NEW p \in Nat, p # 0, NEW q \in Nat, q * p <= c
    PROVE  (c - q * p) \div p = (c \div p) - q /\ (c - q * p) \div p \in Nat
<1> DEFINE e == c - q * p
           d == e \div p
<1>1. q * p \in Nat /\ e \in Nat
  OBVIOUS
<1>2. d \in Nat /\ d * p <= e /\ e < d * p + p
  <2> HIDE DEF e
  <2> QED BY <1>1, DivBound
<1>3. (d + q) * p = d * p + q * p /\ d * p \in Nat /\ d + q \in Nat
  <2> HIDE DEF d
  <2> QED BY <1>2
<1>4. (d + q) * p <= c /\ c < (d + q) * p + p
  <2> HIDE DEF d
  <2> QED BY <1>1, <1>2, <1>3
<1> HIDE DEF d
<1>5. c \div p = d + q
  BY <1>3, <1>4, DivOnly
<1>6. c \div p \in Nat
  BY <1>3, <1>5
<1> QED BY <1>2, <1>5 DEF d

\* k counts of a timer, field by field.
LEMMA NthDown ==
    ASSUME NEW m \in Counting, NEW t \in Timer, NEW k \in Nat
    PROVE  LET x == Nth(Counting, Down(t), m, k)
           IN  /\ x \in Counting /\ Kept(m, x) /\ x.vdisp = m.vdisp
               /\ x.prescaleCounter = [m.prescaleCounter EXCEPT ![t] = m.prescaleCounter[t] - k * Prescale(m, t)]
               /\ \A u \in Timer \ {t} : x.timerValue[u] = m.timerValue[u]
<1> DEFINE D == Down(t)
           x(i) == Nth(Counting, D, m, i)
           p == Prescale(m, t)
           c == m.prescaleCounter[t]
           Q(i) == /\ x(i) \in Counting /\ Kept(m, x(i)) /\ x(i).vdisp = m.vdisp
                   /\ x(i).prescaleCounter = [m.prescaleCounter EXCEPT ![t] = c - i * p]
                   /\ \A u \in Timer \ {t} : x(i).timerValue[u] = m.timerValue[u]
           U == {i \in Nat : Q(i)}
<1>1. D \in [Counting -> Counting] /\ \A y \in Counting : D[y] = CountDown(y, t)
  BY Moves DEF Down
<1>2. p \in Nat /\ c \in Int /\ m.prescaleCounter \in [Timer -> Int]
  BY PrescaleIsNat, CountingFields
<1> HIDE DEF D, p, c
<1>3. 0 \in U
  <2>1. x(0) = m
    BY <1>1, NthUnfolds
  <2>2. c - 0 * p = c /\ Kept(m, m)
    BY <1>2 DEF Kept
  <2>3. [m.prescaleCounter EXCEPT ![t] = c] = m.prescaleCounter
    BY <1>2 DEF c
  <2> HIDE DEF x
  <2> QED BY <2>1, <2>2, <2>3
<1>4. ASSUME NEW i \in Nat, i \in U PROVE i + 1 \in U
  <2>1. x(i + 1) = CountDown(x(i), t)
    BY <1>1, <1>4, NthUnfolds
  <2>2. Q(i)
    BY <1>4
  <2> HIDE DEF x
  <2> DEFINE a == x(i)
             b == x(i + 1)
  <2>3. /\ b \in Counting /\ Kept(a, b) /\ b.vdisp = a.vdisp
        /\ b.prescaleCounter = [a.prescaleCounter EXCEPT ![t] = a.prescaleCounter[t] - Prescale(a, t)]
        /\ b.timerValue = [a.timerValue EXCEPT ![t] = Stepped(a.timerValue[t], a.data[t])]
    BY <2>1, <2>2, CountDownExact
  <2>4. Prescale(a, t) = p
    BY <2>2, KeptPrescale DEF p
  <2>5. a.prescaleCounter[t] = c - i * p /\ i * p \in Int /\ (c - i * p) - p = c - (i + 1) * p
    BY <1>2, <2>2
  <2>6. b.prescaleCounter = [m.prescaleCounter EXCEPT ![t] = c - (i + 1) * p]
    <3> DEFINE e == c - i * p
               f == c - (i + 1) * p
    <3>1. a.prescaleCounter = [m.prescaleCounter EXCEPT ![t] = e]
          /\ b.prescaleCounter = [a.prescaleCounter EXCEPT ![t] = f]
      BY <2>2, <2>3, <2>4, <2>5
    <3> HIDE DEF e, f
    <3>2. b.prescaleCounter = [m.prescaleCounter EXCEPT ![t] = f]
      BY <1>2, <3>1
    <3> QED BY <3>2 DEF f
  <2>7. \A u \in Timer \ {t} : b.timerValue[u] = m.timerValue[u]
    <3>1. a.timerValue \in [Timer -> 0 .. TimerModulus - 1]
      BY <2>2, CountingFields
    <3> QED BY <2>2, <2>3, <3>1
  <2>8. Kept(m, b) /\ b.vdisp = m.vdisp
    BY <2>2, <2>3, KeptBoth
  <2> HIDE DEF a, b
  <2>9. i + 1 \in Nat
    OBVIOUS
  <2> QED BY <2>3, <2>6, <2>7, <2>8, <2>9 DEF b
<1> HIDE DEF U
<1>5. Nat \subseteq U
  BY <1>3, <1>4, Induction
<1> USE DEF U
<1>6. Q(k)
  BY <1>5
<1> QED BY <1>6 DEF D, p, c

\* What a timer has done in n cycles: all of it in its own fields.
LEMMA RunFacts ==
    ASSUME NEW m \in MfpType, NEW t \in Running(m), NEW n \in Nat
    PROVE  LET x == Run(m, t, n)
           IN  /\ x \in MfpType /\ Kept(m, x) /\ x.vdisp = m.vdisp
               /\ Running(x) = Running(m) /\ Prescale(x, t) = Prescale(m, t)
               /\ x.prescaleCounter =
                    [m.prescaleCounter EXCEPT ![t] = (m.prescaleCounter[t] + n) - Passes(m, t, n) * Prescale(m, t)]
               /\ Passes(m, t, n) \in Nat
               /\ \A u \in Timer \ {t} : x.timerValue[u] = m.timerValue[u]
<1> DEFINE a == Ahead(m, t, n)
           q == Passes(m, t, n)
           p == Prescale(m, t)
           c == m.prescaleCounter[t]
           x == Nth(Counting, Down(t), a, q)
<1>1. m \in Counting /\ t \in Timer /\ c \in Nat /\ m.prescaleCounter \in [Timer -> Nat]
  BY MfpIsCounting DEF Running, MfpType
<1>2. p \in Nat /\ p # 0
  BY <1>1, PrescaleIsNat DEF Running
<1>3. q \in Nat /\ q * p <= c + n /\ q * p \in Int
  <2>1. q = (c + n) \div p /\ c + n \in Nat
    BY <1>1 DEF Passes
  <2>2. q \in Nat /\ q * p <= c + n
    <3> HIDE DEF q, p, c
    <3> QED BY <1>2, <2>1, DivBound
  <2> HIDE DEF q, p
  <2> QED BY <1>2, <2>2
<1>4. /\ a \in Counting /\ Kept(m, a) /\ a.vdisp = m.vdisp
      /\ a.prescaleCounter = [m.prescaleCounter EXCEPT ![t] = c + n]
      /\ a.timerValue = m.timerValue
  BY <1>1, AheadExact
<1>5. Prescale(a, t) = p /\ a.prescaleCounter[t] = c + n
  BY <1>1, <1>4, KeptPrescale
<1> HIDE DEF a, q, p, c
<1>6. /\ x \in Counting /\ Kept(a, x) /\ x.vdisp = a.vdisp
      /\ x.prescaleCounter = [a.prescaleCounter EXCEPT ![t] = a.prescaleCounter[t] - q * Prescale(a, t)]
      /\ \A u \in Timer \ {t} : x.timerValue[u] = a.timerValue[u]
  <2>1. \A y \in Counting, v \in Timer, k \in Nat :
          LET z == Nth(Counting, Down(v), y, k)
          IN  /\ z \in Counting /\ Kept(y, z) /\ z.vdisp = y.vdisp
              /\ z.prescaleCounter = [y.prescaleCounter EXCEPT ![v] = y.prescaleCounter[v] - k * Prescale(y, v)]
              /\ \A u \in Timer \ {v} : z.timerValue[u] = y.timerValue[u]
    BY NthDown
  <2>2. a \in Counting /\ t \in Timer /\ q \in Nat
    BY <1>1, <1>3, <1>4
  <2> QED BY <2>1, <2>2
<1>7. Run(m, t, n) = x
  BY DEF Run, a, q
<1> HIDE DEF x
<1>8. x.prescaleCounter = [m.prescaleCounter EXCEPT ![t] = (c + n) - q * p]
  <2> DEFINE e == (c + n) - q * p
             f == c + n
  <2>1. a.prescaleCounter = [m.prescaleCounter EXCEPT ![t] = f]
        /\ x.prescaleCounter = [a.prescaleCounter EXCEPT ![t] = e]
    BY <1>4, <1>5, <1>6
  <2> HIDE DEF e, f
  <2>2. x.prescaleCounter = [m.prescaleCounter EXCEPT ![t] = e]
    BY <1>1, <2>1
  <2> QED BY <2>2 DEF e
<1>9. (c + n) - q * p \in Nat
  BY <1>1, <1>3
<1>10. x \in MfpType
  <2> DEFINE e == (c + n) - q * p
  <2>1. e \in Nat /\ x.prescaleCounter = [m.prescaleCounter EXCEPT ![t] = e]
    BY <1>8, <1>9
  <2> HIDE DEF e
  <2>2. x.prescaleCounter \in [Timer -> Nat]
    BY <1>1, <2>1
  <2> QED BY <1>6, <2>2, MfpIsCounting
<1>11. Kept(m, x) /\ Running(x) = Running(m) /\ Prescale(x, t) = p
  BY <1>1, <1>4, <1>6, KeptBoth, KeptPrescale DEF p
<1> QED BY <1>3, <1>4, <1>6, <1>7, <1>8, <1>10, <1>11 DEF p, q, c

\* a cycles and then b cycles are a + b cycles.
LEMMA RunAdds ==
    ASSUME NEW m \in MfpType, NEW t \in Running(m), NEW a \in Nat, NEW b \in Nat
    PROVE  Run(Run(m, t, a), t, b) = Run(m, t, a + b)
<1> DEFINE x == Run(m, t, a)
           p == Prescale(m, t)
           c == m.prescaleCounter[t]
           q == Passes(m, t, a)
           r == Passes(x, t, b)
           s == Passes(m, t, a + b)
           D == Down(t)
           ma == Ahead(m, t, a)
           mab == Ahead(m, t, a + b)
<1>1. m \in Counting /\ t \in Timer /\ c \in Nat /\ m.prescaleCounter \in [Timer -> Nat]
  BY MfpIsCounting DEF Running, MfpType
<1>2. p \in Nat /\ p # 0
  BY <1>1, PrescaleIsNat DEF Running
<1>3. /\ x \in MfpType /\ Prescale(x, t) = p /\ q \in Nat
      /\ x.prescaleCounter = [m.prescaleCounter EXCEPT ![t] = (c + a) - q * p]
  BY RunFacts
<1>4. q + r = s /\ r \in Nat
  <2>1. x.prescaleCounter[t] = (c + a) - q * p
    BY <1>1, <1>3
  <2>2. q = (c + a) \div p /\ s = (c + (a + b)) \div p
    BY DEF Passes
  <2>3. r = (((c + a) - q * p) + b) \div p
    BY <1>3, <2>1 DEF Passes
  <2>4. q * p <= c + a /\ c + a \in Nat
    <3> HIDE DEF q, p, c
    <3>1. c + a \in Nat
      BY <1>1
    <3> QED BY <1>2, <2>2, <3>1, DivBound
  <2> HIDE DEF q, r, s, p, c
  <2> DEFINE e == c + (a + b)
  <2>5. q * p \in Int /\ e \in Nat /\ q * p <= e /\ ((c + a) - q * p) + b = e - q * p
    BY <1>1, <1>2, <1>3, <2>4
  <2>6. r = (e - q * p) \div p
    BY <2>3, <2>5
  <2>7. s = e \div p
    BY <2>2
  <2> HIDE DEF e
  <2>8. (e - q * p) \div p = (e \div p) - q /\ (e - q * p) \div p \in Nat
    <3>1. \A y \in Nat, k \in Nat : k * p <= y => (y - k * p) \div p = (y \div p) - k /\ (y - k * p) \div p \in Nat
      BY <1>2, DivShift
    <3>2. q \in Nat /\ e \in Nat /\ q * p <= e
      BY <1>3, <2>5
    <3> QED BY <3>1, <3>2
  <2>9. e \div p \in Nat
    BY <1>2, <2>5, DivBound
  <2>10. r = s - q /\ r \in Nat /\ s \in Nat
    BY <2>6, <2>7, <2>8, <2>9
  <2> QED BY <1>3, <2>10
<1>5. ma \in Counting /\ mab \in Counting
  <2> DEFINE n == a + b
  <2>1. n \in Int
    OBVIOUS
  <2> HIDE DEF n
  <2>2. Ahead(m, t, n) \in Counting
    BY <1>1, <2>1, AheadExact
  <2>3. Ahead(m, t, a) \in Counting
    <3>1. \A n1 \in Int : Ahead(m, t, n1) \in Counting
      BY <1>1, AheadExact
    <3> QED BY <3>1
  <2> QED BY <2>2, <2>3 DEF n
<1>6. D \in [Counting -> Counting] /\ \A y \in Counting : D[y] = CountDown(y, t)
  BY <1>1, Moves DEF Down
<1>7. Ahead(x, t, b) = Nth(Counting, D, mab, q)
  <2> DEFINE H == Handed(t, b)
  <2>1. H \in [Counting -> Counting] /\ \A y \in Counting : H[y] = Ahead(y, t, b)
    BY <1>1, Moves DEF Handed
  <2>2. \A y \in Counting : H[D[y]] = D[H[y]]
    <3> HIDE DEF H, D
    <3> TAKE y \in Counting
    <3>1. D[y] = CountDown(y, t) /\ D[y] \in Counting /\ H[y] = Ahead(y, t, b) /\ H[y] \in Counting
      BY <1>6, <2>1
    <3>2. CountDown(Ahead(y, t, b), t) = Ahead(CountDown(y, t), t, b)
      BY <1>1, DownAhead
    <3> QED BY <1>6, <2>1, <3>1, <3>2
  <2>3. x = Nth(Counting, D, ma, q)
    BY DEF Run
  <2>4. Ahead(ma, t, b) = mab
    BY <1>1, AheadAhead
  <2> HIDE DEF H, D, x, q, ma, mab
  <2>5. H[Nth(Counting, D, ma, q)] = Nth(Counting, D, H[ma], q)
    BY <1>3, <1>5, <1>6, <2>1, <2>2, NthCommutes
  <2>6. Nth(Counting, D, ma, q) \in Counting
    BY <1>3, <1>5, <1>6, NthUnfolds
  <2> QED BY <1>5, <2>1, <2>3, <2>4, <2>5, <2>6
<1>8. Run(x, t, b) = Nth(Counting, D, Ahead(x, t, b), r)
  BY DEF Run
<1>9. Run(m, t, a + b) = Nth(Counting, D, mab, s)
  BY DEF Run
<1> HIDE DEF x, q, r, s, D, ma, mab, p, c
<1>10. Nth(Counting, D, Nth(Counting, D, mab, q), r) = Nth(Counting, D, mab, q + r)
  BY <1>3, <1>4, <1>5, <1>6, NthAdds
<1>11. Run(x, t, b) = Run(m, t, a + b)
  BY <1>4, <1>7, <1>8, <1>9, <1>10
<1> QED BY <1>11 DEF x

\* One timer, running or not, in n MFP cycles.
Live(m, t, n) == IF t \in Running(m) THEN Run(m, t, n) ELSE m

\* TickIfRunning counts a live timer, by the short path or by the loop.
LEMMA TickIfRunningRuns ==
    ASSUME NEW m \in MfpType, NEW t \in Timer, NEW n \in Nat, NEW fastPath \in BOOLEAN
    PROVE  /\ TickIfRunning(fastPath, m, t, n) = Live(m, t, n)
           /\ Live(m, t, n) \in MfpType /\ Kept(m, Live(m, t, n)) /\ Live(m, t, n).vdisp = m.vdisp
<1>1. CASE t \in Running(m)
  <2>1. TickTimer(fastPath, m, t, n) = Run(m, t, n)
    BY <1>1, TickTimerRuns
  <2>2. Run(m, t, n) \in MfpType /\ Kept(m, Run(m, t, n)) /\ Run(m, t, n).vdisp = m.vdisp
    BY <1>1, RunFacts
  <2> QED BY <1>1, <2>1, <2>2 DEF TickIfRunning, Live
<1>2. CASE t \notin Running(m)
  <2>1. Kept(m, m)
    BY DEF Kept
  <2> QED BY <1>2, <2>1 DEF TickIfRunning, Live
<1> QED BY <1>1, <1>2

\* Time passes for a timer in parts as in one go.
LEMMA LiveAdds ==
    ASSUME NEW m \in MfpType, NEW t \in Timer, NEW a \in Nat, NEW b \in Nat
    PROVE  Live(Live(m, t, a), t, b) = Live(m, t, a + b)
<1>1. CASE t \in Running(m)
  <2>1. Running(Run(m, t, a)) = Running(m)
    BY <1>1, RunFacts
  <2>2. Run(Run(m, t, a), t, b) = Run(m, t, a + b)
    BY <1>1, RunAdds
  <2> QED BY <1>1, <2>1, <2>2 DEF Live
<1>2. CASE t \notin Running(m)
  BY <1>2 DEF Live
<1> QED BY <1>1, <1>2

\* Two running timers, in either order.
LEMMA RunsCommute ==
    ASSUME NEW m \in MfpType, NEW t \in Running(m), NEW u \in Running(m), t # u,
           NEW a \in Nat, NEW b \in Nat
    PROVE  Run(Run(m, t, a), u, b) = Run(Run(m, u, b), t, a)
<1> DEFINE D == Down(t)
           E == Down(u)
           G == Handed(t, a)
           H == Handed(u, b)
           i == Passes(m, t, a)
           j == Passes(m, u, b)
           x == Run(m, t, a)
           y == Run(m, u, b)
           N(f, z, k) == Nth(Counting, f, z, k)
<1>1. m \in Counting /\ t \in Timer /\ u \in Timer /\ m.prescaleCounter \in [Timer -> Nat]
  BY MfpIsCounting DEF Running, MfpType
<1>2. /\ x \in MfpType /\ Kept(m, x) /\ i \in Nat
      /\ x.prescaleCounter = [m.prescaleCounter EXCEPT ![t] = (m.prescaleCounter[t] + a) - i * Prescale(m, t)]
  BY RunFacts
<1>3. /\ y \in MfpType /\ Kept(m, y) /\ j \in Nat
      /\ y.prescaleCounter = [m.prescaleCounter EXCEPT ![u] = (m.prescaleCounter[u] + b) - j * Prescale(m, u)]
  BY RunFacts
<1>4. Passes(x, u, b) = j /\ Passes(y, t, a) = i
  <2>1. x.prescaleCounter[u] = m.prescaleCounter[u] /\ y.prescaleCounter[t] = m.prescaleCounter[t]
    BY <1>1, <1>2, <1>3
  <2>2. Prescale(x, u) = Prescale(m, u) /\ Prescale(y, t) = Prescale(m, t)
    BY <1>1, <1>2, <1>3, KeptPrescale
  <2> QED BY <2>1, <2>2 DEF Passes
<1>5. x = N(D, G[m], i) /\ Run(x, u, b) = N(E, Ahead(x, u, b), j)
  BY <1>1, <1>4 DEF Run, Handed
<1>6. y = N(E, H[m], j) /\ Run(y, t, a) = N(D, Ahead(y, t, a), i)
  BY <1>1, <1>4 DEF Run, Handed
<1>7. /\ D \in [Counting -> Counting] /\ E \in [Counting -> Counting]
      /\ G \in [Counting -> Counting] /\ H \in [Counting -> Counting]
  BY <1>1, Moves
<1>8. /\ \A z \in Counting : D[z] = CountDown(z, t) /\ E[z] = CountDown(z, u)
      /\ \A z \in Counting : G[z] = Ahead(z, t, a) /\ H[z] = Ahead(z, u, b)
  BY DEF Down, Handed
<1> HIDE DEF D, E, G, H, i, j, x, y
<1>9. ASSUME NEW z \in Counting
      PROVE  /\ E[D[z]] = D[E[z]] /\ H[D[z]] = D[H[z]] /\ G[E[z]] = E[G[z]] /\ H[G[z]] = G[H[z]]
  <2>1. D[z] \in Counting /\ E[z] \in Counting /\ G[z] \in Counting /\ H[z] \in Counting
    BY <1>7
  <2>2. CountDown(CountDown(z, t), u) = CountDown(CountDown(z, u), t)
    BY <1>1, DownDown
  <2>3. CountDown(Ahead(z, u, b), t) = Ahead(CountDown(z, t), u, b)
    BY <1>1, DownAhead
  <2>4. CountDown(Ahead(z, t, a), u) = Ahead(CountDown(z, u), t, a)
    BY <1>1, DownAhead
  <2>5. Ahead(Ahead(z, t, a), u, b) = Ahead(Ahead(z, u, b), t, a)
    BY <1>1, AheadAhead
  <2> QED BY <1>8, <2>1, <2>2, <2>3, <2>4, <2>5
<1>10. x \in Counting /\ y \in Counting /\ H[x] = Ahead(x, u, b) /\ G[y] = Ahead(y, t, a)
  BY <1>2, <1>3, <1>8, MfpIsCounting
<1> USE DEF N
<1>16. \A z \in Counting : H[D[z]] = D[H[z]]
  BY <1>9
<1>17. \A z \in Counting : G[E[z]] = E[G[z]]
  BY <1>9
<1>18. \A z \in Counting : E[D[z]] = D[E[z]]
  BY <1>9
<1>19. i \in Nat /\ j \in Nat
  BY <1>2, <1>3
<1>11. H[x] = N(D, H[G[m]], i)
  <2>1. G[m] \in Counting
    BY <1>1, <1>7
  <2> DEFINE s == G[m]
  <2>3. s \in Counting
    BY <2>1
  <2> HIDE DEF s
  <2>2. H[Nth(Counting, D, s, i)] = Nth(Counting, D, H[s], i)
    BY ONLY <1>7, <1>16, <1>19, <2>3, NthCommutes, SMTT(60)
  <2> QED BY <1>5, <2>2 DEF s
<1>12. G[y] = N(E, G[H[m]], j)
  <2>1. H[m] \in Counting
    BY <1>1, <1>7
  <2>2. G[Nth(Counting, E, H[m], j)] = Nth(Counting, E, G[H[m]], j)
    BY ONLY <1>7, <1>17, <1>19, <2>1, NthCommutes, SMTT(60)
  <2> QED BY <1>6, <2>2
<1>13. H[G[m]] = G[H[m]] /\ H[G[m]] \in Counting
  BY <1>1, <1>7, <1>9
<1>14. N(E, N(D, H[G[m]], i), j) = N(D, N(E, H[G[m]], j), i)
  <2> DEFINE s == H[G[m]]
  <2>1. s \in Counting
    BY <1>13
  <2> HIDE DEF s
  <2>2. Nth(Counting, E, Nth(Counting, D, s, i), j) = Nth(Counting, D, Nth(Counting, E, s, j), i)
    BY ONLY <1>7, <1>18, <1>19, <2>1, NthsCommute, SMTT(60)
  <2> QED BY <2>2 DEF s
<1> HIDE DEF N
<1>15. Run(x, u, b) = Run(y, t, a)
  BY <1>5, <1>6, <1>10, <1>11, <1>12, <1>13, <1>14
<1> QED BY <1>15 DEF x, y

\* Two timers, in either order.
LEMMA LiveCommutes ==
    ASSUME NEW m \in MfpType, NEW t \in Timer, NEW u \in Timer, t # u, NEW a \in Nat, NEW b \in Nat
    PROVE  Live(Live(m, t, a), u, b) = Live(Live(m, u, b), t, a)
<1>1. Running(Live(m, t, a)) = Running(m) /\ Running(Live(m, u, b)) = Running(m)
  <2>1. Kept(m, Live(m, t, a)) /\ Kept(m, Live(m, u, b))
    BY TickIfRunningRuns
  <2> QED BY <2>1, KeptPrescale
<1>2. CASE t \in Running(m) /\ u \in Running(m)
  <2>1. Run(Run(m, t, a), u, b) = Run(Run(m, u, b), t, a)
    BY <1>2, RunsCommute
  <2> QED BY <1>1, <1>2, <2>1 DEF Live
<1>3. CASE ~(t \in Running(m) /\ u \in Running(m))
  BY <1>1, <1>3 DEF Live
<1> QED BY <1>2, <1>3

\* The edge of the blank is the same before a timer's cycles as after them.
LEMMA BlankLive ==
    ASSUME NEW m \in MfpType, NEW t \in Timer, NEW n \in Nat, NEW active \in BOOLEAN
    PROVE  Live(SetVerticalBlank(m, active), t, n) = SetVerticalBlank(Live(m, t, n), active)
<1> DEFINE B == Blank(active)
           D == Down(t)
           G == Handed(t, n)
           q == Passes(m, t, n)
           y == SetVerticalBlank(m, active)
<1>1. m \in Counting /\ t \in Timer
  BY MfpIsCounting
<1>2. y \in Counting /\ Kept(m, y) /\ y.prescaleCounter = m.prescaleCounter
  BY <1>1, BlankExact
<1>3. Running(y) = Running(m) /\ Passes(y, t, n) = q
  <2>1. Running(y) = Running(m) /\ Prescale(y, t) = Prescale(m, t)
    BY <1>2, KeptPrescale
  <2> QED BY <1>2, <2>1 DEF Passes
<1>4. CASE t \in Running(m)
  <2>1. q \in Nat
    BY <1>4, RunFacts
  <2>2. D \in [Counting -> Counting] /\ B \in [Counting -> Counting] /\ G \in [Counting -> Counting]
    BY Moves
  <2>3. \A z \in Counting : D[z] = CountDown(z, t) /\ B[z] = SetVerticalBlank(z, active) /\ G[z] = Ahead(z, t, n)
    BY DEF Down, Blank, Handed
  <2>4. Run(m, t, n) = Nth(Counting, D, G[m], q)
    BY <1>1 DEF Run, Handed
  <2>5. Run(y, t, n) = Nth(Counting, D, G[y], q)
    BY <1>2, <1>3 DEF Run, Handed
  <2> HIDE DEF D, B, G, q
  <2>6. ASSUME NEW z \in Counting PROVE B[D[z]] = D[B[z]] /\ B[G[z]] = G[B[z]]
    <3>1. D[z] \in Counting /\ B[z] \in Counting /\ G[z] \in Counting
      BY <2>2
    <3>2. CountDown(SetVerticalBlank(z, active), t) = SetVerticalBlank(CountDown(z, t), active)
      BY BlankDown
    <3>3. Ahead(SetVerticalBlank(z, active), t, n) = SetVerticalBlank(Ahead(z, t, n), active)
      BY BlankAhead
    <3> QED BY <2>3, <3>1, <3>2, <3>3
  <2>7. y = B[m]
    BY <1>1, <2>3
  <2>8. G[m] \in Counting
    BY <1>1, <2>2
  <2>12. \A z \in Counting : B[D[z]] = D[B[z]]
    BY <2>6
  <2>9. B[Nth(Counting, D, G[m], q)] = Nth(Counting, D, B[G[m]], q)
    BY ONLY <2>1, <2>2, <2>8, <2>12, NthCommutes
  <2>10. Run(m, t, n) \in Counting
    BY <1>4, RunFacts, MfpIsCounting
  <2> HIDE DEF y
  <2>11. Run(y, t, n) = SetVerticalBlank(Run(m, t, n), active)
    BY <1>1, <2>3, <2>4, <2>5, <2>6, <2>7, <2>9, <2>10
  <2> QED BY <1>3, <1>4, <2>11 DEF Live, y
<1>5. CASE t \notin Running(m)
  BY <1>3, <1>5 DEF Live
<1> QED BY <1>4, <1>5

\* All four timers in n MFP cycles.
AllLive(m, n) == Live(Live(Live(Live(m, "A", n), "B", n), "C", n), "D", n)

\* Mfp::tickFast ticks them so, whichever path it counts by.
LEMMA MfpTickLives ==
    ASSUME NEW m \in MfpType, NEW cycles \in Nat, NEW n \in Nat, n = cycles \div 2,
           NEW fastPath \in BOOLEAN
    PROVE  /\ MfpTick(fastPath, m, cycles) = AllLive(m, n)
           /\ AllLive(m, n) \in MfpType /\ Kept(m, AllLive(m, n)) /\ AllLive(m, n).vdisp = m.vdisp
<1>1. {"A", "B", "C", "D"} = Timer
  BY DEF Timer
<1> DEFINE a == Live(m, "A", n)
           b == Live(a, "B", n)
           c == Live(b, "C", n)
           d == Live(c, "D", n)
<1>2. a \in MfpType /\ Kept(m, a) /\ a.vdisp = m.vdisp /\ TickIfRunning(fastPath, m, "A", n) = a
  BY <1>1, TickIfRunningRuns
<1> HIDE DEF a
<1>3. b \in MfpType /\ Kept(a, b) /\ b.vdisp = a.vdisp /\ TickIfRunning(fastPath, a, "B", n) = b
  BY <1>1, <1>2, TickIfRunningRuns
<1> HIDE DEF b
<1>4. c \in MfpType /\ Kept(b, c) /\ c.vdisp = b.vdisp /\ TickIfRunning(fastPath, b, "C", n) = c
  <2>1. "C" \in Timer /\ b \in MfpType
    BY <1>1, <1>3
  <2> QED BY ONLY <2>1, n \in Nat, fastPath \in BOOLEAN, TickIfRunningRuns DEF c
<1> HIDE DEF c
<1>5. d \in MfpType /\ Kept(c, d) /\ d.vdisp = c.vdisp /\ TickIfRunning(fastPath, c, "D", n) = d
  <2>1. "D" \in Timer /\ c \in MfpType
    BY <1>1, <1>4
  <2> QED BY ONLY <2>1, n \in Nat, fastPath \in BOOLEAN, TickIfRunningRuns DEF d
<1>6. AllLive(m, n) = d
  BY DEF AllLive, a, b, c
<1> HIDE DEF d
<1>7. Kept(m, d)
  BY <1>2, <1>3, <1>4, <1>5, KeptBoth
<1>8. MfpTick(fastPath, m, cycles) = d
  BY <1>2, <1>3, <1>4, <1>5 DEF MfpTick
<1> QED BY <1>2, <1>3, <1>4, <1>5, <1>6, <1>7, <1>8

\* All timers in parts as in one go, and before the edge of the blank as after it.
LEMMA AllLiveAdds ==
    ASSUME NEW m \in MfpType, NEW a \in Nat, NEW b \in Nat
    PROVE  AllLive(AllLive(m, a), b) = AllLive(m, a + b)
<1>1. "A" \in Timer /\ "B" \in Timer /\ "C" \in Timer /\ "D" \in Timer
  BY DEF Timer
<1>2. \A x \in MfpType, t \in Timer, n \in Nat : Live(x, t, n) \in MfpType
  BY TickIfRunningRuns
<1>3. \A x \in MfpType, t, u \in Timer : t # u => Live(Live(x, t, a), u, b) = Live(Live(x, u, b), t, a)
  BY LiveCommutes
<1>4. \A x \in MfpType, t \in Timer : Live(Live(x, t, a), t, b) = Live(x, t, a + b)
  BY LiveAdds
<1> DEFINE L(x, t, n) == Live(x, t, n)
           m1 == L(m, "A", a)
           m2 == L(m1, "B", a)
           m3 == L(m2, "C", a)
           m4 == L(m3, "D", a)
<1>5. m1 \in MfpType
  BY <1>1, <1>2
<1> HIDE DEF m1
<1>6. m2 \in MfpType
  BY <1>1, <1>2, <1>5
<1> HIDE DEF m2
<1>7. m3 \in MfpType
  BY <1>1, <1>2, <1>6
<1> HIDE DEF m3
\* A's second part moves to the front.
<1> DEFINE n1 == L(m1, "A", b)
           n2 == L(n1, "B", a)
           n3 == L(n2, "C", a)
<1>8. n1 \in MfpType
  BY <1>1, <1>2, <1>5
<1>9. L(m4, "A", b) = L(L(m3, "A", b), "D", a)
  BY <1>1, <1>3, <1>7
<1>10. L(m3, "A", b) = L(L(m2, "A", b), "C", a)
  BY <1>1, <1>3, <1>6 DEF m3
<1>11. L(m2, "A", b) = n2
  BY <1>1, <1>3, <1>5 DEF m2
<1> HIDE DEF n1
<1>12. n2 \in MfpType
  BY <1>1, <1>2, <1>8
<1> HIDE DEF n2, L, m4
<1>13. L(m4, "A", b) = L(n3, "D", a)
  BY <1>9, <1>10, <1>11
<1> USE DEF L
<1>14. n3 \in MfpType
  BY <1>1, <1>2, <1>12
<1> HIDE DEF n3
\* Then B's.
<1> DEFINE o2 == L(n2, "B", b)
           o3 == L(o2, "C", a)
<1>15. L(L(n3, "D", a), "B", b) = L(L(n3, "B", b), "D", a)
  BY <1>1, <1>3, <1>14
<1>16. L(n3, "B", b) = o3
  BY <1>1, <1>3, <1>12 DEF n3
<1>17. o2 \in MfpType
  BY <1>1, <1>2, <1>12
<1> HIDE DEF o2
<1>18. o3 \in MfpType
  BY <1>1, <1>2, <1>17
<1> HIDE DEF o3
\* Then C's.
<1>19. L(L(o3, "D", a), "C", b) = L(L(o3, "C", b), "D", a)
  BY <1>1, <1>3, <1>18
<1> DEFINE p3 == L(o3, "C", b)
<1>20. p3 \in MfpType
  BY <1>1, <1>2, <1>18
<1> HIDE DEF p3
<1>21. L(L(p3, "D", a), "D", b) = L(p3, "D", a + b)
  BY <1>1, <1>4, <1>20
<1>22. p3 = L(o2, "C", a + b)
  BY <1>1, <1>4, <1>17 DEF p3, o3
<1>23. o2 = L(n1, "B", a + b)
  BY <1>1, <1>4, <1>8 DEF o2, n2
<1>24. n1 = L(m, "A", a + b)
  BY <1>1, <1>4 DEF n1, m1
<1> HIDE DEF L
<1>25. AllLive(m, a) = m4
  BY DEF AllLive, L, m1, m2, m3, m4
<1>26. AllLive(m4, b) = L(L(L(L(m4, "A", b), "B", b), "C", b), "D", b)
  BY DEF AllLive, L
<1>27. AllLive(m, a + b) = L(L(L(L(m, "A", a + b), "B", a + b), "C", a + b), "D", a + b)
  BY DEF AllLive, L
<1> QED BY <1>13, <1>15, <1>16, <1>19, <1>21, <1>22, <1>23, <1>24, <1>25, <1>26, <1>27 DEF p3

\* The edge of the blank commutes with counting the timers.
LEMMA BlankAllLive ==
    ASSUME NEW m \in MfpType, NEW n \in Nat, NEW active \in BOOLEAN
    PROVE  AllLive(SetVerticalBlank(m, active), n) = SetVerticalBlank(AllLive(m, n), active)
<1>1. "A" \in Timer /\ "B" \in Timer /\ "C" \in Timer /\ "D" \in Timer
  BY DEF Timer
<1>2. \A x \in MfpType, t \in Timer : Live(x, t, n) \in MfpType
  BY TickIfRunningRuns
<1>3. \A x \in MfpType, t \in Timer :
         Live(SetVerticalBlank(x, active), t, n) = SetVerticalBlank(Live(x, t, n), active)
  BY BlankLive
<1> QED BY <1>1, <1>2, <1>3 DEF AllLive

--------------------------------------------------------------------------------
(* The CRTC and the clock, ticked in two steps *)

\* Dividing in parts.
LEMMA DivAdds ==
    ASSUME NEW x \in Nat, NEW b \in Nat, NEW p \in Nat, p # 0
    PROVE  /\ ((x % p) + b) % p = (x + b) % p
           /\ (x + b) \div p = (x \div p) + (((x % p) + b) \div p)
<1> DEFINE q == x \div p
           r == x % p
           y == r + b
           k == y \div p
           s == y % p
<1>1. q \in Nat /\ r \in 0 .. p - 1 /\ x = q * p + r
  <2>1. q \in Nat /\ r \in 0 .. p - 1
    BY DivBound
  <2>2. x = q * p + r
    OBVIOUS
  <2> QED BY <2>1, <2>2
<1>2. y \in Nat
  BY <1>1
<1> HIDE DEF q, r
<1>3. k \in Nat /\ s \in 0 .. p - 1 /\ y = k * p + s
  <2> HIDE DEF y
  <2>1. k \in Nat /\ s \in 0 .. p - 1
    BY <1>2, DivBound
  <2>2. y = k * p + s
    BY <1>2
  <2> QED BY <2>1, <2>2
<1> HIDE DEF k, s
<1> DEFINE z == x + b
           h == q + k
<1>4. h \in Nat /\ h * p = q * p + k * p /\ q * p \in Nat /\ k * p \in Nat
  BY <1>1, <1>3
<1>5. z \in Nat /\ z = h * p + s
  BY <1>1, <1>3, <1>4
<1> HIDE DEF h, z
<1>6. z \div p = h
  <2>1. h * p <= z /\ z < h * p + p
    BY <1>3, <1>4, <1>5
  <2> QED BY <1>4, <1>5, <2>1, DivOnly
<1>7. z = (z \div p) * p + (z % p)
  BY <1>5
<1>8. z % p \in 0 .. p - 1
  BY <1>5, DivBound
<1>9. z % p = s
  BY <1>3, <1>4, <1>5, <1>6, <1>7, <1>8
<1> QED BY <1>6, <1>9 DEF z, h, k, s, q, r

\* The beam, in parts as in one go.
LEMMA CrtcAt ==
    ASSUME NEW c \in CrtcType, NEW n \in Nat
    PROVE  LET at == (c.frameCycles + n) % FrameCycles
           IN  CrtcTick(c, n) = [frameCycles |-> at, inVBlank |-> at >= VBlankBegin]
<1> DEFINE f == c.frameCycles
           r == n % FrameCycles
           moved == f + r
           at == (f + n) % FrameCycles
<1>1. FrameCycles \in Nat /\ FrameCycles # 0 /\ f \in 0 .. FrameCycles - 1
  BY CrtcAssumption DEF CrtcType
<1>2. r \in 0 .. FrameCycles - 1
  BY <1>1, DivBound
<1>3. (r + f) % FrameCycles = (n + f) % FrameCycles
  <2>1. f \in Nat
    BY <1>1
  <2> HIDE DEF f
  <2> QED BY <1>1, <2>1, DivAdds
<1>4. n + f = f + n
  BY <1>1
<1> HIDE DEF r
<1>5. (r + f) % FrameCycles = IF moved >= FrameCycles THEN moved - FrameCycles ELSE moved
  BY <1>1, <1>2
<1>6. (f + n) % FrameCycles = IF moved >= FrameCycles THEN moved - FrameCycles ELSE moved
  BY <1>3, <1>4, <1>5
<1> QED BY <1>6 DEF CrtcTick, r

\* The CRTC moved in two steps is the CRTC moved in one.
LEMMA CrtcAdds ==
    ASSUME NEW c \in CrtcType, NEW a \in Nat, NEW b \in Nat
    PROVE  CrtcTick(CrtcTick(c, a), b) = CrtcTick(c, a + b)
<1> DEFINE f == c.frameCycles
           x == CrtcTick(c, a)
           n == a + b
           g == f + a
<1>1. FrameCycles \in Nat /\ FrameCycles # 0 /\ f \in Nat /\ g \in Nat /\ n \in Nat
  BY CrtcAssumption DEF CrtcType
<1>2. x \in CrtcType
  BY CrtcTickFacts
<1>3. x.frameCycles = g % FrameCycles
  BY CrtcAt
<1> HIDE DEF x
<1>4. CrtcTick(x, b) = [frameCycles |-> ((g % FrameCycles) + b) % FrameCycles,
                        inVBlank |-> ((g % FrameCycles) + b) % FrameCycles >= VBlankBegin]
  BY <1>2, <1>3, CrtcAt
<1>5. ((g % FrameCycles) + b) % FrameCycles = (f + n) % FrameCycles
  <2>1. g + b = f + n
    BY <1>1
  <2> HIDE DEF g
  <2>2. ((g % FrameCycles) + b) % FrameCycles = (g + b) % FrameCycles
    BY <1>1, DivAdds, ZenonT(60)
  <2> QED BY <2>1, <2>2
<1> HIDE DEF n
<1>6. CrtcTick(c, n) = [frameCycles |-> (f + n) % FrameCycles,
                        inVBlank |-> (f + n) % FrameCycles >= VBlankBegin]
  BY <1>1, CrtcAt
<1> QED BY <1>4, <1>5, <1>6 DEF x, n

\* The edge of the blank after the next one.
SecondEdge(c) == CyclesUntilVBlankEdge(c) + (IF c.inVBlank THEN VBlankBegin ELSE VBlankCycles)

\* Up to there the blank changes once, at the edge.
LEMMA OneEdge ==
    ASSUME NEW c \in CrtcType, InStep(c), NEW n \in Nat, n < SecondEdge(c)
    PROVE  CrtcTick(c, n).inVBlank = IF n < CyclesUntilVBlankEdge(c) THEN c.inVBlank ELSE ~c.inVBlank
<1> DEFINE f == c.frameCycles
           at == (f + n) % FrameCycles
           e == CyclesUntilVBlankEdge(c)
<1>1. /\ FrameCycles \in Nat /\ VBlankCycles \in 1 .. FrameCycles - 1
      /\ VBlankBegin = FrameCycles - VBlankCycles /\ f \in 0 .. FrameCycles - 1 /\ c.inVBlank \in BOOLEAN
  BY CrtcAssumption DEF CrtcType, VBlankBegin
<1>2. CrtcTick(c, n).inVBlank = (at >= VBlankBegin)
  BY CrtcAt
<1>3. CASE c.inVBlank
  <2>1. f >= VBlankBegin /\ e = FrameCycles - f /\ n < (FrameCycles - f) + VBlankBegin
    BY <1>1, <1>3 DEF InStep, CyclesUntilVBlankEdge, SecondEdge
  <2>2. at = IF n < e THEN f + n ELSE (f + n) - FrameCycles
    BY <1>1, <2>1, SMTT(60)
  <2> HIDE DEF at, e
  <2>3. (at >= VBlankBegin) = (n < e)
    BY <1>1, <2>1, <2>2
  <2>4. CASE n < e
    BY <1>1, <1>2, <1>3, <2>3, <2>4 DEF e
  <2>5. CASE ~(n < e)
    BY <1>1, <1>2, <1>3, <2>3, <2>5 DEF e
  <2> QED BY <2>4, <2>5
<1>4. CASE ~c.inVBlank
  <2>1. f < VBlankBegin /\ e = VBlankBegin - f /\ n < (VBlankBegin - f) + VBlankCycles
    BY <1>1, <1>4 DEF InStep, CyclesUntilVBlankEdge, SecondEdge
  <2>2. at = f + n
    BY <1>1, <2>1, SMTT(60)
  <2> HIDE DEF at, e
  <2>3. (at >= VBlankBegin) = ~(n < e)
    BY <1>1, <2>1, <2>2
  <2>4. CASE n < e
    BY <1>1, <1>2, <1>4, <2>3, <2>4 DEF e
  <2>5. CASE ~(n < e)
    BY <1>1, <1>2, <1>4, <2>3, <2>5 DEF e
  <2> QED BY <2>4, <2>5
<1> QED BY <1>1, <1>3, <1>4

\* One second, as a step.
Second == [x \in RtcType |-> AdvanceOneSecond(x)]

\* A second keeps the type of the clock.
LEMMA SecondIsStep == Second \in [RtcType -> RtcType]
BY AdvanceTyped DEF Second

\* The seconds of Rtc::tick, one by one.
LEMMA SecondsNth ==
    ASSUME NEW r \in RtcType, NEW q \in Nat
    PROVE  LET after[n \in 0 .. q] == IF n = 0 THEN r ELSE AdvanceOneSecond(after[n - 1])
           IN  after[q] = Nth(RtcType, Second, r, q)
<1> DEFINE B(g) == [n \in 0 .. q |-> IF n = 0 THEN r ELSE AdvanceOneSecond(g[n - 1])]
           a == CHOOSE g : g = B(g)
           N(k) == Nth(RtcType, Second, r, k)
           b == [n \in 0 .. q |-> N(n)]
<1>1. SUFFICES a[q] = N(q)
  BY Zenon
<1>2. \A k \in Nat : N(k) \in RtcType /\ N(0) = r /\ N(k + 1) = Second[N(k)]
  BY SecondIsStep, NthUnfolds
<1>3. \A x \in RtcType : Second[x] = AdvanceOneSecond(x)
  BY DEF Second
<1> HIDE DEF N
<1>4. ASSUME NEW k \in 0 .. q PROVE N(k) = IF k = 0 THEN r ELSE AdvanceOneSecond(b[k - 1])
  <2>1. CASE k = 0
    BY <1>2, <2>1
  <2>2. CASE k # 0
    <3>1. k - 1 \in Nat /\ k - 1 \in 0 .. q /\ (k - 1) + 1 = k
      BY <2>2
    <3>2. N(k) = Second[N(k - 1)] /\ N(k - 1) \in RtcType
      BY <1>2, <3>1
    <3> QED BY <1>3, <2>2, <3>1, <3>2
  <2> QED BY <2>1, <2>2
<1>5. b = B(b)
  BY <1>4
<1>6. a = B(a)
  <2> HIDE DEF B, b
  <2> QED BY <1>5, Zenon
<1> DEFINE V == {k \in 0 .. q : a[k] = N(k)}
<1>7. 0 \in V
  <2> HIDE DEF a
  <2> QED BY <1>2, <1>6
<1>8. ASSUME NEW k \in 1 .. q, k - 1 \in V PROVE k \in V
  <2>1. k - 1 \in Nat /\ k \in 0 .. q /\ k # 0 /\ (k - 1) + 1 = k
    OBVIOUS
  <2>2. a[k] = AdvanceOneSecond(a[k - 1])
    <3> HIDE DEF a
    <3> QED BY <1>6, <2>1
  <2>3. N(k) = Second[N(k - 1)] /\ N(k - 1) \in RtcType
    BY <1>2, <2>1
  <2> HIDE DEF a
  <2> QED BY <1>3, <1>8, <2>1, <2>2, <2>3
<1> HIDE DEF V
<1>9. 0 .. q \subseteq V
  BY <1>7, <1>8, InductionUpTo
<1> USE DEF V
<1> HIDE DEF a
<1> QED BY <1>9

\* The calendar with another phase of the second.
Phased(r, n) == [r EXCEPT !.accumulator = n]

\* The clock after some cycles: as many seconds as they hold, and the rest as phase.
LEMMA RtcTickIs ==
    ASSUME NEW r \in RtcType, NEW cycles \in Nat
    PROVE  LET total == r.accumulator + cycles
           IN  RtcTick(r, cycles) = Phased(Nth(RtcType, Second, r, total \div CyclesPerSecond),
                                           total % CyclesPerSecond)
<1> DEFINE total == r.accumulator + cycles
           q == total \div CyclesPerSecond
           a == CHOOSE g : g = [n \in 0 .. q |-> IF n = 0 THEN r ELSE AdvanceOneSecond(g[n - 1])]
<1>1. total \in Nat
  BY ClockFields
<1>2. q \in Nat
  BY <1>1, DivBound, RtcAssumption
<1>3. RtcTick(r, cycles) = [a[q] EXCEPT !.accumulator = total % CyclesPerSecond]
  BY Zenon DEF RtcTick
<1>4. a[q] = Nth(RtcType, Second, r, q)
  <2> HIDE DEF q
  <2> QED BY <1>2, SecondsNth, Zenon
<1> HIDE DEF a
<1> QED BY <1>3, <1>4 DEF Phased

\* What a second does to each field.
LastDay(r) == Carries(r.day, DaysInMonth(r.month, r.year) + 1)
ToMinute(r) == Carries(r.second, 60)
ToHour(r) == ToMinute(r) /\ Carries(r.minute, 60)
ToDay(r) == ToHour(r) /\ Carries(r.hour, 24)
ToMonth(r) == ToDay(r) /\ LastDay(r)
ToYear(r) == ToMonth(r) /\ Carries(r.month, 13)

\* The fields after a second, one by one.
LEMMA AdvanceExact ==
    ASSUME NEW r \in RtcType
    PROVE  LET x == AdvanceOneSecond(r)
           IN  /\ x \in RtcType /\ x.accumulator = r.accumulator
               /\ x.second = IF ToMinute(r) THEN 0 ELSE r.second + 1
               /\ x.minute = IF ~ToMinute(r) THEN r.minute ELSE IF ToHour(r) THEN 0 ELSE r.minute + 1
               /\ x.hour = IF ~ToHour(r) THEN r.hour ELSE IF ToDay(r) THEN 0 ELSE r.hour + 1
               /\ x.weekday = IF ToDay(r) THEN (r.weekday + 1) % 7 ELSE r.weekday
               /\ x.day = IF ~ToDay(r) THEN r.day ELSE IF ToMonth(r) THEN 1 ELSE r.day + 1
               /\ x.month = IF ~ToMonth(r) THEN r.month ELSE IF ToYear(r) THEN 1 ELSE r.month + 1
               /\ x.year = IF ToYear(r) THEN (r.year + 1) % 100 ELSE r.year
<1> DEFINE x == AdvanceOneSecond(r)
           midnight == [r EXCEPT !.second = 0, !.minute = 0, !.hour = 0, !.weekday = (@ + 1) % 7]
<1>1. x \in RtcType
  BY AdvanceTyped
<1>2. CASE ~ToMinute(r)
  <2>1. x = [r EXCEPT !.second = r.second + 1]
    BY <1>2 DEF AdvanceOneSecond, ToMinute
  <2> HIDE DEF x
  <2>11. /\ x.accumulator = r.accumulator /\ x.second = r.second + 1 /\ x.minute = r.minute /\ x.hour = r.hour
         /\ x.weekday = r.weekday /\ x.day = r.day /\ x.month = r.month /\ x.year = r.year
    BY <2>1 DEF RtcType
  <2>12. ~ToMinute(r) /\ ~ToHour(r) /\ ~ToDay(r) /\ ~ToMonth(r) /\ ~ToYear(r)
    BY <1>2 DEF ToHour, ToDay, ToMonth, ToYear
  <2> QED BY <1>1, <2>11, <2>12, Zenon DEF x
<1>3. CASE ToMinute(r) /\ ~ToHour(r)
  <2>1. x = [r EXCEPT !.second = 0, !.minute = r.minute + 1]
    BY <1>3 DEF AdvanceOneSecond, ToMinute, ToHour
  <2> HIDE DEF x
  <2>11. /\ x.accumulator = r.accumulator /\ x.second = 0 /\ x.minute = r.minute + 1 /\ x.hour = r.hour
         /\ x.weekday = r.weekday /\ x.day = r.day /\ x.month = r.month /\ x.year = r.year
    BY <2>1 DEF RtcType
  <2>12. ToMinute(r) /\ ~ToHour(r) /\ ~ToDay(r) /\ ~ToMonth(r) /\ ~ToYear(r)
    BY <1>3 DEF ToHour, ToDay, ToMonth, ToYear
  <2> QED BY <1>1, <2>11, <2>12, Zenon DEF x
<1>4. CASE ToHour(r) /\ ~ToDay(r)
  <2>1. x = [r EXCEPT !.second = 0, !.minute = 0, !.hour = r.hour + 1]
    BY <1>4 DEF AdvanceOneSecond, ToMinute, ToHour, ToDay
  <2>2. ToMinute(r)
    BY <1>4 DEF ToHour
  <2> HIDE DEF x
  <2>11. /\ x.accumulator = r.accumulator /\ x.second = 0 /\ x.minute = 0 /\ x.hour = r.hour + 1
         /\ x.weekday = r.weekday /\ x.day = r.day /\ x.month = r.month /\ x.year = r.year
    BY <2>1 DEF RtcType
  <2>12. ToMinute(r) /\ ToHour(r) /\ ~ToDay(r) /\ ~ToMonth(r) /\ ~ToYear(r)
    BY <1>4, <2>2 DEF ToHour, ToDay, ToMonth, ToYear
  <2> QED BY <1>1, <2>11, <2>12, Zenon DEF x
<1>5. CASE ToDay(r)
  <2>1. x = IF ~LastDay(r) THEN [midnight EXCEPT !.day = @ + 1]
            ELSE IF ~Carries(r.month, 13) THEN [midnight EXCEPT !.day = 1, !.month = @ + 1]
            ELSE [midnight EXCEPT !.day = 1, !.month = 1, !.year = (@ + 1) % 100]
    BY <1>5 DEF AdvanceOneSecond, ToMinute, ToHour, ToDay, LastDay
  <2>2. ToMinute(r) /\ ToHour(r)
    BY <1>5 DEF ToHour, ToDay
  <2>3. CASE ~ToMonth(r)
    <3>1. x = [midnight EXCEPT !.day = @ + 1]
      BY <1>5, <2>1, <2>3 DEF ToMonth
    <3> HIDE DEF x
    <3>11. /\ x.accumulator = r.accumulator /\ x.second = 0 /\ x.minute = 0 /\ x.hour = 0
           /\ x.weekday = (r.weekday + 1) % 7 /\ x.day = r.day + 1 /\ x.month = r.month /\ x.year = r.year
      BY <3>1 DEF RtcType
    <3>12. ToMinute(r) /\ ToHour(r) /\ ToDay(r) /\ ~ToMonth(r) /\ ~ToYear(r)
      BY <1>5, <2>2, <2>3 DEF ToHour, ToDay, ToMonth, ToYear
    <3> QED BY <1>1, <3>11, <3>12, Zenon DEF x
  <2>4. CASE ToMonth(r) /\ ~ToYear(r)
    <3>1. x = [midnight EXCEPT !.day = 1, !.month = @ + 1]
      BY <1>5, <2>1, <2>4 DEF ToMonth, ToYear
    <3> HIDE DEF x
    <3>11. /\ x.accumulator = r.accumulator /\ x.second = 0 /\ x.minute = 0 /\ x.hour = 0
           /\ x.weekday = (r.weekday + 1) % 7 /\ x.day = 1 /\ x.month = r.month + 1 /\ x.year = r.year
      BY <3>1 DEF RtcType
    <3>12. ToMinute(r) /\ ToHour(r) /\ ToDay(r) /\ ToMonth(r) /\ ~ToYear(r)
      BY <1>5, <2>2, <2>4 DEF ToHour, ToDay, ToMonth, ToYear
    <3> QED BY <1>1, <3>11, <3>12, Zenon DEF x
  <2>5. CASE ToYear(r)
    <3>1. ToMonth(r) /\ x = [midnight EXCEPT !.day = 1, !.month = 1, !.year = (@ + 1) % 100]
      BY <1>5, <2>1, <2>5 DEF ToMonth, ToYear
    <3> HIDE DEF x
    <3>11. /\ x.accumulator = r.accumulator /\ x.second = 0 /\ x.minute = 0 /\ x.hour = 0
           /\ x.weekday = (r.weekday + 1) % 7 /\ x.day = 1 /\ x.month = 1 /\ x.year = (r.year + 1) % 100
      BY <3>1 DEF RtcType
    <3>12. ToMinute(r) /\ ToHour(r) /\ ToDay(r) /\ ToMonth(r) /\ ToYear(r)
      BY <1>5, <2>2, <2>5, <3>1 DEF ToHour, ToDay, ToMonth, ToYear
    <3> QED BY <1>1, <3>11, <3>12, Zenon DEF x
  <2> QED BY <2>3, <2>4, <2>5
<1> QED BY <1>2, <1>3, <1>4, <1>5 DEF ToHour, ToDay

\* A clock is its fields.
LEMMA SameClock ==
    ASSUME NEW r \in RtcType, NEW s \in RtcType,
           r.second = s.second, r.minute = s.minute, r.hour = s.hour, r.weekday = s.weekday,
           r.day = s.day, r.month = s.month, r.year = s.year, r.accumulator = s.accumulator
    PROVE  r = s
BY DEF RtcType

\* A second does not look at the phase.
LEMMA SecondPhased ==
    ASSUME NEW r \in RtcType, NEW n \in Nat
    PROVE  Phased(r, n) \in RtcType /\ AdvanceOneSecond(Phased(r, n)) = Phased(AdvanceOneSecond(r), n)
<1> DEFINE p == Phased(r, n)
           x == AdvanceOneSecond(r)
           y == AdvanceOneSecond(p)
           z == Phased(x, n)
<1>1. p \in RtcType /\ x \in RtcType /\ z \in RtcType
  BY SetClockField, AdvanceTyped DEF Phased
<1>2. /\ p.second = r.second /\ p.minute = r.minute /\ p.hour = r.hour /\ p.weekday = r.weekday
      /\ p.day = r.day /\ p.month = r.month /\ p.year = r.year /\ p.accumulator = n
  BY DEF Phased, RtcType
<1> HIDE DEF x
<1>3. /\ z.second = x.second /\ z.minute = x.minute /\ z.hour = x.hour /\ z.weekday = x.weekday
      /\ z.day = x.day /\ z.month = x.month /\ z.year = x.year /\ z.accumulator = n
  BY <1>1 DEF Phased, RtcType
<1> HIDE DEF p, z
<1>4. /\ ToMinute(p) = ToMinute(r) /\ ToHour(p) = ToHour(r) /\ ToDay(p) = ToDay(r)
      /\ ToMonth(p) = ToMonth(r) /\ ToYear(p) = ToYear(r)
  BY <1>2, Zenon DEF ToMinute, ToHour, ToDay, ToMonth, ToYear, LastDay
<1>5. /\ x.second = IF ToMinute(r) THEN 0 ELSE r.second + 1
      /\ x.minute = IF ~ToMinute(r) THEN r.minute ELSE IF ToHour(r) THEN 0 ELSE r.minute + 1
      /\ x.hour = IF ~ToHour(r) THEN r.hour ELSE IF ToDay(r) THEN 0 ELSE r.hour + 1
      /\ x.weekday = IF ToDay(r) THEN (r.weekday + 1) % 7 ELSE r.weekday
      /\ x.day = IF ~ToDay(r) THEN r.day ELSE IF ToMonth(r) THEN 1 ELSE r.day + 1
      /\ x.month = IF ~ToMonth(r) THEN r.month ELSE IF ToYear(r) THEN 1 ELSE r.month + 1
      /\ x.year = IF ToYear(r) THEN (r.year + 1) % 100 ELSE r.year
  BY AdvanceExact DEF x
<1>6. /\ y \in RtcType /\ y.accumulator = n
      /\ y.second = IF ToMinute(p) THEN 0 ELSE p.second + 1
      /\ y.minute = IF ~ToMinute(p) THEN p.minute ELSE IF ToHour(p) THEN 0 ELSE p.minute + 1
      /\ y.hour = IF ~ToHour(p) THEN p.hour ELSE IF ToDay(p) THEN 0 ELSE p.hour + 1
      /\ y.weekday = IF ToDay(p) THEN (p.weekday + 1) % 7 ELSE p.weekday
      /\ y.day = IF ~ToDay(p) THEN p.day ELSE IF ToMonth(p) THEN 1 ELSE p.day + 1
      /\ y.month = IF ~ToMonth(p) THEN p.month ELSE IF ToYear(p) THEN 1 ELSE p.month + 1
      /\ y.year = IF ToYear(p) THEN (p.year + 1) % 100 ELSE p.year
  BY <1>1, <1>2, AdvanceExact
<1> HIDE DEF y
<1>7. y = z
  <2>1. /\ y.second = z.second /\ y.minute = z.minute /\ y.hour = z.hour /\ y.weekday = z.weekday
        /\ y.day = z.day /\ y.month = z.month /\ y.year = z.year /\ y.accumulator = z.accumulator
    BY <1>2, <1>3, <1>4, <1>5, <1>6, Zenon
  <2> QED BY <1>1, <1>6, <2>1, SameClock
<1> QED BY <1>1, <1>7 DEF p, x, y, z

--------------------------------------------------------------------------------
(* The devices, ticked late *)

\* The clock, in parts as in one go.
LEMMA RtcAdds ==
    ASSUME NEW r \in RtcType, NEW a \in Nat, NEW b \in Nat
    PROVE  RtcTick(RtcTick(r, a), b) = RtcTick(r, a + b)
<1> DEFINE N(s, k) == Nth(RtcType, Second, s, k)
           P == CyclesPerSecond
           t == r.accumulator + a
           q == t \div P
           s == t % P
           u == N(r, q)
           x == RtcTick(r, a)
           t2 == s + b
           q2 == t2 \div P
           s2 == t2 % P
           n == a + b
           t3 == r.accumulator + n
<1>1. r.accumulator \in Nat /\ t \in Nat /\ P \in Nat /\ P # 0 /\ n \in Nat /\ t3 \in Nat /\ t3 = t + b
  BY ClockFields, RtcAssumption
<1>2. x = Phased(u, s)
  BY RtcTickIs
<1>3. q \in Nat /\ s \in Nat /\ t2 \in Nat
  <2>1. q \in Nat /\ s \in 0 .. P - 1
    <3> HIDE DEF t, P
    <3> QED BY <1>1, DivBound
  <2> HIDE DEF t, q, s
  <2> QED BY <1>1, <2>1
<1>4. t3 \div P = q + q2 /\ t3 % P = s2
  <2> HIDE DEF t, t3, P
  <2>1. ((t % P) + b) % P = (t + b) % P /\ (t + b) \div P = (t \div P) + (((t % P) + b) \div P)
    <3>1. t \in Nat /\ P \in Nat /\ P # 0
      BY <1>1
    <3> QED BY ONLY <3>1, b \in Nat, DivAdds, ZenonT(60)
  <2> QED BY <1>1, <2>1 DEF q, s, q2, s2, t2
<1>5. q2 \in Nat /\ s2 \in Nat
  <2>1. q2 \in Nat /\ s2 \in 0 .. P - 1
    <3> HIDE DEF t2, P
    <3> QED BY <1>1, <1>3, DivBound
  <2> HIDE DEF s2
  <2> QED BY <2>1
<1>6. RtcTick(r, n) = Phased(N(r, t3 \div P), t3 % P)
  <2> HIDE DEF n
  <2> QED BY <1>1, RtcTickIs
<1> HIDE DEF t, q, s, x, q2, s2, t3, n
<1>7. u \in RtcType
  BY <1>3, SecondIsStep, NthUnfolds
<1>8. N(u, q2) = N(r, q + q2)
  BY <1>3, <1>5, SecondIsStep, NthAdds
<1> HIDE DEF u
<1>9. x \in RtcType /\ x.accumulator = s
  BY <1>2, <1>3, <1>7, SetClockField DEF Phased, RtcType
<1>10. RtcTick(x, b) = Phased(N(x, q2), s2)
  <2>1. RtcTick(x, b) = Phased(N(x, (x.accumulator + b) \div P), (x.accumulator + b) % P)
    BY <1>9, RtcTickIs
  <2> QED BY <1>9, <2>1 DEF q2, s2
<1>11. N(x, q2) = Phased(N(u, q2), s)
  <2> DEFINE g == [y \in RtcType |-> Phased(y, s)]
  <2>1. g \in [RtcType -> RtcType] /\ \A y \in RtcType : g[y] = Phased(y, s)
    BY <1>3, SecondPhased
  <2> HIDE DEF g
  <2>2. \A y \in RtcType : g[Second[y]] = Second[g[y]]
    <3> TAKE y \in RtcType
    <3>1. Second[y] \in RtcType /\ g[y] \in RtcType /\ g[y] = Phased(y, s) /\ Second[y] = AdvanceOneSecond(y)
      BY <2>1, SecondIsStep DEF Second
    <3>2. Second[g[y]] = AdvanceOneSecond(g[y])
      BY <3>1 DEF Second
    <3> QED BY <1>3, <2>1, <3>1, <3>2, SecondPhased
  <2>3. g[Nth(RtcType, Second, u, q2)] = Nth(RtcType, Second, g[u], q2)
    BY ONLY <1>5, <1>7, <2>1, <2>2, SecondIsStep, NthCommutes
  <2>4. Nth(RtcType, Second, u, q2) \in RtcType
    BY <1>5, <1>7, SecondIsStep, NthUnfolds
  <2> QED BY <1>2, <1>7, <2>1, <2>3, <2>4
<1>12. N(u, q2) \in RtcType
  BY <1>5, <1>7, SecondIsStep, NthUnfolds
<1> HIDE DEF N
<1>13. Phased(Phased(N(u, q2), s), s2) = Phased(N(u, q2), s2)
  BY <1>12 DEF Phased, RtcType
<1>14. RtcTick(x, b) = RtcTick(r, n)
  BY <1>4, <1>6, <1>8, <1>10, <1>11, <1>13
<1> QED BY <1>14 DEF x, n

\* What Machine::tickDevices makes of each device.
LEMMA TickDevicesExact ==
    ASSUME NEW d, InTime(d), NEW n \in Nat, NEW fastPath \in BOOLEAN
    PROVE  LET x == TickDevicesBy(fastPath, d, n)
               m == AllLive(d.mfp, n \div 2)
               c == CrtcTick(d.crtc, n)
           IN  /\ x = TickDevices(d, n) /\ x \in DeviceType
               /\ x.mfp = (IF c.inVBlank # d.crtc.inVBlank THEN SetVerticalBlank(m, c.inVBlank) ELSE m)
               /\ x.crtc = c /\ x.rtc = RtcTick(d.rtc, n) /\ x.scc = d.scc /\ x.iosc = d.iosc
<1> DEFINE k == n \div 2
           m == AllLive(d.mfp, k)
           c == CrtcTick(d.crtc, n)
           r == RtcTick(d.rtc, n)
           s == IF c.inVBlank # d.crtc.inVBlank THEN SetVerticalBlank(m, c.inVBlank) ELSE m
           y == TickDevicesBy(fastPath, d, n)
<1>1. d \in DeviceType /\ d.mfp \in MfpType /\ d.crtc \in CrtcType /\ d.rtc \in RtcType
  BY DEF InTime, DeviceType
<1>2. k \in Nat
  OBVIOUS
<1>3. \A path \in BOOLEAN : MfpTick(path, d.mfp, n) = m
  <2> HIDE DEF k
  <2>1. k = n \div 2
    BY DEF k
  <2> QED BY <1>1, <1>2, <2>1, MfpTickLives
<1>4. m \in MfpType
  <2> HIDE DEF k
  <2>1. k = n \div 2
    BY DEF k
  <2> QED BY <1>1, <1>2, <2>1, MfpTickLives
<1>5. c \in CrtcType
  BY <1>1, CrtcTickFacts
<1> HIDE DEF m
<1>6. s \in MfpType
  BY <1>4, <1>5, SetVerticalBlankFacts DEF CrtcType
<1>7. r \in RtcType
  BY <1>1, RtcTickFacts
<1>8. \A path \in BOOLEAN : TickDevicesBy(path, d, n) = [d EXCEPT !.mfp = s, !.rtc = r, !.crtc = c]
  BY <1>3 DEF TickDevicesBy
<1>9. y = TickDevices(d, n) /\ y = [d EXCEPT !.mfp = s, !.rtc = r, !.crtc = c]
  BY <1>8 DEF TickDevices
<1> HIDE DEF s, r, c, y, k
<1>10. /\ y \in DeviceType /\ y.mfp = s /\ y.crtc = c /\ y.rtc = r
       /\ y.scc = d.scc /\ y.iosc = d.iosc
  BY <1>1, <1>5, <1>6, <1>7, <1>9 DEF DeviceType
<1> QED BY <1>9, <1>10 DEF s, r, c, y, k, m

\* Devices are their fields.
LEMMA SameDevices ==
    ASSUME NEW x \in DeviceType, NEW y \in DeviceType,
           x.mfp = y.mfp, x.crtc = y.crtc, x.rtc = y.rtc, x.scc = y.scc, x.iosc = y.iosc
    PROVE  x = y
BY DEF DeviceType

\* Machine::tickDevices, in parts as in one go, until the second edge of the blank.
LEMMA TickDevicesAdds ==
    ASSUME NEW d, InTime(d), NEW a \in Nat, a % 2 = 0, NEW b \in Nat, a + b < SecondEdge(d.crtc)
    PROVE  TickDevices(TickDevices(d, a), b) = TickDevices(d, a + b)
<1> DEFINE n == a + b
           x == TickDevices(d, a)
           y == TickDevices(x, b)
           z == TickDevices(d, n)
           v == d.crtc.inVBlank
           cx == CrtcTick(d.crtc, a)
           cz == CrtcTick(d.crtc, n)
           e == CyclesUntilVBlankEdge(d.crtc)
           m == d.mfp
           i == a \div 2
           j == b \div 2
           k == n \div 2
<1>1. m \in MfpType /\ d.crtc \in CrtcType /\ d.rtc \in RtcType /\ v \in BOOLEAN /\ InStep(d.crtc)
  BY DEF InTime, DeviceType, CrtcType
<1>2. n \in Nat /\ i \in Nat /\ j \in Nat /\ k = i + j /\ a <= n
  OBVIOUS
<1>3. InTime(x) /\ InTime(z) /\ cx \in CrtcType /\ cz \in CrtcType
  <2> HIDE DEF n
  <2> QED BY <1>1, <1>2, TickDevicesFacts, CrtcTickFacts
<1>4. cx.inVBlank = (IF a < e THEN v ELSE ~v) /\ cz.inVBlank = IF n < e THEN v ELSE ~v
  <2>1. a < SecondEdge(d.crtc) /\ n < SecondEdge(d.crtc)
    <3>1. SecondEdge(d.crtc) \in Int
      BY <1>1, CrtcTickFacts, CrtcAssumption DEF SecondEdge, VBlankBegin
    <3> QED BY <3>1
  <2> HIDE DEF n
  <2> QED BY <1>1, <1>2, <2>1, OneEdge
<1>5. CrtcTick(cx, b) = cz
  BY <1>1, CrtcAdds
<1>6. e \in Nat
  BY <1>1, CrtcTickFacts, CrtcAssumption
<1> HIDE DEF n, i, j, k, cx, cz, e, v, m
<1>7. /\ x \in DeviceType /\ x.crtc = cx /\ x.rtc = RtcTick(d.rtc, a) /\ x.scc = d.scc /\ x.iosc = d.iosc
      /\ x.mfp = (IF cx.inVBlank # v THEN SetVerticalBlank(AllLive(m, i), cx.inVBlank) ELSE AllLive(m, i))
  BY TickDevicesExact DEF TickDevices, cx, v, m, i
<1>8. /\ z \in DeviceType /\ z.crtc = cz /\ z.rtc = RtcTick(d.rtc, n) /\ z.scc = d.scc /\ z.iosc = d.iosc
      /\ z.mfp = (IF cz.inVBlank # v THEN SetVerticalBlank(AllLive(m, k), cz.inVBlank) ELSE AllLive(m, k))
  BY <1>2, TickDevicesExact DEF TickDevices, cz, v, m, k
<1> HIDE DEF x, z
<1>9. /\ y \in DeviceType /\ y.crtc = cz /\ y.rtc = RtcTick(x.rtc, b) /\ y.scc = x.scc /\ y.iosc = x.iosc
      /\ y.mfp = (IF cz.inVBlank # cx.inVBlank THEN SetVerticalBlank(AllLive(x.mfp, j), cz.inVBlank)
                  ELSE AllLive(x.mfp, j))
  BY <1>3, <1>5, <1>7, TickDevicesExact DEF TickDevices, j
<1> HIDE DEF y
<1>10. y.rtc = z.rtc
  BY <1>1, <1>7, <1>8, <1>9, RtcAdds DEF n
<1>11. AllLive(AllLive(m, i), j) = AllLive(m, k) /\ AllLive(m, i) \in MfpType
  <2>1. AllLive(AllLive(m, i), j) = AllLive(m, i + j)
    BY <1>1, <1>2, AllLiveAdds
  <2>2. AllLive(m, i) \in MfpType
    <3>1. 2 * i \in Nat /\ i = (2 * i) \div 2
      BY <1>2
    <3> QED BY <1>1, <1>2, <3>1, MfpTickLives
  <2> QED BY <1>2, <2>1, <2>2
<1>12. \A blank \in BOOLEAN :
          AllLive(SetVerticalBlank(AllLive(m, i), blank), j) = SetVerticalBlank(AllLive(m, k), blank)
  BY <1>2, <1>11, BlankAllLive
<1>13. y.mfp = z.mfp
  <2>1. CASE a < e /\ n < e
    BY <1>4, <1>7, <1>8, <1>9, <1>11, <2>1
  <2>2. CASE a < e /\ ~(n < e)
    BY <1>1, <1>4, <1>7, <1>8, <1>9, <1>11, <2>2
  <2>3. CASE ~(a < e)
    <3>1. ~(n < e)
      BY <1>2, <1>6, <2>3
    <3>2. cx.inVBlank = cz.inVBlank /\ cx.inVBlank # v /\ cx.inVBlank \in BOOLEAN
      BY <1>1, <1>4, <2>3, <3>1
    <3> QED BY <1>7, <1>8, <1>9, <1>12, <3>2
  <2> QED BY <2>1, <2>2, <2>3
<1>14. y = z
  BY <1>7, <1>8, <1>9, <1>10, <1>13, SameDevices
<1> QED BY <1>14 DEF x, y, z, n

\* Machine::settle in its chunks is one tick of what is owed, until the second edge.
LEMMA SettleIsTick ==
    ASSUME NEW d, InTime(d), NEW n \in Nat, n < SecondEdge(d.crtc)
    PROVE  Settle(d, n) = IF n = 0 THEN d ELSE TickDevices(d, n)
<1> DEFINE C == MaxSettleChunk
           q == n \div C
           r == n % C
           x == Settle(d, n)
           L == SecondEdge(d.crtc)
<1>1. q \in Nat /\ r \in Nat /\ C \in Nat /\ C # 0 /\ C % 2 = 0 /\ n = q * C + r /\ q * C \in Nat
  <2>1. C \in Nat /\ C > 0 /\ C % 2 = 0
    BY DevicesAssumption
  <2>2. q \in Nat /\ r \in 0 .. C - 1
    <3> HIDE DEF C
    <3> QED BY <2>1, DivBound
  <2>3. n = q * C + r
    BY <2>1
  <2> HIDE DEF q, r, C
  <2> QED BY <2>1, <2>2, <2>3
<1>2. PICK a : Chunks(a, d, q, n)
  BY SettleUnfolds
<1>3. /\ a[0] = d /\ (\A k \in 1 .. q : a[k] = TickDevices(a[k - 1], C))
      /\ x = IF r = 0 THEN a[q] ELSE TickDevices(a[q], r)
  BY <1>2 DEF Chunks
<1>4. L \in Int
  BY CrtcTickFacts, CrtcAssumption DEF SecondEdge, VBlankBegin, InTime, DeviceType
<1> HIDE DEF q, r, C, x, L
<1> DEFINE V == {k \in 0 .. q : a[k] = IF k = 0 THEN d ELSE TickDevices(d, k * C)}
<1>5. 0 \in V
  BY <1>1, <1>3
<1>6. ASSUME NEW k \in 1 .. q, k - 1 \in V PROVE k \in V
  <2> DEFINE p == (k - 1) * C
  <2>1. k \in 0 .. q /\ k # 0 /\ p \in Nat /\ p + C = k * C /\ k * C <= q * C /\ k * C \in Nat
    BY <1>1
  <2>2. a[k] = TickDevices(a[k - 1], C) /\ a[k - 1] = IF k - 1 = 0 THEN d ELSE TickDevices(d, p)
    BY <1>3, <1>6
  <2>3. p % 2 = 0
    <3>1. PICK h \in Nat : C = 2 * h
      <4>1. C = 2 * (C \div 2) /\ C \div 2 \in Nat
        BY <1>1
      <4> QED BY <4>1
    <3>2. p = 2 * ((k - 1) * h) /\ (k - 1) * h \in Nat
      BY <3>1
    <3> HIDE DEF p
    <3> QED BY <3>2
  <2>4. p + C < L
    BY <1>1, <1>4, <2>1 DEF L
  <2> HIDE DEF p
  <2>5. TickDevices(TickDevices(d, p), C) = TickDevices(d, p + C)
    BY <1>1, <2>1, <2>3, <2>4, TickDevicesAdds, ZenonT(60) DEF L
  <2>6. CASE k - 1 = 0
    <3>1. k = 1 /\ k * C = C
      BY <1>1, <2>6
    <3> QED BY <2>1, <2>2, <2>6, <3>1
  <2>7. CASE k - 1 # 0
    <3>1. a[k] = TickDevices(d, k * C)
      BY <2>1, <2>2, <2>5, <2>7
    <3> QED BY <2>1, <3>1
  <2> QED BY <2>6, <2>7
<1> HIDE DEF V
<1>7. 0 .. q \subseteq V
  BY <1>1, <1>5, <1>6, InductionUpTo
<1>8. a[q] = IF q = 0 THEN d ELSE TickDevices(d, q * C)
  BY <1>1, <1>7 DEF V
<1> DEFINE p == q * C
<1>9. p % 2 = 0
  <2>1. PICK h \in Nat : C = 2 * h
    <3>1. C = 2 * (C \div 2) /\ C \div 2 \in Nat
      BY <1>1
    <3> QED BY <3>1
  <2>2. p = 2 * (q * h) /\ q * h \in Nat
    BY <1>1, <2>1
  <2> HIDE DEF p
  <2> QED BY <2>2
<1>10. p \in Nat /\ p + r = n /\ (q = 0 => p = 0) /\ (q # 0 => p # 0)
  <2>1. q # 0 => q * C # 0
    BY <1>1
  <2>2. q = 0 => q * C = 0
    BY <1>1
  <2> QED BY <1>1, <2>1, <2>2
<1>11. p + r < L
  BY <1>10 DEF L
<1> HIDE DEF p
<1>12. TickDevices(TickDevices(d, p), r) = TickDevices(d, p + r)
  BY <1>1, <1>9, <1>10, <1>11, TickDevicesAdds, ZenonT(60) DEF L
<1>13. x = IF n = 0 THEN d ELSE TickDevices(d, n)
  <2>1. CASE q = 0
    BY <1>1, <1>3, <1>8, <1>10, <2>1
  <2>2. CASE q # 0 /\ r = 0
    BY <1>1, <1>3, <1>8, <1>10, <2>2 DEF p
  <2>3. CASE q # 0 /\ r # 0
    BY <1>1, <1>3, <1>8, <1>10, <1>12, <2>3 DEF p
  <2> QED BY <2>1, <2>2, <2>3
<1> QED BY <1>13 DEF x

\* What is owed, and then an instruction.
LEMMA SettleThenTick ==
    ASSUME NEW d, InTime(d), NEW late \in Nat, late % 2 = 0, NEW used \in Nat, used # 0,
           late + used < SecondEdge(d.crtc)
    PROVE  TickDevices(Settle(d, late), used) = Settle(d, late + used)
<1> DEFINE n == late + used
<1>1. n \in Nat /\ n # 0 /\ late <= n
  OBVIOUS
<1>2. late < SecondEdge(d.crtc)
  <2>1. SecondEdge(d.crtc) \in Int
    BY CrtcTickFacts, CrtcAssumption DEF SecondEdge, VBlankBegin, InTime, DeviceType
  <2> QED BY <2>1
<1>3. TickDevices(TickDevices(d, late), used) = TickDevices(d, late + used)
  BY TickDevicesAdds
<1>4. Settle(d, late) = IF late = 0 THEN d ELSE TickDevices(d, late)
  BY <1>2, SettleIsTick
<1>5. n < SecondEdge(d.crtc)
  OBVIOUS
<1> HIDE DEF n
<1>6. Settle(d, n) = TickDevices(d, n)
  BY <1>1, <1>5, SettleIsTick
<1> QED BY <1>3, <1>4, <1>6 DEF n

\* The devices that interrupt without keeping time.
Silent(d, scc, iosc) == [d EXCEPT !.scc = scc, !.iosc = iosc]

\* They can be written before time passes as well as after it.
LEMMA SilentSettles ==
    ASSUME NEW d, InTime(d), NEW scc \in BOOLEAN,
           NEW iosc \in [enable : BOOLEAN, line : BOOLEAN], NEW n \in Nat, n < SecondEdge(d.crtc)
    PROVE  /\ InTime(Silent(d, scc, iosc)) /\ Silent(d, scc, iosc).crtc = d.crtc
           /\ Settle(Silent(d, scc, iosc), n) = Silent(Settle(d, n), scc, iosc)
<1> DEFINE s == Silent(d, scc, iosc)
           x == TickDevices(d, n)
           y == TickDevices(s, n)
           z == Silent(x, scc, iosc)
<1>1. d \in DeviceType
  BY DEF InTime
<1>2. /\ s \in DeviceType /\ s.mfp = d.mfp /\ s.crtc = d.crtc /\ s.rtc = d.rtc
      /\ s.scc = scc /\ s.iosc = iosc
  BY <1>1 DEF Silent, DeviceType
<1> HIDE DEF s
<1>3. InTime(s)
  BY <1>2 DEF InTime
<1>4. /\ x \in DeviceType /\ y \in DeviceType
      /\ y.mfp = x.mfp /\ y.crtc = x.crtc /\ y.rtc = x.rtc /\ y.scc = scc /\ y.iosc = iosc
  <2> DEFINE m == AllLive(d.mfp, n \div 2)
             c == CrtcTick(d.crtc, n)
             w == IF c.inVBlank # d.crtc.inVBlank THEN SetVerticalBlank(m, c.inVBlank) ELSE m
  <2>1. x \in DeviceType /\ x.mfp = w /\ x.crtc = c /\ x.rtc = RtcTick(d.rtc, n)
    BY TickDevicesExact DEF TickDevices
  <2>2. y \in DeviceType /\ y.mfp = w /\ y.crtc = c /\ y.rtc = RtcTick(d.rtc, n)
        /\ y.scc = scc /\ y.iosc = iosc
    <3>1. s.crtc = d.crtc /\ s.mfp = d.mfp /\ s.rtc = d.rtc
      BY <1>2
    <3>2. /\ y \in DeviceType /\ y.crtc = CrtcTick(s.crtc, n) /\ y.rtc = RtcTick(s.rtc, n)
          /\ y.scc = s.scc /\ y.iosc = s.iosc
          /\ y.mfp = (IF CrtcTick(s.crtc, n).inVBlank # s.crtc.inVBlank
                       THEN SetVerticalBlank(AllLive(s.mfp, n \div 2), CrtcTick(s.crtc, n).inVBlank)
                       ELSE AllLive(s.mfp, n \div 2))
      BY <1>3, TickDevicesExact DEF TickDevices
    <3> HIDE DEF y
    <3> QED BY <1>2, <3>1, <3>2
  <2> HIDE DEF w, c, x, y
  <2> QED BY <2>1, <2>2
<1> HIDE DEF x, y
<1>5. /\ z \in DeviceType /\ z.mfp = x.mfp /\ z.crtc = x.crtc /\ z.rtc = x.rtc
      /\ z.scc = scc /\ z.iosc = iosc
  BY <1>4 DEF Silent, DeviceType
<1> HIDE DEF z
<1>6. y = z
  BY <1>4, <1>5, SameDevices
<1>7. Settle(d, n) = (IF n = 0 THEN d ELSE x) /\ Settle(s, n) = (IF n = 0 THEN s ELSE y)
  BY <1>2, <1>3, SettleIsTick DEF x, y
<1>8. Settle(s, n) = Silent(Settle(d, n), scc, iosc)
  BY <1>6, <1>7 DEF z, s
<1> QED BY <1>2, <1>3, <1>8 DEF s

--------------------------------------------------------------------------------
(* Two cycles *)

\* The timers whose prescaler is full with the next MFP cycle.
Filled(m) == {t \in Running(m) : m.prescaleCounter[t] + 1 = Prescale(m, t)}
\* What such a timer raises.
Ends(m, t) == IF t \in Filled(m) /\ m.timerValue[t] = 1 THEN Raised(m, TimerChannel[t]) ELSE {}

\* One MFP cycle of a timer that is drained.
LEMMA LiveOnce ==
    ASSUME NEW m \in MfpType, NEW t \in Timer, t \in Running(m) => m.prescaleCounter[t] < Prescale(m, t)
    PROVE  LET x == Live(m, t, 1)
           IN  /\ x \in MfpType /\ Kept(m, x) /\ x.vdisp = m.vdisp
               /\ \A u \in Timer \ {t} : x.prescaleCounter[u] = m.prescaleCounter[u]
                                         /\ x.timerValue[u] = m.timerValue[u]
               /\ x.prescaleCounter[t] = IF t \notin Running(m) THEN m.prescaleCounter[t]
                                         ELSE IF t \in Filled(m) THEN 0 ELSE m.prescaleCounter[t] + 1
               /\ x.timerValue[t] = IF t \in Filled(m) THEN Stepped(m.timerValue[t], m.data[t])
                                    ELSE m.timerValue[t]
               /\ x.ipr = m.ipr \cup Ends(m, t)
<1> DEFINE x == Live(m, t, 1)
           p == Prescale(m, t)
           c == m.prescaleCounter[t]
           a == Ahead(m, t, 1)
<1>1. m \in Counting /\ c \in Nat /\ m.prescaleCounter \in [Timer -> Nat]
      /\ m.timerValue \in [Timer -> 0 .. TimerModulus - 1]
  BY MfpIsCounting DEF MfpType
<1>2. x \in MfpType /\ Kept(m, x) /\ x.vdisp = m.vdisp
  BY TickIfRunningRuns
<1>3. /\ a \in Counting /\ Kept(m, a) /\ a.vdisp = m.vdisp /\ a.ipr = m.ipr
      /\ a.prescaleCounter = [m.prescaleCounter EXCEPT ![t] = c + 1]
      /\ a.timerValue = m.timerValue
  BY <1>1, AheadExact
<1>4. CASE t \notin Running(m)
  <2>1. x = m /\ t \notin Filled(m)
    BY <1>4 DEF Live, Filled
  <2> HIDE DEF x
  <2> QED BY <1>2, <1>4, <2>1 DEF Ends, x
<1>5. CASE t \in Running(m)
  <2>1. p \in Nat /\ p # 0 /\ c < p
    BY <1>1, <1>5, PrescaleIsNat DEF Running
  <2>2. x = Nth(Counting, Down(t), a, Passes(m, t, 1))
    BY <1>5 DEF Live, Run
  <2>3. Down(t) \in [Counting -> Counting] /\ \A y \in Counting : Down(t)[y] = CountDown(y, t)
    BY Moves DEF Down
  <2>4. CASE t \notin Filled(m)
    <3>1. c + 1 < p
      BY <1>1, <1>5, <2>1, <2>4 DEF Filled
    <3>2. Passes(m, t, 1) = 0
      <4>1. 0 * p <= c + 1 /\ c + 1 < 0 * p + p /\ c + 1 \in Nat
        BY <1>1, <2>1, <3>1
      <4> HIDE DEF p, c
      <4>2. (c + 1) \div p = 0
        BY <2>1, <4>1, DivOnly
      <4> QED BY <4>2 DEF Passes, p, c
    <3>3. x = a
      <4> HIDE DEF x, a
      <4>1. Nth(Counting, Down(t), a, 0) = a
        BY <1>3, <2>3, NthUnfolds
      <4> QED BY <2>2, <3>2, <4>1
    <3> HIDE DEF x, a, c
    <3> QED BY <1>1, <1>2, <1>3, <1>5, <2>4, <3>3 DEF Ends, x, c
  <2>5. CASE t \in Filled(m)
    <3>1. c + 1 = p
      BY <2>5 DEF Filled
    <3>2. Passes(m, t, 1) = 1
      <4>1. 1 * p <= c + 1 /\ c + 1 < 1 * p + p /\ c + 1 \in Nat
        BY <1>1, <2>1, <3>1
      <4> HIDE DEF p, c
      <4>2. (c + 1) \div p = 1
        BY <2>1, <4>1, DivOnly
      <4> QED BY <4>2 DEF Passes, p, c
    <3>3. x = CountDown(a, t)
      <4> HIDE DEF x, a
      <4>1. Nth(Counting, Down(t), a, 0) = a /\ Nth(Counting, Down(t), a, 0 + 1) = Down(t)[Nth(Counting, Down(t), a, 0)]
        BY <1>3, <2>3, NthUnfolds
      <4> QED BY <1>3, <2>2, <2>3, <3>2, <4>1
    <3> HIDE DEF x, a
    <3>4. /\ x.prescaleCounter = [a.prescaleCounter EXCEPT ![t] = a.prescaleCounter[t] - Prescale(a, t)]
          /\ x.timerValue = [a.timerValue EXCEPT ![t] = Stepped(a.timerValue[t], a.data[t])]
          /\ x.ipr = a.ipr \cup (IF a.timerValue[t] = 1 THEN Raised(a, TimerChannel[t]) ELSE {})
      BY <1>3, <3>3, CountDownExact
    <3>5. Prescale(a, t) = p /\ a.data = m.data /\ \A ch \in Channel : Raised(a, ch) = Raised(m, ch)
      BY <1>3, KeptPrescale DEF Kept
    <3>6. x.ipr = m.ipr \cup Ends(m, t)
      BY <1>3, <2>5, <3>4, <3>5, ChannelOfTimer DEF Ends
    <3>7. x.timerValue = [m.timerValue EXCEPT ![t] = Stepped(m.timerValue[t], m.data[t])]
      BY <1>3, <3>4, <3>5
    <3>8. x.prescaleCounter = [m.prescaleCounter EXCEPT ![t] = 0]
      <4>1. a.prescaleCounter[t] = c + 1
        BY <1>1, <1>3
      <4>2. a.prescaleCounter[t] - Prescale(a, t) = 0
        BY <1>1, <2>1, <3>1, <3>5, <4>1
      <4> QED BY <1>1, <1>3, <3>4, <4>2
    <3> QED BY <1>1, <1>2, <1>5, <2>5, <3>6, <3>7, <3>8 DEF x
  <2> QED BY <2>4, <2>5
<1> QED BY <1>4, <1>5

\* A timer's cycle is its own.
LEMMA OneForAll ==
    ASSUME NEW m \in MfpType, Drained(m), NEW t \in Timer
    PROVE  LET x == Live(m, t, 1)
           IN  /\ x \in MfpType /\ Drained(x) /\ Kept(m, x) /\ x.vdisp = m.vdisp /\ Running(x) = Running(m)
               /\ \A u \in Timer \ {t} : /\ x.prescaleCounter[u] = m.prescaleCounter[u]
                                         /\ x.timerValue[u] = m.timerValue[u]
                                         /\ (u \in Filled(x)) = (u \in Filled(m)) /\ Ends(x, u) = Ends(m, u)
<1> DEFINE x == Live(m, t, 1)
<1>1. t \in Running(m) => m.prescaleCounter[t] < Prescale(m, t)
  BY DEF Drained
<1>2. /\ x \in MfpType /\ Kept(m, x) /\ x.vdisp = m.vdisp
      /\ \A u \in Timer \ {t} : x.prescaleCounter[u] = m.prescaleCounter[u]
                                /\ x.timerValue[u] = m.timerValue[u]
      /\ x.prescaleCounter[t] = IF t \notin Running(m) THEN m.prescaleCounter[t]
                                ELSE IF t \in Filled(m) THEN 0 ELSE m.prescaleCounter[t] + 1
  BY <1>1, LiveOnce
<1> HIDE DEF x
<1>3. /\ \A u \in Timer : Prescale(x, u) = Prescale(m, u)
      /\ Running(x) = Running(m)
      /\ \A c \in Channel : Raised(x, c) = Raised(m, c)
  BY <1>2, KeptPrescale
<1>4. \A u \in Timer \ {t} : (u \in Filled(x)) = (u \in Filled(m)) /\ Ends(x, u) = Ends(m, u)
  BY <1>2, <1>3, ChannelOfTimer DEF Filled, Ends
<1>5. ASSUME NEW u \in Running(x) PROVE x.prescaleCounter[u] < Prescale(x, u)
  <2>1. u \in Timer /\ u \in Running(m) /\ m.prescaleCounter[u] < Prescale(m, u)
    BY <1>3, <1>5 DEF Running, Drained
  <2>2. CASE u # t
    BY <1>2, <1>3, <2>1, <2>2
  <2>3. CASE u = t
    <3>1. m.prescaleCounter[t] \in Nat /\ Prescale(m, t) \in Nat /\ Prescale(m, t) # 0
      BY <2>1, <2>3, MfpIsCounting, PrescaleIsNat DEF MfpType, Running
    <3> QED BY <1>2, <1>3, <2>1, <2>3, <3>1 DEF Filled
  <2> QED BY <2>2, <2>3
<1> QED BY <1>2, <1>3, <1>4, <1>5 DEF Drained, x

\* One MFP cycle of all timers: the full ones count down, and those that end raise.
LEMMA AllOnce ==
    ASSUME NEW m \in MfpType, Drained(m)
    PROVE  LET x == AllLive(m, 1)
           IN  /\ x \in MfpType /\ Kept(m, x) /\ x.vdisp = m.vdisp
               /\ \A t \in Timer :
                     /\ x.prescaleCounter[t] = IF t \notin Running(m) THEN m.prescaleCounter[t]
                                               ELSE IF t \in Filled(m) THEN 0 ELSE m.prescaleCounter[t] + 1
                     /\ x.timerValue[t] = IF t \in Filled(m) THEN Stepped(m.timerValue[t], m.data[t])
                                          ELSE m.timerValue[t]
                     /\ Ends(m, t) \subseteq x.ipr
<1>1. Timer = {"A", "B", "C", "D"}
  BY DEF Timer
<1> DEFINE a == Live(m, "A", 1)
           b == Live(a, "B", 1)
           c == Live(b, "C", 1)
           x == Live(c, "D", 1)
           New(n, t) == IF t \notin Running(n) THEN n.prescaleCounter[t]
                        ELSE IF t \in Filled(n) THEN 0 ELSE n.prescaleCounter[t] + 1
           Val(n, t) == IF t \in Filled(n) THEN Stepped(n.timerValue[t], n.data[t]) ELSE n.timerValue[t]
           Same(n, y, t) == /\ \A u \in Timer \ {t} : y.prescaleCounter[u] = n.prescaleCounter[u]
                                         /\ y.timerValue[u] = n.timerValue[u]
                                         /\ (u \in Filled(y)) = (u \in Filled(n)) /\ Ends(y, u) = Ends(n, u)
           Done(n, y, t) == /\ y.prescaleCounter[t] = New(n, t) /\ y.timerValue[t] = Val(n, t)
                            /\ y.ipr = n.ipr \cup Ends(n, t)
           Stay(n, y) == y \in MfpType /\ Drained(y) /\ Kept(n, y) /\ y.vdisp = n.vdisp /\ Running(y) = Running(n)
<1>2. ASSUME NEW n \in MfpType, Drained(n), NEW t \in Timer
      PROVE  LET y == Live(n, t, 1) IN Stay(n, y) /\ Same(n, y, t) /\ Done(n, y, t)
  <2>1. t \in Running(n) => n.prescaleCounter[t] < Prescale(n, t)
    BY <1>2 DEF Drained
  <2> DEFINE y == Live(n, t, 1)
  <2>2. Stay(n, y) /\ Same(n, y, t)
    BY <1>2, OneForAll
  <2>3. Done(n, y, t)
    BY <2>1, LiveOnce
  <2> HIDE DEF Stay, Same, Done
  <2> QED BY <2>2, <2>3
<1>3. Stay(m, a) /\ Same(m, a, "A") /\ Done(m, a, "A")
  <2> HIDE DEF Stay, Same, Done
  <2> QED BY <1>1, <1>2
<1> HIDE DEF a
<1>4. Stay(a, b) /\ Same(a, b, "B") /\ Done(a, b, "B")
  <2>1. a \in MfpType /\ Drained(a)
    BY <1>3
  <2> HIDE DEF Stay, Same, Done
  <2> QED BY <1>1, <1>2, <2>1
<1> HIDE DEF b
<1>5. Stay(b, c) /\ Same(b, c, "C") /\ Done(b, c, "C")
  <2>1. b \in MfpType /\ Drained(b)
    BY <1>4
  <2> HIDE DEF Stay, Same, Done
  <2> QED BY <1>1, <1>2, <2>1
<1> HIDE DEF c
<1>6. Stay(c, x) /\ Same(c, x, "D") /\ Done(c, x, "D")
  <2>1. c \in MfpType /\ Drained(c)
    BY <1>5
  <2> HIDE DEF Stay, Same, Done
  <2> QED BY <1>1, <1>2, <2>1
<1> HIDE DEF x
<1>7. /\ a.data = m.data /\ b.data = m.data /\ c.data = m.data
      /\ Running(a) = Running(m) /\ Running(b) = Running(m) /\ Running(c) = Running(m)
  BY <1>3, <1>4, <1>5 DEF Kept
<1>8. x \in MfpType /\ Kept(m, x) /\ x.vdisp = m.vdisp
  BY <1>3, <1>4, <1>5, <1>6, KeptBoth
<1>9. /\ Ends(a, "B") = Ends(m, "B") /\ Ends(b, "C") = Ends(m, "C") /\ Ends(c, "D") = Ends(m, "D")
      /\ ("B" \in Filled(a)) = ("B" \in Filled(m)) /\ ("C" \in Filled(b)) = ("C" \in Filled(m))
      /\ ("D" \in Filled(c)) = ("D" \in Filled(m))
  BY <1>1, <1>3, <1>4, <1>5
<1>10. \A t \in Timer : Ends(m, t) \subseteq x.ipr
  BY <1>1, <1>3, <1>4, <1>5, <1>6, <1>9
<1>11. \A t \in Timer : x.prescaleCounter[t] = New(m, t) /\ x.timerValue[t] = Val(m, t)
  <2>1. x.prescaleCounter["A"] = New(m, "A") /\ x.timerValue["A"] = Val(m, "A")
    <3> HIDE DEF New, Val
    <3> QED BY <1>1, <1>3, <1>4, <1>5, <1>6
  <2>2. x.prescaleCounter["B"] = New(m, "B") /\ x.timerValue["B"] = Val(m, "B")
    <3>1. New(a, "B") = New(m, "B") /\ Val(a, "B") = Val(m, "B")
      BY <1>1, <1>3, <1>7, <1>9
    <3> HIDE DEF New, Val
    <3> QED BY <1>1, <1>4, <1>5, <1>6, <3>1
  <2>3. x.prescaleCounter["C"] = New(m, "C") /\ x.timerValue["C"] = Val(m, "C")
    <3>1. New(b, "C") = New(m, "C") /\ Val(b, "C") = Val(m, "C")
      BY <1>1, <1>3, <1>4, <1>7, <1>9
    <3> HIDE DEF New, Val
    <3> QED BY <1>1, <1>5, <1>6, <3>1
  <2>4. x.prescaleCounter["D"] = New(m, "D") /\ x.timerValue["D"] = Val(m, "D")
    <3>1. New(c, "D") = New(m, "D") /\ Val(c, "D") = Val(m, "D")
      BY <1>1, <1>3, <1>4, <1>5, <1>7, <1>9
    <3> HIDE DEF New, Val
    <3> QED BY <1>1, <1>6, <3>1
  <2> QED BY <1>1, <2>1, <2>2, <2>3, <2>4
<1>12. AllLive(m, 1) = x
  BY DEF AllLive, a, b, c, x
<1> QED BY <1>8, <1>10, <1>11, <1>12

\* Nothing happens within i steps of two cycles.
Far(d, i) ==
    2 * i < CyclesUntilVBlankEdge(d.crtc) /\ 2 * i < CyclesUntilCarry(d.rtc) /\ Quiet(d.mfp, i)

\* x is d after i steps in which nothing happened.
Still(d, x, i) ==
    /\ InTime(x) /\ Drained(x.mfp)
    /\ x.mfp.ipr = d.mfp.ipr /\ x.mfp.vdisp = d.mfp.vdisp
    /\ x.mfp.ier = d.mfp.ier /\ x.mfp.control = d.mfp.control
    /\ x.crtc.inVBlank = d.crtc.inVBlank
    /\ CyclesUntilVBlankEdge(x.crtc) = CyclesUntilVBlankEdge(d.crtc) - 2 * i
    /\ x.rtc = Phased(d.rtc, d.rtc.accumulator + 2 * i)
    /\ \A t \in Running(d.mfp) : TimerRaises(d.mfp, t) => NeedMfp(x.mfp, t) = NeedMfp(d.mfp, t) - i

\* Before a second is full only its phase moves.
LEMMA PhaseMoves ==
    ASSUME NEW r \in RtcType, NEW n \in Nat, n < CyclesUntilCarry(r)
    PROVE  RtcTick(r, n) = Phased(r, r.accumulator + n)
<1> DEFINE total == r.accumulator + n
           P == CyclesPerSecond
<1>1. total \in Nat /\ total < P /\ P \in Nat /\ P # 0
  BY ClockFields, RtcAssumption DEF CyclesUntilCarry
<1> HIDE DEF total, P
<1>2. total % P = total
  BY <1>1
<1>3. total \div P = 0
  <2>1. 0 * P <= total /\ total < 0 * P + P
    BY <1>1
  <2> QED BY <1>1, <2>1, DivOnly
<1>4. Nth(RtcType, Second, r, 0) = r
  BY SecondIsStep, NthUnfolds
<1>5. RtcTick(r, n) = Phased(Nth(RtcType, Second, r, total \div P), total % P)
  BY RtcTickIs DEF total, P
<1> QED BY <1>2, <1>3, <1>4, <1>5 DEF total

\* One step of two cycles.
LEMMA StillOnce ==
    ASSUME NEW d, InTime(d), Drained(d.mfp), Far(d, 1)
    PROVE  Still(d, TickDevices(d, 2), 1)
<1> DEFINE k == 2
           j == 1
           m == MfpTick(TRUE, d.mfp, k)
           c == CrtcTick(d.crtc, k)
           x == TickDevices(d, k)
<1>1. d.mfp \in MfpType /\ d.crtc \in CrtcType /\ d.rtc \in RtcType /\ InStep(d.crtc)
  BY DEF InTime, DeviceType
<1>2. k < CyclesUntilVBlankEdge(d.crtc) /\ k < CyclesUntilCarry(d.rtc) /\ Quiet(d.mfp, j)
  BY DEF Far
<1>3. k \in Nat /\ j \in Nat /\ j = k \div 2
  OBVIOUS
<1> HIDE DEF k, j
<1>4. c.inVBlank = d.crtc.inVBlank /\ CyclesUntilVBlankEdge(c) = CyclesUntilVBlankEdge(d.crtc) - k
  BY <1>1, <1>2, <1>3, CrtcTickFacts
<1>5. /\ m \in MfpType /\ m.control = d.mfp.control /\ m.ier = d.mfp.ier /\ m.vdisp = d.mfp.vdisp
      /\ Drained(m) /\ AfterQuiet(d.mfp, m, j)
  BY <1>1, <1>2, <1>3, MfpTickFacts
<1>6. RtcTick(d.rtc, k) = Phased(d.rtc, d.rtc.accumulator + k)
  BY <1>1, <1>2, <1>3, PhaseMoves
<1>7. x.mfp = m /\ x.crtc = c /\ x.rtc = RtcTick(d.rtc, k)
  <2>1. /\ x.mfp = (IF c.inVBlank # d.crtc.inVBlank THEN SetVerticalBlank(AllLive(d.mfp, k \div 2), c.inVBlank)
                    ELSE AllLive(d.mfp, k \div 2))
        /\ x.crtc = c /\ x.rtc = RtcTick(d.rtc, k)
    BY <1>3, TickDevicesExact DEF TickDevices
  <2>2. m = AllLive(d.mfp, j)
    BY <1>1, <1>3, MfpTickLives
  <2> QED BY <1>3, <1>4, <2>1, <2>2
<1>8. InTime(x)
  BY <1>3, TickDevicesFacts
<1> HIDE DEF m, c, x
<1>9. k = 2 * j /\ j = 1
  BY DEF k, j
<1>10. Still(d, x, j)
  BY <1>4, <1>5, <1>6, <1>7, <1>8, <1>9 DEF Still, AfterQuiet
<1> QED BY <1>10 DEF x, j, k

\* Step after step.
LEMMA StillOn ==
    ASSUME NEW d, InTime(d), Drained(d.mfp), NEW i \in Nat, NEW x, Still(d, x, i), Far(d, i + 1)
    PROVE  Still(d, TickDevices(x, 2), i + 1)
<1> DEFINE y == TickDevices(x, 2)
<1>1. d.mfp \in MfpType /\ d.crtc \in CrtcType /\ d.rtc \in RtcType
      /\ x.mfp \in MfpType /\ x.rtc \in RtcType
  BY DEF Still, InTime, DeviceType
<1>2. CyclesUntilVBlankEdge(d.crtc) \in Nat
  <2>1. CyclesUntilVBlankEdge(d.crtc) \in 1 .. FrameCycles
    BY <1>1, CrtcTickFacts
  <2> QED BY <2>1, CrtcAssumption
<1>3. d.rtc.accumulator \in Nat /\ CyclesPerSecond \in Nat
  BY <1>1, ClockFields, RtcAssumption
<1>4. x.rtc.accumulator = d.rtc.accumulator + 2 * i
  BY <1>1 DEF Still, Phased, RtcType
<1>5. Running(x.mfp) = Running(d.mfp) /\ \A t \in Timer : TimerRaises(x.mfp, t) = TimerRaises(d.mfp, t)
  BY DEF Still, Running, Prescale, TimerRaises
<1>6. \A t \in Running(d.mfp) : t \in Timer /\ NeedMfp(d.mfp, t) \in Int
  BY <1>1, NeedIsInt DEF Running
<1>7. Quiet(x.mfp, 1)
  BY <1>5, <1>6 DEF Quiet, Still, Far
<1>8. 2 < CyclesUntilVBlankEdge(x.crtc)
  BY <1>2 DEF Still, Far
<1>9. 2 < CyclesUntilCarry(x.rtc)
  BY <1>3, <1>4 DEF CyclesUntilCarry, Far
<1>10. Still(x, y, 1)
  <2>1. Far(x, 1)
    BY <1>7, <1>8, <1>9 DEF Far
  <2> QED BY <2>1, StillOnce DEF Still
<1> HIDE DEF y
<1>11. CyclesUntilVBlankEdge(y.crtc) = CyclesUntilVBlankEdge(d.crtc) - 2 * (i + 1)
  BY <1>2, <1>10 DEF Still
<1>12. y.rtc = Phased(d.rtc, d.rtc.accumulator + 2 * (i + 1))
  <2>1. y.rtc = Phased(Phased(d.rtc, d.rtc.accumulator + 2 * i), (d.rtc.accumulator + 2 * i) + 2)
    BY <1>4, <1>10 DEF Still
  <2>2. (d.rtc.accumulator + 2 * i) + 2 = d.rtc.accumulator + 2 * (i + 1)
    BY <1>3
  <2>3. \A k, l : Phased(Phased(d.rtc, k), l) = Phased(d.rtc, l)
    BY <1>1 DEF Phased, RtcType
  <2> QED BY <2>1, <2>2, <2>3
<1>13. \A t \in Running(d.mfp) : TimerRaises(d.mfp, t) => NeedMfp(y.mfp, t) = NeedMfp(d.mfp, t) - (i + 1)
  BY <1>5, <1>6, <1>10 DEF Still
<1> QED BY <1>10, <1>11, <1>12, <1>13 DEF Still, y

\* Devices in time, and a step of two cycles of them.
DevicesInTime == {d \in DeviceType : InTime(d)}
TwoOn == [d \in DevicesInTime |-> TickDevices(d, 2)]

\* They stay in time.
LEMMA TwoIsStep == TwoOn \in [DevicesInTime -> DevicesInTime]
<1>1. ASSUME NEW d \in DevicesInTime PROVE TickDevices(d, 2) \in DevicesInTime
  <2>1. InTime(TickDevices(d, 2))
    BY TickDevicesFacts DEF DevicesInTime
  <2> QED BY <2>1 DEF InTime, DevicesInTime
<1> QED BY <1>1 DEF TwoOn

\* What two cycles do to the devices: the timers' one MFP cycle, the beam, the clock.
LEMMA TwoCycles ==
    ASSUME NEW d, InTime(d), Drained(d.mfp)
    PROVE  LET x == TickDevices(d, 2)
               m == d.mfp
           IN  /\ InTime(x) /\ Drained(x.mfp) /\ Kept(m, x.mfp)
               /\ \A t \in Timer :
                     /\ x.mfp.prescaleCounter[t] = IF t \notin Running(m) THEN m.prescaleCounter[t]
                                                   ELSE IF t \in Filled(m) THEN 0 ELSE m.prescaleCounter[t] + 1
                     /\ x.mfp.timerValue[t] = IF t \in Filled(m) THEN Stepped(m.timerValue[t], m.data[t])
                                              ELSE m.timerValue[t]
                     /\ Ends(m, t) \subseteq x.mfp.ipr
               /\ x.crtc = CrtcTick(d.crtc, 2) /\ x.rtc = RtcTick(d.rtc, 2)
<1> DEFINE k == 2
           m == d.mfp
           l == AllLive(m, 1)
           c == CrtcTick(d.crtc, k)
           x == TickDevices(d, k)
           Pre(t) == IF t \notin Running(m) THEN m.prescaleCounter[t]
                     ELSE IF t \in Filled(m) THEN 0 ELSE m.prescaleCounter[t] + 1
           Val(t) == IF t \in Filled(m) THEN Stepped(m.timerValue[t], m.data[t]) ELSE m.timerValue[t]
<1>1. m \in MfpType /\ d.crtc \in CrtcType /\ d.rtc \in RtcType
  BY DEF InTime, DeviceType
<1>2. k \in Nat /\ k \div 2 = 1 /\ k = 2
  OBVIOUS
<1> HIDE DEF k
<1>3. /\ l \in MfpType /\ Kept(m, l)
      /\ \A t \in Timer : l.prescaleCounter[t] = Pre(t) /\ l.timerValue[t] = Val(t) /\ Ends(m, t) \subseteq l.ipr
  BY <1>1, AllOnce
<1>4. InTime(x) /\ Drained(x.mfp)
  BY <1>2, TickDevicesFacts
<1>5. c \in CrtcType
  BY <1>1, <1>2, CrtcTickFacts
<1>6. /\ x.mfp = (IF c.inVBlank # d.crtc.inVBlank THEN SetVerticalBlank(l, c.inVBlank) ELSE l)
      /\ x.crtc = c /\ x.rtc = RtcTick(d.rtc, k)
  BY <1>2, TickDevicesExact DEF TickDevices
<1> HIDE DEF m, l, c, x
<1>7. /\ Kept(l, x.mfp) /\ x.mfp.prescaleCounter = l.prescaleCounter
      /\ x.mfp.timerValue = l.timerValue /\ l.ipr \subseteq x.mfp.ipr
  <2>1. l \in Counting /\ c.inVBlank \in BOOLEAN
    BY <1>3, <1>5, MfpIsCounting DEF CrtcType
  <2>2. CASE c.inVBlank # d.crtc.inVBlank
    BY <1>6, <2>1, <2>2, BlankExact
  <2>3. CASE c.inVBlank = d.crtc.inVBlank
    BY <1>6, <2>3 DEF Kept
  <2> QED BY <2>2, <2>3
<1>8. Kept(m, x.mfp)
  BY <1>3, <1>7, KeptBoth
<1>9. \A t \in Timer : x.mfp.prescaleCounter[t] = Pre(t) /\ x.mfp.timerValue[t] = Val(t)
                       /\ Ends(m, t) \subseteq x.mfp.ipr
  <2> HIDE DEF Pre, Val
  <2> QED BY <1>3, <1>7
<1> QED BY <1>2, <1>4, <1>6, <1>8, <1>9 DEF m, c, x

\* A drained timer that is one MFP cycle from raising ends with it.
LEMMA LastCycle ==
    ASSUME NEW m \in MfpType, Drained(m), NEW t \in Running(m)
    PROVE  /\ NeedMfp(m, t) \in Nat /\ NeedMfp(m, t) >= 1
           /\ NeedMfp(m, t) <= 1 => t \in Filled(m) /\ m.timerValue[t] = 1
<1> DEFINE p == Prescale(m, t)
           c == m.prescaleCounter[t]
           n == Decrements(m, t)
<1>1. t \in Timer /\ m \in Counting /\ c \in Nat /\ m.timerValue[t] \in 0 .. TimerModulus - 1
  BY MfpIsCounting DEF Running, MfpType
<1>2. p \in Nat /\ c < p /\ NeedMfp(m, t) = n * p - c
  BY <1>1, PrescaleIsNat DEF Drained, NeedMfp
<1>3. n \in Nat /\ n >= 1 /\ (n = 1 => m.timerValue[t] = 1)
  BY <1>1, MfpAssumption DEF Decrements
<1> HIDE DEF p, c, n
<1>4. n * p \in Nat /\ n * p >= p /\ (n # 1 => n * p >= p + p)
  <2> DEFINE l == n - 1
  <2>1. l \in Nat /\ n = l + 1 /\ (n # 1 => l >= 1)
    BY <1>3
  <2>2. l * p \in Nat /\ (l + 1) * p = l * p + p /\ (l >= 1 => l * p >= p)
    <3> HIDE DEF l
    <3> QED BY <1>2, <2>1
  <2> HIDE DEF l
  <2>3. n * p = l * p + p
    BY <2>1, <2>2
  <2>4. n # 1 => l * p >= p
    BY <2>1, <2>2
  <2> QED BY <1>2, <2>2, <2>3, <2>4
<1>5. n * p - c <= 1 => n = 1 /\ c + 1 = p
  BY <1>1, <1>2, <1>3, <1>4
<1> QED BY <1>1, <1>2, <1>3, <1>4, <1>5 DEF Filled, p, c

\* The MFP cycles a prescaler lacks.
Lacks(m, t) == Prescale(m, t) - m.prescaleCounter[t]

\* x is d after i steps in which every running timer only collected.
Collected(d, x, i) ==
    /\ InTime(x) /\ Drained(x.mfp) /\ Kept(d.mfp, x.mfp)
    /\ \A t \in Timer : x.mfp.timerValue[t] = d.mfp.timerValue[t]
    /\ \A t \in Running(d.mfp) : Lacks(x.mfp, t) = Lacks(d.mfp, t) - i
\* Step after step, until the first of them is full.
LEMMA CollectsOn ==
    ASSUME NEW d, NEW x, NEW i \in Nat, InTime(d), Collected(d, x, i),
           \A t \in Running(d.mfp) : Lacks(d.mfp, t) \in Nat /\ i + 1 < Lacks(d.mfp, t)
    PROVE  Collected(d, TickDevices(x, 2), i + 1)
<1> DEFINE y == TickDevices(x, 2)
<1>1. /\ InTime(y) /\ Drained(y.mfp) /\ Kept(x.mfp, y.mfp)
      /\ \A t \in Timer :
            /\ y.mfp.prescaleCounter[t] = IF t \notin Running(x.mfp) THEN x.mfp.prescaleCounter[t]
                                          ELSE IF t \in Filled(x.mfp) THEN 0 ELSE x.mfp.prescaleCounter[t] + 1
            /\ y.mfp.timerValue[t] = IF t \in Filled(x.mfp) THEN Stepped(x.mfp.timerValue[t], x.mfp.data[t])
                                     ELSE x.mfp.timerValue[t]
  BY TwoCycles DEF Collected
<1> HIDE DEF y
<1>2. /\ Running(x.mfp) = Running(d.mfp)
      /\ \A t \in Timer : Prescale(y.mfp, t) = Prescale(x.mfp, t)
  BY <1>1, KeptPrescale DEF Collected
<1>3. x.mfp \in MfpType
  BY DEF Collected, InTime, DeviceType
<1>4. \A t \in Timer : x.mfp.prescaleCounter[t] \in Nat /\ Prescale(x.mfp, t) \in Nat
  BY <1>3, MfpIsCounting, PrescaleIsNat DEF MfpType
<1>5. ASSUME NEW t \in Running(d.mfp) PROVE t \in Timer /\ t \notin Filled(x.mfp)
  <2>1. t \in Timer /\ Lacks(x.mfp, t) = Lacks(d.mfp, t) - i
    BY DEF Running, Collected
  <2> QED BY <1>4, <2>1 DEF Filled, Lacks
<1>6. Filled(x.mfp) = {}
  BY <1>2, <1>5 DEF Filled
<1>7. Kept(d.mfp, y.mfp)
  BY <1>1, KeptBoth DEF Collected
<1>8. \A t \in Timer : y.mfp.timerValue[t] = d.mfp.timerValue[t]
  BY <1>1, <1>6 DEF Collected
<1>9. ASSUME NEW t \in Running(d.mfp) PROVE Lacks(y.mfp, t) = Lacks(d.mfp, t) - (i + 1)
  <2>1. t \in Timer /\ t \in Running(x.mfp) /\ Lacks(x.mfp, t) = Lacks(d.mfp, t) - i
    BY <1>2 DEF Running, Collected
  <2>2. y.mfp.prescaleCounter[t] = x.mfp.prescaleCounter[t] + 1
    BY <1>1, <1>6, <2>1
  <2> QED BY <1>2, <1>4, <2>1, <2>2 DEF Lacks
<1> QED BY <1>1, <1>7, <1>8, <1>9 DEF Collected, y

================================================================================
