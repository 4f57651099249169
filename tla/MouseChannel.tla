----------------------------- MODULE MouseChannel ------------------------------
(******************************************************************************)
(* The way of the mouse from the finger to the guest: the display core adds to   *)
(* MouseQueue (platform/key_queue.{h,cpp}); between two slices the emulation     *)
(* core takes what has gathered and offers it to the SCC (Machine::moveMouse),   *)
(* and gives back what is refused; the SCC interrupts once per byte, and the     *)
(* guest's handler, in the IPL-ROM, reads one byte each time and copies a report  *)
(* when it has three.  The ROM is external: what is modelled of it is what       *)
(* scc.{h,cpp} say of $FF150A, $FF1452 and $FF1486.                              *)
(******************************************************************************)
EXTENDS Scc, SequencesExt

CONSTANTS
    Routines        \* what the guest writes to the control port, in one go

ASSUME MouseAssumption == Routines \subseteq Seq(Byte)

VARIABLES
    pending, buttons,   \* pendingDx_, pendingDy_; leftButton_, rightButton_
    sent,               \* sentLeftButton_, sentRightButton_
    core, carried,      \* where drain() is, and its locals <<move, buttons>>
    scc,
    handler,            \* where the guest's interrupt handler is
    partial,            \* the bytes it has read of a report
    guestButtons,       \* the guest's copy, $0CB1
    cursor,             \* how far it has moved
    total               \* how far the host has reported

queueVars == <<pending, buttons, sent, core, carried>>
guestVars == <<handler, partial, guestButtons, cursor>>
mouseVars == <<queueVars, scc, guestVars, total>>

Zero == <<0, 0>>
Plus(a, b) == <<a[1] + b[1], a[2] + b[2]>>
Nothing == <<Zero, 0>>

MouseType ==
    /\ pending \in Int \X Int /\ buttons \in 0 .. 3 /\ sent \in 0 .. 3
    /\ core \in {"run", "offer", "refused"} /\ carried \in (Int \X Int) \X (0 .. 3)
    /\ scc \in SccType /\ \A l \in Line : Len(scc.fifo[l]) <= RxFifoSize
    /\ handler \in {"none", "read", "eoi"} /\ Len(partial) < 3
    /\ guestButtons \in Int /\ cursor \in Int \X Int
    /\ total \in Int \X Int

\* After the ROM's initialisation: the vector $50 (channel A's table), then WR3,
\* WR1 = $10 and WR9 = $09 (channel B's), and RTS from the routine that enables.
Written == <<2, 80, 3, 193, 1, 16, 9, 9, 5, 98>>
PlayRoutine(s, bytes) == FoldLeft(LAMBDA t, byte : WriteControl(t, "B", byte), s, bytes)

MouseInit ==
    /\ pending = Zero /\ buttons = 0 /\ sent = 0 /\ core = "run" /\ carried = Nothing
    /\ scc = PlayRoutine(ResetScc, Written)
    /\ handler = "none" /\ partial = <<>> /\ guestButtons = 0 /\ cursor = Zero
    /\ total = Zero

--------------------------------------------------------------------------------
\* MouseQueue::push - on the display core, at any moment the mutex is free.
PushMouse(move, b) ==
    /\ pending' = Plus(pending, move) /\ buttons' = b
    /\ total' = Plus(total, move)
    /\ UNCHANGED <<sent, core, carried, scc, guestVars>>

\* MouseQueue::drain, its first critical section: there is motion, or a button
\* differs from what the SCC accepted last.
DrainTake ==
    /\ core = "run"
    /\ pending # Zero \/ buttons # sent
    /\ carried' = <<pending, buttons>> /\ pending' = Zero
    /\ core' = "offer"
    /\ UNCHANGED <<buttons, sent, scc, guestVars, total>>

\* Machine::moveMouse, accepted: only now is the button state on record as sent.
Accept ==
    /\ core = "offer" /\ AcceptsReport(scc)
    /\ scc' = MoveMouse(scc, carried[1], carried[2])
    /\ sent' = carried[2]
    /\ carried' = Nothing /\ core' = "run"
    /\ UNCHANGED <<pending, buttons, guestVars, total>>

Refuse ==
    /\ core = "offer" /\ ~AcceptsReport(scc)
    /\ core' = "refused"
    /\ UNCHANGED <<pending, buttons, sent, carried, scc, guestVars, total>>

\* Mutant: what has come in the meantime is overwritten.
DrainReturnOverwrites ==
    /\ core = "refused"
    /\ pending' = carried[1]
    /\ carried' = Nothing /\ core' = "run"
    /\ UNCHANGED <<buttons, sent, scc, guestVars, total>>

\* MouseQueue::drain, its second critical section: what was refused is added to
\* what has come in the meantime.
DrainReturn ==
    /\ core = "refused"
    /\ pending' = Plus(pending, carried[1])
    /\ carried' = Nothing /\ core' = "run"
    /\ UNCHANGED <<buttons, sent, scc, guestVars, total>>

--------------------------------------------------------------------------------
\* Machine::serviceSccInterrupt, when the guest does not mask level 5.  The vector
\* is WR2 + 4; the ROM's mouse handler is the one of $54.
ServiceScc ==
    /\ core = "run" /\ handler = "none" /\ SccHasPending(scc)
    /\ scc' = AcknowledgeScc(scc)
    /\ handler' = IF scc.sharedWr[2] = 80 THEN "read" ELSE "none"
    /\ UNCHANGED <<queueVars, partial, guestButtons, cursor, total>>

\* The handler reads the data port (Machine::sccRead): the third byte completes a
\* report, which moves the cursor.  An empty FIFO reads as 0.
HandlerRead ==
    /\ core = "run" /\ handler = "read"
    /\ LET fifo == scc.fifo["B"]
           read == Append(partial, IF fifo = <<>> THEN <<"buttons", 0>> ELSE fifo[1])
       IN  /\ scc' = IF fifo = <<>> THEN scc ELSE ReadData(scc, "B")
           /\ \/ Len(read) < 3 /\ partial' = read /\ UNCHANGED <<guestButtons, cursor>>
              \/ /\ Len(read) = 3 /\ partial' = <<>>
                 /\ guestButtons' = read[1][2]
                 /\ cursor' = Plus(cursor, <<read[2][2], read[3][2]>>)
    /\ handler' = "eoi"
    /\ UNCHANGED <<queueVars, total>>

\* It ends by writing $38 to the control port (Machine::sccWrite).
HandlerEnd ==
    /\ core = "run" /\ handler = "eoi"
    /\ scc' = WriteControl(scc, "B", 56)
    /\ handler' = "none"
    /\ UNCHANGED <<queueVars, partial, guestButtons, cursor, total>>

\* The guest sets a register, with interrupts masked, or reads RR0.
SetRegister(bytes) ==
    /\ core = "run" /\ handler = "none"
    /\ scc' = PlayRoutine(scc, bytes)
    /\ UNCHANGED <<queueVars, guestVars, total>>

ReadStatus ==
    /\ core = "run" /\ handler = "none"
    /\ scc' = ReadControl(scc, "B")
    /\ UNCHANGED <<queueVars, guestVars, total>>

MouseStep ==
    \/ DrainTake \/ Accept \/ Refuse \/ DrainReturn
    \/ ServiceScc \/ HandlerRead \/ HandlerEnd
    \/ \E bytes \in Routines : SetRegister(bytes)
    \/ ReadStatus

--------------------------------------------------------------------------------
\* What the handler has read and what waits in the FIFO are, end to end, whole
\* reports: the guest, which only counts to three, never takes a button byte for a
\* displacement ("the byte boundary shifts for good", moveMouse).  And no distance is
\* lost, none invented: what the host reported is still in the queue, in drain()'s
\* hands, in the FIFO, or has moved the cursor.
InFlight == partial \o scc.fifo["B"]
WholeReports ==
    /\ Len(InFlight) % 3 = 0
    /\ \A i \in DOMAIN InFlight : InFlight[i][1] = <<"buttons", "dx", "dy">>[((i - 1) % 3) + 1]
Distance(bytes, k) ==
    FoldLeft(LAMBDA sum, byte : IF byte[1] = <<"dx", "dy">>[k] THEN sum + byte[2] ELSE sum, 0, bytes)
MotionConserved ==
    /\ WholeReports
    /\ \A k \in 1 .. 2 : total[k] = pending[k] + carried[1][k] + Distance(InFlight, k) + cursor[k]

\* While the guest wants interrupts, a byte in the FIFO has one, requested or in
\* progress: otherwise nobody reads it, and with fewer than three free places no
\* report is accepted any more ("as long as one byte is left the interrupt stays
\* raised", refreshRxInterrupt).
ByteHasInterrupt ==
    scc.fifo["B"] # <<>> /\ WantsRxInterrupt(scc, "B") => scc.pending["B"] \/ handler # "none"

================================================================================
