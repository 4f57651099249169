---------------------------------- MODULE Scc ----------------------------------
(******************************************************************************)
(* The Z8530 serial controller, class x68k::Scc (core/dev/scc.{h,cpp}), as       *)
(* operators on a record s.  Channel B is the mouse, channel A the RS-232C.      *)
(*                                                                               *)
(* A control byte is a number, because one byte both selects a register and      *)
(* gives a command.  A byte of a mouse report is the pair <<kind, value>> with    *)
(* kind "buttons", "dx" or "dy": the guest sees the value only, and has to know   *)
(* the kind from how many it has read.                                           *)
(******************************************************************************)
EXTENDS Integers, Sequences

CONSTANTS
    RxFifoSize,     \* kRxFifoSize
    DeltaMin,       \* kMouseDeltaMin
    DeltaMax        \* kMouseDeltaMax

ASSUME SccAssumption ==
    /\ RxFifoSize \in Nat
    /\ DeltaMin \in Int /\ DeltaMax \in Int /\ DeltaMin < 0 /\ 0 < DeltaMax

Line == {"A", "B"}
Register == 0 .. 15
Byte == 0 .. 255
Shared == {2, 9}    \* isSharedReg: one WR2 and one WR9 for both channels

Bit(byte, n) == (byte \div 2 ^ n) % 2 = 1

SccType ==
    [wr : [Line -> [Register -> Byte]], sharedWr : [Shared -> Byte],
     pointer : [Line -> Register],
     fifo : [Line -> Seq({"buttons", "dx", "dy"} \X (DeltaMin .. DeltaMax))],
     pending : [Line -> BOOLEAN]]           \* rxInterruptPending

\* Scc::reset
ResetScc ==
    [wr |-> [l \in Line |-> [r \in Register |-> 0]], sharedWr |-> [r \in Shared |-> 0],
     pointer |-> [l \in Line |-> 0], fifo |-> [l \in Line |-> <<>>],
     pending |-> [l \in Line |-> FALSE]]

\* Scc::isMouseEnabled - WR3 bit 0 receives, WR5 bit 1 is RTS.
MouseEnabled(s) == Bit(s.wr["B"][3], 0) /\ Bit(s.wr["B"][5], 1)

\* Scc::wantsRxInterrupt - a mode in WR1 bits 4-3, and the master enable in WR9.
WantsRxInterrupt(s, l) == (s.wr[l][1] \div 8) % 4 # 0 /\ Bit(s.sharedWr[9], 3)

\* Scc::refreshRxInterrupt - the level: as long as a byte is left.
RefreshRxInterrupt(s, l) ==
    [s EXCEPT !.pending[l] = s.fifo[l] # <<>> /\ WantsRxInterrupt(s, l)]

\* Scc::readControl - whatever was read, the pointer returns to 0.
ReadControl(s, l) == [s EXCEPT !.pointer[l] = 0]

\* Scc::writeControl at WR0: the next register in the low bits, bit 3 adds 8; and
\* command 111 (Reset Highest IUS) looks at the FIFO again.
WriteZero(s, l, value) ==
    LET selected == [s EXCEPT !.pointer[l] = value % 16]
        resetHighestIus == (value \div 8) % 8 = 7
    IN  IF resetHighestIus THEN RefreshRxInterrupt(selected, l) ELSE selected

\* Scc::writeControl elsewhere: stored, and then WR9 without MIE withdraws both
\* interrupts, WR3 without Rx Enable empties the FIFO, WR1 looks at it again.
WriteRegister(s, l, reg, value) ==
    LET stored == IF reg \in Shared
                    THEN [s EXCEPT !.sharedWr[reg] = value, !.pointer[l] = 0]
                    ELSE [s EXCEPT !.wr[l][reg] = value, !.pointer[l] = 0]
    IN  CASE reg = 9 /\ ~Bit(value, 3) -> [stored EXCEPT !.pending = [m \in Line |-> FALSE]]
          [] reg = 3 /\ ~Bit(value, 0) -> [stored EXCEPT !.fifo[l] = <<>>, !.pending[l] = FALSE]
          [] reg = 1 -> RefreshRxInterrupt(stored, l)
          [] OTHER -> stored

\* Scc::writeControl
WriteControl(s, l, value) ==
    IF s.pointer[l] = 0 THEN WriteZero(s, l, value)
    ELSE WriteRegister(s, l, s.pointer[l], value)

\* Mutant: the interrupt is not raised again for the rest.
ReadDataOnly(s, l) == [s EXCEPT !.fifo[l] = Tail(@)]

\* Scc::readData, of a FIFO that is not empty: its head is taken out.
ReadData(s, l) == RefreshRxInterrupt([s EXCEPT !.fifo[l] = Tail(@)], l)

\* saturateDelta
SaturateDelta(d) == IF d < DeltaMin THEN DeltaMin ELSE IF d > DeltaMax THEN DeltaMax ELSE d

\* Scc::moveMouse - a whole report or nothing.
AcceptsReport(s) == MouseEnabled(s) /\ RxFifoSize - Len(s.fifo["B"]) >= 3

Report(move, buttons) ==
    << <<"buttons", buttons>>, <<"dx", SaturateDelta(move[1])>>, <<"dy", SaturateDelta(move[2])>> >>

MoveMouse(s, move, buttons) ==
    RefreshRxInterrupt([s EXCEPT !.fifo["B"] = @ \o Report(move, buttons)], "B")

\* Scc::hasPendingInterrupt, Scc::acknowledgeInterrupt - channel B comes first.
SccHasPending(s) == \E l \in Line : s.pending[l]
AcknowledgeScc(s) ==
    LET l == IF s.pending["B"] THEN "B" ELSE "A"
    IN  [s EXCEPT !.pending[l] = FALSE]

================================================================================
