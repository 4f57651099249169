-------------------------------- MODULE Devices --------------------------------
(******************************************************************************)
(* The devices that Machine::tickDevices moves in time, together: the MFP, the  *)
(* CRT controller and the real-time clock, with the two devices that interrupt  *)
(* without keeping time.  How they are ticked, settled in one go, and asked for  *)
(* their next event (core/machine.cpp).                                          *)
(******************************************************************************)
EXTENDS Mfp, Crtc, Rtc

CONSTANT MaxSettleChunk     \* kMaxSettleChunk

ASSUME DevicesAssumption ==
    /\ MaxSettleChunk \in Nat \ {0} /\ MaxSettleChunk % 2 = 0
    /\ MaxSettleChunk < FrameCycles     \* else an edge of the blank can be skipped

\* Of the SCC, whether it has an interrupt pending.  The I/O controller sees one
\* source, the FDC, as a level; enable is its mask bit.
DeviceType ==
    [mfp : MfpType, crtc : CrtcType, rtc : RtcType,
     scc : BOOLEAN, iosc : [enable : BOOLEAN, line : BOOLEAN]]

\* Machine::tickDevices.  Its template switches choose how the MFP timers are
\* counted (fastPath); the switches of the RTC and the CRTC only move their rare
\* paths in or out of line.
TickDevicesBy(fastPath, d, cycles) ==
    LET crtc == CrtcTick(d.crtc, cycles)
        mfp == MfpTick(fastPath, d.mfp, cycles)
    IN  [d EXCEPT
            !.mfp = IF crtc.inVBlank # d.crtc.inVBlank
                      THEN SetVerticalBlank(mfp, crtc.inVBlank) ELSE mfp,
            !.rtc = RtcTick(d.rtc, cycles),
            !.crtc = crtc]
TickDevices(d, cycles) == TickDevicesBy(TRUE, d, cycles)

\* The loop of Machine::settle: at most MaxSettleChunk cycles at a time.
Settle(d, cycles) ==
    LET whole == cycles \div MaxSettleChunk
        rest == cycles % MaxSettleChunk
        after[n \in 0 .. whole] == IF n = 0 THEN d ELSE TickDevices(after[n - 1], MaxSettleChunk)
    IN  IF rest = 0 THEN after[whole] ELSE TickDevices(after[whole], rest)

\* Machine::nextEventCycle, counted from the devices' own time.
CyclesToNextEvent(d) ==
    Min({CyclesUntilNextRaise(d.mfp), CyclesUntilVBlankEdge(d.crtc), CyclesUntilCarry(d.rtc)})
NextEventCycle(s, d) == s.now + CyclesToNextEvent(d)

IoScHasPending(d) == d.iosc.enable /\ d.iosc.line
AnyPending(d) == MfpHasPending(d.mfp) \/ d.scc \/ IoScHasPending(d)

================================================================================
