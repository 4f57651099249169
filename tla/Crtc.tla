--------------------------------- MODULE Crtc ----------------------------------
(******************************************************************************)
(* The frame position of the CRT controller, class x68k::Crtc                   *)
(* (core/dev/video.{h,cpp}), as operators on a record c.  Each frame is a       *)
(* display period followed by the vertical blank.                               *)
(******************************************************************************)
EXTENDS Integers

CONSTANTS
    FrameCycles,    \* kCyclesPerFrame
    VBlankCycles    \* kVBlankCycles

ASSUME CrtcAssumption ==
    /\ FrameCycles \in Nat /\ VBlankCycles \in Nat \ {0}
    /\ VBlankCycles < FrameCycles

CrtcType == [frameCycles : 0 .. FrameCycles - 1, inVBlank : BOOLEAN]

\* Crtc::reset
ResetCrtc == [frameCycles |-> 0, inVBlank |-> FALSE]

VBlankBegin == FrameCycles - VBlankCycles

\* Crtc::tickFast and tickSlow: one wrap for a step shorter than a frame, the
\* remainder for a longer one.  The caller compares inVBlank with its old value:
\* that is the boolean the code returns, and it says nothing of the edges a step
\* of a whole frame or more went past.
CrtcTick(c, cycles) ==
    LET moved == c.frameCycles + (cycles % FrameCycles)
        at == IF moved >= FrameCycles THEN moved - FrameCycles ELSE moved
    IN  [frameCycles |-> at, inVBlank |-> at >= VBlankBegin]

\* Crtc::cyclesUntilVBlankEdge
CyclesUntilVBlankEdge(c) ==
    IF ~c.inVBlank /\ c.frameCycles < VBlankBegin
      THEN VBlankBegin - c.frameCycles
      ELSE FrameCycles - c.frameCycles

================================================================================
