------------------------------- MODULE HostInput -------------------------------
(******************************************************************************)
(* The host's side of the input, run by the display core: each turn of its loop  *)
(* samples the panel and polls TouchKeyboard (platform/input_touch.cpp), then     *)
(* reads the serial console.  Tab on the console switches between the X68000 and  *)
(* the face (platform/app_mode.cpp, applyModeTransition); nothing reaches the     *)
(* guest while the face is shown.  The firmware hides the keyboard drawn on the   *)
(* panel, so the whole panel is the mouse, and keys come from the console.        *)
(*                                                                               *)
(* The emulation core and the guest are MouseChannel and KeyChannel.  They share  *)
(* nothing but the turn in which both queues are drained, so a behaviour uses one  *)
(* of the two ways.                                                              *)
(******************************************************************************)
EXTENDS MouseChannel

CONSTANTS
    Positions,      \* where a finger may be
    Codes, QueueLength, StepsPerEvent, GuestLatency, MaxPushes,     \* of KeyChannel
    MaxSamples      \* bound: samples in which the finger has moved, and switches

VARIABLES
    way,            \* the way in use: "panel" or "console"
    mode,           \* AppModeMachine::mode_
    finger,         \* the last sample of the panel
    drag,           \* isDragging_ with lastTouchX_, lastTouchY_
    samples,
    queue, stepsLeft, pendingRelease, udr, full, waited, pushes, accepted, heard

hostVars == <<way, mode, finger, drag, samples>>
keyVars == <<queue, stepsLeft, pendingRelease, udr, full, waited, pushes, accepted, heard>>
vars == <<mouseVars, hostVars, keyVars>>

Keys == INSTANCE KeyChannel

ASSUME HostAssumption ==
    /\ Positions \subseteq Int \X Int
    /\ Codes \subseteq 1 .. 127 /\ QueueLength \in Nat /\ StepsPerEvent \in Nat
    /\ GuestLatency \in Nat \ {0} /\ {MaxPushes, MaxSamples} \subseteq Nat

Up == <<>>      \* no finger on the panel
LeftButton == 2 \* kMouseButtonLeft

Init ==
    /\ MouseInit /\ Keys!Init
    /\ way \in {"panel", "console"} /\ mode = "x68k"
    /\ finger = Up /\ drag = Up /\ samples = 0

--------------------------------------------------------------------------------
\* TouchKeyboard::poll.  Lifting the finger releases the button, putting it down
\* presses it, and moving it moves the mouse.
Released == drag # Up /\ drag' = Up /\ PushMouse(Zero, 0)
Touched(p) == drag = Up /\ drag' = p /\ PushMouse(Zero, LeftButton)
Dragged(p) ==
    drag # Up /\ drag' = p /\ PushMouse(<<p[1] - drag[1], p[2] - drag[2]>>, LeftButton)

\* The finger is seen at p, or not at all; in face mode nobody looks.
Sample(p) ==
    /\ way = "panel"
    /\ p = finger \/ samples < MaxSamples
    /\ samples' = samples + (IF p = finger THEN 0 ELSE 1)
    /\ finger' = p
    /\ \/ mode = "face" /\ UNCHANGED <<drag, mouseVars>>
       \/ mode = "x68k" /\ p = Up /\ Released
       \/ mode = "x68k" /\ p = Up /\ drag = Up /\ UNCHANGED <<drag, mouseVars>>
       \/ mode = "x68k" /\ p # Up /\ (Touched(p) \/ Dragged(p))
    /\ UNCHANGED <<way, mode, keyVars>>

\* AppModeMachine::request(Toggle)
Toggled == IF mode = "face" THEN "x68k" ELSE "face"

\* Mutant: the drag outlives the switch.
KeepDrag == drag' = drag
\* TouchKeyboard::setX68kInputEnabled
ForgetDrag == drag' = Up

\* Mutant: only the finger is forgotten.
EnterSilently == PushMouse(Zero, buttons)
\* applyModeTransition: the way to the guest is closed, and then the button that may
\* be down in the guest is let go (shouldReleaseMouseButtons).
EnterFace == PushMouse(Zero, 0)

Switch ==
    /\ samples < MaxSamples /\ samples' = samples + 1
    /\ mode' = Toggled
    /\ ForgetDrag
    /\ \/ mode' = "face" /\ EnterFace
       \/ mode' = "x68k" /\ UNCHANGED mouseVars
    /\ UNCHANGED <<way, finger, keyVars>>

\* SerialConsole::handleChar: a character, or a scan code after ESC, in X68000 mode.
Type ==
    /\ way = "console" /\ mode = "x68k"
    /\ Keys!Type
    /\ UNCHANGED <<mouseVars, hostVars>>

\* The emulation core's turn, and the guest's reading.
Drain == way = "console" /\ Keys!Drain /\ UNCHANGED <<mouseVars, hostVars>>
Read == way = "console" /\ Keys!GuestRead /\ UNCHANGED <<mouseVars, hostVars>>
Mouse(step) == way = "panel" /\ step /\ UNCHANGED <<hostVars, keyVars>>

Next ==
    \/ \E p \in Positions \cup {Up} : Sample(p)
    \/ Switch \/ Type \/ Drain \/ Read \/ Mouse(MouseStep)

Spec == Init /\ [][Next]_vars

\* Both cores go on for ever.  The emulation core drains after each slice, and in
\* each slice the guest executes thousands of instructions; it does not keep level 5
\* masked for ever.  That it reads a key is GuestLatency.
FairSpec ==
    /\ Spec
    /\ WF_vars(Sample(finger)) /\ WF_vars(Drain) /\ WF_vars(Read)
    /\ WF_vars(Mouse(DrainTake)) /\ WF_vars(Mouse(Accept))
    /\ WF_vars(Mouse(Refuse)) /\ WF_vars(Mouse(DrainReturn))
    /\ SF_vars(Mouse(ServiceScc)) /\ SF_vars(Mouse(HandlerRead))
    /\ SF_vars(Mouse(HandlerEnd))

--------------------------------------------------------------------------------
\* See KeyChannel: the guest hears what was accepted, in order, and nothing twice.
HeardInOrder == Keys!HeardInOrder

\* And in the end it has heard all of it: no key stays down.
AllHeard == way = "console" => <>[](heard = accepted)

\* The mouse moves as the finger does between two samples that both see it on the
\* panel, and never otherwise: neither a finger that comes down elsewhere nor a
\* finger that moved while the face was shown makes the cursor jump
\* (setX68kInputEnabled: "the cursor flies to the edge of the screen").
NoJump ==
    [][total' # total =>
          /\ mode = "x68k" /\ finger # Up /\ finger' # Up
          /\ total' = Plus(total, <<finger'[1] - finger[1], finger'[2] - finger[2]>>)]_vars

\* The guest's button follows the finger, whatever was refused on the way and even if
\* the finger is lifted while the face is shown: the release arrives (drain: "the
\* release never arrives" is what it must not come to).
Pressed == IF mode = "x68k" /\ finger # Up THEN LeftButton ELSE 0
ButtonFollowsFinger ==
    way = "panel" /\ <>[]MouseEnabled(scc) => <>[](guestButtons = Pressed)

================================================================================
