------------------------------- MODULE AudioPath -------------------------------
(******************************************************************************)
(* Sound from the guest to the speaker: the emulation task that pauses, paces   *)
(* and runs the guest (main.cpp), GuestAudioProducer that turns guest time into *)
(* blocks, the ring of AudioRing, the audio task that submits them, and          *)
(* M5SpeakerSink with the buffers the hardware plays from.                      *)
(*                                                                             *)
(* Time is counted in units of a quarter of a block.  playRaw and the hardware  *)
(* behind it are external; they keep at most two buffers.                       *)
(******************************************************************************)
EXTENDS AudioRing, Sequences

CONSTANTS
    BlockUnits,     \* kBlockFrames, in units of guest time
    SliceUnits,     \* kSliceCycles, in the same units: less than a block
    LeadUnits,      \* how far guest time may run ahead of real time (audioNeedsPacing)
    Slack,          \* bound: how far real time is followed beyond guest time
    PlayBuffers,    \* buffers the sink owns
    HasListener     \* FALSE: the speaker did not open, no audio task was created

ASSUME PathAssumption ==
    /\ {BlockUnits, SliceUnits, LeadUnits, PlayBuffers} \subseteq Nat \ {0}
    /\ Slack \in Nat
    /\ SliceUnits < BlockUnits
    /\ PlayBuffers >= 3      \* speaker_m5.h: one more than the hardware keeps
    /\ HasListener \in BOOLEAN

VARIABLES
    turn,       \* where emulationTask is in its turn
    paused,     \* GuestAudioProducer::paused_
    filled,     \* GuestAudioProducer::filled_
    left,       \* guest time left in the slice
    ahead,      \* AudioPacer: guest time minus real time
    budget,     \* audioTask: submissions left before it sleeps, 0 asleep
    playing,    \* audioTask is inside playRaw
    next,       \* M5SpeakerSink::nextPlayback_
    held        \* external: the sink's buffers the hardware keeps, the playing one first

guestVars == <<turn, paused, filled, left, ahead>>
sinkVars == <<next, held>>
taskVars == <<budget, playing, sinkVars>>
pathVars == <<ringVars, guestVars, taskVars>>

PathInit ==
    /\ RingInit
    /\ turn = "begin" /\ paused = FALSE /\ filled = 0 /\ left = 0 /\ ahead = 0
    /\ budget = 0 /\ playing = FALSE
    /\ next = 0 /\ held = <<>>

--------------------------------------------------------------------------------
(* The emulation task. *)

\* audioNeedsQueuePacing, AudioPacer::needsPacing.
QueuePacingWhenFull == Queued >= BlockCount   \* mutant: waits two blocks too late
NeedsQueuePacing == Queued >= BlockCount - 2
NeedsClockPacing == ~paused /\ ahead > LeadUnits

\* The mode of the display core decides whether the guest runs; setPaused throws
\* away the partial block and restarts the stream when that changes.
BeginTurn(wanted) ==
    /\ turn = "begin"
    /\ IF wanted = paused
       THEN UNCHANGED <<ringVars, filled>>
       ELSE StoreDiscard(wanted) /\ filled' = 0
    /\ paused' = wanted
    /\ turn' = "pace"
    /\ UNCHANGED <<left, ahead, taskVars>>

\* The stream's state is stored, then the pace is decided: a turn that must wait
\* runs nothing and yields.
FinishPause ==
    /\ turn = "pace"
    /\ StoreState
    /\ UNCHANGED <<guestVars, taskVars>>

Pace ==
    /\ turn = "pace" /\ ppc = "idle"
    /\ IF paused \/ NeedsQueuePacing \/ NeedsClockPacing
       THEN turn' = "begin" /\ UNCHANGED left
       ELSE turn' = "run" /\ left' = SliceUnits
    /\ UNCHANGED <<ringVars, paused, filled, ahead, taskVars>>

\* Machine::run calls syncTo at register accesses and at the end of the slice.
Run(k) ==
    /\ turn = "run" /\ ppc = "idle"
    /\ k <= left
    /\ left' = left - k
    /\ ahead' = ahead + k
    /\ IF filled + k < BlockUnits
       THEN filled' = filled + k /\ UNCHANGED <<ringVars, turn>>
       ELSE filled' = filled + k - BlockUnits /\ turn' = "publish" /\ UNCHANGED ringVars
    /\ UNCHANGED <<paused, taskVars>>

\* A complete block: writeBlock, the copy, commit; without a cell it is dropped.
PublishBlock ==
    /\ turn = "publish"
    /\ AcquireCell \/ Commit
    /\ turn' = IF ppc' = "idle" THEN "run" ELSE "publish"
    /\ UNCHANGED <<paused, filled, left, ahead, taskVars>>

EndSlice ==
    /\ turn = "run" /\ left = 0
    /\ turn' = "begin"
    /\ UNCHANGED <<ringVars, paused, filled, left, ahead, taskVars>>

\* Real time passes; it does not count while the guest is paused.
TimePasses ==
    /\ ahead > -Slack
    /\ ahead' = IF paused THEN ahead ELSE ahead - 1
    /\ UNCHANGED <<ringVars, turn, paused, filled, left, taskVars>>

--------------------------------------------------------------------------------
(* The audio task, with the sink it owns. *)

\* Every 8 ms: as many submissions as there are blocks, at least one.
Wake ==
    /\ HasListener
    /\ budget = 0
    /\ budget' = IF Queued > 1 THEN Queued ELSE 1
    /\ UNCHANGED <<ringVars, guestVars, playing, sinkVars>>

\* M5SpeakerSink::restartStream: end() makes the hardware let go of everything.
SinkFollows ==
    IF state = applied THEN UNCHANGED sinkVars
    ELSE next' = 0 /\ held' = <<>>

Transfer ==
    /\ budget > 0 /\ ~playing
    /\ \/ (ApplyState \/ Recheck) /\ SinkFollows
       \/ (LoadDiscard \/ SkipStale \/ Lease \/ CopyOut \/ ReleaseRead) /\ UNCHANGED sinkVars
    /\ UNCHANGED <<guestVars, budget, playing>>

\* M5SpeakerSink::write copies into its next buffer, then playRaw waits for room.
CopyToSink(muted) ==
    /\ budget > 0 /\ ~playing
    /\ Submit(muted)
    /\ IF ready THEN playing' = TRUE /\ UNCHANGED budget
       ELSE budget' = budget - 1 /\ UNCHANGED playing
    /\ UNCHANGED <<guestVars, sinkVars>>

\* Mutant: the next block goes into the buffer just handed over.
PlayRawSameBuffer ==
    /\ playing /\ Len(held) < 2
    /\ held' = Append(held, next)
    /\ playing' = FALSE /\ budget' = budget - 1
    /\ UNCHANGED <<ringVars, guestVars, next>>

PlayRaw ==
    /\ playing
    /\ \/ /\ Len(held) < 2
          /\ held' = Append(held, next)
          /\ next' = (next + 1) % PlayBuffers
       \/ UNCHANGED sinkVars                       \* rejected
    /\ playing' = FALSE
    /\ budget' = budget - 1
    /\ UNCHANGED <<ringVars, guestVars>>

\* External: the hardware has played a buffer.
BufferPlayed ==
    /\ held # <<>>
    /\ held' = Tail(held)
    /\ UNCHANGED <<ringVars, guestVars, budget, playing, next>>

AudioTask == Wake \/ Transfer \/ (\E muted \in BOOLEAN : CopyToSink(muted)) \/ PlayRaw

EmulationTask ==
    \/ \E wanted \in BOOLEAN : BeginTurn(wanted)
    \/ FinishPause \/ Pace \/ PublishBlock \/ EndSlice
    \/ \E k \in 1 .. SliceUnits : Run(k)

PathNext == EmulationTask \/ AudioTask \/ TimePasses \/ BufferPlayed

Fairness ==
    /\ WF_pathVars(EmulationTask)
    /\ WF_pathVars(AudioTask)
    /\ WF_pathVars(TimePasses)
    /\ WF_pathVars(BufferPlayed)

PathSpec == PathInit /\ [][PathNext]_pathVars /\ Fairness

--------------------------------------------------------------------------------
\* The sink never copies a block into a buffer the hardware still plays from: it
\* owns one more than the hardware keeps, and a rejected block gives its buffer back.
PlayedIntact == playing => \A i \in 1 .. Len(held) : held[i] # next

\* No sound of the guest is lost for want of a cell: a slice that starts with the
\* ring short of audioNeedsQueuePacing always finds room for the block it ends.
NothingDropped == ~dropped

\* The guest goes on running: neither the full ring nor the clock holds it for
\* ever while it is not paused.  main.cpp says so even of a machine without a
\* speaker: "no sound, but the X68000 runs".
GuestRuns == []<>(turn = "run" \/ paused \/ write = MaxBlocks)

================================================================================
