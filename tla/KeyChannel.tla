------------------------------ MODULE KeyChannel -------------------------------
(******************************************************************************)
(* The way of a key from the host to the guest: KeyQueue (platform/key_queue)    *)
(* holds what was typed, and once per slice the emulation core lets it feed the   *)
(* MFP, which has room for one byte and forgets it when the next comes.  Nothing  *)
(* tells the queue whether the guest has read: it waits a fixed number of slices. *)
(* A character is a press followed by its release; a raw scan code is one byte.   *)
(******************************************************************************)
EXTENDS Integers, SequencesExt

CONSTANTS
    Codes,          \* the scan codes of characters that can be typed
    QueueLength,    \* kQueueLength
    StepsPerEvent,  \* kStepsPerEvent
    GuestLatency,   \* assumed of the guest: it reads a byte within so many slices
    MaxPushes       \* bound: how often the host types

VARIABLES
    queue,          \* queue_, of <<code, autoRelease>>
    stepsLeft,      \* stepsLeft_
    pendingRelease, \* pendingRelease_, 0 for none
    udr, full,      \* the MFP's receive buffer and RSR bit 7
    waited,         \* how many slices the byte in it has waited for the guest
    pushes,         \* how often the host has typed
    accepted,       \* history: the bytes the guest is owed, in order
    heard           \* history: the bytes it has read

vars == <<queue, stepsLeft, pendingRelease, udr, full, waited, pushes, accepted, heard>>

None == 0
Release(code) == code + 128

KeyType ==
    /\ queue \in Seq((1 .. 255) \X BOOLEAN) /\ Len(queue) <= QueueLength
    /\ stepsLeft \in 0 .. StepsPerEvent /\ pendingRelease \in Codes \cup {None}
    /\ udr \in 0 .. 255 /\ full \in BOOLEAN /\ waited \in 0 .. GuestLatency
    /\ pushes \in 0 .. MaxPushes
    /\ accepted \in Seq(1 .. 255) /\ heard \in Seq(1 .. 255)

Init ==
    /\ queue = <<>> /\ stepsLeft = 0 /\ pendingRelease = None
    /\ udr = 0 /\ full = FALSE /\ waited = 0
    /\ pushes = 0 /\ accepted = <<>> /\ heard = <<>>

--------------------------------------------------------------------------------
\* xQueueSend without waiting: what does not fit is dropped.
Enqueue(event) ==
    IF Len(queue) < QueueLength THEN queue' = Append(queue, event) ELSE queue' = queue

\* KeyQueue::push - a full queue drops the press and the release together.
Push(code) ==
    /\ pushes < MaxPushes /\ pushes' = pushes + 1
    /\ Enqueue(<<code, TRUE>>)
    /\ accepted' = IF queue' = queue THEN accepted ELSE accepted \o <<code, Release(code)>>
    /\ UNCHANGED <<stepsLeft, pendingRelease, udr, full, waited, heard>>

\* KeyQueue::pushScan - the caller is told when it does not fit.
PushScan(code) ==
    /\ pushes < MaxPushes /\ pushes' = pushes + 1
    /\ Enqueue(<<code, FALSE>>)
    /\ accepted' = IF queue' = queue THEN accepted ELSE Append(accepted, code)
    /\ UNCHANGED <<stepsLeft, pendingRelease, udr, full, waited, heard>>

\* Mfp::receiveKeyboardByte, by way of Machine::pressKey
Receive(code) == udr' = code /\ full' = TRUE /\ waited' = 0

\* A slice passes, and the byte in the buffer waits for one more.
NothingReceived == waited' = (IF full THEN waited + 1 ELSE 0) /\ UNCHANGED <<udr, full>>

\* KeyQueue::drain, once per slice, in its four branches.
DrainWait ==
    /\ stepsLeft > 0
    /\ stepsLeft' = stepsLeft - 1
    /\ NothingReceived
    /\ UNCHANGED <<queue, pendingRelease, pushes, accepted, heard>>

\* Mutant: the release is not given its slices.
DrainReleaseAtOnce ==
    /\ stepsLeft = 0 /\ pendingRelease # None
    /\ Receive(Release(pendingRelease))
    /\ pendingRelease' = None
    /\ UNCHANGED <<queue, stepsLeft, pushes, accepted, heard>>

DrainRelease ==
    /\ stepsLeft = 0 /\ pendingRelease # None
    /\ Receive(Release(pendingRelease))
    /\ pendingRelease' = None /\ stepsLeft' = StepsPerEvent
    /\ UNCHANGED <<queue, pushes, accepted, heard>>

\* Mutant: the release is not remembered.
DrainEventPressOnly ==
    /\ stepsLeft = 0 /\ pendingRelease = None /\ queue # <<>>
    /\ Receive(Head(queue)[1])
    /\ queue' = Tail(queue) /\ stepsLeft' = StepsPerEvent
    /\ UNCHANGED <<pendingRelease, pushes, accepted, heard>>

DrainEvent ==
    /\ stepsLeft = 0 /\ pendingRelease = None /\ queue # <<>>
    /\ Receive(Head(queue)[1])
    /\ pendingRelease' = IF Head(queue)[2] THEN Head(queue)[1] ELSE None
    /\ queue' = Tail(queue) /\ stepsLeft' = StepsPerEvent
    /\ UNCHANGED <<pushes, accepted, heard>>

DrainNothing ==
    /\ stepsLeft = 0 /\ pendingRelease = None /\ queue = <<>>
    /\ NothingReceived
    /\ UNCHANGED <<queue, stepsLeft, pendingRelease, pushes, accepted, heard>>

Drain ==
    /\ full => waited + 1 < GuestLatency
    /\ DrainWait \/ DrainRelease \/ DrainEvent \/ DrainNothing

\* The guest's handler, during a slice: Mfp::read of UDR.
GuestRead ==
    /\ full
    /\ heard' = Append(heard, udr)
    /\ full' = FALSE /\ waited' = 0
    /\ UNCHANGED <<queue, stepsLeft, pendingRelease, udr, pushes, accepted>>

Type == \E code \in Codes : Push(code) \/ PushScan(code) \/ PushScan(Release(code))
--------------------------------------------------------------------------------
\* What the guest hears is what was accepted, in that order: no byte is overwritten
\* before it is read, no press is parted from its release.
HeardInOrder == IsPrefix(heard, accepted)

================================================================================
