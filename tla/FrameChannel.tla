------------------------------ MODULE FrameChannel -----------------------------
(******************************************************************************)
(* The exchange of finished pictures between the two cores, class FrameChannel  *)
(* (platform/frame_channel.{h,cpp}).  The emulation core (Core1) borrows a       *)
(* buffer, draws into it and publishes it; the display core (Core0) takes it,    *)
(* sends it to the LCD and gives it back.  Each operation holds the mutex, so    *)
(* each is one action; drawing and sending happen outside, between them, and     *)
(* drawing and sending are the pointers the two cores hold meanwhile.            *)
(******************************************************************************)
EXTENDS Integers

CONSTANTS
    Buffers,        \* kBuffers: the buffers are 1 .. Buffers
    SeqModulus      \* 2^32: the width of the serial numbers

ASSUME FrameChannelAssumption == Buffers \in Nat \ {0} /\ SeqModulus \in Nat \ {0, 1}

Buffer == 1 .. Buffers
None == 0           \* a null pointer, a writingIndex_ of -1

Slot == {"Free", "Writing", "Ready", "InTransfer"}

VARIABLES
    slots,          \* slots_
    readySeq,       \* readySeq_
    nextSeq,        \* nextSeq_
    writing,        \* writingIndex_
    drawing,        \* renderTarget, on Core1
    sending         \* frame, on Core0

channelVars == <<slots, readySeq, nextSeq, writing, drawing, sending>>

ChannelTypeOK ==
    /\ slots \in [Buffer -> Slot]
    /\ readySeq \in [Buffer -> 0 .. SeqModulus - 1] /\ nextSeq \in 0 .. SeqModulus - 1
    /\ writing \in Buffer \cup {None}
    /\ drawing \in Buffer \cup {None} /\ sending \in Buffer \cup {None}

\* FrameChannel::begin
ChannelInit ==
    /\ slots = [b \in Buffer |-> "Free"] /\ readySeq = [b \in Buffer |-> 0]
    /\ nextSeq = 1 /\ writing = None
    /\ drawing = None /\ sending = None

InSlot(state) == {b \in Buffer : slots[b] = state}

\* FrameChannel::tryWriteBuffer - the buffer begun before, else the first free one.
TryWriteBuffer ==
    /\ drawing = None
    /\ \/ /\ writing # None
          /\ drawing' = writing
          /\ UNCHANGED <<slots, writing>>
       \/ /\ writing = None
          /\ \E b \in InSlot("Free") :
                /\ \A other \in InSlot("Free") : b <= other
                /\ slots' = [slots EXCEPT ![b] = "Writing"]
                /\ writing' = b /\ drawing' = b
    /\ UNCHANGED <<readySeq, nextSeq, sending>>

\* The picture would have been the same: nothing is published, and the buffer
\* stays borrowed.
Keep == drawing # None /\ drawing' = None /\ UNCHANGED <<slots, readySeq, nextSeq, writing, sending>>

\* Mutant: the borrowed index stays.
PublishKeepsWriting ==
    /\ drawing # None /\ writing # None
    /\ slots' = [slots EXCEPT ![writing] = "Ready"]
    /\ readySeq' = [readySeq EXCEPT ![writing] = nextSeq]
    /\ nextSeq' = (nextSeq + 1) % SeqModulus
    /\ drawing' = None
    /\ UNCHANGED <<writing, sending>>

\* FrameChannel::publish
Publish ==
    /\ drawing # None /\ writing # None
    /\ slots' = [slots EXCEPT ![writing] = "Ready"]
    /\ readySeq' = [readySeq EXCEPT ![writing] = nextSeq]
    /\ nextSeq' = (nextSeq + 1) % SeqModulus
    /\ writing' = None /\ drawing' = None
    /\ UNCHANGED sending

\* The one that take() picks: of the smallest serial number, the first on a tie.
Oldest(b) ==
    /\ b \in InSlot("Ready")
    /\ \A other \in InSlot("Ready") :
          \/ readySeq[b] < readySeq[other]
          \/ readySeq[b] = readySeq[other] /\ b <= other

\* FrameChannel::take
Take ==
    /\ sending = None
    /\ InSlot("InTransfer") = {}
    /\ \E b \in Buffer :
          /\ Oldest(b)
          /\ slots' = [slots EXCEPT ![b] = "InTransfer"]
          /\ sending' = b
    /\ UNCHANGED <<readySeq, nextSeq, writing, drawing>>

\* Mutant: the buffer is not freed.
DoneWithoutFree ==
    /\ sending # None
    /\ sending' = None
    /\ UNCHANGED <<slots, readySeq, nextSeq, writing, drawing>>

\* FrameChannel::done - whatever is in transfer is given back.
Done ==
    /\ sending # None
    /\ slots' = [b \in Buffer |-> IF slots[b] = "InTransfer" THEN "Free" ELSE slots[b]]
    /\ sending' = None
    /\ UNCHANGED <<readySeq, nextSeq, writing, drawing>>

--------------------------------------------------------------------------------
\* The two cores never work in the same buffer: the one that is sent is not drawn
\* into ("the contents do not change during the SPI transfer").
Exclusive == drawing # None => drawing # sending

\* The picture never jumps back: what is being sent is older than all that wait, and
\* the serial numbers tell those apart (take, "the oldest of those that are ready").
InOrder ==
    /\ \A b \in InSlot("InTransfer"), c \in InSlot("Ready") : readySeq[b] < readySeq[c]
    /\ \A b, c \in InSlot("Ready") : b # c => readySeq[b] # readySeq[c]

================================================================================
