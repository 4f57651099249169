---------------------------- MODULE ExchangeProofs -----------------------------
(**********************************************************************************)
(* Proofs about FramePipeline, for any number of buffers, tiles, changes and      *)
(* pictures.  Three inductive invariants build on each other.                     *)
(*                                                                                *)
(* Inv: Exclusive and InOrder are not inductive; they need to know that the slots *)
(* agree with the pointers the cores hold (Ownership) and that every serial       *)
(* number handed out is below the next one (Numbering), which is what keeps the   *)
(* order when a picture is published behind those that wait.                      *)
(*                                                                                *)
(* QueueInv: the serial numbers that wait have no gap, so that the channel is a   *)
(* queue (PipelineImplementsQueue).                                               *)
(*                                                                                *)
(* PictureInv: a tile that a buffer holds in the scene's generation is right,     *)
(* unless all of the picture is pending; so what is published is the guest's      *)
(* screen.                                                                        *)
(*                                                                                *)
(* Proofs about AudioRing, for any number of cells, blocks and restarts, and      *)
(* about AudioPath, whose every step is one of the ring or leaves it alone.       *)
(*                                                                                *)
(* NoSharedCell needs only that the two indices stay within one turn of the ring. *)
(* SoundIsCurrent needs to know what the cells between them hold, that a block    *)
(* is of the current epoch exactly when it lies at or above discardBefore, and    *)
(* how much of that the consumer may rely on between two of its loads: nothing    *)
(* if the stream has changed since, which is what it looks at last.               *)
(**********************************************************************************)
EXTENDS FramePipeline, AudioPath, TLAPS, FiniteSetTheorems

--------------------------------------------------------------------------------
(* Pictures *)

Ownership ==
    /\ \A b \in Buffer : slots[b] = "Writing" <=> b = writing
    /\ \A b \in Buffer : slots[b] = "InTransfer" <=> b = sending
    /\ drawing # None => drawing = writing

Numbering == \A b \in Buffer : slots[b] \in {"Ready", "InTransfer"} => readySeq[b] < nextSeq

Inv == ChannelTypeOK /\ Ownership /\ Numbering /\ InOrder

USE FrameChannelAssumption DEF Buffer, None, Slot

\* The initial state: every buffer is free and no core holds one.
LEMMA Initially == ChannelInit => Inv
  BY DEF ChannelInit, Inv, ChannelTypeOK, Ownership, Numbering, InOrder, InSlot

\* What leaves the channel alone leaves the invariant alone.
LEMMA StutterKeeps == Inv /\ UNCHANGED channelVars => Inv'
  BY DEF channelVars, Inv, ChannelTypeOK, Ownership, Numbering, InOrder, InSlot

\* Borrowing a buffer: it was free, so nobody else has it.
LEMMA BorrowKeeps == Inv /\ TryWriteBuffer => Inv'
  <1> SUFFICES ASSUME Inv, TryWriteBuffer PROVE Inv'
    OBVIOUS
  <1> USE DEF TryWriteBuffer
  <1>1. CASE writing # None
    BY <1>1 DEF Inv, ChannelTypeOK, Ownership, Numbering, InOrder, InSlot
  <1>2. CASE writing = None
    <2>1. PICK b \in Buffer :
             /\ slots[b] = "Free"
             /\ slots' = [slots EXCEPT ![b] = "Writing"]
             /\ writing' = b /\ drawing' = b
      BY <1>2 DEF InSlot
    <2>2. UNCHANGED <<readySeq, nextSeq, sending>>
      OBVIOUS
    <2> HIDE DEF TryWriteBuffer
    <2>3. ChannelTypeOK'
      BY <2>1, <2>2 DEF Inv, ChannelTypeOK
    <2>4. Ownership'
      BY <1>2, <2>1, <2>2 DEF Inv, ChannelTypeOK, Ownership
    <2>5. Numbering'
      BY <2>1, <2>2 DEF Inv, ChannelTypeOK, Numbering
    <2>6. InOrder'
      BY <2>1, <2>2 DEF Inv, ChannelTypeOK, InOrder, InSlot
    <2> QED BY <2>3, <2>4, <2>5, <2>6 DEF Inv
  <1> QED BY <1>1, <1>2

\* Nothing was drawn: the buffer stays borrowed.
LEMMA KeepKeeps == Inv /\ Keep => Inv'
  BY DEF Keep, Inv, ChannelTypeOK, Ownership, Numbering, InOrder, InSlot

\* Publishing: the new serial number is above all that wait or are being sent.
LEMMA PublishKeeps == Inv /\ Publish /\ nextSeq + 1 < SeqModulus => Inv'
  <1> SUFFICES ASSUME Inv, Publish, nextSeq + 1 < SeqModulus PROVE Inv'
    OBVIOUS
  <1> USE DEF Publish
  <1>0. drawing \in Buffer /\ drawing = writing /\ nextSeq' = nextSeq + 1
    <2>1. drawing \in Buffer /\ drawing = writing
      BY DEF Inv, ChannelTypeOK, Ownership
    <2>2. nextSeq + 1 \in 0 .. SeqModulus - 1
      BY DEF Inv, ChannelTypeOK
    <2>3. (nextSeq + 1) % SeqModulus = nextSeq + 1
      BY <2>2
    <2> QED BY <2>1, <2>3
  <1>1. ChannelTypeOK'
    BY <1>0 DEF Inv, ChannelTypeOK
  <1>2. Ownership'
    BY <1>0 DEF Inv, ChannelTypeOK, Ownership
  <1>3. Numbering'
    BY <1>0 DEF Inv, ChannelTypeOK, Numbering
  <1>4. InOrder'
    BY <1>0 DEF Inv, ChannelTypeOK, Numbering, InOrder, InSlot
  <1> QED BY <1>1, <1>2, <1>3, <1>4, Zenon DEF Inv

\* Taking: the oldest goes, so what is left is younger.
LEMMA TakeKeeps == Inv /\ Take => Inv'
  <1> SUFFICES ASSUME Inv, Take PROVE Inv'
    OBVIOUS
  <1>0. PICK b \in Buffer :
           /\ slots[b] = "Ready"
           /\ slots' = [slots EXCEPT ![b] = "InTransfer"] /\ sending' = b
           /\ \A c \in Buffer : slots[c] = "Ready" /\ c # b => readySeq[b] < readySeq[c]
    <2>1. PICK b \in Buffer :
             Oldest(b) /\ slots' = [slots EXCEPT ![b] = "InTransfer"] /\ sending' = b
      BY DEF Take
    <2>2. slots[b] = "Ready"
      BY <2>1 DEF Oldest, InSlot
    <2>3. ASSUME NEW c \in Buffer, slots[c] = "Ready", c # b PROVE readySeq[b] < readySeq[c]
      <3>1. readySeq[b] < readySeq[c] \/ readySeq[b] = readySeq[c]
        BY <2>1, <2>3 DEF Oldest, InSlot
      <3>2. readySeq[b] # readySeq[c]
        BY <2>2, <2>3 DEF Inv, InOrder, InSlot
      <3> QED BY <3>1, <3>2
    <2> QED BY <2>1, <2>2, <2>3
  <1>00. /\ sending = None /\ \A c \in Buffer : slots[c] # "InTransfer"
         /\ UNCHANGED <<readySeq, nextSeq, writing, drawing>>
    BY DEF Take, InSlot
  <1>1. ChannelTypeOK'
    BY <1>0, <1>00 DEF Inv, ChannelTypeOK
  <1>2. Ownership'
    BY <1>0, <1>00 DEF Inv, ChannelTypeOK, Ownership
  <1>3. Numbering'
    BY <1>0, <1>00 DEF Inv, ChannelTypeOK, Numbering
  <1>4. InOrder'
    BY <1>0, <1>00 DEF Inv, ChannelTypeOK, InOrder, InSlot
  <1> QED BY <1>1, <1>2, <1>3, <1>4 DEF Inv

\* Giving the buffer back.
LEMMA DoneKeeps == Inv /\ Done => Inv'
  <1> SUFFICES ASSUME Inv, Done PROVE Inv'
    OBVIOUS
  <1> USE DEF Done
  <1>1. ChannelTypeOK'
    BY DEF Inv, ChannelTypeOK
  <1>2. Ownership'
    BY DEF Inv, ChannelTypeOK, Ownership
  <1>3. Numbering'
    BY DEF Inv, ChannelTypeOK, Numbering
  <1>4. InOrder'
    BY DEF Inv, ChannelTypeOK, InOrder, InSlot
  <1> QED BY <1>1, <1>2, <1>3, <1>4 DEF Inv

\* Whatever the guest, the user and the two cores do is one operation of the channel
\* or none, and only a drawn picture is published.
LEMMA StepIsOperation ==
    Next => \/ UNCHANGED channelVars
            \/ TryWriteBuffer \/ Keep \/ Take \/ Done
            \/ Publish /\ nextSeq <= MaxPublished
  <1> SUFFICES ASSUME Next
               PROVE \/ UNCHANGED channelVars
                     \/ TryWriteBuffer \/ Keep \/ Take \/ Done
                     \/ Publish /\ nextSeq <= MaxPublished
    OBVIOUS
  <1>1. CASE \E v \in Vram : WriteText(v) \/ WriteGraphic(v) \/ Scroll(v)
    BY <1>1 DEF WriteText, WriteGraphic, Scroll, Guest
  <1>2. CASE EnableGraphic \/ WritePalette
    BY <1>2 DEF EnableGraphic, WritePalette, Guest
  <1>3. CASE SetZoom \/ PutOff \/ ShowFace \/ ShowX68k
    BY <1>3 DEF SetZoom, PutOff, ShowFace, ShowX68k
  <1>4. CASE Borrow
    BY <1>4 DEF Borrow
  <1>5. CASE Render
    BY <1>5 DEF Render
  <1>6. CASE Fetch \/ Send
    BY <1>6 DEF Fetch, Send
  <1> QED BY <1>1, <1>2, <1>3, <1>4, <1>5, <1>6 DEF Next

\* The inductive invariant of the two cores.
THEOREM PipelineInvariant == Spec => []Inv
  <1>1. Init => Inv
    BY Initially DEF Init
  <1>2. Inv /\ [Next]_pipelineVars => Inv'
    <2> SUFFICES ASSUME Inv, [Next]_pipelineVars PROVE Inv'
      OBVIOUS
    <2>1. CASE UNCHANGED pipelineVars
      BY <2>1, StutterKeeps DEF pipelineVars
    <2>2. CASE Next
      <3>1. Publish /\ nextSeq <= MaxPublished => Inv'
        BY PublishKeeps, FramePipelineAssumption DEF Inv, ChannelTypeOK
      <3> QED BY <2>2, <3>1, StepIsOperation, StutterKeeps, BorrowKeeps, KeepKeeps,
                 TakeKeeps, DoneKeeps
    <2> QED BY <2>1, <2>2
  <1> QED BY <1>1, <1>2, PTL DEF Spec

\* The picture that is being sent is never the one that is being drawn, with any
\* number of buffers and whatever the guest and the user do.
THEOREM PipelineExclusive == Spec => []Exclusive
  <1>1. Inv => Exclusive
    BY DEF Inv, ChannelTypeOK, Ownership, Exclusive
  <1> QED BY <1>1, PipelineInvariant, PTL

\* Pictures are sent in the order they were drawn.
THEOREM PipelineInOrder == Spec => []InOrder
  <1>1. Inv => InOrder
    BY DEF Inv
  <1> QED BY <1>1, PipelineInvariant, PTL

--------------------------------------------------------------------------------
(* The channel is a queue.  Its pictures waiting are numbered without a gap up to  *)
(* the one published last; so the n-th in line is known without looking at the     *)
(* slots, publishing appends to the line and taking removes its head.              *)

\* No serial number is skipped between the oldest that waits and the next one.
Contiguous == \E lo \in 1 .. nextSeq : WaitingSerials = lo .. nextSeq - 1
QueueInv == Inv /\ Contiguous /\ (sending # None => readySeq[sending] >= 1)

LEMMA IntervalSize ==
    ASSUME NEW a \in Int, NEW b \in Int, a <= b + 1
    PROVE  IsFiniteSet(a .. b) /\ Cardinality(a .. b) = b - a + 1
  <1>1. IsFiniteSet(a .. b) /\ Cardinality(a .. b) = IF a > b THEN 0 ELSE b - a + 1
    BY FS_Interval
  <1>2. a > b => b - a + 1 = 0
    OBVIOUS
  <1> QED BY <1>1, <1>2

LEMMA AscendingInterval ==
    ASSUME NEW lo \in Int, NEW top \in Int, lo <= top + 1
    PROVE  Ascending(lo .. top) = [i \in 1 .. top + 1 - lo |-> lo + i - 1]
  <1> DEFINE S == lo .. top
             Below(n) == Cardinality({m \in S : m < n})
  <1>1. Cardinality(S) = top + 1 - lo
    <2>1. Cardinality(S) = top - lo + 1
      BY IntervalSize
    <2> QED BY <2>1
  <1>2. \A n \in S : Below(n) = n - lo
    <2> TAKE n \in S
    <2>1. {m \in S : m < n} = lo .. n - 1
      OBVIOUS
    <2>2. n - 1 \in Int /\ lo <= n - 1 + 1
      OBVIOUS
    <2>3. Cardinality(lo .. n - 1) = n - 1 - lo + 1
      BY <2>2, IntervalSize
    <2>4. n - 1 - lo + 1 = n - lo
      OBVIOUS
    <2>5. Below(n) = Cardinality(lo .. n - 1)
      BY <2>1
    <2> HIDE DEF S, Below
    <2> QED BY <2>3, <2>4, <2>5
  <1>3. ASSUME NEW i \in 1 .. top + 1 - lo
        PROVE  (CHOOSE n \in S : Below(n) = i - 1) = lo + i - 1
    <2>1. lo + i - 1 \in S /\ \A n \in S : n \in Int
      OBVIOUS
    <2>2. ASSUME NEW n \in S PROVE Below(n) = i - 1 <=> n = lo + i - 1
      <3>1. Below(n) = n - lo /\ n \in Int
        BY <1>2, <2>1
      <3> HIDE DEF Below
      <3> QED BY <3>1
    <2> HIDE DEF S, Below
    <2> QED BY <2>1, <2>2
  <1>4. Ascending(S) = [i \in 1 .. Cardinality(S) |-> CHOOSE n \in S : Below(n) = i - 1]
    BY DEF Ascending
  <1> HIDE DEF S, Below
  <1>5. Ascending(S) = [i \in 1 .. top + 1 - lo |-> lo + i - 1]
    BY <1>1, <1>3, <1>4
  <1> QED BY <1>5 DEF S

\* The line of an interval, seen as a sequence of numbers.
LEMMA LineIsSequence ==
    ASSUME NEW lo \in Nat, NEW top \in Int, lo <= top + 1
    PROVE  /\ Ascending(lo .. top) \in Seq(Nat)
           /\ Len(Ascending(lo .. top)) = top + 1 - lo
           /\ \A i \in 1 .. top + 1 - lo : Ascending(lo .. top)[i] = lo + i - 1
  <1> DEFINE n == top + 1 - lo
             Line == [i \in 1 .. n |-> lo + i - 1]
  <1>1. n \in Nat
    OBVIOUS
  <1>2. Ascending(lo .. top) = Line
    BY AscendingInterval
  <1>3. \A i \in 1 .. n : lo + i - 1 \in Nat
    OBVIOUS
  <1> HIDE DEF n
  <1>4. Line \in Seq(Nat) /\ Len(Line) = n /\ \A i \in 1 .. n : Line[i] = lo + i - 1
    BY <1>1, <1>3
  <1> QED BY <1>2, <1>4 DEF n

LEMMA LineGrows ==
    ASSUME NEW lo \in Nat, NEW top \in Int, lo <= top + 1
    PROVE  Ascending(lo .. top + 1) = Append(Ascending(lo .. top), top + 1)
  <1> DEFINE Line == Ascending(lo .. top)
             Longer == Ascending(lo .. top + 1)
  <1>1. /\ Line \in Seq(Nat) /\ Len(Line) = top + 1 - lo
        /\ \A i \in 1 .. top + 1 - lo : Line[i] = lo + i - 1
    BY LineIsSequence
  <1>2. top + 1 \in Int /\ lo <= top + 1 + 1
    OBVIOUS
  <1>3. /\ Longer \in Seq(Nat) /\ Len(Longer) = top + 1 + 1 - lo
        /\ \A i \in 1 .. top + 1 + 1 - lo : Longer[i] = lo + i - 1
    BY <1>2, LineIsSequence
  <1> HIDE DEF Line, Longer
  <1> DEFINE Appended == Append(Line, top + 1)
  <1>4. /\ Appended \in Seq(Int) /\ Len(Appended) = Len(Line) + 1
        /\ \A i \in 1 .. Len(Line) : Appended[i] = Line[i]
        /\ Appended[Len(Line) + 1] = top + 1
    BY <1>1
  <1>5. Len(Longer) = Len(Appended) /\ Len(Longer) \in Nat
    BY <1>1, <1>3, <1>4
  <1>6. \A i \in 1 .. Len(Longer) : Longer[i] = Appended[i]
    <2> TAKE i \in 1 .. Len(Longer)
    <2>1. i \in 1 .. Len(Line) \/ i = Len(Line) + 1
      BY <1>1, <1>3
    <2>2. CASE i \in 1 .. Len(Line)
      <3>1. i \in 1 .. top + 1 - lo /\ i \in 1 .. top + 1 + 1 - lo
        BY <1>1, <2>2
      <3> QED BY <1>1, <1>3, <1>4, <2>2, <3>1
    <2>3. CASE i = Len(Line) + 1
      <3>0. Len(Line) = top + 1 - lo
        BY <1>1
      <3>1. i \in 1 .. top + 1 + 1 - lo /\ lo + i - 1 = top + 1
        BY ONLY <2>3, <3>0, lo \in Nat, top \in Int, lo <= top + 1
      <3> QED BY <1>3, <1>4, <2>3, <3>1
    <2> QED BY <2>1, <2>2, <2>3
  <1>7. Longer \in Seq(Int)
    BY <1>3
  <1> HIDE DEF Appended
  <1>8. Longer = Appended
    BY <1>4, <1>5, <1>6, <1>7
  <1> QED BY <1>8 DEF Line, Longer, Appended

LEMMA LineShrinks ==
    ASSUME NEW lo \in Nat, NEW top \in Int, lo <= top
    PROVE  /\ Ascending(lo .. top) # <<>>
           /\ Head(Ascending(lo .. top)) = lo
           /\ Tail(Ascending(lo .. top)) = Ascending(lo + 1 .. top)
  <1> DEFINE Line == Ascending(lo .. top)
             Shorter == Ascending(lo + 1 .. top)
  <1>0. lo <= top + 1
    OBVIOUS
  <1>1. /\ Line \in Seq(Nat) /\ Len(Line) = top + 1 - lo
        /\ \A i \in 1 .. top + 1 - lo : Line[i] = lo + i - 1
    BY <1>0, LineIsSequence
  <1>2. lo + 1 \in Nat /\ lo + 1 <= top + 1
    OBVIOUS
  <1>3. /\ Shorter \in Seq(Nat) /\ Len(Shorter) = top + 1 - (lo + 1)
        /\ \A i \in 1 .. top + 1 - (lo + 1) : Shorter[i] = lo + 1 + i - 1
    BY <1>2, LineIsSequence
  <1> HIDE DEF Line, Shorter
  <1>4. Line # <<>> /\ Head(Line) = lo
    BY <1>1
  <1>5. /\ Tail(Line) \in Seq(Nat) /\ Len(Tail(Line)) = Len(Line) - 1
        /\ \A i \in 1 .. Len(Line) - 1 : Tail(Line)[i] = Line[i + 1]
    BY <1>1, <1>4
  <1>6. Len(Tail(Line)) = Len(Shorter) /\ Len(Shorter) \in Nat
    BY <1>1, <1>3, <1>5
  <1>7. \A i \in 1 .. Len(Shorter) : Shorter[i] = Tail(Line)[i]
    <2> TAKE i \in 1 .. Len(Shorter)
    <2>1. i \in 1 .. top + 1 - (lo + 1) /\ i \in 1 .. Len(Line) - 1 /\ i + 1 \in 1 .. top + 1 - lo
      BY <1>1, <1>3
    <2>2. Shorter[i] = lo + 1 + i - 1
      BY <1>3, <2>1
    <2>3. Tail(Line)[i] = lo + (i + 1) - 1
      BY <1>1, <1>5, <2>1
    <2> QED BY <2>1, <2>2, <2>3
  <1>8. Tail(Line) = Shorter
    <2> DEFINE Rest == Tail(Line)
    <2>1. Rest \in Seq(Nat) /\ Shorter \in Seq(Nat) /\ Len(Rest) = Len(Shorter)
      BY <1>3, <1>5, <1>6
    <2>2. \A i \in 1 .. Len(Shorter) : Shorter[i] = Rest[i]
      BY <1>7
    <2> HIDE DEF Rest
    <2>3. Rest = Shorter
      BY <2>1, <2>2
    <2> QED BY <2>3 DEF Rest
  <1> QED BY <1>4, <1>8 DEF Line, Shorter

\* What the operations of the channel do to the line.
LEMMA LineStays ==
    Inv /\ (UNCHANGED channelVars \/ TryWriteBuffer \/ Keep \/ Done)
        => WaitingSerials' = WaitingSerials /\ nextSeq' = nextSeq /\ readySeq' = readySeq
  <1> SUFFICES ASSUME Inv, UNCHANGED channelVars \/ TryWriteBuffer \/ Keep \/ Done
               PROVE  /\ InSlot("Ready")' = InSlot("Ready")
                      /\ readySeq' = readySeq /\ nextSeq' = nextSeq
    BY DEF WaitingSerials
  <1>1. CASE UNCHANGED channelVars
    BY <1>1 DEF channelVars, InSlot
  <1>2. CASE TryWriteBuffer
    BY <1>2 DEF TryWriteBuffer, Inv, ChannelTypeOK, InSlot
  <1>3. CASE Keep
    BY <1>3 DEF Keep, InSlot
  <1>4. CASE Done
    BY <1>4 DEF Done, Inv, ChannelTypeOK, InSlot
  <1> QED BY <1>1, <1>2, <1>3, <1>4

LEMMA PublishAppends ==
    ASSUME Inv, Publish, nextSeq + 1 < SeqModulus
    PROVE  /\ WaitingSerials' = WaitingSerials \cup {nextSeq}
           /\ nextSeq' = nextSeq + 1
           /\ sending # None => readySeq'[sending] = readySeq[sending]
  <1>1. drawing \in Buffer /\ drawing = writing /\ slots[writing] = "Writing"
    BY DEF Publish, Inv, ChannelTypeOK, Ownership
  <1>2. nextSeq' = nextSeq + 1
    <2>1. nextSeq + 1 \in 0 .. SeqModulus - 1
      BY DEF Inv, ChannelTypeOK
    <2> QED BY <2>1 DEF Publish
  <1>3. InSlot("Ready")' = InSlot("Ready") \cup {writing}
    BY <1>1 DEF Publish, Inv, ChannelTypeOK, InSlot
  <1>4. /\ readySeq'[writing] = nextSeq
        /\ \A b \in Buffer : b # writing => readySeq'[b] = readySeq[b]
    BY <1>1 DEF Publish, Inv, ChannelTypeOK
  <1>5. \A b \in InSlot("Ready") : b \in Buffer /\ b # writing
    BY <1>1 DEF InSlot
  <1>6. WaitingSerials' = WaitingSerials \cup {nextSeq}
    BY <1>3, <1>4, <1>5 DEF WaitingSerials
  <1>7. sending # None => readySeq'[sending] = readySeq[sending]
    BY <1>1, <1>4 DEF Inv, ChannelTypeOK, Ownership
  <1> QED BY <1>2, <1>6, <1>7

LEMMA TakeRemovesHead ==
    ASSUME QueueInv, Take
    PROVE  \E lo \in 1 .. nextSeq - 1 :
              /\ WaitingSerials = lo .. nextSeq - 1
              /\ WaitingSerials' = lo + 1 .. nextSeq - 1
              /\ sending' # None /\ readySeq'[sending'] = lo
              /\ nextSeq' = nextSeq
  <1>1. PICK b \in Buffer : Oldest(b) /\ slots' = [slots EXCEPT ![b] = "InTransfer"] /\ sending' = b
    BY DEF Take
  <1>2. /\ b \in InSlot("Ready") /\ InSlot("Ready")' = InSlot("Ready") \ {b}
        /\ readySeq' = readySeq /\ nextSeq' = nextSeq /\ readySeq[b] \in WaitingSerials
    BY <1>1 DEF Take, Oldest, QueueInv, Inv, ChannelTypeOK, InSlot, WaitingSerials
  <1>3. \A c \in InSlot("Ready") : c # b => readySeq[c] # readySeq[b]
    BY <1>2 DEF QueueInv, Inv, InOrder
  <1>4. WaitingSerials' = WaitingSerials \ {readySeq[b]}
    BY <1>2, <1>3 DEF WaitingSerials
  <1>5. PICK lo \in 1 .. nextSeq : WaitingSerials = lo .. nextSeq - 1
    BY DEF QueueInv, Contiguous
  <1>6. nextSeq \in Nat
    BY DEF QueueInv, Inv, ChannelTypeOK
  <1>7. readySeq[b] = lo
    <2>1. readySeq[b] \in lo .. nextSeq - 1
      BY <1>2, <1>5
    <2>2. lo \in WaitingSerials
      BY <1>5, <1>6, <2>1
    <2>3. PICK c \in InSlot("Ready") : readySeq[c] = lo
      BY <2>2 DEF WaitingSerials
    <2>4. readySeq[b] < readySeq[c] \/ readySeq[b] = readySeq[c]
      BY <1>1, <2>3 DEF Oldest
    <2> QED BY <1>6, <2>1, <2>3, <2>4
  <1>8. lo \in 1 .. nextSeq - 1
    BY <1>2, <1>5, <1>6, <1>7
  <1>9. WaitingSerials' = lo + 1 .. nextSeq - 1
    BY <1>4, <1>5, <1>6, <1>7, <1>8
  <1> QED BY <1>1, <1>2, <1>5, <1>7, <1>8, <1>9

LEMMA QueueInitially == Init => QueueInv
  <1> SUFFICES ASSUME Init PROVE QueueInv
    OBVIOUS
  <1>1. Inv
    BY Initially DEF Init
  <1>2. WaitingSerials = 1 .. nextSeq - 1 /\ nextSeq = 1
    BY DEF Init, ChannelInit, WaitingSerials, InSlot
  <1>3. Contiguous
    BY <1>2 DEF Contiguous
  <1> QED BY <1>1, <1>3 DEF QueueInv, Init, ChannelInit

LEMMA QueueStepKeeps == QueueInv /\ Inv' /\ [Next]_pipelineVars => QueueInv'
  <1> SUFFICES ASSUME QueueInv, Inv', [Next]_pipelineVars PROVE QueueInv'
    OBVIOUS
  <1>0. Inv /\ nextSeq \in Nat
    BY DEF QueueInv, Inv, ChannelTypeOK
  <1>1. PICK lo \in 1 .. nextSeq : WaitingSerials = lo .. nextSeq - 1
    BY DEF QueueInv, Contiguous
  <1>2. CASE UNCHANGED channelVars \/ TryWriteBuffer \/ Keep \/ Done
    <2>1. WaitingSerials' = WaitingSerials /\ nextSeq' = nextSeq /\ readySeq' = readySeq
      BY <1>0, <1>2, LineStays
    <2>2. sending' = sending \/ sending' = None
      BY <1>2 DEF channelVars, TryWriteBuffer, Keep, Done
    <2>3. Contiguous'
      BY <1>1, <2>1 DEF Contiguous
    <2> QED BY <2>1, <2>2, <2>3 DEF QueueInv
  <1>3. CASE Publish /\ nextSeq <= MaxPublished
    <2>1. nextSeq + 1 < SeqModulus
      BY <1>0, <1>3, FramePipelineAssumption
    <2>2. /\ WaitingSerials' = WaitingSerials \cup {nextSeq} /\ nextSeq' = nextSeq + 1
          /\ sending # None => readySeq'[sending] = readySeq[sending]
      BY <1>0, <1>3, <2>1, PublishAppends
    <2>3. WaitingSerials' = lo .. nextSeq' - 1 /\ lo \in 1 .. nextSeq'
      BY <1>0, <1>1, <2>2
    <2>4. Contiguous'
      BY <2>3 DEF Contiguous
    <2> QED BY <1>3, <2>2, <2>4 DEF QueueInv, Publish
  <1>4. CASE Take
    <2>1. PICK at \in 1 .. nextSeq - 1 :
              /\ WaitingSerials' = at + 1 .. nextSeq - 1
              /\ sending' # None /\ readySeq'[sending'] = at
              /\ nextSeq' = nextSeq
      BY <1>4, TakeRemovesHead
    <2>2. at + 1 \in 1 .. nextSeq'
      BY <1>0, <2>1
    <2>3. Contiguous'
      BY <2>1, <2>2 DEF Contiguous
    <2> QED BY <2>1, <2>3 DEF QueueInv
  <1> QED BY <1>2, <1>3, <1>4, StepIsOperation DEF pipelineVars

\* A picture can only be drawn into a buffer that neither waits nor is being sent.
LEMMA RoomToPublish ==
    ASSUME Inv, drawing # None
    PROVE  /\ Cardinality(WaitingSerials) \in Nat
           /\ Cardinality(WaitingSerials) <= Buffers - 1
           /\ sending # None => Cardinality(WaitingSerials) <= Buffers - 2
  <1> DEFINE Others == IF sending = None THEN Buffer \ {writing} ELSE (Buffer \ {writing}) \ {sending}
             serial == [b \in InSlot("Ready") |-> readySeq[b]]
  <1>1. writing \in Buffer /\ (sending # None => sending \in Buffer \ {writing})
    BY DEF Inv, ChannelTypeOK, Ownership
  <1>2. IsFiniteSet(Buffer) /\ Cardinality(Buffer) = Buffers
    <2>1. 1 \in Int /\ Buffers \in Int /\ 1 <= Buffers + 1
      OBVIOUS
    <2>2. IsFiniteSet(1 .. Buffers) /\ Cardinality(1 .. Buffers) = Buffers - 1 + 1
      BY <2>1, IntervalSize
    <2> QED BY <2>2
  <1>3. IsFiniteSet(Buffer \ {writing}) /\ Cardinality(Buffer \ {writing}) = Buffers - 1
    BY <1>1, <1>2, FS_RemoveElement
  <1>4. /\ IsFiniteSet((Buffer \ {writing}) \ {sending})
        /\ sending # None => Cardinality((Buffer \ {writing}) \ {sending}) = Buffers - 1 - 1
    <2> DEFINE Rest == Buffer \ {writing}
    <2>1. IsFiniteSet(Rest) /\ Cardinality(Rest) = Buffers - 1
      BY <1>3
    <2> HIDE DEF Rest
    <2>2. /\ IsFiniteSet(Rest \ {sending})
          /\ sending \in Rest => Cardinality(Rest \ {sending}) = Cardinality(Rest) - 1
      BY <2>1, FS_RemoveElement
    <2> QED BY <1>1, <2>1, <2>2 DEF Rest
  <1>5. IsFiniteSet(Others) /\ Cardinality(Others) = IF sending = None THEN Buffers - 1 ELSE Buffers - 2
    BY <1>3, <1>4
  <1>6. InSlot("Ready") \subseteq Others
    BY DEF Inv, ChannelTypeOK, Ownership, InSlot
  <1> HIDE DEF Others
  <1>7. /\ IsFiniteSet(InSlot("Ready")) /\ Cardinality(InSlot("Ready")) <= Cardinality(Others)
        /\ Cardinality(InSlot("Ready")) \in Nat
    BY <1>5, <1>6, FS_Subset, FS_CardinalityType
  <1>8. serial \in Surjection(InSlot("Ready"), WaitingSerials)
    BY DEF WaitingSerials, Surjection
  <1> HIDE DEF serial
  <1>9. /\ IsFiniteSet(WaitingSerials)
        /\ Cardinality(WaitingSerials) <= Cardinality(InSlot("Ready"))
    BY <1>7, <1>8, FS_Surjection
  <1>10. Cardinality(WaitingSerials) \in Nat
    BY <1>9, FS_CardinalityType
  <1> QED BY <1>5, <1>7, <1>9, <1>10

\* The pictures that wait, as long as they are numbered without a gap.
LEMMA LineOfSerials ==
    ASSUME QueueInv
    PROVE  /\ nextSeq \in Nat
           /\ \E lo \in 1 .. nextSeq :
                 WaitingSerials = lo .. nextSeq - 1 /\ lo \in Nat /\ lo <= nextSeq - 1 + 1
           /\ Waiting = Ascending(WaitingSerials)
           /\ Len(Waiting) = Cardinality(WaitingSerials)
  <1>1. nextSeq \in Nat
    BY DEF QueueInv, Inv, ChannelTypeOK
  <1>2. PICK lo \in 1 .. nextSeq : WaitingSerials = lo .. nextSeq - 1
    BY DEF QueueInv, Contiguous
  <1>3. lo \in Nat /\ nextSeq - 1 \in Int /\ lo <= nextSeq - 1 + 1
    BY <1>1
  <1>4. Len(Ascending(lo .. nextSeq - 1)) = nextSeq - 1 + 1 - lo
    BY <1>3, LineIsSequence
  <1>5. Cardinality(lo .. nextSeq - 1) = nextSeq - 1 - lo + 1
    BY <1>3, IntervalSize
  <1> QED BY <1>1, <1>2, <1>3, <1>4, <1>5 DEF Waiting

LEMMA QueueStep ==
    ASSUME QueueInv, QueueInv', [Next]_pipelineVars
    PROVE  [Queue!Next]_(Queue!queueVars)
  <1> DEFINE Current == IF sending = None THEN 0 ELSE readySeq[sending]
  <1>0. Inv /\ nextSeq \in Nat
    BY LineOfSerials DEF QueueInv
  <1>1. CASE UNCHANGED channelVars \/ TryWriteBuffer \/ Keep
    <2>1. WaitingSerials' = WaitingSerials /\ nextSeq' = nextSeq /\ readySeq' = readySeq
      BY <1>0, <1>1, LineStays
    <2>2. sending' = sending
      BY <1>1 DEF channelVars, TryWriteBuffer, Keep
    <2>3. Waiting' = Waiting /\ Current' = Current
      BY <2>1, <2>2 DEF Waiting, Ascending
    <2> QED BY <2>1, <2>3 DEF Queue!queueVars
  <1>2. CASE Done
    <2>1. WaitingSerials' = WaitingSerials /\ nextSeq' = nextSeq
      BY <1>0, <1>2, LineStays
    <2>2. sending # None /\ sending' = None /\ Waiting' = Waiting
      BY <1>2, <2>1 DEF Done, Waiting, Ascending
    <2>3. Current # 0 /\ Current' = 0
      <3>1. readySeq[sending] >= 1
        BY <2>2 DEF QueueInv
      <3>2. readySeq[sending] \in Nat
        BY <1>0, <2>2 DEF Inv, ChannelTypeOK
      <3> QED BY <2>2, <3>1, <3>2
    <2>4. Queue!Done
      BY <2>1, <2>2, <2>3 DEF Queue!Done, Queue!Nothing
    <2> QED BY <2>4 DEF Queue!Next
  <1>3. CASE Publish /\ nextSeq <= MaxPublished
    <2>1. nextSeq + 1 < SeqModulus
      BY <1>0, <1>3, FramePipelineAssumption
    <2>2. /\ WaitingSerials' = WaitingSerials \cup {nextSeq} /\ nextSeq' = nextSeq + 1
          /\ sending # None => readySeq'[sending] = readySeq[sending]
          /\ sending' = sending
      BY <1>0, <1>3, <2>1, PublishAppends DEF Publish
    <2>3. PICK lo \in 1 .. nextSeq :
             WaitingSerials = lo .. nextSeq - 1 /\ lo \in Nat /\ lo <= nextSeq - 1 + 1
      BY LineOfSerials
    <2>4. WaitingSerials' = lo .. nextSeq - 1 + 1
      BY <1>0, <2>2, <2>3
    <2>5. nextSeq - 1 \in Int /\ nextSeq - 1 + 1 = nextSeq
      BY <1>0
    <2>6. Ascending(lo .. nextSeq - 1 + 1) = Append(Ascending(lo .. nextSeq - 1), nextSeq - 1 + 1)
      BY <2>3, <2>5, LineGrows
    <2>7. Waiting' = Ascending(lo .. nextSeq - 1 + 1)
      BY <2>4 DEF Waiting, Ascending
    <2>8. Waiting' = Append(Waiting, nextSeq)
      BY <2>3, <2>5, <2>6, <2>7 DEF Waiting
    <2>9. Len(Waiting) < IF Current = 0 THEN Buffers ELSE Buffers - 1
      <3>1. Len(Waiting) = Cardinality(WaitingSerials)
        BY LineOfSerials
      <3>2. /\ Len(Waiting) \in Nat /\ Len(Waiting) <= Buffers - 1
            /\ sending # None => Len(Waiting) <= Buffers - 2
        BY <1>0, <1>3, <3>1, RoomToPublish DEF Publish
      <3>3. Len(Waiting) < Buffers /\ (sending # None => Len(Waiting) < Buffers - 1)
        BY <3>2
      <3> QED BY <3>3
    <2>10. nextSeq' - 1 = nextSeq - 1 + 1 /\ nextSeq' - 1 = nextSeq
      BY <1>0, <2>2
    <2>11. Current' = Current
      BY <2>2
    <2>12. Queue!Publish
      BY <2>8, <2>9, <2>10, <2>11 DEF Queue!Publish, Queue!Nothing
    <2> QED BY <2>12 DEF Queue!Next
  <1>4. CASE Take
    <2>1. PICK lo \in 1 .. nextSeq - 1 :
              /\ WaitingSerials = lo .. nextSeq - 1
              /\ WaitingSerials' = lo + 1 .. nextSeq - 1
              /\ sending' # None /\ readySeq'[sending'] = lo
              /\ nextSeq' = nextSeq
      BY <1>4, TakeRemovesHead
    <2>2. lo \in Nat /\ nextSeq - 1 \in Int /\ lo <= nextSeq - 1
      BY <1>0
    <2>3. /\ Ascending(lo .. nextSeq - 1) # <<>>
          /\ Head(Ascending(lo .. nextSeq - 1)) = lo
          /\ Tail(Ascending(lo .. nextSeq - 1)) = Ascending(lo + 1 .. nextSeq - 1)
      BY <2>2, LineShrinks
    <2>4. Waiting' = Ascending(lo + 1 .. nextSeq - 1)
      BY <2>1 DEF Waiting, Ascending
    <2>5. Waiting # <<>> /\ Head(Waiting) = lo /\ Tail(Waiting) = Waiting'
      BY <2>1, <2>3, <2>4 DEF Waiting
    <2>6. Current = 0 /\ Current' = lo /\ nextSeq' - 1 = nextSeq - 1
      BY <1>4, <2>1 DEF Take
    <2>7. Queue!Take
      BY <2>5, <2>6 DEF Queue!Take, Queue!Nothing
    <2> QED BY <2>7 DEF Queue!Next
  <1> QED BY <1>1, <1>2, <1>3, <1>4, StepIsOperation DEF pipelineVars

\* The channel is the queue that FrameQueue promises: every picture published is
\* sent, once, in its turn and unchanged in number, for any number of buffers.
\* (That it is sent at all is a matter of fairness, which the runs check.)
THEOREM PipelineImplementsQueue == Spec => Queue!Init /\ [][Queue!Next]_(Queue!queueVars)
  <1>1. Init => Queue!Init
    <2> SUFFICES ASSUME Init PROVE Queue!Init
      OBVIOUS
    <2>1. WaitingSerials = {} /\ nextSeq = 1 /\ sending = None
      BY DEF Init, ChannelInit, WaitingSerials, InSlot
    <2>2. Cardinality(WaitingSerials) = 0
      BY <2>1, FS_EmptySet
    <2>3. Waiting = <<>>
      BY <2>2 DEF Waiting, Ascending
    <2> QED BY <2>1, <2>3 DEF Queue!Init, Queue!Nothing
  <1>2. QueueInv /\ QueueInv' /\ [Next]_pipelineVars => [Queue!Next]_(Queue!queueVars)
    BY QueueStep
  <1> QED BY <1>1, <1>2, QueueInitially, QueueStepKeeps, PipelineInvariant, PTL DEF Spec

--------------------------------------------------------------------------------
(* What is published is the guest's screen.  A tile is left alone in a buffer only *)
(* if the generation it was drawn from is the scene's: so it must be that whoever  *)
(* changes a tile's pixel takes the scene's generation away from every buffer, also *)
(* when the generations wrap, or else leaves the whole picture pending.            *)

\* Generations in use are above zero, which marks a tile never drawn, and none of
\* a later picture is in any buffer.
GenerationsOK(r) ==
    /\ r \in RendererType
    /\ r.generation >= 1
    /\ \A t \in Tile : 1 <= r.scene[t] /\ r.scene[t] <= r.generation
    /\ \A b \in Buffer, t \in Tile : r.drawn[b][t] <= r.generation

Settled == ~renderer.force /\ ~renderer.fullPending

\* The pixel as the last picture was scrolled.
LastPixel(t) ==
    <<FALSE, guest.palette, guest.text[t],
      {guest.graphic[(t + (renderer.scrollKey - 1)) % VramTiles]}>>

\* Nothing whole is pending: the buffers' tiles of the scene's generation are right.
Faithful ==
    Settled =>
        /\ guest.enabled /\ ~zoomed /\ renderer.wasComposited
        /\ renderer.scrollKey - 1 \in Vram
        /\ \A b \in Buffer, t \in Tile :
              renderer.drawn[b][t] = renderer.scene[t] => image[b][t] = LastPixel(t)

\* Without a program that scrolls, nothing is ever scrolled.
Unscrolled ==
    "scroll" \notin program =>
        guest.scroll = 0 /\ (Settled => renderer.scrollKey = 1)

PictureInv ==
    /\ guest \in GuestType /\ textDirty \in BOOLEAN /\ zoomed \in BOOLEAN /\ program \in Programs
    /\ GenerationsOK(renderer)
    /\ DOMAIN image = Buffer
    /\ Faithful /\ Unscrolled

\* No program writes a scrolled graphic plane: the damage would be reported at the
\* place in video memory and not at that on the screen.
NoScrolledWrites == \A p \in Programs : ~({"graphic", "scroll"} \subseteq p)

LEMMA BufferRange == 1 .. TiledBuffers = Buffer
  BY FramePipelineAssumption

LEMMA GenerationIsNumber == Generation \subseteq Nat /\ 0 \in Generation /\ 1 \in Generation
  BY TiledRendererAssumption DEF Generation

LEMMA RendererFields ==
    ASSUME NEW r \in RendererType
    PROVE  /\ r.generation \in Generation /\ r.scene \in [Tile -> Generation]
           /\ r.drawn \in [Buffer -> [Tile -> Generation]] /\ DOMAIN r.drawn = Buffer
           /\ r.scrollKey \in Nat
           /\ {r.force, r.fullPending, r.wasComposited} \subseteq BOOLEAN
  BY BufferRange DEF RendererType

\* A change of some tiles makes them stale in every buffer, and no stale tile fresh.
LEMMA InvalidatedTiles ==
    ASSUME NEW r, GenerationsOK(r), NEW tiles \in SUBSET Tile
    PROVE  /\ GenerationsOK(InvalidateTiles(r, tiles))
           /\ InvalidateTiles(r, tiles).force = r.force
           /\ InvalidateTiles(r, tiles).fullPending = r.fullPending
           /\ InvalidateTiles(r, tiles).scrollKey = r.scrollKey
           /\ InvalidateTiles(r, tiles).wasComposited = r.wasComposited
           /\ \A b \in Buffer, t \in Tile :
                 InvalidateTiles(r, tiles).drawn[b][t] = InvalidateTiles(r, tiles).scene[t]
                     => t \notin tiles /\ r.drawn[b][t] = r.scene[t]
  <1> DEFINE later == AdvanceGeneration(r)
             result == InvalidateTiles(r, tiles)
             Changed(g, old) == [t \in Tile |-> IF t \in tiles THEN g ELSE old[t]]
  <1>0. r \in RendererType
    BY DEF GenerationsOK
  <1>1. result = [later EXCEPT !.scene = Changed(later.generation, later.scene)]
    BY DEF InvalidateTiles
  <1>2. CASE r.generation + 1 < Generations
    <2> DEFINE g == r.generation + 1
    <2>1. g \in Generation /\ later = [r EXCEPT !.generation = g]
      <3>1. r.generation \in Generation
        BY <1>0, RendererFields
      <3> QED BY <1>2, <3>1, TiledRendererAssumption DEF AdvanceGeneration, Generation
    <2>2. Changed(g, r.scene) \in [Tile -> Generation]
      BY <1>0, <2>1, RendererFields
    <2>3. result = [r EXCEPT !.generation = g, !.scene = Changed(g, r.scene), !.drawn = r.drawn]
      BY <1>0, <1>1, <2>1 DEF RendererType
    <2>4. /\ result \in RendererType /\ result.generation = g
          /\ result.scene = Changed(g, r.scene) /\ result.drawn = r.drawn
          /\ result.force = r.force /\ result.fullPending = r.fullPending
          /\ result.scrollKey = r.scrollKey /\ result.wasComposited = r.wasComposited
      <3> DEFINE scene == Changed(g, r.scene)
      <3>1. scene \in [Tile -> Generation] /\ r.drawn \in [Buffer -> [Tile -> Generation]]
        BY <1>0, <2>2, RendererFields
      <3>2. g \in Generation /\ result = [r EXCEPT !.generation = g, !.scene = scene, !.drawn = r.drawn]
        BY <2>1, <2>3
      <3> HIDE DEF g, scene, result
      <3>3. /\ result \in RendererType /\ result.generation = g
            /\ result.scene = scene /\ result.drawn = r.drawn
            /\ result.force = r.force /\ result.fullPending = r.fullPending
            /\ result.scrollKey = r.scrollKey /\ result.wasComposited = r.wasComposited
        BY <1>0, <3>1, <3>2, BufferRange DEF RendererType
      <3> QED BY <3>3 DEF scene
    <2>5. \A t \in Tile : result.scene[t] = IF t \in tiles THEN g ELSE r.scene[t]
      BY <2>4
    <2> HIDE DEF result, Changed
    <2>6. /\ r.generation \in Nat /\ \A t \in Tile : r.scene[t] \in Nat
          /\ \A b \in Buffer, t \in Tile : r.drawn[b][t] \in Nat
      <3>1. /\ r.generation \in Generation /\ r.scene \in [Tile -> Generation]
            /\ r.drawn \in [Buffer -> [Tile -> Generation]]
        BY <1>0, RendererFields
      <3> QED BY <3>1, GenerationIsNumber
    <2>7. GenerationsOK(result)
      BY <2>4, <2>5, <2>6 DEF GenerationsOK
    <2>8. \A b \in Buffer, t \in Tile :
             result.drawn[b][t] = result.scene[t] => t \notin tiles /\ r.drawn[b][t] = r.scene[t]
      BY <2>4, <2>5, <2>6 DEF GenerationsOK
    <2> QED BY <2>4, <2>7, <2>8 DEF result
  <1>3. CASE ~(r.generation + 1 < Generations)
    <2> DEFINE ones == [t \in Tile |-> 1]
               zeros == [b \in Buffer |-> [t \in Tile |-> 0]]
    <2>1. later = [r EXCEPT !.generation = 1, !.scene = ones, !.drawn = zeros]
      BY <1>0, <1>3, RendererFields DEF AdvanceGeneration
    <2>2. ones \in [Tile -> Generation] /\ zeros \in [Buffer -> [Tile -> Generation]]
      BY GenerationIsNumber
    <2>3. /\ later.generation = 1 /\ later.scene = ones
          /\ Changed(1, ones) = ones
      BY <1>0, <2>1, <2>2 DEF RendererType
    <2>4. result = [r EXCEPT !.generation = 1, !.scene = ones, !.drawn = zeros]
      <3> HIDE DEF ones, zeros, later, Changed
      <3> QED BY <1>0, <1>1, <2>1, <2>3 DEF RendererType
    <2>5. /\ result \in RendererType /\ result.generation = 1
          /\ result.scene = ones /\ result.drawn = zeros
          /\ result.force = r.force /\ result.fullPending = r.fullPending
          /\ result.scrollKey = r.scrollKey /\ result.wasComposited = r.wasComposited
      <3> HIDE DEF ones, zeros, later, Changed, result
      <3> QED BY <1>0, <2>2, <2>4, GenerationIsNumber, BufferRange DEF RendererType
    <2>6. \A b \in Buffer, t \in Tile : result.drawn[b][t] = 0 /\ result.scene[t] = 1
      BY <2>5
    <2>7. \A t \in Tile : result.scene[t] = 1
      BY <2>5
    <2> HIDE DEF result
    <2>8. GenerationsOK(result)
      BY <2>5, <2>6, <2>7 DEF GenerationsOK
    <2> QED BY <2>5, <2>6, <2>8 DEF result
  <1> QED BY <1>2, <1>3

\* Noting that all of the picture is pending.
LEMMA DamageAllOK ==
    ASSUME NEW r, GenerationsOK(r)
    PROVE  /\ GenerationsOK(DamageAll(r)) /\ DamageAll(r).fullPending
           /\ DamageAll(r).force = r.force
  BY DEF DamageAll, GenerationsOK, RendererType

LEMMA DamagedTile ==
    ASSUME NEW r, GenerationsOK(r), NEW v \in Vram
    PROVE  /\ GenerationsOK(Damage(r, v))
           /\ Damage(r, v).force = r.force
           /\ Damage(r, v).fullPending = r.fullPending
           /\ Damage(r, v).scrollKey = r.scrollKey
           /\ Damage(r, v).wasComposited = r.wasComposited
           /\ ~r.fullPending =>
                 \A b \in Buffer, t \in Tile :
                    Damage(r, v).drawn[b][t] = Damage(r, v).scene[t]
                        => t # v /\ r.drawn[b][t] = r.scene[t]
  <1>1. CASE r.fullPending \/ v \notin Tile
    BY <1>1 DEF Damage
  <1>2. CASE ~r.fullPending /\ v \in Tile
    <2>1. Damage(r, v) = InvalidateTiles(r, {v}) /\ {v} \in SUBSET Tile
      BY <1>2 DEF Damage
    <2> QED BY <2>1, InvalidatedTiles
  <1> QED BY <1>1, <1>2

\* Tiles of the picture are tiles of the video memory.
LEMMA TilesInVram == \A t \in Tile : t \in Vram /\ (t + (1 - 1)) % VramTiles = t
  BY FramePipelineAssumption, TiledRendererAssumption DEF Tile, Vram

\* What leaves the guest, the renderer and the buffers alone.
LEMMA PictureStays ==
    ASSUME PictureInv,
           UNCHANGED <<guest, textDirty, zoomed, image, program>>,
           renderer' = renderer \/ renderer' = [renderer EXCEPT !.force = TRUE]
    PROVE  PictureInv'
  <1>1. renderer \in RendererType /\ GenerationsOK(renderer)
    BY DEF PictureInv, GenerationsOK
  <1>2. CASE renderer' = renderer
    <2>1. GenerationsOK(renderer')
      BY <1>1, <1>2
    <2> QED BY <1>2, <2>1 DEF PictureInv, Faithful, Unscrolled, Settled, LastPixel
  <1>3. CASE renderer' = [renderer EXCEPT !.force = TRUE]
    <2>1. /\ renderer' \in RendererType /\ renderer'.generation = renderer.generation
          /\ renderer'.scene = renderer.scene /\ renderer'.drawn = renderer.drawn
          /\ renderer'.force
      BY <1>1, <1>3 DEF RendererType
    <2>2. GenerationsOK(renderer') /\ ~Settled'
      BY <1>1, <2>1 DEF GenerationsOK, Settled
    <2> QED BY <2>2 DEF PictureInv, Faithful, Unscrolled
  <1> QED BY <1>2, <1>3

\* The text plane: the tile written to is stale, the others are as they were.
LEMMA WriteTextKeeps == ASSUME PictureInv, NEW v \in Vram, WriteText(v) PROVE PictureInv'
  <1> USE DEF PictureInv
  <1>1. /\ guest' = [guest EXCEPT !.text[v] = ~@] /\ textDirty' = TRUE
        /\ renderer' = Damage(renderer, v)
        /\ UNCHANGED <<zoomed, image, program>>
    BY DEF WriteText, Guest, Change
  <1>2. /\ guest' \in GuestType
        /\ guest'.enabled = guest.enabled /\ guest'.palette = guest.palette
        /\ guest'.graphic = guest.graphic /\ guest'.scroll = guest.scroll
        /\ \A t \in Vram : t # v => guest'.text[t] = guest.text[t]
    BY <1>1 DEF GuestType
  <1>3. /\ GenerationsOK(renderer')
        /\ renderer'.force = renderer.force /\ renderer'.fullPending = renderer.fullPending
        /\ renderer'.scrollKey = renderer.scrollKey
        /\ renderer'.wasComposited = renderer.wasComposited
    BY <1>1, DamagedTile
  <1>4. Settled' = Settled
    BY <1>3 DEF Settled
  <1>5. ASSUME Settled, NEW b \in Buffer, NEW t \in Tile, renderer'.drawn[b][t] = renderer'.scene[t]
        PROVE  image'[b][t] = LastPixel(t)'
    <2>1. t # v /\ renderer.drawn[b][t] = renderer.scene[t]
      BY <1>1, <1>5, DamagedTile DEF Settled
    <2>2. LastPixel(t)' = LastPixel(t)
      BY <1>2, <1>3, <2>1, TilesInVram DEF LastPixel
    <2> QED BY <1>1, <1>5, <2>1, <2>2 DEF Faithful
  <1>6. Faithful'
    BY <1>1, <1>2, <1>3, <1>4, <1>5 DEF Faithful
  <1>7. Unscrolled'
    BY <1>1, <1>2, <1>3, <1>4 DEF Unscrolled
  <1> QED BY <1>1, <1>2, <1>3, <1>6, <1>7

\* The graphic plane: the same, as long as the plane is where its memory is.
LEMMA WriteGraphicKeeps ==
    ASSUME NoScrolledWrites, PictureInv, NEW v \in Vram, WriteGraphic(v)
    PROVE  PictureInv'
  <1> USE DEF PictureInv
  <1>1. /\ guest' = [guest EXCEPT !.graphic[v] = ~@]
        /\ renderer' = Damage(renderer, v)
        /\ UNCHANGED <<textDirty, zoomed, image, program>>
    BY DEF WriteGraphic, Guest, Change
  <1>2. /\ guest' \in GuestType
        /\ guest'.enabled = guest.enabled /\ guest'.palette = guest.palette
        /\ guest'.text = guest.text /\ guest'.scroll = guest.scroll
        /\ \A t \in Vram : t # v => guest'.graphic[t] = guest.graphic[t]
    BY <1>1 DEF GuestType
  <1>3. /\ GenerationsOK(renderer')
        /\ renderer'.force = renderer.force /\ renderer'.fullPending = renderer.fullPending
        /\ renderer'.scrollKey = renderer.scrollKey
        /\ renderer'.wasComposited = renderer.wasComposited
    BY <1>1, DamagedTile
  <1>4. Settled' = Settled
    BY <1>3 DEF Settled
  <1>5. "scroll" \notin program
    BY DEF NoScrolledWrites, WriteGraphic, Guest, Change
  <1>6. ASSUME Settled, NEW b \in Buffer, NEW t \in Tile, renderer'.drawn[b][t] = renderer'.scene[t]
        PROVE  image'[b][t] = LastPixel(t)'
    <2>1. t # v /\ renderer.drawn[b][t] = renderer.scene[t]
      BY <1>1, <1>6, DamagedTile DEF Settled
    <2>2. renderer.scrollKey = 1 /\ (t + (renderer.scrollKey - 1)) % VramTiles = t /\ t \in Vram
      BY <1>5, <1>6, TilesInVram DEF Unscrolled
    <2>3. LastPixel(t)' = LastPixel(t)
      BY <1>1, <1>2, <1>3, <2>1, <2>2 DEF LastPixel
    <2> QED BY <1>1, <1>6, <2>1, <2>3 DEF Faithful
  <1>7. Faithful'
    BY <1>1, <1>2, <1>3, <1>4, <1>6 DEF Faithful
  <1>8. Unscrolled'
    BY <1>1, <1>2, <1>3, <1>4 DEF Unscrolled
  <1> QED BY <1>1, <1>2, <1>3, <1>7, <1>8

\* What concerns the whole picture leaves all of it pending.
LEMMA WholePictureKeeps == ASSUME PictureInv, EnableGraphic \/ WritePalette PROVE PictureInv'
  <1> USE DEF PictureInv
  <1>1. /\ guest' \in GuestType /\ guest'.scroll = guest.scroll
        /\ renderer' = DamageAll(renderer)
        /\ UNCHANGED <<textDirty, zoomed, image, program>>
    BY DEF EnableGraphic, WritePalette, Guest, Change, GuestType
  <1>2. GenerationsOK(renderer') /\ ~Settled'
    BY <1>1, DamageAllOK DEF Settled
  <1> QED BY <1>1, <1>2 DEF Faithful, Unscrolled

\* A scroll is noticed when the picture is drawn.
LEMMA ScrollKeeps == ASSUME PictureInv, NEW v \in Vram, Scroll(v) PROVE PictureInv'
  <1> USE DEF PictureInv
  <1>1. /\ guest' = [guest EXCEPT !.scroll = v] /\ "scroll" \in program
        /\ UNCHANGED <<renderer, textDirty, zoomed, image, program>>
    BY DEF Scroll, Guest, Change
  <1>2. /\ guest' \in GuestType
        /\ guest'.enabled = guest.enabled /\ guest'.palette = guest.palette
        /\ guest'.text = guest.text /\ guest'.graphic = guest.graphic
    BY <1>1 DEF GuestType
  <1>3. Settled' = Settled /\ \A t \in Tile : LastPixel(t)' = LastPixel(t)
    BY <1>1, <1>2 DEF Settled, LastPixel
  <1>4. Faithful'
    BY <1>1, <1>2, <1>3 DEF Faithful
  <1> QED BY <1>1, <1>2, <1>4 DEF Unscrolled

\* What TiledCompositor::render starts from: whatever it will not draw is right.
LEMMA PreparedPicture ==
    ASSUME PictureInv, CanTile(View),
           NEW r, r = Prepared(ToPrepare(renderer, View), View.scrollKey)
    PROVE  /\ GenerationsOK(r)
           /\ ~r.fullPending /\ r.scrollKey = guest.scroll + 1
           /\ \A b \in Buffer, t \in Tile : r.drawn[b][t] = r.scene[t] => image[b][t] = Pixel(t)
  <1> DEFINE start == ToPrepare(renderer, View)
             key == guest.scroll + 1
             noted == [start EXCEPT !.scrollKey = key, !.fullPending = FALSE]
  <1>1. /\ renderer \in RendererType /\ GenerationsOK(renderer)
        /\ guest.enabled /\ ~zoomed /\ guest.scroll \in Vram /\ key \in Nat
        /\ View.composited = guest.enabled /\ View.scrollKey = key /\ zoomed \in BOOLEAN
    BY FramePipelineAssumption DEF PictureInv, GenerationsOK, GuestType, View, CanTile, Vram
  <1>2. GenerationsOK(start)
    BY <1>1, DamageAllOK DEF ToPrepare
  <1>3. /\ GenerationsOK(noted) /\ ~noted.fullPending /\ noted.scrollKey = key
        /\ noted.drawn = start.drawn /\ noted.scene = start.scene
    <2> HIDE DEF start
    <2>1. start \in RendererType
      BY <1>2 DEF GenerationsOK
    <2>2. /\ noted \in RendererType /\ noted.generation = start.generation
          /\ noted.scene = start.scene /\ noted.drawn = start.drawn
          /\ ~noted.fullPending /\ noted.scrollKey = key
      BY <1>1, <2>1 DEF RendererType
    <2> HIDE DEF noted
    <2> QED BY <1>2, <2>2 DEF GenerationsOK
  <1>4. r = IF start.fullPending \/ key # start.scrollKey THEN InvalidateTiles(noted, Tile) ELSE noted
    BY <1>1 DEF Prepared
  <1>5. CASE start.fullPending \/ key # start.scrollKey
    <2>1. r = InvalidateTiles(noted, Tile)
      BY <1>4, <1>5
    <2> HIDE DEF noted, start
    <2> QED BY <1>3, <2>1, InvalidatedTiles
  <1>6. CASE ~(start.fullPending \/ key # start.scrollKey)
    <2>1. start = renderer /\ Settled
      BY <1>1, <1>6, DamageAllOK DEF ToPrepare, Settled, GenerationsOK, RendererType
    <2>2. r = noted /\ r.drawn = renderer.drawn /\ r.scene = renderer.scene
      BY <1>3, <1>4, <1>6, <2>1
    <2>3. renderer.scrollKey - 1 = guest.scroll
      BY <1>1, <1>6, <2>1 DEF Vram
    <2>4. \A t \in Tile : Pixel(t) = LastPixel(t)
      BY <1>1, <2>3 DEF Pixel, LastPixel
    <2>5. \A b \in Buffer, t \in Tile : r.drawn[b][t] = r.scene[t] => image[b][t] = Pixel(t)
      BY <2>1, <2>2, <2>4 DEF PictureInv, Faithful
    <2> QED BY <1>3, <2>2, <2>5
  <1> QED BY <1>5, <1>6

\* The buffer drawn into holds the whole picture afterwards, unless nothing of it
\* had changed that renderTo looks at.
LEMMA RenderDrawsPicture ==
    ASSUME PictureInv, Render, drawing \in Buffer
    PROVE  /\ DOMAIN image' = Buffer
           /\ \A b \in Buffer : b # drawing => image'[b] = image[b]
           /\ CanTile(View) \/ DrawnTiles(renderer, View, drawing) # {} => image'[drawing] = Picture
  <1> DEFINE tiles == DrawnTiles(renderer, View, drawing)
  <1>1. image' = [image EXCEPT ![drawing] = [t \in Tile |-> IF t \in tiles THEN Pixel(t) ELSE image[drawing][t]]]
    BY DEF Render
  <1>2. /\ DOMAIN image' = Buffer
        /\ \A b \in Buffer : b # drawing => image'[b] = image[b]
        /\ image'[drawing] = [t \in Tile |-> IF t \in tiles THEN Pixel(t) ELSE image[drawing][t]]
    BY <1>1 DEF PictureInv
  <1>3. CASE CanTile(View)
    <2> DEFINE r == Prepared(ToPrepare(renderer, View), View.scrollKey)
    <2>1. tiles = NeedsRender(r, drawing)
      BY <1>3 DEF DrawnTiles
    <2>2. \A t \in Tile : r.drawn[drawing][t] = r.scene[t] => image[drawing][t] = Pixel(t)
      BY <1>3, PreparedPicture
    <2> HIDE DEF r, tiles
    <2>3. \A t \in Tile : t \notin tiles => image[drawing][t] = Pixel(t)
      BY <2>1, <2>2 DEF NeedsRender
    <2> QED BY <1>2, <2>3 DEF Picture
  <1>4. CASE ~CanTile(View)
    <2>1. tiles = {} \/ tiles = Tile
      BY <1>4 DEF DrawnTiles
    <2> HIDE DEF tiles
    <2> QED BY <1>2, <1>4, <2>1 DEF Picture, tiles
  <1> QED BY <1>3, <1>4, <1>2

LEMMA RenderKeeps == ASSUME PictureInv, Render, drawing \in Buffer PROVE PictureInv'
  <1>1. /\ renderer' = AfterRender(renderer, View, drawing)
        /\ textDirty' = (textDirty /\ ~ClearsTextDirty(renderer, View))
        /\ UNCHANGED <<guest, zoomed, program>>
    BY DEF Render
  <1>2. /\ renderer \in RendererType /\ GenerationsOK(renderer)
        /\ guest.scroll \in Vram /\ View.composited = guest.enabled /\ guest.enabled \in BOOLEAN
    BY DEF PictureInv, GenerationsOK, GuestType, View
  <1>3. /\ guest' \in GuestType /\ textDirty' \in BOOLEAN /\ zoomed' \in BOOLEAN /\ program' \in Programs
        /\ DOMAIN image' = Buffer
    BY <1>1, RenderDrawsPicture DEF PictureInv
  <1>4. CASE CanTile(View)
    <2> DEFINE r == Prepared(ToPrepare(renderer, View), View.scrollKey)
               drawn == Rendered(r, drawing)
    <2>1. /\ GenerationsOK(r) /\ r \in RendererType
          /\ ~r.fullPending /\ r.scrollKey = guest.scroll + 1
          /\ \A b \in Buffer, t \in Tile : r.drawn[b][t] = r.scene[t] => image[b][t] = Pixel(t)
      BY <1>4, PreparedPicture DEF GenerationsOK
    <2>2. renderer' = [drawn EXCEPT !.force = FALSE, !.wasComposited = View.composited]
      BY <1>1, <1>4 DEF AfterRender
    <2> HIDE DEF r
    <2>3. drawn = [r EXCEPT !.drawn = [r.drawn EXCEPT ![drawing] = r.scene]]
      <3>1. [t \in Tile |-> r.scene[t]] = r.scene
        BY <2>1, RendererFields
      <3> QED BY <2>1, <3>1 DEF Rendered, RendererType
    <2> DEFINE buffers == [r.drawn EXCEPT ![drawing] = r.scene]
    <2>4. /\ buffers \in [Buffer -> [Tile -> Generation]]
          /\ buffers[drawing] = r.scene /\ \A b \in Buffer : b # drawing => buffers[b] = r.drawn[b]
      BY <2>1, RendererFields
    <2> HIDE DEF buffers
    <2>5. drawn \in RendererType /\ drawn = [r EXCEPT !.drawn = buffers]
      BY <2>1, <2>3, <2>4, BufferRange DEF RendererType, buffers
    <2> HIDE DEF drawn
    <2>6. /\ renderer' \in RendererType /\ renderer'.generation = r.generation
          /\ renderer'.scene = r.scene /\ renderer'.drawn = buffers
          /\ ~renderer'.force /\ ~renderer'.fullPending
          /\ renderer'.scrollKey = guest.scroll + 1 /\ renderer'.wasComposited = guest.enabled
      BY <1>2, <2>1, <2>2, <2>5 DEF RendererType
    <2>7. GenerationsOK(renderer')
      BY <2>1, <2>4, <2>6 DEF GenerationsOK
    <2>8. guest.enabled /\ ~zoomed /\ renderer'.scrollKey - 1 = guest.scroll
      BY <1>2, <1>4, <2>6 DEF CanTile, View, Vram
    <2>9. \A t \in Tile : Pixel(t) = LastPixel(t)'
      BY <1>1, <2>8 DEF Pixel, LastPixel, PictureInv
    <2>10. ASSUME NEW b \in Buffer, NEW t \in Tile, renderer'.drawn[b][t] = renderer'.scene[t]
           PROVE  image'[b][t] = Pixel(t)
      <3>1. CASE b = drawing
        BY <1>4, <3>1, RenderDrawsPicture DEF Picture
      <3>2. CASE b # drawing
        BY <2>1, <2>4, <2>6, <2>10, <3>2, RenderDrawsPicture
      <3> QED BY <3>1, <3>2
    <2>11. Faithful'
      BY <1>1, <1>2, <2>6, <2>8, <2>9, <2>10 DEF Faithful
    <2>12. Unscrolled'
      BY <1>1, <2>6 DEF Unscrolled, PictureInv
    <2> QED BY <1>3, <2>7, <2>11, <2>12 DEF PictureInv
  <1>5. CASE ~CanTile(View)
    <2> DEFINE all == DamageAll(renderer)
    <2>1. GenerationsOK(all) /\ all.fullPending /\ all \in RendererType
      BY <1>2, DamageAllOK DEF GenerationsOK
    <2>2. \/ renderer' = all
          \/ renderer' = [all EXCEPT !.force = FALSE, !.wasComposited = View.composited]
      BY <1>1, <1>5 DEF AfterRender
    <2> HIDE DEF all
    <2>3. /\ renderer' \in RendererType /\ renderer'.generation = all.generation
          /\ renderer'.scene = all.scene /\ renderer'.drawn = all.drawn /\ renderer'.fullPending
      BY <1>2, <2>1, <2>2 DEF RendererType
    <2>4. GenerationsOK(renderer') /\ ~Settled'
      BY <2>1, <2>3 DEF GenerationsOK, Settled
    <2> QED BY <1>1, <1>3, <2>4 DEF PictureInv, Faithful, Unscrolled
  <1> QED BY <1>4, <1>5

LEMMA PictureInitially == Init => PictureInv
  <1> SUFFICES ASSUME Init PROVE PictureInv
    OBVIOUS
  <1>1. /\ guest.scroll = 0 /\ textDirty \in BOOLEAN /\ zoomed \in BOOLEAN /\ program \in Programs
        /\ DOMAIN image = Buffer /\ renderer = ResetRenderer
    BY DEF Init
  <1>2. guest \in GuestType
    <2>1. 0 \in Vram
      BY FramePipelineAssumption, TiledRendererAssumption DEF Vram
    <2> QED BY <2>1 DEF Init, GuestType
  <1>3. GenerationsOK(renderer) /\ ~Settled
    <2> DEFINE ones == [t \in Tile |-> 1]
               zeros == [b \in Buffer |-> [t \in Tile |-> 0]]
    <2>1. ones \in [Tile -> Generation] /\ zeros \in [Buffer -> [Tile -> Generation]]
      BY GenerationIsNumber
    <2>2. (\A t \in Tile : ones[t] = 1) /\ (\A b \in Buffer, t \in Tile : zeros[b][t] = 0)
      OBVIOUS
    <2>3. renderer = [generation |-> 1, scene |-> ones, drawn |-> zeros, fullPending |-> TRUE,
                      scrollKey |-> 0, force |-> TRUE, wasComposited |-> FALSE]
      BY <1>1, BufferRange DEF ResetRenderer
    <2> HIDE DEF ones, zeros
    <2>4. renderer \in RendererType
      BY <2>1, <2>3, GenerationIsNumber, BufferRange DEF RendererType
    <2>5. GenerationsOK(renderer)
      BY <2>2, <2>3, <2>4 DEF GenerationsOK
    <2> QED BY <2>3, <2>5 DEF Settled
  <1> QED BY <1>1, <1>2, <1>3 DEF PictureInv, Faithful, Unscrolled

LEMMA PictureStepKeeps ==
    ASSUME NoScrolledWrites, Inv, PictureInv, [Next]_pipelineVars
    PROVE  PictureInv'
  <1>1. CASE \E v \in Vram : WriteText(v) \/ WriteGraphic(v) \/ Scroll(v)
    BY <1>1, WriteTextKeeps, WriteGraphicKeeps, ScrollKeeps
  <1>2. CASE EnableGraphic \/ WritePalette
    BY <1>2, WholePictureKeeps
  <1>3. CASE SetZoom
    <2>1. /\ zoomed' \in BOOLEAN /\ renderer' = [renderer EXCEPT !.force = TRUE]
          /\ UNCHANGED <<guest, textDirty, image, program>>
      BY <1>3 DEF SetZoom, Change, PictureInv
    <2>2. /\ renderer \in RendererType /\ GenerationsOK(renderer)
      BY DEF PictureInv, GenerationsOK
    <2>3. /\ renderer' \in RendererType /\ renderer'.generation = renderer.generation
          /\ renderer'.scene = renderer.scene /\ renderer'.drawn = renderer.drawn
          /\ renderer'.force
      BY <2>1, <2>2 DEF RendererType
    <2>4. GenerationsOK(renderer') /\ ~Settled'
      BY <2>2, <2>3 DEF GenerationsOK, Settled
    <2> QED BY <2>1, <2>4 DEF PictureInv, Faithful, Unscrolled
  <1>4. CASE PutOff \/ Borrow
    BY <1>4, PictureStays DEF PutOff, Borrow, ExchangeRedraw
  <1>5. CASE Render
    <2>1. drawing \in Buffer
      BY <1>5 DEF Render, Inv, ChannelTypeOK
    <2> QED BY <1>5, <2>1, RenderKeeps
  <1>6. CASE Fetch \/ Send
    BY <1>6, PictureStays DEF Fetch, Send
  <1>7. CASE ShowFace \/ ShowX68k
    BY <1>7, PictureStays DEF ShowFace, ShowX68k, Change
  <1>8. CASE UNCHANGED pipelineVars
    BY <1>8, PictureStays DEF pipelineVars
  <1> QED BY <1>1, <1>2, <1>3, <1>4, <1>5, <1>6, <1>7, <1>8 DEF Next

\* Only what has been drawn turns from being written to being ready.
LEMMA OnlyRenderPublishes ==
    ASSUME Inv, [Next]_pipelineVars, NEW b \in Buffer, slots[b] = "Writing", slots'[b] = "Ready"
    PROVE  Render /\ b = drawing /\ DrawnTiles(renderer, View, drawing) # {}
  <1>1. ~(UNCHANGED channelVars \/ Keep)
    BY DEF channelVars, Keep
  <1>2. ~(TryWriteBuffer \/ Take \/ Done)
    BY DEF TryWriteBuffer, Take, Done, Inv, ChannelTypeOK, Oldest, InSlot
  <1>3. Render
    <2>1. ~(\E v \in Vram : WriteText(v) \/ WriteGraphic(v) \/ Scroll(v))
      BY <1>1 DEF WriteText, WriteGraphic, Scroll, Guest
    <2>2. ~(EnableGraphic \/ WritePalette \/ SetZoom \/ PutOff \/ ShowFace \/ ShowX68k)
      BY <1>1 DEF EnableGraphic, WritePalette, Guest, SetZoom, PutOff, ShowFace, ShowX68k
    <2>3. ~(Borrow \/ Fetch \/ Send \/ UNCHANGED pipelineVars)
      BY <1>1, <1>2 DEF Borrow, Fetch, Send, pipelineVars
    <2> QED BY <2>1, <2>2, <2>3 DEF Next
  <1>4. Publish /\ DrawnTiles(renderer, View, drawing) # {}
    BY <1>1, <1>3 DEF Render
  <1>5. b = drawing
    BY <1>4 DEF Publish, Inv, ChannelTypeOK, Ownership
  <1> QED BY <1>3, <1>4, <1>5

\* Every picture that is published is the guest's screen in every tile, although
\* only the tiles that had changed were drawn: with any number of buffers and tiles,
\* whatever the programs do, but for those that write a scrolled graphic plane, and
\* however often the generations wrap.
THEOREM PublishedPictures == ASSUME NoScrolledWrites PROVE Spec => PublishedIsScreen
  <1>1. Inv /\ PictureInv /\ [Next]_pipelineVars
            => \A b \in Buffer : slots[b] = "Writing" /\ slots'[b] = "Ready" => image'[b] = Picture
    <2> SUFFICES ASSUME Inv, PictureInv, [Next]_pipelineVars, NEW b \in Buffer,
                        slots[b] = "Writing", slots'[b] = "Ready"
                 PROVE  image'[b] = Picture
      OBVIOUS
    <2> QED BY OnlyRenderPublishes, RenderDrawsPicture
  <1>2. Inv /\ PictureInv /\ [Next]_pipelineVars => PictureInv'
    BY PictureStepKeeps
  <1> QED BY <1>1, <1>2, PictureInitially, PipelineInvariant, PTL DEF Spec, PublishedIsScreen

HIDE FrameChannelAssumption DEF Buffer, None, Slot

--------------------------------------------------------------------------------
(* Sound *)

ProducerAt == {"idle", "restart", "copy"}
ConsumerAt == {"apply", "discard", "skip", "lease", "copy", "release", "recheck", "submit"}
Relying == {"skip", "lease", "copy"}

RingTypeOK ==
    /\ write \in Nat /\ read \in Nat /\ discard \in Nat /\ found \in Nat
    /\ state \in Epochs /\ applied \in Epochs
    /\ cells \in [0 .. BlockCount - 1 -> Blocks \cup {Torn}]
    /\ block \in Blocks \cup {Torn, NoBlock}
    /\ ppc \in ProducerAt /\ cpc \in ConsumerAt
    /\ wish \in BOOLEAN
    /\ heard \in Nat \cup {-1}

\* The indices: never more than one cell short of a full turn apart.
Indices ==
    /\ read <= write /\ write - read <= BlockCount - 1
    /\ ppc = "copy" => write - read < BlockCount - 1
    /\ discard <= write /\ found <= write
    /\ ppc = "restart" => discard = write
    /\ cpc \in {"copy", "release"} => read < write
    /\ cpc \in {"lease", "copy"} => read >= found

\* What the cells between the indices hold.
Contents ==
    \A n \in Nat : read <= n /\ n < write =>
        /\ cells[Cell(n)] \in Blocks
        /\ cells[Cell(n)].n = n
        /\ cells[Cell(n)].epoch.epoch <= state.epoch
        /\ n >= discard => cells[Cell(n)].epoch = state

\* What the consumer may rely on, as long as the stream is the one it applied.
Reliance ==
    /\ applied.epoch <= state.epoch
    /\ applied.epoch = state.epoch => applied = state
    /\ cpc \in Relying /\ state = applied =>
         \A n \in Nat : read <= n /\ n < write /\ n >= found => cells[Cell(n)].epoch = applied

Copied ==
    /\ heard < read
    /\ cpc = "release" => block \in Blocks /\ block.n = read
    /\ cpc \in {"recheck", "submit"} /\ block # NoBlock =>
         block \in Blocks /\ block.n = read - 1 /\ block.n > heard
    /\ cpc \in {"release", "recheck"} /\ block # NoBlock /\ state = applied => block.epoch = applied
    /\ cpc = "submit" /\ block # NoBlock => block.epoch = applied
    /\ cpc \in {"apply", "discard", "skip", "lease", "copy"} => block = NoBlock

RingInv == RingTypeOK /\ Indices /\ Contents /\ Reliance /\ Copied

USE BlockCountAssumption, BoundAssumption

--------------------------------------------------------------------------------
\* Multiples of the ring's size that differ do so by at least that size.
LEMMA MultiplesApart ==
    ASSUME NEW k \in Int, NEW N \in Nat, N >= 1, k >= 1
    PROVE  N * k >= N
  OBVIOUS

\* Two indices less than a turn apart name different cells.
LEMMA CellsApart ==
    ASSUME NEW a \in Nat, NEW b \in Nat, a < b, b - a < BlockCount
    PROVE  Cell(a) # Cell(b)
  <1> DEFINE N == BlockCount
             p == a \div N
             q == b \div N
  <1>1. N \in Nat /\ N > 0
    OBVIOUS
  <1>2. p \in Int /\ q \in Int /\ a = N * p + (a % N) /\ b = N * q + (b % N)
    BY <1>1
  <1>3. SUFFICES ASSUME a % N = b % N PROVE FALSE
    BY DEF Cell
  <1>4. b - a = N * q - N * p
    BY <1>1, <1>2, <1>3
  <1>5. N * q - N * p = N * (q - p)
    BY <1>1, <1>2
  <1>6. q - p >= 1
    <2>1. SUFFICES ASSUME q - p <= 0 PROVE FALSE
      BY <1>2
    <2>2. N * (p - q) >= 0
      BY <1>1, <1>2, <2>1
    <2> QED BY <1>1, <1>2, <1>4, <2>2
  <1>7. N * (q - p) >= N
    BY <1>1, <1>2, <1>6, MultiplesApart
  <1> QED BY <1>1, <1>4, <1>5, <1>7

LEMMA CellInRing == ASSUME NEW n \in Nat PROVE Cell(n) \in 0 .. BlockCount - 1
  BY DEF Cell

LEMMA RingInitially == RingInit => RingInv
  <1> SUFFICES ASSUME RingInit PROVE RingInv
    OBVIOUS
  <1> USE DEF RingInit
  <1>1. RingTypeOK
    BY DEF RingTypeOK, Epochs, Torn, NoBlock, ProducerAt, ConsumerAt
  <1>2. Indices /\ Contents /\ Reliance /\ Copied
    BY DEF Indices, Contents, Reliance, Copied, NoBlock, Epochs
  <1> QED BY <1>1, <1>2 DEF RingInv

USE DEF producerVars, consumerVars

\* The first store of a restart: every block in the ring becomes stale.
LEMMA StoreDiscardKeeps == ASSUME NEW p \in BOOLEAN, RingInv, StoreDiscard(p) PROVE RingInv'
  <1> USE DEF StoreDiscard, RingInv
  <1>1. RingTypeOK'
    BY DEF RingTypeOK, ProducerAt
  <1>2. Indices'
    BY DEF Indices, RingTypeOK
  <1>3. Contents'
    BY DEF Contents, RingTypeOK
  <1>4. Reliance' /\ Copied'
    BY DEF Reliance, Copied
  <1> QED BY <1>1, <1>2, <1>3, <1>4

\* The second one: whoever applied an earlier state sees that it has changed.
LEMMA StoreStateKeeps == ASSUME RingInv, StoreState PROVE RingInv'
  <1> USE DEF StoreState, RingInv
  <1>1. RingTypeOK'
    BY DEF RingTypeOK, ProducerAt, Epochs
  <1>2. Indices'
    BY DEF Indices, RingTypeOK
  <1>3. state' # applied' /\ applied.epoch < state'.epoch /\ state.epoch < state'.epoch
    BY DEF Reliance, RingTypeOK, Epochs
  <1>4. Contents'
    <2> SUFFICES ASSUME NEW n \in Nat, read <= n, n < write
                 PROVE  /\ cells[Cell(n)] \in Blocks
                        /\ cells[Cell(n)].n = n
                        /\ cells[Cell(n)].epoch.epoch <= state'.epoch
                        /\ n >= discard => cells[Cell(n)].epoch = state'
      BY DEF Contents
    <2>1. n < discard
      BY DEF Indices, RingTypeOK
    <2>2. cells[Cell(n)] \in Blocks /\ cells[Cell(n)].n = n /\ cells[Cell(n)].epoch.epoch <= state.epoch
      BY DEF Contents
    <2> QED BY <1>1, <1>3, <2>1, <2>2 DEF RingTypeOK, Epochs, Blocks
  <1>5. Reliance' /\ Copied'
    BY <1>3 DEF Reliance, Copied, RingTypeOK, Epochs
  <1> QED BY <1>1, <1>2, <1>4, <1>5

\* The producer takes a cell that none of the queued blocks lies in.
LEMMA AcquireCellKeeps == ASSUME RingInv, AcquireCell PROVE RingInv'
  <1> USE DEF AcquireCell, RingInv, Queued
  <1>1. RingTypeOK'
    BY CellInRing DEF RingTypeOK, ProducerAt
  <1>2. Indices'
    BY DEF Indices, RingTypeOK
  <1>3. \A n \in Nat : read <= n /\ n < write => cells'[Cell(n)] = cells[Cell(n)]
    <2> SUFFICES ASSUME NEW n \in Nat, read <= n, n < write
                 PROVE  cells'[Cell(n)] = cells[Cell(n)]
      OBVIOUS
    <2>1. Cell(n) # Cell(write)
      BY CellsApart DEF Indices, RingTypeOK
    <2> QED BY <2>1, CellInRing DEF RingTypeOK
  <1>4. Contents'
    BY <1>3 DEF Contents
  <1>5. Reliance' /\ Copied'
    BY <1>3 DEF Reliance, Copied
  <1> QED BY <1>1, <1>2, <1>4, <1>5

\* A committed block carries the epoch that is current.
LEMMA CommitKeeps == ASSUME RingInv, Commit PROVE RingInv'
  <1> USE DEF Commit, RingInv
  <1>1. RingTypeOK'
    <2>1. [n |-> write, epoch |-> state] \in Blocks
      BY DEF RingTypeOK, Blocks
    <2> QED BY <2>1, CellInRing DEF RingTypeOK, ProducerAt
  <1>2. Indices'
    BY DEF Indices, RingTypeOK
  <1>3. /\ cells'[Cell(write)] = [n |-> write, epoch |-> state]
        /\ \A n \in Nat : read <= n /\ n < write => cells'[Cell(n)] = cells[Cell(n)]
    <2>1. cells'[Cell(write)] = [n |-> write, epoch |-> state]
      BY CellInRing DEF RingTypeOK
    <2>2. ASSUME NEW n \in Nat, read <= n, n < write
          PROVE  cells'[Cell(n)] = cells[Cell(n)]
      <3>1. Cell(n) # Cell(write)
        BY CellsApart, <2>2 DEF Indices, RingTypeOK
      <3> QED BY <3>1, <2>2, CellInRing DEF RingTypeOK
    <2> QED BY <2>1, <2>2
  <1>4. \A n \in Nat : n < write' => n < write \/ n = write
    BY DEF RingTypeOK
  <1>5. [n |-> write, epoch |-> state] \in Blocks /\ state.epoch <= state.epoch
    BY DEF RingTypeOK, Blocks, Epochs
  <1>6. Contents'
    BY <1>3, <1>4, <1>5 DEF Contents
  <1>7. Reliance'
    BY <1>3, <1>4 DEF Reliance
  <1>8. Copied'
    BY DEF Copied
  <1> QED BY <1>1, <1>2, <1>6, <1>7, <1>8

\* The consumer takes over the state of the stream.
LEMMA ApplyStateKeeps == ASSUME RingInv, ApplyState PROVE RingInv'
  <1> USE DEF ApplyState, Applied, RingInv
  <1>1. RingTypeOK'
    BY DEF RingTypeOK, ConsumerAt
  <1>2. Indices' /\ Contents'
    BY DEF Indices, Contents
  <1>3. Reliance' /\ Copied'
    BY DEF Reliance, Copied, Relying, RingTypeOK, Epochs
  <1> QED BY <1>1, <1>2, <1>3

\* From here on it may rely on what lies at or above the discarded prefix.
LEMMA LoadDiscardKeeps == ASSUME RingInv, LoadDiscard PROVE RingInv'
  <1> USE DEF LoadDiscard, RingInv
  <1>1. RingTypeOK'
    BY DEF RingTypeOK, ConsumerAt
  <1>2. Indices' /\ Contents'
    BY DEF Indices, Contents
  <1>3. Reliance'
    BY DEF Reliance, Contents
  <1>4. Copied'
    BY DEF Copied
  <1> QED BY <1>1, <1>2, <1>3, <1>4

LEMMA SkipStaleKeeps == ASSUME RingInv, SkipStale PROVE RingInv'
  <1> USE DEF SkipStale, StaleCount, RingInv
  <1>1. RingTypeOK' /\ read <= read' /\ read' >= found /\ read' <= write
    BY DEF RingTypeOK, ConsumerAt, Indices
  <1>2. Indices'
    BY <1>1 DEF Indices, RingTypeOK
  <1>3. \A n \in Nat : read' <= n => read <= n
    BY <1>1 DEF RingTypeOK
  <1>4. Contents'
    BY <1>3 DEF Contents
  <1>5. Reliance'
    BY <1>3 DEF Reliance, Relying
  <1>6. Copied'
    BY <1>1 DEF Copied, RingTypeOK
  <1> QED BY <1>1, <1>2, <1>4, <1>5, <1>6

LEMMA LeaseKeeps == ASSUME RingInv, Lease PROVE RingInv'
  <1> USE DEF Lease, RingInv
  <1>1. RingTypeOK'
    BY DEF RingTypeOK, ConsumerAt
  <1>2. Indices' /\ Contents'
    BY DEF Indices, Contents, RingTypeOK
  <1>3. Reliance' /\ Copied'
    BY DEF Reliance, Relying, Copied
  <1> QED BY <1>1, <1>2, <1>3

\* The copy is of the block the index names.
LEMMA CopyOutKeeps == ASSUME RingInv, CopyOut PROVE RingInv'
  <1> USE DEF CopyOut, RingInv
  <1>1. RingTypeOK'
    BY CellInRing DEF RingTypeOK, ConsumerAt
  <1>2. Indices' /\ Contents'
    BY DEF Indices, Contents
  <1>3. Reliance'
    BY DEF Reliance, Relying
  <1>4. /\ cells[Cell(read)] \in Blocks
        /\ cells[Cell(read)].n = read
        /\ state = applied => cells[Cell(read)].epoch = applied
    BY DEF Contents, Reliance, Relying, Indices, RingTypeOK
  <1>5. Copied'
    BY <1>4 DEF Copied
  <1> QED BY <1>1, <1>2, <1>3, <1>5

LEMMA ReleaseReadKeeps == ASSUME RingInv, ReleaseRead PROVE RingInv'
  <1> USE DEF ReleaseRead, RingInv
  <1>1. read' = read + 1
    BY DEF Indices, RingTypeOK
  <1>2. RingTypeOK'
    BY <1>1 DEF RingTypeOK, ConsumerAt
  <1>3. Indices'
    BY <1>1 DEF Indices, RingTypeOK
  <1>4. \A n \in Nat : read' <= n => read <= n
    BY <1>1 DEF RingTypeOK
  <1>5. Contents' /\ Reliance'
    BY <1>4 DEF Contents, Reliance, Relying
  <1>6. Copied'
    BY <1>1 DEF Copied, RingTypeOK
  <1> QED BY <1>2, <1>3, <1>5, <1>6

LEMMA RecheckKeeps == ASSUME RingInv, Recheck PROVE RingInv'
  <1> USE DEF Recheck, Applied, RingInv
  <1>1. RingTypeOK'
    BY DEF RingTypeOK, ConsumerAt
  <1>2. Indices' /\ Contents'
    BY DEF Indices, Contents
  <1>3. Reliance' /\ Copied'
    BY DEF Reliance, Copied, Relying, RingTypeOK, Epochs
  <1> QED BY <1>1, <1>2, <1>3

LEMMA SubmitKeeps == ASSUME NEW muted \in BOOLEAN, RingInv, Submit(muted) PROVE RingInv'
  <1> USE DEF Submit, Sounds, RingInv
  <1>1. RingTypeOK'
    BY DEF RingTypeOK, ConsumerAt, Copied, Blocks
  <1>2. Indices' /\ Contents' /\ Reliance'
    BY DEF Indices, Contents, Reliance, Relying, RingTypeOK
  <1>3. heard' < read
    BY DEF Copied, RingTypeOK
  <1>4. Copied'
    BY <1>3 DEF Copied
  <1> QED BY <1>1, <1>2, <1>4

LEMMA StepKeeps == RingInv /\ [RingNext]_ringVars => RingInv'
  <1> SUFFICES ASSUME RingInv, [RingNext]_ringVars PROVE RingInv'
    OBVIOUS
  <1>1. CASE ProducerStep
    BY <1>1, StoreDiscardKeeps, StoreStateKeeps, AcquireCellKeeps, CommitKeeps DEF ProducerStep
  <1>2. CASE ConsumerStep
    BY <1>2, ApplyStateKeeps, LoadDiscardKeeps, SkipStaleKeeps, LeaseKeeps, CopyOutKeeps,
       ReleaseReadKeeps, RecheckKeeps, SubmitKeeps DEF ConsumerStep
  <1>3. CASE UNCHANGED ringVars
    BY <1>3 DEF ringVars, RingInv, RingTypeOK, Indices, Contents, Reliance, Copied
  <1> QED BY <1>1, <1>2, <1>3 DEF RingNext

\* The inductive invariant of the ring, between any two accesses of either core.
THEOREM RingInvariant == RingSpec => []RingInv
  <1>1. RingInit => RingInv
    BY RingInitially
  <1>2. RingInv /\ [RingNext]_ringVars => RingInv'
    BY StepKeeps
  <1> QED BY <1>1, <1>2, PTL DEF RingSpec

\* The two cores never use the same cell, whatever the size of the ring and however
\* production, consumption and restarts interleave.
THEOREM CellsNeverShared == RingSpec => []NoSharedCell
  <1>1. RingInv => NoSharedCell
    <2> SUFFICES ASSUME RingInv, ppc = "copy", cpc \in {"copy", "release"} PROVE Cell(write) # Cell(read)
      BY DEF NoSharedCell
    <2>1. read < write /\ write - read < BlockCount /\ read \in Nat /\ write \in Nat
      BY DEF RingInv, Indices, RingTypeOK
    <2> QED BY <2>1, CellsApart
  <1> QED BY <1>1, RingInvariant, PTL

\* A block that may sound is whole, of the stream the sink was restarted for, and
\* later than everything heard before.
THEOREM RingCurrent == RingSpec => []SoundIsCurrent
  <1>1. RingInv => SoundIsCurrent
    BY DEF RingInv, Copied, SoundIsCurrent, Torn, Blocks
  <1> QED BY <1>1, RingInvariant, PTL

--------------------------------------------------------------------------------
(* The whole path. *)

USE PathAssumption

LEMMA PathStepIsRingStep == [PathNext]_pathVars => [RingNext]_ringVars
  <1> SUFFICES ASSUME [PathNext]_pathVars PROVE RingNext \/ UNCHANGED ringVars
    OBVIOUS
  <1>1. CASE EmulationTask
    BY <1>1 DEF EmulationTask, BeginTurn, FinishPause, Pace, Run, PublishBlock, EndSlice, RingNext, ProducerStep
  <1>2. CASE AudioTask
    BY <1>2 DEF AudioTask, Wake, Transfer, CopyToSink, PlayRaw, RingNext, ConsumerStep
  <1>3. CASE TimePasses \/ BufferPlayed \/ UNCHANGED pathVars
    BY <1>3 DEF TimePasses, BufferPlayed, pathVars
  <1> QED BY <1>1, <1>2, <1>3 DEF PathNext

\* The tasks of the firmware use the ring as AudioRing allows.
THEOREM PathImplementsRing == PathSpec => RingSpec
  <1>1. PathInit => RingInit
    BY DEF PathInit
  <1> QED BY <1>1, PathStepIsRingStep, PTL DEF PathSpec, RingSpec

\* Nor do the emulation task and the audio task.
THEOREM PathCellsNeverShared == PathSpec => []NoSharedCell
  BY PathImplementsRing, CellsNeverShared, PTL

\* Nothing of an ended stream starts to play, wherever the audio task was when the
\* emulation task paused or restarted it.
THEOREM PathCurrent == PathSpec => []SoundIsCurrent
  BY PathImplementsRing, RingCurrent, PTL

\* While a block may still be completed in this slice, two cells are free besides the
\* one that always is.
Room == Queued < BlockCount - 2
PathInv ==
    /\ filled \in 0 .. BlockUnits - 1 /\ left \in 0 .. SliceUnits
    /\ turn = "run" => ppc = "idle"
    /\ turn = "run" /\ filled + left >= BlockUnits => Room
    /\ turn = "publish" => ppc \in {"idle", "copy"} /\ filled + left < BlockUnits
    /\ turn = "publish" /\ ppc = "idle" => Room
    /\ ~dropped

LEMMA RoomGrows == ASSUME RingInv, RingInv', write' = write, read' >= read, Room PROVE Room'
  <1>1. {write, read, read', BlockCount} \subseteq Nat
    BY DEF RingInv, RingTypeOK, BlockCountAssumption
  <1> QED BY <1>1 DEF Room, Queued

LEMMA ConsumerMovesOn == RingInv /\ ConsumerStep => UNCHANGED producerVars /\ read' >= read
  <1> SUFFICES ASSUME RingInv, ConsumerStep PROVE UNCHANGED producerVars /\ read' >= read
    OBVIOUS
  <1> USE DEF RingInv, RingTypeOK
  <1>1. CASE SkipStale
    BY <1>1 DEF SkipStale, StaleCount
  <1>2. CASE ReleaseRead
    BY <1>2 DEF ReleaseRead
  <1>3. CASE ApplyState \/ LoadDiscard \/ Lease \/ CopyOut \/ Recheck \/ \E muted \in BOOLEAN : Submit(muted)
    BY <1>3 DEF ApplyState, LoadDiscard, Lease, CopyOut, Recheck, Submit
  <1> QED BY <1>1, <1>2, <1>3 DEF ConsumerStep

LEMMA PathInitially == PathInit => PathInv
  BY DEF PathInit, RingInit, PathInv

LEMMA PathStepKeeps == RingInv /\ RingInv' /\ PathInv /\ [PathNext]_pathVars => PathInv'
  <1> SUFFICES ASSUME RingInv, RingInv', PathInv, [PathNext]_pathVars PROVE PathInv'
    OBVIOUS
  <1> USE DEF PathInv
  <1>1. ASSUME NEW wanted \in BOOLEAN, BeginTurn(wanted) PROVE PathInv'
    BY <1>1 DEF BeginTurn, StoreDiscard, ringVars
  <1>2. CASE FinishPause
    BY <1>2 DEF FinishPause, StoreState, guestVars
  <1>3. CASE Pace
    BY <1>3 DEF Pace, NeedsQueuePacing, ringVars, Room, Queued, RingInv, RingTypeOK
  <1>4. ASSUME NEW k \in 1 .. SliceUnits, Run(k) PROVE PathInv'
    BY <1>4 DEF Run, ringVars, Room, Queued
  <1>5. CASE PublishBlock
    <2>1. CASE AcquireCell
      BY <1>5, <2>1 DEF PublishBlock, AcquireCell, Room, Queued, RingInv, RingTypeOK
    <2>2. CASE Commit
      BY <1>5, <2>2 DEF PublishBlock, Commit
    <2> QED BY <1>5, <2>1, <2>2 DEF PublishBlock
  <1>6. CASE EndSlice
    BY <1>6 DEF EndSlice, ringVars
  <1>7. CASE TimePasses \/ BufferPlayed \/ UNCHANGED pathVars
    BY <1>7 DEF TimePasses, BufferPlayed, pathVars, guestVars, ringVars, Room, Queued
  <1>8. CASE AudioTask
    <2>1. UNCHANGED <<guestVars, producerVars>> /\ read' >= read
      BY <1>8, ConsumerMovesOn
      DEF AudioTask, Wake, Transfer, CopyToSink, PlayRaw, ConsumerStep, ringVars, RingInv, RingTypeOK
    <2>2. Room => Room'
      BY <2>1, RoomGrows
    <2> QED BY <2>1, <2>2 DEF guestVars
  <1> QED BY <1>1, <1>2, <1>3, <1>4, <1>5, <1>6, <1>7, <1>8 DEF PathNext, EmulationTask

\* With slices shorter than a block, pacing alone keeps the ring from ever being
\* full, whatever its size and however slow the audio task is.
THEOREM PathNothingDropped == PathSpec => []NothingDropped
  <1>1. PathInv => NothingDropped
    BY DEF PathInv, NothingDropped
  <1>2. PathSpec => []RingInv
    BY PathImplementsRing, RingInvariant, PTL
  <1> QED BY <1>1, <1>2, PathInitially, PathStepKeeps, PTL DEF PathSpec

--------------------------------------------------------------------------------
(* The buffers of the sink. *)

Following(n) == (n + 1) % PlayBuffers

\* Whatever the hardware keeps was handed over just before `next`, in this order.
SinkInv ==
    /\ next \in 0 .. PlayBuffers - 1
    /\ held \in Seq(0 .. PlayBuffers - 1) /\ Len(held) <= 2
    /\ Len(held) = 1 => Following(held[1]) = next
    /\ Len(held) = 2 => Following(held[1]) = held[2] /\ Following(held[2]) = next

\* Of three buffers or more, one follows the other, and none comes round in two.
LEMMA FollowingBuffers ==
    ASSUME NEW n \in 0 .. PlayBuffers - 1
    PROVE  /\ Following(n) \in 0 .. PlayBuffers - 1
           /\ Following(n) # n
           /\ Following(Following(n)) # n
  <1>1. Following(n) = IF n + 1 = PlayBuffers THEN 0 ELSE n + 1
    BY DEF Following
  <1>2. \A m \in 0 .. PlayBuffers - 1 : Following(m) = IF m + 1 = PlayBuffers THEN 0 ELSE m + 1
    BY DEF Following
  <1> QED BY <1>1, <1>2

LEMMA UpToTwo == ASSUME NEW n \in Nat, n <= 2 PROVE n \in {0, 1, 2}
  OBVIOUS

LEMMA HeldAtMostTwo == SinkInv => Len(held) \in {0, 1, 2}
  <1> SUFFICES ASSUME SinkInv PROVE Len(held) \in {0, 1, 2}
    OBVIOUS
  <1>1. Len(held) \in Nat /\ Len(held) <= 2
    BY DEF SinkInv
  <1> QED BY <1>1, UpToTwo

LEMMA SinkInitially == PathInit => SinkInv
  BY DEF PathInit, SinkInv

LEMMA SinkStepKeeps == SinkInv /\ [PathNext]_pathVars => SinkInv'
  <1> SUFFICES ASSUME SinkInv, [PathNext]_pathVars PROVE SinkInv'
    OBVIOUS
  <1> USE DEF SinkInv
  <1>1. CASE EmulationTask \/ TimePasses \/ UNCHANGED pathVars
    BY <1>1 DEF EmulationTask, BeginTurn, FinishPause, Pace, Run, PublishBlock, EndSlice, TimePasses,
       taskVars, sinkVars, pathVars
  <1>2. CASE Wake \/ (\E muted \in BOOLEAN : CopyToSink(muted))
    BY <1>2 DEF Wake, CopyToSink, sinkVars
  <1>3. CASE Transfer
    <2>1. UNCHANGED sinkVars \/ (next' = 0 /\ held' = <<>>)
      BY <1>3 DEF Transfer, SinkFollows
    <2>2. CASE UNCHANGED sinkVars
      BY <2>2 DEF sinkVars
    <2>3. CASE next' = 0 /\ held' = <<>>
      BY <2>3, PathAssumption
    <2> QED BY <2>1, <2>2, <2>3
  <1>4. CASE PlayRaw
    <2>1. CASE UNCHANGED sinkVars
      BY <2>1 DEF sinkVars
    <2>2. CASE Len(held) < 2 /\ held' = Append(held, next) /\ next' = Following(next)
      <3>1. next' \in 0 .. PlayBuffers - 1
        BY <2>2, FollowingBuffers
      <3>2. held' \in Seq(0 .. PlayBuffers - 1) /\ Len(held') = Len(held) + 1
        BY <2>2
      <3>3. Len(held) \in {0, 1}
        BY <2>2, HeldAtMostTwo
      <3>4. held'[Len(held) + 1] = next /\ (Len(held) = 1 => held'[1] = held[1])
        BY <2>2, <3>3
      <3> QED BY <2>2, <3>1, <3>2, <3>3, <3>4
    <2> QED BY <1>4, <2>1, <2>2 DEF PlayRaw, Following
  <1>5. CASE BufferPlayed
    <2>1. /\ held' \in Seq(0 .. PlayBuffers - 1) /\ Len(held') = Len(held) - 1
          /\ Len(held) = 2 => held'[1] = held[2]
          /\ Len(held) \in {1, 2}
      <3>1. Len(held) \in {1, 2}
        BY <1>5, HeldAtMostTwo DEF BufferPlayed
      <3> QED BY <1>5, <3>1 DEF BufferPlayed
    <2> QED BY <1>5, <2>1 DEF BufferPlayed
  <1> QED BY <1>1, <1>2, <1>3, <1>4, <1>5 DEF PathNext, AudioTask

\* The sink never copies into a buffer that is playing or waits to be played,
\* with any number of buffers above the two that the hardware keeps.
THEOREM PathPlayedIntact == PathSpec => []PlayedIntact
  <1>1. SinkInv => PlayedIntact
    <2> SUFFICES ASSUME SinkInv, NEW i \in 1 .. Len(held) PROVE held[i] # next
      BY DEF PlayedIntact
    <2>1. \A j \in 1 .. Len(held) : held[j] \in 0 .. PlayBuffers - 1
      BY DEF SinkInv
    <2>2. CASE Len(held) = 1
      BY <2>1, <2>2, FollowingBuffers DEF SinkInv
    <2>3. CASE Len(held) = 2
      <3>1. held[1] # next
        BY <2>1, <2>3, FollowingBuffers DEF SinkInv
      <3>2. held[2] # next
        BY <2>1, <2>3, FollowingBuffers DEF SinkInv
      <3> QED BY <2>3, <3>1, <3>2
    <2>4. Len(held) \in {1, 2}
      BY HeldAtMostTwo DEF SinkInv
    <2> QED BY <2>2, <2>3, <2>4
  <1> QED BY <1>1, SinkInitially, SinkStepKeeps, PTL DEF PathSpec

================================================================================
