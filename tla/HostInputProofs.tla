---------------------------- MODULE HostInputProofs ----------------------------
(******************************************************************************)
(* Proofs about HostInput, for any positions, key codes, queue length, routines    *)
(* and bounds.                                                                    *)
(*                                                                                *)
(* KeyInv: every event that waits in the key queue has its place among the bytes    *)
(* that were accepted (Placed), the byte in the MFP and the release held back come   *)
(* right before them, and a byte is read before the next one may be written         *)
(* (KeyCounters); so the guest hears what was accepted, in order.                   *)
(*                                                                                *)
(* DragInv: while a drag is on it remembers the last sample of the panel, and the    *)
(* X68000 is shown; so the mouse moves only as a finger does that is seen twice.      *)
(*                                                                                *)
(* MouseServed: a byte that waits in the serial controller's FIFO has its interrupt   *)
(* requested, or the handler is about to read.  It needs to know where the register   *)
(* pointer is, because the handler ends with a byte that is a command only if the     *)
(* pointer is at WR0.                                                              *)
(*                                                                                *)
(* Reports and Balance: what the guest has read and what waits are whole reports, and  *)
(* no distance is lost, so long as what gathers between two reports fits a byte.       *)
(*                                                                                *)
(* An operator on a sequence is a fold here, and induction is not at hand as a rule    *)
(* with an operator parameter; what is needed of it is proved about sets of numbers     *)
(* first: a set with 0 and every successor has all of Nat, because otherwise the       *)
(* numbers below a missing one would map into themselves one to one and not onto.       *)
(******************************************************************************)
EXTENDS HostInput, TLAPS, FiniteSetTheorems, SequenceTheorems

\* How many bytes the guest is owed for an event, and the event as a pair.
Owed(event) == IF event[2] = TRUE THEN 2 ELSE 1
Event == (1 .. 255) \X BOOLEAN

\* The bytes between the guest and the queue: one in the MFP, one held back.
Ahead == (IF full THEN 1 ELSE 0) + (IF pendingRelease # Keys!None THEN 1 ELSE 0)

\* p[i] is how many of the accepted bytes come before those of event i + 1 in the queue.
Placed(p) ==
    /\ p \in [0 .. Len(queue) -> 0 .. Len(accepted)]
    /\ p[0] = Len(heard) + Ahead /\ p[Len(queue)] = Len(accepted)
    /\ \A i \in 1 .. Len(queue) :
          /\ p[i] = p[i - 1] + Owed(queue[i])
          /\ accepted[p[i - 1] + 1] = queue[i][1]
          /\ queue[i][2] = TRUE => accepted[p[i - 1] + 2] = Keys!Release(queue[i][1])

KeyCounters ==
    /\ queue \in Seq(Event) /\ accepted \in Seq(1 .. 255) /\ heard \in Seq(0 .. 255)
    /\ stepsLeft \in 0 .. StepsPerEvent /\ waited \in Nat /\ full \in BOOLEAN
    /\ udr \in 0 .. 255 /\ pendingRelease \in 0 .. 127
    /\ \A i \in 1 .. Len(queue) : queue[i][2] = TRUE => queue[i][1] \in 1 .. 127
    /\ full => waited + stepsLeft >= StepsPerEvent

KeyOrder ==
    /\ \A i \in 1 .. Len(heard) : heard[i] = accepted[i]
    /\ full => accepted[Len(heard) + 1] = udr
    /\ pendingRelease # Keys!None => accepted[Len(heard) + Ahead] = Keys!Release(pendingRelease)
    /\ \E p : Placed(p)

KeyInv == KeyCounters /\ KeyOrder

\* Nothing is in the queue, and nothing was accepted.
LEMMA KeysInit == Keys!Init => KeyInv
<1> SUFFICES ASSUME Keys!Init PROVE KeyInv
  OBVIOUS
<1>1. /\ queue = <<>> /\ accepted = <<>> /\ heard = <<>> /\ stepsLeft = 0
      /\ pendingRelease = 0 /\ udr = 0 /\ full = FALSE /\ waited = 0 /\ Ahead = 0
  BY DEF Keys!Init, Keys!None, Ahead
<1>2. KeyCounters
  <2>1. \A i \in 1 .. Len(queue) : queue[i][2] = TRUE => queue[i][1] \in 1 .. 127
    BY <1>1
  <2>2. queue \in Seq(Event) /\ accepted \in Seq(1 .. 255) /\ heard \in Seq(0 .. 255)
    BY <1>1
  <2>3. /\ stepsLeft \in 0 .. StepsPerEvent /\ waited \in Nat
        /\ udr \in 0 .. 255 /\ pendingRelease \in 0 .. 127
    BY <1>1, HostAssumption
  <2>4. full \in BOOLEAN /\ (full => waited + stepsLeft >= StepsPerEvent)
    BY <1>1, Zenon
  <2> QED BY <2>1, <2>2, <2>3, <2>4, Zenon DEF KeyCounters
<1>3. Placed([i \in 0 .. 0 |-> 0])
  BY <1>1 DEF Placed
<1>4. KeyOrder
  <2>1. ~full /\ ~(pendingRelease # Keys!None) /\ \A i \in 1 .. Len(heard) : heard[i] = accepted[i]
    BY <1>1 DEF Keys!None
  <2> QED BY <2>1, <1>3, Zenon DEF KeyOrder
<1> QED BY <1>2, <1>4 DEF KeyInv

Bytes(event) ==
    IF event[2] = TRUE THEN <<event[1], Keys!Release(event[1])>> ELSE <<event[1]>>
QueueJoined(event) == queue' = Append(queue, event)
AcceptedJoined(event) == accepted' = accepted \o Bytes(event)
\* An accepted event is put behind all others.
LEMMA Queued ==
    ASSUME KeyInv, NEW event \in Event, event[2] = TRUE => event[1] \in 1 .. 127,
           QueueJoined(event), AcceptedJoined(event),
           UNCHANGED <<stepsLeft, pendingRelease, udr, full, waited, heard>>
    PROVE  KeyInv'
<1> DEFINE n == Len(queue)  a == Len(accepted)  bytes == Bytes(event)
<1>0. /\ queue \in Seq(Event) /\ accepted \in Seq(1 .. 255) /\ heard \in Seq(0 .. 255)
      /\ n \in Nat /\ a \in Nat /\ Len(queue) = n /\ Len(accepted) = a /\ DOMAIN accepted = 1 .. a
      /\ DOMAIN queue = 1 .. n
      /\ Len(heard) \in Nat /\ Ahead \in 0 .. 2 /\ Ahead' = Ahead /\ heard' = heard
  BY DEF KeyInv, KeyCounters, Ahead
<1> HIDE DEF n, a
<1> HIDE DEF bytes
<1>1. bytes \in Seq(1 .. 255) /\ Len(bytes) = Owed(event) /\ bytes[1] = event[1]
      /\ (event[2] = TRUE => bytes[2] = Keys!Release(event[1]))
  <2>1. event[1] \in 1 .. 255 /\ event[2] \in BOOLEAN
    BY DEF Event
  <2>2. CASE event[2] = TRUE
    <3>0. event[1] \in 1 .. 127
      BY <2>2
    <3>1. Keys!Release(event[1]) \in 1 .. 255
      BY <3>0 DEF Keys!Release
    <3>2. bytes = <<event[1], Keys!Release(event[1])>> /\ Owed(event) = 2
      BY <2>2 DEF Owed, bytes, Bytes
    <3> QED BY <2>1, <3>1, <3>2
  <2>3. CASE event[2] = FALSE
    <3>1. bytes = <<event[1]>> /\ Owed(event) = 1
      BY <2>3 DEF Owed, bytes, Bytes
    <3> QED BY <2>1, <2>3, <3>1
  <2> QED BY <2>1, <2>2, <2>3
<1>2. /\ accepted' \in Seq(1 .. 255) /\ Len(accepted') = a + Owed(event)
      /\ \A i \in 1 .. a : accepted'[i] = accepted[i]
      /\ accepted'[a + 1] = event[1] /\ (event[2] = TRUE => accepted'[a + 2] = Keys!Release(event[1]))
  <2>1. accepted' = accepted \o bytes
    BY DEF AcceptedJoined, bytes
  <2>2. Owed(event) \in 1 .. 2 /\ (event[2] = TRUE => Owed(event) = 2)
    BY DEF Owed
  <2>3. accepted' \in Seq(1 .. 255) /\ Len(accepted') = a + Owed(event)
    BY <1>0, <1>1, <2>1, <2>2
  <2>4. \A i \in 1 .. a : accepted'[i] = accepted[i]
    BY <1>0, <1>1, <2>1, <2>2
  <2>5. \A i \in 1 .. Owed(event) : accepted'[a + i] = bytes[i]
    BY <1>0, <1>1, <2>1, <2>2
  <2>6. 1 \in 1 .. Owed(event) /\ (event[2] = TRUE => 2 \in 1 .. Owed(event))
    BY <2>2
  <2> QED BY <1>1, <2>3, <2>4, <2>5, <2>6
<1>3. /\ queue' \in Seq(Event) /\ Len(queue') = n + 1
      /\ \A i \in 1 .. n : queue'[i] = queue[i]
      /\ queue'[n + 1] = event
  BY <1>0 DEF QueueJoined
<1>4. KeyCounters'
  <2>1. \A i \in 1 .. n + 1 : i \in 1 .. n \/ i = n + 1
    BY <1>0
  <2>2. \A i \in 1 .. n + 1 : queue'[i][2] = TRUE => queue'[i][1] \in 1 .. 127
    BY <1>0, <1>3, <2>1 DEF KeyInv, KeyCounters
  <2> QED BY <1>2, <1>3, <2>2 DEF KeyInv, KeyCounters
<1>5. PICK p : Placed(p)
  BY DEF KeyInv, KeyOrder
<1>r. PICK r : r = [i \in 0 .. n + 1 |-> IF i = n + 1 THEN a + Owed(event) ELSE p[i]]
  OBVIOUS
<1>6. /\ p \in [0 .. n -> 0 .. a] /\ p[0] = Len(heard) + Ahead /\ p[n] = a
      /\ \A i \in 1 .. n :
          /\ p[i] = p[i - 1] + Owed(queue[i])
          /\ accepted[p[i - 1] + 1] = queue[i][1]
          /\ queue[i][2] = TRUE => accepted[p[i - 1] + 2] = Keys!Release(queue[i][1])
  BY <1>0, <1>5 DEF Placed
<1>7. Placed(r)'
  <2>1. Owed(event) \in 1 .. 2
    BY DEF Owed
  <2>2. r \in [0 .. n + 1 -> 0 .. a + Owed(event)]
    BY <1>0, <1>6, <1>r, <2>1
  <2>3. r[0] = Len(heard) + Ahead /\ r[n + 1] = a + Owed(event)
    BY <1>0, <1>6, <1>r
  <2>4. \A i \in 0 .. n : r[i] = p[i] /\ p[i] \in 0 .. a
    BY <1>0, <1>6, <1>r
  <2>5. ASSUME NEW i \in 1 .. n
        PROVE  /\ r[i] = r[i - 1] + Owed(queue'[i])
               /\ accepted'[r[i - 1] + 1] = queue'[i][1]
               /\ queue'[i][2] = TRUE => accepted'[r[i - 1] + 2] = Keys!Release(queue'[i][1])
    <3>1. i \in 0 .. n /\ i - 1 \in 0 .. n /\ queue'[i] = queue[i]
      BY <1>0, <1>3
    <3>2. r[i] = p[i] /\ r[i - 1] = p[i - 1] /\ p[i] \in 0 .. a /\ p[i - 1] \in 0 .. a
      BY <2>4, <3>1
    <3>3. /\ p[i] = p[i - 1] + Owed(queue[i])
          /\ accepted[p[i - 1] + 1] = queue[i][1]
          /\ queue[i][2] = TRUE => accepted[p[i - 1] + 2] = Keys!Release(queue[i][1])
      BY <1>6
    <3>4. p[i - 1] + 1 \in 1 .. a /\ (queue[i][2] = TRUE => p[i - 1] + 2 \in 1 .. a)
      BY <1>0, <3>2, <3>3 DEF Owed
    <3> QED BY <1>2, <3>1, <3>2, <3>3, <3>4
  <2>6. /\ r[n + 1] = r[n] + Owed(queue'[n + 1])
        /\ accepted'[r[n] + 1] = queue'[n + 1][1]
        /\ queue'[n + 1][2] = TRUE => accepted'[r[n] + 2] = Keys!Release(queue'[n + 1][1])
    <3>1. n \in 0 .. n /\ r[n] = a /\ queue'[n + 1] = event
      BY <1>0, <1>3, <1>6, <2>4
    <3> QED BY <1>2, <2>3, <3>1
  <2>7. ASSUME NEW i \in 1 .. n + 1
        PROVE  /\ r[i] = r[i - 1] + Owed(queue'[i])
               /\ accepted'[r[i - 1] + 1] = queue'[i][1]
               /\ queue'[i][2] = TRUE => accepted'[r[i - 1] + 2] = Keys!Release(queue'[i][1])
    <3>1. CASE i \in 1 .. n
      BY <2>5, <3>1
    <3>2. CASE i = n + 1
      <4>1. i - 1 = n
        BY <1>0, <3>2
      <4> QED BY <2>6, <3>2, <4>1
    <3>3. i \in 1 .. n \/ i = n + 1
      BY <1>0
    <3> QED BY <3>1, <3>2, <3>3
  <2>8. Len(queue') = n + 1 /\ Len(accepted') = a + Owed(event) /\ Len(heard') + Ahead' = Len(heard) + Ahead
    BY <1>0, <1>2, <1>3
  <2>9. r \in [0 .. Len(queue') -> 0 .. Len(accepted')]
    BY <2>2, <2>8
  <2>10. r[0] = Len(heard') + Ahead' /\ r[Len(queue')] = Len(accepted')
    BY <2>3, <2>8
  <2>11. ASSUME NEW i \in 1 .. Len(queue')
         PROVE  /\ r[i] = r[i - 1] + Owed(queue'[i])
                /\ accepted'[r[i - 1] + 1] = queue'[i][1]
                /\ queue'[i][2] = TRUE => accepted'[r[i - 1] + 2] = Keys!Release(queue'[i][1])
    <3>1. i \in 1 .. n + 1
      BY <2>8
    <3> QED BY <2>7, <3>1
  <2> QED BY <2>9, <2>10, <2>11, Zenon DEF Placed, Owed
<1>8. KeyOrder'
  <2>1. p[0] \in 0 .. a
    BY <1>0, <1>6
  <2>2. Len(heard) + Ahead <= a
    BY <1>0, <1>6, <2>1
  <2>3. \A i \in 1 .. Len(heard) : i \in 1 .. a
    BY <1>0, <2>2
  <2>4. \A i \in 1 .. Len(heard) : heard'[i] = accepted'[i]
    BY <1>2, <2>3 DEF KeyInv, KeyOrder
  <2>5. full => Len(heard) + 1 \in 1 .. a
    BY <1>0, <2>2 DEF Ahead, Keys!None, KeyInv, KeyCounters
  <2>6. pendingRelease # Keys!None => Len(heard) + Ahead \in 1 .. a
    BY <1>0, <2>2 DEF Ahead, Keys!None, KeyInv, KeyCounters
  <2>7. full' => accepted'[Len(heard) + 1] = udr'
    BY <1>2, <2>5 DEF KeyInv, KeyOrder
  <2>8. pendingRelease' # Keys!None => accepted'[Len(heard) + Ahead] = Keys!Release(pendingRelease')
    BY <1>2, <2>6 DEF KeyInv, KeyOrder
  <2> QED BY <1>0, <1>7, <2>4, <2>7, <2>8 DEF KeyOrder
<1> QED BY <1>4, <1>8 DEF KeyInv

\* Where the bytes are does not change while neither list does.
LEMMA PlacedStays ==
    ASSUME KeyOrder, queue' = queue, accepted' = accepted, Len(heard') + Ahead' = Len(heard) + Ahead
    PROVE  \E p : Placed(p)'
<1>1. PICK p : Placed(p)
  BY DEF KeyOrder
<1>2. /\ p \in [0 .. Len(queue') -> 0 .. Len(accepted')]
      /\ p[0] = Len(heard') + Ahead' /\ p[Len(queue')] = Len(accepted')
  BY <1>1 DEF Placed
<1>3. \A i \in 1 .. Len(queue') :
          /\ p[i] = p[i - 1] + Owed(queue'[i])
          /\ accepted'[p[i - 1] + 1] = queue'[i][1]
          /\ queue'[i][2] = TRUE => accepted'[p[i - 1] + 2] = Keys!Release(queue'[i][1])
  BY <1>1 DEF Placed
<1>4. Placed(p)'
  BY <1>2, <1>3, Zenon DEF Placed, Owed
<1> QED BY <1>4

\* Nothing happens to the keys.
LEMMA Unmoved ==
    ASSUME KeyInv,
           UNCHANGED <<queue, stepsLeft, pendingRelease, udr, full, waited, accepted, heard>>
    PROVE  KeyInv'
<1>1. /\ queue' = queue /\ stepsLeft' = stepsLeft /\ pendingRelease' = pendingRelease /\ udr' = udr
      /\ full' = full /\ waited' = waited /\ accepted' = accepted /\ heard' = heard
  OBVIOUS
<1>2. KeyCounters'
  BY <1>1 DEF KeyInv, KeyCounters
<1>3. Ahead' = Ahead
  BY <1>1 DEF Ahead
<1>4. \E p : Placed(p)'
  BY <1>1, <1>3, PlacedStays DEF KeyInv
<1>5. KeyOrder'
  BY <1>1, <1>3, <1>4 DEF KeyInv, KeyOrder
<1> QED BY <1>2, <1>5 DEF KeyInv

\* A key that is accepted: two bytes, at the end.
LEMMA PushStep == ASSUME KeyInv, NEW code \in 1 .. 127, Keys!Push(code) PROVE KeyInv'
<1>1. <<code, TRUE>> \in Event
  <2>1. code \in 1 .. 255
    OBVIOUS
  <2> QED BY <2>1, Zenon DEF Event
<1>2. queue \in Seq(Event) /\ Len(queue) \in Nat
  BY DEF KeyInv, KeyCounters
<1>3. Append(queue, <<code, TRUE>>) # queue
  <2> DEFINE longer == Append(queue, <<code, TRUE>>)
  <2>1. Len(longer) = Len(queue) + 1
    BY <1>1, <1>2
  <2> HIDE DEF longer
  <2>2. longer # queue
    BY <1>2, <2>1
  <2> QED BY <2>2 DEF longer
<1>4. CASE Len(queue) < QueueLength
  <2>1. QueueJoined(<<code, TRUE>>)
    BY <1>4 DEF Keys!Push, Keys!Enqueue, QueueJoined
  <2>2. queue' # queue
    BY <1>3, <2>1 DEF QueueJoined
  <2>3. AcceptedJoined(<<code, TRUE>>)
    BY <2>2 DEF Keys!Push, AcceptedJoined, Bytes
  <2> QED BY <1>1, <2>1, <2>3, Queued DEF Keys!Push
<1>5. CASE ~(Len(queue) < QueueLength)
  BY <1>5, Unmoved DEF Keys!Push, Keys!Enqueue
<1> QED BY <1>4, <1>5

\* A scan code that is accepted: one byte, at the end.
LEMMA PushScanStep == ASSUME KeyInv, NEW code \in 1 .. 255, Keys!PushScan(code) PROVE KeyInv'
<1>1. <<code, FALSE>> \in Event
  BY DEF Event
<1>2. queue \in Seq(Event) /\ Len(queue) \in Nat /\ accepted \in Seq(1 .. 255)
  BY DEF KeyInv, KeyCounters
<1>3. Append(queue, <<code, FALSE>>) # queue
  <2> DEFINE longer == Append(queue, <<code, FALSE>>)
  <2>1. Len(longer) = Len(queue) + 1
    BY <1>1, <1>2
  <2> HIDE DEF longer
  <2>2. longer # queue
    BY <1>2, <2>1
  <2> QED BY <2>2 DEF longer
<1>4. CASE Len(queue) < QueueLength
  <2>1. QueueJoined(<<code, FALSE>>)
    BY <1>4 DEF Keys!PushScan, Keys!Enqueue, QueueJoined
  <2>2. queue' # queue
    BY <1>3, <2>1 DEF QueueJoined
  <2>3. accepted' = Append(accepted, code)
    BY <2>2 DEF Keys!PushScan
  <2>4. Append(accepted, code) = accepted \o <<code>>
    BY <1>2
  <2>5. AcceptedJoined(<<code, FALSE>>)
    BY <2>3, <2>4 DEF AcceptedJoined, Bytes
  <2> QED BY <1>1, <2>1, <2>5, Queued DEF Keys!PushScan
<1>5. CASE ~(Len(queue) < QueueLength)
  BY <1>5, Unmoved DEF Keys!PushScan, Keys!Enqueue
<1> QED BY <1>4, <1>5

\* A turn in which the guest reads nothing and nothing is put in the MFP.
LEMMA Waiting ==
    ASSUME KeyInv, NEW steps \in 0 .. StepsPerEvent, stepsLeft' = steps,
           full = TRUE => waited + 1 + steps >= StepsPerEvent,
           waited' = (IF full THEN waited + 1 ELSE 0),
           UNCHANGED <<queue, pendingRelease, udr, full, accepted, heard>>
    PROVE  KeyInv'
<1>1. /\ queue' = queue /\ accepted' = accepted /\ heard' = heard /\ full' = full /\ udr' = udr
      /\ pendingRelease' = pendingRelease /\ Ahead' = Ahead
  BY DEF Ahead
<1>2. full \in BOOLEAN /\ waited \in Nat
  BY DEF KeyInv, KeyCounters
<1>3. waited' \in Nat /\ (full' => waited' + stepsLeft' >= StepsPerEvent)
  BY <1>1, <1>2
<1>4. KeyCounters'
  <2>1. stepsLeft' \in 0 .. StepsPerEvent
    OBVIOUS
  <2> QED BY <1>1, <1>3, <2>1 DEF KeyInv, KeyCounters
<1>5. KeyOrder'
  <2>1. \E p : Placed(p)'
    BY <1>1, PlacedStays DEF KeyInv
  <2> QED BY <1>1, <2>1 DEF KeyInv, KeyOrder
<1> QED BY <1>4, <1>5 DEF KeyInv

\* The byte in the MFP has been read when the next is put there.
LEMMA Vacant ==
    ASSUME GuestLatency <= StepsPerEvent + 1, KeyInv, stepsLeft = 0, full => waited + 1 < GuestLatency
    PROVE  full = FALSE
BY HostAssumption DEF KeyInv, KeyCounters

\* The release that was held back goes into the empty MFP.
LEMMA ReleaseStep ==
    ASSUME KeyInv, full = FALSE, Keys!DrainRelease
    PROVE  KeyInv'
<1>1. /\ pendingRelease \in 1 .. 127 /\ Keys!Release(pendingRelease) \in 0 .. 255
      /\ udr' = Keys!Release(pendingRelease) /\ full' = TRUE /\ waited' = 0
      /\ pendingRelease' = 0 /\ stepsLeft' = StepsPerEvent
      /\ queue' = queue /\ accepted' = accepted /\ heard' = heard
      /\ Ahead = 1 /\ Ahead' = 1
  <2>1. /\ pendingRelease \in 0 .. 127 /\ pendingRelease # 0
        /\ udr' = Keys!Release(pendingRelease) /\ full' = TRUE /\ waited' = 0
        /\ pendingRelease' = 0 /\ stepsLeft' = StepsPerEvent
        /\ queue' = queue /\ accepted' = accepted /\ heard' = heard
    BY DEF KeyInv, KeyCounters, Keys!DrainRelease, Keys!Receive, Keys!None
  <2>2. pendingRelease \in 1 .. 127
    BY <2>1
  <2>3. Keys!Release(pendingRelease) \in 0 .. 255
    BY <2>2 DEF Keys!Release
  <2>4. Ahead = 1 /\ Ahead' = 1
    BY <2>1 DEF Ahead, Keys!None
  <2> QED BY <2>1, <2>2, <2>3, <2>4
<1>2. KeyCounters'
  <2>1. /\ stepsLeft' \in 0 .. StepsPerEvent /\ waited' \in Nat /\ waited' + stepsLeft' >= StepsPerEvent
        /\ pendingRelease' \in 0 .. 127
    BY <1>1, HostAssumption
  <2> QED BY <1>1, <2>1, Zenon DEF KeyInv, KeyCounters
<1>3. accepted[Len(heard) + 1] = Keys!Release(pendingRelease)
  BY <1>1 DEF KeyInv, KeyOrder, Keys!None
<1>4. KeyOrder'
  <2>1. \E p : Placed(p)'
    BY <1>1, PlacedStays DEF KeyInv
  <2>2. /\ accepted'[Len(heard') + 1] = udr' /\ pendingRelease' = Keys!None
        /\ \A i \in 1 .. Len(heard') : heard'[i] = accepted'[i]
    BY <1>1, <1>3 DEF Keys!None, KeyInv, KeyOrder
  <2> QED BY <2>1, <2>2, Zenon DEF KeyOrder
<1> QED BY <1>2, <1>4 DEF KeyInv

\* The first event of the queue goes into the empty MFP.
LEMMA EventStep ==
    ASSUME KeyInv, full = FALSE, Keys!DrainEvent
    PROVE  KeyInv'
<1> DEFINE n == Len(queue)  a == Len(accepted)  event == queue[1]
<1>0. /\ queue \in Seq(Event) /\ queue # <<>> /\ accepted \in Seq(1 .. 255) /\ heard \in Seq(0 .. 255)
      /\ Len(queue) = n /\ Len(accepted) = a /\ n \in Nat /\ n > 0 /\ a \in Nat /\ Len(heard) \in Nat
  BY DEF KeyInv, KeyCounters, Keys!DrainEvent
<1>1. /\ event \in Event /\ event[1] \in 1 .. 255 /\ event[2] \in BOOLEAN
      /\ event[2] = TRUE => event[1] \in 1 .. 127
  <2>1. 1 \in 1 .. n /\ event \in Event
    BY <1>0
  <2> QED BY <2>1 DEF KeyInv, KeyCounters, Event
<1>2. /\ udr' = event[1] /\ full' = TRUE /\ waited' = 0 /\ stepsLeft' = StepsPerEvent
      /\ pendingRelease = 0 /\ pendingRelease' = IF event[2] = TRUE THEN event[1] ELSE 0
      /\ accepted' = accepted /\ heard' = heard
  <2>1. Head(queue) = event
    BY <1>0
  <2> QED BY <1>1, <2>1 DEF Keys!DrainEvent, Keys!Receive, Keys!None
<1>3. /\ queue' \in Seq(Event) /\ Len(queue') = n - 1
      /\ \A i \in 1 .. n - 1 : queue'[i] = queue[i + 1]
  BY <1>0 DEF Keys!DrainEvent
<1> HIDE DEF n, a, event
<1>4. Ahead = 0 /\ Ahead' = Owed(event)
  BY <1>1, <1>2 DEF Ahead, Owed, Keys!None
<1>5. KeyCounters'
  <2>1. /\ stepsLeft' \in 0 .. StepsPerEvent /\ waited' \in Nat /\ waited' + stepsLeft' >= StepsPerEvent
        /\ pendingRelease' \in 0 .. 127 /\ udr' \in 0 .. 255
    BY <1>1, <1>2, HostAssumption
  <2>2. \A i \in 1 .. Len(queue') : queue'[i][2] = TRUE => queue'[i][1] \in 1 .. 127
    <3> SUFFICES ASSUME NEW i \in 1 .. n - 1 PROVE queue'[i][2] = TRUE => queue'[i][1] \in 1 .. 127
      BY <1>3
    <3>1. queue'[i] = queue[i + 1] /\ i + 1 \in 1 .. n
      BY <1>0, <1>3
    <3> QED BY <1>0, <3>1 DEF KeyInv, KeyCounters
  <2> QED BY <1>0, <1>2, <1>3, <2>1, <2>2, Zenon DEF KeyCounters
<1>6. PICK p : Placed(p)
  BY DEF KeyInv, KeyOrder
<1>7. /\ p \in [0 .. n -> 0 .. a] /\ p[0] = Len(heard) /\ p[n] = a
      /\ \A i \in 1 .. n :
          /\ p[i] = p[i - 1] + Owed(queue[i])
          /\ accepted[p[i - 1] + 1] = queue[i][1]
          /\ queue[i][2] = TRUE => accepted[p[i - 1] + 2] = Keys!Release(queue[i][1])
  BY <1>0, <1>4, <1>6 DEF Placed
<1>8. /\ p[1] = Len(heard) + Owed(event)
      /\ accepted[Len(heard) + 1] = event[1]
      /\ event[2] = TRUE => accepted[Len(heard) + 2] = Keys!Release(event[1])
  <2>1. 1 \in 1 .. n
    BY <1>0
  <2> QED BY <1>7, <2>1 DEF event
<1>r. PICK r : r = [i \in 0 .. n - 1 |-> p[i + 1]]
  OBVIOUS
<1>9. Placed(r)'
  <2>1. Len(queue') = n - 1 /\ Len(accepted') = a /\ Len(heard') + Ahead' = Len(heard) + Owed(event)
    BY <1>0, <1>2, <1>3, <1>4
  <2>2. r \in [0 .. n - 1 -> 0 .. a] /\ r[0] = p[1] /\ r[n - 1] = p[n]
    BY <1>0, <1>7, <1>r
  <2>3. r \in [0 .. Len(queue') -> 0 .. Len(accepted')]
    BY <2>1, <2>2
  <2>4. r[0] = Len(heard') + Ahead' /\ r[Len(queue')] = Len(accepted')
    BY <1>7, <1>8, <2>1, <2>2
  <2>5. ASSUME NEW i \in 1 .. Len(queue')
        PROVE  /\ r[i] = r[i - 1] + Owed(queue'[i])
               /\ accepted'[r[i - 1] + 1] = queue'[i][1]
               /\ queue'[i][2] = TRUE => accepted'[r[i - 1] + 2] = Keys!Release(queue'[i][1])
    <3>1. i \in 1 .. n - 1 /\ i + 1 \in 1 .. n /\ (i + 1) - 1 = i /\ queue'[i] = queue[i + 1]
      BY <1>0, <1>3, <2>1
    <3>2. r[i] = p[i + 1] /\ r[i - 1] = p[i]
      BY <1>0, <1>r, <3>1
    <3>3. /\ p[i + 1] = p[(i + 1) - 1] + Owed(queue[i + 1])
          /\ accepted[p[(i + 1) - 1] + 1] = queue[i + 1][1]
          /\ queue[i + 1][2] = TRUE => accepted[p[(i + 1) - 1] + 2] = Keys!Release(queue[i + 1][1])
      BY <1>7, <3>1
    <3> QED BY <1>2, <3>1, <3>2, <3>3
  <2> QED BY <2>3, <2>4, <2>5, Zenon DEF Placed, Owed
<1>10. KeyOrder'
  <2>1. full' => accepted'[Len(heard') + 1] = udr'
    BY <1>2, <1>8
  <2>2. pendingRelease' # Keys!None =>
           accepted'[Len(heard') + Ahead'] = Keys!Release(pendingRelease')
    <3>1. CASE event[2] = TRUE
      BY <1>2, <1>4, <1>8, <3>1 DEF Owed
    <3>2. CASE event[2] = FALSE
      BY <1>2, <3>2 DEF Keys!None
    <3> QED BY <1>1, <3>1, <3>2
  <2>3. \A i \in 1 .. Len(heard') : heard'[i] = accepted'[i]
    BY <1>2 DEF KeyInv, KeyOrder
  <2> QED BY <1>9, <2>1, <2>2, <2>3, Zenon DEF KeyOrder
<1> QED BY <1>5, <1>10 DEF KeyInv

\* The guest takes the byte that is the next to hear.
LEMMA ReadStep == ASSUME KeyInv, Keys!GuestRead PROVE KeyInv'
<1>1. /\ accepted \in Seq(1 .. 255) /\ heard \in Seq(0 .. 255) /\ Len(heard) \in Nat
      /\ udr \in 0 .. 255 /\ full = TRUE
  BY DEF KeyInv, KeyCounters, Keys!GuestRead
<1>2. /\ heard' \in Seq(0 .. 255) /\ Len(heard') = Len(heard) + 1 /\ heard'[Len(heard) + 1] = udr
      /\ \A i \in 1 .. Len(heard) : heard'[i] = heard[i]
  BY <1>1 DEF Keys!GuestRead
<1>3. /\ full' = FALSE /\ waited' = 0 /\ queue' = queue /\ stepsLeft' = stepsLeft /\ udr' = udr
      /\ pendingRelease' = pendingRelease /\ accepted' = accepted
  BY DEF Keys!GuestRead
<1>4. Ahead \in 1 .. 2 /\ Ahead' = Ahead - 1 /\ Len(heard') + Ahead' = Len(heard) + Ahead
  BY <1>1, <1>2, <1>3 DEF Ahead
<1>5. KeyCounters'
  <2>1. waited' \in Nat /\ ~full' /\ full' \in BOOLEAN
    BY <1>3
  <2> QED BY <1>2, <1>3, <2>1 DEF KeyInv, KeyCounters
<1>6. accepted[Len(heard) + 1] = udr
  BY <1>1 DEF KeyInv, KeyOrder
<1>7. \A i \in 1 .. Len(heard') : heard'[i] = accepted'[i]
  <2> SUFFICES ASSUME NEW i \in 1 .. Len(heard) + 1 PROVE heard'[i] = accepted[i]
    BY <1>2, <1>3
  <2>1. i \in 1 .. Len(heard) \/ i = Len(heard) + 1
    BY <1>1
  <2> QED BY <1>2, <1>6, <2>1 DEF KeyInv, KeyOrder
<1>8. KeyOrder'
  <2>1. \E p : Placed(p)'
    BY <1>3, <1>4, PlacedStays DEF KeyInv
  <2>2. ~full'
    BY <1>3
  <2>3. pendingRelease' # Keys!None =>
           accepted'[Len(heard') + Ahead'] = Keys!Release(pendingRelease')
    BY <1>3, <1>4 DEF KeyInv, KeyOrder
  <2> QED BY <1>7, <2>1, <2>2, <2>3, Zenon DEF KeyOrder
<1> QED BY <1>5, <1>8 DEF KeyInv

\* If the guest is as quick as the queue expects, no byte is put on top of another.
LEMMA KeyStep ==
    ASSUME GuestLatency <= StepsPerEvent + 1, KeyInv, [Next]_vars PROVE KeyInv'
<1>1. CASE UNCHANGED keyVars
  BY <1>1, Unmoved DEF keyVars
<1>2. CASE Keys!Drain
  <2>0. /\ full => waited + 1 < GuestLatency
        /\ stepsLeft \in 0 .. StepsPerEvent /\ full \in BOOLEAN /\ waited \in Nat
        /\ full => waited + stepsLeft >= StepsPerEvent
    BY <1>2 DEF Keys!Drain, KeyInv, KeyCounters
  <2>1. CASE Keys!DrainWait
    <3>1. /\ stepsLeft - 1 \in 0 .. StepsPerEvent
          /\ full = TRUE => waited + 1 + (stepsLeft - 1) >= StepsPerEvent
      BY <2>0, <2>1, HostAssumption DEF Keys!DrainWait
    <3> QED BY <2>1, <3>1, Waiting DEF Keys!DrainWait, Keys!NothingReceived
  <2>2. CASE Keys!DrainNothing
    <3>1. 0 \in 0 .. StepsPerEvent /\ (full = TRUE => waited + 1 + 0 >= StepsPerEvent)
      BY <2>0, <2>2, HostAssumption DEF Keys!DrainNothing
    <3> QED BY <2>2, <3>1, Waiting DEF Keys!DrainNothing, Keys!NothingReceived
  <2>3. CASE Keys!DrainRelease
    BY <2>0, <2>3, Vacant, ReleaseStep DEF Keys!DrainRelease
  <2>4. CASE Keys!DrainEvent
    BY <2>0, <2>4, Vacant, EventStep DEF Keys!DrainEvent
  <2> QED BY <1>2, <2>1, <2>2, <2>3, <2>4 DEF Keys!Drain
<1>3. CASE Keys!GuestRead
  BY <1>3, ReadStep
<1>4. CASE Keys!Type
  <2>1. PICK code \in Codes : \/ Keys!Push(code) \/ Keys!PushScan(code)
                            \/ Keys!PushScan(Keys!Release(code))
    BY <1>4 DEF Keys!Type
  <2>2. code \in 1 .. 127 /\ Keys!Release(code) \in 1 .. 255
    BY HostAssumption DEF Keys!Release
  <2>3. CASE Keys!Push(code)
    BY <2>2, <2>3, PushStep
  <2>4. CASE Keys!PushScan(code)
    BY <2>2, <2>4, PushScanStep
  <2>5. CASE Keys!PushScan(Keys!Release(code))
    BY <2>2, <2>5, PushScanStep
  <2> QED BY <2>1, <2>3, <2>4, <2>5
<1>5. ASSUME NEW p \in Positions \cup {Up}, Sample(p) PROVE UNCHANGED keyVars
  BY <1>5 DEF Sample
<1>6. CASE \/ Switch \/ Mouse(MouseStep) \/ UNCHANGED vars
  BY <1>1, <1>6 DEF Switch, Mouse, vars
<1> QED
  BY <1>1, <1>2, <1>3, <1>4, <1>5, <1>6 DEF Next, Type, Drain, Read

\* HeardInOrder: the guest hears what was accepted, in order and nothing twice.
THEOREM KeysHeardInOrder ==
    ASSUME GuestLatency <= StepsPerEvent + 1
    PROVE  Spec => []HeardInOrder
<1>1. Init => KeyInv
  BY KeysInit DEF Init
<1>2. KeyInv /\ [Next]_vars => KeyInv'
  BY KeyStep
<1>3. KeyInv => HeardInOrder
  <2> SUFFICES ASSUME KeyInv PROVE HeardInOrder
    OBVIOUS
  <2>1. /\ accepted \in Seq(1 .. 255) /\ heard \in Seq(0 .. 255) /\ Ahead \in 0 .. 2
        /\ \A i \in 1 .. Len(heard) : heard[i] = accepted[i]
    BY DEF KeyInv, KeyCounters, KeyOrder, Ahead
  <2>2. Len(heard) <= Len(accepted)
    <3>1. PICK p : Placed(p)
      BY DEF KeyInv, KeyOrder
    <3>2. queue \in Seq(Event) /\ Len(queue) \in Nat
      BY DEF KeyInv, KeyCounters
    <3>3. p[0] \in 0 .. Len(accepted) /\ p[0] = Len(heard) + Ahead
      BY <3>1, <3>2 DEF Placed
    <3> QED BY <2>1, <3>3
  <2>3. SubSeq(heard, 1, Len(heard)) = SubSeq(accepted, 1, Len(heard))
    BY <2>1, <2>2
  <2> QED BY <2>2, <2>3 DEF HeardInOrder, Keys!HeardInOrder, Keys!IsPrefix
<1> QED BY <1>1, <1>2, <1>3, PTL DEF Spec

--------------------------------------------------------------------------------
\* The finger and the mouse.

Point == Int \X Int

\* While a drag is on it has the last sample, and the X68000 is shown.
DragInv ==
    /\ total \in Point /\ finger \in Point \cup {Up} /\ drag \in Point \cup {Up}
    /\ drag # Up => drag = finger /\ mode = "x68k"

\* Adding up displacements.
LEMMA PlusTyped ==
    ASSUME NEW a \in Point, NEW b \in Point
    PROVE  /\ Plus(a, b) \in Point /\ Plus(a, Zero) = a
           /\ Plus(a, b)[1] = a[1] + b[1] /\ Plus(a, b)[2] = a[2] + b[2]
BY DEF Point, Plus, Zero

\* A finger is at a point, or it is up.
LEMMA PositionIsPoint == Positions \subseteq Point /\ Zero \in Point /\ Up \notin Point
<1>1. Positions \subseteq Point
  BY HostAssumption DEF Point
<1>2. Zero \in Point
  BY DEF Point, Zero
<1>3. Up \notin Point
  BY DEF Point, Up
<1> QED BY <1>1, <1>2, <1>3

\* The other cores touch neither the finger nor what the host has reported.
LEMMA MouseStepsTotal == MouseStep => total' = total
BY DEF MouseStep, DrainTake, Accept, Refuse, DrainReturn, ServiceScc, HandlerRead, HandlerEnd,
       SetRegister, ReadStatus

\* A step that keeps DragInv and NoJump.
DragStep ==
    /\ DragInv'
    /\ total' # total =>
          /\ mode = "x68k" /\ finger # Up /\ finger' # Up
          /\ total' = Plus(total, <<finger'[1] - finger[1], finger'[2] - finger[2]>>)

\* Every step keeps the drag at the last sample, and moves as the finger moves.
LEMMA DragSteps == DragInv /\ [Next]_vars => DragStep
<1> SUFFICES ASSUME DragInv, [Next]_vars PROVE DragStep
  OBVIOUS
<1> USE DEF DragInv
<1>1. ASSUME NEW p \in Positions \cup {Up}, Sample(p) PROVE DragStep
  <2>0. finger' = p /\ mode' = mode /\ p \in Point \cup {Up}
    BY <1>1, PositionIsPoint DEF Sample
  <2>1. CASE UNCHANGED <<drag, mouseVars>> /\ (mode = "face" \/ (p = Up /\ drag = Up))
    <3>1. drag' = drag /\ total' = total /\ drag = Up
      <4>1. mode = "face" => drag = Up
        OBVIOUS
      <4> QED BY <2>1, <4>1 DEF mouseVars
    <3> QED BY <2>0, <3>1 DEF DragStep
  <2>2. CASE p = Up /\ Released
    <3>1. drag' = Up /\ total' = Plus(total, Zero)
      BY <2>2 DEF Released, PushMouse
    <3>2. total' = total
      BY <3>1, PlusTyped, PositionIsPoint
    <3> QED BY <2>0, <3>1, <3>2 DEF DragStep
  <2>3. CASE mode = "x68k" /\ p # Up /\ Touched(p)
    <3>1. drag' = p /\ total' = Plus(total, Zero)
      BY <2>3 DEF Touched, PushMouse
    <3>2. total' = total
      BY <3>1, PlusTyped, PositionIsPoint
    <3> QED BY <2>0, <2>3, <3>1, <3>2 DEF DragStep
  <2>4. CASE mode = "x68k" /\ p # Up /\ Dragged(p)
    <3>1. drag # Up /\ drag' = p /\ total' = Plus(total, <<p[1] - drag[1], p[2] - drag[2]>>)
      BY <2>4 DEF Dragged, PushMouse
    <3>2. drag = finger /\ drag \in Point /\ p \in Point
      BY <2>0, <2>4, <3>1
    <3>3. <<p[1] - drag[1], p[2] - drag[2]>> \in Point
      BY <3>2 DEF Point
    <3>4. total' \in Point
      BY <3>1, <3>3, PlusTyped
    <3> QED BY <2>0, <2>4, <3>1, <3>2, <3>4 DEF DragStep
  <2> QED BY <1>1, <2>1, <2>2, <2>3, <2>4 DEF Sample
<1>2. CASE Switch
  <2>1. drag' = Up /\ finger' = finger
    BY <1>2 DEF Switch, ForgetDrag
  <2>2. total' = total
    <3>1. CASE EnterFace
      <4>1. total' = Plus(total, Zero)
        BY <3>1 DEF EnterFace, PushMouse
      <4> QED BY <4>1, PlusTyped, PositionIsPoint
    <3>2. CASE UNCHANGED mouseVars
      BY <3>2 DEF mouseVars
    <3> QED BY <1>2, <3>1, <3>2 DEF Switch
  <2> QED BY <2>1, <2>2 DEF DragStep
<1>3. CASE Mouse(MouseStep)
  <2>1. total' = total /\ drag' = drag /\ finger' = finger /\ mode' = mode
    BY <1>3, MouseStepsTotal DEF Mouse, hostVars
  <2> QED BY <2>1 DEF DragStep
<1>4. CASE Type \/ Drain \/ Read \/ UNCHANGED vars
  <2>1. total' = total /\ drag' = drag /\ finger' = finger /\ mode' = mode
    BY <1>4 DEF Type, Drain, Read, hostVars, mouseVars, vars
  <2> QED BY <2>1 DEF DragStep
<1> QED BY <1>1, <1>2, <1>3, <1>4 DEF Next

\* At first no finger is seen.
LEMMA DragInit == Init => DragInv
<1> SUFFICES ASSUME Init PROVE DragInv
  OBVIOUS
<1>1. total = Zero /\ finger = Up /\ drag = Up
  BY DEF Init, MouseInit
<1> QED BY <1>1, PositionIsPoint DEF DragInv

\* The mouse moves only between two samples that both see the finger while the
\* X68000 is shown, and by as much as the finger (TouchKeyboard::poll,
\* setX68kInputEnabled).
THEOREM MouseNeverJumps == Spec => NoJump
<1>1. Init => DragInv
  BY DragInit
<1>2. DragInv /\ [Next]_vars => DragStep
  BY DragSteps
<1>3. DragStep => DragInv'
  BY DEF DragStep
<1>4. Spec => []DragInv
  BY <1>1, <1>2, <1>3, PTL DEF Spec
<1>5. DragInv /\ [Next]_vars =>
        [total' # total =>
          /\ mode = "x68k" /\ finger # Up /\ finger' # Up
          /\ total' = Plus(total, <<finger'[1] - finger[1], finger'[2] - finger[2]>>)]_vars
  BY <1>2 DEF DragStep
<1> QED BY <1>4, <1>5, PTL DEF Spec, NoJump

--------------------------------------------------------------------------------
\* Numbers, and folds over sequences.

\* A set of numbers that holds 0 and every successor holds all.
LEMMA Induction ==
    ASSUME NEW T, 0 \in T, \A n \in Nat : n \in T => n + 1 \in T
    PROVE  Nat \subseteq T
<1> SUFFICES ASSUME NEW x \in Nat, x \notin T PROVE FALSE
  OBVIOUS
<1> DEFINE R == {y \in 0 .. x : y \notin T}
           f == [y \in R |-> y - 1]
<1>1. \A y \in R : y - 1 \in R
  OBVIOUS
<1>2. IsFiniteSet(R)
  <2>1. IsFiniteSet(0 .. x)
    BY FS_Interval
  <2>2. R \subseteq 0 .. x
    OBVIOUS
  <2> HIDE DEF R
  <2> QED BY <2>1, <2>2, FS_Subset
<1>3. f \in Injection(R, R)
  BY <1>1 DEF Injection, IsInjective
<1>4. x \in R /\ \A y \in R : f[y] # x
  OBVIOUS
<1> HIDE DEF R, f
<1>5. f \in Surjection(R, R)
  BY <1>2, <1>3, FS_Injection
<1> QED BY <1>4, <1>5 DEF Surjection

\* The same up to a bound.
LEMMA InductionUpTo ==
    ASSUME NEW n \in Nat, NEW T, 0 \in T, \A k \in 1 .. n : k - 1 \in T => k \in T
    PROVE  0 .. n \subseteq T
<1> DEFINE U == {k \in Nat : k <= n => k \in T}
<1>1. 0 \in U
  OBVIOUS
<1>2. \A k \in Nat : k \in U => k + 1 \in U
  <2> SUFFICES ASSUME NEW k \in Nat, k \in U, k + 1 <= n PROVE k + 1 \in T
    OBVIOUS
  <2>1. k \in T /\ k + 1 \in 1 .. n /\ (k + 1) - 1 = k
    OBVIOUS
  <2> QED BY <2>1
<1> HIDE DEF U
<1>3. Nat \subseteq U
  BY <1>1, <1>2, Induction
<1> USE DEF U
<1> QED BY <1>3

\* A set of some of the first n numbers has a greatest.
LEMMA MaxFacts ==
    ASSUME NEW n \in Nat, NEW S \in SUBSET (1 .. n), S # {}
    PROVE  Max(S) \in S /\ \A y \in S : Max(S) >= y
<1> DEFINE U == {k \in Nat : \A R \in SUBSET (1 .. k) : R # {} => \E x \in R : \A y \in R : x >= y}
<1>1. 0 \in U
  <2>1. \A R \in SUBSET (1 .. 0) : R = {}
    OBVIOUS
  <2> QED BY <2>1
<1>2. \A k \in Nat : k \in U => k + 1 \in U
  <2> SUFFICES ASSUME NEW k \in Nat, k \in U, NEW R \in SUBSET (1 .. k + 1), R # {}
               PROVE  \E x \in R : \A y \in R : x >= y
    OBVIOUS
  <2>1. CASE k + 1 \in R
    <3>1. \A y \in R : k + 1 >= y
      OBVIOUS
    <3> QED BY <2>1, <3>1
  <2>2. CASE k + 1 \notin R
    <3>1. R \in SUBSET (1 .. k)
      BY <2>2
    <3> QED BY <3>1
  <2> QED BY <2>1, <2>2
<1> HIDE DEF U
<1>3. n \in U
  BY <1>1, <1>2, Induction
<1>4. \E x \in S : \A y \in S : x >= y
  BY <1>3 DEF U
<1> QED BY <1>4 DEF Max

\* The greatest of an interval that starts at 1 is its end.
LEMMA MaxOfInterval ==
    ASSUME NEW n \in Nat, NEW k \in 1 .. n
    PROVE  Max(1 .. k) = k /\ (1 .. k) \ {k} = 1 .. k - 1 /\ 1 .. k # {} /\ 1 .. k \in SUBSET (1 .. n)
<1>1. 1 .. k \in SUBSET (1 .. n) /\ k \in 1 .. k /\ 1 .. k # {}
  OBVIOUS
<1>2. Max(1 .. k) \in 1 .. k /\ Max(1 .. k) >= k
  BY <1>1, MaxFacts
<1>3. (1 .. k) \ {k} = 1 .. k - 1
  OBVIOUS
<1> QED BY <1>1, <1>2, <1>3

\* The function that a fold over a sequence of length n stands for.
FoldOf(f, n, base, step) ==
    f = [S \in SUBSET (1 .. n) |->
            IF S = {} THEN base ELSE step[Max(S)][f[S \ {Max(S)}]]]

\* Such a function exists: it is built one number at a time.
LEMMA FoldExists ==
    ASSUME NEW n \in Nat, NEW T, NEW base \in T, NEW step \in [1 .. n -> [T -> T]]
    PROVE  \E f \in [SUBSET (1 .. n) -> T] : FoldOf(f, n, base, step)
<1> DEFINE U == {k \in 0 .. n : \E f \in [SUBSET (1 .. k) -> T] : FoldOf(f, k, base, step)}
<1>1. 0 \in U
  <2> DEFINE f == [S \in SUBSET (1 .. 0) |-> base]
  <2>1. f \in [SUBSET (1 .. 0) -> T]
    OBVIOUS
  <2>2. \A S \in SUBSET (1 .. 0) : S = {}
    OBVIOUS
  <2>3. FoldOf(f, 0, base, step)
    BY <2>2 DEF FoldOf
  <2> HIDE DEF f
  <2>4. 0 \in 0 .. n
    OBVIOUS
  <2> QED BY <2>1, <2>3, <2>4, Zenon
<1>2. \A k \in 1 .. n : k - 1 \in U => k \in U
  <2> SUFFICES ASSUME NEW k \in 1 .. n, k - 1 \in U
               PROVE  k \in 0 .. n /\ \E f \in [SUBSET (1 .. k) -> T] : FoldOf(f, k, base, step)
    BY Zenon
  <2>p. PICK g \in [SUBSET (1 .. k - 1) -> T] : FoldOf(g, k - 1, base, step)
    BY Zenon
  <2>0. /\ k \in Nat /\ k - 1 \in Nat /\ k \notin 1 .. k - 1
        /\ \A S \in SUBSET (1 .. k) : S \ {k} \in SUBSET (1 .. k - 1)
    OBVIOUS
  <2> DEFINE f == [S \in SUBSET (1 .. k) |->
                      IF k \in S THEN step[k][g[S \ {k}]] ELSE g[S]]
  <2>1. f \in [SUBSET (1 .. k) -> T]
    <3> SUFFICES ASSUME NEW S \in SUBSET (1 .. k)
                 PROVE  (IF k \in S THEN step[k][g[S \ {k}]] ELSE g[S]) \in T
      OBVIOUS
    <3>1. CASE k \in S
      <4>1. g[S \ {k}] \in T /\ step[k] \in [T -> T]
        BY <2>0
      <4> QED BY <3>1, <4>1
    <3>2. CASE k \notin S
      <4>1. S = S \ {k}
        BY <3>2
      <4> QED BY <2>0, <3>2, <4>1
    <3> QED BY <3>1, <3>2
  <2>2. \A S \in SUBSET (1 .. k - 1) : S \in SUBSET (1 .. k) /\ k \notin S
    BY <2>0
  <2>3. \A S \in SUBSET (1 .. k - 1) : f[S] = g[S]
    BY <2>2
  <2>4. ASSUME NEW S \in SUBSET (1 .. k)
        PROVE  f[S] = IF S = {} THEN base ELSE step[Max(S)][f[S \ {Max(S)}]]
    <3>1. CASE k \in S
      <4>1. Max(S) = k
        <5>1. Max(S) \in S /\ Max(S) >= k
          BY <2>0, <3>1, MaxFacts
        <5>2. Max(S) \in 1 .. k
          BY <5>1
        <5> HIDE DEF f
        <5> QED BY <5>1, <5>2
      <4>2. S \ {k} \in SUBSET (1 .. k - 1)
        BY <2>0
      <4>3. f[S \ {k}] = g[S \ {k}]
        BY <2>3, <4>2
      <4>4. f[S] = step[k][g[S \ {k}]]
        BY <3>1
      <4> HIDE DEF f
      <4> QED BY <3>1, <4>1, <4>3, <4>4
    <3>2. CASE k \notin S
      <4>1. S \in SUBSET (1 .. k - 1)
        BY <2>0, <3>2
      <4>2. f[S] = g[S]
        BY <2>3, <4>1
      <4>3. g[S] = IF S = {} THEN base ELSE step[Max(S)][g[S \ {Max(S)}]]
        BY <2>p, <4>1 DEF FoldOf
      <4>4. S \ {Max(S)} \in SUBSET (1 .. k - 1)
        BY <4>1
      <4>5. f[S \ {Max(S)}] = g[S \ {Max(S)}]
        BY <2>3, <4>4
      <4> HIDE DEF f
      <4> QED BY <4>2, <4>3, <4>5
    <3> QED BY <3>1, <3>2
  <2>5. FoldOf(f, k, base, step)
    <3>1. DOMAIN f = SUBSET (1 .. k)
      OBVIOUS
    <3> HIDE DEF f
    <3> QED BY <2>1, <2>4, <3>1 DEF FoldOf
  <2> HIDE DEF f
  <2> QED BY <2>1, <2>5
<1> HIDE DEF U
<1>3. n \in U
  <2>1. 0 .. n \subseteq U
    BY <1>1, <1>2, InductionUpTo
  <2> QED BY <2>1
<1> QED BY <1>3, Zenon DEF U

--------------------------------------------------------------------------------
\* A byte of a report, and a controller whose numbers are not bounded: what saturateDelta
\* bounds does not matter here.
ReportByte == {"buttons", "dx", "dy"} \X Int
Controller ==
    [wr : [Line -> [Register -> Byte]], sharedWr : [Shared -> Byte],
     pointer : [Line -> Register], fifo : [Line -> Seq(ReportByte)],
     pending : [Line -> BOOLEAN]]

\* The fields of a controller.
LEMMA ControllerFields ==
    ASSUME NEW s \in Controller
    PROVE  /\ s.wr \in [Line -> [Register -> Byte]] /\ s.sharedWr \in [Shared -> Byte]
           /\ s.pointer \in [Line -> Register] /\ s.fifo \in [Line -> Seq(ReportByte)]
           /\ s.pending \in [Line -> BOOLEAN]
BY DEF Controller

\* Setting one field of a controller, for each field that is set.
LEMMA SetPointer ==
    ASSUME NEW s \in Controller, NEW r \in Register
    PROVE  /\ [s EXCEPT !.pointer["B"] = r] \in Controller
           /\ [s EXCEPT !.pointer["B"] = r].pointer["B"] = r
BY DEF Controller, Line

\* The interrupt requests.
LEMMA SetPending ==
    ASSUME NEW s \in Controller, NEW l \in Line, NEW b \in BOOLEAN
    PROVE  /\ [s EXCEPT !.pending[l] = b] \in Controller
           /\ [s EXCEPT !.pending[l] = b].pending[l] = b
           /\ \A m \in Line : m # l => [s EXCEPT !.pending[l] = b].pending[m] = s.pending[m]
BY DEF Controller, Line

\* The receive FIFO of the mouse's channel.
LEMMA SetFifo ==
    ASSUME NEW s \in Controller, NEW f \in Seq(ReportByte)
    PROVE  /\ [s EXCEPT !.fifo["B"] = f] \in Controller
           /\ [s EXCEPT !.fifo["B"] = f].fifo["B"] = f
BY DEF Controller, Line

\* A register, after which the pointer is at WR0.
LEMMA StoreTyped ==
    ASSUME NEW s \in Controller, NEW r \in Register, NEW v \in Byte
    PROVE  /\ r \in Shared => [s EXCEPT !.sharedWr[r] = v, !.pointer["B"] = 0] \in Controller
           /\ [s EXCEPT !.wr["B"][r] = v, !.pointer["B"] = 0] \in Controller
<1>1. 0 \in Register /\ "B" \in Line
  BY DEF Register, Line
<1>2. ASSUME r \in Shared PROVE [s EXCEPT !.sharedWr[r] = v, !.pointer["B"] = 0] \in Controller
  <2> DEFINE t == [s EXCEPT !.sharedWr[r] = v]
  <2>1. t \in Controller
    BY <1>2 DEF Controller
  <2>2. [s EXCEPT !.sharedWr[r] = v, !.pointer["B"] = 0] = [t EXCEPT !.pointer["B"] = 0]
    BY DEF Controller
  <2> HIDE DEF t
  <2>3. [t EXCEPT !.pointer["B"] = 0] \in Controller
    BY <1>1, <2>1, SetPointer
  <2> QED BY <2>2, <2>3
<1>3. [s EXCEPT !.wr["B"][r] = v, !.pointer["B"] = 0] \in Controller
  <2> DEFINE t == [s EXCEPT !.wr["B"][r] = v]
  <2>1. t \in Controller
    BY <1>1 DEF Controller
  <2>2. [s EXCEPT !.wr["B"][r] = v, !.pointer["B"] = 0] = [t EXCEPT !.pointer["B"] = 0]
    BY DEF Controller
  <2> HIDE DEF t
  <2>3. [t EXCEPT !.pointer["B"] = 0] \in Controller
    BY <1>1, <2>1, SetPointer
  <2> QED BY <2>2, <2>3
<1> QED BY <1>2, <1>3

\* The interrupt is looked at again: the request is there exactly when it should be.
LEMMA RefreshFacts ==
    ASSUME NEW s \in Controller
    PROVE  LET r == RefreshRxInterrupt(s, "B")
           IN  /\ r \in Controller
               /\ r.pending["B"] <=> (s.fifo["B"] # <<>> /\ WantsRxInterrupt(s, "B"))
               /\ r.pending["A"] = s.pending["A"]
               /\ r.wr = s.wr /\ r.sharedWr = s.sharedWr /\ r.pointer = s.pointer /\ r.fifo = s.fifo
<1> DEFINE b == s.fifo["B"] # <<>> /\ WantsRxInterrupt(s, "B")
           r == [s EXCEPT !.pending["B"] = b]
<1>1. b \in BOOLEAN /\ "B" \in Line /\ "A" \in Line /\ RefreshRxInterrupt(s, "B") = r
  BY DEF Line, RefreshRxInterrupt
<1>2. r.wr = s.wr /\ r.sharedWr = s.sharedWr /\ r.pointer = s.pointer /\ r.fifo = s.fifo
  BY DEF Controller
<1> HIDE DEF b
<1>3. r \in Controller /\ r.pending["B"] = b /\ r.pending["A"] = s.pending["A"]
  BY <1>1, SetPending
<1> HIDE DEF r
<1> QED BY <1>1, <1>2, <1>3 DEF b

\* A byte written at WR0 selects a register; as a command it looks at the FIFO again.
LEMMA ZeroFacts ==
    ASSUME NEW s \in Controller, NEW v \in Byte
    PROVE  LET z == WriteZero(s, "B", v)
           IN  /\ z \in Controller /\ z.pointer["B"] = v % 16
               /\ z.wr = s.wr /\ z.sharedWr = s.sharedWr /\ z.fifo = s.fifo
               /\ z.pending["A"] = s.pending["A"]
               /\ (v \div 8) % 8 # 7 => z.pending = s.pending
               /\ (v \div 8) % 8 = 7 =>
                     (z.pending["B"] <=> (s.fifo["B"] # <<>> /\ WantsRxInterrupt(s, "B")))
<1> DEFINE t == [s EXCEPT !.pointer["B"] = v % 16]
           z == WriteZero(s, "B", v)
<1>1. v % 16 \in Register
  BY DEF Byte, Register
<1>2. t \in Controller /\ t.pointer["B"] = v % 16
  BY <1>1, SetPointer
<1>3. t.wr = s.wr /\ t.sharedWr = s.sharedWr /\ t.fifo = s.fifo /\ t.pending = s.pending
  BY DEF Controller
<1>4. z = IF (v \div 8) % 8 = 7 THEN RefreshRxInterrupt(t, "B") ELSE t
  BY DEF WriteZero
<1>5. WantsRxInterrupt(t, "B") = WantsRxInterrupt(s, "B")
  BY <1>3 DEF WantsRxInterrupt
<1> HIDE DEF t, z
<1>6. CASE (v \div 8) % 8 = 7
  <2>1. z = RefreshRxInterrupt(t, "B")
    BY <1>4, <1>6
  <2>2. /\ z \in Controller /\ z.pending["A"] = t.pending["A"]
        /\ z.pending["B"] <=> (t.fifo["B"] # <<>> /\ WantsRxInterrupt(t, "B"))
        /\ z.wr = t.wr /\ z.sharedWr = t.sharedWr /\ z.pointer = t.pointer /\ z.fifo = t.fifo
    BY <1>2, <2>1, RefreshFacts
  <2> QED BY <1>2, <1>3, <1>5, <1>6, <2>2 DEF z
<1>7. CASE (v \div 8) % 8 # 7
  BY <1>2, <1>3, <1>4, <1>7 DEF z
<1> QED BY <1>6, <1>7

\* What a write to a register does, as the four cases of writeControl.
Stored(s, r, v) ==
    IF r \in Shared THEN [s EXCEPT !.sharedWr[r] = v, !.pointer["B"] = 0]
    ELSE [s EXCEPT !.wr["B"][r] = v, !.pointer["B"] = 0]

\* What storing a register changes and what not.
LEMMA StoredFacts ==
    ASSUME NEW s \in Controller, NEW r \in Register, NEW v \in Byte
    PROVE  LET t == Stored(s, r, v)
           IN  /\ t \in Controller /\ t.pointer["B"] = 0
               /\ t.fifo = s.fifo /\ t.pending = s.pending
               /\ r \notin Shared => t.sharedWr = s.sharedWr
               /\ r \notin Shared /\ r # 1 => t.wr["B"][1] = s.wr["B"][1]
               /\ t.sharedWr[2] = IF r = 2 THEN v ELSE s.sharedWr[2]
<1> DEFINE t == Stored(s, r, v)
<1>0. 0 \in Register /\ "B" \in Line /\ 1 \in Register /\ 2 \in Shared
  BY DEF Register, Line, Shared
<1>1. CASE r \in Shared
  <2>1. t = [s EXCEPT !.sharedWr[r] = v, !.pointer["B"] = 0]
    BY <1>1 DEF Stored
  <2>2. /\ t.fifo = s.fifo /\ t.pending = s.pending
        /\ t.pointer["B"] = 0 /\ t.sharedWr[2] = IF r = 2 THEN v ELSE s.sharedWr[2]
    BY <1>0, <1>1, <2>1 DEF Controller
  <2>3. [s EXCEPT !.sharedWr[r] = v, !.pointer["B"] = 0] \in Controller
    BY <1>1, StoreTyped
  <2> HIDE DEF t
  <2>4. t \in Controller
    BY <2>1, <2>3
  <2> QED BY <1>1, <2>2, <2>4 DEF t
<1>2. CASE r \notin Shared
  <2>1. t = [s EXCEPT !.wr["B"][r] = v, !.pointer["B"] = 0]
    BY <1>2 DEF Stored
  <2>2. /\ t.fifo = s.fifo /\ t.pending = s.pending
        /\ t.pointer["B"] = 0 /\ t.sharedWr = s.sharedWr
        /\ r # 1 => t.wr["B"][1] = s.wr["B"][1]
    BY <1>0, <1>2, <2>1 DEF Controller
  <2>3. [s EXCEPT !.wr["B"][r] = v, !.pointer["B"] = 0] \in Controller
    BY StoreTyped
  <2>4. r # 2
    BY <1>2 DEF Shared
  <2> HIDE DEF t
  <2>5. t \in Controller
    BY <2>1, <2>3
  <2> QED BY <1>2, <2>2, <2>4, <2>5 DEF t
<1> QED BY <1>1, <1>2

\* The definition, by its cases.
LEMMA RegisterUnfolds ==
    ASSUME NEW s, NEW r, NEW v
    PROVE  WriteRegister(s, "B", r, v) =
           LET stored == Stored(s, r, v)
           IN  CASE r = 9 /\ ~Bit(v, 3) -> [stored EXCEPT !.pending = [m \in Line |-> FALSE]]
                 [] r = 3 /\ ~Bit(v, 0) -> [stored EXCEPT !.fifo["B"] = <<>>, !.pending["B"] = FALSE]
                 [] r = 1 -> RefreshRxInterrupt(stored, "B")
                 [] OTHER -> stored
BY Zenon DEF WriteRegister, Stored

\* Any register may be written with any value.
LEMMA RegisterTyped ==
    ASSUME NEW s \in Controller, NEW r \in Register, NEW v \in Byte
    PROVE  LET w == WriteRegister(s, "B", r, v)
           IN  /\ w \in Controller /\ w.pointer["B"] = 0
               /\ w.sharedWr[2] = IF r = 2 THEN v ELSE s.sharedWr[2]
               /\ s.fifo["B"] = <<>> /\ ~s.pending["A"] /\ ~s.pending["B"] =>
                     w.fifo["B"] = <<>> /\ ~w.pending["A"] /\ ~w.pending["B"]
<1> DEFINE t == Stored(s, r, v)
           w == WriteRegister(s, "B", r, v)
<1>0. /\ t \in Controller /\ t.pointer["B"] = 0 /\ t.fifo = s.fifo /\ t.pending = s.pending
      /\ t.sharedWr[2] = IF r = 2 THEN v ELSE s.sharedWr[2]
  BY StoredFacts
<1>1. /\ r = 9 /\ ~Bit(v, 3) => w = [t EXCEPT !.pending = [m \in Line |-> FALSE]]
      /\ r = 3 /\ ~Bit(v, 0) => w = [t EXCEPT !.fifo["B"] = <<>>, !.pending["B"] = FALSE]
      /\ r = 1 => w = RefreshRxInterrupt(t, "B")
      /\ ~(r = 9 /\ ~Bit(v, 3)) /\ ~(r = 3 /\ ~Bit(v, 0)) /\ r # 1 => w = t
  <2>1. w = CASE r = 9 /\ ~Bit(v, 3) -> [t EXCEPT !.pending = [m \in Line |-> FALSE]]
              [] r = 3 /\ ~Bit(v, 0) -> [t EXCEPT !.fifo["B"] = <<>>, !.pending["B"] = FALSE]
              [] r = 1 -> RefreshRxInterrupt(t, "B")
              [] OTHER -> t
    BY RegisterUnfolds
  <2> HIDE DEF w, t
  <2>2. r = 9 /\ ~Bit(v, 3) => w = [t EXCEPT !.pending = [m \in Line |-> FALSE]]
    BY <2>1
  <2>3. r = 3 /\ ~Bit(v, 0) => w = [t EXCEPT !.fifo["B"] = <<>>, !.pending["B"] = FALSE]
    BY <2>1
  <2>4. r = 1 => w = RefreshRxInterrupt(t, "B")
    BY <2>1
  <2>5. ~(r = 9 /\ ~Bit(v, 3)) /\ ~(r = 3 /\ ~Bit(v, 0)) /\ r # 1 => w = t
    BY <2>1
  <2> QED BY <2>2, <2>3, <2>4, <2>5
<1> HIDE DEF t, w
<1>2. CASE r = 9 /\ ~Bit(v, 3)
  <2>1. w = [t EXCEPT !.pending = [m \in Line |-> FALSE]]
    BY <1>1, <1>2
  <2>2. w \in Controller /\ w.pointer = t.pointer /\ w.sharedWr = t.sharedWr /\ w.fifo = t.fifo
    BY <1>0, <2>1 DEF Controller
  <2>3. w.pending = [m \in Line |-> FALSE]
    BY <1>0, <2>1 DEF Controller
  <2>4. ~w.pending["A"] /\ ~w.pending["B"]
    BY <2>3 DEF Line
  <2> QED BY <1>0, <2>2, <2>4 DEF w
<1>3. CASE r = 3 /\ ~Bit(v, 0)
  <2> DEFINE e == [t EXCEPT !.fifo["B"] = <<>>]
  <2>1. w = [t EXCEPT !.fifo["B"] = <<>>, !.pending["B"] = FALSE]
    BY <1>1, <1>3
  <2>2. [t EXCEPT !.fifo["B"] = <<>>, !.pending["B"] = FALSE] = [e EXCEPT !.pending["B"] = FALSE]
    BY <1>0 DEF Controller
  <2>3. e \in Controller /\ e.fifo["B"] = <<>>
    <3>1. <<>> \in Seq(ReportByte)
      OBVIOUS
    <3> QED BY <1>0, <3>1, SetFifo
  <2>4. e.pointer = t.pointer /\ e.sharedWr = t.sharedWr /\ e.pending = t.pending
    BY <1>0 DEF Controller
  <2> HIDE DEF e
  <2>5. w = [e EXCEPT !.pending["B"] = FALSE]
    BY <2>1, <2>2
  <2>6. w \in Controller /\ ~w.pending["B"] /\ w.pending["A"] = e.pending["A"]
    BY <2>3, <2>5, SetPending DEF Line
  <2>7. w.pointer = e.pointer /\ w.sharedWr = e.sharedWr /\ w.fifo = e.fifo
    BY <2>3, <2>5 DEF Controller
  <2> QED BY <1>0, <2>3, <2>4, <2>6, <2>7 DEF w
<1>4. CASE r = 1
  <2>1. w = RefreshRxInterrupt(t, "B")
    BY <1>1, <1>4
  <2>2. /\ w \in Controller /\ w.pending["A"] = t.pending["A"]
        /\ w.pending["B"] <=> (t.fifo["B"] # <<>> /\ WantsRxInterrupt(t, "B"))
        /\ w.sharedWr = t.sharedWr /\ w.pointer = t.pointer /\ w.fifo = t.fifo
    BY <1>0, <2>1, RefreshFacts
  <2> QED BY <1>0, <2>2 DEF w
<1>5. CASE ~(r = 9 /\ ~Bit(v, 3)) /\ ~(r = 3 /\ ~Bit(v, 0)) /\ r # 1
  <2>1. w = t
    BY <1>1, <1>5
  <2> QED BY <1>0, <2>1 DEF w
<1> QED BY <1>2, <1>3, <1>4, <1>5

\* A register the mouse does not depend on, or not for the worse.
LEMMA HarmlessWrite ==
    ASSUME NEW s \in Controller, NEW r \in (1 .. 15) \ {2, 9}, NEW v \in Byte, r = 3 => Bit(v, 0)
    PROVE  LET w == WriteRegister(s, "B", r, v)
           IN  /\ w \in Controller /\ w.pointer["B"] = 0 /\ w.sharedWr[2] = s.sharedWr[2]
               /\ w.fifo = s.fifo /\ w.pending["A"] = s.pending["A"]
               /\ \/ w.pending["B"] = s.pending["B"] /\ WantsRxInterrupt(w, "B") = WantsRxInterrupt(s, "B")
                  \/ w.pending["B"] <=> (w.fifo["B"] # <<>> /\ WantsRxInterrupt(w, "B"))
<1> DEFINE t == Stored(s, r, v)
           w == WriteRegister(s, "B", r, v)
<1>r. r \in Register /\ r \notin Shared
  BY DEF Register, Shared
<1>0. /\ t \in Controller /\ t.pointer["B"] = 0 /\ t.fifo = s.fifo /\ t.pending = s.pending
      /\ t.sharedWr = s.sharedWr /\ (r # 1 => t.wr["B"][1] = s.wr["B"][1])
  BY <1>r, StoredFacts
<1>1. /\ r = 1 => w = RefreshRxInterrupt(t, "B")
      /\ r # 1 => w = t
  BY RegisterUnfolds
<1> HIDE DEF t, w
<1>4. CASE r = 1
  <2>1. w = RefreshRxInterrupt(t, "B")
    BY <1>1, <1>4
  <2>2. /\ w \in Controller /\ w.pending["A"] = t.pending["A"]
        /\ w.pending["B"] <=> (t.fifo["B"] # <<>> /\ WantsRxInterrupt(t, "B"))
        /\ w.sharedWr = t.sharedWr /\ w.pointer = t.pointer /\ w.fifo = t.fifo /\ w.wr = t.wr
    BY <1>0, <2>1, RefreshFacts
  <2>3. WantsRxInterrupt(t, "B") = WantsRxInterrupt(w, "B")
    BY <2>2 DEF WantsRxInterrupt
  <2> QED BY <1>0, <2>2, <2>3 DEF w
<1>5. CASE r # 1
  <2>1. w = t
    BY <1>1, <1>5
  <2>2. WantsRxInterrupt(t, "B") = WantsRxInterrupt(s, "B")
    BY <1>0, <1>5 DEF WantsRxInterrupt
  <2> QED BY <1>0, <2>1, <2>2 DEF w
<1> QED BY <1>4, <1>5

\* The channel serves the mouse as before: its bytes are there and ask for the guest.
Keeps(s, w) ==
    /\ w \in Controller /\ w.sharedWr[2] = s.sharedWr[2] /\ w.fifo = s.fifo
    /\ w.pending["A"] = s.pending["A"]
    /\ \/ w.pending["B"] = s.pending["B"] /\ WantsRxInterrupt(w, "B") = WantsRxInterrupt(s, "B")
       \/ w.pending["B"] <=> (w.fifo["B"] # <<>> /\ WantsRxInterrupt(w, "B"))

\* One such write after another.
LEMMA KeepsTwice == ASSUME NEW s, NEW t, NEW w, Keeps(s, t), Keeps(t, w) PROVE Keeps(s, w)
<1>1. /\ w \in Controller /\ w.sharedWr[2] = s.sharedWr[2] /\ w.fifo = s.fifo
      /\ w.pending["A"] = s.pending["A"]
  BY DEF Keeps
<1>2. CASE w.pending["B"] <=> (w.fifo["B"] # <<>> /\ WantsRxInterrupt(w, "B"))
  BY <1>1, <1>2 DEF Keeps
<1>3. CASE w.pending["B"] = t.pending["B"] /\ WantsRxInterrupt(w, "B") = WantsRxInterrupt(t, "B")
  <2>1. w.fifo = t.fifo
    BY DEF Keeps
  <2> QED BY <1>1, <1>3, <2>1 DEF Keeps
<1> QED BY <1>2, <1>3 DEF Keeps

\* Any byte may be written to the control port, wherever the pointer is.
LEMMA ControlTyped ==
    ASSUME NEW s \in Controller, NEW v \in Byte
    PROVE  LET w == WriteControl(s, "B", v)
           IN  /\ w \in Controller
               /\ w.pointer["B"] = IF s.pointer["B"] = 0 THEN v % 16 ELSE 0
               /\ w.sharedWr[2] = IF s.pointer["B"] = 2 THEN v ELSE s.sharedWr[2]
               /\ s.fifo["B"] = <<>> /\ ~s.pending["A"] /\ ~s.pending["B"] =>
                     w.fifo["B"] = <<>> /\ ~w.pending["A"] /\ ~w.pending["B"]
<1> DEFINE w == WriteControl(s, "B", v)
           r == s.pointer["B"]
<1>0. r \in Register
  BY DEF Controller, Line
<1>1. CASE r = 0
  <2>1. w = WriteZero(s, "B", v)
    BY <1>1 DEF WriteControl
  <2> DEFINE z == WriteZero(s, "B", v)
  <2>2. /\ z \in Controller /\ z.pointer["B"] = v % 16
        /\ z.sharedWr = s.sharedWr /\ z.fifo = s.fifo
        /\ z.pending["A"] = s.pending["A"]
        /\ (v \div 8) % 8 # 7 => z.pending = s.pending
        /\ (v \div 8) % 8 = 7 =>
              (z.pending["B"] <=> (s.fifo["B"] # <<>> /\ WantsRxInterrupt(s, "B")))
    BY ZeroFacts
  <2> HIDE DEF z, w
  <2> QED BY <1>1, <2>1, <2>2 DEF w, z
<1>2. CASE r # 0
  <2>1. w = WriteRegister(s, "B", r, v)
    BY <1>2 DEF WriteControl
  <2> DEFINE z == WriteRegister(s, "B", r, v)
  <2> HIDE DEF w, r
  <2>2. /\ z \in Controller /\ z.pointer["B"] = 0
        /\ z.sharedWr[2] = IF r = 2 THEN v ELSE s.sharedWr[2]
        /\ s.fifo["B"] = <<>> /\ ~s.pending["A"] /\ ~s.pending["B"] =>
                     z.fifo["B"] = <<>> /\ ~z.pending["A"] /\ ~z.pending["B"]
    BY <1>0, RegisterTyped
  <2> HIDE DEF z
  <2> QED BY <1>2, <2>1, <2>2 DEF w, z, r
<1> QED BY <1>1, <1>2

\* A routine is one control byte after the other.
LEMMA PlayFacts ==
    ASSUME NEW s \in Controller, NEW bytes \in Seq(Byte)
    PROVE  \E g : /\ g \in [0 .. Len(bytes) -> Controller] /\ g[0] = s
                  /\ \A k \in 1 .. Len(bytes) : g[k] = WriteControl(g[k - 1], "B", bytes[k])
                  /\ PlayRoutine(s, bytes) = g[Len(bytes)]
<1> DEFINE n == Len(bytes)
           step == [k \in 1 .. n |-> [t \in Controller |-> WriteControl(t, "B", bytes[k])]]
           B(f) == [S \in SUBSET DOMAIN bytes |->
                      IF S = {} THEN s
                      ELSE LET x == Max(S) IN WriteControl(f[S \ {x}], "B", bytes[x])]
           a == CHOOSE f : f = B(f)
<1>0. n \in Nat /\ DOMAIN bytes = 1 .. n /\ \A k \in 1 .. n : bytes[k] \in Byte
  OBVIOUS
<1>1. PlayRoutine(s, bytes) = a[DOMAIN bytes]
  BY Zenon DEF PlayRoutine, FoldLeft, MapThenFoldSet
<1> HIDE DEF n
<1>2. step \in [1 .. n -> [Controller -> Controller]]
  BY <1>0, ControlTyped
<1>3. \E f : f = B(f)
  <2>1. PICK f \in [SUBSET (1 .. n) -> Controller] : FoldOf(f, n, s, step)
    <3> HIDE DEF step
    <3> QED BY <1>0, <1>2, FoldExists
  <2>2. ASSUME NEW S \in SUBSET (1 .. n)
        PROVE  f[S] = IF S = {} THEN s ELSE WriteControl(f[S \ {Max(S)}], "B", bytes[Max(S)])
    <3>1. f[S] = IF S = {} THEN s ELSE step[Max(S)][f[S \ {Max(S)}]]
      BY <2>1 DEF FoldOf
    <3>2. S # {} => Max(S) \in 1 .. n
      BY <1>0, MaxFacts
    <3>3. S \ {Max(S)} \in SUBSET (1 .. n)
      OBVIOUS
    <3>4. f[S \ {Max(S)}] \in Controller
      BY <3>3
    <3> QED BY <3>1, <3>2, <3>4
  <2>3. f = [S \in SUBSET (1 .. n) |-> f[S]]
    OBVIOUS
  <2>4. f = B(f)
    BY <1>0, <2>2, <2>3
  <2> QED BY <2>4
<1>4. a = B(a)
  BY <1>3
<1> HIDE DEF a
<1>5. a[1 .. 0] = s
  <2>1. 1 .. 0 = {} /\ 1 .. 0 \in SUBSET DOMAIN bytes
    OBVIOUS
  <2> QED BY <1>4, <2>1
<1>6. ASSUME NEW k \in 1 .. n PROVE a[1 .. k] = WriteControl(a[1 .. k - 1], "B", bytes[k])
  <2>1. Max(1 .. k) = k /\ (1 .. k) \ {k} = 1 .. k - 1 /\ 1 .. k # {} /\ 1 .. k \in SUBSET (1 .. n)
    BY <1>0, MaxOfInterval
  <2>2. B(a)[1 .. k] = WriteControl(a[(1 .. k) \ {k}], "B", bytes[k])
    BY <1>0, <2>1
  <2> QED BY <1>4, <2>1, <2>2
<1> DEFINE g == [k \in 0 .. n |-> a[1 .. k]]
           U == {k \in 0 .. n : a[1 .. k] \in Controller}
<1>7. 0 .. n \subseteq U
  <2>1. 0 \in U
    BY <1>0, <1>5
  <2>2. \A k \in 1 .. n : k - 1 \in U => k \in U
    <3> SUFFICES ASSUME NEW k \in 1 .. n, a[1 .. k - 1] \in Controller PROVE a[1 .. k] \in Controller
      BY <1>0
    <3>1. bytes[k] \in Byte
      BY <1>0
    <3> QED BY <1>6, <3>1, ControlTyped
  <2> HIDE DEF U
  <2> QED BY <1>0, <2>1, <2>2, InductionUpTo
<1>8. g \in [0 .. n -> Controller] /\ g[0] = s /\ g[n] = a[1 .. n]
  BY <1>0, <1>5, <1>7
<1>9. \A k \in 1 .. n : g[k] = WriteControl(g[k - 1], "B", bytes[k])
  <2> TAKE k \in 1 .. n
  <2>1. k \in 0 .. n /\ k - 1 \in 0 .. n
    BY <1>0
  <2> QED BY <1>6, <2>1
<1>10. PlayRoutine(s, bytes) = g[n]
  BY <1>0, <1>1, <1>8
<1> HIDE DEF g
<1> QED BY <1>8, <1>9, <1>10 DEF n

\* What the guest may write between two interrupts: one register, by its number and its
\* value, but not the vector (WR2) and the master enable (WR9), and it goes on receiving.
PoliteRoutines ==
    \A bytes \in Routines :
        \E r \in (1 .. 15) \ {2, 9}, v \in Byte : bytes = <<0, r, v>> /\ (r = 3 => Bit(v, 0))

\* A routine of that kind leaves the mouse served.
LEMMA RoutineKeeps ==
    ASSUME NEW s \in Controller, s.pointer["B"] \in {0, 8},
           NEW r \in (1 .. 15) \ {2, 9}, NEW v \in Byte, r = 3 => Bit(v, 0)
    PROVE  Keeps(s, PlayRoutine(s, <<0, r, v>>)) /\ PlayRoutine(s, <<0, r, v>>).pointer["B"] = 0
<1> DEFINE bytes == <<0, r, v>>
<1>0. /\ bytes \in Seq(Byte) /\ Len(bytes) = 3 /\ bytes[1] = 0 /\ bytes[2] = r /\ bytes[3] = v
      /\ 0 \in Byte /\ r \in Byte /\ v \in Byte
  BY DEF Byte
<1> HIDE DEF bytes
<1>1. PICK g : /\ g \in [0 .. 3 -> Controller] /\ g[0] = s
               /\ \A k \in 1 .. 3 : g[k] = WriteControl(g[k - 1], "B", bytes[k])
               /\ PlayRoutine(s, bytes) = g[3]
  BY <1>0, PlayFacts
<1>2. /\ g[1] = WriteControl(s, "B", 0) /\ g[2] = WriteControl(g[1], "B", r)
      /\ g[3] = WriteControl(g[2], "B", v)
      /\ g[1] \in Controller /\ g[2] \in Controller /\ g[3] \in Controller
  <2>1. 1 \in 1 .. 3 /\ 2 \in 1 .. 3 /\ 3 \in 1 .. 3
    OBVIOUS
  <2> QED BY <1>0, <1>1, <2>1
<1>3. Keeps(s, g[1]) /\ g[1].pointer["B"] = 0
  <2>1. CASE s.pointer["B"] = 0
    <3>1. g[1] = WriteZero(s, "B", 0) /\ 0 % 16 = 0 /\ (0 \div 8) % 8 # 7
      BY <1>2, <2>1 DEF WriteControl
    <3>2. /\ g[1].pointer["B"] = 0 /\ g[1].wr = s.wr /\ g[1].sharedWr = s.sharedWr
          /\ g[1].fifo = s.fifo /\ g[1].pending = s.pending
      BY <1>0, <3>1, ZeroFacts
    <3>3. WantsRxInterrupt(g[1], "B") = WantsRxInterrupt(s, "B")
      BY <3>2 DEF WantsRxInterrupt
    <3> QED BY <1>2, <3>2, <3>3 DEF Keeps
  <2>2. CASE s.pointer["B"] = 8
    <3>1. g[1] = WriteRegister(s, "B", 8, 0) /\ 8 \in (1 .. 15) \ {2, 9}
      BY <1>2, <2>2 DEF WriteControl
    <3> QED BY <1>0, <3>1, HarmlessWrite DEF Keeps
  <2> QED BY <2>1, <2>2
<1>4. Keeps(g[1], g[2]) /\ g[2].pointer["B"] = r
  <2>1. g[2] = WriteZero(g[1], "B", r) /\ r % 16 = r /\ (r \div 8) % 8 # 7
    BY <1>2, <1>3 DEF WriteControl
  <2>2. /\ g[2].pointer["B"] = r /\ g[2].wr = g[1].wr /\ g[2].sharedWr = g[1].sharedWr
        /\ g[2].fifo = g[1].fifo /\ g[2].pending = g[1].pending
    <3> DEFINE z == WriteZero(g[1], "B", r)
    <3>1. /\ z.pointer["B"] = r % 16 /\ z.wr = g[1].wr /\ z.sharedWr = g[1].sharedWr
          /\ z.fifo = g[1].fifo
          /\ (r \div 8) % 8 # 7 => z.pending = g[1].pending
      <4>1. g[1] \in Controller /\ r \in Byte
        BY <1>0, <1>2
      <4> QED BY <4>1, ZeroFacts
    <3> HIDE DEF z
    <3>2. g[2] = z
      BY <2>1 DEF z
    <3> QED BY <2>1, <3>1, <3>2
  <2>3. WantsRxInterrupt(g[2], "B") = WantsRxInterrupt(g[1], "B")
    BY <2>2 DEF WantsRxInterrupt
  <2> QED BY <1>2, <2>2, <2>3 DEF Keeps
<1>5. Keeps(g[2], g[3]) /\ g[3].pointer["B"] = 0
  <2>1. g[3] = WriteRegister(g[2], "B", r, v)
    <3>1. g[2].pointer["B"] # 0
      BY <1>4
    <3> QED BY <1>2, <1>4, <3>1 DEF WriteControl
  <2> QED BY <1>2, <2>1, HarmlessWrite DEF Keeps
<1>6. Keeps(s, g[3])
  BY <1>3, <1>4, <1>5, KeepsTwice
<1> QED BY <1>1, <1>5, <1>6 DEF bytes

\* A receiver that has nothing and asks for nothing, at a register.
Idle(s, r, vector) ==
    /\ s \in Controller /\ s.pointer["B"] = r /\ s.sharedWr[2] = vector
    /\ s.fifo["B"] = <<>> /\ ~s.pending["A"] /\ ~s.pending["B"]

\* A write to an idle receiver leaves it idle.
LEMMA IdleWrite ==
    ASSUME NEW s, NEW r, NEW vector, Idle(s, r, vector), NEW v \in Byte
    PROVE  Idle(WriteControl(s, "B", v), IF r = 0 THEN v % 16 ELSE 0, IF r = 2 THEN v ELSE vector)
<1> DEFINE w == WriteControl(s, "B", v)
<1>1. /\ w \in Controller
      /\ w.pointer["B"] = IF s.pointer["B"] = 0 THEN v % 16 ELSE 0
      /\ w.sharedWr[2] = IF s.pointer["B"] = 2 THEN v ELSE s.sharedWr[2]
      /\ s.fifo["B"] = <<>> /\ ~s.pending["A"] /\ ~s.pending["B"] =>
            w.fifo["B"] = <<>> /\ ~w.pending["A"] /\ ~w.pending["B"]
  BY ControlTyped DEF Idle
<1> HIDE DEF w
<1> QED BY <1>1 DEF Idle, w

\* The ROM's initialisation leaves the receiver idle, with the mouse's vector.
LEMMA InitIsIdle == Idle(PlayRoutine(ResetScc, Written), 0, 80)
<1>1. Idle(ResetScc, 0, 0)
  <2>1. ResetScc \in Controller
    <3>1. 0 \in Byte /\ 0 \in Register /\ <<>> \in Seq(ReportByte)
      BY DEF Byte, Register
    <3> QED BY <3>1 DEF ResetScc, Controller
  <2> QED BY <2>1 DEF Idle, ResetScc, Line, Shared
<1>2. Written \in Seq(Byte) /\ Len(Written) = 10
  BY DEF Written, Byte
<1>3. PICK g : /\ g \in [0 .. 10 -> Controller] /\ g[0] = ResetScc
               /\ \A k \in 1 .. 10 : g[k] = WriteControl(g[k - 1], "B", Written[k])
               /\ PlayRoutine(ResetScc, Written) = g[10]
  <2>1. ResetScc \in Controller
    BY <1>1 DEF Idle
  <2> HIDE DEF Written
  <2>2. \E g : /\ g \in [0 .. Len(Written) -> Controller] /\ g[0] = ResetScc
               /\ \A k \in 1 .. Len(Written) : g[k] = WriteControl(g[k - 1], "B", Written[k])
               /\ PlayRoutine(ResetScc, Written) = g[Len(Written)]
    BY <1>2, <2>1, PlayFacts
  <2> QED BY <1>2, <2>2
<1>4. \A k \in 1 .. 10 : Written[k] \in Byte
  <2> TAKE k \in 1 .. 10
  <2> HIDE DEF Written
  <2>1. k \in 1 .. Len(Written)
    BY <1>2
  <2> QED BY <1>2, <2>1, ElementOfSeq
<1>5. ASSUME NEW k \in 1 .. 10, NEW r, NEW vector, Idle(g[k - 1], r, vector)
      PROVE  Idle(g[k], IF r = 0 THEN Written[k] % 16 ELSE 0, IF r = 2 THEN Written[k] ELSE vector)
  <2>1. g[k] = WriteControl(g[k - 1], "B", Written[k]) /\ Written[k] \in Byte
    BY <1>3, <1>4
  <2>2. Idle(WriteControl(g[k - 1], "B", Written[k]),
             IF r = 0 THEN Written[k] % 16 ELSE 0, IF r = 2 THEN Written[k] ELSE vector)
    BY <1>5, <2>1, IdleWrite
  <2> QED BY <2>1, <2>2
<1>6. /\ Written[1] = 2 /\ Written[2] = 80 /\ Written[3] = 3 /\ Written[4] = 193 /\ Written[5] = 1
      /\ Written[6] = 16 /\ Written[7] = 9 /\ Written[8] = 9 /\ Written[9] = 5 /\ Written[10] = 98
  BY DEF Written
<1>a. Idle(g[1], 2, 0)
  BY <1>1, <1>3, <1>5, <1>6
<1>b. Idle(g[2], 0, 80)
  BY <1>a, <1>5, <1>6
<1>c. Idle(g[3], 3, 80)
  BY <1>b, <1>5, <1>6
<1>d. Idle(g[4], 0, 80)
  BY <1>c, <1>5, <1>6
<1>e. Idle(g[5], 1, 80)
  BY <1>d, <1>5, <1>6
<1>f. Idle(g[6], 0, 80)
  BY <1>e, <1>5, <1>6
<1>g. Idle(g[7], 9, 80)
  BY <1>f, <1>5, <1>6
<1>h. Idle(g[8], 0, 80)
  BY <1>g, <1>5, <1>6
<1>i. Idle(g[9], 5, 80)
  BY <1>h, <1>5, <1>6
<1>j. Idle(g[10], 0, 80)
  BY <1>i, <1>5, <1>6
<1> QED BY <1>3, <1>j
--------------------------------------------------------------------------------
\* The invariant of the mouse's way: see ByteHasInterrupt.
MouseServed ==
    /\ scc \in Controller /\ scc.pointer["B"] \in {0, 8} /\ scc.sharedWr[2] = 80
    /\ ~scc.pending["A"] /\ (scc.pending["B"] => scc.fifo["B"] # <<>>)
    /\ handler \in {"none", "read", "eoi"} /\ (handler = "read" => scc.fifo["B"] # <<>>)
    /\ scc.fifo["B"] # <<>> /\ WantsRxInterrupt(scc, "B") => scc.pending["B"] \/ handler = "read"
    /\ buttons \in {0, 2} /\ pending \in Int \X Int
    /\ carried \in (Int \X Int) \X {0, 2}
    /\ core = "run" => carried = Nothing

\* What keeps the controller keeps the invariant.
LEMMA KeptServed ==
    ASSUME MouseServed, Keeps(scc, scc'), scc'.pointer["B"] \in {0, 8},
           handler' = handler \/ (handler = "eoi" /\ handler' = "none"),
           UNCHANGED <<pending, buttons, carried, core>>
    PROVE  MouseServed'
<1>1. buttons' = buttons /\ pending' = pending /\ carried' = carried /\ core' = core
  OBVIOUS
<1>2. /\ scc' \in Controller /\ scc'.sharedWr[2] = 80 /\ scc'.fifo = scc.fifo
      /\ ~scc'.pending["A"] /\ (scc'.pending["B"] => scc'.fifo["B"] # <<>>)
  BY DEF MouseServed, Keeps
<1>3. scc'.fifo["B"] # <<>> /\ WantsRxInterrupt(scc', "B") => scc'.pending["B"] \/ handler' = "read"
  BY DEF MouseServed, Keeps
<1>4. handler' \in {"none", "read", "eoi"} /\ (handler' = "read" => scc'.fifo["B"] # <<>>)
  BY <1>2 DEF MouseServed
<1> QED BY <1>1, <1>2, <1>3, <1>4, Zenon DEF MouseServed, WantsRxInterrupt

--------------------------------------------------------------------------------
\* What the steps do to the serial controller.

\* A report has three bytes, with their kinds.
LEMMA ReportTyped ==
    ASSUME NEW move \in Int \X Int, NEW b \in Int
    PROVE  /\ Report(move, b) \in Seq(ReportByte) /\ Len(Report(move, b)) = 3
           /\ Report(move, b)[1] = <<"buttons", b>>
           /\ Report(move, b)[2] = <<"dx", SaturateDelta(move[1])>>
           /\ Report(move, b)[3] = <<"dy", SaturateDelta(move[2])>>
<1>1. SaturateDelta(move[1]) \in Int /\ SaturateDelta(move[2]) \in Int
  BY SccAssumption DEF SaturateDelta
<1>2. /\ <<"buttons", b>> \in ReportByte /\ <<"dx", SaturateDelta(move[1])>> \in ReportByte
      /\ <<"dy", SaturateDelta(move[2])>> \in ReportByte
  BY <1>1 DEF ReportByte
<1> DEFINE x == <<"buttons", b>>
           y == <<"dx", SaturateDelta(move[1])>>
           z == <<"dy", SaturateDelta(move[2])>>
<1>3. Report(move, b) = <<x, y, z>>
  BY DEF Report
<1> HIDE DEF x, y, z
<1>4. x \in ReportByte /\ y \in ReportByte /\ z \in ReportByte
  BY <1>2 DEF x, y, z
<1>5. /\ <<x, y, z>> \in Seq(ReportByte) /\ Len(<<x, y, z>>) = 3
      /\ <<x, y, z>>[1] = x /\ <<x, y, z>>[2] = y /\ <<x, y, z>>[3] = z
  BY <1>4
<1> QED BY <1>3, <1>5 DEF x, y, z

\* What the serial controller makes of a new report ...
LEMMA MoveFacts ==
    ASSUME NEW s \in Controller, NEW move \in Int \X Int, NEW b \in Int
    PROVE  LET w == MoveMouse(s, move, b)
           IN  /\ w \in Controller /\ w.fifo["B"] = s.fifo["B"] \o Report(move, b)
               /\ w.fifo["B"] # <<>> /\ w.pending["A"] = s.pending["A"]
               /\ w.pending["B"] <=> WantsRxInterrupt(w, "B")
               /\ w.wr = s.wr /\ w.sharedWr = s.sharedWr /\ w.pointer = s.pointer
<1> DEFINE f == s.fifo["B"] \o Report(move, b)
           e == [s EXCEPT !.fifo["B"] = f]
           w == MoveMouse(s, move, b)
<1>1. f \in Seq(ReportByte) /\ f # <<>>
  <2>1. s.fifo["B"] \in Seq(ReportByte) /\ Report(move, b) \in Seq(ReportByte) /\ Len(Report(move, b)) = 3
    BY ReportTyped DEF Controller, Line
  <2> DEFINE p == s.fifo["B"]
             q == Report(move, b)
  <2> HIDE DEF p, q
  <2>2. p \in Seq(ReportByte) /\ q \in Seq(ReportByte) /\ Len(q) = 3
    BY <2>1 DEF p, q
  <2>3. p \o q \in Seq(ReportByte) /\ Len(p \o q) = Len(p) + Len(q)
    BY <2>2, ConcatProperties
  <2>4. p \o q # <<>>
    BY <2>2, <2>3
  <2> QED BY <2>3, <2>4 DEF p, q
<1>2. w = RefreshRxInterrupt(e, "B")
  BY DEF MoveMouse
<1> HIDE DEF f
<1>3. e \in Controller /\ e.fifo["B"] = f
  BY <1>1, SetFifo
<1>4. e.wr = s.wr /\ e.sharedWr = s.sharedWr /\ e.pointer = s.pointer /\ e.pending = s.pending
  BY DEF Controller
<1> HIDE DEF e, w
<1>5. /\ w \in Controller /\ w.pending["A"] = e.pending["A"]
      /\ w.pending["B"] <=> (e.fifo["B"] # <<>> /\ WantsRxInterrupt(e, "B"))
      /\ w.wr = e.wr /\ w.sharedWr = e.sharedWr /\ w.pointer = e.pointer /\ w.fifo = e.fifo
  BY <1>2, <1>3, RefreshFacts
<1>6. WantsRxInterrupt(w, "B") = WantsRxInterrupt(e, "B")
  BY <1>5 DEF WantsRxInterrupt
<1>7. w.fifo["B"] = f /\ (w.pending["B"] <=> WantsRxInterrupt(w, "B"))
  BY <1>1, <1>3, <1>5, <1>6
<1> QED BY <1>1, <1>4, <1>5, <1>7, Zenon DEF w, f

\* ... and of the reading of a byte.
LEMMA ReadFacts ==
    ASSUME NEW s \in Controller, s.fifo["B"] # <<>>
    PROVE  LET w == ReadData(s, "B")
           IN  /\ w \in Controller /\ w.fifo["B"] = Tail(s.fifo["B"])
               /\ w.pending["A"] = s.pending["A"]
               /\ w.pending["B"] <=> (w.fifo["B"] # <<>> /\ WantsRxInterrupt(w, "B"))
               /\ w.wr = s.wr /\ w.sharedWr = s.sharedWr /\ w.pointer = s.pointer
<1> DEFINE f == Tail(s.fifo["B"])
           e == [s EXCEPT !.fifo["B"] = f]
           w == ReadData(s, "B")
<1>1. f \in Seq(ReportByte)
  <2>1. s.fifo["B"] \in Seq(ReportByte)
    BY DEF Controller, Line
  <2> QED BY <2>1
<1>2. w = RefreshRxInterrupt(e, "B")
  BY DEF ReadData
<1> HIDE DEF f
<1>3. e \in Controller /\ e.fifo["B"] = f
  BY <1>1, SetFifo
<1>4. e.wr = s.wr /\ e.sharedWr = s.sharedWr /\ e.pointer = s.pointer /\ e.pending = s.pending
  BY DEF Controller
<1> HIDE DEF e, w
<1>5. /\ w \in Controller /\ w.pending["A"] = e.pending["A"]
      /\ w.pending["B"] <=> (e.fifo["B"] # <<>> /\ WantsRxInterrupt(e, "B"))
      /\ w.wr = e.wr /\ w.sharedWr = e.sharedWr /\ w.pointer = e.pointer /\ w.fifo = e.fifo
  BY <1>2, <1>3, RefreshFacts
<1>6. WantsRxInterrupt(w, "B") = WantsRxInterrupt(e, "B")
  BY <1>5 DEF WantsRxInterrupt
<1>7. w.fifo["B"] = f /\ (w.pending["B"] <=> (w.fifo["B"] # <<>> /\ WantsRxInterrupt(w, "B")))
  BY <1>3, <1>5, <1>6
<1> QED BY <1>4, <1>5, <1>7, Zenon DEF w, f

\* An acknowledgement withdraws the request and leaves the bytes.
LEMMA AcknowledgeFacts ==
    ASSUME NEW s \in Controller, SccHasPending(s), ~s.pending["A"]
    PROVE  LET w == AcknowledgeScc(s)
           IN  /\ s.pending["B"] /\ w \in Controller /\ ~w.pending["A"] /\ ~w.pending["B"]
               /\ w.wr = s.wr /\ w.sharedWr = s.sharedWr /\ w.pointer = s.pointer /\ w.fifo = s.fifo
<1> DEFINE e == [s EXCEPT !.pending["B"] = FALSE]
           w == AcknowledgeScc(s)
<1>1. s.pending["B"] /\ "B" \in Line /\ "A" \in Line
  BY DEF SccHasPending, Line
<1>2. w = e
  BY <1>1, Zenon DEF AcknowledgeScc
<1>3. e \in Controller /\ e.pending["B"] = FALSE /\ e.pending["A"] = s.pending["A"]
  <2>1. FALSE \in BOOLEAN /\ "A" # "B"
    OBVIOUS
  <2>2. e \in Controller
    BY <1>1 DEF Controller
  <2>3. e.pending["B"] = FALSE
    BY <1>1 DEF Controller
  <2>4. e.pending["A"] = s.pending["A"]
    BY <1>1 DEF Controller
  <2> QED BY <2>2, <2>3, <2>4, Zenon
<1>4. e.wr = s.wr /\ e.sharedWr = s.sharedWr /\ e.pointer = s.pointer /\ e.fifo = s.fifo
  BY DEF Controller
<1> HIDE DEF e, w
<1> QED BY <1>1, <1>2, <1>3, <1>4 DEF w

\* The display core adds to the queue.
LEMMA PushServed ==
    ASSUME MouseServed, NEW move \in Int \X Int, NEW b \in {0, 2}, PushMouse(move, b)
    PROVE  MouseServed'
<1>1. /\ scc' = scc /\ handler' = handler /\ core' = core /\ carried' = carried
      /\ buttons' = b /\ pending' = Plus(pending, move)
  BY DEF PushMouse, guestVars
<1>2. pending' \in Int \X Int
  BY <1>1 DEF Plus, MouseServed
<1>3. WantsRxInterrupt(scc', "B") = WantsRxInterrupt(scc, "B")
  BY <1>1, Zenon
<1> QED BY <1>1, <1>2, <1>3 DEF MouseServed

\* Nothing of the mouse changes.
LEMMA SameServed ==
    ASSUME MouseServed, UNCHANGED <<scc, handler, pending, buttons, core, carried>>
    PROVE  MouseServed'
<1>1. /\ scc' = scc /\ handler' = handler /\ core' = core /\ carried' = carried
      /\ buttons' = buttons /\ pending' = pending
  OBVIOUS
<1> QED BY <1>1, Zenon DEF MouseServed

\* The emulation core takes from the queue and gives back.
LEMMA DrainServed == MouseServed /\ (DrainTake \/ Refuse \/ DrainReturn) => MouseServed'
<1> SUFFICES ASSUME MouseServed, DrainTake \/ Refuse \/ DrainReturn PROVE MouseServed'
  OBVIOUS
<1>1. scc' = scc /\ handler' = handler /\ buttons' = buttons
  BY DEF DrainTake, Refuse, DrainReturn, guestVars
<1>2. Zero \in Int \X Int /\ Nothing \in (Int \X Int) \X {0, 2}
  BY DEF Zero, Nothing
<1>3. /\ pending' \in Int \X Int /\ carried' \in (Int \X Int) \X {0, 2}
      /\ core' = "run" => carried' = Nothing
  <2>1. CASE DrainTake
    BY <1>2, <2>1 DEF DrainTake, MouseServed
  <2>2. CASE Refuse
    BY <1>2, <2>2 DEF Refuse, MouseServed
  <2>3. CASE DrainReturn
    <3>1. pending' = Plus(pending, carried[1]) /\ carried' = Nothing
      BY <2>3 DEF DrainReturn
    <3>2. carried[1] \in Int \X Int /\ pending \in Int \X Int
      BY DEF MouseServed
    <3>3. Plus(pending, carried[1]) \in Int \X Int
      BY <3>2 DEF Plus
    <3> QED BY <1>2, <3>1, <3>3
  <2> QED BY <2>1, <2>2, <2>3
<1> QED BY <1>1, <1>3, Zenon DEF MouseServed

\* A report enters the FIFO, and the interrupt is looked at.
LEMMA AcceptServed == MouseServed /\ Accept => MouseServed'
<1> SUFFICES ASSUME MouseServed, Accept PROVE MouseServed'
  OBVIOUS
<1>1. /\ scc' = MoveMouse(scc, carried[1], carried[2]) /\ carried' = Nothing /\ core' = "run"
      /\ pending' = pending /\ buttons' = buttons /\ handler' = handler
  BY DEF Accept, guestVars
<1>2. scc \in Controller /\ carried[1] \in Int \X Int /\ carried[2] \in Int
  BY DEF MouseServed
<1>m. PICK move \in Int \X Int, b \in Int : move = carried[1] /\ b = carried[2]
  BY <1>2
<1> DEFINE w == MoveMouse(scc, move, b)
<1>3. /\ w \in Controller /\ w.fifo["B"] # <<>> /\ w.pending["A"] = scc.pending["A"]
      /\ w.pending["B"] <=> WantsRxInterrupt(w, "B")
      /\ w.wr = scc.wr /\ w.sharedWr = scc.sharedWr /\ w.pointer = scc.pointer
  BY <1>2, MoveFacts
<1> HIDE DEF w
<1>4. Nothing \in (Int \X Int) \X {0, 2}
  BY DEF Nothing, Zero
<1>5. scc' = w
  BY <1>1, <1>m DEF w
<1> QED BY <1>1, <1>3, <1>4, <1>5 DEF MouseServed

\* A byte is read; the rest, if any, asks again.
LEMMA ReadServed == MouseServed /\ HandlerRead => MouseServed'
<1> SUFFICES ASSUME MouseServed, HandlerRead PROVE MouseServed'
  OBVIOUS
<1>1. /\ handler = "read" /\ handler' = "eoi" /\ scc' = (IF scc.fifo["B"] = <<>> THEN scc ELSE ReadData(scc, "B"))
      /\ pending' = pending /\ buttons' = buttons /\ core' = core /\ carried' = carried
  BY DEF HandlerRead, queueVars
<1>2. scc.fifo["B"] # <<>> /\ scc \in Controller
  BY <1>1 DEF MouseServed
<1> DEFINE w == ReadData(scc, "B")
<1>3. /\ w \in Controller /\ w.pending["A"] = scc.pending["A"]
      /\ w.pending["B"] <=> (w.fifo["B"] # <<>> /\ WantsRxInterrupt(w, "B"))
      /\ w.wr = scc.wr /\ w.sharedWr = scc.sharedWr /\ w.pointer = scc.pointer
  BY <1>2, ReadFacts
<1> HIDE DEF w
<1>4. scc' = w
  BY <1>1, <1>2 DEF w
<1> QED BY <1>1, <1>3, <1>4 DEF MouseServed

\* An interrupt is taken: the handler is about to read.
LEMMA ServiceServed == MouseServed /\ ServiceScc => MouseServed'
<1> SUFFICES ASSUME MouseServed, ServiceScc PROVE MouseServed'
  OBVIOUS
<1>1. /\ scc' = AcknowledgeScc(scc) /\ handler' = IF scc.sharedWr[2] = 80 THEN "read" ELSE "none"
      /\ SccHasPending(scc)
      /\ pending' = pending /\ buttons' = buttons /\ core' = core /\ carried' = carried
  BY DEF ServiceScc, queueVars
<1>2. scc \in Controller /\ ~scc.pending["A"]
  BY DEF MouseServed
<1> DEFINE w == AcknowledgeScc(scc)
<1>3. /\ scc.pending["B"] /\ w \in Controller /\ ~w.pending["A"] /\ ~w.pending["B"]
      /\ w.wr = scc.wr /\ w.sharedWr = scc.sharedWr /\ w.pointer = scc.pointer /\ w.fifo = scc.fifo
  BY <1>1, <1>2, AcknowledgeFacts
<1> HIDE DEF w
<1>4. scc' = w
  BY <1>1 DEF w
<1>5. handler' = "read"
  BY <1>1 DEF MouseServed
<1> QED BY <1>1, <1>3, <1>4, <1>5 DEF MouseServed

\* What the guest writes and reads at the control port keeps the mouse served.
Kept == Keeps(scc, scc') /\ scc'.pointer["B"] \in {0, 8}

\* The end of the handler: a command, or a harmless register, by where the pointer is.
LEMMA EndKeeps == MouseServed /\ HandlerEnd => Kept
<1> SUFFICES ASSUME MouseServed, HandlerEnd PROVE Kept
  OBVIOUS
<1>1. /\ handler = "eoi" /\ handler' = "none" /\ scc' = WriteControl(scc, "B", 56)
      /\ UNCHANGED <<pending, buttons, carried, core>>
  BY DEF HandlerEnd, queueVars
<1>2. scc \in Controller /\ scc.pointer["B"] \in {0, 8} /\ 56 \in Byte
  BY DEF MouseServed, Byte
<1>3. Keeps(scc, WriteControl(scc, "B", 56)) /\ WriteControl(scc, "B", 56).pointer["B"] \in {0, 8}
  <2>1. CASE scc.pointer["B"] = 0
    <3> DEFINE z == WriteZero(scc, "B", 56)
    <3>1. WriteControl(scc, "B", 56) = z /\ 56 % 16 = 8 /\ (56 \div 8) % 8 = 7
      BY <2>1 DEF WriteControl
    <3>2. /\ z \in Controller /\ z.pointer["B"] = 56 % 16
          /\ z.wr = scc.wr /\ z.sharedWr = scc.sharedWr /\ z.fifo = scc.fifo
          /\ z.pending["A"] = scc.pending["A"]
          /\ (56 \div 8) % 8 = 7 =>
               (z.pending["B"] <=> (scc.fifo["B"] # <<>> /\ WantsRxInterrupt(scc, "B")))
      BY <1>2, ZeroFacts
    <3> HIDE DEF z
    <3>3. WantsRxInterrupt(z, "B") = WantsRxInterrupt(scc, "B")
      BY <3>2 DEF WantsRxInterrupt
    <3>4. Keeps(scc, z) /\ z.pointer["B"] = 8
      BY <3>1, <3>2, <3>3 DEF Keeps
    <3> QED BY <3>1, <3>4
  <2>2. CASE scc.pointer["B"] = 8
    <3> DEFINE z == WriteRegister(scc, "B", 8, 56)
    <3>1. WriteControl(scc, "B", 56) = z
      BY <2>2 DEF WriteControl
    <3>2. 8 \in (1 .. 15) \ {2, 9}
      OBVIOUS
    <3>3. /\ z \in Controller /\ z.pointer["B"] = 0 /\ z.sharedWr[2] = scc.sharedWr[2]
          /\ z.fifo = scc.fifo /\ z.pending["A"] = scc.pending["A"]
          /\ \/ z.pending["B"] = scc.pending["B"] /\ WantsRxInterrupt(z, "B") = WantsRxInterrupt(scc, "B")
             \/ z.pending["B"] <=> (z.fifo["B"] # <<>> /\ WantsRxInterrupt(z, "B"))
      BY <1>2, <3>2, HarmlessWrite
    <3> HIDE DEF z
    <3>4. Keeps(scc, z)
      BY <3>3 DEF Keeps
    <3> QED BY <3>1, <3>3, <3>4
  <2> QED BY <1>2, <2>1, <2>2
<1> QED BY <1>1, <1>3 DEF Kept

\* The guest sets a register.
LEMMA RegisterKeeps ==
    ASSUME PoliteRoutines, MouseServed, NEW bytes \in Routines, SetRegister(bytes)
    PROVE  Kept
<1>1. /\ scc' = PlayRoutine(scc, bytes) /\ handler' = handler
      /\ UNCHANGED <<pending, buttons, carried, core>>
  BY DEF SetRegister, queueVars, guestVars
<1>2. PICK r \in (1 .. 15) \ {2, 9}, v \in Byte : bytes = <<0, r, v>> /\ (r = 3 => Bit(v, 0))
  BY DEF PoliteRoutines
<1>3. scc \in Controller /\ scc.pointer["B"] \in {0, 8}
  BY DEF MouseServed
<1>4. Keeps(scc, scc') /\ scc'.pointer["B"] = 0
  BY <1>1, <1>2, <1>3, RoutineKeeps
<1> QED BY <1>4 DEF Kept

\* The guest reads RR0.
LEMMA StatusKeeps == MouseServed /\ ReadStatus => Kept
<1> SUFFICES ASSUME MouseServed, ReadStatus PROVE Kept
  OBVIOUS
<1>1. /\ scc' = [scc EXCEPT !.pointer["B"] = 0] /\ handler' = handler
      /\ UNCHANGED <<pending, buttons, carried, core>>
  BY DEF ReadStatus, ReadControl, queueVars, guestVars
<1>2. scc \in Controller /\ 0 \in Register
  BY DEF MouseServed, Register
<1>3. scc' \in Controller /\ scc'.pointer["B"] = 0
  BY <1>1, <1>2, SetPointer
<1>4. /\ scc'.wr = scc.wr /\ scc'.sharedWr = scc.sharedWr /\ scc'.fifo = scc.fifo
      /\ scc'.pending = scc.pending
  BY <1>1, <1>2 DEF Controller
<1>5. WantsRxInterrupt(scc', "B") = WantsRxInterrupt(scc, "B")
  BY <1>4 DEF WantsRxInterrupt
<1>6. Keeps(scc, scc')
  BY <1>3, <1>4, <1>5 DEF Keeps
<1> QED BY <1>3, <1>6 DEF Kept
\* Every step of the emulation core and of the guest.
LEMMA StepServed == ASSUME PoliteRoutines, MouseServed, MouseStep PROVE MouseServed'
<1>1. CASE DrainTake \/ Refuse \/ DrainReturn
  BY <1>1, DrainServed
<1>2. CASE Accept
  BY <1>2, AcceptServed
<1>3. CASE ServiceScc
  BY <1>3, ServiceServed
<1>4. CASE HandlerRead
  BY <1>4, ReadServed
<1>5. CASE HandlerEnd
  <2>1. handler = "eoi" /\ handler' = "none" /\ UNCHANGED <<pending, buttons, carried, core>>
    BY <1>5 DEF HandlerEnd, queueVars
  <2> QED BY <1>5, <2>1, EndKeeps, KeptServed DEF Kept
<1>6. ASSUME NEW bytes \in Routines, SetRegister(bytes) PROVE MouseServed'
  <2>1. handler' = handler /\ UNCHANGED <<pending, buttons, carried, core>>
    BY <1>6 DEF SetRegister, queueVars, guestVars
  <2>2. Kept
    BY <1>6, RegisterKeeps
  <2> QED BY <2>1, <2>2, KeptServed DEF Kept
<1>7. CASE ReadStatus
  <2>1. handler' = handler /\ UNCHANGED <<pending, buttons, carried, core>>
    BY <1>7 DEF ReadStatus, queueVars, guestVars
  <2> QED BY <1>7, <2>1, StatusKeeps, KeptServed DEF Kept
<1> QED BY <1>1, <1>2, <1>3, <1>4, <1>5, <1>6, <1>7 DEF MouseStep

--------------------------------------------------------------------------------
\* The guest is interrupted for every byte.

\* After the ROM's initialisation nothing waits.
LEMMA InitServed == Init => MouseServed
<1> SUFFICES ASSUME Init PROVE MouseServed
  OBVIOUS
<1>1. Idle(scc, 0, 80)
  BY InitIsIdle DEF Init, MouseInit
<1>2. /\ pending = Zero /\ buttons = 0 /\ core = "run" /\ carried = Nothing /\ handler = "none"
  BY DEF Init, MouseInit
<1>3. Zero \in Int \X Int /\ Nothing \in (Int \X Int) \X {0, 2}
  BY DEF Zero, Nothing
<1> QED BY <1>1, <1>2, <1>3 DEF MouseServed, Idle

\* What the display core adds to the queue: a distance, and the button up or down.
LEMMA HostPushes ==
    ASSUME DragInv, (\E p \in Positions \cup {Up} : Sample(p)) \/ Switch
    PROVE  \/ UNCHANGED mouseVars
           \/ \E move \in Int \X Int, b \in {0, 2} : PushMouse(move, b)
<1>0. Zero \in Int \X Int /\ 0 \in {0, 2} /\ LeftButton \in {0, 2}
  BY DEF Zero, LeftButton
<1>1. ASSUME NEW p \in Positions \cup {Up}, Sample(p)
      PROVE  \/ UNCHANGED mouseVars
             \/ \E move \in Int \X Int, b \in {0, 2} : PushMouse(move, b)
  <2>1. CASE UNCHANGED mouseVars
    BY <2>1
  <2>2. CASE Released \/ Touched(p)
    <3>1. PushMouse(Zero, 0) \/ PushMouse(Zero, LeftButton)
      BY <2>2 DEF Released, Touched
    <3> QED BY <1>0, <3>1
  <2>3. CASE p # Up /\ Dragged(p)
    <3>1. drag \in Point /\ p \in Point
      BY <2>3, PositionIsPoint DEF Dragged, DragInv
    <3>2. <<p[1] - drag[1], p[2] - drag[2]>> \in Int \X Int
      BY <3>1 DEF Point
    <3>3. PushMouse(<<p[1] - drag[1], p[2] - drag[2]>>, LeftButton)
      BY <2>3 DEF Dragged
    <3> QED BY <1>0, <3>2, <3>3
  <2>4. \/ UNCHANGED mouseVars \/ Released \/ Touched(p)
        \/ p # Up /\ Dragged(p)
    BY <1>1 DEF Sample
  <2> QED BY <2>1, <2>2, <2>3, <2>4
<1>2. CASE Switch
  <2>1. PushMouse(Zero, 0) \/ UNCHANGED mouseVars
    BY <1>2 DEF Switch, EnterFace
  <2> QED BY <1>0, <2>1
<1> QED BY <1>1, <1>2

\* Every step of the whole keeps the mouse served.
LEMMA ServedSteps == ASSUME PoliteRoutines, MouseServed, DragInv, [Next]_vars PROVE MouseServed'
<1>1. ASSUME UNCHANGED mouseVars PROVE MouseServed'
  <2>1. UNCHANGED <<scc, handler, pending, buttons, core, carried>>
    BY <1>1 DEF mouseVars, queueVars, guestVars
  <2> QED BY <2>1, SameServed
<1>2. CASE (\E p \in Positions \cup {Up} : Sample(p)) \/ Switch
  <2>1. CASE UNCHANGED mouseVars
    BY <1>1, <2>1
  <2>2. ASSUME NEW move \in Int \X Int, NEW b \in {0, 2}, PushMouse(move, b) PROVE MouseServed'
    BY <2>2, PushServed
  <2> QED BY <1>2, <2>1, <2>2, HostPushes
<1>3. CASE Mouse(MouseStep)
  <2>1. MouseStep
    BY <1>3 DEF Mouse
  <2> QED BY <2>1, StepServed
<1>4. CASE Type \/ Drain \/ Read \/ UNCHANGED vars
  <2>1. UNCHANGED mouseVars
    BY <1>4 DEF Type, Drain, Read, vars, mouseVars
  <2> QED BY <1>1, <2>1
<1> QED BY <1>2, <1>3, <1>4 DEF Next

\* A byte in the FIFO has an interrupt, requested or in progress, while the guest wants
\* interrupts (refreshRxInterrupt: "as long as one byte is left"), whatever the order of
\* pushes, drains, reads and register writes.
THEOREM GuestIsInterrupted == ASSUME PoliteRoutines PROVE Spec => []ByteHasInterrupt
<1>1. Init => DragInv /\ MouseServed
  BY DragInit, InitServed
<1>2. (DragInv /\ MouseServed) /\ [Next]_vars => (DragInv /\ MouseServed)'
  BY DragSteps, ServedSteps DEF DragStep
<1>3. DragInv /\ MouseServed => ByteHasInterrupt
  BY DEF MouseServed, ByteHasInterrupt
<1> QED BY <1>1, <1>2, <1>3, PTL DEF Spec

--------------------------------------------------------------------------------
\* The distance in a queue of bytes.

\* What a byte adds to the distance in direction k.
Share(byte, k) == IF byte[1] = <<"dx", "dy">>[k] THEN byte[2] ELSE 0

\* It is a number.
LEMMA ShareTyped ==
    ASSUME NEW bytes \in Seq(ReportByte), NEW j \in 1 .. Len(bytes), NEW k
    PROVE  Share(bytes[j], k) \in Int
<1>1. bytes[j] \in ReportByte
  BY ElementOfSeq
<1> QED BY <1>1 DEF Share, ReportByte

\* The distance in a queue is the last of its running sums.
LEMMA DistanceFacts ==
    ASSUME NEW bytes \in Seq(ReportByte), NEW k \in 1 .. 2
    PROVE  \E g : /\ g \in [0 .. Len(bytes) -> Int] /\ g[0] = 0
                  /\ \A j \in 1 .. Len(bytes) : g[j] = g[j - 1] + Share(bytes[j], k)
                  /\ Distance(bytes, k) = g[Len(bytes)]
<1> DEFINE n == Len(bytes)
           Plus1(t, byte) == IF byte[1] = <<"dx", "dy">>[k] THEN t + byte[2] ELSE t
           step == [j \in 1 .. n |-> [t \in Int |-> Plus1(t, bytes[j])]]
           B(f) == [S \in SUBSET DOMAIN bytes |->
                      IF S = {} THEN 0
                      ELSE LET x == Max(S) IN Plus1(f[S \ {x}], bytes[x])]
           a == CHOOSE f : f = B(f)
<1>0. n \in Nat /\ DOMAIN bytes = 1 .. n
  OBVIOUS
<1>1. Distance(bytes, k) = a[DOMAIN bytes]
  BY Zenon DEF Distance, FoldLeft, MapThenFoldSet
<1>s. \A t \in Int, j \in 1 .. n : Plus1(t, bytes[j]) \in Int /\ Plus1(t, bytes[j]) = t + Share(bytes[j], k)
  <2> TAKE t \in Int, j \in 1 .. n
  <2>1. Share(bytes[j], k) \in Int
    BY ShareTyped
  <2>2. Plus1(t, bytes[j]) = t + Share(bytes[j], k)
    BY DEF Share
  <2> QED BY <2>1, <2>2
<1> HIDE DEF n, Plus1
<1>2. step \in [1 .. n -> [Int -> Int]]
  BY <1>0, <1>s
<1>3. \E f : f = B(f)
  <2>1. PICK f \in [SUBSET (1 .. n) -> Int] : FoldOf(f, n, 0, step)
    <3> HIDE DEF step
    <3>1. 0 \in Int
      OBVIOUS
    <3> QED BY <1>0, <1>2, <3>1, FoldExists, Zenon
  <2>2. ASSUME NEW S \in SUBSET (1 .. n)
        PROVE  f[S] = IF S = {} THEN 0 ELSE Plus1(f[S \ {Max(S)}], bytes[Max(S)])
    <3>1. f[S] = IF S = {} THEN 0 ELSE step[Max(S)][f[S \ {Max(S)}]]
      BY <2>1 DEF FoldOf
    <3>2. S # {} => Max(S) \in 1 .. n
      BY <1>0, MaxFacts
    <3>3. S \ {Max(S)} \in SUBSET (1 .. n)
      OBVIOUS
    <3>4. f[S \ {Max(S)}] \in Int
      BY <3>3
    <3> QED BY <3>1, <3>2, <3>4
  <2>3. f = [S \in SUBSET (1 .. n) |-> f[S]]
    OBVIOUS
  <2>4. f = B(f)
    BY <1>0, <2>2, <2>3
  <2> QED BY <2>4
<1>4. a = B(a)
  BY <1>3
<1> HIDE DEF a
<1>5. a[1 .. 0] = 0
  <2>1. 1 .. 0 = {} /\ 1 .. 0 \in SUBSET DOMAIN bytes
    OBVIOUS
  <2> QED BY <1>4, <2>1
<1>6. ASSUME NEW j \in 1 .. n PROVE a[1 .. j] = Plus1(a[1 .. j - 1], bytes[j])
  <2>1. Max(1 .. j) = j /\ (1 .. j) \ {j} = 1 .. j - 1 /\ 1 .. j # {} /\ 1 .. j \in SUBSET (1 .. n)
    BY <1>0, MaxOfInterval
  <2>2. B(a)[1 .. j] = Plus1(a[(1 .. j) \ {j}], bytes[j])
    BY <1>0, <2>1
  <2> QED BY <1>4, <2>1, <2>2
<1> DEFINE g == [j \in 0 .. n |-> a[1 .. j]]
           U == {j \in 0 .. n : a[1 .. j] \in Int}
<1>7. 0 .. n \subseteq U
  <2>1. 0 \in U
    BY <1>0, <1>5
  <2>2. \A j \in 1 .. n : j - 1 \in U => j \in U
    <3> SUFFICES ASSUME NEW j \in 1 .. n, a[1 .. j - 1] \in Int PROVE a[1 .. j] \in Int
      BY <1>0
    <3> QED BY <1>6, <1>s
  <2> HIDE DEF U
  <2> QED BY <1>0, <2>1, <2>2, InductionUpTo
<1>8. g \in [0 .. n -> Int] /\ g[0] = 0 /\ g[n] = a[1 .. n]
  BY <1>0, <1>5, <1>7
<1>9. \A j \in 1 .. n : g[j] = g[j - 1] + Share(bytes[j], k)
  <2> TAKE j \in 1 .. n
  <2>1. j \in 0 .. n /\ j - 1 \in 0 .. n
    BY <1>0
  <2>2. g[j] = a[1 .. j] /\ g[j - 1] = a[1 .. j - 1] /\ g[j - 1] \in Int
    BY <1>8, <2>1
  <2> HIDE DEF g
  <2> QED BY <1>6, <1>s, <2>2
<1>10. Distance(bytes, k) = g[n]
  BY <1>0, <1>1, <1>8
<1> HIDE DEF g
<1> QED BY <1>8, <1>9, <1>10 DEF n

\* Distances add up.
LEMMA DistanceOfConcat ==
    ASSUME NEW a \in Seq(ReportByte), NEW b \in Seq(ReportByte), NEW k \in 1 .. 2
    PROVE  /\ Distance(a, k) \in Int /\ Distance(b, k) \in Int
           /\ Distance(a \o b, k) = Distance(a, k) + Distance(b, k)
<1> DEFINE c == a \o b
           m == Len(a)
           n == Len(b)
<1>0. /\ c \in Seq(ReportByte) /\ Len(c) = m + n /\ m \in Nat /\ n \in Nat
      /\ \A j \in 1 .. m : c[j] = a[j]
      /\ \A j \in 1 .. n : c[m + j] = b[j]
  <2>1. /\ c \in Seq(ReportByte) /\ Len(c) = m + n
        /\ \A i \in 1 .. m + n : c[i] = IF i <= m THEN a[i] ELSE b[i - m]
    BY ConcatProperties
  <2>2. m \in Nat /\ n \in Nat
    OBVIOUS
  <2> HIDE DEF c, m, n
  <2>3. \A j \in 1 .. m : c[j] = a[j]
    BY <2>1, <2>2
  <2>4. \A j \in 1 .. n : c[m + j] = b[j]
    <3> TAKE j \in 1 .. n
    <3>1. m + j \in 1 .. m + n /\ ~(m + j <= m) /\ (m + j) - m = j
      BY <2>2
    <3> QED BY <2>1, <3>1
  <2> QED BY <2>1, <2>2, <2>3, <2>4
<1>1. PICK f : /\ f \in [0 .. m -> Int] /\ f[0] = 0
               /\ \A j \in 1 .. m : f[j] = f[j - 1] + Share(a[j], k)
               /\ Distance(a, k) = f[m]
  BY DistanceFacts
<1>2. PICK g : /\ g \in [0 .. n -> Int] /\ g[0] = 0
               /\ \A j \in 1 .. n : g[j] = g[j - 1] + Share(b[j], k)
               /\ Distance(b, k) = g[n]
  BY DistanceFacts
<1> HIDE DEF c, m, n
<1>3. PICK h : /\ h \in [0 .. m + n -> Int] /\ h[0] = 0
               /\ \A j \in 1 .. m + n : h[j] = h[j - 1] + Share(c[j], k)
               /\ Distance(c, k) = h[m + n]
  <2>1. \E h : /\ h \in [0 .. Len(c) -> Int] /\ h[0] = 0
               /\ \A j \in 1 .. Len(c) : h[j] = h[j - 1] + Share(c[j], k)
               /\ Distance(c, k) = h[Len(c)]
    BY <1>0, DistanceFacts
  <2> QED BY <1>0, <2>1
<1> DEFINE U == {j \in 0 .. m : h[j] = f[j]}
           V == {j \in 0 .. n : h[m + j] = f[m] + g[j]}
<1>4. 0 .. m \subseteq U
  <2>1. 0 \in U
    BY <1>0, <1>1, <1>3
  <2>2. \A j \in 1 .. m : j - 1 \in U => j \in U
    <3> SUFFICES ASSUME NEW j \in 1 .. m, h[j - 1] = f[j - 1] PROVE j \in 0 .. m /\ h[j] = f[j]
      OBVIOUS
    <3>1. j \in 1 .. m + n /\ j \in 0 .. m
      BY <1>0
    <3>2. h[j] = h[j - 1] + Share(c[j], k) /\ f[j] = f[j - 1] + Share(a[j], k) /\ c[j] = a[j]
      BY <1>0, <1>1, <1>3, <3>1
    <3> QED BY <3>1, <3>2
  <2> HIDE DEF U
  <2> QED BY <1>0, <2>1, <2>2, InductionUpTo
<1>5. h[m] = f[m] /\ f[m] \in Int /\ g[n] \in Int
  BY <1>0, <1>1, <1>2, <1>4
<1>6. 0 .. n \subseteq V
  <2>1. 0 \in V
    BY <1>0, <1>2, <1>5
  <2>2. \A j \in 1 .. n : j - 1 \in V => j \in V
    <3> SUFFICES ASSUME NEW j \in 1 .. n, h[m + (j - 1)] = f[m] + g[j - 1]
                 PROVE  j \in 0 .. n /\ h[m + j] = f[m] + g[j]
      OBVIOUS
    <3>1. m + j \in 1 .. m + n /\ (m + j) - 1 = m + (j - 1) /\ j \in 0 .. n /\ j - 1 \in 0 .. n
      BY <1>0
    <3>2. h[m + j] = h[m + (j - 1)] + Share(b[j], k)
      BY <1>0, <1>3, <3>1
    <3>3. g[j] = g[j - 1] + Share(b[j], k)
      BY <1>2
    <3>4. g[j - 1] \in Int /\ Share(b[j], k) \in Int
      BY <1>2, <3>1, ShareTyped DEF n
    <3> QED BY <1>5, <3>1, <3>2, <3>3, <3>4
  <2> HIDE DEF V
  <2> QED BY <1>0, <2>1, <2>2, InductionUpTo
<1>7. h[m + n] = f[m] + g[n]
  BY <1>0, <1>6
<1> QED BY <1>1, <1>2, <1>3, <1>5, <1>7 DEF c

\* A whole report carries its two displacements.
LEMMA DistanceOfReport ==
    ASSUME NEW r \in Seq(ReportByte), Len(r) = 3, r[1][1] = "buttons", r[2][1] = "dx", r[3][1] = "dy"
    PROVE  Distance(r, 1) = r[2][2] /\ Distance(r, 2) = r[3][2]
<1>i. 1 \in 1 .. Len(r) /\ 2 \in 1 .. Len(r) /\ 3 \in 1 .. Len(r)
  OBVIOUS
<1>0. r[1] \in ReportByte /\ r[2] \in ReportByte /\ r[3] \in ReportByte
  BY <1>i, ElementOfSeq
<1>1. r[2][2] \in Int /\ r[3][2] \in Int
  BY <1>0 DEF ReportByte
<1>2. ASSUME NEW k \in 1 .. 2
      PROVE  Distance(r, k) = Share(r[1], k) + Share(r[2], k) + Share(r[3], k)
  <2>1. PICK g : /\ g \in [0 .. 3 -> Int] /\ g[0] = 0
                 /\ \A j \in 1 .. 3 : g[j] = g[j - 1] + Share(r[j], k)
                 /\ Distance(r, k) = g[3]
    <3>1. \E g : /\ g \in [0 .. Len(r) -> Int] /\ g[0] = 0
                 /\ \A j \in 1 .. Len(r) : g[j] = g[j - 1] + Share(r[j], k)
                 /\ Distance(r, k) = g[Len(r)]
      BY DistanceFacts
    <3> QED BY <3>1
  <2>2. Share(r[1], k) \in Int /\ Share(r[2], k) \in Int /\ Share(r[3], k) \in Int
    BY <1>i, ShareTyped
  <2>3. g[1] = g[0] + Share(r[1], k) /\ g[2] = g[1] + Share(r[2], k) /\ g[3] = g[2] + Share(r[3], k)
    <3>1. 1 \in 1 .. 3 /\ 2 \in 1 .. 3 /\ 3 \in 1 .. 3
      OBVIOUS
    <3> QED BY <2>1, <3>1
  <2> QED BY <2>1, <2>2, <2>3
<1>3. Share(r[1], 1) = 0 /\ Share(r[2], 1) = r[2][2] /\ Share(r[3], 1) = 0
  BY DEF Share
<1>4. Share(r[1], 2) = 0 /\ Share(r[2], 2) = 0 /\ Share(r[3], 2) = r[3][2]
  BY DEF Share
<1> QED BY <1>1, <1>2, <1>3, <1>4

--------------------------------------------------------------------------------
\* What is in flight.

\* The kinds of a report's bytes, and a sequence of whole reports.
Kinds == <<"buttons", "dx", "dy">>
Whole(bytes) ==
    /\ Len(bytes) % 3 = 0
    /\ \A i \in DOMAIN bytes : bytes[i][1] = Kinds[((i - 1) % 3) + 1]

\* Another whole report at the end ...
LEMMA WholeAppended ==
    ASSUME NEW a \in Seq(ReportByte), NEW r \in Seq(ReportByte), Whole(a), Len(r) = 3,
           r[1][1] = "buttons", r[2][1] = "dx", r[3][1] = "dy"
    PROVE  Whole(a \o r)
<1> DEFINE n == Len(a)
           c == a \o r
<1>1. /\ c \in Seq(ReportByte) /\ Len(c) = n + 3
      /\ \A i \in 1 .. n + 3 : c[i] = IF i <= n THEN a[i] ELSE r[i - n]
  <2>1. /\ c \in Seq(ReportByte) /\ Len(c) = n + Len(r)
        /\ \A i \in 1 .. n + Len(r) : c[i] = IF i <= n THEN a[i] ELSE r[i - n]
    BY ConcatProperties
  <2> HIDE DEF c, n
  <2> QED BY <2>1
<1>2. n \in Nat /\ n % 3 = 0 /\ \A i \in 1 .. n : a[i][1] = Kinds[((i - 1) % 3) + 1]
  <2>1. DOMAIN a = 1 .. Len(a) /\ Len(a) \in Nat
    OBVIOUS
  <2> QED BY <2>1 DEF Whole
<1> HIDE DEF n, c
<1>3. DOMAIN c = 1 .. n + 3 /\ (n + 3) % 3 = 0
  BY <1>1, <1>2
<1>4. ASSUME NEW i \in 1 .. n + 3 PROVE c[i][1] = Kinds[((i - 1) % 3) + 1]
  <2>1. CASE i <= n
    BY <1>1, <1>2, <2>1
  <2>2. CASE ~(i <= n)
    <3>1. c[i] = r[i - n] /\ i - n \in 1 .. 3
      BY <1>1, <1>2, <2>2
    <3>2. (i - 1) % 3 = (i - n) - 1
      <4>1. n % 3 = 0 /\ (n + 1) % 3 = 1 /\ (n + 2) % 3 = 2
        BY <1>2
      <4>2. i - 1 = n \/ i - 1 = n + 1 \/ i - 1 = n + 2
        BY <1>2, <3>1
      <4>3. CASE i - 1 = n
        <5>1. i - n = 1
          BY <1>2, <4>3
        <5> QED BY <4>1, <4>3, <5>1
      <4>4. CASE i - 1 = n + 1
        <5>1. i - n = 2
          BY <1>2, <4>4
        <5> QED BY <4>1, <4>4, <5>1
      <4>5. CASE i - 1 = n + 2
        <5>1. i - n = 3
          BY <1>2, <4>5
        <5> QED BY <4>1, <4>5, <5>1
      <4> QED BY <4>2, <4>3, <4>4, <4>5
    <3>3. \A j \in 1 .. 3 : r[j][1] = Kinds[j]
      BY DEF Kinds
    <3>4. ((i - 1) % 3) + 1 = i - n
      BY <1>2, <3>1, <3>2
    <3> QED BY <3>1, <3>3, <3>4
  <2> QED BY <2>1, <2>2
<1> QED BY <1>1, <1>3, <1>4 DEF Whole, c

\* ... and one less at the head.
LEMMA WholeTaken ==
    ASSUME NEW r \in Seq(ReportByte), NEW b \in Seq(ReportByte), Whole(r \o b), Len(r) = 3
    PROVE  Whole(b) /\ r[1][1] = "buttons" /\ r[2][1] = "dx" /\ r[3][1] = "dy"
<1> DEFINE n == Len(b)
           c == r \o b
<1>1. /\ c \in Seq(ReportByte) /\ Len(c) = 3 + n
      /\ \A i \in 1 .. 3 + n : c[i] = IF i <= 3 THEN r[i] ELSE b[i - 3]
  <2>1. /\ c \in Seq(ReportByte) /\ Len(c) = Len(r) + n
        /\ \A i \in 1 .. Len(r) + n : c[i] = IF i <= Len(r) THEN r[i] ELSE b[i - Len(r)]
    BY ConcatProperties
  <2> HIDE DEF c, n
  <2> QED BY <2>1
<1>2. n \in Nat /\ DOMAIN b = 1 .. n
  OBVIOUS
<1> HIDE DEF c
<1>3. Whole(c)
  BY DEF c
<1> HIDE DEF n
<1>4. (3 + n) % 3 = 0 /\ \A i \in 1 .. 3 + n : c[i][1] = Kinds[((i - 1) % 3) + 1]
  BY <1>1, <1>3 DEF Whole
<1>5. n % 3 = 0
  BY <1>2, <1>4
<1>6. ASSUME NEW i \in 1 .. n PROVE b[i][1] = Kinds[((i - 1) % 3) + 1]
  <2>1. i + 3 \in 1 .. 3 + n /\ ~(i + 3 <= 3) /\ (i + 3) - 3 = i /\ ((i + 3) - 1) % 3 = (i - 1) % 3
    BY <1>2
  <2>2. c[i + 3] = b[i] /\ c[i + 3][1] = Kinds[(((i + 3) - 1) % 3) + 1]
    BY <1>1, <1>4, <2>1
  <2> QED BY <2>1, <2>2
<1>7. r[1][1] = "buttons" /\ r[2][1] = "dx" /\ r[3][1] = "dy"
  <2>1. 1 \in 1 .. 3 + n /\ 2 \in 1 .. 3 + n /\ 3 \in 1 .. 3 + n
    BY <1>2
  <2>2. c[1] = r[1] /\ c[2] = r[2] /\ c[3] = r[3]
    BY <1>1, <2>1
  <2>3. c[1][1] = Kinds[1] /\ c[2][1] = Kinds[2] /\ c[3][1] = Kinds[3]
    <3>1. ((1 - 1) % 3) + 1 = 1 /\ ((2 - 1) % 3) + 1 = 2 /\ ((3 - 1) % 3) + 1 = 3
      OBVIOUS
    <3> QED BY <1>4, <2>1, <3>1
  <2> QED BY <2>2, <2>3 DEF Kinds
<1> QED BY <1>2, <1>5, <1>6, <1>7 DEF Whole, n

\* Reading moves the head of one sequence to the end of the other.
LEMMA HeadFirst ==
    ASSUME NEW a \in Seq(ReportByte), NEW f \in Seq(ReportByte), f # <<>>
    PROVE  /\ Append(a, f[1]) \in Seq(ReportByte) /\ Len(Append(a, f[1])) = Len(a) + 1
           /\ Tail(f) \in Seq(ReportByte)
           /\ Append(a, f[1]) \o Tail(f) = a \o f
<1> DEFINE x == Append(a, f[1])
           t == Tail(f)
<1>1. /\ t \in Seq(ReportByte) /\ Len(t) = Len(f) - 1 /\ f[1] \in ReportByte
      /\ \A i \in 1 .. Len(t) : t[i] = f[i + 1]
  <2>1. 1 \in 1 .. Len(f)
    <3>1. Len(f) \in Nat \ {0}
      BY EmptySeq
    <3> QED BY <3>1
  <2>2. f[1] \in ReportByte
    BY <2>1, ElementOfSeq
  <2> QED BY <2>2, HeadTailProperties
<1>2. /\ x \in Seq(ReportByte) /\ Len(x) = Len(a) + 1 /\ x[Len(a) + 1] = f[1]
      /\ \A i \in 1 .. Len(a) : x[i] = a[i]
  BY <1>1, AppendProperties
<1> HIDE DEF x, t
<1>3. /\ x \o t \in Seq(ReportByte) /\ Len(x \o t) = Len(x) + Len(t)
      /\ \A i \in 1 .. Len(x) + Len(t) : (x \o t)[i] = IF i <= Len(x) THEN x[i] ELSE t[i - Len(x)]
  BY <1>1, <1>2, ConcatProperties
<1>4. /\ a \o f \in Seq(ReportByte) /\ Len(a \o f) = Len(a) + Len(f)
      /\ \A i \in 1 .. Len(a) + Len(f) : (a \o f)[i] = IF i <= Len(a) THEN a[i] ELSE f[i - Len(a)]
  BY ConcatProperties
<1>5. Len(a) \in Nat /\ Len(f) \in Nat
  OBVIOUS
<1> DEFINE u == x \o t
           v == a \o f
<1> HIDE DEF u, v
<1>6. /\ u \in Seq(ReportByte) /\ v \in Seq(ReportByte) /\ Len(u) = Len(v) /\ Len(v) = Len(a) + Len(f)
      /\ \A i \in 1 .. Len(v) : u[i] = IF i <= Len(a) + 1 THEN x[i] ELSE t[i - (Len(a) + 1)]
      /\ \A i \in 1 .. Len(v) : v[i] = IF i <= Len(a) THEN a[i] ELSE f[i - Len(a)]
  BY <1>1, <1>2, <1>3, <1>4, <1>5 DEF u, v
<1>7. ASSUME NEW i \in 1 .. Len(u) PROVE u[i] = v[i]
  <2>0. i \in 1 .. Len(v)
    BY <1>6
  <2>1. CASE i <= Len(a)
    <3>1. i <= Len(a) + 1 /\ i \in 1 .. Len(a)
      BY <1>5, <1>6, <2>1
    <3> QED BY <1>2, <1>6, <2>0, <2>1, <3>1
  <2>2. CASE i = Len(a) + 1
    <3>1. i <= Len(a) + 1 /\ ~(i <= Len(a)) /\ i - Len(a) = 1
      BY <1>5, <2>2
    <3>2. u[i] = x[i] /\ v[i] = f[1]
      BY <1>6, <2>0, <3>1
    <3> QED BY <1>2, <2>2, <3>2
  <2>3. CASE i > Len(a) + 1
    <3>1. /\ ~(i <= Len(a) + 1) /\ ~(i <= Len(a)) /\ i - (Len(a) + 1) \in 1 .. Len(t)
          /\ (i - (Len(a) + 1)) + 1 = i - Len(a)
      BY <1>1, <1>5, <1>6, <2>0, <2>3
    <3>2. u[i] = t[i - (Len(a) + 1)] /\ v[i] = f[i - Len(a)]
      BY <1>6, <2>0, <3>1
    <3>3. t[i - (Len(a) + 1)] = f[(i - (Len(a) + 1)) + 1]
      BY <1>1, <3>1
    <3> QED BY <3>1, <3>2, <3>3
  <2> QED BY <1>5, <2>0, <2>1, <2>2, <2>3
<1>8. u = v
  BY <1>6, <1>7, SeqEqual
<1> QED BY <1>1, <1>2, <1>8 DEF u, v, x, t

\* What is in flight is whole reports, of which the guest has read less than one.
Reports ==
    /\ partial \in Seq(ReportByte) /\ Len(partial) < 3 /\ cursor \in Point
    /\ Whole(InFlight)

\* What is in flight, before and after each step.
LEMMA FlightTyped ==
    ASSUME MouseServed, Reports
    PROVE  scc.fifo["B"] \in Seq(ReportByte) /\ InFlight \in Seq(ReportByte)
<1>1. scc.fifo["B"] \in Seq(ReportByte)
  BY DEF MouseServed, Controller, Line
<1> QED BY <1>1, ConcatProperties DEF Reports, InFlight

\* What is in flight stays as it is.
SameFlight == partial' = partial /\ InFlight' = InFlight /\ cursor' = cursor

\* All but two steps leave what is in flight alone.
LEMMA QuietFlight ==
    ASSUME PoliteRoutines, MouseServed,
           \/ DrainTake \/ Refuse \/ DrainReturn \/ ServiceScc \/ HandlerEnd
           \/ (\E bytes \in Routines : SetRegister(bytes)) \/ ReadStatus
    PROVE  SameFlight
<1>1. partial' = partial /\ cursor' = cursor
  BY DEF DrainTake, Refuse, DrainReturn, ServiceScc, HandlerEnd, SetRegister, ReadStatus, guestVars
<1>2. scc'.fifo = scc.fifo
  <2>1. CASE DrainTake \/ Refuse \/ DrainReturn
    BY <2>1 DEF DrainTake, Refuse, DrainReturn
  <2>2. CASE ServiceScc
    <3>1. scc' = AcknowledgeScc(scc) /\ SccHasPending(scc) /\ scc \in Controller /\ ~scc.pending["A"]
      BY <2>2 DEF ServiceScc, MouseServed
    <3> QED BY <3>1, AcknowledgeFacts
  <2>3. CASE HandlerEnd
    BY <2>3, EndKeeps DEF Kept, Keeps
  <2>4. ASSUME NEW bytes \in Routines, SetRegister(bytes) PROVE scc'.fifo = scc.fifo
    <3>1. Kept
      BY <2>4, RegisterKeeps
    <3> QED BY <3>1 DEF Kept, Keeps
  <2>5. CASE ReadStatus
    BY <2>5, StatusKeeps DEF Kept, Keeps
  <2> QED BY <2>1, <2>2, <2>3, <2>4, <2>5
<1> QED BY <1>1, <1>2, Zenon DEF SameFlight, InFlight

\* How a concatenation is grouped does not matter.
LEMMA Grouped ==
    \A x, y, z \in Seq(ReportByte) : x \o (y \o z) = (x \o y) \o z
BY ConcatAssociative

\* A report that is accepted is in flight, at the end.
LEMMA AcceptFlight ==
    ASSUME MouseServed, Reports, Accept
    PROVE  /\ partial' = partial /\ cursor' = cursor
           /\ carried[1] \in Point /\ carried[2] \in Int
           /\ InFlight' = InFlight \o Report(carried[1], carried[2])
<1>1. partial' = partial /\ cursor' = cursor /\ scc' = MoveMouse(scc, carried[1], carried[2])
  BY DEF Accept, guestVars
<1>2. scc \in Controller /\ carried[1] \in Point /\ carried[2] \in Int
  BY DEF MouseServed, Point
<1>m. PICK move \in Int \X Int, b \in Int : move = carried[1] /\ b = carried[2]
  BY <1>2 DEF Point
<1> DEFINE r == Report(move, b)
           f == scc.fifo["B"]
<1>3. scc'.fifo["B"] = f \o r
  <2>1. MoveMouse(scc, move, b).fifo["B"] = f \o r
    BY <1>2, MoveFacts
  <2> QED BY <1>1, <1>m, <2>1
<1>4. r \in Seq(ReportByte) /\ f \in Seq(ReportByte)
  BY ReportTyped, FlightTyped
<1> HIDE DEF r, f
<1>5. partial \o (f \o r) = (partial \o f) \o r
  <2>1. partial \in Seq(ReportByte)
    BY DEF Reports
  <2> QED BY <1>4, <2>1, Grouped, Zenon
<1>6. InFlight' = partial \o (f \o r) /\ InFlight = partial \o f
  BY <1>1, <1>3, Zenon DEF InFlight, f
<1> QED BY <1>1, <1>2, <1>5, <1>6, <1>m DEF r

\* A byte that is read stays in flight until it completes a report.
LEMMA ReadFlight ==
    ASSUME MouseServed, Reports, HandlerRead
    PROVE  \/ /\ partial' \in Seq(ReportByte) /\ Len(partial') < 3
              /\ InFlight' = InFlight /\ cursor' = cursor
           \/ /\ partial' = <<>> /\ InFlight' \in Seq(ReportByte)
              /\ \E r \in Seq(ReportByte) :
                    /\ Len(r) = 3 /\ InFlight = r \o InFlight'
                    /\ cursor' = Plus(cursor, <<r[2][2], r[3][2]>>)
<1> DEFINE f == scc.fifo["B"]
           r == Append(partial, f[1])
<1>1. f # <<>> /\ f \in Seq(ReportByte) /\ scc \in Controller
  BY FlightTyped DEF MouseServed, HandlerRead
<1>2. /\ scc' = ReadData(scc, "B")
      /\ \/ Len(r) < 3 /\ partial' = r /\ cursor' = cursor
         \/ /\ Len(r) = 3 /\ partial' = <<>>
            /\ cursor' = Plus(cursor, <<r[2][2], r[3][2]>>)
  BY <1>1, Zenon DEF HandlerRead
<1>3. scc'.fifo["B"] = Tail(f)
  <2>1. ReadData(scc, "B").fifo["B"] = Tail(scc.fifo["B"])
    BY <1>1, ReadFacts
  <2> QED BY <1>2, <2>1
<1>4. InFlight' = partial' \o Tail(f) /\ InFlight = partial \o f
  BY <1>3, Zenon DEF InFlight
<1> HIDE DEF f
<1>5. /\ r \in Seq(ReportByte) /\ Len(r) = Len(partial) + 1 /\ Tail(f) \in Seq(ReportByte)
      /\ r \o Tail(f) = partial \o f
  BY <1>1, HeadFirst DEF Reports
<1> HIDE DEF r
<1>6. CASE Len(r) < 3 /\ partial' = r /\ cursor' = cursor
  BY <1>4, <1>5, <1>6, Zenon
<1>7. CASE /\ Len(r) = 3 /\ partial' = <<>>
           /\ cursor' = Plus(cursor, <<r[2][2], r[3][2]>>)
  <2>1. InFlight' = Tail(f)
    <3>1. <<>> \o Tail(f) = Tail(f)
      BY <1>5, ConcatEmptySeq
    <3> QED BY <1>4, <1>7, <3>1
  <2>2. InFlight = r \o InFlight'
    BY <1>4, <1>5, <2>1
  <2> QED BY <1>5, <1>7, <2>1, <2>2, Zenon
<1> QED BY <1>2, <1>6, <1>7

\* At first nothing is in flight.
LEMMA ReportsInit == Init => Reports /\ InFlight = <<>>
<1> SUFFICES ASSUME Init PROVE Reports /\ InFlight = <<>>
  OBVIOUS
<1>1. partial = <<>> /\ cursor = Zero /\ scc.fifo["B"] = <<>>
  BY InitIsIdle DEF Init, MouseInit, Idle
<1>2. InFlight = <<>>
  BY <1>1 DEF InFlight
<1>3. Whole(<<>>)
  BY DEF Whole
<1> QED BY <1>1, <1>2, <1>3, PositionIsPoint DEF Reports

\* The emulation core and the guest keep the reports whole.
LEMMA ReportsStep == ASSUME PoliteRoutines, MouseServed, Reports, MouseStep PROVE Reports'
<1>1. ASSUME SameFlight PROVE Reports'
  BY <1>1 DEF SameFlight, Reports
<1>2. CASE Accept
  <2>1. /\ partial' = partial /\ cursor' = cursor
        /\ carried[1] \in Point /\ carried[2] \in Int
        /\ InFlight' = InFlight \o Report(carried[1], carried[2])
    BY <1>2, AcceptFlight
  <2>m. PICK move \in Int \X Int, b \in Int : move = carried[1] /\ b = carried[2]
    BY <2>1 DEF Point
  <2> DEFINE r == Report(move, b)
  <2>2. r \in Seq(ReportByte) /\ Len(r) = 3 /\ r[1][1] = "buttons" /\ r[2][1] = "dx" /\ r[3][1] = "dy"
    BY ReportTyped
  <2>3. InFlight' = InFlight \o r
    BY <2>1, <2>m
  <2> HIDE DEF r
  <2>4. Whole(InFlight \o r)
    BY <2>2, FlightTyped, WholeAppended DEF Reports
  <2> QED BY <2>1, <2>3, <2>4 DEF Reports
<1>3. CASE HandlerRead
  <2>1. CASE /\ partial' \in Seq(ReportByte) /\ Len(partial') < 3
             /\ InFlight' = InFlight /\ cursor' = cursor
    BY <2>1 DEF Reports
  <2>2. ASSUME partial' = <<>>, InFlight' \in Seq(ReportByte), NEW r \in Seq(ReportByte),
               Len(r) = 3, InFlight = r \o InFlight', cursor' = Plus(cursor, <<r[2][2], r[3][2]>>)
        PROVE  Reports'
    <3>1. Whole(r \o InFlight')
      BY <2>2 DEF Reports
    <3>2. Whole(InFlight')
      BY <2>2, <3>1, WholeTaken
    <3>3. cursor' \in Point
      <4>1. 2 \in 1 .. Len(r) /\ 3 \in 1 .. Len(r)
        BY <2>2
      <4>2. r[2] \in ReportByte /\ r[3] \in ReportByte
        BY <4>1, ElementOfSeq
      <4>3. <<r[2][2], r[3][2]>> \in Point
        BY <4>2 DEF ReportByte, Point
      <4> QED BY <2>2, <4>3, PlusTyped DEF Reports
    <3>4. partial' \in Seq(ReportByte) /\ Len(partial') < 3
      BY <2>2
    <3> QED BY <3>2, <3>3, <3>4 DEF Reports
  <2> QED BY <1>3, <2>1, <2>2, ReadFlight
<1>4. CASE \/ DrainTake \/ Refuse \/ DrainReturn \/ ServiceScc \/ HandlerEnd
           \/ (\E bytes \in Routines : SetRegister(bytes)) \/ ReadStatus
  BY <1>1, <1>4, QuietFlight
<1> QED BY <1>2, <1>3, <1>4 DEF MouseStep

\* And so does everything else.
LEMMA ReportsSteps ==
    ASSUME PoliteRoutines, MouseServed, DragInv, Reports, [Next]_vars PROVE Reports'
<1>1. CASE Mouse(MouseStep)
  <2>1. MouseStep
    BY <1>1 DEF Mouse
  <2> QED BY <2>1, ReportsStep
<1>2. CASE UNCHANGED mouseVars \/ \E move \in Int \X Int, b \in {0, 2} : PushMouse(move, b)
  <2>1. partial' = partial /\ scc' = scc /\ cursor' = cursor
    BY <1>2 DEF mouseVars, guestVars, PushMouse
  <2>2. InFlight' = InFlight
    BY <2>1, Zenon DEF InFlight
  <2> QED BY <2>1, <2>2 DEF Reports
<1>3. CASE Type \/ Drain \/ Read \/ UNCHANGED vars
  <2>1. UNCHANGED mouseVars
    BY <1>3 DEF Type, Drain, Read, vars, mouseVars
  <2> QED BY <1>2, <2>1
<1> QED BY <1>1, <1>2, <1>3, HostPushes DEF Next

\* The three invariants hold at first ...
LEMMA InitMotion == Init => DragInv /\ MouseServed /\ Reports
BY DragInit, InitServed, ReportsInit

\* ... and ever after.
LEMMA MotionSteps ==
    ASSUME PoliteRoutines, DragInv, MouseServed, Reports, [Next]_vars
    PROVE  DragInv' /\ MouseServed' /\ Reports'
BY DragSteps, ServedSteps, ReportsSteps DEF DragStep

\* The guest never takes a button byte for a displacement: what it has read and what waits
\* are whole reports (Scc::moveMouse: "the byte boundary shifts for good").
THEOREM ReportsStayWhole == ASSUME PoliteRoutines PROVE Spec => []WholeReports
<1>1. Init => DragInv /\ MouseServed /\ Reports
  BY InitMotion
<1>2. (DragInv /\ MouseServed /\ Reports) /\ [Next]_vars => (DragInv /\ MouseServed /\ Reports)'
  BY MotionSteps
<1>3. DragInv /\ MouseServed /\ Reports => WholeReports
  BY DEF Reports, Whole, Kinds, WholeReports
<1> QED BY <1>1, <1>2, <1>3, PTL DEF Spec

--------------------------------------------------------------------------------
\* What has gathered in direction k and is not in a report yet; and the balance.
Abs(n) == IF n < 0 THEN -n ELSE n
Gathered(k) == Abs(pending[k]) + Abs(carried[1][k])
Balance == \A k \in 1 .. 2 : total[k] = pending[k] + carried[1][k] + Distance(InFlight, k) + cursor[k]

\* The finger is where it can be, and nothing has gathered beyond what its moves give.
Gentle(reach) ==
    /\ finger \in Positions \cup {Up} /\ samples \in 0 .. MaxSamples
    /\ \A k \in 1 .. 2 : Gathered(k) <= samples * reach

\* No two positions are further apart than reach, and as many moves as there are samples
\* together fit the byte of a report.
FitsByte(reach) ==
    /\ reach \in Nat
    /\ \A p, q \in Positions, k \in 1 .. 2 : q[k] - p[k] \in -reach .. reach
    /\ MaxSamples * reach <= DeltaMax /\ MaxSamples * reach <= -DeltaMin

\* What has gathered is a number.
LEMMA GatheredTyped == MouseServed => \A k \in 1 .. 2 : Gathered(k) \in Int
<1> SUFFICES ASSUME MouseServed, NEW k \in 1 .. 2 PROVE Gathered(k) \in Int
  OBVIOUS
<1>1. pending[k] \in Int /\ carried[1][k] \in Int
  BY DEF MouseServed
<1> QED BY <1>1 DEF Gathered, Abs

\* A push enters the queue and the balance alike.
LEMMA PushBalance ==
    ASSUME DragInv, MouseServed, Reports, Balance,
           NEW move \in Point, NEW b \in {0, 2}, PushMouse(move, b)
    PROVE  Balance' /\ \A k \in 1 .. 2 : Gathered(k)' <= Gathered(k) + Abs(move[k])
<1>1. /\ pending' = Plus(pending, move) /\ total' = Plus(total, move) /\ carried' = carried
      /\ cursor' = cursor /\ InFlight' = InFlight
  <2>1. partial' = partial /\ scc' = scc
    BY DEF PushMouse, guestVars
  <2> QED BY <2>1, Zenon DEF PushMouse, guestVars, InFlight
<1>2. pending \in Point /\ total \in Point /\ carried[1] \in Point /\ cursor \in Point
  BY DEF MouseServed, DragInv, Reports, Point
<1>3. ASSUME NEW k \in 1 .. 2
      PROVE  /\ total'[k] = pending'[k] + carried'[1][k] + Distance(InFlight, k) + cursor'[k]
             /\ Abs(pending'[k]) + Abs(carried'[1][k]) <= Abs(pending[k]) + Abs(carried[1][k]) + Abs(move[k])
  <2>1. /\ total[k] \in Int /\ pending[k] \in Int /\ carried[1][k] \in Int /\ cursor[k] \in Int
        /\ move[k] \in Int
    BY <1>2 DEF Point
  <2>2. Distance(InFlight, k) \in Int
    BY FlightTyped, DistanceOfConcat
  <2>3. total[k] = pending[k] + carried[1][k] + Distance(InFlight, k) + cursor[k]
    BY DEF Balance
  <2>4. total'[k] = total[k] + move[k] /\ pending'[k] = pending[k] + move[k]
    BY <1>1, <1>2, PlusTyped
  <2>5. carried'[1][k] = carried[1][k] /\ cursor'[k] = cursor[k]
    BY <1>1
  <2>6. total'[k] = pending'[k] + carried'[1][k] + Distance(InFlight, k) + cursor'[k]
    BY <2>1, <2>2, <2>3, <2>4, <2>5
  <2>7. Abs(pending'[k]) + Abs(carried'[1][k]) <= Abs(pending[k]) + Abs(carried[1][k]) + Abs(move[k])
    BY <2>1, <2>4, <2>5 DEF Abs
  <2> QED BY <2>6, <2>7
<1> QED BY <1>1, <1>3 DEF Balance, Gathered

\* The steps of the emulation core and the guest move what is on its way along.
LEMMA StepBalance ==
    ASSUME PoliteRoutines, DragInv, MouseServed, Reports, Balance, MouseStep,
           \A k \in 1 .. 2 : carried[1][k] \in DeltaMin .. DeltaMax
    PROVE  Balance' /\ \A k \in 1 .. 2 : Gathered(k)' <= Gathered(k)
<1>0. /\ pending \in Point /\ total \in Point /\ carried[1] \in Point /\ cursor \in Point
      /\ total' = total
  BY MouseStepsTotal DEF MouseServed, DragInv, Reports, Point
<1>i. \A k \in 1 .. 2 : /\ pending[k] \in Int /\ total[k] \in Int /\ carried[1][k] \in Int
                        /\ cursor[k] \in Int /\ Distance(InFlight, k) \in Int
                        /\ total[k] = pending[k] + carried[1][k] + Distance(InFlight, k) + cursor[k]
  <2> TAKE k \in 1 .. 2
  <2>1. Distance(InFlight, k) \in Int
    BY FlightTyped, DistanceOfConcat
  <2> QED BY <1>0, <2>1 DEF Balance, Point
<1>z. Zero[1] = 0 /\ Zero[2] = 0 /\ Nothing[1] = Zero /\ Zero \in Point
  BY DEF Zero, Nothing, Point
<1>1. CASE DrainTake
  <2>1. /\ core = "run" /\ carried' = <<pending, buttons>> /\ pending' = Zero
        /\ cursor' = cursor /\ InFlight' = InFlight
    BY <1>1, QuietFlight DEF DrainTake, SameFlight
  <2>2. carried[1] = Zero /\ carried'[1] = pending
    BY <1>z, <2>1 DEF MouseServed
  <2>3. ASSUME NEW k \in 1 .. 2
        PROVE  /\ total'[k] = pending'[k] + carried'[1][k] + Distance(InFlight', k) + cursor'[k]
               /\ Abs(pending'[k]) + Abs(carried'[1][k]) <= Abs(pending[k]) + Abs(carried[1][k])
    <3>1. /\ pending'[k] = 0 /\ carried'[1][k] = pending[k] /\ carried[1][k] = 0
          /\ total'[k] = total[k] /\ cursor'[k] = cursor[k]
      BY <1>0, <1>z, <2>1, <2>2
    <3> QED BY <1>i, <2>1, <3>1 DEF Abs
  <2> QED BY <2>3 DEF Balance, Gathered
<1>2. CASE DrainReturn
  <2>1. /\ carried' = Nothing /\ pending' = Plus(pending, carried[1])
        /\ cursor' = cursor /\ InFlight' = InFlight
    BY <1>2, QuietFlight DEF DrainReturn, SameFlight
  <2>3. ASSUME NEW k \in 1 .. 2
        PROVE  /\ total'[k] = pending'[k] + carried'[1][k] + Distance(InFlight', k) + cursor'[k]
               /\ Abs(pending'[k]) + Abs(carried'[1][k]) <= Abs(pending[k]) + Abs(carried[1][k])
    <3>1. /\ pending'[k] = pending[k] + carried[1][k] /\ carried'[1][k] = 0
          /\ total'[k] = total[k] /\ cursor'[k] = cursor[k]
      BY <1>0, <1>z, <2>1, PlusTyped
    <3> QED BY <1>i, <2>1, <3>1 DEF Abs
  <2> QED BY <2>3 DEF Balance, Gathered
<1>3. CASE Accept
  <2>1. /\ carried' = Nothing /\ pending' = pending /\ cursor' = cursor
        /\ carried[1] \in Point /\ carried[2] \in Int
        /\ InFlight' = InFlight \o Report(carried[1], carried[2])
    BY <1>3, AcceptFlight DEF Accept
  <2>m. PICK move \in Int \X Int, b \in Int : move = carried[1] /\ b = carried[2]
    BY <2>1 DEF Point
  <2> DEFINE r == Report(move, b)
  <2>2. /\ r \in Seq(ReportByte) /\ Len(r) = 3
        /\ r[1] = <<"buttons", b>> /\ r[2] = <<"dx", move[1]>> /\ r[3] = <<"dy", move[2]>>
    <3>1. move[1] \in DeltaMin .. DeltaMax /\ move[2] \in DeltaMin .. DeltaMax
      BY <2>m
    <3>2. SaturateDelta(move[1]) = move[1] /\ SaturateDelta(move[2]) = move[2]
      BY <3>1, SccAssumption DEF SaturateDelta
    <3> QED BY <3>2, ReportTyped
  <2>3. InFlight' = InFlight \o r
    BY <2>1, <2>m
  <2> HIDE DEF r
  <2>4. Distance(r, 1) = move[1] /\ Distance(r, 2) = move[2]
    <3>1. r[1][1] = "buttons" /\ r[2][1] = "dx" /\ r[3][1] = "dy" /\ r[2][2] = move[1] /\ r[3][2] = move[2]
      BY <2>2
    <3> QED BY <2>2, <3>1, DistanceOfReport
  <2>5. ASSUME NEW k \in 1 .. 2
        PROVE  /\ total'[k] = pending'[k] + carried'[1][k] + Distance(InFlight', k) + cursor'[k]
               /\ Abs(pending'[k]) + Abs(carried'[1][k]) <= Abs(pending[k]) + Abs(carried[1][k])
    <3>1. Distance(InFlight', k) = Distance(InFlight, k) + Distance(r, k)
      BY <2>2, <2>3, FlightTyped, DistanceOfConcat
    <3>2. Distance(r, k) = carried[1][k]
      BY <2>4, <2>m
    <3>3. carried'[1][k] = 0 /\ pending'[k] = pending[k] /\ total'[k] = total[k] /\ cursor'[k] = cursor[k]
      BY <1>0, <1>z, <2>1
    <3> QED BY <1>i, <3>1, <3>2, <3>3 DEF Abs
  <2> QED BY <2>5 DEF Balance, Gathered
<1>4. CASE HandlerRead
  <2>0. pending' = pending /\ carried' = carried
    BY <1>4 DEF HandlerRead, queueVars
  <2>1. CASE InFlight' = InFlight /\ cursor' = cursor
    BY <1>0, <2>0, <2>1, <1>i DEF Balance, Gathered, Abs
  <2>2. ASSUME InFlight' \in Seq(ReportByte), NEW r \in Seq(ReportByte),
               Len(r) = 3, InFlight = r \o InFlight', cursor' = Plus(cursor, <<r[2][2], r[3][2]>>)
        PROVE  Balance' /\ \A k \in 1 .. 2 : Gathered(k)' <= Gathered(k)
    <3>1. r[1][1] = "buttons" /\ r[2][1] = "dx" /\ r[3][1] = "dy"
      <4>1. Whole(r \o InFlight')
        BY <2>2 DEF Reports
      <4> QED BY <2>2, <4>1, WholeTaken
    <3>2. Distance(r, 1) = r[2][2] /\ Distance(r, 2) = r[3][2]
      BY <2>2, <3>1, DistanceOfReport
    <3>3. <<r[2][2], r[3][2]>> \in Point
      <4>1. 2 \in 1 .. Len(r) /\ 3 \in 1 .. Len(r)
        BY <2>2
      <4>2. r[2] \in ReportByte /\ r[3] \in ReportByte
        BY <4>1, ElementOfSeq
      <4> QED BY <4>2 DEF ReportByte, Point
    <3>4. cursor'[1] = cursor[1] + r[2][2] /\ cursor'[2] = cursor[2] + r[3][2]
      BY <1>0, <2>2, <3>3, PlusTyped
    <3>5. ASSUME NEW k \in 1 .. 2
          PROVE  /\ total'[k] = pending'[k] + carried'[1][k] + Distance(InFlight', k) + cursor'[k]
                 /\ Abs(pending'[k]) + Abs(carried'[1][k]) <= Abs(pending[k]) + Abs(carried[1][k])
      <4>1. /\ Distance(InFlight, k) = Distance(r, k) + Distance(InFlight', k)
            /\ Distance(r, k) \in Int /\ Distance(InFlight', k) \in Int
        BY <2>2, DistanceOfConcat
      <4>2. cursor'[k] = cursor[k] + Distance(r, k)
        BY <3>2, <3>4
      <4>3. pending'[k] = pending[k] /\ carried'[1][k] = carried[1][k] /\ total'[k] = total[k]
        BY <1>0, <2>0
      <4>4. /\ Distance(InFlight, k) \in Int /\ cursor[k] \in Int /\ pending[k] \in Int /\ carried[1][k] \in Int
            /\ total[k] = pending[k] + carried[1][k] + Distance(InFlight, k) + cursor[k]
        BY <1>i
      <4>5. total'[k] = pending'[k] + carried'[1][k] + Distance(InFlight', k) + cursor'[k]
        BY <4>1, <4>2, <4>3, <4>4
      <4>6. Abs(pending'[k]) + Abs(carried'[1][k]) <= Abs(pending[k]) + Abs(carried[1][k])
        BY <4>3, <4>4 DEF Abs
      <4> QED BY <4>5, <4>6
    <3> QED BY <3>5 DEF Balance, Gathered
  <2> QED BY <1>4, <2>1, <2>2, ReadFlight
<1>5. CASE \/ Refuse \/ ServiceScc \/ HandlerEnd
           \/ (\E bytes \in Routines : SetRegister(bytes)) \/ ReadStatus
  <2>1. pending' = pending /\ carried' = carried
    BY <1>5 DEF Refuse, ServiceScc, HandlerEnd, SetRegister, ReadStatus, queueVars
  <2>2. InFlight' = InFlight /\ cursor' = cursor
    BY <1>5, QuietFlight DEF SameFlight
  <2> QED BY <1>0, <1>i, <2>1, <2>2 DEF Balance, Gathered, Abs
<1> QED BY <1>1, <1>2, <1>3, <1>4, <1>5 DEF MouseStep

\* What a sample adds is no more than the reach, and nothing if the finger rests.
LEMMA SampleIsGentle ==
    ASSUME NEW reach, FitsByte(reach), DragInv, MouseServed, Reports, Balance, Gentle(reach),
           NEW p \in Positions \cup {Up}, Sample(p)
    PROVE  Balance' /\ Gentle(reach)'
<1>0. /\ reach \in Nat /\ samples \in Int /\ MaxSamples \in Nat
      /\ finger' = p /\ samples' \in 0 .. MaxSamples /\ samples <= samples'
      /\ p # finger => samples' = samples + 1
  BY HostAssumption DEF FitsByte, Gentle, Sample
<1>1. samples * reach <= samples' * reach /\ (p # finger => samples' * reach = samples * reach + reach)
  <2>1. samples' = samples \/ samples' = samples + 1
    <3>1. samples' = samples + (IF p = finger THEN 0 ELSE 1)
      BY DEF Sample
    <3> QED BY <1>0, <3>1
  <2>2. (samples + 1) * reach = samples * reach + reach /\ samples * reach \in Int
    BY <1>0
  <2>3. CASE samples' = samples
    <3>1. ~(p # finger)
      BY <1>0, <2>3
    <3> QED BY <2>2, <2>3, <3>1
  <2>4. CASE samples' = samples + 1
    BY <1>0, <2>2, <2>4
  <2> QED BY <2>1, <2>3, <2>4
<1>2. CASE UNCHANGED mouseVars
  <2>1. /\ total' = total /\ pending' = pending /\ carried' = carried /\ cursor' = cursor
        /\ partial' = partial /\ scc' = scc
    BY <1>2 DEF mouseVars, queueVars, guestVars
  <2>2. InFlight' = InFlight
    BY <2>1, Zenon DEF InFlight
  <2>3. Balance'
    BY <2>1, <2>2 DEF Balance
  <2>4. \A k \in 1 .. 2 : Gathered(k)' <= samples' * reach
    <3> TAKE k \in 1 .. 2
    <3>1. Gathered(k)' = Gathered(k) /\ Gathered(k) <= samples * reach
      BY <2>1 DEF Gathered, Gentle
    <3>2. Gathered(k) \in Int /\ samples * reach \in Int /\ samples' * reach \in Int
      BY <1>0, GatheredTyped
    <3> QED BY <1>1, <3>1, <3>2
  <2> QED BY <1>0, <2>3, <2>4 DEF Gentle
<1>3. ASSUME NEW move \in Point, NEW b \in {0, 2}, PushMouse(move, b),
             move = Zero \/ (p # finger /\ \A k \in 1 .. 2 : move[k] \in -reach .. reach)
      PROVE  Balance' /\ Gentle(reach)'
  <2>1. Balance' /\ \A k \in 1 .. 2 : Gathered(k)' <= Gathered(k) + Abs(move[k])
    BY <1>3, PushBalance
  <2>2. ASSUME NEW k \in 1 .. 2 PROVE Gathered(k)' <= samples' * reach
    <3>1. Gathered(k)' <= Gathered(k) + Abs(move[k]) /\ Gathered(k) <= samples * reach
      BY <2>1 DEF Gentle
    <3>2. /\ Gathered(k) \in Int /\ Gathered(k)' \in Int
          /\ samples * reach \in Int /\ samples' * reach \in Int
      <4>1. Gathered(k)' \in Int
        <5>1. pending'[k] \in Int /\ carried'[1][k] \in Int
          <6>1. pending' = Plus(pending, move) /\ carried' = carried
            BY <1>3 DEF PushMouse
          <6>2. pending \in Point /\ carried[1] \in Point
            BY DEF MouseServed, Point
          <6> QED BY <6>1, <6>2, PlusTyped DEF Point
        <5> QED BY <5>1 DEF Gathered, Abs
      <4> QED BY <1>0, <4>1, GatheredTyped
    <3>3. CASE move = Zero
      <4>1. Abs(move[k]) = 0
        BY <3>3 DEF Zero, Abs
      <4> QED BY <1>1, <3>1, <3>2, <4>1
    <3>4. CASE p # finger /\ \A j \in 1 .. 2 : move[j] \in -reach .. reach
      <4>1. Abs(move[k]) <= reach /\ Abs(move[k]) \in Int
        BY <1>0, <3>4 DEF Abs
      <4> QED BY <1>0, <1>1, <3>1, <3>2, <3>4, <4>1
    <3> QED BY <1>3, <3>3, <3>4
  <2> QED BY <1>0, <2>1, <2>2 DEF Gentle
<1>4. Zero \in Point /\ LeftButton \in {0, 2} /\ 0 \in {0, 2}
  BY PositionIsPoint DEF LeftButton
<1>5. CASE Released \/ Touched(p)
  <2>1. PushMouse(Zero, 0) \/ PushMouse(Zero, LeftButton)
    BY <1>5 DEF Released, Touched
  <2> QED BY <1>3, <1>4, <2>1
<1>6. CASE p # Up /\ Dragged(p)
  <2> DEFINE move == <<p[1] - drag[1], p[2] - drag[2]>>
  <2>1. drag # Up /\ drag = finger /\ drag \in Point /\ p \in Point
    BY <1>6, PositionIsPoint DEF Dragged, DragInv
  <2>2. PushMouse(move, LeftButton) /\ move \in Point
    BY <1>6, <2>1 DEF Dragged, Point
  <2>3. p = finger => move = Zero
    BY <2>1 DEF Point, Zero
  <2>4. p # finger => \A k \in 1 .. 2 : move[k] \in -reach .. reach
    <3>1. p \in Positions /\ drag \in Positions
      BY <1>6, <2>1 DEF Gentle
    <3>2. \A k \in 1 .. 2 : p[k] - drag[k] \in -reach .. reach
      BY <3>1 DEF FitsByte
    <3> QED BY <3>2
  <2> HIDE DEF move
  <2> QED BY <1>3, <1>4, <2>2, <2>3, <2>4
<1> QED BY <1>2, <1>5, <1>6 DEF Sample

\* Nor does a switch of the modes add anything.
LEMMA SwitchIsGentle ==
    ASSUME NEW reach, FitsByte(reach), DragInv, MouseServed, Reports, Balance, Gentle(reach), Switch
    PROVE  Balance' /\ Gentle(reach)'
<1>0. /\ reach \in Nat /\ samples \in Int /\ MaxSamples \in Nat
      /\ finger' = finger /\ samples' \in 0 .. MaxSamples /\ samples' = samples + 1
  BY HostAssumption DEF FitsByte, Gentle, Switch
<1>1. samples * reach <= samples' * reach
  <2>1. (samples + 1) * reach = samples * reach + reach /\ samples * reach \in Int
    BY <1>0
  <2> QED BY <1>0, <2>1
<1>2. Balance' /\ \A k \in 1 .. 2 : Gathered(k)' = Gathered(k)
  <2>1. CASE UNCHANGED mouseVars
    <3>1. /\ total' = total /\ pending' = pending /\ carried' = carried /\ cursor' = cursor
          /\ partial' = partial /\ scc' = scc
      BY <2>1 DEF mouseVars, queueVars, guestVars
    <3>2. InFlight' = InFlight
      BY <3>1, Zenon DEF InFlight
    <3> QED BY <3>1, <3>2 DEF Balance, Gathered
  <2>2. CASE EnterFace
    <3>1. PushMouse(Zero, 0) /\ Zero \in Point /\ 0 \in {0, 2}
      BY <2>2, PositionIsPoint DEF EnterFace
    <3>2. Balance'
      BY <3>1, PushBalance
    <3>3. pending' = pending /\ carried' = carried
      BY <3>1, PlusTyped DEF PushMouse, MouseServed, Point
    <3> QED BY <3>2, <3>3 DEF Gathered
  <2> QED BY <2>1, <2>2 DEF Switch
<1>3. \A k \in 1 .. 2 : Gathered(k)' <= samples' * reach
  <2> TAKE k \in 1 .. 2
  <2>1. Gathered(k)' = Gathered(k) /\ Gathered(k) <= samples * reach
    BY <1>2 DEF Gentle
  <2>2. Gathered(k) \in Int /\ samples * reach \in Int /\ samples' * reach \in Int
    BY <1>0, GatheredTyped
  <2> QED BY <1>1, <2>1, <2>2
<1> QED BY <1>0, <1>2, <1>3 DEF Gentle

\* What is offered to the controller is not saturated.
LEMMA GentleFits ==
    ASSUME NEW reach, FitsByte(reach), MouseServed, Gentle(reach)
    PROVE  \A k \in 1 .. 2 : carried[1][k] \in DeltaMin .. DeltaMax
<1> TAKE k \in 1 .. 2
<1>1. /\ reach \in Nat /\ samples \in Nat /\ MaxSamples \in Nat /\ samples <= MaxSamples
      /\ MaxSamples * reach <= DeltaMax /\ MaxSamples * reach <= -DeltaMin
      /\ DeltaMin \in Int /\ DeltaMax \in Int
  BY HostAssumption, SccAssumption DEF FitsByte, Gentle
<1>2. samples * reach <= MaxSamples * reach /\ samples * reach \in Int /\ MaxSamples * reach \in Int
  BY <1>1
<1>3. carried[1][k] \in Int /\ Abs(pending[k]) \in Int /\ Abs(pending[k]) >= 0
  BY DEF MouseServed, Abs
<1>4. Abs(pending[k]) + Abs(carried[1][k]) <= samples * reach
  BY DEF Gentle, Gathered
<1> QED BY <1>1, <1>2, <1>3, <1>4 DEF Abs

\* Every step keeps the balance.
LEMMA GentleSteps ==
    ASSUME NEW reach, FitsByte(reach), PoliteRoutines,
           DragInv, MouseServed, Reports, Balance, Gentle(reach), [Next]_vars
    PROVE  Balance' /\ Gentle(reach)'
<1>1. CASE Mouse(MouseStep)
  <2>1. MouseStep /\ samples' = samples /\ finger' = finger
    BY <1>1 DEF Mouse, hostVars
  <2>2. Balance' /\ \A k \in 1 .. 2 : Gathered(k)' <= Gathered(k)
    BY <2>1, GentleFits, StepBalance
  <2>3. MouseServed'
    BY <2>1, StepServed
  <2>4. \A k \in 1 .. 2 : Gathered(k)' <= samples * reach
    <3> TAKE k \in 1 .. 2
    <3>1. Gathered(k)' <= Gathered(k) /\ Gathered(k) <= samples * reach
      BY <2>2 DEF Gentle
    <3>2. Gathered(k)' \in Int
      <4>1. pending'[k] \in Int /\ carried'[1][k] \in Int
        BY <2>3 DEF MouseServed
      <4> QED BY <4>1 DEF Gathered, Abs
    <3>3. Gathered(k) \in Int /\ samples * reach \in Int
      BY GatheredTyped DEF FitsByte, Gentle
    <3> QED BY <3>1, <3>2, <3>3
  <2> QED BY <2>1, <2>2, <2>4 DEF Gentle
<1>2. CASE Type \/ Drain \/ Read \/ UNCHANGED vars
  <2>1. UNCHANGED mouseVars /\ samples' = samples /\ finger' = finger
    BY <1>2 DEF Type, Drain, Read, vars, mouseVars, hostVars
  <2>2. /\ total' = total /\ pending' = pending /\ carried' = carried /\ cursor' = cursor
        /\ partial' = partial /\ scc' = scc
    BY <2>1 DEF mouseVars, queueVars, guestVars
  <2>3. InFlight' = InFlight
    BY <2>2, Zenon DEF InFlight
  <2> QED BY <2>1, <2>2, <2>3 DEF Balance, Gentle, Gathered
<1> QED BY <1>1, <1>2, SampleIsGentle, SwitchIsGentle DEF Next

\* What the host reported is still in the queue, in drain()'s hands, in the FIFO, or has
\* moved the cursor (MouseQueue::drain, Scc::moveMouse), so long as what may gather
\* between two reports fits the byte that carries it.
THEOREM NoDistanceLost ==
    ASSUME PoliteRoutines, NEW reach, FitsByte(reach) PROVE Spec => []MotionConserved
<1> DEFINE Inv == DragInv /\ MouseServed /\ Reports /\ Balance /\ Gentle(reach)
<1>1. Init => Inv
  <2> SUFFICES ASSUME Init PROVE Inv
    OBVIOUS
  <2>1. DragInv /\ MouseServed /\ Reports /\ InFlight = <<>>
    BY InitMotion, ReportsInit
  <2>2. /\ total = Zero /\ pending = Zero /\ cursor = Zero /\ carried = Nothing
        /\ finger = Up /\ samples = 0
    BY DEF Init, MouseInit
  <2>3. \A k \in 1 .. 2 : Distance(<<>>, k) = 0
    <3> TAKE k \in 1 .. 2
    <3>1. <<>> \in Seq(ReportByte) /\ <<>> \o <<>> = <<>>
      BY ConcatEmptySeq, EmptySeq
    <3>2. /\ Distance(<<>>, k) \in Int
          /\ Distance(<<>> \o <<>>, k) = Distance(<<>>, k) + Distance(<<>>, k)
      BY <3>1, DistanceOfConcat
    <3> QED BY <3>1, <3>2
  <2>4. Balance
    BY <2>1, <2>2, <2>3 DEF Balance, Zero, Nothing
  <2>5. Gentle(reach)
    <3>1. \A k \in 1 .. 2 : Gathered(k) = 0
      BY <2>2 DEF Gathered, Zero, Nothing, Abs
    <3>2. 0 * reach = 0 /\ 0 \in 0 .. MaxSamples
      BY HostAssumption DEF FitsByte
    <3> QED BY <2>2, <3>1, <3>2 DEF Gentle
  <2> QED BY <2>1, <2>4, <2>5
<1>2. Inv /\ [Next]_vars => Inv'
  BY MotionSteps, GentleSteps
<1>3. Inv => MotionConserved
  BY DEF Reports, Whole, Kinds, WholeReports, Balance, MotionConserved
<1> QED BY <1>1, <1>2, <1>3, PTL DEF Spec

================================================================================
