------------------------------- MODULE FrameQueue ------------------------------
(******************************************************************************)
(* What the channel promises: a first-in, first-out queue of whole pictures.     *)
(* The n-th picture published is the n-th picture sent, none is lost, repeated   *)
(* or changed while it waits or is being sent.                                   *)
(******************************************************************************)
EXTENDS Naturals, Sequences

CONSTANT Capacity   \* how many pictures may be underway

VARIABLES queue, transfer, published

queueVars == <<queue, transfer, published>>

Nothing == 0

Init == queue = <<>> /\ transfer = Nothing /\ published = 0

Publish ==
    /\ Len(queue) < IF transfer = Nothing THEN Capacity ELSE Capacity - 1
    /\ published' = published + 1
    /\ queue' = Append(queue, published')
    /\ UNCHANGED transfer

Take ==
    /\ transfer = Nothing /\ queue # <<>>
    /\ transfer' = Head(queue) /\ queue' = Tail(queue)
    /\ UNCHANGED published

Done == transfer # Nothing /\ transfer' = Nothing /\ UNCHANGED <<queue, published>>

Next == Publish \/ Take \/ Done

\* The display core never stops.
Spec == Init /\ [][Next]_queueVars /\ WF_queueVars(Take) /\ WF_queueVars(Done)

================================================================================
