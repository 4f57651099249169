------------------------------- MODULE AudioRing -------------------------------
(******************************************************************************)
(* AudioChannel: the lock-free ring that carries blocks of sound from the       *)
(* emulation core to the audio task, and the restarts of the stream that make  *)
(* what is already in it worthless.                                            *)
(*                                                                             *)
(* Every access to an atomic the other core writes is a step of its own, in    *)
(* program order (each pair of accesses that matters is release/acquire).      *)
(* Indices grow without wrapping: at one block per 8.2 ms a 32-bit index lasts  *)
(* over a year, and the proofs do not go beyond it.                            *)
(******************************************************************************)
EXTENDS Integers

CONSTANTS
    BlockCount,    \* kBlockCount: cells of the ring, one of which stays empty
    MaxBlocks,     \* bound: blocks published
    MaxRestarts    \* bound: restarts of the stream

ASSUME BlockCountAssumption == BlockCount \in Nat /\ BlockCount >= 2
ASSUME BoundAssumption == MaxBlocks \in Nat /\ MaxRestarts \in Nat

VARIABLES
    write,      \* writeIndex_: blocks published so far
    read,       \* readIndex_: the next block to consume
    discard,    \* discardBefore_: blocks below it belong to an ended stream
    state,      \* streamState_: [epoch, paused]
    cells,      \* blocks_: what each cell holds
    ppc,        \* where the producer is
    wish,       \* the pause flag restartStream was called with
    dropped,    \* dropped_ # 0: a block found no cell
    cpc,        \* where the consumer is, in AudioPlayback::submit
    found,      \* discardBefore_ as readBlock loaded it
    block,      \* block_: the copy submit works on
    applied,    \* AudioPlayback::streamState_
    ready,      \* AudioPlayback::streamReady_
    heard       \* history: the last block given to the sink, -1 before any

ringVars == <<write, read, discard, state, cells, ppc, wish, dropped,
              cpc, found, block, applied, ready, heard>>

producerVars == <<write, discard, state, cells, ppc, wish, dropped>>
consumerVars == <<read, cpc, found, block, applied, ready, heard>>

Epochs == [epoch : Nat, paused : BOOLEAN]

\* A cell being written, or never written, and the absence of a block.
Torn == [n |-> -1, epoch |-> [epoch |-> 0, paused |-> FALSE]]
NoBlock == [n |-> -2, epoch |-> [epoch |-> 0, paused |-> FALSE]]
Blocks == [n : Nat, epoch : Epochs]

Cell(n) == n % BlockCount
Queued == write - read                        \* AudioChannel::pending

RingInit ==
    /\ write = 0 /\ read = 0 /\ discard = 0
    /\ state = [epoch |-> 0, paused |-> FALSE]
    /\ cells = [c \in 0 .. BlockCount - 1 |-> Torn]
    /\ ppc = "idle" /\ wish = FALSE /\ dropped = FALSE
    /\ cpc = "apply" /\ found = 0 /\ block = NoBlock
    /\ applied = state /\ ready = TRUE /\ heard = -1

--------------------------------------------------------------------------------
(* The producer, on the emulation core. *)

\* restartStream, its two stores.
StoreDiscard(paused) ==
    /\ ppc = "idle"
    /\ state.epoch < MaxRestarts
    /\ discard' = write
    /\ wish' = paused
    /\ ppc' = "restart"
    /\ UNCHANGED <<write, state, cells, dropped, consumerVars>>

StoreState ==
    /\ ppc = "restart"
    /\ state' = [epoch |-> state.epoch + 1, paused |-> wish]
    /\ ppc' = "idle"
    /\ UNCHANGED <<write, discard, cells, wish, dropped, consumerVars>>

\* writeBlock: a cell to copy the block into, or the block is lost.
AcquireCell ==
    /\ ppc = "idle"
    /\ write < MaxBlocks
    /\ IF Queued >= BlockCount - 1
       THEN dropped' = TRUE /\ UNCHANGED <<cells, ppc>>
       ELSE /\ cells' = [cells EXCEPT ![Cell(write)] = Torn]
            /\ ppc' = "copy"
            /\ UNCHANGED dropped
    /\ UNCHANGED <<write, discard, state, wish, consumerVars>>

\* The copy is complete: commit.
Commit ==
    /\ ppc = "copy"
    /\ cells' = [cells EXCEPT ![Cell(write)] = [n |-> write, epoch |-> state]]
    /\ write' = write + 1
    /\ ppc' = "idle"
    /\ UNCHANGED <<discard, state, wish, dropped, consumerVars>>

--------------------------------------------------------------------------------
(* The consumer, AudioPlayback::submit in the audio task. *)

\* applyStreamState: a new epoch restarts the sink, which may fail.
Applied ==
    /\ applied' = state
    /\ IF state = applied THEN UNCHANGED ready ELSE ready' \in BOOLEAN

ApplyState ==
    /\ cpc = "apply"
    /\ Applied
    /\ cpc' = "discard"
    /\ UNCHANGED <<read, found, block, heard, producerVars>>

\* readBlock: the end of the stale prefix, the skip over it, the look for a block.
LoadDiscard ==
    /\ cpc = "discard"
    /\ found' = discard
    /\ cpc' = "skip"
    /\ UNCHANGED <<read, block, applied, ready, heard, producerVars>>

StaleCount == found - read
SkipStale ==
    /\ cpc = "skip"
    /\ read' = IF StaleCount \in 1 .. BlockCount - 1 THEN found ELSE read
    /\ cpc' = "lease"
    /\ UNCHANGED <<found, block, applied, ready, heard, producerVars>>

\* Mutant: the ring is not looked at for emptiness.
LeaseUnchecked ==
    /\ cpc = "lease" /\ cpc' = "copy"
    /\ UNCHANGED <<read, found, block, applied, ready, heard, producerVars>>

Lease ==
    /\ cpc = "lease"
    /\ IF read = write
       THEN block' = NoBlock /\ cpc' = "recheck"
       ELSE cpc' = "copy" /\ UNCHANGED block
    /\ UNCHANGED <<read, found, applied, ready, heard, producerVars>>

\* The copy out of the ring, and releaseRead.
CopyOut ==
    /\ cpc = "copy"
    /\ block' = cells[Cell(read)]
    /\ cpc' = "release"
    /\ UNCHANGED <<read, found, applied, ready, heard, producerVars>>

\* Mutant: the index stays where it is.
ReleaseNothing ==
    /\ cpc = "release" /\ cpc' = "recheck"
    /\ UNCHANGED <<read, found, block, applied, ready, heard, producerVars>>

ReleaseRead ==
    /\ cpc = "release"
    /\ read' = IF read = write THEN read ELSE read + 1
    /\ cpc' = "recheck"
    /\ UNCHANGED <<found, block, applied, ready, heard, producerVars>>

\* Mutant: the stream is not looked at again after the copy.
RecheckNothing ==
    /\ cpc = "recheck" /\ cpc' = "submit"
    /\ UNCHANGED <<read, found, block, applied, ready, heard, producerVars>>

\* A stream that changed during the copy makes the copy worthless.
Recheck ==
    /\ cpc = "recheck"
    /\ Applied
    /\ block' = IF state = applied THEN block ELSE NoBlock
    /\ cpc' = "submit"
    /\ UNCHANGED <<read, found, heard, producerVars>>

\* What submit decides to play: the block, or a faded silence instead.
Sounds(muted) == block # NoBlock /\ ~muted /\ ~applied.paused

Submit(muted) ==
    /\ cpc = "submit"
    /\ heard' = IF Sounds(muted) /\ ready THEN block.n ELSE heard
    /\ block' = NoBlock /\ found' = 0            \* locals, of no more use
    /\ cpc' = "apply"
    /\ UNCHANGED <<read, applied, ready, producerVars>>

ConsumerStep ==
    \/ ApplyState \/ LoadDiscard \/ SkipStale \/ Lease \/ CopyOut \/ ReleaseRead \/ Recheck
    \/ \E muted \in BOOLEAN : Submit(muted)

ProducerStep ==
    \/ \E paused \in BOOLEAN : StoreDiscard(paused)
    \/ StoreState \/ AcquireCell \/ Commit

RingNext == ProducerStep \/ ConsumerStep

RingSpec == RingInit /\ [][RingNext]_ringVars

--------------------------------------------------------------------------------
\* The two cores never work in the same cell: the producer does not copy into the
\* one the consumer copies out of (writeBlock keeps one cell free, readBlock and
\* releaseRead move the index only after the copy).
NoSharedCell == ~(ppc = "copy" /\ cpc \in {"copy", "release"} /\ Cell(write) = Cell(read))

\* A block that may sound was written whole, belongs to the very stream the sink
\* was restarted for, and was not heard before nor overtaken: a restart in the
\* middle of readBlock or of the copy makes submit drop the block
\* (audio_playback.h, changedDuringCopy).
SoundIsCurrent ==
    cpc = "submit" /\ block # NoBlock =>
        /\ block # Torn
        /\ block.epoch = applied
        /\ block.n > heard

================================================================================
