------------------------------- MODULE CodeCache -------------------------------
(******************************************************************************)
(* What the cache of translated code promises (code_gen_map.h, block_runner.h).  *)
(* A translation holds words of one page.  Nobody tells the cache when they       *)
(* change: before it runs a translation it compares the page's generation and    *)
(* the epoch of the address map with those of the day it was made.  Generations  *)
(* count the writes to a page and stop at AlwaysStale, which matches nothing;    *)
(* they start again only when every translation has been thrown away.            *)
(******************************************************************************)
EXTENDS Integers

CONSTANTS
    Pages, Offsets, Words,  \* the pages code is read from, and what they hold
    Fixed,                  \* the pages nobody can write: the ROM
    Slots,
    AlwaysStale,            \* kAlwaysStale
    Empty

VARIABLES
    content,    \* what a read of each page shows
    gen,        \* CodeGenMap's generation of each page
    epoch,      \* CodeGenMap::mappingEpoch
    slots       \* the translations

cacheVars == <<content, gen, epoch, slots>>

IsBlock(b) ==
    /\ b.page \in Pages /\ b.gen \in Nat /\ b.epoch \in Nat
    /\ DOMAIN b.words \subseteq Offsets

Matches(block) ==
    \A o \in DOMAIN block.words : content[block.page][o] = block.words[o]

\* keyMatches, without the tag.
Hits(i) ==
    /\ slots[i] # Empty
    /\ slots[i].epoch = epoch
    /\ gen[slots[i].page] # AlwaysStale
    /\ slots[i].gen = gen[slots[i].page]

\* A translation made, or found unchanged, now.
Fresh(block) ==
    /\ IsBlock(block)
    /\ block.epoch = epoch
    /\ block.gen = gen[block.page] /\ block.gen # AlwaysStale
    /\ Matches(block)

--------------------------------------------------------------------------------
Init ==
    /\ content \in [Pages -> [Offsets -> Words]]
    /\ gen \in [Pages -> Nat]
    /\ epoch \in Nat
    /\ slots = [i \in Slots |-> Empty]

\* The guest, its devices and DMA change memory, and the map of it.
Change ==
    /\ content' \in [Pages -> [Offsets -> Words]]
    /\ gen' \in [Pages -> Nat] /\ epoch' \in Nat
    /\ epoch' >= epoch
    /\ \A p \in Pages :
        /\ gen'[p] >= gen[p]
        /\ gen[p] = AlwaysStale => gen'[p] = AlwaysStale
        /\ content'[p] # content[p] =>
            \/ epoch' > epoch
            \/ p \notin Fixed /\ (gen'[p] > gen[p] \/ gen[p] = AlwaysStale)

\* One visit to the cache, and what the code it ran did to memory.
Visit ==
    /\ Change
    /\ slots' = [i \in Slots |-> slots'[i]]
    /\ \A i \in Slots :
        slots'[i] \in {slots[i], Empty} \/ \E b \in {slots'[i]} : Fresh(b)

\* Everything is thrown away, and the generations count from anywhere again.
StartAgain ==
    /\ content' \in [Pages -> [Offsets -> Words]]
    /\ gen' \in [Pages -> Nat] /\ epoch' \in Nat
    /\ slots' = [i \in Slots |-> Empty]

Next == Visit \/ StartAgain

Spec == Init /\ [][Next]_cacheVars

\* A translation that would be run holds what memory holds: native code is never
\* older than the guest's program, without a word of it being invalidated.
HitIsFresh == \A i \in Slots : Hits(i) => Matches(slots[i])
================================================================================
