------------------------------- MODULE NativeCode -------------------------------
(******************************************************************************)
(* Native code beside the interpreter: the planner (core/cpu/block_planner.cpp),  *)
(* what the emitter lays down (platform/jit/block_emitter.cpp) and BlockRunner     *)
(* (platform/jit/block_runner.{h,cpp}), which decides before every instruction    *)
(* whether a block of native code may stand for the instructions it was made of. *)
(* A block is data: the words it was translated from, baked in, and where its      *)
(* instructions begin.  What is not a block runs on the interpreter of GuestCode. *)
(******************************************************************************)
EXTENDS GuestCode, FiniteSets

CONSTANTS
    Images,             \* the contents RAM may start with
    MaxOps,             \* kMaxOps
    SlotCount, NegativeCount, SideCount,    \* the tables' sizes
    ShortWords,         \* kMaxVerifyWords: the snapshot a slot has room for
    CodeSize,           \* instructions the code memory holds
    FullLimit,          \* kCapacityResetThreshold
    StaleLimit,         \* kSaturationResetThreshold
    DmaWords, DmaAt,    \* what DMA writes, and where
    MaxEpoch,           \* bound: the address map changes this often
    MaxEvents           \* bound: this many interrupts, DMA writes, resets, switches

VARIABLES
    guest,      \* the record of GuestCode
    pending,    \* an interrupt is requested (mustDeferToStep)
    jit,        \* Machine runs through tryNative
    runner,     \* BlockRunner: slots, sides, negative, seenEpoch, used, full,
                \* fullSeen, staleSeen
    events      \* what happened between turns; only to bound it

vars == <<guest, pending, jit, runner, events>>

ASSUME NativeAssumption ==
    /\ {MaxOps, SlotCount, NegativeCount} \subseteq Nat \ {0}
    /\ {SideCount, ShortWords, CodeSize, FullLimit, StaleLimit, MaxEpoch, MaxEvents} \subseteq Nat
    /\ Images \subseteq [1 .. RamPages * PageWords -> Words]
    /\ DmaWords \subseteq Words /\ DmaAt \subseteq Addr

AnyGeneration == AlwaysStale    \* NegativeCache::kAnyGen

\* BlockSlot and its key; entry 0 marks an empty one.  kept: where the snapshot
\* of its words is: in the slot, at a place of the side table, or nowhere.
EmptySlot == [entry |-> 0]
InSlot == 0
Nowhere == -1

SlotOf(pc) == pc % SlotCount
NegativeOf(pc) == pc % NegativeCount

EmptyRunner ==
    [slots |-> [i \in 0 .. SlotCount - 1 |-> EmptySlot], sides |-> <<>>,
     negative |-> [i \in 0 .. NegativeCount - 1 |-> [pc |-> 0, gen |-> 0]],
     seenEpoch |-> 0, used |-> 0, full |-> FALSE, fullSeen |-> 0, staleSeen |-> 0]

\* mutant: the blocks survive the code memory.
EmptiedTables(r) ==
    [r EXCEPT !.sides = <<>>, !.negative = EmptyRunner.negative, !.used = 0,
              !.full = FALSE]
\* BlockRunner::reset
Emptied(r) ==
    [r EXCEPT !.slots = EmptyRunner.slots, !.sides = <<>>,
              !.negative = EmptyRunner.negative, !.used = 0, !.full = FALSE]

Init ==
    /\ guest \in {Refill([pc |-> 0, ir |-> Nothing, irc |-> Nothing, d |-> Nothing,
                          a |-> 0, ram |-> image, gen |-> [p \in 0 .. RamPages - 1 |-> 0],
                          mapped |-> TRUE, epoch |-> 1], RomPage * PageWords) :
                    image \in Images}
    /\ pending = FALSE
    /\ jit \in BOOLEAN
    /\ runner = EmptyRunner
    /\ events = 0

--------------------------------------------------------------------------------
(* The planner: the longest run of instructions from entry that can be translated. *)

IsTerminator(w) == w.op \in {"bne", "bsr", "rts"}

\* What ends a plan before the instruction at pc: it cannot be read, it is not on
\* the list, it reads memory that cannot be read now, it or the two words after it
\* leave the page, or it always writes to its own page.
CanExtend(g, entry, pc) ==
    LET w == View(g, pc)
        next == pc + Length(w)
    IN  /\ Readable(g, pc)
        /\ w.op # "other"
        /\ w.op \in {"load", "rts"} => ~g.mapped
        /\ Page(next + 1) = Page(entry)
        /\ w.op = "put" => Page(w.n) # Page(entry)

Extend(g, entry, plan) ==
    IF plan.ended \/ ~CanExtend(g, entry, plan.next) THEN [plan EXCEPT !.ended = TRUE]
    ELSE LET w == View(g, plan.next)
         IN  [at |-> Append(plan.at, plan.next), next |-> plan.next + Length(w),
              ended |-> IsTerminator(w)]

\* BlockPlanner::plan; a plan without instructions is no plan.
Plan(g, entry) ==
    IF entry = 0 \/ Generation(g, entry) = AlwaysStale
    THEN [at |-> <<>>, next |-> entry, ended |-> TRUE]
    ELSE LET after[i \in 0 .. MaxOps] ==
                IF i = 0 THEN [at |-> <<>>, next |-> entry, ended |-> FALSE]
                ELSE Extend(g, entry, after[i - 1])
         IN  after[MaxOps]

\* canEmitWritesFor: an absolute write must be to RAM, or the whole plan is lost.
CanEmit(g, plan) ==
    /\ plan.at # <<>>
    /\ \A i \in DOMAIN plan.at :
        View(g, plan.at[i]).op = "put" => IsRam(View(g, plan.at[i]).n)

\* The words a block stands on: its own, and the two its exit leaves prefetched.
BakedWords(g, entry, plan) ==
    [i \in 1 .. plan.next + 2 - entry |-> View(g, entry + i - 1)]

--------------------------------------------------------------------------------
(* A block of native code, running.  run: the guest so far, how many instructions *)
(* it has run, and how it left: not yet, by a guard, by the guard of its own page,  *)
(* or by a taken branch.                                                          *)

Baked(slot, a) == slot.words[a - slot.entry + 1]

\* emitTouch and emitBigEndianStore
NativeStore(g, a, w) == [Touch(g, a) EXCEPT !.ram[a + 1] = w]

\* emitReadGuard, emitWriteGuard: the address must lie in RAM.
InWindow(a, size) == a + size <= RamPages * PageWords

\* mutant: only a store to the block's first word is looked at.
OnEntry(slot, a, size) == a = slot.entry
\* emitSelfPageGuard, at both ends of a long.
OnOwnPage(slot, a, size) ==
    Page(a) = Page(slot.entry) \/ Page(a + size - 1) = Page(slot.entry)

\* What guards an instruction: the words it touches, and whether it writes them.
Guarded(g, w) ==
    CASE w.op \in {"load", "rts"} -> [at |-> g.a, size |-> 1, writes |-> FALSE]
      [] w.op = "store" -> [at |-> g.a, size |-> 1, writes |-> TRUE]
      [] w.op = "store2" -> [at |-> g.a, size |-> 2, writes |-> TRUE]
      [] w.op = "bsr" -> [at |-> Plus(g.a, -1), size |-> 1, writes |-> TRUE]
      [] OTHER -> [at |-> 0, size |-> 0, writes |-> FALSE]

Exit(g, slot, w) ==
    LET access == Guarded(g, w)
    IN  IF ~InWindow(access.at, access.size) THEN "guard"
        ELSE IF access.writes /\ OnOwnPage(slot, access.at, access.size) THEN "self"
        ELSE IF w.op \in {"bsr", "rts"} \/ (w.op = "bne" /\ g.d.n # 0) THEN "taken"
        ELSE "none"

\* emitAll: the instruction at pc, without its prefetch.
NativeEffect(g, slot, pc) ==
    LET w == Baked(slot, pc)
    IN  CASE w.op = "imm" -> [g EXCEPT !.d = Baked(slot, pc + 1)]
          [] w.op = "lea" -> [g EXCEPT !.a = w.n]
          [] w.op = "load" -> [g EXCEPT !.d = g.ram[g.a + 1], !.a = Plus(g.a, 1)]
          [] w.op = "put" -> NativeStore(g, w.n, g.d)
          [] w.op = "store" -> [NativeStore(g, g.a, g.d) EXCEPT !.a = Plus(g.a, 1)]
          [] w.op = "store2" ->
                [NativeStore(NativeStore(g, g.a, g.d), g.a + 1, g.d)
                    EXCEPT !.a = Plus(g.a, 2)]
          [] w.op = "bsr" ->
                LET sp == Plus(g.a, -1)
                IN  [NativeStore(g, sp, Word("other", pc + 1)) EXCEPT !.a = sp]
          [] w.op = "rts" -> [g EXCEPT !.a = Plus(g.a, 1)]
          [] OTHER -> g

\* Where a taken branch goes: baked, or from the mailbox (emitRts).
Target(g, w) == IF w.op = "rts" THEN g.ram[g.a + 1].n ELSE w.n

Emitted(run, slot, pc) ==
    IF run.exit # "none" THEN run
    ELSE LET w == Baked(slot, pc)
             exit == Exit(run.guest, slot, w)
         IN  IF exit \in {"guard", "self"} THEN [run EXCEPT !.exit = exit]
             ELSE [guest |-> NativeEffect(run.guest, slot, pc), ran |-> run.ran + 1,
                   exit |-> exit,
                   target |-> IF exit = "taken" THEN Target(run.guest, w) ELSE 0]

\* emitBoundaryExit: the state on the boundary before pc, with the baked words.
Boundary(g, slot, pc) ==
    [g EXCEPT !.pc = Plus(pc, 2), !.ir = Baked(slot, pc), !.irc = Baked(slot, pc + 1)]

\* How a run leaves: on a boundary, or through branchTo after a taken branch.
Left(run, slot) ==
    [run EXCEPT !.guest =
        CASE run.exit = "none" -> Boundary(@, slot, slot.next)
          [] run.exit = "taken" -> Refill(@, run.target)
          [] OTHER -> Boundary(@, slot, slot.at[run.ran + 1])]

\* runBlock
RunBlock(g, slot) ==
    LET after[i \in 0 .. Len(slot.at)] ==
            IF i = 0 THEN [guest |-> g, ran |-> 0, exit |-> "none", target |-> 0]
            ELSE Emitted(after[i - 1], slot, slot.at[i])
    IN  Left(after[Len(slot.at)], slot)

--------------------------------------------------------------------------------
(* BlockRunner: what it remembers. *)

KeyMatches(slot, pc) ==
    /\ slot.entry # 0 /\ slot.entry = pc
    /\ slot.epoch = guest.epoch
    /\ Generation(guest, pc) # AlwaysStale
    /\ slot.gen = Generation(guest, pc)

\* Only the generation differs: verifyMatches may save the block.
OnlyGenerationMoved(slot, pc) ==
    /\ slot.entry # 0 /\ slot.entry = pc
    /\ slot.epoch = guest.epoch
    /\ Generation(guest, pc) # AlwaysStale
    /\ slot.gen # Generation(guest, pc)

\* sideFor: a place of the side table counts only while this block owns it.
OwnsSide(r, slot) ==
    /\ slot.kept \in DOMAIN r.sides
    /\ r.sides[slot.kept].owner = slot.entry
    /\ r.sides[slot.kept].epoch = slot.epoch

\* verifyMatches; the words are peeked, so they must be readable.
SameWords(words, entry) ==
    \A i \in DOMAIN words :
        Readable(guest, entry + i - 1) /\ View(guest, entry + i - 1) = words[i]

Verified(r, slot) ==
    \/ slot.kept = InSlot /\ SameWords(slot.words, slot.entry)
    \/ OwnsSide(r, slot) /\ SameWords(r.sides[slot.kept].words, slot.entry)

\* BlockRunner::run: the negative cache does not outlive an epoch.
Noticed ==
    IF runner.seenEpoch = guest.epoch THEN runner
    ELSE [runner EXCEPT !.seenEpoch = guest.epoch, !.negative = EmptyRunner.negative]

\* NegativeCache::contains, insert
Remembers(entries, pc, gen) ==
    LET e == entries[NegativeOf(pc)]
    IN  pc # 0 /\ e.pc = pc /\ e.gen \in {AnyGeneration, gen}
Remember(r, pc, gen) ==
    IF pc = 0 THEN r ELSE [r EXCEPT !.negative[NegativeOf(pc)] = [pc |-> pc, gen |-> gen]]

\* BlockRunner::rememberFailure
RememberFailure(r, pc, gen) == IF gen = AlwaysStale THEN r ELSE Remember(r, pc, gen)

\* The slot a translation takes, with the snapshot of its words where it fits.
Install(r, pc, plan) ==
    LET words == BakedWords(guest, pc, plan)
        short == Len(words) <= ShortWords
        beside == ~short /\ Len(r.sides) < SideCount
    IN  [r EXCEPT
            !.used = r.used + Len(plan.at),
            !.slots[SlotOf(pc)] =
                [entry |-> pc, epoch |-> guest.epoch, gen |-> Generation(guest, pc),
                 at |-> plan.at, next |-> plan.next, words |-> words,
                 kept |-> IF short THEN InSlot
                          ELSE IF beside THEN Len(r.sides) + 1 ELSE Nowhere],
            !.sides = IF beside
                      THEN Append(@, [owner |-> pc, epoch |-> guest.epoch, words |-> words])
                      ELSE @]

--------------------------------------------------------------------------------
(* Machine::run takes one turn: tryNative, and step() when it declines. *)

Turn == jit /\ ~pending /\ guest.epoch <= MaxEpoch

\* The block runs.  One that leaves for its own page is not translated again; one
\* that ran nothing leaves the instruction to step().
Run(r, slot) ==
    \E run \in {RunBlock(guest, slot)} :
        /\ runner' = IF run.exit = "self" THEN Remember(r, slot.entry, AnyGeneration)
                     ELSE r
        /\ guest' = IF run.exit \in {"guard", "self"} /\ run.ran = 0
                    THEN Step(run.guest) ELSE run.guest
        /\ UNCHANGED <<pending, jit, events>>

Decline(r) ==
    /\ runner' = r
    /\ guest' = Step(guest)
    /\ UNCHANGED <<pending, jit, events>>

Hit ==
    /\ Turn
    /\ LET pc == Here(guest) slot == Noticed.slots[SlotOf(pc)]
       IN  /\ KeyMatches(slot, pc)
           /\ Run(Noticed, slot)

Revalidate ==
    /\ Turn
    /\ LET pc == Here(guest)
           slot == Noticed.slots[SlotOf(pc)]
           now == Generation(guest, pc)
       IN  /\ OnlyGenerationMoved(slot, pc) /\ Verified(Noticed, slot)
           /\ Run([Noticed EXCEPT !.slots[SlotOf(pc)].gen = now], [slot EXCEPT !.gen = now])

\* translate is called: neither the key nor the words help.
Misses(r, pc) ==
    LET slot == r.slots[SlotOf(pc)]
    IN  ~KeyMatches(slot, pc) /\ ~(OnlyGenerationMoved(slot, pc) /\ Verified(r, slot))

\* The code memory is full: wait, and after enough requests throw everything away.
FullDeferred ==
    /\ Turn
    /\ Misses(Noticed, Here(guest))
    /\ Noticed.full
    /\ Decline(IF Noticed.fullSeen + 1 >= FullLimit
               THEN [Emptied(Noticed) EXCEPT !.fullSeen = 0]
               ELSE [Noticed EXCEPT !.fullSeen = @ + 1])

Translating(r, pc) ==
    /\ Turn
    /\ Misses(r, pc) /\ ~r.full

\* It failed before, and nothing has changed since.
KnownFailure ==
    LET pc == Here(guest)
    IN  /\ Translating(Noticed, pc)
        /\ Remembers(Noticed.negative, pc, Generation(guest, pc))
        /\ Decline(Noticed)

Untried(r, pc) ==
    Translating(r, pc) /\ ~Remembers(r.negative, pc, Generation(guest, pc))

\* No block begins here.
Refuse ==
    LET pc == Here(guest)
    IN  /\ Untried(Noticed, pc)
        /\ Generation(guest, pc) # AlwaysStale
        /\ ~CanEmit(guest, Plan(guest, pc))
        /\ Decline(RememberFailure(Noticed, pc, Generation(guest, pc)))

\* The page has been written too often to be told apart.
Saturated ==
    LET pc == Here(guest)
    IN  /\ Untried(Noticed, pc)
        /\ Generation(guest, pc) = AlwaysStale
        /\ Noticed.staleSeen + 1 < StaleLimit
        /\ Decline([Noticed EXCEPT !.staleSeen = @ + 1])

\* Often enough, everything is thrown away and the generations start again.
CountAgain(g) == [g EXCEPT !.gen = [p \in DOMAIN g.gen |-> 0]]
Recover ==
    LET pc == Here(guest)
    IN  /\ Untried(Noticed, pc)
        /\ Generation(guest, pc) = AlwaysStale
        /\ Noticed.staleSeen + 1 >= StaleLimit
        /\ runner' = [Emptied(Noticed) EXCEPT !.staleSeen = 0]
        /\ guest' = Step(CountAgain(guest))
        /\ UNCHANGED <<pending, jit, events>>

NoRoom ==
    LET pc == Here(guest) plan == Plan(guest, pc)
    IN  /\ Untried(Noticed, pc)
        /\ CanEmit(guest, plan)
        /\ Noticed.used + Len(plan.at) > CodeSize
        /\ Decline([Noticed EXCEPT !.full = TRUE])

Translate ==
    LET pc == Here(guest) plan == Plan(guest, pc)
    IN  /\ Untried(Noticed, pc)
        /\ CanEmit(guest, plan)
        /\ Noticed.used + Len(plan.at) <= CodeSize
        /\ \E r \in {Install(Noticed, pc, plan)} : Run(r, r.slots[SlotOf(pc)])

\* One instruction of the interpreter: no native code, or an interrupt to take.
Interpret ==
    /\ ~jit \/ pending
    /\ guest.epoch <= MaxEpoch
    /\ guest' = IF pending THEN Interrupted(guest) ELSE Step(guest)
    /\ pending' = FALSE
    /\ UNCHANGED <<jit, runner, events>>

--------------------------------------------------------------------------------
(* Between two turns. *)

Event == events < MaxEvents /\ events' = events + 1

RaiseInterrupt ==
    /\ Event
    /\ ~pending /\ pending' = TRUE
    /\ UNCHANGED <<guest, jit, runner>>

\* DMA writes a word, or two of them as a block (tryWriteRamBlock, touchRange).
DmaWrite ==
    /\ Event
    /\ \E a \in DmaAt, w \in DmaWords : guest' = Write(guest, a, w)
    /\ UNCHANGED <<pending, jit, runner>>
DmaBlock ==
    /\ Event
    /\ \E a \in DmaAt, w \in DmaWords :
        IsRam(Plus(a, 1)) /\ guest' = WriteTwo(guest, a, w)
    /\ UNCHANGED <<pending, jit, runner>>

\* The reset button.
Reset ==
    /\ Event
    /\ guest.epoch <= MaxEpoch
    /\ guest' = ResetGuest(guest) /\ pending' = FALSE
    /\ UNCHANGED <<jit, runner>>

\* emulatorTask applies the JIT switch; turning it on empties the runner.
TurnOn ==
    /\ Event
    /\ ~jit /\ jit' = TRUE
    /\ runner' = Emptied(runner)
    /\ UNCHANGED <<guest, pending>>
TurnOff ==
    /\ Event
    /\ jit /\ jit' = FALSE
    /\ UNCHANGED <<guest, pending, runner>>

NativeTurn == Hit \/ Revalidate \/ Translate

Next ==
    \/ Hit \/ Revalidate \/ Translate
    \/ FullDeferred \/ KnownFailure \/ Refuse \/ Saturated \/ Recover \/ NoRoom
    \/ Interpret
    \/ RaiseInterrupt \/ DmaWrite \/ DmaBlock \/ Reset \/ TurnOn \/ TurnOff

Spec == Init /\ [][Next]_vars

--------------------------------------------------------------------------------
(* Properties. *)

\* A block whose key matches was made of the words memory holds now, wherever they
\* are shown from: no write by CPU or DMA, no reset, no change of the address map
\* and no restart of the generations leaves a stale block runnable.
HitIsFresh ==
    \A i \in DOMAIN runner.slots :
        LET slot == runner.slots[i]
        IN  KeyMatches(slot, slot.entry) =>
                \A k \in DOMAIN slot.words : View(guest, slot.entry + k - 1) = slot.words[k]

\* What the runner remembers not to translate still cannot be translated: a
\* program that is patched into something translatable is tried again.  (The mark
\* of a block that writes to its own page is the exception the code makes.)
RefusalsAreCurrent ==
    runner.seenEpoch = guest.epoch =>
        \A i \in DOMAIN runner.negative :
            LET e == runner.negative[i]
            IN  e.pc # 0 /\ e.gen # AnyGeneration /\ e.gen = Generation(guest, e.pc) =>
                    ~CanEmit(guest, Plan(guest, e.pc))

\* What the runner remembers of the program, blocks and refusals, is still true of it
\* wherever it would use it (BlockRunner, BlockCache, NegativeCache, CodeGenMap).
CacheIsCurrent == HitIsFresh /\ RefusalsAreCurrent

\* A turn of native code is some number of the interpreter's instructions, to the
\* last bit: registers, prefetched words, memory and the generations the writes
\* count.  (NativeExec's postcondition, under its precondition.)
IsInstructions ==
    \E n \in 1 .. MaxOps :
        guest' = Steps(guest, n)
NativeIsInterpreted == [][NativeTurn /\ Coherent(guest) => IsInstructions]_vars

\* The runner is a cache that knows nothing of the writes: CodeCache.
Offset(a) == a % PageWords
CacheBlock(s) ==
    LET first == Offset(s.entry)
    IN  [page |-> Page(s.entry), gen |-> s.gen, epoch |-> s.epoch,
         words |-> [o \in first .. first + Len(s.words) - 1 |-> s.words[o - first + 1]]]
Cache == INSTANCE CodeCache WITH
    Pages <- 0 .. RamPages, Offsets <- 0 .. PageWords - 1, Words <- Words,
    Fixed <- {RomPage}, Slots <- 0 .. SlotCount - 1, Empty <- EmptySlot,
    content <- [p \in 0 .. RamPages |->
                    [o \in 0 .. PageWords - 1 |-> View(guest, p * PageWords + o)]],
    gen <- [p \in 0 .. RamPages |-> Generation(guest, p * PageWords)],
    epoch <- guest.epoch,
    slots <- [i \in 0 .. SlotCount - 1 |->
                IF runner.slots[i].entry = 0 THEN EmptySlot ELSE CacheBlock(runner.slots[i])]
ImplementsCodeCache == Cache!Spec
================================================================================
