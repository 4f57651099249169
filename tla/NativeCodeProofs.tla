---------------------------- MODULE NativeCodeProofs ----------------------------
(******************************************************************************)
(* Proofs about NativeCode and CodeCache, for any size of memory, any program,    *)
(* any DMA and any size of the runner's tables.                                  *)
(*                                                                              *)
(* Three things are shown of the translator.  What the planner and the emitter    *)
(* make is a block of the words memory shows (PlanMakesABlock).  Each instruction *)
(* of a block, between the boundaries the prefetched words draw, does what the    *)
(* interpreter does (InstructionDoesTheSame), and so does their run (BlockRuns).  *)
(* And the block that runs is still the one memory holds (RunnerIsSound): memory   *)
(* never changes without its generation or the epoch (Evolves).                   *)
(*                                                                              *)
(* Runs and plans are recursive functions over numbers.  Induction over these is  *)
(* SetInduction: the numbers of which a statement holds are a set, and the least  *)
(* number outside it does not exist.                                            *)
(******************************************************************************)
EXTENDS NativeCode, WellFoundedInduction, TLAPS

\* Induction over a set of numbers: a least number outside it cannot exist.
LEMMA SetInduction ==
    ASSUME NEW T, 0 \in T, \A n \in Nat : n \in T => n + 1 \in T
    PROVE  Nat \subseteq T
<1> DEFINE Out == {n \in Nat : n \notin T}
<1>1. SUFFICES ASSUME Out # {} PROVE FALSE
  OBVIOUS
<1>2. PICK x \in Out : \A y \in Out : ~ (<<y, x>> \in OpToRel(<, Nat))
  BY <1>1, WFMin, NatLessThanWellFounded
<1>3. \A y \in Out : ~(y < x)
  BY <1>2 DEF OpToRel
<1>4. x # 0 /\ x \in Nat
  OBVIOUS
<1>5. x - 1 \in Nat /\ x - 1 < x /\ (x - 1) + 1 = x
  BY <1>4
<1>6. x - 1 \in T
  BY <1>3, <1>5
<1> QED BY <1>5, <1>6

\* The facts of \div and % the addresses need.
LEMMA Division ==
    ASSUME NEW a \in Nat, NEW n \in Nat \ {0}
    PROVE  /\ a \div n \in Nat
           /\ a % n \in 0 .. n - 1
           /\ a = n * (a \div n) + (a % n)
<1>1. a % n \in 0 .. n - 1
  OBVIOUS
<1>2. a \div n \in Nat
  OBVIOUS
<1>3. a = n * (a \div n) + (a % n)
  OBVIOUS
<1> QED BY <1>1, <1>2, <1>3

LEMMA QuotientIsUnique ==
    ASSUME NEW a \in Int, NEW n \in Nat \ {0}, NEW q \in Int, NEW r \in 0 .. n - 1, a = n * q + r
    PROVE  a \div n = q /\ a % n = r
OBVIOUS

LEMMA SmallRemainder ==
    ASSUME NEW n \in Nat \ {0}, NEW a \in 0 .. n - 1
    PROVE  a % n = a /\ a \div n = 0
OBVIOUS

LEMMA NegativeRemainder ==
    ASSUME NEW n \in Nat \ {0}, NEW a \in Int, -n <= a, a < 0
    PROVE  a % n = a + n
OBVIOUS
LEMMA LargeRemainder ==
    ASSUME NEW n \in Nat \ {0}, NEW a \in Int, n <= a, a < 2 * n
    PROVE  a % n = a - n
OBVIOUS
LEMMA QuotientGrows ==
    ASSUME NEW n \in Nat \ {0}, NEW a \in Nat, NEW b \in Nat, a <= b
    PROVE a \div n <= b \div n
OBVIOUS

Guests ==
    [pc : Addr, ir : Words, irc : Words, d : Words, a : Addr,
     ram : [1 .. RamPages * PageWords -> Words],
     gen : [0 .. RamPages - 1 -> 0 .. AlwaysStale], mapped : BOOLEAN, epoch : Nat]

RamWords == RamPages * PageWords

\* What the assumptions say of the sizes.
LEMMA Layout ==
    /\ RamPages \in Nat /\ RamPages > 1 /\ PageWords \in Nat /\ PageWords > 1
    /\ AlwaysStale \in Nat /\ AlwaysStale > 1
    /\ RamWords \in Nat /\ RamWords > PageWords
    /\ Size = RamWords + 2 * PageWords /\ Size \in Nat
<1>1. RamPages \in Nat /\ RamPages > 1 /\ PageWords \in Nat /\ PageWords > 1
      /\ AlwaysStale \in Nat /\ AlwaysStale > 1
  BY GuestAssumption
<1>2. RamWords \in Nat /\ Size \in Nat
  BY <1>1 DEF RamWords, Size
<1>3. RamWords > PageWords
  BY <1>1 DEF RamWords
<1>4. Size = RamWords + 2 * PageWords
  BY <1>1 DEF RamWords, Size
<1> QED BY <1>1, <1>2, <1>3, <1>4

\* Where an address lies: its page, and its place on it.
LEMMA PagesOfAddresses ==
    ASSUME NEW a \in Addr
    PROVE  /\ a \in Nat /\ a < Size
           /\ Page(a) \in 0 .. RamPages + 1
           /\ IsRam(a) <=> a < RamWords
           /\ IsRam(a) => Page(a) \in 0 .. RamPages - 1
           /\ Page(a) = RomPage <=> RamWords <= a /\ a < RamWords + PageWords
           /\ Page(a) = 0 <=> a < PageWords
           /\ a % PageWords \in 0 .. PageWords - 1
           /\ a = PageWords * Page(a) + (a % PageWords)
<1>1. a \in Nat /\ a < Size
  BY Layout DEF Addr
<1>2. Page(a) \in Nat /\ a % PageWords \in 0 .. PageWords - 1
      /\ a = PageWords * Page(a) + (a % PageWords)
  <2>1. PageWords \in Nat \ {0}
    BY Layout
  <2> QED BY <1>1, <2>1, Division DEF Page
<1> DEFINE p == Page(a)
           o == a % PageWords
<1> HIDE DEF p, o
<1>3. p \in Nat /\ o \in 0 .. PageWords - 1 /\ a = PageWords * p + o
  BY <1>2 DEF p, o
<1>4. p < RamPages <=> a < RamPages * PageWords
  <2>1. CASE p < RamPages
    <3>1. p + 1 <= RamPages
      BY <2>1, <1>3, Layout
    <3>2. PageWords * (p + 1) <= PageWords * RamPages
      BY <3>1, <1>3, Layout
    <3> QED BY <3>2, <1>3, <2>1, Layout
  <2>2. CASE p >= RamPages
    <3>2. PageWords * p >= PageWords * RamPages
      BY <2>2, <1>3, Layout
    <3> QED BY <3>2, <1>3, <2>2, Layout
  <2> QED BY <2>1, <2>2, <1>3, Layout
<1>5. p < RamPages + 1 <=> a < RamPages * PageWords + PageWords
  <2>1. CASE p < RamPages + 1
    <3>2. PageWords * p <= PageWords * RamPages
      BY <2>1, <1>3, Layout
    <3> QED BY <3>2, <1>3, <2>1, Layout
  <2>2. CASE p >= RamPages + 1
    <3>2. PageWords * p >= PageWords * (RamPages + 1)
      BY <2>2, <1>3, Layout
    <3> QED BY <3>2, <1>3, <2>2, Layout
  <2> QED BY <2>1, <2>2, <1>3, Layout
<1>6. p < RamPages + 2
  <2>1. SUFFICES ASSUME p >= RamPages + 2 PROVE FALSE
    BY <1>3, Layout
  <2>2. PageWords * p >= PageWords * (RamPages + 2)
    BY <2>1, <1>3, Layout
  <2> QED BY <2>2, <1>1, <1>3, Layout DEF RamWords
<1>7. p = 0 <=> a < PageWords
  <2>1. CASE p >= 1
    <3>1. PageWords * p >= PageWords
      BY <2>1, <1>3, Layout
    <3> QED BY <3>1, <2>1, <1>3, Layout
  <2> QED BY <2>1, <1>3, Layout
<1> QED
  BY <1>1, <1>3, <1>4, <1>5, <1>6, <1>7, Layout DEF p, o, IsRam, RomPage, RamWords

\* What lies between two addresses of a page lies on it.
LEMMA BetweenOnPage ==
    ASSUME NEW a \in Addr, NEW b \in Addr, NEW c \in Addr, a <= b, b <= c, Page(a) = Page(c)
    PROVE  Page(b) = Page(a)
<1>1. a \in Nat /\ b \in Nat /\ c \in Nat
  BY PagesOfAddresses
<1>2. Page(a) <= Page(b) /\ Page(b) <= Page(c)
  BY <1>1, Layout, QuotientGrows DEF Page
<1> QED BY <1>2, PagesOfAddresses

\* The address at a place of a page.
LEMMA PlaceOnPage ==
    ASSUME NEW p \in 0 .. RamPages + 1, NEW o \in 0 .. PageWords - 1
    PROVE  /\ p * PageWords + o \in Addr /\ Page(p * PageWords + o) = p
           /\ (p * PageWords + o) % PageWords = o
<1>1. p * PageWords \in Nat /\ PageWords * p = p * PageWords
  BY Layout
<1>2. p * PageWords <= (RamPages + 1) * PageWords
  BY Layout
<1>3. (RamPages + 1) * PageWords = RamWords + PageWords
  BY Layout DEF RamWords
<1>4. p * PageWords + o \in Addr
  BY <1>1, <1>2, <1>3, Layout DEF Addr
<1> DEFINE a == p * PageWords + o
<1>5. a = PageWords * p + o /\ a \in Int
  BY <1>1
<1> HIDE DEF a
<1>6. a \div PageWords = p /\ a % PageWords = o
  BY <1>5, Layout, QuotientIsUnique
<1> QED BY <1>4, <1>6 DEF a, Page

\* Addresses wrap; inside the address space Plus is addition.
LEMMA PlusIsAddress ==
    ASSUME NEW a \in Addr, NEW n \in Int
    PROVE  /\ Plus(a, n) \in Addr
           /\ a + n \in Addr => Plus(a, n) = a + n
<1>1. a \in Nat /\ Size \in Nat \ {0}
  BY PagesOfAddresses, Layout
<1> DEFINE m == a + n
<1>2. m \in Int
  BY <1>1
<1> HIDE DEF m
<1>3. m % Size \in 0 .. Size - 1
  BY <1>1, <1>2
<1>4. m \in 0 .. Size - 1 => m % Size = m
  BY <1>1, SmallRemainder
<1> QED BY <1>3, <1>4 DEF m, Addr, Plus

\* Steps of the prefetch back and forth.
LEMMA PlusBack ==
    ASSUME NEW a \in Addr, NEW n \in 1 .. 2
    PROVE  /\ Plus(Plus(a, -n), n) = a /\ Plus(Plus(a, n), -n) = a
           /\ Plus(Plus(a, n), 1) = Plus(a, n + 1)
           /\ Plus(Plus(a, 2), -1) = Plus(a, 1)
<1>1. a \in Nat /\ a < Size /\ Size \in Nat \ {0} /\ Size > 4
  BY PagesOfAddresses, Layout
<1>2. ASSUME NEW b \in Addr, NEW k \in -3 .. 3
      PROVE  Plus(b, k) = IF b + k < 0 THEN (b + k) + Size
                          ELSE IF b + k >= Size THEN (b + k) - Size ELSE b + k
  <2> DEFINE m == b + k
  <2>1. m \in Int /\ -Size <= m /\ m < 2 * Size
    BY <1>1, PagesOfAddresses
  <2>2. m % Size = IF m < 0 THEN m + Size ELSE IF m >= Size THEN m - Size ELSE m
    <3> HIDE DEF m
    <3>1. CASE m < 0
      BY <3>1, <2>1, <1>1, NegativeRemainder
    <3>2. CASE m >= Size
      <4>1. Size <= m /\ m < 2 * Size /\ m \in Int /\ Size \in Nat \ {0}
        BY <3>2, <2>1, <1>1
      <4>2. m % Size = m - Size
        BY <4>1, LargeRemainder
      <4> QED BY <4>1, <4>2, <1>1
    <3>3. CASE m \in 0 .. Size - 1
      BY <3>3, <1>1, SmallRemainder
    <3> QED BY <3>1, <3>2, <3>3, <2>1, <1>1
  <2>3. Plus(b, k) = m % Size
    BY DEF Plus
  <2> QED BY <2>2, <2>3, Zenon
<1>3. ASSUME NEW b \in Addr, NEW k \in -3 .. 3 PROVE Plus(b, k) \in Addr /\ b \in Nat /\ b < Size
  BY PlusIsAddress, PagesOfAddresses
<1>4. \A b \in Addr : b \in Nat /\ b < Size
  BY PagesOfAddresses
<1>5. Plus(a, -n) \in Addr /\ Plus(a, n) \in Addr /\ Plus(a, 2) \in Addr
  BY <1>3
<1>6. Plus(Plus(a, -n), n) = a
  BY <1>1, <1>2, <1>5, <1>4
<1>7. Plus(Plus(a, n), -n) = a
  BY <1>1, <1>2, <1>5, <1>4
<1>8. Plus(Plus(a, n), 1) = Plus(a, n + 1)
  BY <1>1, <1>2, <1>5, <1>4
<1>9. Plus(Plus(a, 2), -1) = Plus(a, 1)
  BY <1>1, <1>2, <1>5, <1>4
<1> QED BY <1>6, <1>7, <1>8, <1>9

Evolves(g, h) ==
    /\ h \in Guests
    /\ h.epoch >= g.epoch
    /\ h.mapped # g.mapped => h.epoch > g.epoch
    /\ \A p \in 0 .. RamPages - 1 : h.gen[p] >= g.gen[p]
    /\ \A b \in Addr : View(h, b) # View(g, b) =>
        \/ h.epoch > g.epoch
        \/ IsRam(b) /\ (h.gen[Page(b)] > g.gen[Page(b)] \/ g.gen[Page(b)] = AlwaysStale)

\* Only registers differ.
SameMemory(g, h) ==
    h.ram = g.ram /\ h.gen = g.gen /\ h.mapped = g.mapped /\ h.epoch = g.epoch
SameRegisters(g, h) ==
    h.pc = g.pc /\ h.ir = g.ir /\ h.irc = g.irc /\ h.d = g.d /\ h.a = g.a

\* Memory always shows a word.
LEMMA ViewIsWord ==
    ASSUME NEW g \in Guests, NEW b \in Addr
    PROVE  /\ View(g, b) \in Words
           /\ b < RamWords => b + 1 \in 1 .. RamPages * PageWords
           /\ b < PageWords => b + 1 \in 1 .. PageWords
<1>1. /\ b \in Nat /\ b < Size /\ b % PageWords \in 0 .. PageWords - 1
      /\ IsRam(b) <=> b < RamWords
      /\ Page(b) = 0 <=> b < PageWords
  BY PagesOfAddresses
<1>2. Rom \in [1 .. PageWords -> Words]
  BY GuestAssumption
<1>3. 0 \in Addr
  BY Layout DEF Addr
<1>4. Nothing \in Words
  BY <1>3 DEF Nothing, Word, Words
<1>5. g.ram \in [1 .. RamPages * PageWords -> Words]
  BY DEF Guests
<1>6. b < RamWords => b + 1 \in 1 .. RamPages * PageWords
  BY <1>1, Layout DEF RamWords
<1>7. b < PageWords => b + 1 \in 1 .. PageWords
  BY <1>1, Layout
<1>8. (b % PageWords) + 1 \in 1 .. PageWords
  BY <1>1, Layout
<1> QED BY <1>1, <1>2, <1>4, <1>5, <1>6, <1>7, <1>8 DEF View

\* What an address shows: the RAM, the ROM, or nothing.
LEMMA ViewOfRam ==
    ASSUME NEW g \in Guests, NEW b \in Addr, IsRam(b), ~(Page(b) = 0 /\ g.mapped)
    PROVE  View(g, b) = g.ram[b + 1]
<1>1. Page(b) # RomPage
  BY PagesOfAddresses, Layout
<1> QED BY <1>1 DEF View

\* What an address shows depends on its word of RAM and on the map only.
LEMMA ViewOutsideRam ==
    ASSUME NEW g \in Guests, NEW h \in Guests, NEW b \in Addr, g.mapped = h.mapped,
           ~IsRam(b) \/ g.ram[b + 1] = h.ram[b + 1]
    PROVE  View(g, b) = View(h, b)
BY DEF View

\* Registers do not show in memory.
LEMMA SameMemoryShows ==
    ASSUME NEW g \in Guests, NEW h \in Guests, SameMemory(g, h)
    PROVE  Evolves(g, h) /\ \A b \in Addr : View(h, b) = View(g, b)
<1>1. \A b \in Addr : View(h, b) = View(g, b)
  BY ViewOutsideRam DEF SameMemory
<1>2. g.epoch \in Nat /\ g.gen \in [0 .. RamPages - 1 -> 0 .. AlwaysStale]
  BY DEF Guests
<1> QED BY <1>1, <1>2, Layout DEF Evolves, SameMemory

\* Changes of memory follow one another.
LEMMA EvolvesTransitive ==
    ASSUME NEW g \in Guests, NEW h, NEW k, Evolves(g, h), Evolves(h, k)
    PROVE  Evolves(g, k)
<1>1. h \in Guests /\ k \in Guests
  BY DEF Evolves
<1>2. /\ g.epoch \in Nat /\ h.epoch \in Nat /\ k.epoch \in Nat
      /\ k.epoch >= h.epoch /\ h.epoch >= g.epoch
  BY <1>1 DEF Evolves, Guests
<1>3. ASSUME NEW p \in 0 .. RamPages - 1
      PROVE  /\ g.gen[p] \in 0 .. AlwaysStale /\ h.gen[p] \in 0 .. AlwaysStale
             /\ k.gen[p] \in 0 .. AlwaysStale
             /\ k.gen[p] >= h.gen[p] /\ h.gen[p] >= g.gen[p]
  BY <1>1 DEF Evolves, Guests
<1>4. k.mapped # g.mapped => k.epoch > g.epoch
  BY <1>2 DEF Evolves
<1>5. ASSUME NEW b \in Addr, View(k, b) # View(g, b), ~(k.epoch > g.epoch)
      PROVE  IsRam(b) /\ (k.gen[Page(b)] > g.gen[Page(b)] \/ g.gen[Page(b)] = AlwaysStale)
  <2>1. ~(h.epoch > g.epoch) /\ ~(k.epoch > h.epoch)
    BY <1>2, <1>5
  <2>2. View(k, b) # View(h, b) \/ View(h, b) # View(g, b)
    BY <1>5
  <2>3. \/ IsRam(b) /\ (k.gen[Page(b)] > h.gen[Page(b)] \/ h.gen[Page(b)] = AlwaysStale)
        \/ IsRam(b) /\ (h.gen[Page(b)] > g.gen[Page(b)] \/ g.gen[Page(b)] = AlwaysStale)
    BY <2>1, <2>2 DEF Evolves
  <2>4. Page(b) \in 0 .. RamPages - 1
    BY <2>3, PagesOfAddresses
  <2> HIDE DEF Page, IsRam
  <2> QED BY <1>3, <2>3, <2>4, Layout
<1> QED BY <1>1, <1>2, <1>3, <1>4, <1>5, Layout DEF Evolves

\* A counted write: only the generation of its page moves.
LEMMA TouchKeeps ==
    ASSUME NEW g \in Guests, NEW b \in Addr, IsRam(b)
    PROVE  /\ Touch(g, b) \in Guests /\ SameRegisters(g, Touch(g, b))
           /\ Touch(g, b).ram = g.ram /\ Touch(g, b).mapped = g.mapped
           /\ Touch(g, b).epoch = g.epoch
           /\ \A p \in 0 .. RamPages - 1 :
                Touch(g, b).gen[p] = IF p = Page(b) THEN Count(g.gen[p]) ELSE g.gen[p]
<1>1. Page(b) \in 0 .. RamPages - 1
  BY PagesOfAddresses
<1>2. g.gen \in [0 .. RamPages - 1 -> 0 .. AlwaysStale]
  BY DEF Guests
<1>3. \A n \in 0 .. AlwaysStale : Count(n) \in 0 .. AlwaysStale
  BY Layout DEF Count
<1>4. Touch(g, b) = [g EXCEPT !.gen = [g.gen EXCEPT ![Page(b)] = Count(g.gen[Page(b)])]]
  BY DEF Touch
<1> DEFINE gen == [g.gen EXCEPT ![Page(b)] = Count(g.gen[Page(b)])]
<1>5. gen \in [0 .. RamPages - 1 -> 0 .. AlwaysStale]
  BY <1>1, <1>2, <1>3
<1>6. \A p \in 0 .. RamPages - 1 : gen[p] = IF p = Page(b) THEN Count(g.gen[p]) ELSE g.gen[p]
  BY <1>2
<1> HIDE DEF gen
<1>7. Touch(g, b) = [g EXCEPT !.gen = gen]
  BY <1>4 DEF gen
<1> QED BY <1>5, <1>6, <1>7 DEF Guests, SameRegisters

\* A write to RAM is the store native code makes.
LEMMA WriteToRam ==
    ASSUME NEW g \in Guests, NEW b \in Addr, IsRam(b), NEW w \in Words
    PROVE  LET h == Write(g, b, w) IN
           /\ h \in Guests /\ SameRegisters(g, h)
           /\ h.ram = [g.ram EXCEPT ![b + 1] = w]
           /\ h.mapped = g.mapped /\ h.epoch = g.epoch
           /\ \A p \in 0 .. RamPages - 1 :
                h.gen[p] = IF p = Page(b) THEN Count(g.gen[p]) ELSE g.gen[p]
           /\ h = NativeStore(g, b, w)
<1> DEFINE t == Touch(g, b)
           ram == [g.ram EXCEPT ![b + 1] = w]
<1>1. t \in Guests /\ SameRegisters(g, t) /\ t.ram = g.ram /\ t.mapped = g.mapped
      /\ t.epoch = g.epoch
      /\ \A p \in 0 .. RamPages - 1 :
            t.gen[p] = IF p = Page(b) THEN Count(g.gen[p]) ELSE g.gen[p]
  BY TouchKeeps
<1>2. g.ram \in [1 .. RamPages * PageWords -> Words]
  BY DEF Guests
<1>3. ram \in [1 .. RamPages * PageWords -> Words]
  BY <1>2
<1>4. NativeStore(g, b, w) = [t EXCEPT !.ram = ram]
  BY <1>1 DEF NativeStore
<1>5. Write(g, b, w) = NativeStore(g, b, w)
  <2>1. Page(b) # IoPage
    BY Layout, PagesOfAddresses DEF IoPage
  <2> QED BY <2>1, Zenon DEF Write, NativeStore
<1> HIDE DEF t, ram
<1>6. [t EXCEPT !.ram = ram] \in Guests
  BY <1>1, <1>3 DEF Guests
<1>7. LET h == [t EXCEPT !.ram = ram] IN
        /\ SameRegisters(g, h) /\ h.ram = ram /\ h.mapped = g.mapped /\ h.epoch = g.epoch
        /\ \A p \in 0 .. RamPages - 1 :
                h.gen[p] = IF p = Page(b) THEN Count(g.gen[p]) ELSE g.gen[p]
  BY <1>1 DEF Guests, SameRegisters
<1> QED BY <1>4, <1>5, <1>6, <1>7 DEF ram

\* Every page is counted.
LEMMA TouchAllKeeps ==
    ASSUME NEW g \in Guests
    PROVE  /\ TouchAll(g) \in Guests /\ SameRegisters(g, TouchAll(g))
           /\ TouchAll(g).ram = g.ram /\ TouchAll(g).mapped = g.mapped
           /\ TouchAll(g).epoch = g.epoch
           /\ \A p \in 0 .. RamPages - 1 : TouchAll(g).gen[p] = Count(g.gen[p])
<1>1. g.gen \in [0 .. RamPages - 1 -> 0 .. AlwaysStale]
  BY DEF Guests
<1>2. \A n \in 0 .. AlwaysStale : Count(n) \in 0 .. AlwaysStale
  BY Layout DEF Count
<1> DEFINE gen == [p \in DOMAIN g.gen |-> Count(g.gen[p])]
<1>3. gen \in [0 .. RamPages - 1 -> 0 .. AlwaysStale]
      /\ \A p \in 0 .. RamPages - 1 : gen[p] = Count(g.gen[p])
  BY <1>1, <1>2
<1>4. TouchAll(g) = [g EXCEPT !.gen = gen]
  BY DEF TouchAll
<1> HIDE DEF gen
<1> QED BY <1>3, <1>4 DEF Guests, SameRegisters

\* The address map moves, and every page is counted with it.
LEMMA ShowRomKeeps ==
    ASSUME NEW g \in Guests, NEW m \in BOOLEAN
    PROVE  /\ ShowRom(g, m) \in Guests /\ SameRegisters(g, ShowRom(g, m))
           /\ ShowRom(g, m).ram = g.ram
           /\ ShowRom(g, m).epoch = g.epoch + 1
           /\ \A p \in 0 .. RamPages - 1 : ShowRom(g, m).gen[p] = Count(g.gen[p])
<1> DEFINE t == TouchAll(g)
<1>1. /\ t \in Guests /\ SameRegisters(g, t)
      /\ t.ram = g.ram /\ \A p \in 0 .. RamPages - 1 : t.gen[p] = Count(g.gen[p])
  BY TouchAllKeeps
<1>2. ShowRom(g, m) = [t EXCEPT !.mapped = m, !.epoch = g.epoch + 1]
  BY DEF ShowRom
<1>3. g.epoch + 1 \in Nat
  BY DEF Guests
<1> HIDE DEF t
<1> QED BY <1>1, <1>2, <1>3 DEF Guests, SameRegisters

\* A generation grows until it is stale for good.
LEMMA CountGrows ==
    ASSUME NEW n \in 0 .. AlwaysStale
    PROVE  Count(n) >= n /\ (Count(n) > n \/ n = AlwaysStale)
BY Layout DEF Count

\* A change of the map is seen by its epoch.
LEMMA ShowRomEvolves ==
    ASSUME NEW g \in Guests, NEW m \in BOOLEAN
    PROVE  Evolves(g, ShowRom(g, m))
<1> DEFINE h == ShowRom(g, m)
<1>1. h \in Guests /\ h.epoch = g.epoch + 1
      /\ \A p \in 0 .. RamPages - 1 : h.gen[p] = Count(g.gen[p])
  BY ShowRomKeeps
<1>2. g.epoch \in Nat /\ \A p \in 0 .. RamPages - 1 : g.gen[p] \in 0 .. AlwaysStale
  BY DEF Guests
<1> HIDE DEF h
<1>3. \A p \in 0 .. RamPages - 1 : h.gen[p] >= g.gen[p]
  BY <1>1, <1>2, CountGrows
<1>4. h.epoch > g.epoch
  BY <1>1, <1>2
<1>5. Evolves(g, h)
  BY <1>1, <1>3, <1>4, <1>2 DEF Evolves
<1> QED BY <1>5 DEF h

\* A write shows where it went only.
LEMMA StoreShows ==
    ASSUME NEW g \in Guests, NEW b \in Addr, IsRam(b), NEW w \in Words, NEW c \in Addr, c # b
    PROVE  View(Write(g, b, w), c) = View(g, c)
<1> DEFINE h == Write(g, b, w)
<1>1. h \in Guests /\ h.ram = [g.ram EXCEPT ![b + 1] = w] /\ h.mapped = g.mapped
  BY WriteToRam
<1>2. g.ram \in [1 .. RamPages * PageWords -> Words]
  BY DEF Guests
<1>3. IsRam(c) => c + 1 \in 1 .. RamPages * PageWords /\ c + 1 # b + 1
  BY PagesOfAddresses, ViewIsWord
<1> HIDE DEF h
<1>4. ~IsRam(c) \/ g.ram[c + 1] = h.ram[c + 1]
  BY <1>1, <1>2, <1>3
<1>5. View(g, c) = View(h, c)
  BY <1>1, <1>4, ViewOutsideRam
<1> QED BY <1>5 DEF h

\* Every write is counted or moves the epoch.
LEMMA WriteEvolves ==
    ASSUME NEW g \in Guests, NEW b \in Addr, NEW w \in Words
    PROVE  Evolves(g, Write(g, b, w)) /\ SameRegisters(g, Write(g, b, w))
<1>1. CASE IsRam(b)
  <2> DEFINE h == Write(g, b, w)
  <2>11. /\ Write(g, b, w) \in Guests /\ SameRegisters(g, Write(g, b, w))
         /\ Write(g, b, w).mapped = g.mapped /\ Write(g, b, w).epoch = g.epoch
    BY <1>1, WriteToRam, Zenon
  <2>12. \A p \in 0 .. RamPages - 1 : Write(g, b, w).gen[p] =
            IF p = Page(b) THEN Count(g.gen[p]) ELSE g.gen[p]
    BY <1>1, WriteToRam, ZenonT(30)
  <2>1. h \in Guests /\ h.mapped = g.mapped /\ h.epoch = g.epoch /\ SameRegisters(g, h)
        /\ \A p \in 0 .. RamPages - 1 :
                h.gen[p] = IF p = Page(b) THEN Count(g.gen[p]) ELSE g.gen[p]
    BY <2>11, <2>12, Zenon
  <2>2. \A c \in Addr : c # b => View(h, c) = View(g, c)
    BY <1>1, StoreShows
  <2>3. g.epoch \in Nat /\ \A p \in 0 .. RamPages - 1 : g.gen[p] \in 0 .. AlwaysStale
    BY DEF Guests
  <2>4. Page(b) \in 0 .. RamPages - 1
    BY <1>1, PagesOfAddresses
  <2> HIDE DEF h
  <2>5. \A p \in 0 .. RamPages - 1 : h.gen[p] >= g.gen[p]
    BY <2>1, <2>3, CountGrows
  <2>6. h.gen[Page(b)] > g.gen[Page(b)] \/ g.gen[Page(b)] = AlwaysStale
    BY <2>1, <2>3, <2>4, CountGrows
  <2>7. \A c \in Addr : View(h, c) # View(g, c) =>
          IsRam(c) /\ (h.gen[Page(c)] > g.gen[Page(c)] \/ g.gen[Page(c)] = AlwaysStale)
    BY <1>1, <2>2, <2>6
  <2>8. Evolves(g, h)
    BY <2>1, <2>3, <2>5, <2>7 DEF Evolves
  <2> QED BY <2>1, <2>8 DEF h
<1>2. CASE ~IsRam(b) /\ Page(b) = IoPage
  BY <1>2, ShowRomEvolves, ShowRomKeeps DEF Write
<1>3. CASE ~IsRam(b) /\ Page(b) # IoPage
  <2>1. Write(g, b, w) = g
    BY <1>3 DEF Write
  <2>2. SameMemory(g, g) /\ SameRegisters(g, g)
    BY DEF SameMemory, SameRegisters
  <2> QED BY <2>1, <2>2, SameMemoryShows
<1> QED BY <1>1, <1>2, <1>3

\* And so is a long.
LEMMA WriteTwoEvolves ==
    ASSUME NEW g \in Guests, NEW b \in Addr, NEW w \in Words
    PROVE  Evolves(g, WriteTwo(g, b, w)) /\ SameRegisters(g, WriteTwo(g, b, w))
<1> DEFINE h == Write(g, b, w)
           k == Write(h, Plus(b, 1), w)
<1>1. Evolves(g, h) /\ SameRegisters(g, h) /\ h \in Guests
  BY WriteEvolves DEF Evolves
<1>2. Plus(b, 1) \in Addr
  BY PlusIsAddress
<1> HIDE DEF h
<1>3. Evolves(h, k) /\ SameRegisters(h, k)
  BY <1>1, <1>2, WriteEvolves
<1> HIDE DEF k
<1>4. Evolves(g, k) /\ SameRegisters(g, k)
  BY <1>1, <1>3, EvolvesTransitive DEF SameRegisters
<1> QED BY <1>4 DEF WriteTwo, h, k

\* The registers hold what they are given.
LEMMA RegistersMayChange ==
    ASSUME NEW g \in Guests, NEW x \in Words, NEW b \in Addr
    PROVE  /\ [g EXCEPT !.d = x] \in Guests /\ SameMemory(g, [g EXCEPT !.d = x])
           /\ [g EXCEPT !.a = b] \in Guests /\ SameMemory(g, [g EXCEPT !.a = b])
           /\ [g EXCEPT !.d = x, !.a = b] \in Guests
           /\ SameMemory(g, [g EXCEPT !.d = x, !.a = b])
BY DEF Guests, SameMemory

\* What M68k::fetch changes.
LEMMA FetchKeeps ==
    ASSUME NEW g \in Guests
    PROVE  LET h == Fetch(g) IN
           /\ h \in Guests /\ SameMemory(g, h)
           /\ h.pc = Plus(g.pc, 1) /\ h.ir = g.irc /\ h.irc = View(g, g.pc)
           /\ h.d = g.d /\ h.a = g.a
<1>1. g.pc \in Addr /\ g.irc \in Words
  BY DEF Guests
<1>2. Plus(g.pc, 1) \in Addr /\ View(g, g.pc) \in Words
  BY <1>1, PlusIsAddress, ViewIsWord
<1> HIDE DEF Addr, Words
<1> QED BY <1>1, <1>2 DEF Fetch, Guests, SameMemory

\* What M68k::refillPrefetch changes.
LEMMA RefillKeeps ==
    ASSUME NEW g \in Guests, NEW b \in Addr
    PROVE  LET h == Refill(g, b) IN
           /\ h \in Guests /\ SameMemory(g, h)
           /\ h.pc = Plus(b, 2) /\ h.ir = View(g, b) /\ h.irc = View(g, Plus(b, 1))
           /\ h.d = g.d /\ h.a = g.a
<1>1. Plus(b, 2) \in Addr /\ Plus(b, 1) \in Addr
  BY PlusIsAddress
<1>2. View(g, b) \in Words /\ View(g, Plus(b, 1)) \in Words
  BY <1>1, ViewIsWord
<1> QED BY <1>1, <1>2 DEF Refill, Guests, SameMemory

\* A change of registers after a change of memory.
LEMMA SameMemoryEvolves ==
    ASSUME NEW g \in Guests, NEW h, Evolves(g, h), NEW k \in Guests, SameMemory(h, k)
    PROVE  Evolves(g, k)
<1>1. h \in Guests
  BY DEF Evolves
<1>2. Evolves(h, k)
  BY <1>1, SameMemoryShows
<1> QED BY <1>2, EvolvesTransitive

\* A refill after a change of memory.
LEMMA EvolvesThenRefill ==
    ASSUME NEW g \in Guests, NEW h, Evolves(g, h), NEW b \in Addr
    PROVE  Evolves(g, Refill(h, b))
<1>1. h \in Guests
  BY DEF Evolves
<1> QED BY <1>1, RefillKeeps, SameMemoryEvolves

\* The address register after a change of memory.
LEMMA EvolvesThenAddress ==
    ASSUME NEW g \in Guests, NEW h, Evolves(g, h), NEW b \in Addr
    PROVE  Evolves(g, [h EXCEPT !.a = b]) /\ [h EXCEPT !.a = b] \in Guests
<1>1. h \in Guests
  BY DEF Evolves
<1>2. Nothing \in Words
  BY Layout DEF Addr, Nothing, Word, Words
<1>3. [h EXCEPT !.a = b] \in Guests /\ SameMemory(h, [h EXCEPT !.a = b])
  BY <1>1, <1>2, RegistersMayChange
<1> QED BY <1>1, <1>3, SameMemoryEvolves

\* A return address is a word.
LEMMA PushedWord ==
    ASSUME NEW n \in Addr
    PROVE  Word("other", n) \in Words
BY DEF Word, Words

\* No instruction changes memory unnoticed.
LEMMA ExecuteEvolves ==
    ASSUME NEW g \in Guests, NEW w \in Words, NEW at \in Addr
    PROVE  Evolves(g, Execute(g, w, at))
<1>1. /\ g.pc \in Addr /\ g.a \in Addr /\ g.ir \in Words /\ g.d \in Words /\ w.n \in Addr
      /\ w.op \in {"imm", "lea", "load", "put", "store", "store2", "bne", "bsr", "rts", "other"}
  BY DEF Guests, Words
<1>2. /\ \A n \in {-1, 1, 2} : Plus(g.a, n) \in Addr
      /\ Plus(at, 1) \in Addr
  BY <1>1, PlusIsAddress
<1>3. \A b \in Addr : View(g, b) \in Words
  BY ViewIsWord
<1>4. Evolves(g, g)
  BY SameMemoryShows DEF SameMemory
<1>5. CASE w.op = "imm"
  <2> DEFINE h == [g EXCEPT !.d = g.ir]
  <2>1. h \in Guests /\ SameMemory(g, h)
    BY <1>1, RegistersMayChange
  <2> HIDE DEF h
  <2>2. Fetch(h) \in Guests /\ SameMemory(h, Fetch(h))
    BY <2>1, FetchKeeps
  <2>3. Evolves(g, Fetch(h))
    BY <2>1, <2>2, SameMemoryShows, SameMemoryEvolves
  <2> QED BY <1>5, <2>3 DEF Execute, h
<1>6. CASE w.op = "lea"
  <2>1. Evolves(g, [g EXCEPT !.a = w.n])
    BY <1>1, <1>4, EvolvesThenAddress
  <2> QED BY <1>6, <2>1 DEF Execute
<1>7. CASE w.op = "load"
  <2> DEFINE h == [g EXCEPT !.d = View(g, g.a), !.a = Plus(g.a, 1)]
  <2>1. h \in Guests /\ SameMemory(g, h)
    BY <1>1, <1>2, <1>3, RegistersMayChange
  <2> HIDE DEF h
  <2>2. Evolves(g, h)
    BY <2>1, SameMemoryShows
  <2> QED BY <1>7, <2>2 DEF Execute, h
<1>8. CASE w.op = "put"
  <2>1. Evolves(g, Write(g, w.n, g.d))
    BY <1>1, WriteEvolves
  <2> QED BY <1>8, <2>1 DEF Execute
<1>9. CASE w.op = "store"
  <2>1. Evolves(g, Write(g, g.a, g.d))
    BY <1>1, WriteEvolves
  <2>2. Evolves(g, [Write(g, g.a, g.d) EXCEPT !.a = Plus(g.a, 1)])
    BY <1>1, <1>2, <2>1, EvolvesThenAddress
  <2> QED BY <1>9, <2>2 DEF Execute
<1>10. CASE w.op = "store2"
  <2>1. Evolves(g, WriteTwo(g, g.a, g.d))
    BY <1>1, WriteTwoEvolves
  <2>2. Evolves(g, [WriteTwo(g, g.a, g.d) EXCEPT !.a = Plus(g.a, 2)])
    BY <1>1, <1>2, <2>1, EvolvesThenAddress
  <2> QED BY <1>10, <2>2 DEF Execute
<1>11. CASE w.op = "bne"
  <2>1. Evolves(g, Refill(g, w.n))
    BY <1>1, <1>4, EvolvesThenRefill
  <2> QED BY <1>11, <1>4, <2>1 DEF Execute
<1>12. CASE w.op = "bsr"
  <2> DEFINE sp == Plus(g.a, -1)
             pushed == Word("other", Plus(at, 1))
             h == [Write(g, sp, pushed) EXCEPT !.a = sp]
  <2>1. sp \in Addr /\ pushed \in Words
    BY <1>2, PushedWord
  <2>2. Execute(g, w, at) = Refill(h, w.n)
    BY <1>12 DEF Execute
  <2> HIDE DEF sp, pushed
  <2>3. Evolves(g, h)
    BY <2>1, WriteEvolves, EvolvesThenAddress
  <2> HIDE DEF h
  <2> QED BY <1>1, <2>2, <2>3, EvolvesThenRefill
<1>13. CASE w.op = "rts"
  <2> DEFINE h == [g EXCEPT !.a = Plus(g.a, 1)]
             b == View(g, g.a).n
  <2>1. b \in Addr
    BY <1>1, <1>3 DEF Words
  <2>2. Evolves(g, h)
    BY <1>2, <1>4, EvolvesThenAddress
  <2>3. Execute(g, w, at) = Refill(h, b)
    BY <1>13 DEF Execute
  <2> HIDE DEF h, b
  <2> QED BY <2>1, <2>2, <2>3, EvolvesThenRefill
<1>14. CASE w.op = "other"
  BY <1>4, <1>14 DEF Execute
<1> QED BY <1>1, <1>5, <1>6, <1>7, <1>8, <1>9, <1>10, <1>11, <1>12, <1>13, <1>14

\* Nor does a step of the interpreter,
LEMMA StepEvolves ==
    ASSUME NEW g \in Guests
    PROVE  Evolves(g, Step(g))
<1>1. g.ir \in Words /\ Here(g) \in Addr
  BY PlusIsAddress DEF Guests, Here
<1>2. Fetch(g) \in Guests /\ Evolves(g, Fetch(g))
  BY FetchKeeps, SameMemoryShows
<1>3. Evolves(Fetch(g), Step(g))
  BY <1>1, <1>2, ExecuteEvolves DEF Step
<1> QED BY <1>2, <1>3, EvolvesTransitive

\* an exception,
LEMMA InterruptedEvolves ==
    ASSUME NEW g \in Guests
    PROVE  Evolves(g, Interrupted(g))
<1> DEFINE sp == Plus(g.a, -1)
           pushed == Word("other", Here(g))
           h == [Write(g, sp, pushed) EXCEPT !.a = sp]
<1>1. sp \in Addr /\ pushed \in Words /\ Handler \in Addr
  BY PlusIsAddress, PushedWord, GuestAssumption DEF Guests, Here
<1>2. Interrupted(g) = Refill(h, Handler)
  BY DEF Interrupted
<1> HIDE DEF sp, pushed
<1>3. Evolves(g, h)
  BY <1>1, WriteEvolves, EvolvesThenAddress
<1> HIDE DEF h
<1> QED BY <1>1, <1>2, <1>3, EvolvesThenRefill

\* or a reset.
LEMMA ResetEvolves ==
    ASSUME NEW g \in Guests
    PROVE  Evolves(g, ResetGuest(g))
<1> DEFINE t == TouchAll(g)
           s == ShowRom(t, TRUE)
           h == [s EXCEPT !.d = Nothing, !.a = 0]
           b == RomPage * PageWords
<1>1. 0 \in Addr /\ Nothing \in Words /\ b \in Addr
  <2>1. 0 \in Addr /\ b \in Addr
    BY Layout DEF Addr, RomPage, RamWords
  <2> QED BY <2>1 DEF Nothing, Word, Words
<1>2. t \in Guests /\ t.epoch = g.epoch
  BY TouchAllKeeps
<1>3. s \in Guests /\ Evolves(t, s) /\ s.epoch = t.epoch + 1
      /\ \A p \in 0 .. RamPages - 1 : s.gen[p] = Count(t.gen[p])
  BY <1>2, ShowRomEvolves, ShowRomKeeps
<1>4. g.epoch \in Nat /\ \A p \in 0 .. RamPages - 1 :
           /\ g.gen[p] \in 0 .. AlwaysStale /\ t.gen[p] = Count(g.gen[p])
           /\ t.gen[p] \in 0 .. AlwaysStale
  BY <1>2, TouchAllKeeps DEF Guests
<1>5. ResetGuest(g) = Refill(h, b)
  BY DEF ResetGuest
<1> HIDE DEF t, s
<1>6. Evolves(g, s)
  <2>1. \A p \in 0 .. RamPages - 1 : t.gen[p] >= g.gen[p] /\ s.gen[p] >= t.gen[p]
    BY <1>3, <1>4, CountGrows
  <2>2. \A p \in 0 .. RamPages - 1 : s.gen[p] >= g.gen[p]
    <3>1. ASSUME NEW p \in 0 .. RamPages - 1
          PROVE  g.gen[p] \in Int /\ t.gen[p] \in Int /\ s.gen[p] \in Int
      <4>1. s.gen \in [0 .. RamPages - 1 -> 0 .. AlwaysStale]
        BY <1>3 DEF Guests
      <4> QED BY <4>1, <1>4, Layout
    <3> QED BY <2>1, <3>1
  <2>3. s.epoch > g.epoch /\ s.epoch >= g.epoch
    BY <1>2, <1>3, <1>4
  <2> QED BY <1>3, <2>2, <2>3, Zenon DEF Evolves
<1>7. h \in Guests /\ SameMemory(s, h)
  BY <1>1, <1>3, RegistersMayChange
<1> HIDE DEF h, b
<1>8. Evolves(g, h)
  BY <1>6, <1>7, SameMemoryEvolves
<1> QED BY <1>1, <1>5, <1>8, EvolvesThenRefill

Blocks ==
    [entry : Addr \ {0}, epoch : Nat, gen : 0 .. AlwaysStale, at : Seq(Addr), next : Addr,
     words : Seq(Words), kept : Int]

\* What the planner and the emitter guarantee of the i-th instruction of a block.
Translated(slot, i) ==
    LET w == Baked(slot, slot.at[i]) IN
    /\ slot.entry <= slot.at[i]
    /\ slot.at[i] + Length(w) = IF i = Len(slot.at) THEN slot.next ELSE slot.at[i + 1]
    /\ slot.at[i] + Length(w) <= slot.next
    /\ w.op # "other"
    /\ w.op = "put" => Page(w.n) # Page(slot.entry) /\ IsRam(w.n)

WellMade(slot) ==
    /\ slot \in Blocks
    /\ Len(slot.at) \in 1 .. MaxOps /\ slot.at[1] = slot.entry
    /\ slot.entry < slot.next /\ slot.next + 1 \in Addr
    /\ Page(slot.next + 1) = Page(slot.entry)
    /\ Len(slot.words) = slot.next + 2 - slot.entry
    /\ \A i \in 1 .. Len(slot.at) : Translated(slot, i)

\* The words of the block are what memory shows.
ShowsBlock(g, slot) ==
    \A k \in 1 .. Len(slot.words) : View(g, slot.entry + k - 1) = slot.words[k]

\* Memory that a block reads by its window is the RAM the guest sees.
WindowIsOpen(g, slot) ==
    \A i \in 1 .. Len(slot.at) :
        Baked(slot, slot.at[i]).op \in {"load", "rts"} => ~g.mapped

Ready(g, slot) == g \in Guests /\ ShowsBlock(g, slot) /\ WindowIsOpen(g, slot)

\* The same but for the prefetched words.
Alike(g, h) == SameMemory(g, h) /\ h.d = g.d /\ h.a = g.a

\* A guest is its memory and its registers.
LEMMA GuestsEqual ==
    ASSUME NEW g \in Guests, NEW h \in Guests, SameMemory(g, h), SameRegisters(g, h)
    PROVE  g = h
BY DEF Guests, SameMemory, SameRegisters

\* Guests alike show the same memory,
LEMMA AlikeShows ==
    ASSUME NEW g \in Guests, NEW h \in Guests, Alike(g, h)
    PROVE  \A b \in Addr : View(h, b) = View(g, b)
BY SameMemoryShows DEF Alike

\* and are the same once they have prefetched anew.
LEMMA RefillAlike ==
    ASSUME NEW g \in Guests, NEW h \in Guests, Alike(g, h), NEW b \in Addr
    PROVE  Refill(g, b) = Refill(h, b)
<1>1. \A c \in Addr : View(h, c) = View(g, c)
  BY AlikeShows
<1>2. Plus(b, 1) \in Addr
  BY PlusIsAddress
<1> DEFINE p == Refill(g, b)
           q == Refill(h, b)
<1>3. /\ p \in Guests /\ SameMemory(g, p)
      /\ p.pc = Plus(b, 2) /\ p.ir = View(g, b) /\ p.irc = View(g, Plus(b, 1))
      /\ p.d = g.d /\ p.a = g.a
  BY RefillKeeps
<1>4. /\ q \in Guests /\ SameMemory(h, q)
      /\ q.pc = Plus(b, 2) /\ q.ir = View(h, b) /\ q.irc = View(h, Plus(b, 1))
      /\ q.d = h.d /\ q.a = h.a
  BY RefillKeeps
<1> HIDE DEF p, q
<1>5. SameMemory(p, q) /\ SameRegisters(p, q)
  BY <1>1, <1>2, <1>3, <1>4 DEF Alike, SameMemory, SameRegisters
<1>6. p = q
  BY <1>3, <1>4, <1>5, GuestsEqual
<1> QED BY <1>6 DEF p, q

\* Every word of a block is on its page.
LEMMA BlockWords ==
    ASSUME NEW slot, WellMade(slot), NEW c \in Addr, slot.entry <= c, c <= slot.next + 1
    PROVE  /\ Page(c) = Page(slot.entry)
           /\ c - slot.entry + 1 \in 1 .. Len(slot.words)
           /\ Baked(slot, c) \in Words
           /\ \A g : ShowsBlock(g, slot) => View(g, c) = Baked(slot, c)
<1>1. slot.entry \in Addr /\ slot.next \in Addr /\ slot.words \in Seq(Words)
      /\ slot.next + 1 \in Addr
  BY DEF WellMade, Blocks
<1>2. Page(c) = Page(slot.entry)
  BY <1>1, BetweenOnPage DEF WellMade
<1>3. slot.entry \in Int /\ slot.next \in Int /\ c \in Int
  BY <1>1, PagesOfAddresses
<1>4. Len(slot.words) = slot.next + 2 - slot.entry
  BY DEF WellMade
<1> DEFINE k == c - slot.entry + 1
<1>5. k \in 1 .. Len(slot.words) /\ slot.entry + k - 1 = c
  BY <1>3, <1>4
<1>6. Baked(slot, c) = slot.words[k]
  BY DEF Baked
<1>7. \A g : ShowsBlock(g, slot) => View(g, c) = Baked(slot, c)
  <2> HIDE DEF k
  <2>1. ASSUME NEW g, ShowsBlock(g, slot) PROVE View(g, c) = slot.words[k]
    <3>1. View(g, slot.entry + k - 1) = slot.words[k]
      BY <1>5, <2>1 DEF ShowsBlock
    <3> QED BY <3>1, <1>5
  <2> QED BY <1>6, <2>1
<1>8. Baked(slot, c) \in Words
  <2> HIDE DEF k
  <2> QED BY <1>1, <1>5, <1>6
<1> QED BY <1>2, <1>5, <1>7, <1>8

\* A boundary of a block: the prefetched words are baked, the rest is as it was.
LEMMA BoundaryKeeps ==
    ASSUME NEW slot, WellMade(slot), NEW g \in Guests,
           NEW c \in Addr, slot.entry <= c, c <= slot.next
    PROVE  LET h == Boundary(g, slot, c) IN
           /\ h \in Guests /\ Alike(g, h)
           /\ c + 1 \in Addr
           /\ h.pc = Plus(c, 2) /\ h.ir = Baked(slot, c) /\ h.irc = Baked(slot, c + 1)
<1>1. slot.entry \in Addr /\ slot.next \in Addr /\ slot.next + 1 \in Addr
  BY DEF WellMade, Blocks
<1>2. c + 1 \in Addr
  BY <1>1, Layout DEF Addr
<1>3. c <= slot.next + 1 /\ c + 1 <= slot.next + 1 /\ slot.entry <= c + 1
  BY <1>1, PagesOfAddresses
<1>4. Baked(slot, c) \in Words /\ Baked(slot, c + 1) \in Words
  BY <1>2, <1>3, BlockWords
<1>5. Plus(c, 2) \in Addr
  BY PlusIsAddress
<1> HIDE DEF Addr, Words
<1> QED BY <1>2, <1>4, <1>5 DEF Boundary, Guests, Alike, SameMemory

\* Guests alike are the same on a boundary.
LEMMA BoundaryAlike ==
    ASSUME NEW slot, WellMade(slot), NEW g \in Guests, NEW h \in Guests, Alike(g, h),
           NEW c \in Addr, slot.entry <= c, c <= slot.next
    PROVE  Boundary(g, slot, c) = Boundary(h, slot, c)
<1> DEFINE p == Boundary(g, slot, c)
           q == Boundary(h, slot, c)
<1>1. /\ p \in Guests /\ Alike(g, p)
      /\ p.pc = Plus(c, 2) /\ p.ir = Baked(slot, c) /\ p.irc = Baked(slot, c + 1)
  BY BoundaryKeeps
<1>2. /\ q \in Guests /\ Alike(h, q)
      /\ q.pc = Plus(c, 2) /\ q.ir = Baked(slot, c) /\ q.irc = Baked(slot, c + 1)
  BY BoundaryKeeps
<1> HIDE DEF p, q
<1>3. SameMemory(p, q) /\ SameRegisters(p, q)
  BY <1>1, <1>2 DEF Alike, SameMemory, SameRegisters
<1>4. p = q
  BY <1>1, <1>2, <1>3, GuestsEqual
<1> QED BY <1>4 DEF p, q

\* Fetching moves a boundary on by a word.
LEMMA FetchOnBoundary ==
    ASSUME NEW slot, WellMade(slot), NEW g \in Guests, ShowsBlock(g, slot),
           NEW c \in Addr, slot.entry <= c, c < slot.next
    PROVE  Fetch(Boundary(g, slot, c)) = Boundary(g, slot, c + 1)
<1>1. slot.entry \in Addr /\ slot.next \in Addr /\ slot.next + 1 \in Addr
  BY DEF WellMade, Blocks
<1>2. c + 1 \in Addr /\ c + 2 \in Addr /\ slot.entry <= c + 1 /\ c + 1 <= slot.next
      /\ slot.entry <= c + 2 /\ c + 2 <= slot.next + 1 /\ c <= slot.next
  BY <1>1, Layout DEF Addr
<1> DEFINE b == Boundary(g, slot, c)
           p == Fetch(b)
           q == Boundary(g, slot, c + 1)
<1>3. /\ b \in Guests /\ Alike(g, b)
      /\ b.pc = Plus(c, 2) /\ b.ir = Baked(slot, c) /\ b.irc = Baked(slot, c + 1)
  BY <1>2, BoundaryKeeps
<1> HIDE DEF b
<1>4. /\ p \in Guests /\ SameMemory(b, p) /\ p.d = b.d /\ p.a = b.a
      /\ p.pc = Plus(b.pc, 1) /\ p.ir = b.irc /\ p.irc = View(b, b.pc)
  BY <1>3, FetchKeeps
<1>5. /\ q \in Guests /\ Alike(g, q)
      /\ q.pc = Plus(c + 1, 2) /\ q.ir = Baked(slot, c + 1) /\ q.irc = Baked(slot, (c + 1) + 1)
  BY <1>2, BoundaryKeeps
<1> HIDE DEF p, q
<1>6. Plus(c, 2) = c + 2
  BY <1>2, PlusIsAddress
<1>7. Plus(c + 2, 1) = Plus(c + 1, 2)
  <2>1. Plus(c, 1) = c + 1
    BY <1>2, PlusIsAddress
  <2>2. (c + 2) + 1 = (c + 1) + 2
    BY <1>1, PagesOfAddresses
  <2> QED BY <2>2 DEF Plus
<1>8. View(b, c + 2) = Baked(slot, c + 2)
  <2>1. View(b, c + 2) = View(g, c + 2)
    BY <1>2, <1>3, AlikeShows
  <2>2. View(g, c + 2) = Baked(slot, c + 2)
    BY <1>2, BlockWords
  <2> QED BY <2>1, <2>2
<1>9. (c + 1) + 1 = c + 2
  BY PagesOfAddresses
<1>10. SameMemory(p, q) /\ SameRegisters(p, q)
  BY <1>3, <1>4, <1>5, <1>6, <1>7, <1>8, <1>9 DEF Alike, SameMemory, SameRegisters
<1>11. p = q
  BY <1>4, <1>5, <1>10, GuestsEqual
<1> QED BY <1>11 DEF p, q, b

\* Two functions are equal when their values are.
LEMMA SameFunction ==
    ASSUME NEW S, NEW R, NEW x \in [S -> R], NEW y \in [S -> R], \A p \in S : x[p] = y[p]
    PROVE  x = y
OBVIOUS

\* A store off the block's page: native code and the interpreter do the same, and the
\* block's words stay.
LEMMA StoreBeside ==
    ASSUME NEW slot, WellMade(slot), NEW g \in Guests, ShowsBlock(g, slot),
           NEW f \in Guests, Alike(g, f), NEW b \in Addr, IsRam(b),
           Page(b) # Page(slot.entry), NEW w \in Words
    PROVE  LET h == NativeStore(g, b, w) IN
           /\ h \in Guests /\ Alike(h, Write(f, b, w)) /\ SameRegisters(g, h)
           /\ Write(f, b, w) \in Guests /\ SameRegisters(f, Write(f, b, w))
           /\ ShowsBlock(h, slot) /\ h.mapped = g.mapped /\ Evolves(g, h)
<1> DEFINE h == NativeStore(g, b, w)
           k == Write(f, b, w)
<1>1. /\ h \in Guests /\ SameRegisters(g, h) /\ h.ram = [g.ram EXCEPT ![b + 1] = w]
      /\ h.mapped = g.mapped /\ h.epoch = g.epoch
      /\ \A p \in 0 .. RamPages - 1 :
                h.gen[p] = IF p = Page(b) THEN Count(g.gen[p]) ELSE g.gen[p]
      /\ h = Write(g, b, w)
  BY WriteToRam
<1>2. /\ k \in Guests /\ SameRegisters(f, k) /\ k.ram = [f.ram EXCEPT ![b + 1] = w]
      /\ k.mapped = f.mapped /\ k.epoch = f.epoch
      /\ \A p \in 0 .. RamPages - 1 :
                k.gen[p] = IF p = Page(b) THEN Count(f.gen[p]) ELSE f.gen[p]
  BY WriteToRam
<1>3. \A c \in Addr : c # b => View(h, c) = View(g, c)
  BY <1>1, StoreShows
<1>4. Evolves(g, h)
  BY <1>1, WriteEvolves
<1> HIDE DEF h, k
<1>5. h.gen \in [0 .. RamPages - 1 -> 0 .. AlwaysStale]
      /\ k.gen \in [0 .. RamPages - 1 -> 0 .. AlwaysStale]
  BY <1>1, <1>2 DEF Guests
<1>6. h.gen = k.gen
  <2>1. \A p \in 0 .. RamPages - 1 : h.gen[p] = k.gen[p]
    BY <1>1, <1>2 DEF Alike, SameMemory
  <2> DEFINE S == 0 .. RamPages - 1
             R == 0 .. AlwaysStale
             x == h.gen
             y == k.gen
  <2>2. x \in [S -> R] /\ y \in [S -> R] /\ \A p \in S : x[p] = y[p]
    BY <1>5, <2>1
  <2> HIDE DEF x, y, S, R
  <2>3. x = y
    BY <2>2, SameFunction
  <2> QED BY <2>3 DEF x, y
<1>7. Alike(h, k)
  BY <1>1, <1>2, <1>6 DEF Alike, SameMemory, SameRegisters
<1>8. ShowsBlock(h, slot)
  <2> SUFFICES ASSUME NEW i \in 1 .. Len(slot.words)
               PROVE  View(h, slot.entry + i - 1) = slot.words[i]
    BY DEF ShowsBlock
  <2> DEFINE c == slot.entry + i - 1
  <2>1. slot.entry \in Nat /\ slot.next + 1 \in Nat /\ slot.next \in Nat
        /\ slot.next + 1 < Size /\ Len(slot.words) = slot.next + 2 - slot.entry
    BY PagesOfAddresses DEF WellMade, Blocks
  <2>2. c \in Addr /\ slot.entry <= c /\ c <= slot.next + 1
    BY <2>1, Layout DEF Addr
  <2>3. View(g, c) = slot.words[i]
    BY DEF ShowsBlock
  <2> HIDE DEF c
  <2>4. Page(c) = Page(slot.entry)
    BY <2>2, BlockWords
  <2>5. View(h, c) = View(g, c)
    BY <1>3, <2>2, <2>4
  <2> QED BY <2>3, <2>5 DEF c
<1> QED BY <1>1, <1>2, <1>4, <1>7, <1>8 DEF h, k

\* Where an access in the window goes.
LEMMA WindowIsRam ==
    ASSUME NEW b \in Addr, NEW size \in 1 .. 2, InWindow(b, size)
    PROVE  /\ IsRam(b) /\ b + size - 1 \in Addr /\ IsRam(b + size - 1)
           /\ b + 1 \in 1 .. RamPages * PageWords
<1>1. b \in Nat /\ b + size <= RamWords
  BY PagesOfAddresses DEF InWindow, RamWords
<1>2. b + size - 1 \in Addr /\ b < RamWords /\ b + size - 1 < RamWords
  BY <1>1, Layout DEF Addr
<1>3. IsRam(b) /\ IsRam(b + size - 1)
  BY <1>2, PagesOfAddresses
<1> QED BY <1>1, <1>2, <1>3, Layout DEF RamWords

\* What is known before the i-th instruction of a block.
LEMMA InstructionOfBlock ==
    ASSUME NEW slot, WellMade(slot), NEW i \in 1 .. Len(slot.at)
    PROVE  LET c == slot.at[i]
               w == Baked(slot, c)
           IN  /\ c \in Addr /\ c + 1 \in Addr /\ slot.entry <= c /\ c < slot.next
               /\ w \in Words /\ w.op # "other" /\ c + Length(w) <= slot.next
               /\ Length(w) \in 1 .. 2 /\ c + Length(w) \in Addr
               /\ Baked(slot, c + 1) \in Words
               /\ w.op = "put" => Page(w.n) # Page(slot.entry) /\ IsRam(w.n)
<1> DEFINE c == slot.at[i]
           w == Baked(slot, c)
<1>1. /\ c \in Addr /\ slot.entry \in Addr /\ slot.next \in Addr
  BY DEF WellMade, Blocks
<1>2. Translated(slot, i)
  BY DEF WellMade
<1>3. /\ slot.entry <= c /\ w.op # "other" /\ c + Length(w) <= slot.next
      /\ w.op = "put" => Page(w.n) # Page(slot.entry) /\ IsRam(w.n)
  BY <1>2 DEF Translated
<1>4. Length(w) \in 1 .. 2
  BY DEF Length
<1> HIDE DEF c, w
<1>5. c < slot.next /\ c + Length(w) \in Addr /\ c + 1 \in Addr
      /\ c <= slot.next + 1 /\ c + 1 <= slot.next + 1 /\ slot.entry <= c + 1
  BY <1>1, <1>3, <1>4, Layout DEF Addr
<1>6. Baked(slot, c) \in Words /\ Baked(slot, c + 1) \in Words
  BY <1>1, <1>3, <1>5, BlockWords
<1> QED BY <1>1, <1>3, <1>4, <1>5, <1>6 DEF c, w

\* The instruction at c does in native code what it does in the interpreter.
DoesTheSame(g, slot, c) ==
    LET w == Baked(slot, c)
        exit == Exit(g, slot, w)
        native == NativeEffect(g, slot, c)
        stepped == Step(Boundary(g, slot, c))
    IN  /\ exit \in {"none", "taken", "guard", "self"}
        /\ exit \in {"none", "taken"} => Ready(native, slot) /\ Evolves(g, native)
        /\ exit = "none" => stepped = Boundary(native, slot, c + Length(w))
        /\ exit = "taken" => Target(g, w) \in Addr /\ stepped = Refill(native, Target(g, w))

\* To be alike and to hold the baked words is to be on the boundary.
LEMMA StaysOnBoundary ==
    ASSUME NEW slot, WellMade(slot), NEW c \in Addr, slot.entry <= c, c <= slot.next,
           NEW h \in Guests, NEW k \in Guests, Alike(h, k),
           k.pc = Plus(c, 2), k.ir = Baked(slot, c), k.irc = Baked(slot, c + 1)
    PROVE  k = Boundary(h, slot, c)
<1> DEFINE p == Boundary(h, slot, c)
<1>1. /\ p \in Guests /\ Alike(h, p)
      /\ p.pc = Plus(c, 2) /\ p.ir = Baked(slot, c) /\ p.irc = Baked(slot, c + 1)
  BY BoundaryKeeps
<1> HIDE DEF p
<1>2. SameMemory(k, p) /\ SameRegisters(k, p)
  BY <1>1 DEF Alike, SameMemory, SameRegisters
<1>3. k = p
  BY <1>1, <1>2, GuestsEqual
<1> QED BY <1>3 DEF p

\* The interpreter at the i-th instruction, once it has fetched.
LEMMA StepOnBoundary ==
    ASSUME NEW slot, WellMade(slot), NEW g \in Guests, ShowsBlock(g, slot),
           NEW i \in 1 .. Len(slot.at)
    PROVE  LET c == slot.at[i]
               f == Boundary(g, slot, c + 1)
           IN  /\ Step(Boundary(g, slot, c)) = Execute(f, Baked(slot, c), c)
               /\ f \in Guests /\ Alike(g, f) /\ f.pc = Plus(c + 1, 2)
               /\ f.ir = Baked(slot, c + 1) /\ f.irc = Baked(slot, (c + 1) + 1)
<1> DEFINE c == slot.at[i]
           b == Boundary(g, slot, c)
           f == Boundary(g, slot, c + 1)
<1>1. c \in Addr /\ c + 1 \in Addr /\ slot.entry <= c /\ c < slot.next
  BY InstructionOfBlock
<1> HIDE DEF c
<1>2. slot.entry <= c + 1 /\ c + 1 <= slot.next /\ c <= slot.next
  <2>1. slot.entry \in Addr /\ slot.next \in Addr
    BY DEF WellMade, Blocks
  <2>2. slot.entry \in Nat /\ slot.next \in Nat /\ c \in Nat
    BY <2>1, <1>1, PagesOfAddresses
  <2> QED BY <1>1, <2>2
<1>3. Fetch(b) = f
  BY <1>1, FetchOnBoundary
<1>4. b.pc = Plus(c, 2) /\ b.ir = Baked(slot, c)
  BY <1>1, <1>2, BoundaryKeeps
<1>5. /\ f \in Guests /\ Alike(g, f) /\ f.pc = Plus(c + 1, 2)
      /\ f.ir = Baked(slot, c + 1) /\ f.irc = Baked(slot, (c + 1) + 1)
  BY <1>1, <1>2, BoundaryKeeps
<1> HIDE DEF b, f
<1>6. Here(b) = c
  BY <1>1, <1>4, PlusBack DEF Here
<1>7. Step(b) = Execute(f, Baked(slot, c), c)
  BY <1>3, <1>4, <1>6 DEF Step
<1> QED BY <1>5, <1>7 DEF b, c, f

\* A change of registers leaves the block ready.
LEMMA StillReady ==
    ASSUME NEW slot, WellMade(slot), NEW g, Ready(g, slot), NEW h \in Guests, SameMemory(g, h)
    PROVE  Ready(h, slot) /\ Evolves(g, h)
<1>1. g \in Guests /\ \A b \in Addr : View(h, b) = View(g, b)
  BY SameMemoryShows DEF Ready
<1>2. ShowsBlock(h, slot)
  <2> SUFFICES ASSUME NEW k \in 1 .. Len(slot.words)
               PROVE  View(h, slot.entry + k - 1) = slot.words[k]
    BY DEF ShowsBlock
  <2>1. slot.entry \in Nat /\ slot.next + 1 \in Nat /\ slot.next \in Nat
        /\ slot.next + 1 < Size /\ Len(slot.words) = slot.next + 2 - slot.entry
    BY PagesOfAddresses DEF WellMade, Blocks
  <2>3. k \in 1 .. slot.next + 2 - slot.entry
    BY <2>1
  <2>2. slot.entry + k - 1 \in Addr
    <3> DEFINE e == slot.entry
               n == slot.next
    <3>1. e \in Nat /\ n \in Nat /\ n + 1 < Size /\ k \in 1 .. n + 2 - e /\ Size \in Nat
      BY <2>1, <2>3, Layout
    <3> HIDE DEF e, n
    <3>2. e + k - 1 \in 0 .. Size - 1
      BY <3>1
    <3> QED BY <3>2 DEF e, Addr
  <2> QED BY <1>1, <2>2 DEF Ready, ShowsBlock
<1>3. Evolves(g, h)
  BY <1>1, SameMemoryShows
<1> QED BY <1>2, <1>3 DEF Ready, WindowIsOpen, SameMemory

\* Instructions that change registers only.
LEMMA RegisterInstructions ==
    ASSUME NEW slot, WellMade(slot), NEW g, Ready(g, slot), NEW i \in 1 .. Len(slot.at),
           Baked(slot, slot.at[i]).op \in {"imm", "lea", "load"}
    PROVE  DoesTheSame(g, slot, slot.at[i])
<1> DEFINE c == slot.at[i]
           w == Baked(slot, c)
           f == Boundary(g, slot, c + 1)
           h == NativeEffect(g, slot, c)
           s == Step(Boundary(g, slot, c))
<1>1. /\ c \in Addr /\ c + 1 \in Addr /\ slot.entry <= c /\ c < slot.next
      /\ w \in Words /\ c + Length(w) <= slot.next /\ c + Length(w) \in Addr
      /\ Baked(slot, c + 1) \in Words
  BY InstructionOfBlock
<1>2. g \in Guests /\ ShowsBlock(g, slot)
  BY DEF Ready
<1>3. /\ s = Execute(f, w, c)
      /\ f \in Guests /\ Alike(g, f) /\ f.pc = Plus(c + 1, 2)
      /\ f.ir = Baked(slot, c + 1) /\ f.irc = Baked(slot, (c + 1) + 1)
  BY <1>2, StepOnBoundary
<1>4. w.op = "load" => ~g.mapped
  BY DEF Ready, WindowIsOpen
<1>5. w.op \in {"imm", "lea", "load"}
  OBVIOUS
<1>6. slot.entry \in Nat /\ slot.next \in Nat /\ c \in Nat /\ slot.next \in Addr
  BY <1>1, PagesOfAddresses DEF WellMade, Blocks
<1> HIDE DEF c, w, f, s
<1>7. slot.entry <= c + 1 /\ c + 1 <= slot.next
  BY <1>1, <1>6
<1>8. g.a \in Addr /\ g.d \in Words /\ w.n \in Addr /\ Plus(g.a, 1) \in Addr
      /\ f.a = g.a /\ f.d = g.d
  BY <1>1, <1>2, <1>3, PlusIsAddress DEF Guests, Words, Alike
<1>9. CASE w.op = "imm"
  <2> DEFINE x == Baked(slot, c + 1)
             k == [f EXCEPT !.d = x]
  <2>1. h = [g EXCEPT !.d = x]
    BY <1>9 DEF NativeEffect, w
  <2>2. s = Fetch(k)
    BY <1>3, <1>9 DEF Execute
  <2>3. Exit(g, slot, w) \in {"none", "guard"}
    BY <1>9 DEF Exit, Guarded
  <2>4. Length(w) = 2
    BY <1>9 DEF Length
  <2> HIDE DEF h, x
  <2>5. x \in Words
    BY <1>1 DEF x
  <2>6. h \in Guests /\ SameMemory(g, h) /\ h.d = x /\ h.a = g.a
    BY <1>2, <1>8, <2>1, <2>5, RegistersMayChange DEF Guests
  <2>7. /\ k \in Guests /\ SameMemory(f, k) /\ k.d = x /\ k.a = f.a
        /\ k.pc = f.pc /\ k.ir = f.ir /\ k.irc = f.irc
    BY <1>3, <1>8, <2>5, RegistersMayChange DEF Guests
  <2> HIDE DEF k
  <2>8. Alike(h, k)
    BY <1>3, <1>8, <2>6, <2>7 DEF Alike, SameMemory
  <2>9. k = Boundary(h, slot, c + 1)
    BY <1>1, <1>3, <1>7, <2>6, <2>7, <2>8, StaysOnBoundary
  <2>10. Ready(h, slot) /\ Evolves(g, h)
    BY <2>6, StillReady
  <2>11. c + 1 < slot.next
    BY <1>1, <1>6, <2>4
  <2>12. s = Boundary(h, slot, (c + 1) + 1)
    BY <1>1, <1>7, <2>2, <2>6, <2>9, <2>10, <2>11, FetchOnBoundary DEF Ready
  <2>13. (c + 1) + 1 = c + Length(w)
    BY <1>6, <2>4
  <2> QED BY <2>3, <2>10, <2>12, <2>13 DEF DoesTheSame, h, s, w, c
<1>10. CASE w.op = "lea"
  <2> DEFINE k == [f EXCEPT !.a = w.n]
  <2>1. h = [g EXCEPT !.a = w.n]
    BY <1>10 DEF NativeEffect, w
  <2>2. s = k
    BY <1>3, <1>10 DEF Execute
  <2>3. Exit(g, slot, w) \in {"none", "guard"}
    BY <1>10 DEF Exit, Guarded
  <2>4. Length(w) = 1
    BY <1>10 DEF Length
  <2> HIDE DEF h
  <2>6. h \in Guests /\ SameMemory(g, h) /\ h.d = g.d /\ h.a = w.n
    BY <1>2, <1>8, <2>1, RegistersMayChange DEF Guests
  <2>7. /\ k \in Guests /\ SameMemory(f, k) /\ k.d = f.d /\ k.a = w.n
        /\ k.pc = f.pc /\ k.ir = f.ir /\ k.irc = f.irc
    BY <1>3, <1>8, RegistersMayChange DEF Guests
  <2> HIDE DEF k
  <2>8. Alike(h, k)
    BY <1>3, <1>8, <2>6, <2>7 DEF Alike, SameMemory
  <2>9. k = Boundary(h, slot, c + 1)
    BY <1>1, <1>3, <1>7, <2>6, <2>7, <2>8, StaysOnBoundary
  <2>10. Ready(h, slot) /\ Evolves(g, h)
    BY <2>6, StillReady
  <2> QED BY <2>2, <2>3, <2>4, <2>9, <2>10 DEF DoesTheSame, h, s, w, c
<1>11. CASE w.op = "load"
  <2> DEFINE x == g.ram[g.a + 1]
             k == [f EXCEPT !.d = View(f, f.a), !.a = Plus(f.a, 1)]
  <2>1. h = [g EXCEPT !.d = x, !.a = Plus(g.a, 1)]
    BY <1>11 DEF NativeEffect, w
  <2>2. s = k
    BY <1>3, <1>11 DEF Execute
  <2>3. Exit(g, slot, w) = IF InWindow(g.a, 1) THEN "none" ELSE "guard"
    BY <1>11 DEF Exit, Guarded
  <2>4. Length(w) = 1
    BY <1>11 DEF Length
  <2>5. CASE InWindow(g.a, 1)
    <3>1. IsRam(g.a) /\ g.a + 1 \in 1 .. RamPages * PageWords
      BY <1>8, <2>5, WindowIsRam
    <3>2. x = View(g, g.a)
      BY <1>2, <1>4, <1>8, <1>11, <3>1, ViewOfRam
    <3>3. View(f, f.a) = x
      BY <1>2, <1>3, <1>8, <3>2, AlikeShows
    <3>4. x \in Words
      BY <1>2, <1>8, <3>2, ViewIsWord
    <3> HIDE DEF h, x
    <3>6. h \in Guests /\ SameMemory(g, h) /\ h.d = x /\ h.a = Plus(g.a, 1)
      BY <1>2, <1>8, <2>1, <3>4, RegistersMayChange DEF Guests
    <3>7. /\ k \in Guests /\ SameMemory(f, k) /\ k.d = x /\ k.a = Plus(g.a, 1)
          /\ k.pc = f.pc /\ k.ir = f.ir /\ k.irc = f.irc
      BY <1>3, <1>8, <3>3, <3>4, RegistersMayChange DEF Guests
    <3> HIDE DEF k
    <3>8. Alike(h, k)
      BY <1>3, <1>8, <3>6, <3>7 DEF Alike, SameMemory
    <3>9. k = Boundary(h, slot, c + 1)
      BY <1>1, <1>3, <1>7, <3>6, <3>7, <3>8, StaysOnBoundary
    <3>10. Ready(h, slot) /\ Evolves(g, h)
      BY <3>6, StillReady
    <3> QED BY <2>2, <2>3, <2>4, <2>5, <3>9, <3>10 DEF DoesTheSame, h, s, w, c
  <2>6. CASE ~InWindow(g.a, 1)
    BY <2>3, <2>6 DEF DoesTheSame, w, c
  <2> QED BY <2>5, <2>6
<1> QED BY <1>5, <1>9, <1>10, <1>11 DEF c

LEMMA AlikeIsTransitive ==
    ASSUME NEW g, NEW h, NEW k, Alike(g, h), Alike(h, k)
    PROVE  Alike(g, k)
BY DEF Alike, SameMemory

\* The address register is set.
LEMMA AddressSet ==
    ASSUME NEW g \in Guests, NEW b \in Addr
    PROVE  LET h == [g EXCEPT !.a = b] IN
           /\ h \in Guests /\ SameMemory(g, h) /\ h.a = b /\ h.d = g.d
           /\ h.pc = g.pc /\ h.ir = g.ir /\ h.irc = g.irc
BY DEF Guests, SameMemory

\* Two guests alike, their address registers set alike.
LEMMA AddressSetAlike ==
    ASSUME NEW g \in Guests, NEW h \in Guests, Alike(g, h), NEW b \in Addr
    PROVE  Alike([g EXCEPT !.a = b], [h EXCEPT !.a = b])
<1> DEFINE p == [g EXCEPT !.a = b]
           q == [h EXCEPT !.a = b]
<1>1. SameMemory(g, p) /\ p.a = b /\ p.d = g.d
  BY AddressSet
<1>2. SameMemory(h, q) /\ q.a = b /\ q.d = h.d
  BY AddressSet
<1> HIDE DEF p, q
<1>3. Alike(p, q)
  BY <1>1, <1>2 DEF Alike, SameMemory
<1> QED BY <1>3 DEF p, q

\* A store off the block's page, in native code and by the interpreter.
LEMMA StoresBeside ==
    ASSUME NEW slot, WellMade(slot), NEW g, Ready(g, slot),
           NEW f \in Guests, Alike(g, f), NEW b \in Addr, IsRam(b),
           Page(b) # Page(slot.entry), NEW x \in Words
    PROVE  LET h == NativeStore(g, b, x)
               k == Write(f, b, x)
           IN  /\ Ready(h, slot) /\ Evolves(g, h) /\ k \in Guests /\ Alike(h, k)
               /\ h.a = g.a /\ h.d = g.d
               /\ k.pc = f.pc /\ k.ir = f.ir /\ k.irc = f.irc
<1> DEFINE h == NativeStore(g, b, x)
           k == Write(f, b, x)
<1>1. g \in Guests /\ ShowsBlock(g, slot)
  BY DEF Ready
<1>2. /\ h \in Guests /\ Alike(h, k) /\ SameRegisters(g, h)
      /\ k \in Guests /\ SameRegisters(f, k)
      /\ ShowsBlock(h, slot) /\ h.mapped = g.mapped /\ Evolves(g, h)
  BY <1>1, StoreBeside
<1> HIDE DEF h, k
<1>3. Ready(h, slot)
  BY <1>2 DEF Ready, WindowIsOpen
<1> QED BY <1>2, <1>3 DEF h, k, SameRegisters

\* The address register moves on after it.
LEMMA AddressAfter ==
    ASSUME NEW slot, WellMade(slot), NEW g \in Guests, NEW h, Ready(h, slot), Evolves(g, h),
           NEW k \in Guests, Alike(h, k), NEW e \in Addr
    PROVE  LET h2 == [h EXCEPT !.a = e]
               k2 == [k EXCEPT !.a = e]
           IN  /\ Ready(h2, slot) /\ Evolves(g, h2) /\ k2 \in Guests /\ Alike(h2, k2)
               /\ k2.pc = k.pc /\ k2.ir = k.ir /\ k2.irc = k.irc
<1> DEFINE h2 == [h EXCEPT !.a = e]
           k2 == [k EXCEPT !.a = e]
<1>1. h \in Guests
  BY DEF Ready
<1>4. h2 \in Guests /\ SameMemory(h, h2)
  BY <1>1, AddressSet
<1>5. k2 \in Guests /\ k2.pc = k.pc /\ k2.ir = k.ir /\ k2.irc = k.irc
  BY AddressSet
<1>6. Alike(h2, k2)
  BY <1>1, AddressSetAlike
<1> HIDE DEF h2, k2
<1>7. Ready(h2, slot) /\ Evolves(h, h2)
  BY <1>4, StillReady
<1>8. Evolves(g, h2)
  BY <1>7, EvolvesTransitive
<1> QED BY <1>5, <1>6, <1>7, <1>8 DEF h2, k2

\* Instructions that store, behind the guards of the emitter.
LEMMA StoreInstructions ==
    ASSUME NEW slot, WellMade(slot), NEW g, Ready(g, slot), NEW i \in 1 .. Len(slot.at),
           Baked(slot, slot.at[i]).op \in {"put", "store", "store2"}
    PROVE  DoesTheSame(g, slot, slot.at[i])
<1> DEFINE c == slot.at[i]
           w == Baked(slot, c)
           f == Boundary(g, slot, c + 1)
           h == NativeEffect(g, slot, c)
           s == Step(Boundary(g, slot, c))
<1>1. /\ c \in Addr /\ c + 1 \in Addr /\ slot.entry <= c /\ c < slot.next
      /\ w \in Words
      /\ w.op = "put" => Page(w.n) # Page(slot.entry) /\ IsRam(w.n)
  BY InstructionOfBlock
<1>2. g \in Guests
  BY DEF Ready
<1>3. /\ s = Execute(f, w, c)
      /\ f \in Guests /\ Alike(g, f) /\ f.pc = Plus(c + 1, 2)
      /\ f.ir = Baked(slot, c + 1) /\ f.irc = Baked(slot, (c + 1) + 1)
  BY StepOnBoundary DEF Ready
<1>5. w.op \in {"put", "store", "store2"}
  OBVIOUS
<1>6. slot.entry \in Nat /\ slot.next \in Nat /\ c \in Nat /\ slot.next \in Addr
  BY <1>1, PagesOfAddresses DEF WellMade, Blocks
<1> HIDE DEF c, w, f, s
<1>7. slot.entry <= c + 1 /\ c + 1 <= slot.next
  BY <1>1, <1>6
<1>8. g.a \in Addr /\ g.d \in Words /\ w.n \in Addr /\ Plus(g.a, 1) \in Addr
      /\ Plus(g.a, 2) \in Addr /\ f.a = g.a /\ f.d = g.d
  BY <1>1, <1>2, <1>3, PlusIsAddress DEF Guests, Words, Alike
<1>9. Length(w) = 1
  BY <1>5 DEF Length
\* What is left to show of each: the two results agree but for the prefetched words.
<1>10. ASSUME NEW k \in Guests, s = k, Ready(h, slot), Evolves(g, h), Alike(h, k),
              k.pc = f.pc, k.ir = f.ir, k.irc = f.irc,
              Exit(g, slot, w) \in {"none", "guard", "self"}
       PROVE  DoesTheSame(g, slot, slot.at[i])
  <2>1. h \in Guests
    BY <1>10 DEF Ready
  <2>2. k = Boundary(h, slot, c + 1)
    BY <1>1, <1>3, <1>7, <1>10, <2>1, StaysOnBoundary
  <2> QED BY <1>9, <1>10, <2>2 DEF DoesTheSame, h, s, w, c
<1>11. ASSUME Exit(g, slot, w) \in {"guard", "self"} PROVE DoesTheSame(g, slot, slot.at[i])
  BY <1>11 DEF DoesTheSame, w, c
<1>12. CASE w.op = "put"
  <2>1. h = NativeStore(g, w.n, g.d)
    BY <1>12 DEF NativeEffect, w
  <2>2. s = Write(f, w.n, g.d)
    BY <1>3, <1>8, <1>12 DEF Execute
  <2>3. Exit(g, slot, w) \in {"none", "guard"}
    BY <1>12 DEF Exit, Guarded
  <2> DEFINE k == Write(f, w.n, g.d)
  <2>4. /\ Ready(h, slot) /\ Evolves(g, h) /\ k \in Guests /\ Alike(h, k)
        /\ k.pc = f.pc /\ k.ir = f.ir /\ k.irc = f.irc
    <3>1. IsRam(w.n) /\ Page(w.n) # Page(slot.entry) /\ w.n \in Addr /\ g.d \in Words
      BY <1>1, <1>8, <1>12
    <3> QED BY <1>3, <2>1, <3>1, StoresBeside
  <2> HIDE DEF k, h
  <2> QED BY <1>10, <2>2, <2>3, <2>4 DEF k
<1>13. CASE w.op = "store"
  <2>1. h = [NativeStore(g, g.a, g.d) EXCEPT !.a = Plus(g.a, 1)]
    BY <1>13 DEF NativeEffect, w
  <2>2. s = [Write(f, g.a, g.d) EXCEPT !.a = Plus(g.a, 1)]
    BY <1>3, <1>8, <1>13 DEF Execute
  <2>3. Exit(g, slot, w) = IF ~InWindow(g.a, 1) THEN "guard"
                           ELSE IF OnOwnPage(slot, g.a, 1) THEN "self" ELSE "none"
    BY <1>13 DEF Exit, Guarded
  <2>4. CASE InWindow(g.a, 1) /\ ~OnOwnPage(slot, g.a, 1)
    <3>1. IsRam(g.a) /\ Page(g.a) # Page(slot.entry)
      BY <1>8, <2>4, WindowIsRam DEF OnOwnPage
    <3> DEFINE h1 == NativeStore(g, g.a, g.d)
               k1 == Write(f, g.a, g.d)
               e == Plus(g.a, 1)
               k == [k1 EXCEPT !.a = e]
    <3>3. /\ Ready(h1, slot) /\ Evolves(g, h1) /\ k1 \in Guests /\ Alike(h1, k1)
          /\ k1.pc = f.pc /\ k1.ir = f.ir /\ k1.irc = f.irc
      BY <1>3, <1>8, <3>1, StoresBeside
    <3>4. h = [h1 EXCEPT !.a = Plus(g.a, 1)]
      BY <2>1
    <3> HIDE DEF h1, k1, h
    <3> DEFINE h2 == [h1 EXCEPT !.a = e]
    <3>6. e \in Addr
      BY <1>8
    <3> HIDE DEF e
    <3>7. /\ Ready(h2, slot) /\ Evolves(g, h2) /\ k \in Guests /\ Alike(h2, k)
          /\ k.pc = k1.pc /\ k.ir = k1.ir /\ k.irc = k1.irc
      BY <1>2, <3>3, <3>6, AddressAfter
    <3>8. h = h2
      BY <3>4 DEF e
    <3> HIDE DEF h2
    <3>2. /\ Ready(h, slot) /\ Evolves(g, h) /\ k \in Guests /\ Alike(h, k)
          /\ k.pc = k1.pc /\ k.ir = k1.ir /\ k.irc = k1.irc
      BY <3>7, <3>8
    <3>5. s = k
      BY <2>2 DEF k, k1, e
    <3> HIDE DEF k
    <3> QED BY <1>10, <2>3, <2>4, <3>2, <3>3, <3>5
  <2> QED BY <1>11, <2>3, <2>4
<1>14. CASE w.op = "store2"
  <2> DEFINE h1 == NativeStore(g, g.a, g.d)
             k1 == Write(f, g.a, g.d)
             h2 == NativeStore(h1, g.a + 1, g.d)
             k2 == Write(k1, Plus(g.a, 1), g.d)
             k == [k2 EXCEPT !.a = Plus(g.a, 2)]
  <2>1. h = [h2 EXCEPT !.a = Plus(g.a, 2)]
    BY <1>14 DEF NativeEffect, w
  <2>2. s = k
    BY <1>3, <1>8, <1>14 DEF Execute, WriteTwo
  <2>3. Exit(g, slot, w) = IF ~InWindow(g.a, 2) THEN "guard"
                           ELSE IF OnOwnPage(slot, g.a, 2) THEN "self" ELSE "none"
    BY <1>14 DEF Exit, Guarded
  <2>4. CASE InWindow(g.a, 2) /\ ~OnOwnPage(slot, g.a, 2)
    <3>1. /\ IsRam(g.a) /\ Page(g.a) # Page(slot.entry)
          /\ g.a + 1 \in Addr /\ IsRam(g.a + 1) /\ Page(g.a + 1) # Page(slot.entry)
      <4>1. g.a + 2 - 1 = g.a + 1
        BY <1>8, PagesOfAddresses
      <4> QED BY <1>8, <2>4, <4>1, WindowIsRam DEF OnOwnPage
    <3>2. Plus(g.a, 1) = g.a + 1
      BY <1>8, <3>1, PlusIsAddress
    <3>3. /\ Ready(h1, slot) /\ Evolves(g, h1) /\ k1 \in Guests /\ Alike(h1, k1)
          /\ k1.pc = f.pc /\ k1.ir = f.ir /\ k1.irc = f.irc
      BY <1>3, <1>8, <3>1, StoresBeside
    <3> HIDE DEF h1, k1, h
    <3>4. k2 = Write(k1, g.a + 1, g.d)
      BY <3>2
    <3>5. /\ Ready(h2, slot) /\ Evolves(h1, h2) /\ k2 \in Guests /\ Alike(h2, k2)
          /\ k2.pc = k1.pc /\ k2.ir = k1.ir /\ k2.irc = k1.irc
      BY <1>8, <3>1, <3>3, <3>4, StoresBeside
    <3> HIDE DEF h2, k2
    <3>6. Evolves(g, h2)
      BY <1>2, <3>3, <3>5, EvolvesTransitive
    <3>7. /\ Ready(h, slot) /\ Evolves(g, h) /\ k \in Guests /\ Alike(h, k)
          /\ k.pc = k2.pc /\ k.ir = k2.ir /\ k.irc = k2.irc
      BY <1>2, <1>8, <2>1, <3>5, <3>6, AddressAfter
    <3> HIDE DEF k
    <3> QED BY <1>10, <2>2, <2>3, <2>4, <3>3, <3>5, <3>7
  <2> QED BY <1>11, <2>3, <2>4
<1> QED BY <1>5, <1>12, <1>13, <1>14

\* What is left of a taken branch: both leave for the same place, alike.
LEMMA BranchTaken ==
    ASSUME NEW slot, NEW g, NEW c, NEW k \in Guests, NEW b \in Addr,
           Step(Boundary(g, slot, c)) = Refill(k, b),
           Ready(NativeEffect(g, slot, c), slot), Evolves(g, NativeEffect(g, slot, c)),
           Alike(NativeEffect(g, slot, c), k),
           Target(g, Baked(slot, c)) = b, Exit(g, slot, Baked(slot, c)) = "taken"
    PROVE  DoesTheSame(g, slot, c)
<1> DEFINE h == NativeEffect(g, slot, c)
<1>1. h \in Guests
  BY DEF Ready
<1> HIDE DEF h
<1>2. Refill(h, b) = Refill(k, b)
  BY <1>1, RefillAlike DEF h
<1> QED BY <1>2 DEF DoesTheSame, h

\* Instructions that may end a block.
LEMMA BranchInstructions ==
    ASSUME NEW slot, WellMade(slot), NEW g, Ready(g, slot), NEW i \in 1 .. Len(slot.at),
           Baked(slot, slot.at[i]).op \in {"bne", "bsr", "rts"}
    PROVE  DoesTheSame(g, slot, slot.at[i])
<1> DEFINE c == slot.at[i]
           w == Baked(slot, c)
           f == Boundary(g, slot, c + 1)
           h == NativeEffect(g, slot, c)
           s == Step(Boundary(g, slot, c))
<1>1. /\ c \in Addr /\ c + 1 \in Addr /\ slot.entry <= c /\ c < slot.next
      /\ w \in Words
  BY InstructionOfBlock
<1>2. g \in Guests
  BY DEF Ready
<1>3. /\ s = Execute(f, w, c)
      /\ f \in Guests /\ Alike(g, f) /\ f.pc = Plus(c + 1, 2)
      /\ f.ir = Baked(slot, c + 1) /\ f.irc = Baked(slot, (c + 1) + 1)
  BY StepOnBoundary DEF Ready
<1>4. w.op = "rts" => ~g.mapped
  BY DEF Ready, WindowIsOpen
<1>5. w.op \in {"bne", "bsr", "rts"}
  OBVIOUS
<1>6. f = Boundary(g, slot, c + 1)
  OBVIOUS
<1> HIDE DEF c, w, f, s
<1>8. /\ g.a \in Addr /\ g.d \in Words /\ w.n \in Addr /\ f.a = g.a /\ f.d = g.d
      /\ Plus(g.a, 1) \in Addr /\ Plus(g.a, -1) \in Addr
  BY <1>1, <1>2, <1>3, PlusIsAddress DEF Guests, Words, Alike
<1>9. Length(w) = 1
  BY <1>5 DEF Length
<1>10. CASE w.op = "bne"
  <2>1. h = g
    BY <1>10 DEF NativeEffect, w
  <2>2. s = IF g.d.n # 0 THEN Refill(f, w.n) ELSE f
    BY <1>3, <1>8, <1>10 DEF Execute
  <2>3. Exit(g, slot, w) \in {"guard", IF g.d.n # 0 THEN "taken" ELSE "none"}
    BY <1>10 DEF Exit, Guarded
  <2>4. Target(g, w) = w.n
    BY <1>10 DEF Target
  <2> HIDE DEF h
  <2>5. Ready(h, slot) /\ Evolves(g, h)
    <3>1. SameMemory(g, h)
      BY <2>1 DEF SameMemory
    <3> QED BY <1>2, <2>1, <3>1, StillReady
  <2>6. Alike(h, f)
    BY <1>3, <2>1
  <2>7. CASE g.d.n # 0 /\ Exit(g, slot, w) # "guard"
    <3>1. Exit(g, slot, w) = "taken" /\ s = Refill(f, w.n)
      BY <2>2, <2>3, <2>7
    <3>2. DoesTheSame(g, slot, c)
      BY <1>3, <1>8, <2>4, <2>5, <2>6, <3>1, BranchTaken DEF h, s, w
    <3> QED BY <3>2 DEF c
  <2>8. CASE g.d.n = 0 /\ Exit(g, slot, w) # "guard"
    BY <1>6, <1>9, <2>1, <2>2, <2>3, <2>5, <2>8 DEF DoesTheSame, h, s, w, c
  <2>9. CASE Exit(g, slot, w) = "guard"
    BY <2>9 DEF DoesTheSame, w, c
  <2> QED BY <2>7, <2>8, <2>9
<1>11. CASE w.op = "bsr"
  <2> DEFINE e == Plus(g.a, -1)
             x == Word("other", c + 1)
             h1 == NativeStore(g, e, x)
             k1 == Write(f, e, x)
             h2 == [h1 EXCEPT !.a = e]
             k == [k1 EXCEPT !.a = e]
  <2>1. h = h2
    BY <1>11 DEF NativeEffect, w
  <2>2. s = Refill(k, w.n)
    <3>1. Plus(c, 1) = c + 1
      BY <1>1, PlusIsAddress
    <3> QED BY <1>3, <1>8, <1>11, <3>1 DEF Execute
  <2>3. Exit(g, slot, w) = IF ~InWindow(e, 1) THEN "guard"
                           ELSE IF OnOwnPage(slot, e, 1) THEN "self" ELSE "taken"
    BY <1>11 DEF Exit, Guarded
  <2>4. Target(g, w) = w.n
    BY <1>11 DEF Target
  <2>5. e \in Addr /\ x \in Words
    BY <1>1, <1>8, PushedWord
  <2> HIDE DEF h, e, x
  <2>6. CASE InWindow(e, 1) /\ ~OnOwnPage(slot, e, 1)
    <3>1. IsRam(e) /\ Page(e) # Page(slot.entry)
      BY <2>5, <2>6, WindowIsRam DEF OnOwnPage
    <3>2. Ready(h1, slot) /\ Evolves(g, h1) /\ k1 \in Guests /\ Alike(h1, k1)
      BY <1>3, <2>5, <3>1, StoresBeside
    <3> HIDE DEF h1, k1
    <3>3. Ready(h2, slot) /\ Evolves(g, h2) /\ k \in Guests /\ Alike(h2, k)
      BY <1>2, <2>5, <3>2, AddressAfter
    <3>4. Exit(g, slot, w) = "taken"
      BY <2>3, <2>6
    <3> HIDE DEF h2, k
    <3>5. DoesTheSame(g, slot, c)
      BY <1>8, <2>1, <2>2, <2>4, <3>3, <3>4, BranchTaken DEF h, s, w
    <3> QED BY <3>5 DEF c
  <2>7. CASE ~(InWindow(e, 1) /\ ~OnOwnPage(slot, e, 1))
    <3>1. Exit(g, slot, w) \in {"guard", "self"}
      BY <2>3, <2>7
    <3> QED BY <3>1 DEF DoesTheSame, w, c
  <2> QED BY <2>6, <2>7
<1>12. CASE w.op = "rts"
  <2> DEFINE e == Plus(g.a, 1)
             h2 == [g EXCEPT !.a = e]
             k == [f EXCEPT !.a = e]
             b == g.ram[g.a + 1].n
  <2>1. h = h2
    BY <1>12 DEF NativeEffect, w
  <2>2. s = Refill(k, View(f, f.a).n)
    BY <1>3, <1>8, <1>12 DEF Execute
  <2>3. Exit(g, slot, w) = IF ~InWindow(g.a, 1) THEN "guard" ELSE "taken"
    BY <1>12 DEF Exit, Guarded
  <2>4. Target(g, w) = b
    BY <1>12 DEF Target
  <2>5. e \in Addr
    BY <1>8
  <2> HIDE DEF h, e
  <2>6. CASE InWindow(g.a, 1)
    <3>1. IsRam(g.a)
      BY <1>8, <2>6, WindowIsRam
    <3>2. View(g, g.a) = g.ram[g.a + 1]
      BY <1>2, <1>4, <1>8, <1>12, <3>1, ViewOfRam
    <3>3. View(f, f.a) = View(g, g.a)
      BY <1>2, <1>3, <1>8, AlikeShows
    <3>4. b \in Addr
      BY <1>2, <1>8, <3>2, ViewIsWord DEF Words
    <3>5. SameMemory(g, g)
      BY DEF SameMemory
    <3>6. Evolves(g, g)
      BY <1>2, <3>5, StillReady
    <3>7. Ready(h2, slot) /\ Evolves(g, h2) /\ k \in Guests /\ Alike(h2, k)
      BY <1>2, <1>3, <2>5, <3>6, AddressAfter
    <3>8. s = Refill(k, b)
      BY <2>2, <3>2, <3>3
    <3>9. Exit(g, slot, w) = "taken"
      BY <2>3, <2>6
    <3> HIDE DEF h2, k, b
    <3>10. DoesTheSame(g, slot, c)
      BY <2>1, <2>4, <3>4, <3>7, <3>8, <3>9, BranchTaken DEF h, s, w
    <3> QED BY <3>10 DEF c
  <2>7. CASE ~InWindow(g.a, 1)
    BY <2>3, <2>7 DEF DoesTheSame, w, c
  <2> QED BY <2>6, <2>7
<1> QED BY <1>5, <1>10, <1>11, <1>12

\* Every instruction of a block does in native code what the interpreter does.
LEMMA InstructionDoesTheSame ==
    ASSUME NEW slot, WellMade(slot), NEW g, Ready(g, slot), NEW i \in 1 .. Len(slot.at)
    PROVE  DoesTheSame(g, slot, slot.at[i])
<1>1. Baked(slot, slot.at[i]) \in Words /\ Baked(slot, slot.at[i]).op # "other"
  BY InstructionOfBlock
<1>2. Baked(slot, slot.at[i]).op \in
        {"imm", "lea", "load", "put", "store", "store2", "bne", "bsr", "rts"}
  BY <1>1 DEF Words
<1> QED BY <1>2, RegisterInstructions, StoreInstructions, BranchInstructions

\* The functions by which Steps, RunBlock and Plan are defined.
Course(g, n) == CHOOSE f : f = [i \in 0 .. n |-> IF i = 0 THEN g ELSE Step(f[i - 1])]

NoneYet(g) == [guest |-> g, ran |-> 0, exit |-> "none", target |-> 0]
RunOf(g, slot, n) ==
    CHOOSE f : f = [i \in 0 .. n |-> IF i = 0 THEN NoneYet(g)
                                     ELSE Emitted(f[i - 1], slot, slot.at[i])]

\* The functions exist, and do what their definitions say.
LEMMA CourseDefined ==
    ASSUME NEW g, NEW N \in Nat
    PROVE  /\ Course(g, N)[0] = g
           /\ \A i \in 1 .. N : Course(g, N)[i] = Step(Course(g, N)[i - 1])
<1> DEFINE T == {n \in Nat :
                   \E f : f = [i \in 0 .. n |-> IF i = 0 THEN g ELSE Step(f[i - 1])]}
<1>1. 0 \in T
  <2> DEFINE f == [i \in 0 .. 0 |-> g]
  <2>1. f = [i \in 0 .. 0 |-> IF i = 0 THEN g ELSE Step(f[i - 1])]
    OBVIOUS
  <2> HIDE DEF f
  <2> QED BY <2>1
<1>2. ASSUME NEW n \in Nat, n \in T PROVE n + 1 \in T
  <2>1. PICK f : f = [i \in 0 .. n |-> IF i = 0 THEN g ELSE Step(f[i - 1])]
    BY <1>2
  <2> DEFINE h == [i \in 0 .. n + 1 |-> IF i = n + 1 THEN Step(f[n]) ELSE f[i]]
             k == [i \in 0 .. n + 1 |-> IF i = 0 THEN g ELSE Step(h[i - 1])]
  <2>2. ASSUME NEW i \in 0 .. n + 1 PROVE h[i] = k[i]
    <3>1. CASE i = n + 1
      BY <3>1
    <3>2. CASE i # n + 1
      <4>1. i \in 0 .. n
        BY <3>2
      <4>2. f[i] = IF i = 0 THEN g ELSE Step(f[i - 1])
        BY <2>1, <4>1
      <4> QED BY <4>1, <4>2
    <3> QED BY <3>1, <3>2
  <2>3. h = k
    BY <2>2
  <2>4. h = [i \in 0 .. n + 1 |-> IF i = 0 THEN g ELSE Step(h[i - 1])]
    BY <2>3
  <2> HIDE DEF h, k
  <2>5. n + 1 \in Nat
    OBVIOUS
  <2> QED BY <2>4, <2>5
<1> HIDE DEF T
<1>3. N \in T
  BY <1>1, <1>2, SetInduction
<1>4. \E f : f = [i \in 0 .. N |-> IF i = 0 THEN g ELSE Step(f[i - 1])]
  BY <1>3 DEF T
<1> DEFINE a == Course(g, N)
<1>5. a = [i \in 0 .. N |-> IF i = 0 THEN g ELSE Step(a[i - 1])]
  BY <1>4, Zenon DEF Course
<1> HIDE DEF a
<1>6. a[0] = g /\ \A i \in 1 .. N : a[i] = Step(a[i - 1])
  BY <1>5
<1> QED BY <1>6 DEF a

\* Steps counts instructions one by one.
LEMMA StepsOneByOne ==
    ASSUME NEW g, NEW n \in Nat
    PROVE  Steps(g, 0) = g /\ Steps(g, n + 1) = Step(Steps(g, n))
<1>1. ASSUME NEW m PROVE Steps(g, m) = Course(g, m)[m]
  BY DEF Steps, Course
<1> DEFINE a == Course(g, n)
           b == Course(g, n + 1)
<1>2. a[0] = g /\ \A i \in 1 .. n : a[i] = Step(a[i - 1])
  BY CourseDefined
<1>3. b[0] = g /\ \A i \in 1 .. n + 1 : b[i] = Step(b[i - 1])
  <2>1. n + 1 \in Nat
    OBVIOUS
  <2> QED BY <2>1, CourseDefined
<1>4. Course(g, 0)[0] = g
  BY CourseDefined
<1>5. Steps(g, 0) = g /\ Steps(g, n) = a[n] /\ Steps(g, n + 1) = b[n + 1]
  BY <1>1, <1>4
<1> HIDE DEF a, b
<1> DEFINE T == {i \in Nat : i <= n => a[i] = b[i]}
<1>6. 0 \in T
  BY <1>2, <1>3
<1>7. ASSUME NEW i \in Nat, i \in T PROVE i + 1 \in T
  <2>1. CASE i + 1 <= n
    <3>1. a[i] = b[i]
      BY <1>7, <2>1
    <3>2. i + 1 \in 1 .. n /\ i + 1 \in 1 .. n + 1 /\ (i + 1) - 1 = i
      BY <2>1
    <3>3. a[i + 1] = Step(a[i]) /\ b[i + 1] = Step(b[i])
      BY <1>2, <1>3, <3>2
    <3> QED BY <3>1, <3>3
  <2>2. CASE ~(i + 1 <= n)
    BY <2>2
  <2> QED BY <2>1, <2>2
<1> HIDE DEF T
<1>8. n \in T
  BY <1>6, <1>7, SetInduction
<1>9. a[n] = b[n]
  BY <1>8 DEF T
<1>10. b[n + 1] = Step(b[n])
  <2>1. n + 1 \in 1 .. n + 1 /\ (n + 1) - 1 = n
    OBVIOUS
  <2> QED BY <1>3, <2>1
<1> QED BY <1>5, <1>9, <1>10

\* The same of a block's run.
LEMMA RunOfDefined ==
    ASSUME NEW g, NEW slot, NEW N \in Nat
    PROVE  /\ RunOf(g, slot, N)[0] = NoneYet(g)
           /\ \A i \in 1 .. N :
                RunOf(g, slot, N)[i] = Emitted(RunOf(g, slot, N)[i - 1], slot, slot.at[i])
<1> DEFINE T == {n \in Nat :
                   \E f : f = [i \in 0 .. n |-> IF i = 0 THEN NoneYet(g)
                                                ELSE Emitted(f[i - 1], slot, slot.at[i])]}
<1>1. 0 \in T
  <2> DEFINE f == [i \in 0 .. 0 |-> NoneYet(g)]
  <2>1. f = [i \in 0 .. 0 |-> IF i = 0 THEN NoneYet(g)
                              ELSE Emitted(f[i - 1], slot, slot.at[i])]
    OBVIOUS
  <2> HIDE DEF f
  <2> QED BY <2>1
<1>2. ASSUME NEW n \in Nat, n \in T PROVE n + 1 \in T
  <2>1. PICK f : f = [i \in 0 .. n |-> IF i = 0 THEN NoneYet(g)
                                       ELSE Emitted(f[i - 1], slot, slot.at[i])]
    BY <1>2
  <2> DEFINE h == [i \in 0 .. n + 1 |->
                     IF i = n + 1 THEN Emitted(f[n], slot, slot.at[n + 1]) ELSE f[i]]
             k == [i \in 0 .. n + 1 |-> IF i = 0 THEN NoneYet(g)
                                        ELSE Emitted(h[i - 1], slot, slot.at[i])]
  <2>2. ASSUME NEW i \in 0 .. n + 1 PROVE h[i] = k[i]
    <3>1. CASE i = n + 1
      BY <3>1
    <3>2. CASE i # n + 1
      <4>1. i \in 0 .. n
        BY <3>2
      <4>2. f[i] = IF i = 0 THEN NoneYet(g) ELSE Emitted(f[i - 1], slot, slot.at[i])
        BY <2>1, <4>1
      <4> QED BY <4>1, <4>2
    <3> QED BY <3>1, <3>2
  <2>3. h = k
    BY <2>2
  <2>4. h = [i \in 0 .. n + 1 |-> IF i = 0 THEN NoneYet(g)
                                  ELSE Emitted(h[i - 1], slot, slot.at[i])]
    BY <2>3
  <2> HIDE DEF h, k
  <2>5. n + 1 \in Nat
    OBVIOUS
  <2> QED BY <2>4, <2>5
<1> HIDE DEF T
<1>3. N \in T
  BY <1>1, <1>2, SetInduction
<1>4. \E f : f = [i \in 0 .. N |-> IF i = 0 THEN NoneYet(g)
                                   ELSE Emitted(f[i - 1], slot, slot.at[i])]
  BY <1>3 DEF T
<1> DEFINE a == RunOf(g, slot, N)
<1>5. a = [i \in 0 .. N |-> IF i = 0 THEN NoneYet(g)
                            ELSE Emitted(a[i - 1], slot, slot.at[i])]
  BY <1>4, Zenon DEF RunOf
<1> HIDE DEF a
<1>6. a[0] = NoneYet(g) /\ \A i \in 1 .. N : a[i] = Emitted(a[i - 1], slot, slot.at[i])
  BY <1>5
<1> QED BY <1>6 DEF a

LEMMA RunBlockIsRunOf ==
    ASSUME NEW g, NEW slot
    PROVE  RunBlock(g, slot) = Left(RunOf(g, slot, Len(slot.at))[Len(slot.at)], slot)
BY DEF RunBlock, RunOf, NoneYet

\* Where the guest stands after n instructions of a block.
PlaceAfter(slot, n) == IF n = Len(slot.at) THEN slot.next ELSE slot.at[n + 1]

\* A run of native code after i of the block's instructions: where it has come to is
\* where the interpreter would be.
Follows(g, slot, i, run) ==
    /\ run = [guest |-> run.guest, ran |-> run.ran, exit |-> run.exit, target |-> run.target]
    /\ run.exit \in {"none", "guard", "self", "taken"} /\ run.ran \in 0 .. i
    /\ Ready(run.guest, slot) /\ Evolves(g, run.guest)
    /\ run.exit = "none" => run.ran = i
    /\ run.exit \in {"guard", "self"} => run.ran < i
    /\ run.exit = "taken" => run.ran > 0 /\ run.target \in Addr
    /\ g = Boundary(g, slot, slot.entry) =>
        Steps(g, run.ran) = IF run.exit = "taken" THEN Refill(run.guest, run.target)
                            ELSE Boundary(run.guest, slot, PlaceAfter(slot, run.ran))

\* Before its first instruction a run is where the interpreter is.
LEMMA FollowsFromTheStart ==
    ASSUME NEW slot, WellMade(slot), NEW g, Ready(g, slot)
    PROVE  Follows(g, slot, 0, NoneYet(g))
<1> DEFINE r == NoneYet(g)
<1>1. /\ r.guest = g /\ r.ran = 0 /\ r.exit = "none" /\ r.target = 0
      /\ r = [guest |-> r.guest, ran |-> r.ran, exit |-> r.exit, target |-> r.target]
  BY DEF NoneYet
<1>2. Evolves(g, g)
  BY SameMemoryShows DEF Ready, SameMemory
<1>3. Steps(g, 0) = g
  BY StepsOneByOne
<1>4. PlaceAfter(slot, 0) = slot.entry
  BY DEF PlaceAfter, WellMade
<1> HIDE DEF r
<1> QED BY <1>1, <1>2, <1>3, <1>4 DEF Follows, r

\* And one instruction later it still is.
LEMMA FollowsOn ==
    ASSUME NEW slot, WellMade(slot), NEW g, Ready(g, slot), NEW i \in Nat, i + 1 <= Len(slot.at),
           NEW run, Follows(g, slot, i, run)
    PROVE  Follows(g, slot, i + 1, Emitted(run, slot, slot.at[i + 1]))
<1> DEFINE c == slot.at[i + 1]
           h == run.guest
           w == Baked(slot, c)
           exit == Exit(h, slot, w)
           native == NativeEffect(h, slot, c)
           r == Emitted(run, slot, c)
<1>1. Ready(h, slot) /\ Evolves(g, h) /\ g \in Guests
  BY DEF Follows, Ready
<1>2. i + 1 \in 1 .. Len(slot.at) /\ Len(slot.at) \in Nat
  BY DEF WellMade
<1>3. DoesTheSame(h, slot, c)
  BY <1>1, <1>2, InstructionDoesTheSame
<1>4. CASE run.exit # "none"
  <2>1. r = run
    BY <1>4 DEF Emitted
  <2>2. run.ran \in 0 .. i + 1 /\ (run.ran < i => run.ran < i + 1)
    BY DEF Follows
  <2> HIDE DEF r
  <2> QED BY <1>4, <2>1, <2>2 DEF Follows, r
<1>5. CASE run.exit = "none"
  <2>1. run.ran = i /\ PlaceAfter(slot, i) = c
    BY <1>2, <1>5 DEF Follows, PlaceAfter
  <2>2. g = Boundary(g, slot, slot.entry) => Steps(g, i) = Boundary(h, slot, c)
    BY <1>5, <2>1 DEF Follows
  <2>3. Steps(g, i + 1) = Step(Steps(g, i))
    BY StepsOneByOne
  <2>4. r = IF exit \in {"guard", "self"} THEN [run EXCEPT !.exit = exit]
            ELSE [guest |-> native, ran |-> run.ran + 1, exit |-> exit,
                  target |-> IF exit = "taken" THEN Target(h, w) ELSE 0]
    BY <1>5 DEF Emitted
  <2>5. CASE exit \in {"guard", "self"}
    <3>1. r = [run EXCEPT !.exit = exit]
      BY <2>4, <2>5
    <3> HIDE DEF exit
    <3>2. /\ r.guest = h /\ r.ran = run.ran /\ r.exit = exit /\ r.target = run.target
          /\ r = [guest |-> r.guest, ran |-> r.ran, exit |-> r.exit, target |-> r.target]
      <4> DEFINE x == run.ran
                 y == run.target
                 z == run.exit
      <4>1. run = [guest |-> h, ran |-> x, exit |-> z, target |-> y]
        BY DEF Follows
      <4> HIDE DEF h, x, y, z
      <4>2. [run EXCEPT !.exit = exit] = [guest |-> h, ran |-> x, exit |-> exit, target |-> y]
        BY <4>1
      <4> HIDE DEF r
      <4>3. r = [guest |-> h, ran |-> x, exit |-> exit, target |-> y]
        BY <3>1, <4>2
      <4>4. r.guest = h /\ r.ran = x /\ r.exit = exit /\ r.target = y
        BY <4>3
      <4> QED BY <4>3, <4>4 DEF h, x, y
    <3>3. i \in 0 .. i + 1 /\ i < i + 1
      OBVIOUS
    <3> HIDE DEF r
    <3> QED BY <1>1, <2>1, <2>2, <2>5, <3>2, <3>3 DEF Follows, r, c
  <2>6. CASE exit \in {"none", "taken"}
    <3> DEFINE x == IF exit = "taken" THEN Target(h, w) ELSE 0
    <3>1. r = [guest |-> native, ran |-> i + 1, exit |-> exit, target |-> x]
      BY <2>1, <2>4, <2>6
    <3>2. Ready(native, slot) /\ Evolves(h, native)
      BY <1>3, <2>6 DEF DoesTheSame
    <3>3. Evolves(g, native)
      BY <1>1, <3>2, EvolvesTransitive
    <3>4. exit = "none" => Step(Boundary(h, slot, c)) = Boundary(native, slot, c + Length(w))
      BY <1>3 DEF DoesTheSame
    <3>5. exit = "taken" => /\ x \in Addr
                            /\ Step(Boundary(h, slot, c)) = Refill(native, x)
      BY <1>3 DEF DoesTheSame
    <3>6. PlaceAfter(slot, i + 1) = c + Length(w)
      <4>1. Translated(slot, i + 1)
        BY <1>2 DEF WellMade
      <4> QED BY <4>1 DEF Translated, PlaceAfter
    <3> HIDE DEF exit, native, x, r, h, w
    <3>7. /\ r.guest = native /\ r.ran = i + 1 /\ r.exit = exit /\ r.target = x
          /\ r = [guest |-> r.guest, ran |-> r.ran, exit |-> r.exit, target |-> r.target]
      BY <3>1
    <3>8. i + 1 \in 0 .. i + 1 /\ i + 1 > 0
      OBVIOUS
    <3>9. ASSUME g = Boundary(g, slot, slot.entry)
          PROVE  Steps(g, i + 1) = IF exit = "taken" THEN Refill(native, x)
                                   ELSE Boundary(native, slot, PlaceAfter(slot, i + 1))
      BY <2>2, <2>3, <2>6, <3>4, <3>5, <3>6, <3>9
    <3> QED BY <2>6, <3>2, <3>3, <3>5, <3>7, <3>8, <3>9 DEF Follows, r, c
  <2>7. exit \in {"none", "taken", "guard", "self"}
    BY <1>3 DEF DoesTheSame
  <2> QED BY <2>5, <2>6, <2>7
<1> QED BY <1>4, <1>5

\* The block has run to where it leaves.
LEMMA RunFollows ==
    ASSUME NEW slot, WellMade(slot), NEW g, Ready(g, slot)
    PROVE  Follows(g, slot, Len(slot.at), RunOf(g, slot, Len(slot.at))[Len(slot.at)])
<1> DEFINE N == Len(slot.at)
           a == RunOf(g, slot, N)
           T == {i \in Nat : i <= N => Follows(g, slot, i, a[i])}
<1>1. N \in Nat
  BY DEF WellMade
<1>2. a[0] = NoneYet(g) /\ \A i \in 1 .. N : a[i] = Emitted(a[i - 1], slot, slot.at[i])
  BY <1>1, RunOfDefined
<1> HIDE DEF a
<1>3. 0 \in T
  BY <1>2, FollowsFromTheStart
<1>4. ASSUME NEW i \in Nat, i \in T PROVE i + 1 \in T
  <2>1. CASE i + 1 <= N
    <3>1. Follows(g, slot, i, a[i])
      BY <1>1, <1>4, <2>1
    <3>2. i + 1 \in 1 .. N /\ (i + 1) - 1 = i
      BY <1>1, <2>1
    <3>3. a[i + 1] = Emitted(a[i], slot, slot.at[i + 1])
      BY <1>2, <3>2
    <3>4. Follows(g, slot, i + 1, a[i + 1])
      BY <2>1, <3>1, <3>3, FollowsOn
    <3> QED BY <3>4
  <2>2. CASE ~(i + 1 <= N)
    BY <2>2
  <2> QED BY <2>1, <2>2
<1> HIDE DEF T
<1>5. N \in T
  BY <1>1, <1>3, <1>4, SetInduction
<1> QED BY <1>1, <1>5 DEF T, a

\* A block's run is some number of the interpreter's instructions, started where the
\* block begins; without that it still only does what a program may do to memory.
LEMMA BlockRuns ==
    ASSUME NEW slot, WellMade(slot), NEW g, Ready(g, slot)
    PROVE  LET run == RunBlock(g, slot) IN
           /\ run.exit \in {"none", "guard", "self", "taken"}
           /\ run.ran \in 0 .. Len(slot.at)
           /\ run.exit \notin {"guard", "self"} => run.ran > 0
           /\ Evolves(g, run.guest)
           /\ g = Boundary(g, slot, slot.entry) => run.guest = Steps(g, run.ran)
<1> DEFINE N == Len(slot.at)
           r == RunOf(g, slot, N)[N]
           run == RunBlock(g, slot)
           e == run.guest
<1>1. Follows(g, slot, N, r)
  BY RunFollows
<1>2. run = Left(r, slot)
  BY RunBlockIsRunOf
<1>3. N \in Nat /\ N > 0
  BY DEF WellMade
<1>4. g \in Guests
  BY DEF Ready
<1> HIDE DEF r, run, N
<1> DEFINE h == r.guest
           p == CASE r.exit = "none" -> Boundary(h, slot, slot.next)
                  [] r.exit = "taken" -> Refill(h, r.target)
                  [] OTHER -> Boundary(h, slot, slot.at[r.ran + 1])
<1>5. run.guest = p /\ run.ran = r.ran /\ run.exit = r.exit
  <2> DEFINE x == r.ran
             y == r.target
             z == r.exit
  <2>1. r = [guest |-> h, ran |-> x, exit |-> z, target |-> y]
    BY <1>1 DEF Follows
  <2>2. run = [r EXCEPT !.guest = p]
    BY <1>2 DEF Left
  <2> HIDE DEF h, x, y, z, p
  <2>3. run = [guest |-> p, ran |-> x, exit |-> z, target |-> y]
    BY <2>1, <2>2
  <2>4. run.guest = p /\ run.ran = x /\ run.exit = z
    BY <2>3
  <2> QED BY <2>4 DEF x, z
<1>6. /\ r.exit \in {"none", "guard", "self", "taken"} /\ r.ran \in 0 .. N
      /\ Ready(h, slot) /\ Evolves(g, h) /\ h \in Guests
      /\ r.exit = "none" => r.ran = N
      /\ r.exit \in {"guard", "self"} => r.ran < N
      /\ r.exit = "taken" => r.ran > 0 /\ r.target \in Addr
      /\ g = Boundary(g, slot, slot.entry) =>
            Steps(g, r.ran) = IF r.exit = "taken" THEN Refill(h, r.target)
                              ELSE Boundary(h, slot, PlaceAfter(slot, r.ran))
  BY <1>1 DEF Follows, Ready
<1> HIDE DEF h
<1>7. CASE r.exit = "taken"
  <2>1. p = Refill(h, r.target)
    BY <1>7
  <2>2. Evolves(g, p)
    BY <1>4, <1>6, <1>7, <2>1, EvolvesThenRefill
  <2> QED BY <1>3, <1>5, <1>6, <1>7, <2>1, <2>2 DEF run, N
<1>8. CASE r.exit # "taken"
  <2> DEFINE c == PlaceAfter(slot, r.ran)
  <2>1. p = Boundary(h, slot, c)
    BY <1>3, <1>6, <1>8 DEF PlaceAfter, N
  <2>2. c \in Addr /\ slot.entry <= c /\ c <= slot.next
    <3>1. slot.next \in Addr /\ slot.entry \in Addr /\ slot.entry < slot.next
      BY DEF WellMade, Blocks
    <3>2. slot.next \in Int /\ slot.entry \in Int
      BY <3>1, PagesOfAddresses
    <3>3. CASE r.ran = N
      BY <3>1, <3>2, <3>3 DEF PlaceAfter, N
    <3>4. CASE r.ran # N
      <4>1. r.ran + 1 \in 1 .. N
        BY <1>3, <1>6, <3>4
      <4>2. /\ slot.at[r.ran + 1] \in Addr /\ slot.entry <= slot.at[r.ran + 1]
            /\ slot.at[r.ran + 1] < slot.next
        BY <4>1, InstructionOfBlock DEF N
      <4>3. slot.at[r.ran + 1] \in Int
        BY <4>2, PagesOfAddresses
      <4>4. c = slot.at[r.ran + 1]
        BY <3>4 DEF PlaceAfter, N
      <4> QED BY <3>2, <4>2, <4>3, <4>4
    <3> QED BY <3>3, <3>4
  <2> HIDE DEF c
  <2>3. p \in Guests /\ SameMemory(h, p)
    BY <1>6, <2>1, <2>2, BoundaryKeeps DEF Alike
  <2> HIDE DEF p
  <2>4. Evolves(g, p)
    BY <1>4, <1>6, <2>3, SameMemoryEvolves
  <2>5. r.exit \notin {"guard", "self"} => r.ran > 0
    BY <1>3, <1>6, <1>8
  <2> QED BY <1>5, <1>6, <1>8, <2>1, <2>4, <2>5 DEF run, N, c
<1> QED BY <1>7, <1>8

NoPlan(entry) == [at |-> <<>>, next |-> entry, ended |-> TRUE]
PlanBegun(entry) == [at |-> <<>>, next |-> entry, ended |-> FALSE]
PlanOf(g, entry, n) ==
    CHOOSE f : f = [i \in 0 .. n |-> IF i = 0 THEN PlanBegun(entry)
                                     ELSE Extend(g, entry, f[i - 1])]

\* The same of a plan.
LEMMA PlanOfDefined ==
    ASSUME NEW g, NEW entry, NEW N \in Nat
    PROVE  /\ PlanOf(g, entry, N)[0] = PlanBegun(entry)
           /\ \A i \in 1 .. N :
                PlanOf(g, entry, N)[i] = Extend(g, entry, PlanOf(g, entry, N)[i - 1])
<1> DEFINE T == {n \in Nat :
                   \E f : f = [i \in 0 .. n |-> IF i = 0 THEN PlanBegun(entry)
                                                ELSE Extend(g, entry, f[i - 1])]}
<1>1. 0 \in T
  <2> DEFINE f == [i \in 0 .. 0 |-> PlanBegun(entry)]
  <2>1. f = [i \in 0 .. 0 |-> IF i = 0 THEN PlanBegun(entry)
                              ELSE Extend(g, entry, f[i - 1])]
    OBVIOUS
  <2> HIDE DEF f
  <2> QED BY <2>1
<1>2. ASSUME NEW n \in Nat, n \in T PROVE n + 1 \in T
  <2>1. PICK f : f = [i \in 0 .. n |-> IF i = 0 THEN PlanBegun(entry)
                                       ELSE Extend(g, entry, f[i - 1])]
    BY <1>2
  <2> DEFINE h == [i \in 0 .. n + 1 |->
                     IF i = n + 1 THEN Extend(g, entry, f[n]) ELSE f[i]]
             k == [i \in 0 .. n + 1 |-> IF i = 0 THEN PlanBegun(entry)
                                        ELSE Extend(g, entry, h[i - 1])]
  <2>2. ASSUME NEW i \in 0 .. n + 1 PROVE h[i] = k[i]
    <3>1. CASE i = n + 1
      BY <3>1
    <3>2. CASE i # n + 1
      <4>1. i \in 0 .. n
        BY <3>2
      <4>2. f[i] = IF i = 0 THEN PlanBegun(entry) ELSE Extend(g, entry, f[i - 1])
        BY <2>1, <4>1
      <4> QED BY <4>1, <4>2
    <3> QED BY <3>1, <3>2
  <2>3. h = k
    BY <2>2
  <2>4. h = [i \in 0 .. n + 1 |-> IF i = 0 THEN PlanBegun(entry)
                                  ELSE Extend(g, entry, h[i - 1])]
    BY <2>3
  <2> HIDE DEF h, k
  <2>5. n + 1 \in Nat
    OBVIOUS
  <2> QED BY <2>4, <2>5
<1> HIDE DEF T
<1>3. N \in T
  BY <1>1, <1>2, SetInduction
<1>4. \E f : f = [i \in 0 .. N |-> IF i = 0 THEN PlanBegun(entry)
                                   ELSE Extend(g, entry, f[i - 1])]
  BY <1>3 DEF T
<1> DEFINE a == PlanOf(g, entry, N)
<1>5. a = [i \in 0 .. N |-> IF i = 0 THEN PlanBegun(entry)
                            ELSE Extend(g, entry, a[i - 1])]
  BY <1>4, Zenon DEF PlanOf
<1> HIDE DEF a
<1>6. a[0] = PlanBegun(entry) /\ \A i \in 1 .. N : a[i] = Extend(g, entry, a[i - 1])
  BY <1>5
<1> QED BY <1>6 DEF a

LEMMA PlanIsPlanOf ==
    ASSUME NEW g, NEW entry
    PROVE  Plan(g, entry) = IF entry = 0 \/ Generation(g, entry) = AlwaysStale
                            THEN NoPlan(entry) ELSE PlanOf(g, entry, MaxOps)[MaxOps]
BY DEF Plan, PlanOf, NoPlan, PlanBegun

\* What a plan says of its j-th instruction.
Planned(g, entry, plan, j) ==
    LET w == View(g, plan.at[j]) IN
    /\ entry <= plan.at[j] /\ plan.at[j] < plan.next
    /\ plan.at[j] + Length(w) = IF j = Len(plan.at) THEN plan.next ELSE plan.at[j + 1]
    /\ plan.at[j] + Length(w) <= plan.next
    /\ w.op # "other"
    /\ w.op \in {"load", "rts"} => ~g.mapped
    /\ w.op = "put" => Page(w.n) # Page(entry)

\* A plan of at most n instructions, on one page.
PlanFits(g, entry, n, plan) ==
    /\ plan.at \in Seq(Addr) /\ Len(plan.at) <= n
    /\ plan.next \in Addr /\ entry <= plan.next /\ Page(plan.next) = Page(entry)
    /\ plan.at = <<>> => plan.next = entry
    /\ plan.at # <<>> => /\ plan.at[1] = entry /\ entry < plan.next
                         /\ plan.next + 1 \in Addr /\ Page(plan.next + 1) = Page(entry)
    /\ \A j \in 1 .. Len(plan.at) : Planned(g, entry, plan, j)

\* An address whose page is a page.
LEMMA OnThePage ==
    ASSUME NEW a \in Addr, NEW b \in Nat, Page(b) = Page(a)
    PROVE  b \in Addr
<1>1. Page(a) \in 0 .. RamPages + 1
  BY PagesOfAddresses
<1>2. PageWords \in Nat \ {0} /\ RamPages \in Nat
  BY Layout
<1> DEFINE q == Page(b)
           r == b % PageWords
<1>3. q \in Nat /\ r \in 0 .. PageWords - 1 /\ b = PageWords * q + r
  BY <1>2, Division DEF Page
<1>4. q <= RamPages + 1
  BY <1>1
<1> HIDE DEF q, r
<1>5. PageWords * q <= PageWords * (RamPages + 1)
  BY <1>2, <1>3, <1>4
<1>6. PageWords * (RamPages + 1) + PageWords = (RamPages + 2) * PageWords
  BY <1>2
<1>7. PageWords * q \in Nat /\ PageWords * (RamPages + 1) \in Nat
      /\ (RamPages + 2) * PageWords \in Nat
  BY <1>2, <1>3
<1> DEFINE x == PageWords * q
           y == PageWords * (RamPages + 1)
           z == (RamPages + 2) * PageWords
<1>8. x \in Nat /\ y \in Nat /\ z \in Nat /\ x <= y /\ y + PageWords = z /\ b = x + r
  BY <1>3, <1>5, <1>6, <1>7
<1> HIDE DEF x, y, z
<1>9. b < z
  BY <1>2, <1>3, <1>8
<1>10. z = Size
  BY DEF Size, z
<1>11. b \in 0 .. z - 1
  BY <1>8, <1>9
<1> QED BY <1>10, <1>11 DEF Addr

\* A plan that grows stays on its page.
LEMMA ExtendFits ==
    ASSUME NEW g \in Guests, NEW entry \in Addr, NEW n \in Nat, NEW plan,
           PlanFits(g, entry, n, plan)
    PROVE  PlanFits(g, entry, n + 1, Extend(g, entry, plan))
<1> DEFINE p == Extend(g, entry, plan)
           c == plan.next
           w == View(g, c)
           N == Len(plan.at)
<1>1. /\ plan.at \in Seq(Addr) /\ N \in Nat /\ N <= n
      /\ c \in Addr /\ entry <= c /\ Page(c) = Page(entry)
      /\ plan.at = <<>> => c = entry
      /\ plan.at # <<>> => plan.at[1] = entry /\ entry < c
      /\ \A j \in 1 .. N : Planned(g, entry, plan, j)
      /\ N <= n + 1
  BY DEF PlanFits
<1>2. CASE plan.ended \/ ~CanExtend(g, entry, plan.next)
  <2>1. p = [plan EXCEPT !.ended = TRUE]
    BY <1>2 DEF Extend
  <2>2. p.at = plan.at /\ p.next = plan.next
    BY <2>1
  <2> HIDE DEF p
  <2>3. \A j \in 1 .. N : Planned(g, entry, p, j)
    BY <1>1, <2>2 DEF Planned
  <2> QED BY <1>1, <2>2, <2>3 DEF PlanFits, p
<1>3. CASE ~(plan.ended \/ ~CanExtend(g, entry, plan.next))
  <2> DEFINE e == c + Length(w)
             s == Append(plan.at, c)
  <2>1. p.at = s /\ p.next = e
    BY <1>3 DEF Extend
  <2>2. /\ w.op # "other" /\ (w.op \in {"load", "rts"} => ~g.mapped)
        /\ Page(e + 1) = Page(entry) /\ (w.op = "put" => Page(w.n) # Page(entry))
    BY <1>3 DEF CanExtend
  <2>3. Length(w) \in 1 .. 2
    BY DEF Length
  <2> HIDE DEF p, w
  <2>4. c \in Nat /\ entry \in Nat
    BY <1>1, PagesOfAddresses
  <2>5. e + 1 \in Nat /\ e \in Nat /\ c < e /\ entry < e
    BY <1>1, <2>3, <2>4
  <2>6. e + 1 \in Addr
    BY <2>2, <2>5, OnThePage
  <2>7. e \in Addr
    BY <2>5, <2>6, Layout DEF Addr
  <2>8. Page(e) = Page(entry)
    <3>1. entry <= e /\ e <= e + 1
      BY <2>4, <2>5
    <3> QED BY <2>2, <2>6, <2>7, <3>1, BetweenOnPage
  <2> HIDE DEF e
  <2>9. s \in Seq(Addr) /\ Len(s) = N + 1 /\ s # <<>> /\ s[N + 1] = c
        /\ \A j \in 1 .. N : s[j] = plan.at[j]
    BY <1>1
  <2>10. s[1] = entry
    <3>1. CASE N = 0
      BY <1>1, <2>9, <3>1
    <3>2. CASE N # 0
      BY <1>1, <2>9, <3>2
    <3> QED BY <3>1, <3>2
  <2> HIDE DEF s
  <2>11. ASSUME NEW j \in 1 .. N + 1 PROVE Planned(g, entry, p, j)
    <3>1. CASE j = N + 1
      <4>1. p.at[j] = c /\ p.next = e /\ Len(p.at) = j
        BY <2>1, <2>9, <3>1
      <4>2. c + Length(w) = e /\ c + Length(w) <= e
        BY <2>5 DEF e
      <4> QED BY <1>1, <2>2, <2>5, <4>1, <4>2 DEF Planned, w
    <3>2. CASE j # N + 1
      <4>1. j \in 1 .. N /\ j # Len(p.at)
        BY <1>1, <2>1, <2>9, <3>2
      <4>2. Planned(g, entry, plan, j)
        BY <1>1, <4>1
      <4> DEFINE d == plan.at[j]
                 v == View(g, d)
                 l == Length(v)
      <4>3. p.at[j] = d /\ p.next = e /\ Len(p.at) = N + 1
        BY <2>1, <2>9, <4>1
      <4>4. d + l = p.at[j + 1]
        <5>1. CASE j = N
          BY <2>1, <2>9, <4>2, <5>1 DEF Planned
        <5>2. CASE j # N
          <6>1. j + 1 \in 1 .. N
            BY <1>1, <4>1, <5>2
          <6> QED BY <2>1, <2>9, <4>2, <5>2, <6>1 DEF Planned
        <5> QED BY <5>1, <5>2
      <4>5. d \in Nat /\ l \in Nat
        <5>1. d \in Addr
          BY <1>1, <4>1
        <5> QED BY <5>1, PagesOfAddresses DEF Length
      <4>6. entry <= d /\ d < c /\ d + l <= c /\ v.op # "other"
            /\ (v.op \in {"load", "rts"} => ~g.mapped) /\ (v.op = "put" => Page(v.n) # Page(entry))
        BY <4>2 DEF Planned
      <4> HIDE DEF d, v, l
      <4>7. d < e /\ d + l <= e
        BY <2>4, <2>5, <4>5, <4>6
      <4> QED BY <4>1, <4>3, <4>4, <4>6, <4>7 DEF Planned, d, v, l
    <3> QED BY <3>1, <3>2
  <2>12. N + 1 <= n + 1 /\ entry <= e
    BY <1>1, <2>4, <2>5
  <2> QED BY <2>1, <2>2, <2>5, <2>6, <2>7, <2>8, <2>9, <2>10, <2>11, <2>12 DEF PlanFits, p, e
<1> QED BY <1>2, <1>3

\* So every plan does.
LEMMA PlanOfFits ==
    ASSUME NEW g \in Guests, NEW entry \in Addr, NEW N \in Nat
    PROVE  \A i \in 0 .. N : PlanFits(g, entry, i, PlanOf(g, entry, N)[i])
<1> DEFINE a == PlanOf(g, entry, N)
           T == {i \in Nat : i <= N => PlanFits(g, entry, i, a[i])}
<1>1. a[0] = PlanBegun(entry) /\ \A i \in 1 .. N : a[i] = Extend(g, entry, a[i - 1])
  BY PlanOfDefined
<1> HIDE DEF a
<1>2. 0 \in T
  <2>1. a[0].at = <<>> /\ a[0].next = entry
    BY <1>1 DEF PlanBegun
  <2>2. entry \in Nat
    BY PagesOfAddresses
  <2>3. PlanFits(g, entry, 0, a[0])
    BY <2>1, <2>2 DEF PlanFits
  <2> QED BY <2>3
<1>3. ASSUME NEW i \in Nat, i \in T PROVE i + 1 \in T
  <2>1. CASE i + 1 <= N
    <3>1. PlanFits(g, entry, i, a[i])
      BY <1>3, <2>1
    <3>2. i + 1 \in 1 .. N /\ (i + 1) - 1 = i
      BY <2>1
    <3>3. a[i + 1] = Extend(g, entry, a[i])
      BY <1>1, <3>2
    <3>4. PlanFits(g, entry, i + 1, a[i + 1])
      BY <3>1, <3>3, ExtendFits
    <3> QED BY <3>4
  <2>2. CASE ~(i + 1 <= N)
    BY <2>2
  <2> QED BY <2>1, <2>2
<1> HIDE DEF T
<1>4. Nat \subseteq T
  BY <1>2, <1>3, SetInduction
<1> QED BY <1>4 DEF T, a

\* A generation is one of the counted ones.
LEMMA GenerationIsCounted ==
    ASSUME NEW g \in Guests, NEW b \in Addr
    PROVE  Generation(g, b) \in 0 .. AlwaysStale
<1>1. AlwaysStale \in Nat /\ AlwaysStale > 1
  BY Layout
<1>2. CASE IsRam(b)
  <2>1. Page(b) \in 0 .. RamPages - 1
    BY <1>2, PagesOfAddresses
  <2>2. g.gen[Page(b)] \in 0 .. AlwaysStale
    BY <2>1 DEF Guests
  <2>3. ~(Page(b) = RomPage)
    BY <1>2, Layout DEF IsRam, RomPage
  <2>4. Generation(g, b) = g.gen[Page(b)]
    BY <1>2, <2>3 DEF Generation
  <2> QED BY <2>2, <2>4
<1>3. CASE ~IsRam(b)
  <2>1. Generation(g, b) \in {AlwaysStale - 1, AlwaysStale}
    BY <1>3 DEF Generation
  <2> HIDE DEF Generation
  <2> QED BY <1>1, <2>1
<1> QED BY <1>2, <1>3

\* And what the planner returns.
LEMMA PlanThatFits ==
    ASSUME NEW g \in Guests, NEW entry \in Addr
    PROVE  /\ PlanFits(g, entry, MaxOps, Plan(g, entry))
           /\ Plan(g, entry).at # <<>> => entry # 0 /\ Generation(g, entry) # AlwaysStale
<1>1. MaxOps \in Nat /\ MaxOps > 0
  BY NativeAssumption
<1>2. CASE entry = 0 \/ Generation(g, entry) = AlwaysStale
  <2> DEFINE p == Plan(g, entry)
  <2>1. p = NoPlan(entry)
    BY <1>2, PlanIsPlanOf
  <2>2. p.at = <<>> /\ p.next = entry
    BY <2>1 DEF NoPlan
  <2>3. entry \in Nat
    BY PagesOfAddresses
  <2> HIDE DEF p
  <2>4. PlanFits(g, entry, MaxOps, p)
    BY <1>1, <2>2, <2>3 DEF PlanFits
  <2> QED BY <2>2, <2>4 DEF p
<1>3. CASE ~(entry = 0 \/ Generation(g, entry) = AlwaysStale)
  <2>1. Plan(g, entry) = PlanOf(g, entry, MaxOps)[MaxOps]
    BY <1>3, PlanIsPlanOf
  <2>2. MaxOps \in 0 .. MaxOps
    BY <1>1
  <2>3. PlanFits(g, entry, MaxOps, PlanOf(g, entry, MaxOps)[MaxOps])
    BY <1>1, <2>2, PlanOfFits
  <2> QED BY <1>3, <2>1, <2>3
<1> QED BY <1>2, <1>3

\* What the planner planned and the emitter took is a block, of the words memory shows.
LEMMA PlanMakesABlock ==
    ASSUME NEW g \in Guests, NEW entry \in Addr, CanEmit(g, Plan(g, entry)), NEW kept \in Int
    PROVE  LET plan == Plan(g, entry)
               slot == [entry |-> entry, epoch |-> g.epoch, gen |-> Generation(g, entry),
                        at |-> plan.at, next |-> plan.next,
                        words |-> BakedWords(g, entry, plan), kept |-> kept]
           IN  /\ WellMade(slot) /\ ShowsBlock(g, slot) /\ WindowIsOpen(g, slot)
               /\ slot.gen # AlwaysStale
<1> DEFINE plan == Plan(g, entry)
           words == BakedWords(g, entry, plan)
           gen == Generation(g, entry)
           epoch == g.epoch
           at == plan.at
           next == plan.next
           slot == [entry |-> entry, epoch |-> epoch, gen |-> gen, at |-> at,
                    next |-> next, words |-> words, kept |-> kept]
           N == Len(at)
<1>1. /\ PlanFits(g, entry, MaxOps, plan)
      /\ plan.at # <<>> => entry # 0 /\ gen # AlwaysStale
  BY PlanThatFits
<1>2. /\ plan.at # <<>>
      /\ \A i \in DOMAIN plan.at :
            View(g, plan.at[i]).op = "put" => IsRam(View(g, plan.at[i]).n)
  BY DEF CanEmit
<1>3. /\ at \in Seq(Addr) /\ N <= MaxOps /\ next \in Addr /\ entry <= next
      /\ at[1] = entry /\ entry < next /\ next + 1 \in Addr /\ Page(next + 1) = Page(entry)
      /\ \A j \in 1 .. N : Planned(g, entry, plan, j)
      /\ entry # 0 /\ gen # AlwaysStale
  BY <1>1, <1>2 DEF PlanFits
<1>4. words = [i \in 1 .. next + 2 - entry |-> View(g, entry + i - 1)]
  BY DEF BakedWords
<1>5. gen \in 0 .. AlwaysStale /\ epoch \in Nat
  BY GenerationIsCounted DEF Guests
<1>6. MaxOps \in Nat
  BY NativeAssumption
<1>7. \A j \in 1 .. N : View(g, at[j]).op = "put" => IsRam(View(g, at[j]).n)
  BY <1>2, <1>3
<1> HIDE DEF words, gen, epoch
<1>8. /\ entry \in Nat /\ next \in Nat /\ next + 1 < Size
  BY <1>3, PagesOfAddresses
<1>9. ASSUME NEW i \in 1 .. next + 2 - entry
      PROVE  entry + i - 1 \in Addr /\ View(g, entry + i - 1) \in Words
  <2> HIDE DEF next
  <2>1. entry + i - 1 \in 0 .. Size - 1
    BY <1>8, Layout
  <2>2. entry + i - 1 \in Addr
    BY <2>1 DEF Addr
  <2> QED BY <2>2, ViewIsWord
<1>10. words \in Seq(Words) /\ Len(words) = next + 2 - entry
       /\ \A k \in 1 .. next + 2 - entry : words[k] = View(g, entry + k - 1)
  <2> DEFINE n == next + 2 - entry
  <2>1. n \in Nat
    <3> HIDE DEF next
    <3> QED BY <1>3, <1>8
  <2>2. words = [i \in 1 .. n |-> View(g, entry + i - 1)]
    BY <1>4
  <2>3. \A i \in 1 .. n : View(g, entry + i - 1) \in Words
    BY <1>9
  <2> HIDE DEF n
  <2>4. words \in [1 .. n -> Words] /\ \A k \in 1 .. n : words[k] = View(g, entry + k - 1)
    BY <2>2, <2>3
  <2>5. words \in Seq(Words) /\ Len(words) = n
    BY <2>1, <2>4
  <2> QED BY <2>4, <2>5 DEF n
<1> HIDE DEF at, next
<1>11. /\ slot.entry = entry /\ slot.epoch = epoch /\ slot.gen = gen /\ slot.at = at
       /\ slot.next = next /\ slot.words = words /\ slot.kept = kept
  OBVIOUS
<1>12. slot \in Blocks
  BY <1>3, <1>5, <1>10 DEF Blocks
<1> HIDE DEF slot
<1>13. ASSUME NEW c \in Addr, entry <= c, c <= next + 1
       PROVE  Baked(slot, c) = View(g, c)
  <2> DEFINE k == c - entry + 1
  <2>1. c \in Nat
    BY PagesOfAddresses
  <2>2. k \in 1 .. next + 2 - entry /\ entry + k - 1 = c
    BY <1>8, <1>13, <2>1
  <2>3. Baked(slot, c) = words[k]
    BY <1>11 DEF Baked
  <2> HIDE DEF k
  <2>4. words[k] = View(g, entry + k - 1)
    BY <1>10, <2>2
  <2> QED BY <2>2, <2>3, <2>4
<1>14. ASSUME NEW j \in 1 .. N
       PROVE  /\ at[j] \in Addr /\ Baked(slot, at[j]) = View(g, at[j])
              /\ Planned(g, entry, plan, j)
  <2>1. at[j] \in Addr /\ Planned(g, entry, plan, j)
    BY <1>3
  <2>2. entry <= at[j] /\ at[j] < next
    BY <2>1 DEF Planned, at, next
  <2>3. at[j] <= next + 1
    <3>1. at[j] \in Nat
      BY <2>1, PagesOfAddresses
    <3> QED BY <1>8, <2>2, <3>1
  <2> QED BY <1>13, <2>1, <2>2, <2>3
<1>15. ASSUME NEW j \in 1 .. N PROVE Translated(slot, j)
  BY <1>7, <1>11, <1>14 DEF Translated, Planned, at, next
<1>16. N \in 1 .. MaxOps
  <2>1. N # 0
    BY <1>2, <1>3 DEF at
  <2> QED BY <1>3, <1>6, <2>1
<1>17. WellMade(slot)
  BY <1>3, <1>10, <1>11, <1>12, <1>15, <1>16 DEF WellMade
<1>18. ShowsBlock(g, slot)
  BY <1>10, <1>11 DEF ShowsBlock
<1>19. WindowIsOpen(g, slot)
  BY <1>11, <1>14 DEF WindowIsOpen, Planned, at, next
<1>20. slot.gen # AlwaysStale
  BY <1>3, <1>11
<1> QED BY <1>17, <1>18, <1>19, <1>20 DEF slot, words, gen, epoch, at, next

\* A page that has not changed is planned as it was.
SamePage(g, h, entry) ==
    /\ h.mapped = g.mapped /\ Generation(h, entry) = Generation(g, entry)
    /\ \A b \in Addr : Page(b) = Page(entry) => View(h, b) = View(g, b)

\* A plan reads its own page only,
LEMMA ExtendStays ==
    ASSUME NEW g \in Guests, NEW h \in Guests, NEW entry \in Addr, SamePage(g, h, entry),
           NEW n, NEW plan, PlanFits(g, entry, n, plan)
    PROVE  Extend(h, entry, plan) = Extend(g, entry, plan)
<1>1. View(h, plan.next) = View(g, plan.next)
  BY DEF SamePage, PlanFits
<1>2. Readable(h, plan.next) = Readable(g, plan.next)
  BY DEF Readable, SamePage
<1>3. CanExtend(h, entry, plan.next) = CanExtend(g, entry, plan.next)
  BY <1>1, <1>2 DEF CanExtend, SamePage
<1> QED BY <1>1, <1>3 DEF Extend

\* so that it and its refusal stay while the page does.
LEMMA PlanStays ==
    ASSUME NEW g \in Guests, NEW h \in Guests, NEW entry \in Addr, SamePage(g, h, entry)
    PROVE  CanEmit(h, Plan(h, entry)) = CanEmit(g, Plan(g, entry))
<1> DEFINE a == PlanOf(g, entry, MaxOps)
           b == PlanOf(h, entry, MaxOps)
           T == {i \in Nat : i <= MaxOps => b[i] = a[i]}
<1>1. MaxOps \in Nat
  BY NativeAssumption
<1>2. a[0] = PlanBegun(entry) /\ \A i \in 1 .. MaxOps : a[i] = Extend(g, entry, a[i - 1])
  BY <1>1, PlanOfDefined
<1>3. b[0] = PlanBegun(entry) /\ \A i \in 1 .. MaxOps : b[i] = Extend(h, entry, b[i - 1])
  BY <1>1, PlanOfDefined
<1>4. \A i \in 0 .. MaxOps : PlanFits(g, entry, i, a[i])
  BY <1>1, PlanOfFits
<1> HIDE DEF a, b
<1>5. 0 \in T
  BY <1>2, <1>3
<1>6. ASSUME NEW i \in Nat, i \in T PROVE i + 1 \in T
  <2>1. CASE i + 1 <= MaxOps
    <3>1. i + 1 \in 1 .. MaxOps /\ i \in 0 .. MaxOps /\ (i + 1) - 1 = i /\ i <= MaxOps
      BY <1>1, <2>1
    <3>2. b[i] = a[i] /\ PlanFits(g, entry, i, a[i])
      BY <1>4, <1>6, <3>1
    <3>3. b[i + 1] = Extend(h, entry, b[i]) /\ a[i + 1] = Extend(g, entry, a[i])
      BY <1>2, <1>3, <3>1
    <3>4. b[i + 1] = a[i + 1]
      BY <3>2, <3>3, ExtendStays
    <3> QED BY <3>4
  <2>2. CASE ~(i + 1 <= MaxOps)
    BY <2>2
  <2> QED BY <2>1, <2>2
<1> HIDE DEF T
<1>7. MaxOps \in T
  BY <1>1, <1>5, <1>6, SetInduction
<1>8. b[MaxOps] = a[MaxOps]
  BY <1>1, <1>7 DEF T
<1>9. Plan(h, entry) = Plan(g, entry)
  BY <1>8, PlanIsPlanOf DEF a, b, SamePage
<1> DEFINE p == Plan(g, entry)
<1>10. PlanFits(g, entry, MaxOps, p)
  BY PlanThatFits
<1> HIDE DEF p
<1>11. ASSUME NEW i \in DOMAIN p.at PROVE View(h, p.at[i]) = View(g, p.at[i])
  <2>1. p.at \in Seq(Addr)
    BY <1>10 DEF PlanFits
  <2>2. i \in 1 .. Len(p.at) /\ p.at[i] \in Addr
    BY <2>1
  <2>3. Planned(g, entry, p, i) /\ p.next \in Addr /\ Page(p.next) = Page(entry)
    BY <1>10, <2>2 DEF PlanFits
  <2>4. entry <= p.at[i] /\ p.at[i] < p.next
    BY <2>3 DEF Planned
  <2>5. p.at[i] <= p.next
    <3>1. p.at[i] \in Nat /\ p.next \in Nat
      BY <2>2, <2>3, PagesOfAddresses
    <3> QED BY <2>4, <3>1
  <2>6. Page(p.at[i]) = Page(entry)
    BY <2>2, <2>3, <2>4, <2>5, BetweenOnPage
  <2> QED BY <2>2, <2>6 DEF SamePage
<1>12. CanEmit(h, p) = CanEmit(g, p)
  BY <1>11 DEF CanEmit
<1> QED BY <1>9, <1>12 DEF p

Refusals == [pc : Addr, gen : 0 .. AlwaysStale]
Sides == [owner : Addr, epoch : Nat, words : Seq(Words)]
Runners ==
    [slots : [0 .. SlotCount - 1 -> Blocks \cup {EmptySlot}], sides : Seq(Sides),
     negative : [0 .. NegativeCount - 1 -> Refusals], seenEpoch : Nat, used : Nat,
     full : BOOLEAN, fullSeen : Nat, staleSeen : Nat]

\* A block of this epoch is as old as its generation says, and no older.
Current(g, slot) ==
    slot.epoch = g.epoch =>
        /\ WindowIsOpen(g, slot)
        /\ slot.gen <= Generation(g, slot.entry)
        /\ slot.gen = Generation(g, slot.entry) => ShowsBlock(g, slot)

\* A block's snapshot, while it has one, is of its words.
Snapshot(r, slot) ==
    slot.kept \in DOMAIN r.sides => r.sides[slot.kept].words = slot.words

SoundSlot(g, r, slot) ==
    slot # EmptySlot =>
        /\ WellMade(slot) /\ slot.gen # AlwaysStale
        /\ slot.kept <= Len(r.sides)
        /\ slot.epoch <= g.epoch /\ Current(g, slot) /\ Snapshot(r, slot)

SoundRefusal(g, e) ==
    e.pc # 0 /\ e.gen # AnyGeneration =>
        /\ e.gen <= Generation(g, e.pc)
        /\ e.gen = Generation(g, e.pc) => ~CanEmit(g, Plan(g, e.pc))

\* What holds of a runner beside a guest: neither a block nor a refusal is ahead of
\* the generations, and one that is level with them is true of memory.
Sound(g, r) ==
    /\ g \in Guests /\ r \in Runners
    /\ \A i \in 0 .. SlotCount - 1 : SoundSlot(g, r, r.slots[i])
    /\ r.seenEpoch <= g.epoch
    /\ r.seenEpoch = g.epoch => \A i \in 0 .. NegativeCount - 1 : SoundRefusal(g, r.negative[i])

--------------------------------------------------------------------------------
\* Generations only grow.
LEMMA GenerationGrows ==
    ASSUME NEW g \in Guests, NEW h, Evolves(g, h), NEW b \in Addr
    PROVE  Generation(h, b) >= Generation(g, b)
<1>1. Generation(g, b) \in 0 .. AlwaysStale /\ AlwaysStale \in Nat
  BY GenerationIsCounted, Layout
<1>2. CASE IsRam(b)
  <2>1. Page(b) \in 0 .. RamPages - 1
    BY <1>2, PagesOfAddresses
  <2>2. ~(Page(b) = RomPage)
    BY <1>2, Layout DEF IsRam, RomPage
  <2>3. Generation(g, b) = g.gen[Page(b)] /\ Generation(h, b) = h.gen[Page(b)]
    BY <1>2, <2>2 DEF Generation
  <2> QED BY <2>1, <2>3 DEF Evolves
<1>3. CASE ~IsRam(b)
  <2>1. Generation(h, b) = Generation(g, b)
    BY <1>3 DEF Generation
  <2> HIDE DEF Generation
  <2> QED BY <1>1, <2>1
<1> QED BY <1>2, <1>3

\* While neither the address map nor a page's generation moves, what the page shows stays.
LEMMA PageStays ==
    ASSUME NEW g \in Guests, NEW h, Evolves(g, h), h.epoch = g.epoch,
           NEW entry \in Addr, Generation(h, entry) = Generation(g, entry),
           Generation(g, entry) # AlwaysStale
    PROVE  SamePage(g, h, entry)
<1>1. h \in Guests /\ g.epoch \in Nat
  BY DEF Evolves, Guests
<1>2. h.mapped = g.mapped
  BY <1>1 DEF Evolves
<1>3. ASSUME NEW b \in Addr, Page(b) = Page(entry) PROVE View(h, b) = View(g, b)
  <2>1. SUFFICES ASSUME View(h, b) # View(g, b) PROVE FALSE
    OBVIOUS
  <2>2. IsRam(b) /\ (h.gen[Page(b)] > g.gen[Page(b)] \/ g.gen[Page(b)] = AlwaysStale)
    BY <1>1, <2>1 DEF Evolves
  <2>3. IsRam(entry) /\ Page(entry) \in 0 .. RamPages - 1
    BY <1>3, <2>2, PagesOfAddresses DEF IsRam
  <2>4. ~(Page(entry) = RomPage)
    BY <2>3, Layout DEF IsRam, RomPage
  <2>5. Generation(g, entry) = g.gen[Page(entry)] /\ Generation(h, entry) = h.gen[Page(entry)]
    BY <2>3, <2>4 DEF Generation
  <2> DEFINE p == Page(entry)
  <2>6. g.gen[p] \in Nat
    <3> HIDE DEF p
    <3>1. g.gen[p] \in 0 .. AlwaysStale
      BY <2>3 DEF Guests, p
    <3> QED BY <3>1
  <2> QED BY <1>3, <2>2, <2>5, <2>6
<1> QED BY <1>2, <1>3 DEF SamePage

\* A block's words are all on its page.
LEMMA BlockStays ==
    ASSUME NEW g \in Guests, NEW h \in Guests, NEW slot, WellMade(slot),
           SamePage(g, h, slot.entry), ShowsBlock(g, slot)
    PROVE  ShowsBlock(h, slot)
<1> SUFFICES ASSUME NEW k \in 1 .. Len(slot.words)
             PROVE  View(h, slot.entry + k - 1) = slot.words[k]
  BY DEF ShowsBlock
<1> DEFINE e == slot.entry
           n == slot.next
           c == e + k - 1
<1>1. e \in Nat /\ n + 1 \in Nat /\ n \in Nat
      /\ n + 1 < Size /\ Len(slot.words) = n + 2 - e
  BY PagesOfAddresses DEF WellMade, Blocks
<1>2. k \in 1 .. n + 2 - e
  BY <1>1
<1>3. View(g, c) = slot.words[k]
  BY DEF ShowsBlock
<1> HIDE DEF e, n
<1>4. c \in 0 .. Size - 1 /\ e <= c /\ c <= n + 1
  BY <1>1, <1>2, Layout
<1>5. c \in Addr
  BY <1>4 DEF Addr
<1> HIDE DEF c
<1>6. Page(c) = Page(slot.entry)
  BY <1>4, <1>5, BlockWords DEF e, n
<1>7. View(h, c) = View(g, c)
  BY <1>5, <1>6 DEF SamePage
<1> QED BY <1>3, <1>7 DEF c, e

\* A block stays sound whatever the guest does,
LEMMA SlotStays ==
    ASSUME NEW g \in Guests, NEW h, Evolves(g, h), NEW r, NEW slot, SoundSlot(g, r, slot)
    PROVE  SoundSlot(h, r, slot)
<1> SUFFICES ASSUME slot # EmptySlot
             PROVE  slot.epoch <= h.epoch /\ Current(h, slot)
  BY DEF SoundSlot
<1>1. /\ WellMade(slot) /\ slot.gen # AlwaysStale
      /\ slot.epoch <= g.epoch /\ Current(g, slot)
  BY DEF SoundSlot
<1>2. /\ h \in Guests /\ g.epoch \in Nat /\ h.epoch \in Nat /\ slot.epoch \in Nat
      /\ h.epoch >= g.epoch /\ slot.entry \in Addr /\ slot.gen \in Nat
      /\ h.mapped # g.mapped => h.epoch > g.epoch
  BY <1>1 DEF Evolves, Guests, WellMade, Blocks
<1>3. slot.epoch <= h.epoch
  BY <1>1, <1>2
<1>4. ASSUME slot.epoch = h.epoch
      PROVE  /\ WindowIsOpen(h, slot)
             /\ slot.gen <= Generation(h, slot.entry)
             /\ slot.gen = Generation(h, slot.entry) => ShowsBlock(h, slot)
  <2>1. slot.epoch = g.epoch /\ h.epoch = g.epoch /\ h.mapped = g.mapped
    BY <1>1, <1>2, <1>4
  <2> DEFINE p == Generation(g, slot.entry)
             q == Generation(h, slot.entry)
  <2>2. WindowIsOpen(g, slot) /\ slot.gen <= p /\ (slot.gen = p => ShowsBlock(g, slot))
    BY <1>1, <2>1 DEF Current
  <2>3. WindowIsOpen(h, slot)
    BY <2>1, <2>2 DEF WindowIsOpen
  <2>4. p \in Nat /\ q \in Nat /\ p <= q
    BY <1>2, GenerationGrows, GenerationIsCounted
  <2>5. ASSUME slot.gen = q PROVE ShowsBlock(h, slot)
    <3>1. p = slot.gen /\ q = p
      <4> HIDE DEF p, q
      <4> QED BY <1>2, <2>2, <2>4, <2>5
    <3>2. SamePage(g, h, slot.entry)
      BY <1>1, <1>2, <2>1, <3>1, PageStays
    <3> QED BY <1>1, <1>2, <2>2, <3>1, <3>2, BlockStays
  <2>6. slot.gen <= q
    <3> HIDE DEF p, q
    <3> QED BY <1>2, <2>2, <2>4
  <2> QED BY <2>3, <2>5, <2>6
<1> QED BY <1>3, <1>4 DEF Current

\* and so does a refusal, while the epoch stays.
LEMMA RefusalStays ==
    ASSUME NEW g \in Guests, NEW h, Evolves(g, h), h.epoch = g.epoch,
           NEW e \in Refusals, SoundRefusal(g, e)
    PROVE  SoundRefusal(h, e)
<1> SUFFICES ASSUME e.pc # 0, e.gen # AnyGeneration
             PROVE  /\ e.gen <= Generation(h, e.pc)
                    /\ e.gen = Generation(h, e.pc) => ~CanEmit(h, Plan(h, e.pc))
  BY DEF SoundRefusal
<1> DEFINE p == Generation(g, e.pc)
           q == Generation(h, e.pc)
<1>1. e.pc \in Addr /\ e.gen \in Nat /\ h \in Guests
  BY DEF Refusals, Evolves
<1>2. e.gen <= p /\ (e.gen = p => ~CanEmit(g, Plan(g, e.pc)))
  BY DEF SoundRefusal
<1>3. p \in Nat /\ q \in Nat /\ p <= q
  BY <1>1, GenerationGrows, GenerationIsCounted
<1>4. ASSUME e.gen = q PROVE ~CanEmit(h, Plan(h, e.pc))
  <2>1. p = e.gen /\ q = p
    <3> HIDE DEF p, q
    <3> QED BY <1>1, <1>2, <1>3, <1>4
  <2>2. p # AlwaysStale
    BY <2>1 DEF AnyGeneration
  <2>3. SamePage(g, h, e.pc)
    BY <1>1, <2>1, <2>2, PageStays
  <2> QED BY <1>1, <1>2, <2>1, <2>3, PlanStays
<1>5. e.gen <= q
  <2> HIDE DEF p, q
  <2> QED BY <1>1, <1>2, <1>3
<1> QED BY <1>4, <1>5

\* Whatever the guest does, what the runner remembers stays sound.
LEMMA SoundStays ==
    ASSUME NEW g, NEW h, NEW r, Sound(g, r), Evolves(g, h)
    PROVE  Sound(h, r)
<1>1. g \in Guests /\ h \in Guests /\ r \in Runners /\ g.epoch \in Nat /\ h.epoch \in Nat
      /\ r.seenEpoch \in Nat /\ r.seenEpoch <= g.epoch /\ g.epoch <= h.epoch
      /\ \A i \in 0 .. NegativeCount - 1 : r.negative[i] \in Refusals
  BY DEF Sound, Evolves, Guests, Runners
<1>2. \A i \in 0 .. SlotCount - 1 : SoundSlot(h, r, r.slots[i])
  BY <1>1, SlotStays DEF Sound
<1>3. r.seenEpoch <= h.epoch
  BY <1>1
<1>4. ASSUME r.seenEpoch = h.epoch, NEW i \in 0 .. NegativeCount - 1
      PROVE  SoundRefusal(h, r.negative[i])
  <2>1. r.seenEpoch = g.epoch /\ h.epoch = g.epoch
    BY <1>1, <1>4
  <2>2. SoundRefusal(g, r.negative[i])
    BY <2>1 DEF Sound
  <2> QED BY <1>1, <2>1, <2>2, RefusalStays
<1> QED BY <1>1, <1>2, <1>3, <1>4 DEF Sound

\* Tables that hold nothing hold nothing wrong.
LEMMA NothingRefused ==
    /\ EmptyRunner.negative \in [0 .. NegativeCount - 1 -> Refusals]
    /\ \A g : \A i \in 0 .. NegativeCount - 1 : SoundRefusal(g, EmptyRunner.negative[i])
    /\ EmptyRunner.slots \in [0 .. SlotCount - 1 -> Blocks \cup {EmptySlot}]
    /\ \A i \in 0 .. SlotCount - 1 : EmptyRunner.slots[i] = EmptySlot
<1>1. 0 \in Addr /\ 0 \in 0 .. AlwaysStale
  BY Layout DEF Addr
<1> DEFINE e == [pc |-> 0, gen |-> 0]
<1>2. e \in Refusals /\ e.pc = 0
  BY <1>1 DEF Refusals
<1>3. EmptyRunner.negative = [i \in 0 .. NegativeCount - 1 |-> e]
  BY DEF EmptyRunner
<1>4. EmptyRunner.slots = [i \in 0 .. SlotCount - 1 |-> EmptySlot]
  BY DEF EmptyRunner
<1> HIDE DEF e
<1>5. /\ EmptyRunner.negative \in [0 .. NegativeCount - 1 -> Refusals]
      /\ \A i \in 0 .. NegativeCount - 1 : EmptyRunner.negative[i] = e
  BY <1>2, <1>3
<1>6. \A g : SoundRefusal(g, e)
  BY <1>2 DEF SoundRefusal
<1>7. /\ EmptyRunner.slots \in [0 .. SlotCount - 1 -> Blocks \cup {EmptySlot}]
      /\ \A i \in 0 .. SlotCount - 1 : EmptyRunner.slots[i] = EmptySlot
  BY <1>4
<1> QED BY <1>5, <1>6, <1>7

\* A runner begins sound.
LEMMA NothingIsSound ==
    ASSUME NEW g \in Guests
    PROVE  Sound(g, EmptyRunner)
<1>1. /\ EmptyRunner.sides = <<>> /\ EmptyRunner.seenEpoch = 0 /\ g.epoch \in Nat
  BY DEF EmptyRunner, Guests
<1>2. EmptyRunner \in Runners
  <2> DEFINE s == EmptyRunner.slots
             n == EmptyRunner.negative
  <2>1. EmptyRunner = [slots |-> s, sides |-> <<>>, negative |-> n, seenEpoch |-> 0,
                       used |-> 0, full |-> FALSE, fullSeen |-> 0, staleSeen |-> 0]
    BY DEF EmptyRunner
  <2>2. s \in [0 .. SlotCount - 1 -> Blocks \cup {EmptySlot}]
        /\ n \in [0 .. NegativeCount - 1 -> Refusals]
    BY NothingRefused
  <2>3. <<>> \in Seq(Sides)
    OBVIOUS
  <2> HIDE DEF s, n
  <2> QED BY <2>1, <2>2, <2>3 DEF Runners
<1>3. \A i \in 0 .. SlotCount - 1 : SoundSlot(g, EmptyRunner, EmptyRunner.slots[i])
  BY NothingRefused DEF SoundSlot
<1> QED BY <1>1, <1>2, <1>3, NothingRefused DEF Sound

\* Only the counters move.
LEMMA CountersMove ==
    ASSUME NEW g, NEW r, Sound(g, r), NEW q \in Runners,
           q.slots = r.slots, q.sides = r.sides, q.negative = r.negative,
           q.seenEpoch = r.seenEpoch
    PROVE  Sound(g, q)
<1>1. \A i \in 0 .. SlotCount - 1 : SoundSlot(g, q, q.slots[i])
  BY DEF Sound, SoundSlot, Snapshot
<1> QED BY <1>1 DEF Sound

\* To notice a new epoch forgets the refusals and keeps the blocks.
LEMMA NoticedIsSound ==
    ASSUME Sound(guest, runner)
    PROVE  /\ Sound(guest, Noticed) /\ Noticed.seenEpoch = guest.epoch
           /\ Noticed.slots = runner.slots /\ Noticed.sides = runner.sides
<1>1. CASE runner.seenEpoch = guest.epoch
  <2>1. Noticed = runner
    BY <1>1 DEF Noticed
  <2> QED BY <1>1, <2>1
<1>2. CASE runner.seenEpoch # guest.epoch
  <2> DEFINE e == guest.epoch
             n == EmptyRunner.negative
             q == [runner EXCEPT !.seenEpoch = e, !.negative = n]
  <2>1. Noticed = q
    BY <1>2 DEF Noticed
  <2>2. runner \in Runners /\ e \in Nat
    BY DEF Sound, Guests
  <2>3. n \in [0 .. NegativeCount - 1 -> Refusals]
        /\ \A i \in 0 .. NegativeCount - 1 : SoundRefusal(guest, n[i])
    BY NothingRefused
  <2> HIDE DEF e, n
  <2>4. /\ q \in Runners /\ q.seenEpoch = e /\ q.negative = n
        /\ q.slots = runner.slots /\ q.sides = runner.sides
    BY <2>2, <2>3 DEF Runners
  <2> HIDE DEF q
  <2>5. \A i \in 0 .. SlotCount - 1 : SoundSlot(guest, q, q.slots[i])
    BY <2>4 DEF Sound, SoundSlot, Snapshot
  <2>6. q.seenEpoch <= guest.epoch
    BY <2>2, <2>4 DEF e
  <2>7. Sound(guest, q)
    BY <2>3, <2>4, <2>5, <2>6 DEF Sound
  <2> QED BY <2>1, <2>4, <2>7 DEF e
<1> QED BY <1>1, <1>2

\* An emptied runner is sound beside any guest of the epoch.
LEMMA EmptiedIsSound ==
    ASSUME NEW g, NEW r, Sound(g, r), NEW h \in Guests, h.epoch = g.epoch
    PROVE  /\ Sound(h, Emptied(r))
           /\ Emptied(r).slots = EmptyRunner.slots
<1> DEFINE s == EmptyRunner.slots
           n == EmptyRunner.negative
           q == Emptied(r)
<1>1. r \in Runners
  BY DEF Sound
<1>2. /\ s \in [0 .. SlotCount - 1 -> Blocks \cup {EmptySlot}]
      /\ n \in [0 .. NegativeCount - 1 -> Refusals]
      /\ \A i \in 0 .. SlotCount - 1 : s[i] = EmptySlot
      /\ \A i \in 0 .. NegativeCount - 1 : SoundRefusal(h, n[i])
  BY NothingRefused
<1>3. q = [r EXCEPT !.slots = s, !.sides = <<>>, !.negative = n, !.used = 0, !.full = FALSE]
  BY DEF Emptied
<1>4. <<>> \in Seq(Sides)
  OBVIOUS
<1> HIDE DEF s, n, q
<1>5. q \in Runners /\ q.slots = s /\ q.negative = n /\ q.seenEpoch = r.seenEpoch
  BY <1>1, <1>2, <1>3, <1>4 DEF Runners
<1>6. \A i \in 0 .. SlotCount - 1 : SoundSlot(h, q, q.slots[i])
  BY <1>2, <1>5 DEF SoundSlot
<1>7. q.seenEpoch <= h.epoch
  BY <1>5 DEF Sound
<1>8. Sound(h, q)
  BY <1>2, <1>5, <1>6, <1>7 DEF Sound
<1> QED BY <1>5, <1>8 DEF q, s

\* A refusal may be remembered when it is true, or marked for any generation.
LEMMA RememberIsSound ==
    ASSUME NEW g, NEW r, Sound(g, r), NEW pc \in Addr, NEW gen \in 0 .. AlwaysStale,
           gen # AnyGeneration => gen <= Generation(g, pc) /\ ~CanEmit(g, Plan(g, pc))
    PROVE  /\ Sound(g, Remember(r, pc, gen))
           /\ Remember(r, pc, gen).slots = r.slots
<1> DEFINE q == Remember(r, pc, gen)
           e == [pc |-> pc, gen |-> gen]
           k == NegativeOf(pc)
<1>1. CASE pc = 0
  BY <1>1 DEF Remember
<1>2. CASE pc # 0
  <2>1. q = [r EXCEPT !.negative[k] = e]
    BY <1>2 DEF Remember
  <2>2. k \in 0 .. NegativeCount - 1
    <3>1. NegativeCount \in Nat \ {0} /\ pc \in Nat
      BY NativeAssumption, PagesOfAddresses
    <3> QED BY <3>1 DEF NegativeOf
  <2>3. e \in Refusals /\ e.pc = pc /\ e.gen = gen
    BY DEF Refusals
  <2>4. SoundRefusal(g, e)
    BY <2>3 DEF SoundRefusal
  <2>5. r \in Runners
    BY DEF Sound
  <2> HIDE DEF q, e, k
  <2> DEFINE n == [r.negative EXCEPT ![k] = e]
  <2>6. n \in [0 .. NegativeCount - 1 -> Refusals]
        /\ \A i \in 0 .. NegativeCount - 1 : n[i] = IF i = k THEN e ELSE r.negative[i]
    BY <2>2, <2>3, <2>5 DEF Runners
  <2>7. q = [r EXCEPT !.negative = n]
    BY <2>1
  <2> HIDE DEF n
  <2>8. /\ q \in Runners /\ q.negative = n /\ q.slots = r.slots /\ q.sides = r.sides
        /\ q.seenEpoch = r.seenEpoch
    BY <2>5, <2>6, <2>7 DEF Runners
  <2>9. \A i \in 0 .. SlotCount - 1 : SoundSlot(g, q, q.slots[i])
    BY <2>8 DEF Sound, SoundSlot, Snapshot
  <2>10. q.seenEpoch = g.epoch =>
            \A i \in 0 .. NegativeCount - 1 : SoundRefusal(g, q.negative[i])
    BY <2>4, <2>6, <2>8 DEF Sound
  <2>11. Sound(g, q)
    BY <2>8, <2>9, <2>10 DEF Sound
  <2> QED BY <2>8, <2>11 DEF q
<1> QED BY <1>1, <1>2

\* A slot takes another block, and the side table may take the block's words.
LEMMA SlotTaken ==
    ASSUME NEW g, NEW r, Sound(g, r), NEW q \in Runners, NEW k \in 0 .. SlotCount - 1, NEW slot,
           \A i \in 0 .. SlotCount - 1 : q.slots[i] = IF i = k THEN slot ELSE r.slots[i],
           SoundSlot(g, q, slot),
           Len(q.sides) >= Len(r.sides), \A n \in 1 .. Len(r.sides) : q.sides[n] = r.sides[n],
           q.negative = r.negative, q.seenEpoch = r.seenEpoch
    PROVE  Sound(g, q) /\ q.slots[k] = slot
<1>1. r \in Runners /\ r.slots \in [0 .. SlotCount - 1 -> Blocks \cup {EmptySlot}]
      /\ r.sides \in Seq(Sides) /\ q.sides \in Seq(Sides)
  BY DEF Sound, Runners
<1>2. \A i \in 0 .. SlotCount - 1 : q.slots[i] = IF i = k THEN slot ELSE r.slots[i]
  OBVIOUS
<1>3. ASSUME NEW i \in 0 .. SlotCount - 1, i # k PROVE SoundSlot(g, q, r.slots[i])
  <2> DEFINE s == r.slots[i]
  <2> SUFFICES ASSUME s # EmptySlot PROVE s.kept <= Len(q.sides) /\ Snapshot(q, s)
    BY DEF Sound, SoundSlot
  <2>1. WellMade(s) /\ s.kept <= Len(r.sides) /\ Snapshot(r, s)
    BY DEF Sound, SoundSlot
  <2>2. s.kept \in Int
    BY <2>1 DEF WellMade, Blocks
  <2> HIDE DEF s
  <2>3. s.kept <= Len(q.sides)
    BY <1>1, <2>1, <2>2
  <2>4. ASSUME s.kept \in DOMAIN q.sides PROVE q.sides[s.kept].words = s.words
    <3>1. s.kept \in 1 .. Len(r.sides) /\ s.kept \in DOMAIN r.sides
      BY <1>1, <2>1, <2>2, <2>4
    <3> QED BY <2>1, <3>1 DEF Snapshot
  <2> QED BY <2>3, <2>4 DEF Snapshot
<1>4. \A i \in 0 .. SlotCount - 1 : SoundSlot(g, q, q.slots[i])
  BY <1>2, <1>3
<1> QED BY <1>2, <1>4 DEF Sound

\* A block made, or found unchanged, of what memory shows now.
MadeNow(g, slot) ==
    /\ WellMade(slot) /\ slot.epoch = g.epoch /\ slot.gen = Generation(g, slot.entry)
    /\ slot.gen # AlwaysStale /\ ShowsBlock(g, slot)

\* Every slot stays, is emptied, or takes a block of now.
KeepsOrMakes(g, old, new) ==
    \A i \in 0 .. SlotCount - 1 : new[i] \in {old[i], EmptySlot} \/ MadeNow(g, new[i])

\* The instruction to run has an address, and a slot.
LEMMA HereIsAnAddress ==
    ASSUME NEW g \in Guests
    PROVE  Here(g) \in Addr /\ SlotOf(Here(g)) \in 0 .. SlotCount - 1
<1>1. Here(g) \in Addr
  BY PlusIsAddress DEF Here, Guests
<1> DEFINE c == Here(g)
<1>2. c \in Nat /\ SlotCount \in Nat \ {0}
  BY <1>1, PagesOfAddresses, NativeAssumption
<1> HIDE DEF c
<1>3. SlotOf(c) \in 0 .. SlotCount - 1
  BY <1>2 DEF SlotOf
<1> QED BY <1>1, <1>3 DEF c

\* A guest whose prefetched words are those of memory stands on the boundary before the
\* block that begins where it is.
LEMMA CoherentIsOnBoundary ==
    ASSUME NEW slot, WellMade(slot), NEW g, Ready(g, slot), Coherent(g), slot.entry = Here(g)
    PROVE  g = Boundary(g, slot, slot.entry)
<1> DEFINE c == slot.entry
<1>1. g \in Guests /\ g.pc \in Addr
  BY DEF Ready, Guests
<1>2. c \in Addr /\ slot.next \in Addr /\ c < slot.next
  BY DEF WellMade, Blocks
<1>3. c \in Nat /\ slot.next \in Nat
  BY <1>2, PagesOfAddresses
<1>4. c <= c /\ c <= slot.next /\ c <= slot.next + 1
      /\ c + 1 <= slot.next + 1 /\ c <= c + 1
  BY <1>2, <1>3
<1>5. c + 1 \in Addr
  BY <1>2, <1>4, <1>1, BoundaryKeeps
<1>6. Plus(c, 2) = g.pc
  BY <1>1, PlusBack DEF Here
<1>7. Plus(g.pc, -1) = c + 1
  <2>1. Plus(Plus(c, 2), -1) = Plus(c, 1)
    BY <1>2, PlusBack
  <2>2. Plus(c, 1) = c + 1
    BY <1>2, <1>5, PlusIsAddress
  <2> QED BY <1>6, <2>1, <2>2
<1>8. View(g, c) = Baked(slot, c) /\ View(g, c + 1) = Baked(slot, c + 1)
  BY <1>2, <1>4, <1>5, BlockWords DEF Ready
<1>9. g.ir = Baked(slot, c) /\ g.irc = Baked(slot, c + 1)
  BY <1>7, <1>8 DEF Coherent
<1>10. Alike(g, g)
  BY DEF Alike, SameMemory
<1> HIDE DEF c
<1>11. slot.entry <= c
  BY <1>3 DEF c
<1>12. g = Boundary(g, slot, c)
  BY <1>1, <1>2, <1>4, <1>6, <1>9, <1>10, <1>11, StaysOnBoundary
<1> QED BY <1>12 DEF c

\* A run of a block that may run.
LEMMA RunIsSound ==
    ASSUME NEW r, Sound(guest, r), NEW slot, WellMade(slot), Ready(guest, slot),
           slot.entry = Here(guest), Run(r, slot)
    PROVE  /\ Evolves(guest, guest') /\ Sound(guest', runner')
           /\ runner'.slots = r.slots
           /\ Coherent(guest) => IsInstructions
<1> DEFINE run == RunBlock(guest, slot)
           N == Len(slot.at)
<1>1. /\ run.exit \in {"none", "guard", "self", "taken"}
      /\ run.ran \in 0 .. N
      /\ run.exit \notin {"guard", "self"} => run.ran > 0
      /\ Evolves(guest, run.guest)
      /\ guest = Boundary(guest, slot, slot.entry) => run.guest = Steps(guest, run.ran)
  BY BlockRuns
<1>2. /\ runner' = IF run.exit = "self" THEN Remember(r, slot.entry, AnyGeneration) ELSE r
      /\ guest' = IF run.exit \in {"guard", "self"} /\ run.ran = 0
                  THEN Step(run.guest) ELSE run.guest
  BY DEF Run
<1>3. N \in 1 .. MaxOps /\ MaxOps \in Nat
  BY NativeAssumption DEF WellMade
<1>4. guest \in Guests /\ slot.entry \in Addr
  BY DEF Ready, WellMade, Blocks
<1> HIDE DEF run, N
<1>5. AnyGeneration \in 0 .. AlwaysStale
  BY Layout DEF AnyGeneration
<1>6. Sound(guest, runner') /\ runner'.slots = r.slots
  BY <1>2, <1>4, <1>5, RememberIsSound
<1>7. Evolves(guest, guest')
  <2>1. run.guest \in Guests
    BY <1>1 DEF Evolves
  <2>2. Evolves(run.guest, Step(run.guest))
    BY <2>1, StepEvolves
  <2>3. Evolves(guest, Step(run.guest))
    BY <1>1, <1>4, <2>2, EvolvesTransitive
  <2> QED BY <1>1, <1>2, <2>3
<1>8. Sound(guest', runner')
  BY <1>6, <1>7, SoundStays
<1>9. ASSUME Coherent(guest) PROVE IsInstructions
  <2>1. run.guest = Steps(guest, run.ran)
    BY <1>1, <1>9, CoherentIsOnBoundary
  <2>2. CASE run.exit \in {"guard", "self"} /\ run.ran = 0
    <3>1. guest' = Step(Steps(guest, 0))
      BY <1>2, <2>1, <2>2
    <3>2. Steps(guest, 0 + 1) = Step(Steps(guest, 0))
      BY StepsOneByOne
    <3>3. guest' = Steps(guest, 1) /\ 1 \in 1 .. MaxOps
      BY <1>3, <3>1, <3>2
    <3> QED BY <3>3 DEF IsInstructions
  <2>3. CASE ~(run.exit \in {"guard", "self"} /\ run.ran = 0)
    <3>1. guest' = Steps(guest, run.ran)
      BY <1>2, <2>1, <2>3
    <3>2. run.ran \in 1 .. MaxOps
      BY <1>1, <1>3, <2>3
    <3> QED BY <3>1, <3>2 DEF IsInstructions
  <2> QED BY <2>2, <2>3
<1> QED BY <1>6, <1>7, <1>8, <1>9

\* A block whose key matches may run.
LEMMA HitIsReady ==
    ASSUME Sound(guest, runner), NEW i \in 0 .. SlotCount - 1, NEW pc,
           KeyMatches(runner.slots[i], pc)
    PROVE  LET slot == runner.slots[i] IN
           WellMade(slot) /\ Ready(guest, slot) /\ slot.entry = pc
<1> DEFINE slot == runner.slots[i]
<1>1. /\ slot.entry # 0 /\ slot.entry = pc /\ slot.epoch = guest.epoch
      /\ slot.gen = Generation(guest, slot.entry)
  BY DEF KeyMatches
<1>2. slot # EmptySlot
  BY <1>1 DEF EmptySlot
<1>3. WellMade(slot) /\ Current(guest, slot) /\ guest \in Guests
  BY <1>2 DEF Sound, SoundSlot
<1> HIDE DEF slot
<1> QED BY <1>1, <1>3 DEF Current, Ready, slot

\* BlockRunner's turns, one by one: the key matches.
LEMMA HitIsSound ==
    ASSUME Sound(guest, runner), Hit
    PROVE  /\ Evolves(guest, guest') /\ Sound(guest', runner')
           /\ KeepsOrMakes(guest, runner.slots, runner'.slots)
           /\ Coherent(guest) => IsInstructions
<1> DEFINE pc == Here(guest)
           k == SlotOf(pc)
           slot == runner.slots[k]
<1>1. Sound(guest, Noticed) /\ Noticed.slots = runner.slots
  BY NoticedIsSound
<1>2. pc \in Addr /\ k \in 0 .. SlotCount - 1
  BY HereIsAnAddress DEF Sound
<1>3. KeyMatches(slot, pc) /\ Run(Noticed, slot)
  BY <1>1 DEF Hit
<1>4. WellMade(slot) /\ Ready(guest, slot) /\ slot.entry = pc
  BY <1>2, <1>3, HitIsReady
<1> HIDE DEF slot
<1>5. /\ Evolves(guest, guest') /\ Sound(guest', runner') /\ runner'.slots = runner.slots
      /\ Coherent(guest) => IsInstructions
  BY <1>1, <1>3, <1>4, RunIsSound
<1> QED BY <1>5 DEF KeepsOrMakes

\* The words are found unchanged under another generation.
LEMMA RevalidateIsSound ==
    ASSUME Sound(guest, runner), Revalidate
    PROVE  /\ Evolves(guest, guest') /\ Sound(guest', runner')
           /\ KeepsOrMakes(guest, runner.slots, runner'.slots)
           /\ Coherent(guest) => IsInstructions
<1> DEFINE pc == Here(guest)
           k == SlotOf(pc)
           slot == runner.slots[k]
           now == Generation(guest, pc)
           new == [slot EXCEPT !.gen = now]
           q == [Noticed EXCEPT !.slots[k].gen = now]
<1>1. Sound(guest, Noticed) /\ Noticed.slots = runner.slots /\ Noticed \in Runners
  BY NoticedIsSound DEF Sound
<1>2. pc \in Addr /\ k \in 0 .. SlotCount - 1 /\ guest \in Guests
  BY HereIsAnAddress DEF Sound
<1>3. OnlyGenerationMoved(slot, pc) /\ Verified(Noticed, slot) /\ Run(q, new)
  BY <1>1 DEF Revalidate
<1>4. /\ slot.entry # 0 /\ slot.entry = pc /\ slot.epoch = guest.epoch /\ now # AlwaysStale
  BY <1>3 DEF OnlyGenerationMoved
<1>5. slot # EmptySlot
  BY <1>4 DEF EmptySlot
<1>6. SoundSlot(guest, Noticed, slot)
  BY <1>1, <1>2 DEF Sound
<1>7. /\ WellMade(slot) /\ Current(guest, slot) /\ slot.kept <= Len(Noticed.sides)
      /\ Snapshot(Noticed, slot) /\ slot \in Blocks
  BY <1>5, <1>6 DEF SoundSlot, WellMade
<1>8. now \in 0 .. AlwaysStale
  BY <1>2, GenerationIsCounted
<1> HIDE DEF slot, now, k, pc
<1>9. ShowsBlock(guest, slot)
  <2>1. ASSUME NEW words, words = slot.words, SameWords(words, slot.entry)
        PROVE  ShowsBlock(guest, slot)
    <3>1. DOMAIN slot.words = 1 .. Len(slot.words)
      BY <1>7 DEF Blocks
    <3> QED BY <2>1, <3>1 DEF SameWords, ShowsBlock
  <2>2. CASE SameWords(slot.words, slot.entry)
    BY <2>1, <2>2
  <2>3. CASE OwnsSide(Noticed, slot) /\ SameWords(Noticed.sides[slot.kept].words, slot.entry)
    <3>1. Noticed.sides[slot.kept].words = slot.words
      BY <1>7, <2>3 DEF OwnsSide, Snapshot
    <3> QED BY <2>1, <2>3, <3>1
  <2> QED BY <1>3, <2>2, <2>3 DEF Verified
<1>10. WindowIsOpen(guest, slot)
  BY <1>4, <1>7 DEF Current
<1>11. /\ new.entry = slot.entry /\ new.epoch = slot.epoch /\ new.gen = now /\ new.at = slot.at
       /\ new.next = slot.next /\ new.words = slot.words /\ new.kept = slot.kept
       /\ new \in Blocks
  BY <1>7, <1>8 DEF Blocks
<1> HIDE DEF new
<1>12. \A c : Baked(new, c) = Baked(slot, c)
  BY <1>11 DEF Baked
<1>13. WellMade(new)
  <2>1. \A i \in 1 .. Len(slot.at) : Translated(new, i)
    BY <1>7, <1>11, <1>12 DEF WellMade, Translated
  <2> QED BY <1>7, <1>11, <2>1 DEF WellMade
<1>14. ShowsBlock(guest, new) /\ WindowIsOpen(guest, new)
  BY <1>9, <1>10, <1>11, <1>12 DEF ShowsBlock, WindowIsOpen
<1>15. Ready(guest, new) /\ new.entry = pc
  BY <1>2, <1>4, <1>11, <1>14 DEF Ready
<1>16. Current(guest, new) /\ new.epoch <= guest.epoch /\ new.gen # AlwaysStale
  <2>1. guest.epoch \in Nat
    BY <1>2 DEF Guests
  <2> QED BY <1>4, <1>8, <1>11, <1>14, <2>1 DEF Current, now
<1>17. /\ q \in Runners /\ q.sides = Noticed.sides /\ q.negative = Noticed.negative
       /\ q.seenEpoch = Noticed.seenEpoch
       /\ \A i \in 0 .. SlotCount - 1 :
            q.slots[i] = IF i = k THEN new ELSE Noticed.slots[i]
  <2> DEFINE s == [Noticed.slots EXCEPT ![k] = new]
  <2>1. q = [Noticed EXCEPT !.slots = s]
    BY <1>1 DEF new, slot
  <2>2. /\ s \in [0 .. SlotCount - 1 -> Blocks \cup {EmptySlot}]
        /\ \A i \in 0 .. SlotCount - 1 : s[i] = IF i = k THEN new ELSE Noticed.slots[i]
    BY <1>1, <1>2, <1>11 DEF Runners
  <2> HIDE DEF s, q
  <2>3. q \in Runners /\ q.slots = s /\ q.sides = Noticed.sides
        /\ q.negative = Noticed.negative /\ q.seenEpoch = Noticed.seenEpoch
    BY <1>1, <2>1, <2>2 DEF Runners
  <2> QED BY <2>2, <2>3
<1> HIDE DEF q
<1>18. SoundSlot(guest, q, new)
  BY <1>7, <1>11, <1>13, <1>16, <1>17 DEF SoundSlot, Snapshot
<1>19. /\ Len(q.sides) >= Len(Noticed.sides)
       /\ \A n \in 1 .. Len(Noticed.sides) : q.sides[n] = Noticed.sides[n]
  <2>1. Len(Noticed.sides) \in Nat
    BY <1>1 DEF Runners
  <2> QED BY <1>17, <2>1
<1>20. Sound(guest, q) /\ q.slots[k] = new
  BY <1>1, <1>2, <1>17, <1>18, <1>19, SlotTaken
<1>21. /\ Evolves(guest, guest') /\ Sound(guest', runner') /\ runner'.slots = q.slots
       /\ Coherent(guest) => IsInstructions
  BY <1>3, <1>13, <1>15, <1>20, RunIsSound DEF pc
<1>22. MadeNow(guest, new)
  BY <1>4, <1>11, <1>13, <1>14, <1>16 DEF MadeNow, now
<1>23. KeepsOrMakes(guest, runner.slots, runner'.slots)
  <2>1. runner.slots \in [0 .. SlotCount - 1 -> Blocks \cup {EmptySlot}]
    BY DEF Sound, Runners
  <2>2. \A i \in 0 .. SlotCount - 1 : runner'.slots[i] = IF i = k THEN new ELSE runner.slots[i]
    BY <1>1, <1>17, <1>21, <2>1
  <2> QED BY <1>22, <2>2 DEF KeepsOrMakes
<1> QED BY <1>21, <1>23

\* What a translation leaves in the tables.
LEMMA InstallIsSound ==
    ASSUME NEW r, Sound(guest, r), NEW pc \in Addr, CanEmit(guest, Plan(guest, pc))
    PROVE  LET q == Install(r, pc, Plan(guest, pc))
               k == SlotOf(pc)
           IN  /\ Sound(guest, q) /\ MadeNow(guest, q.slots[k])
               /\ WellMade(q.slots[k]) /\ Ready(guest, q.slots[k]) /\ q.slots[k].entry = pc
               /\ \A i \in 0 .. SlotCount - 1 : i # k => q.slots[i] = r.slots[i]
<1> DEFINE plan == Plan(guest, pc)
           words == BakedWords(guest, pc, plan)
           short == Len(words) <= ShortWords
           beside == ~short /\ Len(r.sides) < SideCount
           kept == IF short THEN InSlot ELSE IF beside THEN Len(r.sides) + 1 ELSE Nowhere
           slot == [entry |-> pc, epoch |-> guest.epoch, gen |-> Generation(guest, pc),
                    at |-> plan.at, next |-> plan.next, words |-> words, kept |-> kept]
           side == [owner |-> pc, epoch |-> guest.epoch, words |-> words]
           sides == IF beside THEN Append(r.sides, side) ELSE r.sides
           used == r.used + Len(plan.at)
           k == SlotOf(pc)
           slots == [r.slots EXCEPT ![k] = slot]
           q == Install(r, pc, plan)
<1>1. r \in Runners /\ guest \in Guests /\ guest.epoch \in Nat
  BY DEF Sound, Guests
<1>2. k \in 0 .. SlotCount - 1
  <2>1. pc \in Nat /\ SlotCount \in Nat \ {0}
    BY PagesOfAddresses, NativeAssumption
  <2> QED BY <2>1 DEF SlotOf
<1>3. q = [r EXCEPT !.used = used, !.slots = slots, !.sides = sides]
  BY DEF Install
<1>4. r.sides \in Seq(Sides) /\ r.slots \in [0 .. SlotCount - 1 -> Blocks \cup {EmptySlot}]
      /\ r.used \in Nat
  BY <1>1 DEF Runners
<1>5. kept \in Int /\ kept <= Len(sides)
      /\ (kept \in DOMAIN sides => beside /\ kept = Len(r.sides) + 1)
  <2> DEFINE n == Len(r.sides)
  <2>1. n \in Nat /\ Len(Append(r.sides, side)) = n + 1
    BY <1>4
  <2>2. InSlot = 0 /\ Nowhere = -1
    BY DEF InSlot, Nowhere
  <2>3. DOMAIN sides = 1 .. Len(sides) /\ Len(sides) = IF beside THEN n + 1 ELSE n
    BY <1>4, <2>1
  <2>4. short \in BOOLEAN /\ beside \in BOOLEAN
    OBVIOUS
  <2>5. kept = IF short THEN 0 ELSE IF beside THEN n + 1 ELSE -1
    BY <2>2
  <2>6. beside => ~short
    OBVIOUS
  <2> DEFINE m == Len(sides)
  <2> HIDE DEF n, kept, sides, short, beside, m
  <2>7. m \in Nat /\ m = IF beside THEN n + 1 ELSE n
    BY <2>1, <2>3 DEF m
  <2>8. kept \in Int /\ kept <= m /\ (kept \in 1 .. m => beside /\ kept = n + 1)
    BY <2>1, <2>5, <2>6, <2>7
  <2> QED BY <2>3, <2>8 DEF m, n
<1> HIDE DEF kept
<1>6. /\ WellMade(slot) /\ ShowsBlock(guest, slot) /\ WindowIsOpen(guest, slot)
      /\ slot.gen # AlwaysStale
  BY <1>1, <1>5, PlanMakesABlock
<1>7. /\ slot.entry = pc /\ slot.epoch = guest.epoch /\ slot.gen = Generation(guest, pc)
      /\ slot.words = words /\ slot.kept = kept
  OBVIOUS
<1>8. slot \in Blocks /\ words \in Seq(Words) /\ used \in Nat
  <2>1. plan.at \in Seq(Addr)
    BY <1>1, PlanThatFits DEF PlanFits
  <2>2. slot \in Blocks
    BY <1>6 DEF WellMade
  <2>3. slot.words \in Seq(Words)
    BY <2>2 DEF Blocks
  <2> QED BY <1>4, <2>1, <2>2, <2>3
<1> HIDE DEF words, slot, plan
<1>9. sides \in Seq(Sides) /\ Len(sides) >= Len(r.sides)
      /\ (\A n \in 1 .. Len(r.sides) : sides[n] = r.sides[n])
      /\ (beside => sides[Len(r.sides) + 1].words = words)
  <2>1. side \in Sides /\ side.words = words
    BY <1>1, <1>8 DEF Sides
  <2> HIDE DEF side, short
  <2>2. CASE beside
    <3>1. sides = Append(r.sides, side)
      BY <2>2
    <3> QED BY <1>4, <2>1, <3>1
  <2>3. CASE ~beside
    <3>1. sides = r.sides
      BY <2>3
    <3>2. Len(r.sides) \in Nat
      BY <1>4
    <3> QED BY <1>4, <2>3, <3>1, <3>2
  <2> QED BY <2>2, <2>3
<1>10. /\ slots \in [0 .. SlotCount - 1 -> Blocks \cup {EmptySlot}]
       /\ \A i \in 0 .. SlotCount - 1 : slots[i] = IF i = k THEN slot ELSE r.slots[i]
  BY <1>2, <1>4, <1>8
<1> HIDE DEF q, sides, slots, used, beside, short, k
<1>11. /\ q \in Runners /\ q.slots = slots /\ q.sides = sides
       /\ q.negative = r.negative /\ q.seenEpoch = r.seenEpoch
  BY <1>1, <1>3, <1>8, <1>9, <1>10 DEF Runners
<1>12. SoundSlot(guest, q, slot)
  <2>1. Current(guest, slot)
    <3>1. Generation(guest, pc) \in Nat
      BY <1>1, GenerationIsCounted
    <3> QED BY <1>6, <1>7, <3>1 DEF Current
  <2>2. slot.epoch <= guest.epoch
    BY <1>1, <1>7
  <2>3. Snapshot(q, slot)
    BY <1>5, <1>7, <1>9, <1>11 DEF Snapshot
  <2> QED BY <1>5, <1>6, <1>7, <1>11, <2>1, <2>2, <2>3 DEF SoundSlot
<1>13. Sound(guest, q) /\ q.slots[k] = slot
  BY <1>2, <1>9, <1>10, <1>11, <1>12, SlotTaken
<1>14. MadeNow(guest, slot) /\ Ready(guest, slot)
  BY <1>1, <1>6, <1>7 DEF MadeNow, Ready
<1> QED BY <1>6, <1>7, <1>10, <1>11, <1>13, <1>14 DEF q, k, plan

\* A block is made, and run.
LEMMA TranslateIsSound ==
    ASSUME Sound(guest, runner), Translate
    PROVE  /\ Evolves(guest, guest') /\ Sound(guest', runner')
           /\ KeepsOrMakes(guest, runner.slots, runner'.slots)
           /\ Coherent(guest) => IsInstructions
<1> DEFINE pc == Here(guest)
           k == SlotOf(pc)
           q == Install(Noticed, pc, Plan(guest, pc))
<1>1. Sound(guest, Noticed) /\ Noticed.slots = runner.slots
  BY NoticedIsSound
<1>2. pc \in Addr /\ k \in 0 .. SlotCount - 1
  BY HereIsAnAddress DEF Sound
<1>3. CanEmit(guest, Plan(guest, pc)) /\ Run(q, q.slots[k])
  BY DEF Translate
<1>4. /\ Sound(guest, q) /\ MadeNow(guest, q.slots[k])
      /\ WellMade(q.slots[k]) /\ Ready(guest, q.slots[k]) /\ q.slots[k].entry = pc
      /\ \A i \in 0 .. SlotCount - 1 : i # k => q.slots[i] = Noticed.slots[i]
  BY <1>1, <1>2, <1>3, InstallIsSound
<1> HIDE DEF q
<1>5. /\ Evolves(guest, guest') /\ Sound(guest', runner') /\ runner'.slots = q.slots
      /\ Coherent(guest) => IsInstructions
  BY <1>3, <1>4, RunIsSound
<1>6. KeepsOrMakes(guest, runner.slots, runner'.slots)
  BY <1>1, <1>4, <1>5 DEF KeepsOrMakes
<1> QED BY <1>5, <1>6

--------------------------------------------------------------------------------
\* The turn is the interpreter's.
LEMMA DeclineIsSound ==
    ASSUME NEW r, Sound(guest, r), Decline(r),
           \A i \in 0 .. SlotCount - 1 : r.slots[i] \in {runner.slots[i], EmptySlot}
    PROVE  /\ Evolves(guest, guest') /\ Sound(guest', runner')
           /\ KeepsOrMakes(guest, runner.slots, runner'.slots)
<1>1. runner' = r /\ guest' = Step(guest)
  BY DEF Decline
<1>2. Evolves(guest, guest')
  BY <1>1, StepEvolves DEF Sound
<1> QED BY <1>1, <1>2, SoundStays DEF KeepsOrMakes

\* The runner declines: everything but the memory of it stays.
LEMMA TurnIsSound ==
    ASSUME Sound(guest, runner),
           FullDeferred \/ KnownFailure \/ Refuse \/ Saturated \/ NoRoom
    PROVE  /\ Evolves(guest, guest') /\ Sound(guest', runner')
           /\ KeepsOrMakes(guest, runner.slots, runner'.slots)
<1> DEFINE p == Noticed
<1>1. Sound(guest, p) /\ p.slots = runner.slots /\ p \in Runners /\ guest \in Guests
  BY NoticedIsSound DEF Sound
<1>2. CASE FullDeferred
  <2> DEFINE q == [Emptied(p) EXCEPT !.fullSeen = 0]
             r == [p EXCEPT !.fullSeen = @ + 1]
  <2>1. CASE Decline(q)
    <3> DEFINE e == Emptied(p)
    <3>1. Sound(guest, e) /\ e.slots = EmptyRunner.slots
      BY <1>1, EmptiedIsSound
    <3>2. e \in Runners
      BY <3>1 DEF Sound
    <3> HIDE DEF e
    <3>3. q = [e EXCEPT !.fullSeen = 0]
      BY DEF e
    <3> HIDE DEF q
    <3>4. /\ q \in Runners /\ q.slots = e.slots /\ q.sides = e.sides /\ q.negative = e.negative
          /\ q.seenEpoch = e.seenEpoch
      BY <3>2, <3>3 DEF Runners
    <3>5. Sound(guest, q)
      BY <3>1, <3>4, CountersMove
    <3>6. \A i \in 0 .. SlotCount - 1 : q.slots[i] = EmptySlot
      BY <3>1, <3>4, NothingRefused
    <3> QED BY <2>1, <3>5, <3>6, DeclineIsSound
  <2>2. CASE Decline(r)
    <3> HIDE DEF p
    <3>1. r = [p EXCEPT !.fullSeen = p.fullSeen + 1]
      OBVIOUS
    <3> HIDE DEF r
    <3>2. /\ r \in Runners /\ r.slots = p.slots /\ r.sides = p.sides /\ r.negative = p.negative
          /\ r.seenEpoch = p.seenEpoch
      BY <1>1, <3>1 DEF Runners
    <3>3. Sound(guest, r)
      BY <1>1, <3>2, CountersMove
    <3> QED BY <1>1, <2>2, <3>2, <3>3, DeclineIsSound
  <2> QED BY <1>2, <2>1, <2>2 DEF FullDeferred
<1>3. CASE KnownFailure
  <2>1. Decline(p)
    BY <1>3 DEF KnownFailure
  <2> HIDE DEF p
  <2> QED BY <1>1, <2>1, DeclineIsSound
<1>4. CASE Refuse
  <2> DEFINE pc == Here(guest)
             gen == Generation(guest, pc)
             q == RememberFailure(p, pc, gen)
  <2>1. gen # AlwaysStale /\ ~CanEmit(guest, Plan(guest, pc)) /\ Decline(q)
    BY <1>4 DEF Refuse
  <2>2. pc \in Addr /\ gen \in 0 .. AlwaysStale
    BY <1>1, HereIsAnAddress, GenerationIsCounted
  <2> HIDE DEF p, pc
  <2>3. q = Remember(p, pc, gen)
    BY <2>1 DEF RememberFailure
  <2>4. gen <= Generation(guest, pc)
    <3> HIDE DEF gen
    <3>1. gen <= gen
      BY <2>2
    <3> QED BY <3>1 DEF gen
  <2> HIDE DEF gen, q
  <2>5. Sound(guest, q) /\ q.slots = p.slots
    BY <1>1, <2>1, <2>2, <2>3, <2>4, RememberIsSound
  <2> QED BY <1>1, <2>1, <2>5, DeclineIsSound
<1>5. CASE Saturated
  <2> DEFINE r == [p EXCEPT !.staleSeen = @ + 1]
  <2>1. Decline(r)
    BY <1>5 DEF Saturated
  <2> HIDE DEF p
  <2>2. r = [p EXCEPT !.staleSeen = p.staleSeen + 1]
    OBVIOUS
  <2> HIDE DEF r
  <2>3. /\ r \in Runners /\ r.slots = p.slots /\ r.sides = p.sides /\ r.negative = p.negative
        /\ r.seenEpoch = p.seenEpoch
    BY <1>1, <2>2 DEF Runners
  <2>4. Sound(guest, r)
    BY <1>1, <2>3, CountersMove
  <2> QED BY <1>1, <2>1, <2>3, <2>4, DeclineIsSound
<1>6. CASE NoRoom
  <2> DEFINE r == [p EXCEPT !.full = TRUE]
  <2>1. Decline(r)
    BY <1>6 DEF NoRoom
  <2> HIDE DEF p
  <2>3. /\ r \in Runners /\ r.slots = p.slots /\ r.sides = p.sides /\ r.negative = p.negative
        /\ r.seenEpoch = p.seenEpoch
    BY <1>1 DEF Runners
  <2> HIDE DEF r
  <2>4. Sound(guest, r)
    BY <1>1, <2>3, CountersMove
  <2> QED BY <1>1, <2>1, <2>3, <2>4, DeclineIsSound
<1> QED BY <1>2, <1>3, <1>4, <1>5, <1>6

\* The generations start again.
LEMMA CountAgainKeeps ==
    ASSUME NEW g \in Guests
    PROVE  CountAgain(g) \in Guests /\ CountAgain(g).epoch = g.epoch
<1>1. 0 \in 0 .. AlwaysStale
  BY Layout
<1> DEFINE n == [p \in DOMAIN g.gen |-> 0]
<1>2. n \in [0 .. RamPages - 1 -> 0 .. AlwaysStale]
  BY <1>1 DEF Guests
<1>3. CountAgain(g) = [g EXCEPT !.gen = n]
  BY DEF CountAgain
<1> HIDE DEF n
<1> QED BY <1>2, <1>3 DEF Guests

\* They may, because nothing that remembers one is left.
LEMMA RecoverIsSound ==
    ASSUME Sound(guest, runner), Recover
    PROVE  /\ Sound(guest', runner')
           /\ \A i \in 0 .. SlotCount - 1 : runner'.slots[i] = EmptySlot
<1> DEFINE g == CountAgain(guest)
           e == Emptied(Noticed)
           q == [e EXCEPT !.staleSeen = 0]
<1>1. runner' = q /\ guest' = Step(g)
  BY DEF Recover
<1>2. g \in Guests /\ g.epoch = guest.epoch
  BY CountAgainKeeps DEF Sound
<1>3. Sound(g, e) /\ e.slots = EmptyRunner.slots
  BY <1>2, NoticedIsSound, EmptiedIsSound
<1>4. e \in Runners
  BY <1>3 DEF Sound
<1> HIDE DEF e, g
<1>5. /\ q \in Runners /\ q.slots = e.slots /\ q.sides = e.sides /\ q.negative = e.negative
      /\ q.seenEpoch = e.seenEpoch
  BY <1>4 DEF Runners
<1> HIDE DEF q
<1>6. Sound(g, q)
  BY <1>3, <1>5, CountersMove
<1>7. Evolves(g, Step(g))
  BY <1>2, StepEvolves
<1> QED BY <1>1, <1>3, <1>5, <1>6, <1>7, SoundStays, NothingRefused

\* What happens beside native code.
LEMMA BesideIsSound ==
    ASSUME Sound(guest, runner),
           Interpret \/ RaiseInterrupt \/ DmaWrite \/ DmaBlock \/ Reset \/ TurnOn \/ TurnOff
    PROVE  /\ Evolves(guest, guest') /\ Sound(guest', runner')
           /\ KeepsOrMakes(guest, runner.slots, runner'.slots)
<1>1. guest \in Guests
  BY DEF Sound
<1>2. ASSUME runner' = runner, Evolves(guest, guest')
      PROVE  /\ Evolves(guest, guest') /\ Sound(guest', runner')
             /\ KeepsOrMakes(guest, runner.slots, runner'.slots)
  BY <1>2, SoundStays DEF KeepsOrMakes
<1>3. Evolves(guest, guest)
  BY <1>1, SameMemoryShows DEF SameMemory
<1>4. CASE Interpret
  <2>1. runner' = runner /\ guest' \in {Interrupted(guest), Step(guest)}
    BY <1>4 DEF Interpret
  <2> QED BY <1>1, <1>2, <2>1, StepEvolves, InterruptedEvolves
<1>5. CASE RaiseInterrupt
  BY <1>2, <1>3, <1>5 DEF RaiseInterrupt
<1>6. CASE DmaWrite
  <2>1. PICK a \in DmaAt, w \in DmaWords : guest' = Write(guest, a, w)
    BY <1>6 DEF DmaWrite
  <2>2. a \in Addr /\ w \in Words /\ runner' = runner
    BY <1>6, NativeAssumption DEF DmaWrite
  <2>3. Evolves(guest, guest')
    BY <1>1, <2>1, <2>2, WriteEvolves
  <2> QED BY <1>2, <2>2, <2>3
<1>7. CASE DmaBlock
  <2>1. PICK a \in DmaAt, w \in DmaWords : guest' = WriteTwo(guest, a, w)
    BY <1>7 DEF DmaBlock
  <2>2. a \in Addr /\ w \in Words /\ runner' = runner
    BY <1>7, NativeAssumption DEF DmaBlock
  <2>3. Evolves(guest, guest')
    BY <1>1, <2>1, <2>2, WriteTwoEvolves
  <2> QED BY <1>2, <2>2, <2>3
<1>8. CASE Reset
  <2>1. runner' = runner /\ guest' = ResetGuest(guest)
    BY <1>8 DEF Reset
  <2> QED BY <1>1, <1>2, <2>1, ResetEvolves
<1>9. CASE TurnOn
  <2>1. runner' = Emptied(runner) /\ guest' = guest
    BY <1>9 DEF TurnOn
  <2>2. Sound(guest, Emptied(runner)) /\ Emptied(runner).slots = EmptyRunner.slots
    BY <1>1, EmptiedIsSound
  <2> QED BY <1>3, <2>1, <2>2, NothingRefused DEF KeepsOrMakes
<1>10. CASE TurnOff
  BY <1>2, <1>3, <1>10 DEF TurnOff
<1> QED BY <1>4, <1>5, <1>6, <1>7, <1>8, <1>9, <1>10

--------------------------------------------------------------------------------
RunnerInvariant == Sound(guest, runner)

\* The machine starts with an empty runner.
LEMMA StartsSound == Init => RunnerInvariant
<1> SUFFICES ASSUME Init PROVE Sound(guest, runner)
  BY DEF RunnerInvariant
<1>1. PICK image \in Images :
        guest = Refill([pc |-> 0, ir |-> Nothing, irc |-> Nothing, d |-> Nothing,
                        a |-> 0, ram |-> image, gen |-> [p \in 0 .. RamPages - 1 |-> 0],
                        mapped |-> TRUE, epoch |-> 1], RomPage * PageWords)
  BY DEF Init
<1> DEFINE n == [p \in 0 .. RamPages - 1 |-> 0]
           g == [pc |-> 0, ir |-> Nothing, irc |-> Nothing, d |-> Nothing,
                 a |-> 0, ram |-> image, gen |-> n, mapped |-> TRUE, epoch |-> 1]
<1>2. image \in [1 .. RamPages * PageWords -> Words]
  BY NativeAssumption
<1>3. 0 \in Addr /\ 0 \in 0 .. AlwaysStale
  BY Layout DEF Addr
<1>4. Nothing \in Words
  BY <1>3, PushedWord DEF Nothing
<1>5. n \in [0 .. RamPages - 1 -> 0 .. AlwaysStale]
  BY <1>3
<1>6. RomPage * PageWords \in Addr
  <2>1. RomPage \in 0 .. RamPages + 1 /\ 0 \in 0 .. PageWords - 1
    BY Layout DEF RomPage
  <2>2. RomPage * PageWords + 0 \in Addr
    BY <2>1, PlaceOnPage
  <2>3. RomPage \in Nat /\ PageWords \in Nat
    BY <2>1, Layout
  <2> DEFINE x == RomPage * PageWords
  <2>4. x \in Nat
    BY <2>3
  <2> HIDE DEF x
  <2>5. x + 0 = x
    BY <2>4
  <2> QED BY <2>2, <2>5 DEF x
<1> HIDE DEF n
<1>7. g \in Guests
  BY <1>2, <1>3, <1>4, <1>5 DEF Guests
<1>8. guest = Refill(g, RomPage * PageWords)
  BY <1>1 DEF n
<1> HIDE DEF g
<1>9. guest \in Guests
  BY <1>6, <1>7, <1>8, RefillKeeps
<1>10. runner = EmptyRunner
  BY DEF Init
<1> QED BY <1>9, <1>10, NothingIsSound

\* Every step keeps the invariant, and says what it does to the tables.
LEMMA StepIsSound ==
    ASSUME RunnerInvariant, [Next]_vars
    PROVE  /\ RunnerInvariant'
           /\ Recover \/ (/\ Evolves(guest, guest')
                          /\ KeepsOrMakes(guest, runner.slots, runner'.slots))
           /\ NativeTurn /\ Coherent(guest) => IsInstructions
<1>1. Sound(guest, runner)
  BY DEF RunnerInvariant
<1>2. ASSUME Sound(guest', runner') PROVE RunnerInvariant'
  BY <1>2 DEF RunnerInvariant
<1>3. ASSUME NativeTurn
      PROVE  /\ Evolves(guest, guest') /\ Sound(guest', runner')
             /\ KeepsOrMakes(guest, runner.slots, runner'.slots)
             /\ Coherent(guest) => IsInstructions
  BY <1>1, <1>3, HitIsSound, RevalidateIsSound, TranslateIsSound DEF NativeTurn
<1>4. CASE FullDeferred \/ KnownFailure \/ Refuse \/ Saturated \/ NoRoom
  BY <1>1, <1>2, <1>3, <1>4, TurnIsSound
<1>5. CASE Recover
  BY <1>1, <1>2, <1>3, <1>5, RecoverIsSound
<1>6. CASE Interpret \/ RaiseInterrupt \/ DmaWrite \/ DmaBlock \/ Reset \/ TurnOn \/ TurnOff
  BY <1>1, <1>2, <1>3, <1>6, BesideIsSound
<1>7. CASE UNCHANGED vars
  <2>1. guest' = guest /\ runner' = runner
    BY <1>7 DEF vars
  <2>2. Evolves(guest, guest)
    BY <1>1, SameMemoryShows DEF SameMemory, Sound
  <2> QED BY <1>1, <1>2, <1>3, <2>1, <2>2 DEF KeepsOrMakes
<1>8. CASE NativeTurn
  BY <1>2, <1>3, <1>8
<1> QED BY <1>4, <1>5, <1>6, <1>7, <1>8 DEF Next, NativeTurn

\* The inductive invariant of BlockRunner: no block and no refusal is ahead of the
\* generations of CodeGenMap, and what is level with them is true of memory.
THEOREM RunnerIsSound == Spec => []RunnerInvariant
<1>1. RunnerInvariant /\ [Next]_vars => RunnerInvariant'
  BY StepIsSound
<1> QED BY <1>1, StartsSound, PTL DEF Spec

\* The invariant says more than CacheIsCurrent.
LEMMA SoundIsCurrent == RunnerInvariant => CacheIsCurrent
<1> SUFFICES ASSUME Sound(guest, runner) PROVE HitIsFresh /\ RefusalsAreCurrent
  BY DEF RunnerInvariant, CacheIsCurrent
<1>1. /\ runner.slots \in [0 .. SlotCount - 1 -> Blocks \cup {EmptySlot}]
      /\ runner.negative \in [0 .. NegativeCount - 1 -> Refusals]
  BY DEF Sound, Runners
<1>2. HitIsFresh
  <2> SUFFICES ASSUME NEW i \in 0 .. SlotCount - 1,
                      KeyMatches(runner.slots[i], runner.slots[i].entry)
               PROVE  \A k \in DOMAIN runner.slots[i].words :
                        View(guest, runner.slots[i].entry + k - 1) = runner.slots[i].words[k]
    BY <1>1 DEF HitIsFresh
  <2> DEFINE slot == runner.slots[i]
  <2>1. WellMade(slot) /\ Ready(guest, slot)
    BY HitIsReady
  <2> HIDE DEF slot
  <2>2. slot.words \in Seq(Words) /\ ShowsBlock(guest, slot)
    BY <2>1 DEF WellMade, Blocks, Ready
  <2>3. \A k \in DOMAIN slot.words : View(guest, slot.entry + k - 1) = slot.words[k]
    BY <2>2 DEF ShowsBlock
  <2> QED BY <2>3 DEF slot
<1>3. RefusalsAreCurrent
  BY <1>1 DEF RefusalsAreCurrent, Sound, SoundRefusal
<1> QED BY <1>2, <1>3

\* Neither a block whose key matches nor a remembered refusal is ever out of date, for
\* any memory, program, DMA and sizes of the tables (keyMatches, NegativeCache).
THEOREM CacheStaysCurrent == Spec => []CacheIsCurrent
BY RunnerIsSound, SoundIsCurrent, PTL

\* A turn of native code that starts on prefetched words memory holds is a number of the
\* interpreter's instructions, to the last bit (NativeExec's postcondition).
THEOREM NativeCodeIsInterpreted == Spec => NativeIsInterpreted
<1>1. RunnerInvariant /\ [Next]_vars => [NativeTurn /\ Coherent(guest) => IsInstructions]_vars
  BY StepIsSound
<1> QED BY <1>1, RunnerIsSound, PTL DEF Spec, NativeIsInterpreted

\* The state of CodeCache, as the refinement mapping takes it from a guest and a runner.
Content(g) == [p \in 0 .. RamPages |-> [o \in 0 .. PageWords - 1 |-> View(g, p * PageWords + o)]]
Counted(g) == [p \in 0 .. RamPages |-> Generation(g, p * PageWords)]
Cached(slot) == IF slot.entry = 0 THEN EmptySlot ELSE CacheBlock(slot)
CachedSlots(slots) == [i \in 0 .. SlotCount - 1 |-> Cached(slots[i])]

\* The first address of a page.
LEMMA PageBegins ==
    ASSUME NEW p \in 0 .. RamPages + 1
    PROVE  p * PageWords \in Addr /\ Page(p * PageWords) = p
<1>1. 0 \in 0 .. PageWords - 1 /\ PageWords \in Nat /\ p \in Nat
  BY Layout
<1>2. p * PageWords + 0 \in Addr /\ Page(p * PageWords + 0) = p
  BY <1>1, PlaceOnPage
<1> DEFINE x == p * PageWords
<1>3. x \in Nat
  BY <1>1
<1> HIDE DEF x
<1>4. x + 0 = x
  BY <1>3
<1> QED BY <1>2, <1>4 DEF x

\* The mapped state has the types of CodeCache.
LEMMA PageShows ==
    ASSUME NEW g \in Guests
    PROVE  /\ Content(g) \in [0 .. RamPages -> [0 .. PageWords - 1 -> Words]]
           /\ Counted(g) \in [0 .. RamPages -> Nat]
           /\ \A p \in 0 .. RamPages :
                Counted(g)[p] = Generation(g, p * PageWords) /\ Counted(g)[p] <= AlwaysStale
           /\ \A p \in 0 .. RamPages : \A o \in 0 .. PageWords - 1 :
                Content(g)[p][o] = View(g, p * PageWords + o)
<1>1. RamPages \in Nat /\ AlwaysStale \in Nat
  BY Layout
<1>2. ASSUME NEW p \in 0 .. RamPages
      PROVE  /\ Generation(g, p * PageWords) \in Nat
             /\ Generation(g, p * PageWords) <= AlwaysStale
             /\ \A o \in 0 .. PageWords - 1 : View(g, p * PageWords + o) \in Words
  <2>1. p \in 0 .. RamPages + 1
    BY <1>1
  <2>2. Generation(g, p * PageWords) \in 0 .. AlwaysStale
    BY <2>1, PageBegins, GenerationIsCounted
  <2>3. \A o \in 0 .. PageWords - 1 : View(g, p * PageWords + o) \in Words
    BY <2>1, PlaceOnPage, ViewIsWord
  <2> DEFINE x == Generation(g, p * PageWords)
  <2> HIDE DEF x
  <2>4. x \in Nat /\ x <= AlwaysStale
    BY <1>1, <2>2 DEF x
  <2> QED BY <2>3, <2>4 DEF x
<1>3. ASSUME NEW p \in 0 .. RamPages
      PROVE  [o \in 0 .. PageWords - 1 |-> View(g, p * PageWords + o)]
                \in [0 .. PageWords - 1 -> Words]
  BY <1>2
<1>4. Content(g) \in [0 .. RamPages -> [0 .. PageWords - 1 -> Words]]
  BY <1>3 DEF Content
<1> QED BY <1>2, <1>4 DEF Content, Counted

\* What the guest does to memory is a change CodeCache allows.
LEMMA PagesChange ==
    ASSUME NEW g \in Guests, NEW h, Evolves(g, h), NEW p \in 0 .. RamPages
    PROVE  /\ Counted(h)[p] >= Counted(g)[p]
           /\ Counted(g)[p] = AlwaysStale => Counted(h)[p] = AlwaysStale
           /\ Content(h)[p] # Content(g)[p] =>
                \/ h.epoch > g.epoch
                \/ /\ p \notin {RomPage}
                   /\ Counted(h)[p] > Counted(g)[p] \/ Counted(g)[p] = AlwaysStale
<1> DEFINE b == p * PageWords
           m == Counted(g)[p]
           n == Counted(h)[p]
<1>1. h \in Guests /\ p \in 0 .. RamPages + 1 /\ AlwaysStale \in Nat
  BY Layout DEF Evolves
<1>2. b \in Addr /\ Page(b) = p
  BY <1>1, PageBegins
<1>3. m = Generation(g, b) /\ n = Generation(h, b) /\ m \in Nat /\ n \in Nat
      /\ n <= AlwaysStale
  BY <1>1, PageShows
<1>4. n >= m
  BY <1>2, <1>3, GenerationGrows
<1> HIDE DEF b, m, n
<1>5. m = AlwaysStale => n = AlwaysStale
  BY <1>1, <1>3, <1>4
<1>6. ASSUME Content(h)[p] # Content(g)[p], ~(h.epoch > g.epoch)
      PROVE  p \notin {RomPage} /\ (n > m \/ m = AlwaysStale)
  <2> DEFINE x == Content(g)[p]
             y == Content(h)[p]
             S == 0 .. PageWords - 1
  <2>1. x \in [S -> Words] /\ y \in [S -> Words]
    BY <1>1, PageShows
  <2>2. PICK o \in S : y[o] # x[o]
    <3> HIDE DEF x, y, S
    <3>1. SUFFICES ASSUME \A o \in S : x[o] = y[o] PROVE FALSE
      OBVIOUS
    <3> QED BY <1>6, <2>1, <3>1, SameFunction DEF x, y
  <2> DEFINE c == p * PageWords + o
  <2>3. y[o] = View(h, c) /\ x[o] = View(g, c)
    BY <1>1, PageShows
  <2>4. c \in Addr /\ Page(c) = p
    BY <1>1, PlaceOnPage
  <2>5. View(h, c) # View(g, c)
    BY <2>2, <2>3
  <2> HIDE DEF c, x, y
  <2>6. IsRam(c) /\ (h.gen[p] > g.gen[p] \/ g.gen[p] = AlwaysStale)
    BY <1>6, <2>4, <2>5 DEF Evolves
  <2>7. p # RomPage /\ IsRam(b)
    BY <1>2, <2>4, <2>6, Layout DEF IsRam, RomPage
  <2>8. m = g.gen[p] /\ n = h.gen[p]
    BY <1>2, <1>3, <2>7 DEF Generation
  <2> QED BY <2>6, <2>7, <2>8
<1> QED BY <1>4, <1>5, <1>6 DEF m, n

\* A block of now is a translation of now.
LEMMA MadeNowIsFresh ==
    ASSUME NEW g \in Guests, NEW slot, MadeNow(g, slot)
    PROVE  LET b == Cached(slot) IN
           /\ b.page \in 0 .. RamPages /\ b.gen \in Nat /\ b.epoch \in Nat
           /\ DOMAIN b.words \subseteq 0 .. PageWords - 1
           /\ b.epoch = g.epoch /\ b.gen = Counted(g)[b.page] /\ b.gen # AlwaysStale
           /\ \A o \in DOMAIN b.words : Content(g)[b.page][o] = b.words[o]
<1> DEFINE e == slot.entry
           n == slot.next
           first == Offset(e)
           N == Len(slot.words)
           page == Page(e)
           words == [o \in first .. first + N - 1 |-> slot.words[o - first + 1]]
           b == Cached(slot)
<1>1. /\ WellMade(slot) /\ slot.epoch = g.epoch /\ slot.gen = Generation(g, e)
      /\ slot.gen # AlwaysStale /\ ShowsBlock(g, slot)
  BY DEF MadeNow
<1>2. /\ e \in Addr /\ e # 0 /\ n \in Addr /\ n + 1 \in Addr /\ Page(n + 1) = page
      /\ N = n + 2 - e /\ slot.gen \in 0 .. AlwaysStale /\ slot.epoch \in Nat /\ e < n
  BY <1>1 DEF WellMade, Blocks
<1>3. b = [page |-> page, gen |-> slot.gen, epoch |-> slot.epoch, words |-> words]
  BY <1>2 DEF Cached, CacheBlock
<1> HIDE DEF words
<1>4. b.page = page /\ b.gen = slot.gen /\ b.epoch = slot.epoch /\ b.words = words
  BY <1>3
<1>5. /\ PageWords \in Nat /\ RamPages \in Nat /\ AlwaysStale \in Nat
  BY Layout
<1>6. /\ e \in Nat /\ page \in 0 .. RamPages + 1 /\ first \in 0 .. PageWords - 1
      /\ e = PageWords * page + first
  BY <1>2, PagesOfAddresses DEF Offset
<1>7. page # IoPage
  <2>1. SUFFICES ASSUME page = IoPage PROVE FALSE
    OBVIOUS
  <2>2. ~IsRam(e) /\ Page(e) # RomPage
    BY <1>5, <2>1 DEF IsRam, IoPage, RomPage
  <2>3. Generation(g, e) = AlwaysStale
    BY <2>2 DEF Generation
  <2> QED BY <1>1, <2>3
<1> HIDE DEF page, first, b, N
<1>8. page \in 0 .. RamPages
  BY <1>5, <1>6, <1>7 DEF IoPage
<1>9. page * PageWords \in Addr /\ Page(page * PageWords) = page
  BY <1>6, PageBegins
<1>10. Generation(g, page * PageWords) = Generation(g, e)
  <2>1. Page(e) = page
    BY DEF page
  <2>2. IsRam(page * PageWords) = IsRam(e)
    BY <1>9, <2>1 DEF IsRam
  <2> QED BY <1>9, <2>1, <2>2 DEF Generation
<1>11. Counted(g)[page] = slot.gen
  BY <1>1, <1>8, <1>10, PageShows
\* The last word of the block is on the page as well.
<1>12. first + N - 1 <= PageWords - 1
  <2> DEFINE last == (n + 1) % PageWords
  <2>1. n + 1 = PageWords * page + last /\ last \in 0 .. PageWords - 1
    BY <1>2, PagesOfAddresses
  <2> DEFINE x == PageWords * page
  <2>2. x \in Nat
    BY <1>5, <1>6
  <2>3. n \in Nat
    BY <1>2, PagesOfAddresses
  <2> HIDE DEF last, x, n, e
  <2>4. n + 1 = x + last /\ e = x + first
    BY <1>6, <2>1 DEF x
  <2>5. N = n + 2 - e
    BY <1>2
  <2> QED BY <1>5, <1>6, <2>1, <2>2, <2>3, <2>4, <2>5
<1>13. N \in Nat
  <2>1. n \in Nat
    BY <1>2, PagesOfAddresses
  <2> HIDE DEF n, e
  <2> QED BY <1>2, <1>6, <2>1
<1>14. DOMAIN words = first .. first + N - 1
  BY DEF words
<1>15. DOMAIN words \subseteq 0 .. PageWords - 1
  BY <1>5, <1>6, <1>12, <1>13, <1>14
<1>16. ASSUME NEW o \in DOMAIN words PROVE Content(g)[page][o] = words[o]
  <2> DEFINE k == o - first + 1
             x == page * PageWords
  <2>1. o \in 0 .. PageWords - 1 /\ o \in first .. first + N - 1
    BY <1>14, <1>15
  <2>2. Content(g)[page][o] = View(g, x + o)
    BY <1>8, <2>1, PageShows
  <2>3. words[o] = slot.words[k]
    BY <2>1 DEF words
  <2>4. x = PageWords * page /\ x \in Nat
    BY <1>5, <1>6
  <2> HIDE DEF x, e
  <2>5. e = x + first
    BY <1>6, <2>4
  <2>6. k \in 1 .. N /\ e + k - 1 = x + o
    BY <1>5, <1>6, <1>13, <2>1, <2>4, <2>5
  <2> HIDE DEF k
  <2>7. View(g, e + k - 1) = slot.words[k]
    BY <1>1, <2>6 DEF ShowsBlock, e, N
  <2> QED BY <2>2, <2>3, <2>6, <2>7
<1> QED BY <1>1, <1>2, <1>4, <1>5, <1>8, <1>11, <1>15, <1>16 DEF b

--------------------------------------------------------------------------------
\* The initial states map to initial states,
LEMMA CacheStarts == Init => Cache!Init
<1> SUFFICES ASSUME Init PROVE Cache!Init
  OBVIOUS
<1>1. Sound(guest, runner)
  BY StartsSound DEF RunnerInvariant
<1>2. guest \in Guests /\ guest.epoch \in Nat
  BY <1>1 DEF Sound, Guests
<1>3. runner.slots = EmptyRunner.slots
  BY DEF Init
<1>4. CachedSlots(runner.slots) = [i \in 0 .. SlotCount - 1 |-> EmptySlot]
  <2>1. \A i \in 0 .. SlotCount - 1 : Cached(runner.slots[i]) = EmptySlot
    BY <1>3, NothingRefused DEF Cached, EmptySlot
  <2> QED BY <2>1 DEF CachedSlots
<1>5. /\ Content(guest) \in [0 .. RamPages -> [0 .. PageWords - 1 -> Words]]
      /\ Counted(guest) \in [0 .. RamPages -> Nat]
  BY <1>2, PageShows
<1> QED BY <1>2, <1>4, <1>5 DEF Cache!Init, Content, Counted, CachedSlots, Cached

\* what the guest does maps to Change,
LEMMA GuestChanges ==
    ASSUME guest \in Guests, Evolves(guest, guest')
    PROVE  Cache!Change
<1>1. guest' \in Guests /\ guest'.epoch \in Nat /\ guest'.epoch >= guest.epoch
  BY DEF Evolves, Guests
<1>2. /\ Content(guest') \in [0 .. RamPages -> [0 .. PageWords - 1 -> Words]]
      /\ Counted(guest') \in [0 .. RamPages -> Nat]
  BY <1>1, PageShows
<1>3. \A p \in 0 .. RamPages :
        /\ Counted(guest')[p] >= Counted(guest)[p]
        /\ Counted(guest)[p] = AlwaysStale => Counted(guest')[p] = AlwaysStale
        /\ Content(guest')[p] # Content(guest)[p] =>
             \/ guest'.epoch > guest.epoch
             \/ /\ p \notin {RomPage}
                /\ \/ Counted(guest')[p] > Counted(guest)[p]
                   \/ Counted(guest)[p] = AlwaysStale
  BY PagesChange
<1> QED BY <1>1, <1>2, <1>3 DEF Cache!Change, Content, Counted

\* a block of now to a fresh translation,
LEMMA FreshInCache ==
    ASSUME guest \in Guests, NEW slot, MadeNow(guest, slot)
    PROVE  Cache!Fresh(Cached(slot))
<1> DEFINE b == Cached(slot)
<1>1. /\ b.page \in 0 .. RamPages /\ b.gen \in Nat /\ b.epoch \in Nat
      /\ DOMAIN b.words \subseteq 0 .. PageWords - 1
      /\ b.epoch = guest.epoch /\ b.gen = Counted(guest)[b.page] /\ b.gen # AlwaysStale
      /\ \A o \in DOMAIN b.words : Content(guest)[b.page][o] = b.words[o]
  BY MadeNowIsFresh
<1> HIDE DEF b
<1>2. Cache!Fresh(b)
  BY <1>1 DEF Cache!Fresh, Cache!IsBlock, Cache!Matches, Content, Counted
<1> QED BY <1>2 DEF b

\* and every step to a visit, to starting again, or to nothing.
LEMMA StepIsACacheStep ==
    ASSUME RunnerInvariant, RunnerInvariant', [Next]_vars
    PROVE  [Cache!Next]_(Cache!cacheVars)
<1>1. guest \in Guests /\ guest' \in Guests /\ guest'.epoch \in Nat
  BY DEF RunnerInvariant, Sound, Guests
<1>2. CASE Recover
  <2>1. \A i \in 0 .. SlotCount - 1 : runner'.slots[i] = EmptySlot
    BY <1>2, RecoverIsSound DEF RunnerInvariant
  <2>2. CachedSlots(runner'.slots) = [i \in 0 .. SlotCount - 1 |-> EmptySlot]
    <3>1. \A i \in 0 .. SlotCount - 1 : Cached(runner'.slots[i]) = EmptySlot
      BY <2>1 DEF Cached, EmptySlot
    <3> QED BY <3>1 DEF CachedSlots
  <2>3. /\ Content(guest') \in [0 .. RamPages -> [0 .. PageWords - 1 -> Words]]
        /\ Counted(guest') \in [0 .. RamPages -> Nat]
    BY <1>1, PageShows
  <2>4. Cache!StartAgain
    BY <1>1, <2>2, <2>3 DEF Cache!StartAgain, Content, Counted, CachedSlots, Cached
  <2> QED BY <2>4 DEF Cache!Next
<1>3. CASE ~Recover
  <2>1. Evolves(guest, guest') /\ KeepsOrMakes(guest, runner.slots, runner'.slots)
    BY <1>3, StepIsSound
  <2>2. Cache!Change
    BY <1>1, <2>1, GuestChanges
  <2> DEFINE s == CachedSlots(runner.slots)
             t == CachedSlots(runner'.slots)
  <2>3. t = [i \in 0 .. SlotCount - 1 |-> t[i]]
    BY DEF CachedSlots
  <2>4. ASSUME NEW i \in 0 .. SlotCount - 1
        PROVE  t[i] \in {s[i], EmptySlot} \/ \E b \in {t[i]} : Cache!Fresh(b)
    <3>1. s[i] = Cached(runner.slots[i]) /\ t[i] = Cached(runner'.slots[i])
      BY DEF CachedSlots
    <3>2. CASE runner'.slots[i] = runner.slots[i]
      BY <3>1, <3>2
    <3>3. CASE runner'.slots[i] = EmptySlot
      <4>1. Cached(EmptySlot) = EmptySlot
        BY DEF Cached, EmptySlot
      <4> QED BY <3>1, <3>3, <4>1
    <3>4. CASE MadeNow(guest, runner'.slots[i])
      BY <1>1, <3>1, <3>4, FreshInCache
    <3> QED BY <2>1, <3>2, <3>3, <3>4 DEF KeepsOrMakes
  <2>5. Cache!Visit
    BY <2>2, <2>3, <2>4 DEF Cache!Visit, CachedSlots, Cached
  <2> QED BY <2>5 DEF Cache!Next
<1> QED BY <1>2, <1>3

\* BlockRunner is a CodeCache: every step of the machine maps to a visit of the cache, or
\* to throwing everything away, or to a stutter.
THEOREM NativeCodeImplementsCache == Spec => ImplementsCodeCache
<1>1. RunnerInvariant /\ RunnerInvariant' /\ [Next]_vars => [Cache!Next]_(Cache!cacheVars)
  BY StepIsACacheStep
<1> QED BY <1>1, CacheStarts, RunnerIsSound, PTL DEF Spec, ImplementsCodeCache, Cache!Spec

--------------------------------------------------------------------------------
(* CodeCache by itself: any pages, whatever they hold, and any slots.  HitIsFresh  *)
(* is not inductive: a translation that does not hit today must not hit tomorrow   *)
(* by accident.  What excludes it is that neither the generation of a page nor the *)
(* epoch ever returns to a value a translation still remembers.                  *)

CONSTANTS Pages, Offsets, Contents, Fixed, Slots, LastGeneration, NoTranslation
VARIABLES content, gen, epoch, slots

Any == INSTANCE CodeCache WITH
    Words <- Contents, AlwaysStale <- LastGeneration, Empty <- NoTranslation

\* A translation is of the past, and if its page has not been counted since, it
\* is of the present.
OfThePast(i) ==
    slots[i] # NoTranslation =>
        /\ slots[i].epoch <= epoch
        /\ slots[i].epoch = epoch =>
            /\ slots[i].gen <= gen[slots[i].page]
            /\ slots[i].gen = gen[slots[i].page] /\ slots[i].gen # LastGeneration =>
                Any!Matches(slots[i])

CacheInvariant ==
    /\ content \in [Pages -> [Offsets -> Contents]]
    /\ gen \in [Pages -> Nat]
    /\ epoch \in Nat
    /\ \A i \in Slots : (slots[i] # NoTranslation => Any!IsBlock(slots[i])) /\ OfThePast(i)

\* A change of memory leaves every translation that stays of the past.
LEMMA ChangeKeepsPast ==
    ASSUME CacheInvariant, Any!Change, NEW i \in Slots, slots'[i] = slots[i]
    PROVE  OfThePast(i)'
<1> SUFFICES ASSUME slots[i] # NoTranslation PROVE OfThePast(i)'
  BY DEF OfThePast
<1> DEFINE b == slots[i]
<1>1. Any!IsBlock(b)
  BY DEF CacheInvariant
<1>2. b.page \in Pages /\ b.gen \in Nat /\ b.epoch \in Nat
  BY <1>1 DEF Any!IsBlock
<1>3. OfThePast(i)
  BY DEF CacheInvariant
<1>4. /\ gen[b.page] \in Nat /\ gen'[b.page] \in Nat
      /\ epoch \in Nat /\ epoch' \in Nat /\ epoch' >= epoch
      /\ gen'[b.page] >= gen[b.page]
  BY <1>2 DEF CacheInvariant, Any!Change
<1>5. b.epoch <= epoch'
  BY <1>2, <1>3, <1>4 DEF OfThePast
<1>6. ASSUME b.epoch = epoch' PROVE b.gen <= gen'[b.page]
  <2>1. b.epoch = epoch
    BY <1>2, <1>3, <1>4, <1>6 DEF OfThePast
  <2> QED
    BY <1>2, <1>3, <1>4, <2>1 DEF OfThePast
<1>7. ASSUME b.epoch = epoch', b.gen = gen'[b.page], b.gen # LastGeneration
      PROVE  Any!Matches(b)'
  <2>1. b.epoch = epoch /\ epoch' = epoch
    BY <1>2, <1>3, <1>4, <1>7 DEF OfThePast
  <2>2. b.gen = gen[b.page]
    BY <1>2, <1>3, <1>4, <1>7, <2>1 DEF OfThePast
  <2>3. Any!Matches(b)
    BY <1>3, <1>7, <2>1, <2>2 DEF OfThePast
  <2>4. /\ gen[b.page] # LastGeneration
        /\ ~(gen'[b.page] > gen[b.page]) /\ ~(epoch' > epoch)
    BY <1>4, <1>7, <2>1, <2>2
  <2>5. content'[b.page] = content[b.page]
    BY <1>2, <2>4 DEF Any!Change
  <2> QED
    BY <2>3, <2>5 DEF Any!Matches
<1> QED
  BY <1>5, <1>6, <1>7 DEF OfThePast, Any!Matches

\* A translation made during a visit is of the present, and the change of memory
\* that follows makes it one of the past.
LEMMA FreshBecomesPast ==
    ASSUME CacheInvariant, Any!Change, NEW i \in Slots, NEW b, slots'[i] = b, Any!Fresh(b)
    PROVE  OfThePast(i)'
<1>1. Any!IsBlock(b) /\ b.epoch = epoch /\ b.gen = gen[b.page] /\ b.gen # LastGeneration
  BY DEF Any!Fresh
<1>2. b.page \in Pages /\ b.gen \in Nat /\ b.epoch \in Nat
  BY <1>1 DEF Any!IsBlock
<1>3. /\ gen[b.page] \in Nat /\ gen'[b.page] \in Nat
      /\ epoch \in Nat /\ epoch' \in Nat /\ epoch' >= epoch
      /\ gen'[b.page] >= gen[b.page]
  BY <1>2 DEF CacheInvariant, Any!Change
<1>4. ASSUME b.epoch = epoch', b.gen = gen'[b.page]
      PROVE  Any!Matches(b)'
  <2>1. /\ gen[b.page] # LastGeneration
        /\ ~(gen'[b.page] > gen[b.page]) /\ ~(epoch' > epoch)
    BY <1>1, <1>3, <1>4
  <2>2. content'[b.page] = content[b.page]
    BY <1>2, <2>1 DEF Any!Change
  <2>3. Any!Matches(b)
    BY DEF Any!Fresh
  <2> QED
    BY <2>2, <2>3 DEF Any!Matches
<1> QED
  BY <1>1, <1>3, <1>4 DEF OfThePast, Any!Matches

LEMMA StepKeepsInvariant == CacheInvariant /\ [Any!Next]_(Any!cacheVars) => CacheInvariant'
<1> SUFFICES ASSUME CacheInvariant, [Any!Next]_(Any!cacheVars) PROVE CacheInvariant'
  OBVIOUS
<1>1. CASE Any!Visit
  <2>1. ASSUME NEW i \in Slots PROVE OfThePast(i)'
    <3>1. CASE slots'[i] = slots[i]
      BY <1>1, <3>1, ChangeKeepsPast DEF Any!Visit
    <3>2. CASE slots'[i] = NoTranslation
      BY <3>2 DEF OfThePast
    <3>3. ASSUME NEW b, slots'[i] = b, Any!Fresh(b) PROVE OfThePast(i)'
      BY <1>1, <3>3, FreshBecomesPast DEF Any!Visit
    <3> QED
      BY <1>1, <3>1, <3>2, <3>3 DEF Any!Visit
  <2>2. ASSUME NEW i \in Slots, slots'[i] # NoTranslation PROVE Any!IsBlock(slots'[i])
    BY <1>1, <2>2 DEF CacheInvariant, Any!Visit, Any!Fresh
  <2> QED
    BY <1>1, <2>1, <2>2 DEF CacheInvariant, Any!Visit, Any!Change, Any!IsBlock
<1>2. CASE Any!StartAgain
  BY <1>2 DEF CacheInvariant, Any!StartAgain, OfThePast
<1>3. CASE UNCHANGED Any!cacheVars
  BY <1>3 DEF CacheInvariant, Any!cacheVars, OfThePast, Any!Matches
<1> QED
  BY <1>1, <1>2, <1>3 DEF Any!Next

\* The generations and the epoch of CodeGenMap only ever grow while a translation
\* is alive, for any number of pages, slots and words.
THEOREM CacheKeepsThePast == Any!Spec => []CacheInvariant
<1>1. Any!Init => CacheInvariant
  BY DEF Any!Init, CacheInvariant, OfThePast
<1> QED
  BY <1>1, StepKeepsInvariant, PTL DEF Any!Spec

\* keyMatches never lets a translation run that memory has left behind.
THEOREM CacheHitIsFresh == Any!Spec => []Any!HitIsFresh
<1>1. CacheInvariant => Any!HitIsFresh
  BY DEF CacheInvariant, OfThePast, Any!HitIsFresh, Any!Hits
<1> QED
  BY <1>1, CacheKeepsThePast, PTL
================================================================================
