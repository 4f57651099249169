-------------------------------- MODULE GuestCode --------------------------------
(******************************************************************************)
(* What the translator sees of the guest: the 68000's prefetched instruction     *)
(* stream (core/cpu/m68k.{h,cpp}), its memory (bus.cpp) and the generations that  *)
(* every write to memory counts (CodeGenMap).  The instruction set is cut down to *)
(* one instruction of each kind the translator treats differently, on one data    *)
(* register, one address register and a memory of words; a long is two words.     *)
(*                                                                             *)
(* A guest is a record: pc, ir, irc, d, a; ram, gen, mapped, epoch.  As in the     *)
(* code, pc is two words past the instruction in ir.                               *)
(******************************************************************************)
EXTENDS Integers, Sequences

CONSTANTS
    RamPages, PageWords,    \* pages 0 .. RamPages - 1 are RAM
    AlwaysStale,            \* where a generation stops; 0xFFFF in the code
    Rom,                    \* the words of the ROM's page
    Handler                 \* where an interrupt goes

RomPage == RamPages
IoPage == RamPages + 1      \* the area-set register; reads find nothing
Size == (RamPages + 2) * PageWords
Addr == 0 .. Size - 1       \* addresses wrap like the 24-bit bus
Page(a) == a \div PageWords
Plus(a, n) == (a + n) % Size
IsRam(a) == Page(a) < RamPages

\* A word, read as an instruction or as a value.
Word(op, n) == [op |-> op, n |-> n]
Nothing == Word("other", 0)
Words == [op : {"imm", "lea", "load", "put", "store", "store2", "bne", "bsr", "rts", "other"},
          n : Addr]
Length(w) == IF w.op = "imm" THEN 2 ELSE 1      \* instructionLength

ASSUME GuestAssumption ==
    /\ {RamPages, PageWords, AlwaysStale} \subseteq Nat \ {0, 1}
    /\ Rom \in [1 .. PageWords -> Words] /\ Handler \in Addr

--------------------------------------------------------------------------------
(* Memory.  While mapped, the ROM answers reads of page 0; writes reach the RAM. *)

View(g, a) ==
    CASE Page(a) = RomPage -> Rom[(a % PageWords) + 1]
      [] Page(a) = 0 /\ g.mapped -> Rom[a + 1]
      [] IsRam(a) /\ ~(Page(a) = 0 /\ g.mapped) -> g.ram[a + 1]
      [] OTHER -> Nothing

\* M68k::peekCodeWord: the words that can be read without touching a device.
Readable(g, a) == IF IsRam(a) THEN ~g.mapped ELSE Page(a) = RomPage

\* CodeGenMap::generation
Generation(g, a) ==
    CASE IsRam(a) -> g.gen[Page(a)]
      [] Page(a) = RomPage -> AlwaysStale - 1
      [] OTHER -> AlwaysStale

\* mutant: the generation comes round again.
CountRound(n) == IF n = AlwaysStale THEN 0 ELSE n + 1
\* CodeGenMap::touch, touchAll
Count(n) == IF n = AlwaysStale THEN AlwaysStale ELSE n + 1
Touch(g, a) == IF IsRam(a) THEN [g EXCEPT !.gen[Page(a)] = Count(@)] ELSE g
TouchAll(g) == [g EXCEPT !.gen = [p \in DOMAIN g.gen |-> Count(g.gen[p])]]

\* SystemBus::setRomMappedAtZero: setFastRam and setFastRom each move the epoch on.
ShowRom(g, mapped) ==
    [TouchAll(g) EXCEPT !.mapped = mapped, !.epoch = g.epoch + 1]

\* M68k::write16: a write to RAM is counted first; one to the area-set register
\* takes the ROM away from page 0; the ROM ignores it.
Write(g, a, w) ==
    CASE IsRam(a) -> [Touch(g, a) EXCEPT !.ram[a + 1] = w]
      [] Page(a) = IoPage -> ShowRom(g, FALSE)
      [] OTHER -> g

\* M68k::write32
WriteTwo(g, a, w) == Write(Write(g, a, w), Plus(a, 1), w)

--------------------------------------------------------------------------------
(* The interpreter. *)

Here(g) == Plus(g.pc, -2)       \* the address of the instruction in ir

\* M68k::fetch: the next word comes from memory before the instruction has acted.
Fetch(g) == [g EXCEPT !.ir = g.irc, !.irc = View(g, g.pc), !.pc = Plus(g.pc, 1)]

\* M68k::refillPrefetch
Refill(g, a) ==
    [g EXCEPT !.pc = Plus(a, 2), !.ir = View(g, a), !.irc = View(g, Plus(a, 1))]

\* M68k::execute.  Loads and stores are (An)+; "put" writes to an absolute address.
Execute(f, w, at) ==
    CASE w.op = "imm" -> Fetch([f EXCEPT !.d = f.ir])
      [] w.op = "lea" -> [f EXCEPT !.a = w.n]
      [] w.op = "load" -> [f EXCEPT !.d = View(f, f.a), !.a = Plus(f.a, 1)]
      [] w.op = "put" -> Write(f, w.n, f.d)
      [] w.op = "store" -> [Write(f, f.a, f.d) EXCEPT !.a = Plus(f.a, 1)]
      [] w.op = "store2" -> [WriteTwo(f, f.a, f.d) EXCEPT !.a = Plus(f.a, 2)]
      [] w.op = "bne" -> IF f.d.n # 0 THEN Refill(f, w.n) ELSE f
      [] w.op = "bsr" ->
            LET sp == Plus(f.a, -1)
            IN  Refill([Write(f, sp, Word("other", Plus(at, 1))) EXCEPT !.a = sp], w.n)
      [] w.op = "rts" -> Refill([f EXCEPT !.a = Plus(f.a, 1)], View(f, f.a).n)
      [] OTHER -> f

\* M68k::step, one instruction.
Step(g) == Execute(Fetch(g), g.ir, Here(g))

Steps(g, n) ==
    LET after[i \in 0 .. n] == IF i = 0 THEN g ELSE Step(after[i - 1]) IN after[n]

\* The exception an interrupt takes, M68k::takeException: what to return to is
\* pushed through the bus.
Interrupted(g) ==
    LET sp == Plus(g.a, -1)
    IN  Refill([Write(g, sp, Word("other", Here(g))) EXCEPT !.a = sp], Handler)

\* Machine::reset, M68k::reset: the ROM is back at 0 and starts the machine.
ResetGuest(g) ==
    Refill([ShowRom(TouchAll(g), TRUE) EXCEPT !.d = Nothing, !.a = 0],
           RomPage * PageWords)

\* The prefetched words are those memory holds.  The program may break this, by
\* writing to the instructions about to run; a 68000 then runs what it prefetched.
Coherent(g) == g.ir = View(g, Here(g)) /\ g.irc = View(g, Plus(g.pc, -1))
================================================================================
