------------------------------ MODULE Interpreter ------------------------------
(******************************************************************************)
(* What core/cpu/m68k.cpp and m68k_ops_*.cpp do with an instruction word, in     *)
(* supervisor mode: which operation, of what size, from where to where, how many  *)
(* extension words it fetches and how many cycles it returns.  An operation that   *)
(* leaves the flags alone has a name of its own (adda is not add), so equal        *)
(* effects set the same flags.  cycles has one entry for each outcome, in the      *)
(* order of the code's returns, or a base and a price for each register or bit.    *)
(*                                                                             *)
(* fate: "runs"; "privileged", which runs for a supervisor; "conditional", which   *)
(* may raise an exception; "traps", which always does; "halts", where the emulator *)
(* stops because the code has nothing for this word.                             *)
(******************************************************************************)
EXTENDS OpcodeWord

Effect(does, size, from, to, words, cycles) ==
    [does |-> does, size |-> size, from |-> from, to |-> to, words |-> words,
     cycles |-> cycles, fate |-> "runs"]
Implied(does, words, cycles) == Effect(does, 0, NoOperand, NoOperand, words, cycles)
Traps(cycles) == [Implied("exception", 0, <<cycles>>) EXCEPT !.fate = "traps"]
Halts == [Implied("nothing", 0, <<0>>) EXCEPT !.fate = "halts"]
Privileged(effect) == [effect EXCEPT !.fate = "privileged"]
Conditional(effect) == [effect EXCEPT !.fate = "conditional"]

\* The words that effectiveAddress and readEa fetch.
Fetched(o, size) ==
    CASE Kind(o) \in {"d(A)", "d(A,X)", "w", "d(PC)", "d(PC,X)"} -> 1
      [] Kind(o) = "l" \/ (Kind(o) = "#" /\ size = 4) -> 2
      [] Kind(o) = "#" /\ size # 4 -> 1
      [] OTHER -> 0

\* readEa, readEaForModify and effectiveAddress halt on a mode they do not know;
\* nothing keeps a PC-relative operand from being written.
Reading(o, effect) == IF Kind(o) = "invalid" THEN Halts ELSE effect
Modifying(o, effect) == IF Kind(o) \in {"#", "invalid"} THEN Halts ELSE effect
Addressing(o, effect) == IF Kind(o) \in {"D", "A", "#", "invalid"} THEN Halts ELSE effect

--------------------------------------------------------------------------------
(* $0: immediate and bit operations, MOVEP. *)

\* MOVEP moves every other byte between Dn and d(An); odd op modes move four.
Movep(op) ==
    LET long == SizeField(op) % 2 = 1
        d == Data(Field9(op))
        memory == <<"d(A)", Reg(op)>>
        size == Choose(long, 4, 2)
        cycles == <<Choose(long, 24, 16)>>
    IN IF SizeField(op) >= 2 THEN Effect("movep", size, d, memory, 1, cycles)
       ELSE Effect("movep", size, memory, d, 1, cycles)

BitOperation(op) ==
    LET o == Ea(op)
        does == <<"btst", "bchg", "bclr", "bset">>[SizeField(op) + 1]
        size == Choose(Kind(o) = "D", 4, 1)
        number == IF Bit8(op) THEN Data(Field9(op)) ELSE Immediate
        words == Choose(Bit8(op), 0, 1) + Fetched(o, size)
    IN IF does = "btst" /\ o = Immediate
       THEN Effect(does, size, number, o, words, <<BtstCycles(op)>>)
       ELSE Modifying(o, Effect(does, size, number, o, words,
                                IF does = "btst" THEN <<BtstCycles(op)>> ELSE <<8>>))

ImmediateOperation(op) ==
    LET o == Ea(op)
        size == SizeOf(SizeField(op))
        does == <<"or", "and", "sub", "add", "bit", "eor", "cmp", "none">>[Field9(op) + 1]
        words == Fetched(Immediate, size)
        status == Implied(does, words, <<20>>)
    IN CASE SizeField(op) = 3 -> Halts
         [] SizeField(op) # 3 /\ o = Immediate /\ does \in {"or", "and", "eor"} ->
                IF size = 1 THEN [status EXCEPT !.to = <<"ccr", 0>>]
                ELSE IF size = 2 THEN Privileged([status EXCEPT !.to = <<"sr", 0>>])
                ELSE [status EXCEPT !.to = <<"sr", 0>>]
         [] OTHER ->
                IF does = "none" THEN Halts
                ELSE Modifying(o, Effect(does, size, Immediate, o, words + Fetched(o, size),
                                         <<ImmediateCycles(op, size)>>))

\* groupImmediate
GroupImmediate(op) ==
    CASE Bit8(op) /\ Mode(op) = 1 -> Movep(op)
      [] ~(Bit8(op) /\ Mode(op) = 1) /\ (Bit8(op) \/ Field9(op) = 4) -> BitOperation(op)
      [] ~Bit8(op) /\ Field9(op) # 4 -> ImmediateOperation(op)

--------------------------------------------------------------------------------
(* $1-$3, $6, $7: MOVE, branches, MOVEQ. *)

\* groupMove: a byte never moves to or from an address register.
GroupMove(op, size) ==
    LET src == Ea(op)
        dst == Operand(OpMode(op), Field9(op))
        does == IF Kind(dst) = "A" THEN "movea" ELSE "move"
    IN IF size = 1 /\ "A" \in {Kind(src), Kind(dst)} THEN Traps(34)
       ELSE IF Kind(dst) \in {"#", "invalid"} THEN Halts
       ELSE Reading(src, Effect(does, size, src, dst, Fetched(src, size) + Fetched(dst, size),
                                <<MoveCycles(op, size)>>))

SignedByte(op) == (op % 256) - (IF op % 256 >= 128 THEN 256 ELSE 0)

\* groupMoveq
GroupMoveq(op) ==
    IF Bit8(op) THEN Traps(34)
    ELSE Effect("move", 4, Quick(SignedByte(op)), Data(Field9(op)), 0, <<4>>)

\* groupBranch: condition 1 is BSR; what is not BSR may go either way.
GroupBranch(op) ==
    LET wide == op % 256 = 0
        target == IF wide THEN <<"d(PC)", 0>> ELSE Quick(SignedByte(op))
        words == Choose(wide, 1, 0)
    IN IF Nibble(op) = 1 THEN Effect("bsr", 4, NoOperand, target, words, <<18>>)
       ELSE Effect("branch", 0, <<"condition", Nibble(op)>>, target, words,
                   <<10, Choose(wide, 12, 8)>>)

--------------------------------------------------------------------------------
(* $4: the miscellany, in the order of groupMisc. *)

\* NEGX, CLR, NEG, NOT, TST.  Only TST does not write; CLR reads too.
Unary(op) ==
    LET o == Ea(op)
        size == SizeOf(SizeField(op))
        does == [n \in {0, 2, 4, 6, 10} |->
                    CASE n = 0 -> "negx" [] n = 2 -> "clr" [] n = 4 -> "neg" [] n = 6 -> "not"
                      [] n = 10 -> "tst"][Nibble(op)]
        effect(to) == Effect(does, size, o, to, Fetched(o, size), <<UnaryCycles(op, size)>>)
    IN IF does = "tst" THEN Reading(o, effect(NoOperand)) ELSE Modifying(o, effect(o))

\* MOVEM: the list is the first extension word; each register costs one or two transfers.
Movem(op) ==
    LET o == Ea(op)
        list == <<"list", 0>>
        toRegisters == Nibble(op) = 12
        size == Choose(SizeField(op) = 3, 4, 2)
        effect(base) == Effect("movem", size, IF toRegisters THEN o ELSE list,
                               IF toRegisters THEN list ELSE o, 1 + Fetched(o, size),
                               <<base, 2 * size>>)
    IN IF ~toRegisters /\ Kind(o) = "-(A)" THEN effect(8) ELSE Addressing(o, effect(12))

Returns ==      \* RTS, RTE, RTR
    {<<\h4E75, Effect("rts", 4, NoOperand, NoOperand, 0, <<16>>)>>,
     <<\h4E73, Privileged(Implied("rte", 0, <<20>>))>>,
     <<\h4E77, Implied("rtr", 0, <<20>>)>>}

\* The words that are one instruction each; STOP finds its operand prefetched, and backs up.
Fixed ==
    Returns \cup
    {<<\h4E71, Implied("nop", 0, <<4>>)>>,
     <<\h4E70, Privileged(Implied("reset", 0, <<132>>))>>,
     <<\h4E72, Privileged(Implied("stop", 0, <<4>>))>>,
     <<\h4E76, Conditional(Implied("trapv", 0, <<34, 4>>))>>,
     <<\h4AFC, Traps(34)>>}
FixedWords == {f[1] : f \in Fixed}
FixedEffect == [op \in FixedWords |-> (CHOOSE f \in Fixed : f[1] = op)[2]]

\* One register and no other operand.
OneRegister(op) ==
    LET d == Data(Reg(op))
        a == Address(Reg(op))
        usp == <<"usp", 0>>
    IN CASE op \in AnyReg(\h4E50) -> Effect("link", 4, Immediate, a, 1, <<16>>)
         [] op \in AnyReg(\h4E58) -> Effect("unlk", 4, a, a, 0, <<12>>)
         [] op \in AnyReg(\h4E60) -> Privileged(Effect("moveusp", 4, a, usp, 0, <<4>>))
         [] op \in AnyReg(\h4E68) -> Privileged(Effect("moveusp", 4, usp, a, 0, <<4>>))
         [] op \in AnyReg(\h4840) -> Effect("swap", 4, d, d, 0, <<4>>)
         [] op \in AnyReg(\h4880) -> Effect("ext", 2, d, d, 0, <<4>>)
         [] op \in AnyReg(\h48C0) -> Effect("ext", 4, d, d, 0, <<4>>)
OneRegisterWords ==
    UNION {AnyReg(w) : w \in {\h4E50, \h4E58, \h4E60, \h4E68, \h4840, \h4880, \h48C0}}

\* LEA, JMP, JSR, PEA: an address, and nothing read there.
Control(op) ==
    LET o == Ea(op)
        effect(does, to) ==
            Addressing(o, Effect(does, 4, o, to, Fetched(o, 4), <<ControlCycles(op)>>))
    IN CASE OpMode(op) = 7 -> effect("lea", Address(Field9(op)))
         [] op \in AnyEa(\h4EC0) -> effect("jmp", NoOperand)
         [] op \in AnyEa(\h4E80) -> effect("jsr", NoOperand)
         [] op \in AnyEa(\h4840) -> effect("pea", NoOperand)
ControlWords == AnyEa(\h4EC0) \cup AnyEa(\h4E80) \cup AnyEa(\h4840)

\* What is left, one operand each.
OneOperand(op) ==
    LET o == Ea(op)
        sr == <<"sr", 0>>
        ccr == <<"ccr", 0>>
    IN CASE op \in AnyEa(\h4800) ->
                Modifying(o, Effect("nbcd", 1, o, o, Fetched(o, 1), <<6>>))
         [] op \in AnyEa(\h40C0) ->
                Modifying(o, Effect("movesr", 2, sr, o, Fetched(o, 2), <<6>>))
         [] op \in AnyEa(\h44C0) ->
                Reading(o, Effect("moveccr", 2, o, ccr, Fetched(o, 2), <<12>>))
         [] op \in AnyEa(\h46C0) ->
                Reading(o, Privileged(Effect("movesr", 2, o, sr, Fetched(o, 2), <<12>>)))
         [] op \in AnyEa(\h4AC0) ->
                Modifying(o, Effect("tas", 1, o, o, Fetched(o, 1), <<Choose(Mode(op) = 0, 4, 14)>>))
         [] OpMode(op) = 6 ->
                Reading(o, Conditional(Effect("chk", 2, o, Data(Field9(op)), Fetched(o, 2),
                                              <<40, 10>>)))
         [] OTHER -> Halts

\* groupMisc
GroupMisc(op) ==
    IF Nibble(op) \in {0, 2, 4, 6, 10} /\ SizeField(op) # 3 THEN Unary(op)
    ELSE IF Nibble(op) \in {8, 12} /\ SizeField(op) >= 2 /\ Mode(op) # 0 THEN Movem(op)
    ELSE IF op \in FixedWords THEN FixedEffect[op]
    ELSE IF op \in \h4E40 .. \h4E4F THEN Traps(38)
    ELSE IF op \in OneRegisterWords THEN OneRegister(op)
    ELSE IF OpMode(op) = 7 \/ op \in ControlWords THEN Control(op)
    ELSE OneOperand(op)

--------------------------------------------------------------------------------
(* $5, $E: quick operations, conditions, shifts. *)

\* groupQuickAlu: on an address register the whole register counts and no flag changes.
GroupQuickAlu(op) ==
    LET o == Ea(op)
        size == SizeOf(SizeField(op))
        data == Quick(IF Field9(op) = 0 THEN 8 ELSE Field9(op))
        condition == <<"condition", Nibble(op)>>
        does == IF Bit8(op) THEN "sub" ELSE "add"
        doesA == IF Bit8(op) THEN "suba" ELSE "adda"
    IN CASE SizeField(op) = 3 /\ Kind(o) = "A" ->
                Effect("dbcc", 2, condition, Data(Reg(op)), 1, <<12, 14, 10>>)
         [] SizeField(op) = 3 /\ Kind(o) # "A" ->
                Modifying(o, Effect("scc", 1, condition, o, Fetched(o, 1), SccCycles(op)))
         [] SizeField(op) # 3 /\ Kind(o) = "A" ->
                Effect(doesA, 4, data, o, 0, <<QuickCycles(op, size)>>)
         [] SizeField(op) # 3 /\ Kind(o) # "A" ->
                Modifying(o, Effect(does, size, data, o, Fetched(o, size),
                                    <<QuickCycles(op, size)>>))

ShiftNames(op) ==
    IF Bit8(op) THEN <<"asl", "lsl", "roxl", "rol">> ELSE <<"asr", "lsr", "roxr", "ror">>

\* memoryShift: one bit of a word
MemoryShift(op) ==
    LET o == Ea(op) IN
    IF IsRegister(o) THEN Halts
    ELSE Modifying(o, Effect(ShiftNames(op)[(Field9(op) % 4) + 1], 2, Quick(1), o, Fetched(o, 2),
                             <<8 + ReadCycles(o, 2)>>))

\* groupShift
GroupShift(op) ==
    LET size == SizeOf(SizeField(op))
        count == IF Mode(op) >= 4 THEN Data(Field9(op))
                 ELSE Quick(IF Field9(op) = 0 THEN 8 ELSE Field9(op))
    IN IF SizeField(op) = 3 THEN MemoryShift(op)
       ELSE Effect(ShiftNames(op)[(Mode(op) % 4) + 1], size, count, Data(Reg(op)), 0,
                   <<Choose(size = 4, 8, 6), 2>>)

--------------------------------------------------------------------------------
(* $8, $9, $B, $C, $D: two-operand arithmetic. *)

\* <ea>,Dn or Dn,<ea>
BothWays(op, does) ==
    LET o == Ea(op)
        d == Data(Field9(op))
        size == SizeOf(OpMode(op))
        effect(from, to) ==
            Effect(does, size, from, to, Fetched(o, size), <<StandardCycles(op, size)>>)
    IN IF OpMode(op) >= 4 THEN Modifying(o, effect(d, o)) ELSE Reading(o, effect(o, d))

\* <ea>,An: a word is extended, the whole register counts
OnAddress(op, does) ==
    LET o == Ea(op)
        size == Choose(OpMode(op) = 3, 2, 4)
    IN Reading(o, Effect(does, size, o, Address(Field9(op)), Fetched(o, size),
                         <<StandardCycles(op, size)>>))

\* Dy,Dx or -(Ay),-(Ax)
Paired(op, does, size, registers, memory) ==
    LET mode == IF Mode(op) = 0 THEN "D" ELSE "-(A)"
    IN Effect(does, size, <<mode, Reg(op)>>, <<mode, Field9(op)>>, 0,
              <<Choose(Mode(op) = 0, registers, memory)>>)

IsPaired(op) == OpMode(op) \in 4 .. 6 /\ Mode(op) <= 1
ByWord(op, does, cycles) ==
    Effect(does, 2, Ea(op), Data(Field9(op)), Fetched(Ea(op), 2), cycles)

\* groupAdd, groupSub
GroupAddSub(op, does, doesA, doesX) ==
    CASE OpMode(op) \in {3, 7} -> OnAddress(op, doesA)
      [] IsPaired(op) ->
            LET size == SizeOf(OpMode(op)) IN
            Paired(op, doesX, size, Choose(size = 4, 8, 4), Choose(size = 4, 30, 18))
      [] OTHER -> BothWays(op, does)

\* groupCmpEor
GroupCmpEor(op) ==
    CASE OpMode(op) \in {3, 7} -> OnAddress(op, "cmpa")
      [] OpMode(op) \in 0 .. 2 -> BothWays(op, "cmp")
      [] OpMode(op) \in 4 .. 6 /\ Mode(op) = 1 ->
            Effect("cmpm", SizeOf(OpMode(op)), <<"(A)+", Reg(op)>>, <<"(A)+", Field9(op)>>, 0,
                   <<12>>)
      [] OpMode(op) \in 4 .. 6 /\ Mode(op) # 1 -> BothWays(op, "eor")

\* groupOrDiv; execBcdAddSub is the pair of BCD operations
GroupOrDiv(op) ==
    CASE OpMode(op) = 3 -> Reading(Ea(op), Conditional(ByWord(op, "divu", <<38, 70, 140>>)))
      [] OpMode(op) = 7 -> Reading(Ea(op), Conditional(ByWord(op, "divs", <<38, 70, 140>>)))
      [] IsPaired(op) -> IF OpMode(op) = 4 THEN Paired(op, "sbcd", 1, 6, 18) ELSE Halts
      [] OTHER -> BothWays(op, "or")

\* groupAndMul
GroupAndMul(op) ==
    LET exg(from, to) == Effect("exg", 4, from, to, 0, <<6>>) IN
    CASE OpMode(op) = 3 -> Reading(Ea(op), ByWord(op, "mulu", <<70>>))
      [] OpMode(op) = 7 -> Reading(Ea(op), ByWord(op, "muls", <<70>>))
      [] IsPaired(op) ->
           (CASE OpMode(op) = 4 -> Paired(op, "abcd", 1, 6, 18)
              [] OpMode(op) = 5 /\ Mode(op) = 0 -> exg(Data(Reg(op)), Data(Field9(op)))
              [] OpMode(op) = 5 /\ Mode(op) = 1 -> exg(Address(Reg(op)), Address(Field9(op)))
              [] OpMode(op) = 6 /\ Mode(op) = 1 -> exg(Address(Reg(op)), Data(Field9(op)))
              [] OpMode(op) = 6 /\ Mode(op) = 0 -> Halts)
      [] OTHER -> BothWays(op, "and")

\* execute
Execute(op) ==
    CASE Group(op) = 0 -> GroupImmediate(op)
      [] Group(op) = 1 -> GroupMove(op, 1)
      [] Group(op) = 2 -> GroupMove(op, 4)
      [] Group(op) = 3 -> GroupMove(op, 2)
      [] Group(op) = 4 -> GroupMisc(op)
      [] Group(op) = 5 -> GroupQuickAlu(op)
      [] Group(op) = 6 -> GroupBranch(op)
      [] Group(op) = 7 -> GroupMoveq(op)
      [] Group(op) = 8 -> GroupOrDiv(op)
      [] Group(op) = 9 -> GroupAddSub(op, "sub", "suba", "subx")
      [] Group(op) = 11 -> GroupCmpEor(op)
      [] Group(op) = 12 -> GroupAndMul(op)
      [] Group(op) = 13 -> GroupAddSub(op, "add", "adda", "addx")
      [] Group(op) = 14 -> GroupShift(op)
      [] Group(op) \in {10, 15} -> Traps(34)

================================================================================
