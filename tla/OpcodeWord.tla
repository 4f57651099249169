------------------------------ MODULE OpcodeWord ------------------------------
(******************************************************************************)
(* A 68000 instruction word: its fields, its operands, what the timing headers of *)
(* core/cpu say an instruction costs and what the length header says of its size.  *)
(* The interpreter and the block planner both include those headers, so they are   *)
(* stated once.                                                                   *)
(******************************************************************************)
EXTENDS Integers

Group(op) == op \div 4096
Nibble(op) == (op \div 256) % 16        \* bits 11-8: a condition, or which unary operation
Field9(op) == (op \div 512) % 8         \* bits 11-9: a register, or which immediate operation
Bit8(op) == (op \div 256) % 2 = 1
OpMode(op) == (op \div 64) % 8
SizeField(op) == (op \div 64) % 4
Mode(op) == (op \div 8) % 8
Reg(op) == op % 8

\* The words that agree with first but for their last bits, as `(op & mask) == first`.
AnyReg(first) == first .. first + 7
AnyEa(first) == first .. first + 63

\* sizeFromField, sizeFromOpmode: bytes
SizeOf(field) == IF field % 4 = 0 THEN 1 ELSE IF field % 4 = 1 THEN 2 ELSE 4

\* An operand is its addressing mode and a register number, or a number the opcode holds.
Operand(mode, reg) ==
    IF mode < 7
    THEN <<<<"D", "A", "(A)", "(A)+", "-(A)", "d(A)", "d(A,X)">>[mode + 1], reg>>
    ELSE <<<<"w", "l", "d(PC)", "d(PC,X)", "#", "invalid", "invalid", "invalid">>[reg + 1], 0>>
Kind(o) == o[1]
Ea(op) == Operand(Mode(op), Reg(op))
Data(n) == <<"D", n>>
Address(n) == <<"A", n>>
Immediate == <<"#", 0>>
Quick(n) == <<"quick", n>>
NoOperand == <<"none", 0>>

IsRegister(o) == Kind(o) \in {"D", "A"}

--------------------------------------------------------------------------------
(* Cycles. *)

\* operand_timing.h, and the same table in standard_timing.h and move_timing.h
EaCycles(o) ==
    CASE Kind(o) \in {"D", "A", "invalid"} -> 0
      [] Kind(o) \in {"(A)", "(A)+", "#"} -> 4
      [] Kind(o) = "-(A)" -> 6
      [] Kind(o) \in {"d(A)", "w", "d(PC)"} -> 8
      [] Kind(o) \in {"d(A,X)", "d(PC,X)"} -> 10
      [] Kind(o) = "l" -> 12
LongExtra(o, size) == IF size = 4 /\ ~IsRegister(o) THEN 4 ELSE 0
ReadCycles(o, size) == EaCycles(o) + LongExtra(o, size)

Choose(condition, yes, no) == IF condition THEN yes ELSE no

\* moveInstructionCycles: writing through -(A) is no dearer than through (A).
MoveCycles(op, size) ==
    LET dst == Operand(OpMode(op), Field9(op))
        write == CASE Kind(dst) = "-(A)" -> 4
                   [] Kind(dst) \in {"d(PC)", "d(PC,X)", "#"} -> 0
                   [] OTHER -> EaCycles(dst)
    IN 4 + ReadCycles(Ea(op), size) + write + LongExtra(dst, size)

\* standardInstructionCycles
StandardCycles(op, size) ==
    LET o == Ea(op)
        compare == Group(op) = 11
        shortSource == IsRegister(o) \/ o = Immediate
        base ==
            CASE OpMode(op) \in {3, 7} ->
                    Choose(compare, 6, Choose(size # 4 \/ shortSource, 8, 6))
              [] OpMode(op) \in 4 .. 6 ->
                    IF compare /\ Kind(o) = "D" THEN Choose(size = 4, 8, 4)
                    ELSE Choose(size = 4, 12, 8)
              [] OpMode(op) \in 0 .. 2 ->
                    Choose(size # 4, 4, Choose(~compare /\ shortSource, 8, 6))
    IN base + ReadCycles(o, size)

\* immediateMemoryEaCycles
AlterCycles(o, size) ==
    Choose(Kind(o) \in {"d(PC,X)", "#", "invalid"}, 8, EaCycles(o)) + Choose(size = 4, 4, 0)

\* immediateInstructionCycles
ImmediateCycles(op, size) ==
    LET o == Ea(op)
        compare == Field9(op) = 6
    IN IF Kind(o) = "D" THEN Choose(size # 4, 8, Choose(Field9(op) \in {1, 6}, 14, 16))
       ELSE Choose(compare, Choose(size = 4, 12, 8), Choose(size = 4, 20, 12))
              + AlterCycles(o, size)

\* quickInstructionCycles
QuickCycles(op, size) ==
    LET o == Ea(op) IN
    IF IsRegister(o) THEN Choose(size = 4 \/ (Kind(o) = "A" /\ Bit8(op)), 8, 4)
    ELSE Choose(size = 4, 12, 8) + AlterCycles(o, size)

\* controlInstructionCycles: these compute an address and read nothing there.
ControlCycles(op) ==
    LET transfers == op \in AnyEa(\h4E80) \cup AnyEa(\h4EC0)      \* JSR, JMP
        pushes == op \in AnyEa(\h4E80) \cup AnyEa(\h4840)         \* JSR, PEA
        reach == CASE Kind(Ea(op)) \in {"d(A,X)", "d(PC,X)"} -> Choose(transfers, 6, 8)
                   [] Kind(Ea(op)) = "l" -> Choose(transfers, 4, 8)
                   [] Kind(Ea(op)) \in {"d(A)", "w", "d(PC)"} -> Choose(transfers, 2, 4)
                   [] OTHER -> 0
    IN Choose(transfers, 8, 4) + Choose(pushes, 8, 0) + reach

\* btstInstructionCycles
BtstCycles(op) ==
    Choose(Mode(op) = 0, 6, 4) + Choose(Bit8(op), 0, 4) + ReadCycles(Ea(op), 1)

\* unaryInstructionCycles
UnaryCycles(op, size) ==
    LET base == CASE Nibble(op) = 10 -> 4
                  [] Nibble(op) # 10 /\ Mode(op) = 0 -> Choose(size = 4, 6, 4)
                  [] Nibble(op) # 10 /\ Mode(op) # 0 -> Choose(size = 4, 12, 8)
    IN base + ReadCycles(Ea(op), size)

\* sccInstructionCycles, the condition holding or not
SccCycles(op) ==
    LET always(n) == <<n, n>> IN
    CASE Kind(Ea(op)) = "D" -> <<6, 4>>
      [] Kind(Ea(op)) \in {"(A)", "(A)+"} -> always(12)
      [] Kind(Ea(op)) = "-(A)" -> always(14)
      [] Kind(Ea(op)) = "d(A,X)" -> always(18)
      [] Kind(Ea(op)) = "l" -> always(20)
      [] OTHER -> always(16)

--------------------------------------------------------------------------------
(* core/cpu/m68k_length.h: how many bytes an instruction takes, told from its first *)
(* word alone.  The block planner walks the program with it, so a wrong length makes *)
(* it read an extension word as an instruction.  0 stands for kUnknownLength: the    *)
(* block ends before that instruction.                                               *)

Unknown == 0

\* eaExtensionWords
ExtensionWords(o, size) ==
    CASE Kind(o) \in {"D", "A", "(A)", "(A)+", "-(A)"} -> 0
      [] Kind(o) \in {"d(A)", "d(A,X)", "w", "d(PC)", "d(PC,X)"} -> 1
      [] Kind(o) = "l" -> 2
      [] Kind(o) = "#" -> IF size = 4 THEN 2 ELSE 1

\* The length of a word, `more` extension words and an operand that the form admits.
WithOperand(more, o, size, admitted) ==
    IF admitted /\ Kind(o) # "invalid" THEN 2 + 2 * (more + ExtensionWords(o, size)) ELSE Unknown

Alterable(o) == Kind(o) \notin {"d(PC)", "d(PC,X)", "#", "invalid"}

\* mutant: a bit number for a data register counted as a long.
StaticBitByTarget(op) ==
    LET o == Ea(op) IN
    WithOperand(Choose(Mode(op) = 0, 2, 1), o, Choose(Mode(op) = 0, 4, 1),
                Kind(o) # "A" /\ (SizeField(op) = 0 \/ Alterable(o)))
\* $0: BTST ... BSET #n, then ORI ... CMPI
StaticBitLength(op) ==
    LET o == Ea(op) IN
    WithOperand(1, o, Choose(Mode(op) = 0, 4, 1),
                Kind(o) # "A" /\ (SizeField(op) = 0 \/ Alterable(o)))
ImmediateLength(op) ==
    LET o == Ea(op)
        size == SizeOf(SizeField(op))
        compare == Field9(op) = 6
    IN WithOperand(ExtensionWords(Immediate, size), o, size,
                   /\ SizeField(op) # 3 /\ Field9(op) # 7
                   /\ Kind(o) \notin {"A", "#"}
                   /\ compare \/ Kind(o) \notin {"d(PC)", "d(PC,X)"})

\* $5: ADDQ and SUBQ; DBcc and Scc where the size would be 3
QuickLength(op) ==
    LET o == Ea(op)
        size == SizeOf(SizeField(op))
    IN CASE SizeField(op) = 3 /\ Mode(op) = 1 -> 4
         [] SizeField(op) = 3 /\ Mode(op) # 1 -> WithOperand(0, o, 1, Alterable(o))
         [] SizeField(op) # 3 ->
                WithOperand(0, o, size, Alterable(o) /\ ~(size = 1 /\ Kind(o) = "A"))

\* $1-$3: two operands, the second with its fields the other way round
MoveLength(op, size) ==
    LET src == Ea(op)
        dst == Operand(OpMode(op), Field9(op))
    IN IF Alterable(dst)
       THEN WithOperand(ExtensionWords(dst, size), src, size, TRUE)
       ELSE Unknown

\* $6: an eight-bit displacement of 0 means a word follows; -1 is a later processor's.
BranchLength(op) == CASE op % 256 = 0 -> 4 [] op % 256 = 255 -> Unknown [] OTHER -> 2

\* $4, in the order of the code
FixedLength ==
    {\h4E75, \h4E71, \h4E73, \h4E77}            \* RTS, NOP, RTE, RTR
        \cup AnyReg(\h4840) \cup AnyReg(\h4E58)   \* SWAP, UNLK
        \cup AnyReg(\h4880) \cup AnyReg(\h48C0)   \* EXT
        \cup \h4E40 .. \h4E4F                           \* TRAP
IsMovem(op) == Nibble(op) \in {8, 12} /\ SizeField(op) >= 2 /\ Mode(op) # 0
IsControl(op) ==                                        \* LEA, JSR and JMP, PEA
    OpMode(op) = 7 \/ op \in AnyEa(\h4E80) \cup AnyEa(\h4EC0) \cup AnyEa(\h4840)
IsUnary(op) == Nibble(op) \in {0, 2, 4, 6, 10} /\ SizeField(op) # 3
MiscLength(op) ==
    LET o == Ea(op) IN
    IF op \in FixedLength THEN 2
    ELSE IF op \in AnyReg(\h4E50) THEN 4             \* LINK
    ELSE IF IsMovem(op) THEN WithOperand(1, o, 2, TRUE)
    ELSE IF IsControl(op) THEN WithOperand(0, o, 4, o # Immediate)
    ELSE IF IsUnary(op)
         THEN WithOperand(0, o, SizeOf(SizeField(op)), Nibble(op) = 10 \/ Alterable(o))
    ELSE IF op \in AnyEa(\h4AC0) THEN WithOperand(0, o, 1, Alterable(o))    \* TAS
    ELSE Unknown

\* $8, $9, $B, $C, $D
ArithmeticLength(op) ==
    LET o == Ea(op)
        toMemory == OpMode(op) >= 4
        multiply == Group(op) \in {8, 12}
    IN IF OpMode(op) \in {3, 7}
       THEN WithOperand(0, o, Choose(multiply \/ OpMode(op) = 3, 2, 4),
                        ~(multiply /\ Kind(o) = "A"))
       ELSE WithOperand(0, o, SizeOf(OpMode(op)),
                        /\ toMemory => Alterable(o) /\ ~IsRegister(o)
                        /\ ~(SizeOf(OpMode(op)) = 1 /\ Kind(o) = "A"))

\* instructionLength
Length(op) ==
    CASE Group(op) = 0 /\ Bit8(op) -> Unknown           \* MOVEP, BTST Dn, ...
      [] Group(op) = 0 /\ ~Bit8(op) /\ Field9(op) = 4 -> StaticBitLength(op)
      [] Group(op) = 0 /\ ~Bit8(op) /\ Field9(op) # 4 -> ImmediateLength(op)
      [] Group(op) = 1 -> MoveLength(op, 1)
      [] Group(op) = 2 -> MoveLength(op, 4)
      [] Group(op) = 3 -> MoveLength(op, 2)
      [] Group(op) = 4 -> MiscLength(op)
      [] Group(op) = 5 -> QuickLength(op)
      [] Group(op) = 6 -> BranchLength(op)
      [] Group(op) = 7 -> IF Bit8(op) THEN Unknown ELSE 2
      [] Group(op) \in {8, 9, 11, 12, 13} -> ArithmeticLength(op)
      [] Group(op) \in {10, 14, 15} -> Unknown

================================================================================
