-------------------------------- MODULE Opcodes --------------------------------
(******************************************************************************)
(* Every word of sixteen bits in turn.  As an instruction it is seen by the three *)
(* that decode it: the length table, the interpreter and the translator.  The     *)
(* same sixteen bits are also the operands of the arithmetic.                     *)
(******************************************************************************)
EXTENDS Planner, Alu

VARIABLE op     \* the instruction word

FirstWord == op \in {256 * n : n \in 0 .. 255}
NextWord == op' = (op + 1) % 65536
EveryWord == FirstWord /\ [][NextWord]_op

\* A length that is known is the length the interpreter consumes, unless the word does
\* not run at all (a byte of an address register, which takes the illegal instruction
\* exception before it fetches).  The planner walks the program by these lengths, so an
\* extension word counted wrongly would be planned, and run natively, as an instruction
\* (m68k_length.h, against fetch() in m68k_ops_*.cpp).
LengthsAgree ==
    LET does == Execute(op) IN
    Length(op) # Unknown /\ does.fate \in {"runs", "privileged", "conditional"}
        => Length(op) = 2 + 2 * does.words

\* What the planner accepts cannot trap or halt, and what is emitted for it is what the
\* interpreter does with the same word: the same operation of the same size on the same
\* operands, reading as many extension words, in as many cycles (planOne, foldImmediate
\* and emitAll against execute).
PlannedIsExecuted ==
    LET plan == PlanOne(op) IN
    Length(op) # Unknown /\ plan # Refused => Emitted(plan, Length(op)) = Execute(op)

--------------------------------------------------------------------------------
(* Two bytes, or other ways to cut sixteen bits. *)

High(w) == w \div 256
Low(w) == w % 256
SomeFlags == [x : BOOLEAN, n : {TRUE}, z : BOOLEAN, v : {TRUE}, c : {TRUE}]

\* The flags a native ADD, SUB or CMP computes from sign bits are the interpreter's, and
\* a native branch then goes the same way on every condition (emitArithFlagsCore and
\* emitCondition against alu::add, alu::sub, applyFlags and testCondition).
FlagsAgree(d, s, H, f) ==
    \A alu \in {"add", "sub", "cmp"} :
        LET emitted == EmittedArithmetic(alu, d, s, H, f) IN
        /\ emitted = Arithmetic(alu, d, s, H, f)
        /\ \A cond \in 0 .. 15 \ {1} :
                EmittedCondition(cond, emitted) <=> Condition(cond, emitted)
NativeFlags == \A f \in SomeFlags : FlagsAgree(High(op), Low(op), 128, f)

\* With the carry in, the value, carry and overflow of a sum or difference are those of
\* the numbers; NEGX is left out where it negates the least number with X set.
SumIsExact(r, sum, signed, H) ==
    /\ r.value \in Unsigned(H) \cap {sum - 2 * H, sum, sum + 2 * H}
    /\ r.c <=> sum \notin Unsigned(H)
    /\ r.v <=> signed \notin -H .. H - 1
SumsAreExact(d, s, H) ==
    /\ SumIsExact(Add(d, s, H), d + s, Signed(d, H) + Signed(s, H), H)
    /\ SumIsExact(Sub(d, s, H), d - s, Signed(d, H) - Signed(s, H), H)
    /\ \A f \in SomeFlags :
        LET x == Bit(f.x) IN
        /\ SumIsExact(Addx(d, s, H, f), d + s + x, Signed(d, H) + Signed(s, H) + x, H)
        /\ SumIsExact(Subx(d, s, H, f), d - s - x, Signed(d, H) - Signed(s, H) - x, H)
        /\ s # H \/ ~f.x => SumIsExact(Negx(s, H, f), 0 - s - x, 0 - Signed(s, H) - x, H)

\* Two decimal digits each: ABCD, SBCD and NBCD calculate modulo a hundred.
DecimalIsExact(d, s) ==
    LET number(b) == 10 * (b \div 16) + (b % 16)
        digits(b) == b % 16 < 10 /\ b \div 16 < 10
    IN digits(d) /\ digits(s) =>
        \A x \in BOOLEAN :
            LET sum == BcdAdd(d, s, x)
                rest == BcdSub(d, s, x)
            IN /\ digits(sum.value) /\ digits(rest.value)
               /\ number(sum.value) + (IF sum.c THEN 100 ELSE 0) = number(d) + number(s) + Bit(x)
               /\ number(rest.value) - (IF rest.c THEN 100 ELSE 0) = number(d) - number(s) - Bit(x)

\* Division of ten bits by five.
DivisionIsExact(dividend, divisor) ==
    LET u == DivideUnsigned(dividend, divisor, 5)
        i == DivideSigned(dividend, divisor, 5)
        a == Signed(dividend, 512)
        b == Signed(divisor, 16)
        q == Signed(i.quotient, 16)
        r == Signed(i.remainder, 16)
        abs(n) == IF n < 0 THEN -n ELSE n
        fits(k) == abs(a - k * b) < abs(b) /\ (a - k * b) * a >= 0
    IN divisor # 0 =>
        /\ u.overflow <=> dividend \div divisor > 31
        /\ ~u.overflow => u.quotient = dividend \div divisor /\ u.remainder = dividend % divisor
        /\ i.overflow <=> ~\E k \in -16 .. 15 : fits(k)
        /\ ~i.overflow => a = q * b + r /\ abs(r) < abs(b) /\ r * a >= 0

\* A shift by one more bit is the shift followed by one bit of the memory form.
ShiftIsRepeated(v, count, type) ==
    \A left, x \in BOOLEAN :
        LET before == Shift(v, 8, count, type, left, x)
            once == ShiftOnce(before.value, 8, type, left, before.extend)
        IN Shift(v, 8, count + 1, type, left, x) =
            [once EXCEPT !.overflow = before.overflow \/ once.overflow]

\* The arithmetic is that of the numbers the registers hold: carry, overflow, decimal
\* digits, quotients that do not fit, and the closed forms of the multi-bit shifts
\* (m68k_alu.h, shift_alu.h, the ADDX, SUBX and NEGX of m68k_ops_*.cpp).
ArithmeticExact ==
    /\ SumsAreExact(High(op), Low(op), 128)
    /\ DecimalIsExact(High(op), Low(op))
    /\ DivisionIsExact(op % 1024, (op \div 1024) % 32)
    /\ ShiftIsRepeated(Low(op), High(op) % 64, <<"as", "ls", "rox", "ro">>[(High(op) \div 64) + 1])

================================================================================
