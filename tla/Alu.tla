---------------------------------- MODULE Alu ----------------------------------
(******************************************************************************)
(* The 68000's arithmetic: core/cpu/m68k_alu.h, shift_alu.h and the flag rules    *)
(* of m68k_ops_*.cpp, and the same flags as block_emitter.cpp computes them, bit   *)
(* by bit.  A size is given by half the number of its values: H is 128 for a byte, *)
(* 32768 for a word and 2^31 for a long.                                         *)
(******************************************************************************)
EXTENDS Integers

Unsigned(H) == 0 .. 2 * H - 1
\* truncate, of what one addition or subtraction can give
Truncated(n, H) == IF n < 0 THEN n + 2 * H ELSE IF n >= 2 * H THEN n - 2 * H ELSE n
Negative(n, H) == n >= H            \* isNegative: the sign bit
Signed(n, H) == IF Negative(n, H) THEN n - 2 * H ELSE n
Bit(condition) == IF condition THEN 1 ELSE 0
Xor(a, b) == ~(a <=> b)

Flags == [x : BOOLEAN, n : BOOLEAN, z : BOOLEAN, v : BOOLEAN, c : BOOLEAN]

--------------------------------------------------------------------------------
(* Addition and subtraction. *)

\* alu::add, alu::sub
Add(d, s, H) ==
    LET r == Truncated(d + s, H) IN
    [value |-> r, n |-> Negative(r, H), z |-> r = 0,
     v |-> (Negative(s, H) <=> Negative(d, H)) /\ Xor(Negative(r, H), Negative(d, H)),
     c |-> d + s > 2 * H - 1]
Sub(d, s, H) ==
    LET r == Truncated(d - s, H) IN
    [value |-> r, n |-> Negative(r, H), z |-> r = 0,
     v |-> Xor(Negative(s, H), Negative(d, H)) /\ Xor(Negative(r, H), Negative(d, H)),
     c |-> s > d]

\* applyFlags, applyResultFlags; setLogicFlags
Applied(f, r, writeExtend) ==
    [x |-> IF writeExtend THEN r.c ELSE f.x, n |-> r.n, z |-> r.z, v |-> r.v, c |-> r.c]
LogicFlags(f, value, H) ==
    [x |-> f.x, n |-> Negative(value, H), z |-> value = 0, v |-> FALSE, c |-> FALSE]

\* ADD, SUB, CMP: the flags they leave
Arithmetic(alu, d, s, H, f) ==
    IF alu = "add" THEN Applied(f, Add(d, s, H), TRUE) ELSE Applied(f, Sub(d, s, H), alu # "cmp")

\* mutant: the overflow of the second addition counts as well, as it does for NEGX.
AddxInTwoSteps(d, s, H, f) ==
    LET first == Add(d, s, H)
        second == Add(first.value, Bit(f.x), H)
    IN [second EXCEPT !.z = f.z /\ second.z, !.v = first.v \/ second.v, !.c = first.c \/ second.c]
\* ADDX and SUBX: one sum as far as V goes; Z can only be cleared (accumulateZero).
Addx(d, s, H, f) ==
    LET first == Add(d, s, H)
        second == Add(first.value, Bit(f.x), H)
    IN [second EXCEPT !.z = f.z /\ second.z, !.c = first.c \/ second.c,
                      !.v = /\ Negative(s, H) <=> Negative(d, H)
                            /\ Xor(second.n, Negative(d, H))]
Subx(d, s, H, f) ==
    LET first == Sub(d, s, H)
        second == Sub(first.value, Bit(f.x), H)
    IN [second EXCEPT !.z = f.z /\ second.z, !.c = first.c \/ second.c,
                      !.v = /\ Xor(Negative(s, H), Negative(d, H))
                            /\ Xor(second.n, Negative(d, H))]
\* NEGX takes the overflow of either step.
Negx(d, H, f) ==
    LET first == Sub(0, d, H)
        second == Sub(first.value, Bit(f.x), H)
    IN [second EXCEPT !.z = f.z /\ second.z, !.v = first.v \/ second.v, !.c = first.c \/ second.c]

--------------------------------------------------------------------------------
(* The emitted code: the same flags from the sign bits of the operands.           *)

\* mutant: the overflow of SUB for ADD too.
EmittedOverflowOfSub(alu, ds, ss, rs) == Xor(ds, ss) /\ Xor(rs, ds)
\* emitArithFlagsCore: V, then C
EmittedOverflow(alu, ds, ss, rs) ==
    (IF alu = "add" THEN ~Xor(ds, ss) ELSE Xor(ds, ss)) /\ Xor(rs, ds)
EmittedCarry(alu, ds, ss, rs) ==
    IF alu = "add" THEN (ds /\ ss) \/ ((ds \/ ss) /\ ~rs) ELSE (~ds /\ ss) \/ (~Xor(ds, ss) /\ rs)
EmittedArithmetic(alu, d, s, H, f) ==
    LET r == Truncated(IF alu = "add" THEN d + s ELSE d - s, H)
        ds == Negative(d, H)
        ss == Negative(s, H)
        rs == Negative(r, H)
        carry == EmittedCarry(alu, ds, ss, rs)
    IN [x |-> IF alu = "cmp" THEN f.x ELSE carry, n |-> rs, z |-> r = 0,
        v |-> EmittedOverflow(alu, ds, ss, rs), c |-> carry]

\* testCondition
Condition(cond, f) ==
    CASE cond = 0 -> TRUE
      [] cond = 1 -> FALSE
      [] cond = 2 -> ~f.c /\ ~f.z           \* HI
      [] cond = 3 -> f.c \/ f.z             \* LS
      [] cond = 4 -> ~f.c                   \* CC
      [] cond = 5 -> f.c                    \* CS
      [] cond = 6 -> ~f.z                   \* NE
      [] cond = 7 -> f.z                    \* EQ
      [] cond = 8 -> ~f.v                   \* VC
      [] cond = 9 -> f.v                    \* VS
      [] cond = 10 -> ~f.n                  \* PL
      [] cond = 11 -> f.n                   \* MI
      [] cond = 12 -> f.n <=> f.v           \* GE
      [] cond = 13 -> ~(f.n <=> f.v)        \* LT
      [] cond = 14 -> ~f.z /\ (f.n <=> f.v) \* GT
      [] cond = 15 -> f.z \/ ~(f.n <=> f.v) \* LE

\* emitCondition; a branch on condition 1 is BSR and never comes here.
EmittedCondition(cond, f) ==
    CASE cond = 0 -> TRUE
      [] cond = 2 -> ~(f.c \/ f.z)
      [] cond = 3 -> f.c \/ f.z
      [] cond = 4 -> ~f.c
      [] cond = 5 -> f.c
      [] cond = 6 -> ~f.z
      [] cond = 7 -> f.z
      [] cond = 8 -> ~f.v
      [] cond = 9 -> f.v
      [] cond = 10 -> ~f.n
      [] cond = 11 -> f.n
      [] cond = 12 -> ~Xor(f.n, f.v)
      [] cond = 13 -> Xor(f.n, f.v)
      [] cond = 14 -> ~(Xor(f.n, f.v) \/ f.z)
      [] cond = 15 -> Xor(f.n, f.v) \/ f.z

--------------------------------------------------------------------------------
(* Shifts of `bits` bits, in closed form, and by one bit at a time.               *)

Shifted(value, carry, extend, overflow) ==
    [value |-> value, carry |-> carry, extend |-> extend, overflow |-> overflow]
BitOf(n, i) == IF i < 0 THEN FALSE ELSE (n \div 2^i) % 2 = 1
\* n's bits turned round a ring of `width` bits
Turned(n, width, by, left) ==
    IF left THEN ((n * 2^by) % 2^width) + (n \div 2^(width - by))
    ELSE (n \div 2^by) + ((n * 2^(width - by)) % 2^width)

\* alu::shift
RotateExtend(v, bits, count, left, x) ==
    LET ring == Turned(v + Bit(x) * 2^bits, bits + 1, count % (bits + 1), left)
        out == ring >= 2^bits
    IN Shifted(ring % 2^bits, out, out, FALSE)
Rotate(v, bits, count, left, x) ==
    LET r == Turned(v, bits, count % bits, left)
    IN Shifted(r, IF left THEN r % 2 = 1 ELSE Negative(r, 2^(bits - 1)), x, FALSE)
ShiftLeft(v, bits, count, arithmetic) ==
    LET out == count <= bits /\ BitOf(v, bits - count)
        changes == IF count < bits
                   THEN \E i \in bits - count .. bits - 1 : Xor(BitOf(v, i), BitOf(v, i - 1))
                   ELSE v # 0
    IN Shifted(IF count < bits THEN (v * 2^count) % 2^bits ELSE 0, out, out, arithmetic /\ changes)
ShiftRight(v, bits, count, arithmetic) ==
    LET negative == arithmetic /\ Negative(v, 2^(bits - 1))
        out == IF count <= bits THEN BitOf(v, count - 1) ELSE negative
        kept == IF count < bits THEN v \div 2^count ELSE 0
        filled == IF count < bits THEN 2^bits - 2^(bits - count) ELSE 2^bits - 1
    IN Shifted(kept + (IF negative THEN filled ELSE 0), out, out, FALSE)
Shift(v, bits, count, type, left, x) ==
    IF count = 0 THEN Shifted(v, type = "rox" /\ x, x, FALSE)
    ELSE CASE type = "rox" -> RotateExtend(v, bits, count, left, x)
           [] type = "ro" -> Rotate(v, bits, count, left, x)
           [] type \in {"as", "ls"} ->
                IF left THEN ShiftLeft(v, bits, count, type = "as")
                ELSE ShiftRight(v, bits, count, type = "as")

\* M68k::memoryShift: one bit
ShiftOnce(v, bits, type, left, x) ==
    LET top == 2^(bits - 1)
        out == IF left THEN Negative(v, top) ELSE v % 2 = 1
        in == CASE type = "ro" -> out
                [] type = "rox" -> x
                [] type = "as" -> ~left /\ Negative(v, top)
                [] type = "ls" -> FALSE
        r == IF left THEN ((2 * v) % (2 * top)) + Bit(in) ELSE (v \div 2) + Bit(in) * top
    IN Shifted(r, out, IF type = "ro" THEN x ELSE out,
               type = "as" /\ left /\ Xor(Negative(r, top), Negative(v, top)))

--------------------------------------------------------------------------------
(* Binary-coded decimal, and division by hand. *)

\* alu::bcdAdd, alu::bcdSub: the binary result of two bytes, then corrected
BcdAdd(d, s, x) ==
    LET binary == d + s + Bit(x)
        low == (d % 16) + (s % 16) + Bit(x) > 15 \/ binary % 16 > 9
        once == binary + (IF low THEN 6 ELSE 0)
        carry == once > 159
        corrected == once + (IF carry THEN 96 ELSE 0)
    IN [value |-> corrected % 256, c |-> carry, n |-> BitOf(corrected, 7),
        v |-> ~BitOf(binary, 7) /\ BitOf(corrected, 7), z |-> corrected % 256 = 0]
BcdSub(d, s, x) ==
    LET binary == d - s - Bit(x)
        low == (d % 16) < (s % 16) + Bit(x)
        once == binary - (IF low THEN 6 ELSE 0)
        corrected == once - (IF binary < 0 THEN 96 ELSE 0)
    IN [value |-> corrected % 256, c |-> binary < 0 \/ corrected < 0,
        n |-> BitOf(corrected % 256, 7),
        v |-> BitOf(binary % 256, 7) /\ ~BitOf(corrected % 256, 7), z |-> corrected % 256 = 0]

\* The loop of divideUnsigned and divideSigned: W steps from the dividend's upper half.
Division(dividend, divisor, W) ==
    LET after[i \in 0 .. W] ==
            IF i = 0 THEN [rem |-> dividend \div 2^W, quo |-> 0]
            ELSE LET was == after[i - 1]
                     rem == 2 * was.rem + Bit(BitOf(dividend, W - i))
                 IN IF rem >= divisor THEN [rem |-> rem - divisor, quo |-> 2 * was.quo + 1]
                    ELSE [rem |-> rem, quo |-> 2 * was.quo]
    IN after[W]
Divided(quotient, remainder, W) ==
    [quotient |-> quotient, remainder |-> remainder, overflow |-> FALSE,
     n |-> BitOf(quotient, W - 1), z |-> quotient = 0]
Overflowed == [quotient |-> 0, remainder |-> 0, overflow |-> TRUE, n |-> TRUE, z |-> FALSE]
TooMany(dividend, divisor, W) == dividend \div 2^W >= divisor

\* alu::divideUnsigned, alu::divideSigned: 2W bits by W bits
DivideUnsigned(dividend, divisor, W) ==
    IF TooMany(dividend, divisor, W) THEN Overflowed
    ELSE LET end == Division(dividend, divisor, W) IN Divided(end.quo, end.rem, W)
DivideSigned(dividend, divisor, W) ==
    LET dividendNegative == BitOf(dividend, 2 * W - 1)
        divisorNegative == BitOf(divisor, W - 1)
        quotientNegative == Xor(dividendNegative, divisorNegative)
        size(n, negative, bits) == IF negative THEN 2^bits - n ELSE n
        over == size(dividend, dividendNegative, 2 * W)
        by == size(divisor, divisorNegative, W)
        end == Division(over, by, W)
    IN IF TooMany(over, by, W) \/ end.quo > 2^(W - 1) - 1 + Bit(quotientNegative) THEN Overflowed
       ELSE Divided(size(end.quo, quotientNegative, W) % 2^W,
                    size(end.rem, dividendNegative, W) % 2^W, W)

================================================================================
