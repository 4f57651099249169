-------------------------------- MODULE Planner --------------------------------
(******************************************************************************)
(* core/cpu/block_planner.cpp: which instruction words the translator accepts    *)
(* into a native block and as what, and what block_emitter.cpp then makes of a     *)
(* planned instruction, as an Effect of the interpreter.  A planned instruction     *)
(* is the code's PlannedOp; an operand folded from extension words counts the       *)
(* words that foldImmediate reads for it.                                        *)
(******************************************************************************)
EXTENDS Interpreter

\* PlannedOp
NotPlanned ==
    [kind |-> "none", ea |-> "none", alu |-> "none", src |-> 0, dst |-> 0, size |-> 0,
     imm |-> 0, cond |-> 0, cycles |-> 0]
Refused == NotPlanned
Plan(kind, src, dst, size, cycles) ==
    [NotPlanned EXCEPT !.kind = kind, !.src = src, !.dst = dst, !.size = size,
                       !.cycles = cycles]

\* readEaMode and writeEaMode; jsrEaMode
EmittedEa == {"(A)", "(A)+", "-(A)", "d(A)", "w", "l"}
JumpEa == {"(A)", "d(A)", "w", "l"}

--------------------------------------------------------------------------------
(* The planner's functions, one for each group of instruction words. *)

\* planMove
PlanMove(op, size) ==
    LET src == Ea(op)
        dst == Operand(OpMode(op), Field9(op))
        toAddress == Kind(dst) = "A"
        move(kind, ea) ==
            [Plan(kind, Reg(op), Field9(op), size, MoveCycles(op, size)) EXCEPT !.ea = ea]
        byRegister ==
            CASE src = Immediate /\ toAddress -> "MoveaImmToAreg"
              [] src = Immediate /\ ~toAddress -> "MoveImmToDreg"
              [] Kind(src) = "A" /\ toAddress -> "MoveaAregToAreg"
              [] Kind(src) = "A" /\ ~toAddress -> "MoveAregToDreg"
              [] Kind(src) = "D" /\ toAddress -> "MoveaDregToAreg"
              [] Kind(src) = "D" /\ ~toAddress -> "MoveRegToReg"
    IN IF ~IsRegister(dst)
       THEN IF Kind(dst) \in EmittedEa /\ Kind(src) = "D"
            THEN move("MoveDregToMem", Kind(dst)) ELSE Refused
       ELSE IF size = 1 /\ (toAddress \/ Kind(src) = "A") THEN Refused
       ELSE IF Kind(src) \in EmittedEa
            THEN move(IF toAddress THEN "MoveaMemToAreg" ELSE "MoveMemToDreg", Kind(src))
       ELSE IF IsRegister(src) \/ src = Immediate THEN move(byRegister, "none")
       ELSE Refused

\* planMisc: TST and CLR, of a register or of memory
PlanUnary(op) ==
    LET o == Ea(op)
        size == SizeOf(SizeField(op))
        test == Nibble(op) = 10
        unary(kind, ea) ==
            [Plan(kind, Choose(test, Reg(op), 0), Choose(test, 0, Reg(op)), size,
                  UnaryCycles(op, size)) EXCEPT !.ea = ea]
    IN IF SizeField(op) = 3 \/ Nibble(op) \notin {2, 10} THEN Refused
       ELSE IF Kind(o) = "D"
            THEN IF test THEN [unary("TstDreg", "none") EXCEPT !.cycles = 4]
                 ELSE unary("ClrDreg", "none")
       ELSE IF Kind(o) \in EmittedEa
            THEN unary(IF test THEN "TstMem" ELSE "ClrMem", Kind(o))
       ELSE Refused
PlanMisc(op) ==
    LET o == Ea(op) IN
    IF op = \h4E75 THEN Plan("Rts", 0, 0, 4, 16)
    ELSE IF op \in AnyEa(\h4E80)
         THEN IF Kind(o) \in JumpEa
              THEN [Plan("Jsr", 0, Reg(op), 4, ControlCycles(op)) EXCEPT !.ea = Kind(o)]
              ELSE Refused
    ELSE IF OpMode(op) = 7
         THEN LET lea(kind) == Plan(kind, Reg(op), Field9(op), 4, ControlCycles(op)) IN
              IF Kind(o) \in {"(A)", "d(A)"} THEN lea("LeaDisp")
              ELSE IF Kind(o) \in {"w", "l"} THEN lea("LeaAbs")
              ELSE Refused
    ELSE IF op \in AnyReg(\h4CD8)
         THEN [Plan("MovemPostIncToRegs", Reg(op), 0, 4, 12) EXCEPT !.ea = "(A)+"]
    ELSE IF op \in AnyReg(\h48E0)
         THEN [Plan("MovemRegsToPredec", 0, Reg(op), 4, 8) EXCEPT !.ea = "-(A)"]
    ELSE PlanUnary(op)

\* planMoveq
PlanMoveq(op) ==
    IF Bit8(op) THEN Refused
    ELSE [Plan("Moveq", 0, Field9(op), 4, 4) EXCEPT !.imm = SignedByte(op)]

\* planAlu: ADDA, SUBA, CMPA from a register or a number; ADD, SUB, AND, OR, CMP to Dn
AluOf == [g \in {8, 9, 11, 12, 13} |->
            CASE g = 8 -> "or" [] g = 9 -> "sub" [] g = 11 -> "cmp" [] g = 12 -> "and"
              [] g = 13 -> "add"]
PlanAddress(op) ==
    LET o == Ea(op)
        kind == CASE o = Immediate -> "ImmToAreg" [] Kind(o) = "A" -> "AregToAreg"
                  [] Kind(o) = "D" -> "DregToAreg"
        size == Choose(OpMode(op) = 3, 2, 4)
    IN IF (IsRegister(o) \/ o = Immediate) /\ Group(op) \in {9, 11, 13}
       THEN [Plan(kind, Reg(op), Field9(op), size, StandardCycles(op, size))
                EXCEPT !.alu = AluOf[Group(op)]]
       ELSE Refused
PlanAlu(op) ==
    LET o == Ea(op)
        size == SizeOf(OpMode(op))
        alu(kind) == [Plan(kind, Reg(op), Field9(op), size, StandardCycles(op, size))
                         EXCEPT !.alu = AluOf[Group(op)]]
    IN CASE OpMode(op) \in {3, 7} -> PlanAddress(op)
         [] OpMode(op) \in 4 .. 6 -> Refused
         [] OpMode(op) \in 0 .. 2 ->
                IF o = Immediate THEN alu("AluImmToDreg")
                ELSE IF Kind(o) = "D" THEN alu("AluRegToReg")
                ELSE IF Kind(o) \in EmittedEa
                     THEN [alu("AluMemToDreg") EXCEPT !.ea = Kind(o)]
                ELSE Refused

\* planImmediate: BTST #n,Dn, and ANDI, SUBI, ADDI, CMPI to Dn
PlanImmediate(op) ==
    LET size == SizeOf(SizeField(op)) IN
    IF Bit8(op) \/ Mode(op) # 0 THEN Refused
    ELSE IF Field9(op) = 4
         THEN IF SizeField(op) = 0 THEN Plan("BtstImmToDreg", Reg(op), 0, 4, BtstCycles(op))
              ELSE Refused
    ELSE IF Field9(op) \in {1, 2, 3, 6} /\ SizeField(op) # 3
         THEN [Plan("AluImmToDreg", 0, Reg(op), size, ImmediateCycles(op, size))
                  EXCEPT !.alu = <<"or", "and", "sub", "add", "bit", "eor", "cmp">>
                                    [Field9(op) + 1]]
    ELSE Refused

\* planQuickAlu
PlanQuickAlu(op) ==
    LET size == SizeOf(SizeField(op))
        quick(kind) ==
            [Plan(kind, 0, Reg(op), size, QuickCycles(op, size))
                EXCEPT !.alu = IF Bit8(op) THEN "sub" ELSE "add",
                       !.imm = IF Field9(op) = 0 THEN 8 ELSE Field9(op)]
    IN IF SizeField(op) = 3 THEN Refused
       ELSE CASE Mode(op) = 1 -> IF size = 1 THEN Refused ELSE quick("AddqImmToAreg")
              [] Mode(op) = 0 -> quick("AluImmToDreg")
              [] Mode(op) \in 2 .. 7 -> Refused

\* planBranch, and what plan() adds up for a branch that is taken
PlanBranch(op) ==
    LET bsr == Nibble(op) = 1
        wide == op % 256 = 0
    IN IF op % 256 = 255 THEN Refused
       ELSE [Plan(IF bsr THEN "Bsr" ELSE "Branch", 0, 0, Choose(bsr, 4, 0),
                  IF bsr THEN 18 ELSE Choose(wide, 12, 8))
                EXCEPT !.cond = Choose(bsr, 0, Nibble(op)),
                       !.imm = IF wide THEN 0 ELSE SignedByte(op)]

\* BlockPlanner::planOne
PlanOne(op) ==
    CASE Group(op) = 0 -> PlanImmediate(op)
      [] Group(op) = 1 -> PlanMove(op, 1)
      [] Group(op) = 2 -> PlanMove(op, 4)
      [] Group(op) = 3 -> PlanMove(op, 2)
      [] Group(op) = 4 -> PlanMisc(op)
      [] Group(op) = 5 -> PlanQuickAlu(op)
      [] Group(op) = 6 -> PlanBranch(op)
      [] Group(op) = 7 -> PlanMoveq(op)
      [] Group(op) \in {8, 9, 11, 12, 13} -> PlanAlu(op)
      [] Group(op) \in {10, 14, 15} -> Refused

--------------------------------------------------------------------------------
(* What is emitted for a planned instruction of some length.                     *)

\* mutant: every number is taken from the words after the opcode.
AlwaysFollows(length) == FALSE
\* immediateIsInOpcodeWord: ADDQ keeps the number of its opcode.
InOpcode(length) == length = 2

\* foldImmediate: the operand the plan carries and how many extension words it reads.
Folded(p, length) ==
    LET number == [operand |-> Immediate, words |-> Choose(p.size = 4, 2, 1)]
        short(kind) == [operand |-> <<kind, p.src>>, words |-> Choose(length = 4, 1, 0)]
    IN CASE p.kind \in {"MoveImmToDreg", "AluImmToDreg"} ->
                IF InOpcode(length) THEN [operand |-> Quick(p.imm), words |-> 0] ELSE number
         [] p.kind \in {"ImmToAreg", "MoveaImmToAreg"} -> number
         [] p.kind = "BtstImmToDreg" -> [operand |-> Immediate, words |-> 1]
         [] p.kind = "LeaDisp" -> IF length = 4 THEN short("d(A)") ELSE short("(A)")
         [] p.kind = "LeaAbs" ->
                IF length = 4 THEN [operand |-> <<"w", 0>>, words |-> 1]
                ELSE [operand |-> <<"l", 0>>, words |-> 2]
         [] p.ea # "none" ->
                LET toMemory == p.kind \in {"MoveDregToMem", "ClrMem", "Jsr", "MovemRegsToPredec"}
                    reg == Choose(p.ea \in {"w", "l"}, 0, Choose(toMemory, p.dst, p.src))
                IN [operand |-> <<p.ea, reg>>,
                    words |-> CASE p.ea \in {"d(A)", "w"} -> 1 [] p.ea = "l" -> 2
                                [] OTHER -> Choose(p.kind \in {"MovemPostIncToRegs",
                                                               "MovemRegsToPredec"}, 1, 0)]
         [] OTHER -> [operand |-> Quick(p.imm), words |-> 0]

\* What is emitted does `does` to `to`, in the plan's size, words and cycles.
Does(p, length, does, from, to) ==
    Effect(does, p.size, from, to, Folded(p, length).words, <<p.cycles>>)

\* emitMove, emitMoveAregToDreg, emitMoveImmToDreg, emitMoveq, emitMovea
EmittedMove(p, length) ==
    LET o == Folded(p, length).operand IN
    CASE p.kind = "MoveRegToReg" -> Does(p, length, "move", Data(p.src), Data(p.dst))
      [] p.kind = "MoveAregToDreg" -> Does(p, length, "move", Address(p.src), Data(p.dst))
      [] p.kind \in {"MoveImmToDreg", "Moveq"} -> Does(p, length, "move", o, Data(p.dst))
      [] p.kind = "MoveaDregToAreg" -> Does(p, length, "movea", Data(p.src), Address(p.dst))
      [] p.kind = "MoveaAregToAreg" -> Does(p, length, "movea", Address(p.src), Address(p.dst))
      [] p.kind = "MoveaImmToAreg" -> Does(p, length, "movea", o, Address(p.dst))

\* emitLeaDisp, emitLoadAregConst, emitTstDreg, emitClrDreg
EmittedAlone(p, length) ==
    CASE p.kind \in {"LeaDisp", "LeaAbs"} ->
            Does(p, length, "lea", Folded(p, length).operand, Address(p.dst))
      [] p.kind = "TstDreg" -> Does(p, length, "tst", Data(p.src), NoOperand)
      [] p.kind = "ClrDreg" -> Does(p, length, "clr", Data(p.dst), Data(p.dst))

\* emitAluBody, emitAluImm, emitBtstImm
EmittedAlu(p, length) ==
    LET o == Folded(p, length).operand IN
    CASE p.kind = "AluRegToReg" -> Does(p, length, p.alu, Data(p.src), Data(p.dst))
      [] p.kind = "AluImmToDreg" -> Does(p, length, p.alu, o, Data(p.dst))
      [] p.kind = "BtstImmToDreg" -> Does(p, length, "btst", o, Data(p.src))

\* emitAdda, emitCmpa, emitAddqImmToAreg: the whole of an address register
EmittedAddress(p, length) ==
    LET onA == [add |-> "adda", sub |-> "suba", cmp |-> "cmpa"][p.alu]
        o == Folded(p, length).operand
        a == Address(p.dst)
    IN CASE p.kind = "DregToAreg" -> Does(p, length, onA, Data(p.src), a)
         [] p.kind = "AregToAreg" -> Does(p, length, onA, Address(p.src), a)
         [] p.kind = "ImmToAreg" -> Does(p, length, onA, o, a)
         [] p.kind = "AddqImmToAreg" -> [Does(p, length, onA, o, a) EXCEPT !.size = 4]

\* emitMemoryRead, emitMemoryWrite
EmittedRead(p, length) ==
    LET o == Folded(p, length).operand IN
    CASE p.kind = "MoveMemToDreg" -> Does(p, length, "move", o, Data(p.dst))
      [] p.kind = "MoveaMemToAreg" -> Does(p, length, "movea", o, Address(p.dst))
      [] p.kind = "TstMem" -> Does(p, length, "tst", o, NoOperand)
      [] p.kind = "AluMemToDreg" -> Does(p, length, p.alu, o, Data(p.dst))
EmittedWrite(p, length) ==
    LET o == Folded(p, length).operand IN
    CASE p.kind = "MoveDregToMem" -> Does(p, length, "move", Data(p.src), o)
      [] p.kind = "ClrMem" -> Does(p, length, "clr", o, o)

\* emitMovem: 8 cycles for each register, the interpreter's two transfers of a word
EmittedMovem(p, length) ==
    LET list == <<"list", 0>>
        o == Folded(p, length).operand
    IN CASE p.kind = "MovemPostIncToRegs" ->
                [Does(p, length, "movem", o, list) EXCEPT !.cycles = <<12, 8>>]
         [] p.kind = "MovemRegsToPredec" ->
                [Does(p, length, "movem", list, o) EXCEPT !.cycles = <<8, 8>>]

\* emitJsr and emitRts leave through the mailbox; emitBsr and emitBranchExit know where
\* they go: a displacement word is there if the length is 4.
EmittedDynamic(p, length) ==
    CASE p.kind = "Rts" -> Does(p, length, "rts", NoOperand, NoOperand)
      [] p.kind = "Jsr" -> Does(p, length, "jsr", Folded(p, length).operand, NoOperand)
EmittedStatic(p, length) ==
    LET wide == length = 4
        goal == IF wide THEN <<"d(PC)", 0>> ELSE Quick(p.imm)
        leaving(does, from, cycles) ==
            Effect(does, p.size, from, goal, Choose(wide, 1, 0), cycles)
    IN CASE p.kind = "Bsr" -> leaving("bsr", NoOperand, <<p.cycles>>)
         [] p.kind = "Branch" -> leaving("branch", <<"condition", p.cond>>, <<10, p.cycles>>)

\* emitAll
Emitted(p, length) ==
    CASE p.kind \in {"MoveRegToReg", "MoveAregToDreg", "MoveImmToDreg", "Moveq",
                     "MoveaDregToAreg", "MoveaAregToAreg", "MoveaImmToAreg"} ->
            EmittedMove(p, length)
      [] p.kind \in {"LeaDisp", "LeaAbs", "TstDreg", "ClrDreg"} -> EmittedAlone(p, length)
      [] p.kind \in {"AluRegToReg", "AluImmToDreg", "BtstImmToDreg"} -> EmittedAlu(p, length)
      [] p.kind \in {"DregToAreg", "AregToAreg", "ImmToAreg", "AddqImmToAreg"} ->
            EmittedAddress(p, length)
      [] p.kind \in {"MoveMemToDreg", "MoveaMemToAreg", "TstMem", "AluMemToDreg"} ->
            EmittedRead(p, length)
      [] p.kind \in {"MoveDregToMem", "ClrMem"} -> EmittedWrite(p, length)
      [] p.kind \in {"MovemPostIncToRegs", "MovemRegsToPredec"} -> EmittedMovem(p, length)
      [] p.kind \in {"Rts", "Jsr"} -> EmittedDynamic(p, length)
      [] p.kind \in {"Bsr", "Branch"} -> EmittedStatic(p, length)

================================================================================
