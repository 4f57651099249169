--------------------------- MODULE SramAndAluProofs ----------------------------
(******************************************************************************)
(* Two components that have nothing in common but the size of their proofs:   *)
(* the saving of the SRAM, whose specification is Spec, and the arithmetic of *)
(* native code, whose specification EveryWord (Opcodes) looks at each word.   *)
(******************************************************************************)
EXTENDS SramSave, Opcodes, TLAPS

--------------------------------------------------------------------------------
(******************************************************************************)
(* What survives a power loss, for any number of changes, failures and losses,*)
(* and any versions the guest may spoil.                                      *)
(*                                                                            *)
(* Recoverable is not inductive: it says what the next start finds, and not   *)
(* which of the two files it is found in. Between saves it is the primary     *)
(* file (Settled), while a save replaces it the temporary one (Replacing);    *)
(* a start that has been interrupted must find the same again (Starting).     *)
(******************************************************************************)

\* What the primary file alone gives.
Primary == IF Accepted(primary) THEN primary ELSE Factory

Underway == {"open", "write", "discard", "remove", "rename"}

\* The primary file is what was stored last, and nothing in the temporary file is
\* taken for it.
Settled ==
    pc \in {"run", "stopped", "open", "write", "discard"} /\ ~exposed =>
        /\ Primary = ReadBack(stored)
        /\ Accepted(primary) \/ ~Accepted(temp)

\* A save has written the temporary file, and may have removed the primary one.
Replacing ==
    /\ pc \in Underway => sram = tried /\ dirty
    /\ pc \in {"write", "discard"} => temp = Torn
    /\ pc \in {"remove", "rename"} => temp = tried
    /\ pc = "remove" /\ ~exposed => Primary = ReadBack(stored)
    /\ pc = "rename" /\ ~exposed => primary = None \/ Primary = ReadBack(stored)

\* A start has read the one file or the other, or neither.
Starting ==
    /\ pc \in {"boot", "readTemp", "dropBad"} => sram = Factory
    /\ pc \in {"readTemp", "dropBad"} => ~Accepted(primary)
    /\ pc = "dropBad" => ~Accepted(temp)
    /\ pc = "dropTemp" => Accepted(primary) /\ sram = primary
    /\ pc \in {"dropPrimary", "promote"} =>
        ~Accepted(primary) /\ Accepted(temp) /\ sram = temp
    /\ pc = "reset" =>
        \/ Accepted(primary) /\ sram = primary
        \/ ~Accepted(primary) /\ ~Accepted(temp) /\ sram = Factory
        \/ ~Accepted(primary) /\ Accepted(temp) /\ sram = temp /\ exposed
    /\ pc \in BootSteps => ~dirty

\* A rename that failed leaves the temporary file alone.
Exposed == pc \notin BootSteps /\ exposed => ~Accepted(primary)

SramInvariant ==
    /\ TypeOK
    /\ Settled /\ Replacing /\ Starting /\ Exposed
    /\ Recoverable /\ CleanIsStored

--------------------------------------------------------------------------------
\* The settings of a new device are a version, and one with its magic in place.
LEMMA FactoryVersion == Factory \in Versions
BY SramAssumption DEF SramAssumption, Factory, Versions

\* A file is taken when it holds a version whose magic is in place.
LEMMA AcceptedFacts ==
    /\ ~Accepted(None) /\ ~Accepted(Torn) /\ Accepted(Factory)
    /\ \A v \in Versions : ReadBack(v) = IF Accepted(v) THEN v ELSE Factory
<1> USE SramAssumption DEF SramAssumption, Accepted, Factory, Versions
<1>1. ~Accepted(None) /\ ~Accepted(Torn)
  BY DEF None, Torn
<1>2. Accepted(Factory)
  OBVIOUS
<1>3. \A v \in Versions : ReadBack(v) = IF Accepted(v) THEN v ELSE Factory
  BY DEF ReadBack
<1> QED
  BY <1>1, <1>2, <1>3

\* A device that starts without a file on its card.
LEMMA SramInit == Init => SramInvariant
<1> SUFFICES ASSUME Init PROVE SramInvariant
  OBVIOUS
<1> USE FactoryVersion, AcceptedFacts DEF Init
<1>1. TypeOK
  <2>1. faults \in 0 .. MaxFaults /\ losses \in 0 .. MaxLosses
    BY SramAssumption DEF SramAssumption
  <2> QED
    BY <2>1 DEF TypeOK, Contents, BootSteps
<1>2. Settled /\ Replacing /\ Starting /\ Exposed
  BY DEF Settled, Replacing, Starting, Exposed, Underway, BootSteps
<1>3. Recoverable /\ CleanIsStored
  BY DEF Recoverable, CleanIsStored, Restored
<1> QED
  BY <1>1, <1>2, <1>3 DEF SramInvariant

\* Each step of a start, of a save, of the guest or of the power keeps the types.
LEMMA TypesPreserved == TypeOK /\ [Next]_vars => TypeOK'
<1> SUFFICES ASSUME TypeOK, [Next]_vars PROVE TypeOK'
  OBVIOUS
<1> USE SramAssumption, FactoryVersion
    DEF SramAssumption, TypeOK, BootSteps, SaveSteps, Contents, files, memory, history
<1>1. CASE ReadPrimary
  BY <1>1 DEF ReadPrimary, Accepted
<1>2. CASE ReadTemp
  BY <1>2 DEF ReadTemp, Accepted
<1>3. CASE DropTemp
  BY <1>3 DEF DropTemp, Fault
<1>4. CASE DropPrimary
  BY <1>4 DEF DropPrimary, Fault
<1>5. CASE Promote
  BY <1>5 DEF Promote, Renamed, RenameFailed, Fault
<1>6. CASE Reset
  BY <1>6 DEF Reset
<1>7. CASE SaveDue
  BY <1>7 DEF SaveDue
<1>8. CASE Stop
  BY <1>8 DEF Stop
<1>9. CASE Open
  BY <1>9 DEF Open, Fault, SaveEnds
<1>10. CASE Write
  BY <1>10 DEF Write, Fault
<1>11. CASE Discard
  BY <1>11 DEF Discard, Fault, SaveEnds
<1>12. CASE Rename
  <2>1. exposed' \in BOOLEAN /\ pc' \in {"run", "stopped"} /\ dirty' \in BOOLEAN
    BY <1>12 DEF Rename, SaveEnds, KeepDirty
  <2>2. primary' \in Contents /\ temp' \in Contents /\ stored' \in Versions
    BY <1>12 DEF Rename, Renamed, RenameFailed
  <2>3. faults' \in 0 .. MaxFaults
    BY <1>12 DEF Rename, Renamed, RenameFailed, Fault
  <2> QED
    BY <1>12, <2>1, <2>2, <2>3 DEF Rename
<1>13. CASE GuestWrite
  BY <1>13 DEF GuestWrite, Versions
<1>14. CASE Halt
  BY <1>14 DEF Halt
<1>15. CASE PowerLoss
  <2>1. losses' \in 0 .. MaxLosses
    BY <1>15 DEF PowerLoss
  <2> QED
    BY <1>15, <2>1 DEF PowerLoss
<1>16. CASE UNCHANGED vars
  BY <1>16 DEF vars
<1> QED
  BY <1>1, <1>2, <1>3, <1>4, <1>5, <1>6, <1>7, <1>8, <1>9, <1>10, <1>11, <1>12,
     <1>13, <1>14, <1>15, <1>16 DEF Next, Boot, Save

\* Each step keeps what a start would find: a save by never having both files away, a
\* start by removing only the file it did not use.
LEMMA StepsPreserve == SramInvariant /\ [Next]_vars => SramInvariant'
<1> SUFFICES ASSUME SramInvariant, [Next]_vars PROVE SramInvariant'
  OBVIOUS
<1>0. TypeOK /\ TypeOK'
  BY TypesPreserved DEF SramInvariant
<1>v. stored \in Versions /\ tried \in Versions /\ sram \in Versions
  BY <1>0 DEF TypeOK
<1> USE <1>0, <1>v, AcceptedFacts
    DEF SramInvariant, Settled, Replacing, Starting, Exposed, Recoverable, CleanIsStored,
        Restored, Primary, BootSteps, SaveSteps, Underway, files, memory, history
<1>1. CASE ReadPrimary
  BY <1>1 DEF ReadPrimary
<1>2. CASE ReadTemp
  BY <1>2 DEF ReadTemp
<1>3. CASE DropTemp
  BY <1>3 DEF DropTemp, Fault
<1>4. CASE DropPrimary
  BY <1>4 DEF DropPrimary, Fault
<1>5. CASE Promote
  BY <1>5 DEF Promote, Renamed, RenameFailed, Fault
<1>6. CASE Reset
  BY <1>6 DEF Reset
<1>7. CASE SaveDue
  BY <1>7 DEF SaveDue
<1>8. CASE Stop
  BY <1>8 DEF Stop
<1>9. CASE Open
  BY <1>9 DEF Open, Fault, SaveEnds
<1>10. CASE Write
  BY <1>10 DEF Write, Fault
<1>11. CASE Discard
  BY <1>11 DEF Discard, Fault, SaveEnds
<1>12. CASE Rename
  BY <1>12 DEF Rename, Renamed, RenameFailed, Fault, SaveEnds, KeepDirty
<1>13. CASE GuestWrite
  BY <1>13 DEF GuestWrite
<1>14. CASE Halt
  BY <1>14 DEF Halt
<1>15. CASE PowerLoss
  BY <1>15 DEF PowerLoss
<1>16. CASE UNCHANGED vars
  BY <1>16 DEF vars, ReadBack, Accepted
<1> QED
  BY <1>1, <1>2, <1>3, <1>4, <1>5, <1>6, <1>7, <1>8, <1>9, <1>10, <1>11, <1>12,
     <1>13, <1>14, <1>15, <1>16 DEF Next, Boot, Save

\* Whenever the power goes, between any two file operations of saveSramImage and
\* loadSramImage and after any failures of the card, the next start finds the settings
\* saved last or those of the save under way, unless a rename has failed since.
THEOREM SramRecoverable == Spec => []Recoverable
<1>1. SramInvariant => Recoverable
  BY DEF SramInvariant
<1> QED
  BY <1>1, SramInit, StepsPreserve, PTL DEF Spec

\* An SRAM that is clean (Sram::dirty_ is FALSE) is what the next start finds, even
\* after a rename failed: saveSramIfDirty never forgets a change that is not saved.
THEOREM CleanSramIsStored == Spec => []CleanIsStored
<1>1. SramInvariant => CleanIsStored
  BY DEF SramInvariant
<1> QED
  BY <1>1, SramInit, StepsPreserve, PTL DEF Spec

--------------------------------------------------------------------------------
(******************************************************************************)
(* The flags for every size of operand: Opcodes checks all bytes, these       *)
(* theorems say the same of words and longs, which cannot be enumerated.      *)
(******************************************************************************)

(* The registers' numbers, as bounds. *)

LEMMA UnsignedBounds ==
    ASSUME NEW H \in Nat \ {0}, NEW d \in Unsigned(H)
    PROVE  H \in Int /\ H > 0 /\ d \in Int /\ 0 <= d /\ d < 2 * H
BY DEF Unsigned

LEMMA SignedBounds ==
    ASSUME NEW H \in Int, H > 0, NEW d \in Int, 0 <= d, d < 2 * H
    PROVE  /\ Signed(d, H) \in Int
           /\ Signed(d, H) = IF d >= H THEN d - 2 * H ELSE d
BY DEF Signed, Negative

\* A number within one turn of the register is truncated by at most that turn.
LEMMA TruncatedBounds ==
    ASSUME NEW H \in Int, H > 0, NEW n \in Int, -2 * H <= n, n < 4 * H
    PROVE  /\ Truncated(n, H) \in Int
           /\ 0 <= Truncated(n, H) /\ Truncated(n, H) < 2 * H
           /\ Truncated(n, H) = IF n < 0 THEN n + 2 * H
                                ELSE IF n >= 2 * H THEN n - 2 * H ELSE n
BY DEF Truncated

\* What SumIsExact asks, as bounds.
LEMMA ExactBounds ==
    ASSUME NEW H \in Int, H > 0, NEW r, NEW sum \in Int, NEW signed \in Int,
           r.value \in Int, 0 <= r.value, r.value < 2 * H,
           r.value = sum - 2 * H \/ r.value = sum \/ r.value = sum + 2 * H,
           r.c <=> sum < 0 \/ sum >= 2 * H,
           r.v <=> signed < -H \/ signed >= H
    PROVE  SumIsExact(r, sum, signed, H)
<1>1. r.value \in Unsigned(H)
  BY DEF Unsigned
<1>2. sum \notin Unsigned(H) <=> sum < 0 \/ sum >= 2 * H
  BY DEF Unsigned
<1>3. signed \notin -H .. H - 1 <=> signed < -H \/ signed >= H
  OBVIOUS
<1> QED BY <1>1, <1>2, <1>3, Zenon DEF SumIsExact

--------------------------------------------------------------------------------
(* Native code. *)

\* The flags emitted for ADD, SUB and CMP are the interpreter's, for operands of any
\* size, and the emitted conditions decide alike on them.
THEOREM EmittedFlags ==
    ASSUME NEW H \in Nat \ {0}, NEW d \in Unsigned(H), NEW s \in Unsigned(H), NEW f \in Flags
    PROVE  FlagsAgree(d, s, H, f)
<1> USE DEF Unsigned
<1>1. ASSUME NEW alu \in {"add", "sub", "cmp"}
      PROVE  EmittedArithmetic(alu, d, s, H, f) = Arithmetic(alu, d, s, H, f)
  <2> DEFINE r == Truncated(IF alu = "add" THEN d + s ELSE d - s, H)
             interpreted == IF alu = "add" THEN Add(d, s, H) ELSE Sub(d, s, H)
             ds == Negative(d, H)
             ss == Negative(s, H)
             rs == Negative(r, H)
  <2>1. interpreted.c = EmittedCarry(alu, ds, ss, rs)
    <3>1. CASE alu = "add"
      BY <3>1, SMT DEF Add, EmittedCarry, Negative, Truncated
    <3>2. CASE alu \in {"sub", "cmp"}
      BY <3>2, SMT DEF Sub, EmittedCarry, Negative, Truncated, Xor
    <3> QED BY <3>1, <3>2
  <2>2. interpreted.v = EmittedOverflow(alu, ds, ss, rs)
    BY SMT DEF Add, Sub, EmittedOverflow, Negative, Xor
  <2>3. interpreted.n = rs /\ interpreted.z = (r = 0)
    BY SMT DEF Add, Sub
  <2>4. Arithmetic(alu, d, s, H, f) = Applied(f, interpreted, alu # "cmp")
    BY DEF Arithmetic
  <2> QED BY <2>1, <2>2, <2>3, <2>4, Zenon DEF EmittedArithmetic, Applied
<1>2. ASSUME NEW g, NEW cond \in 0 .. 15 \ {1}
      PROVE  EmittedCondition(cond, g) <=> Condition(cond, g)
  BY SMT DEF EmittedCondition, Condition, Xor
<1> QED BY <1>1, <1>2 DEF FlagsAgree

\* The run's words are words.
IsWord(w) == w \in Int /\ 0 <= w /\ w < 65536

LEMMA WordsStayWords == EveryWord => []IsWord(op)
<1>1. FirstWord => IsWord(op)
  <2> SUFFICES ASSUME NEW n \in 0 .. 255, op = 256 * n PROVE IsWord(op)
    BY DEF FirstWord
  <2> QED BY DEF IsWord
<1>2. IsWord(op) /\ [NextWord]_op => IsWord(op)'
  <2> SUFFICES ASSUME IsWord(op), NextWord PROVE IsWord(op')
    BY DEF IsWord
  <2>1. op + 1 \in Int
    BY DEF IsWord
  <2>2. ASSUME NEW w \in Int PROVE w % 65536 \in Int /\ 0 <= w % 65536 /\ w % 65536 < 65536
    OBVIOUS
  <2> DEFINE w == op + 1
  <2>3. op' = w % 65536
    BY DEF NextWord
  <2> HIDE DEF w
  <2>4. w \in Int
    BY <2>1 DEF w
  <2>5. IsWord(w % 65536)
    BY <2>2, <2>4 DEF IsWord
  <2> QED BY <2>3, <2>5
<1> QED BY <1>1, <1>2, PTL DEF EveryWord

\* Native arithmetic and branches behave as the interpreter's on every pair of bytes.
THEOREM NativeFlagsHold == EveryWord => []NativeFlags
<1>1. IsWord(op) => NativeFlags
  <2> SUFFICES ASSUME IsWord(op), NEW f \in SomeFlags
               PROVE  FlagsAgree(High(op), Low(op), 128, f)
    BY DEF NativeFlags
  <2>1. op \in Int /\ 0 <= op /\ op < 65536
    BY DEF IsWord
  <2>2. op \div 256 \in 0 .. 255 /\ op % 256 \in 0 .. 255
    BY <2>1
  <2>3. High(op) \in Unsigned(128) /\ Low(op) \in Unsigned(128)
    BY <2>2 DEF High, Low, Unsigned
  <2>4. f \in Flags
    BY DEF SomeFlags, Flags
  <2>5. 128 \in Nat \ {0}
    OBVIOUS
  <2> QED BY <2>3, <2>4, <2>5, EmittedFlags
<1> QED BY <1>1, WordsStayWords, PTL

--------------------------------------------------------------------------------
(* The flags mean what they say. *)

\* After CMP, each condition is the comparison of the numbers it is named for: HI, LS,
\* CC and CS of the unsigned ones, GE, LT, GT and LE of the signed ones (alu::sub and
\* testCondition).
THEOREM CompareThenBranch ==
    ASSUME NEW H \in Nat \ {0}, NEW d \in Unsigned(H), NEW s \in Unsigned(H), NEW f \in Flags
    PROVE  LET after == Arithmetic("cmp", d, s, H, f)
               taken(cond) == Condition(cond, after)
           IN /\ taken(2) <=> d > s
              /\ taken(3) <=> d <= s
              /\ taken(4) <=> d >= s
              /\ taken(5) <=> d < s
              /\ taken(6) <=> d # s
              /\ taken(7) <=> d = s
              /\ taken(12) <=> Signed(d, H) >= Signed(s, H)
              /\ taken(13) <=> Signed(d, H) < Signed(s, H)
              /\ taken(14) <=> Signed(d, H) > Signed(s, H)
              /\ taken(15) <=> Signed(d, H) <= Signed(s, H)
<1> DEFINE r == Sub(d, s, H)
           t == Truncated(d - s, H)
           a == Signed(d, H)
           b == Signed(s, H)
<1>1. H \in Int /\ H > 0 /\ d \in Int /\ 0 <= d /\ d < 2 * H /\ s \in Int /\ 0 <= s /\ s < 2 * H
  BY UnsignedBounds
<1>2. /\ a \in Int /\ a = IF d >= H THEN d - 2 * H ELSE d
      /\ b \in Int /\ b = IF s >= H THEN s - 2 * H ELSE s
  BY <1>1, SignedBounds
<1>3. t \in Int /\ 0 <= t /\ t < 2 * H /\ t = IF d - s < 0 THEN d - s + 2 * H ELSE d - s
  BY <1>1, TruncatedBounds
<1>4. /\ r.c <=> s > d
      /\ r.z <=> t = 0
      /\ r.n <=> t >= H
      /\ r.v <=> ~(s >= H <=> d >= H) /\ ~(t >= H <=> d >= H)
  BY DEF Sub, Negative, Xor
<1>5. Arithmetic("cmp", d, s, H, f) = [x |-> f.x, n |-> r.n, z |-> r.z, v |-> r.v, c |-> r.c]
  BY DEF Arithmetic, Applied
<1> HIDE DEF r, t, a, b
<1>6. (t = 0 <=> d = s) /\ (d = s <=> a = b)
  BY <1>1, <1>2, <1>3
<1>7. (t >= H <=> ~(s >= H <=> d >= H) /\ ~(t >= H <=> d >= H)) <=> a >= b
  BY <1>1, <1>2, <1>3
<1>8. (r.c <=> d < s) /\ (r.z <=> d = s) /\ (r.z <=> a = b) /\ ((r.n <=> r.v) <=> a >= b)
  BY <1>1, <1>4, <1>6, <1>7
<1>9. LET after == [x |-> f.x, n |-> r.n, z |-> r.z, v |-> r.v, c |-> r.c]
          taken(cond) == Condition(cond, after)
      IN /\ taken(2) <=> ~r.c /\ ~r.z
         /\ taken(3) <=> r.c \/ r.z
         /\ taken(4) <=> ~r.c
         /\ taken(5) <=> r.c
         /\ taken(6) <=> ~r.z
         /\ taken(7) <=> r.z
         /\ taken(12) <=> (r.n <=> r.v)
         /\ taken(13) <=> ~(r.n <=> r.v)
         /\ taken(14) <=> ~r.z /\ (r.n <=> r.v)
         /\ taken(15) <=> r.z \/ ~(r.n <=> r.v)
  BY DEF Condition
<1>10. /\ d > s <=> ~(d < s) /\ d # s
       /\ d <= s <=> d < s \/ d = s
       /\ d >= s <=> ~(d < s)
       /\ a < b <=> ~(a >= b)
       /\ a > b <=> a # b /\ a >= b
       /\ a <= b <=> a = b \/ ~(a >= b)
  BY <1>1, <1>2
<1> QED BY <1>5, <1>8, <1>9, <1>10, Zenon DEF a, b

--------------------------------------------------------------------------------
(* Sums and differences, without and with a carry in. *)

LEMMA AddIsExact ==
    ASSUME NEW H \in Nat \ {0}, NEW d \in Unsigned(H), NEW s \in Unsigned(H)
    PROVE  SumIsExact(Add(d, s, H), d + s, Signed(d, H) + Signed(s, H), H)
<1> DEFINE t == Truncated(d + s, H)
           a == Signed(d, H)
           b == Signed(s, H)
           result == Add(d, s, H)
<1>1. H \in Int /\ H > 0 /\ d \in Int /\ 0 <= d /\ d < 2 * H /\ s \in Int /\ 0 <= s /\ s < 2 * H
  BY UnsignedBounds
<1>2. /\ a \in Int /\ a = IF d >= H THEN d - 2 * H ELSE d
      /\ b \in Int /\ b = IF s >= H THEN s - 2 * H ELSE s
  BY <1>1, SignedBounds
<1>3. t \in Int /\ 0 <= t /\ t < 2 * H /\ t = IF d + s >= 2 * H THEN d + s - 2 * H ELSE d + s
  BY <1>1, TruncatedBounds
<1>4. /\ result.value = t
      /\ result.c <=> d + s > 2 * H - 1
      /\ result.v <=> (s >= H <=> d >= H) /\ ~(t >= H <=> d >= H)
  BY DEF Add, Negative, Xor
<1> HIDE DEF result, t, a, b
<1>5. (d + s > 2 * H - 1) <=> (d + s < 0 \/ d + s >= 2 * H)
  BY <1>1
<1>6. ((s >= H <=> d >= H) /\ ~(t >= H <=> d >= H)) <=> (a + b < -H \/ a + b >= H)
  BY <1>1, <1>2, <1>3
<1>7. d + s \in Int /\ a + b \in Int
  BY <1>1, <1>2
<1>8. t = d + s - 2 * H \/ t = d + s \/ t = d + s + 2 * H
  BY <1>1, <1>3
<1> QED BY <1>1, <1>3, <1>4, <1>5, <1>6, <1>7, <1>8, ExactBounds DEF result, a, b

LEMMA SubIsExact ==
    ASSUME NEW H \in Nat \ {0}, NEW d \in Unsigned(H), NEW s \in Unsigned(H)
    PROVE  SumIsExact(Sub(d, s, H), d - s, Signed(d, H) - Signed(s, H), H)
<1> DEFINE t == Truncated(d - s, H)
           a == Signed(d, H)
           b == Signed(s, H)
           result == Sub(d, s, H)
<1>1. H \in Int /\ H > 0 /\ d \in Int /\ 0 <= d /\ d < 2 * H /\ s \in Int /\ 0 <= s /\ s < 2 * H
  BY UnsignedBounds
<1>2. /\ a \in Int /\ a = IF d >= H THEN d - 2 * H ELSE d
      /\ b \in Int /\ b = IF s >= H THEN s - 2 * H ELSE s
  BY <1>1, SignedBounds
<1>3. t \in Int /\ 0 <= t /\ t < 2 * H /\ t = IF d - s < 0 THEN d - s + 2 * H ELSE d - s
  BY <1>1, TruncatedBounds
<1>4. /\ result.value = t
      /\ result.c <=> s > d
      /\ result.v <=> ~(s >= H <=> d >= H) /\ ~(t >= H <=> d >= H)
  BY DEF Sub, Negative, Xor
<1> HIDE DEF result, t, a, b
<1>5. (s > d) <=> (d - s < 0 \/ d - s >= 2 * H)
  BY <1>1
<1>6. (~(s >= H <=> d >= H) /\ ~(t >= H <=> d >= H)) <=> (a - b < -H \/ a - b >= H)
  BY <1>1, <1>2, <1>3
<1>7. d - s \in Int /\ a - b \in Int
  BY <1>1, <1>2
<1>8. t = d - s - 2 * H \/ t = d - s \/ t = d - s + 2 * H
  BY <1>1, <1>3
<1> QED BY <1>1, <1>3, <1>4, <1>5, <1>6, <1>7, <1>8, ExactBounds DEF result, a, b

\* A carry is a bit.
LEMMA BitType == ASSUME NEW b \in BOOLEAN PROVE Bit(b) \in {0, 1} /\ (b <=> Bit(b) = 1)
BY DEF Bit

LEMMA AddxIsExact ==
    ASSUME NEW H \in Nat \ {0}, NEW d \in Unsigned(H), NEW s \in Unsigned(H), NEW f \in Flags
    PROVE  SumIsExact(Addx(d, s, H, f), d + s + Bit(f.x),
                      Signed(d, H) + Signed(s, H) + Bit(f.x), H)
<1> DEFINE x == Bit(f.x)
           t == Truncated(d + s, H)
           u == Truncated(t + x, H)
           a == Signed(d, H)
           b == Signed(s, H)
           result == Addx(d, s, H, f)
<1>1. H \in Int /\ H > 0 /\ d \in Int /\ 0 <= d /\ d < 2 * H /\ s \in Int /\ 0 <= s /\ s < 2 * H
  BY UnsignedBounds
<1>2. x \in {0, 1}
  BY BitType DEF Flags
<1>3. /\ a \in Int /\ a = IF d >= H THEN d - 2 * H ELSE d
      /\ b \in Int /\ b = IF s >= H THEN s - 2 * H ELSE s
  BY <1>1, SignedBounds
<1>4. t \in Int /\ 0 <= t /\ t < 2 * H /\ t = IF d + s >= 2 * H THEN d + s - 2 * H ELSE d + s
  BY <1>1, TruncatedBounds
<1>5. /\ result.value = u
      /\ result.c <=> d + s > 2 * H - 1 \/ t + x > 2 * H - 1
      /\ result.v <=> (s >= H <=> d >= H) /\ ~(u >= H <=> d >= H)
  BY DEF Addx, Add, Negative, Xor
<1> HIDE DEF result, x, t, a, b
<1>6. u \in Int /\ 0 <= u /\ u < 2 * H /\ u = IF t + x >= 2 * H THEN t + x - 2 * H ELSE t + x
  <2> DEFINE n == t + x
  <2>1. n \in Int /\ -2 * H <= n /\ n < 4 * H /\ (n < 0 => n + 2 * H >= 0) /\ n >= 0
    BY <1>1, <1>2, <1>4
  <2> HIDE DEF n
  <2>2. /\ Truncated(n, H) \in Int /\ 0 <= Truncated(n, H) /\ Truncated(n, H) < 2 * H
        /\ Truncated(n, H) = IF n < 0 THEN n + 2 * H ELSE IF n >= 2 * H THEN n - 2 * H ELSE n
    BY <1>1, <2>1, TruncatedBounds
  <2>3. u = Truncated(n, H)
    BY DEF n
  <2>4. n = t + x
    BY DEF n
  <2> HIDE DEF u
  <2>5. u \in Int /\ 0 <= u /\ u < 2 * H /\ u = IF n >= 2 * H THEN n - 2 * H ELSE n
    BY <1>1, <2>1, <2>2, <2>3
  <2> QED BY <1>2, <1>4, <2>4, <2>5
<1> HIDE DEF u
<1>7. (d + s > 2 * H - 1 \/ t + x > 2 * H - 1) <=> (d + s + x < 0 \/ d + s + x >= 2 * H)
  BY <1>1, <1>2, <1>4
<1>8. u = d + s + x - 2 * H \/ u = d + s + x \/ u = d + s + x + 2 * H
  BY <1>1, <1>2, <1>4, <1>6
<1>9. ((s >= H <=> d >= H) /\ ~(u >= H <=> d >= H)) <=> (a + b + x < -H \/ a + b + x >= H)
  BY <1>1, <1>2, <1>3, <1>6, <1>8
<1>10. d + s + x \in Int /\ a + b + x \in Int
  BY <1>1, <1>2, <1>3
<1>11. SumIsExact(result, d + s + x, a + b + x, H)
  <2> DEFINE sum == d + s + x
             signed == a + b + x
  <2>1. sum \in Int /\ signed \in Int
    BY <1>10
  <2>2. u = sum - 2 * H \/ u = sum \/ u = sum + 2 * H
    <3>1. sum = d + s + x
      OBVIOUS
    <3> HIDE DEF sum, signed
    <3> QED BY <1>1, <1>2, <1>4, <1>6, <2>1, <3>1
  <2>3. result.c <=> sum < 0 \/ sum >= 2 * H
    BY <1>5, <1>7
  <2>4. result.v <=> signed < -H \/ signed >= H
    BY <1>5, <1>9
  <2> HIDE DEF sum, signed
  <2>5. SumIsExact(result, sum, signed, H)
    BY <1>1, <1>5, <1>6, <2>1, <2>2, <2>3, <2>4, ExactBounds
  <2> QED BY <2>5 DEF sum, signed
<1> QED BY <1>11 DEF result, x, a, b

LEMMA SubxIsExact ==
    ASSUME NEW H \in Nat \ {0}, NEW d \in Unsigned(H), NEW s \in Unsigned(H), NEW f \in Flags
    PROVE  SumIsExact(Subx(d, s, H, f), d - s - Bit(f.x),
                      Signed(d, H) - Signed(s, H) - Bit(f.x), H)
<1> DEFINE x == Bit(f.x)
           t == Truncated(d - s, H)
           u == Truncated(t - x, H)
           a == Signed(d, H)
           b == Signed(s, H)
           result == Subx(d, s, H, f)
<1>1. H \in Int /\ H > 0 /\ d \in Int /\ 0 <= d /\ d < 2 * H /\ s \in Int /\ 0 <= s /\ s < 2 * H
  BY UnsignedBounds
<1>2. x \in {0, 1}
  BY BitType DEF Flags
<1>3. /\ a \in Int /\ a = IF d >= H THEN d - 2 * H ELSE d
      /\ b \in Int /\ b = IF s >= H THEN s - 2 * H ELSE s
  BY <1>1, SignedBounds
<1>4. t \in Int /\ 0 <= t /\ t < 2 * H /\ t = IF d - s < 0 THEN d - s + 2 * H ELSE d - s
  BY <1>1, TruncatedBounds
<1>5. /\ result.value = u
      /\ result.c <=> s > d \/ x > t
      /\ result.v <=> ~(s >= H <=> d >= H) /\ ~(u >= H <=> d >= H)
  BY DEF Subx, Sub, Negative, Xor
<1> HIDE DEF result, x, t, a, b
<1>6. u \in Int /\ 0 <= u /\ u < 2 * H /\ u = IF t - x < 0 THEN t - x + 2 * H ELSE t - x
  <2> DEFINE n == t - x
  <2>1. n \in Int /\ -2 * H <= n /\ n < 4 * H /\ (n < 0 => n + 2 * H >= 0) /\ n < 2 * H
    BY <1>1, <1>2, <1>4
  <2> HIDE DEF n
  <2>2. /\ Truncated(n, H) \in Int /\ 0 <= Truncated(n, H) /\ Truncated(n, H) < 2 * H
        /\ Truncated(n, H) = IF n < 0 THEN n + 2 * H ELSE IF n >= 2 * H THEN n - 2 * H ELSE n
    BY <1>1, <2>1, TruncatedBounds
  <2>3. u = Truncated(n, H)
    BY DEF n
  <2>4. n = t - x
    BY DEF n
  <2> HIDE DEF u
  <2> QED BY <1>1, <2>1, <2>2, <2>3, <2>4
<1> HIDE DEF u
<1>7. (s > d \/ x > t) <=> (d - s - x < 0 \/ d - s - x >= 2 * H)
  BY <1>1, <1>2, <1>4
<1>8. u = d - s - x - 2 * H \/ u = d - s - x \/ u = d - s - x + 2 * H
  BY <1>1, <1>2, <1>4, <1>6
<1>9. (~(s >= H <=> d >= H) /\ ~(u >= H <=> d >= H)) <=> (a - b - x < -H \/ a - b - x >= H)
  BY <1>1, <1>2, <1>3, <1>6, <1>8
<1>10. d - s - x \in Int /\ a - b - x \in Int
  BY <1>1, <1>2, <1>3
<1>11. SumIsExact(result, d - s - x, a - b - x, H)
  BY <1>1, <1>5, <1>6, <1>7, <1>8, <1>9, <1>10, ExactBounds
<1> QED BY <1>11 DEF result, x, a, b

\* NEGX too, except that negating the least number with X set reports an overflow that
\* did not happen: the two steps overflow, there and back.
LEMMA NegxIsExact ==
    ASSUME NEW H \in Nat \ {0, 1}, NEW d \in Unsigned(H), NEW f \in Flags
    PROVE  /\ d # H \/ ~f.x =>
                 SumIsExact(Negx(d, H, f), 0 - d - Bit(f.x), 0 - Signed(d, H) - Bit(f.x), H)
           /\ d = H /\ f.x => Negx(d, H, f).v /\ 0 - Signed(d, H) - Bit(f.x) \in -H .. H - 1
<1> DEFINE x == Bit(f.x)
           t == Truncated(0 - d, H)
           u == Truncated(t - x, H)
           a == Signed(d, H)
           result == Negx(d, H, f)
           overflow == \/ ~(d >= H <=> 0 >= H) /\ ~(t >= H <=> 0 >= H)
                       \/ ~(x >= H <=> t >= H) /\ ~(u >= H <=> t >= H)
<1>1. H \in Int /\ H > 1 /\ d \in Int /\ 0 <= d /\ d < 2 * H
  BY UnsignedBounds
<1>2. x \in {0, 1} /\ (f.x <=> x = 1)
  BY BitType DEF Flags
<1>3. a \in Int /\ a = IF d >= H THEN d - 2 * H ELSE d
  BY <1>1, SignedBounds
<1>4. t \in Int /\ 0 <= t /\ t < 2 * H /\ t = IF 0 - d < 0 THEN 0 - d + 2 * H ELSE 0 - d
  BY <1>1, TruncatedBounds
<1>5. result.value = u /\ (result.c <=> d > 0 \/ x > t) /\ (result.v <=> overflow)
  BY DEF Negx, Sub, Negative, Xor
<1> HIDE DEF result, x, t, a
<1>6. u \in Int /\ 0 <= u /\ u < 2 * H /\ u = IF t - x < 0 THEN t - x + 2 * H ELSE t - x
  <2> DEFINE n == t - x
  <2>1. n \in Int /\ -2 * H <= n /\ n < 4 * H /\ (n < 0 => n + 2 * H >= 0) /\ n < 2 * H
    BY <1>1, <1>2, <1>4
  <2> HIDE DEF n
  <2>2. /\ Truncated(n, H) \in Int /\ 0 <= Truncated(n, H) /\ Truncated(n, H) < 2 * H
        /\ Truncated(n, H) = IF n < 0 THEN n + 2 * H ELSE IF n >= 2 * H THEN n - 2 * H ELSE n
    BY <1>1, <2>1, TruncatedBounds
  <2>3. u = Truncated(n, H)
    BY DEF n
  <2>4. n = t - x
    BY DEF n
  <2> HIDE DEF u
  <2> QED BY <1>1, <2>1, <2>2, <2>3, <2>4
<1> HIDE DEF u
<1>7. (d > 0 \/ x > t) <=> (0 - d - x < 0 \/ 0 - d - x >= 2 * H)
  BY <1>1, <1>2, <1>4
<1>8. u = 0 - d - x - 2 * H \/ u = 0 - d - x \/ u = 0 - d - x + 2 * H
  BY <1>1, <1>2, <1>4, <1>6
<1>9. /\ d # H \/ x = 0 => (overflow <=> 0 - a - x < -H \/ 0 - a - x >= H)
      /\ d = H /\ x = 1 => overflow /\ 0 - a - x \in -H .. H - 1
  BY <1>1, <1>2, <1>3, <1>4, <1>6
<1> HIDE DEF overflow
<1>10. 0 - d - x \in Int /\ 0 - a - x \in Int /\ H > 0
  BY <1>1, <1>2, <1>3
<1>11. ASSUME d # H \/ x = 0 PROVE SumIsExact(result, 0 - d - x, 0 - a - x, H)
  BY <1>1, <1>5, <1>6, <1>7, <1>8, <1>9, <1>10, <1>11, ExactBounds
<1> QED BY <1>2, <1>5, <1>9, <1>11 DEF result, x, a

\* Every sum and difference of the instruction set is exact, whatever its size.
THEOREM SumsExactInEverySize ==
    ASSUME NEW H \in Nat \ {0, 1}, NEW d \in Unsigned(H), NEW s \in Unsigned(H)
    PROVE  SumsAreExact(d, s, H)
<1> SUFFICES ASSUME NEW f \in SomeFlags PROVE
        /\ SumIsExact(Addx(d, s, H, f), d + s + Bit(f.x),
                      Signed(d, H) + Signed(s, H) + Bit(f.x), H)
        /\ SumIsExact(Subx(d, s, H, f), d - s - Bit(f.x),
                      Signed(d, H) - Signed(s, H) - Bit(f.x), H)
        /\ s # H \/ ~f.x =>
              SumIsExact(Negx(s, H, f), 0 - s - Bit(f.x), 0 - Signed(s, H) - Bit(f.x), H)
  BY AddIsExact, SubIsExact DEF SumsAreExact
<1>1. f \in Flags
  BY DEF SomeFlags, Flags
<1> QED BY <1>1, AddxIsExact, SubxIsExact, NegxIsExact

--------------------------------------------------------------------------------
(* Decimal digits. A byte is its two digits; from then on there are only sums. *)

LEMMA ByteIsDigits ==
    ASSUME NEW b \in 0 .. 255
    PROVE  /\ b \div 16 \in 0 .. 15 /\ b % 16 \in 0 .. 15
           /\ b = 16 * (b \div 16) + (b % 16)
<1>1. b \in Int /\ b % 16 \in 0 .. 15
  OBVIOUS
<1>4. b \div 16 \in Int
  OBVIOUS
<1>2. b = 16 * (b \div 16) + (b % 16)
  OBVIOUS
<1>3. ASSUME NEW h \in Int, NEW l \in 0 .. 15, b = 16 * h + l PROVE h \in 0 .. 15
  BY <1>3
<1> QED BY <1>1, <1>2, <1>3, <1>4

LEMMA DigitsOfByte ==
    ASSUME NEW h \in Int, NEW l \in 0 .. 15, NEW n, n = 16 * h + l
    PROVE  n \in Int /\ n \div 16 = h /\ n % 16 = l
OBVIOUS

LEMMA ByteIsRemainder ==
    ASSUME NEW n \in Int, NEW turns \in Int, 0 <= n - 256 * turns, n - 256 * turns < 256
    PROVE  n % 256 = n - 256 * turns
OBVIOUS

\* ABCD: the correction by 6 carries the lower digit, the one by 96 the upper.
LEMMA BcdAddIsExact ==
    ASSUME NEW d \in 0 .. 255, NEW s \in 0 .. 255, NEW x \in BOOLEAN,
           d % 16 < 10, d \div 16 < 10, s % 16 < 10, s \div 16 < 10
    PROVE  LET sum == BcdAdd(d, s, x) IN
           /\ sum.value % 16 < 10 /\ sum.value \div 16 < 10
           /\ 10 * (sum.value \div 16) + (sum.value % 16) + (IF sum.c THEN 100 ELSE 0)
                = 10 * (d \div 16) + (d % 16) + (10 * (s \div 16) + (s % 16)) + Bit(x)
<1> DEFINE k == Bit(x)
<1>1. PICK dh \in 0 .. 9, dl \in 0 .. 9 :
          dh = d \div 16 /\ dl = d % 16 /\ d = 16 * dh + dl
  BY ByteIsDigits
<1>2. PICK sh \in 0 .. 9, sl \in 0 .. 9 :
          sh = s \div 16 /\ sl = s % 16 /\ s = 16 * sh + sl
  BY ByteIsDigits
<1>3. k \in {0, 1}
  BY BitType
<1> DEFINE binary == d + s + k
           low == dl + sl + k > 15 \/ binary % 16 > 9
           once == binary + (IF low THEN 6 ELSE 0)
           carry == once > 159
           corrected == once + (IF carry THEN 96 ELSE 0)
           t == dl + sl + k
<1>4. BcdAdd(d, s, x).value = corrected % 256 /\ BcdAdd(d, s, x).c = carry
  BY <1>1, <1>2, Zenon DEF BcdAdd
<1> HIDE DEF k
<1>5. t \in 0 .. 19 /\ binary = 16 * (dh + sh) + t
  BY <1>1, <1>2, <1>3
<1>6. low <=> t > 9
  <2>1. CASE t <= 15
    <3>1. dh + sh \in Int /\ t \in 0 .. 15
      BY <1>5, <2>1
    <3> HIDE DEF t, binary
    <3>2. binary % 16 = t
      BY <1>5, <3>1, DigitsOfByte
    <3>3. low <=> binary % 16 > 9
      BY <2>1, <3>1 DEF t
    <3> QED BY <3>2, <3>3
  <2>2. CASE t > 15
    <3>1. low
      BY <2>2 DEF t, low
    <3> QED BY <2>2, <3>1, <1>5
  <2> QED BY <1>5, <2>1, <2>2
<1> DEFINE l == IF low THEN 1 ELSE 0
           c == IF carry THEN 1 ELSE 0
           lower == t - 10 * l
           upper == dh + sh + l - 10 * c
<1>7. l \in {0, 1} /\ lower \in 0 .. 9 /\ once = 16 * (dh + sh + l) + lower
  BY <1>3, <1>5, <1>6
<1> HIDE DEF low, once, lower
<1>8. c \in {0, 1} /\ upper \in 0 .. 9 /\ corrected = 16 * upper + lower + 256 * c
  BY <1>7
<1> HIDE DEF corrected, carry, l, upper
<1>9. corrected % 256 = 16 * upper + lower
  BY <1>7, <1>8, ByteIsRemainder
<1>10. (corrected % 256) \div 16 = upper /\ (corrected % 256) % 16 = lower
  BY <1>7, <1>8, <1>9, DigitsOfByte
<1>11. 10 * upper + lower + (IF carry THEN 100 ELSE 0) = 10 * dh + dl + (10 * sh + sl) + k
  BY <1>3, <1>5, <1>7, <1>8 DEF upper, lower
<1> HIDE DEF binary, t, c
<1>12. /\ 10 * ((corrected % 256) \div 16) + ((corrected % 256) % 16) + (IF carry THEN 100 ELSE 0)
            = 10 * dh + dl + (10 * sh + sl) + k
       /\ (corrected % 256) \div 16 < 10 /\ (corrected % 256) % 16 < 10
  BY <1>7, <1>8, <1>10, <1>11
<1> QED
  BY <1>1, <1>2, <1>4, <1>12 DEF k

\* SBCD: the same downwards, with the borrow.
LEMMA BcdSubIsExact ==
    ASSUME NEW d \in 0 .. 255, NEW s \in 0 .. 255, NEW x \in BOOLEAN,
           d % 16 < 10, d \div 16 < 10, s % 16 < 10, s \div 16 < 10
    PROVE  LET rest == BcdSub(d, s, x) IN
           /\ rest.value % 16 < 10 /\ rest.value \div 16 < 10
           /\ (10 * (rest.value \div 16) + (rest.value % 16)) - (IF rest.c THEN 100 ELSE 0)
                = (10 * (d \div 16) + (d % 16)) - (10 * (s \div 16) + (s % 16)) - Bit(x)
<1> DEFINE k == Bit(x)
<1>1. PICK dh \in 0 .. 9, dl \in 0 .. 9 :
          dh = d \div 16 /\ dl = d % 16 /\ d = 16 * dh + dl
  BY ByteIsDigits
<1>2. PICK sh \in 0 .. 9, sl \in 0 .. 9 :
          sh = s \div 16 /\ sl = s % 16 /\ s = 16 * sh + sl
  BY ByteIsDigits
<1>3. k \in {0, 1}
  BY BitType
<1> DEFINE binary == d - s - k
           low == dl < sl + k
           once == binary - (IF low THEN 6 ELSE 0)
           corrected == once - (IF binary < 0 THEN 96 ELSE 0)
           carry == binary < 0 \/ corrected < 0
           l == IF low THEN 1 ELSE 0
           c == IF binary < 0 THEN 1 ELSE 0
           lower == dl - sl - k + 10 * l
           upper == dh - sh - l + 10 * c
<1>4. BcdSub(d, s, x).value = corrected % 256 /\ BcdSub(d, s, x).c = carry
  BY <1>1, <1>2, Zenon DEF BcdSub
<1> HIDE DEF k
<1>5. l \in {0, 1} /\ lower \in 0 .. 9 /\ once = 16 * (dh - sh - l) + lower
  BY <1>1, <1>2, <1>3
<1>6. binary < 0 <=> dh - sh - l < 0
  BY <1>1, <1>2, <1>3
<1>7. binary \in Int
  BY <1>3
<1> HIDE DEF binary, low, once, l, lower
<1>8. c \in {0, 1} /\ upper \in 0 .. 9 /\ corrected = 16 * upper + lower - 256 * c
  BY <1>5, <1>6, <1>7
<1>9. carry <=> binary < 0
  BY <1>5, <1>6, <1>8
<1> HIDE DEF corrected, carry, upper
<1>10. corrected % 256 = 16 * upper + lower
  BY <1>5, <1>8, ByteIsRemainder
<1>13. upper \in Int /\ lower \in 0 .. 15
  BY <1>5, <1>8
<1> HIDE DEF c
<1>11. (corrected % 256) \div 16 = upper /\ (corrected % 256) % 16 = lower
  <2> DEFINE value == corrected % 256
  <2>1. value = 16 * upper + lower
    BY <1>10
  <2> HIDE DEF value
  <2>2. value \div 16 = upper /\ value % 16 = lower
    BY <2>1, <1>13, DigitsOfByte
  <2> QED BY <2>2 DEF value
<1>12. 10 * upper + lower - (IF carry THEN 100 ELSE 0) = 10 * dh + dl - (10 * sh + sl) - k
  BY <1>3, <1>5, <1>8, <1>9 DEF upper, lower, c
<1> HIDE DEF c
<1>14. /\ (10 * ((corrected % 256) \div 16) + ((corrected % 256) % 16)) - (IF carry THEN 100 ELSE 0)
            = (10 * dh + dl) - (10 * sh + sl) - k
       /\ (corrected % 256) \div 16 < 10 /\ (corrected % 256) % 16 < 10
  BY <1>3, <1>5, <1>8, <1>11, <1>12
<1> QED
  BY <1>1, <1>2, <1>4, <1>14 DEF k

LEMMA DecimalBytes ==
    ASSUME NEW d \in 0 .. 255, NEW s \in 0 .. 255
    PROVE  DecimalIsExact(d, s)
<1> DEFINE number(b) == 10 * (b \div 16) + (b % 16)
           digits(b) == b % 16 < 10 /\ b \div 16 < 10
           SumExact(r, x) ==
               /\ digits(r.value)
               /\ number(r.value) + (IF r.c THEN 100 ELSE 0) = number(d) + number(s) + Bit(x)
           RestExact(r, x) ==
               /\ digits(r.value)
               /\ number(r.value) - (IF r.c THEN 100 ELSE 0) = number(d) - number(s) - Bit(x)
<1>1. ASSUME digits(d), digits(s), NEW x \in BOOLEAN
      PROVE  SumExact(BcdAdd(d, s, x), x) /\ RestExact(BcdSub(d, s, x), x)
  <2>1. d % 16 < 10 /\ d \div 16 < 10 /\ s % 16 < 10 /\ s \div 16 < 10
    BY <1>1
  <2>2. SumExact(BcdAdd(d, s, x), x)
    BY <2>1, BcdAddIsExact, Zenon
  <2>3. RestExact(BcdSub(d, s, x), x)
    BY <2>1, BcdSubIsExact, Zenon
  <2> QED BY <2>2, <2>3
<1>2. digits(d) /\ digits(s) =>
        \A x \in BOOLEAN : SumExact(BcdAdd(d, s, x), x) /\ RestExact(BcdSub(d, s, x), x)
  BY <1>1
<1> QED BY <1>2, Zenon DEF DecimalIsExact

\* ABCD, SBCD and NBCD calculate modulo a hundred on every pair of bytes, as the
\* Opcodes run's ArithmeticExact asks (alu::bcdAdd, alu::bcdSub).
THEOREM DecimalHolds == EveryWord => []DecimalIsExact(High(op), Low(op))
<1>1. IsWord(op) => DecimalIsExact(High(op), Low(op))
  <2> SUFFICES ASSUME IsWord(op) PROVE DecimalIsExact(High(op), Low(op))
    OBVIOUS
  <2>1. High(op) \in 0 .. 255 /\ Low(op) \in 0 .. 255
    BY DEF IsWord, High, Low
  <2> QED BY <2>1, DecimalBytes
<1> QED BY <1>1, WordsStayWords, PTL

================================================================================
