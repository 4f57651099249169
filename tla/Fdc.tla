---------------------------------- MODULE Fdc ----------------------------------
(******************************************************************************)
(* The floppy controller uPD72065, class x68k::Fdc (core/dev/fdc.{h,cpp}), as     *)
(* operators on a record f.  Data moves in units of 128 bytes, so that a sector   *)
(* of code N has 2^N units.  What the image of a drive answers (FloppyImage) is   *)
(* a parameter: the sector's contents, and whether the card did its part.         *)
(*                                                                             *)
(* ST0 is a record: the flags AT (abnormal termination), IC (invalid command),   *)
(* SE (seek end), EC (equipment check), NR (not ready), and the unit.             *)
(******************************************************************************)
EXTENDS Integers, Sequences

CONSTANTS
    Cylinders, SectorsPerTrack,     \* FloppyGeometry; every disk has two sides
    SectorSize,                     \* the geometry's sector size, in units
    Inserted,                       \* the drives with an image
    Protected                       \* those whose image cannot be written

DriveCount == 2
Drives == 0 .. DriveCount - 1
MaxSectorSize == 8      \* kMaxSectorSize, in units

ASSUME FdcAssumption ==
    /\ {Cylinders, SectorsPerTrack, SectorSize} \subseteq Nat \ {0}
    /\ Protected \subseteq Inserted /\ Inserted \subseteq Drives

\* Command codes, the low five bits of the first byte.
Specify == 3
SenseDriveStatus == 4
Recalibrate == 7
SenseInterrupt == 8
Seek == 15
ReadId == 10
WriteId == 13
ReadTrack == 2
Reads == {6, 12}        \* READ DATA, READ DELETED DATA
Writes == {5, 9}        \* WRITE DATA, WRITE DELETED DATA
MultiTrack == 128

Code(byte) == byte % 32

\* Fdc::parameterCount
ParameterCount(byte) ==
    CASE Code(byte) \in {Specify, Seek} -> 2
      [] Code(byte) \in {SenseDriveStatus, Recalibrate, ReadId} -> 1
      [] Code(byte) = WriteId -> 5
      [] Code(byte) \in Reads \cup Writes \cup {ReadTrack} -> 8
      [] OTHER -> 0

\* sectorSizeFromN
SectorSizeFromN(n) == 2 ^ (n % 8)

\* Fdc::reset; what is in the drives stays.
ResetFdc ==
    [phase |-> "Command", command |-> <<>>, result |-> <<>>, irq |-> FALSE,
     drive |-> 0, present |-> [d \in Drives |-> 0],
     st0 |-> [flags |-> {}, head |-> 0, drive |-> 0], irqDrive |-> 0,
     transfer |-> "None", cylinder |-> 0, head |-> 0, record |-> 0, eot |-> 0,
     multiTrack |-> FALSE, size |-> 0, pos |-> 0, buffer |-> <<>>]

\* Fdc::readStatus, as the set of the bits that stand.
StatusCommand(f) == IF f.command = <<>> THEN {"RQM"} ELSE {"RQM", "CB"}
ReadStatus(f) ==
    CASE f.phase = "Command" -> StatusCommand(f)
      [] f.phase = "Execute" /\ f.transfer = "Write" -> {"RQM", "CB"}
      [] OTHER -> {"RQM", "CB", "DIO"}

\* Fdc::currentImage: the selected drive has a disk in it.
HasImage(f) == f.drive \in Inserted

\* The sector the controller stands on, if the disk has it (SdFloppy::locate).
Located(f) ==
    /\ f.cylinder \in 0 .. Cylinders - 1
    /\ f.head \in 0 .. 1
    /\ f.record \in 1 .. SectorsPerTrack
Sector(f) == (f.cylinder * 2 + f.head) * SectorsPerTrack + f.record - 1

Finish(f) ==        \* Fdc::finishExecute
    [f EXCEPT !.phase = "Command", !.command = <<>>, !.result = <<>>,
              !.transfer = "None", !.size = 0, !.pos = 0, !.buffer = <<>>,
              !.irq = TRUE]

\* ST0 with the unit of unitSelect.
St0(f, flags) == [flags |-> flags, head |-> f.head, drive |-> f.drive]
End(f, flags) == Finish([f EXCEPT !.st0 = St0(f, flags)])

Idle(f) == [f EXCEPT !.phase = "Command", !.command = <<>>, !.result = <<>>]
Answer(f, bytes) == [f EXCEPT !.phase = "Result", !.command = <<>>, !.result = bytes]
Attention(f, flags) == [Idle(f) EXCEPT !.st0 = St0(f, flags), !.irq = TRUE]

\* The unit of a command, its second byte.
Selected(f) ==
    [f EXCEPT !.drive = f.command[2] % 4, !.head = (f.command[2] \div 4) % 2]
Addressed(f) == [Selected(f) EXCEPT !.irqDrive = f.command[2] % 4]

--------------------------------------------------------------------------------
(* Transfers. *)

\* Fdc::advanceSector: to the end of the track, then once to the other side.
CanAdvance(f) == f.record < f.eot \/ (f.multiTrack /\ f.head = 0)
AdvanceSector(f) ==
    IF f.record < f.eot THEN [f EXCEPT !.record = f.record + 1]
    ELSE [f EXCEPT !.head = 1, !.record = 1]

\* Fdc::loadCurrentSector, when the card answers.
Load(f, disk) == [f EXCEPT !.buffer = disk[f.drive][Sector(f)], !.pos = 0]

\* Fdc::beginReadWrite
BeginReadWrite(f, isWrite, disk, ok) ==
    LET g == [Addressed(f) EXCEPT
                !.multiTrack = f.command[1] >= MultiTrack, !.cylinder = f.command[3],
                !.record = f.command[5], !.eot = f.command[7],
                !.transfer = "None", !.size = 0, !.pos = 0]
        wanted == SectorSizeFromN(f.command[6])
        executing == [g EXCEPT !.size = wanted, !.phase = "Execute",
                               !.transfer = IF isWrite THEN "Write" ELSE "Read",
                               !.command = <<>>, !.result = <<>>, !.buffer = <<>>]
    IN  IF ~HasImage(g) THEN End(g, {"AT", "NR"})
        ELSE IF \/ isWrite /\ g.drive \in Protected
                \/ wanted # SectorSize \/ wanted > MaxSectorSize
                \/ g.cylinder # g.present[g.drive]
             THEN End(g, {"AT"})
        ELSE IF isWrite THEN executing
        ELSE IF ok /\ Located(g) THEN Load(executing, disk)
        ELSE End(executing, {"AT"})

\* Fdc::dmaRead hands out a unit; when the sector is used up it first goes on to
\* the next one, or ends.
ReadsOn(f) == f.phase = "Execute" /\ f.transfer = "Read"
NextSector(f, disk, ok) ==
    IF ~CanAdvance(f) THEN End(f, {"AT"})
    ELSE LET g == AdvanceSector(f)
         IN IF ok /\ Located(g) THEN Load(g, disk) ELSE End(g, {"AT"})
NeedsSector(f) == ReadsOn(f) /\ f.pos >= f.size
Refilled(f, disk, ok) == IF NeedsSector(f) THEN NextSector(f, disk, ok) ELSE f
Taken(f) == [f EXCEPT !.pos = f.pos + 1]

\* Fdc::dmaWrite takes a unit; a full sector goes to the disk at once.
WritesOn(f) == f.phase = "Execute" /\ f.transfer = "Write"
EachUnit(f) == WritesOn(f)       \* mutant: the sector is written with every unit
CompletesSector(f) == WritesOn(f) /\ f.pos + 1 = f.size
Filled(f, unit) == [f EXCEPT !.pos = f.pos + 1, !.buffer = Append(f.buffer, unit)]
Stored(f, ok) ==
    IF ~ok THEN End(f, {"AT"})
    ELSE IF CanAdvance(f) THEN [AdvanceSector(f) EXCEPT !.pos = 0, !.buffer = <<>>]
    ELSE End(f, {"AT"})
DmaWrite(f, unit, ok) ==
    IF f.pos >= f.size THEN End(f, {"AT"})
    ELSE IF CompletesSector(f) THEN Stored(Filled(f, unit), ok)
    ELSE Filled(f, unit)

\* Fdc::dmaComplete: the end of the transfer is the controller's terminal count.
\* A sector not full is thrown away.
CompleteAnyway(f, isComplete) ==    \* mutant: what the DMAC says is all that counts
    IF f.phase # "Execute" THEN f ELSE End(f, IF isComplete THEN {} ELSE {"AT"})
UnlessComplete(f, isComplete) ==    \* mutant: a transfer that went well needs no word
    IF f.phase # "Execute" \/ isComplete THEN f ELSE End(f, {"AT"})
DmaComplete(f, isComplete) ==
    IF f.phase # "Execute" THEN f
    ELSE LET isPartial == f.transfer = "Write" /\ f.pos > 0
         IN  End(f, IF isComplete /\ ~isPartial THEN {} ELSE {"AT"})

--------------------------------------------------------------------------------
(* The ports. *)

\* Fdc::executeCommand.  RECALIBRATE of a drive beyond the second writes past
\* presentCylinder_, into members that the next statements set anew.
ExecuteCommand(f, disk, ok) ==
    LET code == Code(f.command[1])
        g == IF Len(f.command) > 1 THEN Selected(f) ELSE f
        a == [g EXCEPT !.irqDrive = g.drive]
        target == f.command[3]
        reachable == HasImage(a) /\ target < Cylinders
    IN  CASE code = Specify -> Idle(f)
          [] code = SenseInterrupt /\ f.irq ->
               [Answer(f, <<f.st0, IF f.irqDrive \in Drives
                                   THEN f.present[f.irqDrive] ELSE 0>>) EXCEPT !.irq = FALSE]
          [] code = SenseDriveStatus -> Answer(g, <<"ST3">>)
          [] code = Recalibrate ->
               Attention([a EXCEPT !.head = 0,
                                   !.present = [d \in Drives |-> IF d = a.drive THEN 0 ELSE @[d]]],
                         IF HasImage(a) THEN {"SE"} ELSE {"SE", "AT", "NR"})
          [] code = Seek ->
               IF reachable THEN Attention([a EXCEPT !.present[a.drive] = target], {"SE"})
               ELSE Attention(a, {"SE", "AT"} \cup IF HasImage(a) THEN {} ELSE {"NR"})
          [] code = ReadId ->
               IF HasImage(a) THEN [Idle(a) EXCEPT !.irq = TRUE]
               ELSE Attention(a, {"AT", "NR"})
          [] code \in Reads -> BeginReadWrite(f, FALSE, disk, ok)
          [] code \in Writes -> BeginReadWrite(f, TRUE, disk, ok)
          [] code \in {ReadTrack, WriteId} -> Attention(a, {"AT", "EC"})
          [] OTHER -> Answer(f, <<[flags |-> {"IC"}, head |-> 0, drive |-> 0]>>)

\* Fdc::writeData: results nobody read give way to the next command; while a
\* transfer is under way nothing is taken.
Executes(f, byte) ==
    LET sent == Append(IF f.phase = "Result" THEN <<>> ELSE f.command, byte)
    IN  f.phase # "Execute" /\ Len(sent) >= 1 + ParameterCount(sent[1])
WriteData(f, byte, disk, ok) ==
    LET g == IF f.phase = "Result" THEN Idle(f) ELSE f
        h == [g EXCEPT !.command = Append(g.command, byte)]
    IN  IF f.phase = "Execute" THEN f
        ELSE IF Executes(f, byte) THEN ExecuteCommand(h, disk, ok)
        ELSE h

\* Fdc::readData: a unit of a read without DMA - the next sector is fetched, or
\* the end found, as soon as this one is used up - or the next result.
ReadData(f, disk, ok) ==
    IF ReadsOn(f)
    THEN IF Taken(f).pos < f.size THEN Taken(f) ELSE NextSector(Taken(f), disk, ok)
    ELSE IF f.phase # "Result" THEN f
    ELSE IF Len(f.result) = 1 THEN Idle(f)
    ELSE [f EXCEPT !.result = Tail(f.result)]

================================================================================
