---------------------------------- MODULE Sasi ---------------------------------
(******************************************************************************)
(* The SASI bus with its one hard disk, Machine::sasiRead, sasiWrite, dmaRead,    *)
(* dmaWrite and finishSasiWrite (core/machine.cpp), as operators on a record s.   *)
(* Data moves in units of 128 bytes, two to a sector.  The disk's answers         *)
(* (BlockDevice) are parameters.                                                *)
(******************************************************************************)
EXTENDS Integers, Sequences

CONSTANTS
    HardSectors,        \* how many sectors the disk image has at first
    MaxSectors,         \* kSasiMaxSectorsPerCommand
    CountZero,          \* what a count of 0 stands for, 256
    HardPresent         \* is there an image

SasiSectorSize == 2         \* kSasiSectorSize, in units
SpecifyParamBytes == 10     \* kSasiSpecifyParamBytes
CommandBytes == 6

ASSUME SasiAssumption ==
    /\ {HardSectors, MaxSectors, CountZero} \subseteq Nat \ {0} /\ HardPresent \in BOOLEAN

\* Commands.
SasiTestUnitReady == 0
SasiRezeroUnit == 1
SasiRequestSense == 3
SasiRead == 8
SasiWrite == 10
SasiSeek == 11
SasiSpecify == 194

\* SasiState after Machine::reset; the buffer is the machine's and stays.
ResetSasi ==
    [phase |-> "BusFree", command |-> <<>>, status |-> 0, buffer |-> <<>>,
     pos |-> 0, length |-> 0]

\* sasiWrite of $E96007: whatever went on is forgotten, if there is a disk.
Select(s) == IF HardPresent THEN [s EXCEPT !.phase = "Selected", !.command = <<>>] ELSE s

\* sasiRead of $E96003: what is read, and the phase after it.
StatusOf(s) == IF s.phase = "Selected" THEN "BusFree" ELSE s.phase
ReadSasiStatus(s) == IF s.phase = "Selected" THEN [s EXCEPT !.phase = "Command"] ELSE s

\* The operands of a command: LBA and the number of sectors.
Lba(s) == (s.command[2] % 32) * 65536 + s.command[3] * 256 + s.command[4]
Requested(s) == IF s.command[5] = 0 THEN CountZero ELSE s.command[5]
\* SdDisk::readSector: a file that ends before the last sector asked for is a failure.
\* Nothing compares a write with the size of the image.
InImage(s, disk) == HardPresent /\ Lba(s) .. Lba(s) + Requested(s) - 1 \subseteq DOMAIN disk

\* The sixth byte of a command.
Begin(s, disk, ok) ==
    LET t == [s EXCEPT !.status = 0, !.pos = 0, !.length = 0, !.buffer = <<>>]
        failed == [t EXCEPT !.status = 2, !.phase = "Status"]
        sectors == Requested(s)
        fits == sectors <= MaxSectors
        units == sectors * SasiSectorSize
        Unit(i) == disk[Lba(s) + (i - 1) \div SasiSectorSize][((i - 1) % SasiSectorSize) + 1]
    IN  CASE s.command[1] = SasiSpecify ->
               [t EXCEPT !.length = SpecifyParamBytes, !.phase = "SpecifyParam"]
          [] s.command[1] \in {SasiTestUnitReady, SasiRezeroUnit, SasiSeek} ->
               IF HardPresent THEN [t EXCEPT !.phase = "Status"] ELSE failed
          [] s.command[1] = SasiRequestSense ->
               [t EXCEPT !.buffer = <<0>>, !.length = 1, !.phase = "DataIn"]
          [] s.command[1] = SasiRead /\ fits /\ ok /\ InImage(s, disk) ->
               [t EXCEPT !.length = units, !.buffer = [i \in 1 .. units |-> Unit(i)],
                         !.phase = "DataIn"]
          [] s.command[1] = SasiWrite /\ fits ->
               [t EXCEPT !.length = units, !.phase = "DataOut"]
          [] OTHER -> failed

\* finishSasiWrite
Succeed(s, ok) == [s EXCEPT !.phase = "Status"]     \* mutant: the disk's answer is dropped
FinishSasiWrite(s, ok) ==
    IF s.command[1] = SasiWrite /\ ~(HardPresent /\ ok)
    THEN [s EXCEPT !.status = 2, !.phase = "Status"]
    ELSE [s EXCEPT !.phase = "Status"]

\* A unit from the buffer: dmaRead, and sasiRead of $E96001.
HasUnit(s) == s.phase = "DataIn" /\ s.pos < s.length
TakeUnits(s, n) ==
    [s EXCEPT !.pos = s.pos + n,
              !.phase = IF s.pos + n >= s.length THEN "Status" ELSE s.phase]

\* A unit into the buffer: dmaWrite, and sasiWrite of $E96001, which also takes the
\* parameters of SPECIFY.
TakesUnit(s) == s.phase = "DataOut" /\ s.pos < s.length
Completes(s) == s.pos + 1 >= s.length
PutUnit(s, unit, ok) ==
    LET t == [s EXCEPT !.pos = s.pos + 1, !.buffer = Append(s.buffer, unit)]
    IN  IF Completes(s) THEN FinishSasiWrite(t, ok) ELSE t

\* sasiWrite and sasiRead of $E96001 in the other phases.
WriteSasiData(s, byte, disk, ok) ==
    LET t == [s EXCEPT !.command = Append(s.command, byte)]
    IN  IF s.phase = "Command"
        THEN IF Len(t.command) < CommandBytes THEN t ELSE Begin(t, disk, ok)
        ELSE IF s.phase \in {"DataOut", "SpecifyParam"} THEN PutUnit(s, byte, ok)
        ELSE s
ReadSasiData(s) ==
    CASE HasUnit(s) -> TakeUnits(s, 1)
      [] s.phase = "Status" -> [s EXCEPT !.phase = "Message"]
      [] s.phase = "Message" -> [s EXCEPT !.phase = "BusFree"]
      [] OTHER -> s

================================================================================
