------------------------------ MODULE DiskProofs -------------------------------
(******************************************************************************)
(* What the guest is told of its disks, for disks of every size, every set of *)
(* commands and counts, and any number of failures: no sector is ever a       *)
(* mixture, and success means that the data has been moved.                   *)
(*                                                                            *)
(* Neither property is inductive: both speak of what reached the disk, when   *)
(* what the controllers remember of the command is gone.  DiskInvariant says  *)
(* what holds on the way there: that the registers stand where the units moved*)
(* so far say (Executing, Reading, Writing; DataIn, DataOut), what the disks  *)
(* hold of them already (WrittenSoFar, Served), and which driver may be where *)
(* (Places).                                                                  *)
(******************************************************************************)
EXTENDS DiskSystem, SequenceTheorems, TLAPS

\* The registers of the floppy controller.
FdcFields == {"phase", "command", "result", "irq", "drive", "present", "st0", "irqDrive",
    "transfer", "cylinder", "head", "record", "eot", "multiTrack", "size", "pos", "buffer"}

\* Data: of a command by its number, or old; a unit may also be a byte without meaning.
Units == Int \X Int
Cells == Units \cup {0}
\* The disks, the bus and the DMAC.
Floppies == [Inserted -> [FloppySectors -> [1 .. SectorSize -> Units]]]
Hards == UNION {[sectors -> [1 .. SasiSectorSize -> Units]] : sectors \in SUBSET Int}
Buses ==
    [phase : {"BusFree", "Selected", "Command", "DataIn", "DataOut", "Status", "Message",
              "SpecifyParam"},
     command : Seq(0 .. 255), status : Int, buffer : Seq(Cells), pos : Nat, length : Nat]
Transfers ==
    [channel : {"none", "FDC", "SASI"}, toMemory : BOOLEAN, left : Nat, block : BOOLEAN]

\* What the values are; of the controller's registers only their names, for the values
\* of most matter only while it transfers.
Types ==
    /\ DOMAIN fdc = FdcFields /\ fdc.command \in Seq(0 .. 255)
    /\ fdc.phase \in {"Command", "Execute", "Result"}
    /\ floppy \in Floppies /\ hard \in Hards /\ sasi \in Buses
    /\ DOMAIN table = {"st0", "fresh"}
    /\ dma \in Transfers /\ csr \in {"none", "COC", "ERR"}
    /\ received \in Seq(Cells) /\ asked \in Nat /\ serial \in Nat

\* The driver's command: a SASI command, or one that moves data of a floppy.
IsHard == job \in SasiCommands
DataCommand == job \in FdcCommands /\ Code1 \in Reads \cup Writes

\* Which driver may be where; a transfer is of the command it serves.
Places ==
    /\ guest \in {"idle", "send", "results", "transfer", "wait",
                   "select", "poll", "command", "parameters", "status"}
    /\ guest \in {"send", "results", "wait"} => IsFloppy
    /\ guest \in {"select", "poll", "command", "parameters", "status"} => IsHard
    /\ guest = "transfer" => DataCommand \/ IsHard
    /\ ~Quiet =>
        /\ guest = "transfer" /\ csr = "none"
        /\ dma.channel = IF IsFloppy THEN "FDC" ELSE "SASI"
        /\ dma.toMemory = ToMemory
    /\ verdict = "good" => guest \in {"idle", "status"}

\* Units the command has moved, if its transfer did not stop early.
Moved == IF Quiet THEN asked ELSE asked - dma.left

\* The bytes sent are the beginning of the command.
Begins(command) == Len(command) < Len(job) /\ \A i \in 1 .. Len(command) : command[i] = job[i]

\* The n-th unit of the command on the floppies.
UnitOf(disks, n) ==
    disks[job[2] % 4][FloppyPlace(n)][((n - 1) % SectorSize) + 1]

\* Which sector of the command the controller stands on, and the units before it.
Number(f) == IF f.head = Head0 THEN f.record - job[5] + 1 ELSE FirstTrack + f.record
Before(f) == (Number(f) - 1) * SectorSize

\* The registers of a transfer are those the command asked for, and each sector so far
\* has been one of the disk's, in order.
Executing(f) ==
    /\ f.transfer = IF Code1 \in Reads THEN "Read" ELSE "Write"
    /\ f.drive = job[2] % 4 /\ f.drive \in Inserted
    /\ f.cylinder = job[3] /\ f.eot = job[7] /\ f.multiTrack = (job[1] >= MultiTrack)
    /\ f.size = SectorSize
    /\ f.record \in Nat /\ f.pos \in Nat
    /\ \/ f.head = Head0 /\ f.record >= job[5] /\ Number(f) <= FirstTrack
       \/ Head0 = 0 /\ f.head = 1 /\ f.record >= 1
    /\ \A s \in 1 .. Number(f) - 1 :
        FloppySector(s) \in FloppySectors /\ FloppySector(s) < FloppySector(Number(f))

\* A read: the buffer is the sector, and the guest has all before the position.
Reading(f, disks, units) ==
    /\ Located(f) /\ f.buffer = disks[f.drive][Sector(f)] /\ f.pos <= SectorSize
    /\ Len(units) = Before(f) + f.pos

\* A write: the buffer is the command's data, and the sectors before it are on the disk.
\* A sector that is gone was handed over, and its flush failed.
Stands(disks, gone, n) == FloppyPlace(n) \in gone \/ UnitOf(disks, n) = NewUnit(n)
Writing(f, disks, gone, moved) ==
    /\ f.pos < SectorSize
    /\ f.buffer \in Seq(Units) /\ Len(f.buffer) = f.pos
    /\ \A i \in 1 .. f.pos : f.buffer[i] = NewUnit(Before(f) + i)
    /\ \A n \in 1 .. Before(f) : Stands(disks, gone, n)
    /\ moved = Before(f) + f.pos

\* ST0 says that something went wrong.
Failed(flags) == flags \cap {"AT", "IC"} # {}

\* The controller holds bytes only of the command being sent.
Sending ==
    /\ fdc.phase # "Command" \/ guest # "send" => fdc.command = <<>>
    /\ guest = "send" => Begins(fdc.command) /\ asked = 0 /\ received = <<>> /\ csr = "none"

\* While the controller executes, the guest transfers.
Transferring ==
    fdc.phase = "Execute" =>
        /\ guest = "transfer" /\ DataCommand /\ Executing(fdc) /\ ~table.fresh
        /\ Code1 \in Reads => Reading(fdc, floppy, received) /\ (Quiet => fdc.pos < SectorSize)
        /\ Code1 \in Writes => Writing(fdc, floppy, lost, Moved)

\* What the guest has is what the disk has; all of it, unless the DMAC says error.
ReadSoFar ==
    DataCommand /\ Code1 \in Reads =>
        /\ \A n \in 1 .. Len(received) : received[n] = UnitOf(floppy, n)
        /\ csr # "ERR" => Len(received) = Moved

\* What the guest is told of a write is true: an error, or the data is on the disk.
WrittenSoFar ==
    DataCommand /\ Code1 \in Writes =>
        /\ guest = "transfer" /\ fdc.phase # "Execute" => Failed(fdc.st0.flags)
        /\ guest = "transfer" => csr = "none" /\ (Quiet => asked = 0)
        /\ guest = "wait" => csr # "none"
        /\ guest = "wait" /\ csr = "COC" /\ ~Failed(fdc.st0.flags) =>
            \A n \in 1 .. asked : Stands(floppy, lost, n)

\* A fresh ST0 in the ROM's table is the controller's.
Cause == IsFloppy /\ guest \in {"transfer", "wait"} /\ table.fresh => table.st0 = fdc.st0
\* The I/O controller as the ROM set it.
Lines == iosc.enable = {"FDC", "FDD"} /\ iosc.vector = 96 /\ iosc.status \subseteq {"FDC"}

\* What holds of the floppy controller.
FloppyInv == Sending /\ Transferring /\ ReadSoFar /\ WrittenSoFar /\ Cause /\ Lines

\* The n-th unit of the command on the hard disk.
HardUnit(disk, n) ==
    disk[HardPlace(n)][((n - 1) % SasiSectorSize) + 1]

\* The driver is at a SASI command that the bus has taken.
Serving == guest \in {"poll", "command", "transfer", "parameters", "status"} /\ IsHard
\* A read on the bus: the buffer is the disk's.
DataIn(s, disk, units) ==
    s.phase = "DataIn" =>
        /\ job[1] \in {SasiRead, SasiRequestSense}
        /\ Len(s.buffer) = s.length /\ s.pos < s.length
        /\ job[1] = SasiRead =>
            s.pos = Len(units) /\ \A i \in 1 .. s.length : s.buffer[i] = HardUnit(disk, i)
\* A write on the bus: the buffer is the command's data.
DataOut(s, moved) ==
    s.phase = "DataOut" =>
        /\ s.command = job /\ job[1] = SasiWrite /\ s.status = 0
        /\ s.length = SasiSectorSize * Requested(s) /\ s.pos < s.length
        /\ Len(s.buffer) = s.pos /\ \A i \in 1 .. s.pos : s.buffer[i] = NewUnit(i)
        /\ moved <= s.pos
\* Without an error status the data is on the disk.
StandsHard(disk, gone, n) == HardPlace(n) \in gone \/ HardUnit(disk, n) = NewUnit(n)
Served(s, disk, gone, moved) ==
    s.phase = "Status" /\ s.status = 0 /\ job[1] = SasiWrite =>
        \A n \in 1 .. moved : StandsHard(disk, gone, n)
\* The bus holds the beginning of the command.
Commanded(s, moved) ==
    /\ s.phase \in {"Selected", "Command"} => Begins(s.command) /\ moved = 0
    /\ s.phase = "SpecifyParam" => s.command = job /\ job[1] = SasiSpecify

\* What holds of the bus.
HardInv ==
    /\ ~HardPresent => sasi.phase = "BusFree"
    /\ guest = "transfer" /\ IsHard => sasi.phase \in {"DataIn", "DataOut", "Status"}
    /\ guest = "select" => received = <<>> /\ asked = 0 /\ csr = "none"
    /\ guest = "command" => sasi.phase = "Command"
    /\ guest = "parameters" => sasi.phase = "SpecifyParam"
    /\ Serving =>
        /\ Commanded(sasi, asked)
        /\ sasi.phase \in {"Selected", "Command"} => received = <<>> /\ csr = "none"
        /\ DataIn(sasi, hard, received)
        /\ DataOut(sasi, Moved)
        /\ csr # "ERR" => Served(sasi, hard, lost, Moved)
        /\ job[1] = SasiRead =>
            /\ \A n \in 1 .. Len(received) : received[n] = HardUnit(hard, n)
            /\ csr # "ERR" => Len(received) = Moved

\* HonestStatus from the verdict on, and not only when the driver is idle.
Honest ==
    verdict = "good" =>
        IF IsFloppy
        THEN /\ Code1 \in Writes => \A n \in 1 .. asked : Stands(floppy, lost, n)
             /\ Code1 \in Reads =>
                Len(received) = asked /\ \A n \in 1 .. asked : received[n] = UnitOf(floppy, n)
        ELSE /\ job[1] = SasiWrite => \A n \in 1 .. asked : StandsHard(hard, lost, n)
             /\ job[1] = SasiRead =>
                Len(received) = asked /\ \A n \in 1 .. asked : received[n] = HardUnit(hard, n)

\* The inductive invariant.
DiskInvariant == Types /\ Places /\ FloppyInv /\ HardInv /\ Honest /\ WholeSectors

--------------------------------------------------------------------------------
(* What the operations of the floppy controller do to its registers. *)

\* The registers that say what is transferred, and where to.
SameCommand(f, g) ==
    /\ g.phase = f.phase /\ g.command = f.command /\ g.drive = f.drive /\ g.cylinder = f.cylinder
    /\ g.eot = f.eot /\ g.multiTrack = f.multiTrack /\ g.size = f.size /\ g.transfer = f.transfer

\* A command's end: the flags of ST0, and the controller as it takes the next command.
LEMMA ShapeFinish ==
    ASSUME NEW f, DOMAIN f = FdcFields, NEW flags
    PROVE  /\ DOMAIN End(f, flags) = FdcFields
           /\ End(f, flags).phase = "Command" /\ End(f, flags).command = <<>>
           /\ End(f, flags).st0.flags = flags
BY DEF End, Finish, St0, FdcFields

\* The sector the controller stands on, in its buffer.
LEMMA ShapeLoad ==
    ASSUME NEW f, DOMAIN f = FdcFields, NEW disk
    PROVE  /\ DOMAIN Load(f, disk) = FdcFields
           /\ Load(f, disk).buffer = disk[f.drive][Sector(f)] /\ Load(f, disk).pos = 0
           /\ SameCommand(f, Load(f, disk))
           /\ Load(f, disk).head = f.head /\ Load(f, disk).record = f.record
BY DEF Load, FdcFields, SameCommand

\* A transfer that begins: what of the command's bytes the registers hold, or a failure.
LEMMA ShapeBegin ==
    ASSUME NEW f, DOMAIN f = FdcFields, NEW isWrite \in BOOLEAN, NEW disk, NEW ok \in BOOLEAN,
           NEW g, g = BeginReadWrite(f, isWrite, disk, ok)
    PROVE  /\ DOMAIN g = FdcFields
           /\ g.command = <<>>
           /\ g.phase \in {"Command", "Execute"}
           /\ g.phase = "Command" => "AT" \in g.st0.flags
           /\ g.phase = "Execute" =>
                /\ g.drive = f.command[2] % 4 /\ g.drive \in Inserted
                /\ g.head = (f.command[2] \div 4) % 2
                /\ g.cylinder = f.command[3] /\ g.record = f.command[5] /\ g.eot = f.command[7]
                /\ g.multiTrack = (f.command[1] >= MultiTrack)
                /\ g.size = SectorSize /\ g.pos = 0
                /\ g.transfer = (IF isWrite THEN "Write" ELSE "Read")
                /\ isWrite => g.buffer = <<>>
                /\ ~isWrite => Located(g) /\ g.buffer = disk[g.drive][Sector(g)]
<1> DEFINE a == [Addressed(f) EXCEPT
                !.multiTrack = f.command[1] >= MultiTrack, !.cylinder = f.command[3],
                !.record = f.command[5], !.eot = f.command[7],
                !.transfer = "None", !.size = 0, !.pos = 0]
           wanted == SectorSizeFromN(f.command[6])
           e == [a EXCEPT !.size = wanted, !.phase = "Execute",
                               !.transfer = IF isWrite THEN "Write" ELSE "Read",
                               !.command = <<>>, !.result = <<>>, !.buffer = <<>>]
<1>1. /\ DOMAIN a = FdcFields
      /\ a.drive = f.command[2] % 4 /\ a.head = (f.command[2] \div 4) % 2
      /\ a.cylinder = f.command[3] /\ a.record = f.command[5] /\ a.eot = f.command[7]
      /\ a.multiTrack = (f.command[1] >= MultiTrack) /\ a.pos = 0
  BY DEF Addressed, Selected, FdcFields
<1>2. g = IF ~HasImage(a) THEN End(a, {"AT", "NR"})
        ELSE IF \/ isWrite /\ a.drive \in Protected
                \/ wanted # SectorSize \/ wanted > MaxSectorSize
                \/ a.cylinder # a.present[a.drive]
             THEN End(a, {"AT"})
        ELSE IF isWrite THEN e
        ELSE IF ok /\ Located(a) THEN Load(e, disk)
        ELSE End(e, {"AT"})
  BY DEF BeginReadWrite, Located
<1> HIDE DEF a
<1>3. /\ DOMAIN e = FdcFields /\ e.phase = "Execute" /\ e.command = <<>>
      /\ e.drive = a.drive /\ e.head = a.head /\ e.cylinder = a.cylinder /\ e.record = a.record
      /\ e.eot = a.eot /\ e.multiTrack = a.multiTrack /\ e.size = wanted /\ e.pos = 0
      /\ e.transfer = (IF isWrite THEN "Write" ELSE "Read") /\ e.buffer = <<>>
  BY <1>1 DEF FdcFields
<1>4. Located(a) => Located(e)
  BY <1>3 DEF Located
<1> HIDE DEF e, wanted
<1>5. CASE g \in {End(a, {"AT", "NR"}), End(a, {"AT"}), End(e, {"AT"})}
  BY <1>1, <1>3, <1>5, ShapeFinish
<1>6. CASE g = e /\ isWrite /\ HasImage(a) /\ wanted = SectorSize
  BY <1>1, <1>3, <1>6 DEF HasImage
<1>7. CASE g = Load(e, disk) /\ ~isWrite /\ HasImage(a) /\ wanted = SectorSize /\ Located(a)
  <2>1. /\ DOMAIN g = FdcFields /\ g.buffer = disk[e.drive][Sector(e)] /\ g.pos = 0
        /\ SameCommand(e, g) /\ g.head = e.head /\ g.record = e.record
    BY <1>3, <1>7, ShapeLoad
  <2>2. /\ g.phase = "Execute" /\ g.command = <<>> /\ g.drive = e.drive /\ g.head = e.head
        /\ g.cylinder = e.cylinder /\ g.record = e.record /\ g.eot = e.eot
        /\ g.multiTrack = e.multiTrack /\ g.size = e.size /\ g.transfer = e.transfer
    BY <1>3, <2>1 DEF SameCommand
  <2>3. Sector(g) = Sector(e) /\ Located(g)
    BY <1>4, <1>7, <2>2 DEF Sector, Located
  <2> QED BY <1>1, <1>3, <1>7, <2>1, <2>2, <2>3 DEF HasImage
<1> QED BY <1>2, <1>5, <1>6, <1>7

\* The next sector, by its registers.
LEMMA ShapeAdvance ==
    ASSUME NEW f, DOMAIN f = FdcFields
    PROVE  LET g == AdvanceSector(f) IN
           /\ DOMAIN g = FdcFields /\ SameCommand(f, g) /\ g.pos = f.pos
           /\ IF f.record < f.eot THEN g.record = f.record + 1 /\ g.head = f.head
                                  ELSE g.record = 1 /\ g.head = 1
BY DEF AdvanceSector, FdcFields, SameCommand

\* A unit taken from the buffer.
LEMMA ShapeTaken ==
    ASSUME NEW f, DOMAIN f = FdcFields
    PROVE  /\ DOMAIN Taken(f) = FdcFields /\ SameCommand(f, Taken(f))
           /\ Taken(f).pos = f.pos + 1 /\ Taken(f).buffer = f.buffer
           /\ Taken(f).head = f.head /\ Taken(f).record = f.record /\ Taken(f).st0 = f.st0
BY DEF Taken, FdcFields, SameCommand

\* A unit put into the buffer.
LEMMA ShapeFilled ==
    ASSUME NEW f, DOMAIN f = FdcFields, NEW unit
    PROVE  /\ DOMAIN Filled(f, unit) = FdcFields /\ SameCommand(f, Filled(f, unit))
           /\ Filled(f, unit).pos = f.pos + 1 /\ Filled(f, unit).buffer = Append(f.buffer, unit)
           /\ Filled(f, unit).head = f.head /\ Filled(f, unit).record = f.record
BY DEF Filled, FdcFields, SameCommand

\* The next sector of a read: its contents, or the end of the command.
LEMMA ShapeNext ==
    ASSUME NEW f, DOMAIN f = FdcFields, NEW disk, NEW ok \in BOOLEAN,
           NEW g, g = NextSector(f, disk, ok), f.phase = "Execute", f.command = <<>>
    PROVE  /\ DOMAIN g = FdcFields /\ g.command = <<>>
           /\ \/ g.phase = "Command" /\ "AT" \in g.st0.flags
              \/ /\ CanAdvance(f) /\ g.phase = "Execute" /\ SameCommand(f, g) /\ g.pos = 0
                 /\ IF f.record < f.eot THEN g.record = f.record + 1 /\ g.head = f.head
                                        ELSE g.record = 1 /\ g.head = 1
                 /\ Located(g) /\ g.buffer = disk[g.drive][Sector(g)]
<1> DEFINE a == AdvanceSector(f)
<1>1. /\ DOMAIN a = FdcFields /\ SameCommand(f, a)
      /\ IF f.record < f.eot THEN a.record = f.record + 1 /\ a.head = f.head
                             ELSE a.record = 1 /\ a.head = 1
  BY ShapeAdvance
<1>2. g = IF ~CanAdvance(f) THEN End(f, {"AT"})
          ELSE IF ok /\ Located(a) THEN Load(a, disk) ELSE End(a, {"AT"})
  BY DEF NextSector
<1> HIDE DEF a
<1>3. CASE g \in {End(f, {"AT"}), End(a, {"AT"})}
  BY <1>1, <1>3, ShapeFinish
<1>4. CASE CanAdvance(f) /\ Located(a) /\ g = Load(a, disk)
  <2>1. /\ DOMAIN g = FdcFields /\ g.buffer = disk[a.drive][Sector(a)] /\ g.pos = 0
        /\ SameCommand(a, g) /\ g.head = a.head /\ g.record = a.record
    BY <1>1, <1>4, ShapeLoad
  <2>2. g.drive = a.drive /\ g.cylinder = a.cylinder
    BY <2>1 DEF SameCommand
  <2>3. Sector(g) = Sector(a) /\ Located(g)
    BY <1>4, <2>1, <2>2 DEF Sector, Located
  <2>4. SameCommand(f, g)
    BY <1>1, <2>1 DEF SameCommand
  <2>5. g.phase = "Execute" /\ g.command = <<>>
    BY <2>4 DEF SameCommand
  <2> QED BY <1>1, <1>4, <2>1, <2>2, <2>3, <2>4, <2>5
<1> QED BY <1>2, <1>3, <1>4

\* A unit of a write: into the buffer, and the last of a sector ends it.
LEMMA ShapeWrite ==
    ASSUME NEW f, DOMAIN f = FdcFields, NEW unit, NEW ok \in BOOLEAN,
           NEW g, g = DmaWrite(f, unit, ok), WritesOn(f), f.command = <<>>, f.pos < f.size,
           f.pos \in Nat, f.size \in Nat
    PROVE  /\ DOMAIN g = FdcFields /\ g.command = <<>>
           /\ ~CompletesSector(f) =>
                /\ g.phase = "Execute" /\ SameCommand(f, g) /\ g.pos = f.pos + 1
                /\ g.head = f.head /\ g.record = f.record
                /\ g.buffer = Append(f.buffer, unit)
           /\ CompletesSector(f) =>
                \/ g.phase = "Command" /\ "AT" \in g.st0.flags
                \/ /\ ok /\ CanAdvance(f)
                   /\ g.phase = "Execute" /\ SameCommand(f, g) /\ g.pos = 0 /\ g.buffer = <<>>
                   /\ IF f.record < f.eot THEN g.record = f.record + 1 /\ g.head = f.head
                                          ELSE g.record = 1 /\ g.head = 1
<1> DEFINE h == Filled(f, unit)
           a == AdvanceSector(h)
           r == [a EXCEPT !.pos = 0, !.buffer = <<>>]
<1>1. /\ DOMAIN h = FdcFields /\ SameCommand(f, h) /\ h.pos = f.pos + 1
      /\ h.buffer = Append(f.buffer, unit) /\ h.head = f.head /\ h.record = f.record
  BY ShapeFilled
<1>2. CanAdvance(h) <=> CanAdvance(f)
  BY <1>1 DEF CanAdvance, SameCommand
<1>3. g = IF CompletesSector(f)
          THEN IF ~ok THEN End(h, {"AT"}) ELSE IF CanAdvance(h) THEN r ELSE End(h, {"AT"})
          ELSE h
  BY DEF DmaWrite, Stored
<1> HIDE DEF h
<1>4. /\ DOMAIN a = FdcFields /\ SameCommand(h, a)
      /\ IF h.record < h.eot THEN a.record = h.record + 1 /\ a.head = h.head
                             ELSE a.record = 1 /\ a.head = 1
  BY <1>1, ShapeAdvance
<1> HIDE DEF a
<1>5. /\ DOMAIN r = FdcFields /\ SameCommand(a, r) /\ r.pos = 0 /\ r.buffer = <<>>
      /\ r.head = a.head /\ r.record = a.record
  BY <1>4 DEF FdcFields, SameCommand
<1> HIDE DEF r
<1>6. f.phase = "Execute"
  BY DEF WritesOn
<1>7. CASE g = End(h, {"AT"}) /\ CompletesSector(f)
  BY <1>1, <1>7, ShapeFinish
<1>8. CASE g = h /\ ~CompletesSector(f)
  BY <1>1, <1>6, <1>8 DEF SameCommand
<1>9. CASE g = r /\ CompletesSector(f) /\ ok /\ CanAdvance(f)
  <2>1. SameCommand(f, g) /\ h.eot = f.eot
    BY <1>1, <1>4, <1>5, <1>9 DEF SameCommand
  <2>2. g.phase = "Execute" /\ g.command = <<>>
    BY <1>6, <2>1 DEF SameCommand
  <2> QED BY <1>1, <1>4, <1>5, <1>9, <2>1, <2>2
<1> QED BY <1>2, <1>3, <1>7, <1>8, <1>9

\* Results the guest can read.
LEMMA ShapeAnswer ==
    ASSUME NEW f, DOMAIN f = FdcFields, NEW bytes
    PROVE  /\ DOMAIN Answer(f, bytes) = FdcFields
           /\ Answer(f, bytes).phase = "Result" /\ Answer(f, bytes).command = <<>>
           /\ Answer(f, bytes).result = bytes /\ Answer(f, bytes).st0 = f.st0
           /\ Answer(f, bytes).irq = f.irq
BY DEF Answer, FdcFields

\* The controller takes commands again.
LEMMA ShapeIdle ==
    ASSUME NEW f, DOMAIN f = FdcFields
    PROVE  /\ DOMAIN Idle(f) = FdcFields
           /\ Idle(f).phase = "Command" /\ Idle(f).command = <<>> /\ Idle(f).st0 = f.st0
           /\ Idle(f).irq = f.irq
BY DEF Idle, FdcFields

\* An end without a transfer, with an interrupt.
LEMMA ShapeAttention ==
    ASSUME NEW f, DOMAIN f = FdcFields, NEW flags
    PROVE  /\ DOMAIN Attention(f, flags) = FdcFields
           /\ Attention(f, flags).phase = "Command" /\ Attention(f, flags).command = <<>>
BY DEF Attention, Idle, St0, FdcFields

\* A command other than READ DATA and WRITE DATA never begins a transfer.
LEMMA ShapeExecute ==
    ASSUME NEW f, DOMAIN f = FdcFields, NEW disk, NEW ok \in BOOLEAN,
           NEW g, g = ExecuteCommand(f, disk, ok), Code(f.command[1]) \notin Reads \cup Writes
    PROVE  /\ DOMAIN g = FdcFields /\ g.command = <<>> /\ g.phase \in {"Command", "Result"}
<1> DEFINE s == IF Len(f.command) > 1 THEN Selected(f) ELSE f
           a == [s EXCEPT !.irqDrive = s.drive]
           back == [a EXCEPT !.head = 0, !.present = [d \in Drives |-> IF d = a.drive THEN 0 ELSE @[d]]]
           moved == [a EXCEPT !.present[a.drive] = f.command[3]]
           Settles(x) == DOMAIN x = FdcFields /\ x.command = <<>> /\ x.phase \in {"Command", "Result"}
<1>1. DOMAIN s = FdcFields
  BY DEF Selected, FdcFields
<1> HIDE DEF s
<1>2. DOMAIN a = FdcFields
  BY <1>1 DEF FdcFields
<1> HIDE DEF a
<1>3. DOMAIN back = FdcFields /\ DOMAIN moved = FdcFields
  BY <1>2 DEF FdcFields
<1> HIDE DEF back, moved
<1>4. \A x : DOMAIN x = FdcFields =>
        /\ Settles(Idle(x))
        /\ \A y : Settles(Answer(x, y)) /\ Settles(Attention(x, y))
  BY ShapeIdle, ShapeAnswer, ShapeAttention
<1>5. Settles([Idle(a) EXCEPT !.irq = TRUE])
  BY <1>2, ShapeIdle DEF FdcFields
<1>6. \A y : Settles([Answer(f, y) EXCEPT !.irq = FALSE])
  BY ShapeAnswer DEF FdcFields
<1> DEFINE code == Code(f.command[1])
           reachable == HasImage(a) /\ f.command[3] < Cylinders
<1>7. g = CASE code = Specify -> Idle(f)
          [] code = SenseInterrupt /\ f.irq ->
               [Answer(f, <<f.st0, IF f.irqDrive \in Drives
                                   THEN f.present[f.irqDrive] ELSE 0>>) EXCEPT !.irq = FALSE]
          [] code = SenseDriveStatus -> Answer(s, <<"ST3">>)
          [] code = Recalibrate ->
               Attention(back, IF HasImage(a) THEN {"SE"} ELSE {"SE", "AT", "NR"})
          [] code = Seek ->
               IF reachable THEN Attention(moved, {"SE"})
               ELSE Attention(a, {"SE", "AT"} \cup IF HasImage(a) THEN {} ELSE {"NR"})
          [] code = ReadId ->
               IF HasImage(a) THEN [Idle(a) EXCEPT !.irq = TRUE]
               ELSE Attention(a, {"AT", "NR"})
          [] code \in Reads -> BeginReadWrite(f, FALSE, disk, ok)
          [] code \in Writes -> BeginReadWrite(f, TRUE, disk, ok)
          [] code \in {ReadTrack, WriteId} -> Attention(a, {"AT", "EC"})
          [] OTHER -> Answer(f, <<[flags |-> {"IC"}, head |-> 0, drive |-> 0]>>)
  BY DEF ExecuteCommand, s, a, back, moved
<1>8. code \notin Reads /\ code \notin Writes
  OBVIOUS
<1> HIDE DEF code, Settles, reachable
<1>9. Settles(g)
  BY <1>1, <1>2, <1>3, <1>4, <1>5, <1>6, <1>7, <1>8
<1> QED BY <1>9 DEF Settles

\* The controller is between two transfers, and no byte of a command has arrived.
Resting(f) == DOMAIN f = FdcFields /\ f.command = <<>> /\ f.phase \in {"Command", "Result"}

\* SENSE INTERRUPT STATUS: its first result is ST0 while the line stands.
LEMMA SenseRests ==
    ASSUME NEW f, Resting(f)
    PROVE  /\ Resting(Sense(f)) /\ Sense(f).st0 = f.st0
           /\ f.irq => Sense(f).result[1] = f.st0
<1> DEFINE g == IF f.phase = "Result" THEN Idle(f) ELSE f
           h == [g EXCEPT !.command = <<SenseInterrupt>>]
           with == <<h.st0, IF h.irqDrive \in Drives THEN h.present[h.irqDrive] ELSE 0>>
           without == <<[flags |-> {"IC"}, head |-> 0, drive |-> 0]>>
<1>1. /\ DOMAIN g = FdcFields /\ g.command = <<>> /\ g.st0 = f.st0 /\ g.irq = f.irq
  BY ShapeIdle DEF Resting
<1> HIDE DEF g
<1>2. /\ DOMAIN h = FdcFields /\ h.st0 = f.st0 /\ h.irq = f.irq /\ h.command = <<SenseInterrupt>>
  BY <1>1 DEF FdcFields
<1>3. Append(<<>>, SenseInterrupt) = <<SenseInterrupt>>
      /\ Len(<<SenseInterrupt>>) = 1 /\ <<SenseInterrupt>>[1] = SenseInterrupt
  OBVIOUS
<1>4. Code(SenseInterrupt) = SenseInterrupt /\ ParameterCount(SenseInterrupt) = 0
  BY DEF Code, ParameterCount, SenseInterrupt, Specify, Seek, SenseDriveStatus, Recalibrate,
         ReadId, WriteId, Reads, Writes, ReadTrack
<1>5. Executes(f, SenseInterrupt)
  BY <1>3, <1>4 DEF Executes, Resting
<1>6. Sense(f) = ExecuteCommand(h, floppy, TRUE)
  BY <1>1, <1>3, <1>5 DEF Sense, WriteData, Resting, g
<1> HIDE DEF h
<1>7. Sense(f) = IF h.irq THEN [Answer(h, with) EXCEPT !.irq = FALSE] ELSE Answer(h, without)
  <2>1. Code(h.command[1]) = SenseInterrupt
    BY <1>2, <1>3, <1>4
  <2>2. SenseInterrupt \notin Reads \cup Writes \cup {Specify, SenseDriveStatus, Recalibrate, Seek, ReadId, ReadTrack, WriteId}
    BY DEF SenseInterrupt, Specify, Seek, SenseDriveStatus, Recalibrate,
         ReadId, WriteId, Reads, Writes, ReadTrack
  <2>3. CASE h.irq
    BY <1>6, <2>1, <2>2, <2>3 DEF ExecuteCommand
  <2>4. CASE ~h.irq
    BY <1>6, <2>1, <2>2, <2>4 DEF ExecuteCommand
  <2> QED BY <2>3, <2>4
<1>8. with[1] = h.st0
  OBVIOUS
<1> HIDE DEF with, without
<1>9. \A y : /\ DOMAIN [Answer(h, y) EXCEPT !.irq = FALSE] = FdcFields
             /\ [Answer(h, y) EXCEPT !.irq = FALSE].phase = "Result"
             /\ [Answer(h, y) EXCEPT !.irq = FALSE].command = <<>>
             /\ [Answer(h, y) EXCEPT !.irq = FALSE].result = y
             /\ [Answer(h, y) EXCEPT !.irq = FALSE].st0 = f.st0
  BY <1>2, ShapeAnswer DEF FdcFields
<1>10. DOMAIN Answer(h, without) = FdcFields /\ Answer(h, without).phase = "Result"
       /\ Answer(h, without).command = <<>> /\ Answer(h, without).st0 = f.st0
  BY <1>2, ShapeAnswer
<1>11. CASE h.irq
  <2>1. Sense(f) = [Answer(h, with) EXCEPT !.irq = FALSE]
    BY <1>7, <1>11
  <2> QED BY <1>2, <1>8, <1>9, <2>1 DEF Resting
<1>12. CASE ~h.irq
  <2>1. Sense(f) = Answer(h, without)
    BY <1>7, <1>12
  <2>2. ~f.irq
    BY <1>2, <1>12
  <2> QED BY <1>10, <2>1, <2>2 DEF Resting
<1> QED BY <1>11, <1>12

\* A result read.
LEMMA ReadRests ==
    ASSUME NEW f, Resting(f)
    PROVE  Resting(NextResult(f)) /\ NextResult(f).st0 = f.st0
<1>1. ~ReadsOn(f)
  BY DEF ReadsOn, Resting
<1>2. NextResult(f) = IF f.phase # "Result" THEN f
                      ELSE IF Len(f.result) = 1 THEN Idle(f)
                      ELSE [f EXCEPT !.result = Tail(f.result)]
  BY <1>1 DEF NextResult, ReadData
<1>3. Resting(Idle(f)) /\ Idle(f).st0 = f.st0
  BY ShapeIdle DEF Resting
<1>4. Resting([f EXCEPT !.result = Tail(f.result)])
      /\ [f EXCEPT !.result = Tail(f.result)].st0 = f.st0
  BY DEF Resting, FdcFields
<1> QED BY <1>2, <1>3, <1>4

\* A controller that waits for a byte of the driver's command, and what it is after it:
\* it has begun the whole command, or waits for another byte of it.
Listens(f) ==
    /\ DOMAIN f = FdcFields /\ f.command \in Seq(0 .. 255) /\ Begins(f.command)
    /\ f.phase \in {"Command", "Result"} /\ (f.phase = "Result" => f.command = <<>>)
Heard(f, byte, g, disk, ok) ==
    IF Executes(f, byte)
    THEN \E h : DOMAIN h = FdcFields /\ h.command = job /\ g = ExecuteCommand(h, disk, ok)
    ELSE /\ DOMAIN g = FdcFields /\ g.phase = "Command"
         /\ g.command \in Seq(0 .. 255) /\ Begins(g.command)
         /\ g.st0 = f.st0

\* A byte of the command, in its place: the last one starts the whole of it.
LEMMA SendKeepsWord ==
    ASSUME NEW f, Listens(f), job \in FdcCommands,
           NEW disk, NEW ok \in BOOLEAN, NEW byte, byte = job[Len(f.command) + 1],
           NEW g, g = WriteData(f, byte, disk, ok)
    PROVE  Heard(f, byte, g, disk, ok)
<1>0. /\ DOMAIN f = FdcFields /\ f.command \in Seq(0 .. 255) /\ Begins(f.command)
      /\ f.phase \in {"Command", "Result"} /\ (f.phase = "Result" => f.command = <<>>)
  BY DEF Listens
<1> DEFINE a == IF f.phase = "Result" THEN Idle(f) ELSE f
           sent == Append(f.command, byte)
           h == [a EXCEPT !.command = sent]
<1>1. DOMAIN a = FdcFields /\ a.command = f.command /\ a.phase = "Command" /\ a.st0 = f.st0
  BY <1>0, ShapeIdle
<1>2. job \in Seq(0 .. 255) /\ Len(job) = 1 + ParameterCount(job[1]) /\ Len(job) \in Nat
  BY DiskAssumption DEF DiskAssumption
<1>3. Len(f.command) \in Nat /\ Len(f.command) < Len(job)
  BY <1>0 DEF Begins
<1>4. byte \in 0 .. 255
  <2>1. Len(f.command) + 1 \in 1 .. Len(job)
    BY <1>2, <1>3
  <2> QED BY <1>2, <2>1, ElementOfSeq
<1>5. /\ sent \in Seq(0 .. 255) /\ Len(sent) = Len(f.command) + 1
      /\ \A i \in 1 .. Len(sent) : sent[i] = job[i]
  BY <1>0, <1>2, <1>3, <1>4 DEF Begins
<1>6. Executes(f, byte) <=> Len(sent) >= Len(job)
  <2>1. sent[1] = job[1]
    BY <1>3, <1>5
  <2>2. Executes(f, byte) <=> Len(sent) >= 1 + ParameterCount(sent[1])
    BY <1>0 DEF Executes
  <2> QED BY <1>2, <2>1, <2>2
<1> HIDE DEF a
<1>7. DOMAIN h = FdcFields /\ h.command = sent /\ h.phase = "Command" /\ h.st0 = f.st0
  BY <1>0, <1>1 DEF FdcFields
<1>8. g =
        IF Executes(f, byte) THEN ExecuteCommand(h, disk, ok) ELSE h
  BY <1>0, <1>1 DEF WriteData, a
<1> HIDE DEF sent, h
<1>9. CASE Executes(f, byte)
  <2>1. Len(sent) = Len(job)
    BY <1>3, <1>2, <1>5, <1>6, <1>9
  <2>2. sent = job
    BY <1>2, <1>5, <2>1, SeqEqual
  <2> QED BY <1>7, <1>8, <1>9, <2>2 DEF Heard
<1>10. CASE ~Executes(f, byte)
  <2>1. Begins(sent)
    BY <1>2, <1>3, <1>5, <1>6, <1>10 DEF Begins
  <2> QED BY <1>5, <1>7, <1>8, <1>10, <2>1 DEF Heard
<1> QED BY <1>9, <1>10

\* The end of the DMA transfer ends the command, in error with a sector half full.
LEMMA ShapeComplete ==
    ASSUME NEW f, DOMAIN f = FdcFields, NEW done \in BOOLEAN, NEW g, g = DmaComplete(f, done),
           f.command = <<>>
    PROVE  /\ DOMAIN g = FdcFields /\ g.command = <<>>
           /\ f.phase # "Execute" => g = f
           /\ f.phase = "Execute" =>
                /\ g.phase = "Command"
                /\ ~(done /\ (f.transfer = "Write" => ~(f.pos > 0))) => "AT" \in g.st0.flags
<1>1. CASE f.phase # "Execute"
  BY <1>1 DEF DmaComplete
<1>2. CASE f.phase = "Execute"
  <2> DEFINE flags == IF done /\ ~(f.transfer = "Write" /\ f.pos > 0) THEN {} ELSE {"AT"}
  <2>1. g = End(f, flags)
    BY <1>2 DEF DmaComplete
  <2>2. ~(done /\ (f.transfer = "Write" => ~(f.pos > 0))) => "AT" \in flags
    OBVIOUS
  <2> HIDE DEF flags
  <2> QED BY <1>2, <2>1, <2>2, ShapeFinish
<1> QED BY <1>1, <1>2

\* A unit read by hand.
LEMMA ShapeReadData ==
    ASSUME NEW f, DOMAIN f = FdcFields, ReadsOn(f), f.command = <<>>, NEW disk, NEW ok \in BOOLEAN
    PROVE  LET t == Taken(f) IN
           ReadData(f, disk, ok) = IF t.pos < f.size THEN t ELSE NextSector(t, disk, ok)
BY DEF ReadData

--------------------------------------------------------------------------------
(* Sectors of a command: in a row, on one side of the cylinder and then the other. *)

\* The bytes of a command that moves data are bytes, and it has at least one sector.
LEMMA DataBytes ==
    ASSUME DataCommand
    PROVE  /\ job[1] \in 0 .. 255 /\ job[2] \in 0 .. 255 /\ job[3] \in 0 .. 255
           /\ job[5] \in 0 .. 255 /\ job[7] \in 0 .. 255
           /\ Head0 \in {0, 1} /\ FirstTrack \in Nat /\ FirstTrack >= 1
<1>1. job \in Seq(0 .. 255) /\ Len(job) = 1 + ParameterCount(job[1])
  BY DiskAssumption DEF DiskAssumption, DataCommand
<1>2. ParameterCount(job[1]) = 8
  BY DEF ParameterCount, DataCommand, Code1, Reads, Writes, Specify, Seek, SenseDriveStatus,
         Recalibrate, ReadId, WriteId, ReadTrack
<1>3. 1 \in 1 .. Len(job) /\ 2 \in 1 .. Len(job) /\ 3 \in 1 .. Len(job)
      /\ 5 \in 1 .. Len(job) /\ 7 \in 1 .. Len(job)
  BY <1>1, <1>2
<1>4. /\ job[1] \in 0 .. 255 /\ job[2] \in 0 .. 255 /\ job[3] \in 0 .. 255
      /\ job[5] \in 0 .. 255 /\ job[7] \in 0 .. 255
  <2>1. \A i \in 1 .. Len(job) : job[i] \in 0 .. 255
    BY <1>1, ElementOfSeq
  <2> QED BY <1>3, <2>1
<1>5. Head0 \in {0, 1}
  <2>1. \A x \in 0 .. 255 : (x \div 4) % 2 \in {0, 1}
    OBVIOUS
  <2> QED BY <1>4, <2>1 DEF Head0
<1>6. FirstTrack \in Nat /\ FirstTrack >= 1
  <2>1. \A x, y \in 0 .. 255 : (IF x <= y THEN y - x + 1 ELSE 1) \in Nat \ {0}
    OBVIOUS
  <2>2. FirstTrack \in Nat \ {0}
    BY <1>4, <2>1 DEF FirstTrack
  <2> QED BY <2>2
<1> QED BY <1>4, <1>5, <1>6

\* Quotient and remainder.
LEMMA Division ==
    ASSUME NEW a \in Nat, NEW n \in Nat \ {0}
    PROVE  /\ a \div n \in Nat /\ a % n \in 0 .. n - 1
           /\ a = n * (a \div n) + (a % n)
<1>1. a % n \in 0 .. n - 1
  OBVIOUS
<1>2. a \div n \in Nat
  OBVIOUS
<1>3. a = n * (a \div n) + (a % n)
  OBVIOUS
<1> QED BY <1>1, <1>2, <1>3

\* A number has one quotient and one remainder.
LEMMA QuotientIsUnique ==
    ASSUME NEW a \in Int, NEW n \in Nat \ {0}, NEW q \in Int, NEW r \in 0 .. n - 1, a = n * q + r
    PROVE  a \div n = q /\ a % n = r
OBVIOUS

\* Multiples of a size, in order.
LEMMA Products ==
    ASSUME NEW a \in Int, NEW b \in Int, NEW n \in Nat
    PROVE  /\ a * n \in Int /\ n * a = a * n
           /\ (a + 1) * n = a * n + n /\ (a - 1) * n = a * n - n
           /\ a <= b => a * n <= b * n
           /\ a < b => a * n + n <= b * n
<1>1. a * n \in Int /\ n * a = a * n /\ (a + 1) * n = a * n + n /\ (a - 1) * n = a * n - n
  OBVIOUS
<1>2. ASSUME a <= b PROVE a * n <= b * n
  <2>1. b = a + (b - a) /\ b - a \in Nat
    BY <1>2
  <2>2. b * n = a * n + (b - a) * n /\ (b - a) * n \in Nat
    BY <2>1
  <2> QED BY <2>2
<1>3. ASSUME a < b PROVE a * n + n <= b * n
  <2>1. b = a + 1 + (b - a - 1) /\ b - a - 1 \in Nat
    BY <1>3
  <2>2. b * n = a * n + n + (b - a - 1) * n /\ (b - a - 1) * n \in Nat
    BY <2>1
  <2> QED BY <2>2
<1> QED BY <1>1, <1>2, <1>3

\* Multiples keep the order.
LEMMA ProductGrows ==
    ASSUME NEW a \in Int, NEW b \in Int, NEW n \in Nat, a <= b
    PROVE  a * n <= b * n
BY Products

\* The next multiple.
LEMMA ProductStep ==
    ASSUME NEW a \in Int, NEW n \in Nat
    PROVE  (a + 1) * n = a * n + n /\ a * n \in Int
BY Products

\* The n-th unit is in a sector and has a place there.
LEMMA PlaceOfUnit ==
    ASSUME NEW size \in Nat \ {0}, NEW s \in Nat \ {0}, NEW i \in 1 .. size
    PROVE  LET n == (s - 1) * size + i IN
           /\ n \in Nat \ {0} /\ (n - 1) \div size = s - 1 /\ (n - 1) % size = i - 1
<1> DEFINE n == (s - 1) * size + i
           m == n - 1
<1>1. (s - 1) * size \in Nat /\ (s - 1) * size = size * (s - 1)
  OBVIOUS
<1>2. n \in Nat \ {0} /\ m \in Int /\ m = size * (s - 1) + (i - 1)
  BY <1>1
<1> HIDE DEF m
<1>3. s - 1 \in Int /\ i - 1 \in 0 .. size - 1
  OBVIOUS
<1>4. m \div size = s - 1 /\ m % size = i - 1
  BY <1>2, <1>3, QuotientIsUnique
<1> QED BY <1>2, <1>4 DEF m

\* Every unit is in one sector, and has one place there.
LEMMA UnitHasPlace ==
    ASSUME NEW size \in Nat \ {0}, NEW n \in Nat \ {0}
    PROVE  LET s == (n - 1) \div size + 1
               i == ((n - 1) % size) + 1
           IN  /\ s \in Nat \ {0} /\ i \in 1 .. size /\ n = (s - 1) * size + i
               /\ \A k \in Nat : n <= k * size => s <= k
<1> DEFINE q == (n - 1) \div size
           r == (n - 1) % size
<1>1. q \in Nat /\ r \in 0 .. size - 1 /\ n - 1 = size * q + r
  <2> DEFINE m == n - 1
  <2>1. m \in Nat
    OBVIOUS
  <2> HIDE DEF m
  <2>2. m \div size \in Nat /\ m % size \in 0 .. size - 1 /\ m = size * (m \div size) + (m % size)
    BY <2>1, Division
  <2> QED BY <2>2 DEF m
<1> HIDE DEF q, r
<1>2. q + 1 \in Nat \ {0} /\ r + 1 \in 1 .. size /\ (q + 1) - 1 = q /\ q * size = size * q
  BY <1>1
<1>3. n = ((q + 1) - 1) * size + (r + 1)
  BY <1>1, <1>2
<1>4. ASSUME NEW k \in Nat, n <= k * size PROVE q + 1 <= k
  <2>1. CASE k <= q
    <3>1. k * size <= q * size
      BY <1>1, <2>1, Products
    <3> QED BY <1>1, <1>2, <1>4, <3>1
  <2> QED BY <1>1, <2>1
<1> QED BY <1>2, <1>3, <1>4 DEF q, r

\* A located controller stands on a sector of the disk.
LEMMA LocatedSector ==
    ASSUME NEW f, Located(f)
    PROVE  Sector(f) \in FloppySectors
<1> DEFINE t == f.cylinder * 2 + f.head
<1>1. Cylinders \in Nat /\ SectorsPerTrack \in Nat /\ f.cylinder \in Nat /\ f.head \in 0 .. 1
      /\ f.cylinder <= Cylinders - 1 /\ f.record \in 1 .. SectorsPerTrack
  BY FdcAssumption DEF FdcAssumption, Located
<1>2. t \in Nat /\ t < Cylinders * 2 /\ Cylinders * 2 \in Nat
  BY <1>1
<1> HIDE DEF t
<1>3. t * SectorsPerTrack \in Nat /\ t * SectorsPerTrack + SectorsPerTrack <= (Cylinders * 2) * SectorsPerTrack
  BY <1>1, <1>2, Products
<1>4. Sector(f) = t * SectorsPerTrack + f.record - 1
  BY DEF Sector, t
<1> QED BY <1>1, <1>2, <1>3, <1>4 DEF FloppySectors

\* The numbers of the sectors of a command: first on one side of the cylinder, then
\* on the other.
LEMMA SectorsInARow ==
    ASSUME DataCommand
    PROVE  \E first \in Int, second \in Int :
             /\ first = (job[3] * 2 + Head0) * SectorsPerTrack
             /\ second = (job[3] * 2 + 1) * SectorsPerTrack
             /\ Head0 = 0 => second = first + SectorsPerTrack
             /\ \A s \in Nat : FloppySector(s) = IF s <= FirstTrack THEN first + job[5] + s - 2
                                                 ELSE second + s - FirstTrack - 1
<1> DEFINE c == job[3]
           a == job[5]
           h == Head0
           t == FirstTrack
           first == (c * 2 + h) * SectorsPerTrack
           second == (c * 2 + 1) * SectorsPerTrack
<1>1. c \in 0 .. 255 /\ a \in 0 .. 255 /\ h \in {0, 1} /\ t \in Nat
  BY DataBytes
<1>2. SectorsPerTrack \in Nat
  BY FdcAssumption DEF FdcAssumption
<1>3. \A s \in Nat : FloppySector(s) = IF s <= t THEN first + a - 1 + s - 1 ELSE second + s - t - 1
  BY DEF FloppySector
<1>4. first = (job[3] * 2 + Head0) * SectorsPerTrack /\ second = (job[3] * 2 + 1) * SectorsPerTrack
  OBVIOUS
<1>9. a = job[5] /\ h = Head0 /\ t = FirstTrack
  OBVIOUS
<1> HIDE DEF c, a, h, t
<1>5. first \in Int /\ second \in Int /\ (h = 0 => second = first + SectorsPerTrack)
  <2>1. c * 2 + h \in Int /\ c * 2 + 1 \in Int /\ (h = 0 => c * 2 + 1 = (c * 2 + h) + 1)
    BY <1>1
  <2> QED BY <1>2, <2>1, Products
<1> HIDE DEF first, second
<1>6. \A s \in Nat : FloppySector(s) = IF s <= t THEN first + a + s - 2 ELSE second + s - t - 1
  BY <1>1, <1>3, <1>5
<1> QED BY <1>4, <1>5, <1>6, <1>9

\* Where the controller stands is the command's sector of that number.
LEMMA SectorNumber ==
    ASSUME DataCommand, NEW f, Executing(f)
    PROVE  Number(f) \in Nat \ {0} /\ Sector(f) = FloppySector(Number(f))
<1> DEFINE a == job[5]
           h == Head0
           t == FirstTrack
           n == Number(f)
           r == f.record
           c == f.cylinder * 2
<1>1. a \in 0 .. 255 /\ h \in {0, 1} /\ t \in Nat /\ t >= 1 /\ r \in Nat
  BY DataBytes DEF Executing
<1>2. PICK first \in Int, second \in Int :
             /\ first = (job[3] * 2 + h) * SectorsPerTrack
             /\ second = (job[3] * 2 + 1) * SectorsPerTrack
             /\ \A s \in Nat : FloppySector(s) = IF s <= t THEN first + a + s - 2
                                                 ELSE second + s - t - 1
  BY SectorsInARow
<1>3. first = (c + h) * SectorsPerTrack /\ second = (c + 1) * SectorsPerTrack
  BY <1>2 DEF Executing
<1>4. Sector(f) = (c + f.head) * SectorsPerTrack + r - 1
  BY DEF Sector
<1>5. n = IF f.head = h THEN r - a + 1 ELSE t + r
  BY DEF Number
<1>6. \/ f.head = h /\ r >= a /\ n <= t
      \/ h = 0 /\ f.head = 1 /\ r >= 1
  BY DEF Executing
<1> HIDE DEF a, h, t, n, r, c
<1>7. CASE f.head = h /\ r >= a /\ n <= t
  <2>1. n = r - a + 1 /\ Sector(f) = first + r - 1
    BY <1>3, <1>4, <1>5, <1>7
  <2>2. n \in Nat \ {0}
    BY <1>1, <1>7, <2>1
  <2> QED BY <1>1, <1>2, <1>7, <2>1, <2>2 DEF n
<1>8. CASE h = 0 /\ f.head = 1 /\ r >= 1
  <2>1. n = t + r /\ Sector(f) = second + r - 1
    BY <1>3, <1>4, <1>5, <1>8
  <2>2. n \in Nat \ {0} /\ ~(n <= t)
    BY <1>1, <1>8, <2>1
  <2> QED BY <1>1, <1>2, <2>1, <2>2 DEF n
<1> QED BY <1>6, <1>7, <1>8

\* The next sector of the controller is the next of the command.
LEMMA AdvanceExecutes ==
    ASSUME DataCommand,
           NEW f, Executing(f), Located(f), CanAdvance(f),
           NEW g, SameCommand(f, g), g.pos \in Nat,
           IF f.record < f.eot THEN g.record = f.record + 1 /\ g.head = f.head
                               ELSE g.record = 1 /\ g.head = 1
    PROVE  Executing(g) /\ Number(g) = Number(f) + 1
<1> DEFINE a == job[5]
           e == job[7]
           h == Head0
           t == FirstTrack
           n == Number(f)
           m == Number(g)
           r == f.record
           q == g.record
           k == SectorsPerTrack
<1>1. a \in 0 .. 255 /\ e \in 0 .. 255 /\ h \in {0, 1} /\ t \in Nat /\ t >= 1 /\ r \in Nat
      /\ t = IF a <= e THEN e - a + 1 ELSE 1
  BY DataBytes DEF Executing, FirstTrack
<1>2. k \in Nat /\ r <= k
  BY FdcAssumption DEF FdcAssumption, Located
<1>3. PICK first \in Int, second \in Int :
             /\ h = 0 => second = first + k
             /\ \A s \in Nat : FloppySector(s) = IF s <= t THEN first + a + s - 2
                                                 ELSE second + s - t - 1
  BY SectorsInARow
<1>4. n \in Nat \ {0} /\ Sector(f) = FloppySector(n)
  BY SectorNumber
<1>5. /\ n = IF f.head = h THEN r - a + 1 ELSE t + r
      /\ m = IF g.head = h THEN q - a + 1 ELSE t + q
  BY DEF Number
<1>6. \/ f.head = h /\ r >= a /\ n <= t
      \/ h = 0 /\ f.head = 1 /\ r >= 1
  BY DEF Executing
<1>7. IF r < e THEN q = r + 1 /\ g.head = f.head ELSE q = 1 /\ g.head = 1 /\ f.head = 0
  BY DEF Executing, CanAdvance
<1>8. /\ FloppySector(n) \in FloppySectors
      /\ \A s \in 1 .. n - 1 : FloppySector(s) \in FloppySectors /\ FloppySector(s) < FloppySector(n)
  BY <1>4, LocatedSector DEF Executing
<1>9. /\ g.transfer = f.transfer /\ g.drive = f.drive /\ g.cylinder = f.cylinder /\ g.eot = f.eot
      /\ g.multiTrack = f.multiTrack /\ g.size = f.size
  BY DEF SameCommand
<1>10. ASSUME q \in Nat, (g.head = h /\ q >= a /\ m <= t) \/ (h = 0 /\ g.head = 1 /\ q >= 1),
              \A s \in 1 .. m - 1 : FloppySector(s) \in FloppySectors /\ FloppySector(s) < FloppySector(m)
       PROVE  Executing(g)
  BY <1>9, <1>10 DEF Executing
<1>11. SUFFICES /\ m = n + 1 /\ q \in Nat
                /\ (g.head = h /\ q >= a /\ m <= t) \/ (h = 0 /\ g.head = 1 /\ q >= 1)
                /\ \A s \in 1 .. m - 1 : FloppySector(s) \in FloppySectors /\ FloppySector(s) < FloppySector(m)
  BY <1>10
<1> HIDE DEF a, e, h, t, n, m, r, q, k
<1>12. /\ m = n + 1 /\ FloppySector(n) < FloppySector(n + 1) /\ q \in Nat
       /\ (g.head = h /\ q >= a /\ m <= t) \/ (h = 0 /\ g.head = 1 /\ q >= 1)
  <2>1. CASE r < e /\ f.head = h /\ r >= a /\ n <= t
    <3>1. n = r - a + 1 /\ q = r + 1 /\ g.head = h /\ m = q - a + 1 /\ t = e - a + 1
      BY <1>1, <1>5, <1>7, <2>1
    <3>2. n + 1 <= t /\ m = n + 1 /\ q \in Nat /\ q >= a
      BY <1>1, <2>1, <3>1
    <3>3. FloppySector(n) = first + a + n - 2 /\ FloppySector(n + 1) = first + a + (n + 1) - 2
      BY <1>1, <1>3, <1>4, <2>1, <3>2
    <3>4. FloppySector(n) < FloppySector(n + 1)
      BY <1>1, <1>4, <3>3
    <3>5. m <= t
      BY <3>2
    <3> QED BY <3>1, <3>2, <3>4, <3>5
  <2>2. CASE r < e /\ h = 0 /\ f.head = 1 /\ r >= 1
    <3>1. n = t + r /\ q = r + 1 /\ g.head = 1 /\ m = t + q
      BY <1>5, <1>7, <2>2
    <3>2. m = n + 1 /\ ~(n <= t) /\ ~(n + 1 <= t) /\ q \in Nat /\ q >= 1
      BY <1>1, <2>2, <3>1
    <3>3. FloppySector(n) = second + n - t - 1 /\ FloppySector(n + 1) = second + (n + 1) - t - 1
      BY <1>3, <1>4, <3>2
    <3> QED BY <1>1, <1>4, <2>2, <3>1, <3>2, <3>3
  <2>3. CASE ~(r < e)
    <3>1. q = 1 /\ g.head = 1 /\ f.head = 0
      BY <1>7, <2>3
    <3>2. h = 0 /\ r >= a /\ n <= t
      BY <1>6, <3>1
    <3>3. n = r - a + 1 /\ m = t + 1
      BY <1>5, <3>1, <3>2
    <3>4. n = t
      BY <1>1, <2>3, <3>2, <3>3
    <3>5. FloppySector(n) = first + a + n - 2 /\ FloppySector(n + 1) = second + (n + 1) - t - 1
      <4>1. n \in Nat /\ n + 1 \in Nat /\ n <= t /\ ~(n + 1 <= t)
        BY <1>1, <3>4
      <4> QED BY <1>3, <4>1
    <3>6. FloppySector(n) < FloppySector(n + 1)
      BY <1>1, <1>2, <1>3, <3>2, <3>3, <3>4, <3>5
    <3> QED BY <1>1, <3>1, <3>2, <3>3, <3>4, <3>6
  <2> QED BY <1>6, <2>1, <2>2, <2>3
<1>13. \A s \in 1 .. n : FloppySector(s) \in FloppySectors /\ FloppySector(s) < FloppySector(n + 1)
  <2>1. \A s \in Nat : FloppySector(s) \in Int
    BY <1>1, <1>3
  <2> SUFFICES ASSUME NEW s \in 1 .. n
               PROVE  FloppySector(s) \in FloppySectors /\ FloppySector(s) < FloppySector(n + 1)
    OBVIOUS
  <2>2. FloppySector(s) \in Int /\ FloppySector(n) \in Int /\ FloppySector(n + 1) \in Int
    BY <1>4, <2>1
  <2>3. CASE s = n
    BY <1>8, <1>12, <2>3
  <2>4. CASE s \in 1 .. n - 1
    BY <1>8, <1>12, <2>2, <2>4
  <2> QED BY <1>4, <2>3, <2>4
<1> QED BY <1>4, <1>12, <1>13

\* A unit of the command, by its sector and its place there.
LEMMA UnitInSector ==
    ASSUME NEW disks, NEW s \in Nat \ {0}, NEW i \in 1 .. SectorSize
    PROVE  /\ (s - 1) * SectorSize + i \in Nat \ {0}
           /\ UnitOf(disks, (s - 1) * SectorSize + i) = disks[job[2] % 4][FloppySector(s)][i]
           /\ FloppyPlace((s - 1) * SectorSize + i) = FloppySector(s)
<1>1. SectorSize \in Nat \ {0}
  BY FdcAssumption DEF FdcAssumption
<1> DEFINE n == (s - 1) * SectorSize + i
<1>2. n \in Nat \ {0} /\ (n - 1) \div SectorSize = s - 1 /\ (n - 1) % SectorSize = i - 1
  BY <1>1, PlaceOfUnit
<1>3. /\ FloppyPlace(n) = FloppySector((s - 1) + 1)
      /\ UnitOf(disks, n) = disks[job[2] % 4][FloppySector((s - 1) + 1)][(i - 1) + 1]
  BY <1>2 DEF UnitOf, FloppyPlace
<1>4. (s - 1) + 1 = s /\ (i - 1) + 1 = i
  BY <1>1
<1> QED BY <1>2, <1>3, <1>4

\* A function changed in one place.
LEMMA ChangedAt ==
    ASSUME NEW D, NEW S, NEW g \in [D -> S], NEW d \in D, NEW v \in S
    PROVE  /\ [g EXCEPT ![d] = v] \in [D -> S] /\ [g EXCEPT ![d] = v][d] = v
           /\ \A b \in D : b # d => [g EXCEPT ![d] = v][b] = g[b]
OBVIOUS

\* A sector stored is the command's, and those before it stay.
LEMMA StoreKeeps ==
    ASSUME DataCommand, NEW f, Executing(f), Located(f),
           floppy \in Floppies, serial \in Int, NEW buf,
           buf \in [1 .. SectorSize -> Units],
           \A i \in 1 .. SectorSize : buf[i] = NewUnit(Before(f) + i),
           \A n \in 1 .. Before(f) : Stands(floppy, lost, n),
           NEW new, new = [floppy EXCEPT ![f.drive][Sector(f)] = buf]
    PROVE  /\ new \in Floppies
           /\ \A n \in 1 .. Before(f) + SectorSize : Stands(new, lost, n)
           /\ \A d \in Inserted : \A l \in FloppySectors : new[d][l] \in {floppy[d][l], buf}
<1> DEFINE N == Number(f)
           d == job[2] % 4
           x == Sector(f)
<1>1. N \in Nat \ {0} /\ x = FloppySector(N) /\ x \in FloppySectors
  BY SectorNumber, LocatedSector
<1>2. d \in Inserted /\ f.drive = d
  BY DEF Executing
<1>3. SectorSize \in Nat \ {0} /\ FloppySectors \subseteq Int
  BY FdcAssumption DEF FdcAssumption, FloppySectors
<1>4. \A s \in 1 .. N - 1 : FloppySector(s) \in FloppySectors /\ FloppySector(s) < x
  BY <1>1 DEF Executing
<1> HIDE DEF x, d
<1>5. new = [floppy EXCEPT ![d][x] = buf]
  BY <1>2 DEF x
<1>6. /\ new \in Floppies /\ new[d][x] = buf
      /\ \A l \in FloppySectors : l # x => new[d][l] = floppy[d][l]
      /\ \A b \in Inserted : b # d => new[b] = floppy[b]
  <2> DEFINE side == [floppy[d] EXCEPT ![x] = buf]
  <2>1. floppy[d] \in [FloppySectors -> [1 .. SectorSize -> Units]]
    BY <1>2 DEF Floppies
  <2>2. side \in [FloppySectors -> [1 .. SectorSize -> Units]]
        /\ side[x] = buf /\ \A l \in FloppySectors : l # x => side[l] = floppy[d][l]
    BY <1>1, <2>1
  <2>3. new = [floppy EXCEPT ![d] = side]
    BY <1>5
  <2> HIDE DEF side
  <2>4. new \in Floppies /\ new[d] = side /\ \A b \in Inserted : b # d => new[b] = floppy[b]
    <3> DEFINE S == [FloppySectors -> [1 .. SectorSize -> Units]]
    <3>1. floppy \in [Inserted -> S] /\ side \in S /\ Floppies = [Inserted -> S]
      BY <2>2 DEF Floppies
    <3> HIDE DEF S
    <3>2. [floppy EXCEPT ![d] = side] \in [Inserted -> S]
          /\ [floppy EXCEPT ![d] = side][d] = side
          /\ \A b \in Inserted : b # d => [floppy EXCEPT ![d] = side][b] = floppy[b]
      BY <1>2, <3>1, ChangedAt
    <3> QED BY <2>3, <3>1, <3>2
  <2> QED BY <2>2, <2>4
<1>7. \A b \in Inserted : \A l \in FloppySectors : new[b][l] \in {floppy[b][l], buf}
  BY <1>6
<1>8. Before(f) = (N - 1) * SectorSize /\ Before(f) \in Nat
      /\ Before(f) + SectorSize = N * SectorSize
  <2> HIDE DEF N
  <2>1. (N - 1) * SectorSize \in Nat /\ N * SectorSize = ((N - 1) + 1) * SectorSize
    BY <1>1, <1>3
  <2>2. ((N - 1) + 1) * SectorSize = (N - 1) * SectorSize + SectorSize
    BY <1>1, <1>3, Products
  <2> QED BY <2>1, <2>2 DEF Before, N
<1> SUFFICES ASSUME NEW n \in 1 .. Before(f) + SectorSize
             PROVE  Stands(new, lost, n)
  BY <1>6, <1>7
<1>9. n \in Nat \ {0} /\ n <= N * SectorSize
  BY <1>3, <1>8
<1> HIDE DEF N
<1>10. PICK s \in Nat \ {0}, i \in 1 .. SectorSize :
         n = (s - 1) * SectorSize + i /\ (\A k \in Nat : n <= k * SectorSize => s <= k)
  BY <1>3, <1>9, UnitHasPlace
<1>11. \A disks : UnitOf(disks, n) = disks[d][FloppySector(s)][i]
  <2>1. \A disks : UnitOf(disks, (s - 1) * SectorSize + i) = disks[d][FloppySector(s)][i]
    BY UnitInSector DEF d
  <2> QED BY <1>10, <2>1
<1>12. s <= N
  BY <1>1, <1>9, <1>10
<1>13. CASE s = N
  <2>1. UnitOf(new, n) = new[d][x][i]
    BY <1>1, <1>11, <1>13
  <2>2. n = Before(f) + i
    BY <1>8, <1>10, <1>13
  <2>3. buf[i] = NewUnit(n)
    BY <2>2
  <2> QED BY <1>6, <2>1, <2>3 DEF Stands
<1>14. CASE s # N
  <2>1. s \in 1 .. N - 1
    BY <1>1, <1>12, <1>14
  <2>2. FloppySector(s) \in FloppySectors /\ FloppySector(s) # x
    BY <1>1, <1>3, <1>4, <2>1
  <2>3. UnitOf(new, n) = UnitOf(floppy, n)
    BY <1>6, <1>11, <2>2
  <2>4. n \in 1 .. Before(f)
    <3>1. s * SectorSize <= (N - 1) * SectorSize
      <4>1. s \in Int /\ N - 1 \in Int /\ s <= N - 1 /\ SectorSize \in Nat
        BY <1>1, <1>3, <2>1
      <4> QED BY <4>1, ProductGrows
    <3>2. s * SectorSize = (s - 1) * SectorSize + SectorSize /\ (s - 1) * SectorSize \in Int
      <4>1. s * SectorSize = ((s - 1) + 1) * SectorSize
        OBVIOUS
      <4>2. s - 1 \in Int /\ SectorSize \in Nat
        BY <1>3
      <4> QED BY <4>1, <4>2, ProductStep
    <3> QED BY <1>3, <1>8, <1>9, <1>10, <3>1, <3>2
  <2> QED BY <2>3, <2>4 DEF Stands
<1> QED BY <1>13, <1>14

\* A sector handed over, that its flush did not bring to the disk: it is gone, and those
\* before it stay.
LEMMA LossKeeps ==
    ASSUME DataCommand, NEW f, Executing(f), Located(f),
           \A n \in 1 .. Before(f) : Stands(floppy, lost, n),
           NEW gone, gone = lost \cup {Sector(f)}
    PROVE  \A n \in 1 .. Before(f) + SectorSize : Stands(floppy, gone, n)
<1>1. Number(f) \in Nat \ {0} /\ Sector(f) = FloppySector(Number(f))
  BY SectorNumber
<1>2. SectorSize \in Nat \ {0}
  BY FdcAssumption DEF FdcAssumption
<1> DEFINE N == Number(f)
           before == (N - 1) * SectorSize
<1>3. before \in Int /\ before = Before(f)
  BY <1>1, <1>2 DEF Before
<1> SUFFICES ASSUME NEW n \in 1 .. before + SectorSize PROVE Stands(floppy, gone, n)
  BY <1>3
<1>4. CASE n \in 1 .. before
  BY <1>3, <1>4 DEF Stands
<1>5. CASE n \notin 1 .. before
  <2> DEFINE i == n - before
  <2> HIDE DEF N
  <2>1. i \in 1 .. SectorSize /\ n = before + i
    <3> HIDE DEF before
    <3> QED BY <1>2, <1>3, <1>5
  <2> HIDE DEF i
  <2>2. FloppyPlace((N - 1) * SectorSize + i) = FloppySector(N)
    BY <1>1, <2>1, UnitInSector DEF N
  <2> QED BY <1>1, <2>1, <2>2 DEF Stands, N
<1> QED BY <1>4, <1>5

--------------------------------------------------------------------------------
(* What a step leaves alone. *)

\* While the guest is at one command, the operators that speak of it mean the same.
LEMMA SameJob ==
    ASSUME job' = job, serial' = serial
    PROVE  /\ IsFloppy' <=> IsFloppy
           /\ IsHard' <=> IsHard
           /\ DataCommand' <=> DataCommand
           /\ Code1' = Code1
           /\ ToMemory' = ToMemory
           /\ \A n : NewUnit(n)' = NewUnit(n)
           /\ \A n : FloppySector(n)' = FloppySector(n)
           /\ \A n : FloppyPlace(n)' = FloppyPlace(n) /\ HardPlace(n)' = HardPlace(n)
           /\ Head0' = Head0 /\ FirstTrack' = FirstTrack
           /\ \A n, x : (UnitOf(x, n))' = UnitOf(x, n)
           /\ \A n, x : (HardUnit(x, n))' = HardUnit(x, n)
<1>1. Head0' = Head0 /\ FirstTrack' = FirstTrack
  BY DEF Head0, FirstTrack
<1>2. \A n : FloppySector(n)' = FloppySector(n)
  BY <1>1 DEF FloppySector
<1>3. \A n, x : (UnitOf(x, n))' = UnitOf(x, n) /\ FloppyPlace(n)' = FloppyPlace(n)
  BY <1>2 DEF UnitOf, FloppyPlace
<1>4. \A n, x : (HardUnit(x, n))' = HardUnit(x, n) /\ HardPlace(n)' = HardPlace(n)
  BY DEF HardUnit, HardPlace
<1>5. (IsFloppy' <=> IsFloppy) /\ (IsHard' <=> IsHard) /\ Code1' = Code1
      /\ \A n : NewUnit(n)' = NewUnit(n)
  BY DEF IsFloppy, IsHard, Code1, NewUnit
<1>6. (DataCommand' <=> DataCommand) /\ ToMemory' = ToMemory
  BY <1>5 DEF DataCommand, ToMemory
<1> QED BY <1>1, <1>2, <1>3, <1>4, <1>5, <1>6

\* The same of what is said of the floppy controller.
LEMMA SameController ==
    ASSUME job' = job, serial' = serial
    PROVE  /\ Number(fdc)' = Number(fdc') /\ Before(fdc)' = Before(fdc')
           /\ Executing(fdc)' <=> Executing(fdc')
           /\ Begins(fdc.command)' <=> Begins(fdc'.command)
           /\ Reading(fdc, floppy, received)' <=> Reading(fdc', floppy', received')
           /\ Writing(fdc, floppy, lost, Moved)' <=> Writing(fdc', floppy', lost', Moved')
           /\ \A n : Stands(floppy, lost, n)' <=> Stands(floppy', lost', n)
           /\ \A n : UnitOf(floppy, n)' = UnitOf(floppy', n)
<1>1. Head0' = Head0 /\ FirstTrack' = FirstTrack /\ Code1' = Code1
      /\ (\A n : NewUnit(n)' = NewUnit(n)) /\ (\A n : FloppySector(n)' = FloppySector(n))
      /\ \A n : FloppyPlace(n)' = FloppyPlace(n)
  BY SameJob
<1>2. Number(fdc)' = Number(fdc') /\ Before(fdc)' = Before(fdc')
  BY <1>1 DEF Number, Before
<1>3. Executing(fdc)' <=> Executing(fdc')
  BY <1>1, <1>2 DEF Executing
<1>4. Begins(fdc.command)' <=> Begins(fdc'.command)
  BY DEF Begins
<1>5. Reading(fdc, floppy, received)' <=> Reading(fdc', floppy', received')
  BY <1>2 DEF Reading, Located, Sector
<1>6. \A n : UnitOf(floppy, n)' = UnitOf(floppy', n)
  BY <1>1 DEF UnitOf
<1>7. \A n : Stands(floppy, lost, n)' <=> Stands(floppy', lost', n)
  BY <1>1, <1>6 DEF Stands
<1>8. Writing(fdc, floppy, lost, Moved)' <=> Writing(fdc', floppy', lost', Moved')
  BY <1>1, <1>2, <1>7 DEF Writing
<1> QED BY <1>2, <1>3, <1>4, <1>5, <1>6, <1>7, <1>8

\* The same of what is said of the bus.
LEMMA SameBus ==
    ASSUME job' = job, serial' = serial
    PROVE  /\ Commanded(sasi, asked)' <=> Commanded(sasi', asked')
           /\ DataIn(sasi, hard, received)' <=> DataIn(sasi', hard', received')
           /\ DataOut(sasi, Moved)' <=> DataOut(sasi', Moved')
           /\ Served(sasi, hard, lost, Moved)' <=> Served(sasi', hard', lost', Moved')
           /\ \A n : HardUnit(hard, n)' = HardUnit(hard', n)
           /\ \A n : StandsHard(hard, lost, n)' <=> StandsHard(hard', lost', n)
<1>1. \A n : NewUnit(n)' = NewUnit(n) /\ HardPlace(n)' = HardPlace(n)
  BY SameJob
<1>2. \A n : HardUnit(hard, n)' = HardUnit(hard', n)
  BY <1>1 DEF HardUnit
<1>7. \A n : StandsHard(hard, lost, n)' <=> StandsHard(hard', lost', n)
  BY <1>1, <1>2 DEF StandsHard
<1>3. Commanded(sasi, asked)' <=> Commanded(sasi', asked')
  BY DEF Commanded, Begins
<1>4. DataIn(sasi, hard, received)' <=> DataIn(sasi', hard', received')
  BY <1>2 DEF DataIn
<1>5. DataOut(sasi, Moved)' <=> DataOut(sasi', Moved')
  BY <1>1 DEF DataOut, Requested
<1>6. Served(sasi, hard, lost, Moved)' <=> Served(sasi', hard', lost', Moved')
  BY <1>7 DEF Served
<1> QED BY <1>2, <1>3, <1>4, <1>5, <1>6, <1>7

Others == {"idle", "send", "results", "wait"}

\* While no SASI command is served, what is said of the bus holds.
LEMMA HardRests ==
    ASSUME HardInv, sasi' = sasi,
           guest' \in Others \/ (guest' = "transfer" /\ job' \in FdcCommands)
    PROVE  HardInv'
<1>1. ~(job' \in FdcCommands /\ job' \in SasiCommands)
  BY DiskAssumption DEF DiskAssumption
<1>2. /\ ~Serving' /\ guest' \notin {"select", "command", "parameters"}
      /\ ~(guest' = "transfer" /\ IsHard')
  BY <1>1 DEF Serving, IsHard, Others
<1> QED BY <1>2 DEF HardInv

\* Disks that are not touched stay whole.
LEMMA DisksRest ==
    ASSUME UNCHANGED <<floppy, hard>>, WholeSectors PROVE WholeSectors'
BY DEF WholeSectors, Whole

\* A verdict stays true while nothing moves.
LEMMA HonestRests ==
    ASSUME Honest, UNCHANGED <<diskVars, job, serial, asked, received, verdict>>
    PROVE  Honest'
<1>1. UNCHANGED <<floppy, hard, lost, job, serial, asked, received, verdict>>
  BY DEF diskVars
<1>2. /\ IsFloppy' <=> IsFloppy
      /\ Code1' = Code1
      /\ \A n : Stands(floppy, lost, n)' <=> Stands(floppy, lost, n)
      /\ \A n : UnitOf(floppy, n)' = UnitOf(floppy, n)
  BY <1>1, SameJob, SameController
<1>3. \A n : /\ HardUnit(hard, n)' = HardUnit(hard, n)
             /\ StandsHard(hard, lost, n)' <=> StandsHard(hard, lost, n)
  BY <1>1, SameBus
<1> QED BY <1>1, <1>2, <1>3 DEF Honest

\* A step between two transfers that leaves the bus alone.
LEMMA HardStays ==
    ASSUME HardInv, UNCHANGED <<hard, lost, sasi, dma, csr, received, guest, job, asked, serial>>
    PROVE  HardInv'
<1>1. Moved' = Moved
  BY DEF Moved, Quiet
<1>2. (Serving' <=> Serving) /\ (IsHard' <=> IsHard)
  BY DEF Serving, IsHard
<1>3. CASE Serving
  <2>1. Commanded(sasi, asked)' /\ DataIn(sasi, hard, received)' /\ DataOut(sasi, Moved)'
    BY <1>1, <1>3, SameBus DEF HardInv
  <2>2. csr' # "ERR" => Served(sasi, hard, lost, Moved)'
    BY <1>1, <1>3, SameBus DEF HardInv
  <2>3. \A n : HardUnit(hard, n)' = HardUnit(hard, n)
    BY SameBus
  <2> QED BY <1>1, <1>2, <1>3, <2>1, <2>2, <2>3 DEF HardInv
<1> QED BY <1>2, <1>3 DEF HardInv

\* A step between two transfers that changes only the controller's results, its line and
\* the ROM's table.
LEMMA ControllerRests ==
    ASSUME DiskInvariant, fdc.phase # "Execute", Resting(fdc'), fdc'.st0 = fdc.st0, Lines',
           DOMAIN table' = {"st0", "fresh"},
           table'.fresh /\ IsFloppy /\ guest' \in {"transfer", "wait"} => table'.st0 = fdc'.st0,
           guest' = guest \/ (guest = "results" /\ guest' = "idle" /\ Quiet),
           UNCHANGED <<floppy, hard, lost, sasi, dma, csr, received, job, asked, verdict, serial>>
    PROVE  DiskInvariant'
<1>1. Types'
  BY DEF Types, DiskInvariant, Resting
<1>2. (Quiet' <=> Quiet) /\ Moved' = Moved
  BY DEF Moved, Quiet
<1>3. Places'
  BY <1>2, SameJob DEF Places, DiskInvariant, Quiet
<1>4. Sending'
  <2>1. guest' = "send" => guest = "send" /\ Len(fdc.command) \in Nat
    BY DEF DiskInvariant, Types
  <2>2. guest' = "send" => Len(fdc.command) < Len(job) /\ Len(<<>>) = 0
    BY <2>1 DEF DiskInvariant, FloppyInv, Sending, Begins
  <2>3. guest' = "send" => Begins(fdc.command)'
    BY <2>1, <2>2 DEF Begins, Resting
  <2> QED BY <2>1, <2>3 DEF Sending, Resting, DiskInvariant, FloppyInv
<1>5. Transferring'
  BY DEF Transferring, Resting
<1>6. ReadSoFar'
  <2>1. /\ DataCommand' <=> DataCommand
        /\ Code1' = Code1
        /\ \A n : UnitOf(floppy, n)' = UnitOf(floppy, n)
    BY SameJob, SameController
  <2> QED BY <1>2, <2>1 DEF ReadSoFar, DiskInvariant, FloppyInv
<1>7. WrittenSoFar'
  <2>1. /\ DataCommand' <=> DataCommand
        /\ Code1' = Code1
        /\ \A n : Stands(floppy, lost, n)' <=> Stands(floppy, lost, n)
    BY SameJob, SameController
  <2> QED BY <1>2, <2>1 DEF WrittenSoFar, DiskInvariant, FloppyInv
<1>8. Cause'
  BY DEF Cause, IsFloppy
<1>9. HardInv'
  <2>1. CASE guest' = guest
    BY <2>1, HardStays DEF DiskInvariant
  <2>2. CASE guest' = "idle"
    BY <2>2, HardRests DEF Others, DiskInvariant
  <2> QED BY <2>1, <2>2
<1>10. Honest' /\ WholeSectors'
  BY HonestRests, DisksRest DEF DiskInvariant, diskVars
<1> QED BY <1>1, <1>3, <1>4, <1>5, <1>6, <1>7, <1>8, <1>9, <1>10 DEF DiskInvariant, FloppyInv

\* The floppy controller's line is the only one of the I/O controller that moves.
LEMMA LineFollows ==
    ASSUME Lines, NEW irq, iosc' = SetSource(iosc, "FDC", irq) PROVE Lines'
<1>1. /\ SetSource(iosc, "FDC", irq).enable = iosc.enable
      /\ SetSource(iosc, "FDC", irq).vector = iosc.vector
      /\ SetSource(iosc, "FDC", irq).status \subseteq {"FDC"}
  BY DEF SetSource, Lines
<1> QED BY <1>1 DEF Lines

\* A floppy command begins.
LEMMA StartFloppyHolds ==
    ASSUME DiskInvariant, StartFloppy PROVE DiskInvariant'
<1>1. /\ guest = "idle" /\ Quiet /\ job' \in FdcCommands /\ serial' = serial + 1 /\ guest' = "send"
      /\ verdict' = "none" /\ csr' = "none" /\ received' = <<>> /\ asked' = 0
      /\ lost' = {} /\ UNCHANGED <<floppy, hard, fdc, sasi, iosc, dma, table, faults>>
  BY DEF StartFloppy, At, diskVars, chipVars
<1>2. fdc.phase # "Execute" /\ fdc.command = <<>>
  BY <1>1 DEF DiskInvariant, FloppyInv, Transferring, Sending
<1>3. Types'
  BY <1>1 DEF DiskInvariant, Types
<1>4. Quiet'
  BY <1>1 DEF Quiet
<1>5. Places'
  BY <1>1, <1>4 DEF Places, IsFloppy
<1>6. Begins(fdc.command)'
  <2>1. job' \in Seq(0 .. 255) /\ Len(job') = 1 + ParameterCount(job'[1])
    BY <1>1, DiskAssumption DEF DiskAssumption
  <2>2. ParameterCount(job'[1]) \in Nat
    BY DEF ParameterCount
  <2>3. fdc'.command = <<>> /\ Len(<<>>) = 0
    BY <1>1, <1>2
  <2> QED BY <2>1, <2>2, <2>3 DEF Begins
<1>7. ReadSoFar'
  <2>1. Len(received') = 0 /\ Moved' = 0
    BY <1>1, <1>4 DEF Moved
  <2> QED BY <2>1 DEF ReadSoFar
<1>8. Sending' /\ Transferring' /\ WrittenSoFar' /\ Cause' /\ Lines'
  BY <1>1, <1>2, <1>6 DEF Sending, Transferring, WrittenSoFar, Cause, Lines, DiskInvariant, FloppyInv
<1>9. HardInv' /\ Honest' /\ WholeSectors'
  <2>1. WholeSectors'
    BY <1>1, DisksRest DEF DiskInvariant, diskVars
  <2> QED BY <1>1, <2>1, HardRests DEF Honest, Others, DiskInvariant
<1> QED BY <1>3, <1>5, <1>7, <1>8, <1>9 DEF DiskInvariant, FloppyInv

\* A SASI command begins.
LEMMA StartSasiHolds ==
    ASSUME DiskInvariant, StartSasi PROVE DiskInvariant'
<1>1. /\ guest = "idle" /\ Quiet /\ job' \in SasiCommands /\ serial' = serial + 1 /\ guest' = "select"
      /\ verdict' = "none" /\ csr' = "none" /\ received' = <<>> /\ asked' = 0
      /\ lost' = {} /\ UNCHANGED <<floppy, hard, fdc, sasi, iosc, dma, table, faults>>
  BY DEF StartSasi, At, diskVars, chipVars
<1>2. fdc.phase # "Execute" /\ fdc.command = <<>>
  BY <1>1 DEF DiskInvariant, FloppyInv, Transferring, Sending
<1>3. Types'
  BY <1>1 DEF DiskInvariant, Types
<1>4. Quiet'
  BY <1>1 DEF Quiet
<1>5. Places'
  BY <1>1, <1>4 DEF Places, IsHard
<1>6. ~IsFloppy'
  BY <1>1, DiskAssumption DEF DiskAssumption, IsFloppy
<1>7. ReadSoFar' /\ WrittenSoFar' /\ Cause'
  BY <1>6 DEF ReadSoFar, WrittenSoFar, DataCommand, Cause, IsFloppy
<1>8. Sending' /\ Transferring' /\ Lines'
  BY <1>1, <1>2 DEF Sending, Transferring, Lines, DiskInvariant, FloppyInv
<1>9. HardInv'
  BY <1>1 DEF HardInv, Serving, DiskInvariant
<1>10. Honest' /\ WholeSectors'
  <2>1. WholeSectors'
    BY <1>1, DisksRest DEF DiskInvariant, diskVars
  <2> QED BY <1>1, <2>1 DEF Honest
<1> QED BY <1>3, <1>5, <1>7, <1>8, <1>9, <1>10 DEF DiskInvariant, FloppyInv

\* The interrupt handler.
LEMMA InterruptHolds ==
    ASSUME DiskInvariant, Interrupt PROVE DiskInvariant'
<1> DEFINE sensed == Sense(fdc)
           read == NextResult(NextResult(sensed))
<1>1. /\ Quiet /\ IoScVector(SetSource(iosc, "FDC", fdc.irq)) = 96
      /\ "CB" \notin ReadStatus(fdc)
      /\ table' = [st0 |-> sensed.result[1], fresh |-> TRUE]
      /\ fdc' = NextResult(Sense(read))
      /\ iosc' = SetSource(iosc, "FDC", fdc'.irq)
      /\ UNCHANGED <<floppy, hard, lost, sasi, dma, csr, received, guest, job, asked, verdict, serial, faults>>
  BY DEF Interrupt, diskVars, dmaVars
<1>2. fdc.phase = "Command" /\ fdc.command = <<>>
  BY <1>1 DEF ReadStatus, StatusCommand, DiskInvariant, Types
<1>3. Resting(fdc)
  BY <1>2 DEF Resting, DiskInvariant, Types
<1>4. Lines
  BY DEF DiskInvariant, FloppyInv
<1>5. fdc.irq
  <2> SUFFICES ASSUME ~fdc.irq PROVE FALSE
    OBVIOUS
  <2>1. SetSource(iosc, "FDC", fdc.irq).status = {}
    BY <1>4 DEF SetSource, Lines
  <2>2. SetSource(iosc, "FDC", fdc.irq).enable \cap {} = {}
    OBVIOUS
  <2>3. ~IoScPending(SetSource(iosc, "FDC", fdc.irq))
    BY <2>1, <2>2 DEF IoScPending
  <2> QED BY <1>1, <2>3 DEF IoScVector
<1>6. Resting(sensed) /\ sensed.st0 = fdc.st0 /\ sensed.result[1] = fdc.st0
  BY <1>3, <1>5, SenseRests
<1> HIDE DEF sensed
<1>7. Resting(read) /\ read.st0 = fdc.st0
  BY <1>6, ReadRests
<1> HIDE DEF read
<1>8. Resting(fdc') /\ fdc'.st0 = fdc.st0
  <2>1. Resting(Sense(read)) /\ Sense(read).st0 = fdc.st0
    BY <1>7, SenseRests
  <2> QED BY <1>1, <2>1, ReadRests
<1>9. table'.st0 = fdc'.st0
  BY <1>1, <1>6, <1>8
<1>10. Lines'
  BY <1>1, <1>4, LineFollows
<1>11. DOMAIN table' = {"st0", "fresh"}
  BY <1>1
<1> QED BY <1>1, <1>2, <1>8, <1>9, <1>10, <1>11, ControllerRests

--------------------------------------------------------------------------------
(* Floppy commands. *)

\* The results the ROM reads on the spot.
LEMMA ReadResultsHolds ==
    ASSUME DiskInvariant, ReadResults PROVE DiskInvariant'
<1>1. /\ guest = "results" /\ Quiet
      /\ fdc' = NextResult(fdc) /\ iosc' = SetSource(iosc, "FDC", fdc'.irq)
      /\ guest' \in {"results", "idle"}
      /\ UNCHANGED <<floppy, hard, lost, sasi, dma, csr, received, job, asked, table, verdict, serial>>
  BY DEF ReadResults, At, NextResult, diskVars, dmaVars
<1>2. fdc.phase # "Execute" /\ Resting(fdc)
  BY <1>1 DEF Resting, DiskInvariant, Types, FloppyInv, Transferring, Sending
<1>3. Resting(fdc') /\ fdc'.st0 = fdc.st0
  BY <1>1, <1>2, ReadRests
<1>4. Lines'
  BY <1>1, LineFollows DEF DiskInvariant, FloppyInv
<1>5. DOMAIN table' = {"st0", "fresh"}
  BY <1>1 DEF DiskInvariant, Types
<1> QED BY <1>1, <1>2, <1>3, <1>4, <1>5, ControllerRests

\* The command is over for the guest: what it concluded is the only news.
LEMMA BackToIdle ==
    ASSUME DiskInvariant, Honest', guest = "wait", Quiet, guest' = "idle",
           UNCHANGED <<floppy, hard, lost, fdc, sasi, iosc, dma, csr, received, job, asked, table, serial>>
    PROVE  DiskInvariant'
<1>1. Types'
  BY DEF Types, DiskInvariant
<1>2. Quiet' /\ Moved' = Moved
  BY DEF Moved, Quiet
<1>3. Places'
  BY <1>2 DEF Places
<1>4. fdc.phase # "Execute"
  BY DEF DiskInvariant, FloppyInv, Transferring
<1>5. Sending' /\ Transferring' /\ Cause' /\ Lines'
  BY <1>4 DEF Sending, Transferring, Cause, Lines, DiskInvariant, FloppyInv
<1>6. ReadSoFar' /\ WrittenSoFar'
  <2>1. /\ DataCommand' <=> DataCommand
        /\ Code1' = Code1
        /\ \A n : UnitOf(floppy, n)' = UnitOf(floppy, n)
    BY SameJob, SameController
  <2> QED BY <1>2, <2>1 DEF ReadSoFar, WrittenSoFar, DiskInvariant, FloppyInv
<1>7. HardInv'
  BY HardRests DEF Others, DiskInvariant
<1>8. WholeSectors'
  BY DisksRest DEF DiskInvariant, diskVars
<1> QED BY <1>1, <1>3, <1>5, <1>6, <1>7, <1>8 DEF DiskInvariant, FloppyInv

\* ST0 without error and the DMAC not in error: the units have been moved.
LEMMA ConcludeHolds ==
    ASSUME DiskInvariant, Conclude PROVE DiskInvariant'
<1>1. /\ guest = "wait" /\ Quiet /\ table.fresh /\ guest' = "idle"
      /\ verdict' = IF table.st0.flags \cap {"AT", "IC"} = {} /\ csr # "ERR" THEN "good" ELSE "bad"
      /\ UNCHANGED <<floppy, hard, lost, fdc, sasi, iosc, dma, csr, received, job, asked, table, serial>>
  BY DEF Conclude, At, diskVars, chipVars, dmaVars
<1>2. IsFloppy
  BY <1>1 DEF DiskInvariant, Places
<1>3. Honest'
  <2> SUFFICES ASSUME verdict' = "good" PROVE Honest'
    BY DEF Honest
  <2>1. ~Failed(fdc.st0.flags) /\ csr # "ERR" /\ Moved = asked
    BY <1>1, <1>2 DEF Failed, DiskInvariant, FloppyInv, Cause, Moved
  <2>2. Code1 \in Writes => \A n \in 1 .. asked : Stands(floppy, lost, n)
    BY <1>1, <1>2, <2>1 DEF DiskInvariant, Types, FloppyInv, WrittenSoFar, DataCommand, IsFloppy
  <2>3. Code1 \in Reads =>
          Len(received) = asked /\ \A n \in 1 .. asked : received[n] = UnitOf(floppy, n)
    BY <1>2, <2>1 DEF DiskInvariant, FloppyInv, ReadSoFar, DataCommand, IsFloppy
  <2>4. /\ IsFloppy' <=> IsFloppy
        /\ Code1' = Code1
        /\ \A n : Stands(floppy, lost, n)' <=> Stands(floppy, lost, n)
        /\ \A n : UnitOf(floppy, n)' = UnitOf(floppy, n)
    BY <1>1, SameJob, SameController
  <2> QED BY <1>1, <1>2, <2>2, <2>3, <2>4 DEF Honest
<1> QED BY <1>1, <1>3, BackToIdle

\* Nobody waits for a positioning.
LEMMA GoOnHolds ==
    ASSUME DiskInvariant, GoOn PROVE DiskInvariant'
<1>1. /\ guest = "wait" /\ Quiet /\ guest' = "idle"
      /\ UNCHANGED <<floppy, hard, lost, fdc, sasi, iosc, dma, csr, received, job, asked, table,
                     verdict, serial>>
  BY DEF GoOn, At, diskVars, chipVars, dmaVars
<1>2. Honest'
  BY <1>1 DEF Honest, DiskInvariant, Places
<1> QED BY <1>1, <1>2, BackToIdle

--------------------------------------------------------------------------------
(* The DMA transfer. *)

\* A step of a SASI command leaves what is said of the floppies alone.
LEMMA FloppyStays ==
    ASSUME FloppyInv, Places, IsHard, guest' # "send",
           UNCHANGED <<floppy, fdc, iosc, table, job, serial>>
    PROVE  FloppyInv'
<1>1. ~IsFloppy /\ ~IsFloppy' /\ ~DataCommand /\ ~DataCommand'
  BY DiskAssumption DEF DiskAssumption, IsHard, IsFloppy, DataCommand
<1>2. fdc.phase # "Execute"
  BY <1>1 DEF FloppyInv, Transferring
<1>3. Sending'
  <2>1. fdc.phase # "Command" \/ guest # "send" => fdc.command = <<>>
    BY DEF FloppyInv, Sending
  <2>2. guest # "send"
    BY <1>1 DEF Places
  <2> QED BY <2>1, <2>2 DEF Sending
<1>4. Transferring' /\ ReadSoFar' /\ WrittenSoFar' /\ Cause' /\ Lines'
  BY <1>1, <1>2 DEF Transferring, ReadSoFar, WrittenSoFar, Cause, Lines, FloppyInv
<1> QED BY <1>3, <1>4 DEF FloppyInv

\* A transfer begins: nothing has been moved yet.
LEMMA StartDmaHolds ==
    ASSUME DiskInvariant, StartDma PROVE DiskInvariant'
<1>1. PICK units \in Nat, block \in BOOLEAN :
        /\ units > 0
        /\ dma' = [channel |-> IF IsFloppy THEN "FDC" ELSE "SASI",
                   toMemory |-> ToMemory, left |-> units, block |-> block]
        /\ asked' = units
  <2>1. PICK count \in Counts, block \in BOOLEAN :
          LET units == IF count = 0 THEN MtcZero ELSE count
          IN  /\ dma' = [channel |-> IF IsFloppy THEN "FDC" ELSE "SASI",
                         toMemory |-> ToMemory, left |-> units,
                         block |-> block /\ ~IsFloppy /\ ToMemory]
              /\ asked' = units
    BY DEF StartDma
  <2>2. (IF count = 0 THEN MtcZero ELSE count) \in Nat /\ (IF count = 0 THEN MtcZero ELSE count) > 0
    BY DiskAssumption DEF DiskAssumption
  <2>3. (block /\ ~IsFloppy /\ ToMemory) \in BOOLEAN
    OBVIOUS
  <2> QED BY <2>1, <2>2, <2>3
<1>2. /\ guest = "transfer" /\ Quiet /\ csr = "none" /\ received = <<>>
      /\ UNCHANGED <<floppy, hard, lost, fdc, sasi, iosc, csr, received, guest, job, table, verdict, serial>>
  BY DEF StartDma, At, diskVars, chipVars
<1>3. ToMemory \in BOOLEAN
  <2>1. (Code1 \in Reads) \in BOOLEAN /\ (job[1] \in {SasiRead, SasiRequestSense}) \in BOOLEAN
    OBVIOUS
  <2> QED BY <2>1, Zenon DEF ToMemory
<1>4. /\ ~Quiet' /\ dma'.left = units /\ dma'.toMemory = ToMemory
      /\ dma'.channel = IF IsFloppy THEN "FDC" ELSE "SASI"
      /\ dma' \in Transfers
  BY <1>1, <1>3 DEF Quiet, NoDma, Transfers
<1>5. Moved' = 0 /\ Moved = asked
  BY <1>1, <1>2, <1>4 DEF Moved
<1>6. Types'
  BY <1>1, <1>2, <1>4 DEF Types, DiskInvariant
<1>7. /\ IsFloppy' <=> IsFloppy
      /\ IsHard' <=> IsHard
      /\ DataCommand' <=> DataCommand
      /\ Code1' = Code1 /\ ToMemory' = ToMemory
      /\ \A n : NewUnit(n)' = NewUnit(n)
  BY <1>2, SameJob
<1>8. Places'
  BY <1>2, <1>4, <1>7 DEF Places, DiskInvariant
<1>9. Len(received) = 0
  BY <1>2
<1>10. Transferring'
  <2> SUFFICES ASSUME fdc.phase = "Execute" PROVE Transferring'
    BY <1>2 DEF Transferring
  <2>1. DataCommand /\ Executing(fdc) /\ ~table.fresh
    BY DEF DiskInvariant, FloppyInv, Transferring
  <2>2. Code1 \in Reads => Reading(fdc, floppy, received)
    BY DEF DiskInvariant, FloppyInv, Transferring
  <2>3. Code1 \in Writes => Writing(fdc, floppy, lost, Moved')
    <3> SUFFICES ASSUME Code1 \in Writes PROVE Writing(fdc, floppy, lost, Moved')
      OBVIOUS
    <3>1. Writing(fdc, floppy, lost, Moved) /\ Moved = 0
      BY <1>2, <1>5, <2>1 DEF DiskInvariant, FloppyInv, Transferring, WrittenSoFar
    <3> QED BY <1>5, <3>1 DEF Writing
  <2>4. /\ Executing(fdc)' <=> Executing(fdc)
        /\ Reading(fdc, floppy, received)' <=> Reading(fdc, floppy, received)
        /\ Writing(fdc, floppy, lost, Moved)' <=> Writing(fdc, floppy, lost, Moved')
    BY <1>2, SameController
  <2> QED BY <1>2, <1>4, <1>7, <2>1, <2>2, <2>3, <2>4 DEF Transferring
<1>11. ReadSoFar'
  BY <1>2, <1>5, <1>9 DEF ReadSoFar
<1>12. WrittenSoFar'
  BY <1>2, <1>4, <1>7 DEF WrittenSoFar, DiskInvariant, FloppyInv
<1>13. Sending' /\ Cause' /\ Lines'
  BY <1>2, <1>7 DEF Sending, Cause, Lines, DiskInvariant, FloppyInv
<1>14. HardInv'
  <2>1. CASE IsFloppy
    BY <1>2, <2>1, HardRests DEF IsFloppy, DiskInvariant
  <2>2. CASE ~IsFloppy
    <3>1. IsHard /\ Serving /\ sasi.phase \in {"DataIn", "DataOut", "Status"}
      BY <1>2, <2>2 DEF DiskInvariant, Places, HardInv, Serving, DataCommand, IsFloppy
    <3>2. Commanded(sasi', asked')
      BY <1>2, <3>1 DEF Commanded
    <3>3. DataIn(sasi', hard', received') /\ DataOut(sasi', Moved') /\ Served(sasi', hard', lost', Moved')
      <4>1. DataIn(sasi, hard, received) /\ DataOut(sasi, Moved)
        BY <3>1 DEF DiskInvariant, HardInv
      <4>2. sasi.pos >= 0
        BY DEF DiskInvariant, Types, Buses
      <4> QED BY <1>2, <1>5, <4>1, <4>2 DEF DataIn, DataOut, Served, HardUnit
    <3>4. /\ Commanded(sasi, asked)' /\ DataIn(sasi, hard, received)'
          /\ DataOut(sasi, Moved)' /\ Served(sasi, hard, lost, Moved)'
      BY <1>2, <3>2, <3>3, SameBus
    <3> QED BY <1>2, <1>5, <1>9, <3>1, <3>4 DEF HardInv, DiskInvariant
  <2> QED BY <2>1, <2>2
<1>15. Honest'
  BY <1>2 DEF Honest, DiskInvariant, Places
<1>16. WholeSectors'
  BY <1>2, DisksRest DEF DiskInvariant, diskVars
<1> QED BY <1>6, <1>8, <1>10, <1>11, <1>12, <1>13, <1>14, <1>15, <1>16 DEF DiskInvariant, FloppyInv

\* The end of a transfer: complete with the last unit, which the controller hears first.
LEMMA EndDmaHolds ==
    ASSUME DiskInvariant, EndDma PROVE DiskInvariant'
<1> DEFINE done == dma.left = 0
<1>1. /\ ~Quiet /\ (done \/ DeviceDone)
      /\ fdc' = IF dma.channel = "FDC" THEN DmaComplete(fdc, done) ELSE fdc
      /\ csr' = IF done THEN "COC" ELSE "ERR"
      /\ dma' = NoDma
      /\ guest' = IF IsFloppy THEN "wait" ELSE "status"
      /\ UNCHANGED <<floppy, hard, lost, sasi, iosc, received, job, asked, table, verdict, serial>>
  BY DEF EndDma, diskVars
<1>2. /\ guest = "transfer" /\ csr = "none" /\ (IsFloppy \/ IsHard)
      /\ dma.channel = IF IsFloppy THEN "FDC" ELSE "SASI"
      /\ dma.toMemory = ToMemory
  BY <1>1 DEF DiskInvariant, Places, DataCommand, IsFloppy
<1>3. Quiet' /\ dma' \in Transfers
  BY <1>1 DEF Quiet, NoDma, Transfers
<1>4. /\ asked \in Nat /\ dma.left \in Nat
      /\ Moved = asked - dma.left /\ Moved' = asked
      /\ done => Moved' = Moved
  BY <1>1, <1>3 DEF Moved, DiskInvariant, Types, Transfers
<1>5. /\ IsFloppy' <=> IsFloppy
      /\ IsHard' <=> IsHard
      /\ DataCommand' <=> DataCommand
      /\ Code1' = Code1
      /\ \A n : NewUnit(n)' = NewUnit(n)
      /\ \A n : Stands(floppy, lost, n)' <=> Stands(floppy, lost, n)
      /\ \A n : UnitOf(floppy, n)' = UnitOf(floppy, n)
  BY <1>1, SameJob, SameController
<1>6. Places'
  BY <1>1, <1>2, <1>3, <1>5 DEF Places, DiskInvariant, DataCommand, IsFloppy
<1>7. Honest'
  BY <1>1, <1>2 DEF Honest, DiskInvariant, Places
<1>8. WholeSectors'
  BY <1>1, DisksRest DEF DiskInvariant, diskVars
<1>9. CASE IsFloppy
  <2>1. ~IsHard /\ DataCommand
    BY <1>2, <1>9, DiskAssumption DEF DiskAssumption, IsHard, IsFloppy, DiskInvariant, Places
  <2>2. fdc.command = <<>> /\ DOMAIN fdc = FdcFields
    BY <1>2 DEF DiskInvariant, Types, FloppyInv, Sending
  <2>3. fdc' = DmaComplete(fdc, done)
    BY <1>1, <1>2, <1>9
  <2>4. /\ DOMAIN fdc' = FdcFields /\ fdc'.command = <<>>
        /\ fdc.phase # "Execute" => fdc' = fdc
        /\ fdc.phase = "Execute" =>
             /\ fdc'.phase = "Command"
             /\ ~(done /\ (fdc.transfer = "Write" => ~(fdc.pos > 0))) => "AT" \in fdc'.st0.flags
    <3>1. done \in BOOLEAN
      OBVIOUS
    <3> HIDE DEF done
    <3> QED BY <2>2, <2>3, <3>1, ShapeComplete
  <2>5. Types'
    <3>1. fdc'.phase \in {"Command", "Execute", "Result"}
      BY <2>4 DEF DiskInvariant, Types
    <3>2. fdc'.command \in Seq(0 .. 255)
      BY <2>4
    <3> QED BY <1>1, <1>3, <2>4, <3>1, <3>2 DEF Types, DiskInvariant
  <2>6. Sending' /\ Transferring' /\ Lines'
    BY <1>1, <1>9, <2>4 DEF Sending, Transferring, Lines, DiskInvariant, FloppyInv
  <2>7. ReadSoFar'
    BY <1>1, <1>2, <1>4, <1>5, <2>1 DEF ReadSoFar, DiskInvariant, FloppyInv
  <2>8. WrittenSoFar'
    <3> SUFFICES ASSUME Code1 \in Writes, done, ~Failed(fdc'.st0.flags)
                 PROVE  \A n \in 1 .. asked : Stands(floppy, lost, n)
      BY <1>1, <1>5, <1>9 DEF WrittenSoFar
    <3>1. fdc.phase = "Execute"
      BY <1>2, <2>1, <2>4 DEF DiskInvariant, FloppyInv, WrittenSoFar
    <3>2. Executing(fdc) /\ Writing(fdc, floppy, lost, Moved)
      BY <3>1 DEF DiskInvariant, FloppyInv, Transferring
    <3>3. fdc.transfer = "Write"
      BY <3>2 DEF Executing, Reads, Writes
    <3>4. ~(fdc.pos > 0) /\ fdc.pos \in Nat
      BY <2>4, <3>1, <3>2, <3>3 DEF Failed, Executing
    <3>5. Before(fdc) \in Int
      <4>1. Number(fdc) \in Nat
        BY <2>1, <3>2, SectorNumber
      <4> QED BY <4>1, FdcAssumption DEF Before, FdcAssumption
    <3>6. asked = Before(fdc)
      <4> HIDE DEF done
      <4>1. Moved = Before(fdc) + fdc.pos
        BY <3>2 DEF Writing
      <4> QED BY <1>4, <3>4, <3>5, <4>1
    <3> QED BY <3>2, <3>6 DEF Writing
  <2>9. Cause'
    BY <1>1, <1>2, <1>5, <1>9, <2>4 DEF Cause, DiskInvariant, FloppyInv, Transferring
  <2>10. HardInv'
    BY <1>1, <1>9, HardRests DEF Others, DiskInvariant
  <2> QED BY <1>6, <1>7, <1>8, <2>5, <2>6, <2>7, <2>8, <2>9, <2>10 DEF DiskInvariant, FloppyInv
<1>10. CASE ~IsFloppy
  <2>1. fdc' = fdc /\ IsHard /\ guest' = "status"
    BY <1>1, <1>2, <1>10
  <2>2. Types'
    BY <1>1, <1>3, <2>1 DEF Types, DiskInvariant
  <2>3. FloppyInv'
    BY <1>1, <2>1, FloppyStays DEF DiskInvariant
  <2>4. Serving /\ Serving' /\ sasi.phase \in {"DataIn", "DataOut", "Status"}
    BY <1>2, <1>5, <2>1 DEF Serving, DiskInvariant, HardInv
  <2>5. Commanded(sasi', asked') /\ DataIn(sasi', hard', received')
    BY <1>1, <2>4 DEF DiskInvariant, HardInv, Commanded, DataIn, HardUnit
  <2>6. DataOut(sasi', Moved')
    <3>1. CASE done
      BY <1>1, <1>4, <2>4, <3>1 DEF DiskInvariant, HardInv
    <3>2. CASE ~done
      <4>1. DeviceDone /\ dma.channel = "SASI"
        BY <1>1, <1>2, <1>10, <3>2
      <4>2. sasi.phase # "DataOut"
        <5> SUFFICES ASSUME sasi.phase = "DataOut" PROVE FALSE
          OBVIOUS
        <5>1. job[1] = SasiWrite /\ sasi.pos < sasi.length
          BY <2>4 DEF DiskInvariant, HardInv, DataOut
        <5>2. TakesUnit(sasi)
          BY <5>1 DEF TakesUnit
        <5>3. ~dma.toMemory
          <6>1. ~ToMemory
            BY <1>10, <5>1 DEF ToMemory, SasiWrite, SasiRead, SasiRequestSense
          <6> QED BY <1>2, <6>1
        <5> QED BY <4>1, <5>2, <5>3 DEF DeviceDone
      <4> QED BY <1>1, <4>2 DEF DataOut
    <3> QED BY <3>1, <3>2
  <2>7. csr' # "ERR" => Served(sasi', hard', lost', Moved')
    BY <1>1, <1>2, <1>4, <2>4 DEF DiskInvariant, HardInv, Served, HardUnit
  <2>8. /\ Commanded(sasi, asked)' /\ DataIn(sasi, hard, received)'
        /\ DataOut(sasi, Moved)'
        /\ csr' # "ERR" => Served(sasi, hard, lost, Moved)'
        /\ \A n : HardUnit(hard, n)' = HardUnit(hard, n)
    BY <1>1, <2>5, <2>6, <2>7, SameBus
  <2>9. HardInv'
    BY <1>1, <1>2, <1>4, <2>1, <2>4, <2>8 DEF HardInv, DiskInvariant
  <2> QED BY <1>6, <1>7, <1>8, <2>2, <2>3, <2>9 DEF DiskInvariant
<1> QED BY <1>9, <1>10

--------------------------------------------------------------------------------
(* The command, byte by byte. *)

\* The first byte of a command decides what the whole of it starts.
LEMMA ExecuteMoves ==
    ASSUME NEW h, NEW disk, NEW ok \in BOOLEAN
    PROVE  /\ Code(h.command[1]) \in Reads =>
                ExecuteCommand(h, disk, ok) = BeginReadWrite(h, FALSE, disk, ok)
           /\ Code(h.command[1]) \in Writes =>
                ExecuteCommand(h, disk, ok) = BeginReadWrite(h, TRUE, disk, ok)
<1> DEFINE code == Code(h.command[1])
           g == IF Len(h.command) > 1 THEN Selected(h) ELSE h
           a == [g EXCEPT !.irqDrive = g.drive]
           target == h.command[3]
           reachable == HasImage(a) /\ target < Cylinders
           sense == [Answer(h, <<h.st0, IF h.irqDrive \in Drives
                                        THEN h.present[h.irqDrive] ELSE 0>>) EXCEPT !.irq = FALSE]
           drive == Answer(g, <<"ST3">>)
           recalibrate ==
               Attention([a EXCEPT !.head = 0,
                                   !.present = [d \in Drives |-> IF d = a.drive THEN 0 ELSE @[d]]],
                         IF HasImage(a) THEN {"SE"} ELSE {"SE", "AT", "NR"})
           seek ==
               IF reachable THEN Attention([a EXCEPT !.present[a.drive] = target], {"SE"})
               ELSE Attention(a, {"SE", "AT"} \cup IF HasImage(a) THEN {} ELSE {"NR"})
           readId ==
               IF HasImage(a) THEN [Idle(a) EXCEPT !.irq = TRUE]
               ELSE Attention(a, {"AT", "NR"})
           reads == BeginReadWrite(h, FALSE, disk, ok)
           writes == BeginReadWrite(h, TRUE, disk, ok)
           failed == Attention(a, {"AT", "EC"})
           invalid == Answer(h, <<[flags |-> {"IC"}, head |-> 0, drive |-> 0]>>)
<1>1. ExecuteCommand(h, disk, ok) =
        CASE code = Specify -> Idle(h)
          [] code = SenseInterrupt /\ h.irq -> sense
          [] code = SenseDriveStatus -> drive
          [] code = Recalibrate -> recalibrate
          [] code = Seek -> seek
          [] code = ReadId -> readId
          [] code \in Reads -> reads
          [] code \in Writes -> writes
          [] code \in {ReadTrack, WriteId} -> failed
          [] OTHER -> invalid
  BY Zenon DEF ExecuteCommand
<1> HIDE DEF code, g, a, target, reachable, sense, drive, recalibrate, seek, readId, reads,
             writes, failed, invalid
<1>2. code \in Reads => ExecuteCommand(h, disk, ok) = reads
  BY <1>1 DEF Reads, Writes, Specify, SenseInterrupt, SenseDriveStatus, Recalibrate, Seek,
              ReadId, ReadTrack, WriteId
<1>3. code \in Writes => ExecuteCommand(h, disk, ok) = writes
  BY <1>1 DEF Reads, Writes, Specify, SenseInterrupt, SenseDriveStatus, Recalibrate, Seek,
              ReadId, ReadTrack, WriteId
<1> QED BY <1>2, <1>3 DEF code, reads, writes

\* The command just sent: a transfer that is to move its first unit, or has failed.
LEMMA BeginsExecuting ==
    ASSUME DataCommand, NEW h, DOMAIN h = FdcFields, h.command = job, NEW ok \in BOOLEAN,
           received = <<>>,
           NEW g, g = ExecuteCommand(h, floppy, ok)
    PROVE  /\ DOMAIN g = FdcFields /\ g.command = <<>> /\ g.phase \in {"Command", "Execute"}
           /\ g.phase = "Command" => Failed(g.st0.flags)
           /\ g.phase = "Execute" =>
                /\ Executing(g) /\ g.pos = 0
                /\ Code1 \in Reads => Reading(g, floppy, received)
                /\ Code1 \in Writes => Writing(g, floppy, lost, 0)
<1> DEFINE isWrite == Code1 \in Writes
<1>1. g = BeginReadWrite(h, isWrite, floppy, ok)
  <2>1. CASE Code1 \in Reads
    <3>1. isWrite = FALSE
      BY <2>1 DEF Reads, Writes
    <3>2. ExecuteCommand(h, floppy, ok) = BeginReadWrite(h, FALSE, floppy, ok)
      BY <2>1, ExecuteMoves DEF Code1
    <3> HIDE DEF isWrite
    <3> QED BY <3>1, <3>2
  <2>2. CASE Code1 \in Writes
    <3>1. isWrite = TRUE
      BY <2>2
    <3>2. ExecuteCommand(h, floppy, ok) = BeginReadWrite(h, TRUE, floppy, ok)
      BY <2>2, ExecuteMoves DEF Code1
    <3> HIDE DEF isWrite
    <3> QED BY <3>1, <3>2
  <2> QED BY <2>1, <2>2 DEF DataCommand
<1>2. /\ DOMAIN g = FdcFields /\ g.command = <<>> /\ g.phase \in {"Command", "Execute"}
      /\ g.phase = "Command" => "AT" \in g.st0.flags
      /\ g.phase = "Execute" =>
           /\ g.drive = job[2] % 4 /\ g.drive \in Inserted
           /\ g.head = Head0
           /\ g.cylinder = job[3] /\ g.record = job[5] /\ g.eot = job[7]
           /\ g.multiTrack = (job[1] >= MultiTrack)
           /\ g.size = SectorSize /\ g.pos = 0
           /\ g.transfer = (IF isWrite THEN "Write" ELSE "Read")
           /\ isWrite => g.buffer = <<>>
           /\ ~isWrite => Located(g) /\ g.buffer = floppy[g.drive][Sector(g)]
  <2>1. isWrite \in BOOLEAN
    OBVIOUS
  <2> HIDE DEF isWrite
  <2> QED BY <1>1, <2>1, ShapeBegin DEF Head0
<1>3. g.phase = "Execute" => Number(g) = 1 /\ Before(g) = 0
  <2>1. ASSUME g.phase = "Execute" PROVE Number(g) = 1
    <3>1. g.head = Head0 /\ g.record = job[5]
      BY <1>2, <2>1
    <3>2. Number(g) = g.record - job[5] + 1
      BY <3>1 DEF Number
    <3>3. job[5] \in 0 .. 255
      BY DataBytes
    <3>5. job[5] \in Int
      <4>1. \A x \in 0 .. 255 : x \in Int
        OBVIOUS
      <4> QED BY <3>3, <4>1, Zenon
    <3>4. \A x \in Int : x - x + 1 = 1
      OBVIOUS
    <3> QED BY <3>1, <3>2, <3>5, <3>4, Zenon
  <2>2. g.phase = "Execute" => Number(g) = 1
    BY <2>1
  <2> QED BY <2>2, FdcAssumption DEF Before, FdcAssumption
<1>4. g.phase = "Execute" => Executing(g)
  <2> SUFFICES ASSUME g.phase = "Execute" PROVE Executing(g)
    OBVIOUS
  <2>1. g.transfer = IF Code1 \in Reads THEN "Read" ELSE "Write"
    BY <1>2 DEF Reads, Writes, DataCommand
  <2>2. /\ g.record \in Nat /\ g.pos \in Nat
        /\ g.head = Head0 /\ g.record >= job[5] /\ Number(g) <= FirstTrack
    <3> DEFINE a == job[5]
    <3>1. a \in 0 .. 255 /\ FirstTrack \in Nat /\ FirstTrack >= 1
      BY DataBytes
    <3>2. g.record = a /\ g.pos = 0 /\ g.head = Head0 /\ Number(g) = 1
      BY <1>2, <1>3
    <3> HIDE DEF a
    <3>3. g.record \in Nat /\ g.record >= a
      BY <3>1, <3>2
    <3> QED BY <3>1, <3>2, <3>3 DEF a
  <2>3. \A s \in 1 .. Number(g) - 1 :
          FloppySector(s) \in FloppySectors /\ FloppySector(s) < FloppySector(Number(g))
    BY <1>3
  <2> QED BY <1>2, <2>1, <2>2, <2>3 DEF Executing
<1>5. g.phase = "Execute" /\ Code1 \in Reads => Reading(g, floppy, received)
  <2>1. Code1 \in Reads => ~isWrite
    BY DEF Reads, Writes
  <2> QED BY <1>2, <1>3, <2>1, FdcAssumption DEF Reading, FdcAssumption
<1>6. g.phase = "Execute" /\ Code1 \in Writes => Writing(g, floppy, lost, 0)
  <2> SUFFICES ASSUME g.phase = "Execute", Code1 \in Writes PROVE Writing(g, floppy, lost, 0)
    OBVIOUS
  <2>1. g.buffer = <<>> /\ g.pos = 0 /\ SectorSize > 0
    BY <1>2, FdcAssumption DEF FdcAssumption
  <2> QED BY <1>3, <2>1 DEF Writing
<1> QED BY <1>2, <1>4, <1>5, <1>6 DEF Failed

\* A byte of a floppy command; the last one starts it.
LEMMA SendByteHolds ==
    ASSUME DiskInvariant, SendByte PROVE DiskInvariant'
<1> DEFINE byte == job[Len(fdc.command) + 1]
<1>1. PICK ok \in BOOLEAN : fdc' = WriteData(fdc, byte, floppy, ok)
  BY DEF SendByte
<1>2. /\ guest = "send" /\ Quiet /\ IsFloppy
      /\ IF Len(fdc.command) = 0 THEN "CB" \notin ReadStatus(fdc) \/ fdc.phase = "Result"
                                 ELSE "DIO" \notin ReadStatus(fdc)
      /\ iosc' = SetSource(iosc, "FDC", fdc'.irq)
      /\ IF Executes(fdc, byte)
         THEN /\ table' = [table EXCEPT !.fresh = FALSE]
              /\ guest' = IF Code1 \in Reads \cup Writes THEN "transfer"
                          ELSE IF Code1 = Specify THEN "idle"
                          ELSE IF fdc'.phase = "Result" THEN "results"
                          ELSE "wait"
         ELSE UNCHANGED <<table, guest>>
      /\ UNCHANGED <<floppy, hard, lost, sasi, dma, csr, received, job, asked, verdict, serial>>
  BY DEF SendByte, At, diskVars, dmaVars
<1>3. /\ DOMAIN fdc = FdcFields /\ fdc.command \in Seq(0 .. 255)
      /\ fdc.phase \in {"Command", "Result"} /\ (fdc.phase = "Result" => fdc.command = <<>>)
      /\ Begins(fdc.command) /\ asked = 0 /\ received = <<>> /\ csr = "none"
  BY <1>2 DEF DiskInvariant, Types, FloppyInv, Sending, Transferring
<1>4. Heard(fdc, byte, fdc', floppy, ok)
  <2>1. job \in FdcCommands /\ Listens(fdc)
    BY <1>2, <1>3 DEF IsFloppy, Listens
  <2>2. byte = job[Len(fdc.command) + 1]
    OBVIOUS
  <2> HIDE DEF byte
  <2> QED BY <1>1, <2>1, <2>2, SendKeepsWord
<1> HIDE DEF byte
<1>5. /\ IsFloppy' <=> IsFloppy
      /\ IsHard' <=> IsHard
      /\ DataCommand' <=> DataCommand
      /\ Code1' = Code1
      /\ Begins(fdc.command)' <=> Begins(fdc'.command)
  BY <1>2, SameJob, SameController
<1>6. Quiet' /\ Moved' = 0 /\ Moved = 0 /\ Len(received') = 0
  BY <1>2, <1>3 DEF Quiet, Moved
<1>7. verdict' # "good"
  BY <1>2 DEF DiskInvariant, Places
<1>8. Lines'
  BY <1>2, LineFollows DEF DiskInvariant, FloppyInv
<1>9. ReadSoFar'
  BY <1>6 DEF ReadSoFar
<1>10. Honest' /\ WholeSectors'
  BY <1>2, <1>7, DisksRest DEF Honest, DiskInvariant, diskVars
<1>11. CASE ~Executes(fdc, byte)
  <2>1. guest' = "send" /\ table' = table
    BY <1>2, <1>11
  <2>2. Types' /\ Places'
    BY <1>2, <1>4, <1>5, <1>6, <1>11, <2>1 DEF Heard, Types, Places, DiskInvariant
  <2>3. Sending' /\ Transferring' /\ WrittenSoFar' /\ Cause'
    BY <1>2, <1>3, <1>4, <1>5, <1>11, <2>1 DEF Heard, Sending, Transferring, WrittenSoFar, Cause
  <2>4. HardInv'
    BY <1>2, <2>1, HardRests DEF Others, DiskInvariant
  <2> QED BY <1>8, <1>9, <1>10, <2>2, <2>3, <2>4 DEF DiskInvariant, FloppyInv
<1>12. CASE Executes(fdc, byte) /\ DataCommand
  <2>1. PICK h : DOMAIN h = FdcFields /\ h.command = job /\ fdc' = ExecuteCommand(h, floppy, ok)
    BY <1>4, <1>12 DEF Heard
  <2>2. /\ DOMAIN fdc' = FdcFields /\ fdc'.command = <<>> /\ fdc'.phase \in {"Command", "Execute"}
        /\ fdc'.phase = "Command" => Failed(fdc'.st0.flags)
        /\ fdc'.phase = "Execute" =>
             /\ Executing(fdc') /\ fdc'.pos = 0
             /\ Code1 \in Reads => Reading(fdc', floppy, received)
             /\ Code1 \in Writes => Writing(fdc', floppy, lost, 0)
    BY <1>3, <1>12, <2>1, BeginsExecuting
  <2>3. guest' = "transfer" /\ ~table'.fresh
    <3>1. guest' = "transfer" /\ table' = [table EXCEPT !.fresh = FALSE]
      BY <1>2, <1>12 DEF DataCommand
    <3>2. table'.fresh = FALSE
      BY <3>1 DEF DiskInvariant, Types
    <3> QED BY <3>1, <3>2
  <2>4. Types' /\ Places'
    BY <1>2, <1>5, <1>6, <1>7, <1>12, <2>2, <2>3 DEF Types, Places, DiskInvariant
  <2>5. Sending' /\ Cause'
    BY <2>2, <2>3 DEF Sending, Cause
  <2>6. Transferring'
    <3>1. /\ Executing(fdc)' <=> Executing(fdc')
          /\ Reading(fdc, floppy, received)' <=> Reading(fdc', floppy, received)
          /\ Writing(fdc, floppy, lost, Moved)' <=> Writing(fdc', floppy, lost, 0)
      BY <1>2, <1>6, SameController
    <3>2. SectorSize > 0
      BY FdcAssumption DEF FdcAssumption
    <3> QED BY <1>5, <1>12, <2>2, <2>3, <3>1, <3>2 DEF Transferring
  <2>7. WrittenSoFar'
    BY <1>2, <1>3, <2>2, <2>3 DEF WrittenSoFar
  <2>8. HardInv'
    BY <1>2, <2>3, HardRests DEF DiskInvariant, IsFloppy
  <2> QED BY <1>8, <1>9, <1>10, <2>4, <2>5, <2>6, <2>7, <2>8 DEF DiskInvariant, FloppyInv
<1>13. CASE Executes(fdc, byte) /\ ~DataCommand
  <2>1. PICK h : DOMAIN h = FdcFields /\ h.command = job /\ fdc' = ExecuteCommand(h, floppy, ok)
    BY <1>4, <1>13 DEF Heard
  <2>2. Code1 \notin Reads \cup Writes
    BY <1>2, <1>13 DEF DataCommand, IsFloppy
  <2>3. DOMAIN fdc' = FdcFields /\ fdc'.command = <<>> /\ fdc'.phase \in {"Command", "Result"}
    BY <2>1, <2>2, ShapeExecute DEF Code1
  <2>4. guest' \in {"idle", "results", "wait"}
    BY <1>2, <1>13, <2>2
  <2>5. ~table'.fresh
    <3>1. table' = [table EXCEPT !.fresh = FALSE]
      BY <1>2, <1>13
    <3>2. table'.fresh = FALSE
      BY <3>1 DEF DiskInvariant, Types
    <3> QED BY <3>2
  <2>6. Types' /\ Places'
    BY <1>2, <1>5, <1>6, <1>7, <2>3, <2>4 DEF Types, Places, DiskInvariant
  <2>7. Sending' /\ Cause' /\ Transferring' /\ WrittenSoFar'
    BY <1>5, <1>13, <2>3, <2>4, <2>5 DEF Sending, Cause, Transferring, WrittenSoFar
  <2>8. HardInv'
    BY <1>2, <2>4, HardRests DEF DiskInvariant, Others
  <2> QED BY <1>8, <1>9, <1>10, <2>6, <2>7, <2>8 DEF DiskInvariant, FloppyInv
<1> QED BY <1>11, <1>12, <1>13

--------------------------------------------------------------------------------
(* Reads from a floppy. *)

\* The place of a controller in its command, as a number of units.
LEMMA BeforeType ==
    ASSUME DataCommand, NEW f, Executing(f)
    PROVE  Number(f) \in Nat \ {0} /\ Before(f) \in Nat
<1>1. Number(f) \in Nat \ {0}
  BY SectorNumber
<1>2. SectorSize \in Nat
  BY FdcAssumption DEF FdcAssumption
<1>3. (Number(f) - 1) * SectorSize \in Nat
  <2>1. Number(f) - 1 \in Nat
    BY <1>1
  <2> HIDE DEF Number
  <2> QED BY <1>2, <2>1
<1> QED BY <1>1, <1>3 DEF Before

\* A controller that stands on the same sector, with another position in it.
LEMMA SameSector ==
    ASSUME NEW f, NEW g, SameCommand(f, g), g.head = f.head, g.record = f.record, g.pos \in Nat,
           Executing(f)
    PROVE  Executing(g) /\ Number(g) = Number(f) /\ Before(g) = Before(f)
<1>1. Number(g) = Number(f) /\ Before(g) = Before(f)
  BY DEF Number, Before
<1> QED BY <1>1 DEF Executing, SameCommand

\* The next sector begins where this one ends.
LEMMA NextBefore ==
    ASSUME DataCommand, NEW f, Executing(f), NEW g, Number(g) = Number(f) + 1
    PROVE  Before(g) = Before(f) + SectorSize /\ Before(f) \in Int
<1> DEFINE n == Number(f)
           m == Number(g)
<1>1. Before(g) = (m - 1) * SectorSize /\ Before(f) = (n - 1) * SectorSize
  BY DEF Before
<1>2. n \in Nat /\ m = n + 1 /\ SectorSize \in Nat
  BY BeforeType, FdcAssumption DEF FdcAssumption
<1> HIDE DEF n, m
<1>3. m - 1 = (n - 1) + 1 /\ n - 1 \in Int
  BY <1>2
<1>4. ((n - 1) + 1) * SectorSize = (n - 1) * SectorSize + SectorSize
      /\ (n - 1) * SectorSize \in Int
  BY <1>2, <1>3, ProductStep
<1> QED BY <1>1, <1>3, <1>4

\* A unit handed out is the command's next one.
LEMMA ReadUnit ==
    ASSUME DataCommand, NEW f, DOMAIN f = FdcFields, Executing(f), f.pos < SectorSize,
           NEW units \in Seq(Cells), Reading(f, floppy, units), floppy \in Floppies,
           NEW v, v = f.buffer[f.pos + 1]
    PROVE  /\ v \in Units /\ v = UnitOf(floppy, Len(units) + 1)
           /\ Executing(Taken(f)) /\ Reading(Taken(f), floppy, Append(units, v))
           /\ Append(units, v) \in Seq(Cells)
<1>1. /\ f.drive = job[2] % 4 /\ f.drive \in Inserted /\ f.pos \in Nat
      /\ Located(f) /\ f.buffer = floppy[f.drive][Sector(f)]
      /\ Len(units) = Before(f) + f.pos
  BY DEF Executing, Reading
<1>2. Number(f) \in Nat \ {0} /\ Before(f) \in Nat /\ Sector(f) = FloppySector(Number(f))
  BY BeforeType, SectorNumber
<1>3. Sector(f) \in FloppySectors
  BY <1>1, LocatedSector
<1>4. SectorSize \in Nat \ {0} /\ f.pos + 1 \in 1 .. SectorSize
  BY <1>1, FdcAssumption DEF FdcAssumption
<1>5. v \in Units
  <2>1. f.buffer \in [1 .. SectorSize -> Units]
    BY <1>1, <1>3 DEF Floppies
  <2> QED BY <1>4, <2>1
<1>6. v = UnitOf(floppy, Len(units) + 1)
  <2>1. UnitOf(floppy, (Number(f) - 1) * SectorSize + (f.pos + 1))
          = floppy[job[2] % 4][FloppySector(Number(f))][f.pos + 1]
    <3> DEFINE s == Number(f)
               i == f.pos + 1
    <3>1. s \in Nat \ {0} /\ i \in 1 .. SectorSize
      BY <1>2, <1>4
    <3> HIDE DEF s, i
    <3>2. UnitOf(floppy, (s - 1) * SectorSize + i) = floppy[job[2] % 4][FloppySector(s)][i]
      BY <3>1, UnitInSector
    <3> QED BY <3>2 DEF s, i
  <2>2. (Number(f) - 1) * SectorSize + (f.pos + 1) = Before(f) + (f.pos + 1)
    BY DEF Before
  <2>3. Len(units) + 1 = Before(f) + (f.pos + 1)
    BY <1>1, <1>2
  <2> QED BY <1>1, <1>2, <2>1, <2>2, <2>3
<1>7. /\ SameCommand(f, Taken(f)) /\ Taken(f).pos = f.pos + 1 /\ Taken(f).buffer = f.buffer
      /\ Taken(f).head = f.head /\ Taken(f).record = f.record
  BY ShapeTaken
<1>8. Executing(Taken(f)) /\ Before(Taken(f)) = Before(f)
  BY <1>1, <1>7, SameSector
<1>9. Append(units, v) \in Seq(Cells) /\ Len(Append(units, v)) = Len(units) + 1
  <2>1. v \in Cells
    BY <1>5 DEF Cells
  <2> QED BY <2>1, AppendProperties
<1>10. Reading(Taken(f), floppy, Append(units, v))
  <2>1. Located(Taken(f)) /\ Sector(Taken(f)) = Sector(f) /\ Taken(f).drive = f.drive
    BY <1>1, <1>7 DEF Located, Sector, SameCommand
  <2>2. Taken(f).pos <= SectorSize
    BY <1>1, <1>4, <1>7
  <2>3. Len(Append(units, v)) = Before(Taken(f)) + Taken(f).pos
    BY <1>1, <1>2, <1>7, <1>8, <1>9
  <2> QED BY <1>1, <1>7, <2>1, <2>2, <2>3 DEF Reading
<1> QED BY <1>5, <1>6, <1>8, <1>9, <1>10

\* At the end of a sector the command goes on at the beginning of the next, or ends.
LEMMA ReadOn ==
    ASSUME DataCommand, NEW f, DOMAIN f = FdcFields, Executing(f), f.pos = SectorSize,
           f.phase = "Execute", f.command = <<>>,
           NEW units, Reading(f, floppy, units), NEW ok \in BOOLEAN,
           NEW g, g = NextSector(f, floppy, ok)
    PROVE  /\ DOMAIN g = FdcFields /\ g.command = <<>>
           /\ \/ g.phase = "Command"
              \/ /\ g.phase = "Execute" /\ Executing(g) /\ g.pos = 0
                 /\ Reading(g, floppy, units)
<1>1. /\ DOMAIN g = FdcFields /\ g.command = <<>>
      /\ \/ g.phase = "Command" /\ "AT" \in g.st0.flags
         \/ /\ CanAdvance(f) /\ g.phase = "Execute" /\ SameCommand(f, g) /\ g.pos = 0
            /\ IF f.record < f.eot THEN g.record = f.record + 1 /\ g.head = f.head
                                   ELSE g.record = 1 /\ g.head = 1
            /\ Located(g) /\ g.buffer = floppy[g.drive][Sector(g)]
  BY ShapeNext
<1>2. CASE g.phase = "Command"
  BY <1>1, <1>2
<1>3. CASE g.phase # "Command"
  <2>1. Located(f) /\ Len(units) = Before(f) + f.pos
    BY DEF Reading
  <2>2. Executing(g) /\ Number(g) = Number(f) + 1
    BY <1>1, <1>3, <2>1, AdvanceExecutes
  <2>3. Number(f) \in Nat /\ SectorSize \in Nat
    BY BeforeType, FdcAssumption DEF FdcAssumption
  <2>4. Before(g) = Before(f) + SectorSize /\ Before(f) \in Int
    BY <2>2, NextBefore
  <2>5. Len(units) = Before(g) + g.pos
    BY <1>1, <1>3, <2>1, <2>3, <2>4
  <2>6. Reading(g, floppy, units)
    BY <1>1, <1>3, <2>3, <2>5 DEF Reading
  <2> QED BY <1>1, <1>3, <2>2, <2>6
<1> QED BY <1>2, <1>3

\* What the two ways to take a unit from the controller have in common.
LEMMA ReadStep ==
    ASSUME DiskInvariant, DataCommand, Code1 \in Reads, fdc.phase = "Execute",
           DOMAIN fdc' = FdcFields, fdc'.command = <<>>, fdc'.phase \in {"Command", "Execute"},
           fdc'.phase = "Execute" =>
               /\ guest' = "transfer" /\ Executing(fdc') /\ Reading(fdc', floppy, received')
               /\ Quiet' => fdc'.pos < SectorSize,
           received' \in Seq(Cells),
           \A n \in 1 .. Len(received') : received'[n] = UnitOf(floppy, n),
           Len(received') = Moved', asked' \in Nat, dma' \in Transfers,
           Places', Lines', guest' \in {"transfer", "wait"},
           UNCHANGED <<floppy, hard, lost, sasi, csr, job, table, verdict, serial>>
    PROVE  DiskInvariant'
<1>1. guest = "transfer" /\ ~table.fresh /\ job \in FdcCommands
  BY DEF DiskInvariant, FloppyInv, Transferring, DataCommand
<1>2. Types'
  BY DEF Types, DiskInvariant
<1>3. /\ IsFloppy' <=> IsFloppy
      /\ DataCommand' <=> DataCommand
      /\ Code1' = Code1
      /\ Executing(fdc)' <=> Executing(fdc')
      /\ Reading(fdc, floppy, received)' <=> Reading(fdc', floppy, received')
      /\ \A n : UnitOf(floppy, n)' = UnitOf(floppy, n)
  BY SameJob, SameController
<1>4. Code1 \notin Writes
  BY DEF Reads, Writes
<1>5. Sending' /\ Cause'
  BY <1>1 DEF Sending, Cause
<1>6. Transferring'
  BY <1>1, <1>3, <1>4 DEF Transferring
<1>7. ReadSoFar' /\ WrittenSoFar'
  BY <1>3, <1>4 DEF ReadSoFar, WrittenSoFar
<1>8. HardInv'
  BY <1>1, HardRests DEF Others, DiskInvariant
<1>9. Honest' /\ WholeSectors'
  BY <1>1, DisksRest DEF Honest, DiskInvariant, Places, diskVars
<1> QED BY <1>2, <1>5, <1>6, <1>7, <1>8, <1>9 DEF DiskInvariant, FloppyInv

\* What is received is one unit longer.
LEMMA OneMore ==
    ASSUME NEW units \in Seq(Cells), NEW v \in Cells
    PROVE  /\ Append(units, v) \in Seq(Cells) /\ Len(Append(units, v)) = Len(units) + 1
           /\ \A n \in 1 .. Len(units) + 1 :
                \/ n \in 1 .. Len(units) /\ Append(units, v)[n] = units[n]
                \/ n = Len(units) + 1 /\ Append(units, v)[n] = v
<1>1. /\ Append(units, v) \in Seq(Cells) /\ Len(Append(units, v)) = Len(units) + 1
      /\ \A i \in 1 .. Len(units) : Append(units, v)[i] = units[i]
      /\ Append(units, v)[Len(units) + 1] = v
  BY AppendProperties
<1>2. Len(units) \in Nat
  OBVIOUS
<1>3. ASSUME NEW n \in 1 .. Len(units) + 1 PROVE n \in 1 .. Len(units) \/ n = Len(units) + 1
  BY <1>2
<1> QED BY <1>1, <1>3

\* What holds of a read under way.
LEMMA ReadFacts ==
    ASSUME DiskInvariant, ReadsOn(fdc)
    PROVE  /\ DataCommand /\ IsFloppy /\ Code1 \in Reads /\ guest = "transfer" /\ ~table.fresh
           /\ fdc.phase = "Execute" /\ fdc.command = <<>> /\ DOMAIN fdc = FdcFields
           /\ Executing(fdc) /\ Reading(fdc, floppy, received) /\ (Quiet => fdc.pos < SectorSize)
           /\ fdc.size = SectorSize /\ fdc.pos \in Nat /\ fdc.pos <= SectorSize
           /\ floppy \in Floppies /\ received \in Seq(Cells)
           /\ \A n \in 1 .. Len(received) : received[n] = UnitOf(floppy, n)
<1>1. fdc.phase = "Execute" /\ fdc.transfer = "Read"
  BY DEF ReadsOn
<1>2. DataCommand /\ Executing(fdc) /\ guest = "transfer" /\ ~table.fresh
  BY <1>1 DEF DiskInvariant, FloppyInv, Transferring
<1>3. Code1 \in Reads
  BY <1>1, <1>2 DEF Executing
<1>4. Reading(fdc, floppy, received) /\ (Quiet => fdc.pos < SectorSize)
  BY <1>1, <1>3 DEF DiskInvariant, FloppyInv, Transferring
<1>5. fdc.size = SectorSize /\ fdc.pos \in Nat /\ fdc.pos <= SectorSize
  BY <1>2, <1>4 DEF Executing, Reading
<1>6. fdc.command = <<>> /\ DOMAIN fdc = FdcFields
  BY <1>1 DEF DiskInvariant, Types, FloppyInv, Sending
<1>7. \A n \in 1 .. Len(received) : received[n] = UnitOf(floppy, n)
  BY <1>2, <1>3 DEF DiskInvariant, FloppyInv, ReadSoFar
<1> QED BY <1>1, <1>2, <1>3, <1>4, <1>5, <1>6, <1>7 DEF DiskInvariant, Types, DataCommand, IsFloppy

\* A unit from the data port; with the last of a sector the next is fetched.
LEMMA ReadByHandHolds ==
    ASSUME DiskInvariant, ReadByHand PROVE DiskInvariant'
<1> DEFINE t == Taken(fdc)
           v == fdc.buffer[fdc.pos + 1]
<1>1. PICK ok \in BOOLEAN : fdc' = ReadData(fdc, floppy, ok)
  BY DEF ReadByHand
<1>2. /\ guest = "transfer" /\ Quiet /\ ReadsOn(fdc) /\ csr = "none"
      /\ received' = Append(received, v) /\ asked' = asked + 1
      /\ iosc' = SetSource(iosc, "FDC", fdc'.irq)
      /\ guest' = IF fdc'.phase = "Execute" THEN "transfer" ELSE "wait"
      /\ UNCHANGED <<floppy, hard, lost, sasi, dma, csr, job, table, verdict, serial>>
  BY DEF ReadByHand, At, diskVars
<1>3. /\ DataCommand /\ IsFloppy /\ Code1 \in Reads /\ ~table.fresh
      /\ fdc.phase = "Execute" /\ fdc.command = <<>> /\ DOMAIN fdc = FdcFields
      /\ Executing(fdc) /\ Reading(fdc, floppy, received) /\ fdc.pos < SectorSize
      /\ fdc.size = SectorSize /\ fdc.pos \in Nat
      /\ floppy \in Floppies /\ received \in Seq(Cells)
      /\ \A n \in 1 .. Len(received) : received[n] = UnitOf(floppy, n)
  BY <1>2, ReadFacts
<1>4. /\ v \in Units /\ v = UnitOf(floppy, Len(received) + 1)
      /\ Executing(t) /\ Reading(t, floppy, received')
  BY <1>2, <1>3, ReadUnit
<1>5. /\ DOMAIN t = FdcFields /\ SameCommand(fdc, t) /\ t.pos = fdc.pos + 1
  BY <1>3, ShapeTaken
<1>6. fdc' = IF t.pos < fdc.size THEN t ELSE NextSector(t, floppy, ok)
  BY <1>1, <1>2, <1>3, ShapeReadData
<1> HIDE DEF t
<1>7. /\ received' \in Seq(Cells) /\ Len(received') = Len(received) + 1
      /\ \A n \in 1 .. Len(received') : received'[n] = UnitOf(floppy, n)
  <2>1. v \in Cells
    BY <1>4 DEF Cells
  <2> HIDE DEF v
  <2>2. /\ received' \in Seq(Cells) /\ Len(received') = Len(received) + 1
        /\ \A n \in 1 .. Len(received) + 1 :
             \/ n \in 1 .. Len(received) /\ received'[n] = received[n]
             \/ n = Len(received) + 1 /\ received'[n] = v
    BY <1>2, <1>3, <2>1, OneMore
  <2> QED BY <1>3, <1>4, <2>2
<1>8. /\ DOMAIN fdc' = FdcFields /\ fdc'.command = <<>> /\ fdc'.phase \in {"Command", "Execute"}
      /\ fdc'.phase = "Execute" =>
           Executing(fdc') /\ Reading(fdc', floppy, received') /\ fdc'.pos < SectorSize
  <2>1. CASE t.pos < fdc.size
    BY <1>3, <1>4, <1>5, <1>6, <2>1 DEF SameCommand
  <2>2. CASE ~(t.pos < fdc.size)
    <3>1. t.pos = SectorSize /\ t.phase = "Execute" /\ t.command = <<>>
      <4>1. SectorSize \in Nat
        BY FdcAssumption DEF FdcAssumption
      <4> QED BY <1>3, <1>5, <2>2, <4>1 DEF SameCommand
    <3>2. fdc' = NextSector(t, floppy, ok)
      BY <1>6, <2>2
    <3>3. /\ DOMAIN fdc' = FdcFields /\ fdc'.command = <<>>
          /\ \/ fdc'.phase = "Command"
             \/ /\ fdc'.phase = "Execute" /\ Executing(fdc') /\ fdc'.pos = 0
                /\ Reading(fdc', floppy, received')
      BY <1>3, <1>4, <1>5, <3>1, <3>2, ReadOn
    <3>4. SectorSize > 0
      BY FdcAssumption DEF FdcAssumption
    <3> QED BY <3>3, <3>4
  <2> QED BY <2>1, <2>2
<1>9. Quiet' /\ Moved' = asked + 1 /\ Moved = asked /\ asked \in Nat
  BY <1>2 DEF Quiet, Moved, DiskInvariant, Types
<1>10. Len(received') = Moved'
  <2>1. Len(received) = Moved
    BY <1>2, <1>3 DEF DiskInvariant, FloppyInv, ReadSoFar
  <2> QED BY <1>7, <1>9, <2>1
<1>11. Places'
  <2>1. (IsFloppy' <=> IsFloppy) /\ (DataCommand' <=> DataCommand)
    BY <1>2, SameJob
  <2> QED BY <1>2, <1>3, <1>9, <2>1 DEF Places, DiskInvariant
<1>12. Lines'
  BY <1>2, LineFollows DEF DiskInvariant, FloppyInv
<1>13. dma' \in Transfers /\ asked' \in Nat /\ guest' \in {"transfer", "wait"}
  BY <1>2, <1>9 DEF DiskInvariant, Types
<1> QED BY <1>2, <1>3, <1>7, <1>8, <1>10, <1>11, <1>12, <1>13, ReadStep

\* A transfer counts what it moves.
LEMMA MoveCounts ==
    ASSUME DiskInvariant, NEW n \in Nat, n <= dma.left, dma.channel # "none", Move(n),
           UNCHANGED <<asked, guest, csr, job, serial, verdict>>
    PROVE  /\ dma' \in Transfers /\ ~Quiet /\ ~Quiet' /\ Moved' = Moved + n /\ Places'
           /\ guest = "transfer" /\ csr = "none" /\ Moved \in Int
<1>1. dma \in Transfers /\ asked \in Nat
  BY DEF DiskInvariant, Types
<1>2. /\ dma'.channel = dma.channel /\ dma'.toMemory = dma.toMemory
      /\ dma'.left = dma.left - n /\ dma' \in Transfers
  <2>1. dma' = [dma EXCEPT !.left = dma.left - n, !.block = FALSE]
    BY DEF Move
  <2>2. dma.left - n \in Nat
    BY <1>1 DEF Transfers
  <2> QED BY <1>1, <2>1, <2>2 DEF Transfers
<1>3. ~Quiet /\ ~Quiet'
  BY <1>2 DEF Quiet, NoDma
<1>4. Moved' = Moved + n /\ Moved \in Int
  BY <1>1, <1>2, <1>3 DEF Moved, Transfers
<1>5. /\ guest = "transfer" /\ csr = "none"
  BY <1>3 DEF DiskInvariant, Places
<1>6. Places'
  <2>1. (IsFloppy' <=> IsFloppy) /\ (IsHard' <=> IsHard) /\ (DataCommand' <=> DataCommand)
        /\ ToMemory' = ToMemory
    BY SameJob
  <2> QED BY <1>2, <1>3, <1>5, <2>1 DEF DiskInvariant, Places
<1> QED BY <1>2, <1>3, <1>4, <1>5, <1>6

\* A unit for the DMAC: at the end of a sector the next is fetched first, or the
\* command ends.
LEMMA MoveFromFdcHolds ==
    ASSUME DiskInvariant, MoveFromFdc PROVE DiskInvariant'
<1>1. PICK ok \in BOOLEAN :
        LET f == Refilled(fdc, floppy, ok)
        IN  IF ReadsOn(f)
            THEN /\ fdc' = Taken(f)
                 /\ received' = Append(received, f.buffer[f.pos + 1])
                 /\ Move(1)
            ELSE fdc' = f /\ UNCHANGED <<received, dma>>
  BY DEF MoveFromFdc
<1> DEFINE f == Refilled(fdc, floppy, ok)
           v == f.buffer[f.pos + 1]
<1>2. /\ dma.channel = "FDC" /\ dma.left > 0 /\ ReadsOn(fdc)
      /\ UNCHANGED <<floppy, hard, lost, sasi, iosc, csr, guest, job, asked, table, verdict, serial>>
  BY DEF MoveFromFdc, Moving, diskVars, guestVars
<1>3. /\ DataCommand /\ IsFloppy /\ Code1 \in Reads /\ guest = "transfer" /\ ~table.fresh
      /\ fdc.phase = "Execute" /\ fdc.command = <<>> /\ DOMAIN fdc = FdcFields
      /\ Executing(fdc) /\ Reading(fdc, floppy, received)
      /\ fdc.size = SectorSize /\ fdc.pos \in Nat /\ fdc.pos <= SectorSize
      /\ floppy \in Floppies /\ received \in Seq(Cells)
      /\ \A n \in 1 .. Len(received) : received[n] = UnitOf(floppy, n)
  BY <1>2, ReadFacts
<1>4. SectorSize \in Nat \ {0}
  BY FdcAssumption DEF FdcAssumption
<1>5. /\ DOMAIN f = FdcFields /\ f.command = <<>>
      /\ \/ f.phase = "Command"
         \/ /\ f.phase = "Execute" /\ Executing(f) /\ Reading(f, floppy, received)
            /\ f.pos < SectorSize
  <2>1. CASE NeedsSector(fdc)
    <3>1. fdc.pos = SectorSize
      BY <1>3, <1>4, <2>1 DEF NeedsSector
    <3>2. f = NextSector(fdc, floppy, ok)
      BY <2>1 DEF Refilled
    <3>3. /\ DOMAIN f = FdcFields /\ f.command = <<>>
          /\ \/ f.phase = "Command"
             \/ /\ f.phase = "Execute" /\ Executing(f) /\ f.pos = 0
                /\ Reading(f, floppy, received)
      <4> HIDE DEF f
      <4> QED BY <1>3, <3>1, <3>2, ReadOn
    <3> QED BY <1>4, <3>3
  <2>2. CASE ~NeedsSector(fdc)
    <3>1. fdc.pos < SectorSize
      BY <1>2, <1>3, <1>4, <2>2 DEF NeedsSector
    <3>2. f = fdc
      BY <2>2 DEF Refilled
    <3> HIDE DEF f
    <3> QED BY <1>3, <3>1, <3>2
  <2> QED BY <2>1, <2>2
<1>6. Len(received) = Moved
  BY <1>2, <1>3 DEF DiskInvariant, FloppyInv, ReadSoFar, Places, Quiet, NoDma
<1>7. Lines'
  BY <1>2 DEF Lines, DiskInvariant, FloppyInv
<1>8. CASE ReadsOn(f)
  <2>1. fdc' = Taken(f) /\ received' = Append(received, v) /\ Move(1)
    BY <1>1, <1>8
  <2> HIDE DEF f
  <2>2. /\ f.phase = "Execute" /\ Executing(f) /\ Reading(f, floppy, received)
        /\ f.pos < SectorSize
    BY <1>5, <1>8 DEF ReadsOn
  <2>3. /\ v \in Units /\ v = UnitOf(floppy, Len(received) + 1)
        /\ Executing(fdc') /\ Reading(fdc', floppy, received')
    BY <1>3, <1>5, <2>1, <2>2, ReadUnit
  <2>4. DOMAIN fdc' = FdcFields /\ fdc'.command = <<>> /\ fdc'.phase = "Execute"
    BY <1>5, <2>1, <2>2, ShapeTaken DEF SameCommand
  <2>5. /\ received' \in Seq(Cells) /\ Len(received') = Len(received) + 1
        /\ \A n \in 1 .. Len(received') : received'[n] = UnitOf(floppy, n)
    <3>1. v \in Cells
      BY <2>3 DEF Cells
    <3> HIDE DEF v
    <3>2. /\ received' \in Seq(Cells) /\ Len(received') = Len(received) + 1
          /\ \A n \in 1 .. Len(received) + 1 :
               \/ n \in 1 .. Len(received) /\ received'[n] = received[n]
               \/ n = Len(received) + 1 /\ received'[n] = v
      BY <1>3, <2>1, <3>1, OneMore
    <3> QED BY <1>3, <2>3, <3>2
  <2>6. /\ dma' \in Transfers /\ ~Quiet' /\ Moved' = Moved + 1 /\ Places'
    <3>1. 1 <= dma.left /\ dma.channel # "none"
      BY <1>2 DEF DiskInvariant, Types, Transfers
    <3> QED BY <1>2, <2>1, <3>1, MoveCounts
  <2>7. Len(received') = Moved' /\ asked' \in Nat /\ guest' = "transfer"
    BY <1>2, <1>3, <1>6, <2>5, <2>6 DEF DiskInvariant, Types
  <2> QED BY <1>2, <1>3, <1>7, <2>3, <2>4, <2>5, <2>6, <2>7, ReadStep
<1>9. CASE ~ReadsOn(f)
  <2>1. fdc' = f /\ UNCHANGED <<received, dma>>
    BY <1>1, <1>9
  <2>2. f.phase = "Command"
    <3>1. f.phase = "Execute" => f.transfer = "Read"
      <4> HIDE DEF f
      <4> QED BY <1>3, <1>5 DEF Executing
    <3> HIDE DEF f
    <3> QED BY <1>5, <1>9, <3>1 DEF ReadsOn
  <2> HIDE DEF f
  <2>3. DOMAIN fdc' = FdcFields /\ fdc'.command = <<>> /\ fdc'.phase = "Command"
    BY <1>5, <2>1, <2>2
  <2>4. Moved' = Moved /\ (Quiet' <=> Quiet)
    BY <1>2, <2>1 DEF Moved, Quiet
  <2>5. Places'
    <3>1. (IsFloppy' <=> IsFloppy) /\ (IsHard' <=> IsHard) /\ (DataCommand' <=> DataCommand)
          /\ ToMemory' = ToMemory
      BY <1>2, SameJob
    <3> QED BY <1>2, <2>1, <2>4, <3>1 DEF DiskInvariant, Places
  <2>6. /\ received' \in Seq(Cells) /\ Len(received') = Moved' /\ asked' \in Nat
        /\ dma' \in Transfers /\ guest' = "transfer"
        /\ \A n \in 1 .. Len(received') : received'[n] = UnitOf(floppy, n)
    BY <1>2, <1>3, <1>6, <2>1, <2>4 DEF DiskInvariant, Types
  <2> QED BY <1>2, <1>3, <1>7, <2>3, <2>5, <2>6, ReadStep
<1> QED BY <1>8, <1>9

--------------------------------------------------------------------------------
(* Writes to a floppy. *)

\* What the units of a write have in common.
LEMMA WriteStep ==
    ASSUME DiskInvariant, DataCommand, Code1 \in Writes, fdc.phase = "Execute",
           DOMAIN fdc' = FdcFields, fdc'.command = <<>>, fdc'.phase \in {"Command", "Execute"},
           fdc'.phase = "Command" => Failed(fdc'.st0.flags),
           fdc'.phase = "Execute" => Executing(fdc') /\ Writing(fdc', floppy', lost', Moved'),
           floppy' \in Floppies,
           \A d \in Inserted : \A l \in FloppySectors : Whole(floppy'[d][l], SectorSize),
           dma' \in Transfers, ~Quiet', Places',
           UNCHANGED <<hard, sasi, iosc, csr, received, guest, job, asked, table, verdict, serial>>
    PROVE  DiskInvariant'
<1>1. guest = "transfer" /\ ~table.fresh /\ job \in FdcCommands
  BY DEF DiskInvariant, FloppyInv, Transferring, DataCommand
<1>2. Types'
  BY DEF Types, DiskInvariant
<1>3. /\ IsFloppy' <=> IsFloppy
      /\ DataCommand' <=> DataCommand
      /\ Code1' = Code1
      /\ Executing(fdc)' <=> Executing(fdc')
      /\ Writing(fdc, floppy, lost, Moved)' <=> Writing(fdc', floppy', lost', Moved')
  BY SameJob, SameController
<1>4. Code1 \notin Reads
  BY DEF Reads, Writes
<1>5. Sending' /\ Cause' /\ Lines'
  BY <1>1 DEF Sending, Cause, Lines, DiskInvariant, FloppyInv
<1>6. Transferring'
  BY <1>1, <1>3, <1>4 DEF Transferring
<1>7. ReadSoFar'
  BY <1>3, <1>4 DEF ReadSoFar
<1>8. WrittenSoFar'
  BY <1>1, <1>3 DEF WrittenSoFar, DiskInvariant, FloppyInv
<1>9. HardInv'
  BY <1>1, HardRests DEF Others, DiskInvariant
<1>10. Honest'
  BY <1>1 DEF Honest, DiskInvariant, Places
<1>11. WholeSectors'
  <2>1. \A l \in DOMAIN hard' : Whole(hard'[l], SasiSectorSize)
    BY DEF DiskInvariant, WholeSectors
  <2>2. WholeSectors' <=>
          /\ \A d \in Inserted : \A l \in FloppySectors : Whole(floppy'[d][l], SectorSize)
          /\ \A l \in DOMAIN hard' : Whole(hard'[l], SasiSectorSize)
    BY DEF WholeSectors, Whole
  <2> QED BY <2>1, <2>2
<1> QED BY <1>2, <1>5, <1>6, <1>7, <1>8, <1>9, <1>10, <1>11 DEF DiskInvariant, FloppyInv

\* The sector fills with the units of the command, in order.
LEMMA SectorFills ==
    ASSUME DataCommand, NEW f, Executing(f), NEW moved, Writing(f, floppy, lost, moved), serial \in Nat,
           NEW buf, buf = Append(f.buffer, NewUnit(moved + 1))
    PROVE  /\ f.pos \in Nat /\ Before(f) \in Nat /\ moved = Before(f) + f.pos
           /\ buf \in Seq(Units) /\ Len(buf) = f.pos + 1
           /\ \A i \in 1 .. f.pos + 1 : buf[i] = NewUnit(Before(f) + i)
           /\ f.pos + 1 = SectorSize => buf \in [1 .. SectorSize -> Units]
<1>1. /\ f.pos \in Nat /\ f.buffer \in Seq(Units) /\ Len(f.buffer) = f.pos
      /\ \A i \in 1 .. f.pos : f.buffer[i] = NewUnit(Before(f) + i)
      /\ moved = Before(f) + f.pos
  BY DEF Executing, Writing
<1>2. Before(f) \in Nat
  BY BeforeType
<1>3. moved + 1 = Before(f) + (f.pos + 1) /\ moved + 1 \in Int
  BY <1>1, <1>2
<1>4. NewUnit(moved + 1) \in Units
  BY <1>3 DEF NewUnit, Units
<1>5. /\ buf \in Seq(Units) /\ Len(buf) = f.pos + 1
      /\ \A i \in 1 .. f.pos : buf[i] = f.buffer[i]
      /\ buf[f.pos + 1] = NewUnit(Before(f) + (f.pos + 1))
  <2> DEFINE u == NewUnit(moved + 1)
  <2>1. u \in Units /\ u = NewUnit(Before(f) + (f.pos + 1)) /\ buf = Append(f.buffer, u)
    BY <1>3, <1>4
  <2> HIDE DEF u
  <2> QED BY <1>1, <2>1, AppendProperties
<1>6. ASSUME NEW i \in 1 .. f.pos + 1 PROVE buf[i] = NewUnit(Before(f) + i)
  <2>1. i \in 1 .. f.pos \/ i = f.pos + 1
    BY <1>1
  <2> QED BY <1>1, <1>5, <2>1
<1>7. f.pos + 1 = SectorSize => buf \in [1 .. SectorSize -> Units]
  <2>1. buf \in [1 .. Len(buf) -> Units]
    BY <1>5, LenProperties
  <2> QED BY <1>5, <2>1
<1> QED BY <1>1, <1>2, <1>5, <1>6, <1>7

\* A buffer filled is a whole sector.
LEMMA FilledIsWhole ==
    ASSUME NEW first \in Int, NEW buf, buf \in [1 .. SectorSize -> Units],
           \A i \in 1 .. SectorSize : buf[i] = NewUnit(first + i)
    PROVE  Whole(buf, SectorSize)
<1>1. SectorSize \in Nat \ {0}
  BY FdcAssumption DEF FdcAssumption
<1>2. buf[1] = <<serial, first + 1>>
  BY <1>1 DEF NewUnit
<1>3. ASSUME NEW i \in 1 .. SectorSize PROVE buf[i] = <<buf[1][1], buf[1][2] + i - 1>>
  BY <1>2 DEF NewUnit
<1>4. buf = [i \in 1 .. SectorSize |-> buf[i]]
  OBVIOUS
<1> QED BY <1>3, <1>4 DEF Whole

\* What holds of a write under way.
LEMMA WriteFacts ==
    ASSUME DiskInvariant, WritesOn(fdc)
    PROVE  /\ DataCommand /\ Code1 \in Writes /\ guest = "transfer"
           /\ fdc.phase = "Execute" /\ fdc.command = <<>> /\ DOMAIN fdc = FdcFields
           /\ Executing(fdc) /\ Writing(fdc, floppy, lost, Moved)
           /\ fdc.size = SectorSize /\ fdc.pos \in Nat /\ fdc.pos < SectorSize
           /\ floppy \in Floppies /\ serial \in Nat
           /\ \A d \in Inserted : \A l \in FloppySectors : Whole(floppy[d][l], SectorSize)
<1>1. fdc.phase = "Execute" /\ fdc.transfer = "Write"
  BY DEF WritesOn
<1>2. DataCommand /\ Executing(fdc) /\ guest = "transfer"
  BY <1>1 DEF DiskInvariant, FloppyInv, Transferring
<1>3. Code1 \in Writes
  BY <1>1, <1>2 DEF Executing, DataCommand
<1>4. Writing(fdc, floppy, lost, Moved)
  BY <1>1, <1>3 DEF DiskInvariant, FloppyInv, Transferring
<1>5. fdc.size = SectorSize /\ fdc.pos \in Nat /\ fdc.pos < SectorSize
  BY <1>2, <1>4 DEF Executing, Writing
<1>6. fdc.command = <<>> /\ DOMAIN fdc = FdcFields
  BY <1>1 DEF DiskInvariant, Types, FloppyInv, Sending
<1> QED BY <1>1, <1>2, <1>3, <1>4, <1>5, <1>6 DEF DiskInvariant, Types, WholeSectors

\* A unit from the DMAC; with the last of a sector the sector goes to the disk, and
\* the command goes on at the next or ends.
LEMMA MoveToFdcHolds ==
    ASSUME DiskInvariant, MoveToFdc PROVE DiskInvariant'
<1> DEFINE unit == NewUnit(asked - dma.left + 1)
           full == Filled(fdc, unit)
<1>1. /\ dma.channel = "FDC" /\ dma.left > 0 /\ WritesOn(fdc)
      /\ UNCHANGED <<hard, sasi, iosc, csr, received, guest, job, asked, table, verdict, serial>>
  BY DEF MoveToFdc, Moving, guestVars
<1>2. /\ DataCommand /\ Code1 \in Writes /\ guest = "transfer"
      /\ fdc.phase = "Execute" /\ fdc.command = <<>> /\ DOMAIN fdc = FdcFields
      /\ Executing(fdc) /\ Writing(fdc, floppy, lost, Moved)
      /\ fdc.size = SectorSize /\ fdc.pos \in Nat /\ fdc.pos < SectorSize
      /\ floppy \in Floppies /\ serial \in Nat
      /\ \A d \in Inserted : \A l \in FloppySectors : Whole(floppy[d][l], SectorSize)
  BY <1>1, WriteFacts
<1>3. SectorSize \in Nat \ {0}
  BY FdcAssumption DEF FdcAssumption
<1>4. ~Quiet /\ Moved = asked - dma.left /\ 1 <= dma.left /\ dma \in Transfers
  BY <1>1 DEF Quiet, NoDma, Moved, DiskInvariant, Types, Transfers
<1>5. unit = NewUnit(Moved + 1)
  BY <1>4
<1> HIDE DEF unit
<1>6. /\ DOMAIN full = FdcFields /\ SameCommand(fdc, full)
      /\ full.pos = fdc.pos + 1 /\ full.buffer = Append(fdc.buffer, unit)
      /\ full.head = fdc.head /\ full.record = fdc.record
  BY <1>2, ShapeFilled
<1>7. /\ Before(fdc) \in Nat /\ Moved = Before(fdc) + fdc.pos
      /\ full.buffer \in Seq(Units) /\ Len(full.buffer) = fdc.pos + 1
      /\ \A i \in 1 .. fdc.pos + 1 : full.buffer[i] = NewUnit(Before(fdc) + i)
      /\ fdc.pos + 1 = SectorSize => full.buffer \in [1 .. SectorSize -> Units]
  BY <1>2, <1>5, <1>6, SectorFills
<1> HIDE DEF full
<1>8. ASSUME NEW ok \in BOOLEAN, fdc' = DmaWrite(fdc, unit, ok)
      PROVE  /\ DOMAIN fdc' = FdcFields /\ fdc'.command = <<>>
             /\ ~CompletesSector(fdc) =>
                  /\ fdc'.phase = "Execute" /\ SameCommand(fdc, fdc') /\ fdc'.pos = fdc.pos + 1
                  /\ fdc'.head = fdc.head /\ fdc'.record = fdc.record
                  /\ fdc'.buffer = Append(fdc.buffer, unit)
             /\ CompletesSector(fdc) =>
                  \/ fdc'.phase = "Command" /\ "AT" \in fdc'.st0.flags
                  \/ /\ ok /\ CanAdvance(fdc)
                     /\ fdc'.phase = "Execute" /\ SameCommand(fdc, fdc')
                     /\ fdc'.pos = 0 /\ fdc'.buffer = <<>>
                     /\ IF fdc.record < fdc.eot
                        THEN fdc'.record = fdc.record + 1 /\ fdc'.head = fdc.head
                        ELSE fdc'.record = 1 /\ fdc'.head = 1
  <2>1. fdc.pos < fdc.size /\ fdc.size \in Nat
    BY <1>2, <1>3
  <2> QED BY <1>1, <1>2, <1>8, <2>1, ShapeWrite
<1>9. ASSUME Move(1)
      PROVE  dma' \in Transfers /\ ~Quiet' /\ Moved' = Moved + 1 /\ Places'
  <2>1. dma.channel # "none"
    BY <1>1
  <2> QED BY <1>1, <1>4, <1>9, <2>1, MoveCounts
<1>10. ASSUME UNCHANGED dma PROVE dma' \in Transfers /\ ~Quiet' /\ Places'
  <2>1. (Quiet' <=> Quiet) /\ dma' \in Transfers
    BY <1>4, <1>10 DEF Quiet
  <2>2. (IsFloppy' <=> IsFloppy) /\ (IsHard' <=> IsHard) /\ (DataCommand' <=> DataCommand)
        /\ ToMemory' = ToMemory
    BY <1>1, SameJob
  <2> QED BY <1>1, <1>4, <1>10, <2>1, <2>2 DEF DiskInvariant, Places
<1>11. CASE ~CompletesSector(fdc)
  <2>1. fdc' = DmaWrite(fdc, unit, TRUE) /\ Move(1) /\ floppy' = floppy /\ lost' = lost
    BY <1>11 DEF MoveToFdc, unit
  <2>2. /\ DOMAIN fdc' = FdcFields /\ fdc'.command = <<>>
        /\ fdc'.phase = "Execute" /\ SameCommand(fdc, fdc') /\ fdc'.pos = fdc.pos + 1
        /\ fdc'.head = fdc.head /\ fdc'.record = fdc.record
        /\ fdc'.buffer = full.buffer
    BY <1>6, <1>8, <1>11, <2>1
  <2>3. Executing(fdc') /\ Before(fdc') = Before(fdc)
    BY <1>2, <2>2, SameSector
  <2>4. fdc.pos + 1 < SectorSize
    BY <1>1, <1>2, <1>3, <1>11 DEF CompletesSector
  <2>5. \A n \in 1 .. Before(fdc) : Stands(floppy, lost, n)
    BY <1>2 DEF Writing
  <2>6. dma' \in Transfers /\ ~Quiet' /\ Moved' = Moved + 1 /\ Places'
    BY <1>9, <2>1
  <2>7. Moved' = Before(fdc) + (fdc.pos + 1)
    BY <1>2, <1>7, <2>6
  <2>8. Writing(fdc', floppy', lost', Moved')
    BY <1>7, <2>1, <2>2, <2>3, <2>4, <2>5, <2>7 DEF Writing
  <2> QED BY <1>1, <1>2, <2>1, <2>2, <2>3, <2>6, <2>8, WriteStep
<1>12. CASE CompletesSector(fdc) /\ ~Located(fdc)
  <2>1. fdc' = DmaWrite(fdc, unit, FALSE) /\ UNCHANGED dma /\ floppy' = floppy
    BY <1>12 DEF MoveToFdc, unit
  <2>2. DOMAIN fdc' = FdcFields /\ fdc'.command = <<>> /\ fdc'.phase = "Command" /\ Failed(fdc'.st0.flags)
    BY <1>8, <1>12, <2>1 DEF Failed
  <2>3. dma' \in Transfers /\ ~Quiet' /\ Places'
    BY <1>10, <2>1
  <2> QED BY <1>1, <1>2, <2>1, <2>2, <2>3, WriteStep
<1>13. CASE CompletesSector(fdc) /\ Located(fdc)
  <2>1. PICK ok \in BOOLEAN, kept \in BOOLEAN :
          /\ kept => ok
          /\ fdc' = DmaWrite(fdc, unit, ok)
          /\ floppy' = IF kept THEN [floppy EXCEPT ![fdc.drive][Sector(fdc)] = full.buffer]
                               ELSE floppy
          /\ lost' = IF ok /\ ~kept THEN lost \cup {Sector(fdc)} ELSE lost
          /\ IF ok THEN Move(1) ELSE UNCHANGED dma
    BY <1>13 DEF MoveToFdc, WriteCard, unit, full
  <2>2. /\ DOMAIN fdc' = FdcFields /\ fdc'.command = <<>>
        /\ \/ fdc'.phase = "Command" /\ Failed(fdc'.st0.flags)
           \/ /\ ok /\ CanAdvance(fdc)
              /\ fdc'.phase = "Execute" /\ SameCommand(fdc, fdc')
              /\ fdc'.pos = 0 /\ fdc'.buffer = <<>>
              /\ IF fdc.record < fdc.eot
                 THEN fdc'.record = fdc.record + 1 /\ fdc'.head = fdc.head
                 ELSE fdc'.record = 1 /\ fdc'.head = 1
    BY <1>8, <1>13, <2>1 DEF Failed
  <2>3. CASE ~ok
    <3>1. floppy' = floppy /\ UNCHANGED dma /\ fdc'.phase = "Command"
      BY <2>1, <2>2, <2>3
    <3>2. dma' \in Transfers /\ ~Quiet' /\ Places'
      BY <1>10, <3>1
    <3> QED BY <1>1, <1>2, <2>2, <3>1, <3>2, WriteStep
  <2>4. CASE ok
    <3>1. /\ IF kept THEN /\ floppy' = [floppy EXCEPT ![fdc.drive][Sector(fdc)] = full.buffer]
                           /\ lost' = lost
                      ELSE floppy' = floppy /\ lost' = lost \cup {Sector(fdc)}
          /\ dma' \in Transfers /\ ~Quiet' /\ Moved' = Moved + 1 /\ Places'
      BY <1>9, <2>1, <2>4
    <3>2. fdc.pos + 1 = SectorSize
      BY <1>2, <1>13 DEF CompletesSector
    <3>3. /\ full.buffer \in [1 .. SectorSize -> Units]
          /\ \A i \in 1 .. SectorSize : full.buffer[i] = NewUnit(Before(fdc) + i)
          /\ \A n \in 1 .. Before(fdc) : Stands(floppy, lost, n)
          /\ serial \in Int
      BY <1>2, <1>7, <3>2 DEF Writing
    <3>4. /\ floppy' \in Floppies
          /\ \A n \in 1 .. Before(fdc) + SectorSize : Stands(floppy', lost', n)
          /\ \A d \in Inserted : \A l \in FloppySectors :
               floppy'[d][l] \in {floppy[d][l], full.buffer}
      <4>1. CASE kept
        <5>1. /\ floppy' \in Floppies
              /\ \A n \in 1 .. Before(fdc) + SectorSize : Stands(floppy', lost, n)
              /\ \A d \in Inserted : \A l \in FloppySectors :
                   floppy'[d][l] \in {floppy[d][l], full.buffer}
          BY <1>2, <1>13, <3>1, <3>3, <4>1, StoreKeeps
        <5> QED BY <3>1, <4>1, <5>1
      <4>2. CASE ~kept
        <5>1. \A n \in 1 .. Before(fdc) + SectorSize : Stands(floppy, lost', n)
          BY <1>2, <1>13, <3>1, <3>3, <4>2, LossKeeps
        <5> QED BY <1>2, <3>1, <4>2, <5>1
      <4> QED BY <4>1, <4>2
    <3>5. Whole(full.buffer, SectorSize)
      <4> DEFINE first == Before(fdc)
      <4>1. /\ first \in Int /\ full.buffer \in [1 .. SectorSize -> Units]
            /\ \A i \in 1 .. SectorSize : full.buffer[i] = NewUnit(first + i)
        BY <1>7, <3>3
      <4> HIDE DEF first
      <4> QED BY <4>1, FilledIsWhole, Zenon
    <3>6. \A d \in Inserted : \A l \in FloppySectors : Whole(floppy'[d][l], SectorSize)
      BY <1>2, <3>4, <3>5
    <3>7. fdc'.phase = "Execute" => Executing(fdc') /\ Writing(fdc', floppy', lost', Moved')
      <4> SUFFICES ASSUME fdc'.phase = "Execute"
                   PROVE  Executing(fdc') /\ Writing(fdc', floppy', lost', Moved')
        OBVIOUS
      <4>1. Executing(fdc') /\ Number(fdc') = Number(fdc) + 1
        BY <1>2, <1>13, <2>2, AdvanceExecutes
      <4>2. Before(fdc') = Before(fdc) + SectorSize
        BY <1>2, <4>1, NextBefore
      <4>3. Moved' = Before(fdc') + fdc'.pos
        BY <1>2, <1>3, <1>7, <2>2, <3>1, <3>2, <4>2
      <4>4. fdc'.pos = 0 /\ fdc'.buffer = <<>> /\ fdc'.pos < SectorSize
        BY <1>3, <2>2
      <4>5. Writing(fdc', floppy', lost', Moved')
        BY <3>4, <4>2, <4>3, <4>4 DEF Writing
      <4> QED BY <4>1, <4>5
    <3> QED BY <1>1, <1>2, <2>2, <3>1, <3>4, <3>6, <3>7, WriteStep
  <2> QED BY <2>3, <2>4
<1> QED BY <1>11, <1>12, <1>13

--------------------------------------------------------------------------------
(* The SASI bus: commands. *)

\* A SASI command has six bytes.
LEMMA SasiBytes ==
    ASSUME IsHard
    PROVE  job \in Seq(0 .. 255) /\ Len(job) = 6 /\ \A i \in 1 .. 6 : job[i] \in 0 .. 255
<1>1. job \in Seq(0 .. 255) /\ Len(job) = 6
  BY DiskAssumption DEF DiskAssumption, IsHard, CommandBytes
<1>2. ASSUME NEW i \in 1 .. 6 PROVE job[i] \in 0 .. 255
  BY <1>1, ElementOfSeq
<1> QED BY <1>1, <1>2

\* What the steps of a SASI command have in common.
LEMMA SasiStep ==
    ASSUME DiskInvariant, IsHard, guest' # "send",
           sasi' \in Buses, hard' \in Hards, dma' \in Transfers, received' \in Seq(Cells),
           asked' \in Nat, Places', HardInv', Honest',
           \A l \in DOMAIN hard' : Whole(hard'[l], SasiSectorSize),
           UNCHANGED <<floppy, fdc, iosc, table, job, serial, csr>>
    PROVE  DiskInvariant'
<1>1. Types'
  BY DEF Types, DiskInvariant
<1>2. FloppyInv'
  BY FloppyStays DEF DiskInvariant
<1>3. WholeSectors'
  <2>1. \A d \in Inserted : \A l \in FloppySectors : Whole(floppy'[d][l], SectorSize)
    BY DEF DiskInvariant, WholeSectors
  <2>2. WholeSectors' <=>
          /\ \A d \in Inserted : \A l \in FloppySectors : Whole(floppy'[d][l], SectorSize)
          /\ \A l \in DOMAIN hard' : Whole(hard'[l], SasiSectorSize)
    BY DEF WholeSectors, Whole
  <2> QED BY <2>1, <2>2
<1> QED BY <1>1, <1>2, <1>3 DEF DiskInvariant

\* Where the driver may be while it serves a SASI command.
LEMMA SasiPlaces ==
    ASSUME IsHard, job' = job, Quiet',
           guest' \in {"idle", "poll", "command", "transfer", "parameters", "status"},
           verdict' = "good" => guest' \in {"idle", "status"}
    PROVE  Places'
BY DEF Places, IsHard

\* A bus that serves a command.
LEMMA BusServes ==
    ASSUME job' = job, serial' = serial, ~HardPresent => sasi'.phase = "BusFree",
           guest' \in {"poll", "command", "transfer", "parameters", "status"},
           guest' = "transfer" => sasi'.phase \in {"DataIn", "DataOut", "Status"},
           guest' = "command" => sasi'.phase = "Command",
           guest' = "parameters" => sasi'.phase = "SpecifyParam",
           Commanded(sasi', asked'),
           sasi'.phase \in {"Selected", "Command"} => received' = <<>> /\ csr' = "none",
           DataIn(sasi', hard', received'), DataOut(sasi', Moved'),
           csr' # "ERR" => Served(sasi', hard', lost', Moved'),
           job[1] = SasiRead =>
               /\ \A n \in 1 .. Len(received') : received'[n] = HardUnit(hard', n)
               /\ csr' # "ERR" => Len(received') = Moved'
    PROVE  HardInv'
<1>1. /\ Commanded(sasi, asked)' /\ DataIn(sasi, hard, received)' /\ DataOut(sasi, Moved)'
      /\ csr' # "ERR" => Served(sasi, hard, lost, Moved)'
  BY SameBus
<1>2. job'[1] = SasiRead =>
        /\ \A n \in 1 .. Len(received') : received'[n] = HardUnit(hard, n)'
        /\ csr' # "ERR" => Len(received') = Moved'
  BY SameBus
<1> QED BY <1>1, <1>2 DEF HardInv

\* A bus whose command is over.
LEMMA BusIdles ==
    ASSUME guest' = "idle", ~HardPresent => sasi'.phase = "BusFree" PROVE HardInv'
BY DEF HardInv, Serving

\* What holds while a bus serves a command.
LEMMA ServingFacts ==
    ASSUME DiskInvariant, IsHard, guest \in {"poll", "command", "transfer", "parameters", "status"}
    PROVE  /\ ~HardPresent => sasi.phase = "BusFree"
           /\ Commanded(sasi, asked)
           /\ sasi.phase \in {"Selected", "Command"} => received = <<>> /\ csr = "none"
           /\ DataIn(sasi, hard, received) /\ DataOut(sasi, Moved)
           /\ csr # "ERR" => Served(sasi, hard, lost, Moved)
           /\ job[1] = SasiRead =>
               /\ \A n \in 1 .. Len(received) : received[n] = HardUnit(hard, n)
               /\ csr # "ERR" => Len(received) = Moved
           /\ sasi \in Buses /\ hard \in Hards /\ dma \in Transfers /\ received \in Seq(Cells)
           /\ asked \in Nat /\ serial \in Nat
           /\ \A l \in DOMAIN hard : Whole(hard[l], SasiSectorSize)
           /\ ~IsFloppy
<1>1. Serving
  BY DEF Serving
<1>2. ~IsFloppy
  BY DiskAssumption DEF DiskAssumption, IsHard, IsFloppy
<1> QED BY <1>1, <1>2 DEF DiskInvariant, HardInv, Types, WholeSectors

\* The selection: the disk answers, or there is none.
LEMMA SelectDiskHolds ==
    ASSUME DiskInvariant, SelectDisk PROVE DiskInvariant'
<1>1. /\ guest = "select" /\ Quiet /\ sasi' = Select(sasi)
      /\ guest' = IF sasi'.phase = "Selected" THEN "poll" ELSE "idle"
      /\ UNCHANGED <<floppy, hard, lost, fdc, iosc, dma, csr, received, job, asked, table, verdict, serial>>
  BY DEF SelectDisk, At, diskVars, dmaVars
<1>2. /\ IsHard /\ verdict # "good" /\ received = <<>> /\ asked = 0 /\ csr = "none"
      /\ ~HardPresent => sasi.phase = "BusFree"
      /\ sasi \in Buses /\ hard \in Hards /\ dma \in Transfers /\ received \in Seq(Cells)
      /\ asked \in Nat /\ \A l \in DOMAIN hard : Whole(hard[l], SasiSectorSize)
  BY <1>1 DEF DiskInvariant, Places, HardInv, Types, WholeSectors
<1>3. Quiet' /\ Moved' = 0
  BY <1>1, <1>2 DEF Quiet, Moved
<1>4. Places' /\ Honest'
  BY <1>1, <1>2, <1>3, SasiPlaces DEF Honest
<1>5. CASE HardPresent
  <2>1. /\ sasi' \in Buses /\ sasi'.phase = "Selected" /\ sasi'.command = <<>> /\ guest' = "poll"
    <3>1. sasi' = [sasi EXCEPT !.phase = "Selected", !.command = <<>>]
      BY <1>1, <1>5 DEF Select
    <3>2. sasi' \in Buses /\ sasi'.phase = "Selected" /\ sasi'.command = <<>>
      <4>1. <<>> \in Seq(0 .. 255)
        OBVIOUS
      <4> QED BY <1>2, <3>1, <4>1 DEF Buses
    <3> QED BY <1>1, <3>2
  <2>2. Commanded(sasi', asked')
    <3>1. Begins(<<>>)
      <4>1. Len(<<>>) = 0 /\ Len(job) = 6
        BY <1>2, SasiBytes
      <4> QED BY <4>1 DEF Begins
    <3> QED BY <1>1, <1>2, <2>1, <3>1 DEF Commanded
  <2>3. DataIn(sasi', hard', received') /\ DataOut(sasi', Moved') /\ Served(sasi', hard', lost', Moved')
    BY <2>1 DEF DataIn, DataOut, Served
  <2>4. Len(received') = 0
    BY <1>1, <1>2
  <2>5. HardInv'
    BY <1>1, <1>2, <1>3, <1>5, <2>1, <2>2, <2>3, <2>4, BusServes
  <2> QED BY <1>1, <1>2, <1>4, <2>1, <2>5, SasiStep
<1>6. CASE ~HardPresent
  <2>1. sasi' = sasi /\ guest' = "idle"
    BY <1>1, <1>2, <1>6 DEF Select
  <2>2. HardInv'
    BY <1>2, <2>1, BusIdles
  <2> QED BY <1>1, <1>2, <1>4, <2>1, <2>2, SasiStep
<1> QED BY <1>5, <1>6

\* The ROM reads the phase.
LEMMA PollSasiHolds ==
    ASSUME DiskInvariant, PollSasi PROVE DiskInvariant'
<1>1. /\ guest = "poll" /\ Quiet /\ sasi' = ReadSasiStatus(sasi)
      /\ guest' = CASE StatusOf(sasi) = "BusFree" -> "poll"
                    [] StatusOf(sasi) = "Command" -> "command"
                    [] StatusOf(sasi) \in {"DataIn", "DataOut"} -> "transfer"
                    [] StatusOf(sasi) = "SpecifyParam" -> "parameters"
                    [] OTHER -> "status"
      /\ UNCHANGED <<floppy, hard, lost, fdc, iosc, dma, csr, received, job, asked, table, verdict, serial>>
  BY DEF PollSasi, At, diskVars, dmaVars
<1>2. IsHard /\ verdict # "good"
  BY <1>1 DEF DiskInvariant, Places
<1>3. /\ ~HardPresent => sasi.phase = "BusFree"
      /\ Commanded(sasi, asked)
      /\ sasi.phase \in {"Selected", "Command"} => received = <<>> /\ csr = "none"
      /\ DataIn(sasi, hard, received) /\ DataOut(sasi, Moved)
      /\ csr # "ERR" => Served(sasi, hard, lost, Moved)
      /\ job[1] = SasiRead =>
          /\ \A n \in 1 .. Len(received) : received[n] = HardUnit(hard, n)
          /\ csr # "ERR" => Len(received) = Moved
      /\ sasi \in Buses /\ hard \in Hards /\ dma \in Transfers /\ received \in Seq(Cells)
      /\ asked \in Nat /\ \A l \in DOMAIN hard : Whole(hard[l], SasiSectorSize)
  BY <1>1, <1>2, ServingFacts
<1>4. Quiet' /\ Moved' = asked /\ Moved = asked
  BY <1>1 DEF Quiet, Moved
<1>5. CASE sasi.phase = "Selected"
  <2>1. sasi' = [sasi EXCEPT !.phase = "Command"] /\ guest' = "poll"
    BY <1>1, <1>5 DEF ReadSasiStatus, StatusOf
  <2>2. sasi' \in Buses /\ sasi'.phase = "Command" /\ sasi'.command = sasi.command
    BY <1>3, <2>1 DEF Buses
  <2>3. Commanded(sasi', asked')
    BY <1>1, <1>3, <1>5, <2>2 DEF Commanded
  <2>4. DataIn(sasi', hard', received') /\ DataOut(sasi', Moved') /\ Served(sasi', hard', lost', Moved')
    BY <2>2 DEF DataIn, DataOut, Served
  <2>5. \A n : HardUnit(hard', n) = HardUnit(hard, n)
    BY <1>1
  <2>6. HardInv'
    BY <1>1, <1>3, <1>4, <1>5, <2>1, <2>2, <2>3, <2>4, <2>5, BusServes
  <2>7. Places' /\ Honest'
    BY <1>1, <1>2, <1>4, <2>1, SasiPlaces DEF Honest
  <2> QED BY <1>1, <1>2, <1>3, <2>1, <2>2, <2>6, <2>7, SasiStep
<1>6. CASE sasi.phase # "Selected"
  <2>1. /\ sasi' = sasi
        /\ guest' = CASE sasi.phase = "BusFree" -> "poll"
                      [] sasi.phase = "Command" -> "command"
                      [] sasi.phase \in {"DataIn", "DataOut"} -> "transfer"
                      [] sasi.phase = "SpecifyParam" -> "parameters"
                      [] OTHER -> "status"
    BY <1>1, <1>6 DEF ReadSasiStatus, StatusOf
  <2>2. /\ guest' \in {"poll", "command", "transfer", "parameters", "status"}
        /\ guest' = "transfer" => sasi.phase \in {"DataIn", "DataOut", "Status"}
        /\ guest' = "command" => sasi.phase = "Command"
        /\ guest' = "parameters" => sasi.phase = "SpecifyParam"
    BY <2>1
  <2>3. Commanded(sasi', asked') /\ DataIn(sasi', hard', received') /\ DataOut(sasi', Moved')
        /\ (csr' # "ERR" => Served(sasi', hard', lost', Moved'))
    BY <1>1, <1>3, <1>4, <2>1
  <2>4. \A n : HardUnit(hard', n) = HardUnit(hard, n)
    BY <1>1
  <2>5. HardInv'
    BY <1>1, <1>3, <1>4, <2>1, <2>2, <2>3, <2>4, BusServes
  <2>6. Places' /\ Honest'
    BY <1>1, <1>2, <1>4, <2>2, SasiPlaces DEF Honest
  <2> QED BY <1>1, <1>2, <1>3, <2>1, <2>2, <2>5, <2>6, SasiStep
<1> QED BY <1>5, <1>6

\* The parameters of SPECIFY.
LEMMA SendParameterHolds ==
    ASSUME DiskInvariant, SendParameter PROVE DiskInvariant'
<1>1. /\ guest = "parameters" /\ Quiet /\ sasi' = WriteSasiData(sasi, 0, hard, TRUE)
      /\ guest' = "poll"
      /\ UNCHANGED <<floppy, hard, lost, fdc, iosc, dma, csr, received, job, asked, table, verdict, serial>>
  BY DEF SendParameter, At, diskVars, dmaVars
<1>2. IsHard /\ verdict # "good" /\ sasi.phase = "SpecifyParam"
  BY <1>1 DEF DiskInvariant, Places, HardInv
<1>3. /\ ~HardPresent => sasi.phase = "BusFree"
      /\ Commanded(sasi, asked)
      /\ sasi \in Buses /\ hard \in Hards /\ dma \in Transfers /\ received \in Seq(Cells)
      /\ asked \in Nat /\ \A l \in DOMAIN hard : Whole(hard[l], SasiSectorSize)
  BY <1>1, <1>2, ServingFacts
<1>4. Quiet' /\ Moved' = asked
  BY <1>1 DEF Quiet, Moved
<1>5. sasi.command = job /\ job[1] = SasiSpecify
  BY <1>2, <1>3 DEF Commanded
<1> DEFINE t == [sasi EXCEPT !.pos = sasi.pos + 1, !.buffer = Append(sasi.buffer, 0)]
<1>6. t \in Buses /\ t.command = job /\ t.phase = "SpecifyParam"
  <2>1. Append(sasi.buffer, 0) \in Seq(Cells)
    <3>1. sasi.buffer \in Seq(Cells) /\ 0 \in Cells
      BY <1>3 DEF Buses, Cells
    <3> QED BY <3>1, AppendProperties
  <2>2. sasi.pos + 1 \in Nat
    BY <1>3 DEF Buses
  <2> QED BY <1>2, <1>3, <1>5, <2>1, <2>2 DEF Buses
<1>7. sasi' = IF Completes(sasi) THEN FinishSasiWrite(t, TRUE) ELSE t
  BY <1>1, <1>2 DEF WriteSasiData, PutUnit
<1> HIDE DEF t
<1>8. FinishSasiWrite(t, TRUE) = [t EXCEPT !.phase = "Status"]
  BY <1>5, <1>6 DEF FinishSasiWrite, SasiSpecify, SasiWrite
<1>9. sasi' \in Buses /\ sasi'.phase \in {"SpecifyParam", "Status"} /\ sasi'.command = job
  <2>1. [t EXCEPT !.phase = "Status"] \in Buses /\ [t EXCEPT !.phase = "Status"].command = job
    BY <1>6 DEF Buses
  <2>2. [t EXCEPT !.phase = "Status"].phase = "Status"
    BY <1>6 DEF Buses
  <2> QED BY <1>6, <1>7, <1>8, <2>1, <2>2
<1>10. /\ Commanded(sasi', asked') /\ DataIn(sasi', hard', received') /\ DataOut(sasi', Moved')
       /\ Served(sasi', hard', lost', Moved')
  BY <1>5, <1>9 DEF Commanded, DataIn, DataOut, Served, SasiSpecify, SasiWrite
<1>11. HardInv'
  <2>1. job[1] # SasiRead /\ (~HardPresent => sasi'.phase = "BusFree")
    BY <1>2, <1>3, <1>5 DEF SasiSpecify, SasiRead
  <2>2. sasi'.phase \notin {"Selected", "Command"} /\ guest' = "poll" /\ job' = job /\ serial' = serial
    BY <1>1, <1>9
  <2> QED BY <1>10, <2>1, <2>2, BusServes
<1>12. Places' /\ Honest'
  BY <1>1, <1>2, <1>4, SasiPlaces DEF Honest
<1> QED BY <1>1, <1>2, <1>3, <1>9, <1>11, <1>12, SasiStep

\* The last two bytes of a command: its status, from which the driver concludes, and the
\* message; or the driver gives up.
LEMMA FinishSasiHolds ==
    ASSUME DiskInvariant, FinishSasi PROVE DiskInvariant'
<1>1. /\ guest = "status" /\ Quiet
      /\ IF sasi.phase \in {"Status", "Message"}
         THEN /\ sasi' = ReadSasiData(sasi)
              /\ verdict' = IF sasi.phase = "Message" THEN verdict
                            ELSE IF sasi.status = 0 /\ csr # "ERR" THEN "good" ELSE "bad"
              /\ guest' = IF sasi.phase = "Message" THEN "idle" ELSE "status"
         ELSE verdict' = "bad" /\ guest' = "idle" /\ UNCHANGED sasi
      /\ UNCHANGED <<floppy, hard, lost, fdc, iosc, dma, csr, received, job, asked, table, serial>>
  BY DEF FinishSasi, At, diskVars, dmaVars
<1>2. IsHard
  BY <1>1 DEF DiskInvariant, Places
<1>3. /\ ~HardPresent => sasi.phase = "BusFree"
      /\ csr # "ERR" => Served(sasi, hard, lost, Moved)
      /\ job[1] = SasiRead =>
          /\ \A n \in 1 .. Len(received) : received[n] = HardUnit(hard, n)
          /\ csr # "ERR" => Len(received) = Moved
      /\ sasi \in Buses /\ hard \in Hards /\ dma \in Transfers /\ received \in Seq(Cells)
      /\ asked \in Nat /\ \A l \in DOMAIN hard : Whole(hard[l], SasiSectorSize)
      /\ ~IsFloppy
  BY <1>1, <1>2, ServingFacts
<1>4. Quiet' /\ Moved' = asked /\ Moved = asked
  BY <1>1 DEF Quiet, Moved
<1>5. /\ IsFloppy' <=> IsFloppy
      /\ \A n : HardUnit(hard, n)' = HardUnit(hard, n)
      /\ \A n : HardUnit(hard', n) = HardUnit(hard, n)
      /\ \A n : StandsHard(hard, lost, n)' <=> StandsHard(hard, lost, n)
  BY <1>1, SameJob, SameBus
<1>6. Places'
  BY <1>1, <1>2, <1>4, SasiPlaces
<1>7. CASE sasi.phase = "Status"
  <2>1. /\ sasi' = [sasi EXCEPT !.phase = "Message"] /\ guest' = "status"
        /\ verdict' = IF sasi.status = 0 /\ csr # "ERR" THEN "good" ELSE "bad"
    BY <1>1, <1>7 DEF ReadSasiData, HasUnit
  <2>2. sasi' \in Buses /\ sasi'.phase = "Message"
    BY <1>3, <2>1 DEF Buses
  <2>3. Honest'
    <3> SUFFICES ASSUME verdict' = "good" PROVE Honest'
      BY DEF Honest
    <3>1. csr # "ERR" /\ sasi.status = 0
      BY <2>1
    <3>2. job[1] = SasiWrite => \A n \in 1 .. asked : StandsHard(hard, lost, n)
      BY <1>3, <1>4, <1>7, <3>1 DEF Served
    <3>3. job[1] = SasiRead =>
            Len(received) = asked /\ \A n \in 1 .. asked : received[n] = HardUnit(hard, n)
      BY <1>3, <1>4, <3>1
    <3> QED BY <1>1, <1>3, <1>5, <3>2, <3>3 DEF Honest
  <2>4. /\ Commanded(sasi', asked') /\ DataIn(sasi', hard', received') /\ DataOut(sasi', Moved')
        /\ Served(sasi', hard', lost', Moved')
    BY <2>2 DEF Commanded, DataIn, DataOut, Served
  <2>5. HardInv'
    BY <1>1, <1>3, <1>4, <1>5, <1>7, <2>1, <2>2, <2>4, BusServes
  <2> QED BY <1>1, <1>2, <1>3, <1>6, <2>1, <2>2, <2>3, <2>5, SasiStep
<1>8. CASE sasi.phase = "Message"
  <2>1. /\ sasi' = [sasi EXCEPT !.phase = "BusFree"] /\ guest' = "idle" /\ verdict' = verdict
    BY <1>1, <1>8 DEF ReadSasiData, HasUnit
  <2>2. sasi' \in Buses /\ sasi'.phase = "BusFree"
    BY <1>3, <2>1 DEF Buses
  <2>3. HardInv'
    BY <2>1, <2>2, BusIdles
  <2>4. Honest'
    BY <1>1, <2>1, HonestRests DEF DiskInvariant, diskVars
  <2> QED BY <1>1, <1>2, <1>3, <1>6, <2>1, <2>2, <2>3, <2>4, SasiStep
<1>9. CASE sasi.phase \notin {"Status", "Message"}
  <2>1. verdict' = "bad" /\ guest' = "idle" /\ sasi' = sasi
    BY <1>1, <1>9
  <2>2. HardInv' /\ Honest'
    BY <1>3, <2>1, BusIdles DEF Honest
  <2> QED BY <1>1, <1>2, <1>3, <1>6, <2>1, <2>2, SasiStep
<1> QED BY <1>7, <1>8, <1>9

\* A unit of the command on the disk, by the operands the machine holds.
LEMMA HardUnitAt ==
    ASSUME NEW s, s.command = job, NEW disk, NEW n
    PROVE  /\ HardPlace(n) = Lba(s) + (n - 1) \div SasiSectorSize
           /\ HardUnit(disk, n)
                = disk[Lba(s) + (n - 1) \div SasiSectorSize][((n - 1) % SasiSectorSize) + 1]
BY DEF HardUnit, HardPlace, Lba

\* A disk is a function from its sectors to their contents.
LEMMA HardSectorsAre ==
    ASSUME NEW sectors \in SUBSET Int, NEW disk
    PROVE  disk \in [sectors -> [1 .. SasiSectorSize -> Units]] => disk \in Hards
BY DEF Hards

\* Its sectors are numbered, and hold units.
LEMMA SectorsOfHard ==
    ASSUME NEW disk \in Hards
    PROVE  /\ DOMAIN disk \subseteq Int
           /\ \A l \in DOMAIN disk : disk[l] \in [1 .. SasiSectorSize -> Units]
<1>1. PICK sectors \in SUBSET Int : disk \in [sectors -> [1 .. SasiSectorSize -> Units]]
  BY DEF Hards
<1> QED BY <1>1

\* What a command asks for is a number of sectors, at least one.
LEMMA RequestedType ==
    ASSUME IsHard, NEW s, s.command = job
    PROVE  /\ Requested(s) \in Nat /\ Requested(s) > 0 /\ Lba(s) \in Nat
<1>1. \A i \in 1 .. 6 : job[i] \in 0 .. 255
  BY SasiBytes
<1>2. CountZero \in Nat /\ CountZero > 0
  BY SasiAssumption DEF SasiAssumption
<1>3. Requested(s) \in Nat /\ Requested(s) > 0
  <2> DEFINE count == job[5]
  <2>1. count \in 0 .. 255 /\ Requested(s) = IF count = 0 THEN CountZero ELSE count
    BY <1>1 DEF Requested
  <2> HIDE DEF count
  <2> QED BY <1>2, <2>1
<1>4. Lba(s) \in Nat
  <2> DEFINE a == job[2]
             b == job[3]
             c == job[4]
  <2>1. a \in 0 .. 255 /\ b \in 0 .. 255 /\ c \in 0 .. 255
        /\ Lba(s) = (a % 32) * 65536 + b * 256 + c
    BY <1>1 DEF Lba
  <2> HIDE DEF a, b, c
  <2>2. a % 32 \in Nat
    BY <2>1
  <2> QED BY <2>1, <2>2
<1> QED BY <1>3, <1>4

\* The units of a read are units of the disk.
LEMMA UnitsInImage ==
    ASSUME IsHard, NEW s, s.command = job, NEW disk \in Hards, InImage(s, disk),
           NEW i \in 1 .. Requested(s) * SasiSectorSize
    PROVE  HardUnit(disk, i) \in Units
<1> DEFINE r == Requested(s)
           base == Lba(s)
           l == base + (i - 1) \div 2
           k == ((i - 1) % 2) + 1
<1>1. r \in Nat /\ base \in Nat /\ base .. base + r - 1 \subseteq DOMAIN disk
  BY RequestedType DEF InImage
<1>2. HardUnit(disk, i) = disk[l][k]
  BY HardUnitAt DEF SasiSectorSize
<1>3. i \in 1 .. r * 2
  BY DEF SasiSectorSize
<1> HIDE DEF r, base
<1>4. l \in base .. base + r - 1 /\ k \in 1 .. 2
  BY <1>1, <1>3
<1> HIDE DEF l, k
<1>5. l \in DOMAIN disk /\ disk[l] \in [1 .. 2 -> Units]
  BY <1>1, <1>4, SectorsOfHard DEF SasiSectorSize
<1> QED BY <1>2, <1>4, <1>5

\* The sixth byte of a command: what the bus is about to do.
LEMMA BeginServes ==
    ASSUME IsHard, NEW s \in Buses, s.command = job, s.phase = "Command", NEW disk \in Hards,
           NEW ok \in BOOLEAN, NEW gone
    PROVE  LET b == Begin(s, disk, ok)
           IN  /\ b \in Buses /\ b.command = job
               /\ b.phase \in {"SpecifyParam", "Status", "DataIn", "DataOut"}
               /\ Commanded(b, 0) /\ DataIn(b, disk, <<>>) /\ DataOut(b, 0) /\ Served(b, disk, gone, 0)
<1> DEFINE t == [s EXCEPT !.status = 0, !.pos = 0, !.length = 0, !.buffer = <<>>]
           failed == [t EXCEPT !.status = 2, !.phase = "Status"]
           sectors == Requested(s)
           fits == sectors <= MaxSectors
           units == sectors * SasiSectorSize
           Unit(i) == disk[Lba(s) + (i - 1) \div SasiSectorSize][((i - 1) % SasiSectorSize) + 1]
           parameters == [t EXCEPT !.length = SpecifyParamBytes, !.phase = "SpecifyParam"]
           done == [t EXCEPT !.phase = "Status"]
           sense == [t EXCEPT !.buffer = <<0>>, !.length = 1, !.phase = "DataIn"]
           content == [i \in 1 .. units |-> Unit(i)]
           reads == [t EXCEPT !.length = units, !.buffer = content, !.phase = "DataIn"]
           writes == [t EXCEPT !.length = units, !.phase = "DataOut"]
           Good(b) == /\ b \in Buses /\ b.command = job
                      /\ b.phase \in {"SpecifyParam", "Status", "DataIn", "DataOut"}
                      /\ Commanded(b, 0) /\ DataIn(b, disk, <<>>) /\ DataOut(b, 0)
                      /\ Served(b, disk, gone, 0)
<1>1. sectors \in Nat /\ sectors > 0
  BY RequestedType
<1>2. t \in Buses /\ t.command = job /\ t.status = 0 /\ t.pos = 0 /\ t.buffer = <<>>
  <2>1. <<>> \in Seq(Cells) /\ 0 \in Int /\ 0 \in Nat
    OBVIOUS
  <2> QED BY <2>1 DEF Buses
<1>3. \/ Begin(s, disk, ok) = parameters /\ job[1] = SasiSpecify
      \/ Begin(s, disk, ok) \in {done, failed}
      \/ Begin(s, disk, ok) = sense /\ job[1] = SasiRequestSense
      \/ Begin(s, disk, ok) = reads /\ job[1] = SasiRead /\ InImage(s, disk)
      \/ Begin(s, disk, ok) = writes /\ job[1] = SasiWrite
  <2> HIDE DEF parameters, done, failed, sense, reads, writes, fits
  <2>1. Begin(s, disk, ok) =
          CASE s.command[1] = SasiSpecify -> parameters
            [] s.command[1] \in {SasiTestUnitReady, SasiRezeroUnit, SasiSeek} ->
                 IF HardPresent THEN done ELSE failed
            [] s.command[1] = SasiRequestSense -> sense
            [] s.command[1] = SasiRead /\ fits /\ ok /\ InImage(s, disk) -> reads
            [] s.command[1] = SasiWrite /\ fits -> writes
            [] OTHER -> failed
    BY DEF Begin, parameters, done, failed, sense, reads, writes, fits
  <2> HIDE DEF sectors, units, t
  <2> DEFINE b == Begin(s, disk, ok)
             op == job[1]
  <2>2. b = CASE op = SasiSpecify -> parameters
              [] op \in {SasiTestUnitReady, SasiRezeroUnit, SasiSeek} ->
                   IF HardPresent THEN done ELSE failed
              [] op = SasiRequestSense -> sense
              [] op = SasiRead /\ fits /\ ok /\ InImage(s, disk) -> reads
              [] op = SasiWrite /\ fits -> writes
              [] OTHER -> failed
    BY <2>1
  <2> HIDE DEF b, op
  <2>3. \/ b = parameters /\ op = SasiSpecify
        \/ b \in {done, failed}
        \/ b = sense /\ op = SasiRequestSense
        \/ b = reads /\ op = SasiRead /\ InImage(s, disk)
        \/ b = writes /\ op = SasiWrite
    BY <2>2, SMT DEF SasiSpecify, SasiTestUnitReady, SasiRezeroUnit, SasiSeek, SasiRequestSense, SasiRead, SasiWrite
  <2> HIDE DEF parameters, done, failed, sense, reads, writes
  <2> QED BY <2>3, Zenon DEF b, op
<1> HIDE DEF t
<1>4. ASSUME job[1] = SasiSpecify PROVE Good(parameters)
  <2>1. parameters \in Buses /\ parameters.command = job /\ parameters.phase = "SpecifyParam"
    BY <1>2 DEF Buses, SpecifyParamBytes
  <2> HIDE DEF parameters
  <2> QED BY <1>4, <2>1 DEF Commanded, DataIn, DataOut, Served
<1>5. Good(done)
  <2>1. done \in Buses /\ done.command = job /\ done.phase = "Status"
    BY <1>2 DEF Buses
  <2> HIDE DEF done
  <2> QED BY <2>1 DEF Commanded, DataIn, DataOut, Served
<1>6. Good(failed)
  <2> DEFINE wrong == [t EXCEPT !.status = 2]
  <2>1. wrong \in Buses /\ wrong.command = job
    <3>1. 2 \in Int
      OBVIOUS
    <3> QED BY <1>2, <3>1, Zenon DEF Buses
  <2>2. failed = [wrong EXCEPT !.phase = "Status"]
    BY <1>2 DEF Buses
  <2> HIDE DEF wrong
  <2>3. failed \in Buses /\ failed.command = job /\ failed.phase = "Status"
    BY <2>1, <2>2 DEF Buses
  <2> HIDE DEF failed
  <2> QED BY <2>3 DEF Commanded, DataIn, DataOut, Served
<1>7. ASSUME job[1] = SasiRequestSense PROVE Good(sense)
  <2>1. <<0>> \in Seq(Cells) /\ Len(<<0>>) = 1
    BY DEF Cells
  <2>2. /\ sense \in Buses /\ sense.command = job /\ sense.phase = "DataIn"
        /\ sense.buffer = <<0>> /\ sense.length = 1 /\ sense.pos = 0
    BY <1>2, <2>1 DEF Buses
  <2> HIDE DEF sense
  <2> QED BY <1>7, <2>1, <2>2 DEF Commanded, DataIn, DataOut, Served, SasiRequestSense, SasiRead
<1>8. ASSUME job[1] = SasiRead, InImage(s, disk) PROVE Good(reads)
  <2>1. units \in Nat /\ units > 0
    BY <1>1 DEF SasiSectorSize
  <2>2. \A i \in 1 .. units : Unit(i) = HardUnit(disk, i) /\ HardUnit(disk, i) \in Units
    BY <1>8, HardUnitAt, UnitsInImage
  <2> HIDE DEF units, Unit
  <2>3. content \in Seq(Cells) /\ Len(content) = units
        /\ \A i \in 1 .. units : content[i] = HardUnit(disk, i)
    <3>1. \A i \in 1 .. units : Unit(i) \in Cells
      BY <2>2 DEF Cells
    <3> QED BY <2>1, <2>2, <3>1
  <2> HIDE DEF content
  <2>4. /\ reads \in Buses /\ reads.command = job /\ reads.phase = "DataIn"
        /\ reads.buffer = content /\ reads.length = units /\ reads.pos = 0
    BY <1>2, <2>1, <2>3 DEF Buses
  <2>5. Len(<<>>) = 0
    OBVIOUS
  <2> HIDE DEF reads
  <2>6. DataIn(reads, disk, <<>>)
    BY <1>8, <2>1, <2>3, <2>4, <2>5 DEF DataIn
  <2> QED BY <2>4, <2>6 DEF Commanded, DataOut, Served
<1>9. ASSUME job[1] = SasiWrite PROVE Good(writes)
  <2>1. units \in Nat /\ units > 0 /\ units = SasiSectorSize * sectors
    BY <1>1 DEF SasiSectorSize
  <2> HIDE DEF units
  <2>2. /\ writes \in Buses /\ writes.command = job /\ writes.phase = "DataOut"
        /\ writes.buffer = <<>> /\ writes.length = units /\ writes.pos = 0 /\ writes.status = 0
    BY <1>2, <2>1 DEF Buses
  <2> HIDE DEF writes
  <2>3. Requested(writes) = sectors
    BY <2>2 DEF Requested
  <2> HIDE DEF sectors
  <2>4. Len(<<>>) = 0
    OBVIOUS
  <2>5. DataOut(writes, 0)
    BY <1>9, <2>1, <2>2, <2>3, <2>4 DEF DataOut
  <2> QED BY <2>2, <2>5 DEF Commanded, DataIn, Served
<1> HIDE DEF Good
<1>10. Good(Begin(s, disk, ok))
  BY <1>3, <1>4, <1>5, <1>6, <1>7, <1>8, <1>9, Zenon
<1> QED BY <1>10 DEF Good

\* A byte of a command: the machine holds the beginning of it, and starts it with the last.
LEMMA SendSasiByteHolds ==
    ASSUME DiskInvariant, SendSasiByte PROVE DiskInvariant'
<1>1. PICK ok \in BOOLEAN : sasi' = WriteSasiData(sasi, job[Len(sasi.command) + 1], hard, ok)
  BY DEF SendSasiByte
<1>2. /\ guest = "command" /\ Quiet /\ guest' = "poll"
      /\ UNCHANGED <<floppy, hard, lost, fdc, iosc, dma, csr, received, job, asked, table, verdict, serial>>
  BY DEF SendSasiByte, At, diskVars, dmaVars
<1>3. IsHard /\ verdict # "good" /\ sasi.phase = "Command"
  BY <1>2 DEF DiskInvariant, Places, HardInv
<1>4. /\ ~HardPresent => sasi.phase = "BusFree"
      /\ Commanded(sasi, asked)
      /\ received = <<>> /\ csr = "none"
      /\ sasi \in Buses /\ hard \in Hards /\ dma \in Transfers /\ received \in Seq(Cells)
      /\ asked \in Nat /\ \A l \in DOMAIN hard : Whole(hard[l], SasiSectorSize)
  BY <1>2, <1>3, ServingFacts
<1>5. Begins(sasi.command) /\ asked = 0
  BY <1>3, <1>4 DEF Commanded
<1>6. Quiet' /\ Moved' = 0
  BY <1>2, <1>5 DEF Quiet, Moved
<1> DEFINE c == sasi.command
           d == Append(c, job[Len(c) + 1])
           t == [sasi EXCEPT !.command = d]
<1>7. /\ job \in Seq(0 .. 255) /\ Len(job) = 6 /\ \A i \in 1 .. 6 : job[i] \in 0 .. 255
  BY <1>3, SasiBytes
<1>8. c \in Seq(0 .. 255) /\ Len(c) \in Nat /\ Len(c) < 6 /\ \A i \in 1 .. Len(c) : c[i] = job[i]
  BY <1>4, <1>5, <1>7 DEF Buses, Begins
<1>9. /\ d \in Seq(0 .. 255) /\ Len(d) = Len(c) + 1 /\ \A i \in 1 .. Len(d) : d[i] = job[i]
  <2>1. job[Len(c) + 1] \in 0 .. 255
    <3>1. Len(c) + 1 \in 1 .. 6
      BY <1>8
    <3> QED BY <1>7, <3>1
  <2>2. /\ d \in Seq(0 .. 255) /\ Len(d) = Len(c) + 1
        /\ \A i \in 1 .. Len(c) : d[i] = c[i]
        /\ d[Len(c) + 1] = job[Len(c) + 1]
    BY <1>8, <2>1, AppendProperties
  <2>3. ASSUME NEW i \in 1 .. Len(d) PROVE d[i] = job[i]
    <3>1. i \in 1 .. Len(c) \/ i = Len(c) + 1
      BY <1>8, <2>2
    <3> QED BY <1>8, <2>2, <3>1
  <2> QED BY <2>2, <2>3
<1>10. sasi' = IF Len(t.command) < CommandBytes THEN t ELSE Begin(t, hard, ok)
  BY <1>1, <1>3 DEF WriteSasiData
<1> HIDE DEF c, d
<1>11. t \in Buses /\ t.command = d /\ t.phase = "Command"
  BY <1>3, <1>4, <1>9 DEF Buses
<1> HIDE DEF t
<1>12. Places' /\ Honest'
  BY <1>2, <1>3, <1>6, SasiPlaces DEF Honest
<1>13. HardPresent
  BY <1>3, <1>4
<1>14. Len(received') = 0
  BY <1>2, <1>4
<1>15. CASE Len(d) < 6
  <2>1. sasi' = t
    BY <1>10, <1>11, <1>15 DEF CommandBytes
  <2>2. Commanded(sasi', asked')
    BY <1>2, <1>5, <1>7, <1>9, <1>11, <1>15, <2>1 DEF Commanded, Begins
  <2>3. DataIn(sasi', hard', received') /\ DataOut(sasi', Moved') /\ Served(sasi', hard', lost', Moved')
    BY <1>11, <2>1 DEF DataIn, DataOut, Served
  <2>4. HardInv'
    BY <1>2, <1>4, <1>6, <1>11, <1>13, <1>14, <2>1, <2>2, <2>3, BusServes
  <2> QED BY <1>2, <1>3, <1>4, <1>11, <1>12, <2>1, <2>4, SasiStep
<1>16. CASE ~(Len(d) < 6)
  <2>1. d = job
    <3>1. Len(d) = Len(job) /\ Len(job) = 6
      BY <1>7, <1>8, <1>9, <1>16
    <3> QED BY <1>7, <1>9, <3>1, SeqEqual
  <2>2. sasi' = Begin(t, hard, ok)
    BY <1>10, <1>11, <1>16 DEF CommandBytes
  <2>3. /\ sasi' \in Buses
        /\ sasi'.phase \in {"SpecifyParam", "Status", "DataIn", "DataOut"}
        /\ Commanded(sasi', 0) /\ DataIn(sasi', hard, <<>>) /\ DataOut(sasi', 0)
        /\ Served(sasi', hard, lost, 0)
    BY <1>3, <1>4, <1>11, <2>1, <2>2, BeginServes
  <2>4. /\ Commanded(sasi', asked') /\ DataIn(sasi', hard', received') /\ DataOut(sasi', Moved')
        /\ Served(sasi', hard', lost', Moved')
    BY <1>2, <1>4, <1>5, <1>6, <2>3
  <2>5. HardInv'
    BY <1>2, <1>4, <1>6, <1>13, <1>14, <2>3, <2>4, BusServes
  <2> QED BY <1>2, <1>3, <1>4, <1>12, <2>3, <2>5, SasiStep
<1> QED BY <1>15, <1>16

--------------------------------------------------------------------------------
(* The SASI bus: data. *)

\* What is received grows by units of the buffer.
Grown(units, more, n) ==
    /\ more \in Seq(Cells) /\ Len(more) = Len(units) + n
    /\ \A k \in 1 .. Len(units) : more[k] = units[k]
    /\ \A k \in 1 .. n : more[Len(units) + k] = sasi.buffer[sasi.pos + k]

\* Units of the buffer, by the DMAC or by hand: they are the next of the disk's.
LEMMA TakeServes ==
    ASSUME DiskInvariant, IsHard, HasUnit(sasi), csr = "none",
           guest \in {"poll", "command", "transfer", "parameters", "status"},
           NEW n \in Nat, n > 0, sasi.pos + n <= sasi.length, Grown(received, received', n),
           guest' \in {"poll", "transfer"}, asked' \in Nat, Moved' = Moved + n, Moved \in Int,
           dma' \in Transfers, Places', verdict # "good", sasi' = TakeUnits(sasi, n),
           UNCHANGED <<floppy, hard, lost, fdc, iosc, table, job, serial, csr, verdict>>
    PROVE  DiskInvariant'
<1>1. /\ HardPresent \/ sasi.phase = "BusFree"
      /\ DataIn(sasi, hard, received)
      /\ job[1] = SasiRead =>
          /\ \A k \in 1 .. Len(received) : received[k] = HardUnit(hard, k)
          /\ csr # "ERR" => Len(received) = Moved
      /\ sasi \in Buses /\ hard \in Hards /\ received \in Seq(Cells)
      /\ \A l \in DOMAIN hard : Whole(hard[l], SasiSectorSize)
  BY ServingFacts
<1>2. sasi.phase = "DataIn" /\ sasi.pos < sasi.length
  BY DEF HasUnit
<1>3. /\ job[1] \in {SasiRead, SasiRequestSense} /\ Len(sasi.buffer) = sasi.length
      /\ job[1] = SasiRead =>
          sasi.pos = Len(received) /\ \A i \in 1 .. sasi.length : sasi.buffer[i] = HardUnit(hard, i)
  BY <1>1, <1>2 DEF DataIn
<1> DEFINE pos == sasi.pos + n
           phase == IF pos >= sasi.length THEN "Status" ELSE sasi.phase
<1>4. sasi.pos \in Nat /\ sasi.length \in Nat /\ pos \in Nat
  BY <1>1 DEF Buses
<1>5. sasi' = [sasi EXCEPT !.pos = pos, !.phase = phase]
  BY DEF TakeUnits
<1> HIDE DEF pos
<1>6. /\ phase \in {"DataIn", "Status"} /\ (phase = "DataIn" => pos < sasi.length)
  BY <1>2, <1>4
<1> HIDE DEF phase
<1>7. /\ sasi' \in Buses /\ sasi'.phase = phase /\ sasi'.pos = pos
      /\ sasi'.length = sasi.length /\ sasi'.buffer = sasi.buffer
  BY <1>1, <1>4, <1>5, <1>6 DEF Buses
<1>8. job[1] = SasiRead =>
        /\ pos = Len(received')
        /\ \A k \in 1 .. Len(received') : received'[k] = HardUnit(hard, k)
        /\ Len(received') = Moved'
  <2> SUFFICES ASSUME job[1] = SasiRead
               PROVE  /\ pos = Len(received')
                      /\ \A k \in 1 .. Len(received') : received'[k] = HardUnit(hard, k)
                      /\ Len(received') = Moved'
    OBVIOUS
  <2>1. pos = Len(received') /\ Len(received') = Moved'
    BY <1>1, <1>3 DEF Grown, pos
  <2>2. ASSUME NEW k \in 1 .. Len(received') PROVE received'[k] = HardUnit(hard, k)
    <3>1. CASE k <= Len(received)
      <4>1. k \in 1 .. Len(received)
        BY <3>1
      <4> QED BY <1>1, <4>1 DEF Grown
    <3>2. CASE ~(k <= Len(received))
      <4> DEFINE j == k - Len(received)
      <4>1. Len(received) \in Nat
        BY <1>1
      <4>2. j \in 1 .. n /\ k = Len(received) + j /\ k = sasi.pos + j /\ k \in 1 .. sasi.length
        <5>1. Len(received') = Len(received) + n /\ sasi.pos = Len(received)
          BY <1>3 DEF Grown
        <5> QED BY <1>4, <3>2, <4>1, <5>1
      <4>3. received'[k] = sasi.buffer[k]
        BY <4>2 DEF Grown
      <4> QED BY <1>3, <4>2, <4>3
    <3> QED BY <3>1, <3>2
  <2> QED BY <2>1, <2>2
<1>9. DataIn(sasi', hard', received')
  BY <1>3, <1>6, <1>7, <1>8 DEF DataIn
<1>10. /\ Commanded(sasi', asked') /\ DataOut(sasi', Moved') /\ Served(sasi', hard', lost', Moved')
  <2>1. job[1] # SasiWrite
    BY <1>3 DEF SasiRead, SasiRequestSense, SasiWrite
  <2> QED BY <1>6, <1>7, <2>1 DEF Commanded, DataOut, Served
<1>11. HardInv'
  <2>1. \A k : HardUnit(hard', k) = HardUnit(hard, k)
    OBVIOUS
  <2>2. HardPresent
    BY <1>1, <1>2
  <2>3. sasi'.phase \in {"DataIn", "Status"}
    BY <1>6, <1>7
  <2> QED BY <1>8, <1>9, <1>10, <2>1, <2>2, <2>3, BusServes
<1>12. Honest' /\ received' \in Seq(Cells)
  BY DEF Honest, Grown
<1> QED BY <1>1, <1>7, <1>11, <1>12, SasiStep

\* One unit of the buffer more.
LEMMA GrownByOne ==
    ASSUME received \in Seq(Cells), sasi \in Buses, HasUnit(sasi), Len(sasi.buffer) = sasi.length,
           received' = Append(received, sasi.buffer[sasi.pos + 1])
    PROVE  Grown(received, received', 1) /\ sasi.pos + 1 <= sasi.length
<1> DEFINE v == sasi.buffer[sasi.pos + 1]
<1>1. sasi.buffer \in Seq(Cells) /\ sasi.pos \in Nat /\ sasi.length \in Nat /\ sasi.pos < sasi.length
  BY DEF HasUnit, Buses
<1>2. sasi.pos + 1 \in 1 .. Len(sasi.buffer)
  BY <1>1
<1>3. v \in Cells
  BY <1>1, <1>2, ElementOfSeq
<1> HIDE DEF v
<1>4. /\ received' \in Seq(Cells) /\ Len(received') = Len(received) + 1
      /\ \A i \in 1 .. Len(received) : received'[i] = received[i]
      /\ received'[Len(received) + 1] = v
  BY <1>3, AppendProperties DEF v
<1>5. \A k \in 1 .. 1 : k = 1
  OBVIOUS
<1> QED BY <1>1, <1>4, <1>5 DEF Grown, v

\* Several units of the buffer more.
LEMMA GrownByMany ==
    ASSUME received \in Seq(Cells), sasi \in Buses, Len(sasi.buffer) = sasi.length,
           NEW n \in Nat, sasi.pos + n <= sasi.length,
           received' = received \o SubSeq(sasi.buffer, sasi.pos + 1, sasi.pos + n)
    PROVE  Grown(received, received', n)
<1> DEFINE b == sasi.buffer
           p == sasi.pos
           piece == SubSeq(b, p + 1, p + n)
<1>1. b \in Seq(Cells) /\ p \in Nat /\ p + n <= Len(b)
  BY DEF Buses
<1> HIDE DEF b, p
<1>2. \A i \in p + 1 .. p + n : b[i] \in Cells
  <2> TAKE i \in p + 1 .. p + n
  <2>1. i \in 1 .. Len(b)
    BY <1>1
  <2> QED BY <1>1, <2>1, ElementOfSeq
<1>3. /\ piece \in Seq(Cells) /\ Len(piece) = n /\ \A i \in 1 .. n : piece[i] = b[p + i]
  <2> DEFINE first == p + 1
             last == p + n
  <2>1. first \in Int /\ last \in Int /\ \A i \in first .. last : b[i] \in Cells
    BY <1>1, <1>2
  <2> HIDE DEF first, last
  <2>2. /\ SubSeq(b, first, last) \in Seq(Cells)
        /\ Len(SubSeq(b, first, last)) = IF first <= last THEN last - first + 1 ELSE 0
        /\ \A i \in 1 .. last - first + 1 : SubSeq(b, first, last)[i] = b[first + i - 1]
    BY <2>1, SubSeqProperties
  <2>3. piece = SubSeq(b, first, last)
    BY DEF first, last
  <2>4. (IF first <= last THEN last - first + 1 ELSE 0) = n /\ last - first + 1 = n
    BY <1>1 DEF first, last
  <2>5. \A i \in 1 .. n : b[first + i - 1] = b[p + i]
    BY <1>1 DEF first
  <2> HIDE DEF piece
  <2> QED BY <2>2, <2>3, <2>4, <2>5
<1>5. received' = received \o piece
  BY DEF b, p
<1> HIDE DEF piece
<1>6. /\ received' \in Seq(Cells) /\ Len(received') = Len(received) + Len(piece)
      /\ \A i \in 1 .. Len(received) + Len(piece) : received'[i] =
           IF i <= Len(received) THEN received[i] ELSE piece[i - Len(received)]
  <2>1. /\ received \o piece \in Seq(Cells)
        /\ Len(received \o piece) = Len(received) + Len(piece)
        /\ \A i \in 1 .. Len(received) + Len(piece) : (received \o piece)[i] =
             IF i <= Len(received) THEN received[i] ELSE piece[i - Len(received)]
    BY <1>3, ConcatProperties
  <2> QED BY <1>5, <2>1
<1>7. Len(received) \in Nat
  OBVIOUS
<1>8. \A k \in 1 .. Len(received) : received'[k] = received[k]
  BY <1>3, <1>6, <1>7
<1>9. ASSUME NEW k \in 1 .. n PROVE received'[Len(received) + k] = b[p + k]
  <2> DEFINE m == Len(received) + k
  <2>1. m \in 1 .. Len(received) + Len(piece) /\ ~(m <= Len(received)) /\ m - Len(received) = k
    BY <1>3, <1>7
  <2> HIDE DEF m
  <2>2. received'[m] = piece[m - Len(received)]
    BY <1>6, <2>1
  <2> QED BY <1>3, <2>1, <2>2 DEF m
<1> QED BY <1>3, <1>6, <1>8, <1>9 DEF Grown, b, p

\* What holds when the SASI channel moves a unit.
LEMMA SasiMoves ==
    ASSUME DiskInvariant, dma.channel = "SASI"
    PROVE  ~Quiet /\ guest = "transfer" /\ csr = "none" /\ IsHard /\ ~IsFloppy /\ verdict # "good"
<1>1. ~Quiet
  BY DEF Quiet, NoDma
<1>2. guest = "transfer" /\ csr = "none" /\ ~IsFloppy /\ (DataCommand \/ IsHard) /\ verdict # "good"
  BY <1>1 DEF DiskInvariant, Places
<1> QED BY <1>1, <1>2 DEF DataCommand, IsFloppy

\* All there is at once.
LEMMA MoveBlockHolds ==
    ASSUME DiskInvariant, MoveBlock PROVE DiskInvariant'
<1> DEFINE rest == sasi.length - sasi.pos
           n == IF dma.left < rest THEN dma.left ELSE rest
<1>1. /\ dma.channel = "SASI" /\ dma.left > 0 /\ HasUnit(sasi)
      /\ received' = received \o SubSeq(sasi.buffer, sasi.pos + 1, sasi.pos + n)
      /\ sasi' = TakeUnits(sasi, n) /\ Move(n)
      /\ UNCHANGED <<floppy, hard, lost, fdc, iosc, csr, guest, job, asked, table, verdict, serial>>
  BY DEF MoveBlock, Moving, diskVars, guestVars
<1>2. ~Quiet /\ guest = "transfer" /\ csr = "none" /\ IsHard /\ verdict # "good"
  BY <1>1, SasiMoves
<1>3. DataIn(sasi, hard, received) /\ sasi \in Buses /\ dma \in Transfers
      /\ received \in Seq(Cells) /\ asked \in Nat
  BY <1>2, ServingFacts
<1>4. Len(sasi.buffer) = sasi.length /\ sasi.pos < sasi.length
  BY <1>1, <1>3 DEF DataIn, HasUnit
<1>5. n \in Nat /\ n > 0 /\ n <= dma.left /\ sasi.pos + n <= sasi.length
  BY <1>1, <1>3, <1>4 DEF Buses, Transfers
<1> HIDE DEF n
<1>6. /\ dma' \in Transfers /\ Moved' = Moved + n /\ Places' /\ Moved \in Int
  BY <1>1, <1>5, MoveCounts
<1>7. Grown(received, received', n)
  BY <1>1, <1>3, <1>4, <1>5, GrownByMany
<1> QED BY <1>1, <1>2, <1>3, <1>5, <1>6, <1>7, TakeServes

\* A unit from the disk by the DMAC.
LEMMA MoveFromSasiHolds ==
    ASSUME DiskInvariant, MoveFromSasi PROVE DiskInvariant'
<1>1. /\ dma.channel = "SASI" /\ dma.left > 0 /\ HasUnit(sasi)
      /\ received' = Append(received, sasi.buffer[sasi.pos + 1])
      /\ sasi' = TakeUnits(sasi, 1) /\ Move(1)
      /\ UNCHANGED <<floppy, hard, lost, fdc, iosc, csr, guest, job, asked, table, verdict, serial>>
  BY DEF MoveFromSasi, Moving, diskVars, guestVars
<1>2. ~Quiet /\ guest = "transfer" /\ csr = "none" /\ IsHard /\ verdict # "good"
  BY <1>1, SasiMoves
<1>3. DataIn(sasi, hard, received) /\ sasi \in Buses /\ dma \in Transfers
      /\ received \in Seq(Cells) /\ asked \in Nat
  BY <1>2, ServingFacts
<1>4. Len(sasi.buffer) = sasi.length
  BY <1>1, <1>3 DEF DataIn, HasUnit
<1>5. 1 <= dma.left /\ dma.channel # "none"
  BY <1>1, <1>3 DEF Transfers
<1>6. /\ dma' \in Transfers /\ Moved' = Moved + 1 /\ Places' /\ Moved \in Int
  BY <1>1, <1>5, MoveCounts
<1>7. Grown(received, received', 1) /\ sasi.pos + 1 <= sasi.length
  BY <1>1, <1>3, <1>4, GrownByOne
<1> QED BY <1>1, <1>2, <1>3, <1>6, <1>7, TakeServes

\* A sector of the buffer.
LEMMA BufferSector ==
    ASSUME NEW b, NEW n \in Nat, \A i \in 1 .. 2 * n : b[i] = NewUnit(i), serial \in Nat,
           NEW j \in 0 .. n - 1
    PROVE  LET s == SubSeq(b, j * 2 + 1, (j + 1) * 2)
           IN  s \in [1 .. 2 -> Units] /\ s[1] = NewUnit(j * 2 + 1) /\ s[2] = NewUnit(j * 2 + 2)
<1> DEFINE first == j * 2 + 1
           last == (j + 1) * 2
           s == SubSeq(b, first, last)
<1>1. first \in Int /\ last \in Int /\ first <= last /\ last - first + 1 = 2
      /\ first \in 1 .. 2 * n /\ first + 1 \in 1 .. 2 * n /\ first + 1 = j * 2 + 2
      /\ \A i \in first .. last : i \in 1 .. 2 * n
  OBVIOUS
<1> HIDE DEF first, last
<1>2. \A i \in first .. last : b[i] \in Units
  <2> TAKE i \in first .. last
  <2>1. b[i] = NewUnit(i) /\ i \in Int
    BY <1>1
  <2> QED BY <2>1 DEF NewUnit, Units
<1>3. /\ s \in Seq(Units)
      /\ Len(s) = IF first <= last THEN last - first + 1 ELSE 0
      /\ \A i \in 1 .. last - first + 1 : s[i] = b[first + i - 1]
  <2>1. first \in Int /\ last \in Int
    BY <1>1
  <2>2. /\ SubSeq(b, first, last) \in Seq(Units)
        /\ Len(SubSeq(b, first, last)) = IF first <= last THEN last - first + 1 ELSE 0
        /\ \A i \in 1 .. last - first + 1 : SubSeq(b, first, last)[i] = b[first + i - 1]
    BY <1>2, <2>1, SubSeqProperties
  <2> QED BY <2>2
<1> HIDE DEF s
<1>4. Len(s) = 2 /\ s[1] = b[first] /\ s[2] = b[first + 1]
  BY <1>1, <1>3
<1>5. s \in [1 .. 2 -> Units]
  BY <1>3, <1>4, LenProperties
<1>6. s[1] = NewUnit(first) /\ s[2] = NewUnit(first + 1)
  BY <1>1, <1>4
<1> QED BY <1>1, <1>5, <1>6 DEF s, first, last

\* Two units of one command that follow each other are a whole sector.
LEMMA TwoAreWhole ==
    ASSUME NEW s, NEW k \in Int, s \in [1 .. 2 -> Units], s[1] = NewUnit(k), s[2] = NewUnit(k + 1)
    PROVE  Whole(s, SasiSectorSize)
<1>1. s[1] = <<serial, k>> /\ s[2] = <<serial, k + 1>>
  BY DEF NewUnit
<1>2. s[1][1] = serial /\ s[1][2] = k
  BY <1>1
<1>3. ASSUME NEW i \in 1 .. 2 PROVE s[i] = <<s[1][1], s[1][2] + i - 1>>
  <2>1. CASE i = 1
    BY <1>1, <1>2, <2>1
  <2>2. CASE i = 2
    BY <1>1, <1>2, <2>2
  <2> QED BY <2>1, <2>2
<1>4. s = [i \in 1 .. 2 |-> s[i]]
  OBVIOUS
<1> QED BY <1>3, <1>4 DEF Whole, SasiSectorSize

\* The old contents of a disk are whole sectors.
LEMMA OldSectors ==
    ASSUME NEW lba \in Int, NEW size \in Nat \ {0}
    PROVE  OldSector(lba, size) \in [1 .. size -> Units] /\ Whole(OldSector(lba, size), size)
<1> DEFINE s == OldSector(lba, size)
<1>1. s = [i \in 1 .. size |-> <<-1 - lba, i>>]
  BY DEF OldSector
<1>2. s \in [1 .. size -> Units]
  <2>1. \A i \in 1 .. size : <<-1 - lba, i>> \in Units
    BY DEF Units
  <2> QED BY <1>1, <2>1
<1> HIDE DEF s
<1>3. s[1] = <<-1 - lba, 1>>
  BY <1>1
<1>4. ASSUME NEW i \in 1 .. size PROVE s[i] = <<s[1][1], s[1][2] + i - 1>>
  <2>1. s[i] = <<-1 - lba, i>> /\ 1 + i - 1 = i
    BY <1>1
  <2> QED BY <1>3, <2>1
<1>5. Whole(s, size)
  <2>1. s = [i \in 1 .. size |-> s[i]]
    BY <1>2
  <2> QED BY <1>4, <2>1 DEF Whole
<1> QED BY <1>2, <1>5 DEF s

\* What a write leaves on the disk: sectors of the command up to the last that the card
\* took, the old ones behind it, and whole sectors wherever the image has grown.
LEMMA WrittenDisk ==
    ASSUME DiskInvariant, IsHard, sasi.command = job,
           NEW b, \A i \in 1 .. 2 * Requested(sasi) : b[i] = NewUnit(i),
           NEW count \in 0 .. Requested(sasi),
           NEW gone, gone = Lba(sasi) + count .. Lba(sasi) + Requested(sasi) - 1
    PROVE  /\ Written(b, count) \in Hards
           /\ \A l \in DOMAIN Written(b, count) : Whole(Written(b, count)[l], SasiSectorSize)
           /\ \A n \in 1 .. 2 * Requested(sasi) : StandsHard(Written(b, count), gone, n)
<1> DEFINE r == Requested(sasi)
           base == Lba(sasi)
           Piece(j) == SubSeq(b, j * 2 + 1, (j + 1) * 2)
           w == Written(b, count)
           reached == IF count = 0 THEN {} ELSE 0 .. base + count - 1
           sectors == DOMAIN hard \cup reached
<1>1. serial \in Nat /\ hard \in Hards /\ \A l \in DOMAIN hard : Whole(hard[l], SasiSectorSize)
  BY DEF DiskInvariant, Types, WholeSectors
<1>2. r \in Nat /\ base \in Nat
  BY RequestedType
<1>3. w = [l \in sectors |->
             IF l - base \in 0 .. count - 1 THEN Piece(l - base)
             ELSE IF l \in DOMAIN hard THEN hard[l] ELSE OldSector(l, SasiSectorSize)]
  BY DEF Written, SasiSectorSize
<1>4. \A n \in 1 .. 2 * r : /\ HardPlace(n) = base + (n - 1) \div 2
                          /\ HardUnit(w, n) = w[base + (n - 1) \div 2][((n - 1) % 2) + 1]
  BY HardUnitAt DEF SasiSectorSize
<1>5. ASSUME NEW j \in 0 .. r - 1
      PROVE  /\ Piece(j) \in [1 .. 2 -> Units]
             /\ Piece(j)[1] = NewUnit(j * 2 + 1) /\ Piece(j)[2] = NewUnit(j * 2 + 2)
  <2>1. \A i \in 1 .. 2 * r : b[i] = NewUnit(i)
    OBVIOUS
  <2> HIDE DEF r
  <2> QED BY <1>1, <1>2, <1>5, <2>1, BufferSector
<1>6. count \in 0 .. r /\ gone = base + count .. base + r - 1
  OBVIOUS
<1>7. \A l \in DOMAIN hard : l \in Int /\ hard[l] \in [1 .. 2 -> Units]
  BY <1>1, SectorsOfHard DEF SasiSectorSize
<1> HIDE DEF r, base, Piece, w
<1>8. reached \subseteq Int
  BY <1>2, <1>6
<1> HIDE DEF reached
<1>9. sectors \subseteq Int
  BY <1>7, <1>8
<1> HIDE DEF sectors
<1>10. ASSUME NEW l \in sectors
       PROVE  w[l] \in [1 .. 2 -> Units] /\ Whole(w[l], SasiSectorSize)
  <2>1. CASE l - base \in 0 .. count - 1
    <3> DEFINE j == l - base
               k == j * 2 + 1
    <3>1. j \in 0 .. r - 1
      BY <1>2, <1>6, <1>9, <2>1
    <3>2. w[l] = Piece(j)
      BY <1>3, <2>1
    <3> HIDE DEF j
    <3>3. /\ w[l] \in [1 .. 2 -> Units] /\ k \in Int /\ k + 1 = j * 2 + 2
          /\ w[l][1] = NewUnit(j * 2 + 1) /\ w[l][2] = NewUnit(j * 2 + 2)
      BY <1>5, <3>1, <3>2
    <3>4. w[l][1] = NewUnit(k) /\ w[l][2] = NewUnit(k + 1)
      BY <3>3
    <3> HIDE DEF k
    <3> QED BY <3>3, <3>4, TwoAreWhole
  <2>2. CASE ~(l - base \in 0 .. count - 1) /\ l \in DOMAIN hard
    <3>1. w[l] = hard[l]
      BY <1>3, <2>2
    <3> QED BY <1>1, <1>7, <2>2, <3>1
  <2>3. CASE ~(l - base \in 0 .. count - 1) /\ l \notin DOMAIN hard
    <3>1. w[l] = OldSector(l, SasiSectorSize)
      BY <1>3, <2>3
    <3>2. l \in Int /\ SasiSectorSize \in Nat \ {0} /\ SasiSectorSize = 2
      BY <1>9 DEF SasiSectorSize
    <3> QED BY <3>1, <3>2, OldSectors
  <2> QED BY <2>1, <2>2, <2>3
<1>11. DOMAIN w = sectors
  BY <1>3
<1>12. w \in Hards
  <2>1. w \in [sectors -> [1 .. SasiSectorSize -> Units]]
    BY <1>3, <1>10 DEF SasiSectorSize
  <2> QED BY <1>9, <2>1, HardSectorsAre
<1>13. ASSUME NEW n \in 1 .. 2 * r PROVE StandsHard(w, gone, n)
  <2> DEFINE j == (n - 1) \div 2
             k == ((n - 1) % 2) + 1
             l == base + j
  <2>1. j \in 0 .. r - 1 /\ k \in {1, 2} /\ n = j * 2 + k
    BY <1>2
  <2>2. HardUnit(w, n) = w[l][k] /\ HardPlace(n) = l
    BY <1>4
  <2> HIDE DEF j, k
  <2>3. l - base = j /\ (j < count => l \in 0 .. base + count - 1) /\ (j >= count => l \in gone)
    <3>1. base \in Nat /\ r \in Nat /\ j \in Int /\ 0 <= j /\ j <= r - 1 /\ count \in Int
      BY <1>2, <1>6, <2>1
    <3>2. l \in Int /\ l - base = j /\ (j < count => l \in 0 .. base + count - 1)
      BY <3>1
    <3>3. j >= count => l \in base + count .. base + r - 1
      BY <3>1
    <3> QED BY <1>6, <3>2, <3>3
  <2> HIDE DEF l
  <2>4. CASE j >= count
    BY <2>2, <2>3, <2>4 DEF StandsHard
  <2>5. CASE j < count
    <3>1. l - base \in 0 .. count - 1 /\ count # 0
      BY <1>6, <2>1, <2>3, <2>5
    <3>2. l \in sectors
      BY <2>3, <2>5, <3>1 DEF sectors, reached
    <3>3. w[l] = Piece(j)
      BY <1>3, <2>3, <3>1, <3>2
    <3>4. Piece(j)[k] = NewUnit(j * 2 + k)
      BY <1>5, <2>1
    <3> QED BY <2>1, <2>2, <3>3, <3>4 DEF StandsHard
  <2> QED BY <1>6, <2>1, <2>4, <2>5
<1> QED BY <1>10, <1>11, <1>12, <1>13 DEF w, r

\* A unit into the buffer; the last one writes the disk and ends the command.
LEMMA PutServes ==
    ASSUME DiskInvariant, IsHard, TakesUnit(sasi), csr = "none",
           guest \in {"poll", "command", "transfer", "parameters", "status"},
           WriteHard(NewUnit(sasi.pos + 1)),
           guest' \in {"poll", "transfer"}, asked' \in Nat, Moved' = Moved + 1, Moved \in Int,
           dma' \in Transfers, Places', verdict # "good",
           UNCHANGED <<floppy, fdc, iosc, received, table, job, serial, csr, verdict>>
    PROVE  DiskInvariant'
<1> DEFINE unit == NewUnit(sasi.pos + 1)
           buf == Append(sasi.buffer, unit)
           t == [sasi EXCEPT !.pos = sasi.pos + 1, !.buffer = buf]
           r == Requested(sasi)
<1>1. /\ HardPresent \/ sasi.phase = "BusFree"
      /\ DataOut(sasi, Moved)
      /\ sasi \in Buses /\ hard \in Hards /\ received \in Seq(Cells) /\ serial \in Nat
      /\ \A l \in DOMAIN hard : Whole(hard[l], SasiSectorSize)
  BY ServingFacts
<1>2. sasi.phase = "DataOut" /\ sasi.pos < sasi.length
  BY DEF TakesUnit
<1>3. /\ sasi.command = job /\ job[1] = SasiWrite /\ sasi.status = 0
      /\ sasi.length = 2 * r
      /\ Len(sasi.buffer) = sasi.pos /\ \A i \in 1 .. sasi.pos : sasi.buffer[i] = NewUnit(i)
      /\ Moved <= sasi.pos
  BY <1>1, <1>2 DEF DataOut, SasiSectorSize
<1>4. sasi.pos \in Nat /\ sasi.length \in Nat /\ sasi.buffer \in Seq(Cells) /\ r \in Nat
  <2>1. r \in Nat
    BY <1>3, RequestedType
  <2> QED BY <1>1, <2>1 DEF Buses
<1>5. unit \in Cells
  <2>1. sasi.pos + 1 \in Int
    BY <1>4
  <2> QED BY <1>1, <2>1 DEF NewUnit, Cells, Units
<1> HIDE DEF unit
<1>6. /\ buf \in Seq(Cells) /\ Len(buf) = sasi.pos + 1
      /\ \A i \in 1 .. sasi.pos + 1 : buf[i] = NewUnit(i)
  <2>1. /\ buf \in Seq(Cells) /\ Len(buf) = Len(sasi.buffer) + 1
        /\ \A i \in 1 .. Len(sasi.buffer) : buf[i] = sasi.buffer[i]
        /\ buf[Len(sasi.buffer) + 1] = unit
    BY <1>4, <1>5, AppendProperties
  <2> HIDE DEF buf
  <2>2. ASSUME NEW i \in 1 .. sasi.pos + 1 PROVE buf[i] = NewUnit(i)
    <3>1. i \in 1 .. sasi.pos \/ i = sasi.pos + 1
      BY <1>4
    <3> QED BY <1>3, <2>1, <3>1 DEF unit
  <2> QED BY <1>3, <2>1, <2>2
<1> HIDE DEF buf
<1>7. /\ t \in Buses /\ t.command = job /\ t.phase = "DataOut" /\ t.status = 0
      /\ t.length = sasi.length /\ t.pos = sasi.pos + 1 /\ t.buffer = buf
  <2> DEFINE next == sasi.pos + 1
             u == [sasi EXCEPT !.pos = next]
  <2>1. next \in Nat
    BY <1>4
  <2> HIDE DEF next
  <2>2. /\ u \in Buses /\ u.command = sasi.command /\ u.phase = sasi.phase
        /\ u.status = sasi.status /\ u.length = sasi.length /\ u.pos = next
    BY <1>1, <2>1 DEF Buses
  <2>3. t = [u EXCEPT !.buffer = buf]
    BY <1>1, <2>1 DEF Buses, next
  <2> HIDE DEF t, u
  <2>4. /\ t \in Buses /\ t.command = u.command /\ t.phase = u.phase
        /\ t.status = u.status /\ t.length = u.length /\ t.pos = u.pos /\ t.buffer = buf
    BY <1>6, <2>2, <2>3 DEF Buses
  <2> QED BY <1>2, <1>3, <2>2, <2>4 DEF next
<1>8. \A ok : PutUnit(sasi, unit, ok) = IF Completes(sasi) THEN FinishSasiWrite(t, ok) ELSE t
  BY DEF PutUnit, buf
<1> HIDE DEF t
<1>9. Requested(t) = r /\ HardPresent
  BY <1>1, <1>2, <1>3, <1>7 DEF Requested
<1>10. Honest'
  BY DEF Honest
<1> HIDE DEF r
\* It is enough to know the bus and the disk after the unit.
<1>11. ASSUME sasi' \in Buses, hard' \in Hards,
              \A l \in DOMAIN hard' : Whole(hard'[l], SasiSectorSize),
              sasi'.phase \in {"DataOut", "Status"},
              DataOut(sasi', Moved'), Served(sasi', hard', lost', Moved')
       PROVE  DiskInvariant'
  <2>1. DataIn(sasi', hard', received') /\ Commanded(sasi', asked')
    BY <1>11 DEF DataIn, Commanded
  <2>2. job[1] # SasiRead
    BY <1>3 DEF SasiRead, SasiWrite
  <2>3. HardPresent /\ sasi'.phase \notin {"Selected", "Command"}
    BY <1>1, <1>2, <1>11
  <2>4. HardInv'
    BY <1>11, <2>1, <2>2, <2>3, BusServes
  <2> QED BY <1>1, <1>10, <1>11, <2>4, SasiStep
<1>12. CASE ~Completes(sasi)
  <2>1. sasi' = t /\ hard' = hard
    BY <1>8, <1>12 DEF WriteHard, unit
  <2>2. sasi.pos + 1 < sasi.length
    BY <1>4, <1>12 DEF Completes
  <2>3. DataOut(t, Moved')
    <3>1. Moved' <= sasi.pos + 1
      BY <1>3, <1>4
    <3> QED BY <1>3, <1>6, <1>7, <1>9, <2>2, <3>1 DEF DataOut, SasiSectorSize
  <2>4. Served(t, hard', lost', Moved')
    BY <1>7 DEF Served
  <2> QED BY <1>1, <1>7, <1>11, <2>1, <2>3, <2>4
<1>13. CASE Completes(sasi)
  <2> DEFINE done == [t EXCEPT !.phase = "Status"]
             failed == [t EXCEPT !.status = 2, !.phase = "Status"]
  <2>1. /\ done \in Buses /\ done.phase = "Status"
    BY <1>7 DEF Buses
  <2>2. /\ failed \in Buses /\ failed.phase = "Status" /\ failed.status = 2
    <3> DEFINE wrong == [t EXCEPT !.status = 2]
    <3>1. wrong \in Buses /\ wrong.status = 2
      <4>1. 2 \in Int
        OBVIOUS
      <4>2. wrong \in Buses
        BY <1>7, <4>1, Zenon DEF Buses
      <4>3. "status" \in DOMAIN t
        BY <1>7 DEF Buses
      <4> QED BY <4>2, <4>3
    <3>2. failed = [wrong EXCEPT !.phase = "Status"]
      BY <1>7 DEF Buses
    <3> HIDE DEF wrong
    <3> QED BY <3>1, <3>2 DEF Buses
  <2>3. \A ok : FinishSasiWrite(t, ok) = IF ok THEN done ELSE failed
    BY <1>3, <1>7, <1>9 DEF FinishSasiWrite
  <2> HIDE DEF done, failed
  <2>4. DataOut(done, Moved') /\ DataOut(failed, Moved') /\ \A d, x : Served(failed, d, x, Moved')
    BY <2>1, <2>2 DEF DataOut, Served
  <2>5. PICK ok \in BOOLEAN, kept \in BOOLEAN :
          /\ kept => ok
          /\ sasi' = PutUnit(sasi, unit, ok)
          /\ \E count \in IF kept THEN {r} ELSE 0 .. r - 1 :
               /\ hard' = Written(buf, count)
               /\ lost' = IF ok /\ ~kept THEN Lba(sasi) + count .. Lba(sasi) + r - 1 ELSE lost
    BY <1>2, <1>9, <1>13 DEF WriteHard, WriteCard, unit, buf, r
  <2>6. PICK count \in IF kept THEN {r} ELSE 0 .. r - 1 :
          /\ hard' = Written(buf, count)
          /\ lost' = IF ok /\ ~kept THEN Lba(sasi) + count .. Lba(sasi) + r - 1 ELSE lost
    BY <2>5
  <2>7. count \in 0 .. r
    BY <1>4, <2>6
  <2>8. 2 * r = sasi.pos + 1
    BY <1>2, <1>3, <1>4, <1>13 DEF Completes
  <2>9. \A i \in 1 .. 2 * r : buf[i] = NewUnit(i)
    BY <1>6, <2>8
  <2> DEFINE gone == Lba(sasi) + count .. Lba(sasi) + r - 1
  <2>10. /\ hard' \in Hards
         /\ \A l \in DOMAIN hard' : Whole(hard'[l], SasiSectorSize)
         /\ \A n \in 1 .. 2 * r : StandsHard(hard', gone, n)
    BY <1>3, <2>6, <2>7, <2>9, WrittenDisk DEF r
  <2>11. CASE ok
    <3>1. sasi' = done
      BY <1>8, <1>13, <2>3, <2>5, <2>11
    <3>2. gone \subseteq lost'
      <4>1. CASE kept
        <5>1. count = r /\ Lba(sasi) \in Nat
          BY <1>3, <2>6, <4>1, RequestedType
        <5>2. gone = {}
          BY <1>4, <5>1
        <5> QED BY <5>2
      <4>2. CASE ~kept
        BY <2>6, <2>11, <4>2
      <4> QED BY <4>1, <4>2
    <3>3. \A n \in 1 .. Moved' : n \in 1 .. 2 * r
      BY <1>3, <1>4, <2>8
    <3> HIDE DEF gone
    <3>4. Served(done, hard', lost', Moved')
      BY <2>10, <3>2, <3>3 DEF Served, StandsHard
    <3> QED BY <1>11, <2>1, <2>4, <2>10, <3>1, <3>4
  <2>12. CASE ~ok
    <3>1. sasi' = failed
      BY <1>8, <1>13, <2>3, <2>5, <2>12
    <3> QED BY <1>11, <2>2, <2>4, <2>10, <3>1
  <2> QED BY <2>11, <2>12
<1> QED BY <1>12, <1>13

\* A unit to the disk by the DMAC.
LEMMA MoveToSasiHolds ==
    ASSUME DiskInvariant, MoveToSasi PROVE DiskInvariant'
<1>1. /\ dma.channel = "SASI" /\ dma.left > 0 /\ TakesUnit(sasi)
      /\ WriteHard(NewUnit(sasi.pos + 1)) /\ Move(1)
      /\ UNCHANGED <<floppy, fdc, iosc, csr, received, guest, job, asked, table, verdict, serial>>
  BY DEF MoveToSasi, Moving, guestVars
<1>2. ~Quiet /\ guest = "transfer" /\ csr = "none" /\ IsHard /\ verdict # "good"
  BY <1>1, SasiMoves
<1>3. dma \in Transfers /\ asked \in Nat
  BY DEF DiskInvariant, Types
<1>4. 1 <= dma.left /\ dma.channel # "none"
  BY <1>1, <1>3 DEF Transfers
<1>5. /\ dma' \in Transfers /\ Moved' = Moved + 1 /\ Places' /\ Moved \in Int
  BY <1>1, <1>4, MoveCounts
<1> QED BY <1>1, <1>2, <1>3, <1>5, PutServes

\* Data by the guest's own hand, a unit at a time.
LEMMA SasiByHandHolds ==
    ASSUME DiskInvariant, SasiByHand PROVE DiskInvariant'
<1>1. /\ guest = "transfer" /\ Quiet /\ ~IsFloppy /\ csr = "none"
      /\ asked' = asked + 1 /\ guest' = "poll"
      /\ UNCHANGED <<floppy, fdc, iosc, dma, csr, job, table, verdict, serial>>
  BY DEF SasiByHand, At
<1>2. IsHard /\ verdict # "good"
  BY <1>1 DEF DiskInvariant, Places, DataCommand, IsFloppy
<1>3. DataIn(sasi, hard, received) /\ sasi \in Buses /\ dma \in Transfers
      /\ received \in Seq(Cells) /\ asked \in Nat
  BY <1>1, <1>2, ServingFacts
<1>4. Quiet' /\ Moved' = Moved + 1 /\ Moved \in Int /\ asked' \in Nat /\ dma' \in Transfers
  BY <1>1, <1>3 DEF Quiet, Moved
<1>5. Places'
  BY <1>1, <1>2, <1>4, SasiPlaces
<1>6. CASE /\ HasUnit(sasi)
           /\ received' = Append(received, sasi.buffer[sasi.pos + 1])
           /\ sasi' = ReadSasiData(sasi) /\ hard' = hard /\ lost' = lost
  <2>1. Len(sasi.buffer) = sasi.length
    BY <1>3, <1>6 DEF DataIn, HasUnit
  <2>2. Grown(received, received', 1) /\ sasi.pos + 1 <= sasi.length
    BY <1>3, <1>6, <2>1, GrownByOne
  <2>3. sasi' = TakeUnits(sasi, 1)
    BY <1>6 DEF ReadSasiData, HasUnit
  <2> QED BY <1>1, <1>2, <1>4, <1>5, <1>6, <2>2, <2>3, TakeServes
<1>7. CASE TakesUnit(sasi) /\ WriteHard(NewUnit(sasi.pos + 1)) /\ received' = received
  BY <1>1, <1>2, <1>4, <1>5, <1>7, PutServes
<1> QED BY <1>6, <1>7 DEF SasiByHand

--------------------------------------------------------------------------------
(* The invariant holds in every state. *)

\* The machine as it starts.
LEMMA InitDisks == Init => DiskInvariant
<1> SUFFICES ASSUME Init PROVE DiskInvariant
  OBVIOUS
<1>1. /\ fdc = ResetFdc /\ sasi = ResetSasi
      /\ floppy = [d \in Inserted |-> [l \in FloppySectors |-> OldSector(l, SectorSize)]]
      /\ hard = [l \in 0 .. HardSectors - 1 |-> OldSector(l, SasiSectorSize)]
      /\ iosc = WriteVector(WriteEnable(ResetIoSc, {"FDC", "FDD"}), 96)
      /\ dma = NoDma /\ csr = "none" /\ received = <<>>
      /\ guest = "idle" /\ job = <<>> /\ asked = 0
      /\ table = [st0 |-> NoSt0, fresh |-> FALSE] /\ verdict = "none"
      /\ serial = 0
  BY DEF Init
<1>2. SectorSize \in Nat \ {0} /\ SasiSectorSize \in Nat \ {0} /\ \A l \in FloppySectors : l \in Int
  BY FdcAssumption DEF FdcAssumption, SasiSectorSize, FloppySectors
<1>3. floppy \in Floppies /\ \A d \in Inserted : \A l \in FloppySectors : Whole(floppy[d][l], SectorSize)
  <2>1. \A l \in FloppySectors :
          /\ OldSector(l, SectorSize) \in [1 .. SectorSize -> Units]
          /\ Whole(OldSector(l, SectorSize), SectorSize)
    BY <1>2, OldSectors
  <2> QED BY <1>1, <2>1 DEF Floppies
<1>4. hard \in Hards /\ \A l \in DOMAIN hard : Whole(hard[l], SasiSectorSize)
  <2>1. \A l \in 0 .. HardSectors - 1 :
          /\ OldSector(l, SasiSectorSize) \in [1 .. SasiSectorSize -> Units]
          /\ Whole(OldSector(l, SasiSectorSize), SasiSectorSize)
    BY <1>2, OldSectors
  <2>2. 0 .. HardSectors - 1 \in SUBSET Int
    BY SasiAssumption DEF SasiAssumption
  <2>3. hard \in [0 .. HardSectors - 1 -> [1 .. SasiSectorSize -> Units]]
    BY <1>1, <2>1
  <2> QED BY <1>1, <2>1, <2>2, <2>3, HardSectorsAre
<1>5. /\ DOMAIN fdc = FdcFields /\ fdc.phase = "Command" /\ fdc.command = <<>>
  BY <1>1 DEF ResetFdc, FdcFields
<1>6. sasi \in Buses /\ sasi.phase = "BusFree"
  <2>1. <<>> \in Seq(0 .. 255) /\ <<>> \in Seq(Cells) /\ 0 \in Nat /\ 0 \in Int
    OBVIOUS
  <2> QED BY <1>1, <2>1 DEF ResetSasi, Buses
<1>7. Types
  <2>1. <<>> \in Seq(0 .. 255) /\ <<>> \in Seq(Cells) /\ 0 \in Nat
    OBVIOUS
  <2>2. dma \in Transfers
    BY <1>1 DEF NoDma, Transfers
  <2>3. DOMAIN table = {"st0", "fresh"}
    BY <1>1
  <2> QED BY <1>1, <1>3, <1>4, <1>5, <1>6, <2>1, <2>2, <2>3 DEF Types
<1>8. Quiet /\ Moved = 0 /\ Len(received) = 0
  BY <1>1 DEF Quiet, Moved
<1>9. Places
  BY <1>1, <1>8 DEF Places
<1>10. Lines
  BY <1>1 DEF Lines, WriteVector, WriteEnable, ResetIoSc
<1>11. FloppyInv
  BY <1>1, <1>5, <1>8, <1>10 DEF FloppyInv, Sending, Transferring, ReadSoFar, WrittenSoFar, Cause
<1>12. HardInv
  BY <1>1, <1>6 DEF HardInv, Serving
<1>13. Honest /\ WholeSectors
  BY <1>1, <1>3, <1>4 DEF Honest, WholeSectors
<1> QED BY <1>7, <1>9, <1>11, <1>12, <1>13 DEF DiskInvariant

\* Nothing changes.
LEMMA DisksStutter ==
    ASSUME DiskInvariant, UNCHANGED vars PROVE DiskInvariant'
<1>1. UNCHANGED <<floppy, hard, lost, fdc, sasi, iosc, dma, csr, received, guest, job, asked, table, verdict, serial>>
  BY DEF vars, diskVars, chipVars, dmaVars, guestVars
<1>2. Types' /\ Lines'
  BY <1>1 DEF Types, DiskInvariant, FloppyInv, Lines
<1>3. /\ IsFloppy' <=> IsFloppy
      /\ IsHard' <=> IsHard
      /\ DataCommand' <=> DataCommand
      /\ Code1' = Code1 /\ ToMemory' = ToMemory
      /\ (Quiet' <=> Quiet) /\ Moved' = Moved
  BY <1>1, SameJob DEF Quiet, Moved
<1>4. Places'
  BY <1>1, <1>3 DEF Places, DiskInvariant
<1>5. /\ Executing(fdc)' <=> Executing(fdc)
      /\ Begins(fdc.command)' <=> Begins(fdc.command)
      /\ Reading(fdc, floppy, received)' <=> Reading(fdc, floppy, received)
      /\ Writing(fdc, floppy, lost, Moved)' <=> Writing(fdc, floppy, lost, Moved)
      /\ \A n : Stands(floppy, lost, n)' <=> Stands(floppy, lost, n)
      /\ \A n : UnitOf(floppy, n)' = UnitOf(floppy, n)
  BY <1>1, <1>3, SameController
<1>6. Sending' /\ Transferring' /\ Cause'
  BY <1>1, <1>3, <1>5 DEF Sending, Transferring, Cause, DiskInvariant, FloppyInv
<1>7. ReadSoFar' /\ WrittenSoFar'
  BY <1>1, <1>3, <1>5 DEF ReadSoFar, WrittenSoFar, DiskInvariant, FloppyInv
<1>8. HardInv' /\ Honest' /\ WholeSectors'
  BY <1>1, HardStays, HonestRests, DisksRest DEF DiskInvariant, diskVars
<1> QED BY <1>2, <1>4, <1>6, <1>7, <1>8 DEF DiskInvariant, FloppyInv

\* Every step keeps the invariant.
LEMMA DisksKept ==
    ASSUME DiskInvariant, [Next]_vars PROVE DiskInvariant'
<1>1. CASE StartFloppy
  BY <1>1, StartFloppyHolds
<1>2. CASE StartSasi
  BY <1>2, StartSasiHolds
<1>3. CASE SendByte
  BY <1>3, SendByteHolds
<1>4. CASE ReadResults
  BY <1>4, ReadResultsHolds
<1>5. CASE ReadByHand
  BY <1>5, ReadByHandHolds
<1>6. CASE Interrupt
  BY <1>6, InterruptHolds
<1>7. CASE Conclude
  BY <1>7, ConcludeHolds
<1>8. CASE GoOn
  BY <1>8, GoOnHolds
<1>9. CASE StartDma
  BY <1>9, StartDmaHolds
<1>10. CASE SelectDisk
  BY <1>10, SelectDiskHolds
<1>11. CASE PollSasi
  BY <1>11, PollSasiHolds
<1>12. CASE SendSasiByte
  BY <1>12, SendSasiByteHolds
<1>13. CASE SendParameter
  BY <1>13, SendParameterHolds
<1>14. CASE SasiByHand
  BY <1>14, SasiByHandHolds
<1>15. CASE FinishSasi
  BY <1>15, FinishSasiHolds
<1>16. CASE MoveBlock
  BY <1>16, MoveBlockHolds
<1>17. CASE MoveFromSasi
  BY <1>17, MoveFromSasiHolds
<1>18. CASE MoveToSasi
  BY <1>18, MoveToSasiHolds
<1>19. CASE MoveFromFdc
  BY <1>19, MoveFromFdcHolds
<1>20. CASE MoveToFdc
  BY <1>20, MoveToFdcHolds
<1>21. CASE EndDma
  BY <1>21, EndDmaHolds
<1>22. CASE UNCHANGED vars
  BY <1>22, DisksStutter
<1> QED
  BY <1>1, <1>2, <1>3, <1>4, <1>5, <1>6, <1>7, <1>8, <1>9, <1>10, <1>11, <1>12, <1>13, <1>14,
     <1>15, <1>16, <1>17, <1>18, <1>19, <1>20, <1>21, <1>22
     DEF Next, Floppy, HardDisk, RunTransfer

\* The invariant of the disks, for disks, transfers and commands of every size.
THEOREM DisksBehave == Spec => []DiskInvariant
<1>1. Init => DiskInvariant
  BY InitDisks
<1>2. DiskInvariant /\ [Next]_vars => DiskInvariant'
  BY DisksKept
<1> QED BY <1>1, <1>2, PTL DEF Spec

\* WholeSectors: no sector of any disk is ever a mixture of two commands or of two
\* places, whatever the card fails and wherever a transfer stops.
THEOREM SectorsStayWhole == Spec => []WholeSectors
<1>1. DiskInvariant => WholeSectors
  BY DEF DiskInvariant
<1> QED BY <1>1, DisksBehave, PTL

\* Nothing is lost unless the card has failed.
LossIsFailure == faults \in Nat /\ (faults = 0 => lost = {})

\* A step that loses a sector is a failure of the card.
LEMMA LossKept ==
    ASSUME LossIsFailure, [Next]_vars PROVE LossIsFailure'
<1>1. \A ok : Card(ok) => faults' \in Nat /\ (faults' = faults \/ faults' # 0) /\ (~ok => faults' # 0)
  BY DEF LossIsFailure, Card
<1> SUFFICES /\ faults' = faults \/ (faults' \in Nat /\ (faults' = faults \/ faults' # 0))
             /\ lost' = lost \/ lost' = {} \/ faults' # 0
  BY DEF LossIsFailure
<1>2. CASE StartFloppy \/ StartSasi
  BY <1>2 DEF StartFloppy, StartSasi
<1>3. CASE SendByte
  BY <1>1, <1>3 DEF SendByte, diskVars
<1>4. CASE ReadByHand
  BY <1>1, <1>4 DEF ReadByHand, diskVars
<1>5. CASE MoveFromFdc
  BY <1>1, <1>5 DEF MoveFromFdc, diskVars
<1>6. CASE SendSasiByte
  BY <1>1, <1>6 DEF SendSasiByte, diskVars
<1>7. ASSUME NEW unit, WriteHard(unit)
      PROVE  /\ faults' = faults \/ (faults' \in Nat /\ (faults' = faults \/ faults' # 0))
             /\ lost' = lost \/ faults' # 0
  <2>1. CASE UNCHANGED <<lost, faults>>
    BY <2>1
  <2>2. CASE \E ok, kept \in BOOLEAN : Card(kept) /\ (lost' = lost \/ ~kept)
    BY <1>1, <2>2
  <2> QED BY <1>7, <2>1, <2>2 DEF WriteHard, WriteCard
<1>8. CASE MoveToSasi \/ SasiByHand
  BY <1>7, <1>8 DEF MoveToSasi, SasiByHand
<1>9. CASE MoveToFdc
  <2>1. CASE UNCHANGED <<lost, faults>>
    BY <2>1
  <2>2. CASE \E ok, kept \in BOOLEAN : Card(kept) /\ (lost' = lost \/ ~kept)
    BY <1>1, <2>2
  <2> QED BY <1>9, <2>1, <2>2 DEF MoveToFdc, WriteCard
<1>10. CASE ReadResults \/ Interrupt \/ Conclude \/ GoOn \/ StartDma
  BY <1>10 DEF ReadResults, Interrupt, Conclude, GoOn, StartDma, diskVars
<1>11. CASE MoveBlock \/ MoveFromSasi \/ EndDma
  BY <1>11 DEF MoveBlock, MoveFromSasi, EndDma, diskVars
<1>12. CASE SelectDisk \/ PollSasi \/ SendParameter \/ FinishSasi
  BY <1>12 DEF SelectDisk, PollSasi, SendParameter, FinishSasi, diskVars
<1>13. CASE UNCHANGED vars
  BY <1>13 DEF vars, diskVars
<1> QED
  BY <1>2, <1>3, <1>4, <1>5, <1>6, <1>8, <1>9, <1>10, <1>11, <1>12, <1>13
     DEF Next, Floppy, HardDisk, RunTransfer

\* HonestStatus: success, as the guest sees it, means that every unit it asked for was
\* moved, in order, between its memory and the sectors the command names, but for sectors
\* whose flush failed unseen; while the card has not failed there are none.
THEOREM StatusIsHonest == Spec => []HonestStatus
<1>1. DiskInvariant /\ verdict = "good" => Delivered(lost)
  <2> SUFFICES ASSUME DiskInvariant, verdict = "good" PROVE Delivered(lost)
    OBVIOUS
  <2>1. Honest /\ received \in Seq(Cells)
    BY DEF DiskInvariant, Types
  <2>2. received = [n \in 1 .. Len(received) |-> received[n]]
    BY <2>1, LenProperties
  <2>3. \A n : OnFloppy(n) = UnitOf(floppy, n)
    BY DEF OnFloppy, UnitOf
  <2>4. \A n : OnHard(n) = HardUnit(hard, n)
    BY DEF OnHard, HardUnit
  <2>5. CASE IsFloppy
    <3>1. Code1 \in Writes =>
            \A n \in 1 .. asked : FloppyPlace(n) \in lost \/ OnFloppy(n) = NewUnit(n)
      BY <2>1, <2>3, <2>5 DEF Honest, Stands
    <3>2. Code1 \in Reads => received = [n \in 1 .. asked |-> OnFloppy(n)]
      <4> SUFFICES ASSUME Code1 \in Reads PROVE received = [n \in 1 .. asked |-> OnFloppy(n)]
        OBVIOUS
      <4>1. Len(received) = asked /\ \A n \in 1 .. asked : received[n] = OnFloppy(n)
        BY <2>1, <2>3, <2>5 DEF Honest
      <4> QED BY <2>2, <4>1
    <3> QED BY <2>5, <3>1, <3>2 DEF Delivered
  <2>6. CASE ~IsFloppy
    <3>1. job[1] = SasiWrite =>
            \A n \in 1 .. asked : HardPlace(n) \in lost \/ OnHard(n) = NewUnit(n)
      BY <2>1, <2>4, <2>6 DEF Honest, StandsHard
    <3>2. job[1] = SasiRead => received = [n \in 1 .. asked |-> OnHard(n)]
      <4> SUFFICES ASSUME job[1] = SasiRead PROVE received = [n \in 1 .. asked |-> OnHard(n)]
        OBVIOUS
      <4>1. Len(received) = asked /\ \A n \in 1 .. asked : received[n] = OnHard(n)
        BY <2>1, <2>4, <2>6 DEF Honest
      <4> QED BY <2>2, <4>1
    <3> QED BY <2>6, <3>1, <3>2 DEF Delivered
  <2> QED BY <2>5, <2>6
<1>2. DiskInvariant /\ LossIsFailure => HonestStatus
  BY <1>1 DEF HonestStatus, LossIsFailure
<1>3. Init => LossIsFailure
  BY DEF Init, LossIsFailure
<1>4. LossIsFailure /\ [Next]_vars => LossIsFailure'
  BY LossKept
<1> QED BY <1>2, <1>3, <1>4, DisksBehave, PTL DEF Spec

================================================================================
