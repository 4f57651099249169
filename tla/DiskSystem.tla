------------------------------ MODULE DiskSystem -------------------------------
(******************************************************************************)
(* The disks of the X68000: the floppy controller (Fdc) and the SASI disk (Sasi)  *)
(* behind the DMA controller (core/dev/dmac.{h,cpp}), the interrupt of the floppy  *)
(* controller through the I/O controller (IoSc), and the guest that drives them:   *)
(* commands byte by byte, transfers of any length by DMA or by its own hand, and   *)
(* the interrupt handler in between.                                             *)
(*                                                                             *)
(* The guest is external: what it does is what the comments of fdc.cpp and          *)
(* machine.cpp say of the IPL-ROM.  A DMA transfer is over before the guest's next  *)
(* access; its units are steps that nothing can come between.  A unit is a pair    *)
(* of the command it belongs to and its number; the disks' old contents belong to   *)
(* no command (a number below zero, one for each sector).                         *)
(******************************************************************************)
EXTENDS Fdc, Sasi, FiniteSets

CONSTANTS
    FdcCommands,        \* the commands of the guest, as their bytes
    SasiCommands,
    Counts,             \* what it may write to the DMAC's counter, in units
    MtcZero,            \* what the counter 0 stands for, 65536 bytes
    MaxCommands,        \* bound: how many commands the guest gives
    MaxFaults           \* bound: how often the card fails

\* A command's bytes say whose it is: no opcode of the one controller is one of the other.
ASSUME DiskAssumption ==
    /\ Counts \subseteq Nat /\ MtcZero \in Nat \ {0} /\ MaxCommands \in Nat /\ MaxFaults \in Nat
    /\ FdcCommands \cup SasiCommands \subseteq Seq(0 .. 255)
    /\ FdcCommands \cap SasiCommands = {}
    /\ \A c \in FdcCommands : Len(c) = 1 + ParameterCount(c[1])
    /\ \A c \in SasiCommands : Len(c) = CommandBytes

VARIABLES
    fdc, floppy,        \* the controller; the disks in its drives
    sasi, hard,         \* the bus; the disk on it
    iosc,
    dma,                \* a transfer: channel, toMemory, units left, block copy possible
    csr,                \* the DMAC's channel status at the end of a transfer
    received,           \* units in the guest's memory
    guest,              \* where the guest's driver is
    job,                \* its command, and how many bytes of it have been sent
    asked,              \* how many units the transfer asks for
    table,              \* the ROM's table $C90: the last ST0, fresh if not looked at
    verdict,            \* what the guest concluded last
    serial,             \* how many commands so far
    faults,
    lost                \* observed only: sectors of this command that a flush nobody
                        \* looked at has lost

diskVars == <<floppy, hard, lost>>
chipVars == <<fdc, sasi, iosc>>
dmaVars == <<dma, csr, received>>
guestVars == <<guest, job, asked, table, verdict, serial>>
vars == <<diskVars, chipVars, dmaVars, guestVars, faults>>

--------------------------------------------------------------------------------
(* The I/O interrupt controller at $E9C000, class x68k::IoSc (core/dev/iosc.{h,cpp}), *)
(* as operators on a record i.  Its lines are levels: a request stays until its       *)
(* source withdraws it.                                                              *)

IoScDevices == <<"FDC", "FDD", "HDD", "Printer">>      \* in order of priority

\* IoSc::reset
ResetIoSc == [enable |-> {}, status |-> {}, vector |-> 0]

\* IoSc::setSource; a busy printer is no request.
SetSource(i, device, asserted) ==
    IF device = "Printer" THEN i
    ELSE [i EXCEPT !.status = IF asserted THEN @ \cup {device} ELSE @ \ {device}]

\* IoSc::write of $E9C001 and $E9C003: the status bits are the devices'.
WriteEnable(i, devices) == [i EXCEPT !.enable = devices]
WriteVector(i, value) == [i EXCEPT !.vector = value]

\* IoSc::hasPendingInterrupt, pendingDevice
IoScPending(i) == i.enable \cap i.status # {}
PendingDevice(i) ==
    CHOOSE n \in 1 .. 4 : /\ IoScDevices[n] \in i.enable \cap i.status
                          /\ \A m \in 1 .. n - 1 : IoScDevices[m] \notin i.enable \cap i.status

\* IoSc::acknowledgeInterrupt: nothing withdrawn, and no vector while it is not set.
IoScVector(i) ==
    IF ~IoScPending(i) \/ i.vector = 0 THEN 0
    ELSE (i.vector \div 4) * 4 + PendingDevice(i) - 1

--------------------------------------------------------------------------------
FloppySectors == 0 .. Cylinders * 2 * SectorsPerTrack - 1
NoDma == [channel |-> "none", toMemory |-> FALSE, left |-> 0, block |-> FALSE]
NoSt0 == [flags |-> {}, head |-> 0, drive |-> 0]

TypeOK ==
    /\ fdc.phase \in {"Command", "Execute", "Result"}
    /\ fdc.pos \in 0 .. MaxSectorSize /\ fdc.present \in [Drives -> 0 .. Cylinders - 1]
    /\ sasi.pos \in 0 .. sasi.length
    /\ dma.channel \in {"none", "FDC", "SASI"} /\ dma.left \in Nat
    /\ csr \in {"none", "COC", "ERR"}
    /\ verdict \in {"none", "good", "bad"}
    /\ serial \in 0 .. MaxCommands /\ faults \in 0 .. MaxFaults

OldSector(lba, size) == [i \in 1 .. size |-> <<-1 - lba, i>>]

Init ==
    /\ fdc = ResetFdc /\ sasi = ResetSasi
    /\ floppy = [d \in Inserted |-> [l \in FloppySectors |-> OldSector(l, SectorSize)]]
    /\ hard = [l \in 0 .. HardSectors - 1 |-> OldSector(l, SasiSectorSize)]
    /\ iosc = WriteVector(WriteEnable(ResetIoSc, {"FDC", "FDD"}), 96)
    /\ dma = NoDma /\ csr = "none" /\ received = <<>>
    /\ guest = "idle" /\ job = <<>> /\ asked = 0
    /\ table = [st0 |-> NoSt0, fresh |-> FALSE] /\ verdict = "none"
    /\ serial = 0 /\ faults = 0 /\ lost = {}

\* The card does its part, or not.
Card(ok) == (ok /\ UNCHANGED faults) \/ (~ok /\ faults < MaxFaults /\ faults' = faults + 1)

\* A write: fwrite takes the data (ok), fflush brings it to the card (kept).  Both may
\* fail, and the answer is fwrite's alone (SdFloppy::writeSector, SdDisk::writeSector).
WriteCard(ok, kept) == (kept => ok) /\ Card(kept)

Quiet == dma = NoDma
At(place) == Quiet /\ guest = place
Code1 == Code(job[1])
IsFloppy == job \in FdcCommands

--------------------------------------------------------------------------------
(* The guest gives a floppy command. *)

StartFloppy ==
    /\ At("idle") /\ serial < MaxCommands
    /\ \E c \in FdcCommands : job' = c
    /\ serial' = serial + 1
    /\ guest' = "send" /\ verdict' = "none" /\ csr' = "none" /\ received' = <<>> /\ asked' = 0
    /\ lost' = {}
    /\ UNCHANGED <<floppy, hard, chipVars, dma, table, faults>>

\* The ROM waits for an idle controller before the first byte, and for one that
\* takes bytes before the others ($FF904C).  The last byte starts the command.
SendByte ==
    /\ At("send") /\ IsFloppy
    /\ LET k == Len(fdc.command)
       IN  /\ IF k = 0 THEN "CB" \notin ReadStatus(fdc) \/ fdc.phase = "Result"
                       ELSE "DIO" \notin ReadStatus(fdc)
           /\ \E ok \in BOOLEAN :
                /\ fdc' = WriteData(fdc, job[k + 1], floppy, ok)
                /\ IF Executes(fdc, job[k + 1]) /\ Code1 \in Reads THEN Card(ok)
                                                                   ELSE ok /\ UNCHANGED faults
           /\ iosc' = SetSource(iosc, "FDC", fdc'.irq)
           /\ IF Executes(fdc, job[k + 1])
              THEN /\ table' = [table EXCEPT !.fresh = FALSE]
                   /\ guest' = IF Code1 \in Reads \cup Writes THEN "transfer"
                               ELSE IF Code1 = Specify THEN "idle"
                               ELSE IF fdc'.phase = "Result" THEN "results"
                               ELSE "wait"
              ELSE UNCHANGED <<table, guest>>
    /\ UNCHANGED <<diskVars, sasi, dmaVars, job, asked, verdict, serial>>

\* Results the ROM reads on the spot ($FF89DE).
ReadResults ==
    /\ At("results")
    /\ fdc' = ReadData(fdc, floppy, TRUE)
    /\ iosc' = SetSource(iosc, "FDC", fdc'.irq)
    /\ guest' = IF fdc'.phase = "Result" THEN "results" ELSE "idle"
    /\ UNCHANGED <<diskVars, sasi, dmaVars, job, asked, table, verdict, serial, faults>>

\* A read without DMA: the guest takes unit after unit from the data port.
ReadByHand ==
    /\ At("transfer") /\ IsFloppy /\ ReadsOn(fdc)
    /\ csr = "none"
    /\ received' = Append(received, fdc.buffer[fdc.pos + 1])
    /\ asked' = asked + 1
    /\ \E ok \in BOOLEAN :
         /\ fdc' = ReadData(fdc, floppy, ok)
         /\ IF Taken(fdc).pos >= fdc.size /\ CanAdvance(fdc) THEN Card(ok)
                                                             ELSE ok /\ UNCHANGED faults
    /\ iosc' = SetSource(iosc, "FDC", fdc'.irq)
    /\ guest' = IF fdc'.phase = "Execute" THEN "transfer" ELSE "wait"
    /\ UNCHANGED <<diskVars, sasi, dma, csr, job, table, verdict, serial>>

\* The interrupt handler ($FF1130) leaves a busy controller alone; it asks for the
\* cause, keeps ST0, and asks until there is none.
Sense(f) == WriteData(f, SenseInterrupt, floppy, TRUE)
NextResult(f) == ReadData(f, floppy, TRUE)
Interrupt ==
    /\ Quiet
    /\ IoScVector(SetSource(iosc, "FDC", fdc.irq)) = 96
    /\ "CB" \notin ReadStatus(fdc)
    /\ \E sensed \in {Sense(fdc)} :
         \E read \in {NextResult(NextResult(sensed))} :
           /\ table' = [st0 |-> sensed.result[1], fresh |-> TRUE]
           /\ fdc' = NextResult(Sense(read))
    /\ iosc' = SetSource(iosc, "FDC", fdc'.irq)
    /\ UNCHANGED <<diskVars, sasi, dmaVars, guest, job, asked, verdict, serial, faults>>

\* The command is over when the handler has been: ST0, and the DMAC if it was used.
Conclude ==
    /\ At("wait") /\ table.fresh
    /\ verdict' = IF table.st0.flags \cap {"AT", "IC"} = {} /\ csr # "ERR" THEN "good" ELSE "bad"
    /\ guest' = "idle"
    /\ UNCHANGED <<diskVars, chipVars, dmaVars, job, asked, table, serial, faults>>

\* Positioning: nobody need wait for it.
GoOn ==
    /\ At("wait") /\ Code1 \in {Seek, Recalibrate}
    /\ guest' = "idle"
    /\ UNCHANGED <<diskVars, chipVars, dmaVars, job, asked, table, verdict, serial, faults>>

--------------------------------------------------------------------------------
(* The DMA controller. *)

\* Dmac::write of CCR with the start bit, Dmac::runTransfer up to its loop.
ToMemory ==
    IF IsFloppy THEN Code1 \in Reads ELSE job[1] \in {SasiRead, SasiRequestSense}
StartDma ==
    /\ At("transfer") /\ csr = "none" /\ received = <<>>
    /\ \E count \in Counts, block \in BOOLEAN :
         LET units == IF count = 0 THEN MtcZero ELSE count
         IN  /\ dma' = [channel |-> IF IsFloppy THEN "FDC" ELSE "SASI",
                        toMemory |-> ToMemory, left |-> units,
                        block |-> block /\ ~IsFloppy /\ ToMemory]
             /\ asked' = units
    /\ UNCHANGED <<diskVars, chipVars, csr, received, guest, job, table, verdict, serial, faults>>

Moving(channel, toMemory) ==
    dma.channel = channel /\ dma.toMemory = toMemory /\ dma.left > 0
Move(n) == dma' = [dma EXCEPT !.left = dma.left - n, !.block = FALSE]

\* Machine::tryReadToMemory: all there is at once, where the memory allows it.
MoveBlock ==
    /\ Moving("SASI", TRUE) /\ dma.block /\ HasUnit(sasi)
    /\ LET rest == sasi.length - sasi.pos
           n == IF dma.left < rest THEN dma.left ELSE rest
       IN  /\ received' = received \o SubSeq(sasi.buffer, sasi.pos + 1, sasi.pos + n)
           /\ sasi' = TakeUnits(sasi, n)
           /\ Move(n)
    /\ UNCHANGED <<diskVars, fdc, iosc, csr, guestVars, faults>>

MoveFromSasi ==
    /\ Moving("SASI", TRUE) /\ ~dma.block /\ HasUnit(sasi)
    /\ received' = Append(received, sasi.buffer[sasi.pos + 1])
    /\ sasi' = TakeUnits(sasi, 1)
    /\ Move(1)
    /\ UNCHANGED <<diskVars, fdc, iosc, csr, guestVars, faults>>

\* Data for the disk carries the command's number and its own.
NewUnit(n) == <<serial, n>>
\* What a write leaves on the disk: its first sectors.  An image that ends before them
\* grows; what lies in between is nobody's data.
Written(buffer, count) ==
    [l \in DOMAIN hard \cup (IF count = 0 THEN {} ELSE 0 .. Lba(sasi) + count - 1) |->
        IF l - Lba(sasi) \in 0 .. count - 1
        THEN SubSeq(buffer, (l - Lba(sasi)) * SasiSectorSize + 1,
                            (l - Lba(sasi) + 1) * SasiSectorSize)
        ELSE IF l \in DOMAIN hard THEN hard[l] ELSE OldSector(l, SasiSectorSize)]
\* All of them when the flush succeeds, or a beginning; the status knows of fwrite only.
WriteHard(unit) ==
    IF Completes(sasi) /\ sasi.phase = "DataOut" /\ HardPresent
    THEN \E ok, kept \in BOOLEAN :
           /\ WriteCard(ok, kept)
           /\ sasi' = PutUnit(sasi, unit, ok)
           /\ \E count \in IF kept THEN {Requested(sasi)} ELSE 0 .. Requested(sasi) - 1 :
                /\ hard' = Written(Append(sasi.buffer, unit), count)
                /\ lost' = IF ok /\ ~kept THEN Lba(sasi) + count .. Lba(sasi) + Requested(sasi) - 1
                                          ELSE lost
    ELSE sasi' = PutUnit(sasi, unit, TRUE) /\ UNCHANGED <<hard, lost, faults>>

MoveToSasi ==
    /\ Moving("SASI", FALSE) /\ TakesUnit(sasi)
    /\ WriteHard(NewUnit(sasi.pos + 1))
    /\ Move(1)
    /\ UNCHANGED <<floppy, fdc, iosc, csr, received, guestVars>>

MoveFromFdc ==
    /\ Moving("FDC", TRUE) /\ ReadsOn(fdc)
    /\ \E ok \in BOOLEAN :
         LET f == Refilled(fdc, floppy, ok)
         IN  /\ IF NeedsSector(fdc) /\ CanAdvance(fdc) THEN Card(ok) ELSE ok /\ UNCHANGED faults
             /\ IF ReadsOn(f)
                THEN /\ fdc' = Taken(f)
                     /\ received' = Append(received, f.buffer[f.pos + 1])
                     /\ Move(1)
                ELSE fdc' = f /\ UNCHANGED <<received, dma>>
    /\ UNCHANGED <<diskVars, sasi, iosc, csr, guestVars>>

\* A full sector goes to the disk before the next unit is asked for.
MoveToFdc ==
    /\ Moving("FDC", FALSE) /\ WritesOn(fdc)
    /\ LET unit == NewUnit(asked - dma.left + 1)
           full == Filled(fdc, unit)
       IN  IF CompletesSector(fdc) /\ Located(fdc)
           THEN \E ok, kept \in BOOLEAN :
                  /\ WriteCard(ok, kept)
                  /\ fdc' = DmaWrite(fdc, unit, ok)
                  /\ floppy' = IF kept THEN [floppy EXCEPT ![fdc.drive][Sector(fdc)] = full.buffer]
                                       ELSE floppy
                  /\ lost' = IF ok /\ ~kept THEN lost \cup {Sector(fdc)} ELSE lost
                  /\ IF ok THEN Move(1) ELSE UNCHANGED dma
           ELSE /\ fdc' = DmaWrite(fdc, unit, ~CompletesSector(fdc))
                /\ IF CompletesSector(fdc) THEN UNCHANGED dma ELSE Move(1)
                /\ UNCHANGED <<floppy, lost, faults>>
    /\ UNCHANGED <<hard, sasi, iosc, csr, received, guestVars>>

\* The loop ends with the count or with a device that has no more; the device hears
\* of it before the status is set.
DeviceDone ==
    CASE dma.channel = "FDC" -> ~(IF dma.toMemory THEN ReadsOn(fdc) ELSE WritesOn(fdc))
      [] dma.toMemory -> ~HasUnit(sasi)
      [] OTHER -> ~TakesUnit(sasi)
EndDma ==
    /\ ~Quiet /\ (dma.left = 0 \/ DeviceDone)
    /\ fdc' = IF dma.channel = "FDC" THEN DmaComplete(fdc, dma.left = 0) ELSE fdc
    /\ csr' = IF dma.left = 0 THEN "COC" ELSE "ERR"
    /\ dma' = NoDma
    /\ guest' = IF IsFloppy THEN "wait" ELSE "status"
    /\ UNCHANGED <<diskVars, sasi, iosc, received, job, asked, table, verdict, serial, faults>>

RunTransfer ==
    MoveBlock \/ MoveFromSasi \/ MoveToSasi \/ MoveFromFdc \/ MoveToFdc \/ EndDma

--------------------------------------------------------------------------------
(* The guest gives a SASI command. *)

StartSasi ==
    /\ At("idle") /\ serial < MaxCommands
    /\ \E c \in SasiCommands : job' = c
    /\ serial' = serial + 1
    /\ guest' = "select" /\ verdict' = "none" /\ csr' = "none" /\ received' = <<>> /\ asked' = 0
    /\ lost' = {}
    /\ UNCHANGED <<floppy, hard, chipVars, dma, table, faults>>

\* Without a disk the selection times out.
SelectDisk ==
    /\ At("select")
    /\ sasi' = Select(sasi)
    /\ guest' = IF sasi'.phase = "Selected" THEN "poll" ELSE "idle"
    /\ UNCHANGED <<diskVars, fdc, iosc, dmaVars, job, asked, table, verdict, serial, faults>>

\* The ROM reads the phase, and does what it asks for.
PollSasi ==
    /\ At("poll")
    /\ sasi' = ReadSasiStatus(sasi)
    /\ guest' = CASE StatusOf(sasi) = "BusFree" -> "poll"
                  [] StatusOf(sasi) = "Command" -> "command"
                  [] StatusOf(sasi) \in {"DataIn", "DataOut"} -> "transfer"
                  [] StatusOf(sasi) = "SpecifyParam" -> "parameters"
                  [] OTHER -> "status"
    /\ UNCHANGED <<diskVars, fdc, iosc, dmaVars, job, asked, table, verdict, serial, faults>>

SendSasiByte ==
    /\ At("command")
    /\ \E ok \in BOOLEAN :
         LET k == Len(sasi.command)
         IN  /\ sasi' = WriteSasiData(sasi, job[k + 1], hard, ok)
             /\ IF k + 1 = CommandBytes /\ job[1] = SasiRead THEN Card(ok)
                                                            ELSE ok /\ UNCHANGED faults
    /\ guest' = "poll"
    /\ UNCHANGED <<diskVars, fdc, iosc, dmaVars, job, asked, table, verdict, serial>>

\* The parameters of SPECIFY, and data by hand.
SendParameter ==
    /\ At("parameters")
    /\ sasi' = WriteSasiData(sasi, 0, hard, TRUE)
    /\ guest' = "poll"
    /\ UNCHANGED <<diskVars, fdc, iosc, dmaVars, job, asked, table, verdict, serial, faults>>
SasiByHand ==
    /\ At("transfer") /\ ~IsFloppy /\ csr = "none"
    /\ asked' = asked + 1
    /\ \/ /\ HasUnit(sasi)
          /\ received' = Append(received, sasi.buffer[sasi.pos + 1])
          /\ sasi' = ReadSasiData(sasi)
          /\ UNCHANGED <<hard, lost, faults>>
       \/ TakesUnit(sasi) /\ WriteHard(NewUnit(sasi.pos + 1)) /\ UNCHANGED received
    /\ guest' = "poll"
    /\ UNCHANGED <<floppy, fdc, iosc, dma, csr, job, table, verdict, serial>>

\* Two bytes end a command.  A driver that finds the bus in another phase - its
\* transfer was too short - gives up.
FinishSasi ==
    /\ At("status")
    /\ IF sasi.phase \in {"Status", "Message"}
       THEN /\ sasi' = ReadSasiData(sasi)
            /\ verdict' = IF sasi.phase = "Message" THEN verdict
                          ELSE IF sasi.status = 0 /\ csr # "ERR" THEN "good" ELSE "bad"
            /\ guest' = IF sasi.phase = "Message" THEN "idle" ELSE "status"
       ELSE /\ verdict' = "bad" /\ guest' = "idle"
            /\ UNCHANGED sasi
    /\ UNCHANGED <<diskVars, fdc, iosc, dmaVars, job, asked, table, serial, faults>>

Floppy == SendByte \/ ReadResults \/ ReadByHand \/ Interrupt \/ Conclude \/ GoOn \/ StartDma
HardDisk == SelectDisk \/ PollSasi \/ SendSasiByte \/ SendParameter \/ SasiByHand \/ FinishSasi

Next == StartFloppy \/ StartSasi \/ Floppy \/ HardDisk \/ RunTransfer

\* The guest goes on, and so does a transfer.
Spec == Init /\ [][Next]_vars /\ WF_vars(Floppy) /\ WF_vars(HardDisk) /\ WF_vars(RunTransfer)

--------------------------------------------------------------------------------
(* What a transfer should do, in one piece. *)

\* The n-th sector of a floppy command: on to the end of the track, with MT to the
\* other side.
FirstTrack == IF job[5] <= job[7] THEN job[7] - job[5] + 1 ELSE 1
Head0 == (job[2] \div 4) % 2
HasSector(n) == n <= FirstTrack \/ (job[1] >= MultiTrack /\ Head0 = 0 /\ n <= FirstTrack + job[7])
FloppySector(n) ==
    IF n <= FirstTrack THEN (job[3] * 2 + Head0) * SectorsPerTrack + job[5] - 1 + n - 1
    ELSE (job[3] * 2 + 1) * SectorsPerTrack + n - FirstTrack - 1
\* The sector of the n-th unit, and the unit there.
FloppyPlace(n) == FloppySector((n - 1) \div SectorSize + 1)
OnFloppy(n) == floppy[job[2] % 4][FloppyPlace(n)][((n - 1) % SectorSize) + 1]
HardPlace(n) ==
    (job[2] % 32) * 65536 + job[3] * 256 + job[4] + (n - 1) \div SasiSectorSize
OnHard(n) == hard[HardPlace(n)][((n - 1) % SasiSectorSize) + 1]

\* No sector, on any disk, is a mixture of two commands or of two places: a transfer
\* that stops in the middle leaves the sector as it was (Fdc::dmaComplete,
\* Machine::finishSasiWrite).
Whole(sector, size) ==
    sector = [i \in 1 .. size |-> <<sector[1][1], sector[1][2] + i - 1>>]
WholeSectors ==
    /\ \A d \in Inserted : \A l \in FloppySectors : Whole(floppy[d][l], SectorSize)
    /\ \A l \in DOMAIN hard : Whole(hard[l], SasiSectorSize)

\* Every unit asked for has been moved, in order, from or to the sectors the command
\* names, except what should be in some sectors.
Delivered(except) ==
    IF IsFloppy
    THEN /\ Code1 \in Writes =>
            \A n \in 1 .. asked : FloppyPlace(n) \in except \/ OnFloppy(n) = NewUnit(n)
         /\ Code1 \in Reads => received = [n \in 1 .. asked |-> OnFloppy(n)]
    ELSE /\ job[1] = SasiWrite =>
            \A n \in 1 .. asked : HardPlace(n) \in except \/ OnHard(n) = NewUnit(n)
         /\ job[1] = SasiRead => received = [n \in 1 .. asked |-> OnHard(n)]

\* When the guest sees success - ST0 or the SASI status without error, the DMAC with
\* its operation complete - all the data has been moved, but for the sectors a flush
\* has lost whose result the storage drops: of every other failure the guest hears.
\* With a card that has not failed nothing is lost, and success means stored.
HonestStatus ==
    /\ verdict = "good" /\ guest = "idle" => Delivered(lost)
    /\ faults = 0 => lost = {}

\* Success means stored, as Machine::finishSasiWrite has it ("a write that failed must
\* not look like success").  The code does not keep it, so no run checks it: a failed
\* flush refutes it (SdDisk::writeSector, SdFloppy::writeSector).
SuccessIsStored == verdict = "good" /\ guest = "idle" => Delivered({})

\* The end of a transfer at the end of a sector is a success: when the DMAC reports
\* the operation complete and no sector is left half full, so does ST0.
CompletionAgrees ==
    guest = "idle" /\ IsFloppy /\ csr = "COC" /\ asked % SectorSize = 0 => verdict # "bad"

\* Every command comes to an end: no driver waits for ever for a bit or an interrupt
\* (Fdc::finishExecute, the phases of sasiRead).
EveryCommandEnds == guest # "idle" ~> guest = "idle"

================================================================================
