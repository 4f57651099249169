------------------------------- MODULE SramSave --------------------------------
(******************************************************************************)
(* The battery-backed memory of the X68000 and its copy on the card: the guest   *)
(* writes the SRAM (Sram::write8), the emulation task saves it every ten seconds *)
(* and before it stops (emulatorTask, saveSramIfDirty, saveSramImage), and       *)
(* app_main restores it after a power loss (loadSram, loadSramImage).            *)
(*                                                                             *)
(* Every file operation is a step, and the power may go between any two of them; *)
(* a write is two steps, because opening the file empties it.  Contents are      *)
(* versions: a version in Spoilt is one whose magic the guest destroyed.         *)
(******************************************************************************)
EXTENDS Integers

CONSTANTS
    MaxVersion,         \* bound: how often the guest changes the SRAM
    Spoilt,             \* versions without the magic, which loadImage refuses
    MaxFaults,          \* bound: how often the card fails
    MaxLosses           \* bound: how often the power fails

Factory == 0
None == -1      \* there is no such file
Torn == -2      \* opened for writing, not closed

Versions == 0 .. MaxVersion
Contents == Versions \cup {None, Torn}

ASSUME SramAssumption ==
    /\ MaxVersion \in Nat /\ MaxFaults \in Nat /\ MaxLosses \in Nat
    /\ Spoilt \subseteq Versions \ {Factory}

VARIABLES
    primary,    \* sram.dat
    temp,       \* sram.dat.tmp
    sram,       \* Sram::data_
    dirty,      \* Sram::dirty_
    pc,         \* where the start-up or the emulation task is
    halting,    \* Machine::isHalted: the save before the task deletes itself
    newest,     \* history: the newest version the guest made
    stored,     \* history: the version last saved with success, or restored
    tried,      \* history: the version of the last attempt to save
    exposed,    \* history: a rename failed and left the temporary file as the only copy
    faults,     \* faults of the card so far
    losses      \* power losses so far

files == <<primary, temp>>
memory == <<sram, dirty>>
history == <<newest, stored, tried, exposed>>
vars == <<files, memory, pc, halting, history, faults, losses>>

BootSteps == {"boot", "dropTemp", "readTemp", "dropBad", "dropPrimary", "promote", "reset"}
SaveSteps == {"open", "write", "discard", "remove", "rename"}

TypeOK ==
    /\ primary \in Contents /\ temp \in Contents
    /\ sram \in Versions /\ dirty \in BOOLEAN
    /\ pc \in BootSteps \cup SaveSteps \cup {"run", "stopped"}
    /\ halting \in BOOLEAN
    /\ {newest, stored, tried} \subseteq Versions /\ exposed \in BOOLEAN
    /\ faults \in 0 .. MaxFaults /\ losses \in 0 .. MaxLosses

\* Sram::loadImage takes a file of the right length with the magic in place.
Accepted(content) == content \in Versions \ Spoilt

\* What loadSramImage would put into the SRAM now.
Restored ==
    IF Accepted(primary) THEN primary
    ELSE IF Accepted(temp) THEN temp
    ELSE Factory

\* A device without the card's file starts with the values of formatDefaults.
Init ==
    /\ primary = None /\ temp = None
    /\ sram = Factory /\ dirty = FALSE
    /\ pc = "boot" /\ halting = FALSE
    /\ newest = Factory /\ stored = Factory /\ tried = Factory /\ exposed = FALSE
    /\ faults = 0 /\ losses = 0

Fault == faults < MaxFaults /\ faults' = faults + 1

--------------------------------------------------------------------------------
(* Start-up. *)

\* The primary file goes first; it makes the temporary one useless.
ReadPrimary ==
    /\ pc = "boot"
    /\ IF Accepted(primary)
       THEN sram' = primary /\ dirty' = FALSE /\ pc' = "dropTemp"
       ELSE UNCHANGED memory /\ pc' = "readTemp"
    /\ UNCHANGED <<files, halting, history, faults, losses>>

ReadTemp ==
    /\ pc = "readTemp"
    /\ IF Accepted(temp)
       THEN sram' = temp /\ dirty' = FALSE /\ pc' = "dropPrimary"
       ELSE UNCHANGED memory /\ pc' = "dropBad"
    /\ UNCHANGED <<files, halting, history, faults, losses>>

\* Removing a file that does not exist counts as success and changes nothing.
DropTemp ==
    /\ pc \in {"dropTemp", "dropBad"}
    /\ \/ temp' = None /\ UNCHANGED faults
       \/ Fault /\ UNCHANGED temp
    /\ pc' = "reset"
    /\ UNCHANGED <<primary, memory, halting, history, losses>>

DropPrimary ==
    /\ pc \in {"dropPrimary", "remove"}
    /\ \/ primary' = None /\ UNCHANGED faults
       \/ Fault /\ UNCHANGED primary
    /\ pc' = IF pc = "remove" THEN "rename" ELSE "promote"
    /\ UNCHANGED <<temp, memory, halting, history, losses>>

\* On FAT a rename onto a file that exists fails.
Renamed ==
    /\ primary = None
    /\ primary' = temp /\ temp' = None
    /\ UNCHANGED faults

RenameFailed ==
    /\ \/ primary # None /\ UNCHANGED faults
       \/ Fault
    /\ UNCHANGED files

Promote ==
    /\ pc = "promote"
    /\ Renamed \/ RenameFailed
    /\ pc' = "reset"
    /\ exposed' = (exposed \/ ~Accepted(primary'))
    /\ UNCHANGED <<memory, halting, newest, stored, tried, losses>>

\* Machine::reset leaves an SRAM with the magic alone.
Reset ==
    /\ pc = "reset"
    /\ pc' = "run"
    /\ stored' = sram /\ tried' = sram
    /\ exposed' = (exposed /\ ~Accepted(primary))
    /\ UNCHANGED <<files, memory, halting, newest, faults, losses>>

--------------------------------------------------------------------------------
(* The guest, and the emulation task that saves what it changed. *)

GuestWrite ==
    /\ pc = "run" /\ ~halting
    /\ newest < MaxVersion
    /\ newest' = newest + 1
    /\ sram' = newest' /\ dirty' = TRUE
    /\ UNCHANGED <<files, pc, halting, stored, tried, exposed, faults, losses>>

\* An instruction the CPU does not know: the turn after it is the task's last.
Halt ==
    /\ pc = "run" /\ ~halting
    /\ halting' = TRUE
    /\ UNCHANGED <<files, memory, pc, history, faults, losses>>

\* saveSramIfDirty, every ten seconds and when the machine has halted.
SaveDue ==
    /\ pc = "run" /\ dirty
    /\ pc' = "open"
    /\ tried' = sram
    /\ UNCHANGED <<files, memory, halting, newest, stored, exposed, faults, losses>>

\* Nothing to save: the halted task ends.
Stop ==
    /\ pc = "run" /\ halting /\ ~dirty
    /\ pc' = "stopped"
    /\ UNCHANGED <<files, memory, halting, history, faults, losses>>

\* Back to the loop, which a halted machine leaves for good.
SaveEnds == pc' = IF halting THEN "stopped" ELSE "run"

\* FatFileOps::write: fopen empties the file.
OpenInPlace ==      \* mutant: sram.dat itself is opened
    /\ pc = "open"
    /\ primary' = Torn /\ pc' = "write"
    /\ UNCHANGED <<temp, memory, halting, history, faults, losses>>

Open ==
    /\ pc = "open"
    /\ \/ temp' = Torn /\ pc' = "write" /\ UNCHANGED faults
       \/ Fault /\ SaveEnds /\ UNCHANGED temp
    /\ UNCHANGED <<primary, memory, halting, history, losses>>

\* fwrite, fflush and fclose succeed together, or the file is taken away again.
Write ==
    /\ pc = "write"
    /\ \/ temp' = sram /\ pc' = "remove" /\ UNCHANGED faults
       \/ Fault /\ pc' = "discard" /\ UNCHANGED temp
    /\ UNCHANGED <<primary, memory, halting, history, losses>>

Discard ==
    /\ pc = "discard"
    /\ \/ temp' = None /\ UNCHANGED faults
       \/ Fault /\ UNCHANGED temp
    /\ SaveEnds
    /\ UNCHANGED <<primary, memory, halting, history, losses>>

\* Only a complete save makes the SRAM clean.
Forget == dirty' = FALSE     \* mutant: whatever the card answered
KeepDirty == UNCHANGED dirty

Rename ==
    /\ pc = "rename"
    /\ \/ Renamed /\ dirty' = FALSE /\ stored' = sram /\ exposed' = FALSE
       \/ /\ RenameFailed /\ KeepDirty
          /\ exposed' = ~Accepted(primary)
          /\ UNCHANGED stored
    /\ SaveEnds
    /\ UNCHANGED <<sram, halting, newest, tried, losses>>

--------------------------------------------------------------------------------
(* The power goes at any moment; what is left is what is on the card, and the    *)
(* next start begins with the values of formatDefaults in memory.                *)
PowerLoss ==
    /\ losses < MaxLosses
    /\ losses' = losses + 1
    /\ sram' = Factory /\ dirty' = FALSE
    /\ pc' = "boot" /\ halting' = FALSE
    /\ UNCHANGED <<files, history, faults>>

Boot == ReadPrimary \/ ReadTemp \/ DropTemp \/ DropPrimary \/ Promote \/ Reset
Save == SaveDue \/ Stop \/ Open \/ Write \/ Discard \/ Rename

Next == Boot \/ Save \/ GuestWrite \/ Halt \/ PowerLoss

\* The task keeps running: its loop waits for nothing.
Spec == Init /\ [][Next]_vars /\ WF_vars(Boot) /\ WF_vars(Save)

--------------------------------------------------------------------------------
\* What a version becomes when it is read back.
ReadBack(version) == IF version \in Spoilt THEN Factory ELSE version

\* Whenever the power goes, and however often, the next start finds the settings
\* of the last complete save or those of the save under way, never older ones and
\* never the factory's (the order of the steps of saveSramImage and loadSramImage);
\* except once a rename failed, until a save is complete again.
Recoverable == exposed \/ Restored \in {ReadBack(stored), ReadBack(tried)}

\* saveSramImage on a failed rename: what is left "is picked up at the next start",
\* so saving never takes away what a start would have found.
NeverBackwards == [][Restored' >= Restored]_files

\* An SRAM that is clean is on the card: nothing the guest changed is forgotten
\* because the card failed once (saveSramIfDirty clears dirty_ last of all).
CleanIsStored ==
    pc \in {"run", "stopped"} /\ ~dirty => ReadBack(sram) = Restored

\* A change reaches the card unless the guest changes it again, the power goes, or
\* the one save of a machine that halts fails.
Saved(version) ==
    \/ sram # version
    \/ ReadBack(version) = Restored
    \/ pc = "stopped" /\ dirty
EventuallySaved ==
    \A version \in Versions :
        pc = "run" /\ sram = version /\ dirty ~> Saved(version)

================================================================================
