SPECIFICATION Spec
CONSTANTS
    Cylinders = 2
    SectorsPerTrack = 2
    SectorSize = 2
    Inserted = {0, 1}
    Protected = {1}
    HardSectors = 4
    MaxSectors = 4
    CountZero = 4
    HardPresent = TRUE
    FdcCommands <- MCFdcCommands
    SasiCommands <- MCSasiCommands
    Counts = {0, 1, 2, 4}
    MtcZero = 10
    MaxCommands = 2
    MaxFaults = 1
INVARIANTS
    WholeSectors
    HonestStatus
PROPERTIES
    EveryCommandEnds
CHECK_DEADLOCK FALSE
