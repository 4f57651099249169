SPECIFICATION FairSpec
CONSTANTS
    MinDeadline = 4
    FallbackSpan = 16
    PrescaleTable <- MCPrescaleTable
    TimerModulus = 4
    NoDeadline = 1000
    FrameCycles = 24
    VBlankCycles = 10
    CyclesPerSecond = 22
    GuestOps <- MCGuestOps
    InstrCycles = {2}
    StopStep = 2
    ExceptionCycles = 4
    MaxSettleChunk = 16
    SliceCycles = {9}
    MaxRuns = 2
    MaxInputs = 1
    InitialMfp <- MCInitialMfp
    Modes = {TRUE, FALSE}
INVARIANTS
    NothingBeforeDeadline
    AcknowledgedIsRequested
PROPERTIES
    NothingLeftUnserved
    ImplementsRunLoop
    RunReturns
CHECK_DEADLOCK FALSE
