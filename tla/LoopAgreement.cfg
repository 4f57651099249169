SPECIFICATION AgreementSpec
CONSTANTS
    MinDeadline = 4
    FallbackSpan = 16
    PrescaleTable <- MCPrescaleTable
    TimerModulus = 4
    NoDeadline = 1000
    FrameCycles = 24
    VBlankCycles = 8
    CyclesPerSecond = 26
    GuestOps <- MCGuestOps
    InstrCycles = {2, 4}
    StopStep = 2
    ExceptionCycles = 4
    MaxSettleChunk = 16
    SliceCycles = {14}
    MaxRuns = 2
    MaxInputs = 1
    InitialMfp <- MCInitialMfp
    Modes = {TRUE}
INVARIANTS
    LoopsAgree
CHECK_DEADLOCK FALSE
