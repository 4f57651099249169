SPECIFICATION TimeSpec
CONSTANTS
    PrescaleTable <- MCPrescaleTable
    TimerModulus = 5
    NoDeadline = 1000
    FrameCycles = 36
    VBlankCycles = 10
    CyclesPerSecond = 22
    MaxSettleChunk = 12
    StepCosts = {2, 8}
    Controls = {0, 1, 2}
    DataValues = {0, 1}
    GuestTimers = {"C"}
    BootMfp <- MCBootMfp
    Dates <- MCDates
    Nibbles = {0, 2, 15}
    MaxClockWrites = 2
    MaxElapsed = 46
INVARIANTS
    DeferredIsPrompt
    PredictionsExact
CHECK_DEADLOCK FALSE
PROPERTIES
    NextInstant
