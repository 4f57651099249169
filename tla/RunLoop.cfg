SPECIFICATION Spec
CONSTANTS
    MinDeadline = 3
    FallbackSpan = 5
    InstrCycles = {1, 2, 3}
    StopStep = 2
    SliceCycles = {1, 7, 9}
    Delays = {0, 1, 2, 3, 4, 5, 6, 7, 8, 9, 10}
    Instants = {0, 1, 2, 3, 4, 5, 6, 7, 8, 9, 10, 11, 12, 13, 14}
INVARIANTS
    Settled
    DebtInRange
    InsideSlice
PROPERTIES
    ClocksSpec
