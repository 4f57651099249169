SPECIFICATION Spec
CONSTANTS
    MaxVersion = 3
    Spoilt = {2}
    MaxFaults = 2
    MaxLosses = 2
INVARIANTS
    Recoverable
PROPERTIES
    EventuallySaved
CHECK_DEADLOCK FALSE
