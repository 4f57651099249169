SPECIFICATION Spec
CONSTANTS
    MaxVersion = 2
    Spoilt = {}
    MaxFaults = 1
    MaxLosses = 1
PROPERTIES
    NeverBackwards
CHECK_DEADLOCK FALSE
