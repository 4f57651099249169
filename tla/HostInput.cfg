SPECIFICATION FairSpec
CONSTANTS
    RxFifoSize = 8
    DeltaMin <- MCMinus128
    DeltaMax = 127
    Routines <- MCRoutines
    Positions <- MCPositions
    Codes <- MCCodes
    QueueLength = 2
    StepsPerEvent = 4
    GuestLatency = 5
    MaxPushes = 3
    MaxSamples = 4
INVARIANTS
    MotionConserved
    ByteHasInterrupt
    HeardInOrder
PROPERTIES
    NoJump
    ButtonFollowsFinger
    AllHeard
CHECK_DEADLOCK FALSE
