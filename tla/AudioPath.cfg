SPECIFICATION PathSpec
CONSTANTS
    BlockCount = 3
    MaxBlocks = 4
    MaxRestarts = 2
    BlockUnits = 3
    SliceUnits = 2
    LeadUnits = 3
    Slack = 0
    PlayBuffers = 3
    HasListener = TRUE
INVARIANTS
    NoSharedCell
    SoundIsCurrent
    NothingDropped
    PlayedIntact
PROPERTIES
    GuestRuns
CHECK_DEADLOCK FALSE
