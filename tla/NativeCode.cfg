SPECIFICATION Spec
CONSTANTS
    RamPages = 2
    PageWords = 8
    AlwaysStale = 5
    Rom <- MCRom
    Handler = 8
    Images <- MCImages
    MaxOps = 3
    SlotCount = 2
    NegativeCount = 2
    SideCount = 1
    ShortWords = 3
    CodeSize = 7
    FullLimit = 2
    StaleLimit = 2
    DmaWords <- MCDmaWords
    DmaAt <- MCDmaAt
    MaxEpoch = 2
    MaxEvents = 2
INVARIANTS
    CacheIsCurrent
PROPERTIES
    NativeIsInterpreted
    ImplementsCodeCache
CHECK_DEADLOCK FALSE
