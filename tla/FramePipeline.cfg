SPECIFICATION FairSpec
CONSTANTS
    Buffers = 3
    TiledBuffers = 3
    SeqModulus = 100
    Tiles = 2
    Generations = 3
    VramTiles = 3
    Programs = {{"text", "graphic", "enable", "face"}, {"text", "palette", "scroll", "face"}, {"graphic", "enable", "zoom"}}
    MaxChanges = 2
    MaxPublished = 10
INVARIANTS
    Exclusive
PROPERTIES
    ImplementsQueue
    PublishedIsScreen
    LcdCatchesUp
CHECK_DEADLOCK FALSE
