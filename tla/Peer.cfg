SPECIFICATION Spec
CONSTANTS
    Components = {"peer", "inbound", "ics", "blocks"}
    Direct = {"a", "b"}
    Relayed = {"r"}
    Conns = {"x", "y"}
    MaxConnections = 1
    MaxRecent = 2
    Ranks = 2
    Crypts = {"plain", "basic", "wrong", "dh"}
    TotalSize = 7  PartSize = 4  EmblockSize = 2  MaxBlocks = 2
    SpreadMinSrc = 1  ShareMinSrc = 2  MaxSrcChunk = 3  PrefShift = 1  MaxRetries = 1
    Peers = {"p1", "p2"}  Told = {"p1"}  PartStatus <- StatusOfRun  Missing0 <- GapsOfRun
    EMBLOCK = 6  SPLIT_THRESHOLD = 3  SPLIT_CHUNK_SIZE = 2  U32 = 15
    BlocksLimit = 8  OutOfPartRetries = 1  CompressedSizes = {1, 4}  Jobs <- JobsOfRun
INVARIANTS
    StreamsInStep
    SlotHeard
    MutuallyVerified
    WaitersFound
    SelectorExhaustive
    ServedAsAsked
PROPERTIES
    DialEnds
    NoDuplicateRequest
CHECK_DEADLOCK FALSE
