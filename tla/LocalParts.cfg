SPECIFICATION LocalSpec
CONSTANTS
    NoFile = NoFile
    Files = {f1}
    Names = {f1}
    NameOf <- OwnName
    Units = {1, 2, 3}
    Sparse = TRUE
    SameVolume = FALSE
    VerifyChoices = {TRUE, FALSE}
    Downloads = {f1}
    NoHash = None
    ThinPool = 1
    MaxTasks = 2
    MaxBoots = 2
    MaxLate = 1
    Lists <- ListsOfRun
    Servers = {0, 1, 2, 3, 4, 5, 6, 7, 8, 9}
    Threshold = 127
    TotalSize = 5
    ChunkSize = 2
    MaxFetches = 3
    Components = {"hashes"}
INVARIANT PartsVerified
CHECK_DEADLOCK FALSE
