SPECIFICATION Spec
CONSTANTS
    Parts = {"lookup", "routing", "pool", "buddy", "server", "bootstrap"}
    Contacts <- ContactsOfRun  Live <- LiveOfRun  Knows <- KnownOf  Answers <- HeldBy
    SeedOrders <- SeedOrdersOfRun  Dist <- DistOfRun
    Alpha = 2  FindValue = 1  FindValueMore = 3  NodeCount = 2  MaxResults = 3  Idle = 3  Hard = 5
    Depth = 3  K = 2  Peers <- PeersOfRun  EarlySplits = 4  KK = 1  KBase = 1
    Nodes = {a, b}  Seeds = {a}  Batch = 1  PingEvery = 1  Window = 0  MaxFails = 2
    BootstrapEvery = 1  SaveEvery = 0  Epoch = 100
    Clients = {c}  Buddies = {a, b}  Sessions = {1, 2}  MaxServed = 1
    NoBuddy = NoBuddy  Free = Free
    Order <- OrderOfRun  Good = {"s3"}  Threshold = 3  MaxRuns = 5
    Images <- ImagesOfRun  Cached = {2, 4}  Endpoints = {1, 2, 3, 4}  Usable = {1, 2, 3}  Count = 2
INVARIANTS RespondersAsked ClosestIsClosest RelayFollowsSession AnswersKept
PROPERTIES EvictedSilent WalkEnds NoDialInCooldown ReachesGood
CHECK_DEADLOCK FALSE
