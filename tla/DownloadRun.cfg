SPECIFICATION Spec
CONSTANTS
    Target = t
    NoFile = none
    Units = {0,1,2}
    Jobs <- Various
    Batch = 2
    Peers = {1,2}
    HasHashset = {1,2}
    Corrupting = {1}
    MaxRounds = 3
INVARIANTS
    FinalizedIsQuiet
    IdleIsClean
    AssembledIsGood
PROPERTIES
    RunEnds
    EventuallyFinished
