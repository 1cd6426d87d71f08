SPECIFICATION Spec
CONSTANTS
    Target = t
    NoFile = none
    Units = {0,1,2}
    Jobs <- Mortal
    Batch = 2
    Peers = {1,2}
    HasHashset = {1,2}
    Corrupting = {}
    MaxRounds = 3
PROPERTIES
    EventuallyAssembled
