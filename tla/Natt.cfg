SPECIFICATION NattFairSpec
CONSTANTS
    Modulus = 8
    Capacity = 2
    Chunks <- MCChunks
INVARIANT ReadIsWritten
PROPERTY WrittenArrives
