SPECIFICATION SpecRunning
CONSTANTS
    b1 = b1
    b2 = b2
    Block <- OneFork
    GenesisBlock = Genesis
    EmptyBlock = EmptyFile
    NoBlock = None
    MaxHeight = 4
    MaxBatch = 3
    CacheSize = 2
    StrayFiles <- Stray
INVARIANTS CacheIsPredecessors
PROPERTIES NextIsConsumed
