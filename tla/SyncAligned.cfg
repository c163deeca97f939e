SPECIFICATION FairSpec
CONSTANTS
    Milestones <- ThreeRanges
    StartHeight = 0
    Leftover <- SomeLeft
    ChainLen = 13
    MaxIds = 3
    Chunks <- Two
    Kinds <- GoodOnly
    NoBlock = NoBlock
CHECK_DEADLOCK FALSE
INVARIANTS  DoneMeansStored
PROPERTIES Synced
