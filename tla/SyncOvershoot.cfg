SPECIFICATION Spec
CONSTANTS
    Milestones <- Uneven
    StartHeight = 0
    Leftover <- NothingLeft
    ChainLen = 8
    MaxIds = 4
    Chunks <- Two
    Kinds <- GoodOnly
    NoBlock = NoBlock
CHECK_DEADLOCK FALSE
INVARIANTS DoneMeansStored
