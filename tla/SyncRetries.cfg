SPECIFICATION FairSpec
CONSTANTS
    Milestones <- OneRange
    StartHeight = 0
    Leftover <- NothingLeft
    ChainLen = 13
    MaxIds = 3
    Chunks <- Two
    Kinds <- GoodBad
    NoBlock = NoBlock
CHECK_DEADLOCK FALSE
 
PROPERTIES Synced
