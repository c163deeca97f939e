SPECIFICATION FairSpec
CONSTANTS
    u1 = u1
    u2 = u2
    u3 = u3
    c1 = c1
    Url <- TwoUrls
    Copies = 2
    Height <- NoHeights
    MinHeight = 1
    MaxPeers = 2
    Caller <- OneCaller
    None = None
    Asking = Asking
 
PROPERTIES  RandomPeerReturns Renewed
