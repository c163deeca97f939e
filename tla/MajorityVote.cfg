SPECIFICATION FairSpec
CONSTANTS
    h1 = h1
    h2 = h2
    h3 = h3
    l1 = l1
    yes = yes
    no = no
    Peer <- FourPeers
    Liar <- OneLiar
    Body <- Bodies
    Truth = yes
    Majority = 2
    None = None
INVARIANTS HonestWins
PROPERTIES OnlyLiarsPunished Returns
