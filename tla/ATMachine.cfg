CONSTANTS
    ByteBits = 3
    WordBytes = 1
    RegWords = 2
    Algorithm = {"md5", "sha256"}
    DigestBits <- MCDigestBits
    Digest <- MCDigest
    CSize = 30
    DataWords = 2
    CallWords = 1
    UserWords = 2
    DefaultBalance = 3
    Code <- MCCode
    Registers <- MCRegisters
    MaxSteps = 5
SPECIFICATION Spec
INVARIANTS StacksInBounds 
PROPERTIES ImplementsStackMachine
CHECK_DEADLOCK FALSE
