SPECIFICATION SpecConversions
CONSTANTS
    Versions = {0, 1}
    Lengths <- MCLengths
    Appendices <- MCAppendices
    Ids <- MCIds
    Typed = {0, 17, 32}
    MaxMistakes = 2
    Message <- MCMessage
    PieceLengths = {0, 1, 63, 64, 65}
    MaxPieces = 3
INVARIANTS   AddressesDecodeExactly PiecesSumToWhole
CHECK_DEADLOCK FALSE
