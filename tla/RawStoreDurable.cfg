SPECIFICATION SpecQuiet
CONSTANTS
    b1 = b1
    b2 = b2
    Block <- Forks
    GenesisBlock = Genesis
    EmptyBlock = EmptyFile
    NoBlock = None
    MaxHeight = 3
    MaxBatch = 2
    CacheSize = 2
    StrayFiles <- StrayTwo
SYMMETRY Symmetry
INVARIANTS FilesContiguous FiledIsIndexed AnswersFollow
PROPERTIES AppendOnly RebuildRestores ImplementsBlockLog
