CONSTANTS
    Texts <- MCTexts
    Sizes <- MCSizes
    Overlaps <- MCOverlaps
    DefaultChunkSize = 3

SPECIFICATION Spec

INVARIANTS
    ChunksFit
    NothingLost
    InReadingOrder
    RepeatsOnlyInBlanks

PROPERTY SplitEnds

\* The call returns.
CHECK_DEADLOCK FALSE
