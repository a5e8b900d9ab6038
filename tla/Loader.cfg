SPECIFICATION Spec
CONSTANTS
    Headers <- MCHeaders
    Lengths <- MCLengths
    Counts <- MCCounts
    Alignments <- MCAlignments
    Directory <- MCDirectory
    MaxU = 63
    MaxDepth = 2
    MaxDims = 2
    TypeTable <- MCTypeTable
    AttnParts = {"attn"}
    FfnParts = {"ffn"}
    None = None
INVARIANTS TypeOK BytesCoverDims TensorsInFile BlocksAreComplete
PROPERTY EveryTurnReads
CHECK_DEADLOCK FALSE
