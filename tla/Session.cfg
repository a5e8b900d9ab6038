SPECIFICATION Spec
CONSTANTS
    a = a
    b = b
    x = x
    Tokens <- MixedTokens
    Decodable = {a, b}
    Inferable = {a, b}
    LayerCount = 2
    RowsPushed <- MixedRows
    CtxSizes = {2, 4}
    Boundaries = {0, 2}
    RawPayloads <- ShortRaw
    Prompts <- MixedPrompts
    MaxGen = 2
    MaxSaved = 1
INVARIANTS CheckpointWithinCtx NoForeignRows HistoryIndependent
           CacheCoversCheckpoint OutputIsCheckpointSuffix
PROPERTIES GenerateTerminates ImplementsPromise
