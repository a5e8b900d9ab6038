SPECIFICATION Spec
CONSTANTS
    k1 = k1
    t1 = t1
    t2 = t2
    b1 = b1
    b2 = b2
    b3 = b3
    c1 = c1
    c2 = c2
    blk1 = blk1
    blk2 = blk2
    None = None
    Strings = {k1, t1, t2}
    Bodies = {b1, b2, b3}
    ToolIds = {c1, c2}
    Blocks = {blk1, blk2}
    Counts = {0, 1, 2}
    Entries <- MixedEntries
    Legacy <- OldEntries
    DiskOn = TRUE
    Tears = {0, 1, 2, 3, 4}
    MaxStores = 3
INVARIANTS NoTornEntry ReadYourWrites DurableUntilOverwritten
           ErrMeansDamage ReplayAnswersOwnId
