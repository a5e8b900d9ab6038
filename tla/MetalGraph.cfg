SPECIFICATION FairSpec
CONSTANTS
    Callers = {c1, c2}
    c1 = c1
    c2 = c2
    LoopLayers = 3
    Models <- SmallModels
    MaxSteps = 2
    NoStamp = NoStamp
INVARIANTS OperandsFresh BatchClosedWhenFree
PROPERTIES EveryCallEnds
CHECK_DEADLOCK FALSE
