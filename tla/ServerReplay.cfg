SPECIFICATION Spec
CONSTANTS
    p1 = p1
    p2 = p2
    p3 = p3
    p4 = p4
    p5 = p5
    p6 = p6
    u1 = u1
    u2 = u2
    b1 = b1
    none_block = none_block
    conv1 = conv1
    AssistantLine = AssistantLine
    ResultLine = ResultLine
    Gen = Gen
    None = None
    Requests = {p1, p2, p3}
    Body <- Mixed
    CtxSize = 6
    Budget = 1
    Trust = {TRUE}
    DiskOn = TRUE
    Tears = {}
    Panics = FALSE
    MinGap = 1
    MaxBoots = 2
INVARIANT FollowUpHydratedAfterRestart
