SPECIFICATION Spec
CONSTANTS
    r1 = r1
    r2 = r2
    r3 = r3
    conv1 = conv1
    conv2 = conv2
    call1 = call1
    call2 = call2
    snap = snap
    None = None
    ResponseIds = {r1, r2, r3}
    Conversations = {conv1, conv2}
    ToolCalls = {call1, call2}
    Snapshots = {snap}
    MaxRemembers = 3
INVARIANTS AliasesResolve RestoreIsLatest
CHECK_DEADLOCK FALSE
