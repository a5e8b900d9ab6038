SPECIFICATION Spec
CONSTANTS
    Calls <- MCCalls
    Parallelism = {1, 2, 3, 8}
    Threshold = 3
    MinRows = 2
    MaxCalls = 2
INVARIANT SomeIsComplete
PROPERTY ImplementsLoop
CHECK_DEADLOCK FALSE
