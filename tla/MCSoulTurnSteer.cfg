SPECIFICATION Spec
CONSTANTS
    a = a
    b = b
    Callers <- Callers2
    MaxCalls = 1
    Ops <- QueueOps
    MaxTurns = 2
    MaxSteps = 2
    MaxRestarts = 1
    MaxOverflow = 0
    MaxRecovery = 0
    MaxNudges = 0
    MaxTools = 0
    MaxExternal = 0
    MaxNotices = 1
    Depths <- OneDepth
    OverflowDepth = 1
    AutoCompactAt = 4
    StablePrefix = 2
SYMMETRY Symmetry
INVARIANTS
    SteersInOrder
    AbortedStepGoesOn
PROPERTIES
    NoStaleSteer
