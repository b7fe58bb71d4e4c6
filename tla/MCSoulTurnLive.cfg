SPECIFICATION Spec
CONSTANTS
    a = a
    b = b
    Callers <- Callers2
    MaxCalls = 1
    Ops <- WaitOps
    MaxTurns = 1
    MaxSteps = 1
    MaxRestarts = 0
    MaxOverflow = 1
    MaxRecovery = 0
    MaxNudges = 0
    MaxTools = 0
    MaxExternal = 0
    MaxNotices = 0
    Depths <- OneDepth
    OverflowDepth = 1
    AutoCompactAt = 4
    StablePrefix = 2
INVARIANTS
    SyncTrueTaken
    SteerKept
PROPERTIES
    SyncReturns
