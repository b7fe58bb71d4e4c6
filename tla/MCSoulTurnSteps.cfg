SPECIFICATION Spec
CONSTANTS
    a = a
    b = b
    Callers <- NoCallers
    MaxCalls = 0
    Ops <- AllOps
    MaxTurns = 1
    MaxSteps = 3
    MaxRestarts = 1
    MaxOverflow = 1
    MaxRecovery = 1
    MaxNudges = 1
    MaxTools = 2
    MaxExternal = 1
    MaxNotices = 0
    Depths <- OneDepth
    OverflowDepth = 2
    AutoCompactAt = 4
    StablePrefix = 2
INVARIANTS
    TypeOK
    ToolCallsPaired
    Answered
    CompactionsSound
PROPERTIES
    TurnAdvances
    CancelledAnswerDropped
