SPECIFICATION Spec
CONSTANTS
    Sessions = {s1, s2}
    Callers = {c1, c2}
    MaxRuns = 3
    MaxSessions = 1
    MaxMessages = 0
    Targets = {}
    MaxPending = 1
    Tools <- MCTools
CHECK_DEADLOCK FALSE
INVARIANTS RunOutlivesFiber
