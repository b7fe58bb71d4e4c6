SPECIFICATION Spec
CONSTANTS
    Sessions = {s1, s2}
    Callers = {c1}
    MaxRuns = 2
    MaxSessions = 1
    MaxMessages = 2
    Targets = {s1}
    MaxPending = 1
    Tools <- MCTools
CHECK_DEADLOCK FALSE
INVARIANTS TypeOK RunOutlivesFiber NoticedOnce LostOnlyWhenSuperseded SessionsAgree MessageOnce
PROPERTIES CloseReturns MailLostOnlyWithSession
