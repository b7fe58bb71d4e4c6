SPECIFICATION Spec
CONSTANTS
    MaxRetriesPerStep = 3
    Statuses <- MCStatuses
    OutputBudgets = {0}
    BaseBudget = 4
    IntSize = 32
    MaxCalls = 1
CHECK_DEADLOCK FALSE
INVARIANT RefreshOutsideBudget
