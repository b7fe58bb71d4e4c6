SPECIFICATION Spec
CONSTANTS
    MaxRetriesPerStep = 3
    Statuses <- MCStatuses
    OutputBudgets = {0, 2, 24}
    BaseBudget = 4
    IntSize = 32
    MaxCalls = 5
CHECK_DEADLOCK FALSE
INVARIANTS TypeOK RequestsBounded BudgetSpentFirst CancelStopsRetries FailureStandsLast
PROPERTY EscalationNeverShrinks
