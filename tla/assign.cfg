SPECIFICATION Spec
CONSTANTS
    Cell = {1}
    Nesting = {TRUE, FALSE}
    MaxConds = 5
    MaxDepth = 4
    MaxPasses = 2
INVARIANTS
    AcceptsExclusive
    RefusesConflicts
    RecordedIsAssigned
CHECK_DEADLOCK FALSE
