SPECIFICATION Spec
CONSTANTS
    Instances <- MCInstances
    Fields <- MCFields
    SizeTables <- MCSizeTables
    Statements <- MCStatements
    MaxStatements = 4
INVARIANTS
    RunsWhenComplete
CHECK_DEADLOCK FALSE
