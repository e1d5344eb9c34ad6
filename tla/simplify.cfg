SPECIFICATION Spec
CONSTANTS
    P = 3
    NoLabels = 5
    NoPublicOutputs = 1
    NoPublicInputs = 0
    NoPrivateInputs = 1
    MaxRounds = 9
    LessOccurrencesMin = 2
    Circuits <- AllCircuits
    Options <- AllOptions
INVARIANTS
    ConsistentStatementKept
    ReplacementsHold
    WitnessLayout
    EliminationIsComplete
