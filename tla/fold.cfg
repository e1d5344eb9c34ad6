SPECIFICATION Spec
CONSTANTS
    Prime = 7
    MaxPasses = 4
    MaxStatements = 3
    Inputs <- MCInputs
    Functions <- MCFunctions
    Arrays <- MCArrays
    Start <- MCStart
    Statements <- MCStatements
INVARIANTS KnownValuesAreRight CircuitIsThatOfEveryInput ExportedCodeIsTheCode AnalysisFindsUnknowns
CHECK_DEADLOCK FALSE
