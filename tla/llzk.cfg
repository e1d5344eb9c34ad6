SPECIFICATION BackendSpec
CONSTANTS
    NameOrder <- MCNames
    Programs <- MCFunctions
    Params <- MCParams
    Arguments = {0, 1}
    Fuel = 4
    Signals <- MCSignals
    Components <- MCComponents
    Modules <- MCModules
INVARIANTS
    ReturnsWhatSourceReturns
    IsValidLLZK
    ComputesTheWitness
    StatesTheEquations
CHECK_DEADLOCK FALSE
