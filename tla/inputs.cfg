SPECIFICATION FairSpec
CONSTANTS
    Circuits <- AllCircuits
    Name <- Names
    Hashes = {1, 2, 4, 5}
    TableSize = 3
    MaxValues = 3
INVARIANTS
    AcceptsCompleteInputs
    RunsOnAllInputs
    WitnessIsComputed
PROPERTIES
    Decides
