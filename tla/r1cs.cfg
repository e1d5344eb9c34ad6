CONSTANTS
    Circuits <- MCCircuits
    BitsPerByte = 3
    BitsPerWord = 6
SPECIFICATION Spec
CHECK_DEADLOCK FALSE
INVARIANTS
    AcceptedFilesAreRight
    SymAgreesWithR1cs
