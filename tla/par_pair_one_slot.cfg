CONSTANTS
    main = main
    A = A
    B = B
    A1 = A1
    B1 = B1
    NoCmp = NoCmp
    Component <- PairComponent
    Parent <- PairParent
    Par = {A, A1}
    NInputs <- OneInput
    NOutputs <- OneOutput
    MaxThread = 1
    MaxLoads = 1
SPECIFICATION FairSpec
PROPERTY Terminates
CHECK_DEADLOCK FALSE
