CONSTANTS
    main = main
    A = A
    B = B
    A1 = A1
    B1 = B1
    NoCmp = NoCmp
    Component <- ForkComponent
    Parent <- ForkParent
    Par = {A, A1, B1}
    NInputs <- MixedInputs
    NOutputs <- MixedOutputs
    MaxThread = 2
    MaxLoads = 1
SPECIFICATION FairSpec
INVARIANTS IInv NoLostOutputWakeup NoLostSlotWakeup
PROPERTIES ReadsAreFinal ImplementsFlow Terminates
CHECK_DEADLOCK FALSE
