CONSTANTS
    Programs <- MixedPrograms
    Buses <- MCBuses
    ComponentNames <- MCComponentNames
SPECIFICATION Spec
INVARIANTS
    AddressesAreNumbers
    ParentsAddressChildren
    MemoryIsExact
    EverybodyRuns
    ReportsUnconstrained
CHECK_DEADLOCK FALSE
