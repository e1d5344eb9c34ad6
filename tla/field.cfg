SPECIFICATION Spec
CONSTANTS
    Fields <- AllFields
    Refused = Refused
INVARIANTS
    AgreesWithCompiler
    SmallNumbersAreInts
