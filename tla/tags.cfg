SPECIFICATION Spec
CONSTANTS
    Wire <- MCWire
    Dim <- MCDim
    Word = 16
    Inputs = {"i", "d", "w"}
    Outputs = {"o"}
    Exported <- MCExported
    Worlds <- MCWorlds
    Received = {"a", "b", "v"}
    Var = {"q"}
INVARIANTS
    TagsAreEarned
    TagsAreInherited
    InputTagsAgree
    CountsAreRight
PROPERTIES
    TagValuesAreFinal
CHECK_DEADLOCK FALSE
