SPECIFICATION SearchSpec
CONSTANTS
    n1 = n1
    n2 = n2
    n3 = n3
    Node = {n1, n2, n3}
INVARIANTS
    VerdictCorrect
    CycleIsReal
PROPERTIES
    Terminates
CHECK_DEADLOCK FALSE
