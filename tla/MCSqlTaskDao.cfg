SPECIFICATION Spec
CONSTANTS
    t1 = t1
    t2 = t2
    a = a
    b = b
    Task = {t1, t2}
    Member = {a, b}
    NoOne = NoOne
INVARIANTS
    StaysAcyclic
PROPERTIES
    CallsReturn
    ImplementsBoard
CHECK_DEADLOCK FALSE
