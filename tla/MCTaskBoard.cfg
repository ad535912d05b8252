SPECIFICATION LiveSpec
CONSTANTS
    t1 = t1
    t2 = t2
    t3 = t3
    a = a
    b = b
    Task = {t1, t2, t3}
    Member = {a, b}
    NoOne = NoOne
INVARIANTS
    TypeOK
    BlockedIffUpstreamOpen
    WorkFollowsDependencies
    OwnedIffStarted
    DependenciesAcyclic
PROPERTIES
    NoTaskIsStolen
    OnlyNewEdgesBlock
    EveryTaskEnds
    ImplementsOrder
CHECK_DEADLOCK FALSE
