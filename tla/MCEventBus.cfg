SPECIFICATION FairSpec
CONSTANTS
    c1 = c1
    c2 = c2
    Capacity = 1
    MaxStarts = 2
    MaxPolls = 2
    Caller = {c1, c2}
    PollKind <- MC_PollKind
INVARIANTS
    PollersAreHeld
    OutlivedLoopIsCancelled
PROPERTIES
    MessageResumesPolls
    FullQueueDrains
    StopReturns
CHECK_DEADLOCK FALSE
