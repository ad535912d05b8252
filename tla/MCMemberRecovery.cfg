SPECIFICATION RecoverySpec
CONSTANTS
    m1 = m1
    leader = leader
    self = self
    tool = tool
    call = call
    r1 = r1
    Member = {m1}
    Mate = m1
    Leader = leader
    Self = self
    Starter = {tool, call}
    Recovery = {r1}
    Caller = {leader, self, tool, call, r1}
    MaxRetries = 1
    MaxLaunches = 2
INVARIANTS
    SingleSpawner
    SpawnHoldsTheRow
    StoppedTeamIsDown
PROPERTIES
    ImplementsMemberStatus
    CallsEnd
CHECK_DEADLOCK FALSE
