CONSTANTS
  Run = {r1, r2}
  Payload = {p1, p2}
  Manager = {g1}
  Session = {s1, s2}
SPECIFICATION FairSpec
INVARIANTS GateCountsTickets DrainedGateIsEmpty PatientRunAcceptsInput EndedTeamIsDown
PROPERTY EveryRunEnds
CHECK_DEADLOCK FALSE
