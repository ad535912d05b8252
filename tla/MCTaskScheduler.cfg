CONSTANTS
  Task = {t1, t2}
  Caller = {c1}
  MaxConcurrent = 1
  MaxRuns = 2
SPECIFICATION FairSpec
INVARIANTS LimitHolds
PROPERTIES EverySubmissionStarts PlainSessionIsSignalled
CHECK_DEADLOCK FALSE
