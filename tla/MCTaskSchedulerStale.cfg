CONSTANTS
  Task = {t1, t2}
  Caller = {c1}
  MaxConcurrent = 1
  MaxRuns = 2
SPECIFICATION Spec
PROPERTY OnlySubmittedStart
CHECK_DEADLOCK FALSE
