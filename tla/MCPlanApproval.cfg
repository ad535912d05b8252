CONSTANTS
  Task = {t1}
  Member = {m1, m2}
  NoOne = NoOne
  Plan = {p1, p2}
  NoPlan = NoPlan
SPECIFICATION Spec
INVARIANT DecidedOnce
CHECK_DEADLOCK FALSE
