CONSTANTS
  Threads = {t1, t2}
  Rounds = 10
SPECIFICATION Spec
INVARIANTS SchedulesRight
CHECK_DEADLOCK FALSE
