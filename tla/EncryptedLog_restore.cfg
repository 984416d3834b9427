CONSTANTS
  B = 3
  SINGLE_LOG_SIZE = 6
  IoCap = 4
  BUFSIZ = 2
  Passwords = {"p", "q"}
  MaxRecords = 2
  MaxZeros = 1
  MaxLosses = 2
  MaxFaults = 1
SPECIFICATION Spec
INVARIANTS TypeOK AllOrNothing Restored
CHECK_DEADLOCK FALSE
