CONSTANTS
  Threads = {t1, t2}
  NoThread = NoThread
  Configs <- MCConfigs
  MaxLen = 2
  MaxWrites = 3
  MaxFaults = 0
  MaxCrashes = 1
  MaxSessions = 2
SPECIFICATION FairSpec
INVARIANTS TypeOK SizeAccounting RetainedIsSuffix RetentionFloor
PROPERTIES ImplementsRotatingLog LockReleased
CHECK_DEADLOCK FALSE
