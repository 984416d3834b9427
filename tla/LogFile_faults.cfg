CONSTANTS
  Threads = {t1, t2}
  NoThread = NoThread
  Configs <- MCConfigs
  MaxLen = 2
  MaxWrites = 3
  MaxFaults = 2
  MaxCrashes = 1
  MaxSessions = 2
SPECIFICATION Spec
SYMMETRY MCThreads
INVARIANTS LockDiscipline SizeBound StoredOnce
PROPERTIES RotationKeepsFile LeakIsFinal
CHECK_DEADLOCK FALSE
