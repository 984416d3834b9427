CONSTANTS
  Threads = {t1, t2}
  NoThread = NoThread
  Handles = {h1, h2}
  Sentinel = Sentinel
  MaxSignals = 2
SPECIFICATION FairSpec
INVARIANTS TypeOK RegistryExact VisitsAllocated
PROPERTIES SignalEndsProcess
CHECK_DEADLOCK FALSE
