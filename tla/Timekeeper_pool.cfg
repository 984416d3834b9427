CONSTANTS
  Threads = {t1, t2}
  NoThread = NoThread
  TIMEKEEPER_NUM = 2
  MaxDestroys = 2
SPECIFICATION FairSpec
INVARIANTS TypeOK SlotExclusive TimersOwned AutoSucceeds
PROPERTIES WaitersProceed
CHECK_DEADLOCK FALSE
