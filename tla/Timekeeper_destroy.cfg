CONSTANTS
  Threads = {t1, t2}
  NoThread = NoThread
  TIMEKEEPER_NUM = 2
  MaxDestroys = 1
SPECIFICATION FairSpec
PROPERTIES WaitersAlwaysProceed
CHECK_DEADLOCK FALSE
