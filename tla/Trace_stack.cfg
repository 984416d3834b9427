CONSTANTS
  Threads = {t1}
  NoThread = NoThread
  Handles = {h1, h2}
  Sentinel = Sentinel
  MaxSignals = 1
SPECIFICATION FairSpec
PROPERTIES StackPrinted
CHECK_DEADLOCK FALSE
