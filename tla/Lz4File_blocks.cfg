CONSTANTS
  Sizes = {0, 1, 3, 5, 8, 9}
  Memories = {6, 12, 20, 40}
  Step = 4
  MaxMem = 18
  HeaderSize = 1
  Expansion = 2
  BUFSIZ = 3
  MaxFaults = 1
SPECIFICATION FairSpec
INVARIANTS TypeOK BuffersFit Restored Restorable
PROPERTIES Terminates
CHECK_DEADLOCK FALSE
