CONSTANTS
  Threads = {t1, t2}
  Files = {f1, f2}
  Streams = {s1}
  Configs <- MCConfigs
  MaxRecords = 2
SPECIFICATION Spec
SYMMETRY MCSymmetry
INVARIANTS TypeOK Delivered
PROPERTIES SavedOnReturn
CHECK_DEADLOCK FALSE
