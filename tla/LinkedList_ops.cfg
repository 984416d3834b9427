CONSTANTS
  Nodes = {n1, n2, n3, n4}
  Data = {d1}
  Lists = {l1, l2}
  NULL = NULL
  Free = Free
SPECIFICATION Spec
SYMMETRY MCNodes
INVARIANTS TypeOK HeapExact WalkComplete
PROPERTIES ImplementsListSeq
CHECK_DEADLOCK FALSE
