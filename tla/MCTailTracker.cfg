SPECIFICATION Spec
CONSTANTS
  Inst = {i1, i2}
  Child = {c1}
  Offset = {0, 1}
  InitialOffset = 0
  Absent = Absent
  Worker = {w1}
  Timer = timer
  Node = {n1, n2, n3}
  Empty = Empty
  Missing = Missing
  IOFaults = TRUE
SYMMETRY Symmetry
INVARIANTS TypeOK NodesNotShared EncodeSeesStableKeys WriteIsolated
PROPERTIES RemovedStaysGone ImplementsCursorMap
