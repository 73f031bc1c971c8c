SPECIFICATION HSpec
CONSTANTS
  Inst = {i1}
  Child = {c1}
  Offset = {0, 1}
  InitialOffset = 0
  Absent = Absent
  Worker = {w1}
  Timer = timer
  Node = {n1, n2}
  Empty = Empty
  Missing = Missing
  IOFaults = FALSE
INVARIANT PositionRetained
