SPECIFICATION Spec
CONSTANTS
  Inst = {c1, c2}
  Child = {f}
  File = f
  IOFaults = {}
  Offset = {0}
  InitialOffset = 0
  Absent = Absent
  Sess = {s1, s2}
  RETRY = 1
  MaxEvents = 1
CHECK_DEADLOCK FALSE
SYMMETRY Symmetry
INVARIANTS TypeOK OneSetupPerContainer ChannelClosedOnce CursorGoneAfterLastSession
