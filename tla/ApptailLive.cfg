SPECIFICATION FairSpec
CONSTANTS
  Inst = {c1}
  Child = {f}
  File = f
  IOFaults = {s1}
  Offset = {0}
  InitialOffset = 0
  Absent = Absent
  Sess = {s1, s2}
  RETRY = 1
  MaxEvents = 2
CHECK_DEADLOCK FALSE
PROPERTIES NotifiedSessionEnds AnnouncedIsTailed
