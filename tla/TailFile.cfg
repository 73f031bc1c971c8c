SPECIFICATION Spec
CONSTANTS
  Sess = {s1, s2}
  MaxLines = 3
  ReadLimit = 1
  IOFaults = {s1}
  Limited = {s1}
  Absent = Absent
  Removed = Removed
CHECK_DEADLOCK FALSE
INVARIANTS TypeOK LossBound PublishedNotReplayed
PROPERTIES CursorAdvances
