SPECIFICATION LogSpec
CONSTANTS
  MaxBytes = 2
  ChunkSize = 2
  ReadSize = 2
  Junk = Junk
  LogName = {stdout, f}
  STDOUT = stdout
  Limits = {0, 1}
  Sess = {s1}
  MaxLines = 3
  ReadLimit = 1
  IOFaults = {s1}
  Limited = {s1}
  Absent = Absent
  Removed = Removed
CHECK_DEADLOCK FALSE
INVARIANTS TypeOK NoLostWakeup SeekSkips
PROPERTIES InOrder TailReturns StopEndsStream DrainFollows LinesGetPublished StopEndsTailing
