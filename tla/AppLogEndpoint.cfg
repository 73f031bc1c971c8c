SPECIFICATION FairSpec
CONSTANTS
  App = {a1}
  Sess = {s1, s2}
  Absent = Absent
  Orphan = Orphan
CHECK_DEADLOCK FALSE
INVARIANTS TypeOK DrainHasServer WaitDoesNotBlock
PROPERTIES SessionsEnd DrainLifetimeEnds
