SPECIFICATION FairSpec
CONSTANTS
  Parsers <- MCParsers
  Text <- MCText
  All = "__all__"
  Empty = ""
  GroupSize = 2
  Name = {"dea", "logyard_sieve"}
  SieveLog = "logyard_sieve"
  Timeline = "timeline"
  Warn = "WARN"
  WarnRe = "warning"
  MaxLines = 2
  QueueLen = 2
INVARIANTS TypeOK ParseMeetsReference OrderIrrelevant  AppLogOnce
PROPERTIES NoneVanishes TimelineReachesAppLog SystailExits
