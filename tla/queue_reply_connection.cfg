SPECIFICATION Spec
CONSTANTS
  r1 = r1
  r2 = r2
  r3 = r3
  r4 = r4
  Requests = {r1, r2}
  Queues = {"A"}
  Models = {"m"}
  AliasQueue <- AliasA
  NameQueue <- NoNames
  Entry <- AllToA
  Size <- OneByte
  InitConf <- SingleConf
  Saves <- Fixed
  MaxJobs = 9
  MaxBytes = 9
  KeepFinished = 40
  OldRows = {}
  Impatient = {r1, r2}
  Ticking = FALSE
  Flaky = {}
  MaxEdits = 0
  MaxCrashes = 0
  MaxFaults = 0
  NoRequest = NoRequest
  NoModel = NoModel
  NoName = NoName
INVARIANTS ReplyUsesConnection
\* Between two ticks the engine stops once every request is served.
CHECK_DEADLOCK FALSE
