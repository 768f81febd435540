SPECIFICATION Spec
CONSTANTS
  r1 = r1
  r2 = r2
  r3 = r3
  r4 = r4
  Requests = {r1, r2}
  Queues = {"A"}
  Models = {"m", "n"}
  AliasQueue <- AliasA
  NameQueue <- NoNames
  Entry <- AllToA
  Size <- OneByte
  InitConf <- SingleConf
  Saves <- Edited
  MaxJobs = 1
  MaxBytes = 9
  KeepFinished = 40
  OldRows = {r1, r2}
  Impatient = {r1, r2}
  Ticking = FALSE
  Flaky = {}
  MaxEdits = 1
  MaxCrashes = 1
  MaxFaults = 1
  NoRequest = NoRequest
  NoModel = NoModel
  NoName = NoName
INVARIANTS ActiveRowOwned
CONSTRAINT EditOrCrash
SYMMETRY Swap
\* Between two ticks the engine stops once every request is served.
CHECK_DEADLOCK FALSE
