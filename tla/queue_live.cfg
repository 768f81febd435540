SPECIFICATION TimedSpec
CONSTANTS
  r1 = r1
  r2 = r2
  r3 = r3
  r4 = r4
  Requests = {r1, r2}
  Queues = {"A", "B"}
  Models = {"m"}
  AliasQueue <- AliasAB
  NameQueue <- NoNames
  Entry <- R2ToB
  Size <- OneByte
  InitConf <- SingleConf
  Saves <- Fixed
  MaxJobs = 9
  MaxBytes = 9
  KeepFinished = 40
  OldRows = {}
  Impatient = {r1}
  Ticking = TRUE
  Flaky = {"m"}
  MaxEdits = 0
  MaxCrashes = 0
  MaxFaults = 0
  NoRequest = NoRequest
  NoModel = NoModel
  NoName = NoName
PROPERTIES NoStranding HandlersReturn
