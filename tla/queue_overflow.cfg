SPECIFICATION Spec
CONSTANTS
  r1 = r1
  r2 = r2
  r3 = r3
  r4 = r4
  Requests = {r1, r2, r3, r4}
  Queues = {"A", "B"}
  Models = {"m", "n"}
  AliasQueue <- AliasABX
  NameQueue <- NameA
  Entry <- R2ToB
  Size <- HugeR4
  InitConf <- RingConf
  Saves <- RingSaves
  MaxJobs = 9
  MaxBytes = 9
  KeepFinished = 40
  OldRows = {}
  Impatient = {r1, r2, r3}
  Ticking = FALSE
  Flaky = {}
  MaxEdits = 1
  MaxCrashes = 0
  MaxFaults = 1
  NoRequest = NoRequest
  NoModel = NoModel
  NoName = NoName
INVARIANTS Answered OverflowRowClosed
CONSTRAINT EditOrFault
\* Between two ticks the engine stops once every request is served.
CHECK_DEADLOCK FALSE
