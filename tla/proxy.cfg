CONSTANTS
  Requests = {"r1", "r2"}
  Aliases = {"a", "b", "c"}
  Backends = {1, 2, 3}
  Kind <- MCKind
  Serves <- MCServes
  Twin <- MCTwin
  HubId = 0
  HubNames = {}
  HubAliases = {"b"}
  Mixes <- MCMixes
  Model <- MCModel
  Allowed <- MCAllowed
  Stream = {"r2"}
  Attached <- MCAttached
  InitModels <- MCInitModels
  InitLinks <- MCInitLinks
  Saves <- MCSaves
  Managed = {2}
  Flaky = {2}
  MaxHops = 3
  Cycle = 2
  NoAlias = "none"
  NoBackend = NoBackend
SPECIFICATION Spec
INVARIANTS ConnsExact KeyRespected NoAliasTwice Settled PayloadLocal
PROPERTY LoopAnswers
