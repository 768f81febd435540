SPECIFICATION Spec
CONSTANTS
  p1 = p1
  p2 = p2
  p3 = p3
  l1 = l1
  Jobs = {p1, p2, p3, l1}
  Pulls = {p1, p2, p3}
  Backends = {"A", "B"}
  Backend <- OnServers
  Keep = 2
  MaxCrashes = 1
  MaxFaults = 1
INVARIANTS RunningIsWorked RunningIsTracked OneJobPerServer RunningRowIsWorked TableAgrees
SYMMETRY SwapPulls
\* Once every job has ended nothing happens.
CHECK_DEADLOCK FALSE
