SPECIFICATION Spec
CONSTANTS
  r1 = r1  r2 = r2  d1 = d1  d2 = d2  w1 = w1  w2 = w2
  NoOne = NoOne
  Requests = {r1}
  Dispatchers = {d1}
  Workers = {w1, w2}
  MaxIds = 2
  OldFilters = 0
  FILTER_KICKOFF_INTERVAL = 1
  LastArrival = 0
  Horizon = 1
  MaxPatches = 0
  MaxDispatcherCrashes = 0
  MaxRedeliveries = 0
  MaxHandlerErrors = 0
SYMMETRY Symmetric
CHECK_DEADLOCK FALSE
INVARIANTS
  NoConcurrentKickoffs
