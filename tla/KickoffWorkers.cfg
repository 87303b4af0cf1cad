SPECIFICATION FairSpec
CONSTANTS
  r1 = r1  r2 = r2  d1 = d1  d2 = d2  w1 = w1  w2 = w2
  NoOne = NoOne
  Requests = {r1}
  Dispatchers = {d1}
  Workers = {w1, w2}
  MaxIds = 2
  OldFilters = 1
  FILTER_KICKOFF_INTERVAL = 1
  LastArrival = 0
  Horizon = 1
  MaxPatches = 1
  MaxDispatcherCrashes = 1
  MaxRedeliveries = 1
  MaxHandlerErrors = 1
CHECK_DEADLOCK FALSE
INVARIANTS
  DispatchedHasKickoff
  DoneHasCause
PROPERTIES
  OutcomeIsFinal
  EveryJobSettles
