SPECIFICATION Spec
CONSTANTS
  r1 = r1  r2 = r2  d1 = d1  d2 = d2  w1 = w1  w2 = w2
  NoOne = NoOne
  Requests = {r1, r2}
  Dispatchers = {d1, d2}
  Workers = {}
  MaxIds = 3
  OldFilters = 0
  FILTER_KICKOFF_INTERVAL = 2
  LastArrival = 2
  Horizon = 4
  MaxPatches = 1
  MaxDispatcherCrashes = 1
  MaxRedeliveries = 0
  MaxHandlerErrors = 0
SYMMETRY Symmetric
CHECK_DEADLOCK FALSE
INVARIANTS
  TypeOK
  CalendarInv
  ActiveSpacing
  SendsBounded
PROPERTIES
  ImplementsCalendar
