SPECIFICATION Spec
CONSTANTS
  t1 = t1  t2 = t2  b1 = b1  f1 = f1  s1 = s1
  NoOne = NoOne
  NoCar = NoCar
  Tasks = {t1, t2}
  BidRuns = {b1}
  Feeds = {f1}
  Sweepers = {}
  Listings = {"gone"}
  RefreshServed = FALSE
  MaxRetries = 1
  MaxUploads = 0
  MaxRedeliveries = 1
  MaxErrors = 0
SYMMETRY Symmetric
CHECK_DEADLOCK FALSE
INVARIANTS
  TypeOK
  HistoryOnce
  AttemptsCounted
  VinFlagMatchesReason
