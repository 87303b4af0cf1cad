SPECIFICATION Spec
CONSTANTS
  t1 = t1  t2 = t2  b1 = b1  f1 = f1  s1 = s1
  NoOne = NoOne
  NoCar = NoCar
  Tasks = {t1}
  BidRuns = {}
  Feeds = {}
  Sweepers = {s1}
  Listings = {"gone"}
  RefreshServed = FALSE
  MaxRetries = 1
  MaxUploads = 0
  MaxRedeliveries = 0
  MaxErrors = 0
CHECK_DEADLOCK FALSE
PROPERTIES
  OnlyIrrelevantDeleted
