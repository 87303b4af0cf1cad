SPECIFICATION FairSpec
CONSTANTS
  t1 = t1  t2 = t2  b1 = b1  f1 = f1  s1 = s1
  NoOne = NoOne
  NoCar = NoCar
  Tasks = {t1}
  BidRuns = {b1}
  Feeds = {}
  Sweepers = {s1}
  Listings = {"gone", "past", "future", "buynow"}
  RefreshServed = TRUE
  MaxRetries = 1
  MaxUploads = 1
  MaxRedeliveries = 1
  MaxErrors = 1
CHECK_DEADLOCK FALSE
PROPERTIES
  ParseResultKept
  EveryTaskEnds
  ExpiredSettles
