SPECIFICATION IngestionFairSpec
CONSTANTS
  t1 = t1  t2 = t2  b1 = b1  f1 = f1  s1 = s1  m1 = m1  u1 = u1
  NoOne = NoOne
  NoCar = NoCar
  Tasks = {t1, t2}
  BidRuns = {}
  Feeds = {f1}
  Sweepers = {}
  Listings = {"gone"}
  RefreshServed = FALSE
  MaxRetries = 0
  MaxUploads = 0
  MaxRedeliveries = 0
  MaxErrors = 0
  Importers = {m1}
  Upserters = {u1}
  Ivents = {"update", "updated"}
  Dates = {"none"}
  LotReasons = {}
  MaxImportErrors = 1
  MaxUpserts = 1
CHECK_DEADLOCK FALSE
PROPERTIES
  EnrichmentKept
  ParseIsSent
