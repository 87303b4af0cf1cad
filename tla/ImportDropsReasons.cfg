SPECIFICATION IngestionSpec
CONSTANTS
  t1 = t1  t2 = t2  b1 = b1  f1 = f1  s1 = s1  m1 = m1  u1 = u1
  NoOne = NoOne
  NoCar = NoCar
  Tasks = {t1}
  BidRuns = {}
  Feeds = {}
  Sweepers = {}
  Listings = {"gone"}
  RefreshServed = FALSE
  MaxRetries = 0
  MaxUploads = 0
  MaxRedeliveries = 0
  MaxErrors = 0
  Importers = {m1}
  Upserters = {}
  Ivents = {"updated", "created"}
  Dates = {"none"}
  LotReasons = {"lasting"}
  MaxImportErrors = 0
  MaxUpserts = 0
CHECK_DEADLOCK FALSE
PROPERTIES
  ParserReasonsKept
