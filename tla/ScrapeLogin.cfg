SPECIFICATION FairSpec
CONSTANTS
  r1 = r1  r2 = r2
  NoOne = NoOne
  Requests = {r1, r2}
  OnlyHistory = {r1}
  MaxAttempts = 3
  MaxMfa = 2
  MaxExpiries = 1
  MaxCallErrors = 1
  MaxLoginErrors = 1
CHECK_DEADLOCK FALSE
INVARIANTS
  SingleFlight
PROPERTIES
  WaitersServed
