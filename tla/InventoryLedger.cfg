SPECIFICATION Spec
CONSTANTS
  c1 = c1  c2 = c2  i1 = i1  i2 = i2
  None = None
  Calls = {c1, c2}
  Investments = {i1, i2}
  Types = {"Parts", "Labor"}
  Costs = {1, 2}
  Prices = {3}
  MaxUpdates = 2
  MaxCrashes = 1
SYMMETRY Symmetric
CHECK_DEADLOCK FALSE
INVARIANTS
  RestExact
  NoOrphanInvestments
  DeletionsRecorded
