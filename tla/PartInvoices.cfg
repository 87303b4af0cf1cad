SPECIFICATION Spec
CONSTANTS
  c1 = c1  c2 = c2  p1 = p1  i1 = i1  i2 = i2
  None = None
  Calls = {c1, c2}
  Parts = {p1}
  Invoices = {i1, i2}
  Statuses = {"pending", "ordered", "paid"}
  Initial = "pending"
  MaxSeconds = 1
  MaxCalls = 5
  MaxCrashes = 1
SYMMETRY Symmetric
CHECK_DEADLOCK FALSE
INVARIANTS
  TypeOK
  FileBehindInvoice
  InvoiceDeletionRecorded
  StatusHistoryChains
