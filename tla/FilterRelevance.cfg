SPECIFICATION Spec
CONSTANTS
  n1 = n1  n2 = n2  f1 = f1  f2 = f2  a2 = a2  b1 = b1  b0 = b0
  None = None
  Calls = {n1, n2}
  FilterIds = {f1, f2}
  Cars = {a2, b1, b0}
  CarOf <- MCCarOf
  Forms <- MCForms
  MaxCalls = 4
  MaxCrashes = 1
SYMMETRY Symmetric
CHECK_DEADLOCK FALSE
INVARIANTS
  TypeOK
  FilteredIsListed
  ListedIsFiltered
PROPERTY
  ActiveKept
