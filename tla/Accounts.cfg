SPECIFICATION Spec
CONSTANTS
  c1 = c1  c2 = c2  b1 = b1  b2 = b2
  Calls = {c1, c2}
  Browsers = {b1, b2}
  Addresses = {"hansel", "admin", "guest"}
  Roles = {"user"}
  Passwords = {"p", "q"}
  FirstAdmins <- Admins
  MaxUsers = 4
  MaxCalls = 5
  Horizon = 1
  AccessLife = 0
  RefreshLife = 1
  DefaultLife = 1
SYMMETRY Symmetric
CHECK_DEADLOCK FALSE
INVARIANTS
  TypeOK
  OneAccountPerAddress
  RolesGranted
  AdminRemains
  LogoutHolds
