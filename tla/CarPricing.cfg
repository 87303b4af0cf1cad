SPECIFICATION Spec
CONSTANTS
  c1 = c1  c2 = c2  p1 = p1  p2 = p2  u1 = u1  u2 = u2
  None = None
  Status = {"New", "Won"}
  Calls = {c1, c2}
  Parts = {p1, p2}
  Values <- PartValues
  Prices = {9}
  Bids = {5}
  Dollar = 2
  CarAuction = "iaai"
  Replacements = {u1, u2}
  AuctionOf <- Uploads
  Amounts = {2}
  DefaultFee = 1
  MaxFeeEdits = 1
  MaxCalls = 3
  MaxCrashes = 1
SYMMETRY Symmetric
CHECK_DEADLOCK FALSE
INVARIANTS
  FeesOfOneAnswer
  PartsCostExact
  SuggestedBidExact
  StatusOnRecord
