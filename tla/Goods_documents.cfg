SPECIFICATION Spec
CONSTANTS
  p1 = p1
  p2 = p2
  c1 = c1
  c2 = c2
  s1 = s1
  s2 = s2
  safe = safe
  shop = shop
  town = town
  roadA = roadA
  roadB = roadB
  x = x
  y = y
  None = None
  Pieces = {p1, p2}
  Places <- MCPlaces
  BranchOf <- MCBranch
  Transit <- MCTransit
  Bounds <- MCBounds
  Clerks = {c1, c2}
  Sessions = {s1}
  Suppliers = {x, y}
  Goods <- MCGoodsLines
  Tags <- MCTags
  Parts <- MCParts
  Amounts = {3}
  FixRate = 4
  GstRate = 3
  OrderLines = {1, 2}
  OrderWeight <- MCWeights
  MaxOrders = 1
  MaxInwards = 2
  MaxBills = 2
  MaxReturns = 2
  MaxSettlements = 2
  MaxTransfers = 3
  MaxCounts = 2
  Scales = {0, 1}
  Reweighs <- MCReweighs
CHECK_DEADLOCK FALSE
INVARIANT
  GoodsTypeOK
  BooksAgree
  OnTheRoad
  CostShared
  OrderFollows
  BillTogether
  OwedByDocuments
PROPERTY
  CountSettles
