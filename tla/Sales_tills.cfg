SPECIFICATION Spec
CONSTANTS
  p1 = p1
  p2 = p2
  c1 = c1
  c2 = c2
  s1 = s1
  s2 = s2
  Sessions <- TwoTills
  Pieces <- MCPieces
  Price <- MCPrice
  Customers <- TwoNamed
  WalkIn = WalkIn
  Amounts <- Unpaid
  GoldValues = {0}
  Limit = 3
  MaxBills = 2
  MaxReceipts = 0
  MaxMemos = 1
  None = None
CHECK_DEADLOCK FALSE
SYMMETRY Alike
INVARIANT
  PieceAccounted
PROPERTY
  CustodySpec
