SPECIFICATION Spec
CONSTANTS
  p1 = p1
  p2 = p2
  c1 = c1
  c2 = c2
  s1 = s1
  s2 = s2
  Sessions <- OneTill
  Pieces <- MCPieces
  Price <- MCPrice
  Customers <- OneNamed
  WalkIn = WalkIn
  Amounts <- Paid
  GoldValues = {0}
  Limit = 3
  MaxBills = 1
  MaxReceipts = 0
  MaxMemos = 0
  None = None
CHECK_DEADLOCK FALSE
INVARIANT
  RefundWithinBill
