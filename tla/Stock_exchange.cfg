SPECIFICATION Spec
CONSTANTS
  s1 = s1
  s2 = s2
  s3 = s3
  grn = grn
  inv1 = inv1
  inv2 = inv2
  Sessions <- MCSessions
  Nobody = Nobody
  Rows <- MCRows
  Docs <- MCDocs
  NoDoc = NoDoc
  First <- MCOldGold
  Second <- MCSold
INVARIANT
  NoDeadlock
