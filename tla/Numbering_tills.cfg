SPECIFICATION FairSpec
CONSTANTS
  t1 = t1
  t2 = t2
  zb = zb
  an = an
  Tills <- MCTills
  NoTill = NoTill
  Branches <- MCBranches
  OwnSeries <- MCOwn
  Shared = shared
  Dates <- MCYearEnd
  AnyDate = TRUE
  Reset = "financial_yearly"
  NoPeriod = NoPeriod
  MaxCount = 2
  MaxNumber = 2
INVARIANTS
  TypeOK
  NoHoles
  CounterAgrees
  FreshInPeriod
PROPERTIES
  GaplessSpec
  Served
