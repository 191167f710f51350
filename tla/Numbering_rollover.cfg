SPECIFICATION Spec
CONSTANTS
  t1 = t1
  t2 = t2
  zb = zb
  an = an
  Tills <- MCTills
  NoTill = NoTill
  Branches <- MCBranches
  OwnSeries <- MCOwn
  Shared = shared
  Dates <- MCYearEnd
  AnyDate = FALSE
  Reset = "financial_yearly"
  NoPeriod = NoPeriod
  MaxCount = 1
  MaxNumber = 3
INVARIANT
  HandedOutFresh
