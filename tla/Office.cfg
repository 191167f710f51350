SPECIFICATION Spec
CONSTANTS
  Desks = {"d1", "d2"}
  Shops <- MCShops
  Articles <- MCArticles
  Rates <- MCGoldRates
  Valuation = {"fine"}
  Sums = {2}
  CashLimit = 3
  MaxIntakes = 2
  MaxBatches = 1
  OrderTypes = {"booking", "repair"}
  Overrides <- MCOverrides
  Totals = {0, 2}
  Instalments = {1, 2}
  MaxRetail = 1
  Tolerance = 1
  Salespeople = {"p1", "p2"}
  MaxBegun = 4
  MaxPayments = 2
  Browsers = {"b1", "b2"}
  MaxFamilies = 2
  MaxTokens = 3
  MaxClock = 1
  MAX_FAILED_LOGINS = 2
  LOCK_TICKS = 1
  GRACE_TICKS = 1
  SESSION_TICKS = 1
  Instances = {"i1", "i2"}
  TTL = 2
  MaxChanges = 1
  MaxMinutes = 3
  Operators = {"o1", "o2"}
  MaxUsers = 2
  BranchesOfShop = {"b1"}
  StaffRoles = {"s"}
  PermissionSets = {{"sell"}, {"buy"}}
  MaxVersion <- MCMaxVersion
  Columns = {"a", "b"}
  Fields = {1, 10}
  Designs <- MCDesigns
  Parents <- MCParents
  SyncModes = {"safe", "verify", "force", "off"}
  MaxRows <- MCMaxRows
  MaxBoots = 3
  Formulas <- MCFormulas
  RateSheets <- MCRateSheets
  Requests <- MCRequests
  OrderBodies <- MCOrderBodies
  Bills <- MCBills
  Discounts = {0, 2, 33, 400}
  FreePercent = 10
  Fineness <- MCFineness
  TodaysDate = 1
  MaxFormulas = 2
  Editors = {"e1", "e2"}
  MaxVersions = 3
  LastDate = 4
  Managers = {"m1", "m2"}
  BranchCodes = {"MAIN", "B2", "B3"}
  FirstCode = "MAIN"
  ShopKinds = {"showroom"}
  BranchKinds = {"showroom"}
  MaxBranches = 3
  MaxRenamers = 1
  Limits = {2}
  CountingBranches = {"b1", "b2"}
  FirstBranch = "b1"
  SeriesPrefixes = {"INV"}
  LastNumbers = {1}
  MaxYear = 2
  MaxCounter = 2
  MaxDocuments = 3
  MaxEdition = 1
  Agents = {"a1", "a2"}
  Durations = {1, 2}
  MaxDuration = 2
  MaxSupport = 1
  MaxFiveMinutes = 2
  ShopModules <- MCShopModules
  RequiredModules = {"settings"}
  NoSub = "none"
  Tenures = {3}
  EnrolDates <- MCEnrolDates
  DueDays = {1}
  SchemeAmounts = {3, 5}
  GramRates = {0, 2}
  MaxAccounts = 1
  Cashiers = {"c1", "c2"}
  Collaterals <- MCCollaterals
  LtvPercents = {75}
  Principals = {2, 4}
  Repaid = {1, 3}
  Penalties = {0, 2}
  MaxLoans = 1
  MaxReceipts = 4
  EntryIds = {1, 2, 3}
  Names = {1, 2}
  PageSizes = {1, 2}
  MaxListed = 2
  Pieces = {1, 2}
  Huids = {"h1", "h2"}
  NoHuid = "none"
  Clerks = {"c1", "c2"}
  MaxAssignments = 2
  MaxLabels = 2
CHECK_DEADLOCK FALSE
INVARIANT
  OfficeTypeOK
  GoldAccounted
  TimelineTells
  WaysInClosed
  ServedFresh
  StaffTells
  SchemaPlan
  PricedRight
  GstStands
  BranchAllowance
  NumbersOnce
  SupportWindow
  PaymentsTell
  ListsWhole
  TagsTell
