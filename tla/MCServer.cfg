CONSTANTS
  GwSlots = {s1, s2}
  GwOwners = {o1}
  NoGw = NoGw
  GwFingerprints = {f1}
  GwMaxClaims = 2
  GwMaxEdits = 1
  GwMaxBumps = 3
  GwMaxChunks = 2
  OutMachines = {m1}
  OutHolders = {h1}
  LateAfter = 1
  DownAfter = 2
  NewsAfter = 1
  OutGrace = 1
  OutTries = 2
  OutLastMinute = 5
  OutMaxStops = 1
  OutMaxChanges = 1
  AlShared = {b1}
  AlOwned = {b2}
  AlSlotShapes <- MCSlotShapes
  AlOwnShapes <- MCOwnShapes
  AlMaxAge = 1
  AlRetention = 2
  AlWindow = 1
  AlLastTick = 3
  AlMaxReports = 3
  AlMaxChanges = 1
  SesPeople = {p1, p2}
  SesAddresses = {e1, e2}
  SesMaxFlows = 2
  SesMaxTicks = 1
  SesTTL = 1
  TaAccounts = {eve}
  TaCost = 2
  TaBurst = 2
  TaKeysADay = 2
  TaDay = 3
  TaTTL = 4
  TaMaxTicks = 5
  TaMaxKeys = 3
  TaMaxAsked = 4
  NmNames = {p1, p2, n1}
  NmPool = {p1, p2}
  NmNobody = NmNobody
  NmMaxNodes = 2
  NmMaxSerial = 3
  NmMaxRows = 1
  Accounts = {a1}
  Slots = {s1}
  None = None
  Prices = {1, 2}
  Amounts = {2}
  MAX_CENTS = 4
  Month = 2
  CREATE_RETRY_WINDOW = 1
  Retention = 2
  MaxClock = 2
  MaxForms = 4
  Shown = {"admin_credit", "admin_debit", "purchase", "renewal", "purchase_return"}
  MaxClaims = 2
  MaxReviews = 1
SPECIFICATION ServerSpec
INVARIANTS ServerTypeOK GatewaySound OutagesSound AccessSound TopupsSound MonthsSound
PROPERTIES NewsSound ImplementsCredit
CHECK_DEADLOCK FALSE
