CONSTANTS
  Slots = {s1}
  Accounts = {ann, bob}
  None = None
  Stranger = Stranger
  MaxClaims = 2
  MaxQuota = 1
  MaxLate = 0
  PartialWipe = FALSE
  CliHolders = {h1}
  NoCliHolder = NoCliHolder
  CliDevicesAllowed = 1
  CliMaxClaims = 2
  CliMaxCodes = 1
  CliMaxFaults = 1
  Jobs = {j1}
  MaxJobs = 1
  MaxJobFaults = 2
SPECIFICATION EndsSpec
INVARIANTS TypeOK HandedOverClean FreeMeansWiped ActiveMeansSignedIn
PROPERTIES ImplementsCustody ReleaseEnds NothingOutlivesItsHolder
CHECK_DEADLOCK FALSE
