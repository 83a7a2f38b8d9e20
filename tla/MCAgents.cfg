CONSTANTS
  LoginAccounts = {a1, a2}
  NoLogin = NoLogin
  MaxAttempts = 2
  MaxHolders = 2
  MaxFaults = 1
  CliHolders = {h1}
  NoCliHolder = NoCliHolder
  CliDevicesAllowed = 1
  CliMaxClaims = 2
  CliMaxCodes = 2
  CliMaxFaults = 1
  MaxAsks = 2
  MaxReleases = 2
  MaxTurns = 1
  MaxUpdFaults = 1
  MaxStamps = 2
  MaxBuilds = 1
  MaxRnEvents = 3
  WriterBetween = FALSE
  HnNames = {n1, n2, n3}
  HnProvider = n1
  HnMaxRuns = 3
  Jobs = {x1, x2}
  MaxJobs = 1
  MaxJobFaults = 1
  InCalls = {x1, x2}
  InWorkers = 1
  InPending = 1
  InParts = 1
  InMaxChanges = 0
  TpMaxChannels = 2
  RmRelays = {x1, x2}
  RmWindow = 1
  RmMaxMoment = 3
  RmMaxRecords = 3
  RmMaxSwaps = 2
  RmMaxEvents = 6
  RmMaxTokens = 2
SPECIFICATION AgentsSpec
SYMMETRY JobSymmetry
INVARIANTS AgentsTypeOK LoginSound CliSound UpkeepSound JobsSound RequestsSound
CHECK_DEADLOCK FALSE
