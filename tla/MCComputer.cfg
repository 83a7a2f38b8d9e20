CONSTANTS
  PrLaptops = {x1, x2}
  PrSlot = slot
  PrPaths = {p, q}
  PrIgnored = {q}
  PrMaxEdits = 2
  PrMaxCommands = 3
  CrReleases <- Published
  CrRunners = {x1, x2}
  CrMaxRuns = 3
  CrMaxFaults = 2
  CrOneJournal = TRUE
  LvMaxInstances = 2
  LvMaxRequests = 3
  LvWindow = 1
  LfNames = {"a", "b"}
  LfControl = ctl
  LfHandles = {x1, x2}
  LfMaxInodes = 3
  LfMaxChanges = 2
  NsRequests = {x1, x2}
  NsMaxRuns = 2
  NsMaxGrants = 0
  NsAtTheEdge = FALSE
SPECIFICATION ComputerSpec
SYMMETRY Interchangeable
INVARIANTS ComputerTypeOK CopiesSound MountSound RequestSound
CHECK_DEADLOCK FALSE
