CONSTANTS
  t1 = t1
  ann = ann
  Turns = {t1, t2}
  Accounts = {ann, bob}
  None = None
  TOKENS = 3
  DAILY_TOKENS = 4
  GLOBAL_DAILY_TOKENS = 4
  DAILY_REQUESTS = 2
  GLOBAL_DAILY_REQUESTS = 2
  DAILY_RUNTIME = 1
  GLOBAL_DAILY_RUNTIME = 2
  DAILY_LEASES = 2
  GLOBAL_DAILY_LEASES = 2
  Day = 3
  Lease = 2
  Step = 1
  MaxClock = 4
  MaxRegress = 1
  Reports = {2}
  Interventions = TRUE
SPECIFICATION TrialSpec
INVARIANTS TypeOK OneInFlight ReadyMeansAlone EveryTurnAccounted LedgerKept
PROPERTY LeaseEnds
CHECK_DEADLOCK FALSE
