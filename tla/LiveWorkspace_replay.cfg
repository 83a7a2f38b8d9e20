CONSTANTS
  LvMaxInstances = 1
  LvMaxRequests = 2
  LvWindow = 2
SPECIFICATION LvSpec
INVARIANT TruthfulReplies
CHECK_DEADLOCK FALSE
