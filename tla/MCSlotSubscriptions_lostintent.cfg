CONSTANTS
  a1 = a1
  o1 = o1
  s1 = s1
  web = web
  monitor = monitor
  Orders = {o1}
  Accounts = {a1}
  Slots = {s1}
  AccountOf <- MCAccountOf
  SlotOf <- MCSlotOf
  Others = {}
  None = None
  Threads = {web, monitor}
  Monitor = monitor
  MaxMonths = 1
SPECIFICATION Spec
INVARIANT UnansweredAskIsRetried
CHECK_DEADLOCK FALSE
