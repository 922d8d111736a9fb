SPECIFICATION FairSpec
CONSTANTS
  k1 = k1  k2 = k2
  Key <- MCKey
  Lifetimes = {1, 5}
  NoExpiry = NoExpiry
  DefaultTTL = 2
  Interval = 2
  HistoryLimit = 1
  MaxAttempts = 2
  NoPending = NoPending
  Runtime = {"node", "worker"}
  MaxLine = 2
INVARIANTS NoLostWake PushBudget
PROPERTIES PushesSpacedWhileRemembered TrailingWakeServed
