SPECIFICATION FairStreamSpec
CONSTANTS
  o1 = o1
  s1 = s1
  w1 = w1
  None = None
  Orders = {o1}
  Servers = {s1}
  Concurrency = 1
  MaxAttempts = 2
  KeepCompleted = 1
  MaxStalledCount = 0
  Faults = {"dex", "lock"}
  Sockets = {w1}
  MaxUpdates = 20
  Outages = {}
INVARIANTS
  LifecycleIsSeenInOrder
PROPERTY OutcomeIsSeen
