SPECIFICATION Spec
CONSTANTS
  o1 = o1
  o2 = o2
  s1 = s1
  s2 = s2
  None = None
  Orders = {o1}
  Servers = {s1}
  Concurrency = 1
  MaxAttempts = 3
  KeepCompleted = 1
  MaxStalledCount = 1
  Faults = {"restart"}
INVARIANT FinalResultIsPersisted
