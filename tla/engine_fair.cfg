SPECIFICATION FairSpec
CONSTANTS
  o1 = o1
  o2 = o2
  s1 = s1
  s2 = s2
  None = None
  Orders = {o1, o2}
  Servers = {s1}
  Concurrency = 1
  MaxAttempts = 2
  KeepCompleted = 1
  MaxStalledCount = 0
  Faults = {"queue", "dex", "lock"}
INVARIANT FinishedRowIsTruthful
PROPERTIES
  AcceptedSettles
  ResultIsRecorded
