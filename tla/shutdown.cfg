SPECIFICATION FairShutdownSpec
CONSTANTS
  o1 = o1
  s1 = s1
  s2 = s2
  None = None
  Orders = {o1}
  Servers = {s1, s2}
  Concurrency = 1
  MaxAttempts = 1
  KeepCompleted = 1
  MaxStalledCount = 1
  Faults = {"publish", "queue", "lock"}
  MaxSignals = 2
INVARIANTS
  ServerTypeOK
PROPERTIES
  ShutdownCutsNoTradeOff
  SignalStopsServer
  AcceptedSettlesElsewhere
CHECK_DEADLOCK FALSE
