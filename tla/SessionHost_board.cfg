CONSTANTS
  Sessions = {s1}
  Texts = {a, b}
  NoText = NoText
  Threads = {t1, t2}
  Cron = Cron
  None = None
  SessionTimeout = 0
  ClockModulus = 64
  Operations = {"dequeue", "keepAlive", "getRange", "getAt", "getDepth"}
  Indices = {0, 1, 2}
  Faults = {"badAlloc", "pastEndGarbage", "pastEndThrow", "pastEndCrash", "signal"}
  ClockMayStepBack = TRUE
  MaxClock = 2
  MaxArrival = 1
  MaxDepth = 2
SPECIFICATION Spec
SYMMETRY Symmetry
INVARIANTS MutualExclusion
PROPERTIES ImplementsBoard
CHECK_DEADLOCK FALSE
