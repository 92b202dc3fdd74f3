CONSTANTS
  Arrivals = 3
  Callers = {main}
  Listeners = {l1, l2}
  MaxConnections = 2
  Nobody = Nobody
SPECIFICATION FairSpec
INVARIANTS TypeOK CountIsThreads NoMissedWakeup ConsAlive LimitKept
PROPERTIES ClearLeavesAtMostOne ClearsReturn
CHECK_DEADLOCK FALSE
