CONSTANTS
  Sessions = {s1, s2}
  Texts = {a}
  NoText = NoText
  Threads = {t1, t2}
  Cron = Cron
  None = None
  SessionTimeout = 0
  ClockModulus = 64
  Operations = {"dequeue"}
  Indices = {0}
  Faults = {}
  ClockMayStepBack = FALSE
  MaxClock = 3
  MaxArrival = 2
  MaxDepth = 1
SPECIFICATION FairSpec
INVARIANTS TypeOK CronFindingsStand
PROPERTIES CallsReturn StampedSessionsGo NoLiveErase
