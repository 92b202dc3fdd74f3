CONSTANTS
  Jobs = {j1, j2, j3, j4}
  Threads = {t1, t2, t3}
  NoJob = NoJob
SPECIFICATION FairSpec
INVARIANTS TypeOK CountsTrue SlotWatched JobsAtOnePlace
PROPERTIES ImplementsExecutor JobsStart CallersAnswered
CHECK_DEADLOCK FALSE
