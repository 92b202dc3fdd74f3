CONSTANTS
  Threads = {t1, t2}
  Stuck = {t2}
  NumFiles = 2
  MaxEdits = 1
  Builds = {TRUE, FALSE}
  Free = Free
SPECIFICATION FairSpec
INVARIANTS TypeOK AnswersAreFiles
PROPERTIES CachedForEver CallsReturn
CHECK_DEADLOCK FALSE
