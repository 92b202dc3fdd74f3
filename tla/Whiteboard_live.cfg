CONSTANTS
  Names = {"S"}
  NoName = ""
  Upper <- MCUpper
  MaxStrokes = 1
  MayRename = FALSE
  MayClear = TRUE
  MaxPosts = 2
  MayRetitle = FALSE
  Polls = {k1, k2}
  MaxVisits = 0
  Ordered = FALSE
  MayLose = FALSE
  MayExpire = FALSE
SPECIFICATION FairSpec
INVARIANTS FetchInRange
PROPERTIES RendersLoad
