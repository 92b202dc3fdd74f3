CONSTANTS
  Names = {"S"}
  NoName = ""
  Upper <- MCUpper
  MaxStrokes = 2
  MayRename = FALSE
  MayClear = FALSE
  MaxPosts = 2
  MayRetitle = FALSE
  Polls = {k1}
  MaxVisits = 0
  Ordered = TRUE
  MayLose = FALSE
  MayExpire = TRUE
SPECIFICATION Spec
INVARIANTS NothingMissed
