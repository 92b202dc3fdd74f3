CONSTANTS
  Names = {"s", "S"}
  NoName = ""
  Upper <- MCUpper
  MaxStrokes = 2
  MayRename = TRUE
  MayClear = TRUE
  MaxPosts = 3
  MayRetitle = FALSE
  Polls = {}
  MaxVisits = 0
  Ordered = FALSE
  MayLose = TRUE
  MayExpire = TRUE
SPECIFICATION Spec
INVARIANTS PostedOnce
