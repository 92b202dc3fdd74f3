CONSTANTS
  Names = {"s", "S"}
  NoName = ""
  Upper <- MCUpper
  MaxStrokes = 1
  MayRename = TRUE
  MayClear = TRUE
  MaxPosts = 1
  MayRetitle = TRUE
  Polls = {k1, k2}
  MaxVisits = 1
  Ordered = FALSE
  MayLose = TRUE
  MayExpire = TRUE
SPECIFICATION Spec
SYMMETRY Symmetry
INVARIANTS TypeOK AskedOnce
