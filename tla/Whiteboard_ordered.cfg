CONSTANTS
  Names = {"S"}
  NoName = ""
  Upper <- MCUpper
  MaxStrokes = 2
  MayRename = FALSE
  MayClear = TRUE
  MaxPosts = 3
  MayRetitle = FALSE
  Polls = {k1, k2}
  MaxVisits = 0
  Ordered = TRUE
  MayLose = FALSE
  MayExpire = FALSE
SPECIFICATION Spec
SYMMETRY Symmetry
INVARIANTS ViewersSeeBoard BroadcastsWhatIsDrawn
