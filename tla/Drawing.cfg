CONSTANTS
  Colours = {"#98BF21", "#404040"}
  Black = "#000000"
  MaxPoints = 4
  MaxPosts = 2
SPECIFICATION Spec
INVARIANTS NothingMissing NothingAdded SameColours
CHECK_DEADLOCK FALSE
