\* Three nodes of which one may stop for good, one height, two rounds.
SPECIFICATION NoBlockSpec
CONSTANTS
  N = 3
  Live = {0, 1}
  SameStart = TRUE
  MaxHeight = 1
  MaxRound = 2
PROPERTIES RoundsAdvance
CHECK_DEADLOCK FALSE
