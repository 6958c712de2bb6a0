\* Three nodes of which one may stop for good, one height, two rounds; the two that run
\* may be in different rounds, since only the proposer of a block resets its own.
SPECIFICATION NoBlockSpec
CONSTANTS
  N = 3
  Live = {0, 1}
  SameStart = FALSE
  MaxHeight = 1
  MaxRound = 2
PROPERTIES RoundsAdvance
CHECK_DEADLOCK FALSE
