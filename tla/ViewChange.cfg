\* Three nodes, two rounds: votes read late and repeatedly, jumps over a round,
\* resets and restarts in every order. One height; votes of several heights mix
\* in the runs of Validator, and the theorems hold for every bound.
SPECIFICATION Spec
CONSTANTS
  N = 3
  MaxHeight = 1
  MaxRound = 2
INVARIANTS TypeOK VotesAuthentic CurrentRoundBacked RoundLadder
PROPERTY RoundFallsOnlyByReset
