\* The only fault: kills. A kill forgets a pending block, as a discard does.
SPECIFICATION Spec
CONSTANTS
  N = 3
  MinSignatures = 2
  Echo = {}
  SharedGenesis = TRUE
  Txs <- AllTxs
  Refused <- NoTxs
  Submissions <- SteadySubmissions
  MaxHeight = 2
  MaxRound = 0
  MaxDiscards = 0
  MaxCrashes = 1
INVARIANTS Agreement
\* Once every transaction is handled nothing is left to do.
CHECK_DEADLOCK FALSE
