\* The only fault: view changes.
SPECIFICATION Spec
CONSTANTS
  N = 3
  MinSignatures = 2
  Echo = {}
  SharedGenesis = TRUE
  Txs <- AllTxs
  Refused <- NoTxs
  Submissions <- TwoSubmissions
  MaxHeight = 2
  MaxRound = 1
  MaxDiscards = 0
  MaxCrashes = 0
INVARIANTS RoundIsOfNextHeight
\* Once every transaction is handled nothing is left to do.
CHECK_DEADLOCK FALSE
