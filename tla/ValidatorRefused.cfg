\* The only fault: a refused transaction reaches the leader.
SPECIFICATION Spec
CONSTANTS
  N = 3
  MinSignatures = 2
  Echo = {}
  SharedGenesis = TRUE
  Txs <- AllTxs
  Refused <- BadTxs
  Submissions <- RefusedSubmissions
  MaxHeight = 2
  MaxRound = 0
  MaxDiscards = 0
  MaxCrashes = 0
INVARIANTS RootIsAfterBlock
\* Once every transaction is handled nothing is left to do.
CHECK_DEADLOCK FALSE
