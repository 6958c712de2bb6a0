\* The only fault: view changes.
SPECIFICATION Spec
CONSTANTS
  N = 3
  MinSignatures = 2
  Echo = {}
  SharedGenesis = TRUE
  Txs <- AllTxs
  Refused <- NoTxs
  Submissions <- TwiceSubmissions
  MaxHeight = 1
  MaxRound = 1
  MaxDiscards = 0
  MaxCrashes = 0
PROPERTIES NeverReplaced
\* Once every transaction is handled nothing is left to do.
CHECK_DEADLOCK FALSE
