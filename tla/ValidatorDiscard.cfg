\* The only fault: a pending block times out.
SPECIFICATION Spec
CONSTANTS
  N = 3
  MinSignatures = 2
  Echo = {}
  SharedGenesis = TRUE
  Txs <- AllTxs
  Refused <- NoTxs
  Submissions <- DiscardSubmissions
  MaxHeight = 2
  MaxRound = 0
  MaxDiscards = 1
  MaxCrashes = 0
INVARIANTS Agreement
\* Once every transaction is handled nothing is left to do.
CHECK_DEADLOCK FALSE
