\* No view change, no timeout, no crash; messages are reordered and, for
\* safety, may never arrive.
SPECIFICATION FairSpec
CONSTANTS
  N = 3
  MinSignatures = 2
  Echo = {1}
  SharedGenesis = TRUE
  Txs <- AllTxs
  Refused <- NoTxs
  Submissions <- SteadySubmissions
  MaxHeight = 2
  MaxRound = 0
  MaxDiscards = 0
  MaxCrashes = 0
INVARIANTS StateIsOfTip RootIsAfterBlock
PROPERTIES ImplementsAgreedChain FirstBlockDecided
\* Once every transaction is handled nothing is left to do.
CHECK_DEADLOCK FALSE
