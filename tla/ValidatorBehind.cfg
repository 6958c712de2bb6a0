\* No fault and no message lost; messages are reordered.
SPECIFICATION FairSpec
CONSTANTS
  N = 3
  MinSignatures = 2
  Echo = {}
  SharedGenesis = TRUE
  Txs <- AllTxs
  Refused <- NoTxs
  Submissions <- TwoSubmissions
  MaxHeight = 2
  MaxRound = 0
  MaxDiscards = 0
  MaxCrashes = 0
PROPERTIES FollowersCatchUp
\* Once every transaction is handled nothing is left to do.
CHECK_DEADLOCK FALSE
