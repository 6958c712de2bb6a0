\* Each node started with its own genesis block.
SPECIFICATION FairSpec
CONSTANTS
  N = 3
  MinSignatures = 2
  Echo = {}
  SharedGenesis = FALSE
  Txs <- AllTxs
  Refused <- NoTxs
  Submissions <- DiscardSubmissions
  MaxHeight = 1
  MaxRound = 0
  MaxDiscards = 0
  MaxCrashes = 0
PROPERTIES FirstBlockDecided
\* Once every transaction is handled nothing is left to do.
CHECK_DEADLOCK FALSE
