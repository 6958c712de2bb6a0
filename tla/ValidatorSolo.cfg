\* A node without peers, killed twice, also between the two writes of put_block.
SPECIFICATION Spec
CONSTANTS
  N = 1
  MinSignatures = 2
  Echo = {}
  SharedGenesis = TRUE
  Txs <- AllTxs
  Refused <- BadTxs
  Submissions <- SoloSubmissions
  MaxHeight = 3
  MaxRound = 0
  MaxDiscards = 0
  MaxCrashes = 2
INVARIANT ChainLinked
\* Once every transaction is handled nothing is left to do.
CHECK_DEADLOCK FALSE
