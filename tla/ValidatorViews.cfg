\* Two nodes, and everything at once: view changes, timeouts, kills.
SPECIFICATION Spec
CONSTANTS
  N = 2
  MinSignatures = 2
  Echo = {}
  SharedGenesis = TRUE
  Txs <- AllTxs
  Refused <- BadTxs
  Submissions <- ViewSubmissions
  MaxHeight = 2
  MaxRound = 1
  MaxDiscards = 1
  MaxCrashes = 1
INVARIANTS StoredBlocksSigned NoncesUsedInOrder
PROPERTIES ReplacedOnlyByOwn FollowsViewChange
\* Once every transaction is handled nothing is left to do.
CHECK_DEADLOCK FALSE
