\* The leader of height 1 gets its own proposal back; one follower must sign.
SPECIFICATION Spec
CONSTANTS
  N = 3
  MinSignatures = 2
  Echo = {1}
  SharedGenesis = TRUE
  Txs <- AllTxs
  Refused <- NoTxs
  Submissions <- DiscardSubmissions
  MaxHeight = 1
  MaxRound = 0
  MaxDiscards = 0
  MaxCrashes = 0
INVARIANT StoredBlocksSigned
CHECK_DEADLOCK FALSE
