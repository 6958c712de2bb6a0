\* A pending block times out, a process is killed anywhere, a transaction is refused.
SPECIFICATION Spec
CONSTANTS
  N = 3
  MinSignatures = 2
  Echo = {}
  SharedGenesis = TRUE
  Txs <- AllTxs
  Refused <- BadTxs
  Submissions <- FaultySubmissions
  MaxHeight = 2
  MaxRound = 0
  MaxDiscards = 1
  MaxCrashes = 1
INVARIANTS TypeOK StoredBlocksSigned NoncesUsedInOrder TipStored AcceptedNotForgotten
PROPERTIES ReplacedOnlyByOwn
\* Once every transaction is handled nothing is left to do.
CHECK_DEADLOCK FALSE
