\* One participant is rated for the first time; nothing is killed.
SPECIFICATION KillSpec
CHECK_DEADLOCK FALSE
CONSTANTS
  Ann = Ann
  Bob = Bob
  Null = Null
  SettlementReward = 1
  RatingReward = 1
  EscrowReward = 1
  DisputeReward = 2
  Account = {Ann, Bob}
  EscrowId = {}
  DisputeId = {}
  RecordId = {r1}
  BatchId = {}
  Platform = {}
  VoteThreshold = 2
  Times = {1}
  Expiries = {1}
  Amounts = {}
  Ratings = {270, 450, 490}
  MaxNonce <- RatingNonces
  MaxKills = 0
  Pasts <- RatingPasts
PROPERTIES RatingHelps
