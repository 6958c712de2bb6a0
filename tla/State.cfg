\* Two traders that may both be arbiters, one escrow, two disputes; one transaction
\* is killed half-way.
SPECIFICATION KillSpec
CHECK_DEADLOCK FALSE
CONSTANTS
  Ann = Ann
  Bob = Bob
  Null = Null
  SettlementReward = 1
  RatingReward = 1
  EscrowReward = 1
  DisputeReward = 2
  Account = {Ann, Bob}
  EscrowId = {e1}
  DisputeId = {d1, d2}
  RecordId = {r1}
  BatchId = {b1}
  Platform = {Ann}
  VoteThreshold = 2
  Times = {1, 2}
  Expiries = {1}
  Amounts = {1, 2}
  Ratings = {5}
  MaxNonce <- TradeNonces
  MaxKills = 1
  Pasts <- TierPasts
INVARIANTS TypeOK ResolvedByArbiters OpenDisputesCounted SuccessWithinTotal SupplyConserved EscrowPaidOnce WithinScale
PROPERTIES ResolutionStands SettledForGood DisputedIsFrozen LosingNeverHelps SettlingNeverHurts
