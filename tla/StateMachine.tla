---------------------------- MODULE StateMachine ----------------------------
(***************************************************************************)
(* The state machine of rc-state: what executing a transaction does to the *)
(* participants, the RCW balances, the escrows, the disputes, the          *)
(* settlement records and the anchors of a store.                          *)
(*                                                                         *)
(* Transactions arrive one by one in any order, as execute gets them from  *)
(* a block. Each names its sender, its nonce and the timestamp of its      *)
(* block; timestamps come from the clocks of changing proposers and need   *)
(* not grow. A transaction that is refused still uses up its nonce.        *)
(*                                                                         *)
(* Left out, because no guard reads them: metadata, amounts of escrows and *)
(* settlements, evidence hashes, the times of creation and of the last     *)
(* activity. A balance is earned plus purchased; nothing in the code       *)
(* credits the purchased part.                                             *)
(***************************************************************************)
EXTENDS Integers, FiniteSets

CONSTANTS
  Account,           \* public keys
  EscrowId,
  DisputeId,
  RecordId,          \* ids of settlement records
  BatchId,           \* ids of anchor batches
  Platform,          \* platform_keys, the accounts that may anchor
  VoteThreshold,     \* dispute.vote_threshold
  SettlementReward, RatingReward, EscrowReward, DisputeReward,  \* RewardConfig
  Times,             \* timestamps of blocks
  Expiries,          \* expiry times of escrows
  Amounts,           \* amounts of transfers and spending
  Ratings,           \* ratings, valid or not
  Null,              \* Option::None
  MaxNonce           \* bound: MaxNonce[a] is the highest nonce account a uses

ASSUME StateAssumption ==
  /\ IsFiniteSet(Account)
  /\ Platform \subseteq Account
  /\ VoteThreshold \in Nat
  /\ {SettlementReward, RatingReward, EscrowReward, DisputeReward} \subseteq Nat
  /\ Times \subseteq Int /\ Expiries \subseteq Int /\ Amounts \subseteq Nat /\ Ratings \subseteq Nat
  /\ MaxNonce \in [Account -> Nat]

VARIABLES
  nonce,         \* nonce[a] : the last nonce of account a
  participants,  \* participants[a] : the profile of a, Null if not registered
  balances,      \* balances[a] : earned + purchased
  escrows,       \* escrows[e] : Null or the escrow
  disputes,      \* disputes[d] : Null or the dispute
  settlements,   \* settlements[r] : the participant of record r, or Null
  anchors,       \* the batches anchored so far
  minted,        \* RCW minted so far (history)
  spent          \* RCW spent so far (history)

vars == <<nonce, participants, balances, escrows, disputes, settlements, anchors, minted, spent>>

Decision == {"FavorBuyer", "FavorSeller", "Split"}

Profile == [arbiter : BOOLEAN, active : BOOLEAN, total_tx : Nat, success_tx : Nat,
            dispute_count : Nat, dispute_won : Nat, rating_sum : Nat, rating_count : Nat]

Escrow == [buyer : Account, seller : Account, expires_at : Expiries,
           state : {"Created", "Released", "Refunded", "Disputed"},
           dispute_id : DisputeId \union {Null}]

Dispute == [escrow_id : EscrowId, raised_by : Account,
            votes : SUBSET [voter : Account, decision : Decision],
            state : {"Raised", "Evidence", "Voting", "Resolved"},
            resolution : Decision \union {Null}]

ASSUME NullAssumption ==
  /\ Null \notin Account /\ Null \notin DisputeId /\ Null \notin Decision
  /\ Null \notin Profile /\ Null \notin Escrow /\ Null \notin Dispute

Init ==
  /\ nonce = [a \in Account |-> 0]
  /\ participants = [a \in Account |-> Null]
  /\ balances = [a \in Account |-> 0]
  /\ escrows = [e \in EscrowId |-> Null]
  /\ disputes = [d \in DisputeId |-> Null]
  /\ settlements = [r \in RecordId |-> Null]
  /\ anchors = {}
  /\ minted = 0
  /\ spent = 0

Registered(a) == participants[a] # Null

\* check_and_update_nonce: any nonce above the last one is taken.
UseNonce(a) ==
  \E k \in nonce[a] + 1 .. MaxNonce[a] : nonce' = [nonce EXCEPT ![a] = k]

\* token::mint of a reward to one account, and to both parties of an escrow, one
\* after the other: they may be the same account.
Minted(b, to, amount) == [b EXCEPT ![to] = @ + amount]

MintTo(to, amount) ==
  /\ balances' = Minted(balances, to, amount)
  /\ minted' = minted + amount
  /\ UNCHANGED spent

MintToBoth(buyer, seller, amount) ==
  /\ balances' = Minted(Minted(balances, buyer, amount), seller, amount)
  /\ minted' = minted + 2 * amount
  /\ UNCHANGED spent

\* A profile after one more transaction, successful or not.
Succeeded_Uncounted(p) == [p EXCEPT !.success_tx = @ + 1]

Succeeded(p) == [p EXCEPT !.total_tx = @ + 1, !.success_tx = @ + 1]
Failed(p) == [p EXCEPT !.total_tx = @ + 1]

-----------------------------------------------------------------------------
\* A transaction that its module refuses, or participant::update, which only
\* changes metadata.
NonceOnly(s) ==
  /\ UseNonce(s)
  /\ UNCHANGED <<participants, balances, escrows, disputes, settlements, anchors, minted, spent>>

RegisterParticipant(s, arbiter) ==
  /\ UseNonce(s)
  /\ ~Registered(s)
  /\ participants' = [participants EXCEPT ![s] =
       [arbiter |-> arbiter, active |-> TRUE, total_tx |-> 0, success_tx |-> 0,
        dispute_count |-> 0, dispute_won |-> 0, rating_sum |-> 0, rating_count |-> 0]]
  /\ UNCHANGED <<balances, escrows, disputes, settlements, anchors, minted, spent>>

DeactivateParticipant(s) ==
  /\ UseNonce(s)
  /\ Registered(s)
  /\ participants' = [participants EXCEPT ![s].active = FALSE]
  /\ UNCHANGED <<balances, escrows, disputes, settlements, anchors, minted, spent>>

\* settlement::record: an existing record is overwritten.
RecordSettlement(s, r) ==
  /\ UseNonce(s)
  /\ Registered(s)
  /\ settlements' = [settlements EXCEPT ![r] = s]
  /\ participants' = [participants EXCEPT ![s] = Succeeded(@)]
  /\ MintTo(s, SettlementReward)
  /\ UNCHANGED <<escrows, disputes, anchors>>

Rated(p, rating) ==
  IF rating > 0 /\ rating <= 500
  THEN [p EXCEPT !.rating_sum = @ + rating, !.rating_count = @ + 1]
  ELSE p

\* settlement::record_rating of participant a, by anyone; a is rewarded.
RatedProfile(p, rating, success) == IF success THEN Rated(p, rating) ELSE Failed(Rated(p, rating))

RecordRating(s, a, rating, success) ==
  /\ UseNonce(s)
  /\ Registered(a)
  /\ participants' = [participants EXCEPT ![a] = RatedProfile(@, rating, success)]
  /\ MintTo(a, RatingReward)
  /\ UNCHANGED <<escrows, disputes, settlements, anchors>>

\* escrow::create: the buyer may be the seller.
CreateEscrow(s, e, seller, expires) ==
  /\ UseNonce(s)
  /\ escrows[e] = Null
  /\ Registered(s) /\ Registered(seller)
  /\ escrows' = [escrows EXCEPT ![e] =
       [buyer |-> s, seller |-> seller, expires_at |-> expires,
        state |-> "Created", dispute_id |-> Null]]
  /\ UNCHANGED <<participants, balances, disputes, settlements, anchors, minted, spent>>

\* The states an escrow may be released or refunded in (nothing makes it Funded).
Settleable_Disputed(e) == escrows[e].state \in {"Created", "Disputed"}

Settleable(e) == escrows[e].state = "Created"

\* escrow::release by the buyer before the expiry.
MayRelease(s, e, now) ==
  /\ escrows[e] # Null
  /\ s = escrows[e].buyer
  /\ Settleable(e)
  /\ now <= escrows[e].expires_at

\* The profiles once the buyer's is written, and then the seller's.
BuyerSucceeded(buyer) == [participants EXCEPT ![buyer] = Succeeded(@)]

BothSucceeded(buyer, seller) == [BuyerSucceeded(buyer) EXCEPT ![seller] = Succeeded(@)]

ReleaseEscrow(s, e, now) ==
  /\ UseNonce(s)
  /\ MayRelease(s, e, now)
  /\ escrows' = [escrows EXCEPT ![e].state = "Released"]
  /\ participants' = BothSucceeded(s, escrows[e].seller)
  /\ MintToBoth(s, escrows[e].seller, EscrowReward)
  /\ UNCHANGED <<disputes, settlements, anchors>>

\* escrow::refund by the buyer at any time, or by anyone after the expiry.
MayRefund(s, e, now) ==
  /\ escrows[e] # Null
  /\ s = escrows[e].buyer \/ now > escrows[e].expires_at
  /\ Settleable(e)

RefundEscrow(s, e, now) ==
  /\ UseNonce(s)
  /\ MayRefund(s, e, now)
  /\ escrows' = [escrows EXCEPT ![e].state = "Refunded"]
  /\ participants' = [participants EXCEPT ![escrows[e].seller] = Failed(@)]
  /\ UNCHANGED <<balances, disputes, settlements, anchors, minted, spent>>

-----------------------------------------------------------------------------
Parties(e) == {escrows[e].buyer, escrows[e].seller}

\* The other party; with one account in both roles, that account.
OtherParty(e, a) == IF a = escrows[e].buyer THEN escrows[e].seller ELSE escrows[e].buyer

Disputable_Settled(e) == escrows[e] # Null

Disputable(e) == escrows[e] # Null /\ escrows[e].state \notin {"Released", "Refunded"}

NewDispute(s, e) ==
  [escrow_id |-> e, raised_by |-> s, votes |-> {}, state |-> "Raised", resolution |-> Null]

\* dispute::raise: a dispute of the same id is overwritten, and an escrow that
\* is disputed already may be disputed again.
RaiseDispute(s, d, e) ==
  /\ UseNonce(s)
  /\ Disputable(e)
  /\ s \in Parties(e)
  /\ escrows' = [escrows EXCEPT ![e].state = "Disputed", ![e].dispute_id = d]
  /\ disputes' = [disputes EXCEPT ![d] = NewDispute(s, e)]
  /\ participants' = [participants EXCEPT ![OtherParty(e, s)].dispute_count = @ + 1]
  /\ UNCHANGED <<balances, settlements, anchors, minted, spent>>

\* Evidence is taken until the first vote.
TakesEvidence_Always(d) == disputes[d] # Null

TakesEvidence(d) == disputes[d] # Null /\ disputes[d].state \in {"Raised", "Evidence"}

\* dispute::submit_evidence: only the phase of the dispute is kept here.
SubmitEvidence(s, d) ==
  /\ UseNonce(s)
  /\ TakesEvidence(d)
  /\ s \in Parties(disputes[d].escrow_id)
  /\ disputes' = [disputes EXCEPT ![d].state = "Evidence"]
  /\ UNCHANGED <<participants, balances, escrows, settlements, anchors, minted, spent>>

\* The tally: a vote for a split counts for both sides.
Favor(votes, side) == Cardinality({v \in votes : v.decision \in {side, "Split"}})

Resolution(votes) ==
  LET buyer == Favor(votes, "FavorBuyer")
      seller == Favor(votes, "FavorSeller")
  IN  IF buyer > seller THEN "FavorBuyer"
      ELSE IF seller > buyer THEN "FavorSeller"
      ELSE "Split"

\* The profile of the winner: the count of a dispute it did not raise is taken
\* back, never below 0. The profile of the loser: twice if it raised it.
Won_AlwaysCleared(p, raised) == [p EXCEPT !.dispute_won = @ + 1, !.dispute_count = IF @ > 0 THEN @ - 1 ELSE 0]

Won(p, raised) ==
  [p EXCEPT !.dispute_won = @ + 1,
            !.dispute_count = IF ~raised /\ @ > 0 THEN @ - 1 ELSE @]

Lost(p, raised) == [p EXCEPT !.dispute_count = @ + (IF raised THEN 2 ELSE 1)]

\* A registered arbiter that has not voted on a dispute that is not resolved.
MayVote_Again(s, d) ==
  /\ disputes[d] # Null
  /\ Registered(s) /\ participants[s].arbiter
  /\ disputes[d].state # "Resolved"

MayVote(s, d) ==
  /\ disputes[d] # Null
  /\ Registered(s) /\ participants[s].arbiter
  /\ disputes[d].state # "Resolved"
  /\ \A v \in disputes[d].votes : v.voter # s

VotesWith(s, d, decision) == disputes[d].votes \union {[voter |-> s, decision |-> decision]}

Winner(d, resolution) ==
  LET e == disputes[d].escrow_id
  IN  IF resolution = "FavorBuyer" THEN escrows[e].buyer ELSE escrows[e].seller

Loser(d, resolution) ==
  LET e == disputes[d].escrow_id
  IN  IF resolution = "FavorBuyer" THEN escrows[e].seller ELSE escrows[e].buyer

\* The profiles once the winner's is written, and then the loser's.
WinnerCounted(d, resolution) ==
  LET a == Winner(d, resolution)
  IN  [participants EXCEPT ![a] = Won(@, disputes[d].raised_by = a)]

PartiesCounted(d, resolution) ==
  LET a == Loser(d, resolution)
  IN  [WinnerCounted(d, resolution) EXCEPT ![a] = Lost(@, disputes[d].raised_by = a)]

\* dispute::vote: the vote that reaches the threshold resolves the dispute.
VoteDispute(s, d, decision) ==
  LET votes == VotesWith(s, d, decision)
      resolution == Resolution(votes)
  IN  /\ UseNonce(s)
      /\ MayVote(s, d)
      /\ UNCHANGED <<escrows, settlements, anchors>>
      /\ \/ /\ Cardinality(votes) < VoteThreshold
            /\ disputes' = [disputes EXCEPT ![d].votes = votes, ![d].state = "Voting"]
            /\ UNCHANGED <<participants, balances, minted, spent>>
         \/ /\ Cardinality(votes) >= VoteThreshold
            /\ disputes' = [disputes EXCEPT ![d].votes = votes, ![d].state = "Resolved",
                                            ![d].resolution = resolution]
            /\ \/ /\ resolution = "Split"
                  /\ UNCHANGED <<participants, balances, minted, spent>>
               \/ /\ resolution # "Split"
                  /\ participants' = PartiesCounted(d, resolution)
                  /\ MintTo(Winner(d, resolution), DisputeReward)

-----------------------------------------------------------------------------
\* The balances after a transfer: the balance of the receiver is read after the
\* one of the sender was written, which matters when they are the same.
Moved(from, to, amount) ==
  [[balances EXCEPT ![from] = @ - amount] EXCEPT ![to] = @ + amount]

\* A positive amount that the balance covers (balances are unsigned).
Affords_Always(s, amount) == amount > 0

Affords(s, amount) == amount > 0 /\ balances[s] >= amount

\* token::transfer.
TransferRCW(s, to, amount) ==
  /\ UseNonce(s)
  /\ Affords(s, amount)
  /\ balances' = Moved(s, to, amount)
  /\ UNCHANGED <<participants, escrows, disputes, settlements, anchors, minted, spent>>

\* token::spend.
SpendRCW(s, amount) ==
  /\ UseNonce(s)
  /\ Affords(s, amount)
  /\ balances' = [balances EXCEPT ![s] = @ - amount]
  /\ spent' = spent + amount
  /\ UNCHANGED <<participants, escrows, disputes, settlements, anchors, minted>>

\* AnchorMerkleRoot: once per batch.
AnchorMerkleRoot(s, batch) ==
  /\ UseNonce(s)
  /\ s \in Platform
  /\ batch \notin anchors
  /\ anchors' = anchors \union {batch}
  /\ UNCHANGED <<participants, balances, escrows, disputes, settlements, minted, spent>>

Next ==
  \E s \in Account :
    \/ NonceOnly(s)
    \/ \E arbiter \in BOOLEAN : RegisterParticipant(s, arbiter)
    \/ DeactivateParticipant(s)
    \/ \E r \in RecordId : RecordSettlement(s, r)
    \/ \E a \in Account, rating \in Ratings, success \in BOOLEAN : RecordRating(s, a, rating, success)
    \/ \E e \in EscrowId, seller \in Account, expires \in Expiries : CreateEscrow(s, e, seller, expires)
    \/ \E e \in EscrowId, now \in Times : ReleaseEscrow(s, e, now) \/ RefundEscrow(s, e, now)
    \/ \E d \in DisputeId, e \in EscrowId : RaiseDispute(s, d, e)
    \/ \E d \in DisputeId : SubmitEvidence(s, d)
    \/ \E d \in DisputeId, decision \in Decision : VoteDispute(s, d, decision)
    \/ \E to \in Account, amount \in Amounts : TransferRCW(s, to, amount)
    \/ \E amount \in Amounts : SpendRCW(s, amount)
    \/ \E batch \in BatchId : AnchorMerkleRoot(s, batch)

Spec == Init /\ [][Next]_vars

-----------------------------------------------------------------------------
\* Type invariant.
TypeOK ==
  /\ nonce \in [Account -> Nat]
  /\ participants \in [Account -> Profile \union {Null}]
  /\ balances \in [Account -> Nat]
  /\ escrows \in [EscrowId -> Escrow \union {Null}]
  /\ disputes \in [DisputeId -> Dispute \union {Null}]
  /\ settlements \in [RecordId -> Account \union {Null}]
  /\ anchors \subseteq BatchId
  /\ minted \in Nat /\ spent \in Nat

\* No profile counts more successes than transactions, so the success part of
\* the trust score stays within its scale (compute_trust_score).
SuccessWithinTotal ==
  \A a \in Account : Registered(a) => participants[a].success_tx <= participants[a].total_tx

\* A dispute is resolved by exactly the threshold of votes of distinct
\* arbiters, and its resolution is the one those votes give.
ResolvedByArbiters ==
  \A d \in DisputeId :
    LET votes == disputes[d].votes
        voters == {v.voter : v \in votes}
    IN  disputes[d] # Null =>
          /\ Cardinality(voters) = Cardinality(votes)
          /\ \A a \in voters : Registered(a) /\ participants[a].arbiter
          /\ disputes[d].state = "Resolved" <=> disputes[d].resolution # Null
          /\ disputes[d].state = "Resolved" =>
               /\ Cardinality(votes) = IF VoteThreshold = 0 THEN 1 ELSE VoteThreshold
               /\ disputes[d].resolution = Resolution(votes)

\* An escrow is settled once: a released escrow is not refunded, rewarded again
\* or disputed, and a refunded one is not released.
SettledForGood ==
  [][\A e \in EscrowId :
       escrows[e] # Null /\ escrows[e].state \in {"Released", "Refunded"} =>
         escrows'[e] = escrows[e]]_vars

\* A disputed escrow is neither released nor refunded, by the buyer or after
\* its expiry, and it belongs to the same parties.
DisputedIsFrozen ==
  [][\A e \in EscrowId :
       escrows[e] # Null /\ escrows[e].state = "Disputed" =>
         [escrows'[e] EXCEPT !.dispute_id = escrows[e].dispute_id] = escrows[e]]_vars

\* A resolution is counted once: after it no vote or evidence touches the
\* dispute, and the only way to change it is to raise it again from nothing,
\* which a party of an escrow that is not settled may do (dispute::raise
\* overwrites a dispute of the same id).
ResolutionStands ==
  [][\A d \in DisputeId :
       disputes[d] # Null /\ disputes[d].state = "Resolved" /\ disputes'[d] # disputes[d] =>
         /\ disputes'[d].state = "Raised" /\ disputes'[d].votes = {}
         /\ disputes'[d].raised_by \in Parties(disputes'[d].escrow_id)
         /\ escrows[disputes'[d].escrow_id].state \notin {"Released", "Refunded"}]_vars
=============================================================================
