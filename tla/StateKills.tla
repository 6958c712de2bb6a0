------------------------------ MODULE StateKills ------------------------------
(***************************************************************************)
(* StateMachine with a process that is killed while it executes a          *)
(* transaction. execute writes one key after the other with single puts    *)
(* and never uses the StoreBatch of rc-store, so a kill leaves the nonce   *)
(* and the first few of the other writes. Nothing is rolled back at the    *)
(* next start, and the nonce keeps the transaction from coming again.      *)
(*                                                                         *)
(* A kill after the nonce alone has the effect of NonceOnly and a kill     *)
(* after the last write that of the whole transaction; the actions here    *)
(* are the kills in between. In the store alone a kill is a single step:   *)
(* no other transaction runs between the writes of one.                    *)
(***************************************************************************)
EXTENDS StateMachine

CONSTANT MaxKills  \* bound: how many transactions are killed half-way

ASSUME KillsAssumption == MaxKills \in Nat

VARIABLES
  kills,  \* number of transactions killed half-way
  paid    \* paid[e] : rewards minted for completing escrow e (history)

killVars == <<nonce, participants, balances, escrows, disputes, settlements, anchors,
              minted, spent, kills, paid>>

Killed ==
  /\ kills < MaxKills
  /\ kills' = kills + 1

\* Writes of record: settlement, participant, balance.
KilledSettlement(s, r) ==
  /\ Killed
  /\ UseNonce(s)
  /\ Registered(s)
  /\ settlements' = [settlements EXCEPT ![r] = s]
  /\ participants' \in {participants, [participants EXCEPT ![s] = Succeeded(@)]}
  /\ UNCHANGED <<balances, escrows, disputes, anchors, minted, spent, paid>>

\* Writes of record_rating: participant, balance.
KilledRating(s, a, rating, success) ==
  /\ Killed
  /\ UseNonce(s)
  /\ Registered(a)
  /\ participants' = [participants EXCEPT ![a] = RatedProfile(@, rating, success)]
  /\ UNCHANGED <<balances, escrows, disputes, settlements, anchors, minted, spent, paid>>

\* Writes of release: escrow, buyer, seller, balance of the buyer, balance of
\* the seller.
KilledRelease_EscrowLast(s, e, now) ==
  /\ Killed
  /\ UseNonce(s)
  /\ MayRelease(s, e, now)
  /\ participants' = BothSucceeded(s, escrows[e].seller)
  /\ MintToBoth(s, escrows[e].seller, EscrowReward)
  /\ paid' = [paid EXCEPT ![e] = @ + 2]
  /\ UNCHANGED <<escrows, disputes, settlements, anchors>>

KilledRelease(s, e, now) ==
  LET seller == escrows[e].seller
  IN  /\ Killed
      /\ UseNonce(s)
      /\ MayRelease(s, e, now)
      /\ escrows' = [escrows EXCEPT ![e].state = "Released"]
      /\ \/ /\ participants' \in {participants, BuyerSucceeded(s), BothSucceeded(s, seller)}
            /\ UNCHANGED <<balances, minted, spent, paid>>
         \/ /\ participants' = BothSucceeded(s, seller)
            /\ MintTo(s, EscrowReward)
            /\ paid' = [paid EXCEPT ![e] = @ + 1]
      /\ UNCHANGED <<disputes, settlements, anchors>>

\* Writes of refund: escrow, seller.
KilledRefund(s, e, now) ==
  /\ Killed
  /\ UseNonce(s)
  /\ MayRefund(s, e, now)
  /\ escrows' = [escrows EXCEPT ![e].state = "Refunded"]
  /\ UNCHANGED <<participants, balances, disputes, settlements, anchors, minted, spent, paid>>

\* Writes of raise: escrow, dispute, the other party.
KilledRaise(s, d, e) ==
  /\ Killed
  /\ UseNonce(s)
  /\ Disputable(e)
  /\ s \in Parties(e)
  /\ escrows' = [escrows EXCEPT ![e].state = "Disputed", ![e].dispute_id = d]
  /\ disputes' \in {disputes, [disputes EXCEPT ![d] = NewDispute(s, e)]}
  /\ UNCHANGED <<participants, balances, settlements, anchors, minted, spent, paid>>

\* Writes of a vote that resolves the dispute: winner, loser, balance of the
\* winner, and the dispute last, so that the next vote resolves it once more.
KilledVote(s, d, decision) ==
  LET resolution == Resolution(VotesWith(s, d, decision))
  IN  /\ Killed
      /\ UseNonce(s)
      /\ MayVote(s, d)
      /\ Cardinality(VotesWith(s, d, decision)) >= VoteThreshold /\ resolution # "Split"
      /\ \/ /\ participants' \in {WinnerCounted(d, resolution), PartiesCounted(d, resolution)}
            /\ UNCHANGED <<balances, minted, spent>>
         \/ /\ participants' = PartiesCounted(d, resolution)
            /\ MintTo(Winner(d, resolution), DisputeReward)
      /\ UNCHANGED <<escrows, disputes, settlements, anchors, paid>>

\* Writes of transfer: balance of the sender, balance of the receiver.
KilledTransfer_CreditFirst(s, to, amount) ==
  /\ Killed
  /\ UseNonce(s)
  /\ Affords(s, amount)
  /\ balances' = [balances EXCEPT ![to] = @ + amount]
  /\ UNCHANGED <<participants, escrows, disputes, settlements, anchors, minted, spent, paid>>

KilledTransfer(s, to, amount) ==
  /\ Killed
  /\ UseNonce(s)
  /\ Affords(s, amount)
  /\ balances' = [balances EXCEPT ![s] = @ - amount]
  /\ UNCHANGED <<participants, escrows, disputes, settlements, anchors, minted, spent, paid>>

KillInit ==
  /\ Init
  /\ kills = 0
  /\ paid = [e \in EscrowId |-> 0]

\* A transaction that runs to its end; only a release rewards an escrow.
Whole ==
  /\ Next
  /\ paid' = [e \in EscrowId |->
                IF \E s \in Account, now \in Times : ReleaseEscrow(s, e, now) THEN paid[e] + 2 ELSE paid[e]]
  /\ UNCHANGED kills

KillNext ==
  \/ Whole
  \/ \E s \in Account :
       \/ \E r \in RecordId : KilledSettlement(s, r)
       \/ \E a \in Account, rating \in Ratings, success \in BOOLEAN : KilledRating(s, a, rating, success)
       \/ \E e \in EscrowId, now \in Times : KilledRelease(s, e, now) \/ KilledRefund(s, e, now)
       \/ \E d \in DisputeId, e \in EscrowId : KilledRaise(s, d, e)
       \/ \E d \in DisputeId, decision \in Decision : KilledVote(s, d, decision)
       \/ \E to \in Account, amount \in Amounts : KilledTransfer(s, to, amount)

KillSpec == KillInit /\ [][KillNext]_killVars

-----------------------------------------------------------------------------
\* The RCW that a function from accounts to balances stands for, one by one.
Coins(b) == UNION {{a} \X (1 .. b[a]) : a \in Account}

\* RCW appears only as a reward and disappears only by being spent: transfers,
\* also to oneself, and rewards to both parties of an escrow, also when they are
\* one account, keep the books. A kill may lose RCW but never makes any
\* (token::mint, transfer and spend).
SupplyConserved ==
  /\ Cardinality(Coins(balances)) + spent <= minted
  /\ kills = 0 => Cardinality(Coins(balances)) + spent = minted

\* An escrow is rewarded at most once for each party, also when the release was
\* killed and the buyer sends it again (escrow::release marks it first).
EscrowPaidOnce == \A e \in EscrowId : paid[e] <= 2

\* Against every account at least its open disputes are counted, whatever was
\* raised again, overwritten or won in between: dispute::vote never takes back
\* a count that dispute::raise did not give. A kill hides one dispute at most.
OpenDisputesCounted ==
  \A a \in Account :
    Registered(a) =>
      participants[a].dispute_count + kills >=
        Cardinality({d \in DisputeId :
          /\ disputes[d] # Null
          /\ disputes[d].state # "Resolved"
          /\ OtherParty(disputes[d].escrow_id, disputes[d].raised_by) = a})
=============================================================================
