----------------------------- MODULE BooksProofs -----------------------------
(***************************************************************************)
(* Theorems about the books of StateKills: the RCW supply, and the count   *)
(* of the disputes against an account. Both compare what is stored with    *)
(* the number of elements of a set.                                        *)
(*                                                                         *)
(* Supply: a balance is the set of its units, so that a sum over all       *)
(* accounts is a cardinality, and every write of a balance adds some       *)
(* elements or removes some.                                               *)
(*                                                                         *)
(* Disputes: the count in a profile never falls below the disputes that    *)
(* are open against the account, but for one per kill. Three kinds of      *)
(* steps matter: a raise adds to both, a resolving vote may take from      *)
(* both, and all other steps take from neither.                            *)
(***************************************************************************)
EXTENDS StateProofs

Supply(b) == Cardinality(Coins(b))

\* Only finitely many coins are in existence.
LEMMA CoinsFinite ==
  ASSUME NEW b \in [Account -> Nat]
  PROVE  IsFiniteSet(Coins(b)) /\ Supply(b) \in Nat
<1> DEFINE purse == [a \in Account |-> {a} \X (1 .. b[a])]
           purses == {purse[a] : a \in Account}
<1>1. ASSUME NEW a \in Account PROVE IsFiniteSet({a} \X (1 .. b[a]))
  <2>1. 1 \in Int /\ b[a] \in Int
    OBVIOUS
  <2>2. IsFiniteSet(1 .. b[a])
    BY <2>1, FS_Interval
  <2>3. IsFiniteSet({a})
    BY FS_Singleton
  <2> QED
    BY <2>2, <2>3, FS_Product
<1>2. purse \in Surjection(Account, purses)
  BY DEF Surjection
<1>3. IsFiniteSet(purses)
  BY <1>2, StateAssumption, FS_Surjection
<1>4. \A T \in purses : IsFiniteSet(T)
  BY <1>1
<1>5. IsFiniteSet(UNION purses)
  BY <1>3, <1>4, FS_UNION
<1>6. Coins(b) = UNION purses
  BY DEF Coins
<1> QED
  BY <1>5, <1>6, FS_CardinalityType DEF Supply

\* Crediting one account adds that many coins.
LEMMA Credited ==
  ASSUME NEW b \in [Account -> Nat], NEW a \in Account, NEW k \in Nat
  PROVE  LET c == [b EXCEPT ![a] = @ + k]
         IN  c \in [Account -> Nat] /\ Supply(c) = Supply(b) + k
<1> DEFINE c == [b EXCEPT ![a] = @ + k]
           new == {a} \X (b[a] + 1 .. b[a] + k)
<1>1. c \in [Account -> Nat] /\ c[a] = b[a] + k /\ \A x \in Account : x # a => c[x] = b[x]
  OBVIOUS
<1>2. IsFiniteSet(new) /\ Cardinality(new) = k
  <2>1. IsFiniteSet({a}) /\ Cardinality({a}) = 1
    BY FS_Singleton
  <2> DEFINE low == b[a] + 1
             high == b[a] + k
  <2>2. low \in Int /\ high \in Int /\ (low > high => k = 0) /\ high - low + 1 = k
    OBVIOUS
  <2> HIDE DEF low, high
  <2>3. IsFiniteSet(low .. high) /\ Cardinality(low .. high) = k
    BY <2>2, FS_Interval
  <2>4. IsFiniteSet({a} \X (low .. high)) /\ Cardinality({a} \X (low .. high)) = 1 * k
    BY <2>1, <2>3, FS_Product
  <2> QED
    BY <2>4 DEF low, high
<1> HIDE DEF c
<1>3. Coins(c) = Coins(b) \union new
  <2>1. \A x \in Account, i \in Int :
          <<x, i>> \in Coins(c) <=> <<x, i>> \in Coins(b) \/ <<x, i>> \in new
    BY <1>1 DEF Coins
  <2>2. \A y \in Coins(c) \union Coins(b) \union new : \E x \in Account, i \in Int : y = <<x, i>>
    BY DEF Coins
  <2> QED
    BY <2>1, <2>2
<1>4. Coins(b) \intersect new = {}
  BY DEF Coins
<1> HIDE DEF new
<1>5. Cardinality(Coins(b) \union new) = Supply(b) + k
  <2>1. IsFiniteSet(Coins(b)) /\ Supply(b) \in Nat
    BY CoinsFinite
  <2>2. Cardinality(Coins(b) \union new) = Supply(b) + k - Cardinality(Coins(b) \intersect new)
    BY <1>2, <2>1, FS_Union DEF Supply
  <2>3. Cardinality(Coins(b) \intersect new) = 0
    BY <1>4, FS_EmptySet
  <2> QED
    BY <2>1, <2>2, <2>3
<1>6. Supply(c) = Supply(b) + k
  BY <1>3, <1>5 DEF Supply
<1> QED
  BY <1>1, <1>6 DEF c

\* Debiting one account removes that many coins.
LEMMA Debited ==
  ASSUME NEW b \in [Account -> Nat], NEW a \in Account, NEW k \in Nat, k <= b[a]
  PROVE  LET c == [b EXCEPT ![a] = @ - k]
         IN  c \in [Account -> Nat] /\ Supply(c) + k = Supply(b)
<1> DEFINE c == [b EXCEPT ![a] = @ - k]
<1>1. b[a] - k \in Nat
  OBVIOUS
<1>2. c \in [Account -> Nat] /\ c[a] + k = b[a] /\ \A x \in Account : x # a => c[x] = b[x]
  BY <1>1
<1> HIDE DEF c
<1>3. b = [c EXCEPT ![a] = @ + k]
  BY <1>2
<1>4. Supply([c EXCEPT ![a] = @ + k]) = Supply(c) + k
  <2>1. c \in [Account -> Nat]
    BY <1>2
  <2> QED
    BY <2>1, Credited
<1>5. Supply(c) + k = Supply(b)
  BY <1>3, <1>4
<1> QED
  BY <1>2, <1>5 DEF c

-----------------------------------------------------------------------------
\* What holds of the books whatever is minted, moved, spent or lost.
SupplyInv == SupplyConserved /\ kills \in Nat

\* A step that keeps the books: no RCW comes or goes unaccounted, except that a
\* kill may lose some.
BooksKept ==
  Supply(balances') + spent' + minted = Supply(balances) + spent + minted'

BooksLosing ==
  Supply(balances') + spent' + minted <= Supply(balances) + spent + minted'

LEMMA MintKeepsBooks ==
  ASSUME RefsOK, NEW a \in Account, NEW amount \in Nat, MintTo(a, amount)
  PROVE  BooksKept
<1>1. balances \in [Account -> Nat] /\ minted \in Nat /\ spent \in Nat
  BY DEF RefsOK, TypeOK
<1>2. Supply(balances') = Supply(balances) + amount
  BY <1>1, Credited DEF MintTo, Minted
<1> QED
  BY <1>1, <1>2, CoinsFinite DEF MintTo, BooksKept

LEMMA MintToBothKeepsBooks ==
  ASSUME RefsOK, NEW a \in Account, NEW c \in Account, NEW amount \in Nat, MintToBoth(a, c, amount)
  PROVE  BooksKept
<1>1. balances \in [Account -> Nat] /\ minted \in Nat /\ spent \in Nat
  BY DEF RefsOK, TypeOK
<1> DEFINE b == Minted(balances, a, amount)
<1>2. b \in [Account -> Nat] /\ Supply(b) = Supply(balances) + amount
  BY <1>1, Credited DEF Minted
<1> HIDE DEF b
<1>3. Supply([b EXCEPT ![c] = @ + amount]) = Supply(b) + amount
  BY ZenonT(60), <1>2, Credited
<1>4. balances' = [b EXCEPT ![c] = @ + amount] /\ minted' = minted + 2 * amount /\ spent' = spent
  BY DEF MintToBoth, Minted, b
<1> QED
  BY <1>1, <1>2, <1>3, <1>4, CoinsFinite DEF BooksKept

LEMMA TransferKeepsBooks ==
  ASSUME RefsOK, NEW s \in Account, NEW to \in Account, NEW amount \in Amounts, TransferRCW(s, to, amount)
  PROVE  BooksKept
<1>1. balances \in [Account -> Nat] /\ amount \in Nat /\ amount <= balances[s]
  BY StateAssumption DEF RefsOK, TypeOK, TransferRCW, Affords
<1> DEFINE b == [balances EXCEPT ![s] = @ - amount]
<1>2. b \in [Account -> Nat] /\ Supply(b) + amount = Supply(balances)
  BY <1>1, Debited
<1> HIDE DEF b
<1>3. Supply([b EXCEPT ![to] = @ + amount]) = Supply(b) + amount
  <2>1. b \in [Account -> Nat] /\ amount \in Nat
    BY <1>1, <1>2
  <2> QED
    BY <2>1, Credited
<1>4. balances' = [b EXCEPT ![to] = @ + amount] /\ minted' = minted /\ spent' = spent
  BY DEF TransferRCW, Moved, b
<1> QED
  BY <1>2, <1>3, <1>4 DEF BooksKept

LEMMA SpendKeepsBooks ==
  ASSUME RefsOK, NEW s \in Account, NEW amount \in Amounts, SpendRCW(s, amount)
  PROVE  BooksKept
<1>1. balances \in [Account -> Nat] /\ amount \in Nat /\ amount <= balances[s] /\ spent \in Nat /\ minted \in Nat
  BY StateAssumption DEF RefsOK, TypeOK, SpendRCW, Affords
<1>2. balances' \in [Account -> Nat] /\ Supply(balances') + amount = Supply(balances)
  BY <1>1, Debited DEF SpendRCW
<1>3. Supply(balances) \in Nat /\ Supply(balances') \in Nat
  BY <1>1, <1>2, CoinsFinite
<1>4. spent' = spent + amount /\ minted' = minted
  BY DEF SpendRCW
<1> QED
  BY <1>1, <1>2, <1>3, <1>4 DEF BooksKept

LEMMA KilledTransferLoses ==
  ASSUME RefsOK, NEW s \in Account, NEW to \in Account, NEW amount \in Amounts, KilledTransfer(s, to, amount)
  PROVE  BooksLosing
<1>1. balances \in [Account -> Nat] /\ amount \in Nat /\ amount <= balances[s] /\ spent \in Nat /\ minted \in Nat
  BY StateAssumption DEF RefsOK, TypeOK, KilledTransfer, Affords
<1>2. balances' \in [Account -> Nat] /\ Supply(balances') + amount = Supply(balances)
  BY <1>1, Debited DEF KilledTransfer
<1>3. Supply(balances) \in Nat /\ Supply(balances') \in Nat
  BY <1>1, <1>2, CoinsFinite
<1>4. spent' = spent /\ minted' = minted
  BY DEF KilledTransfer
<1> QED
  BY <1>1, <1>2, <1>3, <1>4 DEF BooksLosing

\* A whole transaction keeps the books.
LEMMA NextKeepsBooks == RefsOK /\ Next => BooksKept
<1> SUFFICES ASSUME RefsOK, Next PROVE BooksKept
  OBVIOUS
<1>1. ASSUME UNCHANGED <<balances, minted, spent>> PROVE BooksKept
  BY <1>1 DEF BooksKept
<1>2. /\ SettlementReward \in Nat /\ RatingReward \in Nat /\ EscrowReward \in Nat /\ DisputeReward \in Nat
  BY StateAssumption
<1>3. ASSUME NEW s \in Account, NEW e \in EscrowId, NEW now \in Times, ReleaseEscrow(s, e, now)
      PROVE  BooksKept
  <2>1. escrows[e].seller \in Account
    BY <1>3 DEF RefsOK, TypeOK, ReleaseEscrow, MayRelease, Escrow
  <2> QED
    BY <1>2, <1>3, <2>1, MintToBothKeepsBooks DEF ReleaseEscrow
<1>4. ASSUME NEW s \in Account, NEW d \in DisputeId, NEW decision \in Decision, VoteDispute(s, d, decision)
      PROVE  BooksKept
  <2>1. disputes[d] # Null
    BY <1>4 DEF VoteDispute, MayVote
  <2>2. Resolution(VotesWith(s, d, decision)) \in Decision
    BY DEF Resolution, Decision
  <2>3. Winner(d, Resolution(VotesWith(s, d, decision))) \in Account
    BY <2>1, <2>2, DisputeParties
  <2> QED
    BY <1>1, <1>2, <1>4, <2>3, MintKeepsBooks DEF VoteDispute
<1> QED
  BY ZenonT(60), <1>1, <1>2, <1>3, <1>4, MintKeepsBooks, TransferKeepsBooks, SpendKeepsBooks
     DEF Next, NonceOnly, RegisterParticipant, DeactivateParticipant, RecordSettlement, RecordRating,
         CreateEscrow, RefundEscrow, RaiseDispute, SubmitEvidence, AnchorMerkleRoot

\* A killed one makes no RCW.
LEMMA KilledLosesOnly ==
  ASSUME RefsOK, KillNext, ~Whole
  PROVE  BooksLosing /\ kills' = kills + 1
<1> DEFINE Loses == BooksLosing /\ kills' = kills + 1
<1>1. /\ balances \in [Account -> Nat] /\ minted \in Nat /\ spent \in Nat
      /\ balances' \in [Account -> Nat] /\ minted' \in Nat /\ spent' \in Nat
      /\ Supply(balances) \in Nat /\ Supply(balances') \in Nat
  BY LedgerType, CoinsFinite DEF RefsOK, TypeOK
<1>2. BooksKept => BooksLosing
  BY <1>1 DEF BooksKept, BooksLosing
<1>3. ASSUME UNCHANGED <<balances, minted, spent>> PROVE BooksKept
  BY <1>3 DEF BooksKept
<1>4. EscrowReward \in Nat /\ DisputeReward \in Nat
  BY StateAssumption
<1>5. ASSUME NEW s \in Account, NEW e \in EscrowId, NEW now \in Times, KilledRelease(s, e, now)
      PROVE  Loses
  BY <1>2, <1>3, <1>4, <1>5, MintKeepsBooks DEF KilledRelease, Killed
<1>6. ASSUME NEW s \in Account, NEW d \in DisputeId, NEW decision \in Decision, KilledVote(s, d, decision)
      PROVE  Loses
  <2>1. disputes[d] # Null
    BY <1>6 DEF KilledVote, MayVote
  <2>2. Resolution(VotesWith(s, d, decision)) \in Decision
    BY DEF Resolution, Decision
  <2>3. Winner(d, Resolution(VotesWith(s, d, decision))) \in Account
    BY <2>1, <2>2, DisputeParties
  <2> QED
    BY <1>2, <1>3, <1>4, <1>6, <2>3, MintKeepsBooks DEF KilledVote, Killed
<1>7. ASSUME NEW s \in Account, NEW to \in Account, NEW amount \in Amounts, KilledTransfer(s, to, amount)
      PROVE  Loses
  BY <1>7, KilledTransferLoses DEF KilledTransfer, Killed
<1> QED
  BY <1>2, <1>3, <1>5, <1>6, <1>7
     DEF KillNext, KilledSettlement, KilledRating, KilledRefund, KilledRaise, Killed

LEMMA StepKeepsSupply == RefsOK /\ SupplyInv /\ [KillNext]_killVars => SupplyInv'
<1> SUFFICES ASSUME RefsOK, SupplyInv, [KillNext]_killVars PROVE SupplyInv'
  OBVIOUS
<1>1. CASE UNCHANGED killVars
  BY <1>1 DEF killVars, SupplyInv, SupplyConserved
<1>2. CASE KillNext
  <2>1. /\ minted \in Nat /\ spent \in Nat /\ minted' \in Nat /\ spent' \in Nat
        /\ Supply(balances) \in Nat /\ Supply(balances') \in Nat
    BY <1>2, LedgerType, CoinsFinite DEF RefsOK, TypeOK
  <2>2. /\ Supply(balances) + spent <= minted
        /\ kills = 0 => Supply(balances) + spent = minted
        /\ kills \in Nat
    BY DEF SupplyInv, SupplyConserved, Supply
  <2>3. CASE Whole
    <3>1. BooksKept /\ kills' = kills
      BY <2>3, NextKeepsBooks DEF Whole
    <3>2. /\ Supply(balances') + spent' <= minted'
          /\ kills' = 0 => Supply(balances') + spent' = minted'
          /\ kills' \in Nat
      BY <2>1, <2>2, <3>1 DEF BooksKept
    <3> QED
      BY <3>2 DEF SupplyInv, SupplyConserved, Supply
  <2>4. CASE ~Whole
    <3>1. BooksLosing /\ kills' = kills + 1
      BY <1>2, <2>4, KilledLosesOnly
    <3>2. /\ Supply(balances') + spent' <= minted'
          /\ kills' # 0 /\ kills' \in Nat
      BY <2>1, <2>2, <3>1 DEF BooksLosing
    <3> QED
      BY <3>2 DEF SupplyInv, SupplyConserved, Supply
  <2> QED
    BY <2>3, <2>4
<1> QED
  BY <1>1, <1>2

LEMMA InitSupply == KillInit => SupplyInv
<1> SUFFICES ASSUME KillInit PROVE SupplyInv
  OBVIOUS
<1>1. balances = [a \in Account |-> 0] /\ minted = 0 /\ spent = 0 /\ kills = 0
  BY DEF KillInit, Init
<1>2. Coins(balances) = {}
  BY <1>1 DEF Coins
<1>3. Cardinality(Coins(balances)) = 0
  BY <1>2, FS_EmptySet
<1> QED
  BY <1>1, <1>3 DEF SupplyInv, SupplyConserved

\* RCW appears only as a reward and disappears only by being spent, also when it
\* is moved to oneself or paid to both parties of an escrow that are one account;
\* a killed transaction may lose some but never makes any (token::mint, transfer,
\* spend).
THEOREM SupplyIsConserved == KillSpec => []SupplyConserved
<1>1. RecordsInv => RefsOK
  BY DEF RecordsInv
<1>2. SupplyInv => SupplyConserved
  BY DEF SupplyInv
<1> QED
  BY <1>1, <1>2, InitSupply, StepKeepsSupply, RecordsInvariance, PTL DEF KillSpec

-----------------------------------------------------------------------------

\* The open disputes that a party of an escrow raised against account a.
OpenAgainst(d, a) ==
  /\ disputes[d] # Null
  /\ disputes[d].state # "Resolved"
  /\ OtherParty(disputes[d].escrow_id, disputes[d].raised_by) = a

Open(a) == {d \in DisputeId : OpenAgainst(d, a)}

\* The inductive invariant: DisputeId may be infinite, the open disputes are not.
CountsInv ==
  /\ kills \in Nat
  /\ \A a \in Account : IsFiniteSet(Open(a))
  /\ \A a \in Account : Registered(a) => participants[a].dispute_count + kills >= Cardinality(Open(a))

LEMMA CountsInvCounts == CountsInv => OpenDisputesCounted
BY DEF CountsInv, OpenDisputesCounted, Open, OpenAgainst

\* No registered account is gone or has fewer disputes counted.
NoLess(f, g) ==
  \A a \in Account : f[a] # Null => g[a] # Null /\ g[a].dispute_count >= f[a].dispute_count

LEMMA OneCount ==
  ASSUME NEW f \in [Account -> Profile \union {Null}], NEW a \in Account,
         NEW q \in Profile, f[a] # Null => q.dispute_count >= f[a].dispute_count
  PROVE  NoLess(f, [f EXCEPT ![a] = q])
<1>1. \A i \in Account : f[i] # Null => f[i].dispute_count \in Nat
  BY DEF Profile
<1>2. q # Null
  BY NullAssumption
<1> QED
  BY <1>1, <1>2 DEF NoLess

LEMMA NoLessTransitive ==
  ASSUME NEW f \in [Account -> Profile \union {Null}], NEW g \in [Account -> Profile \union {Null}],
         NEW h \in [Account -> Profile \union {Null}], NoLess(f, g), NoLess(g, h)
  PROVE  NoLess(f, h)
<1>1. ASSUME NEW k \in [Account -> Profile \union {Null}], NEW i \in Account, k[i] # Null
      PROVE  k[i].dispute_count \in Nat
  BY <1>1 DEF Profile
<1> QED
  BY <1>1 DEF NoLess

LEMMA BothSucceededNoLess ==
  ASSUME RefsOK, NEW buyer \in Account, NEW seller \in Account, Registered(buyer), Registered(seller)
  PROVE  NoLess(participants, BuyerSucceeded(buyer)) /\ NoLess(participants, BothSucceeded(buyer, seller))
<1> DEFINE f == BuyerSucceeded(buyer)
           g == BothSucceeded(buyer, seller)
<1>1. participants \in [Account -> Profile \union {Null}] /\ participants[buyer] \in Profile
      /\ participants[seller] \in Profile
  BY DEF RefsOK, TypeOK, Registered
<1>2. f = [participants EXCEPT ![buyer] = Succeeded(participants[buyer])]
  BY DEF BuyerSucceeded
<1>3. g = [f EXCEPT ![seller] = Succeeded(f[seller])]
  BY DEF BothSucceeded
<1>4. \A p \in Profile : Succeeded(p) \in Profile /\ Succeeded(p).dispute_count >= p.dispute_count
  BY SucceededProfile DEF Profile
<1>5. f \in [Account -> Profile \union {Null}] /\ f[seller] \in Profile
  BY <1>1, <1>2, <1>4
<1> HIDE DEF f, g
<1>6. g \in [Account -> Profile \union {Null}]
  BY <1>3, <1>4, <1>5
<1>7. NoLess(participants, f)
  BY <1>1, <1>2, <1>4, OneCount
<1>8. NoLess(f, g)
  BY <1>3, <1>4, <1>5, OneCount
<1> QED
  BY <1>1, <1>5, <1>6, <1>7, <1>8, NoLessTransitive DEF f, g

-----------------------------------------------------------------------------
\* A dispute that is not raised in a step is not open against an account after
\* it, unless it was before.
LEMMA NotReopened ==
  ASSUME RefsOK, KillNext, NEW a \in Account, NEW d \in DisputeId, OpenAgainst(d, a)',
         disputes'[d] = disputes[d] \/ EvidenceStep(d) \/ VoteStep(d)
  PROVE  OpenAgainst(d, a)
<1>1. /\ disputes'[d] # Null /\ disputes'[d].state # "Resolved"
      /\ a = IF disputes'[d].raised_by = escrows'[disputes'[d].escrow_id].buyer
             THEN escrows'[disputes'[d].escrow_id].seller ELSE escrows'[disputes'[d].escrow_id].buyer
  BY DEF OpenAgainst, OtherParty
<1>2. /\ disputes[d] # Null /\ disputes[d].state # "Resolved"
      /\ disputes[d].escrow_id = disputes'[d].escrow_id
      /\ disputes[d].raised_by = disputes'[d].raised_by
  <2>1. disputes[d] # Null => disputes[d] \in Dispute
    BY DEF RefsOK, TypeOK
  <2>2. CASE disputes'[d] = disputes[d]
    BY <1>1, <2>2
  <2>3. CASE EvidenceStep(d)
    BY <2>1, <2>3 DEF EvidenceStep, TakesEvidence, Dispute
  <2>4. CASE VoteStep(d)
    BY ZenonT(60), <2>1, <2>4 DEF VoteStep, MayVote, CountedStep, Dispute
  <2> QED
    BY <2>2, <2>3, <2>4
<1>3. disputes[d].escrow_id \in EscrowId /\ escrows[disputes[d].escrow_id] # Null
  BY <1>2 DEF RefsOK, TypeOK, Dispute, DisputesOfEscrows
<1> QED
  BY <1>1, <1>2, <1>3, EscrowStays DEF OpenAgainst, OtherParty

\* Disputes are open against registered accounts only.
LEMMA OpenIsRegistered ==
  ASSUME RefsOK, NEW a \in Account, NEW d \in DisputeId, OpenAgainst(d, a)
  PROVE  Registered(a)
BY DEF OpenAgainst, OtherParty, RefsOK, TypeOK, Dispute, DisputesOfEscrows, EscrowsOfParticipants

\* Nothing is open against an account that registers.
LEMMA NothingOpenAtFirst ==
  ASSUME RefsOK, KillNext, NEW a \in Account, ~Registered(a)
  PROVE  Open(a)' = {}
<1> SUFFICES ASSUME NEW d \in DisputeId, OpenAgainst(d, a)' PROVE FALSE
  BY DEF Open
<1>1. CASE RaisedStep(d)
  <2>1. PICK s \in Account, e \in EscrowId : Disputable(e) /\ disputes'[d] = NewDispute(s, e)
    BY <1>1 DEF RaisedStep
  <2>2. disputes'[d].escrow_id = e /\ escrows[e] # Null
    BY <2>1 DEF NewDispute, Disputable
  <2>3. a \in {escrows'[e].buyer, escrows'[e].seller}
    BY <2>2 DEF OpenAgainst, OtherParty
  <2> QED
    BY <2>2, <2>3, EscrowStays DEF RefsOK, EscrowsOfParticipants
<1>2. CASE disputes'[d] = disputes[d] \/ EvidenceStep(d) \/ VoteStep(d)
  BY <1>2, NotReopened, OpenIsRegistered
<1> QED
  BY <1>1, <1>2, DisputesChange DEF DisputeStep

\* A subset of a finite set of disputes, with one more or one fewer.
LEMMA CardinalityBounds ==
  ASSUME NEW S, NEW T, IsFiniteSet(S), NEW d
  PROVE  /\ T \subseteq S => IsFiniteSet(T) /\ Cardinality(T) <= Cardinality(S)
         /\ T \subseteq S \union {d} => IsFiniteSet(T) /\ Cardinality(T) <= Cardinality(S) + 1
         /\ T \subseteq S \ {d} /\ d \in S => Cardinality(T) <= Cardinality(S) - 1
         /\ Cardinality(S) \in Nat
         /\ IsFiniteSet(T) => Cardinality(T) \in Nat
<1>1. Cardinality(S) \in Nat /\ (IsFiniteSet(T) => Cardinality(T) \in Nat)
  BY FS_CardinalityType
<1>2. T \subseteq S => IsFiniteSet(T) /\ Cardinality(T) <= Cardinality(S)
  BY FS_Subset
<1>3. IsFiniteSet(S \union {d}) /\ Cardinality(S \union {d}) \in {Cardinality(S), Cardinality(S) + 1}
  BY FS_AddElement
<1>4. T \subseteq S \union {d} => IsFiniteSet(T) /\ Cardinality(T) <= Cardinality(S \union {d})
  BY <1>3, FS_Subset
<1>5. IsFiniteSet(S \ {d}) /\ (d \in S => Cardinality(S \ {d}) = Cardinality(S) - 1)
  BY FS_RemoveElement
<1>6. T \subseteq S \ {d} => Cardinality(T) <= Cardinality(S \ {d})
  BY <1>5, FS_Subset
<1> QED
  BY <1>1, <1>2, <1>3, <1>4, <1>5, <1>6

-----------------------------------------------------------------------------
\* What the three kinds of steps do to the disputes S that are open against an
\* account and to its count m: with k kills before, and T, n and l after.
LEMMA CountKept ==
  ASSUME NEW S, NEW T, IsFiniteSet(S),
         NEW m \in Nat, NEW k \in Nat, NEW n \in Nat, NEW l \in Nat, m + k >= Cardinality(S),
         \/ T \subseteq S /\ n + l >= m + k
         \/ \E d : T \subseteq S \union {d} /\ n + l >= m + k + 1
         \/ \E d \in S : T \subseteq S \ {d} /\ n + l >= m + k - 1
  PROVE  IsFiniteSet(T) /\ n + l >= Cardinality(T)
<1>1. Cardinality(S) \in Nat /\ (IsFiniteSet(T) => Cardinality(T) \in Nat)
  BY FS_CardinalityType
<1>2. CASE T \subseteq S /\ n + l >= m + k
  BY <1>1, <1>2, FS_Subset
<1>3. ASSUME NEW d, T \subseteq S \union {d}, n + l >= m + k + 1
      PROVE  IsFiniteSet(T) /\ n + l >= Cardinality(T)
  <2>1. IsFiniteSet(T) /\ Cardinality(T) <= Cardinality(S) + 1
    BY <1>3, CardinalityBounds
  <2> QED
    BY <1>1, <1>3, <2>1
<1>4. ASSUME NEW d \in S, T \subseteq S \ {d}, n + l >= m + k - 1
      PROVE  IsFiniteSet(T) /\ n + l >= Cardinality(T)
  <2>1. IsFiniteSet(T) /\ Cardinality(T) <= Cardinality(S) - 1
    BY <1>4, CardinalityBounds
  <2> QED
    BY <1>1, <1>4, <2>1
<1> QED
  BY <1>2, <1>3, <1>4

\* Steps that raise no dispute and resolve none in favour of a party.
Quiet ==
  /\ NoLess(participants, participants')
  /\ \A d \in DisputeId : disputes'[d] = disputes[d] \/ EvidenceStep(d) \/ VoteStep(d)

\* A vote that counts winner and loser.
Decided(s, d, decision) ==
  LET resolution == Resolution(VotesWith(s, d, decision))
  IN  /\ MayVote(s, d)
      /\ participants' \in {WinnerCounted(d, resolution), PartiesCounted(d, resolution)}
      /\ \/ disputes' = disputes /\ kills' = kills + 1
         \/ /\ disputes' = [disputes EXCEPT ![d] = disputes'[d]] /\ disputes'[d].state = "Resolved"
            /\ kills' = kills

\* A raise that may miss the writes of the dispute and of the other party.
Raised(s, d, e) ==
  /\ Disputable(e) /\ s \in Parties(e)
  /\ disputes' \in {disputes, [disputes EXCEPT ![d] = NewDispute(s, e)]}
  /\ \/ participants' = participants /\ kills' = kills + 1
     \/ participants' = [participants EXCEPT ![OtherParty(e, s)].dispute_count = @ + 1] /\ kills' = kills

\* Every step is of one of the three kinds.
LEMMA ThreeKinds ==
  ASSUME RefsOK, kills \in Nat, KillNext
  PROVE  \/ Quiet /\ kills' \in {kills, kills + 1}
         \/ \E s \in Account, d \in DisputeId, e \in EscrowId : Raised(s, d, e)
         \/ \E s \in Account, d \in DisputeId, decision \in Decision : Decided(s, d, decision)
<1> DEFINE Kind == \/ Quiet /\ kills' \in {kills, kills + 1}
                   \/ \E s \in Account, d \in DisputeId, e \in EscrowId : Raised(s, d, e)
                   \/ \E s \in Account, d \in DisputeId, decision \in Decision : Decided(s, d, decision)
<1>1. /\ participants \in [Account -> Profile \union {Null}]
      /\ disputes \in [DisputeId -> Dispute \union {Null}]
      /\ \A a \in Account : Registered(a) => participants[a] \in Profile
      /\ \A p \in Profile : p.dispute_count \in Nat
  BY DEF RefsOK, TypeOK, Registered, Profile
<1>2. ASSUME participants' = participants PROVE NoLess(participants, participants')
  BY <1>1, <1>2 DEF NoLess, Registered
<1>3. ASSUME NEW a \in Account, Registered(a),
             \/ participants' = [participants EXCEPT ![a] = Succeeded(@)]
             \/ participants' = [participants EXCEPT ![a] = Failed(@)]
      PROVE  NoLess(participants, participants')
  <2>1. \A p \in Profile : /\ Succeeded(p) \in Profile /\ Succeeded(p).dispute_count >= p.dispute_count
                           /\ Failed(p) \in Profile /\ Failed(p).dispute_count >= p.dispute_count
    BY <1>1, SucceededProfile, FailedProfile
  <2> QED
    BY <1>1, <1>3, <2>1, OneCount
<1>4. ASSUME NEW a \in Account, NEW rating \in Ratings, NEW success \in BOOLEAN, Registered(a),
             participants' = [participants EXCEPT ![a] = RatedProfile(@, rating, success)]
      PROVE  NoLess(participants, participants')
  <2> DEFINE q == RatedProfile(participants[a], rating, success)
  <2>1. participants[a] \in Profile /\ rating \in Nat
    BY <1>1, <1>4, StateAssumption
  <2>2. q \in Profile /\ q.dispute_count = participants[a].dispute_count
    BY <2>1, RatedProfileType
  <2>3. participants' = [participants EXCEPT ![a] = q]
    BY <1>4
  <2>4. q \in Profile /\ q.dispute_count >= participants[a].dispute_count
    BY <1>1, <2>1, <2>2
  <2> HIDE DEF q
  <2> QED
    BY <1>1, <2>3, <2>4, OneCount
<1>5. ASSUME NEW s \in Account, NEW e \in EscrowId, NEW now, MayRelease(s, e, now)
      PROVE  /\ NoLess(participants, BuyerSucceeded(s))
             /\ NoLess(participants, BothSucceeded(s, escrows[e].seller))
  <2>1. escrows[e] \in Escrow /\ escrows[e] # Null /\ s = escrows[e].buyer
    BY <1>5 DEF RefsOK, TypeOK, MayRelease
  <2>2. escrows[e].seller \in Account /\ Registered(s) /\ Registered(escrows[e].seller)
    BY <2>1 DEF RefsOK, EscrowsOfParticipants, Escrow
  <2> QED
    BY <2>2, BothSucceededNoLess
<1>6. ASSUME disputes' = disputes, NoLess(participants, participants') PROVE Quiet
  BY <1>6 DEF Quiet
<1>7. ASSUME Next, kills' = kills PROVE Kind
  <2>1. ASSUME NEW s \in Account, NEW arbiter \in BOOLEAN, RegisterParticipant(s, arbiter) PROVE Quiet
    <3>1. NoLess(participants, participants')
      BY <1>1, <2>1 DEF RegisterParticipant, Registered, NoLess
    <3> QED
      BY <1>6, <2>1, <3>1 DEF RegisterParticipant
  <2>2. ASSUME NEW s \in Account, DeactivateParticipant(s) PROVE Quiet
    <3> DEFINE q == [participants[s] EXCEPT !.active = FALSE]
    <3>1. participants[s] \in Profile
      BY <1>1, <2>2 DEF DeactivateParticipant
    <3>2. q \in Profile /\ q.dispute_count = participants[s].dispute_count
      BY <3>1 DEF Profile
    <3>3. participants' = [participants EXCEPT ![s] = q]
      BY <2>2 DEF DeactivateParticipant
    <3> HIDE DEF q
    <3>4. q.dispute_count >= participants[s].dispute_count
      BY <1>1, <3>1, <3>2
    <3>5. NoLess(participants, participants')
      BY <1>1, <3>2, <3>3, <3>4, OneCount
    <3> QED
      BY <1>6, <2>2, <3>5 DEF DeactivateParticipant
  <2>3. ASSUME NEW s \in Account, NEW r \in RecordId, RecordSettlement(s, r) PROVE Quiet
    BY <1>3, <1>6, <2>3 DEF RecordSettlement
  <2>4. ASSUME NEW s \in Account, NEW a \in Account, NEW rating \in Ratings, NEW success \in BOOLEAN,
               RecordRating(s, a, rating, success)
        PROVE  Quiet
    BY <1>4, <1>6, <2>4 DEF RecordRating
  <2>5. ASSUME NEW s \in Account, NEW e \in EscrowId, NEW now \in Times, ReleaseEscrow(s, e, now)
        PROVE  Quiet
    BY <1>5, <1>6, <2>5 DEF ReleaseEscrow
  <2>6. ASSUME NEW s \in Account, NEW e \in EscrowId, NEW now \in Times, RefundEscrow(s, e, now)
        PROVE  Quiet
    <3>1. escrows[e].seller \in Account /\ Registered(escrows[e].seller)
      BY <2>6 DEF RefundEscrow, MayRefund, RefsOK, TypeOK, EscrowsOfParticipants, Escrow
    <3> QED
      BY <1>3, <1>6, <2>6, <3>1 DEF RefundEscrow
  <2>7. ASSUME NEW s \in Account, NEW d \in DisputeId, NEW e \in EscrowId, RaiseDispute(s, d, e)
        PROVE  Raised(s, d, e)
    BY <1>7, <2>7 DEF RaiseDispute, Raised
  <2>8. ASSUME NEW s \in Account, NEW d \in DisputeId, SubmitEvidence(s, d) PROVE Quiet
    <3>1. \A i \in DisputeId : disputes'[i] = disputes[i] \/ EvidenceStep(i)
      BY <1>1, <2>8 DEF SubmitEvidence, EvidenceStep
    <3> QED
      BY <1>2, <2>8, <3>1 DEF SubmitEvidence, Quiet
  <2>9. ASSUME NEW s \in Account, NEW d \in DisputeId, NEW decision \in Decision, VoteDispute(s, d, decision)
        PROVE  Quiet \/ Decided(s, d, decision)
    <3> DEFINE cast == VotesWith(s, d, decision)
               counted == [disputes[d] EXCEPT !.votes = cast, !.state = "Voting"]
               resolved == [disputes[d] EXCEPT !.votes = cast, !.state = "Resolved",
                                               !.resolution = Resolution(cast)]
    <3>1. MayVote(s, d) /\ disputes[d] \in Dispute
      BY <1>1, <2>9 DEF VoteDispute, MayVote
    <3>2. \/ /\ Cardinality(cast) < VoteThreshold /\ disputes' = [disputes EXCEPT ![d] = counted]
             /\ participants' = participants
          \/ /\ Cardinality(cast) >= VoteThreshold /\ disputes' = [disputes EXCEPT ![d] = resolved]
             /\ participants' = participants \/ participants' = PartiesCounted(d, Resolution(cast))
      BY <1>1, <2>9 DEF VoteDispute
    <3>3. resolved.state = "Resolved"
      BY <3>1 DEF Dispute
    <3>4. \/ Cardinality(cast) < VoteThreshold /\ disputes'[d] = counted
          \/ Cardinality(cast) >= VoteThreshold /\ disputes'[d] = resolved
          => VoteStep(d)
      BY <3>1 DEF VoteStep, CountedStep
    <3> HIDE DEF cast, counted, resolved
    <3>5. /\ \/ Cardinality(cast) < VoteThreshold /\ disputes'[d] = counted
             \/ Cardinality(cast) >= VoteThreshold /\ disputes'[d] = resolved
          /\ \A i \in DisputeId : i # d => disputes'[i] = disputes[i]
      BY <1>1, <3>2
    <3>6. \A i \in DisputeId : disputes'[i] = disputes[i] \/ VoteStep(i)
      BY <3>4, <3>5
    <3>7. CASE participants' = participants
      BY <1>2, <3>6, <3>7 DEF Quiet
    <3>8. CASE participants' = PartiesCounted(d, Resolution(cast)) /\ disputes' = [disputes EXCEPT ![d] = resolved]
      <4>1. disputes'[d] = resolved
        BY <1>1, <3>8
      <4> QED
        BY <1>7, <3>1, <3>3, <3>8, <4>1 DEF cast, Decided
    <3> QED
      BY <3>2, <3>7, <3>8
  <2>10. ASSUME UNCHANGED <<participants, disputes>> PROVE Quiet
    BY <1>2, <1>6, <2>10
  <2> HIDE DEF Quiet, Raised, Decided
  <2> QED
    BY <1>7, <2>1, <2>2, <2>3, <2>4, <2>5, <2>6, <2>7, <2>8, <2>9, <2>10
       DEF Next, NonceOnly, CreateEscrow, TransferRCW, SpendRCW, AnchorMerkleRoot
<1>8. ASSUME NEW s \in Account, NEW r \in RecordId, KilledSettlement(s, r) PROVE Quiet
  BY <1>2, <1>3, <1>6, <1>8 DEF KilledSettlement
<1>9. ASSUME NEW s \in Account, NEW a \in Account, NEW rating \in Ratings, NEW success \in BOOLEAN,
             KilledRating(s, a, rating, success)
      PROVE  Quiet
  BY <1>4, <1>6, <1>9 DEF KilledRating
<1>10. ASSUME NEW s \in Account, NEW e \in EscrowId, NEW now \in Times, KilledRelease(s, e, now)
       PROVE  Quiet
  BY <1>2, <1>5, <1>6, <1>10 DEF KilledRelease
<1>11. ASSUME NEW s \in Account, NEW d \in DisputeId, NEW e \in EscrowId, KilledRaise(s, d, e)
       PROVE  Raised(s, d, e)
  BY <1>11 DEF KilledRaise, Killed, Raised
<1>12. ASSUME NEW s \in Account, NEW d \in DisputeId, NEW decision \in Decision, KilledVote(s, d, decision)
       PROVE  Decided(s, d, decision)
  BY <1>12 DEF KilledVote, Killed, Decided
<1>13. ASSUME UNCHANGED <<participants, disputes>> PROVE Quiet
  BY <1>2, <1>6, <1>13
<1> HIDE DEF Quiet, Raised, Decided
<1>14. CASE Whole
  BY <1>7, <1>14 DEF Whole
<1> QED
  BY <1>8, <1>9, <1>10, <1>11, <1>12, <1>13, <1>14
     DEF KillNext, KilledSettlement, KilledRating, KilledRelease, KilledRefund, KilledTransfer, Killed

-----------------------------------------------------------------------------
LEMMA QuietCounts ==
  ASSUME RefsOK, KillNext, Quiet, NEW a \in Account, Registered(a)
  PROVE  Open(a)' \subseteq Open(a) /\ participants'[a].dispute_count >= participants[a].dispute_count
<1>1. Open(a)' \subseteq Open(a)
  BY NotReopened DEF Quiet, Open
<1>2. participants'[a].dispute_count >= participants[a].dispute_count
  BY DEF Quiet, NoLess, Registered
<1> QED
  BY <1>1, <1>2

\* A raise adds the dispute to those against the other party, and to its count
\* unless it is killed.
LEMMA RaisedCounts ==
  ASSUME RefsOK, kills \in Nat, KillNext, NEW s \in Account, NEW d \in DisputeId, NEW e \in EscrowId,
         Raised(s, d, e), NEW a \in Account, Registered(a)
  PROVE  LET m == participants[a].dispute_count
             n == participants'[a].dispute_count
         IN  \/ Open(a)' \subseteq Open(a) /\ n + kills' >= m + kills
             \/ Open(a)' \subseteq Open(a) \union {d} /\ n + kills' >= m + kills + 1
<1> DEFINE m == participants[a].dispute_count
           n == participants'[a].dispute_count
           other == OtherParty(e, s)
<1>1. /\ participants \in [Account -> Profile \union {Null}] /\ participants[a] \in Profile /\ m \in Nat
      /\ disputes \in [DisputeId -> Dispute \union {Null}]
      /\ escrows[e] # Null /\ escrows[e] \in Escrow
  BY DEF RefsOK, TypeOK, Registered, Profile, Raised, Disputable
<1>2. other \in Account
  BY <1>1 DEF OtherParty, Escrow
<1>3. ASSUME NEW i \in DisputeId, i # d, OpenAgainst(i, a)' PROVE OpenAgainst(i, a)
  <2>1. disputes'[i] = disputes[i]
    BY <1>1, <1>3 DEF Raised
  <2> QED
    BY <1>3, <2>1, NotReopened
<1>4. ASSUME OpenAgainst(d, a)', a # other PROVE OpenAgainst(d, a)
  <2>1. CASE disputes'[d] = disputes[d]
    BY <1>4, <2>1, NotReopened
  <2>2. CASE disputes'[d] = NewDispute(s, e)
    <3>1. disputes'[d].escrow_id = e /\ disputes'[d].raised_by = s
      BY <2>2 DEF NewDispute
    <3>2. a = IF s = escrows'[e].buyer THEN escrows'[e].seller ELSE escrows'[e].buyer
      BY <1>4, <3>1 DEF OpenAgainst, OtherParty
    <3> QED
      BY <1>1, <1>4, <3>2, EscrowStays DEF OtherParty
  <2> QED
    BY <1>1, <2>1, <2>2 DEF Raised
<1>5. Open(a)' \subseteq Open(a) \union {d} /\ (a # other => Open(a)' \subseteq Open(a))
  BY <1>3, <1>4 DEF Open
<1>6. CASE participants' = participants /\ kills' = kills + 1
  BY <1>1, <1>5, <1>6
<1>7. CASE participants' = [participants EXCEPT ![other].dispute_count = @ + 1] /\ kills' = kills
  <2>1. a # other => n = m
    BY <1>1, <1>2, <1>7
  <2>2. a = other => n = m + 1
    BY <1>1, <1>2, <1>7 DEF Profile
  <2> HIDE DEF n, m, other
  <2>3. n + kills' >= m + kills /\ (a = other => n + kills' >= m + kills + 1)
    BY <1>1, <1>7, <2>1, <2>2
  <2> QED
    BY <1>5, <2>3 DEF n, m
<1> QED
  BY <1>6, <1>7 DEF Raised

\* A decided dispute is taken back from the count of the winner only if it was
\* raised against the winner, and then it is closed unless the vote is killed.
LEMMA DecidedCounts ==
  ASSUME RefsOK, kills \in Nat, KillNext,
         NEW s \in Account, NEW d \in DisputeId, NEW decision \in Decision, Decided(s, d, decision),
         NEW a \in Account, Registered(a)
  PROVE  LET m == participants[a].dispute_count
             n == participants'[a].dispute_count
         IN  \/ Open(a)' \subseteq Open(a) /\ n + kills' >= m + kills
             \/ d \in Open(a) /\ Open(a)' \subseteq Open(a) \ {d} /\ n + kills' >= m + kills - 1
<1> DEFINE m == participants[a].dispute_count
           n == participants'[a].dispute_count
           resolution == Resolution(VotesWith(s, d, decision))
           winner == Winner(d, resolution)
           loser == Loser(d, resolution)
           raiser == disputes[d].raised_by
           f == WinnerCounted(d, resolution)
           g == PartiesCounted(d, resolution)
<1>1. /\ participants \in [Account -> Profile \union {Null}] /\ participants[a] \in Profile /\ m \in Nat
      /\ disputes \in [DisputeId -> Dispute \union {Null}]
      /\ disputes[d] # Null /\ disputes[d].state # "Resolved"
      /\ \A p \in Profile : p.dispute_count \in Nat
  BY DEF RefsOK, TypeOK, Registered, Profile, Decided, MayVote
<1>2. resolution \in Decision
  BY DEF Resolution, Decision
<1>3. /\ winner \in Account /\ participants[winner] \in Profile
      /\ loser \in Account /\ participants[loser] \in Profile
      /\ Parties(disputes[d].escrow_id) = {winner, loser} /\ raiser \in {winner, loser}
  BY <1>1, <1>2, DisputeParties
<1>4. f = [participants EXCEPT ![winner] = Won(participants[winner], raiser = winner)]
  BY DEF WinnerCounted
<1>5. g = [f EXCEPT ![loser] = Lost(f[loser], raiser = loser)]
  BY DEF PartiesCounted
<1>6. participants' \in {f, g}
  BY DEF Decided
<1>7. /\ f \in [Account -> Profile \union {Null}] /\ f[a] \in Profile /\ f[loser] \in Profile
      /\ f[a].dispute_count \in Nat
      /\ f[a].dispute_count >= m - 1
      /\ a # winner \/ raiser = winner => f[a].dispute_count >= m
  <2> DEFINE w == Won(participants[winner], raiser = winner)
  <2>1. /\ w \in Profile
        /\ w.dispute_count = IF raiser # winner /\ participants[winner].dispute_count > 0
                             THEN participants[winner].dispute_count - 1
                             ELSE participants[winner].dispute_count
    BY <1>3, WonProfile
  <2> HIDE DEF w, winner, raiser, f
  <2>2. f \in [Account -> Profile \union {Null}] /\ f[winner] = w
        /\ \A i \in Account : i # winner => f[i] = participants[i]
    BY <1>1, <1>3, <1>4, <2>1 DEF w
  <2> QED
    BY <1>1, <1>3, <2>1, <2>2
<1>8. n >= f[a].dispute_count /\ n \in Nat
  <2> DEFINE l == Lost(f[loser], raiser = loser)
  <2>1. l \in Profile /\ l.dispute_count >= f[loser].dispute_count
    <3>1. f[loser] \in Profile
      BY <1>7
    <3>2. f[loser].dispute_count \in Nat
      BY <1>1, <3>1
    <3>3. l \in Profile /\ l.dispute_count = f[loser].dispute_count + (IF raiser = loser THEN 2 ELSE 1)
      BY <3>1, LostProfile
    <3> HIDE DEF l, f, loser, raiser
    <3> QED
      BY <3>2, <3>3
  <2> HIDE DEF l, f, g, raiser, loser
  <2>2. g[a] = f[a] \/ (a = loser /\ g[a] = l)
    BY <1>3, <1>5, <1>7 DEF l
  <2> QED
    BY <1>1, <1>6, <1>7, <2>1, <2>2
<1>9. \A i \in DisputeId : OpenAgainst(i, a)' => OpenAgainst(i, a)
  <2>1. ASSUME NEW i \in DisputeId, OpenAgainst(i, a)' PROVE OpenAgainst(i, a)
    <3>1. disputes'[i].state # "Resolved"
      BY <2>1 DEF OpenAgainst
    <3>2. \/ disputes' = disputes
          \/ disputes' = [disputes EXCEPT ![d] = disputes'[d]] /\ disputes'[d].state = "Resolved"
      BY DEF Decided
    <3>3. disputes'[i] = disputes[i]
      BY <1>1, <3>1, <3>2
    <3> QED
      BY <2>1, <3>3, NotReopened
  <2> QED
    BY <2>1
<1>10. Open(a)' \subseteq Open(a)
  BY <1>9 DEF Open
<1>11. a = winner /\ raiser # winner => d \in Open(a)
  BY <1>1, <1>3 DEF Open, OpenAgainst, OtherParty, Winner, Loser
<1>12. kills' = kills + 1 \/ (kills' = kills /\ d \notin Open(a)')
  BY <1>1 DEF Decided, Open, OpenAgainst
<1> HIDE DEF m, n, f, g, winner, loser, raiser
<1>13. CASE n >= m
  BY <1>1, <1>8, <1>10, <1>12, <1>13 DEF m, n
<1>14. CASE ~(n >= m)
  <2>1. a = winner /\ raiser # winner /\ n >= m - 1
    BY <1>1, <1>7, <1>8, <1>14
  <2>2. kills' = kills + 1 => n + kills' >= m + kills
    BY <1>1, <1>8, <2>1
  <2>3. kills' = kills => n + kills' >= m + kills - 1
    BY <1>1, <1>8, <2>1
  <2> QED
    BY <1>10, <1>11, <1>12, <2>1, <2>2, <2>3 DEF m, n
<1> QED
  BY <1>13, <1>14

LEMMA StepKeepsCounts == RefsOK /\ CountsInv /\ [KillNext]_killVars => CountsInv'
<1> SUFFICES ASSUME RefsOK, CountsInv, [KillNext]_killVars PROVE CountsInv'
  OBVIOUS
<1>1. CASE UNCHANGED killVars
  BY <1>1 DEF killVars, CountsInv, Open, OpenAgainst, OtherParty, Registered
<1>2. CASE KillNext
  <2>1. RefsOK'
    BY <1>2, StepKeepsRefs
  <2>2. kills \in Nat
    BY DEF CountsInv
  <2>3. \/ Quiet /\ kills' \in {kills, kills + 1}
        \/ \E s \in Account, d \in DisputeId, e \in EscrowId : Raised(s, d, e)
        \/ \E s \in Account, d \in DisputeId, decision \in Decision : Decided(s, d, decision)
    BY <1>2, <2>2, ThreeKinds
  <2>4. kills' \in Nat
    BY <2>2, <2>3 DEF Raised, Decided
  <2>5. ASSUME NEW a \in Account, ~Registered(a)
        PROVE  IsFiniteSet(Open(a)') /\ (Registered(a)' => participants'[a].dispute_count + kills' >= Cardinality(Open(a)'))
    <3>1. Open(a)' = {}
      BY <1>2, <2>5, NothingOpenAtFirst
    <3>2. IsFiniteSet(Open(a)') /\ Cardinality(Open(a)') = 0
      BY <3>1, FS_EmptySet
    <3>3. Registered(a)' => participants'[a].dispute_count \in Nat
      BY <2>1 DEF RefsOK, TypeOK, Registered, Profile
    <3> QED
      BY <2>4, <3>2, <3>3
  <2>6. ASSUME NEW a \in Account, Registered(a)
        PROVE  IsFiniteSet(Open(a)') /\ participants'[a].dispute_count + kills' >= Cardinality(Open(a)')
    <3> DEFINE m == participants[a].dispute_count
               n == participants'[a].dispute_count
    <3>1. m \in Nat /\ IsFiniteSet(Open(a)) /\ m + kills >= Cardinality(Open(a))
      BY <2>6 DEF RefsOK, TypeOK, Registered, Profile, CountsInv
    <3>2. n \in Nat
      BY <1>2, <2>6, RegisteredStays DEF Profile
    <3>3. \/ Open(a)' \subseteq Open(a) /\ n + kills' >= m + kills
          \/ \E d : Open(a)' \subseteq Open(a) \union {d} /\ n + kills' >= m + kills + 1
          \/ \E d \in Open(a) : Open(a)' \subseteq Open(a) \ {d} /\ n + kills' >= m + kills - 1
      <4>1. CASE Quiet /\ kills' \in {kills, kills + 1}
        <5>1. Open(a)' \subseteq Open(a) /\ n >= m
          BY <1>2, <2>6, <4>1, QuietCounts
        <5> HIDE DEF m, n
        <5>2. n >= m /\ kills' \in {kills, kills + 1}
          BY <4>1, <5>1
        <5>3. m \in Nat
          BY <3>1
        <5>4. \A i, j, k \in Nat : i >= j => i + k >= j + k /\ i + (k + 1) >= j + k
          OBVIOUS
        <5>5. n + kills' >= m + kills
          BY <2>2, <3>2, <5>2, <5>3, <5>4
        <5> QED
          BY <5>1, <5>5
      <4>2. CASE \E s \in Account, d \in DisputeId, e \in EscrowId : Raised(s, d, e)
        BY <1>2, <2>2, <2>6, <4>2, RaisedCounts
      <4>3. CASE \E s \in Account, d \in DisputeId, decision \in Decision : Decided(s, d, decision)
        BY <1>2, <2>2, <2>6, <4>3, DecidedCounts
      <4> QED
        BY <2>3, <4>1, <4>2, <4>3
    <3> HIDE DEF m, n
    <3>4. IsFiniteSet(Open(a)') /\ n + kills' >= Cardinality(Open(a)')
      BY <2>2, <2>4, <3>1, <3>2, <3>3, CountKept
    <3> QED
      BY <3>4 DEF n
  <2> QED
    BY <2>4, <2>5, <2>6 DEF CountsInv
<1> QED
  BY <1>1, <1>2

\* Against every account at least its open disputes are counted, whatever is
\* raised again, overwritten, won or killed in between, and whoever is the
\* raiser, the winner and the loser (dispute::raise, dispute::vote).
THEOREM OpenDisputesStayCounted == KillSpec => []OpenDisputesCounted
<1>1. KillInit => CountsInv
  <2> SUFFICES ASSUME KillInit PROVE CountsInv
    OBVIOUS
  <2>1. \A a \in Account : Open(a) = {}
    BY DEF KillInit, Init, Open, OpenAgainst
  <2> QED
    BY <2>1, FS_EmptySet DEF KillInit, Init, CountsInv, Registered
<1>2. RecordsInv => RefsOK
  BY DEF RecordsInv
<1> QED
  BY <1>1, <1>2, StepKeepsCounts, CountsInvCounts, RecordsInvariance, PTL DEF KillSpec
=============================================================================
