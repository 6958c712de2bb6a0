----------------------------- MODULE StateProofs -----------------------------
(***************************************************************************)
(* Theorems about StateKills, for any accounts, escrows, disputes, rewards *)
(* and bounds. First, what a step can do to one profile, one escrow and    *)
(* one dispute, whichever transaction it is and wherever it is killed; the *)
(* invariants and the action properties follow from these three shapes.    *)
(***************************************************************************)
EXTENDS StateKills, FiniteSetTheorems, TLAPS

\* An escrow names registered accounts.
EscrowsOfParticipants ==
  \A e \in EscrowId :
    escrows[e] # Null => Registered(escrows[e].buyer) /\ Registered(escrows[e].seller)

\* A dispute is about an escrow and was raised by a party of it.
DisputesOfEscrows ==
  \A d \in DisputeId :
    disputes[d] # Null =>
      /\ escrows[disputes[d].escrow_id] # Null
      /\ disputes[d].raised_by \in Parties(disputes[d].escrow_id)

RefsOK == TypeOK /\ EscrowsOfParticipants /\ DisputesOfEscrows

\* No vote comes before the phase of voting, which ends below the threshold.
VotesOpen ==
  \A d \in DisputeId :
    disputes[d] # Null =>
      /\ IsFiniteSet(disputes[d].votes)
      /\ disputes[d].state \in {"Raised", "Evidence"} => disputes[d].votes = {}
      /\ disputes[d].state = "Voting" => Cardinality(disputes[d].votes) < VoteThreshold

\* The inductive invariant of the stored records.
RecordsInv == RefsOK /\ SuccessWithinTotal /\ VotesOpen /\ ResolvedByArbiters

-----------------------------------------------------------------------------
\* What a step can do to one entry of a store. A profile is new, or keeps its
\* role and counts one of three things: successes, each in a transaction; a
\* dispute more or less; or a rating or a failure.
RatedAsBefore(p, q) == q.rating_sum = p.rating_sum /\ q.rating_count = p.rating_count

CountsSuccess(p, q) ==
  /\ RatedAsBefore(p, q) /\ q.dispute_count = p.dispute_count
  /\ \E k \in Nat : q.success_tx = p.success_tx + k /\ q.total_tx = p.total_tx + k

CountsDispute(p, q) ==
  RatedAsBefore(p, q) /\ q.success_tx = p.success_tx /\ q.total_tx = p.total_tx

CountsRating(p, q) ==
  /\ q.success_tx = p.success_tx /\ q.dispute_count = p.dispute_count
  /\ q.total_tx >= p.total_tx

ProfileStep(p, q) ==
  \/ q = p
  \/ p = Null /\ q \in Profile /\ q.success_tx = 0 /\ q.total_tx = 0
  \/ /\ p \in Profile /\ q \in Profile
     /\ q.arbiter = p.arbiter
     /\ CountsSuccess(p, q) \/ CountsDispute(p, q) \/ CountsRating(p, q)

ProfilesStep(f, g) ==
  /\ g \in [Account -> Profile \union {Null}]
  /\ \A a \in Account : ProfileStep(f[a], g[a])

\* An escrow is new, settled or disputed.
EscrowStep(e) ==
  \/ escrows'[e] = escrows[e]
  \/ /\ escrows[e] = Null
     /\ escrows'[e] \in Escrow /\ escrows'[e].state = "Created"
     /\ Registered(escrows'[e].buyer) /\ Registered(escrows'[e].seller)
  \/ /\ escrows[e] # Null /\ escrows[e].state = "Created"
     /\ \E state \in {"Released", "Refunded"} :
          escrows'[e] = [escrows[e] EXCEPT !.state = state]
  \/ /\ Disputable(e)
     /\ \E d \in DisputeId :
          escrows'[e] = [escrows[e] EXCEPT !.state = "Disputed", !.dispute_id = d]

\* A dispute is raised, gets evidence, gets a vote or is resolved by one.
RaisedStep(d) ==
  \E s \in Account, e \in EscrowId :
    /\ Disputable(e) /\ s \in Parties(e)
    /\ disputes'[d] = NewDispute(s, e)

EvidenceStep(d) ==
  /\ TakesEvidence(d)
  /\ disputes'[d] = [disputes[d] EXCEPT !.state = "Evidence"]

CountedStep(d, votes) ==
  \/ /\ Cardinality(votes) < VoteThreshold
     /\ disputes'[d] = [disputes[d] EXCEPT !.votes = votes, !.state = "Voting"]
  \/ /\ Cardinality(votes) >= VoteThreshold
     /\ disputes'[d] = [disputes[d] EXCEPT !.votes = votes, !.state = "Resolved",
                                           !.resolution = Resolution(votes)]

VoteStep(d) ==
  \E s \in Account, decision \in Decision : MayVote(s, d) /\ CountedStep(d, VotesWith(s, d, decision))

DisputeStep(d) ==
  disputes'[d] = disputes[d] \/ RaisedStep(d) \/ EvidenceStep(d) \/ VoteStep(d)

-----------------------------------------------------------------------------
\* The changes of a profile that the modules make: its type, its role and the
\* counters that invariants speak of.
LEMMA SucceededProfile ==
  ASSUME NEW p \in Profile
  PROVE  /\ Succeeded(p) \in Profile
         /\ Succeeded(p).arbiter = p.arbiter
         /\ Succeeded(p).success_tx = p.success_tx + 1
         /\ Succeeded(p).total_tx = p.total_tx + 1
         /\ p.success_tx <= p.total_tx => Succeeded(p).success_tx <= Succeeded(p).total_tx
         /\ Succeeded(p).dispute_count = p.dispute_count
         /\ RatedAsBefore(p, Succeeded(p))
<1> USE DEF Profile, RatedAsBefore
<1> DEFINE q == [p EXCEPT !.total_tx = @ + 1]
<1>1. /\ q \in Profile /\ q.arbiter = p.arbiter /\ q.success_tx = p.success_tx
      /\ q.total_tx = p.total_tx + 1 /\ q.dispute_count = p.dispute_count /\ RatedAsBefore(p, q)
  OBVIOUS
<1>2. Succeeded(p) = [q EXCEPT !.success_tx = @ + 1]
  BY DEF Succeeded
<1> HIDE DEF q
<1> QED
  BY <1>1, <1>2

LEMMA FailedProfile ==
  ASSUME NEW p \in Profile
  PROVE  /\ Failed(p) \in Profile
         /\ Failed(p).arbiter = p.arbiter
         /\ Failed(p).success_tx = p.success_tx
         /\ Failed(p).total_tx = p.total_tx + 1
         /\ p.success_tx <= p.total_tx => Failed(p).success_tx <= Failed(p).total_tx
         /\ Failed(p).dispute_count = p.dispute_count
BY DEF Failed, Profile

LEMMA RatedProfileType ==
  ASSUME NEW p \in Profile, NEW rating \in Nat, NEW success \in BOOLEAN
  PROVE  LET q == RatedProfile(p, rating, success)
         IN  /\ q \in Profile
             /\ q.arbiter = p.arbiter
             /\ q.success_tx = p.success_tx
             /\ q.total_tx \in {p.total_tx, p.total_tx + 1}
             /\ q.dispute_count = p.dispute_count
<1> DEFINE q == [p EXCEPT !.rating_sum = @ + rating]
           r == Rated(p, rating)
<1>1. /\ q \in Profile /\ q.arbiter = p.arbiter /\ q.success_tx = p.success_tx
      /\ q.total_tx = p.total_tx /\ q.dispute_count = p.dispute_count
  BY DEF Profile
<1>2. r = p \/ r = [q EXCEPT !.rating_count = @ + 1]
  BY DEF Rated, Profile
<1> HIDE DEF q
<1>3. /\ r \in Profile /\ r.arbiter = p.arbiter /\ r.success_tx = p.success_tx
      /\ r.total_tx = p.total_tx /\ r.dispute_count = p.dispute_count
  BY <1>1, <1>2 DEF Profile
<1>4. RatedProfile(p, rating, success) \in {r, Failed(r)}
  BY DEF RatedProfile
<1> HIDE DEF r
<1> QED
  BY <1>3, <1>4, FailedProfile

LEMMA WonProfile ==
  ASSUME NEW p \in Profile, NEW raised \in BOOLEAN
  PROVE  /\ Won(p, raised) \in Profile
         /\ Won(p, raised).arbiter = p.arbiter
         /\ Won(p, raised).success_tx = p.success_tx
         /\ Won(p, raised).total_tx = p.total_tx
         /\ Won(p, raised).dispute_count =
              IF ~raised /\ p.dispute_count > 0 THEN p.dispute_count - 1 ELSE p.dispute_count
         /\ RatedAsBefore(p, Won(p, raised))
<1> USE DEF Profile, RatedAsBefore
<1> DEFINE q == [p EXCEPT !.dispute_won = @ + 1]
           n == IF ~raised /\ p.dispute_count > 0 THEN p.dispute_count - 1 ELSE p.dispute_count
<1>1. /\ q \in Profile /\ q.arbiter = p.arbiter /\ q.success_tx = p.success_tx
      /\ q.total_tx = p.total_tx /\ q.dispute_count = p.dispute_count /\ RatedAsBefore(p, q)
  OBVIOUS
<1>2. Won(p, raised) = [q EXCEPT !.dispute_count = n]
  BY DEF Won
<1>3. n \in Nat
  OBVIOUS
<1> HIDE DEF q, n
<1>4. /\ Won(p, raised) \in Profile
      /\ Won(p, raised).arbiter = p.arbiter /\ Won(p, raised).success_tx = p.success_tx
      /\ Won(p, raised).total_tx = p.total_tx /\ Won(p, raised).dispute_count = n
      /\ RatedAsBefore(p, Won(p, raised))
  BY <1>1, <1>2, <1>3
<1> QED
  BY <1>4 DEF n

LEMMA LostProfile ==
  ASSUME NEW p \in Profile, NEW raised \in BOOLEAN
  PROVE  /\ Lost(p, raised) \in Profile
         /\ Lost(p, raised).arbiter = p.arbiter
         /\ Lost(p, raised).success_tx = p.success_tx
         /\ Lost(p, raised).total_tx = p.total_tx
         /\ Lost(p, raised).dispute_count = p.dispute_count + (IF raised THEN 2 ELSE 1)
         /\ RatedAsBefore(p, Lost(p, raised))
BY DEF Lost, Profile, RatedAsBefore

LEMMA OneProfile ==
  ASSUME NEW f \in [Account -> Profile \union {Null}], NEW a \in Account, f[a] \in Profile,
         NEW q \in Profile, q.arbiter = f[a].arbiter,
         CountsSuccess(f[a], q) \/ CountsDispute(f[a], q) \/ CountsRating(f[a], q)
  PROVE  ProfilesStep(f, [f EXCEPT ![a] = q])
BY NullAssumption DEF ProfilesStep, ProfileStep

\* Two writes that count the same kind of thing count as one, also where they
\* are of one profile.
LEMMA TwoProfiles ==
  ASSUME NEW f \in [Account -> Profile \union {Null}], NEW a \in Account, f[a] \in Profile,
         NEW q \in Profile, q.arbiter = f[a].arbiter,
         NEW g, g = [f EXCEPT ![a] = q],
         NEW b \in Account, g[b] \in Profile, NEW r \in Profile, r.arbiter = g[b].arbiter,
         \/ CountsSuccess(f[a], q) /\ CountsSuccess(g[b], r)
         \/ CountsDispute(f[a], q) /\ CountsDispute(g[b], r)
  PROVE  ProfilesStep(f, [g EXCEPT ![b] = r])
<1>1. g[a] = q /\ \A c \in Account : c # a => g[c] = f[c]
  OBVIOUS
<1>2. CASE a = b
  <2>1. CountsSuccess(f[a], q) /\ CountsSuccess(q, r) => CountsSuccess(f[a], r)
    <3> SUFFICES ASSUME NEW k \in Nat, NEW l \in Nat, f[a].success_tx \in Nat, f[a].total_tx \in Nat,
                        q.success_tx = f[a].success_tx + k, q.total_tx = f[a].total_tx + k,
                        r.success_tx = q.success_tx + l, r.total_tx = q.total_tx + l
                 PROVE  k + l \in Nat /\ r.success_tx = f[a].success_tx + (k + l) /\ r.total_tx = f[a].total_tx + (k + l)
      BY DEF CountsSuccess, RatedAsBefore, Profile
    <3> QED
      OBVIOUS
  <2>2. CountsDispute(f[a], q) /\ CountsDispute(q, r) => CountsDispute(f[a], r)
    BY DEF CountsDispute, RatedAsBefore
  <2>3. [g EXCEPT ![b] = r] = [f EXCEPT ![a] = r] /\ r.arbiter = f[a].arbiter
    BY <1>1, <1>2
  <2> QED
    BY <1>1, <1>2, <2>1, <2>2, <2>3, OneProfile
<1>3. CASE a # b
  BY <1>1, <1>3, NullAssumption DEF ProfilesStep, ProfileStep
<1> QED
  BY <1>2, <1>3

LEMMA SucceededCounts ==
  ASSUME NEW p \in Profile
  PROVE  CountsSuccess(p, Succeeded(p))
BY SucceededProfile DEF CountsSuccess

\* The profiles after a release, written one after the other.
LEMMA SucceededProfiles ==
  ASSUME RefsOK, NEW buyer \in Account, NEW seller \in Account, Registered(buyer), Registered(seller)
  PROVE  ProfilesStep(participants, BuyerSucceeded(buyer)) /\ ProfilesStep(participants, BothSucceeded(buyer, seller))
<1> DEFINE f == BuyerSucceeded(buyer)
<1>1. participants \in [Account -> Profile \union {Null}]
  BY DEF RefsOK, TypeOK
<1>2. participants[buyer] \in Profile /\ participants[seller] \in Profile
  BY <1>1 DEF Registered
<1>3. f = [participants EXCEPT ![buyer] = Succeeded(participants[buyer])]
  BY DEF BuyerSucceeded
<1>4. ProfilesStep(participants, f)
  BY ZenonT(60), <1>1, <1>2, <1>3, SucceededProfile, SucceededCounts, OneProfile
<1>5. f \in [Account -> Profile \union {Null}] /\ f[seller] \in Profile
  BY <1>1, <1>2, <1>3, SucceededProfile
<1>6. BothSucceeded(buyer, seller) = [f EXCEPT ![seller] = Succeeded(f[seller])]
  BY DEF BothSucceeded
<1> HIDE DEF f
<1>7. ProfilesStep(participants, BothSucceeded(buyer, seller))
  <2>1. PICK q \in Profile : /\ q = Succeeded(participants[buyer]) /\ q.arbiter = participants[buyer].arbiter
                             /\ CountsSuccess(participants[buyer], q)
    BY <1>2, SucceededProfile, SucceededCounts
  <2>2. PICK r \in Profile : /\ r = Succeeded(f[seller]) /\ r.arbiter = f[seller].arbiter
                             /\ CountsSuccess(f[seller], r)
    BY <1>5, SucceededProfile, SucceededCounts
  <2>3. f = [participants EXCEPT ![buyer] = q] /\ BothSucceeded(buyer, seller) = [f EXCEPT ![seller] = r]
    BY <1>3, <1>6, <2>1, <2>2
  <2>4. ProfilesStep(participants, [f EXCEPT ![seller] = r])
    BY <1>1, <1>2, <1>5, <2>1, <2>2, <2>3, TwoProfiles
  <2> QED
    BY <2>3, <2>4
<1> QED
  BY <1>4, <1>7 DEF f

\* The parties of a dispute that is not resolved are registered.
LEMMA DisputeParties ==
  ASSUME RefsOK, NEW d \in DisputeId, disputes[d] # Null, NEW resolution \in Decision
  PROVE  LET e == disputes[d].escrow_id
         IN  /\ e \in EscrowId /\ escrows[e] \in Escrow
             /\ Winner(d, resolution) \in Account /\ Loser(d, resolution) \in Account
             /\ Parties(e) = {Winner(d, resolution), Loser(d, resolution)}
             /\ disputes[d].raised_by \in Parties(e)
             /\ participants[Winner(d, resolution)] \in Profile
             /\ participants[Loser(d, resolution)] \in Profile
<1> USE DEF RefsOK, TypeOK
<1>1. disputes[d] \in Dispute
  OBVIOUS
<1>2. disputes[d].escrow_id \in EscrowId
  BY <1>1 DEF Dispute
<1>3. escrows[disputes[d].escrow_id] \in Escrow /\ disputes[d].raised_by \in Parties(disputes[d].escrow_id)
  BY <1>2 DEF DisputesOfEscrows
<1>4. /\ escrows[disputes[d].escrow_id].buyer \in Account /\ Registered(escrows[disputes[d].escrow_id].buyer)
      /\ escrows[disputes[d].escrow_id].seller \in Account /\ Registered(escrows[disputes[d].escrow_id].seller)
  BY <1>2, <1>3, NullAssumption DEF Escrow, EscrowsOfParticipants
<1> QED
  BY <1>2, <1>3, <1>4 DEF Winner, Loser, Parties, Registered

LEMMA CountedProfiles ==
  ASSUME RefsOK, NEW d \in DisputeId, disputes[d] # Null, NEW resolution \in Decision
  PROVE  /\ ProfilesStep(participants, WinnerCounted(d, resolution))
         /\ ProfilesStep(participants, PartiesCounted(d, resolution))
<1> DEFINE winner == Winner(d, resolution)
           loser == Loser(d, resolution)
           f == WinnerCounted(d, resolution)
           g == PartiesCounted(d, resolution)
<1>1. participants \in [Account -> Profile \union {Null}]
  BY DEF RefsOK, TypeOK
<1>2. /\ winner \in Account /\ participants[winner] \in Profile
      /\ loser \in Account /\ participants[loser] \in Profile
  BY DisputeParties
<1>3. f = [participants EXCEPT ![winner] = Won(participants[winner], disputes[d].raised_by = winner)]
  BY DEF WinnerCounted
<1>4. g = [f EXCEPT ![loser] = Lost(f[loser], disputes[d].raised_by = loser)]
  BY DEF PartiesCounted
<1> HIDE DEF winner, loser, f, g
<1>5. PICK q \in Profile : /\ q = Won(participants[winner], disputes[d].raised_by = winner)
                           /\ q.arbiter = participants[winner].arbiter /\ CountsDispute(participants[winner], q)
  BY <1>2, WonProfile DEF CountsDispute
<1>6. f[loser] \in Profile
  BY <1>1, <1>2, <1>3, <1>5
<1>7. PICK r \in Profile : /\ r = Lost(f[loser], disputes[d].raised_by = loser)
                           /\ r.arbiter = f[loser].arbiter /\ CountsDispute(f[loser], r)
  BY <1>6, LostProfile DEF CountsDispute
<1>8. ProfilesStep(participants, f)
  BY <1>1, <1>2, <1>3, <1>5, OneProfile
<1>9. ProfilesStep(participants, g)
  BY <1>1, <1>2, <1>3, <1>4, <1>5, <1>6, <1>7, TwoProfiles
<1> QED
  BY <1>8, <1>9 DEF f, g

-----------------------------------------------------------------------------
\* Every transaction, whole or killed, changes profiles only in these ways.
LEMMA ProfilesChange ==
  ASSUME RefsOK, KillNext
  PROVE  ProfilesStep(participants, participants')
<1>1. participants \in [Account -> Profile \union {Null}]
  BY DEF RefsOK, TypeOK
<1>2. CASE participants' = participants
  BY <1>1, <1>2 DEF ProfilesStep, ProfileStep
<1>3. ASSUME NEW s \in Account, NEW arbiter \in BOOLEAN, RegisterParticipant(s, arbiter)
      PROVE  ProfilesStep(participants, participants')
  <2> DEFINE q == [arbiter |-> arbiter, active |-> TRUE, total_tx |-> 0, success_tx |-> 0,
                   dispute_count |-> 0, dispute_won |-> 0, rating_sum |-> 0, rating_count |-> 0]
  <2>1. participants' = [participants EXCEPT ![s] = q] /\ participants[s] = Null
    BY <1>3 DEF RegisterParticipant, Registered
  <2>2. q \in Profile /\ q.total_tx = 0 /\ q.success_tx = 0 /\ q.dispute_count = 0
    BY DEF Profile
  <2> HIDE DEF q
  <2> QED
    BY <1>1, <2>1, <2>2 DEF ProfilesStep, ProfileStep
<1>4. ASSUME NEW s \in Account, DeactivateParticipant(s)
      PROVE  ProfilesStep(participants, participants')
  <2>1. participants[s] \in Profile
    BY <1>1, <1>4 DEF DeactivateParticipant, Registered
  <2> DEFINE q == [participants[s] EXCEPT !.active = FALSE]
  <2>2. /\ q \in Profile /\ q.arbiter = participants[s].arbiter
        /\ CountsDispute(participants[s], q)
    BY <2>1 DEF Profile, CountsDispute, RatedAsBefore
  <2>3. participants' = [participants EXCEPT ![s] = q]
    BY <1>4 DEF DeactivateParticipant
  <2> HIDE DEF q
  <2> QED
    BY <1>1, <2>1, <2>2, <2>3, OneProfile
<1>5. ASSUME NEW s \in Account, Registered(s), participants' = [participants EXCEPT ![s] = Succeeded(@)]
      PROVE  ProfilesStep(participants, participants')
  <2>1. participants[s] \in Profile
    BY <1>1, <1>5 DEF Registered
  <2> QED
    BY <1>1, <1>5, <2>1, SucceededProfile, SucceededCounts, OneProfile
<1>6. ASSUME NEW a \in Account, NEW rating \in Ratings, NEW success \in BOOLEAN, Registered(a),
             participants' = [participants EXCEPT ![a] = RatedProfile(@, rating, success)]
      PROVE  ProfilesStep(participants, participants')
  <2>1. participants[a] \in Profile /\ rating \in Nat
    BY <1>1, <1>6, StateAssumption DEF Registered
  <2> DEFINE q == RatedProfile(participants[a], rating, success)
  <2>2. /\ q \in Profile /\ q.arbiter = participants[a].arbiter
        /\ q.success_tx = participants[a].success_tx /\ q.dispute_count = participants[a].dispute_count
        /\ q.total_tx \in {participants[a].total_tx, participants[a].total_tx + 1}
    BY <2>1, RatedProfileType
  <2>3. participants' = [participants EXCEPT ![a] = q]
    BY <1>6
  <2>4. participants[a].success_tx \in Nat /\ participants[a].total_tx \in Nat
    BY <2>1 DEF Profile
  <2> HIDE DEF q
  <2>5. CountsRating(participants[a], q)
    BY <2>2, <2>4 DEF CountsRating
  <2> QED
    BY <1>1, <2>1, <2>2, <2>3, <2>5, OneProfile
<1>7. ASSUME NEW e \in EscrowId, escrows[e] # Null
      PROVE  /\ ProfilesStep(participants, BuyerSucceeded(escrows[e].buyer))
             /\ ProfilesStep(participants, BothSucceeded(escrows[e].buyer, escrows[e].seller))
  <2>1. escrows[e] \in Escrow
    BY <1>7 DEF RefsOK, TypeOK
  <2>2. /\ escrows[e].buyer \in Account /\ escrows[e].seller \in Account
        /\ Registered(escrows[e].buyer) /\ Registered(escrows[e].seller)
    BY <1>7, <2>1 DEF RefsOK, EscrowsOfParticipants, Escrow
  <2> QED
    BY <2>2, SucceededProfiles
<1>8. ASSUME NEW s \in Account, NEW e \in EscrowId, NEW now \in Times, RefundEscrow(s, e, now)
      PROVE  ProfilesStep(participants, participants')
  <2>1. escrows[e] # Null /\ escrows[e] \in Escrow
    BY <1>8 DEF RefsOK, TypeOK, RefundEscrow, MayRefund
  <2> DEFINE a == escrows[e].seller
  <2>2. a \in Account /\ participants[a] \in Profile
    BY <1>1, <2>1 DEF RefsOK, EscrowsOfParticipants, Escrow, Registered
  <2>3. participants' = [participants EXCEPT ![a] = Failed(participants[a])]
    BY <1>8 DEF RefundEscrow
  <2> DEFINE q == Failed(participants[a])
  <2> HIDE DEF a
  <2>4. /\ q \in Profile /\ q.arbiter = participants[a].arbiter
        /\ CountsRating(participants[a], q)
    BY <2>2, FailedProfile DEF CountsRating, Profile
  <2> HIDE DEF q
  <2> QED
    BY <1>1, <2>2, <2>3, <2>4, OneProfile DEF q
<1>9. ASSUME NEW s \in Account, NEW d \in DisputeId, NEW e \in EscrowId, RaiseDispute(s, d, e)
      PROVE  ProfilesStep(participants, participants')
  <2> DEFINE a == OtherParty(e, s)
             q == [participants[a] EXCEPT !.dispute_count = @ + 1]
  <2>1. escrows[e] # Null /\ escrows[e] \in Escrow
    BY <1>9 DEF RefsOK, TypeOK, RaiseDispute, Disputable
  <2>2. a \in Account /\ participants[a] \in Profile
    BY <1>1, <2>1 DEF RefsOK, EscrowsOfParticipants, Escrow, Registered, OtherParty
  <2>3. participants' = [participants EXCEPT ![a] = q]
    BY <1>9 DEF RaiseDispute
  <2> HIDE DEF a
  <2>4. /\ q \in Profile /\ q.arbiter = participants[a].arbiter
        /\ CountsDispute(participants[a], q)
    BY <2>2 DEF Profile, CountsDispute, RatedAsBefore
  <2> HIDE DEF q
  <2> QED
    BY <1>1, <2>2, <2>3, <2>4, OneProfile
<1>10. ASSUME NEW s \in Account, NEW d \in DisputeId, NEW decision \in Decision, MayVote(s, d),
              LET resolution == Resolution(VotesWith(s, d, decision))
              IN  participants' \in {WinnerCounted(d, resolution), PartiesCounted(d, resolution)}
       PROVE  ProfilesStep(participants, participants')
  <2>1. Resolution(VotesWith(s, d, decision)) \in Decision
    BY DEF Resolution, Decision
  <2> QED
    BY <1>10, <2>1, CountedProfiles DEF MayVote
<1>11. ASSUME Next PROVE ProfilesStep(participants, participants')
  <2>1. ASSUME NEW s \in Account, NEW e \in EscrowId, NEW now \in Times, ReleaseEscrow(s, e, now)
        PROVE  ProfilesStep(participants, participants')
    BY <1>7, <2>1 DEF ReleaseEscrow, MayRelease
  <2>2. ASSUME NEW s \in Account, NEW d \in DisputeId, NEW decision \in Decision,
               VoteDispute(s, d, decision)
        PROVE  ProfilesStep(participants, participants')
    BY <1>2, <1>10, <2>2 DEF VoteDispute
  <2>3. ASSUME NEW s \in Account, NEW r \in RecordId, RecordSettlement(s, r)
        PROVE  ProfilesStep(participants, participants')
    BY <1>5, <2>3 DEF RecordSettlement
  <2>4. ASSUME NEW s \in Account, NEW a \in Account, NEW rating \in Ratings, NEW success \in BOOLEAN,
               RecordRating(s, a, rating, success)
        PROVE  ProfilesStep(participants, participants')
    BY <1>6, <2>4 DEF RecordRating
  <2> QED
    BY <1>2, <1>3, <1>4, <1>8, <1>9, <1>11, <2>1, <2>2, <2>3, <2>4
       DEF Next, NonceOnly, CreateEscrow, SubmitEvidence, TransferRCW, SpendRCW, AnchorMerkleRoot
<1>12. ASSUME NEW s \in Account, NEW r \in RecordId, KilledSettlement(s, r)
       PROVE  ProfilesStep(participants, participants')
  BY <1>2, <1>5, <1>12 DEF KilledSettlement
<1>13. ASSUME NEW s \in Account, NEW a \in Account, NEW rating \in Ratings, NEW success \in BOOLEAN,
              KilledRating(s, a, rating, success)
       PROVE  ProfilesStep(participants, participants')
  BY <1>6, <1>13 DEF KilledRating
<1>14. ASSUME NEW s \in Account, NEW e \in EscrowId, NEW now \in Times, KilledRelease(s, e, now)
       PROVE  ProfilesStep(participants, participants')
  BY <1>2, <1>7, <1>14 DEF KilledRelease, MayRelease
<1>15. ASSUME NEW s \in Account, NEW d \in DisputeId, NEW decision \in Decision,
              KilledVote(s, d, decision)
       PROVE  ProfilesStep(participants, participants')
  BY <1>10, <1>15 DEF KilledVote
<1> QED
  BY <1>2, <1>11, <1>12, <1>13, <1>14, <1>15
     DEF KillNext, Whole, KilledRefund, KilledRaise, KilledTransfer

\* Every transaction, whole or killed, changes escrows only in these ways.
LEMMA EscrowsChange ==
  ASSUME RefsOK, KillNext
  PROVE  /\ escrows' \in [EscrowId -> Escrow \union {Null}]
         /\ \A e \in EscrowId : EscrowStep(e)
<1> DEFINE Kept == /\ escrows' \in [EscrowId -> Escrow \union {Null}]
                   /\ \A e \in EscrowId : EscrowStep(e)
<1>1. escrows \in [EscrowId -> Escrow \union {Null}]
  BY DEF RefsOK, TypeOK
<1>2. CASE escrows' = escrows
  BY <1>1, <1>2 DEF EscrowStep
<1>3. ASSUME NEW s \in Account, NEW e \in EscrowId, NEW seller \in Account, NEW expires \in Expiries,
             CreateEscrow(s, e, seller, expires)
      PROVE  Kept
  <2> DEFINE new == [buyer |-> s, seller |-> seller, expires_at |-> expires,
                     state |-> "Created", dispute_id |-> Null]
  <2>1. new \in Escrow /\ new.state = "Created" /\ new.buyer = s /\ new.seller = seller
    BY DEF Escrow
  <2>2. escrows' = [escrows EXCEPT ![e] = new] /\ escrows[e] = Null /\ Registered(s) /\ Registered(seller)
    BY <1>3 DEF CreateEscrow
  <2> HIDE DEF new
  <2> QED
    BY <1>1, <2>1, <2>2 DEF EscrowStep
<1>4. ASSUME NEW e \in EscrowId, escrows[e] # Null, escrows[e].state = "Created",
             NEW state \in {"Released", "Refunded"},
             escrows' = [escrows EXCEPT ![e].state = state]
      PROVE  Kept
  <2> DEFINE new == [escrows[e] EXCEPT !.state = state]
  <2>1. new \in Escrow
    BY <1>1, <1>4 DEF Escrow
  <2>2. escrows' = [escrows EXCEPT ![e] = new]
    BY <1>4
  <2>3. escrows' \in [EscrowId -> Escrow \union {Null}] /\ escrows'[e] = new
    BY <1>1, <2>1, <2>2
  <2>4. EscrowStep(e)
    BY <1>4, <2>3 DEF EscrowStep
  <2>5. ASSUME NEW i \in EscrowId, i # e PROVE EscrowStep(i)
    BY <1>1, <2>2, <2>5 DEF EscrowStep
  <2> QED
    BY <2>3, <2>4, <2>5
<1>5. ASSUME NEW e \in EscrowId, NEW d \in DisputeId, Disputable(e),
             escrows' = [escrows EXCEPT ![e].state = "Disputed", ![e].dispute_id = d]
      PROVE  Kept
  <2> DEFINE new == [escrows[e] EXCEPT !.state = "Disputed", !.dispute_id = d]
  <2>1. new \in Escrow
    BY <1>1, <1>5 DEF Escrow, Disputable
  <2>2. escrows' = [escrows EXCEPT ![e] = new]
    BY <1>1, <1>5
  <2>3. escrows' \in [EscrowId -> Escrow \union {Null}] /\ escrows'[e] = new
    BY <1>1, <2>1, <2>2
  <2>4. EscrowStep(e)
    BY <1>5, <2>3 DEF EscrowStep
  <2>5. ASSUME NEW i \in EscrowId, i # e PROVE EscrowStep(i)
    BY <1>1, <2>2, <2>5 DEF EscrowStep
  <2> QED
    BY <2>3, <2>4, <2>5
<1>6. ASSUME Next PROVE Kept
  <2>1. ASSUME NEW s \in Account, NEW e \in EscrowId, NEW now \in Times,
               ReleaseEscrow(s, e, now) \/ RefundEscrow(s, e, now)
        PROVE  Kept
    BY <1>4, <2>1 DEF ReleaseEscrow, MayRelease, RefundEscrow, MayRefund, Settleable
  <2>2. ASSUME NEW s \in Account, NEW d \in DisputeId, NEW e \in EscrowId, RaiseDispute(s, d, e)
        PROVE  Kept
    BY <1>5, <2>2 DEF RaiseDispute
  <2>3. ASSUME NEW s \in Account, NEW d \in DisputeId, NEW decision \in Decision, VoteDispute(s, d, decision)
        PROVE  Kept
    BY <1>2, <2>3 DEF VoteDispute
  <2> QED
    BY <1>2, <1>3, <1>6, <2>1, <2>2, <2>3
       DEF Next, NonceOnly, RegisterParticipant, DeactivateParticipant, RecordSettlement, RecordRating,
           SubmitEvidence, TransferRCW, SpendRCW, AnchorMerkleRoot
<1>7. ASSUME NEW s \in Account, NEW e \in EscrowId, NEW now \in Times,
             KilledRelease(s, e, now) \/ KilledRefund(s, e, now)
      PROVE  Kept
  BY <1>4, <1>7 DEF KilledRelease, MayRelease, KilledRefund, MayRefund, Settleable
<1>8. ASSUME NEW s \in Account, NEW d \in DisputeId, NEW e \in EscrowId, KilledRaise(s, d, e)
      PROVE  Kept
  BY <1>5, <1>8 DEF KilledRaise
<1> QED
  BY <1>2, <1>6, <1>7, <1>8
     DEF KillNext, Whole, KilledSettlement, KilledRating, KilledVote, KilledTransfer

\* A new dispute.
LEMMA NewDisputeType ==
  ASSUME NEW s \in Account, NEW e \in EscrowId
  PROVE  NewDispute(s, e) \in Dispute
BY DEF NewDispute, Dispute

\* Every transaction, whole or killed, changes disputes only in these ways.
LEMMA DisputesChange ==
  ASSUME RefsOK, KillNext
  PROVE  /\ disputes' \in [DisputeId -> Dispute \union {Null}]
         /\ \A d \in DisputeId : DisputeStep(d)
<1> DEFINE Kept == /\ disputes' \in [DisputeId -> Dispute \union {Null}]
                   /\ \A d \in DisputeId : DisputeStep(d)
<1>1. disputes \in [DisputeId -> Dispute \union {Null}]
  BY DEF RefsOK, TypeOK
<1>2. CASE disputes' = disputes
  BY <1>1, <1>2 DEF DisputeStep
<1>3. ASSUME NEW d \in DisputeId, NEW new \in Dispute, disputes' = [disputes EXCEPT ![d] = new],
             disputes'[d] = new => DisputeStep(d)
      PROVE  Kept
  <2>1. ASSUME NEW i \in DisputeId, i # d PROVE DisputeStep(i)
    BY <1>1, <1>3, <2>1 DEF DisputeStep
  <2> QED
    BY <1>1, <1>3, <2>1
<1>4. ASSUME NEW s \in Account, NEW d \in DisputeId, NEW e \in EscrowId, Disputable(e), s \in Parties(e),
             disputes' = [disputes EXCEPT ![d] = NewDispute(s, e)]
      PROVE  Kept
  <2>1. disputes'[d] = NewDispute(s, e) => DisputeStep(d)
    BY <1>4 DEF DisputeStep, RaisedStep
  <2> QED
    BY <1>3, <1>4, <2>1, NewDisputeType
<1>5. ASSUME NEW s \in Account, NEW d \in DisputeId, SubmitEvidence(s, d)
      PROVE  Kept
  <2> DEFINE new == [disputes[d] EXCEPT !.state = "Evidence"]
  <2>1. new \in Dispute
    BY <1>1, <1>5 DEF SubmitEvidence, TakesEvidence, Dispute
  <2>2. disputes'[d] = new => DisputeStep(d)
    BY <1>5 DEF SubmitEvidence, DisputeStep, EvidenceStep
  <2>3. disputes' = [disputes EXCEPT ![d] = new]
    BY <1>5 DEF SubmitEvidence
  <2> QED
    BY <1>3, <2>1, <2>2, <2>3
<1>6. ASSUME NEW s \in Account, NEW d \in DisputeId, NEW decision \in Decision, VoteDispute(s, d, decision)
      PROVE  Kept
  <2> DEFINE cast == VotesWith(s, d, decision)
             counted == [disputes[d] EXCEPT !.votes = cast, !.state = "Voting"]
             resolved == [disputes[d] EXCEPT !.votes = cast, !.state = "Resolved",
                                             !.resolution = Resolution(cast)]
  <2>1. MayVote(s, d) /\ disputes[d] \in Dispute
    BY <1>1, <1>6 DEF VoteDispute, MayVote
  <2>2. cast \in SUBSET [voter : Account, decision : Decision]
    BY <2>1 DEF VotesWith, Dispute
  <2>3. Resolution(cast) \in Decision
    BY DEF Resolution, Decision
  <2>4. \/ Cardinality(cast) < VoteThreshold /\ disputes' = [disputes EXCEPT ![d] = counted]
        \/ Cardinality(cast) >= VoteThreshold /\ disputes' = [disputes EXCEPT ![d] = resolved]
    BY <1>1, <1>6 DEF VoteDispute
  <2> HIDE DEF cast
  <2>5. counted \in Dispute /\ resolved \in Dispute
    BY <2>1, <2>2, <2>3 DEF Dispute
  <2>6. CountedStep(d, cast) => DisputeStep(d)
    BY <2>1 DEF cast, DisputeStep, VoteStep
  <2>7. CASE Cardinality(cast) < VoteThreshold /\ disputes' = [disputes EXCEPT ![d] = counted]
    <3>1. disputes'[d] = counted => CountedStep(d, cast)
      BY <2>7 DEF CountedStep
    <3> HIDE DEF counted, resolved
    <3> QED
      BY <1>3, <2>5, <2>6, <2>7, <3>1
  <2>8. CASE Cardinality(cast) >= VoteThreshold /\ disputes' = [disputes EXCEPT ![d] = resolved]
    <3>1. disputes'[d] = resolved => CountedStep(d, cast)
      BY <2>8 DEF CountedStep
    <3> HIDE DEF counted, resolved
    <3> QED
      BY <1>3, <2>5, <2>6, <2>8, <3>1
  <2> QED
    BY <2>4, <2>7, <2>8
<1>7. ASSUME Next PROVE Kept
  <2>1. ASSUME NEW s \in Account, NEW d \in DisputeId, NEW e \in EscrowId, RaiseDispute(s, d, e)
        PROVE  Kept
    BY <1>4, <2>1 DEF RaiseDispute
  <2> QED
    BY <1>2, <1>5, <1>6, <1>7, <2>1
       DEF Next, NonceOnly, RegisterParticipant, DeactivateParticipant, RecordSettlement, RecordRating,
           CreateEscrow, ReleaseEscrow, RefundEscrow, TransferRCW, SpendRCW, AnchorMerkleRoot
<1>8. ASSUME NEW s \in Account, NEW d \in DisputeId, NEW e \in EscrowId, KilledRaise(s, d, e)
      PROVE  Kept
  BY <1>2, <1>4, <1>8 DEF KilledRaise
<1> QED
  BY <1>2, <1>7, <1>8
     DEF KillNext, Whole, KilledSettlement, KilledRating, KilledRelease, KilledRefund, KilledVote,
         KilledTransfer

-----------------------------------------------------------------------------
\* The types of the variables that the lemmas above leave out.
LEMMA LedgerType ==
  ASSUME RefsOK, KillNext
  PROVE  /\ balances' \in [Account -> Nat] /\ minted' \in Nat /\ spent' \in Nat
         /\ nonce' \in [Account -> Nat]
         /\ settlements' \in [RecordId -> Account \union {Null}]
         /\ anchors' \subseteq BatchId
<1> DEFINE LedgerOK == balances' \in [Account -> Nat] /\ minted' \in Nat /\ spent' \in Nat
           RestOK == /\ nonce' \in [Account -> Nat]
                     /\ settlements' \in [RecordId -> Account \union {Null}]
                     /\ anchors' \subseteq BatchId
<1>1. TypeOK
  BY DEF RefsOK
<1>2. ASSUME UNCHANGED <<balances, minted, spent>> PROVE LedgerOK
  BY <1>1, <1>2 DEF TypeOK
<1>3. ASSUME NEW a \in Account, NEW amount \in Nat, MintTo(a, amount) PROVE LedgerOK
  BY <1>1, <1>3 DEF TypeOK, MintTo, Minted
<1>4. ASSUME NEW a \in Account, NEW b \in Account, NEW amount \in Nat, MintToBoth(a, b, amount) PROVE LedgerOK
  <2>1. Minted(balances, a, amount) \in [Account -> Nat]
    BY <1>1 DEF TypeOK, Minted
  <2> QED
    BY <1>1, <1>4, <2>1 DEF TypeOK, MintToBoth, Minted
<1>5. /\ SettlementReward \in Nat /\ RatingReward \in Nat /\ EscrowReward \in Nat /\ DisputeReward \in Nat
      /\ Amounts \subseteq Nat
  BY StateAssumption
<1>6. ASSUME NEW e \in EscrowId, escrows[e] # Null
      PROVE  escrows[e].buyer \in Account /\ escrows[e].seller \in Account
  BY <1>1, <1>6 DEF TypeOK, Escrow
<1>7. ASSUME NEW s \in Account, NEW d \in DisputeId, NEW decision \in Decision, MayVote(s, d)
      PROVE  Winner(d, Resolution(VotesWith(s, d, decision))) \in Account
  <2>1. Resolution(VotesWith(s, d, decision)) \in Decision
    BY DEF Resolution, Decision
  <2> QED
    BY <1>7, <2>1, DisputeParties DEF MayVote
<1>8. ASSUME NEW s \in Account, NEW amount \in Amounts, Affords(s, amount)
      PROVE  balances[s] - amount \in Nat
  BY <1>1, <1>5, <1>8 DEF TypeOK, Affords
<1>9. ASSUME NEW s \in Account, NEW to \in Account, NEW amount \in Amounts, TransferRCW(s, to, amount)
      PROVE  LedgerOK
  <2>1. [balances EXCEPT ![s] = @ - amount] \in [Account -> Nat]
    BY <1>1, <1>8, <1>9 DEF TypeOK, TransferRCW
  <2>2. balances' \in [Account -> Nat]
    BY <1>5, <1>9, <2>1 DEF TransferRCW, Moved
  <2> QED
    BY <1>1, <1>9, <2>2 DEF TypeOK, TransferRCW
<1>10. ASSUME NEW s \in Account, NEW amount \in Amounts, SpendRCW(s, amount)
       PROVE  LedgerOK
  <2>1. balances' \in [Account -> Nat]
    BY <1>1, <1>8, <1>10 DEF TypeOK, SpendRCW
  <2> QED
    BY <1>1, <1>5, <1>10, <2>1 DEF TypeOK, SpendRCW
<1>11. ASSUME NEW s \in Account, NEW to \in Account, NEW amount \in Amounts, KilledTransfer(s, to, amount)
       PROVE  LedgerOK
  <2>1. balances' \in [Account -> Nat]
    BY <1>1, <1>8, <1>11 DEF TypeOK, KilledTransfer
  <2> QED
    BY <1>1, <1>11, <2>1 DEF TypeOK, KilledTransfer
<1>12. LedgerOK
  <2>1. ASSUME NEW s \in Account, NEW e \in EscrowId, NEW now \in Times, ReleaseEscrow(s, e, now)
        PROVE  LedgerOK
    BY <1>4, <1>5, <1>6, <2>1 DEF ReleaseEscrow, MayRelease
  <2>2. ASSUME NEW s \in Account, NEW d \in DisputeId, NEW decision \in Decision, VoteDispute(s, d, decision)
        PROVE  LedgerOK
    BY <1>2, <1>3, <1>5, <1>7, <2>2 DEF VoteDispute
  <2>3. ASSUME Next PROVE LedgerOK
    BY ZenonT(60), <1>2, <1>3, <1>5, <1>9, <1>10, <2>1, <2>2, <2>3
       DEF Next, NonceOnly, RegisterParticipant, DeactivateParticipant, RecordSettlement, RecordRating,
           CreateEscrow, RefundEscrow, RaiseDispute, SubmitEvidence, AnchorMerkleRoot
  <2>4. ASSUME NEW s \in Account, NEW e \in EscrowId, NEW now \in Times, KilledRelease(s, e, now)
        PROVE  LedgerOK
    BY <1>2, <1>3, <1>5, <2>4 DEF KilledRelease
  <2>5. ASSUME NEW s \in Account, NEW d \in DisputeId, NEW decision \in Decision, KilledVote(s, d, decision)
        PROVE  LedgerOK
    BY <1>2, <1>3, <1>5, <1>7, <2>5 DEF KilledVote
  <2> QED
    BY <1>2, <1>11, <2>3, <2>4, <2>5
       DEF KillNext, Whole, KilledSettlement, KilledRating, KilledRefund, KilledRaise
<1>13. ASSUME NEW s \in Account, UseNonce(s) PROVE nonce' \in [Account -> Nat]
  <2>1. PICK k \in nonce[s] + 1 .. MaxNonce[s] : nonce' = [nonce EXCEPT ![s] = k]
    BY <1>13 DEF UseNonce
  <2>2. k \in Nat
    BY <1>1, StateAssumption DEF TypeOK
  <2> QED
    BY <1>1, <2>1, <2>2 DEF TypeOK
<1>14. ASSUME Next PROVE RestOK
  <2> USE <1>1, <1>13 DEF TypeOK
  <2>1. ASSUME NEW s \in Account, NEW r \in RecordId, RecordSettlement(s, r) PROVE RestOK
    BY <2>1 DEF RecordSettlement
  <2>2. ASSUME NEW s \in Account, NEW batch \in BatchId, AnchorMerkleRoot(s, batch) PROVE RestOK
    BY <2>2 DEF AnchorMerkleRoot
  <2>3. ASSUME NEW s \in Account, UseNonce(s), UNCHANGED <<settlements, anchors>> PROVE RestOK
    BY <2>3
  <2>4. ASSUME NEW s \in Account, NEW d \in DisputeId, NEW decision \in Decision, VoteDispute(s, d, decision)
        PROVE  RestOK
    BY <2>3, <2>4 DEF VoteDispute
  <2> HIDE DEF RestOK
  <2> QED
    BY ZenonT(60), <1>14, <2>1, <2>2, <2>3, <2>4
       DEF Next, NonceOnly, RegisterParticipant, DeactivateParticipant, RecordRating, CreateEscrow,
           ReleaseEscrow, RefundEscrow, RaiseDispute, SubmitEvidence, TransferRCW, SpendRCW
<1>15. RestOK
  <2>1. ASSUME NEW s \in Account, NEW r \in RecordId, KilledSettlement(s, r) PROVE RestOK
    BY <1>1, <1>13, <2>1 DEF TypeOK, KilledSettlement
  <2>2. ASSUME NEW s \in Account, UseNonce(s), UNCHANGED <<settlements, anchors>> PROVE RestOK
    BY <1>1, <1>13, <2>2 DEF TypeOK
  <2> QED
    BY ZenonT(60), <1>14, <2>1, <2>2
       DEF KillNext, Whole, KilledRating, KilledRelease, KilledRefund, KilledRaise, KilledVote, KilledTransfer
<1> QED
  BY <1>12, <1>15

-----------------------------------------------------------------------------
LEMMA InitRecordsInv == Init => RecordsInv
<1> SUFFICES ASSUME Init PROVE RecordsInv
  OBVIOUS
<1> USE DEF Init
<1>1. RefsOK
  BY DEF RefsOK, TypeOK, EscrowsOfParticipants, DisputesOfEscrows
<1>2. SuccessWithinTotal /\ VotesOpen /\ ResolvedByArbiters
  BY DEF SuccessWithinTotal, Registered, VotesOpen, ResolvedByArbiters
<1> QED
  BY <1>1, <1>2 DEF RecordsInv

\* A registered account stays registered, with its role.
LEMMA RegisteredStays ==
  ASSUME RefsOK, KillNext, NEW a \in Account, Registered(a)
  PROVE  /\ Registered(a)' /\ participants'[a].arbiter = participants[a].arbiter
         /\ participants'[a] \in Profile
<1>1. ProfileStep(participants[a], participants'[a])
  BY ProfilesChange DEF ProfilesStep
<1>2. participants[a] \in Profile
  BY DEF RefsOK, TypeOK, Registered
<1> QED
  BY <1>1, <1>2, NullAssumption DEF ProfileStep, Registered

\* An escrow stays, with its parties.
LEMMA EscrowStays ==
  ASSUME RefsOK, KillNext, NEW e \in EscrowId, escrows[e] # Null
  PROVE  /\ escrows'[e] # Null
         /\ escrows'[e].buyer = escrows[e].buyer /\ escrows'[e].seller = escrows[e].seller
<1>1. EscrowStep(e) /\ escrows'[e] \in Escrow \union {Null}
  BY EscrowsChange
<1>2. escrows[e] \in Escrow
  BY DEF RefsOK, TypeOK
<1>3. \A new : (\E state \in {"Released", "Refunded"} : new = [escrows[e] EXCEPT !.state = state])
                 => new \in Escrow /\ new.buyer = escrows[e].buyer /\ new.seller = escrows[e].seller
  BY <1>2 DEF Escrow
<1>4. \A new : (\E d \in DisputeId : new = [escrows[e] EXCEPT !.state = "Disputed", !.dispute_id = d])
                 => new \in Escrow /\ new.buyer = escrows[e].buyer /\ new.seller = escrows[e].seller
  BY <1>2 DEF Escrow
<1> QED
  BY <1>1, <1>3, <1>4, NullAssumption DEF EscrowStep

LEMMA StepKeepsRefs == RefsOK /\ KillNext => RefsOK'
<1> SUFFICES ASSUME RefsOK, KillNext PROVE RefsOK'
  OBVIOUS
<1>1. TypeOK'
  BY ProfilesChange, EscrowsChange, DisputesChange, LedgerType DEF TypeOK, ProfilesStep
<1>2. EscrowsOfParticipants'
  <2> SUFFICES ASSUME NEW e \in EscrowId, escrows'[e] # Null
               PROVE  participants'[escrows'[e].buyer] # Null /\ participants'[escrows'[e].seller] # Null
    BY DEF EscrowsOfParticipants, Registered
  <2>1. escrows'[e].buyer \in Account /\ escrows'[e].seller \in Account
    BY <1>1 DEF TypeOK, Escrow
  <2>2. Registered(escrows'[e].buyer) /\ Registered(escrows'[e].seller)
    <3>1. CASE escrows[e] # Null
      BY <3>1, EscrowStays DEF RefsOK, EscrowsOfParticipants
    <3>2. CASE escrows[e] = Null
      BY <3>2, EscrowsChange DEF EscrowStep, Disputable
    <3> QED
      BY <3>1, <3>2
  <2> QED
    BY <2>1, <2>2, RegisteredStays DEF Registered
<1>3. DisputesOfEscrows'
  <2> SUFFICES ASSUME NEW d \in DisputeId, disputes'[d] # Null
               PROVE  /\ escrows'[disputes'[d].escrow_id] # Null
                      /\ disputes'[d].raised_by \in {escrows'[disputes'[d].escrow_id].buyer,
                                                     escrows'[disputes'[d].escrow_id].seller}
    BY DEF DisputesOfEscrows, Parties
  <2> DEFINE e == disputes'[d].escrow_id
  <2>1. e \in EscrowId
    BY <1>1 DEF TypeOK, Dispute
  <2>2. escrows[e] # Null /\ disputes'[d].raised_by \in Parties(e)
    <3>1. DisputeStep(d)
      BY DisputesChange
    <3>2. CASE RaisedStep(d)
      BY <3>2 DEF RaisedStep, NewDispute, Disputable
    <3>3. CASE disputes[d] # Null /\ disputes'[d].escrow_id = disputes[d].escrow_id
                 /\ disputes'[d].raised_by = disputes[d].raised_by
      BY <3>3 DEF RefsOK, DisputesOfEscrows
    <3>4. CASE disputes'[d] = disputes[d]
      BY <3>3, <3>4
    <3>5. disputes[d] # Null => disputes[d] \in Dispute
      BY DEF RefsOK, TypeOK
    <3>6. CASE EvidenceStep(d)
      BY <3>3, <3>5, <3>6 DEF EvidenceStep, TakesEvidence, Dispute
    <3>7. CASE VoteStep(d)
      BY ZenonT(60), <3>3, <3>5, <3>7 DEF VoteStep, CountedStep, MayVote, Dispute
    <3> QED
      BY <3>1, <3>2, <3>4, <3>6, <3>7 DEF DisputeStep
  <2> QED
    BY <2>1, <2>2, EscrowStays DEF Parties
<1> QED
  BY <1>1, <1>2, <1>3 DEF RefsOK

LEMMA StepKeepsSuccess == RefsOK /\ SuccessWithinTotal /\ KillNext => SuccessWithinTotal'
<1> SUFFICES ASSUME RefsOK, SuccessWithinTotal, KillNext, NEW a \in Account, Registered(a)'
             PROVE  participants'[a].success_tx <= participants'[a].total_tx
  BY DEF SuccessWithinTotal
<1>1. ProfileStep(participants[a], participants'[a])
  BY ProfilesChange DEF ProfilesStep
<1>2. participants[a] # Null => participants[a].success_tx <= participants[a].total_tx
  BY DEF SuccessWithinTotal, Registered
<1>3. participants'[a] # Null
  BY DEF Registered
<1> DEFINE p == participants[a]
           q == participants'[a]
<1>4. ASSUME p \in Profile, q \in Profile, p.success_tx <= p.total_tx,
             CountsSuccess(p, q) \/ CountsDispute(p, q) \/ CountsRating(p, q)
      PROVE  q.success_tx <= q.total_tx
  <2>1. p.success_tx \in Nat /\ p.total_tx \in Nat /\ q.success_tx \in Nat /\ q.total_tx \in Nat
    BY <1>4 DEF Profile
  <2> HIDE DEF p, q
  <2> QED
    BY <1>4, <2>1 DEF CountsSuccess, CountsDispute, CountsRating
<1> QED
  BY <1>1, <1>2, <1>3, <1>4, NullAssumption DEF ProfileStep

\* A vote of an account that has not voted counts one vote and one voter more.
LEMMA VoteAdded ==
  ASSUME NEW votes \in SUBSET [voter : Account, decision : Decision], IsFiniteSet(votes),
         NEW s \in Account, NEW decision \in Decision, \A v \in votes : v.voter # s
  PROVE  LET cast == votes \union {[voter |-> s, decision |-> decision]}
             voters == {v.voter : v \in votes}
         IN  /\ IsFiniteSet(cast) /\ Cardinality(cast) = Cardinality(votes) + 1
             /\ Cardinality(votes) \in Nat
             /\ {v.voter : v \in cast} = voters \union {s}
             /\ Cardinality({v.voter : v \in cast}) = Cardinality(voters) + 1
<1> DEFINE vote == [voter |-> s, decision |-> decision]
           cast == votes \union {vote}
           voters == {v.voter : v \in votes}
<1>1. vote \notin votes /\ vote.voter = s
  OBVIOUS
<1>2. voters \subseteq Account /\ s \notin voters
  OBVIOUS
<1>3. IsFiniteSet(voters)
  BY <1>2, StateAssumption, FS_Subset
<1>4. {v.voter : v \in cast} = voters \union {s}
  BY <1>1
<1> HIDE DEF vote, voters
<1>5. IsFiniteSet(cast) /\ Cardinality(cast) = Cardinality(votes) + 1
  BY <1>1, FS_AddElement
<1>6. Cardinality(voters \union {s}) = Cardinality(voters) + 1
  BY <1>2, <1>3, FS_AddElement
<1>7. Cardinality(votes) \in Nat
  BY FS_CardinalityType
<1> QED
  BY <1>4, <1>5, <1>6, <1>7 DEF vote, voters

\* What ResolvedByArbiters and VotesOpen say of one dispute.
VotesSound(dispute) ==
  LET votes == dispute.votes
      voters == {v.voter : v \in votes}
  IN  /\ IsFiniteSet(votes)
      /\ Cardinality(voters) = Cardinality(votes)
      /\ \A a \in voters : Registered(a) /\ participants[a].arbiter
      /\ dispute.state \in {"Raised", "Evidence"} => votes = {}
      /\ dispute.state = "Voting" => Cardinality(votes) < VoteThreshold
      /\ dispute.state = "Resolved" <=> dispute.resolution # Null
      /\ dispute.state = "Resolved" =>
           /\ Cardinality(votes) = IF VoteThreshold = 0 THEN 1 ELSE VoteThreshold
           /\ dispute.resolution = Resolution(votes)

LEMMA VotesSoundSplit ==
  VotesOpen /\ ResolvedByArbiters <=> \A d \in DisputeId : disputes[d] # Null => VotesSound(disputes[d])
BY DEF VotesOpen, ResolvedByArbiters, VotesSound

\* A step leaves the votes of a dispute sound: as far as the profiles go, voters
\* stay registered arbiters.
LEMMA NewVotesSound ==
  ASSUME RefsOK, NEW d \in DisputeId, disputes[d] # Null => VotesSound(disputes[d]),
         DisputeStep(d), disputes'[d] # Null
  PROVE  VotesSound(disputes'[d])
<1>1. disputes[d] # Null => disputes[d] \in Dispute
  BY DEF RefsOK, TypeOK
<1>2. CASE disputes'[d] = disputes[d]
  BY <1>2
<1>3. CASE RaisedStep(d)
  <2>1. PICK s \in Account, e \in EscrowId : disputes'[d] = NewDispute(s, e)
    BY <1>3 DEF RaisedStep
  <2>2. disputes'[d].votes = {} /\ disputes'[d].state = "Raised" /\ disputes'[d].resolution = Null
    BY <2>1 DEF NewDispute
  <2> QED
    BY <2>2, FS_EmptySet DEF VotesSound
<1>4. CASE EvidenceStep(d)
  <2>1. /\ disputes[d] \in Dispute /\ disputes[d].votes = {} /\ disputes[d].resolution = Null
        /\ VotesSound(disputes[d])
    BY <1>1, <1>4 DEF EvidenceStep, TakesEvidence, VotesSound
  <2>2. disputes'[d].votes = {} /\ disputes'[d].state = "Evidence" /\ disputes'[d].resolution = Null
    BY <1>4, <2>1 DEF EvidenceStep, Dispute
  <2> QED
    BY <2>2, FS_EmptySet DEF VotesSound
<1>5. CASE VoteStep(d)
  <2>1. PICK s \in Account, decision \in Decision :
          MayVote(s, d) /\ CountedStep(d, VotesWith(s, d, decision))
    BY <1>5 DEF VoteStep
  <2> DEFINE votes == disputes[d].votes
             cast == VotesWith(s, d, decision)
             voters == {v.voter : v \in votes}
             casters == {v.voter : v \in cast}
  <2>2. /\ disputes[d] \in Dispute /\ VotesSound(disputes[d])
        /\ Registered(s) /\ participants[s].arbiter
        /\ disputes[d].state # "Resolved" /\ \A v \in votes : v.voter # s
    BY <1>1, <2>1 DEF MayVote
  <2>3. votes \in SUBSET [voter : Account, decision : Decision] /\ IsFiniteSet(votes)
    BY <2>2 DEF Dispute, VotesSound
  <2>4. /\ IsFiniteSet(cast) /\ Cardinality(cast) = Cardinality(votes) + 1
        /\ Cardinality(votes) \in Nat
        /\ casters = voters \union {s}
        /\ Cardinality(casters) = Cardinality(voters) + 1
    BY <2>2, <2>3, VoteAdded DEF VotesWith
  <2>5. /\ Cardinality(voters) = Cardinality(votes)
        /\ \A a \in voters : Registered(a) /\ participants[a].arbiter
        /\ votes = {} \/ Cardinality(votes) < VoteThreshold
        /\ disputes[d].resolution = Null
    BY <2>2 DEF VotesSound, Dispute
  <2>6. votes = {} => Cardinality(votes) = 0
    BY FS_EmptySet
  <2>7. \A a \in casters : Registered(a) /\ participants[a].arbiter
    BY <2>2, <2>4, <2>5
  <2>8. /\ disputes'[d].votes = cast
        /\ \/ /\ Cardinality(cast) < VoteThreshold
              /\ disputes'[d].state = "Voting" /\ disputes'[d].resolution = Null
           \/ /\ Cardinality(cast) >= VoteThreshold
              /\ disputes'[d].state = "Resolved" /\ disputes'[d].resolution = Resolution(cast)
    BY <2>1, <2>2, <2>5 DEF CountedStep, Dispute
  <2>9. Resolution(cast) # Null
    BY NullAssumption DEF Resolution, Decision
  <2>10. VoteThreshold \in Nat
    BY StateAssumption
  <2> HIDE DEF votes, cast, voters
  <2>11. Cardinality(cast) >= VoteThreshold =>
           Cardinality(cast) = IF VoteThreshold = 0 THEN 1 ELSE VoteThreshold
    BY <2>4, <2>5, <2>6, <2>10
  <2>12. Cardinality(casters) = Cardinality(cast)
    BY <2>4, <2>5
  <2> QED
    BY <2>4, <2>7, <2>8, <2>9, <2>11, <2>12 DEF VotesSound
<1> QED
  BY <1>2, <1>3, <1>4, <1>5 DEF DisputeStep

LEMMA StepKeepsVotes == RecordsInv /\ KillNext => VotesOpen' /\ ResolvedByArbiters'
<1> SUFFICES ASSUME RecordsInv, KillNext PROVE VotesOpen' /\ ResolvedByArbiters'
  OBVIOUS
<1>1. ASSUME NEW d \in DisputeId, disputes'[d] # Null PROVE VotesSound(disputes'[d])
  <2>1. disputes[d] # Null => VotesSound(disputes[d])
    BY VotesSoundSplit DEF RecordsInv
  <2> QED
    BY <1>1, <2>1, DisputesChange, NewVotesSound DEF RecordsInv
<1>2. ASSUME NEW d \in DisputeId, disputes'[d] # Null PROVE VotesSound(disputes[d])'
  <2>1. VotesSound(disputes'[d])
    BY <1>1, <1>2
  <2>2. disputes'[d] \in Dispute
    BY <1>2, DisputesChange DEF RecordsInv
  <2>3. \A v \in disputes'[d].votes : v.voter \in Account
    BY <2>2 DEF Dispute
  <2> DEFINE voters == {v.voter : v \in disputes'[d].votes}
  <2>4. ASSUME NEW a \in voters PROVE participants'[a] # Null /\ participants'[a].arbiter
    <3>1. a \in Account
      BY <2>3
    <3>2. Registered(a) /\ participants[a].arbiter
      BY <2>1 DEF VotesSound
    <3> QED
      BY <3>1, <3>2, RegisteredStays DEF RecordsInv, Registered
  <2> QED
    BY <2>1, <2>4 DEF VotesSound, Registered
<1>3. \A d \in DisputeId : (disputes[d] # Null)' => VotesSound(disputes[d])'
  BY <1>2
<1>4. (VotesOpen /\ ResolvedByArbiters)'
  BY <1>3, VotesSoundSplit DEF VotesOpen, ResolvedByArbiters, VotesSound
<1> QED
  BY <1>4

LEMMA StepKeepsRecords == RecordsInv /\ [KillNext]_killVars => RecordsInv'
<1> SUFFICES ASSUME RecordsInv, [KillNext]_killVars PROVE RecordsInv'
  OBVIOUS
<1>1. CASE KillNext
  BY <1>1, StepKeepsRefs, StepKeepsSuccess, StepKeepsVotes DEF RecordsInv
<1>2. CASE UNCHANGED killVars
  <2>1. UNCHANGED vars
    BY <1>2 DEF killVars, vars
  <2>2. RefsOK'
    BY <2>1 DEF vars, RecordsInv, RefsOK, TypeOK, EscrowsOfParticipants, DisputesOfEscrows, Registered, Parties
  <2>3. SuccessWithinTotal'
    BY <2>1 DEF vars, RecordsInv, SuccessWithinTotal, Registered
  <2>4. VotesOpen' /\ ResolvedByArbiters'
    BY <2>1 DEF vars, RecordsInv, VotesOpen, ResolvedByArbiters, Registered
  <2> QED
    BY <2>2, <2>3, <2>4 DEF RecordsInv
<1> QED
  BY <1>1, <1>2

\* The inductive invariant of the stored records holds of every behaviour of
\* the state machine, whichever transactions are killed and wherever (execute).
THEOREM RecordsInvariance == KillSpec => []RecordsInv
<1>1. KillInit => RecordsInv
  BY InitRecordsInv DEF KillInit
<1> QED
  BY <1>1, StepKeepsRecords, PTL DEF KillSpec

\* Every record keeps its type. In particular no balance falls below 0 and no
\* profile of an account that is not registered is written (transfer, spend,
\* release, refund, vote).
THEOREM StateTypeCorrect == KillSpec => []TypeOK
<1>1. RecordsInv => TypeOK
  BY DEF RecordsInv, RefsOK
<1> QED
  BY <1>1, RecordsInvariance, PTL

\* No profile counts more successes than transactions, also when a release or
\* a settlement is killed between its writes (compute_trust_score).
THEOREM SuccessStaysWithinTotal == KillSpec => []SuccessWithinTotal
<1>1. RecordsInv => SuccessWithinTotal
  BY DEF RecordsInv
<1> QED
  BY <1>1, RecordsInvariance, PTL

\* A dispute is resolved by exactly the threshold of votes of distinct
\* arbiters, in favour of whom they say (dispute::vote).
THEOREM DisputesResolvedByArbiters == KillSpec => []ResolvedByArbiters
<1>1. RecordsInv => ResolvedByArbiters
  BY DEF RecordsInv
<1> QED
  BY <1>1, RecordsInvariance, PTL

\* A settled escrow never changes again (escrow::release, escrow::refund,
\* dispute::raise).
THEOREM SettledEscrowsStay == KillSpec => SettledForGood
<1> DEFINE Stays == \A e \in EscrowId :
                      escrows[e] # Null /\ escrows[e].state \in {"Released", "Refunded"} =>
                        escrows'[e] = escrows[e]
<1>1. RecordsInv /\ [KillNext]_killVars => [Stays]_vars
  <2> SUFFICES ASSUME RefsOK, KillNext PROVE Stays
    BY DEF RecordsInv, killVars, vars
  <2>1. \A e \in EscrowId : EscrowStep(e)
    BY EscrowsChange
  <2> QED
    BY <2>1 DEF EscrowStep, Disputable
<1> QED
  BY <1>1, RecordsInvariance, PTL DEF KillSpec, SettledForGood

\* A disputed escrow is not settled, and keeps its parties (escrow::release,
\* escrow::refund, dispute::raise).
THEOREM DisputedEscrowsFrozen == KillSpec => DisputedIsFrozen
<1> DEFINE Frozen == \A e \in EscrowId :
                       escrows[e] # Null /\ escrows[e].state = "Disputed" =>
                         [escrows'[e] EXCEPT !.dispute_id = escrows[e].dispute_id] = escrows[e]
<1>1. RecordsInv /\ [KillNext]_killVars => [Frozen]_vars
  <2> SUFFICES ASSUME RefsOK, KillNext,
                      NEW e \in EscrowId, escrows[e] # Null, escrows[e].state = "Disputed"
               PROVE  [escrows'[e] EXCEPT !.dispute_id = escrows[e].dispute_id] = escrows[e]
    BY DEF RecordsInv, killVars, vars
  <2>1. EscrowStep(e) /\ escrows[e] \in Escrow
    BY EscrowsChange DEF RefsOK, TypeOK
  <2>2. CASE escrows'[e] = escrows[e]
    BY <2>1, <2>2 DEF Escrow
  <2>3. CASE \E d \in DisputeId :
               escrows'[e] = [escrows[e] EXCEPT !.state = "Disputed", !.dispute_id = d]
    BY <2>1, <2>3 DEF Escrow
  <2> QED
    BY <2>1, <2>2, <2>3 DEF EscrowStep
<1> QED
  BY <1>1, RecordsInvariance, PTL DEF KillSpec, DisputedIsFrozen

\* A resolution stands until the dispute is raised again by a party of an escrow
\* that is not settled (dispute::vote, submit_evidence, raise).
THEOREM ResolutionsStand == KillSpec => ResolutionStands
<1> DEFINE Stands == \A d \in DisputeId :
                       disputes[d] # Null /\ disputes[d].state = "Resolved" /\ disputes'[d] # disputes[d] =>
                         /\ disputes'[d].state = "Raised" /\ disputes'[d].votes = {}
                         /\ disputes'[d].raised_by \in Parties(disputes'[d].escrow_id)
                         /\ escrows[disputes'[d].escrow_id].state \notin {"Released", "Refunded"}
<1>1. RecordsInv /\ [KillNext]_killVars => [Stands]_vars
  <2> SUFFICES ASSUME RefsOK, KillNext,
                      NEW d \in DisputeId, disputes[d] # Null, disputes[d].state = "Resolved",
                      disputes'[d] # disputes[d]
               PROVE  /\ disputes'[d].state = "Raised" /\ disputes'[d].votes = {}
                      /\ disputes'[d].raised_by \in Parties(disputes'[d].escrow_id)
                      /\ escrows[disputes'[d].escrow_id].state \notin {"Released", "Refunded"}
    BY DEF RecordsInv, killVars, vars
  <2>1. DisputeStep(d)
    BY DisputesChange
  <2>2. RaisedStep(d)
    BY <2>1 DEF DisputeStep, EvidenceStep, TakesEvidence, VoteStep, MayVote
  <2> QED
    BY <2>2 DEF RaisedStep, NewDispute, Disputable
<1> QED
  BY <1>1, RecordsInvariance, PTL DEF KillSpec, ResolutionStands

-----------------------------------------------------------------------------
\* Rewards are paid only for a released escrow, one for each party at most.
PaidInv ==
  /\ paid \in [EscrowId -> 0 .. 2]
  /\ \A e \in EscrowId : paid[e] > 0 => escrows[e] # Null /\ escrows[e].state = "Released"

LEMMA StepKeepsPaid == RefsOK /\ PaidInv /\ [KillNext]_killVars => PaidInv'
<1> SUFFICES ASSUME RefsOK, PaidInv, [KillNext]_killVars PROVE PaidInv'
  OBVIOUS
<1>1. CASE UNCHANGED killVars
  BY <1>1 DEF killVars, PaidInv
<1>2. ASSUME KillNext, NEW e \in EscrowId, paid[e] > 0
      PROVE  escrows'[e] # Null /\ escrows'[e].state = "Released"
  BY <1>2, EscrowsChange DEF PaidInv, EscrowStep, Disputable
<1>3. ASSUME NEW s \in Account, NEW e \in EscrowId, NEW now, MayRelease(s, e, now),
             escrows' = [escrows EXCEPT ![e].state = "Released"]
      PROVE  paid[e] = 0 /\ escrows'[e] # Null /\ escrows'[e].state = "Released"
  <2>1. escrows \in [EscrowId -> Escrow \union {Null}] /\ escrows[e] \in Escrow
    BY <1>3 DEF RefsOK, TypeOK, MayRelease
  <2> DEFINE new == [escrows[e] EXCEPT !.state = "Released"]
  <2>2. new \in Escrow /\ new.state = "Released"
    BY <2>1 DEF Escrow
  <2>3. escrows'[e] = new
    BY <1>3, <2>1
  <2>4. escrows[e].state = "Created"
    BY <1>3 DEF MayRelease, Settleable
  <2> HIDE DEF new
  <2> QED
    BY <2>2, <2>3, <2>4, NullAssumption DEF PaidInv
<1>4. CASE KillNext /\ UNCHANGED paid
  BY <1>2, <1>4 DEF PaidInv
<1>5. CASE Whole
  <2> DEFINE Released(e) == \E s \in Account, now \in Times : ReleaseEscrow(s, e, now)
  <2>1. paid' = [e \in EscrowId |-> IF Released(e) THEN paid[e] + 2 ELSE paid[e]]
    BY <1>5 DEF Whole
  <2>2. ASSUME NEW e \in EscrowId, Released(e)
        PROVE  paid[e] = 0 /\ escrows'[e] # Null /\ escrows'[e].state = "Released"
    BY <1>3, <2>2 DEF ReleaseEscrow
  <2>3. KillNext
    BY <1>5 DEF KillNext
  <2> HIDE DEF Released
  <2> QED
    BY <1>2, <2>1, <2>2, <2>3 DEF PaidInv
<1>6. ASSUME NEW s \in Account, NEW e \in EscrowId, NEW now \in Times, KilledRelease(s, e, now)
      PROVE  PaidInv'
  <2>1. paid' = paid \/ paid' = [paid EXCEPT ![e] = @ + 1]
    BY <1>6 DEF KilledRelease
  <2>2. paid[e] = 0 /\ escrows'[e] # Null /\ escrows'[e].state = "Released"
    BY <1>3, <1>6 DEF KilledRelease
  <2>3. KillNext
    BY <1>6 DEF KillNext
  <2> QED
    BY <1>2, <2>1, <2>2, <2>3 DEF PaidInv
<1> QED
  BY ZenonT(60), <1>1, <1>4, <1>5, <1>6
     DEF KillNext, KilledSettlement, KilledRating, KilledRefund, KilledRaise, KilledVote, KilledTransfer

\* An escrow is rewarded at most once for each party, however often a release
\* was killed and sent again (escrow::release marks the escrow first).
THEOREM EscrowsPaidOnce == KillSpec => []EscrowPaidOnce
<1>1. KillInit => PaidInv
  BY DEF KillInit, PaidInv
<1>2. RecordsInv => RefsOK
  BY DEF RecordsInv
<1>3. PaidInv => EscrowPaidOnce
  BY DEF PaidInv, EscrowPaidOnce
<1> QED
  BY <1>1, <1>2, <1>3, StepKeepsPaid, RecordsInvariance, PTL DEF KillSpec
=============================================================================
