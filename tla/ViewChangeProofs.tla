-------------------------- MODULE ViewChangeProofs --------------------------
(***************************************************************************)
(* Theorems about ViewChange, for every number of nodes and every bound.   *)
(* The inductive invariant is RoundInv: TypeOK and VotesAuthentic are what *)
(* makes CurrentRoundBacked and RoundLadder inductive, because a node acts *)
(* on the votes it counted and both speak of the votes really broadcast.   *)
(***************************************************************************)
EXTENDS ViewChange, FiniteSetTheorems, TLAPS

RoundInv == TypeOK /\ VotesAuthentic /\ CurrentRoundBacked /\ RoundLadder

\* The voters of one height and round are nodes, hence finitely many.
LEMMA VotersFinite ==
  ASSUME NEW vs, NEW h, NEW r
  PROVE  IsFiniteSet(Voters(vs, h, r)) /\ Cardinality(Voters(vs, h, r)) \in Nat
<1>1. IsFiniteSet(Node)
  BY NAssumption, FS_Interval DEF Node
<1>2. IsFiniteSet(Voters(vs, h, r))
  BY <1>1, FS_Subset DEF Voters
<1> QED
  BY <1>2, FS_CardinalityType

\* A larger set of votes has at least the voters of a smaller one.
LEMMA VotersMonotone ==
  ASSUME NEW vs, NEW ws, vs \subseteq ws, NEW h, NEW r
  PROVE  Cardinality(Voters(vs, h, r)) <= Cardinality(Voters(ws, h, r))
<1>1. Voters(vs, h, r) \subseteq Voters(ws, h, r)
  BY DEF Voters
<1> QED
  BY <1>1, VotersFinite, FS_Subset

\* Backing a round is never undone: more votes only back more rounds.
LEMMA BackedStays ==
  ASSUME NEW vs, NEW ws, vs \subseteq ws, NEW r, RoundBacked(vs, r)
  PROVE  RoundBacked(ws, r)
<1>1. PICK h \in 1 .. MaxHeight : 2 * Cardinality(Voters(vs, h, r)) > N
  BY DEF RoundBacked
<1>2. Cardinality(Voters(vs, h, r)) <= Cardinality(Voters(ws, h, r))
  BY VotersMonotone
<1>3. 2 * Cardinality(Voters(ws, h, r)) > N
  BY <1>1, <1>2, VotersFinite, NAssumption
<1> QED
  BY <1>3 DEF RoundBacked

\* The threshold of the code in the tally of a node is a majority of the nodes
\* among the votes really broadcast.
LEMMA TallyBacked ==
  ASSUME NEW vs, NEW tally, tally \subseteq vs,
         NEW h \in 1 .. MaxHeight, NEW r,
         Cardinality(Voters(tally, h, r)) >= Threshold
  PROVE  RoundBacked(vs, r)
<1>1. Cardinality(Voters(tally, h, r)) <= Cardinality(Voters(vs, h, r))
  BY VotersMonotone
<1>2. 2 * Cardinality(Voters(vs, h, r)) > N
  BY <1>1, VotersFinite, NAssumption DEF Threshold
<1> QED
  BY <1>2 DEF RoundBacked

LEMMA InitRoundInv == Init => RoundInv
<1> SUFFICES ASSUME Init PROVE RoundInv
  OBVIOUS
<1> USE BoundsAssumption DEF Init
<1>1. TypeOK
  BY DEF TypeOK
<1>2. VotesAuthentic /\ CurrentRoundBacked /\ RoundLadder
  BY DEF VotesAuthentic, CurrentRoundBacked, RoundLadder
<1> QED
  BY <1>1, <1>2 DEF RoundInv

\* Counting an authentic vote keeps the invariant up to the ladder, provided
\* that its round is adopted only when it is complete. Both handlers count.
LEMMA CountKeepsRounds ==
  ASSUME RoundInv, NEW n \in Node, NEW adopt \in BOOLEAN,
         NEW vote \in [height : 1 .. MaxHeight, round : 1 .. MaxRound, node_id : Node],
         adopt => Completes(n, vote),
         CountVote(n, vote, adopt),
         voted \subseteq voted', vote \in voted',
         voted' \in SUBSET [height : 1 .. MaxHeight, round : 1 .. MaxRound, node_id : Node]
  PROVE  TypeOK' /\ VotesAuthentic' /\ CurrentRoundBacked'
<1> DEFINE next == IF adopt THEN vote.round ELSE round[n]
           kept == IF adopt THEN RetainFrom(Tally(n, vote), vote.height) ELSE Tally(n, vote)
<1>1. /\ round' = [round EXCEPT ![n] = next]
      /\ votes' = [votes EXCEPT ![n] = kept]
      /\ height' = height
  BY DEF CountVote
<1>2. TypeOK /\ vote.height \in 1 .. MaxHeight /\ vote.round \in 1 .. MaxRound
  BY DEF RoundInv
<1>3. kept \subseteq Tally(n, vote)
  BY DEF RetainFrom
<1>4. Tally(n, vote) \subseteq voted'
  BY DEF Tally, RoundInv, VotesAuthentic
<1>5. adopt => RoundBacked(voted', vote.round)
  BY <1>2, <1>4, TallyBacked DEF Completes
<1> HIDE DEF kept
<1>6. TypeOK'
  <2>1. next \in 0 .. MaxRound
    BY <1>2 DEF TypeOK
  <2>2. kept \in SUBSET [height : 1 .. MaxHeight, round : 1 .. MaxRound, node_id : Node]
    BY <1>3, <1>4
  <2> QED
    BY <1>1, <1>2, <2>1, <2>2 DEF TypeOK
<1>7. VotesAuthentic'
  BY <1>1, <1>2, <1>3, <1>4 DEF RoundInv, VotesAuthentic, TypeOK
<1>8. CurrentRoundBacked'
  <2> SUFFICES ASSUME NEW m \in Node, round'[m] > 0
               PROVE  RoundBacked(voted', round'[m])
    BY DEF CurrentRoundBacked
  <2>1. CASE m = n /\ adopt
    BY <1>1, <1>2, <1>5, <2>1 DEF TypeOK
  <2>2. CASE m # n \/ ~adopt
    <3>1. round'[m] = round[m]
      BY <1>1, <1>2, <2>2 DEF TypeOK
    <3>2. RoundBacked(voted, round[m])
      BY <3>1 DEF RoundInv, CurrentRoundBacked
    <3> QED
      BY <3>1, <3>2, BackedStays
  <2> QED
    BY <2>1, <2>2
<1> QED
  BY <1>6, <1>7, <1>8

LEMMA RequestKeepsRoundInv ==
  ASSUME RoundInv, NEW n \in Node, RequestViewChange(n)
  PROVE  RoundInv'
<1> DEFINE vote == OwnVote(n)
<1>1. TypeOK
  BY DEF RoundInv
<1>2. /\ vote \in [height : 1 .. MaxHeight, round : 1 .. MaxRound, node_id : Node]
      /\ vote.round = round[n] + 1
  BY <1>1, BoundsAssumption DEF TypeOK, OwnVote, RequestViewChange
<1>3. voted' = voted \union {vote} /\ CountVote(n, vote, Completes(n, vote))
  BY DEF RequestViewChange
<1>4. Completes(n, vote) \in BOOLEAN
  BY DEF Completes
<1>5. voted' \in SUBSET [height : 1 .. MaxHeight, round : 1 .. MaxRound, node_id : Node]
  BY <1>1, <1>2, <1>3 DEF TypeOK
<1> HIDE DEF vote
<1>6. TypeOK' /\ VotesAuthentic' /\ CurrentRoundBacked'
  BY <1>2, <1>3, <1>4, <1>5, CountKeepsRounds
<1>7. RoundLadder'
  <2> SUFFICES ASSUME NEW v \in voted', v.round > 1
               PROVE  RoundBacked(voted', v.round - 1)
    BY DEF RoundLadder
  <2>1. CASE v \in voted
    BY <1>3, <2>1, BackedStays DEF RoundInv, RoundLadder
  <2>2. CASE v = vote
    <3>1. v.round - 1 = round[n] /\ round[n] > 0
      BY <1>1, <1>2, <2>2 DEF TypeOK
    <3>2. RoundBacked(voted, round[n])
      BY <3>1 DEF RoundInv, CurrentRoundBacked
    <3> QED
      BY <1>3, <3>1, <3>2, BackedStays
  <2> QED
    BY <1>3, <2>1, <2>2
<1> QED
  BY <1>6, <1>7 DEF RoundInv

LEMMA ReceiveKeepsRoundInv ==
  ASSUME RoundInv, NEW n \in Node, NEW vote \in voted, ReceiveViewChange(n, vote)
  PROVE  RoundInv'
<1>1. vote \in [height : 1 .. MaxHeight, round : 1 .. MaxRound, node_id : Node]
  BY DEF RoundInv, TypeOK
<1>2. voted' = voted /\ CountVote(n, vote, Adopts(n, vote))
  BY DEF ReceiveViewChange
<1>3. Adopts(n, vote) \in BOOLEAN /\ (Adopts(n, vote) => Completes(n, vote))
  BY DEF Adopts, Completes
<1>4. voted' \in SUBSET [height : 1 .. MaxHeight, round : 1 .. MaxRound, node_id : Node]
  BY <1>2 DEF RoundInv, TypeOK
<1>5. TypeOK' /\ VotesAuthentic' /\ CurrentRoundBacked'
  BY <1>1, <1>2, <1>3, <1>4, CountKeepsRounds
<1>6. RoundLadder'
  BY <1>2, BackedStays DEF RoundInv, RoundLadder
<1> QED
  BY <1>5, <1>6 DEF RoundInv

\* Moving the height and forgetting rounds and votes: votes already broadcast
\* are not touched.
LEMMA ForgetKeepsRoundInv ==
  ASSUME RoundInv, NEW n \in Node, ResetRound(n),
         NEW h \in 1 .. MaxHeight, height' = [height EXCEPT ![n] = h]
  PROVE  RoundInv'
<1> USE DEF RoundInv, ResetRound
<1>1. TypeOK'
  BY BoundsAssumption DEF TypeOK
<1>2. VotesAuthentic'
  BY DEF TypeOK, VotesAuthentic
<1>3. CurrentRoundBacked'
  <2> SUFFICES ASSUME NEW m \in Node, round'[m] > 0
               PROVE  RoundBacked(voted', round'[m])
    BY DEF CurrentRoundBacked
  <2>1. m # n /\ round'[m] = round[m]
    BY DEF TypeOK
  <2> QED
    BY <2>1, BackedStays DEF CurrentRoundBacked
<1>4. RoundLadder'
  BY BackedStays DEF RoundLadder
<1> QED
  BY <1>1, <1>2, <1>3, <1>4

LEMMA MoveKeepsRoundInv ==
  ASSUME RoundInv, NEW n \in Node, NEW h \in 1 .. MaxHeight, ApplyProposal(n, h)
  PROVE  RoundInv'
<1> USE DEF RoundInv, ApplyProposal
<1>1. TypeOK'
  BY DEF TypeOK
<1>2. VotesAuthentic'
  BY DEF VotesAuthentic
<1>3. CurrentRoundBacked' /\ RoundLadder'
  BY BackedStays DEF CurrentRoundBacked, RoundLadder
<1> QED
  BY <1>1, <1>2, <1>3

LEMMA StepKeepsRoundInv == RoundInv /\ [Next]_vcVars => RoundInv'
<1> SUFFICES ASSUME RoundInv, [Next]_vcVars PROVE RoundInv'
  OBVIOUS
<1>1. CASE UNCHANGED vcVars
  BY <1>1, BackedStays
     DEF vcVars, RoundInv, TypeOK, VotesAuthentic, CurrentRoundBacked, RoundLadder
<1>2. ASSUME NEW n \in Node, RequestViewChange(n) PROVE RoundInv'
  BY <1>2, RequestKeepsRoundInv
<1>3. ASSUME NEW n \in Node, NEW vote \in voted, ReceiveViewChange(n, vote)
      PROVE  RoundInv'
  BY <1>3, ReceiveKeepsRoundInv
<1>4. ASSUME NEW n \in Node, NEW h \in 1 .. MaxHeight, FinalizeOwn(n, h)
      PROVE  RoundInv'
  BY <1>4, ForgetKeepsRoundInv DEF FinalizeOwn
<1>5. ASSUME NEW n \in Node, NEW h \in 1 .. MaxHeight, ApplyProposal(n, h)
      PROVE  RoundInv'
  BY <1>5, MoveKeepsRoundInv
<1>6. ASSUME NEW n \in Node, Restart(n) PROVE RoundInv'
  <2>1. height[n] \in 1 .. MaxHeight /\ height' = [height EXCEPT ![n] = height[n]]
    BY <1>6 DEF Restart, RoundInv, TypeOK
  <2> QED
    BY <1>6, <2>1, ForgetKeepsRoundInv DEF Restart
<1> QED
  BY <1>1, <1>2, <1>3, <1>4, <1>5, <1>6 DEF Next

\* The inductive invariant holds of every behaviour of the view change
\* (request_view_change, receive_view_change, reset_round).
THEOREM RoundInvariance == Spec => []RoundInv
<1> QED
  BY InitRoundInv, StepKeepsRoundInv, PTL DEF Spec

\* Heights, rounds and votes stay within their bounds.
THEOREM TypeCorrect == Spec => []TypeOK
<1>1. RoundInv => TypeOK
  BY DEF RoundInv
<1> QED
  BY <1>1, RoundInvariance, PTL

\* Every vote that a node counts was broadcast by the node it names, through
\* resets, restarts and votes that were adopted late.
THEOREM VotesStayAuthentic == Spec => []VotesAuthentic
<1>1. RoundInv => VotesAuthentic
  BY DEF RoundInv
<1> QED
  BY <1>1, RoundInvariance, PTL

\* A node in a round above 0 was taken there by a majority of voters, however
\* stale, repeated or reordered the votes it counted are.
THEOREM EveryRoundIsBacked == Spec => []CurrentRoundBacked
<1>1. RoundInv => CurrentRoundBacked
  BY DEF RoundInv
<1> QED
  BY <1>1, RoundInvariance, PTL

\* Nobody votes for a round before a majority voted for the one below it.
THEOREM RoundsAreClimbedInOrder == Spec => []RoundLadder
<1>1. RoundInv => RoundLadder
  BY DEF RoundInv
<1> QED
  BY <1>1, RoundInvariance, PTL

\* A round falls only to 0, and then the votes are gone too.
THEOREM RoundsFallOnlyByReset == Spec => RoundFallsOnlyByReset
<1> DEFINE Falls == \A n \in Node : round'[n] < round[n] => round'[n] = 0 /\ votes'[n] = {}
<1>1. TypeOK /\ [Next]_vcVars => [Falls]_vcVars
  <2> SUFFICES ASSUME TypeOK, Next, NEW m \in Node, round'[m] < round[m]
               PROVE  round'[m] = 0 /\ votes'[m] = {}
    BY DEF vcVars
  <2> USE DEF TypeOK
  <2>1. ASSUME NEW n \in Node, RequestViewChange(n) PROVE FALSE
    BY <2>1 DEF RequestViewChange, CountVote, OwnVote
  <2>2. ASSUME NEW n \in Node, NEW vote \in voted, ReceiveViewChange(n, vote) PROVE FALSE
    BY <2>2 DEF ReceiveViewChange, CountVote, Adopts
  <2>3. ASSUME NEW n \in Node, ApplyProposal(n, height'[n]) PROVE FALSE
    BY <2>3 DEF ApplyProposal
  <2>4. ASSUME NEW n \in Node, ResetRound(n) PROVE round'[m] = 0 /\ votes'[m] = {}
    BY <2>4 DEF ResetRound
  <2> QED
    BY <2>1, <2>2, <2>3, <2>4 DEF Next, FinalizeOwn, ApplyProposal, Restart
<1> QED
  BY <1>1, TypeCorrect, PTL DEF Spec, RoundFallsOnlyByReset
=============================================================================
