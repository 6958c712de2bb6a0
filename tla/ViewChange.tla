----------------------------- MODULE ViewChange -----------------------------
(***************************************************************************)
(* The view change of rc-consensus (crates/rc-consensus/src/lib.rs): when  *)
(* no block has been seen for view_change_timeout_ms a node votes for the  *)
(* next round at its next height, and a simple majority of votes for one   *)
(* (height, round) moves a node to that round, which rotates the leader.   *)
(*                                                                         *)
(* A node is its index in the sorted list of node ids, which is all the    *)
(* leader rotation looks at; the membership is the fixed one of the        *)
(* configuration files.                                                    *)
(***************************************************************************)
EXTENDS Integers, FiniteSets

CONSTANTS
  N,          \* number of nodes in the configuration files
  MaxHeight,  \* bound: the highest height a node may be about to decide
  MaxRound    \* bound: the highest round a node may reach

ASSUME NAssumption == N \in Nat \ {0}
ASSUME BoundsAssumption == MaxHeight \in Nat \ {0} /\ MaxRound \in Nat

VARIABLES
  height,  \* height[n] : latest stored height of n plus one
  round,   \* round[n] : Consensus::round of n
  votes,   \* votes[n] : Consensus::view_change_votes of n, as a set of votes
  voted    \* every ViewChange message broadcast so far (history). A message
           \* stays receivable: a node repeats its vote on every tick while
           \* its timer has expired, and any copy may be late or lost.

vcVars == <<height, round, votes, voted>>

Node == 0 .. N - 1

Vote == [height : Nat, round : Nat, node_id : Node]

Threshold_Half == N \div 2

Threshold_Unanimous == N

Threshold == (N \div 2) + 1

LeaderForHeightRound(h, r) == (h + r) % N

IsLeader(n, h) == LeaderForHeightRound(h, round[n]) = n

\* The nodes that have an entry for (h, r) among the votes vs.
Voters(vs, h, r) == {m \in Node : [height |-> h, round |-> r, node_id |-> m] \in vs}

\* HashMap::retain: drop the entries of the heights below h.
RetainFrom(vs, h) == {v \in vs : v.height >= h}

-----------------------------------------------------------------------------
Init ==
  /\ height = [n \in Node |-> 1]
  /\ round = [n \in Node |-> 0]
  /\ votes = [n \in Node |-> {}]
  /\ voted = {}

\* The vote of a node whose timer expired: its next round at its next height.
OwnVote_SameRound(n) == [height |-> height[n], round |-> round[n], node_id |-> n]

OwnVote(n) == [height |-> height[n], round |-> round[n] + 1, node_id |-> n]

\* What node n has counted once it counts this vote too.
Tally_AsOwn(n, vote) == votes[n] \union {[vote EXCEPT !.node_id = n]}

Tally(n, vote) == votes[n] \union {vote}

\* The vote completes a majority for its height and round.
Completes(n, vote) ==
  Cardinality(Voters(Tally(n, vote), vote.height, vote.round)) >= Threshold

\* Count the vote, and adopt its round or not.
CountVote(n, vote, adopt) ==
  /\ round' = [round EXCEPT ![n] = IF adopt THEN vote.round ELSE @]
  /\ votes' = [votes EXCEPT ![n] =
                 IF adopt THEN RetainFrom(Tally(n, vote), vote.height) ELSE Tally(n, vote)]
  /\ UNCHANGED height

\* request_view_change by the node whose timer expired, then the broadcast of
\* the vote, whether or not it completes the majority.
RequestViewChange(n) ==
  /\ round[n] < MaxRound
  /\ CountVote(n, OwnVote(n), Completes(n, OwnVote(n)))
  /\ voted' = voted \union {OwnVote(n)}

\* receive_view_change counts the vote whatever its height, and only adopts a
\* round above the current one. An own vote may come back, from a peer whose
\* address is 0.0.0.0.
Adopts_AnyRound(n, vote) == Completes(n, vote)

Adopts(n, vote) == Completes(n, vote) /\ vote.round > round[n]

ReceiveViewChange(n, vote) ==
  /\ CountVote(n, vote, Adopts(n, vote))
  /\ UNCHANGED voted

\* reset_round: after the proposer stored its own block, and what a restart
\* of the process amounts to (round and votes are only in memory).
ResetRound(n) ==
  /\ round' = [round EXCEPT ![n] = 0]
  /\ votes' = [votes EXCEPT ![n] = {}]
  /\ UNCHANGED voted

\* The proposer stores its block: the height moves and the round is reset.
FinalizeOwn(n, h) == height' = [height EXCEPT ![n] = h] /\ ResetRound(n)

\* A follower stores a proposal: the height moves, the round does not.
ApplyProposal(n, h) ==
  /\ height' = [height EXCEPT ![n] = h]
  /\ UNCHANGED <<round, votes, voted>>

\* A restart: the height is on disk, the round and the votes are not.
Restart(n) == UNCHANGED height /\ ResetRound(n)

Next ==
  \E n \in Node :
    \/ RequestViewChange(n)
    \/ \E vote \in voted : ReceiveViewChange(n, vote)
    \/ \E h \in 1 .. MaxHeight : FinalizeOwn(n, h) \/ ApplyProposal(n, h)
    \/ Restart(n)

Spec == Init /\ [][Next]_vcVars

-----------------------------------------------------------------------------
\* Among the votes vs are those of more than half of the nodes for round r at
\* one height.
RoundBacked(vs, r) == \E h \in 1 .. MaxHeight : 2 * Cardinality(Voters(vs, h, r)) > N

\* Type invariant: heights and rounds stay within their bounds and a vote is
\* always for a round above 0.
TypeOK ==
  LET BoundedVote == [height : 1 .. MaxHeight, round : 1 .. MaxRound, node_id : Node]
  IN  /\ height \in [Node -> 1 .. MaxHeight]
      /\ round \in [Node -> 0 .. MaxRound]
      /\ votes \in [Node -> SUBSET BoundedVote]
      /\ voted \in SUBSET BoundedVote

\* A node only counts votes that the voter really broadcast
\* (view_change_votes, filled by request_view_change and receive_view_change).
VotesAuthentic == \A n \in Node : votes[n] \subseteq voted

\* No node leaves round 0, whatever resets, restarts and stale votes did to the
\* others, unless a majority of the nodes voted for its round at one height.
CurrentRoundBacked == \A n \in Node : round[n] > 0 => RoundBacked(voted, round[n])

\* Rounds are climbed one majority at a time: nobody votes for round r + 1
\* before a majority voted for round r, although receive_view_change lets a
\* node jump over rounds it never voted for.
RoundLadder == \A vote \in voted : vote.round > 1 => RoundBacked(voted, vote.round - 1)

\* A late or repeated vote never takes a node back: a round falls only to 0,
\* by reset_round or a restart, and the votes are forgotten with it.
RoundFallsOnlyByReset ==
  [][\A n \in Node : round'[n] < round[n] => round'[n] = 0 /\ votes'[n] = {}]_vcVars
=============================================================================
