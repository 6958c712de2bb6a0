--------------------------- MODULE ViewChangeLive ---------------------------
(***************************************************************************)
(* The view change of ViewChange while no block is decided: the heights    *)
(* stay where they are and the nodes of Live keep running their main loop. *)
(* The other nodes may stop at any time. Every ViewChange message is       *)
(* delivered in the end; rc-consensus does not retransmit, so this is what *)
(* a network without losses gives and not what the code enforces.          *)
(***************************************************************************)
EXTENDS ViewChange

CONSTANTS
  Live,      \* the nodes whose main loop keeps running
  SameStart  \* TRUE: the nodes of Live are in one round to begin with

ASSUME LiveAssumption == Live \subseteq Node /\ SameStart \in BOOLEAN

\* The last block was decided in round 0 or in round 1. Its proposer is back in
\* round 0, a follower has kept the round. What was voted for that height is
\* out of the way.
NoBlockInit ==
  /\ height = [n \in Node |-> 1]
  /\ round \in [Node -> {0, 1}]
  /\ SameStart => \A n, m \in Live : round[n] = round[m]
  /\ votes = [n \in Node |-> {}]
  /\ voted = {}

\* Draining one vote of m for round r, main.rs step 2.
Drain(n, m, r) ==
  \E vote \in voted \ votes[n] :
    /\ vote.node_id = m /\ vote.round = r /\ m # n
    /\ ReceiveViewChange(n, vote)

NoBlockNext ==
  \E n \in Node :
    \/ RequestViewChange(n)
    \/ \E m \in Node, r \in 1 .. MaxRound : Drain(n, m, r)

\* The loop ticks every block_time_ms, so an expired timer is acted on and a
\* delivered vote is drained.
NoBlockFairness ==
  \A n \in Live :
    /\ WF_vcVars(RequestViewChange(n))
    /\ \A m \in Node, r \in 1 .. MaxRound : WF_vcVars(Drain(n, m, r))

NoBlockSpec == NoBlockInit /\ [][NoBlockNext]_vcVars /\ NoBlockFairness

-----------------------------------------------------------------------------
\* As long as a majority of the nodes runs, from one and the same round on, and
\* no vote is lost, an unresponsive leader is always voted away, whatever the
\* other nodes vote: every running node goes through the rounds, up to the
\* bound, so that each node's turn as a leader comes.
RoundsAdvance ==
  \A n \in Live : \A r \in 1 .. MaxRound : <>(round[n] >= r)
=============================================================================
