----------------------------- MODULE StateScores -----------------------------
(***************************************************************************)
(* The trust scores of the participants of StateKills, as the trust        *)
(* endpoint of the RPC server computes them from the stored profiles.      *)
(*                                                                         *)
(* A participant sends a few transactions in an instance, too few to leave *)
(* the first tier of any part of the score. What else it has done before   *)
(* is a past: a number of settlements of some volume over some time.       *)
(* Settlements commute with everything that changes a profile, so a        *)
(* profile with a past is one the state machine reaches.                   *)
(***************************************************************************)
EXTENDS StateKills, TrustScore

CONSTANT Pasts  \* records [settled, volume, days]

ASSUME PastsAssumption == Pasts \subseteq [settled : Nat, volume : Nat, days : Nat]

\* The profile p of a participant with a past.
With(p, past) ==
  [total_tx |-> p.total_tx + past.settled, success_tx |-> p.success_tx + past.settled,
   dispute_count |-> p.dispute_count,
   rating_sum |-> p.rating_sum, rating_count |-> p.rating_count,
   total_volume |-> past.volume,
   registered_at |-> 0, last_activity_at |-> past.days * Day]

\* The average rating is 5 at most, or there is none. Only then is the rating
\* part on the scale of 10000 it is weighted for; but record_rating takes
\* ratings up to 500, and the RPC server shows them as hundredths.
OnScale(p) == p.rating_sum <= 5 * p.rating_count

\* No score exceeds 10000, which the RPC server shows as 100, and so none is
\* changed when it is cut to 16 bits, as long as the ratings are on the scale
\* (compute_trust_score).
WithinScale ==
  \A a \in Account, past \in Pasts :
    Registered(a) /\ OnScale(participants[a]) => WideScore(With(participants[a], past)) <= 10000

\* A dispute counted against a participant, when it is raised or lost, never
\* raises its score, however many disputes there are already
\* (compute_trust_score: the part for disputes ends at 0).
LosingNeverHelps ==
  [][\A a \in Account :
       /\ Registered(a) /\ OnScale(participants[a])
       /\ participants'[a].dispute_count > participants[a].dispute_count
       => \A past \in Pasts :
            Score(With(participants'[a], past)) <= Score(With(participants[a], past))]_killVars

\* A successful transaction never lowers a score: neither the one more
\* transaction, nor the volume it adds, nor the time that has passed since the
\* last one. (Where time goes back, from one proposer's clock to another's, the
\* part for longevity may fall.)
SettlingNeverHurts ==
  [][\A a \in Account :
       /\ Registered(a) /\ OnScale(participants[a])
       /\ participants'[a].success_tx > participants[a].success_tx
       => \A old, new \in Pasts :
            /\ new.settled = old.settled
            /\ new.volume >= old.volume
            /\ new.days >= old.days
            => Score(With(participants'[a], new)) >= Score(With(participants[a], old))]_killVars

\* The first rating of a participant that has traded raises its score
\* ("rating should increase score").
RatingHelps ==
  [][\A a \in Account, past \in Pasts :
       /\ Registered(a)
       /\ participants[a].rating_count = 0 /\ participants'[a].rating_count = 1
       /\ participants'[a].total_tx = participants[a].total_tx
       /\ participants[a].total_tx + past.settled > 0
       => Score(With(participants'[a], past)) > Score(With(participants[a], past))]_killVars
=============================================================================
