--------------------------- MODULE MCStateMachine ---------------------------
(***************************************************************************)
(* Instances of the state machine for TLC. The nonces of an account bound  *)
(* how many transactions it sends: each run gives them to the accounts     *)
(* whose transactions its question is about.                               *)
(***************************************************************************)
EXTENDS StateScores, TLC

CONSTANTS Ann, Bob

\* Enough to settle an escrow, or to dispute it twice, resolve a dispute and
\* raise it again, and to record, rate, pay, spend and anchor in between.
TradeNonces == (Ann :> 4) @@ (Bob :> 3)

RatingNonces == (Ann :> 3) @@ (Bob :> 1)

Past(settled, volume, days) == [settled |-> settled, volume |-> volume, days |-> days]

\* Nothing, and what leads to the last transaction of each tier of maturity, with
\* the last value or the one after it of tiers of volume and longevity.
TierPasts ==
  {Past(0, 0, 0), Past(8, 0, 30), Past(8, 100000, 31), Past(48, 1000001, 365),
   Past(98, 1000001, 365), Past(98, 10000001, 366)}

\* Thirty days after ten settlements, as in the test of the score, and much later.
RatingPasts == {Past(10, 50000, 30), Past(100, 10000001, 400)}
=============================================================================
