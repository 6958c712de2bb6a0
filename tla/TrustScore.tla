----------------------------- MODULE TrustScore -----------------------------
(***************************************************************************)
(* compute_trust_score of rc-types, a pure function of a profile: five     *)
(* parts on a scale of 10000, weighted, reduced while the participant is   *)
(* new and cut to 16 bits. Divisions round down, as they do in the code.   *)
(* The timestamps of a profile are those of block headers.                 *)
(***************************************************************************)
EXTENDS Integers, FiniteSets

\* How many of the bounds n is above: the arm of a match on ranges.
Tier(n, bounds) == Cardinality({b \in bounds : n > b})

SuccessScore(p) == (p.success_tx * 10000) \div p.total_tx

\* Three times the share of disputed transactions is taken off, down to 0.
DisputeScore_Signed(p) == 10000 - 3 * ((p.dispute_count * 10000) \div p.total_tx)

DisputeScore(p) ==
  LET penalty == 3 * ((p.dispute_count * 10000) \div p.total_tx)
  IN  IF penalty < 10000 THEN 10000 - penalty ELSE 0

\* 0 for a participant without ratings; 10000 for an average rating of 5.
RatingScore_Sum(p) == p.rating_sum * 2000

RatingScore(p) == IF p.rating_count = 0 THEN 0 ELSE (p.rating_sum * 2000) \div p.rating_count

VolumeScore(p) ==
  IF p.total_volume = 0 THEN 0
  ELSE 2500 + 2500 * Tier(p.total_volume, {100000, 1000000, 10000000})

\* The length of a day in the unit of the timestamps, as the code has it.
Day == 86400

LongevityScore(p) ==
  LET active == p.last_activity_at - p.registered_at
      days == IF active > 0 THEN active \div Day ELSE 0
  IN  2000 + 2000 * Tier(days, {30, 90, 180, 365})

RawTotal(p) ==
  35 * SuccessScore(p) + 25 * DisputeScore(p) + 20 * RatingScore(p)
    + 10 * VolumeScore(p) + 10 * LongevityScore(p)

\* In tenths: the code divides RawTotal(p) * factor by 10000 and by 100.
MaturityFactor_Typo(p) == <<3, 6, 8, 1>>[1 + Tier(p.total_tx, {9, 49, 99})]

MaturityFactor(p) == <<3, 6, 8, 10>>[1 + Tier(p.total_tx, {9, 49, 99})]

\* Before it is cut to u16.
WideScore(p) == IF p.total_tx = 0 THEN 0 ELSE (RawTotal(p) * MaturityFactor(p)) \div 1000

Score(p) == WideScore(p) % 65536
=============================================================================
