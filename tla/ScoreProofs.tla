----------------------------- MODULE ScoreProofs -----------------------------
(***************************************************************************)
(* Theorems about the trust scores of StateScores: they stay on their      *)
(* scale, no dispute raises one and no success lowers one, for any history *)
(* of a participant. First the parts of the score as functions of a        *)
(* profile: where each is on its scale, and how it compares for two        *)
(* profiles. Divisions round down, which keeps both.                       *)
(***************************************************************************)
EXTENDS StateScores, StateProofs

\* What compute_trust_score reads.
Scored == [total_tx : Nat, success_tx : Nat, dispute_count : Nat, rating_sum : Nat, rating_count : Nat,
           total_volume : Nat, registered_at : Nat, last_activity_at : Nat]

\* A profile that the score is on its scale for.
Sound(p) == p.total_tx > 0 /\ p.success_tx <= p.total_tx /\ OnScale(p)

\* On a scale of 0 to m.
UpTo(x, m) == x \in Nat /\ x <= m

LEMMA DivBound ==
  ASSUME NEW a \in Nat, NEW b \in Nat \ {0}, NEW c \in Nat, a <= c * b
  PROVE  UpTo(a \div b, c)
BY SMT DEF UpTo

LEMMA DivMonotone ==
  ASSUME NEW a \in Nat, NEW b \in Nat \ {0}, NEW c \in Nat, NEW d \in Nat \ {0}, a * d <= c * b
  PROVE  a \div b <= c \div d /\ a \div b \in Nat /\ c \div d \in Nat
BY SMT

LEMMA ProductMonotone ==
  ASSUME NEW a \in Nat, NEW b \in Nat, NEW c \in Nat, NEW d \in Nat, a <= b, c <= d
  PROVE  a * c <= b * d /\ a * c \in Nat /\ b * d \in Nat
<1>1. a * c <= b * c
  BY SMT
<1>2. b * c <= b * d
  BY SMT
<1> QED
  BY SMT, <1>1, <1>2

\* The weighted sum of the parts, and its share in the score.
LEMMA Weighted ==
  ASSUME NEW a, UpTo(a, 10000), NEW b, UpTo(b, 10000), NEW c, UpTo(c, 10000), NEW d, UpTo(d, 10000), NEW e, UpTo(e, 10000)
  PROVE  UpTo(35 * a + 25 * b + 20 * c + 10 * d + 10 * e, 1000000)
BY SMT DEF UpTo

LEMMA Shared ==
  ASSUME NEW raw, UpTo(raw, 1000000), NEW factor, UpTo(factor, 10)
  PROVE  UpTo((raw * factor) \div 1000, 10000)
<1>1. raw * factor <= raw * 10 /\ raw * factor \in Nat
  BY SMT DEF UpTo
<1> QED
  BY SMT, <1>1 DEF UpTo

-----------------------------------------------------------------------------
\* How many of a few bounds a number is above.
LEMMA TierRange ==
  ASSUME NEW S, IsFiniteSet(S), NEW n
  PROVE  Tier(n, S) \in 0 .. Cardinality(S)
<1>1. {b \in S : n > b} \subseteq S
  OBVIOUS
<1>2. IsFiniteSet({b \in S : n > b}) /\ Cardinality({b \in S : n > b}) <= Cardinality(S)
  BY <1>1, FS_Subset
<1>3. Cardinality({b \in S : n > b}) \in Nat /\ Cardinality(S) \in Nat
  BY <1>2, FS_CardinalityType
<1> QED
  BY <1>2, <1>3 DEF Tier

LEMMA TierGrows ==
  ASSUME NEW S, IsFiniteSet(S), S \subseteq Int, NEW n \in Int, NEW m \in Int, n <= m
  PROVE  Tier(n, S) <= Tier(m, S)
<1>1. {b \in S : n > b} \subseteq {b \in S : m > b}
  <2>1. ASSUME NEW b \in S, n > b PROVE m > b
    <3>1. b \in Int
      OBVIOUS
    <3> QED
      BY <2>1, <3>1
  <2> QED
    BY <2>1
<1>2. {b \in S : m > b} \subseteq S
  OBVIOUS
<1>3. IsFiniteSet({b \in S : m > b})
  BY <1>2, FS_Subset
<1> QED
  BY <1>1, <1>3, FS_Subset DEF Tier

LEMMA FewBounds ==
  ASSUME NEW a, NEW b, NEW c, NEW d
  PROVE  /\ IsFiniteSet({a, b, c}) /\ Cardinality({a, b, c}) \in 0 .. 3
         /\ IsFiniteSet({a, b, c, d}) /\ Cardinality({a, b, c, d}) \in 0 .. 4
<1>1. IsFiniteSet({a}) /\ Cardinality({a}) = 1
  BY FS_Singleton
<1>2. {a} \union {b} = {a, b} /\ {a, b} \union {c} = {a, b, c} /\ {a, b, c} \union {d} = {a, b, c, d}
  OBVIOUS
<1>3. IsFiniteSet({a, b}) /\ Cardinality({a, b}) \in 0 .. 2
  BY <1>1, <1>2, FS_AddElement
<1>4. IsFiniteSet({a, b, c}) /\ Cardinality({a, b, c}) \in 0 .. 3
  BY <1>2, <1>3, FS_AddElement
<1> QED
  BY <1>2, <1>4, FS_AddElement

LEMMA FewTiers ==
  ASSUME NEW a \in Int, NEW b \in Int, NEW c \in Int, NEW d \in Int
  PROVE  /\ \A n : Tier(n, {a, b, c}) \in 0 .. 3 /\ Tier(n, {a, b, c, d}) \in 0 .. 4
         /\ \A n, m \in Int : n <= m => Tier(n, {a, b, c}) <= Tier(m, {a, b, c}) /\ Tier(n, {a, b, c, d}) <= Tier(m, {a, b, c, d})
<1> DEFINE S == {a, b, c}
           T == {a, b, c, d}
<1>1. IsFiniteSet(S) /\ Cardinality(S) \in 0 .. 3 /\ IsFiniteSet(T) /\ Cardinality(T) \in 0 .. 4
  BY FewBounds
<1>2. S \subseteq Int /\ T \subseteq Int
  OBVIOUS
<1> HIDE DEF S, T
<1>3. \A n : Tier(n, S) \in 0 .. Cardinality(S) /\ Tier(n, T) \in 0 .. Cardinality(T)
  BY <1>1, TierRange
<1>4. \A n : Tier(n, S) \in 0 .. 3 /\ Tier(n, T) \in 0 .. 4
  BY <1>1, <1>3
<1>5. \A n, m \in Int : n <= m => Tier(n, S) <= Tier(m, S) /\ Tier(n, T) <= Tier(m, T)
  BY <1>1, <1>2, TierGrows
<1> QED
  BY <1>4, <1>5 DEF S, T

\* The tiers of the score.
VolumeTier(n) == Tier(n, {100000, 1000000, 10000000})
DaysTier(n) == Tier(n, {30, 90, 180, 365})
MaturityTier(n) == Tier(n, {9, 49, 99})

LEMMA Tiers ==
  /\ \A n : VolumeTier(n) \in 0 .. 3 /\ DaysTier(n) \in 0 .. 4 /\ MaturityTier(n) \in 0 .. 3
  /\ \A n, m \in Int : n <= m => /\ VolumeTier(n) <= VolumeTier(m) /\ DaysTier(n) <= DaysTier(m)
                                 /\ MaturityTier(n) <= MaturityTier(m)
<1>1. PICK a \in Int, b \in Int, c \in Int : a = 100000 /\ b = 1000000 /\ c = 10000000
  BY SMT
<1>2. /\ \A n : Tier(n, {a, b, c}) \in 0 .. 3
      /\ \A n, m \in Int : n <= m => Tier(n, {a, b, c}) <= Tier(m, {a, b, c})
  BY FewTiers
<1>3. /\ \A n : VolumeTier(n) \in 0 .. 3
      /\ \A n, m \in Int : n <= m => VolumeTier(n) <= VolumeTier(m)
  BY SMT, <1>1, <1>2 DEF VolumeTier
<1>4. PICK d \in Int, e \in Int, f \in Int, g \in Int : d = 30 /\ e = 90 /\ f = 180 /\ g = 365
  BY SMT
<1>5. /\ \A n : Tier(n, {d, e, f, g}) \in 0 .. 4
      /\ \A n, m \in Int : n <= m => Tier(n, {d, e, f, g}) <= Tier(m, {d, e, f, g})
  BY FewTiers
<1>6. /\ \A n : DaysTier(n) \in 0 .. 4
      /\ \A n, m \in Int : n <= m => DaysTier(n) <= DaysTier(m)
  BY SMT, <1>4, <1>5 DEF DaysTier
<1>7. PICK h \in Int, i \in Int, j \in Int : h = 9 /\ i = 49 /\ j = 99
  BY SMT
<1>8. /\ \A n : Tier(n, {h, i, j}) \in 0 .. 3
      /\ \A n, m \in Int : n <= m => Tier(n, {h, i, j}) <= Tier(m, {h, i, j})
  BY FewTiers
<1>9. /\ \A n : MaturityTier(n) \in 0 .. 3
      /\ \A n, m \in Int : n <= m => MaturityTier(n) <= MaturityTier(m)
  BY SMT, <1>7, <1>8 DEF MaturityTier
<1> QED
  BY SMT, <1>3, <1>6, <1>9

-----------------------------------------------------------------------------
\* Every part is on the scale of 10000.
LEMMA PartsOnScale ==
  ASSUME NEW p \in Scored, Sound(p)
  PROVE  /\ UpTo(SuccessScore(p), 10000) /\ UpTo(DisputeScore(p), 10000)
         /\ UpTo(RatingScore(p), 10000) /\ UpTo(VolumeScore(p), 10000)
         /\ UpTo(LongevityScore(p), 10000)
<1>1. /\ p.total_tx \in Nat \ {0} /\ p.success_tx \in Nat /\ p.dispute_count \in Nat
      /\ p.success_tx <= p.total_tx /\ p.rating_sum \in Nat /\ p.rating_count \in Nat
      /\ p.rating_sum <= 5 * p.rating_count
  BY SMT DEF Scored, Sound, OnScale
<1>2. UpTo(SuccessScore(p), 10000)
  <2>1. p.success_tx * 10000 \in Nat /\ p.success_tx * 10000 <= 10000 * p.total_tx
    BY SMT, <1>1
  <2> QED
    BY SMT, <1>1, <2>1, DivBound DEF SuccessScore, UpTo
<1>3. UpTo(DisputeScore(p), 10000)
  <2>1. p.dispute_count * 10000 \in Nat
    BY SMT, <1>1
  <2>2. (p.dispute_count * 10000) \div p.total_tx \in Nat
    BY SMT, <1>1, <2>1
  <2> QED
    BY SMT, <2>2 DEF DisputeScore, UpTo
<1>4. UpTo(RatingScore(p), 10000)
  <2>1. CASE p.rating_count = 0
    BY SMT, <2>1 DEF RatingScore, UpTo
  <2>2. CASE p.rating_count # 0
    <3>1. p.rating_sum * 2000 \in Nat /\ p.rating_sum * 2000 <= 10000 * p.rating_count
      BY SMT, <1>1
    <3> QED
      BY SMT, <1>1, <2>2, <3>1, DivBound DEF RatingScore, UpTo
  <2> QED
    BY SMT, <2>1, <2>2
<1>5. UpTo(VolumeScore(p), 10000)
  <2>1. VolumeScore(p) = IF p.total_volume = 0 THEN 0 ELSE 2500 + 2500 * VolumeTier(p.total_volume)
    BY SMT DEF VolumeScore, VolumeTier
  <2> QED
    BY SMT, <2>1, Tiers DEF UpTo
<1>6. UpTo(LongevityScore(p), 10000)
  <2>1. \E days : LongevityScore(p) = 2000 + 2000 * DaysTier(days)
    BY SMT DEF LongevityScore, DaysTier
  <2> QED
    BY SMT, <2>1, Tiers DEF UpTo
<1> QED
  BY <1>2, <1>3, <1>4, <1>5, <1>6

LEMMA MaturityRange ==
  ASSUME NEW p \in Scored
  PROVE  /\ UpTo(MaturityFactor(p), 10)
         /\ \A q \in Scored : p.total_tx <= q.total_tx => MaturityFactor(p) <= MaturityFactor(q)
<1>1. \A q : MaturityFactor(q) = <<3, 6, 8, 10>>[1 + MaturityTier(q.total_tx)]
  BY DEF MaturityFactor, MaturityTier
<1>2. \A q : MaturityTier(q.total_tx) \in 0 .. 3
  BY Tiers
<1>3. \A q : \/ MaturityTier(q.total_tx) = 0 /\ MaturityFactor(q) = 3
             \/ MaturityTier(q.total_tx) = 1 /\ MaturityFactor(q) = 6
             \/ MaturityTier(q.total_tx) = 2 /\ MaturityFactor(q) = 8
             \/ MaturityTier(q.total_tx) = 3 /\ MaturityFactor(q) = 10
  BY SMT, <1>1, <1>2
<1>4. \A q \in Scored : p.total_tx <= q.total_tx => MaturityTier(p.total_tx) <= MaturityTier(q.total_tx)
  BY SMT, Tiers DEF Scored
<1> QED
  BY SMT, <1>3, <1>4 DEF UpTo

LEMMA WideOnScale ==
  ASSUME NEW p \in Scored, Sound(p) \/ p.total_tx = 0
  PROVE  UpTo(WideScore(p), 10000) /\ Score(p) = WideScore(p)
<1>1. UpTo(WideScore(p), 10000)
  <2>1. CASE p.total_tx = 0
    BY SMT, <2>1 DEF WideScore, UpTo
  <2>2. CASE Sound(p)
    <3>1. UpTo(RawTotal(p), 1000000)
      BY <2>2, PartsOnScale, Weighted DEF RawTotal
    <3>2. UpTo(MaturityFactor(p), 10)
      BY MaturityRange
    <3>3. UpTo((RawTotal(p) * MaturityFactor(p)) \div 1000, 10000)
      BY SMT, <3>1, <3>2, Shared
    <3> QED
      BY SMT, <2>2, <3>3 DEF WideScore, Sound, Scored
  <2> QED
    BY <2>1, <2>2
<1>2. \A n : UpTo(n, 10000) => n % 65536 = n
  BY SMT DEF UpTo
<1> QED
  BY SMT, <1>1, <1>2 DEF Score

\* A profile that is no worse in any part has no lower score.
LEMMA ScoreMonotone ==
  ASSUME NEW p \in Scored, NEW q \in Scored, Sound(p), Sound(q), p.total_tx <= q.total_tx,
         SuccessScore(p) <= SuccessScore(q), DisputeScore(p) <= DisputeScore(q),
         RatingScore(p) <= RatingScore(q), VolumeScore(p) <= VolumeScore(q),
         LongevityScore(p) <= LongevityScore(q)
  PROVE  Score(p) <= Score(q)
<1>1. RawTotal(p) \in Nat /\ RawTotal(q) \in Nat /\ RawTotal(p) <= RawTotal(q)
  BY SMT, PartsOnScale DEF RawTotal, UpTo
<1>2. MaturityFactor(p) \in Nat /\ MaturityFactor(q) \in Nat /\ MaturityFactor(p) <= MaturityFactor(q)
  BY SMT, MaturityRange DEF UpTo
<1>3. PICK a \in Nat, b \in Nat : a = RawTotal(p) * MaturityFactor(p) /\ b = RawTotal(q) * MaturityFactor(q) /\ a <= b
  BY SMT, <1>1, <1>2, ProductMonotone
<1>4. a \div 1000 <= b \div 1000
  BY SMT, <1>3
<1>5. WideScore(p) = a \div 1000 /\ WideScore(q) = b \div 1000
  BY SMT, <1>3 DEF WideScore, Sound
<1> QED
  BY SMT, <1>4, <1>5, WideOnScale

-----------------------------------------------------------------------------
\* A profile of the store with a past is what the score reads, and sound if it
\* has traded at all.
LEMMA WithPast ==
  ASSUME NEW p \in Profile, p.success_tx <= p.total_tx, OnScale(p), NEW past \in Pasts
  PROVE  /\ With(p, past) \in Scored
         /\ Sound(With(p, past)) \/ With(p, past).total_tx = 0
         /\ past.settled \in Nat /\ past.volume \in Nat /\ past.days \in Nat
<1>1. past.settled \in Nat /\ past.volume \in Nat /\ past.days \in Nat
  BY PastsAssumption
<1>2. /\ p.total_tx \in Nat /\ p.success_tx \in Nat /\ p.dispute_count \in Nat
      /\ p.rating_sum \in Nat /\ p.rating_count \in Nat
  BY DEF Profile
<1>3. /\ p.total_tx + past.settled \in Nat /\ p.success_tx + past.settled \in Nat
      /\ past.days * Day \in Nat /\ p.success_tx + past.settled <= p.total_tx + past.settled
  BY SMT, <1>1, <1>2 DEF Day
<1>4. With(p, past) \in Scored
  BY <1>1, <1>2, <1>3 DEF With, Scored
<1> QED
  BY SMT, <1>1, <1>3, <1>4 DEF Sound, OnScale, With

\* More disputes, and all else the same, is no higher score.
LEMMA LossLowers ==
  ASSUME NEW p \in Profile, NEW q \in Profile, p.success_tx <= p.total_tx, OnScale(p),
         CountsDispute(p, q), q.dispute_count >= p.dispute_count, NEW past \in Pasts
  PROVE  Score(With(q, past)) <= Score(With(p, past))
<1> DEFINE v == With(p, past)
           w == With(q, past)
<1>1. q.success_tx <= q.total_tx /\ OnScale(q)
  BY DEF CountsDispute, RatedAsBefore, OnScale
<1>2. /\ v \in Scored /\ w \in Scored
      /\ Sound(v) \/ v.total_tx = 0
      /\ Sound(w) \/ w.total_tx = 0
  BY <1>1, WithPast
<1>3. /\ w.total_tx = v.total_tx /\ w.success_tx = v.success_tx
      /\ w.rating_sum = v.rating_sum /\ w.rating_count = v.rating_count
      /\ w.total_volume = v.total_volume /\ w.registered_at = v.registered_at
      /\ w.last_activity_at = v.last_activity_at
      /\ w.dispute_count >= v.dispute_count
  BY DEF With, CountsDispute, RatedAsBefore
<1> HIDE DEF v, w
<1>4. ASSUME v.total_tx = 0 PROVE Score(w) <= Score(v)
  BY SMT, <1>2, <1>3, <1>4, WideOnScale DEF WideScore
<1>5. ASSUME Sound(v), Sound(w) PROVE Score(w) <= Score(v)
  <2>1. DisputeScore(w) <= DisputeScore(v)
    <3>1. PICK m \in Nat, n \in Nat, t \in Nat \ {0} :
            m = v.dispute_count /\ n = w.dispute_count /\ t = v.total_tx /\ m <= n
      BY SMT, <1>2, <1>3, <1>5 DEF Scored, Sound
    <3>2. m * 10000 \in Nat /\ n * 10000 \in Nat /\ (m * 10000) * t <= (n * 10000) * t
      BY SMT, <3>1, ProductMonotone
    <3>3. /\ (m * 10000) \div t <= (n * 10000) \div t
          /\ (m * 10000) \div t \in Nat /\ (n * 10000) \div t \in Nat
      BY SMT, <3>2, DivMonotone
    <3> QED
      BY SMT, <1>3, <3>1, <3>3 DEF DisputeScore
  <2>2. /\ SuccessScore(w) = SuccessScore(v) /\ RatingScore(w) = RatingScore(v)
        /\ VolumeScore(w) = VolumeScore(v) /\ LongevityScore(w) = LongevityScore(v)
    BY <1>3 DEF SuccessScore, RatingScore, VolumeScore, LongevityScore
  <2>3. /\ SuccessScore(v) \in Nat /\ RatingScore(v) \in Nat
        /\ VolumeScore(v) \in Nat /\ LongevityScore(v) \in Nat
    BY <1>2, <1>5, PartsOnScale DEF UpTo
  <2>4. /\ SuccessScore(w) <= SuccessScore(v) /\ RatingScore(w) <= RatingScore(v)
        /\ VolumeScore(w) <= VolumeScore(v) /\ LongevityScore(w) <= LongevityScore(v)
    BY SMT, <2>2, <2>3
  <2>5. w.total_tx <= v.total_tx
    BY SMT, <1>2, <1>3 DEF Scored
  <2> QED
    BY <1>2, <1>5, <2>1, <2>4, <2>5, ScoreMonotone
<1>6. (Sound(v) /\ Sound(w)) \/ v.total_tx = 0
  BY SMT, <1>2, <1>3 DEF Sound, Scored
<1> QED
  BY <1>4, <1>5, <1>6 DEF v, w

\* More successes, over no less time and of no less volume, is no lower score.
LEMMA SuccessRaises ==
  ASSUME NEW p \in Profile, NEW q \in Profile, p.success_tx <= p.total_tx, OnScale(p),
         CountsSuccess(p, q), NEW old \in Pasts, NEW new \in Pasts,
         new.settled = old.settled, new.volume >= old.volume, new.days >= old.days
  PROVE  Score(With(q, new)) >= Score(With(p, old))
<1> DEFINE v == With(p, old)
           w == With(q, new)
<1>1. PICK k \in Nat : q.success_tx = p.success_tx + k /\ q.total_tx = p.total_tx + k
  BY DEF CountsSuccess
<1>2. q.success_tx <= q.total_tx /\ OnScale(q) /\ p.success_tx \in Nat /\ p.total_tx \in Nat
  BY SMT, <1>1 DEF CountsSuccess, RatedAsBefore, OnScale, Profile
<1>3. /\ v \in Scored /\ w \in Scored
      /\ Sound(v) \/ v.total_tx = 0
      /\ Sound(w) \/ w.total_tx = 0
  BY <1>2, WithPast
<1>4. /\ old.settled \in Nat /\ old.volume \in Nat /\ new.volume \in Nat
      /\ old.days \in Nat /\ new.days \in Nat
  BY PastsAssumption
<1>5. /\ w.total_tx = v.total_tx + k /\ w.success_tx = v.success_tx + k
      /\ w.rating_sum = v.rating_sum /\ w.rating_count = v.rating_count
      /\ w.total_volume >= v.total_volume /\ w.dispute_count = v.dispute_count
      /\ w.registered_at = 0 /\ v.registered_at = 0
      /\ w.last_activity_at = new.days * Day /\ v.last_activity_at = old.days * Day
  BY SMT, <1>1, <1>2, <1>4 DEF With, CountsSuccess, RatedAsBefore
<1> HIDE DEF v, w
<1>6. ASSUME v.total_tx = 0 PROVE Score(v) <= Score(w)
  BY SMT, <1>3, <1>6, WideOnScale DEF WideScore, UpTo
<1>7. ASSUME Sound(v) PROVE Score(v) <= Score(w)
  <2>1. PICK s \in Nat, t \in Nat \ {0}, m \in Nat :
          s = v.success_tx /\ t = v.total_tx /\ m = v.dispute_count /\ s <= t
    BY SMT, <1>3, <1>7 DEF Scored, Sound
  <2>2. t + k \in Nat \ {0} /\ t <= t + k /\ s + k \in Nat /\ w.total_tx = t + k /\ w.success_tx = s + k
    BY SMT, <1>5, <2>1
  <2>3. Sound(w)
    BY SMT, <1>3, <2>2
  <2>4. SuccessScore(v) <= SuccessScore(w)
    <3>1. s * (t + k) <= (s + k) * t
      <4>1. s * k <= t * k
        BY SMT, <2>1, ProductMonotone
      <4> QED
        BY SMT, <4>1
    <3>2. /\ s * 10000 \in Nat /\ (s + k) * 10000 \in Nat
          /\ (s * 10000) * (t + k) <= ((s + k) * 10000) * t
      BY SMT, <3>1
    <3>3. PICK a \in Nat, b \in Nat, u \in Nat \ {0} :
            a = s * 10000 /\ b = (s + k) * 10000 /\ u = t + k /\ a * u <= b * t
      BY <2>2, <3>2
    <3>4. a \in Nat /\ b \in Nat /\ t \in Nat \ {0} /\ u \in Nat \ {0} /\ a * u <= b * t
      BY <2>1, <3>3
    <3>5. a \div t <= b \div u
      BY <3>4, DivMonotone
    <3> QED
      BY <2>1, <2>2, <3>3, <3>5 DEF SuccessScore
  <2>5. DisputeScore(v) <= DisputeScore(w)
    <3>1. m * 10000 \in Nat /\ (m * 10000) * t <= (m * 10000) * (t + k)
      BY SMT, <2>2, ProductMonotone
    <3>2. PICK a \in Nat, u \in Nat \ {0} : a = m * 10000 /\ u = t + k /\ a * t <= a * u
      BY <2>2, <3>1
    <3>3. a \in Nat /\ t \in Nat \ {0} /\ u \in Nat \ {0} /\ a * t <= a * u
      BY <2>1, <3>2
    <3>4. a \div u <= a \div t /\ a \div u \in Nat /\ a \div t \in Nat
      BY <3>3, DivMonotone
    <3>5. /\ v.dispute_count * 10000 = a /\ w.dispute_count * 10000 = a
          /\ v.total_tx = t /\ w.total_tx = u
      BY <1>5, <2>1, <2>2, <3>2
    <3> QED
      BY SMT, <3>4, <3>5 DEF DisputeScore
  <2>6. RatingScore(v) <= RatingScore(w)
    <3>1. RatingScore(v) = RatingScore(w)
      BY <1>5 DEF RatingScore
    <3>2. RatingScore(v) \in Nat
      BY <1>3, <1>7, PartsOnScale DEF UpTo
    <3> QED
      BY SMT, <3>1, <3>2
  <2>7. VolumeScore(v) <= VolumeScore(w)
    <3>1. /\ VolumeScore(v) = IF v.total_volume = 0 THEN 0 ELSE 2500 + 2500 * VolumeTier(v.total_volume)
          /\ VolumeScore(w) = IF w.total_volume = 0 THEN 0 ELSE 2500 + 2500 * VolumeTier(w.total_volume)
      BY SMT DEF VolumeScore, VolumeTier
    <3>2. v.total_volume \in Nat /\ w.total_volume \in Nat
      BY <1>3 DEF Scored
    <3>3. /\ VolumeTier(v.total_volume) \in 0 .. 3 /\ VolumeTier(w.total_volume) \in 0 .. 3
          /\ VolumeTier(v.total_volume) <= VolumeTier(w.total_volume)
      BY SMT, <1>5, <3>2, Tiers
    <3> QED
      BY SMT, <1>5, <3>1, <3>2, <3>3
  <2>8. LongevityScore(v) <= LongevityScore(w)
    <3>1. PICK x \in Nat, y \in Nat : x = old.days * Day /\ y = new.days * Day /\ x <= y
      <4>1. old.days * Day \in Nat /\ new.days * Day \in Nat /\ old.days * Day <= new.days * Day
        BY SMT, <1>4 DEF Day
      <4> QED
        BY <4>1
    <3>2. /\ LongevityScore(v) = 2000 + 2000 * DaysTier(IF x > 0 THEN x \div Day ELSE 0)
          /\ LongevityScore(w) = 2000 + 2000 * DaysTier(IF y > 0 THEN y \div Day ELSE 0)
      BY SMT, <1>5, <3>1 DEF LongevityScore, DaysTier
    <3>3. /\ (IF x > 0 THEN x \div Day ELSE 0) \in Int /\ (IF y > 0 THEN y \div Day ELSE 0) \in Int
          /\ (IF x > 0 THEN x \div Day ELSE 0) <= (IF y > 0 THEN y \div Day ELSE 0)
      BY SMT, <3>1 DEF Day
    <3>4. /\ DaysTier(IF x > 0 THEN x \div Day ELSE 0) \in 0 .. 4
          /\ DaysTier(IF y > 0 THEN y \div Day ELSE 0) \in 0 .. 4
          /\ DaysTier(IF x > 0 THEN x \div Day ELSE 0) <= DaysTier(IF y > 0 THEN y \div Day ELSE 0)
      BY SMT, <3>3, Tiers
    <3> QED
      BY SMT, <3>2, <3>4
  <2>9. v.total_tx <= w.total_tx
    BY SMT, <2>1, <2>2
  <2> QED
    BY <1>3, <1>7, <2>3, <2>4, <2>5, <2>6, <2>7, <2>8, <2>9, ScoreMonotone
<1>8. Score(v) \in Nat /\ Score(w) \in Nat /\ Score(v) <= Score(w)
  BY <1>3, <1>6, <1>7, WideOnScale DEF UpTo
<1> QED
  BY SMT, <1>8 DEF v, w

-----------------------------------------------------------------------------
\* No score exceeds 10000 while the ratings are on their scale, whatever the
\* participant has done before, so none is changed by the cut to 16 bits
\* (compute_trust_score).
THEOREM ScoresWithinScale == KillSpec => []WithinScale
<1>1. RecordsInv => WithinScale
  <2> SUFFICES ASSUME RecordsInv, NEW a \in Account, NEW past \in Pasts,
                      Registered(a), OnScale(participants[a])
               PROVE  WideScore(With(participants[a], past)) <= 10000
    BY DEF WithinScale
  <2>1. participants[a] \in Profile /\ participants[a].success_tx <= participants[a].total_tx
    BY DEF RecordsInv, RefsOK, TypeOK, Registered, SuccessWithinTotal
  <2> QED
    BY <2>1, WithPast, WideOnScale DEF UpTo
<1> QED
  BY <1>1, RecordsInvariance, PTL

\* The counts of a profile say which transaction has changed it.
LEMMA CountTold ==
  ASSUME RecordsInv, KillNext, NEW a \in Account, Registered(a)
  PROVE  /\ participants[a] \in Profile /\ participants'[a] \in Profile
         /\ participants[a].success_tx <= participants[a].total_tx
         /\ participants'[a].dispute_count > participants[a].dispute_count =>
              CountsDispute(participants[a], participants'[a])
         /\ participants'[a].success_tx > participants[a].success_tx =>
              CountsSuccess(participants[a], participants'[a])
<1>1. participants[a] \in Profile /\ participants[a].success_tx <= participants[a].total_tx
  BY DEF RecordsInv, RefsOK, TypeOK, Registered, SuccessWithinTotal
<1>2. ProfileStep(participants[a], participants'[a])
  BY ProfilesChange DEF RecordsInv, ProfilesStep
<1>3. PICK p, q : p = participants[a] /\ q = participants'[a]
  OBVIOUS
<1>4. p \in Profile /\ ProfileStep(p, q) /\ p # Null
  BY <1>1, <1>2, <1>3 DEF Registered
<1>5. q \in Profile
  BY <1>4 DEF ProfileStep
<1>6. p.success_tx \in Nat /\ p.dispute_count \in Nat
  BY <1>4 DEF Profile
<1>7. q.dispute_count > p.dispute_count => CountsDispute(p, q)
  BY <1>4, <1>6 DEF ProfileStep, CountsSuccess, CountsRating
<1>8. q.success_tx > p.success_tx => CountsSuccess(p, q)
  BY <1>4, <1>6 DEF ProfileStep, CountsDispute, CountsRating
<1> QED
  BY <1>1, <1>3, <1>5, <1>7, <1>8

\* A dispute counted against a participant never raises its score, whichever
\* transaction counts it and wherever it is killed (dispute::raise,
\* dispute::vote, compute_trust_score).
THEOREM DisputesNeverHelp == KillSpec => LosingNeverHelps
<1> DEFINE Lowers == \A a \in Account :
                       /\ Registered(a) /\ OnScale(participants[a])
                       /\ participants'[a].dispute_count > participants[a].dispute_count
                       => \A past \in Pasts :
                            Score(With(participants'[a], past)) <= Score(With(participants[a], past))
<1>1. RecordsInv /\ [KillNext]_killVars => [Lowers]_killVars
  <2> SUFFICES ASSUME RecordsInv, KillNext, NEW a \in Account,
                      Registered(a), OnScale(participants[a]),
                      participants'[a].dispute_count > participants[a].dispute_count,
                      NEW past \in Pasts
               PROVE  Score(With(participants'[a], past)) <= Score(With(participants[a], past))
    OBVIOUS
  <2>1. PICK p, q : p = participants[a] /\ q = participants'[a]
    OBVIOUS
  <2>2. /\ p \in Profile /\ q \in Profile /\ p.success_tx <= p.total_tx
        /\ OnScale(p) /\ CountsDispute(p, q) /\ q.dispute_count > p.dispute_count
    BY <2>1, CountTold
  <2>3. q.dispute_count >= p.dispute_count
    BY <2>2 DEF Profile
  <2> QED
    BY <2>1, <2>2, <2>3, LossLowers
<1> QED
  BY <1>1, RecordsInvariance, PTL DEF KillSpec, LosingNeverHelps

\* A successful transaction never lowers a score, as long as time and volume do
\* not fall with it (settlement::record, escrow::release, compute_trust_score).
THEOREM SuccessNeverHurts == KillSpec => SettlingNeverHurts
<1> DEFINE Raises == \A a \in Account :
                       /\ Registered(a) /\ OnScale(participants[a])
                       /\ participants'[a].success_tx > participants[a].success_tx
                       => \A old, new \in Pasts :
                            /\ new.settled = old.settled
                            /\ new.volume >= old.volume
                            /\ new.days >= old.days
                            => Score(With(participants'[a], new)) >= Score(With(participants[a], old))
<1>1. RecordsInv /\ [KillNext]_killVars => [Raises]_killVars
  <2> SUFFICES ASSUME RecordsInv, KillNext, NEW a \in Account,
                      Registered(a), OnScale(participants[a]),
                      participants'[a].success_tx > participants[a].success_tx,
                      NEW old \in Pasts, NEW new \in Pasts,
                      new.settled = old.settled, new.volume >= old.volume, new.days >= old.days
               PROVE  Score(With(participants'[a], new)) >= Score(With(participants[a], old))
    OBVIOUS
  <2>1. PICK p, q : p = participants[a] /\ q = participants'[a]
    OBVIOUS
  <2>2. /\ p \in Profile /\ q \in Profile /\ p.success_tx <= p.total_tx
        /\ OnScale(p) /\ CountsSuccess(p, q)
    BY <2>1, CountTold
  <2> QED
    BY <2>1, <2>2, SuccessRaises
<1> QED
  BY <1>1, RecordsInvariance, PTL DEF KillSpec, SettlingNeverHurts
=============================================================================
