------------------------------ MODULE Scoring -------------------------------
(***************************************************************************)
(* The three scores of an opportunity and its risk class: src/api/scoring.py *)
(* and src/api/scoring_profiles.py.                                        *)
(*                                                                         *)
(* A factor is 0..100 points, a score hundredths of a point until it is    *)
(* rounded to tenths.  Margins and returns are in basis points, ratings in *)
(* tenths of a star, daily sales in hundredths.  The curves are monotone   *)
(* steps through the points of the originals: Log2 in steps of a quarter,  *)
(* Saturation(x) for 1 - exp(-x) in steps of a tenth.                      *)
(***************************************************************************)
EXTENDS Routes, FiniteSetsExt, SequencesExt

NoRating == -1

\* 100 * log2(x / 100), x >= 100.
Log2(x) ==
    25 * Cardinality({i \in 1..28 : x >= <<119, 141, 168, 200, 238, 283, 336, 400, 476, 566,
        673, 800, 951, 1131, 1345, 1600, 1903, 2263, 2691, 3200, 3805, 4525, 5382, 6400,
        7611, 9051, 10763, 12800>>[i]})

\* 100 * (1 - exp(-x / 10)).
Saturation(x) ==
    IF x >= 46 THEN 100
    ELSE <<0, 10, 18, 26, 33, 39, 45, 50, 55, 59, 63, 67, 70, 73, 75, 78, 80, 82, 83, 85, 86,
           88, 89, 90, 91, 92, 93, 93, 94, 94, 95, 95, 96, 96, 97, 97, 97, 98, 98, 98, 98,
           98, 99, 99, 99, 99>>[x + 1]

Points(x) == Clamp(x, 0, 100)

normalize_margin(margin) == Points((margin * 200) \div Whole)

normalize_listing_volume(n) == IF n <= 0 THEN 0 ELSE Points(20 + (25 * Log2(100 * (n + 1))) \div 100)

Reputation(rating, reviews) ==
    IF rating > 0
    THEN Points((rating * 16) \div 10
                + (IF reviews > 0 THEN Smaller(20, (5 * Log2(100 * (reviews + 1))) \div 100) ELSE 0))
    ELSE IF reviews > 0 THEN Smaller(60, reviews * 2) ELSE 30

normalize_demand(sales, reviews, daily, depth) ==
    LET bySales == Saturation(sales \div 10)
        byReviews == Saturation(reviews \div 4)
        byDay == Smaller(100, daily \div 5) IN
    IF sales > 0 THEN (bySales * 35 + byReviews * 25 + byDay * 20 + depth * 20) \div 100
    ELSE IF reviews > 0 THEN (byReviews * 40 + byDay * 30 + depth * 30) \div 100
    ELSE (byDay + depth) \div 2

\* A review stands for 33 sales.
normalize_sales_frequency(sales, reviews, days) ==
    LET tenths == (10 * (sales + 33 * reviews)) \div Larger(days, 1) IN
        IF sales + reviews = 0 THEN 10 ELSE Saturation(tenths \div 2)

(***************************************************************************)
(* i is a ScoringInput: margin, roi, competitors, listings, ratings and    *)
(* reviews of buyer and seller side, sales, reviews, daily, depth,         *)
(* stability, days, crossBorder, spread, difficulty, penalty, doubt.       *)
(***************************************************************************)
compute_factors(i) ==
    [price_margin       |-> normalize_margin(i.margin),
     marketplace_demand |-> normalize_demand(i.sales, i.reviews, i.daily, i.depth),
     historical_sales   |-> normalize_sales_frequency(i.sales, i.reviews, i.days),
     price_volatility   |-> Points(i.stability),
     listing_volume     |-> normalize_listing_volume(i.competitors),
     seller_reputation  |-> (Reputation(i.buyRating, i.buyReviews)
                             + Reputation(i.sellRating, i.sellReviews)) \div 2,
     price_stability    |-> Points(i.stability)]

Weighted(factors, weights) == SumFunction([f \in DOMAIN factors |-> factors[f] * weights[f]])

Weights(margin, demand, history, volatility, volume, reputation, stability) ==
    [price_margin |-> margin, marketplace_demand |-> demand, historical_sales |-> history,
     price_volatility |-> volatility, listing_volume |-> volume,
     seller_reputation |-> reputation, price_stability |-> stability]

OPP_WEIGHTS == Weights(20, 25, 20, 10, 10, 10, 5)

\* Hundredths of a point to tenths, within 0..1000.
Tenths(x) == Clamp((x + 5) \div 10, 0, 1000)

\* Bonus for profit that is in demand, a cut for illiquid goods, the penalty.
Adjusted(factors, weights, penalty) ==
    LET sum == Weighted(factors, weights)
        praised == IF factors.price_margin > 70 /\ factors.marketplace_demand > 60
                   THEN Smaller(Whole, (sum * 108) \div 100) ELSE sum
        cut == IF factors.listing_volume < 15 THEN (praised * 90) \div 100 ELSE praised IN
        Tenths(cut - 100 * penalty)

compute_opportunity_score(i) == Adjusted(compute_factors(i), OPP_WEIGHTS, i.penalty)

competition_risk(i) ==
    CASE i.competitors >= 10 /\ i.spread < 1000 -> 85
      [] i.competitors >= 10 /\ i.spread >= 1000 -> 65
      [] i.competitors \in 5..9 -> 45
      [] i.competitors \in 2..4 -> 25
      [] OTHER -> 80

\* The first step the margin exceeds.
margin_risk(margin) ==
    CASE margin > 4000 -> 10
      [] margin \in 2501..4000 -> 25
      [] margin \in 1501..2500 -> 40
      [] margin \in 801..1500 -> 55
      [] margin \in 501..800 -> 70
      [] OTHER -> 85

cross_border_risk(i) ==
    IF i.crossBorder THEN <<30, 50, 70>>[i.difficulty] ELSE 10

Shaky(rating) == rating # NoRating /\ rating < 30

compute_risk_score(i) ==
    LET f == compute_factors(i)
        base == 25 * (100 - f.price_volatility) + 20 * competition_risk(i)
                + 20 * (100 - f.marketplace_demand) + 15 * margin_risk(i.margin)
                + 20 * cross_border_risk(i)
        odd == (IF i.roi > 20000 THEN 1000 ELSE 0)
               + 500 * Cardinality({side \in {"buy", "sell"} :
                          Shaky(IF side = "buy" THEN i.buyRating ELSE i.sellRating)}) IN
        Tenths(base + odd)

\* Twice the weights of the signals there are, of 18.
Signals(i) ==
    LET weigh(there, w) == IF there THEN w ELSE 0 IN
        weigh(i.buyRating # NoRating, 2) + weigh(i.sellRating # NoRating, 2)
        + weigh(i.sales > 0, 3) + weigh(i.reviews > 0, 3) + weigh(i.stability # 50, 2)
        + weigh(i.daily > 0, 2) + weigh(i.days > 1, 1) + weigh(i.listings >= 3, 3)

Sqrt(n) == Max({r \in 0..60 : r * r <= n})

\* Factors that agree, and how close together they are.
Agreement(factors) ==
    LET names == DOMAIN factors
        high == Cardinality({f \in names : factors[f] > 40})
        mean == Larger(1, MapThenSumSet(LAMBDA f : factors[f], names) \div 7)
        variance == MapThenSumSet(LAMBDA f : (factors[f] - mean) * (factors[f] - mean), names) \div 6
        base == IF high >= 5 THEN 90 ELSE IF high = 4 THEN 75 ELSE IF high = 3 THEN 60 ELSE 35 IN
        Smaller(100, base + Larger(0, 20 - (20 * Sqrt(variance)) \div mean))

Recency(listings) ==
    IF listings >= 8 THEN 95 ELSE IF listings >= 5 THEN 80
    ELSE IF listings >= 3 THEN 65 ELSE IF listings >= 2 THEN 50 ELSE 25

compute_confidence_score(i) ==
    Tenths(40 * ((Signals(i) * 100) \div 18) + 35 * Agreement(compute_factors(i))
           + 25 * Recency(i.listings) - 100 * i.doubt)

ConfidenceLevel(confidence) ==
    IF confidence >= 600 THEN "high" ELSE IF confidence >= 400 THEN "medium" ELSE "low"

score(i) ==
    LET confidence == compute_confidence_score(i) IN
        [opportunity |-> compute_opportunity_score(i), risk |-> compute_risk_score(i),
         confidence |-> confidence, level |-> ConfidenceLevel(confidence)]

-----------------------------------------------------------------------------
\* Profiles: other weights and other thresholds, in tenths of a point.
Profile(weights, primeOpp, primeRisk, primeConf, standardOpp, avoidOpp) ==
    [weights |-> weights, primeOpp |-> primeOpp, primeRisk |-> primeRisk,
     primeConf |-> primeConf, standardOpp |-> standardOpp, avoidOpp |-> avoidOpp]

PROFILES ==
    [conservative |-> Profile(Weights(15, 30, 25, 10, 10, 5, 5), 700, 300, 600, 400, 250),
     balanced     |-> Profile(OPP_WEIGHTS, 650, 350, 550, 400, 250),
     aggressive   |-> Profile(Weights(30, 20, 15, 5, 10, 10, 10), 550, 450, 550, 350, 250),
     volume       |-> Profile(Weights(10, 35, 25, 10, 10, 5, 5), 650, 350, 550, 300, 150)]

StandardMaxRisk == 550
StandardMinConf == 500

\* Tests in the order of the code: prime, avoid, standard, speculative.
classify_risk(opp, risk, conf, profile) ==
    CASE opp >= profile.primeOpp /\ risk <= profile.primeRisk /\ conf >= profile.primeConf ->
            "prime"
      [] opp <= profile.avoidOpp -> "avoid"
      [] opp > profile.avoidOpp /\ opp >= profile.standardOpp /\ risk <= StandardMaxRisk
         /\ conf >= StandardMinConf
         /\ ~(opp >= profile.primeOpp /\ risk <= profile.primeRisk /\ conf >= profile.primeConf) ->
            "standard"
      [] opp > profile.avoidOpp /\ opp >= profile.standardOpp /\ risk > StandardMaxRisk ->
            "speculative"
      [] OTHER -> "avoid"

score_with_profile(i, name) ==
    LET profile == PROFILES[name]
        opp == Adjusted(compute_factors(i), profile.weights, i.penalty)
        base == score(i) IN
        [base EXCEPT !.opportunity = opp]
        @@ [class |-> classify_risk(opp, base.risk, base.confidence, profile)]

-----------------------------------------------------------------------------
Rank(class) == CHOOSE k \in 1..4 : <<"avoid", "speculative", "standard", "prime">>[k] = class

\* Classes never get worse as the opportunity or the confidence gets better,
\* whatever the profile: four thresholds and the order of the tests.
ClassRisesWithScore ==
    \A name \in DOMAIN PROFILES : \A o, c \in {50 * k : k \in 0..20}, r \in {100 * k : k \in 0..10} :
        LET class(opp, conf) == Rank(classify_risk(opp, r, conf, PROFILES[name])) IN
            class(o, c) <= Smaller(class(o + 50, c), class(o, c + 50))

\* Inputs around a usual one, one signal at a time.
Usual ==
    [margin |-> 2000, roi |-> 4000, competitors |-> 4, listings |-> 6, buyRating |-> 45,
     sellRating |-> 45, buyReviews |-> 10, sellReviews |-> 10, sales |-> 20, reviews |-> 10,
     daily |-> 100, depth |-> 45, stability |-> 60, days |-> 10, crossBorder |-> TRUE,
     spread |-> 1200, difficulty |-> 2, penalty |-> 5, doubt |-> 0]

AtMargin(i, m) == [i EXCEPT !.margin = m]
AtSales(i, s) == [i EXCEPT !.sales = s]
Around == {[Usual EXCEPT !.competitors = n, !.sellRating = r, !.stability = s] :
              n \in {1, 2, 9, 10}, r \in {NoRating, 25, 45}, s \in {0, 50, 90}}

\* A better margin is never scored lower nor held to be riskier, although the
\* margin also decides on the bonus; and more sales never are riskier.
ScoresAreMonotone ==
    \A i \in Around :
        /\ \A m \in {300 * k : k \in 0..20} :
              LET low == score(AtMargin(i, m)) high == score(AtMargin(i, m + 300)) IN
                  low.opportunity <= high.opportunity /\ low.risk >= high.risk
        /\ \A s \in {20 * k : k \in 1..10} :
              LET low == score(AtSales(i, s)) high == score(AtSales(i, s + 20)) IN
                  low.opportunity <= high.opportunity /\ low.risk >= high.risk
=============================================================================
