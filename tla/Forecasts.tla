------------------------------ MODULE Forecasts -------------------------------
(***************************************************************************)
(* What the trend engine and the prediction engine say of a product:       *)
(* src/engines/trend and the baseline of src/engines/prediction.           *)
(*                                                                         *)
(* Scores are in tenths of a point, ratios and changes of volume in        *)
(* thousandths, returns, momenta and confidences in basis points, prices   *)
(* in cents, times in days.                                                *)
(***************************************************************************)
EXTENDS Routes, Filtering, SequencesExt

Abs(x) == Larger(x, -x)
SumOf(s) == SumFunction(s)
MeanOf(s) == SumOf(s) \div Len(s)
LastOf(s, n) == SubSeq(s, Larger(1, Len(s) - n + 1), Len(s))

Signal(direction, score, ratio) == [direction |-> direction, score |-> score, ratio |-> ratio]
NoSignal == Signal("stable", 0, 0)

Towards(x, low, high) == IF x > high THEN "rising" ELSE IF x < low THEN "falling" ELSE "stable"

(***************************************************************************)
(* snapshots: the product once a day, the last one today's: count, price,  *)
(* v7 and v30, its listings, its price and its velocities.  The earlier    *)
(* ones are made of opportunities, with a count of competitors and a price *)
(* of purchase in place of them.                                           *)
(***************************************************************************)
Huge == 1000000

VelocitySpike(snapshots) ==
    LET latest == snapshots[Len(snapshots)]
        counts == [i \in DOMAIN snapshots |-> snapshots[i].count]
        older == SubSeq(counts, 1, Larger(Len(counts) - 3, 1))
        recent == MeanOf([i \in DOMAIN LastOf(counts, 3) |-> 1000 * LastOf(counts, 3)[i]])
        base == MeanOf([i \in DOMAIN older |-> 1000 * older[i]])
        ratio == (1000 * latest.v7) \div (IF latest.v30 > 0 THEN latest.v30 ELSE 1)
        volume == IF base > 0 THEN ((recent - base) * 1000) \div base
                  ELSE IF recent > 0 THEN Huge ELSE 0 IN
        IF Len(snapshots) < 2 THEN NoSignal
        ELSE Signal(Towards(ratio, 500, 1500),
                    Clamp(((ratio - 1000) * 2) \div 5 + volume \div 5 + 300, 0, 1000), ratio)

PriceMomentum(snapshots) ==
    LET priced == Without(snapshots, {s \in Range(snapshots) : s.price <= 0})
        returns == [i \in 1..Len(priced) - 1 |->
                      ((priced[i + 1].price - priced[i].price) * Whole) \div priced[i].price]
        n == Len(returns)
        recent == IF n >= 3 THEN MeanOf(LastOf(returns, 3)) ELSE returns[n]
        momentum == (7 * recent + 3 * MeanOf(returns)) \div 10
        acceleration == IF n >= 2 THEN returns[n] - returns[n - 1] ELSE 0 IN
        IF Len(priced) < 3 THEN NoSignal
        ELSE Signal(Towards(momentum, -200, 200),
                    Smaller(500, Abs(momentum) \div 2) + Smaller(500, Abs(acceleration)), 0)

\* Each strategy has half the vote, and a draw goes to the first one.
CompositeDirection(velocity, momentum) == velocity.direction

classify_trend_type(direction, score, ratio) ==
    IF score >= 700 /\ ratio > 2500 THEN "breakout" ELSE direction

\* The momentum strategy knows no ratio, so that the composite has half of it.
aggregate(snapshots) ==
    LET velocity == VelocitySpike(snapshots)
        momentum == PriceMomentum(snapshots)
        score == (velocity.score + momentum.score) \div 2 IN
        [score |-> score,
         type |-> classify_trend_type(CompositeDirection(velocity, momentum), score,
                                      velocity.ratio \div 2)]

-----------------------------------------------------------------------------
\* history: [price, day] in order; a straight line through it.
MinDataPoints == 3
FailedForecast == [price |-> 0, confidence |-> 0]

BaselinePredict(history, horizon) ==
    LET n == Len(history)
        days == [i \in 1..n |-> history[i].day]
        prices == [i \in 1..n |-> history[i].price]
        T == SumOf(days)
        P == SumOf(prices)
        den == n * SumOf([i \in 1..n |-> days[i] * days[i]]) - T * T
        num == n * SumOf([i \in 1..n |-> days[i] * prices[i]]) - T * P
        Line(t) == IF den = 0 THEN P \div n ELSE (P * den + num * (n * t - T)) \div (n * den)
        mape == MeanOf([i \in 1..n |-> (Abs(prices[i] - Line(days[i])) * Whole) \div prices[i]]) IN
        IF n < MinDataPoints THEN FailedForecast
        ELSE [price |-> Larger(1, Line(days[n] + horizon)),
              confidence |-> Clamp(3 * Smaller(1000, (n * 1000) \div 30)
                                   + 7 * Larger(0, 1000 - mape \div 5), 1000, 9000)]

\* Which model a history of n prices is given to.
select_best(n) == IF n >= 30 THEN "prophet" ELSE IF n >= 14 THEN "xgboost" ELSE "baseline"

\* The forecast for a week against the price of sale; a failed one is a price of 0.
PriceDirection(forecast, sell) ==
    IF forecast.price > 0 /\ sell > 0
    THEN Towards(((forecast.price - sell) * Whole) \div sell, -200, 200)
    ELSE "stable"

PredictionSignal(forecast, sell) ==
    [direction |-> PriceDirection(forecast, sell), confidence |-> forecast.confidence]

-----------------------------------------------------------------------------
Snapshots ==
    [count : {0, 4, 12}, price : {0, 5000, 5500, 9000}, v7 : {0}, v30 : {0}]
Todays == [count : {4, 12}, price : {5000, 6000, 9000}, v7 : {0, 2, 5, 11, 30}, v30 : {0, 2, 5}]
Weeks == {<<t>> : t \in Todays} \cup {<<s, t>> : s \in Snapshots, t \in Todays}
         \cup {<<s, s, r, t>> : s, r \in Snapshots, t \in Todays}

\* A breakout, the strongest vote there is, takes both strategies: a pace more
\* than five times the usual and prices on three days that have moved.
BreakoutTakesBoth ==
    \A w \in Weeks : aggregate(w).type = "breakout" =>
        /\ w[Len(w)].v7 > 5 * w[Len(w)].v30
        /\ PriceMomentum(w).score >= 400

\* A falling price never makes a trend a falling one: the direction is that of the
\* velocity alone.
MomentumIsOutvoted ==
    \A w \in Weeks : aggregate(w).type = "falling" => VelocitySpike(w).ratio < 500

Histories ==
    UNION {[1..n -> {5000, 6000, 9000}] : n \in 0..4}
Dated(prices, apart) == [i \in DOMAIN prices |-> [price |-> prices[i], day |-> apart * i]]

\* A forecast is a price, or so doubtful that no policy follows it; few prices
\* never make a sure one, and the forecast for a straight line lies on it.
ForecastsAreUsable ==
    \A h \in Histories : \A apart \in {0, 1} :
        LET f == BaselinePredict(Dated(h, apart), 7) IN
            /\ f.price > 0 \/ f.confidence < 3000
            /\ f.confidence <= 7000 + 100 * Len(h)
            /\ (Len(h) = 3 /\ apart = 1 /\ h[2] - h[1] = h[3] - h[2]) =>
                 f.price = Larger(1, h[3] + 7 * (h[3] - h[2]))
=============================================================================
