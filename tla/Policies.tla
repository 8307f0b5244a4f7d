------------------------------ MODULE Policies -------------------------------
(***************************************************************************)
(* What the orchestrator makes of an opportunity and of the signals about  *)
(* its product: src/engines/orchestrator/domain/policies.py.  Each policy  *)
(* votes with a score; the composite is their weighted mean, here in       *)
(* hundredths of a point.  Rounding it to tenths, as the code does last,   *)
(* moves it past none of the thresholds.                                   *)
(*                                                                         *)
(* o is an opportunity: net profit in cents, roi in basis points, risk in  *)
(* points.  Its signals are those of Forecasts, or Absent.                   *)
(***************************************************************************)
EXTENDS Forecasts

Absent == [direction |-> "none"]

Vote(decision, points) == [decision |-> decision, points |-> points]

ProfitabilityPolicy(o) ==
    IF o.roi >= 3000 /\ o.net >= 2000 THEN Vote("execute", 90)
    ELSE IF o.roi >= 1500 /\ o.net >= 1000 THEN Vote("execute", 70)
    ELSE IF o.roi >= 500 /\ o.net >= 500 THEN Vote("monitor", 40)
    ELSE Vote("skip", 10)

PredictionAlignmentPolicy(prediction) ==
    IF prediction = Absent THEN Vote("monitor", 30)
    ELSE IF prediction.confidence < 3000 THEN Vote("hold", 20)
    ELSE IF prediction.direction = "rising" /\ prediction.confidence >= 6000 THEN Vote("execute", 85)
    ELSE IF prediction.direction = "falling" /\ prediction.confidence >= 5000 THEN Vote("skip", 15)
    ELSE Vote("monitor", 50)

TrendMomentumPolicy(trend) ==
    IF trend = Absent THEN Vote("monitor", 30)
    ELSE IF trend.type = "breakout" THEN Vote("execute", 95)
    ELSE IF trend.type = "rising" /\ trend.score >= 600 THEN Vote("execute", 75)
    ELSE IF trend.type = "falling" /\ trend.score >= 500 THEN Vote("skip", 15)
    ELSE IF trend.score >= 400 THEN Vote("monitor", 50)
    ELSE Vote("monitor", 30)

RiskAdjustmentPolicy(o) ==
    IF o.risk <= 25 THEN Vote("execute", 85)
    ELSE IF o.risk <= 45 THEN Vote("execute", 65)
    ELSE IF o.risk <= 65 THEN Vote("monitor", 40)
    ELSE Vote("skip", 10)

PolicyWeights == <<30, 25, 25, 20>>

Votes(o, prediction, trend) ==
    <<ProfitabilityPolicy(o), PredictionAlignmentPolicy(prediction), TrendMomentumPolicy(trend),
      RiskAdjustmentPolicy(o)>>

VotesFor(votes, decision) == Cardinality({i \in DOMAIN votes : votes[i].decision = decision})

reconcile(votes, composite) ==
    LET execute == VotesFor(votes, "execute")
        skip == VotesFor(votes, "skip")
        half == Len(votes) \div 2 IN
        IF composite >= 7000 /\ execute >= half THEN "execute"
        ELSE IF composite < 3000 \/ skip > half THEN "skip"
        ELSE IF composite >= 5000 THEN "monitor"
        ELSE IF execute > 0 /\ skip > 0 THEN "hold"
        ELSE "monitor"

classify_strength(votes, composite) ==
    LET kinds == Cardinality({votes[i].decision : i \in DOMAIN votes}) IN
        IF kinds = 1 /\ composite >= 7000 THEN "strong"
        ELSE IF composite >= 5000 THEN "moderate"
        ELSE IF kinds >= 3 THEN "conflicting"
        ELSE "weak"

\* CompositeDecisionPolicy.evaluate
CompositeDecision(o, prediction, trend) ==
    LET votes == Votes(o, prediction, trend)
        Weight(i) == PolicyWeights[i] * votes[i].points
        composite == Weight(1) + Weight(2) + Weight(3) + Weight(4) IN
        [decision |-> reconcile(votes, composite), score |-> composite,
         strength |-> classify_strength(votes, composite)]

-----------------------------------------------------------------------------
Deals == [roi : {400, 500, 1500, 3000}, net : {400, 500, 1000, 2000}, risk : {25, 45, 65, 66, 100}]
PredictionSignals ==
    {Absent} \cup [direction : {"rising", "falling", "stable"}, confidence : {2999, 3000, 5000, 6000, 9000}]
TrendSignals ==
    {Absent} \cup [type : {"rising", "falling", "stable"}, score : {300, 400, 500, 600}]
           \cup [type : {"breakout"}, score : {700}]

\* Engines that fail or are late take a vote away but never give one: what is
\* executed has a vote to execute from the prediction or from the trend, and
\* with one of them missing the deal is a good one at low risk.
BlindNeverExecutes ==
    \A o \in Deals, p \in PredictionSignals, t \in TrendSignals :
        CompositeDecision(o, p, t).decision = "execute" =>
            /\ "execute" \in {PredictionAlignmentPolicy(p).decision, TrendMomentumPolicy(t).decision}
            /\ Absent \in {p, t} => o.roi >= 1500 /\ o.net >= 1000 /\ o.risk <= 45

\* A market that falls is never bought into: with a vote to skip from one engine
\* it takes the best vote of the other and a deal strong on both counts.
SkipIsOutvotedByAll ==
    \A o \in Deals, p \in PredictionSignals, t \in TrendSignals :
        LET votes == Votes(o, p, t) IN
            /\ CompositeDecision(o, p, t).decision = "execute"
            /\ "skip" \in {votes[2].decision, votes[3].decision}
            => votes[1].points = 90 /\ votes[4].points = 85

\* A better deal of the same signals is never decided worse; whether to hold or
\* to monitor is no matter of better and worse.
Standing == [skip |-> 1, hold |-> 2, monitor |-> 2, execute |-> 3]
DecisionIsMonotone ==
    \A o, b \in {d \in Deals : d.roi # 400 /\ d.net \in {500, 2000} /\ d.risk # 66} :
        o.roi <= b.roi /\ o.net <= b.net /\ o.risk >= b.risk =>
            \A p \in PredictionSignals, t \in TrendSignals :
                Standing[CompositeDecision(o, p, t).decision]
                    <= Standing[CompositeDecision(b, p, t).decision]
=============================================================================
