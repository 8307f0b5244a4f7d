----------------------------- MODULE TruthEngine -----------------------------
(***************************************************************************)
(* What src/truth_engine makes of the trades it knows of: the evaluator's  *)
(* precision, the adaptive filters, the time-to-sell model and the decision*)
(* gate.                                                                   *)
(*                                                                         *)
(* The rows of trade_outcomes come from outside: the hooks of              *)
(* integration.py write them in sessions that nothing commits.  Dollars    *)
(* are in cents, shares in basis points, days and stars in hundredths.     *)
(***************************************************************************)
EXTENDS Routes

-----------------------------------------------------------------------------
\* ledger[i] is the i-th outcome whose execution was attempted; the trade may
\* still be open, which is no success either.
evaluate_outcome(o) == o.sold /\ o.profit > 0

compute_precision_metrics(ledger) ==
    LET executed == Cardinality(DOMAIN ledger)
        successful == Cardinality({i \in DOMAIN ledger : evaluate_outcome(ledger[i])}) IN
        [executed |-> executed, successful |-> successful,
         precision |-> IF executed > 0 THEN (successful * Whole) \div executed ELSE 0]

AdaptiveFilterState ==
    [profit |-> 2000, roi |-> 1500, confidence |-> 8500, reviews |-> 50, rating |-> 420]

\* What one step of 0.05 moves each threshold by, and between which bounds.
Steps == [profit |-> 200, roi |-> 500, confidence |-> 100, reviews |-> 10, rating |-> 10]
Lowest == [profit |-> 500, roi |-> 500, confidence |-> 5000, reviews |-> 10, rating |-> 300]
Highest == [profit |-> 5000, roi |-> 4000, confidence |-> 9500, reviews |-> 200, rating |-> 480]

tighten(s) == [f \in DOMAIN s |-> Smaller(s[f] + Steps[f], Highest[f])]
relax(s) == [f \in DOMAIN s |-> Larger(s[f] - Steps[f] \div 2, Lowest[f])]

MinSamples == 10
PrecisionTarget == 7000

adapt(s, metrics) ==
    IF metrics.executed < MinSamples \/ metrics.precision = PrecisionTarget THEN s
    ELSE IF metrics.precision < PrecisionTarget THEN tighten(s)
    ELSE relax(s)

-----------------------------------------------------------------------------
\* monthly sales, reviews, price against the lowest competitor's.
Competitiveness(ratio) ==
    IF ratio <= Whole THEN Whole
    ELSE IF ratio >= 12000 THEN 0
    ELSE Whole - (ratio - Whole) * 5

Speed(monthly, reviews, ratio) ==
    (Smaller(Whole, (monthly * Whole) \div 30) * 40
     + Smaller(Whole, (reviews * Whole) \div 200) * 25
     + Competitiveness(ratio) * 35) \div 100

\* A day at full speed, a fortnight at none; profit shrinks with 1 + days.
estimate_time_to_sell(monthly, reviews, ratio, profit) ==
    LET days == Larger(100, 1400 - (Speed(monthly, reviews, ratio) * 13) \div 100) IN
        [days |-> days, adjusted |-> (profit * 100) \div (100 + days)]

\* A precision of nothing sold is taken for no history at all.
estimate_probability_of_sale(confidence, liquidity, precision) ==
    Clamp(IF precision > 0 THEN (precision * 50 + confidence * 3000 + liquidity * 2000) \div 100
          ELSE confidence * 60 + liquidity * 40, 100, 9900)

compute_expected_value(adjusted, probability) == Round(adjusted * probability)

MinExpectedValue == 1000
MinFinalScore == 15

\* Scores are in points of 100.
gate(value, confidence, liquidity, risk) ==
    /\ value >= MinExpectedValue
    /\ value * ((confidence * liquidity * (100 - risk)) \div 100) >= MinFinalScore * Whole

\* x: profit, monthly, reviews, ratio, confidence, liquidity, risk, precision.
Passes(x) ==
    gate(compute_expected_value(
           estimate_time_to_sell(x.monthly, x.reviews, x.ratio, x.profit).adjusted,
           estimate_probability_of_sale(x.confidence, x.liquidity, x.precision)),
         x.confidence, x.liquidity, x.risk)

-----------------------------------------------------------------------------
Candidates ==
    [profit : {1900, 2100, 4000, 9000}, monthly : {0, 10, 30}, reviews : {0, 200},
     ratio : {10000, 11000, 12000}, confidence : {40, 80, 100}, liquidity : {10, 60, 100},
     risk : {10, 50, 90}, precision : {0, 3000, 9000}]

Better(x) ==
    {[x EXCEPT !.profit = @ + 1000], [x EXCEPT !.monthly = @ + 10], [x EXCEPT !.reviews = @ + 50],
     [x EXCEPT !.ratio = @ - 500], [x EXCEPT !.confidence = Smaller(100, @ + 20)],
     [x EXCEPT !.liquidity = Smaller(100, @ + 20)], [x EXCEPT !.risk = @ - 10],
     [x EXCEPT !.precision = IF @ > 0 THEN @ + 1000 ELSE 0]}

\* What passes the gate still passes when one thing about it gets better, from
\* the speed of the sale through its probability to the value expected.
GateIsMonotone == \A x \in Candidates : Passes(x) => \A y \in Better(x) : Passes(y)

\* The gate asks for ten dollars, which discounted for a day is twenty at least.
GateAsksForTwice == \A x \in Candidates : Passes(x) => x.profit >= 2 * MinExpectedValue
=============================================================================
