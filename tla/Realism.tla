------------------------------- MODULE Realism -------------------------------
(***************************************************************************)
(* The last gate before money is spent: src/execution_realism.  All checks *)
(* are made, and all have to pass.  Dollars are in cents, shares in basis  *)
(* points, latencies in seconds.                                           *)
(***************************************************************************)
EXTENDS Routes

UnknownStock == -1

Gap(expected, current) == Larger(current - expected, expected - current)

MaxPriceDeviation == 500
MinProfitAfterRecheck == 500

\* Dearer or cheaper by more than 5 % is no longer what was found.
validate_price(x) ==
    /\ x.expected > 0
    /\ Gap(x.expected, x.current) * Whole <= MaxPriceDeviation * x.expected
    /\ x.sell - x.current - x.fees >= MinProfitAfterRecheck

\* Confidence in the stock; nothing is left of it when there is none.
check_stock(x) ==
    LET base == CASE x.stock = UnknownStock -> 9000
                  [] x.stock = 0 -> 0
                  [] x.stock \in 1..2 -> 8500
                  [] OTHER -> Whole IN
        IF x.stockouts >= 3 THEN (base * 8) \div 10 ELSE base

\* A percent, and more for what is volatile or in demand.
slippage(x) == 100 + (x.volatility * 250) \div Whole + (Smaller(30, x.monthly) * 150) \div 30

\* The price seen last counts if it is a valid one.
effective_buy(x) == IF validate_price(x) THEN x.current ELSE x.expected

ProfitAfterSlippage(x, buy) == x.sell - Round(buy * (Whole + slippage(x))) - x.fees
MinProfitAfterSlippage == 500

MaxLatency == 300
WarningLatency == 120

\* Three percent a minute.
latency_penalty(x) == Smaller(Whole, 5 * Larger(0, x.latency - WarningLatency))

\* Half the points at the threshold, all of them at one and a half times it.
Crowd(value, threshold, points) ==
    IF value > threshold
    THEN (points * (Smaller(2 * threshold, value) * 2 - threshold)) \div (2 * threshold)
    ELSE 0

HighRoi(roi) ==
    IF roi > 3000 THEN 1500 + (1500 * Smaller(3000, roi - 3000)) \div 3000 ELSE 0

competition(x) ==
    Smaller(Whole, HighRoi(x.roi) + Smaller(2500, Crowd(x.reviews, 200, 2500))
                   + Smaller(2000, Crowd(x.monthly, 15, 2000))
                   + Smaller(1500, 30 * Larger(0, x.competitors - 15)))

MinExecutionConfidence == 3000
Share(a, b) == (a * b) \div Whole

\* The product of the price, the stock, the time and the competition.
execution_confidence(x) ==
    LET price == IF validate_price(x)
                 THEN Larger(5000, Whole - (5 * Whole * Gap(x.expected, x.current)) \div x.expected)
                 ELSE 0
        intime == IF x.latency > MaxLatency THEN 0 ELSE Whole - latency_penalty(x) IN
        Share(Share(Share(price, check_stock(x)), intime), Whole - competition(x))

realism_guard(x) ==
    /\ validate_price(x)
    /\ x.stock # 0
    /\ ProfitAfterSlippage(x, effective_buy(x)) >= MinProfitAfterSlippage
    /\ x.latency <= MaxLatency
    /\ execution_confidence(x) >= MinExecutionConfidence

-----------------------------------------------------------------------------
Purchases ==
    [expected : {10000}, current : {9400, 9600, 10000, 10400}, sell : {12000, 13000}, fees : {1000},
     stock : {UnknownStock, 0, 2, 5}, stockouts : {0, 3}, latency : {0, 200, 300, 301},
     volatility : {0, 5000}, monthly : {0, 15, 40}, roi : {1000, 7000}, reviews : {0, 300},
     competitors : {5, 40}]

Worse(x) ==
    {[x EXCEPT !.latency = @ + 50], [x EXCEPT !.competitors = @ + 20], [x EXCEPT !.stockouts = @ + 3],
     [x EXCEPT !.volatility = @ + 1000], [x EXCEPT !.reviews = @ + 100], [x EXCEPT !.roi = @ + 2000],
     [x EXCEPT !.monthly = @ + 10], [x EXCEPT !.fees = @ + 500]}

\* What is refused is never approved when it is later, more contested, more
\* volatile or costs more in fees.  (Not so for the price alone: a purchase that
\* has become cheaper by more than 5 % is refused as well.)
GuardIsMonotone ==
    \A x \in Purchases : \A y \in Worse(x) : realism_guard(y) => realism_guard(x)

\* What is approved still earns five dollars at the price seen last, after it has
\* slipped: the other checks work on that price, not on the one found first.
ApprovedEarns ==
    \A x \in Purchases : realism_guard(x) =>
        ProfitAfterSlippage(x, x.current) >= MinProfitAfterSlippage

\* In a market that is not contested the product of the doubts never refuses what
\* the single checks let pass, however many of them are at their limits.
OneDoubtIsForgiven ==
    \A x \in Purchases :
        /\ validate_price(x) /\ x.stock # 0 /\ x.latency <= MaxLatency
        /\ x.roi <= 3000 /\ x.reviews <= 200 /\ x.monthly <= 15
        => execution_confidence(x) >= MinExecutionConfidence
=============================================================================
