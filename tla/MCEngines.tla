------------------------------ MODULE MCEngines -------------------------------
(***************************************************************************)
(* What decides and what buys, each part on a small instance of its own:   *)
(* the orders of the execution engine, the analyses of a scan, the         *)
(* pipeline from the orchestrator to the bridge, what is learnt of trades, *)
(* and the rules, which have no state.  A behaviour is one of the part     *)
(* that Init chooses; the others stand still.                              *)
(***************************************************************************)
EXTENDS MCExecutionOrders, Evaluation, DecisionPipeline, Realism, TradeOutcomes

VARIABLE part

engineVars == <<part, vars, evars, dvars, outcomeVars>>

EnginesInit ==
    /\ part \in {"orders", "analyses", "pipeline", "outcomes", "rules"}
    /\ Init /\ EInit /\ DInit /\ OutcomesInit
    \* What Init leaves open counts only for the part it is about.
    /\ part # "analyses" => ~strictness.hardened /\ ~strictness.shadow
    /\ part # "pipeline" => ~direct

EnginesNext ==
    /\ UNCHANGED part
    /\ \/ part = "orders" /\ Next /\ UNCHANGED <<evars, dvars, outcomeVars>>
       \/ part = "analyses" /\ ENext /\ UNCHANGED <<vars, dvars, outcomeVars>>
       \/ part = "pipeline" /\ DNext /\ UNCHANGED <<vars, evars, outcomeVars>>
       \/ part = "outcomes" /\ OutcomesNext /\ UNCHANGED <<vars, evars, dvars>>

EnginesSpec == EnginesInit /\ [][EnginesNext]_engineVars

-----------------------------------------------------------------------------
\* A phone on AliExpress and on Amazon, and on Mercado Libre together with the
\* case for it.
Title(accessory) ==
    [condition |-> "new", refurbished |-> FALSE, accessory |-> accessory, product |-> 2,
     models |-> {"x"}, capacity |-> {}, edition |-> "any", bundle |-> FALSE, model |-> "x1",
     words |-> {}]
Trade(market, rating, sales) ==
    [market |-> market, rating |-> rating, reviews |-> 8, sales |-> sales, days |-> 10,
     stability |-> 60, freeShipping |-> TRUE]

PhoneAndCase ==
    [a1 |-> Trade("amazon", 45, 5) @@ Title(0), c1 |-> Trade("aliexpress", NoRating, 0) @@ Title(0),
     m1 |-> Trade("mercadolibre_mx", 45, 2) @@ Title(0),
     m2 |-> Trade("mercadolibre_mx", 28, 2) @@ Title(0),
     m3 |-> Trade("mercadolibre_mx", 45, 0) @@ Title(1)]
PhonePrices ==
    [a1 |-> {182000}, c1 |-> {5000, 6920}, m1 |-> {250000, 360000}, m2 |-> {390000}, m3 |-> {350000}]
PhoneAges == [g \in Goods |-> IF g = "a1" THEN -1 ELSE 0]
\* Rates of MXN that a fetch may say, the second too far from the fallback, and an
\* answer without MXN.
SomeRates ==
    {[FALLBACK_RATES EXCEPT !.MXN = rate] : rate \in {2500, 3500}}
    \cup {[c \in DOMAIN FALLBACK_RATES \ {"MXN"} |-> FALLBACK_RATES[c]]}
OneMode == {x \in [hardened : BOOLEAN, shadow : BOOLEAN] : ~(x.hardened /\ x.shadow)}

\* Ten trades, of which too few or enough have paid.
TenTrades == {[i \in 1..10 |-> [sold |-> i <= k, profit |-> 100]] : k \in {4, 9}}

\* Two of one product, together dearer than the capital; one is as risky as can be.
Offer(product, buy, net, roi, risk) ==
    [product |-> product, buy |-> buy, net |-> net, roi |-> roi, risk |-> risk]
TwoOffers == [a |-> Offer("p", 4000, 1300, 3250, 20), b |-> Offer("p", 6000, 2100, 3500, 100)]
TwoInboxes == <<<<"a", "b">>, <<"a">>>>
Rises == {[direction |-> "rising", confidence |-> 9000]}
MayBreakOut == {[type |-> "breakout", score |-> 900], Absent}

-----------------------------------------------------------------------------
\* What decides, in every state: what a scan takes for an opportunity
\* (PostedWereFresh, PostedOncePerWindow, PostedPayAtTheLowest,
\* PostedAreAboveTheFloor and RatesAreBelievable), what the engines advise
\* (NothingIsDoneTwice, BlindNeverAdvised, BatchesAreWithinLimits and
\* NothingIsBought) and what is made of it afterwards (NothingIsLearnt).
EnginesSound ==
    /\ PostedWereFresh /\ PostedOncePerWindow /\ PostedPayAtTheLowest
    /\ PostedAreAboveTheFloor /\ RatesAreBelievable
    /\ NothingIsDoneTwice /\ BlindNeverAdvised /\ BatchesAreWithinLimits /\ NothingIsBought
    /\ NothingIsLearnt

\* The rules, which have no state: what the costs and the scores, the forecasts,
\* the policies, the selection, the truth engine and the realism guard promise
\* for every route and every input.
RulesSound ==
    part = "rules" =>
         /\ RoutesArePriced /\ RoutesAreFunctional /\ ClassRisesWithScore /\ ScoresAreMonotone
         /\ BreakoutTakesBoth /\ MomentumIsOutvoted /\ ForecastsAreUsable
         /\ BlindNeverExecutes /\ SkipIsOutvotedByAll /\ DecisionIsMonotone
         /\ SelectionIsMaximal /\ SelectionIsWithinLimits
         /\ GateIsMonotone /\ GateAsksForTwice
         /\ GuardIsMonotone /\ ApprovedEarns /\ OneDoubtIsForgiven
=============================================================================
