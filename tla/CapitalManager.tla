--------------------------- MODULE CapitalManager ---------------------------
(***************************************************************************)
(* api/capital_manager.py: batches of candidates are ranked, the best of   *)
(* them pass cooldowns and the execution guard, and stop conditions halt   *)
(* the manager.  Everything runs in one process and without a database;    *)
(* the portfolio is the manager's own.                                     *)
(***************************************************************************)
EXTENDS Portfolio, SequencesExt

CONSTANTS
    Batches,        \* lists of candidates, see Candidate
    Manager,        \* the ManagerConfig, see ManagerFields
    Outcomes,       \* profits of the trades that end, negative for losses
    MaxBatches,     \* bound: batches of a behaviour
    MaxClock        \* bound: ticks of the clock

ManagerFields ==
    {"maxActive", "productCooldown", "marketCooldown", "topK", "dailyLoss",
     "minRate", "minTrades", "maxFall", "fullSize"}

\* buy is the marketplace it is bought on (it is sold on MarketplaceOf[opp]),
\* worth the product of confidence, profit and risk factor it is ranked by.
Candidate(c) ==
    /\ DOMAIN c = {"opp", "buy", "weight", "required", "confidence", "worth"}
    /\ c.opp \in Opps /\ {c.weight, c.required, c.confidence, c.worth} \subseteq Nat

ASSUME ManagerAssumption == Manager \in [ManagerFields -> Nat]
ASSUME BatchesAssumption ==
    \A b \in Batches : b \in Seq(Range(b)) /\ \A i \in DOMAIN b : Candidate(b[i])

VARIABLES
    money,      \* the PortfolioState
    held,       \* active_positions: [opp, amount, status]
    coolUntil,  \* when the cooldown of a product or a marketplace ends
    halted,     \* _halted
    clock,
    batches,    \* evaluate_batch calls
    bought      \* history: the trades committed, [opp, buy, at], newest last

managerVars == <<money, held, coolUntil, halted, clock, batches, bought>>

ManagerInit ==
    /\ money = InitialPortfolio /\ held = <<>> /\ coolUntil = <<>>
    /\ halted = FALSE /\ clock = 0 /\ batches = 0 /\ bought = <<>>

-----------------------------------------------------------------------------
\* What a trade of c keeps busy.
Uses(c) ==
    {<<"product", ProductOf[c.opp]>>, <<"market", c.buy>>, <<"market", MarketplaceOf[c.opp]>>}

Cooling(c, cool) == \E k \in Uses(c) \cap DOMAIN cool : clock < cool[k]

Cooldown(k) == IF k[1] = "product" THEN Manager.productCooldown ELSE Manager.marketCooldown
CoolFrom(now, S, cool) ==
    [k \in S \cup DOMAIN cool |-> IF k \in S THEN now + Cooldown(k) ELSE cool[k]]

\* A manager that forgets the marketplace it sells on.
SetBuyCooldowns(c, cool) == CoolFrom(clock, {<<"product", ProductOf[c.opp]>>, <<"market", c.buy>>}, cool)

SetCooldowns(c, cool) == CoolFrom(clock, Uses(c), cool)

\* Half of it without any confidence, all of it from min_confidence_for_full_size on.
ConfidenceScale(confidence) ==
    IF confidence >= Manager.fullSize THEN Scale
    ELSE (Scale + (Scale * confidence) \div Manager.fullSize) \div 2

\* _check_stop_conditions.  daily_loss_usd is the sum of the day of the last
\* loss, whatever today is.
StopReasons ==
    {r \in {"drawdown", "daily loss", "success rate"} :
        \/ r = "drawdown" /\ FallFromPeak(money, Manager.maxFall)
        \/ r = "daily loss" /\ money.total * Manager.dailyLoss > 0
             /\ money.dailyLoss * Scale >= money.total * Manager.dailyLoss
        \/ r = "success rate" /\ money.trades >= Manager.minTrades
             /\ money.wins * Scale < Manager.minRate * money.trades}

-----------------------------------------------------------------------------
\* _evaluate_single: what one candidate makes of portfolio and cooldowns.
Approves(acc, c) ==
    /\ Cardinality(OpenIn(acc.held)) < Manager.maxActive
    /\ ~Cooling(c, acc.cool)
    /\ Evaluate(acc.money, acc.held, c.opp, c.weight,
                (c.required * ConfidenceScale(c.confidence)) \div Scale, clock) # Rejected

EvaluateSingle(acc, c, dry) ==
    IF ~Approves(acc, c) \/ dry THEN acc
    ELSE LET amount == Evaluate(acc.money, acc.held, c.opp, c.weight,
                                (c.required * ConfidenceScale(c.confidence)) \div Scale, clock)
         IN [money  |-> OpenPosition(acc.money, amount),
             held   |-> Append(acc.held, [opp |-> c.opp, amount |-> amount, status |-> "open"]),
             cool   |-> SetCooldowns(c, acc.cool),
             bought |-> Append(acc.bought, [opp |-> c.opp, buy |-> c.buy, at |-> clock])]

\* The first top_k candidates by worth, in a stable order.
Top(candidates) ==
    LET places == SetToSortSeq(DOMAIN candidates,
                      LAMBDA i, j : candidates[i].worth > candidates[j].worth
                                    \/ (candidates[i].worth = candidates[j].worth /\ i < j))
    IN  [k \in 1..Smaller(Len(candidates), Manager.topK) |-> candidates[places[k]]]

\* One candidate after the other.
Evaluated(top, dry) ==
    LET after[n \in 0..Len(top)] ==
            IF n = 0 THEN [money |-> money, held |-> held, cool |-> coolUntil, bought |-> bought]
            ELSE EvaluateSingle(after[n - 1], top[n], dry)
    IN  after[Len(top)]

\* A manager that believes its flag, which resume() clears.
BelievesFlag == halted

Stopped == StopReasons # {}

EvaluateBatch(dry) ==
    /\ batches < MaxBatches /\ batches' = batches + 1
    /\ halted' = Stopped
    /\ IF halted' THEN UNCHANGED <<money, held, coolUntil, bought>>
       ELSE \E candidates \in Batches :
              LET after == Evaluated(Top(candidates), dry) IN
              /\ money' = after.money /\ held' = after.held
              /\ coolUntil' = after.cool /\ bought' = after.bought
    /\ UNCHANGED clock

\* record_win and record_loss end the first open position of an opportunity.
Record(opp, outcome) ==
    LET open == {i \in OpenIn(held) : held[i].opp = opp} IN
    /\ open # {}
    /\ LET i == CHOOSE x \in open : \A y \in open : x <= y IN
         /\ held' = [held EXCEPT ![i].status = IF outcome >= 0 THEN "closed" ELSE "failed"]
         /\ money' = IF outcome >= 0 THEN ClosePositionSuccess(money, held[i].amount, outcome)
                     ELSE ClosePositionFailure(money, held[i].amount, -outcome, clock)
    /\ UNCHANGED <<coolUntil, halted, clock, batches, bought>>

Resume ==
    /\ halted /\ halted' = FALSE
    /\ UNCHANGED <<money, held, coolUntil, clock, batches, bought>>

Elapse ==
    /\ clock < MaxClock /\ clock' = clock + 1
    /\ UNCHANGED <<money, held, coolUntil, halted, batches, bought>>

ManagerNext ==
    \/ \E dry \in BOOLEAN : EvaluateBatch(dry)
    \/ \E opp \in Opps, outcome \in Outcomes : Record(opp, outcome)
    \/ Resume
    \/ Elapse

ManagerSpec == ManagerInit /\ [][ManagerNext]_managerVars

-----------------------------------------------------------------------------
\* Whatever batches they come in, two trades of one product, or with a
\* marketplace in common, are a cooldown apart, and never more positions are
\* open than max_active_trades (capital_manager.py, gates 1 and 2).
TradesSpaced ==
    /\ Cardinality(OpenIn(held)) <= Manager.maxActive
    /\ \A i, j \in DOMAIN bought : i < j =>
         \A k \in Uses(bought[i]) \cap Uses(bought[j]) : bought[j].at >= bought[i].at + Cooldown(k)

\* A stop outlives its reason's name: once nothing is open, neither the next
\* day nor resume() makes the manager buy again, not even after a "daily" loss,
\* whose sum only another loss would reset.
StoppedStaysStopped == [][StopReasons # {} /\ OpenIn(held) = {} => UNCHANGED <<money, held>>]_managerVars
=============================================================================
