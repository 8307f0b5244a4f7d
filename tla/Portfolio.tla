----------------------------- MODULE Portfolio -----------------------------
(***************************************************************************)
(* The pure part of src/capital_management: what the portfolio tracker,    *)
(* the risk manager, the position sizer, the diversification guard and the *)
(* execution guard compute from a portfolio and its open positions.        *)
(*                                                                         *)
(* Money is counted in the smallest unit the database keeps (a cent of a   *)
(* NUMERIC(12,2)).  Percentages, scores and factors are whole numbers out  *)
(* of Scale, where the code has fractions of 1.0.  A candidate's weight    *)
(* stands for score_fraction * risk_multiplier of the sizer.               *)
(***************************************************************************)
EXTENDS Integers, Sequences, FiniteSetsExt

CONSTANTS
    Opps,           \* opportunities a position can be opened for
    Scale,          \* 100% of a percentage, a score or a factor
    Initial,        \* initial_capital
    Config,         \* the thresholds of the active strategy (a CapitalConfig)
    ProductOf,      \* product_id of an opportunity, None when it has none
    MarketplaceOf,  \* its marketplace, None for the empty string
    CategoryOf,     \* its category, None for the empty string
    None,           \* no value
    DayLength       \* clock ticks in a calendar day

\* config.py: the fields of the three configuration records, in 1/Scale.
ConfigFields ==
    {"maxTrade", "maxCategory", "minAllocation",
     "pctProduct", "pctMarketplace", "pctCategory", "maxOpen",
     "maxDrawdown", "stopLoss", "streakLimit", "streakFactor",
     "cooldown", "maxDailyLoss"}

ASSUME ScaleAssumption == Scale \in Nat \ {0}
ASSUME InitialAssumption == Initial \in Nat \ {0}
ASSUME DayAssumption == DayLength \in Nat \ {0}
ASSUME ConfigAssumption == Config \in [ConfigFields -> Nat]
ASSUME NoneAssumption == None \notin Int

-----------------------------------------------------------------------------
(* PortfolioState.  drawdown_pct is not kept: it is a function of total and *)
(* peak, recomputed by every step that changes either.                      *)

PortfolioState ==
    [total : Int, available : Int, allocated : Int, realized : Int,
     peak : Int, streak : Nat, trades : Nat, wins : Nat, losses : Nat,
     dailyLoss : Int, lossDay : Int \cup {None}, lastLoss : Int \cup {None}]

InitialPortfolio ==
    [total |-> Initial, available |-> Initial, allocated |-> 0,
     realized |-> 0, peak |-> Initial, streak |-> 0, trades |-> 0,
     wins |-> 0, losses |-> 0, dailyLoss |-> 0, lossDay |-> None,
     lastLoss |-> None]

Day(t) == t \div DayLength

-----------------------------------------------------------------------------
(* PortfolioTracker *)

\* open_position: available -> allocated.  The caller has checked that the
\* amount is available; open_position raises otherwise.
OpenPosition(p, amount) ==
    [p EXCEPT !.available = @ - amount, !.allocated = @ + amount]

\* close_position_success: the amount and the profit become available.
ClosePositionSuccess(p, amount, profit) ==
    [p EXCEPT !.allocated = @ - amount,
              !.available = @ + amount + profit,
              !.total = @ + profit,
              !.realized = @ + profit,
              !.trades = @ + 1,
              !.wins = @ + 1,
              !.streak = 0,
              !.peak = IF p.total + profit > @ THEN p.total + profit ELSE @]

\* A tracker that writes a losing position off completely.
NothingReturned(amount, loss) == 0

\* What a losing position gives back: never less than nothing.
ReturnedCapital(amount, loss) == IF amount > loss THEN amount - loss ELSE 0

\* close_position_failure: the loss is taken from total, and what is left of
\* the amount becomes available.
ClosePositionFailure(p, amount, loss, now) ==
    [p EXCEPT !.allocated = @ - amount,
              !.available = @ + ReturnedCapital(amount, loss),
              !.total = @ - loss,
              !.realized = @ - loss,
              !.trades = @ + 1,
              !.losses = @ + 1,
              !.streak = @ + 1,
              !.lastLoss = now,
              !.lossDay = Day(now),
              !.dailyLoss = IF p.lossDay = Day(now) THEN @ + loss ELSE loss]

-----------------------------------------------------------------------------
(* RiskManager.check *)

\* Circuit breakers 1 and 2: the fall from the peak.
FallFromPeak(p, pct) == (p.peak - p.total) * Scale >= pct * p.peak

Halted(p) == FallFromPeak(p, Config.maxDrawdown) \/ FallFromPeak(p, Config.stopLoss)

\* Circuit breaker 3: the losses of today.
DailyCapReached(p, now) ==
    p.lossDay = Day(now) /\ p.dailyLoss >= Config.maxDailyLoss

InCooldown(p, now) ==
    /\ p.lastLoss # None
    /\ now < p.lastLoss + Config.cooldown

CanExecute(p, now) ==
    ~Halted(p) /\ ~DailyCapReached(p, now) /\ ~InCooldown(p, now)

\* The streak of losses shrinks the next position.
AdjustmentFactor(p) ==
    IF p.streak >= Config.streakLimit THEN Config.streakFactor ELSE Scale

-----------------------------------------------------------------------------
(* Positions: a sequence of records with at least opp, amount and status.  *)

OpenIn(ps) == {i \in DOMAIN ps : ps[i].status = "open"}

SumAmounts(ps, I) == SumFunctionOnSet([i \in DOMAIN ps |-> ps[i].amount], I)

AllocatedTo(ps, attr, v) ==
    SumAmounts(ps, {i \in OpenIn(ps) : attr[ps[i].opp] = v})

-----------------------------------------------------------------------------
(* PositionSizer.size_position.  Quantities are kept exact as numerators    *)
(* over Unit until the final rounding to a cent.                            *)

Unit == Scale * Scale * Scale

Smaller(a, b) == IF a < b THEN a ELSE b

Larger(a, b) == IF a > b THEN a ELSE b

\* Python's round(x, 2): to the nearest, ties to even.
RoundHalfEven(n, d) ==
    LET q == n \div d
        r == n % d
    IN  IF 2 * r > d \/ (2 * r = d /\ q % 2 = 1) THEN q + 1 ELSE q

PerTradeCap(p) == p.total * Config.maxTrade * Scale * Scale

RiskAdjusted(p, weight, factor) == p.total * Config.maxTrade * weight * factor

\* 3b: what the category may still receive; no cap without a category.
CategoryCap(p, ps, opp) ==
    IF CategoryOf[opp] = None THEN p.available * Unit
    ELSE Larger(0, p.total * Config.maxCategory
                     - AllocatedTo(ps, CategoryOf, CategoryOf[opp]) * Scale)
           * Scale * Scale

\* 3a to 3c: the smallest of the caps.
CappedSize(p, ps, opp, weight) ==
    Smaller(Smaller(RiskAdjusted(p, weight, AdjustmentFactor(p)), PerTradeCap(p)),
            Smaller(CategoryCap(p, ps, opp), p.available * Unit))

\* 3d: an affordable requirement above the capped size replaces it.
ForcedToRequired(p, capped, required) ==
    capped < required * Unit /\ required <= p.available

\* Result of the sizer: the amount, or Rejected.
Rejected == -1

SizePosition(p, ps, opp, weight, required) ==
    LET capped == CappedSize(p, ps, opp, weight)
        forced == ForcedToRequired(p, capped, required)
        size   == IF forced THEN required * Unit ELSE capped
    IN  IF \/ p.total * Config.maxTrade * weight <= 0
           \/ forced /\ required * Unit > PerTradeCap(p)
           \/ size < Config.minAllocation * Unit
        THEN Rejected
        ELSE RoundHalfEven(size, Unit)

-----------------------------------------------------------------------------
(* DiversificationGuard.check *)

\* The share of total capital that positions with the same attribute as opp
\* would hold, at most pct.  An opportunity without the attribute passes.
WithinShare(p, ps, opp, amount, attr, pct) ==
    attr[opp] # None =>
        (AllocatedTo(ps, attr, attr[opp]) + amount) * Scale
            <= pct * Larger(p.total, 1)

Diversified(p, ps, opp, amount) ==
    /\ Cardinality(OpenIn(ps)) < Config.maxOpen
    /\ WithinShare(p, ps, opp, amount, ProductOf, Config.pctProduct)
    /\ WithinShare(p, ps, opp, amount, MarketplaceOf, Config.pctMarketplace)
    /\ WithinShare(p, ps, opp, amount, CategoryOf, Config.pctCategory)

-----------------------------------------------------------------------------
(* ExecutionGuard.evaluate: the amount approved, or Rejected.  Gate 4, the  *)
(* amount against the available capital, is also the guard of               *)
(* open_position.                                                           *)

Evaluate(p, ps, opp, weight, required, now) ==
    LET size == SizePosition(p, ps, opp, weight, required)
    IN  IF /\ CanExecute(p, now)
           /\ size # Rejected
           /\ Diversified(p, ps, opp, size)
           /\ size <= p.available
        THEN size
        ELSE Rejected
=============================================================================
