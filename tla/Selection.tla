------------------------------ MODULE Selection -------------------------------
(***************************************************************************)
(* Which of a batch of candidates the portfolio optimizer approves:        *)
(* src/engines/portfolio_optimizer/domain.  A candidate has an opp, a      *)
(* product, a route, its capital in cents, its profit in cents, and        *)
(* velocity, confidence and risk in points.  A portfolio is what has been  *)
(* approved so far; the state of the code is counted from it.              *)
(***************************************************************************)
EXTENDS Scoring

CONSTANTS
    TotalCapital,       \* OPT_TOTAL_CAPITAL
    MaxRisk,            \* OPT_MAX_RISK
    MaxPositions,       \* OPT_MAX_POSITIONS
    MaxPerProduct,      \* OPT_MAX_PER_PRODUCT
    MaxPerMarketplace   \* OPT_MAX_PER_MARKETPLACE

ASSUME SelectionAssumption ==
    /\ TotalCapital \in Nat /\ MaxRisk \in 0..100 /\ MaxPositions \in Nat
    /\ MaxPerProduct \in Nat /\ MaxPerMarketplace \in Nat

\* Weighted profit, velocity and confidence, less the risk.
rank_candidate(c) ==
    35 * Saturation((3 * Larger(0, c.profit)) \div 1000) + 20 * c.velocity + 25 * c.confidence
        - 20 * c.risk

\* Of its rank per cent of capital, of which there is one at least.
Denser(c, d) ==
    rank_candidate(c) * Larger(1, d.capital) > rank_candidate(d) * Larger(1, c.capital)

\* By density, and what came first stays first.
GoesBefore(batch, i, j) ==
    Denser(batch[i], batch[j]) \/ (~Denser(batch[j], batch[i]) /\ i < j)

rank_candidates(batch) ==
    [k \in DOMAIN batch |->
        batch[CHOOSE i \in DOMAIN batch :
            Cardinality({j \in DOMAIN batch \ {i} : GoesBefore(batch, j, i)}) = k - 1]]

Allocated(portfolio) ==
    SumFunctionOnSet([i \in DOMAIN portfolio |-> portfolio[i].capital], DOMAIN portfolio)
Positions(portfolio, c, field) == Cardinality({i \in DOMAIN portfolio : portfolio[i][field] = c[field]})

\* Mutant: an opportunity that is held may be taken again.
ConcentrationOnly(portfolio, c) ==
    /\ Positions(portfolio, c, "product") < MaxPerProduct
    /\ Positions(portfolio, c, "route") < MaxPerMarketplace

check_diversification(portfolio, c) ==
    /\ Positions(portfolio, c, "opp") = 0
    /\ Positions(portfolio, c, "product") < MaxPerProduct
    /\ Positions(portfolio, c, "route") < MaxPerMarketplace

Acceptable(portfolio, c) ==
    /\ Len(portfolio) < MaxPositions
    /\ Allocated(portfolio) + c.capital <= TotalCapital
    /\ c.risk <= MaxRisk
    /\ check_diversification(portfolio, c)

\* Greedily, in the order of the ranking.
optimize(batch) ==
    LET ranked == rank_candidates(batch)
        approved[n \in 0..Len(batch)] ==
            IF n = 0 THEN <<>>
            ELSE IF Acceptable(approved[n - 1], ranked[n]) THEN Append(approved[n - 1], ranked[n])
            ELSE approved[n - 1]
    IN approved[Len(batch)]

-----------------------------------------------------------------------------
Deal(opp, product, capital, profit, risk) ==
    [opp |-> opp, product |-> product, route |-> "->", capital |-> capital, profit |-> profit,
     velocity |-> 50, confidence |-> 50, risk |-> risk]

Samples ==
    {Deal(1, 1, TotalCapital \div 2, 9000, 50), Deal(1, 1, TotalCapital \div 3, 0, 50),
     Deal(2, 1, TotalCapital \div 3, 5000, 20), Deal(3, 2, TotalCapital \div 5, 0, MaxRisk),
     Deal(4, 2, TotalCapital + 1, 9000, 10), Deal(5, 1, 100, 9000, MaxRisk + 1)}
Batches == UNION {[1..n -> Samples] : n \in 0..4}

\* One pass decides, and nothing it refused could still be taken at its end: what
\* was too dear, too concentrated or a duplicate then is so at the end as well.
SelectionIsMaximal ==
    \A batch \in Batches :
        LET chosen == optimize(batch) IN
            \A i \in DOMAIN batch :
                (\E j \in DOMAIN chosen : chosen[j] = batch[i]) \/ ~Acceptable(chosen, batch[i])

\* What is approved together is within every limit, and a candidate of a batch is
\* approved no oftener than it is in it.
SelectionIsWithinLimits ==
    \A batch \in Batches :
        LET chosen == optimize(batch) IN
            /\ Allocated(chosen) <= TotalCapital /\ Len(chosen) <= MaxPositions
            /\ \A i \in DOMAIN chosen :
                 /\ Positions(chosen, chosen[i], "opp") = 1
                 /\ Positions(chosen, chosen[i], "product") <= MaxPerProduct
                 /\ Positions(chosen, chosen[i], "route") <= MaxPerMarketplace
                 /\ \E j \in DOMAIN batch : batch[j] = chosen[i]
=============================================================================
