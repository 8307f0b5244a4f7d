--------------------------- MODULE MCSafeExecutor ---------------------------
(***************************************************************************)
(* Small instances of SafeExecutor.  One unit of money is 50 dollars, so   *)
(* the initial capital of 5000 is 100 units; percentages are out of 100 as *)
(* in config.py.                                                           *)
(***************************************************************************)
EXTENDS SafeExecutor

CONSTANTS o1, o2, s1, s2

MCScale == 100
MCInitial == 100

\* config.py, _AGGRESSIVE: a position may take 35% and a marketplace 60%, so
\* two full positions in one marketplace do not fit.
Aggressive ==
    [maxTrade |-> 35, maxCategory |-> 60, minAllocation |-> 1,
     pctProduct |-> 35, pctMarketplace |-> 60, pctCategory |-> 50,
     maxOpen |-> 25, maxDrawdown |-> 30, stopLoss |-> 25, streakLimit |-> 5,
     streakFactor |-> 70, cooldown |-> 1, maxDailyLoss |-> 20]

TwoOpps == {o1, o2}
OneMarketplace == [o \in {o1, o2} |-> "mercadolibre"]
NoCategory == [o \in {o1, o2} |-> None]
OwnProduct == [o \in {o1, o2} |-> o]

MCWeights == {20}
MCRequired == {5, 35}
MCProfits == {-40, -10, 5}

=============================================================================
