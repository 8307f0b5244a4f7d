------------------------------ MODULE MCCapital ------------------------------
(***************************************************************************)
(* What decides about capital, each part on a small instance of its own:   *)
(* SafeExecutor against the database, the batch manager of api/, and the   *)
(* calibration of the parameters.  A behaviour is one of the part that     *)
(* Init chooses; the others stand still.                                   *)
(***************************************************************************)
EXTENDS MCSafeExecutor, CapitalManager, Calibration

VARIABLE part

capitalVars == <<part, vars, managerVars, calVars>>

CapitalInit == part \in {"executor", "manager", "calibration"} /\ Init /\ ManagerInit /\ CalInit

CapitalNext ==
    /\ UNCHANGED part
    /\ \/ part = "executor" /\ Next /\ UNCHANGED <<managerVars, calVars>>
       \/ part = "manager" /\ ManagerNext /\ UNCHANGED <<vars, calVars>>
       \/ part = "calibration" /\ CalNext /\ UNCHANGED <<vars, managerVars>>

\* The fairness of SafeExecutor's FairSpec.
CapitalSpec ==
    /\ CapitalInit /\ [][CapitalNext]_capitalVars
    /\ \A s \in Sessions :
         /\ SF_vars(part = "executor" /\ Lock(s))
         /\ WF_vars(part = "executor" /\ (Execute(s) \/ Close(s) \/ Commit(s)))

-----------------------------------------------------------------------------
ManagerDefaults ==
    [maxActive |-> 2, productCooldown |-> 2, marketCooldown |-> 1, topK |-> 2,
     dailyLoss |-> 5, minRate |-> 50, minTrades |-> 2, maxFall |-> 15, fullSize |-> 80]

Offered(o, buy, worth, confidence) ==
    [opp |-> o, buy |-> buy, weight |-> 20, required |-> 20, confidence |-> confidence, worth |-> worth]
TwoOffers ==
    {<<Offered(o1, "amazon", 2, c), Offered(o2, buy, w, 80)>> :
        c \in {40, 80}, buy \in {"amazon", "ebay"}, w \in {1, 3}}
    \cup {<<Offered(o2, "mercadolibre", 1, 80)>>}
WinsAndLosses == {-6, -1, 3}

Dollars == {1000}
Kept == {-200, 950, 2500}
ByHand == {5000, 200000}
===============================================================================
