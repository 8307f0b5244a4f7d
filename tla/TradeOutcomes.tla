---------------------------- MODULE TradeOutcomes ----------------------------
(***************************************************************************)
(* How src/truth_engine gets to know of trades: the hooks of               *)
(* integration.py, which the execution engine calls when an order was      *)
(* executed, completed, failed or cancelled, and the adaptation cycle,     *)
(* which sweeps what was never completed and moves the thresholds.         *)
(*                                                                         *)
(* A hook writes in a session of its own, flushes, and returns; the        *)
(* session goes to the garbage collector, and what it wrote is rolled back *)
(* then.  Until then the row is locked.  The cycle does commit.            *)
(***************************************************************************)
EXTENDS TruthEngine

CONSTANTS
    Trades,         \* opportunities that are traded
    OldTrades,      \* those with a row in trade_outcomes from before, still open
    Hooks,          \* requests that may be at work
    MaxHooks,       \* bound: hooks called
    MaxAdaptations  \* bound: adaptation cycles

ASSUME OutcomesAssumption ==
    /\ OldTrades \subseteq Trades /\ IsFiniteSet(Trades)
    /\ MaxHooks \in Nat /\ MaxAdaptations \in Nat

VARIABLES
    outcomes,   \* committed rows: trade -> none, open, sold, failed
    hook,       \* per request [at, trade, event]
    cycle,      \* [at, stale, swept]
    filters,    \* the state of the adaptive filters
    hooked, adapted \* hooks called and cycles begun so far

outcomeVars == <<outcomes, hook, cycle, filters, hooked, adapted>>

NoHook == [at |-> "idle", trade |-> "none", event |-> "none"]
NoCycle == [at |-> "idle", stale |-> {}, swept |-> {}]

OutcomesInit ==
    /\ outcomes = [t \in Trades |-> IF t \in OldTrades THEN "open" ELSE "none"]
    /\ hook = [h \in Hooks |-> NoHook] /\ cycle = NoCycle
    /\ filters = AdaptiveFilterState /\ hooked = 0 /\ adapted = 0

\* Whether an UPDATE of the row has to wait for another session.
RowLocked(t) ==
    \/ t \in cycle.swept
    \/ \E h \in Hooks : hook[h].at = "left" /\ hook[h].trade = t /\ hook[h].event # "executed"

-----------------------------------------------------------------------------
\* on_order_executed inserts a row; on_order_completed and on_order_failed look
\* for the latest and go on only where there is one, whatever has become of it.
CallHook(h, t, event) ==
    /\ hook[h].at = "idle" /\ hooked < MaxHooks /\ hooked' = hooked + 1
    /\ hook' = [hook EXCEPT ![h] =
           CASE event = "executed"   -> [at |-> "left", trade |-> t, event |-> event]
             [] outcomes[t] = "none" -> NoHook
             [] OTHER                -> [at |-> "update", trade |-> t, event |-> event]]
    /\ UNCHANGED <<outcomes, cycle, filters, adapted>>

HookWrites(h) ==
    /\ hook[h].at = "update" /\ ~RowLocked(hook[h].trade)
    /\ hook' = [hook EXCEPT ![h].at = "left"]
    /\ UNCHANGED <<outcomes, cycle, filters, hooked, adapted>>

\* Sessions that are committed before they go.
SessionCommitted(h) ==
    /\ hook[h].at = "left" /\ hook' = [hook EXCEPT ![h] = NoHook]
    /\ outcomes' = [outcomes EXCEPT ![hook[h].trade] =
           CASE hook[h].event = "executed"  -> "open"
             [] hook[h].event = "completed" -> "sold"
             [] OTHER                       -> "failed"]
    /\ UNCHANGED <<cycle, filters, hooked, adapted>>

SessionDropped(h) ==
    /\ hook[h].at = "left" /\ hook' = [hook EXCEPT ![h] = NoHook]
    /\ UNCHANGED <<outcomes, cycle, filters, hooked, adapted>>

-----------------------------------------------------------------------------
\* _run_adaptation_cycle: what is open for too long is read,
StartAdaptation ==
    /\ cycle.at = "idle" /\ adapted < MaxAdaptations /\ adapted' = adapted + 1
    /\ \E s \in SUBSET {t \in Trades : outcomes[t] = "open"} :
          cycle' = [at |-> "sweep", stale |-> s, swept |-> {}]
    /\ UNCHANGED <<outcomes, hook, filters, hooked>>

\* each row is marked as failed,
SweepOne ==
    /\ cycle.at = "sweep"
    /\ \E t \in cycle.stale :
          /\ ~RowLocked(t)
          /\ cycle' = [cycle EXCEPT !.stale = @ \ {t}, !.swept = @ \cup {t}]
    /\ UNCHANGED <<outcomes, hook, filters, hooked, adapted>>

\* Every row is of a trade whose execution was attempted.
Ledger ==
    [t \in {t \in Trades : outcomes[t] # "none"} |->
        [sold |-> outcomes[t] = "sold" /\ t \notin cycle.swept, profit |-> 100]]

\* the thresholds move, before anything is committed and however often the same
\* rows have moved them before,
AdaptFilters ==
    /\ cycle.at = "sweep" /\ cycle.stale = {}
    /\ filters' = adapt(filters, compute_precision_metrics(Ledger))
    /\ cycle' = [cycle EXCEPT !.at = "commit"]
    /\ UNCHANGED <<outcomes, hook, hooked, adapted>>

\* and the sweep is committed.
CommitSweep ==
    /\ cycle.at = "commit" /\ cycle' = NoCycle
    /\ outcomes' = [t \in Trades |-> IF t \in cycle.swept THEN "failed" ELSE outcomes[t]]
    /\ UNCHANGED <<hook, filters, hooked, adapted>>

\* The cycle fails on any of its calls; thresholds that have moved stay moved.
AdaptationFails ==
    /\ cycle.at # "idle" /\ cycle' = NoCycle
    /\ UNCHANGED <<outcomes, hook, filters, hooked, adapted>>

OutcomesNext ==
    \/ \E h \in Hooks :
          \/ \E t \in Trades, e \in {"executed", "completed", "failed"} : CallHook(h, t, e)
          \/ HookWrites(h) \/ SessionDropped(h)
    \/ StartAdaptation \/ SweepOne \/ AdaptFilters \/ CommitSweep \/ AdaptationFails

-----------------------------------------------------------------------------
\* Nothing is learnt: no trade the hooks were told of ever gets a row, none is
\* ever recorded as sold, whatever it fetched, and with no more rows than the
\* table had the thresholds stay what they were.  api/routes.py:155 of the
\* execution engine says of a completed trade that it "closes the truth engine
\* feedback loop".
NothingIsLearnt ==
    /\ \A t \in Trades : outcomes[t] # "sold" /\ (outcomes[t] = "none" <=> t \notin OldTrades)
    /\ Cardinality(OldTrades) < MinSamples => filters = AdaptiveFilterState
===============================================================================
