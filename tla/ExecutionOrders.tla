--------------------------- MODULE ExecutionOrders ---------------------------
(***************************************************************************)
(* The execution engine: src/engines/execution's ExecutionService on an    *)
(* ExecutionRepository, with its risk engine, approval workflow, trade     *)
(* commands and event publisher.                                           *)
(*                                                                         *)
(* Tasks are the requests (and the bridge) that run handlers concurrently, *)
(* in one or several processes.  A handler is a sequence of awaits, each   *)
(* with a transaction of its own: it reads the portfolio or an order, works*)
(* on its copy, and overwrites the whole row with the copy.  Nothing locks *)
(* the row or checks that it is still what was read.                       *)
(*                                                                         *)
(* Left out: the messages on the execution_events stream, which nothing in *)
(* the repository reads and whose publisher swallows every error, and the  *)
(* truth engine's hooks, whose sessions never commit.                      *)
(***************************************************************************)
EXTENDS Integers, FiniteSets, Sequences, FiniteSetsExt

CONSTANTS
    Tasks,        \* handlers that may run at the same time
    Opps,         \* opportunities an order can be linked to
    Costs,        \* total_cost of the orders requested
    None,
    MaxExposure,  \* MAX_TOTAL_EXPOSURE
    MaxSingle,    \* MAX_SINGLE_ORDER
    MaxDaily,     \* MAX_DAILY_ORDERS
    AutoMax,      \* AUTO_APPROVE_MAX_COST
    MaxOrders,    \* bound: rows of execution_orders
    MaxCalls,     \* bound: calls made in a behaviour
    Simulated     \* the orders, by id, whose marketplace has no client: every
                  \* marketplace but MercadoLibre, and that one without ML_APP_ID

ASSUME CostsAssumption == Costs \subseteq Nat
ASSUME LimitsAssumption ==
    /\ MaxExposure \in Nat /\ MaxSingle \in Nat /\ MaxDaily \in Nat
    /\ AutoMax \in Nat /\ MaxOrders \in Nat /\ MaxCalls \in Nat
ASSUME NoneAssumption == None \notin Opps
ASSUME TasksAssumption == IsFiniteSet(Tasks) /\ Tasks # {}

Ids == 1..MaxOrders
ASSUME SimulatedAssumption == Simulated \subseteq Ids

OpenStatuses == {"draft", "pending_approval", "approved", "executing"}
Statuses == OpenStatuses \cup {"executed", "failed", "cancelled"}

\* The columns of execution_orders that the handlers decide by; passed is what
\* the risk_assessment column says.
Order ==
    [opp : Opps \cup {None}, cost : Costs, status : Statuses,
     approval : {"pending", "approved", "rejected", "auto_approved"},
     passed : BOOLEAN]

LogEvents == {"risk_rejected", "created", "approved", "rejected", "executing",
              "executed", "failed", "cancelled"}

VARIABLES
    orders,   \* execution_orders, by id
    placed,   \* orders the marketplace has accepted for each order
    log,      \* event types in execution_log for each order
    pc,       \* the await at which each task is
    op,       \* the handler each task runs
    id,       \* the order each task works on
    copy,     \* the TradeOrder in each task's memory
    totals,   \* exposure and executed_today that each create has read
    calls     \* calls begun so far

vars == <<orders, placed, log, pc, op, id, copy, totals, calls>>

NoTotals == [exposure |-> 0, executed |-> 0]

TypeOK ==
    /\ orders \in Seq(Order) /\ Len(orders) <= MaxOrders
    /\ placed \in [Ids -> Nat]
    /\ log \in [Ids -> SUBSET LogEvents]
    /\ pc \in [Tasks -> {"idle", "active", "insert", "write", "command", "log"}]
    /\ op \in [Tasks -> {"none", "create", "approve", "reject", "execute", "cancel"}]
    /\ id \in [Tasks -> Ids \cup {None}]
    /\ copy \in [Tasks -> Order \cup {None}]
    /\ totals \in [Tasks -> [exposure : Nat, executed : Nat]]
    /\ calls \in Nat

Init ==
    /\ orders = <<>>
    /\ placed = [i \in Ids |-> 0]
    /\ log = [i \in Ids |-> {}]
    /\ pc = [t \in Tasks |-> "idle"]
    /\ op = [t \in Tasks |-> "none"]
    /\ id = [t \in Tasks |-> None]
    /\ copy = [t \in Tasks |-> None]
    /\ totals = [t \in Tasks |-> NoTotals]
    /\ calls = 0

-----------------------------------------------------------------------------
(* Risk and approval *)

OpenOrders == {i \in DOMAIN orders : orders[i].status \in OpenStatuses}
Cost(S) == SumFunctionOnSet([i \in DOMAIN orders |-> orders[i].cost], S)

\* get_portfolio_summary, the first and the third SELECT.
Totals ==
    [exposure |-> Cost(OpenOrders),
     executed |-> Cardinality({i \in DOMAIN orders : orders[i].status = "executed"})]

\* A summary that forgets the orders that wait for approval.
DecidedOpportunities ==
    {orders[i].opp : i \in {j \in OpenOrders : orders[j].status # "pending_approval"}}

ActiveOpportunities == {orders[i].opp : i \in OpenOrders}

\* A guard that looks at the exposure without the new order.
CurrentExposureAllowed(cost, t) == totals[t].exposure <= MaxExposure

\* MaxExposureGuard.
ExposureAllowed(cost, t) == totals[t].exposure + cost <= MaxExposure

\* RiskEngine.assess.  The requests of the model are profitable enough for the
\* guards of the return, which look at the order alone.
RiskPassed(order, t, active) ==
    /\ ExposureAllowed(order.cost, t)
    /\ order.cost <= MaxSingle
    /\ totals[t].executed < MaxDaily
    /\ order.opp = None \/ order.opp \notin active

\* An approval workflow that does not look at the assessment.
SubmitUnchecked(order, mode, passed) ==
    IF mode = "auto" /\ order.cost <= AutoMax
    THEN [order EXCEPT !.status = "approved", !.approval = "auto_approved",
                       !.passed = passed]
    ELSE [order EXCEPT !.status = "pending_approval", !.passed = passed]

\* create_order between the assessment and the INSERT: a blocked order is
\* stored cancelled, another one goes through ApprovalWorkflow.submit.
Submit(order, mode, passed) ==
    IF ~passed
    THEN [order EXCEPT !.status = "cancelled", !.approval = "rejected"]
    ELSE IF mode = "auto" /\ order.cost <= AutoMax
    THEN [order EXCEPT !.status = "approved", !.approval = "auto_approved",
                       !.passed = TRUE]
    ELSE [order EXCEPT !.status = "pending_approval", !.passed = TRUE]

-----------------------------------------------------------------------------
(* create_order *)

Draft(opp, cost) ==
    [opp |-> opp, cost |-> cost, status |-> "draft", approval |-> "pending",
     passed |-> FALSE]

\* A call counts from its first read: nothing it does before can be seen.
ReadTotals(t, opp, cost) ==
    /\ pc[t] = "idle"
    /\ calls < MaxCalls
    /\ calls' = calls + 1
    /\ pc' = [pc EXCEPT ![t] = "active"]
    /\ op' = [op EXCEPT ![t] = "create"]
    /\ copy' = [copy EXCEPT ![t] = Draft(opp, cost)]
    /\ totals' = [totals EXCEPT ![t] = Totals]
    /\ UNCHANGED <<orders, placed, log, id>>

\* The last SELECT of the summary; every statement sees the rows committed
\* when it runs.  The assessment and the submission follow without an await.
ReadActive(t, mode) ==
    /\ pc[t] = "active"
    /\ copy' = [copy EXCEPT ![t] =
          Submit(@, mode, RiskPassed(@, t, ActiveOpportunities))]
    /\ pc' = [pc EXCEPT ![t] = "insert"]
    /\ UNCHANGED <<orders, placed, log, op, id, totals, calls>>

Insert(t) ==
    /\ pc[t] = "insert"
    /\ Len(orders) < MaxOrders
    /\ orders' = Append(orders, copy[t])
    /\ id' = [id EXCEPT ![t] = Len(orders) + 1]
    /\ pc' = [pc EXCEPT ![t] = "log"]
    /\ UNCHANGED <<placed, log, op, copy, totals, calls>>

-----------------------------------------------------------------------------
(* The handlers of an existing order: read, check, change the copy *)

Load(t, name, i, changed) ==
    /\ pc[t] = "idle"
    /\ calls < MaxCalls
    /\ calls' = calls + 1
    /\ pc' = [pc EXCEPT ![t] = "write"]
    /\ op' = [op EXCEPT ![t] = name]
    /\ id' = [id EXCEPT ![t] = i]
    /\ copy' = [copy EXCEPT ![t] = changed]
    /\ UNCHANGED <<orders, placed, log, totals>>

LoadApprove(t, i) ==
    /\ orders[i].status = "pending_approval"
    /\ Load(t, "approve", i,
            [orders[i] EXCEPT !.status = "approved", !.approval = "approved"])

LoadReject(t, i) ==
    /\ orders[i].status = "pending_approval"
    /\ Load(t, "reject", i,
            [orders[i] EXCEPT !.status = "cancelled", !.approval = "rejected"])

\* An execute that also retries what failed.
LoadExecuteOrRetry(t, i) ==
    /\ orders[i].status \in {"approved", "failed"}
    /\ Load(t, "execute", i, [orders[i] EXCEPT !.status = "executing"])

LoadExecute(t, i) ==
    /\ orders[i].status = "approved"
    /\ Load(t, "execute", i, [orders[i] EXCEPT !.status = "executing"])

\* CancelCommand refuses executed and cancelled orders and nothing else.  No
\* order has a marketplace_order_id, so the marketplace is not called.
LoadCancel(t, i) ==
    /\ orders[i].status \notin {"executed", "cancelled"}
    /\ Load(t, "cancel", i, [orders[i] EXCEPT !.status = "cancelled"])

\* update_order: the row becomes the copy, whatever it has become meanwhile.
Write(t) ==
    /\ pc[t] = "write"
    /\ orders' = [orders EXCEPT ![id[t]] = copy[t]]
    /\ pc' = [pc EXCEPT ![t] = "log"]
    /\ UNCHANGED <<placed, log, op, id, copy, totals, calls>>

\* The result of the command, which the handler writes next.
Answers(t, status) ==
    /\ copy' = [copy EXCEPT ![t].status = status]
    /\ pc' = [pc EXCEPT ![t] = "write"]
    /\ UNCHANGED <<orders, log, op, id, totals, calls>>

\* A handler that does not look at the result of the command.
CommandUnchecked(t) ==
    /\ pc[t] = "command"
    /\ \E n \in {0, 1} : placed' = [placed EXCEPT ![id[t]] = @ + n]
    /\ Answers(t, "executed")

\* Without a client the command reports a success and places nothing.  With one
\* the marketplace takes the order and the answer arrives, or it is lost, which
\* the command reports as a failure.  One that is refused or not valid fails.
Command(t) ==
    /\ pc[t] = "command"
    /\ \/ id[t] \in Simulated /\ UNCHANGED placed /\ Answers(t, "executed")
       \/ /\ id[t] \notin Simulated /\ placed' = [placed EXCEPT ![id[t]] = @ + 1]
          /\ \E status \in {"executed", "failed"} : Answers(t, status)
       \/ UNCHANGED placed /\ Answers(t, "failed")

-----------------------------------------------------------------------------
(* The end of the handlers *)

LogEvent(t) ==
    CASE op[t] = "create"  -> IF copy[t].passed THEN "created" ELSE "risk_rejected"
      [] op[t] = "approve" -> "approved"
      [] op[t] = "reject"  -> "rejected"
      [] op[t] = "execute" -> copy[t].status
      [] op[t] = "cancel"  -> "cancelled"

\* Only the execution of an order goes on after log_event.
Continues(t) == op[t] = "execute" /\ copy[t].status = "executing"

\* What a task forgets when its handler has returned or raised.
Forget(t) ==
    /\ op' = [op EXCEPT ![t] = "none"]
    /\ id' = [id EXCEPT ![t] = None]
    /\ copy' = [copy EXCEPT ![t] = None]
    /\ totals' = [totals EXCEPT ![t] = NoTotals]

Log(t) ==
    /\ pc[t] = "log"
    /\ log' = [log EXCEPT ![id[t]] = @ \cup {LogEvent(t)}]
    /\ pc' = [pc EXCEPT ![t] = IF Continues(t) THEN "command" ELSE "idle"]
    /\ IF Continues(t) THEN UNCHANGED <<op, id, copy, totals>> ELSE Forget(t)
    /\ UNCHANGED <<orders, placed, calls>>

\* An await raises, or the process dies: what was committed stays.  A handler
\* that has changed nothing yet leaves no trace, as if it had not been called.
Abort(t) ==
    /\ \/ pc[t] \in {"log", "command"}
       \/ pc[t] = "write" /\ copy[t].status \in {"executed", "failed"}
    /\ pc' = [pc EXCEPT ![t] = "idle"]
    /\ Forget(t)
    /\ UNCHANGED <<orders, placed, log, calls>>

Next ==
    \E t \in Tasks :
        \/ \E opp \in Opps \cup {None}, cost \in Costs : ReadTotals(t, opp, cost)
        \/ \E mode \in {"manual", "auto"} : ReadActive(t, mode)
        \/ Insert(t)
        \/ \E i \in DOMAIN orders :
              \/ LoadApprove(t, i)
              \/ LoadReject(t, i)
              \/ LoadExecute(t, i)
              \/ LoadCancel(t, i)
        \/ Write(t)
        \/ Command(t)
        \/ Log(t)
        \/ Abort(t)

Spec == Init /\ [][Next]_vars

-----------------------------------------------------------------------------
(* Properties *)

\* Risk gate: an order that failed its assessment is never approved, never
\* reaches the marketplace and has no other event in its audit trail, whatever
\* handlers run for it.
BlockedStaysBlocked ==
    \A i \in DOMAIN orders :
        ~orders[i].passed =>
            /\ orders[i].status = "cancelled"
            /\ placed[i] = 0
            /\ log[i] \subseteq {"risk_rejected"}

\* The portfolio is read before the order is inserted, and cancelled orders can
\* be overwritten by a handler that read them earlier.  Still the exposure
\* exceeds its limit by at most one order of each other handler.
ExposureBounded ==
    Cost(OpenOrders) <= MaxExposure + (Cardinality(Tasks) - 1) * MaxSingle

\* In the same way, an opportunity never has more open orders than there are
\* concurrent handlers.
DuplicatesBounded ==
    \A opp \in Opps :
        Cardinality({i \in OpenOrders : orders[i].opp = opp}) <= Cardinality(Tasks)

\* The task has read order i and will still write it.
Holds(t, i) ==
    /\ id[t] = i
    /\ op[t] # "create"
    /\ \/ pc[t] \in {"write", "command"}
       \/ pc[t] = "log" /\ Continues(t)

\* The order was handed to the marketplace or closed, and only cancellations
\* are working on it.
Resolved(i) ==
    /\ orders[i].status \in {"executing", "executed", "failed", "cancelled"}
    /\ \A t \in Tasks : Holds(t, i) => op[t] = "cancel"

\* Nothing is bought twice one call after the other: from then on no sequence
\* of calls, failures and crashes buys the order again.
ResolvedNotBoughtAgain ==
    [][\A i \in DOMAIN orders :
          Resolved(i) => Resolved(i)' /\ placed'[i] = placed[i]]_vars

\* A row or an audit event that says "executed" tells the truth about a marketplace
\* that has a client, also when handlers overwrite each other's rows; where there
\* is none it says "executed" of a simulation, in which nothing was placed.
ExecutedWasPlaced ==
    \A i \in DOMAIN orders :
        orders[i].status = "executed" \/ "executed" \in log[i] =>
            (placed[i] > 0 <=> i \notin Simulated)

-----------------------------------------------------------------------------
(* What the comments of the code say and the code does not do *)

\* DuplicateGuard: "Prevents duplicate orders for the same opportunity."
NoDuplicateOrders ==
    \A i, j \in OpenOrders :
        orders[i].opp # None /\ orders[i].opp = orders[j].opp => i = j

\* DailyLimitGuard: "Limits the number of orders executed per day."  The
\* model is one calendar day.
DailyLimitKept == Totals.executed <= MaxDaily
=============================================================================
