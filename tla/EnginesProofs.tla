---------------------------- MODULE EnginesProofs ----------------------------
(***************************************************************************)
(* Proofs about the engines, for any opportunities, listings, trades,      *)
(* limits and number of concurrent handlers, analyses and runs.            *)
(*                                                                         *)
(* First the orders (ExecutionOrders): the risk gate holds, "executed" is  *)
(* true, a resolved order is never bought again, and exposure and          *)
(* duplicates exceed their limits by no more than the other handlers hold. *)
(* Rows are overwritten without a look at them, so IInv is about the       *)
(* copies: a handler that has read an order holds a copy that passed the   *)
(* assessment, and what it will write is justified by the marketplace.     *)
(* LimitsInv counts with the open orders the rows that a handler is about  *)
(* to open again, and the creates that the limits have let through and     *)
(* that are not inserted yet: each handler holds one order at a time,      *)
(* which is what the bounds rest on.                                       *)
(*                                                                         *)
(* Then what decides (EnginesSound): the pipeline from the orchestrator to *)
(* the bridge, what is learnt of trades, and the analyses of a scan.       *)
(* PipelineInv counts, for each opportunity, what is handed on against     *)
(* what was received, however the runs of the orchestrator interleave;     *)
(* OutcomesInv has only the rows that were there before; EvaluationInv has *)
(* every decision still within its window in the memory of the process,    *)
(* whether it is written or pending, and every rate within what the        *)
(* fetches so far could make of the fallback.                              *)
(*                                                                         *)
(* Last the rules (RulesSound), which have no state: the realism guard,    *)
(* the gate of the truth engine, the policies, the selection, the routes,  *)
(* the classes, the scores, the trends and the forecasts.  Each theorem is *)
(* about every input; the properties the runs check follow for the inputs  *)
(* of their grids.                                                         *)
(***************************************************************************)
EXTENDS MCEngines, Folding, TLAPS

Typed ==
    /\ orders \in Seq(Order) /\ Len(orders) <= MaxOrders
    /\ placed \in [Ids -> Nat]
    /\ log \in [Ids -> SUBSET LogEvents]
    /\ pc \in [Tasks -> {"idle", "active", "insert", "write", "command", "log"}]
    /\ op \in [Tasks -> {"none", "create", "approve", "reject", "execute", "cancel"}]
    /\ id \in [Tasks -> Ids \cup {None}]
    /\ copy \in [Tasks -> Order \cup {None}]

\* Ids that no order has yet, and those of simulated orders, have nothing placed.
Fresh ==
    \A i \in Ids :
        /\ i > Len(orders) => placed[i] = 0 /\ log[i] = {}
        /\ i \in Simulated => placed[i] = 0

\* The marketplace has the order, or there is none to have it.
Taken(i) == placed[i] > 0 \/ i \in Simulated

\* What is called executed is.
Honest ==
    \A i \in DOMAIN orders :
        orders[i].status = "executed" \/ "executed" \in log[i] => Taken(i)

\* A create holds an order that is not stored yet: a blocked one is cancelled.
Creating(t) ==
    pc[t] \in {"active", "insert"} =>
        /\ op[t] = "create" /\ copy[t] \in Order /\ copy[t].status # "executed"
        /\ pc[t] = "insert" /\ ~copy[t].passed => copy[t].status = "cancelled"

\* A task that works on a stored order has a copy of it with its assessment,
\* and calls it executed only when the marketplace has taken it.
Working(t) ==
    pc[t] \in {"write", "command", "log"} =>
        /\ id[t] \in DOMAIN orders /\ copy[t] \in Order
        /\ copy[t].passed = orders[id[t]].passed
        /\ op[t] \in {"create", "approve", "reject", "execute", "cancel"}
        /\ op[t] = "create" => pc[t] = "log" /\ copy[t].status # "executed"
        /\ op[t] # "create" => copy[t].passed
        /\ op[t] = "cancel" => copy[t].status = "cancelled"
        /\ op[t] = "execute" => copy[t].status \in {"executing", "executed", "failed"}
        /\ pc[t] = "command" => op[t] = "execute"
        /\ pc[t] # "command" /\ copy[t].status = "executed" => Taken(id[t])

IInv ==
    /\ Typed
    /\ Fresh
    /\ \A t \in Tasks : Creating(t) /\ Working(t)
    /\ BlockedStaysBlocked
    /\ Honest

-----------------------------------------------------------------------------
(* What a step of one task leaves of the others *)

\* Orders are only added, keep their assessment, and are never taken back from
\* the marketplace.
Grows ==
    /\ DOMAIN orders \subseteq DOMAIN orders'
    /\ \A i \in DOMAIN orders :
          orders'[i].passed = orders[i].passed /\ placed'[i] >= placed[i]

\* Ids of stored orders.
LEMMA StoredIds ==
    ASSUME Typed
    PROVE  /\ Len(orders) \in Nat /\ DOMAIN orders = 1..Len(orders)
           /\ DOMAIN orders \subseteq Ids
           /\ \A i \in DOMAIN orders : orders[i] \in Order
  BY LimitsAssumption DEF Typed, Ids

LEMMA OthersKeep ==
    ASSUME IInv, Typed', Grows, NEW t \in Tasks,
           \A u \in Tasks \ {t} : /\ pc'[u] = pc[u] /\ op'[u] = op[u]
                                  /\ id'[u] = id[u] /\ copy'[u] = copy[u],
           Creating(t)', Working(t)'
    PROVE  \A u \in Tasks : Creating(u)' /\ Working(u)'
  <1> SUFFICES ASSUME NEW u \in Tasks \ {t}
               PROVE  Creating(u)' /\ Working(u)'
    OBVIOUS
  <1>1. Creating(u)'
    BY DEF IInv, Creating
  <1>2. ASSUME pc[u] \in {"write", "command", "log"}, Taken(id[u])
        PROVE  Taken(id[u])'
    <2>1. id[u] \in DOMAIN orders /\ id[u] \in Ids
      BY <1>2, StoredIds DEF IInv, Working
    <2>2. placed[id[u]] \in Nat /\ placed'[id[u]] \in Nat
      BY <2>1 DEF IInv, Typed
    <2> QED
      BY <1>2, <2>1, <2>2 DEF Grows, Taken
  <1>3. Working(u)'
    BY <1>2 DEF IInv, Working, Grows
  <1> QED
    BY <1>1, <1>3

-----------------------------------------------------------------------------
(* The actions *)

LEMMA InitIInv == Init => IInv
  <1> SUFFICES ASSUME Init
               PROVE  IInv
    OBVIOUS
  <1>1. Typed
    BY LimitsAssumption DEF Init, Typed, Ids
  <1>2. Fresh /\ BlockedStaysBlocked /\ Honest
    BY DEF Init, Fresh, BlockedStaysBlocked, Honest
  <1>3. \A t \in Tasks : Creating(t) /\ Working(t)
    BY DEF Init, Creating, Working
  <1> QED
    BY <1>1, <1>2, <1>3 DEF IInv

LEMMA ReadTotalsIInv ==
    ASSUME IInv, NEW t \in Tasks, NEW opp \in Opps \cup {None}, NEW cost \in Costs,
           ReadTotals(t, opp, cost)
    PROVE  IInv'
  <1>1. Draft(opp, cost) \in Order /\ Draft(opp, cost).status = "draft"
    BY DEF Draft, Order, Statuses, OpenStatuses
  <1>2. Typed'
    BY <1>1 DEF IInv, Typed, ReadTotals
  <1>3. Grows
    BY StoredIds DEF IInv, Typed, Grows, ReadTotals
  <1>4. /\ pc'[t] = "active" /\ op'[t] = "create" /\ copy'[t] = Draft(opp, cost)
        /\ \A u \in Tasks \ {t} : /\ pc'[u] = pc[u] /\ op'[u] = op[u]
                                  /\ id'[u] = id[u] /\ copy'[u] = copy[u]
    BY DEF IInv, Typed, ReadTotals
  <1>5. Creating(t)' /\ Working(t)'
    BY <1>1, <1>4 DEF Creating, Working
  <1>6. Fresh' /\ BlockedStaysBlocked' /\ Honest'
    BY DEF IInv, Fresh, BlockedStaysBlocked, Honest, Taken, ReadTotals
  <1> QED
    BY <1>2, <1>3, <1>4, <1>5, <1>6, OthersKeep DEF IInv

LEMMA SubmitTyped ==
    ASSUME NEW order \in Order, order.status # "executed", NEW mode, NEW passed \in BOOLEAN
    PROVE  /\ Submit(order, mode, passed) \in Order
           /\ Submit(order, mode, passed).status # "executed"
           /\ ~Submit(order, mode, passed).passed =>
                 Submit(order, mode, passed).status = "cancelled"
  BY DEF Submit, Order, Statuses, OpenStatuses

LEMMA ReadActiveIInv ==
    ASSUME IInv, NEW t \in Tasks, NEW mode, ReadActive(t, mode)
    PROVE  IInv'
  <1> DEFINE passed == RiskPassed(copy[t], t, ActiveOpportunities)
             new == Submit(copy[t], mode, passed)
  <1>1. copy[t] \in Order /\ copy[t].status # "executed" /\ op[t] = "create"
    BY DEF IInv, ReadActive, Creating
  <1>2. passed \in BOOLEAN
    BY DEF RiskPassed
  <1>3. new \in Order /\ new.status # "executed"
        /\ (~new.passed => new.status = "cancelled")
    BY <1>1, <1>2, SubmitTyped
  <1>4. /\ copy' = [copy EXCEPT ![t] = new]
        /\ pc' = [pc EXCEPT ![t] = "insert"]
        /\ UNCHANGED <<orders, placed, log, op, id>>
    BY Zenon DEF ReadActive
  <1> HIDE DEF new, passed
  <1>5. Typed'
    BY <1>3, <1>4 DEF IInv, Typed
  <1>6. Grows
    BY <1>4, StoredIds DEF IInv, Typed, Grows
  <1>7. /\ pc'[t] = "insert" /\ op'[t] = "create" /\ copy'[t] = new
        /\ \A u \in Tasks \ {t} : /\ pc'[u] = pc[u] /\ op'[u] = op[u]
                                  /\ id'[u] = id[u] /\ copy'[u] = copy[u]
    BY <1>1, <1>4 DEF IInv, Typed
  <1>8. Creating(t)' /\ Working(t)'
    BY <1>3, <1>7 DEF Creating, Working
  <1>9. Fresh' /\ BlockedStaysBlocked' /\ Honest'
    BY <1>4 DEF IInv, Fresh, BlockedStaysBlocked, Honest, Taken
  <1> QED
    BY <1>5, <1>6, <1>7, <1>8, <1>9, OthersKeep DEF IInv

LEMMA InsertIInv ==
    ASSUME IInv, NEW t \in Tasks, Insert(t)
    PROVE  IInv'
  <1> DEFINE n == Len(orders) + 1
  <1>1. /\ copy[t] \in Order /\ copy[t].status # "executed" /\ op[t] = "create"
        /\ ~copy[t].passed => copy[t].status = "cancelled"
    BY DEF IInv, Insert, Creating
  <1>2. Len(orders) \in Nat /\ DOMAIN orders = 1..Len(orders) /\ n \in Ids
    BY StoredIds, LimitsAssumption DEF IInv, Insert, Ids
  <1>3. /\ orders' \in Seq(Order) /\ Len(orders') = n /\ DOMAIN orders' = 1..n
        /\ orders'[n] = copy[t]
        /\ \A i \in DOMAIN orders : orders'[i] = orders[i]
    BY <1>1, <1>2 DEF IInv, Typed, Insert
  <1>4. /\ id' = [id EXCEPT ![t] = n] /\ pc' = [pc EXCEPT ![t] = "log"]
        /\ UNCHANGED <<placed, log, op, copy>>
    BY Zenon DEF Insert
  <1>5. Typed'
    <2>1. n <= MaxOrders
      BY <1>2 DEF Ids
    <2> HIDE DEF n
    <2> QED BY <1>2, <1>3, <1>4, <2>1 DEF IInv, Typed
  <1>6. Grows
    BY <1>2, <1>3, <1>4, StoredIds DEF IInv, Typed, Grows
  <1>7. /\ pc'[t] = "log" /\ op'[t] = "create" /\ copy'[t] = copy[t] /\ id'[t] = n
        /\ \A u \in Tasks \ {t} : /\ pc'[u] = pc[u] /\ op'[u] = op[u]
                                  /\ id'[u] = id[u] /\ copy'[u] = copy[u]
    BY <1>1, <1>4 DEF IInv, Typed
  <1>8. Creating(t)' /\ Working(t)'
    BY <1>1, <1>2, <1>3, <1>7 DEF Creating, Working
  <1>9. Fresh'
    BY <1>2, <1>3, <1>4 DEF IInv, Fresh, Ids
  <1>10. placed[n] = 0 /\ log[n] = {}
    BY <1>2 DEF IInv, Fresh
  <1>11. BlockedStaysBlocked'
    BY <1>1, <1>2, <1>3, <1>4, <1>10 DEF IInv, BlockedStaysBlocked
  <1>12. Honest'
    BY <1>1, <1>2, <1>3, <1>4, <1>10 DEF IInv, Honest, Taken
  <1> QED
    BY <1>5, <1>6, <1>7, <1>8, <1>9, <1>11, <1>12, OthersKeep DEF IInv

\* What the four handlers that read an order have in common: what they read is
\* not cancelled, so it has passed the assessment.
LEMMA LoadIInv ==
    ASSUME IInv, NEW t \in Tasks, NEW i \in DOMAIN orders,
           NEW name \in {"approve", "reject", "execute", "cancel"}, NEW changed \in Order,
           Load(t, name, i, changed), orders[i].status # "cancelled",
           changed.passed = orders[i].passed, changed.status # "executed",
           name = "cancel" => changed.status = "cancelled",
           name = "execute" => changed.status = "executing"
    PROVE  IInv'
  <1>1. i \in Ids /\ orders[i].passed
    BY StoredIds DEF IInv, BlockedStaysBlocked, Order
  <1>2. Typed'
    BY <1>1 DEF IInv, Typed, Load
  <1>3. Grows
    BY StoredIds DEF IInv, Typed, Grows, Load
  <1>4. /\ pc'[t] = "write" /\ op'[t] = name /\ copy'[t] = changed /\ id'[t] = i
        /\ \A u \in Tasks \ {t} : /\ pc'[u] = pc[u] /\ op'[u] = op[u]
                                  /\ id'[u] = id[u] /\ copy'[u] = copy[u]
    BY DEF IInv, Typed, Load
  <1>5. Creating(t)' /\ Working(t)'
    <2>1. orders' = orders
      BY DEF Load
    <2> QED
      BY <1>1, <1>4, <2>1 DEF Creating, Working
  <1>6. Fresh' /\ BlockedStaysBlocked' /\ Honest'
    BY DEF IInv, Fresh, BlockedStaysBlocked, Honest, Taken, Load
  <1> QED
    BY <1>2, <1>3, <1>4, <1>5, <1>6, OthersKeep DEF IInv

\* The four handlers.
LoadAny(t, i) ==
    LoadApprove(t, i) \/ LoadReject(t, i) \/ LoadExecute(t, i) \/ LoadCancel(t, i)

LEMMA LoadsIInv ==
    ASSUME IInv, NEW t \in Tasks, NEW i \in DOMAIN orders, LoadAny(t, i)
    PROVE  IInv'
  <1> DEFINE with(status, approval) ==
               [orders[i] EXCEPT !.status = status, !.approval = approval]
             only(status) == [orders[i] EXCEPT !.status = status]
  <1>1. orders[i] \in Order
    BY StoredIds DEF IInv
  <1>2. ASSUME NEW status \in Statuses,
               NEW approval \in {"pending", "approved", "rejected", "auto_approved"}
        PROVE  /\ with(status, approval) \in Order
               /\ with(status, approval).status = status
               /\ with(status, approval).passed = orders[i].passed
    BY <1>1 DEF Order
  <1>3. ASSUME NEW status \in Statuses
        PROVE  /\ only(status) \in Order
               /\ only(status).status = status
               /\ only(status).passed = orders[i].passed
    BY <1>1 DEF Order
  <1>4. {"approved", "cancelled", "executing"} \subseteq Statuses
    BY DEF Statuses, OpenStatuses
  <1>5. CASE LoadApprove(t, i)
    <2>1. /\ orders[i].status = "pending_approval"
          /\ Load(t, "approve", i, with("approved", "approved"))
      BY <1>5 DEF LoadApprove
    <2> HIDE DEF with
    <2> QED BY <1>2, <1>4, <2>1, LoadIInv
  <1>6. CASE LoadReject(t, i)
    <2>1. /\ orders[i].status = "pending_approval"
          /\ Load(t, "reject", i, with("cancelled", "rejected"))
      BY <1>6 DEF LoadReject
    <2> HIDE DEF with
    <2> QED BY <1>2, <1>4, <2>1, LoadIInv
  <1>7. CASE LoadExecute(t, i)
    <2>1. orders[i].status = "approved" /\ Load(t, "execute", i, only("executing"))
      BY <1>7 DEF LoadExecute
    <2> HIDE DEF only
    <2> QED BY <1>3, <1>4, <2>1, LoadIInv
  <1>8. CASE LoadCancel(t, i)
    <2>1. orders[i].status # "cancelled" /\ Load(t, "cancel", i, only("cancelled"))
      BY <1>8 DEF LoadCancel
    <2> HIDE DEF only
    <2> QED BY <1>3, <1>4, <2>1, LoadIInv
  <1> QED
    BY <1>5, <1>6, <1>7, <1>8 DEF LoadAny

LEMMA WriteIInv ==
    ASSUME IInv, NEW t \in Tasks, Write(t)
    PROVE  IInv'
  <1> DEFINE i == id[t]
  <1>1. /\ i \in DOMAIN orders /\ copy[t] \in Order /\ copy[t].passed
        /\ copy[t].passed = orders[i].passed
        /\ orders[i].passed /\ op[t] \in {"approve", "reject", "execute", "cancel"}
        /\ copy[t].status = "executed" => Taken(i)
        /\ op[t] = "cancel" => copy[t].status = "cancelled"
        /\ op[t] = "execute" => copy[t].status \in {"executing", "executed", "failed"}
    BY DEF IInv, Write, Working
  <1>2. /\ orders' = [orders EXCEPT ![i] = copy[t]]
        /\ pc' = [pc EXCEPT ![t] = "log"]
        /\ UNCHANGED <<placed, log, op, id, copy>>
    BY Zenon DEF Write
  <1>3. /\ orders' \in Seq(Order) /\ Len(orders') = Len(orders)
        /\ DOMAIN orders' = DOMAIN orders /\ orders'[i] = copy[t]
        /\ \A j \in DOMAIN orders : j # i => orders'[j] = orders[j]
    <2> HIDE DEF i
    <2> QED BY <1>1, <1>2 DEF IInv, Typed
  <1> HIDE DEF i
  <1>4. Typed'
    BY <1>2, <1>3 DEF IInv, Typed
  <1>5. Grows
    <2>1. \A j \in DOMAIN orders : placed[j] \in Nat
      BY StoredIds DEF IInv, Typed
    <2> QED
      <3>1. \A j \in DOMAIN orders : orders'[j].passed = orders[j].passed
        <4>1. orders'[i].passed = orders[i].passed
          BY <1>1, <1>3
        <4> QED
          BY <1>3, <4>1
      <3> QED
        BY <1>2, <1>3, <2>1, <3>1 DEF Grows
  <1>6. /\ pc'[t] = "log" /\ op'[t] = op[t] /\ copy'[t] = copy[t] /\ id'[t] = i
        /\ \A u \in Tasks \ {t} : /\ pc'[u] = pc[u] /\ op'[u] = op[u]
                                  /\ id'[u] = id[u] /\ copy'[u] = copy[u]
    BY <1>2 DEF IInv, Typed, i
  <1>7. Creating(t)' /\ Working(t)'
    BY <1>1, <1>2, <1>3, <1>6 DEF Creating, Working, Taken
  <1>8. Fresh'
    BY <1>2, <1>3 DEF IInv, Fresh
  <1>9. BlockedStaysBlocked'
    BY <1>1, <1>2, <1>3 DEF IInv, BlockedStaysBlocked
  <1>10. Honest'
    BY <1>1, <1>2, <1>3 DEF IInv, Honest, Taken
  <1> QED
    BY <1>4, <1>5, <1>6, <1>7, <1>8, <1>9, <1>10, OthersKeep DEF IInv

\* A command changes what the marketplace holds for an order that has passed.
LEMMA CommandIInv ==
    ASSUME IInv, NEW t \in Tasks, Command(t)
    PROVE  IInv'
  <1> DEFINE i == id[t]
             new(status) == [copy[t] EXCEPT !.status = status]
  <1>1. /\ i \in DOMAIN orders /\ i \in Ids /\ copy[t] \in Order /\ copy[t].passed
        /\ copy[t].passed = orders[i].passed
        /\ orders[i].passed /\ op[t] = "execute"
    BY StoredIds DEF IInv, Command, Working
  <1>2. PICK status \in {"executed", "failed"}, n \in {0, 1} :
           /\ placed' = [placed EXCEPT ![i] = @ + n]
           /\ Answers(t, status)
           /\ status = "executed" => n = 1 \/ i \in Simulated
           /\ i \in Simulated => n = 0
    <2>1. placed \in [Ids -> Nat]
      BY DEF IInv, Typed
    <2>2. placed = [placed EXCEPT ![i] = @ + 0]
      BY <1>1, <2>1
    <2> QED
      BY <1>1, <2>2 DEF Command
  <1>3. /\ pc' = [pc EXCEPT ![t] = "write"] /\ UNCHANGED <<orders, log, op, id>>
        /\ copy' = [copy EXCEPT ![t] = new(status)]
    BY <1>2, Zenon DEF Answers
  <1>4. /\ new(status) \in Order /\ new(status).status = status
        /\ new(status).passed /\ new(status).passed = copy[t].passed
    BY <1>1 DEF Order, Statuses
  <1> HIDE DEF i, new
  <1>5. Typed'
    BY <1>1, <1>2, <1>3, <1>4 DEF IInv, Typed
  <1>6. \A j \in Ids : placed'[j] = IF j = i THEN placed[j] + n ELSE placed[j]
    BY <1>1, <1>2 DEF IInv, Typed
  <1>7. \A j \in Ids : /\ placed[j] \in Nat /\ placed'[j] \in Nat
                       /\ placed'[j] >= placed[j]
    BY <1>6 DEF IInv, Typed
  <1>8. Grows
    BY <1>3, <1>7, StoredIds DEF IInv, Grows
  <1>9. /\ pc'[t] = "write" /\ op'[t] = "execute" /\ copy'[t] = new(status)
        /\ id'[t] = i
        /\ \A u \in Tasks \ {t} : /\ pc'[u] = pc[u] /\ op'[u] = op[u]
                                  /\ id'[u] = id[u] /\ copy'[u] = copy[u]
    BY <1>1, <1>2, <1>3 DEF IInv, Typed, i
  <1>10. status = "executed" => placed'[i] > 0 \/ i \in Simulated
    <2>1. placed[i] \in Nat /\ placed'[i] = placed[i] + n
      BY <1>1, <1>6 DEF IInv, Typed
    <2> QED
      BY <1>2, <2>1
  <1>11. Creating(t)' /\ Working(t)'
    <2>1. id'[t] \in DOMAIN orders' /\ orders'[id'[t]] = orders[i]
      BY <1>1, <1>3, <1>9
    <2>2. copy'[t].status = "executed" => placed'[id'[t]] > 0 \/ id'[t] \in Simulated
      BY <1>4, <1>9, <1>10
    <2> QED
      BY <1>1, <1>4, <1>9, <2>1, <2>2 DEF Creating, Working, Taken
  <1>12. Fresh'
    BY <1>1, <1>2, <1>3, <1>6, StoredIds DEF IInv, Fresh
  <1>13. BlockedStaysBlocked'
    BY <1>1, <1>3, <1>6, StoredIds DEF IInv, BlockedStaysBlocked
  <1>14. Honest'
    <2> SUFFICES ASSUME NEW j \in DOMAIN orders, Taken(j)
                 PROVE  Taken(j)'
      BY <1>3 DEF IInv, Honest
    <2>1. j \in Ids
      BY StoredIds DEF IInv
    <2> QED
      BY <1>7, <2>1 DEF Taken
  <1> QED
    BY <1>5, <1>8, <1>9, <1>11, <1>12, <1>13, <1>14, OthersKeep DEF IInv

\* A handler that returns or raises leaves nothing behind in its task.
LEMMA ForgetIdle ==
    ASSUME IInv, NEW t \in Tasks, Forget(t), pc' = [pc EXCEPT ![t] = "idle"],
           orders' = orders, placed' = placed, log' \in [Ids -> SUBSET LogEvents]
    PROVE  /\ Typed' /\ Grows
           /\ \A u \in Tasks : Creating(u)' /\ Working(u)'
  <1>1. Typed'
    BY DEF IInv, Typed, Forget
  <1>2. Grows
    BY StoredIds DEF IInv, Typed, Grows
  <1>3. /\ pc'[t] = "idle"
        /\ \A u \in Tasks \ {t} : /\ pc'[u] = pc[u] /\ op'[u] = op[u]
                                  /\ id'[u] = id[u] /\ copy'[u] = copy[u]
    BY DEF IInv, Typed, Forget
  <1>4. Creating(t)' /\ Working(t)'
    BY <1>3 DEF Creating, Working
  <1> QED
    BY <1>1, <1>2, <1>3, <1>4, OthersKeep

LEMMA LogIInv ==
    ASSUME IInv, NEW t \in Tasks, Log(t)
    PROVE  IInv'
  <1> DEFINE i == id[t]
             event == LogEvent(t)
  <1>1. /\ pc[t] = "log" /\ i \in DOMAIN orders /\ i \in Ids /\ copy[t] \in Order
        /\ copy[t].passed = orders[i].passed
        /\ op[t] \in {"create", "approve", "reject", "execute", "cancel"}
        /\ op[t] # "create" => copy[t].passed
        /\ op[t] = "execute" => copy[t].status \in {"executing", "executed", "failed"}
        /\ copy[t].status = "executed" => Taken(i)
    BY StoredIds DEF IInv, Log, Working
  <1>2. /\ ~orders[i].passed => event = "risk_rejected"
        /\ event = "executed" => Taken(i)
    BY <1>1 DEF LogEvent
  <1>3. log' = [log EXCEPT ![i] = @ \cup {event}] /\ orders' = orders /\ placed' = placed
    BY Zenon DEF Log
  <1>4. log' \in [Ids -> SUBSET LogEvents]
    <2>1. op[t] = "execute" => copy[t].status \in LogEvents
      BY <1>1 DEF LogEvents
    <2>2. event \in LogEvents
      BY <1>1, <2>1 DEF LogEvent, LogEvents
    <2> HIDE DEF event
    <2> QED BY <1>1, <1>3, <2>2 DEF IInv, Typed
  <1> HIDE DEF i, event
  <1>5. \A j \in Ids : log'[j] = IF j = i THEN log[j] \cup {event} ELSE log[j]
    BY <1>1, <1>3 DEF IInv, Typed
  <1>6. Typed' /\ \A u \in Tasks : Creating(u)' /\ Working(u)'
    <2>1. CASE Continues(t)
      <3>1. /\ pc' = [pc EXCEPT ![t] = "command"] /\ UNCHANGED <<op, id, copy>>
            /\ op[t] = "execute" /\ copy[t].status = "executing"
        BY <2>1, Zenon DEF Log, Continues
      <3>2. Typed'
        BY <1>3, <1>4, <3>1 DEF IInv, Typed
      <3>3. Grows
        BY <1>3, StoredIds DEF IInv, Typed, Grows
      <3>4. /\ pc'[t] = "command"
            /\ \A u \in Tasks \ {t} : /\ pc'[u] = pc[u] /\ op'[u] = op[u]
                                      /\ id'[u] = id[u] /\ copy'[u] = copy[u]
        BY <3>1 DEF IInv, Typed
      <3>5. Creating(t)' /\ Working(t)'
        BY <1>1, <1>3, <3>1, <3>4 DEF IInv, Creating, Working
      <3> QED
        BY <3>2, <3>3, <3>4, <3>5, OthersKeep
    <2>2. CASE ~Continues(t)
      <3>1. pc' = [pc EXCEPT ![t] = "idle"] /\ Forget(t)
        BY <2>2, Zenon DEF Log
      <3> QED
        BY <1>3, <1>4, <3>1, ForgetIdle
    <2> QED
      BY <2>1, <2>2
  <1>7. Fresh'
    BY <1>1, <1>3, <1>5, StoredIds DEF IInv, Fresh
  <1>8. BlockedStaysBlocked'
    BY <1>2, <1>3, <1>5, StoredIds DEF IInv, BlockedStaysBlocked
  <1>9. Honest'
    BY <1>2, <1>3, <1>5, StoredIds DEF IInv, Honest, Taken
  <1> QED
    BY <1>6, <1>7, <1>8, <1>9 DEF IInv

LEMMA AbortIInv ==
    ASSUME IInv, NEW t \in Tasks, Abort(t)
    PROVE  IInv'
  <1>1. /\ pc' = [pc EXCEPT ![t] = "idle"] /\ Forget(t)
        /\ UNCHANGED <<orders, placed, log>>
    BY Zenon DEF Abort
  <1>2. Typed' /\ \A u \in Tasks : Creating(u)' /\ Working(u)'
    BY <1>1, ForgetIdle DEF IInv, Typed
  <1>3. Fresh' /\ BlockedStaysBlocked' /\ Honest'
    BY <1>1 DEF IInv, Fresh, BlockedStaysBlocked, Honest, Taken
  <1> QED
    BY <1>2, <1>3 DEF IInv

-----------------------------------------------------------------------------
(* The specification *)

LEMMA Inductive == IInv /\ [Next]_vars => IInv'
  <1> SUFFICES ASSUME IInv, [Next]_vars
               PROVE  IInv'
    OBVIOUS
  <1>1. ASSUME NEW t \in Tasks, NEW opp \in Opps \cup {None}, NEW cost \in Costs,
               ReadTotals(t, opp, cost)
        PROVE  IInv'
    BY <1>1, ReadTotalsIInv
  <1>2. ASSUME NEW t \in Tasks, NEW mode \in {"manual", "auto"}, ReadActive(t, mode)
        PROVE  IInv'
    BY <1>2, ReadActiveIInv
  <1>3. ASSUME NEW t \in Tasks, NEW i \in DOMAIN orders, LoadAny(t, i)
        PROVE  IInv'
    BY <1>3, LoadsIInv
  <1>4. ASSUME NEW t \in Tasks,
               Insert(t) \/ Write(t) \/ Command(t) \/ Log(t) \/ Abort(t)
        PROVE  IInv'
    BY <1>4, InsertIInv, WriteIInv, CommandIInv, LogIInv, AbortIInv
  <1>5. CASE UNCHANGED vars
    <2> USE DEF vars
    <2>1. Typed' /\ Fresh' /\ \A t \in Tasks : Creating(t)' /\ Working(t)'
      BY <1>5 DEF IInv, Typed, Fresh, Creating, Working, Taken
    <2>2. BlockedStaysBlocked' /\ Honest'
      BY <1>5 DEF IInv, BlockedStaysBlocked, Honest, Taken
    <2> QED
      BY <2>1, <2>2 DEF IInv
  <1> QED
    BY <1>1, <1>2, <1>3, <1>4, <1>5, Zenon DEF Next, LoadAny

LEMMA Invariance == Spec => []IInv
  BY InitIInv, Inductive, PTL DEF Spec

\* The risk gate: an order that failed its assessment stays cancelled, is never
\* placed on the marketplace and logs nothing but its rejection.
THEOREM RiskGate == Spec => []BlockedStaysBlocked
  <1>1. IInv => BlockedStaysBlocked
    BY DEF IInv
  <1> QED
    BY <1>1, Invariance, PTL

\* An order that its row or its audit trail calls executed was accepted by the
\* marketplace, unless that has no client: then it is simulated and not placed.
THEOREM ExecutedIsTrue == Spec => []ExecutedWasPlaced
  <1>1. IInv => ExecutedWasPlaced
    BY StoredIds DEF IInv, Typed, Fresh, Honest, Taken, ExecutedWasPlaced
  <1> QED
    BY <1>1, Invariance, PTL

-----------------------------------------------------------------------------
(* A resolved order is not bought again *)

\* A task that writes a stored order holds it.
LEMMA WriterHolds ==
    ASSUME IInv, NEW t \in Tasks, pc[t] \in {"write", "command"}
    PROVE  Holds(t, id[t]) /\ op[t] # "create"
  BY DEF IInv, Working, Holds

\* What keeps an order resolved: its row keeps its status or becomes
\* cancelled, and whoever holds it afterwards held it before or cancels it.
LEMMA StaysResolved ==
    ASSUME NEW i, Resolved(i),
           \/ orders'[i].status = orders[i].status
           \/ orders'[i].status = "cancelled",
           \A u \in Tasks : Holds(u, i)' =>
              \/ op'[u] = "cancel"
              \/ Holds(u, i) /\ op'[u] = op[u]
    PROVE  Resolved(i)'
  BY DEF Resolved

LEMMA StepKeepsResolved ==
    ASSUME IInv, [Next]_vars, NEW i \in DOMAIN orders, Resolved(i)
    PROVE  Resolved(i)' /\ placed'[i] = placed[i]
  <1>1. ASSUME NEW t \in Tasks, NEW opp \in Opps \cup {None}, NEW cost \in Costs,
               ReadTotals(t, opp, cost)
        PROVE  Resolved(i)' /\ placed'[i] = placed[i]
    <2>1. \A u \in Tasks : Holds(u, i)' => Holds(u, i) /\ op'[u] = op[u]
      BY <1>1 DEF IInv, Typed, ReadTotals, Holds, Continues
    <2> QED
      BY <1>1, <2>1, StaysResolved DEF ReadTotals
  <1>2. ASSUME NEW t \in Tasks, NEW mode, ReadActive(t, mode)
        PROVE  Resolved(i)' /\ placed'[i] = placed[i]
    <2>1. op[t] = "create"
      BY <1>2 DEF IInv, Creating, ReadActive
    <2>2. \A u \in Tasks : Holds(u, i)' => Holds(u, i) /\ op'[u] = op[u]
      BY <1>2, <2>1 DEF IInv, Typed, ReadActive, Holds, Continues
    <2> QED
      BY <1>2, <2>2, StaysResolved DEF ReadActive
  <1>3. ASSUME NEW t \in Tasks, Insert(t)
        PROVE  Resolved(i)' /\ placed'[i] = placed[i]
    <2>1. op[t] = "create"
      BY <1>3 DEF IInv, Creating, Insert
    <2>2. \A u \in Tasks : Holds(u, i)' => Holds(u, i) /\ op'[u] = op[u]
      BY <1>3, <2>1 DEF IInv, Typed, Insert, Holds, Continues
    <2>3. orders'[i] = orders[i]
      <3>1. copy[t] \in Order
        BY <1>3 DEF IInv, Creating, Insert
      <3> QED
        BY <1>3, <3>1, StoredIds DEF IInv, Typed, Insert
    <2> QED
      BY <1>3, <2>2, <2>3, StaysResolved DEF Insert
  <1>4. ASSUME NEW t \in Tasks, NEW j \in DOMAIN orders, LoadAny(t, j)
        PROVE  Resolved(i)' /\ placed'[i] = placed[i]
    <2>1. PICK name, changed :
             /\ Load(t, name, j, changed)
             /\ \/ name = "cancel"
                \/ orders[j].status \in {"pending_approval", "approved"}
      BY <1>4, Zenon DEF LoadAny, LoadApprove, LoadReject, LoadExecute, LoadCancel
    <2>2. name = "cancel" \/ i # j
      BY <2>1 DEF Resolved
    <2>3. \A u \in Tasks : Holds(u, i)' =>
             \/ op'[u] = "cancel"
             \/ Holds(u, i) /\ op'[u] = op[u]
      BY <2>1, <2>2 DEF IInv, Typed, Load, Holds, Continues
    <2> QED
      BY <2>1, <2>3, StaysResolved DEF Load
  <1>5. ASSUME NEW t \in Tasks, Write(t)
        PROVE  Resolved(i)' /\ placed'[i] = placed[i]
    <2>1. id[t] = i => op[t] = "cancel" /\ copy[t].status = "cancelled"
      BY <1>5, WriterHolds DEF IInv, Working, Write, Resolved
    <2>2. \/ orders'[i].status = orders[i].status
          \/ orders'[i].status = "cancelled"
      BY <1>5, <2>1 DEF IInv, Typed, Write
    <2>3. \A u \in Tasks : Holds(u, i)' => Holds(u, i) /\ op'[u] = op[u]
      BY <1>5 DEF IInv, Typed, Write, Holds, Continues
    <2> QED
      BY <1>5, <2>2, <2>3, StaysResolved DEF Write
  <1>6. ASSUME NEW t \in Tasks, Command(t)
        PROVE  Resolved(i)' /\ placed'[i] = placed[i]
    <2>1. op[t] = "execute" /\ Holds(t, id[t])
      BY <1>6, WriterHolds DEF IInv, Working, Command
    <2>2. id[t] # i
      BY <2>1 DEF Resolved
    <2>3. placed'[i] = placed[i]
      BY <1>6, <2>2, StoredIds DEF IInv, Typed, Command
    <2>4. \A u \in Tasks : Holds(u, i)' => Holds(u, i) /\ op'[u] = op[u]
      BY <1>6, <2>2 DEF IInv, Typed, Command, Answers, Holds, Continues
    <2> QED
      BY <1>6, <2>3, <2>4, StaysResolved DEF Command, Answers
  <1>7. ASSUME NEW t \in Tasks, Log(t)
        PROVE  Resolved(i)' /\ placed'[i] = placed[i]
    <2>1. \A u \in Tasks : Holds(u, i)' => Holds(u, i) /\ op'[u] = op[u]
      <3>1. CASE Continues(t)
        BY <1>7, <3>1 DEF IInv, Typed, Log, Holds, Continues
      <3>2. CASE ~Continues(t)
        BY <1>7, <3>2 DEF IInv, Typed, Log, Holds, Continues, Forget
      <3> QED
        BY <3>1, <3>2
    <2> QED
      BY <1>7, <2>1, StaysResolved DEF Log
  <1>8. ASSUME NEW t \in Tasks, Abort(t)
        PROVE  Resolved(i)' /\ placed'[i] = placed[i]
    <2>1. \A u \in Tasks : Holds(u, i)' => Holds(u, i) /\ op'[u] = op[u]
      BY <1>8 DEF IInv, Typed, Abort, Forget, Holds, Continues
    <2> QED
      BY <1>8, <2>1, StaysResolved DEF Abort
  <1>9. CASE UNCHANGED vars
    BY <1>9 DEF vars, Resolved, Holds, Continues
  <1> QED
    BY <1>1, <1>2, <1>3, <1>4, <1>5, <1>6, <1>7, <1>8, <1>9, Zenon DEF Next, LoadAny

\* Once an order has been handed to the marketplace or closed, and no handler
\* that read it before is about to, no sequence of calls buys it again.
THEOREM NotBoughtAgain == Spec => ResolvedNotBoughtAgain
  <1>1. IInv /\ [Next]_vars =>
          [\A i \in DOMAIN orders :
              Resolved(i) => Resolved(i)' /\ placed'[i] = placed[i]]_vars
    BY StepKeepsResolved
  <1> QED
    BY <1>1, Invariance, PTL DEF Spec, ResolvedNotBoughtAgain

-----------------------------------------------------------------------------
(* The limits *)

\* The handler will overwrite order i with a status that counts as exposure,
\* whatever the row says by then.
Reopens(t, i) ==
    pc[t] = "write" /\ id[t] = i /\ copy[t].status \in OpenStatuses

LiveOrders ==
    {i \in DOMAIN orders : i \in OpenOrders \/ \E t \in Tasks : Reopens(t, i)}

\* A create that the limits of exposure and size have let through, or may.
Admitted(t) ==
    \/ /\ pc[t] = "active"
       /\ ExposureAllowed(copy[t].cost, t)
       /\ copy[t].cost <= MaxSingle
    \/ pc[t] = "insert" /\ copy[t].passed

Creators == {t \in Tasks : Admitted(t)}

PendingCost == SumFunctionOnSet([t \in Tasks |-> copy[t].cost], Creators)

\* What is open, or may still become so, in one sum.
ExposureInv ==
    Cost(LiveOrders) + PendingCost <= MaxExposure + (Cardinality(Tasks) - 1) * MaxSingle

\* Copies belong to their rows, and what passed is no larger than an order may be.
Sized ==
    /\ totals \in [Tasks -> [exposure : Nat, executed : Nat]]
    /\ \A i \in DOMAIN orders : orders[i].passed => orders[i].cost <= MaxSingle
    /\ \A t \in Tasks :
          /\ pc[t] = "active" => ~copy[t].passed
          /\ pc[t] = "insert" /\ copy[t].passed => copy[t].cost <= MaxSingle
          /\ pc[t] \in {"write", "command", "log"} =>
                copy[t].cost = orders[id[t]].cost /\ copy[t].opp = orders[id[t]].opp

LiveFor(opp) == {i \in LiveOrders : orders[i].opp = opp}
CreatorsFor(opp) == {t \in Tasks : pc[t] = "insert" /\ copy[t].passed /\ copy[t].opp = opp}
DuplicatesInv ==
    \A opp \in Opps :
        Cardinality(LiveFor(opp)) + Cardinality(CreatorsFor(opp)) <= Cardinality(Tasks)

\* Sets of orders and of tasks are finite, and their costs natural numbers.
LEMMA Counted ==
    ASSUME IInv
    PROVE  /\ \A S \in SUBSET DOMAIN orders : IsFiniteSet(S) /\ Cardinality(S) \in Nat
           /\ \A C \in SUBSET Tasks : IsFiniteSet(C) /\ Cardinality(C) \in Nat
           /\ OpenOrders \subseteq LiveOrders /\ LiveOrders \subseteq DOMAIN orders
           /\ Creators \subseteq Tasks
           /\ \A i \in DOMAIN orders : orders[i].cost \in Nat
           /\ \A t \in Creators : copy[t].cost \in Nat
  <1>1. DOMAIN orders = 1..Len(orders) /\ Len(orders) \in Nat
        /\ \A i \in DOMAIN orders : orders[i] \in Order
    BY StoredIds DEF IInv
  <1>2. IsFiniteSet(DOMAIN orders)
    BY <1>1, FS_Interval
  <1>3. \A S \in SUBSET DOMAIN orders : IsFiniteSet(S) /\ Cardinality(S) \in Nat
    BY <1>2, FS_Subset, FS_CardinalityType
  <1>4. \A C \in SUBSET Tasks : IsFiniteSet(C) /\ Cardinality(C) \in Nat
    BY TasksAssumption, FS_Subset, FS_CardinalityType
  <1>5. \A i \in DOMAIN orders : orders[i].cost \in Nat
    BY <1>1, CostsAssumption DEF Order
  <1>6. \A t \in Creators : copy[t].cost \in Nat
    BY CostsAssumption DEF IInv, Creators, Admitted, Creating, Order
  <1> QED
    BY <1>3, <1>4, <1>5, <1>6 DEF OpenOrders, LiveOrders, Creators

\* Each order that is not open and may be reopened has a writer of its own.
LEMMA WritersBound ==
    ASSUME IInv, NEW S \in SUBSET (LiveOrders \ OpenOrders),
           NEW C \in SUBSET Tasks, \A u \in C : pc[u] # "write",
           NEW t \in Tasks \ C, pc[t] # "write"
    PROVE  /\ Cardinality(S) \in Nat /\ Cardinality(C) \in Nat /\ Cardinality(Tasks) \in Nat
           /\ Cardinality(S) + Cardinality(C) + 1 <= Cardinality(Tasks)
  <1> DEFINE W == {u \in Tasks : pc[u] = "write"}
             f == [i \in S |-> CHOOSE u \in Tasks : Reopens(u, i)]
  <1>1. \A i \in S : f[i] \in Tasks /\ Reopens(f[i], i)
    BY DEF LiveOrders
  <1>2. f \in Injection(S, W)
    <2>1. \A i \in S : f[i] \in W /\ id[f[i]] = i
      BY <1>1 DEF Reopens
    <2>2. f \in [S -> W]
      BY <2>1
    <2> HIDE DEF f, W
    <2> QED
      BY <2>1, <2>2 DEF Injection, IsInjective
  <1>3. W \in SUBSET Tasks /\ S \in SUBSET DOMAIN orders /\ W \cap C = {}
        /\ W \cup C \subseteq Tasks \ {t}
    BY Counted
  <1>4. IsFiniteSet(W) /\ IsFiniteSet(C) /\ Cardinality(W) \in Nat /\ Cardinality(C) \in Nat
        /\ Cardinality(S) \in Nat /\ IsFiniteSet(Tasks) /\ Cardinality(Tasks) \in Nat
    BY <1>3, Counted
  <1> HIDE DEF W, f
  <1>5. Cardinality(S) <= Cardinality(W)
    BY <1>2, <1>4, FS_Injection
  <1>6. Cardinality(W \cup C) = Cardinality(W) + Cardinality(C)
    <2>1. Cardinality(W \cap C) = 0
      BY <1>3, FS_EmptySet
    <2>2. Cardinality(W \cup C) = Cardinality(W) + Cardinality(C) - Cardinality(W \cap C)
      BY <1>4, FS_Union, Zenon
    <2> QED
      BY <1>4, <2>1, <2>2
  <1>7. Cardinality(Tasks \ {t}) = Cardinality(Tasks) - 1 /\ IsFiniteSet(Tasks \ {t})
    BY <1>4, FS_RemoveElement
  <1>8. Cardinality(W \cup C) <= Cardinality(Tasks \ {t})
    BY <1>3, <1>7, FS_Subset
  <1> QED
    BY <1>4, <1>5, <1>6, <1>7, <1>8

LimitsInv == Sized /\ ExposureInv /\ DuplicatesInv

LimitOfExposure == MaxExposure + (Cardinality(Tasks) - 1) * MaxSingle

\* A step that adds neither a live order nor a create that was admitted.
LEMMA ExposureKept ==
    ASSUME IInv, ExposureInv,
           LiveOrders' \subseteq LiveOrders,
           \A i \in LiveOrders' : orders'[i].cost = orders[i].cost,
           Creators' \subseteq Creators,
           \A t \in Creators' : copy'[t].cost = copy[t].cost
    PROVE  ExposureInv'
  <1> DEFINE f == [i \in DOMAIN orders |-> orders[i].cost]
             g == [i \in DOMAIN orders' |-> orders'[i].cost]
             c == [t \in Tasks |-> copy[t].cost]
             d == [t \in Tasks |-> copy'[t].cost]
  <1>1. /\ IsFiniteSet(LiveOrders) /\ IsFiniteSet(LiveOrders')
        /\ IsFiniteSet(Creators) /\ IsFiniteSet(Creators')
    BY Counted
  <1>2. /\ \A i \in LiveOrders : f[i] \in Nat
        /\ \A i \in LiveOrders' : g[i] = f[i]
    BY Counted DEF LiveOrders
  <1>3. /\ \A t \in Creators : c[t] \in Nat
        /\ \A t \in Creators' : d[t] = c[t]
    BY Counted
  <1> HIDE DEF f, g, c, d
  <1>4. SumFunctionOnSet(g, LiveOrders') = SumFunctionOnSet(f, LiveOrders')
    BY <1>1, <1>2, SumSame
  <1>5. /\ SumFunctionOnSet(f, LiveOrders') \in Nat /\ SumFunctionOnSet(f, LiveOrders) \in Nat
        /\ SumFunctionOnSet(f, LiveOrders') <= SumFunctionOnSet(f, LiveOrders)
    BY <1>1, <1>2, SumPart
  <1>6. SumFunctionOnSet(d, Creators') = SumFunctionOnSet(c, Creators')
    BY <1>1, <1>3, SumSame
  <1>7. /\ SumFunctionOnSet(c, Creators') \in Nat /\ SumFunctionOnSet(c, Creators) \in Nat
        /\ SumFunctionOnSet(c, Creators') <= SumFunctionOnSet(c, Creators)
    BY <1>1, <1>3, SumPart
  <1>8. SumFunctionOnSet(f, LiveOrders) + SumFunctionOnSet(c, Creators) <= LimitOfExposure
    BY Zenon DEF ExposureInv, Cost, PendingCost, f, c, LimitOfExposure
  <1>9. LimitOfExposure \in Int
    BY Counted, LimitsAssumption DEF LimitOfExposure
  <1>10. SumFunctionOnSet(g, LiveOrders') + SumFunctionOnSet(d, Creators') <= LimitOfExposure
    BY <1>4, <1>5, <1>6, <1>7, <1>8, <1>9
  <1> QED
    BY <1>10, Zenon DEF ExposureInv, Cost, PendingCost, g, d, LimitOfExposure

\* A create is admitted on what is open: what else is live has a writer.
LEMMA ExposureAdmitted ==
    ASSUME IInv, Sized, NEW t \in Tasks, pc[t] = "idle", UNCHANGED orders,
           LiveOrders' = LiveOrders, Creators' = Creators \cup {t},
           \A u \in Creators : copy'[u].cost = copy[u].cost,
           NEW cost \in Nat, copy'[t].cost = cost, cost <= MaxSingle,
           Cost(OpenOrders) + cost <= MaxExposure
    PROVE  ExposureInv'
  <1> DEFINE f == [i \in DOMAIN orders |-> orders[i].cost]
             d == [u \in Tasks |-> copy'[u].cost]
             R == LiveOrders \ OpenOrders
  <1>1. /\ IsFiniteSet(LiveOrders) /\ IsFiniteSet(Creators) /\ Creators \subseteq Tasks
        /\ IsFiniteSet(R) /\ IsFiniteSet(OpenOrders) /\ OpenOrders \cap R = {}
        /\ OpenOrders \cup R = LiveOrders
    BY Counted
  <1>2. t \notin Creators /\ \A u \in Creators : pc[u] # "write"
    BY DEF Creators, Admitted
  <1>3. /\ \A i \in LiveOrders : f[i] \in Nat /\ f[i] \in Int
        /\ \A i \in R : f[i] <= MaxSingle
    <2>1. ASSUME NEW i \in R PROVE orders[i].cost <= MaxSingle
      <3>1. PICK u \in Tasks : Reopens(u, i)
        BY <2>1 DEF LiveOrders
      <3>2. copy[u].passed /\ i \in DOMAIN orders
        BY <3>1 DEF IInv, Working, Reopens
      <3>3. orders[i].passed
        BY <3>1, <3>2 DEF IInv, Working, Reopens
      <3> QED
        BY <3>2, <3>3 DEF Sized
    <2> QED
      BY <2>1, Counted
  <1>4. /\ \A u \in Creators : d[u] \in Nat /\ d[u] <= MaxSingle
        /\ \A u \in Creators \cup {t} : d[u] \in Int
        /\ d[t] = cost
    BY Counted DEF Creators, Admitted, Sized
  <1>5. /\ Cardinality(R) \in Nat /\ Cardinality(Creators) \in Nat /\ Cardinality(Tasks) \in Nat
        /\ Cardinality(R) + Cardinality(Creators) + 1 <= Cardinality(Tasks)
    BY <1>1, <1>2, WritersBound
  <1> HIDE DEF f, d, R
  <1>6. /\ SumFunctionOnSet(f, OpenOrders) \in Int /\ SumFunctionOnSet(f, R) \in Int
        /\ SumFunctionOnSet(f, LiveOrders)
             = SumFunctionOnSet(f, OpenOrders) + SumFunctionOnSet(f, R)
    <2>1. \A i \in OpenOrders \cup R : f[i] \in Int
      BY <1>1, <1>3
    <2> QED
      BY <1>1, <2>1, SumUnion
  <1>7. SumFunctionOnSet(f, R) <= MaxSingle * Cardinality(R)
    <2>1. \A i \in R : f[i] \in Nat /\ f[i] <= MaxSingle
      BY <1>1, <1>3
    <2> QED
      BY <1>1, <2>1, LimitsAssumption, SumBound
  <1>8. /\ SumFunctionOnSet(d, Creators) \in Int
        /\ SumFunctionOnSet(d, Creators \cup {t}) = SumFunctionOnSet(d, Creators) + cost
    BY <1>1, <1>2, <1>4, SumAdd
  <1>9. SumFunctionOnSet(d, Creators) <= MaxSingle * Cardinality(Creators)
    BY <1>1, <1>4, LimitsAssumption, SumBound
  <1>10. SumFunctionOnSet(f, OpenOrders) + cost <= MaxExposure
    BY Zenon DEF Cost, f
  <1>11. SumFunctionOnSet(f, LiveOrders) + SumFunctionOnSet(d, Creators \cup {t})
           <= LimitOfExposure
    <2> DEFINE r == Cardinality(R)
               k == Cardinality(Creators)
               n == Cardinality(Tasks)
    <2>1. MaxSingle * r + MaxSingle * k <= (n - 1) * MaxSingle
      <3>1. r \in Nat /\ k \in Nat /\ n \in Nat /\ r + k <= n - 1 /\ MaxSingle \in Nat
        BY <1>5, LimitsAssumption
      <3> HIDE DEF r, k, n
      <3>2. \A a \in Nat, b \in Nat : a <= b => a * MaxSingle <= b * MaxSingle
        BY <3>1
      <3>3. (r + k) * MaxSingle <= (n - 1) * MaxSingle
        BY <3>1, <3>2
      <3> QED
        BY <3>1, <3>3
    <2>2. /\ MaxSingle * r \in Int /\ MaxSingle * k \in Int
          /\ (n - 1) * MaxSingle \in Int /\ MaxExposure \in Int
      BY <1>5, LimitsAssumption
    <2> DEFINE x == MaxSingle * r
               y == MaxSingle * k
               z == (n - 1) * MaxSingle
    <2>3. x \in Int /\ y \in Int /\ z \in Int /\ x + y <= z /\ LimitOfExposure = MaxExposure + z
          /\ SumFunctionOnSet(f, R) <= x /\ SumFunctionOnSet(d, Creators) <= y
      BY <1>7, <1>9, <2>1, <2>2 DEF LimitOfExposure
    <2> HIDE DEF x, y, z
    <2> QED
      BY <1>6, <1>8, <1>10, <2>2, <2>3
  <1> QED
    BY <1>11, Zenon DEF ExposureInv, Cost, PendingCost, f, d, LimitOfExposure

\* An admitted create inserts its order: a pending cost becomes a live one.
LEMMA ExposureInserted ==
    ASSUME IInv, ExposureInv, NEW t \in Creators, NEW n, n \notin DOMAIN orders,
           DOMAIN orders' = DOMAIN orders \cup {n},
           \A i \in DOMAIN orders : orders'[i].cost = orders[i].cost,
           orders'[n].cost = copy[t].cost, UNCHANGED copy,
           LiveOrders' \subseteq LiveOrders \cup {n}, Creators' = Creators \ {t}
    PROVE  ExposureInv'
  <1> DEFINE f == [i \in DOMAIN orders |-> orders[i].cost]
             g == [i \in DOMAIN orders' |-> orders'[i].cost]
             c == [u \in Tasks |-> copy[u].cost]
             d == [u \in Tasks |-> copy'[u].cost]
             L == LiveOrders
  <1>1. /\ IsFiniteSet(L) /\ IsFiniteSet(Creators) /\ n \notin L /\ t \in Tasks
        /\ IsFiniteSet(L \cup {n}) /\ IsFiniteSet(Creators \ {t})
    BY Counted, FS_AddElement, FS_RemoveElement
  <1>2. /\ \A i \in L : f[i] \in Nat /\ g[i] = f[i]
        /\ \A i \in L \cup {n} : g[i] \in Nat /\ g[i] \in Int
        /\ g[n] = c[t]
    BY <1>1, Counted
  <1>3. d = c /\ \A u \in Creators : c[u] \in Int
    BY Counted
  <1>4. LiveOrders' \in SUBSET (L \cup {n}) /\ Creators' = Creators \ {t}
    OBVIOUS
  <1> HIDE DEF f, g, c, d, L
  <1>5. /\ SumFunctionOnSet(g, LiveOrders') \in Nat /\ SumFunctionOnSet(g, L \cup {n}) \in Nat
        /\ SumFunctionOnSet(g, LiveOrders') <= SumFunctionOnSet(g, L \cup {n})
    BY <1>1, <1>2, <1>4, SumPart
  <1>6. /\ SumFunctionOnSet(g, L) \in Int
        /\ SumFunctionOnSet(g, L \cup {n}) = SumFunctionOnSet(g, L) + g[n]
    BY <1>1, <1>2, SumAdd
  <1>7. SumFunctionOnSet(g, L) = SumFunctionOnSet(f, L)
    BY <1>1, <1>2, SumSame
  <1>8. /\ SumFunctionOnSet(c, Creators) \in Int
        /\ SumFunctionOnSet(c, Creators) = c[t] + SumFunctionOnSet(c, Creators \ {t})
    BY <1>1, <1>3, SumRemove
  <1>9. SumFunctionOnSet(c, Creators \ {t}) \in Int
    <2>1. \A u \in Creators \ {t} : c[u] \in Int
      BY <1>3
    <2> QED
      BY <1>1, <2>1, SumRemove
  <1>10. SumFunctionOnSet(f, L) + SumFunctionOnSet(c, Creators) <= LimitOfExposure
    BY Zenon DEF ExposureInv, Cost, PendingCost, f, c, L, LimitOfExposure
  <1>11. LimitOfExposure \in Int /\ c[t] \in Int
    BY <1>3, Counted, LimitsAssumption DEF LimitOfExposure
  <1>12. SumFunctionOnSet(g, LiveOrders') + SumFunctionOnSet(d, Creators') <= LimitOfExposure
    <2>1. SumFunctionOnSet(d, Creators') = SumFunctionOnSet(c, Creators \ {t})
      BY <1>3, <1>4
    <2> QED
      BY <1>2, <1>5, <1>6, <1>7, <1>8, <1>9, <1>10, <1>11, <2>1
  <1> QED
    BY <1>12, Zenon DEF ExposureInv, Cost, PendingCost, g, d, LimitOfExposure

-----------------------------------------------------------------------------
(* The same for one opportunity *)

LEMMA ForOneCounted ==
    ASSUME IInv, NEW opp
    PROVE  /\ LiveFor(opp) \in SUBSET DOMAIN orders /\ CreatorsFor(opp) \in SUBSET Tasks
           /\ IsFiniteSet(LiveFor(opp)) /\ Cardinality(LiveFor(opp)) \in Nat
           /\ IsFiniteSet(CreatorsFor(opp)) /\ Cardinality(CreatorsFor(opp)) \in Nat
           /\ Cardinality(Tasks) \in Nat
  BY Counted DEF LiveFor, CreatorsFor, LiveOrders

LEMMA DuplicatesKept ==
    ASSUME IInv, NEW opp \in Opps, DuplicatesInv,
           LiveFor(opp)' \subseteq LiveFor(opp), CreatorsFor(opp)' \subseteq CreatorsFor(opp)
    PROVE  Cardinality(LiveFor(opp)') + Cardinality(CreatorsFor(opp)') <= Cardinality(Tasks)
  <1> DEFINE L == LiveFor(opp)'
             C == CreatorsFor(opp)'
  <1>1. /\ IsFiniteSet(L) /\ Cardinality(L) \in Nat /\ Cardinality(L) <= Cardinality(LiveFor(opp))
        /\ IsFiniteSet(C) /\ Cardinality(C) \in Nat
        /\ Cardinality(C) <= Cardinality(CreatorsFor(opp))
    <2> HIDE DEF L, C
    <2>1. L \in SUBSET LiveFor(opp) /\ C \in SUBSET CreatorsFor(opp)
      BY DEF L, C
    <2> QED
      BY <2>1, ForOneCounted, FS_Subset, FS_CardinalityType
  <1> HIDE DEF L, C
  <1>2. Cardinality(LiveFor(opp)) + Cardinality(CreatorsFor(opp)) <= Cardinality(Tasks)
    BY DEF DuplicatesInv
  <1>3. Cardinality(L) + Cardinality(C) <= Cardinality(Tasks)
    BY <1>1, <1>2, ForOneCounted
  <1> QED
    BY <1>3 DEF L, C

\* No order of the opportunity was open when the create was let through.
LEMMA DuplicatesAdmitted ==
    ASSUME IInv, NEW opp \in Opps, opp \notin ActiveOpportunities,
           NEW t \in Tasks, pc[t] = "active",
           LiveFor(opp)' \subseteq LiveFor(opp),
           CreatorsFor(opp)' \subseteq CreatorsFor(opp) \cup {t}
    PROVE  Cardinality(LiveFor(opp)') + Cardinality(CreatorsFor(opp)') <= Cardinality(Tasks)
  <1> DEFINE L == LiveFor(opp)'
             C == CreatorsFor(opp)'
             D == CreatorsFor(opp)
  <1>1. L \in SUBSET (LiveOrders \ OpenOrders)
    BY DEF LiveFor, ActiveOpportunities
  <1>2. D \in SUBSET Tasks /\ t \notin D /\ (\A u \in D : pc[u] # "write") /\ pc[t] # "write"
    BY DEF CreatorsFor
  <1> HIDE DEF L, C, D
  <1>3. /\ Cardinality(L) \in Nat /\ Cardinality(D) \in Nat /\ Cardinality(Tasks) \in Nat
        /\ Cardinality(L) + Cardinality(D) + 1 <= Cardinality(Tasks)
    BY <1>1, <1>2, WritersBound
  <1>4. /\ IsFiniteSet(D \cup {t}) /\ Cardinality(D \cup {t}) = Cardinality(D) + 1
    BY <1>2, Counted, FS_AddElement
  <1>5. C \in SUBSET (D \cup {t})
    BY DEF C, D
  <1>6. Cardinality(C) <= Cardinality(D \cup {t}) /\ Cardinality(C) \in Nat
    BY <1>4, <1>5, FS_Subset, FS_CardinalityType
  <1>7. Cardinality(L) + Cardinality(C) <= Cardinality(Tasks)
    BY <1>3, <1>4, <1>6
  <1> QED
    BY <1>7 DEF L, C

LEMMA DuplicatesInserted ==
    ASSUME IInv, NEW opp \in Opps, DuplicatesInv, NEW t \in CreatorsFor(opp), NEW n,
           LiveFor(opp)' \subseteq LiveFor(opp) \cup {n},
           CreatorsFor(opp)' = CreatorsFor(opp) \ {t}
    PROVE  Cardinality(LiveFor(opp)') + Cardinality(CreatorsFor(opp)') <= Cardinality(Tasks)
  <1> DEFINE L == LiveFor(opp)'
             M == LiveFor(opp)
             D == CreatorsFor(opp)
  <1>1. /\ IsFiniteSet(M) /\ Cardinality(M) \in Nat /\ IsFiniteSet(D) /\ Cardinality(D) \in Nat
        /\ Cardinality(Tasks) \in Nat /\ t \in D
        /\ L \in SUBSET (M \cup {n}) /\ CreatorsFor(opp)' = D \ {t}
        /\ Cardinality(M) + Cardinality(D) <= Cardinality(Tasks)
    BY ForOneCounted DEF DuplicatesInv
  <1> HIDE DEF L, M, D
  <1>2. IsFiniteSet(M \cup {n}) /\ Cardinality(M \cup {n}) <= Cardinality(M) + 1
        /\ Cardinality(M \cup {n}) \in Nat
    <2>1. /\ IsFiniteSet(M \cup {n})
          /\ Cardinality(M \cup {n}) = IF n \in M THEN Cardinality(M) ELSE Cardinality(M) + 1
      BY <1>1, FS_AddElement, Zenon
    <2> QED
      BY <1>1, <2>1
  <1>3. Cardinality(L) <= Cardinality(M \cup {n}) /\ Cardinality(L) \in Nat
    BY <1>1, <1>2, FS_Subset, FS_CardinalityType
  <1>4. Cardinality(D \ {t}) = Cardinality(D) - 1
    BY <1>1, FS_RemoveElement
  <1>5. Cardinality(L) + Cardinality(D \ {t}) <= Cardinality(Tasks)
    BY <1>1, <1>2, <1>3, <1>4
  <1> QED
    BY <1>1, <1>5 DEF L

-----------------------------------------------------------------------------
(* The actions and the limits *)

\* A step of a task that creates nothing, reopens nothing and keeps the costs.
LEMMA LimitsStay ==
    ASSUME IInv, LimitsInv, Sized', NEW t \in Tasks,
           \A u \in Tasks \ {t} : /\ pc'[u] = pc[u] /\ id'[u] = id[u]
                                  /\ copy'[u] = copy[u] /\ totals'[u] = totals[u],
           pc'[t] \notin {"active", "insert"},
           DOMAIN orders' = DOMAIN orders,
           \A i \in DOMAIN orders : /\ orders'[i].cost = orders[i].cost
                                    /\ orders'[i].opp = orders[i].opp,
           \A i \in DOMAIN orders :
              orders'[i].status \in OpenStatuses \/ Reopens(t, i)' => i \in LiveOrders
    PROVE  LimitsInv'
  <1>1. LiveOrders' \subseteq LiveOrders
    BY DEF LiveOrders, OpenOrders, Reopens
  <1>2. /\ Creators' \subseteq Creators
        /\ \A u \in Creators' : copy'[u].cost = copy[u].cost
    BY DEF Creators, Admitted, ExposureAllowed
  <1>3. \A i \in LiveOrders' : orders'[i].cost = orders[i].cost
    BY DEF LiveOrders
  <1>4. ExposureInv'
    BY <1>1, <1>2, <1>3, ExposureKept DEF LimitsInv
  <1>5. ASSUME NEW opp \in Opps
        PROVE  LiveFor(opp)' \subseteq LiveFor(opp) /\ CreatorsFor(opp)' \subseteq CreatorsFor(opp)
    BY <1>1 DEF LiveFor, CreatorsFor, LiveOrders
  <1>6. DuplicatesInv'
    BY <1>5, DuplicatesKept DEF LimitsInv, DuplicatesInv
  <1> QED
    BY <1>4, <1>6 DEF LimitsInv

LEMMA LoadLimits ==
    ASSUME IInv, LimitsInv, NEW t \in Tasks, NEW i \in DOMAIN orders, LoadAny(t, i)
    PROVE  LimitsInv'
  <1>1. orders[i] \in Order
    BY StoredIds DEF IInv
  <1>2. PICK name, changed :
           /\ Load(t, name, i, changed)
           /\ changed.cost = orders[i].cost /\ changed.opp = orders[i].opp
           /\ changed.status \in OpenStatuses => orders[i].status \in OpenStatuses
    <2>1. CASE LoadApprove(t, i)
      BY <1>1, <2>1 DEF LoadApprove, OpenStatuses, Order
    <2>2. CASE LoadReject(t, i)
      BY <1>1, <2>2 DEF LoadReject, OpenStatuses, Order
    <2>3. CASE LoadExecute(t, i)
      BY <1>1, <2>3 DEF LoadExecute, OpenStatuses, Order
    <2>4. CASE LoadCancel(t, i)
      BY <1>1, <2>4 DEF LoadCancel, OpenStatuses, Order
    <2> QED
      BY <2>1, <2>2, <2>3, <2>4 DEF LoadAny
  <1>3. /\ pc'[t] = "write" /\ id'[t] = i /\ copy'[t] = changed /\ orders' = orders
        /\ totals' = totals
        /\ \A u \in Tasks \ {t} : /\ pc'[u] = pc[u] /\ id'[u] = id[u]
                                  /\ copy'[u] = copy[u] /\ totals'[u] = totals[u]
    BY <1>2 DEF IInv, Typed, Load
  <1>4. Sized'
    BY <1>2, <1>3 DEF LimitsInv, Sized
  <1>5. \A j \in DOMAIN orders :
           orders'[j].status \in OpenStatuses \/ Reopens(t, j)' => j \in LiveOrders
    BY <1>2, <1>3 DEF Reopens, LiveOrders, OpenOrders
  <1> QED
    BY <1>3, <1>4, <1>5, LimitsStay

LEMMA WriteLimits ==
    ASSUME IInv, LimitsInv, NEW t \in Tasks, Write(t)
    PROVE  LimitsInv'
  <1> DEFINE i == id[t]
  <1>1. /\ i \in DOMAIN orders /\ pc[t] = "write" /\ copy[t].passed = orders[i].passed
        /\ copy[t].cost = orders[i].cost /\ copy[t].opp = orders[i].opp
    BY DEF IInv, Working, Write, LimitsInv, Sized
  <1>2. /\ DOMAIN orders' = DOMAIN orders /\ orders'[i] = copy[t]
        /\ \A j \in DOMAIN orders : j # i => orders'[j] = orders[j]
    BY <1>1 DEF IInv, Typed, Write
  <1>3. /\ pc'[t] = "log" /\ UNCHANGED <<id, copy, totals>>
        /\ \A u \in Tasks \ {t} : pc'[u] = pc[u]
    BY DEF IInv, Typed, Write
  <1>4. \A j \in DOMAIN orders : /\ orders'[j].cost = orders[j].cost
                                /\ orders'[j].opp = orders[j].opp
                                /\ orders'[j].passed = orders[j].passed
    BY <1>1, <1>2
  <1>5. Sized'
    BY <1>1, <1>2, <1>3, <1>4 DEF LimitsInv, Sized, IInv, Working
  <1>6. \A j \in DOMAIN orders :
           orders'[j].status \in OpenStatuses \/ Reopens(t, j)' => j \in LiveOrders
    BY <1>1, <1>2, <1>3 DEF Reopens, LiveOrders, OpenOrders
  <1> QED
    BY <1>2, <1>3, <1>4, <1>5, <1>6, LimitsStay

LEMMA CommandLimits ==
    ASSUME IInv, LimitsInv, NEW t \in Tasks, Command(t)
    PROVE  LimitsInv'
  <1>1. copy[t] \in Order
    BY DEF IInv, Working, Command
  <1>2. PICK status \in {"executed", "failed"} :
           pc[t] = "command" /\ Answers(t, status)
    BY DEF Command
  <1>3. /\ copy'[t].status = status /\ copy'[t].cost = copy[t].cost
        /\ copy'[t].opp = copy[t].opp
        /\ pc'[t] = "write" /\ UNCHANGED <<orders, id, totals>>
        /\ \A u \in Tasks \ {t} : pc'[u] = pc[u] /\ copy'[u] = copy[u]
    BY <1>1, <1>2 DEF IInv, Typed, Answers, Order
  <1>4. Sized'
    BY <1>2, <1>3 DEF LimitsInv, Sized, Answers
  <1>5. \A j \in DOMAIN orders :
           orders'[j].status \in OpenStatuses \/ Reopens(t, j)' => j \in LiveOrders
    BY <1>3 DEF Reopens, LiveOrders, OpenOrders, OpenStatuses
  <1> QED
    BY <1>3, <1>4, <1>5, LimitsStay

LEMMA EndLimits ==
    ASSUME IInv, LimitsInv, NEW t \in Tasks, Log(t) \/ Abort(t)
    PROVE  LimitsInv'
  <1>1. /\ pc'[t] \in {"idle", "command"} /\ UNCHANGED orders
        /\ pc'[t] = "command" => copy'[t] = copy[t] /\ id'[t] = id[t] /\ pc[t] = "log"
        /\ \A u \in Tasks \ {t} : /\ pc'[u] = pc[u] /\ id'[u] = id[u]
                                  /\ copy'[u] = copy[u] /\ totals'[u] = totals[u]
        /\ totals' \in [Tasks -> [exposure : Nat, executed : Nat]]
    <2>1. totals \in [Tasks -> [exposure : Nat, executed : Nat]]
          /\ NoTotals \in [exposure : Nat, executed : Nat]
      BY DEF LimitsInv, Sized, NoTotals
    <2>2. CASE Log(t) /\ Continues(t)
      BY <2>1, <2>2 DEF IInv, Typed, Log
    <2>3. CASE Abort(t) \/ (Log(t) /\ ~Continues(t))
      <3>1. pc' = [pc EXCEPT ![t] = "idle"] /\ Forget(t) /\ UNCHANGED orders
        BY <2>3 DEF Log, Abort
      <3> QED
        BY <2>1, <3>1 DEF IInv, Typed, Forget
    <2> QED
      BY <2>2, <2>3
  <1>2. Sized'
    BY <1>1 DEF LimitsInv, Sized
  <1>3. \A j \in DOMAIN orders :
           orders'[j].status \in OpenStatuses \/ Reopens(t, j)' => j \in LiveOrders
    BY <1>1 DEF Reopens, LiveOrders, OpenOrders
  <1> QED
    BY <1>1, <1>2, <1>3, LimitsStay

LEMMA ReadTotalsLimits ==
    ASSUME IInv, LimitsInv, NEW t \in Tasks, NEW opp \in Opps \cup {None}, NEW cost \in Costs,
           ReadTotals(t, opp, cost)
    PROVE  LimitsInv'
  <1>1. /\ pc[t] = "idle" /\ pc'[t] = "active" /\ UNCHANGED <<orders, id>>
        /\ copy'[t].cost = cost /\ ~copy'[t].passed /\ cost \in Nat
        /\ \A u \in Tasks \ {t} : /\ pc'[u] = pc[u] /\ copy'[u] = copy[u]
                                  /\ totals'[u] = totals[u]
    BY CostsAssumption DEF IInv, Typed, ReadTotals, Draft, LimitsInv, Sized
  <1>2. /\ Cost(OpenOrders) \in Nat
        /\ Cardinality({i \in DOMAIN orders : orders[i].status = "executed"}) \in Nat
    <2> DEFINE f == [i \in DOMAIN orders |-> orders[i].cost]
    <2>1. IsFiniteSet(OpenOrders) /\ \A i \in OpenOrders : f[i] \in Nat
      BY Counted DEF OpenOrders
    <2> HIDE DEF f
    <2>2. SumFunctionOnSet(f, OpenOrders) \in Nat
      BY <2>1, SumPart
    <2> QED
      BY <2>2, Counted DEF Cost, f
  <1>3. /\ totals'[t].exposure = Cost(OpenOrders)
        /\ totals' \in [Tasks -> [exposure : Nat, executed : Nat]]
    <2>1. Totals \in [exposure : Nat, executed : Nat] /\ Totals.exposure = Cost(OpenOrders)
      BY <1>2 DEF Totals
    <2> HIDE DEF Totals
    <2> QED
      BY <2>1 DEF ReadTotals, LimitsInv, Sized
  <1>4. Sized'
    BY <1>1, <1>3 DEF LimitsInv, Sized
  <1>5. LiveOrders' = LiveOrders
    BY <1>1 DEF LiveOrders, OpenOrders, Reopens
  <1>6. DuplicatesInv'
    <2>1. ASSUME NEW o \in Opps
          PROVE  LiveFor(o)' \subseteq LiveFor(o) /\ CreatorsFor(o)' \subseteq CreatorsFor(o)
      BY <1>1, <1>5 DEF LiveFor, CreatorsFor
    <2> QED
      BY <2>1, DuplicatesKept DEF LimitsInv, DuplicatesInv
  <1>7. ExposureInv'
    <2>1. CASE Admitted(t)'
      <3>1. Creators' = Creators \cup {t}
        BY <1>1, <2>1 DEF Creators, Admitted, ExposureAllowed
      <3>2. cost <= MaxSingle /\ Cost(OpenOrders) + cost <= MaxExposure
        BY <1>1, <1>3, <2>1 DEF Admitted, ExposureAllowed
      <3>3. \A u \in Creators : copy'[u].cost = copy[u].cost
        BY <1>1 DEF Creators, Admitted
      <3> QED
        BY <1>1, <1>5, <3>1, <3>2, <3>3, ExposureAdmitted DEF LimitsInv
    <2>2. CASE ~Admitted(t)'
      <3>1. /\ Creators' \subseteq Creators
            /\ \A u \in Creators' : copy'[u].cost = copy[u].cost
        BY <1>1, <2>2 DEF Creators, Admitted, ExposureAllowed
      <3> QED
        BY <1>1, <1>5, <3>1, ExposureKept DEF LimitsInv
    <2> QED
      BY <2>1, <2>2
  <1> QED
    BY <1>4, <1>6, <1>7 DEF LimitsInv

LEMMA ReadActiveLimits ==
    ASSUME IInv, LimitsInv, NEW t \in Tasks, NEW mode, ReadActive(t, mode)
    PROVE  LimitsInv'
  <1> DEFINE passed == RiskPassed(copy[t], t, ActiveOpportunities)
             new == Submit(copy[t], mode, passed)
  <1>1. copy[t] \in Order /\ pc[t] = "active" /\ ~copy[t].passed
    BY DEF IInv, ReadActive, Creating, LimitsInv, Sized
  <1>2. /\ new.passed = passed /\ new.cost = copy[t].cost /\ new.opp = copy[t].opp
        /\ passed \in BOOLEAN
    <2>1. passed \in BOOLEAN
      BY DEF RiskPassed
    <2> HIDE DEF passed
    <2> QED
      BY <1>1, <2>1 DEF Submit, Order
  <1>3. /\ copy' = [copy EXCEPT ![t] = new]
        /\ pc' = [pc EXCEPT ![t] = "insert"]
        /\ UNCHANGED <<orders, id, totals>>
    BY Zenon DEF ReadActive
  <1> HIDE DEF new
  <1>4. /\ pc'[t] = "insert" /\ copy'[t] = new
        /\ \A u \in Tasks \ {t} : pc'[u] = pc[u] /\ copy'[u] = copy[u]
    BY <1>3 DEF IInv, Typed
  <1>5. passed => /\ Admitted(t) /\ copy[t].cost <= MaxSingle
                  /\ copy[t].opp = None \/ copy[t].opp \notin ActiveOpportunities
    BY <1>1 DEF RiskPassed, Admitted
  <1> HIDE DEF passed
  <1>6. Sized'
    BY <1>2, <1>3, <1>4, <1>5 DEF LimitsInv, Sized
  <1>7. LiveOrders' = LiveOrders
    BY <1>1, <1>3, <1>4 DEF LiveOrders, OpenOrders, Reopens
  <1>8. ExposureInv'
    <2>1. /\ Creators' \subseteq Creators
          /\ \A u \in Creators' : copy'[u].cost = copy[u].cost
      BY <1>2, <1>3, <1>4, <1>5 DEF Creators, Admitted, ExposureAllowed
    <2> QED
      BY <1>3, <1>7, <2>1, ExposureKept DEF LimitsInv
  <1>9. DuplicatesInv'
    <2> SUFFICES ASSUME NEW o \in Opps
                 PROVE  Cardinality(LiveFor(o)') + Cardinality(CreatorsFor(o)')
                          <= Cardinality(Tasks)
      BY DEF DuplicatesInv
    <2>1. LiveFor(o)' \subseteq LiveFor(o)
      BY <1>3, <1>7 DEF LiveFor
    <2>2. CASE passed /\ copy[t].opp = o
      <3>1. o \notin ActiveOpportunities
        BY <1>5, <2>2, NoneAssumption
      <3>2. CreatorsFor(o)' \subseteq CreatorsFor(o) \cup {t}
        BY <1>4 DEF CreatorsFor
      <3> QED
        BY <1>1, <2>1, <3>1, <3>2, DuplicatesAdmitted
    <2>3. CASE ~(passed /\ copy[t].opp = o)
      <3>1. CreatorsFor(o)' \subseteq CreatorsFor(o)
        BY <1>2, <1>4, <2>3 DEF CreatorsFor
      <3> QED
        BY <2>1, <3>1, DuplicatesKept DEF LimitsInv
    <2> QED
      BY <2>2, <2>3
  <1> QED
    BY <1>6, <1>8, <1>9 DEF LimitsInv

LEMMA InsertLimits ==
    ASSUME IInv, LimitsInv, NEW t \in Tasks, Insert(t)
    PROVE  LimitsInv'
  <1> DEFINE n == Len(orders) + 1
  <1>1. /\ copy[t] \in Order /\ pc[t] = "insert"
        /\ ~copy[t].passed => copy[t].status = "cancelled"
        /\ copy[t].passed => copy[t].cost <= MaxSingle
    BY DEF IInv, Insert, Creating, LimitsInv, Sized
  <1>2. /\ n \notin DOMAIN orders /\ DOMAIN orders' = DOMAIN orders \cup {n}
        /\ orders'[n] = copy[t]
        /\ \A i \in DOMAIN orders : orders'[i] = orders[i]
    BY <1>1, StoredIds DEF IInv, Typed, Insert
  <1>3. /\ pc'[t] = "log" /\ id'[t] = n /\ UNCHANGED <<copy, totals>>
        /\ \A u \in Tasks \ {t} : pc'[u] = pc[u] /\ id'[u] = id[u]
    BY DEF IInv, Typed, Insert
  <1> HIDE DEF n
  <1>4. Sized'
    <2>1. \A i \in DOMAIN orders' : orders'[i].passed => orders'[i].cost <= MaxSingle
      BY <1>1, <1>2 DEF LimitsInv, Sized
    <2>2. ASSUME NEW u \in Tasks, pc'[u] \in {"write", "command", "log"}
          PROVE  copy'[u].cost = orders'[id'[u]].cost /\ copy'[u].opp = orders'[id'[u]].opp
      <3>1. u # t => id[u] \in DOMAIN orders
        BY <1>3, <2>2 DEF IInv, Working
      <3> QED
        BY <1>2, <1>3, <2>2, <3>1 DEF LimitsInv, Sized
    <2> QED
      BY <1>3, <2>1, <2>2 DEF LimitsInv, Sized
  <1>5. LiveOrders' \subseteq LiveOrders \cup {n}
    BY <1>2, <1>3 DEF LiveOrders, OpenOrders, Reopens
  <1>6. ~copy[t].passed => n \notin LiveOrders'
    <2> SUFFICES ASSUME copy[t].status = "cancelled", n \in LiveOrders' PROVE FALSE
      BY <1>1
    <2>1. n \notin OpenOrders'
      BY <1>2 DEF OpenOrders, OpenStatuses
    <2>2. PICK u \in Tasks : pc'[u] = "write" /\ id'[u] = n
      BY <2>1 DEF LiveOrders, Reopens
    <2>3. u # t /\ pc[u] = "write" /\ id[u] = n
      BY <1>3, <2>2
    <2> QED
      BY <1>2, <2>3 DEF IInv, Working
  <1>7. Creators' = Creators \ {t}
    BY <1>3 DEF Creators, Admitted, ExposureAllowed
  <1>8. \A i \in DOMAIN orders : orders'[i].cost = orders[i].cost
    BY <1>2
  <1>9. ExposureInv'
    <2>1. CASE copy[t].passed
      <3>1. t \in Creators
        BY <1>1, <2>1 DEF Creators, Admitted
      <3> QED
        BY <1>2, <1>3, <1>5, <1>7, <1>8, <3>1, ExposureInserted DEF LimitsInv
    <2>2. CASE ~copy[t].passed
      <3>1. LiveOrders' \subseteq LiveOrders /\ LiveOrders \subseteq DOMAIN orders
        BY <1>5, <1>6, <2>2 DEF LiveOrders
      <3> QED
        BY <1>3, <1>7, <1>8, <3>1, ExposureKept DEF LimitsInv
    <2> QED
      BY <2>1, <2>2
  <1>10. DuplicatesInv'
    <2> SUFFICES ASSUME NEW o \in Opps
                 PROVE  Cardinality(LiveFor(o)') + Cardinality(CreatorsFor(o)')
                          <= Cardinality(Tasks)
      BY DEF DuplicatesInv
    <2>1. CreatorsFor(o)' = CreatorsFor(o) \ {t}
      BY <1>3 DEF CreatorsFor
    <2>2. LiveFor(o)' \subseteq LiveFor(o) \cup {n}
      BY <1>2, <1>5 DEF LiveFor, LiveOrders
    <2>3. CASE copy[t].passed /\ copy[t].opp = o
      <3>1. t \in CreatorsFor(o)
        BY <1>1, <2>3 DEF CreatorsFor
      <3> QED
        BY <2>1, <2>2, <3>1, DuplicatesInserted DEF LimitsInv
    <2>4. CASE ~(copy[t].passed /\ copy[t].opp = o)
      <3>1. n \notin LiveFor(o)'
        BY <1>2, <1>6, <2>4 DEF LiveFor
      <3> QED
        BY <2>1, <2>2, <3>1, DuplicatesKept DEF LimitsInv
    <2> QED
      BY <2>3, <2>4
  <1> QED
    BY <1>4, <1>9, <1>10 DEF LimitsInv

LEMMA LimitsInductive == IInv /\ LimitsInv /\ [Next]_vars => LimitsInv'
  <1> SUFFICES ASSUME IInv, LimitsInv, [Next]_vars
               PROVE  LimitsInv'
    OBVIOUS
  <1>1. ASSUME NEW t \in Tasks, NEW opp \in Opps \cup {None}, NEW cost \in Costs,
               ReadTotals(t, opp, cost)
        PROVE  LimitsInv'
    BY <1>1, ReadTotalsLimits
  <1>2. ASSUME NEW t \in Tasks, NEW mode \in {"manual", "auto"}, ReadActive(t, mode)
        PROVE  LimitsInv'
    BY <1>2, ReadActiveLimits
  <1>3. ASSUME NEW t \in Tasks, NEW i \in DOMAIN orders, LoadAny(t, i)
        PROVE  LimitsInv'
    BY <1>3, LoadLimits
  <1>4. ASSUME NEW t \in Tasks,
               Insert(t) \/ Write(t) \/ Command(t) \/ Log(t) \/ Abort(t)
        PROVE  LimitsInv'
    BY <1>4, InsertLimits, WriteLimits, CommandLimits, EndLimits
  <1>5. CASE UNCHANGED vars
    <2>1. PICK t \in Tasks : TRUE
      BY TasksAssumption
    <2>2. Sized'
      BY <1>5 DEF vars, LimitsInv, Sized
    <2>3. /\ ExposureInv' /\ DuplicatesInv'
      BY <1>5, Zenon DEF vars, LimitsInv, ExposureInv, DuplicatesInv, Cost, PendingCost,
         LiveOrders, OpenOrders, Reopens, Creators, Admitted, ExposureAllowed, LiveFor,
         CreatorsFor
    <2> QED
      BY <2>2, <2>3 DEF LimitsInv
  <1> QED
    BY <1>1, <1>2, <1>3, <1>4, <1>5, Zenon DEF Next, LoadAny

LEMMA LimitsInvariance == Spec => []LimitsInv
  <1>1. Init => LimitsInv
    <2> SUFFICES ASSUME Init PROVE LimitsInv
      OBVIOUS
    <2>1. IInv
      BY InitIInv
    <2>2. LiveOrders = {} /\ Creators = {} /\ \A opp : LiveFor(opp) = {} /\ CreatorsFor(opp) = {}
      BY DEF Init, LiveOrders, Creators, Admitted, LiveFor, CreatorsFor
    <2>3. Sized
      BY DEF Init, Sized, NoTotals
    <2>4. Cardinality(Tasks) \in Nat /\ Cardinality(Tasks) > 0 /\ Cardinality({}) = 0
      BY TasksAssumption, FS_EmptySet, FS_CardinalityType
    <2>5. Cost({}) = 0 /\ SumFunctionOnSet([t \in Tasks |-> copy[t].cost], {}) = 0
      BY SumEmpty DEF Cost
    <2>6. 0 <= MaxExposure + (Cardinality(Tasks) - 1) * MaxSingle
      BY <2>4, LimitsAssumption
    <2>7. ExposureInv
      BY <2>2, <2>5, <2>6 DEF ExposureInv, PendingCost
    <2>8. DuplicatesInv
      BY <2>2, <2>4 DEF DuplicatesInv
    <2> QED
      BY <2>3, <2>7, <2>8 DEF LimitsInv
  <1> QED
    BY <1>1, LimitsInductive, Invariance, PTL DEF Spec

\* For any number of concurrent handlers: the exposure exceeds its limit by at
\* most the largest single order for each handler but one.
THEOREM ExposureIsBounded == Spec => []ExposureBounded
  <1>1. IInv /\ LimitsInv => ExposureBounded
    <2> SUFFICES ASSUME IInv, LimitsInv PROVE ExposureBounded
      OBVIOUS
    <2> DEFINE f == [i \in DOMAIN orders |-> orders[i].cost]
               c == [t \in Tasks |-> copy[t].cost]
    <2>1. /\ IsFiniteSet(LiveOrders) /\ OpenOrders \in SUBSET LiveOrders
          /\ IsFiniteSet(Creators)
          /\ \A i \in LiveOrders : f[i] \in Nat
          /\ \A t \in Creators : c[t] \in Nat
      BY Counted
    <2> HIDE DEF f, c
    <2>2. /\ SumFunctionOnSet(f, LiveOrders) \in Nat /\ SumFunctionOnSet(f, OpenOrders) \in Nat
          /\ SumFunctionOnSet(f, OpenOrders) <= SumFunctionOnSet(f, LiveOrders)
          /\ SumFunctionOnSet(c, Creators) \in Nat
      BY <2>1, SumPart
    <2>3. SumFunctionOnSet(f, LiveOrders) + SumFunctionOnSet(c, Creators) <= LimitOfExposure
      BY Zenon DEF LimitsInv, ExposureInv, Cost, PendingCost, f, c, LimitOfExposure
    <2>4. LimitOfExposure \in Int
      BY Counted, LimitsAssumption DEF LimitOfExposure
    <2>5. SumFunctionOnSet(f, OpenOrders) <= LimitOfExposure
      BY <2>2, <2>3, <2>4
    <2> QED
      BY <2>5, Zenon DEF ExposureBounded, Cost, f, LimitOfExposure
  <1> QED
    BY <1>1, Invariance, LimitsInvariance, PTL

\* An opportunity has at most one open order for each concurrent handler.
THEOREM DuplicatesAreBounded == Spec => []DuplicatesBounded
  <1>1. IInv /\ LimitsInv => DuplicatesBounded
    <2> SUFFICES ASSUME IInv, LimitsInv, NEW opp \in Opps
                 PROVE  Cardinality({i \in OpenOrders : orders[i].opp = opp})
                          <= Cardinality(Tasks)
      BY DEF DuplicatesBounded
    <2> DEFINE O == {i \in OpenOrders : orders[i].opp = opp}
    <2>1. O \in SUBSET LiveFor(opp)
      BY Counted DEF LiveFor
    <2> HIDE DEF O
    <2>2. /\ Cardinality(O) \in Nat /\ Cardinality(O) <= Cardinality(LiveFor(opp))
      BY <2>1, ForOneCounted, FS_Subset, FS_CardinalityType
    <2>3. Cardinality(LiveFor(opp)) + Cardinality(CreatorsFor(opp)) <= Cardinality(Tasks)
      BY DEF LimitsInv, DuplicatesInv
    <2>4. Cardinality(O) <= Cardinality(Tasks)
      BY <2>2, <2>3, ForOneCounted
    <2> QED
      BY <2>4 DEF O
  <1> QED
    BY <1>1, Invariance, LimitsInvariance, PTL

\* Type correctness of the orders, the audit trail and the handlers.
THEOREM TypeCorrect == Spec => []TypeOK
  <1> DEFINE C == calls \in Nat
  <1>1. Init => C
    BY DEF Init
  <1>2. C /\ [Next]_vars => C'
    <2> SUFFICES ASSUME C, [Next]_vars PROVE C'
      OBVIOUS
    <2>1. calls' = calls \/ calls' = calls + 1
      BY Zenon DEF Next, vars, ReadTotals, ReadActive, Insert, LoadApprove, LoadReject,
         LoadExecute, LoadCancel, Load, Write, Command, Answers, Log, Abort
    <2> QED
      BY <2>1
  <1>3. IInv /\ LimitsInv /\ C => TypeOK
    BY DEF IInv, LimitsInv, Typed, Sized, TypeOK
  <1> HIDE DEF C
  <1> QED
    BY <1>1, <1>2, <1>3, Invariance, LimitsInvariance, PTL DEF Spec

-----------------------------------------------------------------------------
(* What is defined along the numbers *)

\* g goes from z to its value at m, step by step.
Walk(m, V, z, step, g) ==
    g \in [0..m -> V] /\ g[0] = z /\ \A n \in 1..m : g[n] = step[n][g[n - 1]]

LEMMA StepsExist ==
  ASSUME NEW m \in Nat, NEW V, NEW z \in V, NEW step, \A n \in 1..m, v \in V : step[n][v] \in V
  PROVE  \E g : Walk(m, V, z, step, g)
<1>. DEFINE Upto(n, g) == g \in [0..n -> V] /\ g[0] = z /\ \A k \in 1..n : g[k] = step[k][g[k - 1]]
            B == {n \in 0..m : ~ \E g : Upto(n, g)}
<1>. SUFFICES ASSUME B # {} PROVE FALSE
  <2>. SUFFICES \E g : Upto(m, g)
    BY DEF Walk
  <2>1. m \in 0..m
    OBVIOUS
  <2>. HIDE DEF Upto
  <2>. QED
    BY <2>1
<1>1. PICK n \in B : \A k \in B : n <= k
  <2>1. B \in SUBSET (0..m)
    OBVIOUS
  <2>. HIDE DEF B
  <2>. QED
    BY <2>1, SmallestNumber
<1>2. CASE n = 0
  <2>1. Upto(0, [k \in 0..0 |-> z])
    OBVIOUS
  <2>. HIDE DEF Upto
  <2>. QED
    BY <1>1, <1>2, <2>1
<1>3. CASE n # 0
  <2>0. n \in 0..m /\ n - 1 \in 0..m /\ n \in 1..m
    BY <1>1, <1>3
  <2>1. n - 1 \in 0..m /\ n - 1 \notin B /\ n \in 1..m
    <3>. HIDE DEF B
    <3>. QED
      BY <1>1, <2>0
  <2>2. PICK g : Upto(n - 1, g)
    BY <2>1
  <2>. DEFINE h == [k \in 0..n |-> IF k = n THEN step[n][g[n - 1]] ELSE g[k]]
  <2>3. h \in [0..n -> V] /\ h[0] = z
    BY <2>1, <2>2
  <2>4. ASSUME NEW k \in 1..n PROVE h[k] = step[k][h[k - 1]]
    <3>1. k - 1 \in 0..n /\ k - 1 # n /\ k \in 0..n
      BY <2>1
    <3>2. h[k - 1] = g[k - 1]
      BY <3>1
    <3>3. CASE k = n
      BY <3>1, <3>2, <3>3
    <3>4. CASE k # n
      <4>1. k \in 1..(n - 1)
        BY <2>1, <3>4
      <4>. QED
        BY <2>2, <3>1, <3>2, <3>4, <4>1
    <3>. QED
      BY <3>3, <3>4
  <2>. HIDE DEF h
  <2>5. Upto(n, h)
    BY <2>3, <2>4
  <2>. QED
    BY <1>1, <2>5
<1>. QED
  BY <1>2, <1>3

-----------------------------------------------------------------------------
(* Ranking *)

Earlier(n, P, i) == {j \in (1..n) \ {i} : <<j, i>> \in P}

\* A strict total order of n places has one at each of them.
LEMMA OrderPlaces ==
  ASSUME NEW n \in Nat, NEW P,
         \A i \in 1..n : <<i, i>> \notin P,
         \A i, j \in 1..n : i = j \/ <<i, j>> \in P \/ <<j, i>> \in P,
         \A i, j, k \in 1..n : <<i, j>> \in P /\ <<j, k>> \in P => <<i, k>> \in P,
         NEW k \in 1..n
  PROVE  /\ \E i \in 1..n : Cardinality(Earlier(n, P, i)) = k - 1
         /\ \A i \in 1..n : Cardinality(Earlier(n, P, i)) \in 0..(n - 1)
         /\ \A i, l \in 1..n : Cardinality(Earlier(n, P, i)) = Cardinality(Earlier(n, P, l)) => i = l
<1>. DEFINE Before(i) == {j \in (1..n) \ {i} : <<j, i>> \in P}
            f == [i \in 1..n |-> Cardinality(Before(i))]
<1>1. IsFiniteSet(1..n) /\ Cardinality(1..n) = n
  BY FS_Interval
<1>2. ASSUME NEW i \in 1..n
      PROVE  IsFiniteSet(Before(i)) /\ Cardinality(Before(i)) \in 0..(n - 1)
  <2>1. /\ IsFiniteSet((1..n) \ {i}) /\ Cardinality((1..n) \ {i}) = n - 1
    BY <1>1, FS_RemoveElement
  <2>2. Before(i) \in SUBSET ((1..n) \ {i})
    OBVIOUS
  <2>. HIDE DEF Before
  <2>3. IsFiniteSet(Before(i)) /\ Cardinality(Before(i)) <= n - 1 /\ Cardinality(Before(i)) \in Nat
    BY <2>1, <2>2, FS_Subset, FS_CardinalityType
  <2>. QED
    BY <2>3
<1>3. ASSUME NEW i \in 1..n, NEW j \in 1..n, <<i, j>> \in P PROVE f[i] # f[j]
  <2>1. Before(i) \in SUBSET Before(j) /\ i \in Before(j) /\ i \notin Before(i)
    BY <1>3
  <2>2. IsFiniteSet(Before(i)) /\ IsFiniteSet(Before(j))
    BY <1>2
  <2>. HIDE DEF Before
  <2>3. Cardinality(Before(j)) # Cardinality(Before(i))
    BY <2>1, <2>2, FS_Subset
  <2>. QED
    BY <2>3
<1>4. f \in Injection(1..n, 0..(n - 1))
  <2>1. f \in [1..n -> 0..(n - 1)]
    BY <1>2
  <2>2. \A i, j \in 1..n : f[i] = f[j] => i = j
    <3>. HIDE DEF f
    <3>. QED
      BY <1>3
  <2>. HIDE DEF f
  <2>. QED
    BY <2>1, <2>2 DEF Injection, IsInjective
<1>5. IsFiniteSet(0..(n - 1)) /\ Cardinality(0..(n - 1)) = n
  BY FS_Interval
<1>6. f \in Surjection(1..n, 0..(n - 1))
  <2>. HIDE DEF f
  <2>. QED
    BY <1>1, <1>4, <1>5, FS_Injection
<1>7. k - 1 \in 0..(n - 1)
  OBVIOUS
<1>8. \E i \in 1..n : f[i] = k - 1
  <2>. HIDE DEF f
  <2>. QED
    BY <1>6, <1>7 DEF Surjection
<1>9. (\A i \in 1..n : f[i] \in 0..(n - 1)) /\ (\A i, l \in 1..n : f[i] = f[l] => i = l)
  <2>. HIDE DEF f
  <2>. QED
    BY <1>4 DEF Injection, IsInjective
<1>10. \A i \in 1..n : f[i] = Cardinality(Earlier(n, P, i))
  BY DEF Earlier
<1>. HIDE DEF f
<1>. QED
  BY <1>8, <1>9, <1>10

LEMMA Scaled ==
  ASSUME NEW a \in Int, NEW b \in Int, NEW k \in Nat \ {0}
  PROVE  a > b <=> a * k > b * k
<1>1. CASE a > b
  <2>1. (a - b) * k >= 1
    BY <1>1
  <2>2. (a - b) * k = a * k - b * k
    OBVIOUS
  <2>. QED
    BY <1>1, <2>1, <2>2
<1>2. CASE a <= b
  <2>1. (b - a) * k >= 0
    BY <1>2
  <2>2. (b - a) * k = b * k - a * k
    OBVIOUS
  <2>. QED
    BY <1>2, <2>1, <2>2
<1>. QED
  BY <1>1, <1>2

\* p over x is more than q over y, and that more than r over z, or as much.
LEMMA RatiosOrder ==
  ASSUME NEW p \in Int, NEW q \in Int, NEW r \in Int,
         NEW x \in Nat \ {0}, NEW y \in Nat \ {0}, NEW z \in Nat \ {0}
  PROVE  /\ p * y > q * x /\ ~(r * y > q * z) => p * z > r * x
         /\ ~(q * x > p * y) /\ q * z > r * y => p * z > r * x
         /\ ~(q * x > p * y) /\ ~(r * y > q * z) => ~(r * x > p * z)
<1>1. /\ p * y \in Int /\ q * x \in Int /\ q * z \in Int /\ r * y \in Int /\ p * z \in Int /\ r * x \in Int
  OBVIOUS
<1>2. /\ (p * y > q * x <=> (p * y) * z > (q * x) * z) /\ (q * x > p * y <=> (q * x) * z > (p * y) * z)
  BY <1>1, Scaled
<1>3. /\ (q * z > r * y <=> (q * z) * x > (r * y) * x) /\ (r * y > q * z <=> (r * y) * x > (q * z) * x)
  BY <1>1, Scaled
<1>4. /\ (p * z > r * x <=> (p * z) * y > (r * x) * y) /\ (r * x > p * z <=> (r * x) * y > (p * z) * y)
  BY <1>1, Scaled
<1>5. PICK s \in Int, t \in Int, u \in Int : s = (p * y) * z /\ t = (q * x) * z /\ u = (r * y) * x
  BY <1>1
<1>6. (p * z) * y = s /\ (q * z) * x = t /\ (r * x) * y = u
  BY <1>5
<1>. QED
  BY <1>1, <1>2, <1>3, <1>4, <1>5, <1>6

Rankable(c) ==
    /\ c.capital \in Nat /\ c.profit \in Int /\ c.velocity \in Int
    /\ c.confidence \in Int /\ c.risk \in Int

LEMMA SaturationType == \A x \in Nat : Saturation(x) \in Nat
<1>. SUFFICES ASSUME NEW x \in Nat PROVE Saturation(x) \in Nat
  OBVIOUS
<1>. DEFINE t == <<0, 10, 18, 26, 33, 39, 45, 50, 55, 59, 63, 67, 70, 73, 75, 78, 80, 82, 83, 85, 86,
           88, 89, 90, 91, 92, 93, 93, 94, 94, 95, 95, 96, 96, 97, 97, 97, 98, 98, 98, 98,
           98, 99, 99, 99, 99>>
<1>1. t \in Seq(Nat) /\ Len(t) = 46
  OBVIOUS
<1>2. Saturation(x) = IF x >= 46 THEN 100 ELSE t[x + 1]
  BY DEF Saturation
<1>. HIDE DEF t
<1>3. x < 46 => t[x + 1] \in Nat
  <2>1. DOMAIN t = 1..46
    BY <1>1, LenProperties
  <2>2. x < 46 => x + 1 \in 1..46
    OBVIOUS
  <2>. QED
    BY <1>1, <2>1, <2>2, ElementOfSeq
<1>. QED
  BY <1>2, <1>3

LEMMA RankType == ASSUME NEW c, Rankable(c) PROVE rank_candidate(c) \in Int
<1>. PICK p \in Int : p = c.profit
  BY DEF Rankable
<1>1. (3 * Larger(0, p)) \div 1000 \in Nat
  BY DEF Larger
<1>. PICK s \in Nat : s = Saturation((3 * Larger(0, c.profit)) \div 1000)
  BY <1>1, SaturationType
<1>. QED
  BY DEF Rankable, rank_candidate

LEMMA DenserOrder ==
  ASSUME NEW a, NEW b, NEW c, Rankable(a), Rankable(b), Rankable(c)
  PROVE  /\ ~Denser(a, a) /\ ~(Denser(a, b) /\ Denser(b, a))
         /\ Denser(a, b) /\ ~Denser(c, b) => Denser(a, c)
         /\ ~Denser(b, a) /\ Denser(b, c) => Denser(a, c)
         /\ ~Denser(b, a) /\ ~Denser(c, b) => ~Denser(c, a)
<1>. PICK p \in Int, q \in Int, r \in Int :
        p = rank_candidate(a) /\ q = rank_candidate(b) /\ r = rank_candidate(c)
  BY RankType
<1>. PICK x \in Nat \ {0}, y \in Nat \ {0}, z \in Nat \ {0} :
        x = Larger(1, a.capital) /\ y = Larger(1, b.capital) /\ z = Larger(1, c.capital)
  BY DEF Rankable, Larger
<1>1. /\ Denser(a, b) <=> p * y > q * x
      /\ Denser(b, a) <=> q * x > p * y
      /\ Denser(b, c) <=> q * z > r * y
      /\ Denser(c, b) <=> r * y > q * z
      /\ Denser(a, c) <=> p * z > r * x
      /\ Denser(c, a) <=> r * x > p * z
      /\ Denser(a, a) <=> p * x > p * x
  BY DEF Denser
<1>2. p * x \in Int /\ p * y \in Int /\ q * x \in Int
  OBVIOUS
<1>3. /\ p * y > q * x /\ ~(r * y > q * z) => p * z > r * x
      /\ ~(q * x > p * y) /\ q * z > r * y => p * z > r * x
      /\ ~(q * x > p * y) /\ ~(r * y > q * z) => ~(r * x > p * z)
  BY RatiosOrder
<1>4. ~(p * x > p * x) /\ ~(p * y > q * x /\ q * x > p * y)
  BY <1>2
<1>. QED
  BY ONLY <1>1, <1>3, <1>4

\* Ranking moves the candidates of a lot about.
LEMMA RankedAreOfBatch ==
  ASSUME NEW S, \A c \in S : Rankable(c), NEW lot \in Seq(S), NEW k \in DOMAIN lot
  PROVE  /\ \E i \in DOMAIN lot : rank_candidates(lot)[k] = lot[i]
         /\ \E l \in DOMAIN lot : rank_candidates(lot)[l] = lot[k]
<1>. PICK n \in Nat : n = Len(lot) /\ DOMAIN lot = 1..n
  BY LenProperties
<1>1. \A i \in 1..n : Rankable(lot[i])
  BY ElementOfSeq
<1>. DEFINE P == {e \in (1..n) \X (1..n) : GoesBefore(lot, e[1], e[2])}
<1>2. \A i, j \in 1..n : <<i, j>> \in P <=> GoesBefore(lot, i, j)
  OBVIOUS
<1>. HIDE DEF P
<1>3. \A i \in 1..n : <<i, i>> \notin P
  BY <1>1, <1>2, DenserOrder DEF GoesBefore
<1>4. \A i, j \in 1..n : i = j \/ <<i, j>> \in P \/ <<j, i>> \in P
  <2>1. ASSUME NEW i \in 1..n, NEW j \in 1..n PROVE i = j \/ i < j \/ j < i
    OBVIOUS
  <2>2. \A i, j \in 1..n : i = j \/ GoesBefore(lot, i, j) \/ GoesBefore(lot, j, i)
    BY ONLY <2>1 DEF GoesBefore
  <2>. QED
    BY ONLY <1>2, <2>2
<1>5. ASSUME NEW i \in 1..n, NEW j \in 1..n, NEW l \in 1..n, <<i, j>> \in P, <<j, l>> \in P
      PROVE  <<i, l>> \in P
  <2>. PICK a, b, c : a = lot[i] /\ b = lot[j] /\ c = lot[l]
    OBVIOUS
  <2>1. /\ ~Denser(a, a) /\ ~(Denser(a, b) /\ Denser(b, a))
        /\ Denser(a, b) /\ ~Denser(c, b) => Denser(a, c)
        /\ ~Denser(b, a) /\ Denser(b, c) => Denser(a, c)
        /\ ~Denser(b, a) /\ ~Denser(c, b) => ~Denser(c, a)
    BY <1>1, DenserOrder
  <2>2. ~(Denser(b, c) /\ Denser(c, b))
    BY <1>1, DenserOrder
  <2>3. Denser(a, b) \/ (~Denser(b, a) /\ i < j)
    BY <1>2, <1>5 DEF GoesBefore
  <2>4. Denser(b, c) \/ (~Denser(c, b) /\ j < l)
    BY <1>2, <1>5 DEF GoesBefore
  <2>5. Denser(a, c) \/ (~Denser(c, a) /\ i < l)
    <3>1. i < j /\ j < l => i < l
      OBVIOUS
    <3>. QED
      BY ONLY <2>1, <2>2, <2>3, <2>4, <3>1
  <2>. QED
    BY <1>2, <2>5 DEF GoesBefore
<1>. DEFINE Place(i) == Cardinality({j \in DOMAIN lot \ {i} : GoesBefore(lot, j, i)}) = k - 1
<1>10. \A i, j, l \in 1..n : <<i, j>> \in P /\ <<j, l>> \in P => <<i, l>> \in P
  BY ONLY <1>5
<1>6. /\ \E i \in 1..n : Cardinality(Earlier(n, P, i)) = k - 1
      /\ \A i \in 1..n : Cardinality(Earlier(n, P, i)) \in 0..(n - 1)
      /\ \A i, l \in 1..n : Cardinality(Earlier(n, P, i)) = Cardinality(Earlier(n, P, l)) => i = l
  BY ONLY <1>3, <1>4, <1>10, n \in Nat, k \in 1..n, OrderPlaces
<1>. DEFINE Ahead(i) == Cardinality({j \in DOMAIN lot \ {i} : GoesBefore(lot, j, i)})
<1>7. ASSUME NEW i \in 1..n
      PROVE  Ahead(i) = Cardinality(Earlier(n, P, i))
  <2>1. Earlier(n, P, i) = {j \in DOMAIN lot \ {i} : GoesBefore(lot, j, i)}
    BY <1>2 DEF Earlier
  <2>. QED
    BY <2>1
<1>. HIDE DEF Ahead
<1>8. /\ \E i \in 1..n : Ahead(i) = k - 1
      /\ \A i \in 1..n : Ahead(i) \in 0..(n - 1)
      /\ \A i, l \in 1..n : Ahead(i) = Ahead(l) => i = l
  BY <1>6, <1>7
<1>9. \A l \in 1..n : rank_candidates(lot)[l] = lot[CHOOSE i \in 1..n : Ahead(i) = l - 1]
  BY DEF rank_candidates, Ahead
<1>11. \E i \in DOMAIN lot : rank_candidates(lot)[k] = lot[i]
  BY <1>8, <1>9
<1>12. \E l \in DOMAIN lot : rank_candidates(lot)[l] = lot[k]
  <2>. PICK l \in Int : l = Ahead(k) + 1
    BY <1>8
  <2>1. l \in 1..n /\ Ahead(k) = l - 1
    BY <1>8
  <2>2. (CHOOSE i \in 1..n : Ahead(i) = l - 1) = k
    BY <1>8, <2>1
  <2>. QED
    BY <1>9, <2>1, <2>2
<1>. QED
  BY <1>11, <1>12

-----------------------------------------------------------------------------
(* Counting in sequences *)

LEMMA OfAppend ==
  ASSUME NEW S, NEW s \in Seq(S), NEW e \in S, NEW x
  PROVE  /\ Of(Append(s, e), x) = IF e.opp = x THEN Of(s, x) \cup {Len(s) + 1} ELSE Of(s, x)
         /\ IsFiniteSet(Of(s, x)) /\ Count(s, x) \in Nat
         /\ Count(Append(s, e), x) = IF e.opp = x THEN Count(s, x) + 1 ELSE Count(s, x)
<1>1. /\ DOMAIN s = 1..Len(s) /\ Len(s) \in Nat
      /\ DOMAIN Append(s, e) = 1..(Len(s) + 1) /\ Append(s, e)[Len(s) + 1] = e
      /\ \A i \in 1..Len(s) : Append(s, e)[i] = s[i]
  BY AppendProperties, LenProperties
<1>2. Of(Append(s, e), x) = IF e.opp = x THEN Of(s, x) \cup {Len(s) + 1} ELSE Of(s, x)
  BY <1>1 DEF Of
<1>3. Of(s, x) \in SUBSET (1..Len(s)) /\ Len(s) + 1 \notin Of(s, x)
  BY <1>1 DEF Of
<1>4. IsFiniteSet(Of(s, x)) /\ Cardinality(Of(s, x)) \in Nat
  <2>1. IsFiniteSet(1..Len(s))
    BY <1>1, FS_Interval
  <2>. QED
    BY ONLY <1>3, <2>1, FS_Subset, FS_CardinalityType
<1>. QED
  BY <1>2, <1>3, <1>4, FS_AddElement DEF Count

LEMMA Shifted ==
  ASSUME NEW T \in SUBSET Nat, IsFiniteSet(T)
  PROVE  IsFiniteSet({i + 1 : i \in T}) /\ Cardinality({i + 1 : i \in T}) = Cardinality(T)
<1>. DEFINE U == {i + 1 : i \in T} f == [i \in T |-> i + 1]
<1>1. f \in Bijection(T, U)
  <2>1. f \in [T -> U] /\ \A i, j \in T : f[i] = f[j] => i = j
    OBVIOUS
  <2>2. \A u \in U : \E i \in T : f[i] = u
    OBVIOUS
  <2>. HIDE DEF f, U
  <2>. QED
    BY <2>1, <2>2 DEF Bijection, Injection, Surjection, IsInjective
<1>. HIDE DEF f, U
<1>2. IsFiniteSet(U) /\ Cardinality(U) = Cardinality(T)
  BY <1>1, FS_Bijection DEF ExistsBijection
<1>. QED
  BY <1>2 DEF U

LEMMA CountTail ==
  ASSUME NEW S, NEW s \in Seq(S), s # <<>>, NEW x
  PROVE  /\ Count(Tail(s), x) \in Nat
         /\ Count(s, x) = IF Head(s).opp = x THEN Count(Tail(s), x) + 1 ELSE Count(Tail(s), x)
<1>1. /\ DOMAIN s = 1..Len(s) /\ Len(s) \in Nat \ {0} /\ Head(s) = s[1]
      /\ Tail(s) \in Seq(S) /\ Len(Tail(s)) = Len(s) - 1 /\ DOMAIN Tail(s) = 1..(Len(s) - 1)
      /\ \A i \in 1..(Len(s) - 1) : Tail(s)[i] = s[i + 1]
  BY HeadTailProperties, LenProperties, EmptySeq
<1>2. Of(Tail(s), x) \in SUBSET (1..(Len(s) - 1))
  BY <1>1 DEF Of
<1>3. IsFiniteSet(Of(Tail(s), x)) /\ Count(Tail(s), x) \in Nat
  <2>1. IsFiniteSet(1..(Len(s) - 1))
    BY <1>1, FS_Interval
  <2>. QED
    BY ONLY <1>2, <2>1, FS_Subset, FS_CardinalityType DEF Count
<1>. DEFINE U == {i + 1 : i \in Of(Tail(s), x)}
<1>4. Of(s, x) = IF Head(s).opp = x THEN U \cup {1} ELSE U
  <2>1. ASSUME NEW i \in Of(s, x) PROVE IF Head(s).opp = x THEN i \in U \cup {1} ELSE i \in U
    <3>1. CASE i = 1
      BY <1>1, <2>1, <3>1 DEF Of
    <3>2. CASE i # 1
      <4>1. i - 1 \in 1..(Len(s) - 1) /\ Tail(s)[i - 1] = s[i] /\ i = (i - 1) + 1
        BY <1>1, <2>1, <3>2 DEF Of
      <4>2. i - 1 \in Of(Tail(s), x)
        BY <1>1, <2>1, <4>1 DEF Of
      <4>. QED
        BY <4>1, <4>2
    <3>. QED
      BY <3>1, <3>2
  <2>2. ASSUME NEW i \in U PROVE i \in Of(s, x)
    <3>1. PICK j \in Of(Tail(s), x) : i = j + 1
      OBVIOUS
    <3>2. j \in 1..(Len(s) - 1) /\ Tail(s)[j].opp = x
      BY <1>1 DEF Of
    <3>. QED
      BY <1>1, <3>1, <3>2 DEF Of
  <2>3. Head(s).opp = x => 1 \in Of(s, x)
    BY <1>1 DEF Of
  <2>. HIDE DEF U
  <2>. QED
    BY <2>1, <2>2, <2>3
<1>5. IsFiniteSet(U) /\ Cardinality(U) = Count(Tail(s), x) /\ 1 \notin U
  <2>1. Of(Tail(s), x) \in SUBSET Nat /\ 0 \notin Of(Tail(s), x)
    BY <1>2
  <2>. QED
    BY <1>3, <2>1, Shifted DEF Count
<1>. HIDE DEF U
<1>. QED
  BY <1>3, <1>4, <1>5, FS_AddElement DEF Count

LEMMA OneFurther ==
  ASSUME NEW n \in Nat
  PROVE  IsFiniteSet(1..n) /\ n + 1 \notin 1..n /\ (1..n) \cup {n + 1} = 1..(n + 1)
<1>1. IsFiniteSet(1..n)
  BY FS_Interval
<1>. QED
  BY <1>1

LEMMA SumNext ==
  ASSUME NEW n \in Nat, NEW f, \A i \in 1..(n + 1) : f[i] \in Int
  PROVE  /\ SumFunctionOnSet(f, 1..n) \in Int
         /\ SumFunctionOnSet(f, 1..(n + 1)) = SumFunctionOnSet(f, 1..n) + f[n + 1]
<1>. PICK S, x : S = 1..n /\ x = n + 1
  OBVIOUS
<1>1. IsFiniteSet(S) /\ x \notin S /\ S \cup {x} = 1..(n + 1)
  BY OneFurther
<1>2. SumFunctionOnSet(f, S) \in Int /\ SumFunctionOnSet(f, S \cup {x}) = SumFunctionOnSet(f, S) + f[x]
  <2>1. \A i \in S \cup {x} : f[i] \in Int
    BY <1>1
  <2>. QED
    BY ONLY <1>1, <2>1, SumAdd
<1>. QED
  BY <1>1, <1>2

\* What a sequence allocates when something is put behind it.
LEMMA AllocatedAppend ==
  ASSUME NEW S, \A c \in S : c.capital \in Nat, NEW s \in Seq(S), NEW e \in S
  PROVE  /\ Allocated(s) \in Nat /\ Allocated(Append(s, e)) = Allocated(s) + e.capital
<1>. PICK n \in Nat : n = Len(s)
  BY LenProperties
<1>. PICK t : t = Append(s, e)
  OBVIOUS
<1>1. /\ DOMAIN s = 1..n /\ DOMAIN t = 1..(n + 1) /\ t[n + 1] = e
      /\ \A i \in 1..n : t[i] = s[i] /\ s[i].capital \in Nat
  BY AppendProperties, LenProperties, ElementOfSeq
<1>. DEFINE f == [i \in DOMAIN s |-> s[i].capital] g == [i \in DOMAIN t |-> t[i].capital]
<1>2. /\ \A i \in 1..n : f[i] = g[i] /\ f[i] \in Nat
      /\ \A i \in (1..n) \cup {n + 1} : g[i] \in Nat
      /\ g[n + 1] = e.capital
  BY <1>1
<1>3. IsFiniteSet(1..n) /\ n + 1 \notin 1..n /\ (1..n) \cup {n + 1} = 1..(n + 1)
  BY OneFurther
<1>. HIDE DEF f, g
<1>4. SumFunctionOnSet(f, 1..n) = SumFunctionOnSet(g, 1..n)
  BY ONLY <1>2, <1>3, SumSame
<1>5. SumFunctionOnSet(g, 1..(n + 1)) = SumFunctionOnSet(g, 1..n) + g[n + 1]
  <2>1. \A i \in 1..(n + 1) : g[i] \in Int
    BY <1>2, <1>3
  <2>. QED
    BY ONLY n \in Nat, <2>1, SumNext
<1>6. SumFunctionOnSet(f, 1..n) \in Nat
  BY ONLY <1>2, <1>3, SumPart
<1>7. Allocated(s) = SumFunctionOnSet(f, 1..n) /\ Allocated(t) = SumFunctionOnSet(g, 1..(n + 1))
  BY <1>1, Zenon DEF Allocated, f, g
<1>. QED
  BY <1>2, <1>4, <1>5, <1>6, <1>7

\* The first number and the sum of the others.
LEMMA SumShift ==
  ASSUME NEW n \in Nat, NEW f, NEW g, \A i \in 1..(n + 1) : f[i] \in Int,
         \A i \in 1..n : g[i] = f[i + 1]
  PROVE  SumFunctionOnSet(f, 1..(n + 1)) = f[1] + SumFunctionOnSet(g, 1..n)
<1>. DEFINE Right(m) == /\ SumFunctionOnSet(g, 1..m) \in Int
                        /\ SumFunctionOnSet(f, 1..(m + 1)) = f[1] + SumFunctionOnSet(g, 1..m)
            B == {m \in 0..n : ~Right(m)}
<1>. SUFFICES ASSUME B # {} PROVE FALSE
  <2>1. n \in 0..n
    OBVIOUS
  <2>. HIDE DEF Right
  <2>2. Right(n)
    BY <2>1
  <2>. QED
    BY <2>2 DEF Right
<1>1. PICK m \in B : \A k \in B : m <= k
  <2>1. B \in SUBSET (0..n)
    OBVIOUS
  <2>. HIDE DEF B
  <2>. QED
    BY <2>1, SmallestNumber
<1>2. CASE m = 0
  <2>1. 1..0 = {} /\ 1..(0 + 1) = {} \cup {1} /\ IsFiniteSet({}) /\ \A i \in {} \cup {1} : f[i] \in Int
    BY FS_EmptySet
  <2>2. SumFunctionOnSet(f, {} \cup {1}) = SumFunctionOnSet(f, {}) + f[1]
    BY ONLY <2>1, SumAdd
  <2>3. SumFunctionOnSet(f, {}) = 0 /\ SumFunctionOnSet(g, {}) = 0
    BY SumEmpty
  <2>4. Right(0)
    <3>1. f[1] \in Int
      BY <2>1
    <3>. QED
      BY <2>1, <2>2, <2>3, <3>1
  <2>. HIDE DEF Right
  <2>. QED
    BY <1>1, <1>2, <2>4
<1>3. CASE m # 0
  <2>1. m \in 1..n /\ m - 1 \in 0..n
    BY <1>1, <1>3
  <2>2. Right(m - 1)
    <3>1. m - 1 < m
      BY <2>1
    <3>2. m - 1 \notin B
      <4>. HIDE DEF B
      <4>. QED
        BY <1>1, <2>1, <3>1
    <3>. HIDE DEF Right
    <3>. QED
      BY <2>1, <3>2
  <2>3. /\ IsFiniteSet(1..m) /\ m + 1 \notin 1..m /\ (1..m) \cup {m + 1} = 1..(m + 1)
        /\ \A i \in (1..m) \cup {m + 1} : f[i] \in Int
    <3>1. IsFiniteSet(1..m) /\ m + 1 \notin 1..m /\ (1..m) \cup {m + 1} = 1..(m + 1)
      BY <2>1, OneFurther
    <3>. QED
      BY <2>1, <3>1
  <2>4. SumFunctionOnSet(f, 1..m) \in Int /\ SumFunctionOnSet(f, 1..(m + 1)) = SumFunctionOnSet(f, 1..m) + f[m + 1]
    <3>1. m \in Nat /\ \A i \in 1..(m + 1) : f[i] \in Int
      BY <2>1, <2>3
    <3>. QED
      BY ONLY <3>1, SumNext
  <2>5. /\ IsFiniteSet(1..(m - 1)) /\ m \notin 1..(m - 1) /\ (1..(m - 1)) \cup {m} = 1..m
        /\ \A i \in (1..(m - 1)) \cup {m} : g[i] \in Int
    <3>1. \A i \in 1..m : g[i] = f[i + 1] /\ i + 1 \in 1..(n + 1)
      BY <2>1
    <3>2. (1..(m - 1)) \cup {m} = 1..m
      BY <2>1
    <3>3. IsFiniteSet(1..(m - 1))
      <4>1. m - 1 \in Nat
        BY <2>1
      <4>. QED
        BY <4>1, OneFurther
    <3>. QED
      BY <2>1, <3>1, <3>2, <3>3
  <2>6. SumFunctionOnSet(g, 1..m) = SumFunctionOnSet(g, 1..(m - 1)) + g[m]
    <3>. PICK k \in Nat : k = m - 1
      BY <2>1
    <3>1. \A i \in 1..(k + 1) : g[i] \in Int
      BY <2>5
    <3>2. SumFunctionOnSet(g, 1..(k + 1)) = SumFunctionOnSet(g, 1..k) + g[k + 1]
      BY ONLY k \in Nat, <3>1, SumNext
    <3>3. k + 1 = m
      BY <2>1
    <3>. QED
      BY <3>2, <3>3
  <2>7. g[m] = f[m + 1] /\ f[m + 1] \in Int /\ f[1] \in Int /\ (m - 1) + 1 = m
    BY <2>1
  <2>8. Right(m)
    BY <2>2, <2>4, <2>6, <2>7
  <2>. HIDE DEF Right
  <2>. QED
    BY <1>1, <2>8
<1>. QED
  BY <1>2, <1>3

LEMMA AllocatedTail ==
  ASSUME NEW S, \A c \in S : c.capital \in Nat, NEW s \in Seq(S), s # <<>>
  PROVE  /\ Allocated(Tail(s)) \in Nat /\ Head(s).capital \in Nat
         /\ Allocated(s) = Head(s).capital + Allocated(Tail(s))
<1>. PICK t : t = Tail(s)
  OBVIOUS
<1>1. /\ DOMAIN s = 1..Len(s) /\ Len(s) \in Nat \ {0} /\ Head(s) = s[1]
      /\ t \in Seq(S) /\ Len(t) = Len(s) - 1 /\ DOMAIN t = 1..(Len(s) - 1)
      /\ \A i \in 1..(Len(s) - 1) : t[i] = s[i + 1]
  BY HeadTailProperties, LenProperties, EmptySeq
<1>. PICK n \in Nat : n = Len(s) - 1
  <2>1. Len(s) - 1 \in Nat
    BY <1>1
  <2>. QED
    BY <2>1
<1>2. /\ DOMAIN s = 1..(n + 1) /\ DOMAIN t = 1..n /\ \A i \in 1..n : t[i] = s[i + 1]
      /\ \A i \in 1..(n + 1) : s[i].capital \in Nat
  BY <1>1, ElementOfSeq
<1>. DEFINE f == [i \in DOMAIN s |-> s[i].capital] g == [i \in DOMAIN t |-> t[i].capital]
<1>3. /\ \A i \in 1..(n + 1) : f[i] = s[i].capital /\ f[i] \in Int
      /\ \A i \in 1..n : g[i] = f[i + 1] /\ g[i] \in Nat
  BY <1>2
<1>4. Allocated(s) = SumFunctionOnSet(f, 1..(n + 1)) /\ Allocated(t) = SumFunctionOnSet(g, 1..n)
  BY <1>2, Zenon DEF Allocated
<1>. HIDE DEF f, g
<1>5. SumFunctionOnSet(f, 1..(n + 1)) = f[1] + SumFunctionOnSet(g, 1..n)
  BY ONLY <1>3, n \in Nat, SumShift
<1>6. SumFunctionOnSet(g, 1..n) \in Nat
  <2>1. IsFiniteSet(1..n)
    BY FS_Interval
  <2>. QED
    BY ONLY <1>3, <2>1, SumPart
<1>. QED
  BY <1>1, <1>2, <1>3, <1>4, <1>5, <1>6

-----------------------------------------------------------------------------
(* The selection *)

\* p is a portfolio within the limits, of candidates of the lot.
Balanced(S, lot, p) ==
    /\ p \in Seq(S) /\ Allocated(p) \in 0..TotalCapital /\ Len(p) <= MaxPositions
    /\ \A i \in DOMAIN p :
          /\ \E j \in DOMAIN lot : lot[j] = p[i]
          /\ Positions(p, p[i], "product") <= MaxPerProduct
          /\ Positions(p, p[i], "route") <= MaxPerMarketplace
    /\ \A i, j \in DOMAIN p : p[i].opp = p[j].opp => i = j

LEMMA PositionsAppend ==
  ASSUME NEW S, NEW s \in Seq(S), NEW e \in S, NEW f
  PROVE  \A c : /\ Positions(s, c, f) \in Nat
                /\ Positions(Append(s, e), c, f) =
                      IF e[f] = c[f] THEN Positions(s, c, f) + 1 ELSE Positions(s, c, f)
<1>. TAKE c
<1>. PICK t : t = Append(s, e)
  OBVIOUS
<1>1. /\ DOMAIN s = 1..Len(s) /\ Len(s) \in Nat /\ DOMAIN t = 1..(Len(s) + 1) /\ t[Len(s) + 1] = e
      /\ \A i \in 1..Len(s) : t[i] = s[i]
  BY AppendProperties, LenProperties
<1>. DEFINE P == {i \in DOMAIN s : s[i][f] = c[f]} Q == {i \in DOMAIN t : t[i][f] = c[f]}
<1>2. Q = IF e[f] = c[f] THEN P \cup {Len(s) + 1} ELSE P
  BY <1>1
<1>3. P \in SUBSET (1..Len(s)) /\ Len(s) + 1 \notin P
  BY <1>1
<1>4. IsFiniteSet(1..Len(s))
  BY <1>1, FS_Interval
<1>5. Positions(s, c, f) = Cardinality(P) /\ Positions(t, c, f) = Cardinality(Q)
  BY Zenon DEF Positions
<1>. HIDE DEF P, Q
<1>6. IsFiniteSet(P) /\ Cardinality(P) \in Nat
  BY ONLY <1>3, <1>4, FS_Subset, FS_CardinalityType
<1>. QED
  BY <1>2, <1>3, <1>5, <1>6, FS_AddElement

\* What concentrates no further than m stays so with one more of what is rarer.
LEMMA PositionsStay ==
  ASSUME NEW S, NEW s \in Seq(S), NEW e \in S, NEW f, NEW m \in Nat, Positions(s, e, f) < m,
         \A j \in DOMAIN s : Positions(s, s[j], f) <= m,
         NEW d, d = e \/ \E j \in DOMAIN s : d = s[j]
  PROVE  Positions(Append(s, e), d, f) <= m
<1>1. Positions(s, d, f) \in Nat
  BY PositionsAppend
<1>2. Positions(Append(s, e), d, f) = IF e[f] = d[f] THEN Positions(s, d, f) + 1 ELSE Positions(s, d, f)
  BY PositionsAppend
<1>3. e[f] = d[f] => Positions(s, d, f) = Positions(s, e, f)
  BY DEF Positions
<1>4. e[f] # d[f] => Positions(s, d, f) <= m
  OBVIOUS
<1>. PICK x, y : x = Positions(Append(s, e), d, f) /\ y = Positions(s, d, f)
  OBVIOUS
<1>. QED
  BY <1>1, <1>2, <1>3, <1>4

LEMMA AcceptedIsBalanced ==
  ASSUME NEW S, \A c \in S : Rankable(c), NEW lot \in Seq(S), NEW p, Balanced(S, lot, p),
         NEW k \in DOMAIN lot, NEW c, c = lot[k], Acceptable(p, c)
  PROVE  Balanced(S, lot, Append(p, c))
<1>. PICK t : t = Append(p, c)
  OBVIOUS
<1>1. c \in S /\ \A d \in S : d.capital \in Nat
  BY ElementOfSeq DEF Rankable
<1>2. /\ p \in Seq(S) /\ Len(p) \in Nat /\ DOMAIN p = 1..Len(p)
      /\ t \in Seq(S) /\ Len(t) = Len(p) + 1 /\ DOMAIN t = 1..(Len(p) + 1) /\ t[Len(p) + 1] = c
      /\ \A i \in 1..Len(p) : t[i] = p[i]
  <2>1. p \in Seq(S)
    BY DEF Balanced
  <2>. QED
    BY <1>1, <2>1, AppendProperties, LenProperties
<1>3. Allocated(t) \in 0..TotalCapital
  <2>1. Allocated(p) \in Nat /\ Allocated(t) = Allocated(p) + c.capital
    BY <1>1, <1>2, AllocatedAppend
  <2>. QED
    BY <1>1, <2>1, SelectionAssumption DEF Acceptable
<1>4. Len(t) <= MaxPositions
  BY <1>2, SelectionAssumption DEF Acceptable
<1>5. /\ Positions(p, c, "opp") = 0 /\ Positions(p, c, "product") < MaxPerProduct
      /\ Positions(p, c, "route") < MaxPerMarketplace
  BY DEF Acceptable, check_diversification
<1>6. \A i \in DOMAIN t : t[i] = c \/ \E j \in DOMAIN p : t[i] = p[j]
  BY <1>2
<1>7. ASSUME NEW i \in DOMAIN t
      PROVE  Positions(t, t[i], "product") <= MaxPerProduct /\ Positions(t, t[i], "route") <= MaxPerMarketplace
  <2>1. /\ \A j \in DOMAIN p : Positions(p, p[j], "product") <= MaxPerProduct
        /\ \A j \in DOMAIN p : Positions(p, p[j], "route") <= MaxPerMarketplace
    BY DEF Balanced
  <2>. PICK d : d = t[i]
    OBVIOUS
  <2>2. p \in Seq(S) /\ c \in S /\ (d = c \/ \E j \in DOMAIN p : d = p[j])
        /\ MaxPerProduct \in Nat /\ MaxPerMarketplace \in Nat
    BY <1>1, <1>2, <1>6, SelectionAssumption
  <2>3. Positions(Append(p, c), d, "product") <= MaxPerProduct
    BY ONLY <1>5, <2>1, <2>2, PositionsStay
  <2>4. Positions(Append(p, c), d, "route") <= MaxPerMarketplace
    BY ONLY <1>5, <2>1, <2>2, PositionsStay
  <2>. QED
    BY <2>3, <2>4
<1>8. \A i \in DOMAIN t : \E j \in DOMAIN lot : lot[j] = t[i]
  BY <1>2 DEF Balanced
<1>9. \A i \in DOMAIN p : p[i].opp # c.opp
  <2>. DEFINE P == {i \in DOMAIN p : p[i]["opp"] = c["opp"]}
  <2>1. Cardinality(P) = 0
    BY <1>5 DEF Positions
  <2>2. IsFiniteSet(P)
    <3>1. P \in SUBSET (1..Len(p)) /\ IsFiniteSet(1..Len(p))
      BY <1>2, FS_Interval
    <3>. HIDE DEF P
    <3>. QED
      BY <3>1, FS_Subset
  <2>3. P = {}
    <3>. HIDE DEF P
    <3>. QED
      BY <2>1, <2>2, FS_EmptySet
  <2>. QED
    BY <2>3
<1>10. \A i, j \in DOMAIN t : t[i].opp = t[j].opp => i = j
  <2>1. \A i, j \in DOMAIN p : p[i].opp = p[j].opp => i = j
    BY DEF Balanced
  <2>. QED
    BY <1>2, <1>9, <2>1
<1>. QED
  BY <1>2, <1>3, <1>4, <1>7, <1>8, <1>10 DEF Balanced

\* A lot is decided one candidate after the other, in the order of the ranking.
LEMMA OptimizeSteps ==
  ASSUME NEW S, \A c \in S : Rankable(c), NEW lot \in Seq(S)
  PROVE  \E h : /\ h[0] = <<>> /\ optimize(lot) = h[Len(lot)]
                /\ \A k \in 1..Len(lot) :
                     h[k] = IF Acceptable(h[k - 1], rank_candidates(lot)[k])
                            THEN Append(h[k - 1], rank_candidates(lot)[k]) ELSE h[k - 1]
<1>. PICK n \in Nat : n = Len(lot) /\ DOMAIN lot = 1..n
  BY LenProperties
<1>. PICK r : r = rank_candidates(lot)
  OBVIOUS
<1>1. \A k \in 1..n : \E i \in DOMAIN lot : r[k] = lot[i]
  <2>1. \A k \in DOMAIN lot : \E i \in DOMAIN lot : rank_candidates(lot)[k] = lot[i]
    BY RankedAreOfBatch
  <2>. QED
    BY <2>1
<1>. DEFINE Next1(k, p) == IF Acceptable(p, r[k]) THEN Append(p, r[k]) ELSE p
            Defined(g) == g = [k \in 0..n |-> IF k = 0 THEN <<>>
                              ELSE IF Acceptable(g[k - 1], r[k]) THEN Append(g[k - 1], r[k])
                              ELSE g[k - 1]]
<1>2. \E g : Defined(g)
  <2>. DEFINE V == Seq(S) step == [k \in 1..n |-> [p \in V |-> Next1(k, p)]]
  <2>1. ASSUME NEW k \in 1..n, NEW p \in V PROVE step[k][p] = Next1(k, p) /\ Next1(k, p) \in V
    <3>1. r[k] \in S /\ p \in Seq(S)
      BY <1>1, ElementOfSeq
    <3>2. Next1(k, p) \in V
      BY <3>1, AppendProperties
    <3>. HIDE DEF Next1, V
    <3>. QED
      BY <3>2
  <2>2. <<>> \in V
    BY EmptySeq
  <2>3. PICK g : g \in [0..n -> V] /\ g[0] = <<>> /\ \A k \in 1..n : g[k] = step[k][g[k - 1]]
    <3>. HIDE DEF V, step
    <3>. PICK z : z = <<>>
      OBVIOUS
    <3>1. z \in V /\ \A k \in 1..n, v \in V : step[k][v] \in V
      BY <2>1, <2>2
    <3>2. \E g : Walk(n, V, z, step, g)
      BY ONLY n \in Nat, <3>1, StepsExist
    <3>. QED
      BY <3>2 DEF Walk
  <2>4. ASSUME NEW k \in 1..n PROVE g[k] = Next1(k, g[k - 1])
    <3>1. k - 1 \in 0..n
      OBVIOUS
    <3>2. g[k - 1] \in V
      <4>. HIDE DEF V
      <4>. QED
        BY <2>3, <3>1
    <3>. HIDE DEF Next1, V, step
    <3>. QED
      BY <2>1, <2>3, <3>2
  <2>5. ASSUME NEW k \in 0..n
        PROVE  g[k] = IF k = 0 THEN <<>>
                      ELSE IF Acceptable(g[k - 1], r[k]) THEN Append(g[k - 1], r[k])
                      ELSE g[k - 1]
    <3>1. k # 0 => k \in 1..n
      OBVIOUS
    <3>. QED
      BY <2>3, <2>4, <3>1
  <2>6. Defined(g)
    <3>1. g = [k \in 0..n |-> g[k]]
      <4>. HIDE DEF V, step
      <4>. QED
        BY <2>3
    <3>. QED
      BY <2>5, <3>1
  <2>. HIDE DEF Defined
  <2>. QED
    BY <2>6
<1>. DEFINE h == CHOOSE g : Defined(g)
<1>3. optimize(lot) = h[n]
  BY Zenon DEF optimize
<1>4. Defined(h)
  <2>. HIDE DEF Defined
  <2>. QED
    BY <1>2
<1>. HIDE DEF h
<1>5. ASSUME NEW k \in 0..n
      PROVE  h[k] = IF k = 0 THEN <<>> ELSE Next1(k, h[k - 1])
  BY <1>4
<1>. HIDE DEF Defined
<1>6. h[0] = <<>> /\ \A k \in 1..n : h[k] = Next1(k, h[k - 1])
  BY <1>5
<1>. QED
  BY <1>3, <1>6

\* Whatever has been approved on the way is within every limit.
LEMMA OptimizeBalances ==
  ASSUME NEW S, \A c \in S : Rankable(c), NEW lot \in Seq(S),
         NEW h, h[0] = <<>>,
         \A k \in 1..Len(lot) :
            h[k] = IF Acceptable(h[k - 1], rank_candidates(lot)[k])
                   THEN Append(h[k - 1], rank_candidates(lot)[k]) ELSE h[k - 1]
  PROVE  \A k \in 0..Len(lot) : Balanced(S, lot, h[k])
<1>. PICK n \in Nat : n = Len(lot) /\ DOMAIN lot = 1..n
  BY LenProperties
<1>. PICK r : r = rank_candidates(lot)
  OBVIOUS
<1>1. \A k \in 1..n : \E i \in DOMAIN lot : r[k] = lot[i]
  BY RankedAreOfBatch
<1>. DEFINE Next1(k, p) == IF Acceptable(p, r[k]) THEN Append(p, r[k]) ELSE p
<1>5. ASSUME NEW k \in 0..n
      PROVE  h[k] = IF k = 0 THEN <<>> ELSE Next1(k, h[k - 1])
  BY DEF Next1
<1>. DEFINE B == {k \in 0..n : ~Balanced(S, lot, h[k])}
<1>6. ASSUME B # {} PROVE FALSE
  <2>1. PICK k \in B : \A j \in B : k <= j
    <3>1. B \in SUBSET (0..n)
      OBVIOUS
    <3>. HIDE DEF B
    <3>. QED
      BY <1>6, <3>1, SmallestNumber
  <2>2. k # 0
    <3>1. SUFFICES Balanced(S, lot, <<>>)
      <4>1. h[0] = <<>> /\ ~Balanced(S, lot, h[k])
        BY <1>5, <2>1
      <4>. QED
        BY <3>1, <4>1
    <3>2. <<>> \in Seq(S) /\ Len(<<>>) = 0 /\ DOMAIN <<>> = {}
      BY EmptySeq
    <3>3. Allocated(<<>>) = 0
      BY <3>2, SumEmpty DEF Allocated
    <3>. QED
      BY <3>2, <3>3, SelectionAssumption DEF Balanced
  <2>3. k \in 1..n /\ k - 1 \in 0..n /\ k - 1 < k
    BY <2>1, <2>2
  <2>4. Balanced(S, lot, h[k - 1])
    <3>1. k - 1 \notin B
      <4>. HIDE DEF B
      <4>. QED
        BY <2>1, <2>3
    <3>. QED
      BY <2>3, <3>1
  <2>5. PICK i \in DOMAIN lot : r[k] = lot[i]
    BY <1>1, <2>3
  <2>6. Balanced(S, lot, h[k])
    <3>1. h[k] = Next1(k, h[k - 1])
      BY <1>5, <2>3
    <3>2. CASE Acceptable(h[k - 1], r[k])
      BY <2>4, <2>5, <3>1, <3>2, AcceptedIsBalanced
    <3>3. CASE ~Acceptable(h[k - 1], r[k])
      BY <2>4, <3>1, <3>3
    <3>. QED
      BY <3>2, <3>3
  <2>. QED
    BY <2>1, <2>6
<1>. QED
  BY <1>6

\* What a portfolio cannot take it cannot take later.
LEMMA RefusedStays ==
  ASSUME NEW S, \A c \in S : Rankable(c), NEW p \in Seq(S), NEW e \in S, NEW c \in S,
         Len(p) <= MaxPositions, ~Acceptable(p, c)
  PROVE  ~Acceptable(Append(p, e), c)
<1>. PICK t : t = Append(p, e)
  OBVIOUS
<1>1. \A d \in S : d.capital \in Nat
  BY DEF Rankable
<1>2. Allocated(p) \in Nat /\ Allocated(t) = Allocated(p) + e.capital /\ e.capital \in Nat /\ c.capital \in Nat
  BY <1>1, AllocatedAppend
<1>3. Len(p) \in Nat /\ Len(t) = Len(p) + 1
  BY AppendProperties, LenProperties
<1>4. \A f : /\ Positions(p, c, f) \in Nat /\ Positions(t, c, f) \in Nat /\ Positions(p, c, f) <= Positions(t, c, f)
             /\ (Positions(t, c, f) = 0 => Positions(p, c, f) = 0)
  <2>. TAKE f
  <2>1. /\ Positions(p, c, f) \in Nat
        /\ Positions(t, c, f) = IF e[f] = c[f] THEN Positions(p, c, f) + 1 ELSE Positions(p, c, f)
    BY PositionsAppend
  <2>. QED
    BY <2>1
<1>. SUFFICES ASSUME Acceptable(t, c) PROVE Acceptable(p, c)
  OBVIOUS
<1>5. Len(p) < MaxPositions /\ Allocated(p) + c.capital <= TotalCapital /\ c.risk <= MaxRisk
  BY <1>2, <1>3, SelectionAssumption DEF Acceptable
<1>6. check_diversification(p, c)
  <2>1. /\ Positions(t, c, "opp") = 0 /\ Positions(t, c, "product") < MaxPerProduct
        /\ Positions(t, c, "route") < MaxPerMarketplace
    BY DEF Acceptable, check_diversification
  <2>. QED
    BY <1>4, <2>1, SelectionAssumption DEF check_diversification
<1>. QED
  BY <1>5, <1>6 DEF Acceptable

\* Nothing that was refused could still be taken in the end.
LEMMA OptimizeIsMaximal ==
  ASSUME NEW S, \A c \in S : Rankable(c), NEW lot \in Seq(S), NEW i \in DOMAIN lot
  PROVE  (\E j \in DOMAIN optimize(lot) : optimize(lot)[j] = lot[i]) \/ ~Acceptable(optimize(lot), lot[i])
<1>. PICK n \in Nat : n = Len(lot) /\ DOMAIN lot = 1..n
  BY LenProperties
<1>. PICK r : r = rank_candidates(lot)
  OBVIOUS
<1>1. PICK h : /\ h[0] = <<>> /\ optimize(lot) = h[n]
               /\ \A k \in 1..n : h[k] = IF Acceptable(h[k - 1], r[k]) THEN Append(h[k - 1], r[k]) ELSE h[k - 1]
  BY OptimizeSteps
<1>2. \A k \in 0..n : h[k] \in Seq(S) /\ Len(h[k]) <= MaxPositions
  <2>1. \A k \in 0..n : Balanced(S, lot, h[k])
    BY <1>1, OptimizeBalances
  <2>. QED
    BY <2>1 DEF Balanced
<1>3. PICK l \in 1..n : r[l] = lot[i]
  <2>1. \E l \in DOMAIN lot : rank_candidates(lot)[l] = lot[i]
    BY RankedAreOfBatch
  <2>. QED
    BY <2>1
<1>4. \A k \in 1..n : r[k] \in S
  <2>1. \A k \in DOMAIN lot : \E j \in DOMAIN lot : rank_candidates(lot)[k] = lot[j]
    BY RankedAreOfBatch
  <2>. QED
    BY <2>1, ElementOfSeq
<1>5. lot[i] \in S
  BY ElementOfSeq
<1>. PICK c : c = lot[i]
  OBVIOUS
<1>. DEFINE SettledBy(k) == (\E j \in DOMAIN h[k] : h[k][j] = c) \/ ~Acceptable(h[k], c)
            B == {k \in 0..n : k >= l /\ ~SettledBy(k)}
<1>6. SettledBy(l)
  <2>1. l - 1 \in 0..n
    OBVIOUS
  <2>2. CASE Acceptable(h[l - 1], c)
    <3>1. h[l] = Append(h[l - 1], c)
      BY <1>1, <1>3, <2>2
    <3>2. h[l - 1] \in Seq(S) /\ c \in S
      BY <1>2, <1>5, <2>1
    <3>3. /\ Len(h[l - 1]) \in Nat /\ DOMAIN h[l] = 1..(Len(h[l - 1]) + 1) /\ h[l][Len(h[l - 1]) + 1] = c
      BY <3>1, <3>2, AppendProperties, LenProperties
    <3>. QED
      BY <3>3
  <2>3. CASE ~Acceptable(h[l - 1], c)
    BY <1>1, <1>3, <2>3
  <2>. QED
    BY <2>2, <2>3
<1>7. ASSUME NEW k \in 1..n, SettledBy(k - 1) PROVE SettledBy(k)
  <2>1. k - 1 \in 0..n
    OBVIOUS
  <2>2. CASE h[k] = h[k - 1]
    BY <1>7, <2>2
  <2>3. CASE h[k] = Append(h[k - 1], r[k])
    <3>1. h[k - 1] \in Seq(S) /\ r[k] \in S /\ Len(h[k - 1]) <= MaxPositions /\ c \in S
      BY <1>2, <1>4, <1>5, <2>1
    <3>2. CASE \E j \in DOMAIN h[k - 1] : h[k - 1][j] = c
      <4>1. /\ Len(h[k - 1]) \in Nat /\ DOMAIN h[k - 1] = 1..Len(h[k - 1])
            /\ DOMAIN h[k] = 1..(Len(h[k - 1]) + 1)
            /\ \A j \in 1..Len(h[k - 1]) : h[k][j] = h[k - 1][j]
        BY <2>3, <3>1, AppendProperties, LenProperties
      <4>2. PICK j \in 1..Len(h[k - 1]) : h[k - 1][j] = c
        BY <3>2, <4>1
      <4>3. j \in DOMAIN h[k] /\ h[k][j] = c
        BY <4>1, <4>2
      <4>. QED
        BY <4>3
    <3>3. CASE ~Acceptable(h[k - 1], c)
      <4>1. ~Acceptable(Append(h[k - 1], r[k]), c)
        BY <3>1, <3>3, RefusedStays
      <4>. QED
        BY <2>3, <4>1
    <3>. QED
      BY <1>7, <3>2, <3>3
  <2>. QED
    BY <1>1, <2>2, <2>3
<1>8. ASSUME B # {} PROVE FALSE
  <2>1. PICK k \in B : \A j \in B : k <= j
    <3>1. B \in SUBSET (0..n)
      OBVIOUS
    <3>. HIDE DEF B
    <3>. QED
      BY <1>8, <3>1, SmallestNumber
  <2>2. k \in 0..n /\ k >= l /\ ~SettledBy(k)
    BY <2>1
  <2>. HIDE DEF SettledBy
  <2>3. k # l
    BY <1>6, <2>2
  <2>4. k - 1 \in 0..n /\ k - 1 >= l /\ k \in 1..n /\ k - 1 < k
    BY <2>2, <2>3
  <2>5. SettledBy(k - 1)
    BY <2>1, <2>4
  <2>. QED
    BY <1>7, <2>2, <2>4, <2>5
<1>9. SettledBy(n)
  <2>. HIDE DEF SettledBy
  <2>1. n \in 0..n /\ n >= l
    OBVIOUS
  <2>. QED
    BY <1>8, <2>1
<1>. QED
  BY <1>1, <1>9

\* What is approved of any lot is within every limit.
LEMMA OptimizedIsBalanced ==
  ASSUME NEW S, \A c \in S : Rankable(c), NEW lot \in Seq(S)
  PROVE  Balanced(S, lot, optimize(lot))
<1>1. PICK h : /\ h[0] = <<>> /\ optimize(lot) = h[Len(lot)]
               /\ \A k \in 1..Len(lot) :
                     h[k] = IF Acceptable(h[k - 1], rank_candidates(lot)[k])
                            THEN Append(h[k - 1], rank_candidates(lot)[k]) ELSE h[k - 1]
  BY OptimizeSteps
<1>2. \A k \in 0..Len(lot) : Balanced(S, lot, h[k])
  BY <1>1, OptimizeBalances
<1>3. Len(lot) \in 0..Len(lot)
  BY LenProperties
<1>. QED
  BY <1>1, <1>2, <1>3

-----------------------------------------------------------------------------
(* What the pipeline holds *)

Verdicts == {"execute", "skip", "monitor", "hold"}
Scores == 0..9500
Conclusion == [decision : Verdicts, score : Scores,
               strength : {"strong", "moderate", "conflicting", "weak"}]
PhaseRun == [status : {"running", "failing", "completed", "failed"}, attempts : Nat,
             signal : Forecasted \cup Trending \cup {Absent}]
PipelineRun == [opp : DOMAIN Offered, step : {"queued", "enrich", "save", "publish", "over"},
                phases : [Phases -> PhaseRun], decision : Conclusion \cup {Absent}]
SavedRun == [opp : DOMAIN Offered, decision : Verdicts, score : Scores, sighted : BOOLEAN]
Products == {Offered[opp].product : opp \in DOMAIN Offered}
Advice == [opp : DOMAIN Offered, product : Products, price : Nat, score : Scores]
Proposals == [opp : DOMAIN Offered, product : Products, route : {"->"}, capital : Nat, profit : {0},
               velocity : {50}, confidence : {50}, risk : {50}, score : Scores, strength : {"moderate"}]
Choice == [opp : DOMAIN Offered, product : Products, price : Nat, score : Scores,
           strength : {"moderate"}, of : Nat]

\* Events the bridge may read.
Recommendations == [opp : DOMAIN Offered, price : Nat, score : Scores, strength : {"weak"}]
Heeded == IF direct THEN Recommendations ELSE Choice
Tickets == [opp : DOMAIN Offered, mode : {"assisted", "manual"}, live : {FALSE}]

OrchestratorTyped ==
    /\ handed \in Nat /\ hand \in Seq(Seq(DOMAIN Offered)) /\ runs \in Seq(PipelineRun)
    /\ saved \in Seq(SavedRun) /\ advices \in Seq(Advice)
OptimizerTyped ==
    /\ heard \in 0..Len(advices) /\ ears \in Seq(Advice) /\ batch \in Seq(Proposals)
    /\ turn \in {"read", "flush"} /\ approved \in Seq(Proposals) /\ batches \in Nat
    /\ chosen \in Seq(Choice)
BridgeTyped ==
    /\ direct \in BOOLEAN /\ taken \in 0..Len(Events)
    /\ todo \in Seq(Heeded) /\ tickets \in Seq(Tickets)

LEMMA CompositeType ==
  ASSUME NEW o, NEW p, NEW t
  PROVE  /\ CompositeDecision(o, p, t) \in Conclusion
         /\ p = Absent /\ t = Absent => CompositeDecision(o, p, t).decision # "execute"
<1>. DEFINE v == Votes(o, p, t)
            Right(x) == x.points \in 0..95
<1>1. /\ Right(ProfitabilityPolicy(o)) /\ Right(PredictionAlignmentPolicy(p))
      /\ Right(TrendMomentumPolicy(t)) /\ Right(RiskAdjustmentPolicy(o))
      /\ ProfitabilityPolicy(o).points <= 90 /\ RiskAdjustmentPolicy(o).points <= 85
      /\ p = Absent => PredictionAlignmentPolicy(p).points = 30
      /\ t = Absent => TrendMomentumPolicy(t).points = 30
  BY DEF ProfitabilityPolicy, PredictionAlignmentPolicy, TrendMomentumPolicy, RiskAdjustmentPolicy, Vote
<1>. DEFINE a == v[1].points b == v[2].points c == v[3].points d == v[4].points
            composite == 30 * a + 25 * b + 25 * c + 20 * d
<1>2. /\ a \in 0..90 /\ b \in 0..95 /\ c \in 0..95 /\ d \in 0..85
      /\ p = Absent => b = 30
      /\ t = Absent => c = 30
  <2>1. /\ v[1] = ProfitabilityPolicy(o) /\ v[2] = PredictionAlignmentPolicy(p)
        /\ v[3] = TrendMomentumPolicy(t) /\ v[4] = RiskAdjustmentPolicy(o)
    BY DEF Votes
  <2>. HIDE DEF v
  <2>. QED
    BY <1>1, <2>1
<1>3. CompositeDecision(o, p, t) =
        [decision |-> reconcile(v, composite), score |-> composite,
         strength |-> classify_strength(v, composite)]
  <2>1. PolicyWeights[1] = 30 /\ PolicyWeights[2] = 25 /\ PolicyWeights[3] = 25 /\ PolicyWeights[4] = 20
    BY DEF PolicyWeights
  <2>. QED
    BY <2>1, Zenon DEF CompositeDecision
<1>4. /\ composite \in 0..9500
      /\ p = Absent /\ t = Absent => composite < 7000
  <2>. HIDE DEF a, b, c, d
  <2>. QED
    BY <1>2
<1>. HIDE DEF v, composite
<1>5. /\ reconcile(v, composite) \in Verdicts
      /\ composite < 7000 => reconcile(v, composite) # "execute"
  BY <1>4 DEF reconcile, Verdicts
<1>6. classify_strength(v, composite) \in {"strong", "moderate", "conflicting", "weak"}
  BY DEF classify_strength
<1>. QED
  BY <1>3, <1>4, <1>5, <1>6 DEF Conclusion, Scores

\* What a run that is to be saved or published has decided.
Weighed(r) ==
    r.step \in {"save", "publish"} =>
        r.decision = CompositeDecision(Offered[r.opp], r.phases["prediction"].signal,
                                       r.phases["trend"].signal)
Concluded == \A i \in DOMAIN runs : Weighed(runs[i])

\* Run i becomes r and the others stay.
Becomes(i, r) ==
    /\ r \in PipelineRun /\ r.opp = runs[i].opp /\ Weighed(r)
    /\ runs' \in Seq(PipelineRun) /\ DOMAIN runs' = DOMAIN runs /\ runs'[i] = r
    /\ \A j \in DOMAIN runs : j # i => runs'[j] = runs[j]
Forgets(i, r) == r.step # "publish" /\ saved' = saved /\ advices' = advices
Saves(i, r) ==
    /\ runs[i].step = "save" /\ advices' = advices
    /\ \E e \in SavedRun :
          /\ saved' = Append(saved, e) /\ e.opp = r.opp
          /\ e.decision = "execute" <=> r.step = "publish"
          /\ e.decision = "execute" => e.sighted
Publishes(i, r) ==
    /\ runs[i].step = "publish" /\ r.step = "over" /\ saved' = saved
    /\ \E a \in Advice : advices' = Append(advices, a) /\ a.opp = r.opp

LEMMA RunReplaced ==
  ASSUME runs \in Seq(PipelineRun), NEW i \in DOMAIN runs, NEW r \in PipelineRun,
         r.opp = runs[i].opp, Weighed(r), runs' = [runs EXCEPT ![i] = r]
  PROVE  Becomes(i, r)
<1>1. DOMAIN runs = 1..Len(runs)
  BY LenProperties
<1>2. runs' \in Seq(PipelineRun)
  BY <1>1, ExceptSeq
<1>. QED
  BY <1>2 DEF Becomes

LEMMA RunSteps ==
  ASSUME OrchestratorTyped, Concluded, NEW i \in DOMAIN runs, Run(i)
  PROVE  \E r : Becomes(i, r) /\ (Forgets(i, r) \/ Saves(i, r) \/ Publishes(i, r))
<1>. PICK o : o = runs[i]
  OBVIOUS
<1>1. o \in PipelineRun /\ Weighed(o) /\ runs \in Seq(PipelineRun)
  BY LenProperties, ElementOfSeq DEF OrchestratorTyped, Concluded
<1>2. CASE Enrich(i)
  <2>. DEFINE r == [o EXCEPT !.step = "enrich"]
  <2>1. r \in PipelineRun /\ r.opp = o.opp /\ r.step = "enrich"
    BY <1>1 DEF PipelineRun
  <2>2. runs' = [runs EXCEPT ![i] = r] /\ UNCHANGED <<saved, advices>>
    BY <1>2 DEF Enrich
  <2>. HIDE DEF r
  <2>3. Becomes(i, r)
    <3>1. Weighed(r)
      BY <2>1 DEF Weighed
    <3>. QED
      BY <1>1, <2>1, <2>2, <3>1, RunReplaced
  <2>. QED
    BY <2>1, <2>2, <2>3 DEF Forgets
<1>3. ASSUME NEW p \in Phases, Attempt(i, p)
      PROVE  \E r : Becomes(i, r) /\ Forgets(i, r)
  <2>1. PICK x \in PhaseRun : runs' = [runs EXCEPT ![i].phases[p] = x]
    <3>1. PICK status \in {"completed", "failing"}, signal \in SignalsOf(p) :
            runs' = [runs EXCEPT ![i].phases[p] =
                [attempts |-> o.phases[p].attempts + 1,
                 status |-> IF status = "completed" THEN "completed"
                            ELSE IF o.phases[p].attempts + 1 = Attempts THEN "failed" ELSE "failing",
                 signal |-> IF status = "completed" THEN signal ELSE Absent]]
      BY <1>3, Zenon DEF Attempt
    <3>2. signal \in Forecasted \cup Trending \cup {Absent} /\ o.phases[p].attempts \in Nat
      BY <1>1 DEF SignalsOf, PipelineRun, PhaseRun
    <3>. DEFINE x == [attempts |-> o.phases[p].attempts + 1,
                 status |-> IF status = "completed" THEN "completed"
                            ELSE IF o.phases[p].attempts + 1 = Attempts THEN "failed" ELSE "failing",
                 signal |-> IF status = "completed" THEN signal ELSE Absent]
    <3>3. x \in PhaseRun
      BY <3>2 DEF PhaseRun
    <3>4. runs' = [runs EXCEPT ![i].phases[p] = x]
      BY <3>1
    <3>. HIDE DEF x
    <3>. QED
      BY <3>3, <3>4
  <2>2. runs[i].step = "enrich" /\ UNCHANGED <<saved, advices>>
    BY <1>3 DEF Attempt
  <2>. DEFINE r == [o EXCEPT !.phases[p] = x]
  <2>3. r \in PipelineRun /\ r.opp = o.opp /\ r.step = "enrich"
    BY <1>1, <2>2 DEF PipelineRun
  <2>4. runs' = [runs EXCEPT ![i] = r]
    BY <2>1
  <2>. HIDE DEF r
  <2>5. Becomes(i, r)
    <3>1. Weighed(r)
      BY <2>3 DEF Weighed
    <3>. QED
      BY <1>1, <2>3, <2>4, <3>1, RunReplaced
  <2>. QED
    BY <2>2, <2>3, <2>5 DEF Forgets
<1>4. CASE Conclude(i)
  <2>. DEFINE d == CompositeDecision(Offered[o.opp], o.phases["prediction"].signal,
                                     o.phases["trend"].signal)
              r == [o EXCEPT !.step = "save", !.decision = d]
  <2>1. d \in Conclusion
    BY CompositeType
  <2>2. runs' = [runs EXCEPT ![i] = r] /\ UNCHANGED <<saved, advices>>
    BY <1>4 DEF Conclude
  <2>3. r \in PipelineRun /\ r.opp = o.opp /\ r.step = "save" /\ r.decision = d /\ r.phases = o.phases
    <3>. HIDE DEF d
    <3>. QED
      BY <1>1, <2>1 DEF PipelineRun
  <2>. HIDE DEF r
  <2>4. Becomes(i, r)
    <3>1. Weighed(r)
      BY <2>3 DEF Weighed
    <3>. QED
      BY <1>1, <2>2, <2>3, <3>1, RunReplaced
  <2>. QED
    BY <2>2, <2>3, <2>4 DEF Forgets
<1>5. CASE SavePipeline(i)
  <2>. DEFINE ended == [o EXCEPT !.step = "over"] next == [o EXCEPT !.step = AfterSave(i)]
  <2>0. o.decision \in Conclusion /\ o.step = "save"
        /\ o.decision = CompositeDecision(Offered[o.opp], o.phases["prediction"].signal,
                                          o.phases["trend"].signal)
    <3>1. o.step = "save"
      BY <1>5 DEF SavePipeline
    <3>. QED
      BY <1>1, <3>1, CompositeType DEF Weighed
  <2>1. CASE runs' = [runs EXCEPT ![i].step = "over"] /\ UNCHANGED saved
    <3>1. ended \in PipelineRun /\ ended.opp = o.opp /\ ended.step = "over"
      BY <1>1 DEF PipelineRun
    <3>2. runs' = [runs EXCEPT ![i] = ended] /\ advices' = advices
      BY <1>5, <2>1 DEF SavePipeline
    <3>. HIDE DEF ended
    <3>3. Becomes(i, ended)
      <4>1. Weighed(ended)
        BY <3>1 DEF Weighed
      <4>. QED
        BY <1>1, <3>1, <3>2, <4>1, RunReplaced
    <3>. QED
      BY <2>1, <3>1, <3>2, <3>3 DEF Forgets
  <2>2. CASE saved' = Append(saved, Record(i)) /\ runs' = [runs EXCEPT ![i].step = AfterSave(i)]
    <3>1. /\ next \in PipelineRun /\ next.opp = o.opp /\ next.step = AfterSave(i)
          /\ next.decision = o.decision /\ next.phases = o.phases
      <4>1. AfterSave(i) \in {"publish", "over"}
        BY DEF AfterSave
      <4>. QED
        BY <1>1, <4>1 DEF PipelineRun
    <3>2. runs' = [runs EXCEPT ![i] = next] /\ advices' = advices
      BY <1>5, <2>2 DEF SavePipeline
    <3>. HIDE DEF next
    <3>3. Becomes(i, next)
      <4>1. Weighed(next)
        BY <2>0, <3>1 DEF Weighed
      <4>. QED
        BY <1>1, <3>1, <3>2, <4>1, RunReplaced
    <3>. DEFINE sight == \E p \in Phases : o.phases[p].signal # Absent
    <3>4. Record(i) = [opp |-> o.opp, decision |-> o.decision.decision,
                       score |-> o.decision.score, sighted |-> sight]
      BY Zenon DEF Record
    <3>5. o.opp \in DOMAIN Offered /\ o.decision.decision \in Verdicts /\ o.decision.score \in Scores
      BY <1>1, <2>0 DEF Conclusion, PipelineRun
    <3>6. o.decision.decision = "execute" => sight
      <4>1. ~sight => o.phases["prediction"].signal = Absent /\ o.phases["trend"].signal = Absent
        BY DEF Phases
      <4>. QED
        BY <2>0, <4>1, CompositeType
    <3>7. PICK b \in BOOLEAN : b = sight
      <4>1. sight \in BOOLEAN
        BY Zenon
      <4>. HIDE DEF sight
      <4>. QED
        BY <4>1, Zenon
    <3>. HIDE DEF sight
    <3>8. Record(i) = [opp |-> o.opp, decision |-> o.decision.decision,
                       score |-> o.decision.score, sighted |-> b]
      BY <3>4, <3>7, Zenon
    <3>9. /\ Record(i) \in SavedRun /\ Record(i).opp = next.opp
          /\ Record(i).decision = o.decision.decision /\ Record(i).sighted = b
      BY <3>1, <3>5, <3>8 DEF SavedRun
    <3>10. o.decision.decision = "execute" <=> next.step = "publish"
      BY <3>1 DEF AfterSave
    <3>11. Saves(i, next)
      BY <2>0, <2>2, <3>2, <3>6, <3>7, <3>9, <3>10 DEF Saves
    <3>. QED
      BY <3>3, <3>11
  <2>. QED
    BY <1>5, <2>1, <2>2 DEF SavePipeline
<1>6. CASE Recommend(i)
  <2>. DEFINE r == [o EXCEPT !.step = "over"]
              a == [opp |-> o.opp, product |-> Offered[o.opp].product,
                    price |-> Offered[o.opp].buy, score |-> o.decision.score]
  <2>1. r \in PipelineRun /\ r.opp = o.opp /\ r.step = "over"
    BY <1>1 DEF PipelineRun
  <2>2. /\ runs' = [runs EXCEPT ![i] = r] /\ saved' = saved /\ o.step = "publish"
        /\ advices' = Append(advices, a) \/ advices' = advices
    BY <1>6 DEF Recommend
  <2>3. a \in Advice /\ a.opp = o.opp
    <3>1. o.decision \in Conclusion
      BY <1>1, <2>2, CompositeType DEF Weighed
    <3>. QED
      BY <1>1, <3>1, PipelineAssumption DEF Advice, Products, PipelineRun, Conclusion
  <2>. HIDE DEF r, a
  <2>4. Becomes(i, r)
    <3>1. Weighed(r)
      BY <2>1 DEF Weighed
    <3>. QED
      BY <1>1, <2>1, <2>2, <3>1, RunReplaced
  <2>5. CASE advices' = advices
    BY <2>1, <2>2, <2>4, <2>5 DEF Forgets
  <2>6. CASE advices' = Append(advices, a)
    BY <2>1, <2>2, <2>3, <2>4, <2>6 DEF Publishes
  <2>. QED
    BY <2>2, <2>5, <2>6
<1>. QED
  BY <1>2, <1>3, <1>4, <1>5, <1>6 DEF Run

Publishing(opp) == {i \in DOMAIN runs : runs[i].step = "publish" /\ runs[i].opp = opp}

\* What is recommended, or about to be, was saved as a decision to execute.
Acted ==
    \A opp \in DOMAIN Offered :
        Count(advices, opp) + Cardinality(Publishing(opp)) <= Cardinality(Executed(opp))

OrchestratorInv == OrchestratorTyped /\ Concluded /\ BlindNeverAdvised /\ Acted

LEMMA PieceType ==
  ASSUME NEW S, NEW s \in Seq(S), NEW a \in 0..Len(s), NEW b \in a..Len(s)
  PROVE  /\ SubSeq(s, a + 1, b) \in Seq(S) /\ Len(SubSeq(s, a + 1, b)) = b - a
         /\ \A k \in 1..(b - a) : SubSeq(s, a + 1, b)[k] = s[a + k]
<1>. PICK c \in Int, m \in Nat : c = a + 1 /\ m = b - a
  <2>1. Len(s) \in Nat
    BY LenProperties
  <2>. QED
    BY <2>1
<1>1. b \in Int /\ \A k \in c..b : s[k] \in S
  <2>1. Len(s) \in Nat /\ \A k \in 1..Len(s) : s[k] \in S
    BY LenProperties, ElementOfSeq
  <2>. QED
    BY <2>1
<1>2. /\ SubSeq(s, c, b) \in Seq(S) /\ Len(SubSeq(s, c, b)) = IF c <= b THEN b - c + 1 ELSE 0
      /\ \A k \in 1..(b - c + 1) : SubSeq(s, c, b)[k] = s[c + k - 1]
  BY <1>1, SubSeqProperties
<1>. QED
  BY <1>1, <1>2

LEMMA PublishingFinite ==
  ASSUME OrchestratorTyped, NEW opp
  PROVE  /\ IsFiniteSet(Publishing(opp)) /\ Cardinality(Publishing(opp)) \in Nat
         /\ IsFiniteSet(Executed(opp)) /\ Cardinality(Executed(opp)) \in Nat
         /\ Count(advices, opp) \in Nat
<1>1. /\ DOMAIN runs = 1..Len(runs) /\ DOMAIN saved = 1..Len(saved) /\ DOMAIN advices = 1..Len(advices)
      /\ Len(runs) \in Nat /\ Len(saved) \in Nat /\ Len(advices) \in Nat
  BY LenProperties DEF OrchestratorTyped
<1>2. /\ Publishing(opp) \in SUBSET (1..Len(runs)) /\ Executed(opp) \in SUBSET (1..Len(saved))
      /\ Of(advices, opp) \in SUBSET (1..Len(advices))
  BY <1>1 DEF Publishing, Executed, Of
<1>3. IsFiniteSet(1..Len(runs)) /\ IsFiniteSet(1..Len(saved)) /\ IsFiniteSet(1..Len(advices))
  BY <1>1, FS_Interval
<1>4. IsFiniteSet(Of(advices, opp))
  BY ONLY <1>2, <1>3, FS_Subset
<1>. QED
  BY ONLY <1>2, <1>3, <1>4, FS_Subset, FS_CardinalityType DEF Count

LEMMA RunActs ==
  ASSUME OrchestratorInv, OrchestratorTyped', NEW i \in DOMAIN runs, NEW r, Becomes(i, r),
         Forgets(i, r) \/ Saves(i, r) \/ Publishes(i, r)
  PROVE  BlindNeverAdvised' /\ Acted'
<1>. USE DEF OrchestratorInv
<1>0. /\ saved \in Seq(SavedRun) /\ advices \in Seq(Advice) /\ DOMAIN saved = 1..Len(saved) /\ Len(saved) \in Nat
  BY LenProperties DEF OrchestratorTyped
<1>. PICK n \in Nat : n = Len(saved)
  BY <1>0
<1>6. ASSUME NEW e \in SavedRun, saved' = Append(saved, e)
      PROVE  /\ DOMAIN saved' = 1..(n + 1) /\ saved'[n + 1] = e
             /\ \A j \in 1..n : saved'[j] = saved[j]
  BY <1>0, <1>6, AppendProperties, LenProperties
<1>7. BlindNeverAdvised'
  <2>1. CASE saved' = saved
    BY <2>1 DEF BlindNeverAdvised
  <2>2. CASE Saves(i, r)
    <3>1. PICK e \in SavedRun : saved' = Append(saved, e) /\ (e.decision = "execute" => e.sighted)
      BY <2>2 DEF Saves
    <3>2. /\ DOMAIN saved' = 1..(n + 1) /\ saved'[n + 1] = e
          /\ \A j \in 1..n : saved'[j] = saved[j]
      BY <1>6, <3>1
    <3>. SUFFICES ASSUME NEW j \in DOMAIN saved', saved'[j].decision = "execute"
                  PROVE  saved'[j].sighted
      BY DEF BlindNeverAdvised
    <3>3. CASE j = n + 1
      BY <3>1, <3>2, <3>3
    <3>4. CASE j # n + 1
      <4>1. j \in DOMAIN saved /\ saved'[j] = saved[j]
        BY <1>0, <3>2, <3>4
      <4>. QED
        BY <4>1 DEF BlindNeverAdvised
    <3>. QED
      BY <3>3, <3>4
  <2>. QED
    BY <2>1, <2>2 DEF Forgets, Publishes
<1>. SUFFICES ASSUME NEW opp \in DOMAIN Offered
              PROVE  (Count(advices, opp) + Cardinality(Publishing(opp)) <= Cardinality(Executed(opp)))'
  BY <1>7 DEF Acted
<1>1. /\ IsFiniteSet(Publishing(opp)) /\ Cardinality(Publishing(opp)) \in Nat
      /\ IsFiniteSet(Executed(opp)) /\ Cardinality(Executed(opp)) \in Nat
      /\ Count(advices, opp) \in Nat
      /\ Count(advices, opp) + Cardinality(Publishing(opp)) <= Cardinality(Executed(opp))
  BY PublishingFinite DEF Acted
<1>2. Publishing(opp)' = {j \in DOMAIN runs : runs'[j].step = "publish" /\ runs'[j].opp = opp}
  BY DEF Publishing, Becomes
<1>3. CASE Forgets(i, r)
  <2>1. Publishing(opp)' \in SUBSET Publishing(opp)
    BY <1>2, <1>3 DEF Publishing, Becomes, Forgets
  <2>2. Cardinality(Publishing(opp)') \in Nat /\ Cardinality(Publishing(opp)') <= Cardinality(Publishing(opp))
    BY ONLY <1>1, <2>1, FS_Subset, FS_CardinalityType
  <2>3. Executed(opp)' = Executed(opp) /\ Count(advices, opp)' = Count(advices, opp)
    BY <1>3 DEF Executed, Count, Of, Forgets
  <2>. QED
    BY <1>1, <2>2, <2>3
<1>4. CASE Saves(i, r)
  <2>1. PICK e \in SavedRun :
          /\ saved' = Append(saved, e) /\ e.opp = r.opp
          /\ e.decision = "execute" <=> r.step = "publish"
          /\ e.decision = "execute" => e.sighted
    BY <1>4 DEF Saves
  <2>2. /\ DOMAIN saved' = 1..(n + 1) /\ saved'[n + 1] = e
        /\ \A j \in 1..n : saved'[j] = saved[j]
    BY <1>6, <2>1
  <2>4. Count(advices, opp)' = Count(advices, opp) /\ runs[i].step = "save"
    BY <1>4 DEF Saves, Count, Of
  <2>5. CASE r.step = "publish" /\ r.opp = opp
    <3>1. Publishing(opp)' = Publishing(opp) \cup {i} /\ i \notin Publishing(opp)
      BY <1>2, <2>4, <2>5 DEF Publishing, Becomes
    <3>2. Executed(opp)' = Executed(opp) \cup {n + 1} /\ n + 1 \notin Executed(opp)
      BY <1>0, <2>1, <2>2, <2>5 DEF Executed, Of
    <3>3. Cardinality(Publishing(opp)') = Cardinality(Publishing(opp)) + 1
          /\ Cardinality(Executed(opp)') = Cardinality(Executed(opp)) + 1
      BY ONLY <1>1, <3>1, <3>2, FS_AddElement
    <3>. QED
      BY <1>1, <2>4, <3>3
  <2>6. CASE ~(r.step = "publish" /\ r.opp = opp)
    <3>1. Publishing(opp)' = Publishing(opp)
      BY <1>2, <2>4, <2>6 DEF Publishing, Becomes
    <3>2. Executed(opp)' = Executed(opp)
      BY <1>0, <2>1, <2>2, <2>6 DEF Executed, Of
    <3>. QED
      BY <1>1, <2>4, <3>1, <3>2
  <2>. QED
    BY <2>5, <2>6
<1>5. CASE Publishes(i, r)
  <2>1. PICK a \in Advice : advices' = Append(advices, a) /\ a.opp = r.opp
    BY <1>5 DEF Publishes
  <2>2. Executed(opp)' = Executed(opp)
    BY <1>5 DEF Publishes, Executed, Of
  <2>3. Count(advices, opp)' = IF r.opp = opp THEN Count(advices, opp) + 1 ELSE Count(advices, opp)
    <3>1. Count(Append(advices, a), opp) = IF a.opp = opp THEN Count(advices, opp) + 1 ELSE Count(advices, opp)
      BY <1>0, OfAppend
    <3>2. Count(advices, opp)' = Count(Append(advices, a), opp)
      BY <2>1 DEF Count, Of
    <3>. QED
      BY <2>1, <3>1, <3>2
  <2>4. Publishing(opp)' = IF r.opp = opp THEN Publishing(opp) \ {i} ELSE Publishing(opp)
    BY <1>2, <1>5 DEF Publishes, Publishing, Becomes
  <2>5. r.opp = opp => i \in Publishing(opp)
    BY <1>5 DEF Publishes, Publishing, Becomes
  <2>6. CASE r.opp = opp
    <3>1. Cardinality(Publishing(opp) \ {i}) = Cardinality(Publishing(opp)) - 1
      BY <1>1, <2>5, <2>6, FS_RemoveElement
    <3>. QED
      BY <1>1, <2>2, <2>3, <2>4, <2>6, <3>1
  <2>7. CASE r.opp # opp
    BY <1>1, <2>2, <2>3, <2>4, <2>7
  <2>. QED
    BY <2>6, <2>7
<1>. QED
  BY <1>3, <1>4, <1>5

\* A message is dispatched, or what the consumer held is gone.
LEMMA NoRunPublishes ==
  ASSUME OrchestratorInv, UNCHANGED <<saved, advices>>,
         \A i \in DOMAIN runs' : runs'[i].step = "queued"
  PROVE  BlindNeverAdvised' /\ Acted' /\ Concluded'
<1>1. BlindNeverAdvised' /\ Concluded'
  BY DEF OrchestratorInv, BlindNeverAdvised, Concluded, Weighed
<1>2. ASSUME NEW opp \in DOMAIN Offered
      PROVE  (Count(advices, opp) + Cardinality(Publishing(opp)) <= Cardinality(Executed(opp)))'
  <2>1. Publishing(opp)' = {} /\ Executed(opp)' = Executed(opp) /\ Count(advices, opp)' = Count(advices, opp)
    BY DEF Publishing, Executed, Count, Of
  <2>2. /\ Cardinality(Publishing(opp)) \in Nat /\ Cardinality(Executed(opp)) \in Nat /\ Count(advices, opp) \in Nat
        /\ Count(advices, opp) + Cardinality(Publishing(opp)) <= Cardinality(Executed(opp))
    BY PublishingFinite DEF OrchestratorInv, Acted
  <2>3. Cardinality({}) = 0
    BY FS_EmptySet
  <2>. QED
    BY <2>1, <2>2, <2>3
<1>. QED
  BY <1>1, <1>2 DEF Acted

LEMMA OrchestratorStep ==
  ASSUME OrchestratorInv, DNext
  PROVE  OrchestratorInv'
<1>. USE DEF OrchestratorInv
<1>0. /\ handed \in Nat /\ hand \in Seq(Seq(DOMAIN Offered)) /\ runs \in Seq(PipelineRun)
      /\ saved \in Seq(SavedRun) /\ advices \in Seq(Advice)
      /\ Inbox \in Seq(Seq(DOMAIN Offered)) /\ Len(Inbox) \in Nat
  BY PipelineAssumption, LenProperties DEF OrchestratorTyped
<1>1. CASE Receive
  <2>1. handed' \in Nat /\ hand' \in Seq(Seq(DOMAIN Offered))
    <3>1. handed' \in handed..Len(Inbox) /\ handed \in 0..Len(Inbox)
      BY <1>0, <1>1 DEF Receive, Smaller
    <3>2. hand' = SubSeq(Inbox, handed + 1, handed')
      BY <1>1 DEF Receive
    <3>. PICK S : S = Seq(DOMAIN Offered)
      OBVIOUS
    <3>3. SubSeq(Inbox, handed + 1, handed') \in Seq(S)
      BY <1>0, <3>1, PieceType
    <3>. QED
      BY <3>1, <3>2, <3>3
  <2>2. UNCHANGED <<runs, saved, advices>>
    BY <1>1 DEF Receive
  <2>. QED
    BY <1>0, <2>1, <2>2 DEF OrchestratorTyped, Concluded, Weighed, BlindNeverAdvised, Acted, Publishing,
       Executed, Count, Of
<1>2. CASE Dispatch
  <2>. PICK m : m = Head(hand)
    OBVIOUS
  <2>1. m \in Seq(DOMAIN Offered)
    <3>1. hand # <<>>
      BY <1>2 DEF Dispatch
    <3>. QED
      BY <1>0, <3>1, HeadTailProperties
  <2>2. runs' = [i \in DOMAIN m |-> Queued(m[i])]
    BY <1>2 DEF Dispatch
  <2>3. DOMAIN m = 1..Len(m) /\ Len(m) \in Nat /\ \A i \in 1..Len(m) : m[i] \in DOMAIN Offered
    BY <2>1, LenProperties, ElementOfSeq
  <2>4. \A opp \in DOMAIN Offered : Queued(opp) \in PipelineRun /\ Queued(opp).step = "queued"
    BY DEF Queued, PipelineRun, NotRun, PhaseRun
  <2>5. runs' \in Seq(PipelineRun) /\ \A i \in DOMAIN runs' : runs'[i].step = "queued"
    <3>1. runs' \in [1..Len(m) -> PipelineRun]
      BY <2>2, <2>3, <2>4
    <3>. QED
      BY <2>2, <2>3, <2>4, <3>1
  <2>6. UNCHANGED <<handed, hand, saved, advices>>
    BY <1>2 DEF Dispatch
  <2>7. OrchestratorTyped'
    BY <1>0, <2>5, <2>6 DEF OrchestratorTyped
  <2>. QED
    BY <2>5, <2>6, <2>7, NoRunPublishes
<1>3. CASE Gathered
  <2>1. /\ runs' = <<>> /\ UNCHANGED <<handed, saved, advices>> /\ hand # <<>> /\ hand' = Tail(hand)
    BY <1>3 DEF Gathered
  <2>2. hand' \in Seq(Seq(DOMAIN Offered)) /\ runs' \in Seq(PipelineRun) /\ DOMAIN runs' = {}
    BY <1>0, <2>1, HeadTailProperties, EmptySeq
  <2>3. OrchestratorTyped'
    BY <1>0, <2>1, <2>2 DEF OrchestratorTyped
  <2>. QED
    BY <2>1, <2>2, <2>3, NoRunPublishes
<1>4. ASSUME NEW i \in DOMAIN runs, Run(i) PROVE OrchestratorInv'
  <2>1. PICK r : Becomes(i, r) /\ (Forgets(i, r) \/ Saves(i, r) \/ Publishes(i, r))
    BY <1>4, RunSteps
  <2>2. UNCHANGED <<handed, hand>>
    BY <1>4 DEF Run, Enrich, Attempt, Conclude, SavePipeline, Recommend
  <2>3. saved' \in Seq(SavedRun) /\ advices' \in Seq(Advice)
    <3>1. CASE Forgets(i, r)
      BY <1>0, <3>1 DEF Forgets
    <3>2. CASE Saves(i, r)
      BY <1>0, <3>2, AppendProperties DEF Saves
    <3>3. CASE Publishes(i, r)
      BY <1>0, <3>3, AppendProperties DEF Publishes
    <3>. QED
      BY <2>1, <3>1, <3>2, <3>3
  <2>4. OrchestratorTyped'
    BY <1>0, <2>1, <2>2, <2>3 DEF OrchestratorTyped, Becomes
  <2>5. Concluded'
    BY <2>1 DEF Concluded, Becomes, Weighed
  <2>. QED
    BY <2>1, <2>4, <2>5, RunActs
<1>5. CASE Crash /\ hand' = <<>> /\ runs' = <<>>
  <2>1. UNCHANGED <<handed, saved, advices>>
    BY <1>5 DEF Crash
  <2>2. OrchestratorTyped' /\ DOMAIN runs' = {}
    BY <1>0, <1>5, <2>1, EmptySeq DEF OrchestratorTyped
  <2>. QED
    BY <2>1, <2>2, NoRunPublishes
<1>6. CASE UNCHANGED <<orchestration, advices>>
  BY <1>0, <1>6 DEF orchestration, OrchestratorTyped, Concluded, Weighed, BlindNeverAdvised, Acted, Publishing,
     Executed, Count, Of
<1>7. CASE Hear \/ Collect \/ FlushBatch \/ PublishSelected \/ Take \/ Handle
  BY <1>6, <1>7 DEF Hear, Collect, FlushBatch, PublishSelected, Take, Handle
<1>8. CASE Crash /\ UNCHANGED <<hand, runs>>
  BY <1>6, <1>8 DEF Crash, orchestration
<1>9. Crash => (hand' = <<>> /\ runs' = <<>>) \/ UNCHANGED <<hand, runs>>
  BY DEF Crash
<1>. QED
  BY <1>1, <1>2, <1>3, <1>4, <1>5, <1>7, <1>8, <1>9, Zenon DEF DNext

\* Those of x among the first n; the advices that the optimizer has read.
Until(s, x, n) == {i \in Of(s, x) : i <= n}
HeardOf(opp) == Until(advices, opp, heard)

\* No advice is kept, approved or chosen twice.
Relayed ==
    \A opp \in DOMAIN Offered :
        Count(chosen, opp) + Count(approved, opp) + Count(batch, opp) + Count(ears, opp)
            <= Cardinality(HeardOf(opp))

\* It is done with what it has read when it flushes, and has published what it
\* has approved when it reads.
InTurn ==
    /\ turn = "flush" => ears = <<>> /\ approved = <<>>
    /\ ears # <<>> => approved = <<>>

Mine(b) == {i \in DOMAIN chosen : chosen[i].of = b}
Spent(S) == SumFunctionOnSet([i \in DOMAIN chosen |-> chosen[i].price], S)

\* What a batch has chosen is within the limits together with what it still may.
Rationed ==
    /\ \A i \in DOMAIN chosen : chosen[i].of \in 1..batches
    /\ approved # <<>> => batches \in 1..batches
    /\ \A b \in 1..batches :
          /\ Spent(Mine(b)) <= TotalCapital /\ Cardinality(Mine(b)) <= MaxPositions
          /\ \A i, j \in Mine(b) : chosen[i].opp = chosen[j].opp => i = j
    /\ batches \in 1..batches =>
          /\ Spent(Mine(batches)) + Allocated(approved) <= TotalCapital
          /\ Cardinality(Mine(batches)) + Len(approved) <= MaxPositions
          /\ \A i \in Mine(batches) : \A j \in DOMAIN approved : chosen[i].opp # approved[j].opp
    /\ \A i, j \in DOMAIN approved : approved[i].opp = approved[j].opp => i = j

OptimizerInv == OptimizerTyped /\ Relayed /\ InTurn /\ Rationed

-----------------------------------------------------------------------------
LEMMA CountEmpty == ASSUME NEW x PROVE Count(<<>>, x) = 0 /\ Of(<<>>, x) = {}
<1>1. Of(<<>>, x) = {}
  BY DEF Of
<1>. QED
  BY <1>1, FS_EmptySet DEF Count

\* The elements of a piece, counted where they are.
LEMMA PieceCount ==
  ASSUME NEW S, NEW s \in Seq(S), NEW a \in 0..Len(s), NEW b \in a..Len(s), NEW x
  PROVE  /\ Count(SubSeq(s, a + 1, b), x) \in Nat
         /\ Cardinality(Until(s, x, a)) \in Nat
         /\ Cardinality(Until(s, x, b)) = Cardinality(Until(s, x, a)) + Count(SubSeq(s, a + 1, b), x)
<1>. DEFINE piece == SubSeq(s, a + 1, b)
            P == Of(piece, x) A == Until(s, x, a) B == Until(s, x, b)
            C == B \ A
            f == [i \in P |-> a + i]
<1>1. /\ Len(s) \in Nat /\ DOMAIN s = 1..Len(s) /\ a \in Nat /\ b \in Nat /\ b - a \in Nat /\ a <= b
  BY LenProperties
<1>2. /\ DOMAIN piece = 1..(b - a) /\ \A k \in 1..(b - a) : piece[k] = s[a + k]
  <2>1. /\ piece \in Seq(S) /\ Len(piece) = b - a /\ \A k \in 1..(b - a) : piece[k] = s[a + k]
    BY PieceType
  <2>. HIDE DEF piece
  <2>. QED
    BY <2>1, LenProperties
<1>. HIDE DEF piece
<1>3. P \in SUBSET (1..(b - a)) /\ A \in SUBSET (1..a) /\ B \in SUBSET (1..b)
  BY <1>1, <1>2 DEF Of, Until
<1>4. f \in Bijection(P, C)
  <2>1. ASSUME NEW i \in P PROVE a + i \in C
    BY <1>1, <1>2 DEF Of, Until
  <2>2. ASSUME NEW c \in C PROVE c - a \in P /\ a + (c - a) = c
    <3>1. c \in 1..Len(s) /\ s[c].opp = x /\ c <= b /\ ~(c <= a)
      BY <1>1 DEF Of, Until
    <3>2. c - a \in 1..(b - a) /\ a + (c - a) = c
      BY <1>1, <3>1
    <3>. QED
      BY <1>2, <3>1, <3>2 DEF Of
  <2>3. P \in SUBSET Nat
    BY <1>1, <1>3
  <2>. HIDE DEF P, C
  <2>4. f \in [P -> C] /\ \A i, j \in P : f[i] = f[j] => i = j
    BY <1>1, <2>1, <2>3
  <2>5. \A c \in C : \E i \in P : f[i] = c
    BY <2>2
  <2>. HIDE DEF f
  <2>. QED
    BY <2>4, <2>5 DEF Bijection, Injection, Surjection, IsInjective
<1>5. B = A \cup C /\ A \cap C = {} /\ C \in SUBSET B
  BY <1>1, <1>3 DEF Of, Until
<1>. HIDE DEF f, P, A, B, C
<1>6. IsFiniteSet(P) /\ Cardinality(P) \in Nat /\ IsFiniteSet(A) /\ IsFiniteSet(B)
      /\ Cardinality(A) \in Nat
  <2>1. IsFiniteSet(1..(b - a)) /\ IsFiniteSet(1..a) /\ IsFiniteSet(1..b)
    BY <1>1, FS_Interval
  <2>2. IsFiniteSet(P) /\ IsFiniteSet(A) /\ IsFiniteSet(B)
    BY ONLY <1>3, <2>1, FS_Subset
  <2>. QED
    BY <2>2, FS_CardinalityType
<1>7. IsFiniteSet(C) /\ Cardinality(C) = Cardinality(P)
  <2>1. IsFiniteSet(C)
    BY ONLY <1>5, <1>6, FS_Subset
  <2>. QED
    BY <1>4, <1>6, <2>1, FS_Bijection DEF ExistsBijection
<1>8. Cardinality(B) = Cardinality(A) + Cardinality(C)
  <2>1. Cardinality(A \cap C) = 0
    BY <1>5, FS_EmptySet
  <2>2. Cardinality(A \cup C) = Cardinality(A) + Cardinality(C) - Cardinality(A \cap C)
    BY <1>6, <1>7, FS_Union
  <2>. QED
    BY <1>5, <1>6, <1>7, <2>1, <2>2
<1>9. Count(SubSeq(s, a + 1, b), x) = Cardinality(P)
  BY DEF Count, P, piece
<1>. QED
  BY <1>6, <1>7, <1>8, <1>9 DEF A, B

LEMMA ApprovedOnce ==
  ASSUME NEW S, NEW lot \in Seq(S), NEW p, Balanced(S, lot, p), NEW x
  PROVE  Count(p, x) \in Nat /\ Count(lot, x) \in Nat /\ Count(p, x) <= Count(lot, x)
<1>0. /\ DOMAIN p = 1..Len(p) /\ Len(p) \in Nat /\ DOMAIN lot = 1..Len(lot) /\ Len(lot) \in Nat
  BY LenProperties DEF Balanced
<1>1. IsFiniteSet(Of(p, x)) /\ IsFiniteSet(Of(lot, x))
  <2>1. Of(p, x) \in SUBSET (1..Len(p)) /\ Of(lot, x) \in SUBSET (1..Len(lot))
    BY <1>0 DEF Of
  <2>2. IsFiniteSet(1..Len(p)) /\ IsFiniteSet(1..Len(lot))
    BY <1>0, FS_Interval
  <2>. QED
    BY <2>1, <2>2, FS_Subset
<1>2. Count(p, x) \in Nat /\ Count(lot, x) \in Nat
  BY <1>1, FS_CardinalityType DEF Count
<1>3. CASE Of(p, x) = {}
  BY <1>2, <1>3, FS_EmptySet DEF Count
<1>4. CASE Of(p, x) # {}
  <2>1. PICK i \in Of(p, x) : TRUE
    BY <1>4
  <2>2. Of(p, x) = {i}
    BY <2>1 DEF Of, Balanced
  <2>3. PICK j \in DOMAIN lot : lot[j] = p[i]
    BY <2>1 DEF Of, Balanced
  <2>4. {j} \in SUBSET Of(lot, x)
    BY <2>1, <2>3 DEF Of
  <2>5. Cardinality({i}) = 1 /\ Cardinality({j}) = 1
    BY FS_Singleton
  <2>. QED
    BY <1>1, <1>2, <2>2, <2>4, <2>5, FS_Subset DEF Count
<1>. QED
  BY <1>3, <1>4

LEMMA AllocatedEmpty == Allocated(<<>>) = 0 /\ Len(<<>>) = 0
<1>1. DOMAIN <<>> = {} /\ Len(<<>>) = 0
  OBVIOUS
<1>. QED
  BY <1>1, SumEmpty, Zenon DEF Allocated

LEMMA CandidatesRank == \A c \in Proposals : Rankable(c) /\ c.capital \in Nat
  BY DEF Proposals, Rankable

\* What no batch has chosen from, and what one more choice makes of a batch.
LEMMA MineFinite ==
  ASSUME OptimizerTyped, NEW b
  PROVE  /\ IsFiniteSet(Mine(b)) /\ Cardinality(Mine(b)) \in Nat /\ Spent(Mine(b)) \in Nat
<1>1. DOMAIN chosen = 1..Len(chosen) /\ Len(chosen) \in Nat /\ \A i \in 1..Len(chosen) : chosen[i].price \in Nat
  <2>1. chosen \in Seq(Choice)
    BY DEF OptimizerTyped
  <2>2. \A i \in 1..Len(chosen) : chosen[i] \in Choice
    BY <2>1, ElementOfSeq
  <2>. QED
    BY <2>1, <2>2, LenProperties DEF Choice
<1>2. Mine(b) \in SUBSET (1..Len(chosen))
  BY <1>1 DEF Mine
<1>3. IsFiniteSet(1..Len(chosen))
  BY <1>1, FS_Interval
<1>4. IsFiniteSet(Mine(b)) /\ Cardinality(Mine(b)) \in Nat
  BY ONLY <1>2, <1>3, FS_Subset, FS_CardinalityType
<1>. DEFINE f == [i \in DOMAIN chosen |-> chosen[i].price]
<1>5. \A i \in Mine(b) : f[i] \in Nat
  BY <1>1, <1>2
<1>. HIDE DEF f
<1>6. SumFunctionOnSet(f, Mine(b)) \in Nat
  BY ONLY <1>4, <1>5, SumPart
<1>. QED
  BY <1>4, <1>6, Zenon DEF Spent, f

LEMMA MineGrows ==
  ASSUME OptimizerTyped, NEW e \in Choice, chosen' = Append(chosen, e), NEW b
  PROVE  /\ Mine(b)' = IF e.of = b THEN Mine(b) \cup {Len(chosen) + 1} ELSE Mine(b)
         /\ Len(chosen) + 1 \notin Mine(b) /\ chosen'[Len(chosen) + 1] = e
         /\ \A i \in DOMAIN chosen : chosen'[i] = chosen[i]
         /\ DOMAIN chosen' = DOMAIN chosen \cup {Len(chosen) + 1}
         /\ Cardinality(Mine(b)') = IF e.of = b THEN Cardinality(Mine(b)) + 1 ELSE Cardinality(Mine(b))
         /\ Spent(Mine(b))' = IF e.of = b THEN Spent(Mine(b)) + e.price ELSE Spent(Mine(b))
<1>. PICK n \in Nat : n = Len(chosen)
  BY LenProperties DEF OptimizerTyped
<1>1. /\ DOMAIN chosen = 1..n /\ DOMAIN chosen' = 1..(n + 1) /\ chosen'[n + 1] = e
      /\ \A i \in 1..n : chosen'[i] = chosen[i]
      /\ \A i \in 1..n : chosen[i].price \in Nat
  <2>1. chosen \in Seq(Choice)
    BY DEF OptimizerTyped
  <2>2. \A i \in 1..n : chosen[i] \in Choice
    BY <2>1, ElementOfSeq
  <2>3. DOMAIN chosen = 1..n
    BY <2>1, LenProperties
  <2>4. /\ chosen' \in Seq(Choice) /\ Len(chosen') = n + 1 /\ chosen'[n + 1] = e
        /\ \A i \in 1..n : chosen'[i] = chosen[i]
    BY <2>1, AppendProperties
  <2>5. DOMAIN chosen' = 1..(n + 1)
    BY <2>4, LenProperties
  <2>6. \A i \in 1..n : chosen[i].price \in Nat
    BY <2>2 DEF Choice
  <2>. QED
    BY <2>3, <2>4, <2>5, <2>6
<1>2. Mine(b)' = (IF e.of = b THEN Mine(b) \cup {n + 1} ELSE Mine(b)) /\ n + 1 \notin Mine(b)
  BY <1>1 DEF Mine
<1>3. IsFiniteSet(Mine(b)) /\ Cardinality(Mine(b)) \in Nat
  BY MineFinite
<1>4. Cardinality(Mine(b)') = IF e.of = b THEN Cardinality(Mine(b)) + 1 ELSE Cardinality(Mine(b))
  BY <1>2, <1>3, FS_AddElement
<1>. DEFINE f == [i \in DOMAIN chosen |-> chosen[i].price] g == [i \in DOMAIN chosen' |-> chosen'[i].price]
<1>5. /\ \A i \in Mine(b) : f[i] = g[i] /\ f[i] \in Int
      /\ \A i \in Mine(b) \cup {n + 1} : g[i] \in Int
      /\ g[n + 1] = e.price
  BY <1>1 DEF Mine, Choice
<1>6. Spent(Mine(b)) = SumFunctionOnSet(f, Mine(b)) /\ Spent(Mine(b))' = SumFunctionOnSet(g, Mine(b)')
  BY Zenon DEF Spent
<1>. HIDE DEF f, g
<1>7. SumFunctionOnSet(f, Mine(b)) = SumFunctionOnSet(g, Mine(b))
  BY ONLY <1>3, <1>5, SumSame
<1>8. SumFunctionOnSet(g, Mine(b) \cup {n + 1}) = SumFunctionOnSet(g, Mine(b)) + g[n + 1]
  BY ONLY <1>2, <1>3, <1>5, SumAdd
<1>. QED
  BY <1>1, <1>2, <1>4, <1>5, <1>6, <1>7, <1>8

-----------------------------------------------------------------------------
\* Recommendations are only added.
LEMMA AdvicesGrow ==
  ASSUME OrchestratorInv, DNext
  PROVE  advices' = advices \/ \E a \in Advice : advices' = Append(advices, a)
<1>1. ASSUME NEW i \in DOMAIN runs, Run(i)
      PROVE  advices' = advices \/ \E a \in Advice : advices' = Append(advices, a)
  <2>1. PICK r : Becomes(i, r) /\ (Forgets(i, r) \/ Saves(i, r) \/ Publishes(i, r))
    BY <1>1, RunSteps DEF OrchestratorInv
  <2>. QED
    BY <2>1 DEF Forgets, Saves, Publishes
<1>2. CASE Receive \/ Dispatch \/ Gathered \/ Hear \/ Collect \/ FlushBatch \/ PublishSelected \/ Take
           \/ Handle \/ Crash
  BY <1>2 DEF Receive, Dispatch, Gathered, Hear, Collect, FlushBatch, PublishSelected, Take, Handle, Crash
<1>. QED
  BY <1>1, <1>2 DEF DNext

LEMMA HeardStay ==
  ASSUME OrchestratorInv, OptimizerTyped, DNext, heard' = heard
  PROVE  /\ heard' \in 0..Len(advices')
         /\ \A opp : HeardOf(opp)' = HeardOf(opp)
<1>1. /\ heard \in 0..Len(advices) /\ advices \in Seq(Advice) /\ Len(advices) \in Nat
      /\ DOMAIN advices = 1..Len(advices)
  BY LenProperties DEF OptimizerTyped, OrchestratorInv, OrchestratorTyped
<1>2. CASE advices' = advices
  BY <1>1, <1>2 DEF HeardOf, Until, Of
<1>3. ASSUME NEW a \in Advice, advices' = Append(advices, a)
      PROVE  heard' \in 0..Len(advices') /\ \A opp : HeardOf(opp)' = HeardOf(opp)
  <2>1. /\ Len(advices') = Len(advices) + 1 /\ DOMAIN advices' = 1..(Len(advices) + 1)
        /\ \A i \in 1..Len(advices) : advices'[i] = advices[i]
    BY <1>1, <1>3, AppendProperties, LenProperties
  <2>. QED
    BY <1>1, <2>1 DEF HeardOf, Until, Of
<1>. QED
  BY <1>2, <1>3, AdvicesGrow

LEMMA Counts ==
  ASSUME OrchestratorInv, OptimizerTyped, NEW x
  PROVE  /\ Count(chosen, x) \in Nat /\ Count(approved, x) \in Nat /\ Count(batch, x) \in Nat
         /\ Count(ears, x) \in Nat /\ Cardinality(HeardOf(x)) \in Nat
<1>1. ASSUME NEW S, NEW s \in Seq(S) PROVE IsFiniteSet(Of(s, x)) /\ Count(s, x) \in Nat
  <2>1. DOMAIN s = 1..Len(s) /\ Len(s) \in Nat
    BY LenProperties
  <2>2. Of(s, x) \in SUBSET (1..Len(s)) /\ IsFiniteSet(1..Len(s))
    BY <2>1, FS_Interval DEF Of
  <2>. QED
    BY <2>2, FS_Subset, FS_CardinalityType DEF Count
<1>2. HeardOf(x) \in SUBSET Of(advices, x) /\ IsFiniteSet(Of(advices, x))
  BY <1>1 DEF HeardOf, Until, OrchestratorInv, OrchestratorTyped
<1>3. Cardinality(HeardOf(x)) \in Nat
  BY <1>2, FS_Subset, FS_CardinalityType
<1>4. /\ chosen \in Seq(Choice) /\ approved \in Seq(Proposals) /\ batch \in Seq(Proposals)
      /\ ears \in Seq(Advice)
  BY DEF OptimizerTyped
<1>5. Count(chosen, x) \in Nat
  BY <1>1, <1>4
<1>6. Count(approved, x) \in Nat /\ Count(batch, x) \in Nat
  BY <1>1, <1>4
<1>7. Count(ears, x) \in Nat
  BY <1>1, <1>4
<1>. QED
  BY <1>3, <1>5, <1>6, <1>7

\* What the batches have chosen is rationed as long as they are what they were.
LEMMA RationedStays == ASSUME Rationed, UNCHANGED <<chosen, approved, batches>> PROVE Rationed'
<1>1. \A b : Mine(b)' = Mine(b)
  BY DEF Mine
<1>2. \A S : Spent(S)' = Spent(S)
  BY DEF Spent
<1>3. PICK n : n = batches
  OBVIOUS
<1>4. Mine(batches)' = Mine(n) /\ Mine(batches) = Mine(n)
  BY <1>3 DEF Mine
<1>5. PICK a : a = approved
  OBVIOUS
<1>6. approved' = a /\ batches' = n /\ Allocated(approved)' = Allocated(a)
  BY <1>3, <1>5
<1>7. Spent(Mine(batches))' = Spent(Mine(n))
  BY <1>4 DEF Spent
<1>8. \A b \in 1..n : Spent(Mine(b))' = Spent(Mine(b))
  BY <1>1 DEF Spent
<1>. QED
  BY <1>1, <1>3, <1>4, <1>5, <1>6, <1>7, <1>8 DEF Rationed

LEMMA OptimizerStays ==
  ASSUME OrchestratorInv, OptimizerInv, DNext, UNCHANGED <<optimizing, chosen>>
  PROVE  OptimizerInv'
<1>1. heard' \in 0..Len(advices') /\ \A opp : HeardOf(opp)' = HeardOf(opp)
  BY HeardStay DEF OptimizerInv, optimizing
<1>2. OptimizerTyped'
  BY <1>1 DEF OptimizerInv, optimizing, OptimizerTyped
<1>3. Relayed'
  BY <1>1 DEF OptimizerInv, optimizing, Relayed, Count, Of
<1>4. InTurn'
  BY DEF OptimizerInv, optimizing, InTurn
<1>5. Rationed'
  BY RationedStays DEF OptimizerInv, optimizing
<1>. QED
  BY <1>2, <1>3, <1>4, <1>5 DEF OptimizerInv

LEMMA HearSteps ==
  ASSUME OrchestratorInv, OptimizerInv, Hear, DNext
  PROVE  OptimizerInv'
<1>. USE DEF OptimizerInv
<1>1. /\ turn = "read" /\ ears = <<>> /\ approved = <<>>
      /\ UNCHANGED <<advices, batch, approved, batches, chosen>>
  BY DEF Hear
<1>2. Rationed'
  <2>1. UNCHANGED <<approved, batches, chosen>> /\ Rationed
    BY <1>1
  <2>. QED
    BY ONLY <2>1 DEF Rationed, Mine, Spent, Allocated
<1>3. advices \in Seq(Advice) /\ Len(advices) \in Nat /\ heard \in 0..Len(advices)
  BY LenProperties DEF OrchestratorInv, OrchestratorTyped, OptimizerTyped
<1>4. CASE heard < Len(advices) /\ heard' = Smaller(Len(advices), heard + 500)
           /\ ears' = SubSeq(advices, heard + 1, heard') /\ UNCHANGED turn
  <2>1. heard' \in heard..Len(advices)
    BY <1>3, <1>4 DEF Smaller
  <2>2. ears' \in Seq(Advice)
    BY <1>3, <1>4, <2>1, PieceType
  <2>3. OptimizerTyped' /\ InTurn'
    BY <1>1, <1>3, <1>4, <2>1, <2>2 DEF OptimizerTyped, InTurn
  <2>4. ASSUME NEW opp \in DOMAIN Offered
        PROVE  (Count(chosen, opp) + Count(approved, opp) + Count(batch, opp) + Count(ears, opp)
                  <= Cardinality(HeardOf(opp)))'
    <3>1. /\ Count(chosen, opp) + Count(approved, opp) + Count(batch, opp) + Count(ears, opp)
               <= Cardinality(HeardOf(opp))
          /\ Count(chosen, opp) \in Nat /\ Count(approved, opp) \in Nat /\ Count(batch, opp) \in Nat
          /\ Cardinality(HeardOf(opp)) \in Nat /\ Count(ears, opp) = 0
      BY <1>1, Counts, CountEmpty DEF Relayed
    <3>. PICK n : n = heard'
      OBVIOUS
    <3>2. /\ Count(SubSeq(advices, heard + 1, n), opp) \in Nat
          /\ Cardinality(Until(advices, opp, n)) =
               Cardinality(Until(advices, opp, heard)) + Count(SubSeq(advices, heard + 1, n), opp)
      BY <1>3, <2>1, PieceCount
    <3>3. /\ Count(ears, opp)' = Count(SubSeq(advices, heard + 1, n), opp)
          /\ HeardOf(opp)' = Until(advices, opp, n)
          /\ HeardOf(opp) = Until(advices, opp, heard)
      BY <1>1, <1>4 DEF HeardOf, Until, Of, Count
    <3>4. /\ Count(chosen, opp)' = Count(chosen, opp) /\ Count(approved, opp)' = Count(approved, opp)
          /\ Count(batch, opp)' = Count(batch, opp)
      BY <1>1 DEF Count, Of
    <3>. QED
      BY <3>1, <3>2, <3>3, <3>4
  <2>. QED
    BY <1>2, <2>3, <2>4 DEF Relayed
<1>5. CASE turn' = "flush" /\ UNCHANGED <<heard, ears>>
  <2>1. OptimizerTyped' /\ InTurn'
    BY <1>1, <1>3, <1>5 DEF OptimizerTyped, InTurn
  <2>2. Relayed'
    BY <1>1, <1>5 DEF Relayed, Count, Of, HeardOf, Until
  <2>. QED
    BY <1>2, <2>1, <2>2
<1>. QED
  BY <1>4, <1>5 DEF Hear

LEMMA CollectSteps ==
  ASSUME OrchestratorInv, OptimizerInv, Collect, DNext
  PROVE  OptimizerInv'
<1>. USE DEF OptimizerInv
<1>. PICK a : a = Head(ears)
  OBVIOUS
<1>1. /\ ears # <<>> /\ approved = <<>> /\ UNCHANGED <<advices, heard, approved, batches, chosen>>
      /\ ears \in Seq(Advice) /\ batch \in Seq(Proposals) /\ a \in Advice
      /\ Tail(ears) \in Seq(Advice) /\ <<>> \in Seq(Advice)
  <2>1. ears # <<>> /\ UNCHANGED <<advices, heard, approved, batches, chosen>>
    BY DEF Collect
  <2>2. ears \in Seq(Advice) /\ batch \in Seq(Proposals) /\ approved = <<>>
    BY <2>1 DEF OptimizerTyped, InTurn
  <2>. QED
    BY <2>1, <2>2, HeadTailProperties, EmptySeq
<1>2. Candidate(a) \in Proposals /\ Candidate(a).opp = a.opp
  BY <1>1 DEF Candidate, Proposals, Advice
<1>3. batch' = IF a.price > 0 THEN Append(batch, Candidate(a)) ELSE batch
  BY DEF Collect
<1>4. /\ ears' = Tail(ears) \/ ears' = <<>>
      /\ turn' \in {"flush", "read"} /\ (turn' = "flush" => ears' = <<>>)
  BY DEF Collect
<1>5. batch' \in Seq(Proposals) /\ ears' \in Seq(Advice)
  BY <1>1, <1>2, <1>3, <1>4, AppendProperties
<1>6. OptimizerTyped' /\ InTurn'
  BY <1>1, <1>4, <1>5 DEF OptimizerTyped, InTurn
<1>7. Rationed'
  BY <1>1, RationedStays
<1>8. ASSUME NEW opp \in DOMAIN Offered
      PROVE  (Count(chosen, opp) + Count(approved, opp) + Count(batch, opp) + Count(ears, opp)
                <= Cardinality(HeardOf(opp)))'
  <2>1. /\ Count(chosen, opp) + Count(approved, opp) + Count(batch, opp) + Count(ears, opp)
             <= Cardinality(HeardOf(opp))
        /\ Count(chosen, opp) \in Nat /\ Count(approved, opp) \in Nat /\ Count(batch, opp) \in Nat
        /\ Cardinality(HeardOf(opp)) \in Nat /\ Count(ears, opp) \in Nat
    BY Counts DEF Relayed
  <2>2. /\ Count(chosen, opp)' = Count(chosen, opp) /\ Count(approved, opp)' = Count(approved, opp)
        /\ HeardOf(opp)' = HeardOf(opp)
    BY <1>1 DEF Count, Of, HeardOf, Until
  <2>3. Count(Append(batch, Candidate(a)), opp) = IF a.opp = opp THEN Count(batch, opp) + 1 ELSE Count(batch, opp)
    BY <1>1, <1>2, OfAppend
  <2>4. Count(batch, opp)' \in Nat /\ Count(batch, opp)' <= IF a.opp = opp THEN Count(batch, opp) + 1 ELSE Count(batch, opp)
    <3>1. Count(batch, opp)' = Count(batch', opp)
      BY DEF Count, Of
    <3>. QED
      BY <1>3, <2>1, <2>3, <3>1
  <2>5. /\ Count(Tail(ears), opp) \in Nat
        /\ Count(ears, opp) = IF a.opp = opp THEN Count(Tail(ears), opp) + 1 ELSE Count(Tail(ears), opp)
    BY <1>1, CountTail
  <2>6. Count(ears, opp)' \in Nat /\ Count(ears, opp)' <= Count(Tail(ears), opp)
    <3>1. Count(ears, opp)' = Count(ears', opp)
      BY DEF Count, Of
    <3>2. CASE ears' = Tail(ears)
      BY <2>5, <3>1, <3>2
    <3>3. CASE ears' = <<>>
      BY <2>5, <3>1, <3>3, CountEmpty
    <3>. QED
      BY <1>4, <3>2, <3>3
  <2>. QED
    BY <2>1, <2>2, <2>4, <2>5, <2>6
<1>. QED
  BY <1>6, <1>7, <1>8 DEF Relayed

LEMMA FlushSteps ==
  ASSUME OrchestratorInv, OptimizerInv, FlushBatch, DNext
  PROVE  OptimizerInv'
<1>. USE DEF OptimizerInv
<1>1. /\ turn = "flush" /\ ears = <<>> /\ approved = <<>> /\ approved' = optimize(batch)
      /\ batch' = <<>> /\ batches' = batches + 1 /\ turn' = "read"
      /\ UNCHANGED <<advices, heard, ears, chosen>>
      /\ batch \in Seq(Proposals) /\ batches \in Nat /\ chosen \in Seq(Choice)
  BY DEF FlushBatch, InTurn, OptimizerTyped
<1>2. Balanced(Proposals, batch, approved')
  BY <1>1, CandidatesRank, OptimizedIsBalanced
<1>3. OptimizerTyped' /\ InTurn'
  <2>1. approved' \in Seq(Proposals) /\ <<>> \in Seq(Proposals)
    BY <1>2, EmptySeq DEF Balanced
  <2>. QED
    BY <1>1, <2>1 DEF OptimizerTyped, InTurn
<1>4. ASSUME NEW opp \in DOMAIN Offered
      PROVE  (Count(chosen, opp) + Count(approved, opp) + Count(batch, opp) + Count(ears, opp)
                <= Cardinality(HeardOf(opp)))'
  <2>1. /\ Count(chosen, opp) + Count(approved, opp) + Count(batch, opp) + Count(ears, opp)
             <= Cardinality(HeardOf(opp))
        /\ Count(chosen, opp) \in Nat /\ Count(approved, opp) \in Nat /\ Count(batch, opp) \in Nat
        /\ Cardinality(HeardOf(opp)) \in Nat /\ Count(ears, opp) \in Nat
    BY Counts DEF Relayed
  <2>2. /\ Count(chosen, opp)' = Count(chosen, opp) /\ Count(ears, opp)' = Count(ears, opp)
        /\ HeardOf(opp)' = HeardOf(opp)
    BY <1>1 DEF Count, Of, HeardOf, Until
  <2>3. Count(approved', opp) \in Nat /\ Count(approved', opp) <= Count(batch, opp)
    BY <1>1, <1>2, ApprovedOnce
  <2>4. Count(approved, opp)' = Count(approved', opp) /\ Count(batch, opp)' = Count(<<>>, opp)
    BY <1>1 DEF Count, Of
  <2>. QED
    BY <2>1, <2>2, <2>3, <2>4, CountEmpty
<1>5. \A b : Mine(b)' = Mine(b) /\ Spent(Mine(b))' = Spent(Mine(b))
  BY <1>1 DEF Mine, Spent
<1>6. Mine(batches + 1) = {} /\ Spent(Mine(batches + 1)) = 0 /\ Cardinality(Mine(batches + 1)) = 0
  <2>1. Mine(batches + 1) = {}
    BY <1>1 DEF Mine, Rationed
  <2>. QED
    BY <2>1, SumEmpty, FS_EmptySet DEF Spent
<1>7. Rationed'
  <2>. PICK n \in Nat : n = batches + 1
    BY <1>1
  <2>. PICK p : p = approved'
    OBVIOUS
  <2>1. /\ Allocated(p) \in 0..TotalCapital /\ Len(p) <= MaxPositions /\ Len(p) \in Nat
        /\ \A i, j \in DOMAIN p : p[i].opp = p[j].opp => i = j
    BY <1>2, LenProperties DEF Balanced
  <2>2. Allocated(approved)' = Allocated(p) /\ Len(approved') = Len(p)
    BY DEF Allocated
  <2>3. \A i \in DOMAIN chosen : chosen[i].of \in 1..n
    BY <1>1 DEF Rationed
  <2>4. ASSUME NEW b \in 1..n
        PROVE  /\ Spent(Mine(b)) <= TotalCapital /\ Cardinality(Mine(b)) <= MaxPositions
               /\ \A i, j \in Mine(b) : chosen[i].opp = chosen[j].opp => i = j
    <3>1. CASE b = n
      BY <1>6, <3>1, SelectionAssumption
    <3>2. CASE b # n
      <4>1. b \in 1..batches
        BY <1>1, <3>2
      <4>. QED
        BY <4>1 DEF Rationed
    <3>. QED
      BY <3>1, <3>2
  <2>5. /\ Spent(Mine(n)) + Allocated(p) <= TotalCapital /\ Cardinality(Mine(n)) + Len(p) <= MaxPositions
        /\ \A i \in Mine(n) : \A j \in DOMAIN p : chosen[i].opp # p[j].opp
    BY <1>6, <2>1, SelectionAssumption
  <2>6. n \in 1..n
    BY <1>1
  <2>. QED
    BY <1>1, <1>5, <2>1, <2>2, <2>3, <2>4, <2>5, <2>6 DEF Rationed
<1>. QED
  BY <1>3, <1>4, <1>7 DEF Relayed

LEMMA PublishSteps ==
  ASSUME OrchestratorInv, OptimizerInv, PublishSelected, DNext
  PROVE  OptimizerInv'
<1>. USE DEF OptimizerInv
<1>. PICK c, p, e : c = Head(approved) /\ p = Tail(approved)
        /\ e = [opp |-> c.opp, product |-> c.product, price |-> c.capital, score |-> c.score,
                strength |-> c.strength, of |-> batches]
  OBVIOUS
<1>1. /\ approved # <<>> /\ approved' = p /\ (chosen' = Append(chosen, e) \/ chosen' = chosen)
      /\ UNCHANGED <<advices, heard, ears, batch, turn, batches>>
      /\ approved \in Seq(Proposals) /\ chosen \in Seq(Choice) /\ batches \in Nat
  <2>1. approved \in Seq(Proposals) /\ chosen \in Seq(Choice) /\ batches \in Nat
    BY DEF OptimizerTyped
  <2>. QED
    BY <2>1 DEF PublishSelected
<1>2. /\ c \in Proposals /\ p \in Seq(Proposals) /\ Len(approved) \in Nat \ {0} /\ Len(p) = Len(approved) - 1
      /\ DOMAIN p = 1..Len(p) /\ DOMAIN approved = 1..Len(approved) /\ c = approved[1]
      /\ \A i \in 1..Len(p) : p[i] = approved[i + 1]
  BY <1>1, HeadTailProperties, LenProperties, EmptySeq
<1>3. e \in Choice /\ e.of = batches /\ e.opp = c.opp /\ e.price = c.capital
  BY <1>1, <1>2 DEF Choice, Proposals
<1>4. OptimizerTyped' /\ InTurn'
  <2>1. chosen' \in Seq(Choice) /\ p \in Seq(Proposals)
    <3>1. Append(chosen, e) \in Seq(Choice)
      BY <1>1, <1>3, AppendProperties
    <3>. QED
      BY <1>1, <1>2, <3>1
  <2>. QED
    BY <1>1, <2>1 DEF OptimizerTyped, InTurn
<1>5. ASSUME NEW opp \in DOMAIN Offered
      PROVE  (Count(chosen, opp) + Count(approved, opp) + Count(batch, opp) + Count(ears, opp)
                <= Cardinality(HeardOf(opp)))'
  <2>1. /\ Count(chosen, opp) + Count(approved, opp) + Count(batch, opp) + Count(ears, opp)
             <= Cardinality(HeardOf(opp))
        /\ Count(chosen, opp) \in Nat /\ Count(approved, opp) \in Nat /\ Count(batch, opp) \in Nat
        /\ Cardinality(HeardOf(opp)) \in Nat /\ Count(ears, opp) \in Nat
    BY Counts DEF Relayed
  <2>2. /\ Count(batch, opp)' = Count(batch, opp) /\ Count(ears, opp)' = Count(ears, opp)
        /\ HeardOf(opp)' = HeardOf(opp)
    BY <1>1 DEF Count, Of, HeardOf, Until
  <2>3. /\ Count(approved, opp)' \in Nat
        /\ Count(approved, opp) = IF c.opp = opp THEN Count(approved, opp)' + 1 ELSE Count(approved, opp)'
    <3>1. /\ Count(Tail(approved), opp) \in Nat
          /\ Count(approved, opp) = IF c.opp = opp THEN Count(Tail(approved), opp) + 1 ELSE Count(Tail(approved), opp)
      BY <1>1, CountTail
    <3>2. Count(approved, opp)' = Count(Tail(approved), opp)
      BY <1>1 DEF Count, Of
    <3>. QED
      BY <3>1, <3>2
  <2>4. Count(chosen, opp)' \in Nat /\ Count(chosen, opp)' <= IF c.opp = opp THEN Count(chosen, opp) + 1 ELSE Count(chosen, opp)
    <3>1. Count(Append(chosen, e), opp) = IF c.opp = opp THEN Count(chosen, opp) + 1 ELSE Count(chosen, opp)
      BY <1>1, <1>3, OfAppend
    <3>2. Count(chosen, opp)' = Count(chosen', opp)
      BY DEF Count, Of
    <3>3. CASE chosen' = chosen
      BY <2>1, <3>2, <3>3
    <3>4. CASE chosen' = Append(chosen, e)
      BY <2>1, <3>1, <3>2, <3>4
    <3>. QED
      BY <1>1, <3>3, <3>4
  <2>. QED
    BY <2>1, <2>2, <2>3, <2>4
<1>6. Rationed'
  <2>0. /\ Allocated(p) \in Nat /\ c.capital \in Nat /\ Allocated(approved) = c.capital + Allocated(p)
        /\ Allocated(approved)' = Allocated(p)
    <3>1. \A d \in Proposals : d.capital \in Nat
      BY CandidatesRank
    <3>2. Allocated(approved)' = Allocated(p)
      BY <1>1 DEF Allocated
    <3>. QED
      BY <1>1, <3>1, <3>2, AllocatedTail
  <2>1. batches \in 1..batches
    BY <1>1 DEF Rationed
  <2>2. /\ Spent(Mine(batches)) + Allocated(approved) <= TotalCapital
        /\ Cardinality(Mine(batches)) + Len(approved) <= MaxPositions
        /\ \A i \in Mine(batches) : \A j \in DOMAIN approved : chosen[i].opp # approved[j].opp
        /\ \A i, j \in DOMAIN approved : approved[i].opp = approved[j].opp => i = j
    BY <2>1 DEF Rationed
  <2>3. /\ \A b \in 1..batches : Cardinality(Mine(b)) \in Nat /\ Spent(Mine(b)) \in Nat
    BY MineFinite
  <2>4. /\ \A i, j \in DOMAIN p : p[i].opp = p[j].opp => i = j
        /\ \A j \in DOMAIN p : p[j].opp # c.opp
    <3>1. \A i \in DOMAIN p : i + 1 \in DOMAIN approved /\ i + 1 # 1 /\ 1 \in DOMAIN approved /\ i \in Nat
      BY <1>2
    <3>. QED
      BY <1>2, <2>2, <3>1
  <2>5. CASE chosen' = chosen
    <3>1. \A b : Mine(b)' = Mine(b) /\ Spent(Mine(b))' = Spent(Mine(b))
      BY <2>5 DEF Mine, Spent
    <3>2. \A i \in Mine(batches) : \A j \in DOMAIN p : chosen[i].opp # p[j].opp
      <4>1. \A i \in DOMAIN p : i + 1 \in DOMAIN approved
        BY <1>2
      <4>. QED
        BY <1>2, <2>2, <4>1
    <3>3. /\ Spent(Mine(batches)) + Allocated(p) <= TotalCapital
          /\ Cardinality(Mine(batches)) + Len(p) <= MaxPositions
      BY <1>2, <2>0, <2>1, <2>2, <2>3, SelectionAssumption
    <3>4. /\ \A i \in DOMAIN chosen : chosen[i].of \in 1..batches
          /\ \A b \in 1..batches :
                /\ Spent(Mine(b)) <= TotalCapital /\ Cardinality(Mine(b)) <= MaxPositions
                /\ \A i, j \in Mine(b) : chosen[i].opp = chosen[j].opp => i = j
      BY DEF Rationed
    <3>. QED
      BY <1>1, <2>0, <2>1, <2>4, <2>5, <3>1, <3>2, <3>3, <3>4 DEF Rationed
  <2>6. CASE chosen' = Append(chosen, e)
    <3>. PICK k, n : k = Len(chosen) + 1 /\ n = batches
      OBVIOUS
    <3>1. \A b : /\ Mine(b)' = IF e.of = b THEN Mine(b) \cup {k} ELSE Mine(b)
                 /\ Cardinality(Mine(b)') = IF e.of = b THEN Cardinality(Mine(b)) + 1 ELSE Cardinality(Mine(b))
                 /\ Spent(Mine(b))' = IF e.of = b THEN Spent(Mine(b)) + e.price ELSE Spent(Mine(b))
      BY <1>3, <2>6, MineGrows
    <3>2. /\ \A b : k \notin Mine(b)
          /\ chosen'[k] = e
          /\ \A i \in DOMAIN chosen : chosen'[i] = chosen[i]
          /\ DOMAIN chosen' = DOMAIN chosen \cup {k}
      BY <1>3, <2>6, MineGrows
    <3>3. \A b : \A i \in Mine(b) : i \in DOMAIN chosen
      BY DEF Mine
    <3>4. \A i \in DOMAIN chosen' : chosen'[i].of \in 1..n
      BY <1>3, <2>1, <3>2 DEF Rationed
    <3>9. /\ Mine(n)' = Mine(n) \cup {k} /\ Cardinality(Mine(n)') = Cardinality(Mine(n)) + 1
          /\ Spent(Mine(n))' = Spent(Mine(n)) + c.capital
          /\ Cardinality(Mine(n)) \in Nat /\ Spent(Mine(n)) \in Nat
          /\ Spent(Mine(n)) + Allocated(approved) <= TotalCapital
          /\ Cardinality(Mine(n)) + Len(approved) <= MaxPositions
      BY <1>3, <2>1, <2>2, <2>3, <3>1
    <3>5. /\ Spent(Mine(n))' + Allocated(p) <= TotalCapital
          /\ Cardinality(Mine(n)') + Len(p) <= MaxPositions
          /\ Spent(Mine(n))' <= TotalCapital /\ Cardinality(Mine(n)') <= MaxPositions
      BY <1>2, <2>0, <3>9, SelectionAssumption
    <3>6. \A i \in Mine(n)' : \A j \in DOMAIN p : chosen'[i].opp # p[j].opp
      <4>1. \A i \in DOMAIN p : i + 1 \in DOMAIN approved
        BY <1>2
      <4>. QED
        BY <1>2, <1>3, <2>2, <2>4, <3>2, <3>3, <3>9, <4>1
    <3>7. \A i, j \in Mine(n)' : chosen'[i].opp = chosen'[j].opp => i = j
      <4>1. \A i \in Mine(n) : chosen[i].opp # c.opp
        <5>1. 1 \in DOMAIN approved
          BY <1>2
        <5>. QED
          BY <1>2, <2>2, <5>1
      <4>2. \A i, j \in Mine(n) : chosen[i].opp = chosen[j].opp => i = j
        BY <2>1 DEF Rationed
      <4>. QED
        BY <1>3, <3>2, <3>3, <3>9, <4>1, <4>2
    <3>8. ASSUME NEW b \in 1..n
          PROVE  /\ Spent(Mine(b))' <= TotalCapital /\ Cardinality(Mine(b)') <= MaxPositions
                 /\ \A i, j \in Mine(b)' : chosen'[i].opp = chosen'[j].opp => i = j
      <4>1. CASE b = n
        BY <3>5, <3>7, <4>1
      <4>2. CASE b # n
        <5>1. Mine(b)' = Mine(b) /\ Spent(Mine(b))' = Spent(Mine(b))
          BY <1>3, <3>1, <4>2
        <5>2. /\ Spent(Mine(b)) <= TotalCapital /\ Cardinality(Mine(b)) <= MaxPositions
              /\ \A i, j \in Mine(b) : chosen[i].opp = chosen[j].opp => i = j
          BY DEF Rationed
        <5>. QED
          BY <3>2, <3>3, <5>1, <5>2
      <4>. QED
        BY <4>1, <4>2
    <3>. QED
      BY <1>1, <2>0, <2>1, <2>4, <3>4, <3>5, <3>6, <3>8 DEF Rationed
  <2>. QED
    BY <1>1, <2>5, <2>6
<1>. QED
  BY <1>4, <1>5, <1>6 DEF Relayed

LEMMA OptimizerCrashes ==
  ASSUME OrchestratorInv, OptimizerInv, DNext, ears' = <<>>, batch' = <<>>, approved' = <<>>,
         turn' = "read", UNCHANGED <<advices, heard, batches, chosen>>
  PROVE  OptimizerInv'
<1>. USE DEF OptimizerInv
<1>1. OptimizerTyped' /\ InTurn'
  <2>1. <<>> \in Seq(Advice) /\ <<>> \in Seq(Proposals)
    BY EmptySeq
  <2>. QED
    BY <2>1 DEF OptimizerTyped, InTurn
<1>2. ASSUME NEW opp \in DOMAIN Offered
      PROVE  (Count(chosen, opp) + Count(approved, opp) + Count(batch, opp) + Count(ears, opp)
                <= Cardinality(HeardOf(opp)))'
  <2>1. /\ Count(chosen, opp) + Count(approved, opp) + Count(batch, opp) + Count(ears, opp)
             <= Cardinality(HeardOf(opp))
        /\ Count(chosen, opp) \in Nat /\ Count(approved, opp) \in Nat /\ Count(batch, opp) \in Nat
        /\ Cardinality(HeardOf(opp)) \in Nat /\ Count(ears, opp) \in Nat
    BY Counts DEF Relayed
  <2>2. /\ Count(chosen, opp)' = Count(chosen, opp) /\ HeardOf(opp)' = HeardOf(opp)
        /\ Count(approved, opp)' = Count(<<>>, opp) /\ Count(batch, opp)' = Count(<<>>, opp)
        /\ Count(ears, opp)' = Count(<<>>, opp)
    BY DEF Count, Of, HeardOf, Until
  <2>. QED
    BY <2>1, <2>2, CountEmpty
<1>3. Rationed'
  <2>1. \A b : Mine(b)' = Mine(b) /\ Spent(Mine(b))' = Spent(Mine(b))
    BY DEF Mine, Spent
  <2>2. Allocated(approved)' = 0 /\ Len(approved') = 0 /\ DOMAIN approved' = {}
    <3>1. Allocated(approved)' = Allocated(<<>>)
      BY DEF Allocated
    <3>. QED
      BY <3>1, AllocatedEmpty
  <2>3. \A b \in 1..batches : Cardinality(Mine(b)) \in Nat /\ Spent(Mine(b)) \in Nat
    BY MineFinite
  <2>4. /\ \A i \in DOMAIN chosen : chosen[i].of \in 1..batches
        /\ \A b \in 1..batches :
              /\ Spent(Mine(b)) <= TotalCapital /\ Cardinality(Mine(b)) <= MaxPositions
              /\ \A i, j \in Mine(b) : chosen[i].opp = chosen[j].opp => i = j
    BY DEF Rationed
  <2>5. batches \in 1..batches =>
          Spent(Mine(batches)) + 0 <= TotalCapital /\ Cardinality(Mine(batches)) + 0 <= MaxPositions
    BY <2>3, <2>4
  <2>. QED
    BY <2>1, <2>2, <2>4, <2>5 DEF Rationed
<1>. QED
  BY <1>1, <1>2, <1>3 DEF Relayed

LEMMA OptimizerStep ==
  ASSUME OrchestratorInv, OptimizerInv, DNext
  PROVE  OptimizerInv'
<1>1. ASSUME NEW i \in DOMAIN runs, Run(i) PROVE OptimizerInv'
  <2>1. UNCHANGED <<optimizing, chosen>>
    BY <1>1 DEF Run, Enrich, Attempt, Conclude, SavePipeline, Recommend
  <2>. QED
    BY <2>1, OptimizerStays
<1>2. CASE Receive \/ Dispatch \/ Gathered \/ Take \/ Handle
  <2>1. UNCHANGED <<optimizing, chosen>>
    BY <1>2 DEF Receive, Dispatch, Gathered, Take, Handle
  <2>. QED
    BY <2>1, OptimizerStays
<1>3. CASE Crash
  <2>1. CASE UNCHANGED <<ears, batch, turn, approved>>
    <3>1. UNCHANGED <<optimizing, chosen>>
      BY <1>3, <2>1 DEF Crash, optimizing
    <3>. QED
      BY <3>1, OptimizerStays
  <2>2. CASE ears' = <<>> /\ batch' = <<>> /\ approved' = <<>> /\ turn' = "read"
    <3>1. UNCHANGED <<advices, heard, batches, chosen>>
      BY <1>3 DEF Crash
    <3>. QED
      BY <2>2, <3>1, OptimizerCrashes
  <2>. QED
    BY <1>3, <2>1, <2>2 DEF Crash
<1>. QED
  BY <1>1, <1>2, <1>3, HearSteps, CollectSteps, FlushSteps, PublishSteps DEF DNext

\* No choice is taken for an order twice; a recommendation is never taken.
Ticketed ==
    /\ direct => tickets = <<>>
    /\ ~direct => \A opp \in DOMAIN Offered :
          Count(tickets, opp) + Count(todo, opp) <= Cardinality(Until(chosen, opp, taken))

BridgeInv == BridgeTyped /\ Ticketed

LEMMA EventsType ==
  ASSUME OrchestratorTyped, OptimizerTyped
  PROVE  /\ Events \in Seq(Heeded) /\ Len(Events) \in Nat
         /\ direct => Len(Events) = Len(advices) /\ DOMAIN Events = 1..Len(advices)
         /\ ~direct => Events = chosen
<1>1. CASE direct
  <2>1. /\ advices \in Seq(Advice) /\ Len(advices) \in Nat /\ DOMAIN advices = 1..Len(advices)
        /\ \A i \in 1..Len(advices) : advices[i] \in Advice
    BY LenProperties, ElementOfSeq DEF OrchestratorTyped
  <2>2. Events = [i \in 1..Len(advices) |->
                    [opp |-> advices[i].opp, price |-> advices[i].price, score |-> advices[i].score,
                     strength |-> "weak"]]
    BY <1>1, <2>1 DEF Events
  <2>3. Events \in [1..Len(advices) -> Recommendations]
    BY <2>1, <2>2 DEF Advice, Recommendations
  <2>4. Events \in Seq(Recommendations) /\ Len(Events) = Len(advices)
    BY <2>1, <2>3
  <2>. QED
    BY <1>1, <2>1, <2>3, <2>4 DEF Heeded
<1>2. CASE ~direct
  BY <1>2, LenProperties DEF Events, Heeded, OptimizerTyped
<1>. QED
  BY <1>1, <1>2

\* Choices are only added.
LEMMA ChosenGrow ==
  ASSUME OptimizerTyped, DNext
  PROVE  chosen' = chosen \/ \E e : chosen' = Append(chosen, e)
<1>1. ASSUME NEW i \in DOMAIN runs, Run(i) PROVE chosen' = chosen
  BY <1>1 DEF Run, Enrich, Attempt, Conclude, SavePipeline, Recommend
<1>2. CASE Receive \/ Dispatch \/ Gathered \/ Hear \/ Collect \/ FlushBatch \/ Take \/ Handle \/ Crash
  BY <1>2 DEF Receive, Dispatch, Gathered, Hear, Collect, FlushBatch, Take, Handle, Crash
<1>3. CASE PublishSelected
  BY <1>3 DEF PublishSelected
<1>. QED
  BY <1>1, <1>2, <1>3 DEF DNext

LEMMA DirectStays == ASSUME DNext PROVE direct' = direct
<1>1. ASSUME NEW i \in DOMAIN runs, Run(i) PROVE direct' = direct
  BY <1>1 DEF Run, Enrich, Attempt, Conclude, SavePipeline, Recommend
<1>2. CASE Receive \/ Dispatch \/ Gathered \/ Hear \/ Collect \/ FlushBatch \/ PublishSelected \/ Take
           \/ Handle \/ Crash
  BY <1>2 DEF Receive, Dispatch, Gathered, Hear, Collect, FlushBatch, PublishSelected, Take, Handle, Crash
<1>. QED
  BY <1>1, <1>2 DEF DNext

LEMMA EventsGrow ==
  ASSUME OrchestratorInv, OptimizerInv, OrchestratorInv', OptimizerInv', DNext
  PROVE  /\ Len(Events) <= Len(Events') /\ Heeded' = Heeded
         /\ ~direct => \A x, n : n \in 0..Len(Events) => Until(chosen', x, n) = Until(chosen, x, n)
<1>. USE DEF OrchestratorInv, OptimizerInv
<1>1. direct' = direct /\ Heeded' = Heeded
  BY DirectStays DEF Heeded
<1>2. Len(advices) \in Nat /\ Len(chosen) \in Nat /\ DOMAIN chosen = 1..Len(chosen)
      /\ advices \in Seq(Advice) /\ chosen \in Seq(Choice) /\ chosen' \in Seq(Choice)
      /\ Len(chosen') \in Nat /\ DOMAIN chosen' = 1..Len(chosen')
  BY LenProperties DEF OrchestratorTyped, OptimizerTyped
<1>3. CASE direct
  <2>1. Len(Events) = Len(advices)
    BY <1>3, EventsType
  <2>2. Len(Events') = Len(advices')
    BY <1>1, <1>3, EventsType, EventsType DEF Events
  <2>3. Len(advices) <= Len(advices')
    <3>1. ASSUME NEW a \in Advice PROVE Len(Append(advices, a)) = Len(advices) + 1
      BY <1>2, AppendProperties
    <3>. QED
      BY <1>2, <3>1, AdvicesGrow
  <2>. QED
    BY <1>1, <1>3, <2>1, <2>2, <2>3
<1>4. CASE ~direct
  <2>1. Events = chosen /\ Events' = chosen'
    BY <1>1, <1>4 DEF Events
  <2>2. CASE chosen' = chosen
    BY <1>1, <1>2, <2>1, <2>2 DEF Until, Of
  <2>3. ASSUME NEW e, chosen' = Append(chosen, e)
        PROVE  /\ Len(chosen) <= Len(chosen')
               /\ \A x, n : n \in 0..Len(chosen) => Until(chosen', x, n) = Until(chosen, x, n)
    <3>1. Len(chosen') = Len(chosen) + 1 /\ \A i \in 1..Len(chosen) : chosen'[i] = chosen[i]
      BY <1>2, <2>3
    <3>. QED
      BY <1>2, <3>1 DEF Until, Of
  <2>. QED
    BY <1>1, <1>4, <2>1, <2>2, <2>3, ChosenGrow
<1>. QED
  BY <1>3, <1>4

LEMMA BridgeCounts ==
  ASSUME BridgeInv, OptimizerTyped, NEW x
  PROVE  /\ Count(tickets, x) \in Nat /\ Count(todo, x) \in Nat
         /\ Cardinality(Until(chosen, x, taken)) \in Nat
<1>1. ASSUME NEW S, NEW s \in Seq(S) PROVE IsFiniteSet(Of(s, x)) /\ Count(s, x) \in Nat
  <2>1. DOMAIN s = 1..Len(s) /\ Len(s) \in Nat
    BY LenProperties
  <2>2. Of(s, x) \in SUBSET (1..Len(s)) /\ IsFiniteSet(1..Len(s))
    BY <2>1, FS_Interval DEF Of
  <2>. QED
    BY <2>2, FS_Subset, FS_CardinalityType DEF Count
<1>2. tickets \in Seq(Tickets) /\ todo \in Seq(Heeded) /\ chosen \in Seq(Choice)
  BY DEF BridgeInv, BridgeTyped, OptimizerTyped
<1>3. Count(tickets, x) \in Nat
  BY <1>1, <1>2
<1>4. Count(todo, x) \in Nat
  BY <1>1, <1>2
<1>5. IsFiniteSet(Of(chosen, x)) /\ Until(chosen, x, taken) \in SUBSET Of(chosen, x)
  BY <1>1, <1>2 DEF Until
<1>. QED
  BY <1>3, <1>4, <1>5, FS_Subset, FS_CardinalityType

LEMMA BridgeStays ==
  ASSUME OrchestratorInv, OptimizerInv, OrchestratorInv', OptimizerInv', BridgeInv, DNext,
         UNCHANGED bridging \/ (todo' = <<>> /\ UNCHANGED <<taken, tickets>>)
  PROVE  BridgeInv'
<1>. USE DEF BridgeInv
<1>1. /\ direct' = direct /\ Heeded' = Heeded /\ Len(Events) <= Len(Events')
      /\ taken \in 0..Len(Events) /\ Len(Events) \in Nat /\ Len(Events') \in Nat
      /\ taken' = taken /\ tickets' = tickets
      /\ ~direct => \A x : Until(chosen', x, taken) = Until(chosen, x, taken)
  <2>1. Len(Events) \in Nat
    BY EventsType DEF OrchestratorInv, OptimizerInv
  <2>2. Len(Events') \in Nat
    BY EventsType DEF OrchestratorInv, OptimizerInv
  <2>3. taken \in 0..Len(Events) /\ taken' = taken /\ tickets' = tickets
    BY DEF BridgeTyped, bridging
  <2>. QED
    BY <2>1, <2>2, <2>3, DirectStays, EventsGrow
<1>2. todo' \in Seq(Heeded)
  BY EmptySeq DEF BridgeTyped, bridging
<1>3. BridgeTyped'
  BY <1>1, <1>2 DEF BridgeTyped
<1>4. ASSUME ~direct, NEW opp \in DOMAIN Offered
      PROVE  (Count(tickets, opp) + Count(todo, opp) <= Cardinality(Until(chosen, opp, taken)))'
  <2>1. /\ Count(tickets, opp) \in Nat /\ Count(todo, opp) \in Nat
        /\ Cardinality(Until(chosen, opp, taken)) \in Nat
        /\ Count(tickets, opp) + Count(todo, opp) <= Cardinality(Until(chosen, opp, taken))
    BY <1>4, BridgeCounts DEF Ticketed, OptimizerInv
  <2>2. /\ Count(tickets, opp)' = Count(tickets, opp)
        /\ Until(chosen, opp, taken)' = Until(chosen, opp, taken)
    <3>1. Until(chosen, opp, taken)' = Until(chosen', opp, taken)
      BY <1>1 DEF Until, Of
    <3>. QED
      BY <1>1, <1>4, <3>1 DEF Count, Of
  <2>3. Count(todo, opp)' = Count(todo, opp) \/ Count(todo, opp)' = 0
    <3>1. CASE todo' = todo
      BY <3>1 DEF Count, Of
    <3>2. CASE todo' = <<>>
      <4>1. Count(todo, opp)' = Count(<<>>, opp)
        BY <3>2 DEF Count, Of
      <4>. QED
        BY <4>1, CountEmpty
    <3>. QED
      BY <3>1, <3>2 DEF bridging
  <2>. QED
    BY <2>1, <2>2, <2>3
<1>5. direct => tickets' = <<>>
  BY <1>1 DEF Ticketed
<1>. QED
  BY <1>1, <1>3, <1>4, <1>5 DEF Ticketed

LEMMA TakeSteps ==
  ASSUME OrchestratorInv, OptimizerInv, OrchestratorInv', OptimizerInv', BridgeInv, DNext, Take
  PROVE  BridgeInv'
<1>. USE DEF BridgeInv
<1>0. UNCHANGED <<direct, advices, chosen, tickets>> /\ Events' = Events /\ Heeded' = Heeded
  BY DEF Take, optimizing, Events, Heeded
<1>1. /\ todo = <<>> /\ Events \in Seq(Heeded) /\ Len(Events) \in Nat
      /\ taken \in 0..Len(Events) /\ taken' \in taken..Len(Events)
      /\ todo' = SubSeq(Events, taken + 1, taken')
  <2>1. Events \in Seq(Heeded) /\ Len(Events) \in Nat /\ taken \in 0..Len(Events)
    BY EventsType DEF OrchestratorInv, OptimizerInv, BridgeTyped
  <2>. QED
    BY <2>1 DEF Take, Smaller
<1>. PICK n : n = taken'
  OBVIOUS
<1>2. SubSeq(Events, taken + 1, n) \in Seq(Heeded)
  BY <1>1, PieceType
<1>3. BridgeTyped'
  BY <1>0, <1>1, <1>2 DEF BridgeTyped
<1>4. ASSUME ~direct, NEW opp \in DOMAIN Offered
      PROVE  (Count(tickets, opp) + Count(todo, opp) <= Cardinality(Until(chosen, opp, taken)))'
  <2>1. /\ Count(tickets, opp) \in Nat /\ Count(todo, opp) = 0
        /\ Cardinality(Until(chosen, opp, taken)) \in Nat
        /\ Count(tickets, opp) + Count(todo, opp) <= Cardinality(Until(chosen, opp, taken))
    BY <1>1, <1>4, BridgeCounts, CountEmpty DEF Ticketed, OptimizerInv
  <2>2. Events = chosen /\ chosen \in Seq(Choice)
    BY <1>4 DEF Events, OptimizerInv, OptimizerTyped
  <2>3. /\ Count(SubSeq(chosen, taken + 1, n), opp) \in Nat
        /\ Cardinality(Until(chosen, opp, n)) =
             Cardinality(Until(chosen, opp, taken)) + Count(SubSeq(chosen, taken + 1, n), opp)
    BY <1>1, <2>2, PieceCount
  <2>4. /\ Count(todo, opp)' = Count(SubSeq(chosen, taken + 1, n), opp)
        /\ Count(tickets, opp)' = Count(tickets, opp)
        /\ Until(chosen, opp, taken)' = Until(chosen, opp, n)
    BY <1>0, <1>1, <2>2 DEF Until, Of, Count
  <2>. QED
    BY <2>1, <2>3, <2>4
<1>. QED
  BY <1>0, <1>3, <1>4 DEF Ticketed

LEMMA HandleSteps ==
  ASSUME OrchestratorInv, OptimizerInv, OrchestratorInv', OptimizerInv', BridgeInv, DNext, Handle
  PROVE  BridgeInv'
<1>. USE DEF BridgeInv
<1>0. /\ UNCHANGED <<direct, advices, chosen, taken>> /\ Events' = Events /\ Heeded' = Heeded
      /\ todo # <<>> /\ todo' = Tail(todo) /\ todo \in Seq(Heeded) /\ tickets \in Seq(Tickets)
  BY DEF Handle, optimizing, Events, Heeded, BridgeTyped
<1>. PICK e : e = Head(todo)
  OBVIOUS
<1>1. e \in Heeded /\ todo' \in Seq(Heeded)
  BY <1>0, HeadTailProperties
<1>2. CASE UNCHANGED tickets
  <2>1. BridgeTyped'
    BY <1>0, <1>1, <1>2 DEF BridgeTyped
  <2>2. ASSUME ~direct, NEW opp \in DOMAIN Offered
        PROVE  (Count(tickets, opp) + Count(todo, opp) <= Cardinality(Until(chosen, opp, taken)))'
    <3>1. /\ Count(tickets, opp) \in Nat /\ Count(todo, opp) \in Nat
          /\ Cardinality(Until(chosen, opp, taken)) \in Nat
          /\ Count(tickets, opp) + Count(todo, opp) <= Cardinality(Until(chosen, opp, taken))
      BY <2>2, BridgeCounts DEF Ticketed, OptimizerInv
    <3>2. /\ Count(Tail(todo), opp) \in Nat
          /\ Count(todo, opp) = IF e.opp = opp THEN Count(Tail(todo), opp) + 1 ELSE Count(Tail(todo), opp)
      BY <1>0, CountTail
    <3>3. /\ Count(todo, opp)' = Count(Tail(todo), opp) /\ Count(tickets, opp)' = Count(tickets, opp)
          /\ Until(chosen, opp, taken)' = Until(chosen, opp, taken)
      BY <1>0, <1>2 DEF Until, Of, Count
    <3>. QED
      BY <3>1, <3>2, <3>3
  <2>. QED
    BY <1>0, <1>2, <2>1, <2>2 DEF Ticketed
<1>3. CASE ~UNCHANGED tickets
  <2>1. PICK t : /\ tickets' = Append(tickets, t) /\ t.opp = e.opp /\ t.mode = ExecutionMode(e) /\ t \in Tickets
                 /\ StrengthOrder[e.strength] >= 1
    <3>1. PICK passed \in BOOLEAN :
            /\ tickets' = Append(tickets, [opp |-> e.opp, mode |-> ExecutionMode(e),
                 live |-> passed /\ /\ MinROIGuard(e.price, EstimatedProfit(e))
                                    /\ MinProfitGuard(EstimatedProfit(e))])
            /\ StrengthOrder[e.strength] >= 1
      BY <1>3, Zenon DEF Handle
    <3>. DEFINE live == passed /\ /\ MinROIGuard(e.price, EstimatedProfit(e))
                                  /\ MinProfitGuard(EstimatedProfit(e))
    <3>2. ~MinProfitGuard(EstimatedProfit(e))
      BY DEF MinProfitGuard, EstimatedProfit
    <3>3. live = FALSE
      BY <3>2, Zenon
    <3>4. tickets' = Append(tickets, [opp |-> e.opp, mode |-> ExecutionMode(e), live |-> FALSE])
      BY <3>1, <3>3, Zenon
    <3>5. e.opp \in DOMAIN Offered /\ ExecutionMode(e) \in {"assisted", "manual"}
      BY <1>1 DEF Heeded, Recommendations, Choice, ExecutionMode
    <3>6. [opp |-> e.opp, mode |-> ExecutionMode(e), live |-> FALSE] \in Tickets
      BY <3>5 DEF Tickets
    <3>. QED
      BY <3>1, <3>4, <3>6
  <2>2. ~direct
    BY <1>1, <2>1 DEF Heeded, Recommendations, StrengthOrder
  <2>3. tickets' \in Seq(Tickets)
    BY <1>0, <2>1, AppendProperties
  <2>4. BridgeTyped'
    BY <1>0, <1>1, <2>3 DEF BridgeTyped
  <2>5. ASSUME NEW opp \in DOMAIN Offered
        PROVE  (Count(tickets, opp) + Count(todo, opp) <= Cardinality(Until(chosen, opp, taken)))'
    <3>1. /\ Count(tickets, opp) \in Nat /\ Count(todo, opp) \in Nat
          /\ Cardinality(Until(chosen, opp, taken)) \in Nat
          /\ Count(tickets, opp) + Count(todo, opp) <= Cardinality(Until(chosen, opp, taken))
      BY <2>2, BridgeCounts DEF Ticketed, OptimizerInv
    <3>2. /\ Count(Tail(todo), opp) \in Nat
          /\ Count(todo, opp) = IF e.opp = opp THEN Count(Tail(todo), opp) + 1 ELSE Count(Tail(todo), opp)
      BY <1>0, CountTail
    <3>3. /\ Count(todo, opp)' = Count(Tail(todo), opp)
          /\ Until(chosen, opp, taken)' = Until(chosen, opp, taken)
      BY <1>0 DEF Until, Of, Count
    <3>4. Count(tickets, opp)' = IF e.opp = opp THEN Count(tickets, opp) + 1 ELSE Count(tickets, opp)
      <4>1. Count(Append(tickets, t), opp) = IF t.opp = opp THEN Count(tickets, opp) + 1 ELSE Count(tickets, opp)
        BY <1>0, <2>1, OfAppend
      <4>2. Count(tickets, opp)' = Count(Append(tickets, t), opp)
        BY <2>1 DEF Count, Of
      <4>. QED
        BY <2>1, <4>1, <4>2
    <3>. QED
      BY <3>1, <3>2, <3>3, <3>4
  <2>. QED
    BY <1>0, <2>2, <2>4, <2>5 DEF Ticketed
<1>. QED
  BY <1>2, <1>3

LEMMA BridgeStep ==
  ASSUME OrchestratorInv, OptimizerInv, OrchestratorInv', OptimizerInv', BridgeInv, DNext
  PROVE  BridgeInv'
<1>1. ASSUME NEW i \in DOMAIN runs, Run(i) PROVE BridgeInv'
  <2>1. UNCHANGED bridging
    BY <1>1 DEF Run, Enrich, Attempt, Conclude, SavePipeline, Recommend
  <2>. QED
    BY <2>1, BridgeStays
<1>2. CASE Receive \/ Dispatch \/ Gathered \/ Hear \/ Collect \/ FlushBatch \/ PublishSelected
  <2>1. UNCHANGED bridging
    BY <1>2 DEF Receive, Dispatch, Gathered, Hear, Collect, FlushBatch, PublishSelected
  <2>. QED
    BY <2>1, BridgeStays
<1>3. CASE Crash
  <2>1. UNCHANGED bridging \/ (todo' = <<>> /\ UNCHANGED <<taken, tickets>>)
    BY <1>3 DEF Crash, bridging
  <2>. QED
    BY <2>1, BridgeStays
<1>. QED
  BY <1>1, <1>2, <1>3, TakeSteps, HandleSteps DEF DNext

-----------------------------------------------------------------------------
PipelineInv == OrchestratorInv /\ OptimizerInv /\ BridgeInv

LEMMA PipelineBegins == DInit => PipelineInv
<1>. SUFFICES ASSUME DInit PROVE PipelineInv
  OBVIOUS
<1>1. /\ direct \in BOOLEAN /\ handed = 0 /\ hand = <<>> /\ runs = <<>> /\ saved = <<>> /\ advices = <<>>
      /\ heard = 0 /\ ears = <<>> /\ batch = <<>> /\ turn = "read" /\ approved = <<>> /\ batches = 0
      /\ chosen = <<>> /\ taken = 0 /\ todo = <<>> /\ tickets = <<>>
  BY DEF DInit
<1>2. \A S : <<>> \in Seq(S)
  BY EmptySeq
<1>3. DOMAIN <<>> = {} /\ Len(<<>>) = 0 /\ Cardinality({}) = 0
  BY FS_EmptySet
<1>4. OrchestratorTyped /\ OptimizerTyped
  BY <1>1, <1>2, <1>3 DEF OrchestratorTyped, OptimizerTyped
<1>5. Concluded /\ BlindNeverAdvised
  BY <1>1, <1>3 DEF Concluded, BlindNeverAdvised
<1>6. Acted
  <2>1. \A opp : Count(advices, opp) = 0 /\ Publishing(opp) = {} /\ Executed(opp) = {}
    BY <1>1, <1>3, CountEmpty DEF Publishing, Executed
  <2>. QED
    BY <1>3, <2>1 DEF Acted
<1>7. Relayed
  <2>1. ASSUME NEW opp
        PROVE  /\ Count(chosen, opp) = 0 /\ Count(approved, opp) = 0 /\ Count(batch, opp) = 0
               /\ Count(ears, opp) = 0 /\ HeardOf(opp) = {}
    BY <1>1, CountEmpty DEF HeardOf, Until
  <2>. QED
    BY <1>3, <2>1 DEF Relayed
<1>8. InTurn /\ Rationed
  <2>1. 1..0 = {}
    OBVIOUS
  <2>. QED
    BY <1>1, <1>3, <2>1 DEF InTurn, Rationed
<1>9. BridgeTyped
  <2>1. Len(Events) \in Nat
    BY <1>4, EventsType
  <2>. QED
    BY <1>1, <1>2, <2>1 DEF BridgeTyped
<1>10. Ticketed
  <2>1. ASSUME NEW opp PROVE Count(tickets, opp) = 0 /\ Count(todo, opp) = 0 /\ Until(chosen, opp, taken) = {}
    BY <1>1, CountEmpty DEF Until
  <2>. QED
    BY <1>1, <1>3, <2>1 DEF Ticketed
<1>. QED
  BY <1>4, <1>5, <1>6, <1>7, <1>8, <1>9, <1>10
  DEF PipelineInv, OrchestratorInv, OptimizerInv, BridgeInv

LEMMA PipelineStep == ASSUME PipelineInv, DNext PROVE PipelineInv'
<1>1. OrchestratorInv'
  BY OrchestratorStep DEF PipelineInv
<1>2. OptimizerInv'
  BY OptimizerStep DEF PipelineInv
<1>. QED
  BY <1>1, <1>2, BridgeStep DEF PipelineInv

LEMMA PipelineSound ==
  ASSUME PipelineInv
  PROVE  NothingIsDoneTwice /\ BlindNeverAdvised /\ BatchesAreWithinLimits /\ NothingIsBought
<1>. USE DEF PipelineInv, OrchestratorInv, OptimizerInv, BridgeInv
<1>1. ASSUME NEW opp \in DOMAIN Offered
      PROVE  /\ Count(advices, opp) <= Cardinality(Executed(opp))
             /\ Count(chosen, opp) <= Count(advices, opp)
             /\ Count(tickets, opp) <= IF direct THEN 0 ELSE Count(chosen, opp)
  <2>1. /\ Cardinality(Publishing(opp)) \in Nat /\ Cardinality(Executed(opp)) \in Nat /\ Count(advices, opp) \in Nat
        /\ Count(advices, opp) + Cardinality(Publishing(opp)) <= Cardinality(Executed(opp))
    BY PublishingFinite DEF Acted
  <2>2. /\ Count(chosen, opp) + Count(approved, opp) + Count(batch, opp) + Count(ears, opp)
             <= Cardinality(HeardOf(opp))
        /\ Count(chosen, opp) \in Nat /\ Count(approved, opp) \in Nat /\ Count(batch, opp) \in Nat
        /\ Cardinality(HeardOf(opp)) \in Nat /\ Count(ears, opp) \in Nat
    BY Counts DEF Relayed
  <2>3. ASSUME NEW S, NEW s \in Seq(S), NEW n PROVE Cardinality(Until(s, opp, n)) <= Count(s, opp)
    <3>1. DOMAIN s = 1..Len(s) /\ Len(s) \in Nat
      BY LenProperties
    <3>2. Of(s, opp) \in SUBSET (1..Len(s)) /\ IsFiniteSet(1..Len(s))
      BY <3>1, FS_Interval DEF Of
    <3>3. IsFiniteSet(Of(s, opp)) /\ Until(s, opp, n) \in SUBSET Of(s, opp)
      BY <3>2, FS_Subset DEF Until
    <3>. QED
      BY <3>3, FS_Subset DEF Count
  <2>4. Cardinality(HeardOf(opp)) <= Count(advices, opp)
    <3>1. advices \in Seq(Advice)
      BY DEF OrchestratorTyped
    <3>. QED
      BY <2>3, <3>1 DEF HeardOf
  <2>5. Count(tickets, opp) <= IF direct THEN 0 ELSE Count(chosen, opp)
    <3>1. CASE direct
      BY <3>1, CountEmpty DEF Ticketed
    <3>2. CASE ~direct
      <4>1. /\ Count(tickets, opp) \in Nat /\ Count(todo, opp) \in Nat
            /\ Cardinality(Until(chosen, opp, taken)) \in Nat
            /\ Count(tickets, opp) + Count(todo, opp) <= Cardinality(Until(chosen, opp, taken))
        BY <3>2, BridgeCounts DEF Ticketed
      <4>2. Cardinality(Until(chosen, opp, taken)) <= Count(chosen, opp)
        <5>1. chosen \in Seq(Choice)
          BY DEF OptimizerTyped
        <5>. QED
          BY <2>3, <5>1
      <4>. QED
        BY <2>2, <3>2, <4>1, <4>2
    <3>. QED
      BY <3>1, <3>2 DEF BridgeTyped
  <2>. QED
    BY <2>1, <2>2, <2>4, <2>5
<1>2. BatchesAreWithinLimits
  BY Zenon DEF BatchesAreWithinLimits, Rationed, Mine, Spent
<1>3. NothingIsBought
  <2>1. \A i \in DOMAIN tickets : tickets[i] \in Tickets
    BY ElementOfSeq, LenProperties DEF BridgeTyped
  <2>. QED
    BY <2>1 DEF NothingIsBought, Tickets
<1>. QED
  BY <1>1, <1>2, <1>3 DEF NothingIsDoneTwice

\* Committed rows are the old ones alone, and only those can be swept.
OutcomesInv ==
    /\ outcomes \in [Trades -> {"none", "open", "failed"}]
    /\ \A t \in Trades : outcomes[t] = "none" <=> t \notin OldTrades
    /\ cycle.stale \subseteq OldTrades /\ cycle.swept \subseteq OldTrades
    /\ Cardinality(OldTrades) < MinSamples => filters = AdaptiveFilterState

LEMMA OutcomesBegin == OutcomesInit => OutcomesInv
<1>. SUFFICES ASSUME OutcomesInit PROVE OutcomesInv
  OBVIOUS
<1>1. outcomes = [t \in Trades |-> IF t \in OldTrades THEN "open" ELSE "none"] /\ cycle = NoCycle
      /\ filters = AdaptiveFilterState
  BY DEF OutcomesInit
<1>. QED
  BY <1>1, OutcomesAssumption DEF OutcomesInv, NoCycle

LEMMA OutcomesStep == ASSUME OutcomesInv, OutcomesNext PROVE OutcomesInv'
<1>1. ASSUME NEW h \in Hooks, NEW t \in Trades, NEW e, CallHook(h, t, e) PROVE OutcomesInv'
  BY <1>1 DEF CallHook, OutcomesInv
<1>2. ASSUME NEW h \in Hooks, HookWrites(h) \/ SessionDropped(h) PROVE OutcomesInv'
  BY <1>2 DEF HookWrites, SessionDropped, OutcomesInv
<1>3. CASE StartAdaptation
  <2>1. PICK s \in SUBSET {t \in Trades : outcomes[t] = "open"} :
          cycle' = [at |-> "sweep", stale |-> s, swept |-> {}]
    BY <1>3 DEF StartAdaptation
  <2>2. s \subseteq OldTrades /\ cycle'.stale = s /\ cycle'.swept = {}
    BY <2>1 DEF OutcomesInv
  <2>3. UNCHANGED <<outcomes, filters>>
    BY <1>3 DEF StartAdaptation
  <2>. QED
    BY <2>2, <2>3 DEF OutcomesInv
<1>4. CASE SweepOne
  <2>1. PICK t \in cycle.stale : cycle' = [cycle EXCEPT !.stale = @ \ {t}, !.swept = @ \cup {t}]
    BY <1>4 DEF SweepOne
  <2>2. UNCHANGED <<outcomes, filters>>
    BY <1>4 DEF SweepOne
  <2>. QED
    BY <2>1, <2>2 DEF OutcomesInv
<1>5. CASE AdaptFilters
  <2>1. /\ filters' = adapt(filters, compute_precision_metrics(Ledger))
        /\ cycle' = [cycle EXCEPT !.at = "commit"] /\ outcomes' = outcomes
    BY <1>5 DEF AdaptFilters
  <2>2. DOMAIN Ledger = OldTrades
    BY OutcomesAssumption DEF Ledger, OutcomesInv
  <2>3. compute_precision_metrics(Ledger).executed = Cardinality(OldTrades)
    BY <2>2 DEF compute_precision_metrics
  <2>4. Cardinality(OldTrades) < MinSamples => filters' = filters
    BY <2>1, <2>3, Zenon DEF adapt
  <2>. QED
    BY <2>1, <2>4 DEF OutcomesInv
<1>6. CASE CommitSweep
  <2>1. /\ cycle' = NoCycle /\ filters' = filters
        /\ outcomes' = [t \in Trades |-> IF t \in cycle.swept THEN "failed" ELSE outcomes[t]]
    BY <1>6 DEF CommitSweep
  <2>. QED
    BY <2>1 DEF OutcomesInv, NoCycle
<1>7. CASE AdaptationFails
  BY <1>7 DEF AdaptationFails, OutcomesInv, NoCycle
<1>. QED
  BY <1>1, <1>2, <1>3, <1>4, <1>5, <1>6, <1>7 DEF OutcomesNext

LEMMA OutcomesSound == OutcomesInv => NothingIsLearnt
  BY DEF OutcomesInv, NothingIsLearnt

-----------------------------------------------------------------------------
(* Prices in order *)

LEMMA LowestOf ==
  ASSUME NEW D, NEW f \in [D -> Nat], D # {}
  PROVE  \E d \in D : \A e \in D : f[d] <= f[e]
<1>1. PICK c \in D : TRUE
  OBVIOUS
<1>. DEFINE B == {f[d] : d \in D} \cap 0..f[c]
<1>2. f[c] \in Nat /\ B \in SUBSET (0..f[c]) /\ B # {}
  <2>1. f[c] \in Nat /\ f[c] \in 0..f[c]
    OBVIOUS
  <2>. QED
    BY <2>1
<1>3. PICK n \in B : \A k \in B : n <= k
  <2>. HIDE DEF B
  <2>. QED
    BY <1>2, SmallestNumber
<1>4. PICK d \in D : n = f[d]
  OBVIOUS
<1>5. ASSUME NEW e \in D PROVE f[d] <= f[e]
  <2>1. f[d] \in Nat /\ f[e] \in Nat /\ f[d] <= f[c]
    BY <1>4
  <2>2. CASE f[e] <= f[c]
    <3>1. f[e] \in B
      BY <2>1, <2>2
    <3>. QED
      BY <1>3, <1>4, <3>1
  <2>. QED
    BY <1>2, <2>1, <2>2
<1>. QED
  BY <1>5

LEMMA HighestOf ==
  ASSUME NEW D, NEW f \in [D -> Nat], D # {}, IsFiniteSet(D)
  PROVE  \E d \in D : \A e \in D : f[e] <= f[d]
<1>. DEFINE Above(d) == {e \in D : f[d] <= f[e]}
            B == {Above(d) : d \in D}
<1>1. B \in SUBSET (SUBSET D) /\ B # {}
  <2>1. PICK d \in D : TRUE
    OBVIOUS
  <2>2. Above(d) \in B
    OBVIOUS
  <2>. QED
    BY <2>2
<1>2. PICK s \in B : \A t \in B : t \subseteq s => t = s
  <2>. HIDE DEF B
  <2>. QED
    BY <1>1, SmallestSubset
<1>3. PICK d \in D : s = Above(d)
  OBVIOUS
<1>4. ASSUME NEW e \in D, ~(f[e] <= f[d]) PROVE FALSE
  <2>1. f[d] \in Nat /\ f[e] \in Nat /\ f[d] < f[e]
    BY <1>4
  <2>2. Above(e) \subseteq Above(d)
    BY <2>1
  <2>3. d \in Above(d) /\ d \notin Above(e) /\ Above(e) \in B
    BY <2>1
  <2>. HIDE DEF Above, B
  <2>. QED
    BY <1>2, <1>3, <2>2, <2>3
<1>. QED
  BY <1>4

LEMMA RanksExist ==
  ASSUME NEW D, IsFiniteSet(D), NEW f \in [D -> Nat], NEW i \in 1..Cardinality(D)
  PROVE  \E x \in {f[g] : g \in D} : Ranks(f, i, x)
<1>. DEFINE Under(x) == {g \in D : f[g] <= x}
            Below(x) == {g \in D : f[g] < x}
            A == {d \in D : i <= Cardinality(Under(f[d]))}
<1>1. Cardinality(D) \in Nat /\ D # {}
  BY FS_CardinalityType, FS_EmptySet
<1>2. \A x : IsFiniteSet(Under(x)) /\ Cardinality(Under(x)) \in Nat
  BY FS_Subset, FS_CardinalityType
<1>3. \A x : IsFiniteSet(Below(x)) /\ Cardinality(Below(x)) \in Nat
  BY FS_Subset, FS_CardinalityType
<1>4. A # {}
  <2>1. PICK d \in D : \A e \in D : f[e] <= f[d]
    BY <1>1, HighestOf
  <2>2. Under(f[d]) = D
    BY <2>1
  <2>3. i <= Cardinality(Under(f[d]))
    <3>. HIDE DEF Under
    <3>. QED
      BY <1>1, <2>2
  <2>. QED
    BY <2>3
<1>5. PICK d \in A : \A e \in A : f[d] <= f[e]
  <2>1. A \subseteq D
    OBVIOUS
  <2>. DEFINE fA == [e \in A |-> f[e]]
  <2>2. fA \in [A -> Nat]
    BY <2>1
  <2>. HIDE DEF A, fA
  <2>3. PICK d \in A : \A e \in A : fA[d] <= fA[e]
    BY <1>4, <2>2, LowestOf
  <2>. QED
    BY <2>1, <2>3 DEF fA
<1>6. d \in D /\ f[d] \in Nat /\ i <= Cardinality(Under(f[d]))
  BY <1>5
<1>7. Cardinality(Below(f[d])) < i
  <2>. SUFFICES ASSUME i <= Cardinality(Below(f[d])) PROVE FALSE
    BY <1>3
  <2>1. Below(f[d]) # {}
    <3>. HIDE DEF Below
    <3>. QED
      BY FS_EmptySet
  <2>. DEFINE L == Below(f[d])
              fL == [e \in L |-> f[e]]
  <2>2. fL \in [L -> Nat] /\ L \subseteq D
    OBVIOUS
  <2>3. IsFiniteSet(L) /\ L # {}
    BY <1>3, <2>1
  <2>4. PICK e \in L : \A h \in L : fL[h] <= fL[e]
    <3>. HIDE DEF L, fL
    <3>. QED
      BY <2>2, <2>3, HighestOf
  <2>5. e \in D /\ f[e] < f[d] /\ f[e] \in Nat /\ L \in SUBSET Under(f[e])
    BY <2>4
  <2>6. Cardinality(L) <= Cardinality(Under(f[e]))
    <3>. HIDE DEF L, Under
    <3>. QED
      BY <1>2, <2>5, FS_Subset
  <2>7. i <= Cardinality(Under(f[e]))
    <3>1. i <= Cardinality(L) /\ Cardinality(L) \in Nat /\ Cardinality(Under(f[e])) \in Nat
      BY <1>2, <1>3
    <3>. HIDE DEF L, Under
    <3>. QED
      BY <2>6, <3>1
  <2>8. e \in A
    BY <2>5, <2>7
  <2>. QED
    BY <1>5, <1>6, <2>5, <2>8
<1>8. DOMAIN f = D /\ f[d] \in {f[g] : g \in D}
  BY <1>6
<1>. QED
  BY <1>6, <1>7, <1>8 DEF Ranks

\* The values of f, in order, the lowest first.
LEMMA SortedIs ==
  ASSUME NEW D, IsFiniteSet(D), NEW f \in [D -> Nat]
  PROVE  /\ Sorted(f) \in [1..Cardinality(D) -> Nat]
         /\ Len(Sorted(f)) = Cardinality(D)
         /\ D # {} => \A d \in D : Sorted(f)[1] <= f[d]
<1>1. DOMAIN f = D /\ Cardinality(D) \in Nat
  BY FS_CardinalityType
<1>2. Sorted(f) = [i \in 1..Cardinality(D) |-> CHOOSE x \in {f[g] : g \in D} : Ranks(f, i, x)]
  BY <1>1 DEF Sorted
<1>3. ASSUME NEW i \in 1..Cardinality(D)
      PROVE  Sorted(f)[i] \in {f[g] : g \in D} /\ Ranks(f, i, Sorted(f)[i])
  <2>1. Sorted(f)[i] = CHOOSE x \in {f[g] : g \in D} : Ranks(f, i, x)
    BY <1>2
  <2>2. \E x \in {f[g] : g \in D} : Ranks(f, i, x)
    BY RanksExist
  <2>. QED
    BY <2>1, <2>2
<1>4. ASSUME NEW i \in 1..Cardinality(D) PROVE Sorted(f)[i] \in Nat
  BY <1>3
<1>5. Sorted(f) \in [1..Cardinality(D) -> Nat]
  BY <1>2, <1>4
<1>6. Len(Sorted(f)) = Cardinality(D)
  BY <1>1, <1>5
<1>7. ASSUME NEW d \in D PROVE Sorted(f)[1] <= f[d]
  <2>1. 1 \in 1..Cardinality(D)
    BY <1>1, FS_EmptySet
  <2>. DEFINE L == {g \in D : f[g] < Sorted(f)[1]}
  <2>2. Cardinality(L) < 1
    BY <1>1, <1>3, <2>1 DEF Ranks
  <2>3. L = {}
    <3>1. IsFiniteSet(L)
      BY FS_Subset
    <3>. HIDE DEF L
    <3>2. Cardinality(L) \in Nat
      BY <3>1, FS_CardinalityType
    <3>. QED
      BY <2>2, <3>1, <3>2, FS_EmptySet
  <2>. QED
    BY <1>4, <2>1, <2>3
<1>. QED
  BY <1>5, <1>6, <1>7

-----------------------------------------------------------------------------
(* What a trade costs *)

Currencies == DOMAIN FALLBACK_RATES

\* Some of the currencies may be missing, and some rates be no prices.
RateTables == UNION {[C -> Int] : C \in SUBSET Currencies}
Countries == {"MX", "US", "AR", "CL", "CO", "CN"}

LEMMA FallbackIs ==
  /\ Currencies = {"USD", "ARS", "MXN", "CLP", "COP"}
  /\ FALLBACK_RATES \in RateTables /\ DOMAIN FALLBACK_RATES = Currencies
  /\ \A c \in Currencies : FALLBACK_RATES[c] \in Nat \ {0}
<1>1. Currencies = {"USD", "ARS", "MXN", "CLP", "COP"}
  BY DEF FALLBACK_RATES, Currencies
<1>2. \A c \in Currencies : FALLBACK_RATES[c] \in Nat \ {0}
  BY <1>1 DEF FALLBACK_RATES
<1>3. FALLBACK_RATES \in [Currencies -> Int]
  BY <1>1 DEF FALLBACK_RATES
<1>. QED
  BY <1>1, <1>2, <1>3 DEF RateTables

LEMMA FeesType ==
  ASSUME NEW m \in Marketplaces
  PROVE  /\ MARKETPLACE_FEES[m].commission \in Nat /\ MARKETPLACE_FEES[m].processing \in Nat
         /\ MARKETPLACE_FEES[m].fixed \in Nat /\ MARKETPLACE_FEES[m].vat \in Nat
         /\ MARKETPLACE_FEES[m].shipping \in Nat /\ MARKETPLACE_FEES[m].currency \in Currencies
         /\ Country(m) \in Countries
<1>1. m \in {"amazon", "amazon_us", "mercadolibre_mx", "mercadolibre_ar", "mercadolibre_cl",
             "mercadolibre_co", "ebay", "aliexpress"}
  BY DEF Marketplaces, MARKETPLACE_FEES
<1>. QED
  BY <1>1, FallbackIs DEF MARKETPLACE_FEES, Fees, Country, Countries

LEMMA DollarsType ==
  ASSUME NEW rs \in RateTables, NEW c \in Currencies, NEW price \in Nat
  PROVE  to_usd(price, c, rs) \in Nat
<1>1. PICK rate \in Int : rate = RateOf(rs, c)
  BY FallbackIs DEF RateOf, RateTables
<1>2. rate > 0 => (price * 100) \div rate \in Nat
  BY <1>1
<1>. QED
  BY <1>1, <1>2 DEF to_usd

LEMMA BorderType ==
  ASSUME NEW b \in Marketplaces, NEW s \in Marketplaces
  PROVE  get_cross_border_fees(b, s).duty \in Nat /\ get_cross_border_fees(b, s).freight \in Nat
<1>1. CASE Priced(b, s)
  <2>1. PICK x \in Countries, y \in Countries : x = Country(b) /\ y = Country(s)
    BY FeesType
  <2>2. x \in DOMAIN Freight /\ y \in DOMAIN Freight[x]
    BY <1>1, <2>1 DEF Priced
  <2>3. x \in {"US", "MX", "CN", "AR", "CL", "CO"}
    BY <2>2 DEF Freight
  <2>4. Duty[y] \in Nat /\ Freight[x][y] \in Nat
    <3>1. CASE x = "US"
      BY <2>2, <3>1 DEF Freight, Duty
    <3>2. CASE x = "MX"
      BY <2>2, <3>2 DEF Freight, Duty
    <3>3. CASE x = "CN"
      BY <2>2, <3>3 DEF Freight, Duty
    <3>4. CASE x = "AR"
      BY <2>2, <3>4 DEF Freight, Duty
    <3>5. CASE x = "CL"
      BY <2>2, <3>5 DEF Freight, Duty
    <3>6. CASE x = "CO"
      BY <2>2, <3>6 DEF Freight, Duty
    <3>. QED
      BY <2>3, <3>1, <3>2, <3>3, <3>4, <3>5, <3>6
  <2>5. get_cross_border_fees(b, s) = [duty |-> Duty[y], freight |-> Freight[x][y]]
    BY <1>1, <2>1 DEF get_cross_border_fees
  <2>. QED
    BY <2>4, <2>5
<1>2. CASE ~Priced(b, s)
  BY <1>2 DEF get_cross_border_fees, DEFAULT_CROSS_BORDER
<1>. QED
  BY <1>1, <1>2

\* The fees are no less than nothing.
LEMMA CostsType ==
  ASSUME NEW buy \in Nat, NEW sell \in Nat, NEW b \in Marketplaces, NEW s \in Marketplaces,
         NEW free, NEW rs \in RateTables,
         NEW calc, calc = calculate_profit(buy, sell, b, s, free, rs)
  PROVE  /\ calc.buy = buy /\ calc.sell = sell /\ calc.fees \in Nat
         /\ calc.net = sell - buy - calc.fees /\ calc.roi \in Int
<1>1. PICK fees : fees = MARKETPLACE_FEES[s]
  OBVIOUS
<1>2. /\ fees.commission \in Nat /\ fees.processing \in Nat /\ fees.fixed \in Nat /\ fees.vat \in Nat
      /\ fees.shipping \in Nat /\ fees.currency \in Currencies
  BY <1>1, FeesType
<1>3. PaymentFee(fees, sell, rs) \in Nat
  <2>1. to_usd(fees.fixed, fees.currency, rs) \in Nat
    BY <1>2, DollarsType
  <2>2. sell * fees.processing \in Nat /\ Whole \in Nat
    BY <1>2 DEF Whole
  <2>. QED
    BY <2>1, <2>2 DEF PaymentFee, Whole
<1>4. ImportTax(b, s, sell) \in Nat
  <2>1. PICK duty \in Nat, freight \in Nat :
          duty = get_cross_border_fees(b, s).duty /\ freight = get_cross_border_fees(b, s).freight
    BY BorderType
  <2>2. sell + (sell * Insurance) \div Whole + freight \in Nat
    BY DEF Insurance, Whole
  <2>3. (sell + (sell * Insurance) \div Whole + freight) * duty \in Nat
    BY <2>2
  <2>. QED
    BY <2>1, <2>3 DEF ImportTax
<1>5. Shipping(b, s, free) \in Nat
  <2>1. MARKETPLACE_FEES[s].shipping \in Nat /\ get_cross_border_fees(b, s).freight \in Nat
    BY FeesType, BorderType
  <2>. QED
    BY <2>1 DEF Shipping
<1>6. PICK cost \in Nat :
        cost = Round(sell * (fees.commission + fees.vat) + PaymentFee(fees, sell, rs)
                     + ImportTax(b, s, sell)) + Shipping(b, s, free)
  <2>1. sell * (fees.commission + fees.vat) \in Nat
    BY <1>2
  <2>2. PICK n \in Nat : n = sell * (fees.commission + fees.vat) + PaymentFee(fees, sell, rs)
                             + ImportTax(b, s, sell)
    BY <1>3, <1>4, <2>1
  <2>3. Round(n) \in Nat
    BY DEF Round, Whole
  <2>. QED
    BY <1>5, <2>2, <2>3
<1>7. /\ calc.buy = buy /\ calc.sell = sell /\ calc.fees = cost /\ calc.net = sell - buy - cost
      /\ calc.roi = IF buy > 0 THEN ((sell - buy - cost) * Whole) \div buy ELSE 0
  BY <1>1, <1>6 DEF calculate_profit
<1>8. calc.roi \in Int
  <2>1. CASE buy > 0
    BY <1>6, <1>7, <2>1 DEF Whole
  <2>. QED
    BY <1>7, <2>1
<1>. QED
  BY <1>6, <1>7, <1>8

-----------------------------------------------------------------------------
(* What an analysis makes of what it has read *)

\* A market of listings F.
View(v, F) ==
    /\ v.usd \in [F -> Nat] /\ v.trusted \subseteq F /\ IsFiniteSet(F)
    /\ v.rates \in RateTables /\ \A g \in F : About[g].market \in Marketplaces

LEMMA MarketIs ==
  ASSUME NEW F \in SUBSET Goods, NEW offers, DOMAIN offers = F, \A g \in F : offers[g].price \in Nat,
         NEW rs \in RateTables
  PROVE  View(Market(offers, rs), F)
<1>. DEFINE usd == [g \in F |-> to_usd(offers[g].price, MARKETPLACE_FEES[About[g].market].currency, rs)]
            known == {g \in F : is_trustworthy(g)}
            trusted == {g \in known : ~is_outlier_price(usd[g], Sorted([h \in known |-> usd[h]]))}
<1>1. Market(offers, rs) = [usd |-> usd, at |-> [g \in F |-> offers[g].at], rates |-> rs, trusted |-> trusted]
  BY DEF Market
<1>2. \A g \in F : About[g].market \in Marketplaces
  BY EvaluationAssumption
<1>3. usd \in [F -> Nat]
  <2>1. ASSUME NEW g \in F
        PROVE  to_usd(offers[g].price, MARKETPLACE_FEES[About[g].market].currency, rs) \in Nat
    BY <1>2, FeesType, DollarsType
  <2>. QED
    BY <2>1
<1>4. trusted \subseteq F
  OBVIOUS
<1>5. IsFiniteSet(F)
  BY FS_Subset, EvaluationAssumption
<1>. HIDE DEF usd, known, trusted
<1>. QED
  BY <1>1, <1>2, <1>3, <1>4, <1>5 DEF View

\* The prices of some of them, in order.
LEMMA PricesAre ==
  ASSUME NEW F, NEW v, View(v, F), NEW G \in SUBSET F
  PROVE  /\ IsFiniteSet(G) /\ Cardinality(G) \in Nat
         /\ PricesIn(v, G) \in [1..Cardinality(G) -> Nat] /\ Len(PricesIn(v, G)) = Cardinality(G)
         /\ \A g \in G : PricesIn(v, G)[1] <= v.usd[g]
<1>. DEFINE f == [g \in G |-> v.usd[g]]
<1>1. f \in [G -> Nat]
  BY DEF View
<1>2. IsFiniteSet(G) /\ Cardinality(G) \in Nat
  BY FS_Subset, FS_CardinalityType DEF View
<1>3. PricesIn(v, G) = Sorted(f)
  BY DEF PricesIn
<1>4. /\ Sorted(f) \in [1..Cardinality(G) -> Nat] /\ Len(Sorted(f)) = Cardinality(G)
      /\ G # {} => \A g \in G : Sorted(f)[1] <= f[g]
  <2>. HIDE DEF f
  <2>. QED
    BY <1>1, <1>2, SortedIs
<1>. QED
  BY <1>2, <1>3, <1>4

\* What competitors ask for is a price.
LEMMA RealisticType ==
  ASSUME NEW F, NEW v, View(v, F), NEW G \in SUBSET F, G # {}
  PROVE  analyze_competition(v, G).realistic \in Nat
<1>1. PICK s, n : n \in Nat /\ s = PricesIn(v, G) /\ n = Len(s) /\ s \in [1..n -> Nat] /\ n # 0
  BY PricesAre, FS_EmptySet
<1>2. (n + 1) \div 2 \in 1..n /\ n \div 2 + 1 \in Nat
  BY <1>1
<1>3. Median(s) \in Nat
  <2>1. CASE n = 1
    <3>1. Median(s) = (s[1] + s[1]) \div 2
      BY <1>1, <2>1 DEF Median
    <3>. QED
      BY <1>1, <2>1, <3>1
  <2>2. CASE n # 1
    <3>1. n \div 2 + 1 \in 1..n
      BY <1>1, <2>2
    <3>2. s[(n + 1) \div 2] \in Nat /\ s[n \div 2 + 1] \in Nat
      BY <1>1, <1>2, <3>1
    <3>. QED
      BY <1>1, <3>2 DEF Median
  <2>. QED
    BY <2>1, <2>2
<1>4. analyze_competition(v, G).realistic = Round(Median(s) * 9700)
  BY <1>1 DEF analyze_competition
<1>. QED
  BY <1>3, <1>4 DEF Round, Whole

-----------------------------------------------------------------------------
MarketNames == {"spread_stability", "depth", "worst_case_profit", "execution_simulation"}

\* What a route offers is what the checks take it for.
Sane(o) ==
    /\ o.calc.net \in Int /\ o.calc.roi \in Int /\ o.passed \subseteq MarketNames
    /\ o.few /\ "worst_case_profit" \in o.passed => o.lowest - o.calc.buy - o.calc.fees > 0
    /\ \A r \in o.rivals \cup {o.sell} : Compatible(o.buy, r)

\* Of few listings the lowest price is the one the check is about.
LEMMA LowestPays ==
  ASSUME NEW F, NEW v, View(v, F), NEW o,
         NEW G \in SUBSET F, G = In(v, About[o.sell].market), NEW R \in SUBSET G, R # {},
         o.calc.buy \in Nat, o.calc.fees \in Nat,
         Len(SellPrices(v, o)) < 8, check_worst_case_profit(v, o)
  PROVE  Min({v.usd[r] : r \in R}) - o.calc.buy - o.calc.fees > 0
<1>1. PICK s, n : /\ n \in Nat /\ s = SellPrices(v, o) /\ n = Len(s) /\ s \in [1..n -> Nat] /\ n # 0
                  /\ \A g \in G : s[1] <= v.usd[g]
  <2>1. SellPrices(v, o) = PricesIn(v, G) /\ G # {}
    BY DEF SellPrices
  <2>. QED
    BY <2>1, PricesAre, FS_EmptySet
<1>2. 1 \in 1..n /\ s[1] \in Nat /\ n < 8
  BY <1>1
<1>3. Larger(1, n \div 4) = 1
  BY <1>2, <1>1 DEF Larger
<1>4. s[1] * 10000 > o.calc.buy * 10200 + o.calc.fees * 10500
  BY <1>1, <1>3 DEF check_worst_case_profit, Whole
<1>5. s[1] > o.calc.buy + o.calc.fees
  <2>2. PICK x \in Nat : x = s[1]
    BY <1>2
  <2>3. PICK y \in Nat : y = o.calc.buy
    OBVIOUS
  <2>4. PICK z \in Nat : z = o.calc.fees
    OBVIOUS
  <2>5. x * 10000 > y * 10200 + z * 10500
    BY <1>4, <2>2, <2>3, <2>4
  <2>6. x > y + z
    BY <2>5, SMT
  <2>. QED
    BY <2>2, <2>3, <2>4, <2>6
<1>. DEFINE f == [r \in R |-> v.usd[r]]
<1>6. f \in [R -> Nat]
  BY DEF View
<1>7. PICK d \in R : \A e \in R : f[d] <= f[e]
  <2>. HIDE DEF f
  <2>. QED
    BY <1>6, LowestOf
<1>8. v.usd[d] \in {v.usd[r] : r \in R} /\ \A y \in {v.usd[r] : r \in R} : v.usd[d] <= y
  BY <1>7
<1>9. PICK low : low = Min({v.usd[r] : r \in R}) /\ low \in {v.usd[r] : r \in R}
  <2>. DEFINE S == {v.usd[r] : r \in R}
  <2>1. Min(S) = CHOOSE x \in S : \A y \in S : x <= y
    BY DEF Min
  <2>2. v.usd[d] \in S /\ \A y \in S : v.usd[d] <= y
    BY <1>8
  <2>. HIDE DEF S
  <2>3. Min(S) \in S
    BY <2>1, <2>2
  <2>. QED
    BY <2>3 DEF S
<1>10. low \in Nat /\ s[1] <= low
  <2>1. PICK r \in R : low = v.usd[r]
    BY <1>9
  <2>2. r \in G
    OBVIOUS
  <2>. QED
    BY <1>1, <1>6, <2>1, <2>2
<1>. QED
  BY <1>2, <1>5, <1>9, <1>10

LEMMA EvaluatedIsSane ==
  ASSUME NEW F, NEW v, View(v, F), NEW route, In(v, route[1]) # {}, NEW o \in Evaluate(v, route)
  PROVE  Sane(o)
<1>. DEFINE Rivals(b) == {s \in In(v, route[2]) : Compatible(b, s)}
<1>1. PICK b, s, R, calc :
        /\ b = Cheapest(v, route[1]) /\ R = Rivals(b) /\ s = Dearest(v, R)
        /\ calc = calculate_profit(v.usd[b], analyze_competition(v, R).realistic,
                                   route[1], route[2], About[s].freeShipping, v.rates)
  OBVIOUS
<1>. DEFINE small == [buy |-> b, sell |-> s, calc |-> calc]
            lowest == Min({v.usd[r] : r \in R})
<1>2. PICK few \in BOOLEAN : few <=> Len(SellPrices(v, small)) < 8
  BY Zenon
<1>3. /\ R # {} /\ o.buy = b /\ o.sell = s /\ o.calc = calc /\ o.rivals = R
      /\ o.lowest = lowest /\ (o.few = (Len(SellPrices(v, small)) < 8)) /\ o.passed = MarketChecks(v, small)
  BY <1>1 DEF Evaluate
<1>. HIDE DEF small, lowest
<1>4. /\ In(v, route[1]) \in SUBSET F /\ In(v, route[2]) \in SUBSET F /\ R \in SUBSET In(v, route[2])
      /\ \A r \in R : Compatible(b, r)
  BY <1>1 DEF In, View
<1>5. b \in In(v, route[1])
  <2>. DEFINE G == In(v, route[1])
              f == [g \in G |-> v.usd[g]]
  <2>1. f \in [G -> Nat] /\ G # {}
    BY <1>4 DEF View
  <2>. HIDE DEF G
  <2>2. PICK d \in G : \A e \in G : f[d] <= f[e]
    <3>. HIDE DEF f
    <3>. QED
      BY <2>1, LowestOf
  <2>3. \A e \in G : v.usd[d] <= v.usd[e]
    BY <2>2
  <2>4. b = CHOOSE g \in G : \A h \in G : v.usd[g] <= v.usd[h]
    BY <1>1 DEF Cheapest, G
  <2>5. b \in G
    BY <2>3, <2>4
  <2>. QED
    BY <2>5 DEF G
<1>6. s \in R
  <2>. DEFINE f == [g \in R |-> v.usd[g]]
  <2>1. f \in [R -> Nat] /\ IsFiniteSet(R)
    BY <1>4, FS_Subset DEF View
  <2>2. PICK d \in R : \A e \in R : f[e] <= f[d]
    <3>. HIDE DEF f
    <3>. QED
      BY <1>3, <2>1, HighestOf
  <2>3. \A e \in R : v.usd[d] >= v.usd[e]
    BY <1>4, <2>1, <2>2 DEF View
  <2>4. s = CHOOSE g \in R : \A h \in R : v.usd[g] >= v.usd[h]
    BY <1>1 DEF Dearest
  <2>. QED
    BY <2>3, <2>4
<1>7. /\ About[b].market = route[1] /\ About[s].market = route[2]
      /\ route[1] \in Marketplaces /\ route[2] \in Marketplaces
  BY <1>4, <1>5, <1>6 DEF In, View
<1>8. PICK buy, sell : /\ buy \in Nat /\ sell \in Nat /\ buy = v.usd[b]
                       /\ sell = analyze_competition(v, R).realistic
  <2>1. v.usd[b] \in Nat
    BY <1>4, <1>5 DEF View
  <2>2. analyze_competition(v, R).realistic \in Nat
    BY <1>3, <1>4, RealisticType
  <2>. QED
    BY <2>1, <2>2
<1>9. calc.buy \in Nat /\ calc.fees \in Nat /\ calc.net \in Int /\ calc.roi \in Int
  <2>1. v.rates \in RateTables
    BY DEF View
  <2>2. calc = calculate_profit(buy, sell, route[1], route[2], About[s].freeShipping, v.rates)
    BY <1>1, <1>8
  <2>. QED
    BY <1>7, <1>8, <2>1, <2>2, CostsType
<1>10. o.passed \subseteq MarketNames
  BY <1>3 DEF MarketChecks, MarketNames
<1>11. ASSUME o.few, "worst_case_profit" \in o.passed
       PROVE  o.lowest - o.calc.buy - o.calc.fees > 0
  <2>1. small.sell = s /\ small.calc = calc
    BY DEF small
  <2>2. Len(SellPrices(v, small)) < 8
    BY <1>3, <1>11
  <2>3. check_worst_case_profit(v, small)
    BY <1>3, <1>11 DEF MarketChecks
  <2>4. Min({v.usd[r] : r \in R}) - small.calc.buy - small.calc.fees > 0
    <3>1. In(v, route[2]) = In(v, About[small.sell].market)
      BY <1>7, <2>1
    <3>. QED
      BY <1>3, <1>4, <1>9, <2>1, <2>2, <2>3, <3>1, LowestPays
  <2>. QED
    BY <1>3, <2>1, <2>4 DEF lowest
<1>12. \A r \in o.rivals \cup {o.sell} : Compatible(o.buy, r)
  BY <1>3, <1>4, <1>6
<1>. QED
  BY <1>3, <1>9, <1>10, <1>11, <1>12 DEF Sane

\* And so is all a market offers.
LEMMA QualifiedIsSane ==
  ASSUME NEW F, NEW v, View(v, F), NEW o \in Qualified(v)
  PROVE  Sane(o)
<1>1. PICK route : route[1] \in {About[g].market : g \in v.trusted} /\ o \in Evaluate(v, route)
  BY DEF Qualified
<1>2. In(v, route[1]) # {}
  BY <1>1 DEF In
<1>. QED
  BY <1>1, <1>2, EvaluatedIsSane

-----------------------------------------------------------------------------
(* What is written of a product *)

Fields == {"profit", "roi", "confidence", "reviews", "rating"}

\* A decision that is made, and written or about to be.
Recorded(w) ==
    /\ w.decided \in Int /\ w.decided <= now /\ w.life \in Nat /\ w.life <= lives
    /\ w.net >= BaseMinProfit /\ w.net >= w.floor.profit
    /\ w.roi >= MinRoi /\ w.roi >= w.floor.roi /\ w.mates
    /\ ~w.shadow =>
         /\ w.decided - w.oldest <= MaxAge
         /\ w.few => w.atLowest > 0
         /\ w.life = lives /\ now - w.decided <= Window =>
              w.key \in DOMAIN seen /\ seen[w.key] >= w.decided

\* Two of one product and marketplace are further apart than the window.
Apart(w, x) ==
    ~w.shadow /\ ~x.shadow /\ w.key = x.key /\ w.life = x.life =>
        Larger(w.decided - x.decided, x.decided - w.decided) > Window

Pending(a) == job[a].step = "write"

WorldTyped ==
    /\ now \in Int /\ lives \in Nat /\ strictness \in [hardened : BOOLEAN, shadow : BOOLEAN]
    /\ DOMAIN offer = Goods /\ \A g \in Goods : offer[g].price \in Nat
    /\ rates \in RateTables /\ thresholds \in [Fields -> Int]
    /\ \A k \in DOMAIN seen : seen[k] \in Int /\ seen[k] <= now

JobsAreSane ==
    /\ DOMAIN job = Analyses
    /\ \A a \in Analyses :
         /\ job[a].step = "begun" => job[a].rates \in RateTables
         /\ job[a].step = "read" => \A o \in job[a].found : Sane(o)

DecisionsAreApart ==
    /\ \E S : posted \in Seq(S)
    /\ \A i \in 1..Len(posted) : Recorded(posted[i])
    /\ \A i, j \in 1..Len(posted) : i # j => Apart(posted[i], posted[j])
    /\ \A a \in Analyses : Pending(a) =>
         /\ Recorded(job[a].opp) /\ job[a].opp.life = lives
         /\ \A i \in 1..Len(posted) : Apart(posted[i], job[a].opp)
         /\ \A b \in Analyses : b # a /\ Pending(b) => Apart(job[b].opp, job[a].opp)

Growth == Powers(3)[events]
Halving == Powers(2)[events]

\* The currencies that every answer so far had.
Checked == Currencies \ (unchecked \cup {"USD"})

\* Their rates are between what the fetches could make of the fallback.
RatesInBounds ==
    /\ events \in 0..MaxEvents /\ 1 <= Halving /\ Halving <= Growth
    /\ \A c \in Checked :
          /\ c \in DOMAIN rates
          /\ rates[c] * Halving <= FALLBACK_RATES[c] * Growth
          /\ rates[c] * Halving >= FALLBACK_RATES[c]

EvaluationInv == WorldTyped /\ JobsAreSane /\ DecisionsAreApart /\ RatesInBounds

-----------------------------------------------------------------------------
LEMMA Symmetric ==
  ASSUME NEW w, NEW x, w.decided \in Int, x.decided \in Int, Apart(w, x)
  PROVE  Apart(x, w)
  BY DEF Apart, Larger

\* What happens to the clock and to what is remembered keeps what is recorded.
LEMMA RecordedStays ==
  ASSUME WorldTyped, NEW w, Recorded(w),
         \/ UNCHANGED <<now, lives, seen>>
         \/ UNCHANGED <<now, lives>> /\ \E o : seen' = Marked(o)
         \/ UNCHANGED <<lives, seen>> /\ now' = now + 1
         \/ UNCHANGED now /\ lives' = lives + 1
  PROVE  Recorded(w)'
<1>0. now \in Int /\ lives \in Nat /\ Window \in Nat /\ w.decided \in Int /\ w.life \in Nat
  BY EvaluationAssumption DEF WorldTyped, Recorded
<1>1. CASE UNCHANGED <<now, lives, seen>>
  BY <1>1 DEF Recorded
<1>2. ASSUME UNCHANGED <<now, lives>>, NEW o, seen' = Marked(o) PROVE Recorded(w)'
  <2>1. ASSUME ~w.shadow, w.life = lives, now - w.decided <= Window
        PROVE  w.key \in DOMAIN seen' /\ seen'[w.key] >= w.decided
    <3>1. w.key \in DOMAIN seen /\ seen[w.key] >= w.decided /\ seen[w.key] \in Int
      BY <2>1 DEF Recorded, WorldTyped
    <3>2. seen[w.key] >= now - Window
      BY <1>0, <2>1, <3>1
    <3>3. w.key \in DOMAIN Evicted /\ Evicted[w.key] = seen[w.key]
      BY <3>1, <3>2 DEF Evicted
    <3>. QED
      BY <1>2, <3>1, <3>3 DEF Marked
  <2>. QED
    BY <1>2, <2>1 DEF Recorded
<1>3. CASE UNCHANGED <<lives, seen>> /\ now' = now + 1
  BY <1>0, <1>3 DEF Recorded
<1>4. CASE UNCHANGED now /\ lives' = lives + 1
  BY <1>0, <1>4 DEF Recorded
<1>. QED
  BY <1>1, <1>2, <1>3, <1>4

\* The clock of what is remembered is not ahead.
LEMMA MarkedType ==
  ASSUME WorldTyped, NEW o, NEW k \in DOMAIN Marked(o)
  PROVE  Marked(o)[k] \in Int /\ Marked(o)[k] <= now
<1>1. now \in Int
  BY DEF WorldTyped
<1>2. CASE k \in DOMAIN Evicted
  BY <1>2 DEF Marked, Evicted, WorldTyped
<1>3. CASE k \notin DOMAIN Evicted
  BY <1>1, <1>3 DEF Marked
<1>. QED
  BY <1>2, <1>3

\* What is decided of o.
Decided(w, o) ==
    /\ w.life = lives /\ w.key = Key(o) /\ w.net = o.calc.net /\ w.roi = o.calc.roi
    /\ w.floor = thresholds /\ w.decided = now /\ w.oldest = o.oldest
    /\ w.shadow = strictness.shadow /\ w.few = o.few
    /\ w.atLowest = o.lowest - o.calc.buy - o.calc.fees
    /\ w.mates = \A r \in o.rivals \cup {o.sell} : Compatible(o.buy, r)

LEMMA DecisionIsRecorded ==
  ASSUME WorldTyped, NEW found, \A o \in found : Sane(o), NEW o \in Best(found), validate_arbitrage(o),
         NEW w, Decided(w, o), UNCHANGED <<now, lives>>, seen' = Marked(o)
  PROVE  /\ Recorded(w)'
         /\ \A x : Recorded(x) => Apart(x, w)
<1>0. now \in Int /\ lives \in Nat /\ Window \in Nat /\ Sane(o) /\ thresholds \in [Fields -> Int]
  BY EvaluationAssumption DEF WorldTyped, Best
<1>1. /\ o.calc.net >= Larger(BaseMinProfit, thresholds.profit)
      /\ o.calc.roi >= Larger(MinRoi, thresholds.roi)
  BY DEF Best, get_adaptive_thresholds
<1>2. /\ w.net >= BaseMinProfit /\ w.net >= w.floor.profit
      /\ w.roi >= MinRoi /\ w.roi >= w.floor.roi
  <2>1. /\ thresholds.profit \in Int /\ thresholds.roi \in Int
        /\ o.calc.net \in Int /\ o.calc.roi \in Int
    BY <1>0 DEF Sane, Fields
  <2>. QED
    BY <1>1, <2>1 DEF Decided, Larger, BaseMinProfit, MinRoi
<1>3. w.mates
  BY <1>0 DEF Decided, Sane
<1>4. ASSUME ~w.shadow
      PROVE  /\ w.decided - w.oldest <= MaxAge
             /\ w.few => w.atLowest > 0
             /\ Key(o) \notin DOMAIN Evicted
  <2>1. Checks(o) = AllChecks
    BY <1>4 DEF validate_arbitrage, Decided
  <2>2. /\ "price_freshness" \in Checks(o) /\ "duplicate" \in Checks(o)
        /\ "worst_case_profit" \in Checks(o)
    BY <2>1 DEF AllChecks
  <2>3. check_price_freshness(o) /\ check_duplicate(o) /\ "worst_case_profit" \in o.passed
    BY <1>0, <2>2 DEF Checks, Sane, MarketNames
  <2>. QED
    BY <1>0, <2>3 DEF check_price_freshness, check_duplicate, Sane, Decided
<1>5. w.key \in DOMAIN seen' /\ (~w.shadow => seen'[w.key] >= w.decided)
  BY <1>0, <1>4 DEF Decided, Marked
<1>6. Recorded(w)'
  <2>1. w.decided = now /\ w.life = lives
    BY DEF Decided
  <2>. QED
    BY <1>0, <1>2, <1>3, <1>4, <1>5, <2>1 DEF Recorded
<1>7. ASSUME NEW x, Recorded(x) PROVE Apart(x, w)
  <2>. SUFFICES ASSUME ~w.shadow, ~x.shadow, w.key = x.key, w.life = x.life
                PROVE  Larger(x.decided - w.decided, w.decided - x.decided) > Window
    BY DEF Apart
  <2>1. x.decided \in Int /\ x.decided <= now /\ w.decided = now /\ x.life = lives
    BY <1>7 DEF Recorded, Decided
  <2>2. ~(now - x.decided <= Window)
    <3>. SUFFICES ASSUME now - x.decided <= Window PROVE FALSE
      OBVIOUS
    <3>1. x.key \in DOMAIN seen /\ seen[x.key] >= x.decided /\ seen[x.key] \in Int
      BY <1>7, <2>1 DEF Recorded, WorldTyped
    <3>2. seen[x.key] >= now - Window
      BY <1>0, <2>1, <3>1
    <3>3. x.key \in DOMAIN Evicted
      BY <3>1, <3>2 DEF Evicted
    <3>. QED
      BY <1>4, <3>3 DEF Decided
  <2>. QED
    BY <1>0, <2>1, <2>2 DEF Larger
<1>. QED
  BY <1>6, <1>7

-----------------------------------------------------------------------------
(* How far a rate goes *)

LEMMA PowersAre ==
  ASSUME NEW base \in Nat
  PROVE  /\ Powers(base)[0] = 1
         /\ \A n \in 1..MaxEvents : Powers(base)[n] = base * Powers(base)[n - 1]
         /\ \A n \in 0..MaxEvents : Powers(base)[n] \in Nat
<1>. DEFINE step == [n \in 1..MaxEvents |-> [v \in Nat |-> base * v]]
            IsPower(g) == g = [n \in 0..MaxEvents |-> IF n = 0 THEN 1 ELSE base * g[n - 1]]
<1>0. MaxEvents \in Nat
  BY EvaluationAssumption
<1>1. PICK h : Walk(MaxEvents, Nat, 1, step, h)
  <2>1. \A n \in 1..MaxEvents, v \in Nat : step[n][v] \in Nat
    OBVIOUS
  <2>. HIDE DEF step
  <2>. QED
    BY <1>0, <2>1, StepsExist
<1>2. IsPower(h)
  <2>1. /\ h \in [0..MaxEvents -> Nat] /\ h[0] = 1
        /\ \A n \in 1..MaxEvents : h[n] = step[n][h[n - 1]]
    BY <1>1 DEF Walk
  <2>2. ASSUME NEW n \in 1..MaxEvents PROVE h[n] = base * h[n - 1]
    <3>1. h[n - 1] \in Nat
      BY <1>0, <2>1
    <3>. QED
      BY <2>1, <3>1
  <2>3. ASSUME NEW n \in 0..MaxEvents PROVE h[n] = IF n = 0 THEN 1 ELSE base * h[n - 1]
    BY <1>0, <2>1, <2>2
  <2>. HIDE DEF step
  <2>. QED
    BY <2>1, <2>3
<1>3. PICK g : g = Powers(base) /\ IsPower(g)
  <2>1. Powers(base) = CHOOSE g : IsPower(g)
    BY DEF Powers
  <2>. HIDE DEF IsPower
  <2>. QED
    BY <1>2, <2>1
<1>4. /\ g[0] = 1 /\ \A n \in 1..MaxEvents : g[n] = base * g[n - 1]
  <2>1. ASSUME NEW n \in 0..MaxEvents PROVE g[n] = IF n = 0 THEN 1 ELSE base * g[n - 1]
    BY <1>3, Zenon
  <2>2. 0 \in 0..MaxEvents /\ \A n \in 1..MaxEvents : n \in 0..MaxEvents /\ n # 0
    BY <1>0
  <2>. QED
    BY <2>1, <2>2
<1>5. \A n \in 0..MaxEvents : g[n] \in Nat
  <2>. SUFFICES ASSUME NEW c \in 0..MaxEvents, g[c] \notin Nat PROVE FALSE
    OBVIOUS
  <2>. DEFINE B == {n \in 0..MaxEvents : g[n] \notin Nat}
  <2>1. B \in SUBSET (0..MaxEvents) /\ B # {}
    OBVIOUS
  <2>2. PICK n \in B : \A k \in B : n <= k
    <3>. HIDE DEF B
    <3>. QED
      BY <1>0, <2>1, SmallestNumber
  <2>3. n \in 1..MaxEvents /\ n - 1 \in 0..MaxEvents /\ n - 1 \notin B
    <3>1. n \in 0..MaxEvents /\ n # 0
      BY <1>4, <2>2
    <3>2. n \in 1..MaxEvents /\ n - 1 \in 0..MaxEvents /\ n \in Int /\ ~(n <= n - 1)
      BY <1>0, <3>1
    <3>. HIDE DEF B
    <3>. QED
      BY <2>2, <3>2
  <2>4. g[n - 1] \in Nat
    BY <2>3
  <2>. QED
    BY <1>4, <2>2, <2>3, <2>4
<1>. QED
  BY <1>3, <1>4, <1>5

LEMMA Outweighs ==
  ASSUME NEW a \in Int, NEW b \in Int, NEW p \in Nat, a <= b
  PROVE  a * p <= b * p
<1>1. (b - a) * p >= 0
  OBVIOUS
<1>2. (b - a) * p = b * p - a * p
  OBVIOUS
<1>. QED
  BY <1>1, <1>2

\* One more event moves a rate by half at most.
LEMMA RateKept ==
  ASSUME NEW f \in Nat, NEW r \in Int, NEW s \in Int, NEW p \in Nat, NEW q \in Nat,
         1 <= p, p <= q,
         \/ s = f
         \/ r * p <= f * q /\ r * p >= f /\ 2 * s <= 3 * r /\ 2 * s >= r
  PROVE  s * (2 * p) <= f * (3 * q) /\ s * (2 * p) >= f
<1>1. f * p <= f * q /\ f * p >= f /\ f * p \in Nat /\ f * q \in Nat
  <2>1. (q - p) * f >= 0 /\ (p - 1) * f >= 0
    OBVIOUS
  <2>. QED
    BY <2>1
<1>2. s * (2 * p) = (2 * s) * p /\ f * (3 * q) = 3 * (f * q)
  OBVIOUS
<1>3. CASE s = f
  BY <1>1, <1>2, <1>3
<1>4. CASE r * p <= f * q /\ r * p >= f /\ 2 * s <= 3 * r /\ 2 * s >= r
  <2>1. (2 * s) * p <= (3 * r) * p /\ r * p <= (2 * s) * p
    <3>1. (2 * s) \in Int /\ (3 * r) \in Int
      OBVIOUS
    <3>. QED
      BY <1>4, <3>1, Outweighs
  <2>2. (3 * r) * p = 3 * (r * p)
    OBVIOUS
  <2>3. PICK x \in Int, y \in Int, z \in Int : x = (2 * s) * p /\ y = r * p /\ z = f * q
    OBVIOUS
  <2>4. x <= 3 * y /\ y <= x /\ y <= z /\ y >= f
    BY <1>4, <2>1, <2>2, <2>3
  <2>. QED
    BY <1>2, <2>3, <2>4
<1>. QED
  BY <1>3, <1>4

LEMMA RateIsPositive ==
  ASSUME WorldTyped, RatesInBounds, NEW c \in Checked
  PROVE  rates[c] \in Int /\ rates[c] > 0
<1>1. PICK r \in Int, p \in Nat : r = rates[c] /\ p = Halving
  BY PowersAre DEF WorldTyped, RateTables, RatesInBounds, Halving
<1>2. r * p >= 1 /\ p >= 1
  BY <1>1, FallbackIs DEF RatesInBounds, Checked
<1>3. ASSUME r <= 0 PROVE r * p <= 0
  BY <1>3, Outweighs
<1>. QED
  BY <1>1, <1>2, <1>3

LEMMA BoundsKept ==
  ASSUME WorldTyped, RatesInBounds, events < MaxEvents, events' = events + 1,
         \A c \in Checked' :
            /\ c \in DOMAIN rates' /\ rates'[c] \in Int
            /\ \/ rates'[c] = FALLBACK_RATES[c]
               \/ c \in Checked /\ 2 * rates'[c] <= 3 * rates[c] /\ 2 * rates'[c] >= rates[c]
  PROVE  RatesInBounds'
<1>1. PICK p \in Nat, q \in Nat : p = Halving /\ q = Growth
  BY PowersAre DEF RatesInBounds, Halving, Growth
<1>2. events' \in 1..MaxEvents /\ events' - 1 = events
  BY EvaluationAssumption DEF RatesInBounds
<1>3. Halving' = 2 * p /\ Growth' = 3 * q
  <2>1. Powers(2)[events'] = 2 * Powers(2)[events] /\ Powers(3)[events'] = 3 * Powers(3)[events]
    BY <1>2, PowersAre
  <2>. QED
    BY <1>1, <2>1 DEF Halving, Growth
<1>4. 1 <= p /\ p <= q
  BY <1>1 DEF RatesInBounds
<1>5. ASSUME NEW c \in Checked'
      PROVE  /\ rates'[c] * Halving' <= FALLBACK_RATES[c] * Growth'
             /\ rates'[c] * Halving' >= FALLBACK_RATES[c]
  <2>1. PICK f \in Nat, s \in Int : f = FALLBACK_RATES[c] /\ s = rates'[c]
    BY FallbackIs DEF Checked
  <2>2. PICK r \in Int : c \in Checked =>
          r = rates[c] /\ r * p <= f * q /\ r * p >= f
    <3>1. c \in Checked => rates[c] \in Int
      BY DEF WorldTyped, RateTables, RatesInBounds
    <3>. QED
      BY <1>1, <2>1, <3>1 DEF RatesInBounds
  <2>3. s * (2 * p) <= f * (3 * q) /\ s * (2 * p) >= f
    BY <1>4, <2>1, <2>2, RateKept
  <2>. QED
    BY <1>3, <2>1, <2>3
<1>. QED
  BY <1>2, <1>3, <1>4, <1>5 DEF RatesInBounds

\* What leaves the rates alone moves them no further.
LEMMA BoundsStay ==
  ASSUME WorldTyped, RatesInBounds, events < MaxEvents, events' = events + 1,
         UNCHANGED <<rates, unchecked>>
  PROVE  RatesInBounds'
<1>1. ASSUME NEW c \in Checked
      PROVE  c \in DOMAIN rates /\ rates[c] \in Int /\ rates[c] >= 0
  <2>1. rates[c] \in Int /\ c \in DOMAIN rates
    BY DEF WorldTyped, RateTables, RatesInBounds
  <2>2. rates[c] > 0
    BY <2>1, RateIsPositive
  <2>. QED
    BY <2>1, <2>2
<1>2. Checked' = Checked
  BY DEF Checked
<1>. QED
  BY <1>1, <1>2, BoundsKept

-----------------------------------------------------------------------------
(* What the steps of an analysis do to it *)

LEMMA EvaluationBegins == EInit => EvaluationInv
<1>. SUFFICES ASSUME EInit PROVE EvaluationInv
  OBVIOUS
<1>1. ASSUME NEW g \in Goods PROVE offer[g].price \in Nat
  <2>. DEFINE S == PricesOf[g]
              f == [p \in S |-> p]
  <2>1. f \in [S -> Nat] /\ S # {} /\ IsFiniteSet(S)
    BY EvaluationAssumption
  <2>2. PICK d \in S : \A e \in S : f[e] <= f[d]
    <3>. HIDE DEF S, f
    <3>. QED
      BY <2>1, HighestOf
  <2>3. \A e \in S : d >= e
    BY <2>1, <2>2
  <2>4. Max(S) \in S
    <3>1. Max(S) = CHOOSE x \in S : \A y \in S : x >= y
      BY DEF Max
    <3>. HIDE DEF S
    <3>. QED
      BY <2>3, <3>1
  <2>5. offer[g].price = Max(S)
    BY DEF EInit
  <2>. QED
    BY <2>1, <2>4, <2>5
<1>2. FALLBACK_RATES \in RateTables
  BY FallbackIs
<1>3. AdaptiveFilterState \in [Fields -> Int]
  BY DEF AdaptiveFilterState, Fields
<1>4. WorldTyped
  <2>1. /\ now = 0 /\ lives = 0 /\ rates = FALLBACK_RATES /\ thresholds = AdaptiveFilterState
        /\ strictness \in Strictnesses /\ DOMAIN offer = Goods /\ DOMAIN seen = {}
    BY DEF EInit
  <2>. QED
    BY <1>1, <1>2, <1>3, <2>1, EvaluationAssumption DEF WorldTyped
<1>5. JobsAreSane /\ \A a \in Analyses : ~Pending(a)
  <2>1. job = [a \in Analyses |-> Idle]
    BY DEF EInit
  <2>. QED
    BY <2>1 DEF JobsAreSane, Pending, Idle
<1>6. DecisionsAreApart
  <2>1. posted = <<>> /\ posted \in Seq(Int) /\ Len(posted) = 0
    BY DEF EInit
  <2>. QED
    BY <1>5, <2>1 DEF DecisionsAreApart
<1>7. RatesInBounds
  <2>1. events = 0 /\ rates = FALLBACK_RATES /\ events \in 0..MaxEvents
    BY EvaluationAssumption DEF EInit
  <2>2. Halving = 1 /\ Growth = 1
    BY <2>1, PowersAre DEF Halving, Growth
  <2>3. \A c \in Checked : c \in DOMAIN FALLBACK_RATES /\ FALLBACK_RATES[c] \in Nat
    BY FallbackIs DEF Checked
  <2>. QED
    BY <2>1, <2>2, <2>3 DEF RatesInBounds
<1>. QED
  BY <1>4, <1>5, <1>6, <1>7 DEF EvaluationInv

\* What happens elsewhere keeps the decisions as they are.
LEMMA DecisionsStay ==
  ASSUME WorldTyped, DecisionsAreApart, posted' = posted,
         \/ UNCHANGED <<now, lives, seen>>
         \/ UNCHANGED <<lives, seen>> /\ now' = now + 1
         \/ UNCHANGED now /\ lives' = lives + 1,
         \A a \in Analyses : Pending(a)' => Pending(a) /\ job'[a] = job[a] /\ lives' = lives
  PROVE  DecisionsAreApart'
<1>1. ASSUME NEW w, Recorded(w) PROVE Recorded(w)'
  BY <1>1, RecordedStays
<1>2. \E S : posted' \in Seq(S)
  BY DEF DecisionsAreApart
<1>3. ASSUME NEW i \in 1..Len(posted) PROVE Recorded(posted[i])'
  <2>1. PICK w : w = posted[i]
    OBVIOUS
  <2>2. posted'[i] = w /\ Recorded(w)'
    BY <1>1, <2>1 DEF DecisionsAreApart
  <2>. QED
    BY <2>2 DEF Recorded
<1>4. \A i, j \in 1..Len(posted') : i # j => Apart(posted'[i], posted'[j])
  BY DEF DecisionsAreApart
<1>5. ASSUME NEW a \in Analyses, Pending(a)'
      PROVE  /\ Recorded(job[a].opp)' /\ (job[a].opp.life = lives)'
             /\ \A i \in 1..Len(posted') : Apart(posted'[i], job'[a].opp)
             /\ \A b \in Analyses : b # a /\ Pending(b)' => Apart(job'[b].opp, job'[a].opp)
  <2>1. Pending(a) /\ job'[a] = job[a] /\ lives' = lives
    BY <1>5
  <2>2. PICK w : w = job[a].opp
    OBVIOUS
  <2>3. Recorded(w)' /\ job'[a].opp = w
    BY <1>1, <2>1, <2>2 DEF DecisionsAreApart
  <2>4. Recorded(job[a].opp)'
    BY <2>3 DEF Recorded
  <2>5. \A b \in Analyses : b # a /\ Pending(b)' => Apart(job'[b].opp, job'[a].opp)
    BY <2>1 DEF DecisionsAreApart
  <2>. QED
    BY <2>1, <2>4, <2>5 DEF DecisionsAreApart
<1>. QED
  BY <1>2, <1>3, <1>4, <1>5 DEF DecisionsAreApart

LEMMA ValidatedRate ==
  ASSUME NEW f \in Int, NEW r \in Nat \ {0}, NEW s, s = validate_rate(f, r)
  PROVE  s \in Nat \ {0} /\ 2 * s <= 3 * r /\ 2 * s >= r
<1>1. CASE Whole * Larger(f - r, r - f) > MaxDeviation * r
  BY <1>1 DEF validate_rate
<1>2. CASE ~(Whole * Larger(f - r, r - f) > MaxDeviation * r)
  <2>1. s = f /\ 10000 * Larger(f - r, r - f) <= 5000 * r
    BY <1>2 DEF validate_rate, Whole, MaxDeviation, Larger
  <2>2. 2 * f <= 3 * r /\ 2 * f >= r
    <3>1. CASE f - r >= r - f
      BY <2>1, <3>1 DEF Larger
    <3>2. CASE ~(f - r >= r - f)
      BY <2>1, <3>2 DEF Larger
    <3>. QED
      BY <3>1, <3>2
  <2>. QED
    BY <2>1, <2>2
<1>. QED
  BY <1>1, <1>2

LEMMA GetRatesSteps ==
  ASSUME EvaluationInv, NEW table \in FetchedRates, GetRates(table) PROVE EvaluationInv'
<1>. USE DEF EvaluationInv
<1>1. /\ events < MaxEvents /\ events' = events + 1
      /\ rates' = Validated(table)
      /\ unchecked' = unchecked \cup (Currencies \ DOMAIN table)
      /\ UNCHANGED <<now, offer, thresholds, strictness, seen, job, posted, lives>>
  BY DEF GetRates, Currencies
<1>2. PICK C \in SUBSET Currencies : table \in [C -> Int]
  BY EvaluationAssumption DEF Currencies
<1>3. PICK D \in SUBSET Currencies : rates \in [D -> Int]
  BY DEF WorldTyped, RateTables
<1>4. ASSUME NEW c \in C
      PROVE  /\ rates'[c] \in Int
             /\ c \in Checked => 2 * rates'[c] <= 3 * rates[c] /\ 2 * rates'[c] >= rates[c]
  <2>1. rates'[c] = IF c = "USD" THEN 100
                    ELSE IF c \in D /\ rates[c] > 0 THEN validate_rate(table[c], rates[c])
                    ELSE table[c]
    BY <1>1, <1>2, <1>3 DEF Validated
  <2>2. table[c] \in Int
    BY <1>2
  <2>3. CASE c # "USD" /\ c \in D /\ rates[c] > 0
    <3>1. PICK r \in Nat \ {0} : r = rates[c]
      BY <1>3, <2>3
    <3>. PICK s : s = validate_rate(table[c], r)
      OBVIOUS
    <3>2. s \in Nat \ {0} /\ 2 * s <= 3 * r /\ 2 * s >= r
      BY <2>2, <3>1, ValidatedRate
    <3>. QED
      BY <2>1, <2>3, <3>1, <3>2
  <2>4. c \in Checked => c # "USD" /\ c \in D /\ rates[c] > 0
    BY <1>3, RateIsPositive DEF Checked, RatesInBounds
  <2>. QED
    BY <2>1, <2>2, <2>3, <2>4
<1>5. rates' \in [C -> Int]
  <2>1. DOMAIN rates' = C /\ rates' = [c \in C |-> rates'[c]]
    BY <1>1, <1>2 DEF Validated
  <2>. QED
    BY <1>4, <2>1
<1>6. RatesInBounds'
  <2>1. Checked' \subseteq C /\ Checked' \subseteq Checked
    BY <1>1, <1>2 DEF Checked
  <2>. QED
    BY <1>1, <1>4, <1>5, <2>1, BoundsKept
<1>7. WorldTyped'
  BY <1>1, <1>5 DEF WorldTyped, RateTables
<1>8. JobsAreSane'
  BY <1>1 DEF JobsAreSane, Sane
<1>9. DecisionsAreApart'
  BY <1>1, DecisionsStay DEF Pending
<1>. QED
  BY <1>6, <1>7, <1>8, <1>9

LEMMA GetNoRatesSteps == ASSUME EvaluationInv, GetNoRates PROVE EvaluationInv'
<1>. USE DEF EvaluationInv
<1>1. UNCHANGED <<now, offer, rates, unchecked, thresholds, strictness, seen, job, posted, lives, events>>
  BY DEF GetNoRates
<1>2. WorldTyped' /\ RatesInBounds'
  BY <1>1 DEF WorldTyped, RatesInBounds, Checked, Halving, Growth
<1>3. JobsAreSane'
  BY <1>1 DEF JobsAreSane, Sane
<1>4. DecisionsAreApart'
  BY <1>1, DecisionsStay DEF Pending
<1>. QED
  BY <1>2, <1>3, <1>4

LEMMA ScrapeSteps ==
  ASSUME EvaluationInv, NEW g \in Rescraped, NEW price \in PricesOf[g], Scrape(g, price)
  PROVE  EvaluationInv'
<1>. USE DEF EvaluationInv
<1>1. /\ events < MaxEvents /\ events' = events + 1
      /\ offer' = [offer EXCEPT ![g] = [price |-> price, at |-> now]]
      /\ UNCHANGED <<now, rates, unchecked, thresholds, strictness, seen, job, posted, lives>>
  BY DEF Scrape, Happen, mind
<1>2. price \in Nat /\ g \in Goods
  BY EvaluationAssumption
<1>3. WorldTyped'
  <2>1. DOMAIN offer' = Goods /\ \A h \in Goods : offer'[h].price \in Nat
    BY <1>1, <1>2 DEF WorldTyped
  <2>. QED
    BY <1>1, <2>1 DEF WorldTyped
<1>4. RatesInBounds'
  BY <1>1, BoundsStay
<1>5. JobsAreSane'
  BY <1>1 DEF JobsAreSane, Sane
<1>6. DecisionsAreApart'
  BY <1>1, DecisionsStay DEF Pending
<1>. QED
  BY <1>3, <1>4, <1>5, <1>6

LEMMA AdaptSteps ==
  ASSUME EvaluationInv, NEW ledger \in Ledgers, Adapt(ledger) PROVE EvaluationInv'
<1>. USE DEF EvaluationInv
<1>1. /\ events < MaxEvents /\ events' = events + 1
      /\ thresholds' = adapt(thresholds, compute_precision_metrics(ledger))
      /\ UNCHANGED <<now, offer, rates, unchecked, strictness, seen, job, posted, lives>>
  BY DEF Adapt, Happen
<1>2. thresholds' \in [Fields -> Int]
  <2>1. \A f \in Fields : Steps[f] \in Nat /\ Highest[f] \in Int /\ Lowest[f] \in Int
    BY DEF Fields, Steps, Highest, Lowest
  <2>2. thresholds \in [Fields -> Int]
    BY DEF WorldTyped
  <2>3. tighten(thresholds) \in [Fields -> Int]
    BY <2>1, <2>2 DEF tighten, Smaller
  <2>4. relax(thresholds) \in [Fields -> Int]
    BY <2>1, <2>2 DEF relax, Larger
  <2>. QED
    BY <1>1, <2>2, <2>3, <2>4, Zenon DEF adapt
<1>3. WorldTyped'
  BY <1>1, <1>2 DEF WorldTyped
<1>4. RatesInBounds'
  BY <1>1, BoundsStay
<1>5. JobsAreSane'
  BY <1>1 DEF JobsAreSane, Sane
<1>6. DecisionsAreApart'
  BY <1>1, DecisionsStay DEF Pending
<1>. QED
  BY <1>3, <1>4, <1>5, <1>6

LEMMA RestartSteps == ASSUME EvaluationInv, Restart PROVE EvaluationInv'
<1>. USE DEF EvaluationInv
<1>1. /\ events < MaxEvents /\ events' = events + 1 /\ lives' = lives + 1
      /\ rates' = FALLBACK_RATES /\ thresholds' = AdaptiveFilterState
      /\ DOMAIN seen' = {}
      /\ job' = [a \in Analyses |-> IF job[a] = Idle THEN Idle ELSE Over]
      /\ UNCHANGED <<now, offer, strictness, posted>>
  BY DEF Restart, Happen
<1>2. FALLBACK_RATES \in RateTables
  BY FallbackIs
<1>3. AdaptiveFilterState \in [Fields -> Int]
  BY DEF AdaptiveFilterState, Fields
<1>4. WorldTyped'
  BY <1>1, <1>2, <1>3 DEF WorldTyped
<1>5. RatesInBounds'
  <2>1. \A c \in Checked' : c \in DOMAIN rates' /\ rates'[c] \in Int /\ rates'[c] = FALLBACK_RATES[c]
    BY <1>1, FallbackIs DEF Checked
  <2>. QED
    BY <1>1, <2>1, BoundsKept
<1>6. DOMAIN job' = Analyses /\ \A a \in Analyses : job'[a].step \in {"idle", "over"}
  BY <1>1 DEF Idle, Over
<1>7. JobsAreSane'
  BY <1>6 DEF JobsAreSane
<1>8. DecisionsAreApart'
  BY <1>1, <1>6, DecisionsStay DEF Pending
<1>. QED
  BY <1>4, <1>5, <1>7, <1>8

LEMMA PassSteps == ASSUME EvaluationInv, Pass PROVE EvaluationInv'
<1>. USE DEF EvaluationInv
<1>1. now' = now + 1 /\ UNCHANGED <<offer, rates, unchecked, thresholds, strictness, seen, job, posted, lives, events>>
  BY DEF Pass, mind
<1>2. WorldTyped'
  BY <1>1 DEF WorldTyped
<1>3. RatesInBounds'
  BY <1>1 DEF RatesInBounds, Checked, Halving, Growth
<1>4. JobsAreSane'
  BY <1>1 DEF JobsAreSane, Sane
<1>5. DecisionsAreApart'
  BY <1>1, DecisionsStay DEF Pending
<1>. QED
  BY <1>2, <1>3, <1>4, <1>5

LEMMA BeginSteps ==
  ASSUME EvaluationInv, NEW a \in Analyses, Begin(a) PROVE EvaluationInv'
<1>. USE DEF EvaluationInv
<1>1. /\ job' = [job EXCEPT ![a] = [step |-> "begun", rates |-> rates]]
      /\ UNCHANGED <<now, offer, rates, unchecked, thresholds, strictness, seen, posted, lives, events>>
  BY DEF Begin, mind
<1>2. WorldTyped' /\ RatesInBounds'
  BY <1>1 DEF WorldTyped, RatesInBounds, Checked, Halving, Growth
<1>3. JobsAreSane'
  BY <1>1 DEF JobsAreSane, WorldTyped, Sane
<1>4. DecisionsAreApart'
  <2>1. \A b \in Analyses : Pending(b)' => Pending(b) /\ job'[b] = job[b]
    BY <1>1 DEF Pending, JobsAreSane
  <2>. QED
    BY <1>1, <2>1, DecisionsStay
<1>. QED
  BY <1>2, <1>3, <1>4

LEMMA ReadSteps ==
  ASSUME EvaluationInv, NEW a \in Analyses, Read(a) PROVE EvaluationInv'
<1>. USE DEF EvaluationInv
<1>. DEFINE F == {g \in Goods : now - offer[g].at < Stale}
            offers == [g \in F |-> offer[g]]
            v == Market(offers, job[a].rates)
<1>1. /\ job[a].step = "begun"
      /\ job' = [job EXCEPT ![a] = [step |-> "read", found |-> Qualified(v)]]
      /\ UNCHANGED <<now, offer, rates, unchecked, thresholds, strictness, seen, posted, lives, events>>
  BY DEF Read, mind
<1>2. \A o \in Qualified(v) : Sane(o)
  <2>1. F \in SUBSET Goods /\ DOMAIN offers = F /\ \A g \in F : offers[g].price \in Nat
    BY DEF WorldTyped
  <2>2. job[a].rates \in RateTables
    BY <1>1 DEF JobsAreSane
  <2>3. View(v, F)
    <3>. HIDE DEF F, offers
    <3>. QED
      BY <2>1, <2>2, MarketIs
  <2>. HIDE DEF v, F
  <2>. QED
    BY <2>3, QualifiedIsSane
<1>. HIDE DEF v
<1>3. WorldTyped' /\ RatesInBounds'
  BY <1>1 DEF WorldTyped, RatesInBounds, Checked, Halving, Growth
<1>4. JobsAreSane'
  <2>1. PICK found : found = Qualified(v)
    OBVIOUS
  <2>2. DOMAIN job' = Analyses /\ job'[a] = [step |-> "read", found |-> found]
        /\ \A b \in Analyses : b # a => job'[b] = job[b]
    BY <1>1, <2>1 DEF JobsAreSane
  <2>3. \A o \in found : Sane(o)
    BY <1>2, <2>1
  <2>4. ASSUME NEW b \in Analyses
        PROVE  /\ job'[b].step = "begun" => job'[b].rates \in RateTables
               /\ job'[b].step = "read" => \A o \in job'[b].found : Sane(o)
    BY <2>2, <2>3 DEF JobsAreSane
  <2>. QED
    BY <2>2, <2>4 DEF JobsAreSane, Sane
<1>5. DecisionsAreApart'
  <2>1. \A b \in Analyses : Pending(b)' => Pending(b) /\ job'[b] = job[b]
    BY <1>1 DEF Pending, JobsAreSane
  <2>. QED
    BY <1>1, <2>1, DecisionsStay
<1>. QED
  BY <1>3, <1>4, <1>5

LEMMA DecideSteps ==
  ASSUME EvaluationInv, NEW a \in Analyses, Decide(a) PROVE EvaluationInv'
<1>. USE DEF EvaluationInv
<1>1. /\ job[a].step = "read"
      /\ UNCHANGED <<now, offer, rates, unchecked, thresholds, strictness, posted, lives, events>>
  BY DEF Decide
<1>2. RatesInBounds'
  BY <1>1 DEF RatesInBounds, Checked, Halving, Growth
<1>3. PICK found : found = job[a].found /\ \A o \in found : Sane(o)
  BY <1>1 DEF JobsAreSane
<1>4. CASE job' = [job EXCEPT ![a] = Over] /\ seen' = seen
  <2>1. WorldTyped'
    BY <1>1, <1>4 DEF WorldTyped
  <2>2. JobsAreSane'
    BY <1>4 DEF JobsAreSane, Over, Sane
  <2>3. \A b \in Analyses : Pending(b)' => Pending(b) /\ job'[b] = job[b]
    BY <1>4 DEF Pending, JobsAreSane, Over
  <2>. QED
    BY <1>1, <1>2, <1>4, <2>1, <2>2, <2>3, DecisionsStay
<1>5. ASSUME NEW o \in Best(found), seen' = Marked(o),
             \/ job' = [job EXCEPT ![a] = Over]
             \/ /\ validate_arbitrage(o)
                /\ \E w : Decided(w, o) /\ job' = [job EXCEPT ![a] = [step |-> "write", opp |-> w]]
      PROVE  EvaluationInv'
  <2>1. WorldTyped'
    <3>1. \A k \in DOMAIN seen' : seen'[k] \in Int /\ seen'[k] <= now
      BY <1>5, MarkedType
    <3>. QED
      BY <1>1, <3>1 DEF WorldTyped
  <2>2. JobsAreSane'
    <3>1. DOMAIN job' = Analyses /\ job'[a].step \in {"over", "write"}
          /\ \A b \in Analyses : b # a => job'[b] = job[b]
      BY <1>5 DEF JobsAreSane, Over
    <3>. QED
      BY <3>1 DEF JobsAreSane, Sane
  <2>3. ASSUME NEW w, Recorded(w) PROVE Recorded(w)'
    BY <1>1, <1>5, <2>3, RecordedStays
  <2>4. \A i \in 1..Len(posted') : Recorded(posted[i])'
    <3>. SUFFICES ASSUME NEW i \in 1..Len(posted') PROVE Recorded(posted[i])'
      OBVIOUS
    <3>1. PICK w : w = posted[i]
      OBVIOUS
    <3>2. posted'[i] = w /\ Recorded(w)'
      BY <1>1, <2>3, <3>1 DEF DecisionsAreApart
    <3>. QED
      BY <3>2 DEF Recorded
  <2>5. /\ \E S : posted' \in Seq(S)
        /\ \A i, j \in 1..Len(posted') : i # j => Apart(posted'[i], posted'[j])
    BY <1>1 DEF DecisionsAreApart
  <2>6. ASSUME NEW b \in Analyses, b # a, Pending(b)'
        PROVE  /\ Pending(b) /\ job'[b] = job[b]
               /\ Recorded(job[b].opp)' /\ (job[b].opp.life = lives)'
               /\ \A i \in 1..Len(posted') : Apart(posted'[i], job'[b].opp)
    <3>1. Pending(b) /\ job'[b] = job[b]
      BY <1>5, <2>6 DEF Pending, JobsAreSane
    <3>2. PICK w : w = job[b].opp
      OBVIOUS
    <3>3. Recorded(w)' /\ job'[b].opp = w
      BY <2>3, <3>1, <3>2 DEF DecisionsAreApart
    <3>4. Recorded(job[b].opp)'
      BY <3>3 DEF Recorded
    <3>. QED
      BY <1>1, <3>1, <3>4 DEF DecisionsAreApart
  <2>7. CASE job' = [job EXCEPT ![a] = Over]
    <3>1. ~Pending(a)'
      BY <2>7 DEF Pending, JobsAreSane, Over
    <3>2. DecisionsAreApart'
      BY <2>4, <2>5, <2>6, <3>1 DEF DecisionsAreApart
    <3>. QED
      BY <1>2, <2>1, <2>2, <3>2
  <2>8. ASSUME validate_arbitrage(o), NEW w, Decided(w, o),
               job' = [job EXCEPT ![a] = [step |-> "write", opp |-> w]]
        PROVE  EvaluationInv'
    <3>1. Recorded(w)' /\ \A x : Recorded(x) => Apart(x, w)
      BY <1>1, <1>3, <1>5, <2>8, DecisionIsRecorded
    <3>2. job'[a].opp = w /\ w.life = lives
      BY <2>8 DEF JobsAreSane, Decided
    <3>3. Recorded(job[a].opp)'
      BY <3>1, <3>2 DEF Recorded
    <3>4. \A i \in 1..Len(posted') : Apart(posted'[i], job'[a].opp)
      BY <1>1, <3>1, <3>2 DEF DecisionsAreApart
    <3>5. ASSUME NEW b \in Analyses, b # a, Pending(b)'
          PROVE  Apart(job'[b].opp, job'[a].opp) /\ Apart(job'[a].opp, job'[b].opp)
      <4>1. job'[b] = job[b] /\ Recorded(job[b].opp)
        BY <2>6, <3>5 DEF DecisionsAreApart
      <4>2. Apart(job'[b].opp, job'[a].opp)
        BY <3>1, <3>2, <4>1
      <4>3. job'[b].opp.decided \in Int /\ job'[a].opp.decided \in Int
        BY <3>1, <3>2, <4>1 DEF Recorded
      <4>. QED
        BY <4>2, <4>3, Symmetric
    <3>6. ASSUME NEW b \in Analyses, NEW c \in Analyses, b # c, Pending(b)', Pending(c)'
          PROVE  Apart(job'[b].opp, job'[c].opp)
      <4>1. CASE b = a \/ c = a
        BY <3>5, <3>6, <4>1
      <4>2. CASE b # a /\ c # a
        BY <2>6, <3>6, <4>2 DEF DecisionsAreApart
      <4>. QED
        BY <4>1, <4>2
    <3>7. DecisionsAreApart'
      <4>1. ASSUME NEW b \in Analyses, Pending(b)'
            PROVE  /\ Recorded(job[b].opp)' /\ (job[b].opp.life = lives)'
                   /\ \A i \in 1..Len(posted') : Apart(posted'[i], job'[b].opp)
        BY <1>1, <2>6, <3>2, <3>3, <3>4, <4>1
      <4>. QED
        BY <2>4, <2>5, <3>6, <4>1 DEF DecisionsAreApart
    <3>. QED
      BY <1>2, <2>1, <2>2, <3>7
  <2>. QED
    BY <1>5, <2>7, <2>8
<1>6. CASE Best(found) = {} /\ job' = [job EXCEPT ![a] = Over] /\ UNCHANGED seen
  BY <1>4, <1>6
<1>7. ASSUME NEW o \in Best(found), seen' = Marked(o), validate_arbitrage(o),
             job' = [job EXCEPT ![a] =
               [step |-> "write", opp |->
                  [life |-> lives, key |-> Key(o),
                   route |-> <<About[o.buy].market, About[o.sell].market>>,
                   net |-> o.calc.net, roi |-> o.calc.roi, floor |-> thresholds,
                   decided |-> now, oldest |-> o.oldest, shadow |-> strictness.shadow,
                   few |-> o.few, atLowest |-> o.lowest - o.calc.buy - o.calc.fees,
                   mates |-> \A r \in o.rivals \cup {o.sell} : Compatible(o.buy, r)]]]
      PROVE  EvaluationInv'
  <2>1. PICK w : w = [life |-> lives, key |-> Key(o),
                   route |-> <<About[o.buy].market, About[o.sell].market>>,
                   net |-> o.calc.net, roi |-> o.calc.roi, floor |-> thresholds,
                   decided |-> now, oldest |-> o.oldest, shadow |-> strictness.shadow,
                   few |-> o.few, atLowest |-> o.lowest - o.calc.buy - o.calc.fees,
                   mates |-> \A r \in o.rivals \cup {o.sell} : Compatible(o.buy, r)]
    OBVIOUS
  <2>2. Decided(w, o)
    BY <2>1 DEF Decided
  <2>3. job' = [job EXCEPT ![a] = [step |-> "write", opp |-> w]]
    BY <1>7, <2>1, Zenon
  <2>. QED
    BY <1>5, <1>7, <2>2, <2>3
<1>8. ASSUME NEW o \in Best(found), seen' = Marked(o), ~validate_arbitrage(o),
             job' = [job EXCEPT ![a] = Over]
      PROVE  EvaluationInv'
  BY <1>5, <1>8
<1>. QED
  <2>. HIDE DEF EvaluationInv
  <2>. QED
    BY <1>3, <1>6, <1>7, <1>8, Zenon DEF Decide

LEMMA WriteSteps ==
  ASSUME EvaluationInv, NEW a \in Analyses, WriteOpportunity(a) PROVE EvaluationInv'
<1>. USE DEF EvaluationInv
<1>1. /\ Pending(a)
      /\ posted' = Append(posted, job[a].opp) \/ posted' = posted
      /\ job' = [job EXCEPT ![a] = Over]
      /\ UNCHANGED <<now, offer, rates, unchecked, thresholds, strictness, seen, lives, events>>
  BY DEF WriteOpportunity, Pending, mind
<1>2. WorldTyped' /\ RatesInBounds'
  BY <1>1 DEF WorldTyped, RatesInBounds, Checked, Halving, Growth
<1>3. JobsAreSane'
  BY <1>1 DEF JobsAreSane, Over, Sane
<1>4. \A b \in Analyses : Pending(b)' => b # a /\ Pending(b) /\ job'[b] = job[b]
  BY <1>1 DEF Pending, JobsAreSane, Over
<1>5. CASE posted' = posted
  BY <1>1, <1>2, <1>3, <1>4, <1>5, DecisionsStay
<1>6. CASE posted' = Append(posted, job[a].opp)
  <2>1. PICK w : w = job[a].opp
    OBVIOUS
  <2>2. PICK S : posted \in Seq(S)
    BY DEF DecisionsAreApart
  <2>3. posted \in Seq(S \cup {w})
    BY <2>2, SeqWidens
  <2>4. /\ posted' \in Seq(S \cup {w}) /\ Len(posted) \in Nat /\ Len(posted') = Len(posted) + 1
        /\ \A i \in 1..Len(posted) : posted'[i] = posted[i]
        /\ posted'[Len(posted) + 1] = w
    BY <1>6, <2>1, <2>3, AppendProperties, LenProperties
  <2>5. /\ Recorded(w) /\ \A i \in 1..Len(posted) : Apart(posted[i], w)
        /\ \A b \in Analyses : b # a /\ Pending(b) => Apart(job[b].opp, w)
    BY <1>1, <2>1 DEF DecisionsAreApart
  <2>6. ASSUME NEW x, Recorded(x) PROVE Recorded(x)'
    BY <1>1, <2>6, RecordedStays
  <2>7. ASSUME NEW i \in 1..Len(posted') PROVE Recorded(posted[i])'
    <3>1. PICK x : x = posted'[i]
      OBVIOUS
    <3>2. Recorded(x)
      <4>1. CASE i = Len(posted) + 1
        BY <2>4, <2>5, <3>1, <4>1
      <4>2. CASE i # Len(posted) + 1
        <5>1. i \in 1..Len(posted)
          BY <2>4, <4>2
        <5>. QED
          BY <2>4, <3>1, <5>1 DEF DecisionsAreApart
      <4>. QED
        BY <4>1, <4>2
    <3>3. Recorded(x)'
      BY <2>6, <3>2
    <3>. QED
      BY <3>1, <3>3 DEF Recorded
  <2>8. ASSUME NEW i \in 1..Len(posted) PROVE Apart(posted[i], w) /\ Apart(w, posted[i])
    <3>1. Apart(posted[i], w) /\ Recorded(posted[i])
      BY <2>5 DEF DecisionsAreApart
    <3>2. posted[i].decided \in Int /\ w.decided \in Int
      BY <2>5, <3>1 DEF Recorded
    <3>. QED
      BY <3>1, <3>2, Symmetric
  <2>9. ASSUME NEW i \in 1..Len(posted'), NEW j \in 1..Len(posted'), i # j
        PROVE  Apart(posted'[i], posted'[j])
    <3>1. CASE i = Len(posted) + 1
      <4>1. j \in 1..Len(posted)
        BY <2>4, <2>9, <3>1
      <4>. QED
        BY <2>4, <2>8, <3>1, <4>1
    <3>2. CASE j = Len(posted) + 1
      <4>1. i \in 1..Len(posted)
        BY <2>4, <2>9, <3>2
      <4>. QED
        BY <2>4, <2>8, <3>2, <4>1
    <3>3. CASE i # Len(posted) + 1 /\ j # Len(posted) + 1
      <4>1. i \in 1..Len(posted) /\ j \in 1..Len(posted)
        BY <2>4, <3>3
      <4>. QED
        BY <2>4, <2>9, <4>1 DEF DecisionsAreApart
    <3>. QED
      BY <3>1, <3>2, <3>3
  <2>10. ASSUME NEW b \in Analyses, Pending(b)'
         PROVE  /\ Recorded(job[b].opp)' /\ (job[b].opp.life = lives)'
                /\ \A i \in 1..Len(posted') : Apart(posted'[i], job'[b].opp)
                /\ \A c \in Analyses : c # b /\ Pending(c)' => Apart(job'[c].opp, job'[b].opp)
    <3>1. b # a /\ Pending(b) /\ job'[b] = job[b]
      BY <1>4, <2>10
    <3>2. PICK x : x = job[b].opp
      OBVIOUS
    <3>3. /\ Recorded(x) /\ x.life = lives /\ job'[b].opp = x /\ Apart(w, x)
          /\ \A i \in 1..Len(posted) : Apart(posted[i], x)
      <4>1. Apart(job[a].opp, job[b].opp)
        BY <1>1, <3>1 DEF DecisionsAreApart
      <4>. QED
        BY <2>1, <3>1, <3>2, <4>1 DEF DecisionsAreApart
    <3>4. Recorded(x)'
      BY <2>6, <3>3
    <3>5. Recorded(job[b].opp)'
      BY <3>3, <3>4 DEF Recorded
    <3>6. ASSUME NEW i \in 1..Len(posted') PROVE Apart(posted'[i], job'[b].opp)
      <4>1. CASE i = Len(posted) + 1
        BY <2>4, <3>3, <4>1
      <4>2. CASE i # Len(posted) + 1
        <5>1. i \in 1..Len(posted)
          BY <2>4, <4>2
        <5>. QED
          BY <2>4, <3>3, <5>1
      <4>. QED
        BY <4>1, <4>2
    <3>7. ASSUME NEW c \in Analyses, c # b, Pending(c)' PROVE Apart(job'[c].opp, job'[b].opp)
      <4>1. Pending(c) /\ job'[c] = job[c]
        BY <1>4, <3>7
      <4>. QED
        BY <3>1, <3>7, <4>1 DEF DecisionsAreApart
    <3>. QED
      BY <1>1, <3>3, <3>5, <3>6, <3>7
  <2>11. \E T : posted' \in Seq(T)
    BY <2>4
  <2>12. DecisionsAreApart'
    BY <2>7, <2>9, <2>10, <2>11 DEF DecisionsAreApart
  <2>. QED
    BY <1>2, <1>3, <2>12
<1>. QED
  BY <1>1, <1>5, <1>6

LEMMA EvaluationStep == ASSUME EvaluationInv, ENext PROVE EvaluationInv'
<1>1. ASSUME NEW a \in Analyses, Begin(a) \/ Read(a) \/ Decide(a) \/ WriteOpportunity(a)
      PROVE  EvaluationInv'
  BY <1>1, BeginSteps, ReadSteps, DecideSteps, WriteSteps
<1>2. ASSUME NEW g \in Rescraped, NEW price \in PricesOf[g], Scrape(g, price) PROVE EvaluationInv'
  BY <1>2, ScrapeSteps
<1>3. ASSUME NEW r \in FetchedRates, GetRates(r) PROVE EvaluationInv'
  BY <1>3, GetRatesSteps
<1>4. ASSUME NEW ledger \in Ledgers, Adapt(ledger) PROVE EvaluationInv'
  BY <1>4, AdaptSteps
<1>5. CASE GetNoRates \/ Restart \/ Pass
  BY <1>5, GetNoRatesSteps, RestartSteps, PassSteps
<1>. QED
  BY <1>1, <1>2, <1>3, <1>4, <1>5 DEF ENext

LEMMA EvaluationSound ==
  ASSUME EvaluationInv
  PROVE  /\ PostedWereFresh /\ PostedOncePerWindow /\ PostedPayAtTheLowest
         /\ PostedAreAboveTheFloor /\ RatesAreBelievable
<1>. USE DEF EvaluationInv
<1>1. DOMAIN posted = 1..Len(posted)
  BY LenProperties DEF DecisionsAreApart
<1>2. \A i \in DOMAIN posted : Recorded(posted[i])
  BY <1>1 DEF DecisionsAreApart
<1>3. PostedWereFresh
  BY <1>2 DEF PostedWereFresh, Vetted, Recorded
<1>4. PostedPayAtTheLowest
  BY <1>2 DEF PostedPayAtTheLowest, Vetted, Recorded
<1>5. PostedAreAboveTheFloor
  BY <1>2 DEF PostedAreAboveTheFloor, Recorded
<1>6. PostedOncePerWindow
  BY <1>1 DEF PostedOncePerWindow, Vetted, DecisionsAreApart, Apart
<1>7. RatesAreBelievable
  BY DEF RatesAreBelievable, RatesInBounds, Checked, Currencies, Growth, Halving
<1>. QED
  BY <1>3, <1>4, <1>5, <1>6, <1>7

-----------------------------------------------------------------------------
(* The engines together *)

\* Each part keeps its invariant, and rests while another one moves.
EnginesInv == PipelineInv /\ OutcomesInv /\ EvaluationInv

LEMMA PipelineRests == ASSUME PipelineInv, UNCHANGED dvars PROVE PipelineInv'
<1>1. UNCHANGED <<direct, handed, hand, runs, saved, advices, heard, ears, batch, turn, approved, batches,
                  chosen, taken, todo, tickets>>
  BY DEF dvars, orchestration, optimizing, bridging
<1>2. OrchestratorInv'
  BY <1>1 DEF PipelineInv, OrchestratorInv, OrchestratorTyped, Concluded, BlindNeverAdvised, Acted, Weighed,
    Publishing, Executed, Count, Of
<1>3. OptimizerTyped' /\ InTurn'
  BY <1>1 DEF PipelineInv, OptimizerInv, OptimizerTyped, InTurn
<1>4. Relayed'
  BY <1>1 DEF PipelineInv, OptimizerInv, Relayed, HeardOf, Until, Count, Of
<1>5. Rationed'
  BY <1>1, RationedStays DEF PipelineInv, OptimizerInv
<1>6. BridgeInv'
  BY <1>1 DEF PipelineInv, BridgeInv, BridgeTyped, Ticketed, Events, Heeded, Until, Count, Of
<1>. QED
  BY <1>2, <1>3, <1>4, <1>5, <1>6 DEF PipelineInv, OptimizerInv

LEMMA OutcomesRest == ASSUME OutcomesInv, UNCHANGED outcomeVars PROVE OutcomesInv'
  BY DEF OutcomesInv, outcomeVars

LEMMA EvaluationRests == ASSUME EvaluationInv, UNCHANGED evars PROVE EvaluationInv'
<1>1. UNCHANGED <<now, offer, rates, unchecked, thresholds, strictness, seen, job, posted, lives, events>>
  BY DEF evars, mind
<1>2. WorldTyped' /\ RatesInBounds'
  BY <1>1 DEF EvaluationInv, WorldTyped, RatesInBounds, Checked, Halving, Growth
<1>3. JobsAreSane'
  BY <1>1 DEF EvaluationInv, JobsAreSane, Sane
<1>4. DecisionsAreApart'
  BY <1>1, DecisionsStay DEF EvaluationInv, Pending
<1>. QED
  BY <1>2, <1>3, <1>4 DEF EvaluationInv

LEMMA EnginesBegin == EnginesInit => EnginesInv
  BY PipelineBegins, OutcomesBegin, EvaluationBegins DEF EnginesInit, EnginesInv

LEMMA EnginesStep == EnginesInv /\ [EnginesNext]_engineVars => EnginesInv'
<1>. SUFFICES ASSUME EnginesInv, [EnginesNext]_engineVars PROVE EnginesInv'
  OBVIOUS
<1>1. /\ DNext \/ UNCHANGED dvars
      /\ OutcomesNext \/ UNCHANGED outcomeVars
      /\ ENext \/ UNCHANGED evars
  BY Zenon DEF EnginesNext, engineVars
<1>2. PipelineInv'
  BY <1>1, PipelineStep, PipelineRests DEF EnginesInv
<1>3. OutcomesInv'
  BY <1>1, OutcomesStep, OutcomesRest DEF EnginesInv
<1>4. EvaluationInv'
  BY <1>1, EvaluationStep, EvaluationRests DEF EnginesInv
<1>. QED
  BY <1>2, <1>3, <1>4 DEF EnginesInv

LEMMA EnginesInvariance == EnginesSpec => []EnginesInv
  BY EnginesBegin, EnginesStep, PTL DEF EnginesSpec

\* What the engines advise was decided with both signals in sight, once for each
\* time it was received, in batches within the capital and the limits; nothing
\* is bought on it without a human.
THEOREM PipelineIsSound ==
  EnginesSpec => [](NothingIsDoneTwice /\ BlindNeverAdvised /\ BatchesAreWithinLimits /\ NothingIsBought)
<1>1. EnginesInv => NothingIsDoneTwice /\ BlindNeverAdvised /\ BatchesAreWithinLimits /\ NothingIsBought
  BY PipelineSound DEF EnginesInv
<1>. QED
  BY <1>1, EnginesInvariance, PTL

\* What a scan writes was fresh when it was decided, is written once a window
\* and life, pays at the lowest price of few competitors and is above every
\* floor; no fetch moves a rate by more than half, of a currency that every
\* answer had.
THEOREM AnalysesAreSound ==
  EnginesSpec => [](/\ PostedWereFresh /\ PostedOncePerWindow /\ PostedPayAtTheLowest
                    /\ PostedAreAboveTheFloor /\ RatesAreBelievable)
<1>1. EnginesInv => /\ PostedWereFresh /\ PostedOncePerWindow /\ PostedPayAtTheLowest
                    /\ PostedAreAboveTheFloor /\ RatesAreBelievable
  BY EvaluationSound DEF EnginesInv
<1>. QED
  BY <1>1, EnginesInvariance, PTL

\* All that decides, and what is made of the trades afterwards.
THEOREM EnginesAreSound == EnginesSpec => []EnginesSound
<1>1. EnginesInv => EnginesSound
  BY PipelineSound, EvaluationSound, OutcomesSound DEF EnginesInv, EnginesSound
<1>. QED
  BY <1>1, EnginesInvariance, PTL

-----------------------------------------------------------------------------
(* Arithmetic of the rules *)

LEMMA ProductsGrow ==
    ASSUME NEW a \in Nat, NEW b \in Nat, NEW c \in Nat, NEW d \in Nat, a <= c, b <= d
    PROVE  a * b \in Nat /\ c * d \in Nat /\ a * b <= c * d
  <1>1. a * b \in Nat /\ c * d \in Nat /\ c * b \in Nat /\ (c - a) * b \in Nat /\ c * (d - b) \in Nat
    OBVIOUS
  <1>2. (c - a) * b = c * b - a * b /\ c * (d - b) = c * d - c * b
    OBVIOUS
  <1> PICK x, y, z : x = a * b /\ y = c * b /\ z = c * d
    OBVIOUS
  <1> QED BY <1>1, <1>2

\* Dividing the more by the less.
LEMMA QuotientIs ==
    ASSUME NEW a \in Nat, NEW n \in Nat \ {0}
    PROVE  /\ a \div n \in Nat /\ (a \div n) * n <= a /\ a < (a \div n) * n + n
           /\ \A q \in Nat : q * n <= a <=> q <= a \div n
  OBVIOUS

LEMMA QuotientsGrow ==
    ASSUME NEW a \in Nat, NEW b \in Nat, NEW m \in Nat \ {0}, NEW n \in Nat \ {0}, a <= b, n <= m
    PROVE  a \div m <= b \div n
  OBVIOUS

-----------------------------------------------------------------------------
(* The realism guard *)

Purchase(x) ==
    /\ x.expected \in Nat /\ x.current \in Nat /\ x.sell \in Int /\ x.fees \in Int
    /\ x.stock \in Nat \cup {UnknownStock} /\ x.stockouts \in Nat /\ x.latency \in Nat
    /\ x.volatility \in Nat /\ x.monthly \in Nat /\ x.roi \in Int /\ x.reviews \in Nat
    /\ x.competitors \in Nat

\* y is no easier than x.
Harder(x, y) ==
    /\ x.expected = y.expected /\ x.current = y.current /\ x.sell = y.sell /\ x.stock = y.stock
    /\ x.fees <= y.fees /\ x.stockouts <= y.stockouts /\ x.latency <= y.latency
    /\ x.volatility <= y.volatility /\ x.monthly <= y.monthly /\ x.roi <= y.roi
    /\ x.reviews <= y.reviews /\ x.competitors <= y.competitors

LEMMA SlippageGrows ==
    ASSUME NEW x, NEW y, Purchase(x), Purchase(y), Harder(x, y)
    PROVE  slippage(x) \in Nat /\ slippage(y) \in Nat /\ slippage(x) <= slippage(y)
  BY DEF Purchase, Harder, slippage, Smaller, Whole

LEMMA StockSinks ==
    ASSUME NEW x, NEW y, Purchase(x), Purchase(y), Harder(x, y)
    PROVE  check_stock(x) \in Nat /\ check_stock(y) \in Nat /\ check_stock(y) <= check_stock(x)
  BY DEF Purchase, Harder, check_stock, UnknownStock, Whole

LEMMA PenaltyGrows ==
    ASSUME NEW x, NEW y, Purchase(x), Purchase(y), Harder(x, y)
    PROVE  /\ latency_penalty(x) \in Nat /\ latency_penalty(y) \in Nat
           /\ latency_penalty(x) <= latency_penalty(y) /\ latency_penalty(y) <= Whole
  <1> PICK a \in Nat, b \in Nat : a = x.latency /\ b = y.latency /\ a <= b
    BY DEF Purchase, Harder
  <1>1. latency_penalty(x) = Smaller(10000, 5 * Larger(0, a - 120))
    BY DEF latency_penalty, Whole, WarningLatency
  <1>2. latency_penalty(y) = Smaller(10000, 5 * Larger(0, b - 120))
    BY DEF latency_penalty, Whole, WarningLatency
  <1> QED BY <1>1, <1>2 DEF Smaller, Larger, Whole

LEMMA CompetitionGrows ==
    ASSUME NEW x, NEW y, Purchase(x), Purchase(y), Harder(x, y)
    PROVE  /\ competition(x) \in Nat /\ competition(y) \in Nat
           /\ competition(x) <= competition(y) /\ competition(y) <= Whole
  <1>1. /\ HighRoi(x.roi) \in Nat /\ HighRoi(y.roi) \in Nat /\ HighRoi(x.roi) <= HighRoi(y.roi)
    BY DEF Purchase, Harder, HighRoi, Smaller
  <1>2. /\ Crowd(x.reviews, 200, 2500) \in Nat /\ Crowd(y.reviews, 200, 2500) \in Nat
        /\ Crowd(x.reviews, 200, 2500) <= Crowd(y.reviews, 200, 2500)
    BY DEF Purchase, Harder, Crowd, Smaller
  <1>3. /\ Crowd(x.monthly, 15, 2000) \in Nat /\ Crowd(y.monthly, 15, 2000) \in Nat
        /\ Crowd(x.monthly, 15, 2000) <= Crowd(y.monthly, 15, 2000)
    BY DEF Purchase, Harder, Crowd, Smaller
  <1>4. /\ 30 * Larger(0, x.competitors - 15) \in Nat /\ 30 * Larger(0, y.competitors - 15) \in Nat
        /\ 30 * Larger(0, x.competitors - 15) <= 30 * Larger(0, y.competitors - 15)
    BY DEF Purchase, Harder, Larger
  <1> PICK a \in Nat, b \in Nat, c \in Nat, d \in Nat :
        /\ a = HighRoi(x.roi) /\ b = Crowd(x.reviews, 200, 2500)
        /\ c = Crowd(x.monthly, 15, 2000) /\ d = 30 * Larger(0, x.competitors - 15)
    BY <1>1, <1>2, <1>3, <1>4
  <1> PICK e \in Nat, f \in Nat, g \in Nat, h \in Nat :
        /\ e = HighRoi(y.roi) /\ f = Crowd(y.reviews, 200, 2500)
        /\ g = Crowd(y.monthly, 15, 2000) /\ h = 30 * Larger(0, y.competitors - 15)
    BY <1>1, <1>2, <1>3, <1>4
  <1>5. /\ competition(x) = Smaller(10000, a + Smaller(2500, b) + Smaller(2000, c) + Smaller(1500, d))
        /\ competition(y) = Smaller(10000, e + Smaller(2500, f) + Smaller(2000, g) + Smaller(1500, h))
    BY DEF competition, Whole
  <1>6. a <= e /\ b <= f /\ c <= g /\ d <= h
    BY <1>1, <1>2, <1>3, <1>4
  <1> HIDE <1>1, <1>2, <1>3, <1>4
  <1> QED BY <1>5, <1>6 DEF Smaller, Whole

LEMMA ShareGrows ==
    ASSUME NEW a \in Nat, NEW b \in Nat, NEW c \in Nat, NEW d \in Nat, a <= c, b <= d
    PROVE  Share(a, b) \in Nat /\ Share(c, d) \in Nat /\ Share(a, b) <= Share(c, d)
  <1> PICK p \in Nat, q \in Nat : p = a * b /\ q = c * d /\ p <= q
    BY ProductsGrow
  <1> QED BY DEF Share, Whole

PriceFactor(x) ==
    IF validate_price(x)
    THEN Larger(5000, Whole - (5 * Whole * Gap(x.expected, x.current)) \div x.expected)
    ELSE 0
InTime(x) == IF x.latency > MaxLatency THEN 0 ELSE Whole - latency_penalty(x)

LEMMA ConfidenceIs ==
    ASSUME NEW x
    PROVE  execution_confidence(x) =
             Share(Share(Share(PriceFactor(x), check_stock(x)), InTime(x)), Whole - competition(x))
  BY DEF execution_confidence, PriceFactor, InTime

\* A price that is near what was found keeps three quarters of the confidence.
LEMMA PriceFactorType ==
    ASSUME NEW x, Purchase(x), validate_price(x)
    PROVE  PriceFactor(x) \in Nat /\ PriceFactor(x) >= 7500
  <1>1. x.expected \in Nat \ {0} /\ x.current \in Nat
    BY DEF Purchase, validate_price
  <1> PICK g \in Nat, e \in Nat \ {0} : g = Gap(x.expected, x.current) /\ e = x.expected
    BY <1>1 DEF Gap, Larger
  <1>2. g * 10000 <= 500 * e
    BY DEF validate_price, Whole, MaxPriceDeviation
  <1> PICK b \in Nat : b = 50000 * g /\ b = 5 * Whole * g
    BY DEF Whole
  <1>3. b <= 2500 * e
    BY <1>2
  <1> PICK q \in Nat : q = b \div e /\ q * e <= b
    BY QuotientIs
  <1>4. q <= 2500
    <2> SUFFICES ASSUME q >= 2501 PROVE FALSE
      OBVIOUS
    <2>1. 2501 * e <= q * e
      BY ProductsGrow
    <2> PICK z \in Nat : z = q * e
      OBVIOUS
    <2> QED BY <1>3, <2>1
  <1>5. PriceFactor(x) = Larger(5000, Whole - q)
    BY DEF PriceFactor
  <1> QED BY <1>4, <1>5 DEF Larger, Whole

\* A purchase the realism guard lets through is let through as well when it is
\* earlier, cheaper in fees, steadier and less contested.
THEOREM GuardFalls ==
    ASSUME NEW x, NEW y, Purchase(x), Purchase(y), Harder(x, y), realism_guard(y)
    PROVE  realism_guard(x)
  <1>1. /\ validate_price(y) /\ y.stock # 0 /\ y.latency <= MaxLatency
        /\ ProfitAfterSlippage(y, y.current) >= MinProfitAfterSlippage
        /\ execution_confidence(y) >= MinExecutionConfidence
    BY DEF realism_guard, effective_buy
  <1>2. validate_price(x)
    <2>1. y.sell - y.current - y.fees >= 500 /\ x.fees <= y.fees /\ x.sell = y.sell /\ x.current = y.current
      BY <1>1 DEF validate_price, MinProfitAfterRecheck, Harder
    <2>2. x.sell - x.current - x.fees >= 500
      BY <2>1 DEF Purchase
    <2> QED BY <1>1, <2>2 DEF validate_price, MinProfitAfterRecheck, Harder
  <1>3. x.stock # 0 /\ x.latency <= MaxLatency
    BY <1>1 DEF Harder, Purchase, MaxLatency
  <1>4. ProfitAfterSlippage(x, x.current) >= MinProfitAfterSlippage
    <2> PICK b \in Nat : b = x.current /\ b = y.current
      BY DEF Purchase, Harder
    <2> PICK s \in Nat, t \in Nat : s = slippage(x) /\ t = slippage(y) /\ s <= t
      BY SlippageGrows
    <2> PICK p \in Nat, q \in Nat : p = b * (Whole + s) /\ q = b * (Whole + t) /\ p <= q
      <3>1. Whole + s \in Nat /\ Whole + t \in Nat /\ Whole + s <= Whole + t
        BY DEF Whole
      <3> QED BY <3>1, ProductsGrow
    <2>1. Round(p) \in Int /\ Round(q) \in Int /\ Round(p) <= Round(q)
      BY DEF Round, Whole
    <2>2. /\ ProfitAfterSlippage(x, x.current) = x.sell - Round(p) - x.fees
          /\ ProfitAfterSlippage(y, y.current) = y.sell - Round(q) - y.fees
      BY DEF ProfitAfterSlippage
    <2> PICK u \in Int, v \in Int : u = Round(p) /\ v = Round(q) /\ u <= v
      BY <2>1
    <2> QED BY <1>1, <2>2 DEF Purchase, Harder, MinProfitAfterSlippage
  <1>5. execution_confidence(x) >= MinExecutionConfidence
    <2>1. PriceFactor(x) = PriceFactor(y) /\ PriceFactor(x) \in Nat
      BY <1>1, <1>2, PriceFactorType DEF PriceFactor, Harder
    <2>2. InTime(x) \in Nat /\ InTime(y) \in Nat /\ InTime(y) <= InTime(x)
      <3> PICK a \in Nat, b \in Nat : a = latency_penalty(x) /\ b = latency_penalty(y) /\ a <= b /\ b <= 10000
        BY PenaltyGrows DEF Whole
      <3>1. InTime(x) = 10000 - a /\ InTime(y) = 10000 - b
        BY <1>1, <1>3 DEF InTime, Whole, MaxLatency, Purchase
      <3> QED BY <3>1
    <2>3. Whole - competition(x) \in Nat /\ Whole - competition(y) \in Nat /\ Whole - competition(y) <= Whole - competition(x)
      <3> PICK a \in Nat, b \in Nat : a = competition(x) /\ b = competition(y) /\ a <= b /\ b <= 10000
        BY CompetitionGrows DEF Whole
      <3> QED BY DEF Whole
    <2> PICK a \in Nat, b \in Nat, c \in Nat, s \in Nat, t \in Nat, u \in Nat, v \in Nat :
          /\ a = PriceFactor(x) /\ b = check_stock(x) /\ c = check_stock(y)
          /\ s = InTime(x) /\ t = InTime(y) /\ u = Whole - competition(x) /\ v = Whole - competition(y)
      BY <2>1, <2>2, <2>3, StockSinks
    <2>4. c <= b /\ t <= s /\ v <= u
      BY <2>2, <2>3, StockSinks
    <2>5. Share(a, c) \in Nat /\ Share(a, b) \in Nat /\ Share(a, c) <= Share(a, b)
      BY <2>4, ShareGrows
    <2>6. /\ Share(Share(a, c), t) \in Nat /\ Share(Share(a, b), s) \in Nat
          /\ Share(Share(a, c), t) <= Share(Share(a, b), s)
      BY <2>4, <2>5, ShareGrows
    <2>7. /\ Share(Share(Share(a, c), t), v) \in Nat /\ Share(Share(Share(a, b), s), u) \in Nat
          /\ Share(Share(Share(a, c), t), v) <= Share(Share(Share(a, b), s), u)
      BY <2>4, <2>6, ShareGrows
    <2> QED BY <1>1, <2>1, <2>7, ConfidenceIs DEF MinExecutionConfidence
  <1> QED BY <1>2, <1>3, <1>4, <1>5 DEF realism_guard, effective_buy

\* What the guard approves still earns its five dollars at the price seen last,
\* after it has slipped.
THEOREM ApprovedStillEarns ==
    ASSUME NEW x, realism_guard(x)
    PROVE  ProfitAfterSlippage(x, x.current) >= MinProfitAfterSlippage
  BY DEF realism_guard, effective_buy

\* Where few compete, the product of the doubts never refuses what the single
\* checks have let pass.
THEOREM DoubtForgiven ==
    ASSUME NEW x, Purchase(x), validate_price(x), x.stock # 0, x.latency <= MaxLatency,
           x.roi <= 3000, x.reviews <= 200, x.monthly <= 15
    PROVE  execution_confidence(x) >= MinExecutionConfidence
  <1>1. PriceFactor(x) \in Nat /\ PriceFactor(x) >= 7500
    BY PriceFactorType
  <1>2. check_stock(x) \in Nat /\ check_stock(x) >= 6800
    BY DEF Purchase, check_stock, UnknownStock, Whole
  <1>3. InTime(x) \in Nat /\ InTime(x) >= 9100
    BY DEF Purchase, InTime, latency_penalty, MaxLatency, WarningLatency, Whole, Smaller, Larger
  <1>4. Whole - competition(x) \in Nat /\ Whole - competition(x) >= 8500
    <2>1. HighRoi(x.roi) = 0 /\ Crowd(x.reviews, 200, 2500) = 0 /\ Crowd(x.monthly, 15, 2000) = 0
      BY DEF HighRoi, Crowd, Purchase
    <2>2. Smaller(1500, 30 * Larger(0, x.competitors - 15)) \in 0..1500
      BY DEF Purchase, Smaller, Larger
    <2> PICK c : c = Smaller(1500, 30 * Larger(0, x.competitors - 15))
      OBVIOUS
    <2>4. c \in 0..1500
      BY <2>2
    <2>3. competition(x) = Smaller(10000, 0 + Smaller(2500, 0) + Smaller(2000, 0) + c)
      BY <2>1 DEF competition, Whole
    <2> QED BY <2>3, <2>4 DEF Smaller, Whole
  <1>5. Share(PriceFactor(x), check_stock(x)) \in Nat /\ Share(PriceFactor(x), check_stock(x)) >= 5100
    <2>1. Share(7500, 6800) = 5100
      BY DEF Share, Whole
    <2> QED BY <1>1, <1>2, <2>1, ShareGrows
  <1> DEFINE first == Share(PriceFactor(x), check_stock(x))
  <1>6. Share(first, InTime(x)) \in Nat /\ Share(first, InTime(x)) >= 4641
    <2>1. Share(5100, 9100) = 4641
      BY DEF Share, Whole
    <2> HIDE DEF first
    <2> QED BY <1>3, <1>5, <2>1, ShareGrows DEF first
  <1> DEFINE second == Share(first, InTime(x))
  <1> PICK m \in Nat, d \in Nat : m = second /\ d = Whole - competition(x) /\ m >= 4641 /\ d >= 8500
    <2> HIDE DEF first
    <2> QED BY <1>4, <1>6
  <1>7. Share(m, d) \in Nat /\ Share(m, d) >= 3944
    <2>1. Share(4641, 8500) = 3944
      BY DEF Share, Whole
    <2>2. 4641 \in Nat /\ 8500 \in Nat /\ 4641 <= m /\ 8500 <= d
      OBVIOUS
    <2>3. Share(4641, 8500) <= Share(m, d) /\ Share(m, d) \in Nat
      <3> HIDE DEF second
      <3> QED BY ONLY <2>2, ShareGrows, m \in Nat, d \in Nat
    <2> QED BY <2>1, <2>3
  <1> QED BY <1>7, ConfidenceIs DEF MinExecutionConfidence

LEMMA PurchasesAre == \A x \in Purchases : Purchase(x)
  BY DEF Purchases, Purchase, UnknownStock

LEMMA WorseAreHarder == \A x \in Purchases : \A y \in Worse(x) : Purchase(y) /\ Harder(x, y)
  <1> SUFFICES ASSUME NEW x \in Purchases, NEW y \in Worse(x) PROVE Purchase(y) /\ Harder(x, y)
    OBVIOUS
  <1>1. Purchase(x)
    BY PurchasesAre
  <1> QED BY <1>1 DEF Worse, Purchase, Harder, Purchases, UnknownStock

LEMMA GuardRules == GuardIsMonotone /\ ApprovedEarns /\ OneDoubtIsForgiven
  <1>1. GuardIsMonotone
    BY PurchasesAre, WorseAreHarder, GuardFalls DEF GuardIsMonotone
  <1>2. ApprovedEarns
    BY ApprovedStillEarns DEF ApprovedEarns
  <1>3. OneDoubtIsForgiven
    BY PurchasesAre, DoubtForgiven DEF OneDoubtIsForgiven
  <1> QED BY <1>1, <1>2, <1>3
-----------------------------------------------------------------------------
(* The gate of the truth engine *)

Chance(x) ==
    /\ x.profit \in Int /\ x.monthly \in Nat /\ x.reviews \in Nat /\ x.ratio \in Nat
    /\ x.confidence \in Nat /\ x.liquidity \in Nat /\ x.risk \in Nat /\ x.precision \in Nat
    /\ x.confidence <= 100 /\ x.liquidity <= 100 /\ x.risk <= 100

\* y is no worse than x; a precision of 0 is none at all.
AsGood(x, y) ==
    /\ x.profit <= y.profit /\ x.monthly <= y.monthly /\ x.reviews <= y.reviews /\ y.ratio <= x.ratio
    /\ x.confidence <= y.confidence /\ x.liquidity <= y.liquidity /\ y.risk <= x.risk
    /\ x.precision <= y.precision /\ (x.precision = 0 => y.precision = 0)

SpeedOf(x) == Speed(x.monthly, x.reviews, x.ratio)
DaysOf(x) == Larger(100, 1400 - (SpeedOf(x) * 13) \div 100)
ChanceOf(x) == estimate_probability_of_sale(x.confidence, x.liquidity, x.precision)
PointsOf(x) == (x.confidence * x.liquidity * (100 - x.risk)) \div 100
AdjustedOf(x) == (x.profit * 100) \div (100 + DaysOf(x))
ValueOf(x) == Round(AdjustedOf(x) * ChanceOf(x))

LEMMA GateIs ==
    ASSUME NEW x
    PROVE  Passes(x) <=> ValueOf(x) >= MinExpectedValue /\ ValueOf(x) * PointsOf(x) >= MinFinalScore * Whole
  BY DEF Passes, gate, compute_expected_value, estimate_time_to_sell, ValueOf, AdjustedOf, DaysOf, SpeedOf,
         ChanceOf, PointsOf

LEMMA SpeedGrows ==
    ASSUME NEW x, NEW y, Chance(x), Chance(y), AsGood(x, y)
    PROVE  SpeedOf(x) \in Int /\ SpeedOf(y) \in Int /\ SpeedOf(x) <= SpeedOf(y)
  <1> PICK a \in Nat, b \in Nat, c \in Nat : a = x.monthly /\ b = x.reviews /\ c = x.ratio
    BY DEF Chance
  <1> PICK d \in Nat, e \in Nat, f \in Nat :
        d = y.monthly /\ e = y.reviews /\ f = y.ratio /\ a <= d /\ b <= e /\ f <= c
    BY DEF Chance, AsGood
  <1> PICK p \in Int, q \in Int :
        /\ p = Smaller(10000, (a * 10000) \div 30) /\ q = Smaller(10000, (d * 10000) \div 30) /\ p <= q
    BY DEF Smaller
  <1> PICK r \in Int, s \in Int :
        /\ r = Smaller(10000, (b * 10000) \div 200) /\ s = Smaller(10000, (e * 10000) \div 200) /\ r <= s
    BY DEF Smaller
  <1> PICK u \in Int, v \in Int : u = Competitiveness(c) /\ v = Competitiveness(f) /\ u <= v
    BY DEF Competitiveness, Whole
  <1>1. SpeedOf(x) = (p * 40 + r * 25 + u * 35) \div 100 /\ SpeedOf(y) = (q * 40 + s * 25 + v * 35) \div 100
    BY DEF SpeedOf, Speed, Whole
  <1> QED BY <1>1

LEMMA DaysFall ==
    ASSUME NEW x, NEW y, Chance(x), Chance(y), AsGood(x, y)
    PROVE  DaysOf(x) \in Nat /\ DaysOf(y) \in Nat /\ DaysOf(y) <= DaysOf(x) /\ DaysOf(y) >= 100
  <1> PICK a \in Int, b \in Int : a = SpeedOf(x) /\ b = SpeedOf(y) /\ a <= b
    BY SpeedGrows
  <1> QED BY DEF DaysOf, Larger

LEMMA ChanceGrows ==
    ASSUME NEW x, NEW y, Chance(x), Chance(y), AsGood(x, y)
    PROVE  ChanceOf(x) \in Nat /\ ChanceOf(y) \in Nat /\ ChanceOf(x) <= ChanceOf(y) /\ ChanceOf(y) <= 9900
  <1> PICK a \in Nat, b \in Nat, c \in Nat : a = x.confidence /\ b = x.liquidity /\ c = x.precision
    BY DEF Chance
  <1> PICK d \in Nat, e \in Nat, f \in Nat :
        /\ d = y.confidence /\ e = y.liquidity /\ f = y.precision
        /\ a <= d /\ b <= e /\ c <= f /\ (c = 0 => f = 0)
    BY DEF Chance, AsGood
  <1>1. ChanceOf(x) = Clamp(IF c > 0 THEN (c * 50 + a * 3000 + b * 2000) \div 100 ELSE a * 60 + b * 40, 100, 9900)
    BY DEF ChanceOf, estimate_probability_of_sale
  <1>2. ChanceOf(y) = Clamp(IF f > 0 THEN (f * 50 + d * 3000 + e * 2000) \div 100 ELSE d * 60 + e * 40, 100, 9900)
    BY DEF ChanceOf, estimate_probability_of_sale
  <1> PICK g \in Nat, h \in Nat :
        /\ g = IF c > 0 THEN (c * 50 + a * 3000 + b * 2000) \div 100 ELSE a * 60 + b * 40
        /\ h = IF f > 0 THEN (f * 50 + d * 3000 + e * 2000) \div 100 ELSE d * 60 + e * 40
        /\ g <= h
    <2>1. CASE c = 0
      BY <2>1
    <2>2. CASE c > 0
      <3> DEFINE i == c * 50 + a * 3000 + b * 2000
                 j == f * 50 + d * 3000 + e * 2000
      <3>3. i \in Nat /\ j \in Nat /\ i <= j
        OBVIOUS
      <3>1. i \div 100 \in Nat /\ j \div 100 \in Nat /\ i \div 100 <= j \div 100
        <4> HIDE DEF i, j
        <4> QED BY <3>3
      <3>2. f > 0
        BY <2>2
      <3> QED BY <2>2, <3>1, <3>2
    <2> QED BY <2>1, <2>2
  <1>3. ChanceOf(x) = Clamp(g, 100, 9900) /\ ChanceOf(y) = Clamp(h, 100, 9900)
    BY <1>1, <1>2
  <1> QED BY <1>3 DEF Clamp, Smaller, Larger

LEMMA PointsGrow ==
    ASSUME NEW x, NEW y, Chance(x), Chance(y), AsGood(x, y)
    PROVE  PointsOf(x) \in Nat /\ PointsOf(y) \in Nat /\ PointsOf(x) <= PointsOf(y)
  <1> PICK a \in Nat, b \in Nat, c \in Nat : a = x.confidence /\ b = x.liquidity /\ c = 100 - x.risk
    BY DEF Chance
  <1> PICK d \in Nat, e \in Nat, f \in Nat :
        d = y.confidence /\ e = y.liquidity /\ f = 100 - y.risk /\ a <= d /\ b <= e /\ c <= f
    BY DEF Chance, AsGood
  <1> PICK p \in Nat, q \in Nat : p = a * b /\ q = d * e /\ p <= q
    BY ProductsGrow
  <1>2. p * c \in Nat /\ q * f \in Nat /\ p * c <= q * f
    BY ONLY ProductsGrow, p \in Nat, c \in Nat, q \in Nat, f \in Nat, p <= q, c <= f
  <1> PICK u \in Nat, v \in Nat : u = p * c /\ v = q * f /\ u <= v
    BY <1>2
  <1>1. PointsOf(x) = u \div 100 /\ PointsOf(y) = v \div 100
    BY DEF PointsOf
  <1> QED BY <1>1

\* What passes pays.
LEMMA PassingPays ==
    ASSUME NEW x, Chance(x), Passes(x)
    PROVE  /\ x.profit \in Nat /\ AdjustedOf(x) \in Nat /\ ValueOf(x) \in Nat
           /\ AdjustedOf(x) * ChanceOf(x) >= 9995000
  <1>1. AsGood(x, x)
    BY DEF AsGood, Chance
  <1> PICK d \in Nat, c \in Nat : d = DaysOf(x) /\ c = ChanceOf(x) /\ c <= 9900 /\ d >= 100
    BY <1>1, DaysFall, ChanceGrows
  <1> PICK p \in Int : p = x.profit
    BY DEF Chance
  <1>2. (p * 100) \div (100 + d) \in Int /\ (p < 0 => (p * 100) \div (100 + d) < 0)
    <2> PICK m \in Nat \ {0} : m = 100 + d
      OBVIOUS
    <2> PICK n \in Int : n = p * 100 /\ (p < 0 => n < 0)
      OBVIOUS
    <2>1. n \div m \in Int /\ (n < 0 => n \div m < 0)
      OBVIOUS
    <2> QED BY <2>1
  <1> PICK a \in Int : a = AdjustedOf(x) /\ (p < 0 => a < 0)
    BY <1>2 DEF AdjustedOf
  <1> PICK v \in Int : v = a * c
    OBVIOUS
  <1>3. (v + 5000) \div 10000 >= 1000
    BY GateIs DEF ValueOf, Round, Whole, MinExpectedValue
  <1>4. v >= 9995000
    BY <1>3
  <1>5. a >= 0
    <2> SUFFICES ASSUME a < 0 PROVE FALSE
      OBVIOUS
    <2> PICK n \in Nat : n = 0 - a
      OBVIOUS
    <2>1. n * c \in Nat /\ n * c = 0 - a * c
      OBVIOUS
    <2> QED BY <1>4, <2>1
  <1>6. ValueOf(x) = (v + 5000) \div 10000
    BY DEF ValueOf, Round, Whole
  <1> QED BY <1>4, <1>5, <1>6

\* What passes the gate of the truth engine passes it as well when it is no worse
\* in any respect.
THEOREM GateRises ==
    ASSUME NEW x, NEW y, Chance(x), Chance(y), AsGood(x, y), Passes(x)
    PROVE  Passes(y)
  <1> PICK p \in Nat, q \in Nat : p = x.profit /\ q = y.profit /\ p <= q
    BY PassingPays DEF Chance, AsGood
  <1> PICK d \in Nat, e \in Nat : d = DaysOf(x) /\ e = DaysOf(y) /\ e <= d
    BY DaysFall
  <1> PICK a \in Nat, b \in Nat : a = AdjustedOf(x) /\ b = AdjustedOf(y) /\ a <= b
    <2> PICK m \in Nat \ {0}, n \in Nat \ {0} : m = 100 + d /\ n = 100 + e /\ n <= m
      OBVIOUS
    <2> PICK k \in Nat, l \in Nat : k = p * 100 /\ l = q * 100 /\ k <= l
      OBVIOUS
    <2>1. k \div m \in Nat /\ l \div n \in Nat
      BY ONLY QuotientIs, k \in Nat, l \in Nat, m \in Nat \ {0}, n \in Nat \ {0}
    <2>2. k \div m <= l \div n
      BY ONLY QuotientsGrow, k \in Nat, l \in Nat, m \in Nat \ {0}, n \in Nat \ {0}, k <= l, n <= m
    <2> QED BY <2>1, <2>2 DEF AdjustedOf
  <1> PICK c \in Nat, f \in Nat : c = ChanceOf(x) /\ f = ChanceOf(y) /\ c <= f
    BY ChanceGrows
  <1> PICK g \in Nat, h \in Nat : g = a * c /\ h = b * f /\ g <= h
    BY ProductsGrow
  <1> PICK v \in Nat, w \in Nat : v = ValueOf(x) /\ w = ValueOf(y) /\ v <= w
    BY DEF ValueOf, Round, Whole
  <1> PICK r \in Nat, s \in Nat : r = PointsOf(x) /\ s = PointsOf(y) /\ r <= s
    BY PointsGrow
  <1> PICK i \in Nat, j \in Nat : i = v * r /\ j = w * s /\ i <= j
    BY ProductsGrow
  <1>1. v >= 1000 /\ i >= 150000
    BY GateIs DEF MinExpectedValue, MinFinalScore, Whole
  <1> QED BY <1>1, GateIs DEF MinExpectedValue, MinFinalScore, Whole

\* The gate passes nothing that earns less than twice the value it asks for.
THEOREM GateWantsTwice ==
    ASSUME NEW x, Chance(x), Passes(x)
    PROVE  x.profit >= 2 * MinExpectedValue
  <1>1. AsGood(x, x)
    BY DEF AsGood, Chance
  <1> PICK d \in Nat, c \in Nat : d = DaysOf(x) /\ c = ChanceOf(x) /\ c <= 9900 /\ d >= 100
    BY <1>1, DaysFall, ChanceGrows
  <1> PICK p \in Nat, a \in Nat : p = x.profit /\ a = AdjustedOf(x) /\ a * c >= 9995000
    BY PassingPays
  <1>2. a >= 1010
    <2> SUFFICES ASSUME a <= 1009 PROVE FALSE
      OBVIOUS
    <2>1. a * c <= 1009 * 9900
      BY ProductsGrow
    <2> PICK n \in Nat : n = a * c
      OBVIOUS
    <2> QED BY <2>1
  <1>3. p * 100 >= 200 * a
    <2> PICK m \in Nat \ {0}, k \in Nat : m = 100 + d /\ k = p * 100
      OBVIOUS
    <2>1. a = k \div m
      BY DEF AdjustedOf
    <2>2. a * m <= k
      BY <2>1, QuotientIs
    <2>3. a * 200 <= a * m
      BY ProductsGrow
    <2> PICK n \in Nat : n = a * m
      OBVIOUS
    <2> QED BY <2>2, <2>3
  <1> QED BY <1>2, <1>3 DEF MinExpectedValue

LEMMA CandidatesAre == \A x \in Candidates : Chance(x)
  BY DEF Candidates, Chance

LEMMA BetterIsAsGood == \A x \in Candidates : \A y \in Better(x) : Chance(y) /\ AsGood(x, y)
  <1> SUFFICES ASSUME NEW x \in Candidates, NEW y \in Better(x) PROVE Chance(y) /\ AsGood(x, y)
    OBVIOUS
  <1>1. /\ Chance(x) /\ x.ratio \in {10000, 11000, 12000} /\ x.risk \in {10, 50, 90}
    BY CandidatesAre DEF Candidates
  <1> QED BY <1>1 DEF Better, Chance, AsGood, Candidates, Smaller

LEMMA GateRules == GateIsMonotone /\ GateAsksForTwice
  <1>1. GateIsMonotone
    BY CandidatesAre, BetterIsAsGood, GateRises DEF GateIsMonotone
  <1>2. GateAsksForTwice
    BY CandidatesAre, GateWantsTwice DEF GateAsksForTwice
  <1> QED BY <1>1, <1>2

-----------------------------------------------------------------------------
(* The policies of the orchestrator *)

Valued(o) == o.roi \in Int /\ o.net \in Int /\ o.risk \in Int

LEMMA VotesAre ==
    ASSUME NEW o, NEW p, NEW t
    PROVE  LET v == Votes(o, p, t) IN
           /\ v[1] = ProfitabilityPolicy(o) /\ v[2] = PredictionAlignmentPolicy(p)
           /\ v[3] = TrendMomentumPolicy(t) /\ v[4] = RiskAdjustmentPolicy(o)
           /\ DOMAIN v = 1..4 /\ Len(v) = 4
  BY DEF Votes

CompositeOf(o, p, t) ==
    30 * ProfitabilityPolicy(o).points + 25 * PredictionAlignmentPolicy(p).points
    + 25 * TrendMomentumPolicy(t).points + 20 * RiskAdjustmentPolicy(o).points

\* What the prediction and the trend vote.
LEMMA SignalsVote ==
    ASSUME NEW p, NEW t
    PROVE  /\ <<PredictionAlignmentPolicy(p).decision, PredictionAlignmentPolicy(p).points>> \in
                 {<<"monitor", 30>>, <<"hold", 20>>, <<"execute", 85>>, <<"skip", 15>>, <<"monitor", 50>>}
           /\ p = Absent => PredictionAlignmentPolicy(p).points = 30
           /\ <<TrendMomentumPolicy(t).decision, TrendMomentumPolicy(t).points>> \in
                 {<<"monitor", 30>>, <<"execute", 95>>, <<"execute", 75>>, <<"skip", 15>>, <<"monitor", 50>>}
           /\ t = Absent => TrendMomentumPolicy(t).points = 30
  BY DEF PredictionAlignmentPolicy, TrendMomentumPolicy, Vote

LEMMA DealsVote ==
    ASSUME NEW o, Valued(o)
    PROVE  /\ ProfitabilityPolicy(o).points \in {10, 40, 70, 90}
           /\ ProfitabilityPolicy(o).points >= 70 => o.roi >= 1500 /\ o.net >= 1000
           /\ RiskAdjustmentPolicy(o).points \in {10, 40, 65, 85}
           /\ RiskAdjustmentPolicy(o).points >= 65 => o.risk <= 45
           /\ ProfitabilityPolicy(o).decision = "skip" <=> ProfitabilityPolicy(o).points = 10
           /\ ProfitabilityPolicy(o).decision = "execute" <=> ProfitabilityPolicy(o).points >= 70
           /\ RiskAdjustmentPolicy(o).decision = "skip" <=> RiskAdjustmentPolicy(o).points = 10
           /\ RiskAdjustmentPolicy(o).decision = "execute" <=> RiskAdjustmentPolicy(o).points >= 65
  <1> PICK r \in Int, n \in Int, k \in Int : r = o.roi /\ n = o.net /\ k = o.risk
    BY DEF Valued
  <1>1. ProfitabilityPolicy(o).points >= 70 => o.roi >= 1500 /\ o.net >= 1000
    BY DEF ProfitabilityPolicy, Vote
  <1> QED BY <1>1 DEF ProfitabilityPolicy, RiskAdjustmentPolicy, Vote

LEMMA ExecutedIsHigh ==
    ASSUME NEW o, NEW p, NEW t, CompositeDecision(o, p, t).decision = "execute"
    PROVE  CompositeOf(o, p, t) >= 7000
  <1>1. CompositeDecision(o, p, t).decision = reconcile(Votes(o, p, t), CompositeOf(o, p, t))
    BY VotesAre DEF CompositeDecision, CompositeOf, PolicyWeights
  <1> QED BY <1>1 DEF reconcile

\* What the orchestrator executes has a vote to execute from the prediction or the
\* trend, and one of them missing, the deal is good and its risk low.
THEOREM BlindIsNotEnough ==
    ASSUME NEW o, NEW p, NEW t, Valued(o), CompositeDecision(o, p, t).decision = "execute"
    PROVE  /\ "execute" \in {PredictionAlignmentPolicy(p).decision, TrendMomentumPolicy(t).decision}
           /\ Absent \in {p, t} => o.roi >= 1500 /\ o.net >= 1000 /\ o.risk <= 45
  <1> PICK a \in {10, 40, 70, 90}, d \in {10, 40, 65, 85} :
        /\ a = ProfitabilityPolicy(o).points /\ d = RiskAdjustmentPolicy(o).points
        /\ a >= 70 => o.roi >= 1500 /\ o.net >= 1000
        /\ d >= 65 => o.risk <= 45
    BY DealsVote
  <1> PICK b, c : b = PredictionAlignmentPolicy(p) /\ c = TrendMomentumPolicy(t)
    OBVIOUS
  <1>1. /\ b.points \in {15, 20, 30, 50, 85} /\ (b.points = 85 => b.decision = "execute")
        /\ c.points \in {15, 30, 50, 75, 95} /\ (c.points \in {75, 95} => c.decision = "execute")
        /\ p = Absent => b.points = 30
        /\ t = Absent => c.points = 30
    BY SignalsVote
  <1>2. 30 * a + 25 * b.points + 25 * c.points + 20 * d >= 7000
    BY ExecutedIsHigh DEF CompositeOf
  <1> PICK x \in Int, y \in Int : x = b.points /\ y = c.points
    BY <1>1
  <1>3. 30 * a + 25 * x + 25 * y + 20 * d >= 7000
    BY <1>2
  <1>4. x = 85 \/ y \in {75, 95}
    BY <1>1, <1>3
  <1>5. x = 30 \/ y = 30 => a >= 70 /\ d >= 65
    BY <1>1, <1>3
  <1> QED BY <1>1, <1>4, <1>5

\* With a vote to skip from one of them, what is executed has the best votes there
\* are for profit and for risk.
THEOREM SkipIsOutvoted ==
    ASSUME NEW o, NEW p, NEW t, Valued(o), CompositeDecision(o, p, t).decision = "execute",
           "skip" \in {PredictionAlignmentPolicy(p).decision, TrendMomentumPolicy(t).decision}
    PROVE  ProfitabilityPolicy(o).points = 90 /\ RiskAdjustmentPolicy(o).points = 85
  <1> PICK a \in {10, 40, 70, 90}, d \in {10, 40, 65, 85} :
        a = ProfitabilityPolicy(o).points /\ d = RiskAdjustmentPolicy(o).points
    BY DealsVote
  <1> PICK b, c : b = PredictionAlignmentPolicy(p) /\ c = TrendMomentumPolicy(t)
    OBVIOUS
  <1>1. /\ b.points \in {15, 20, 30, 50, 85} /\ (b.decision = "skip" => b.points = 15)
        /\ c.points \in {15, 30, 50, 75, 95} /\ (c.decision = "skip" => c.points = 15)
    BY SignalsVote
  <1>2. 30 * a + 25 * b.points + 25 * c.points + 20 * d >= 7000
    BY ExecutedIsHigh DEF CompositeOf
  <1> PICK x \in Int, y \in Int : x = b.points /\ y = c.points
    BY <1>1
  <1>3. 30 * a + 25 * x + 25 * y + 20 * d >= 7000
    BY <1>2
  <1>4. x = 15 \/ y = 15
    BY <1>1
  <1> QED BY <1>1, <1>3, <1>4

\* A better deal of the same signals is decided no worse.
THEOREM DecisionRises ==
    ASSUME NEW o, NEW b, NEW p, NEW t, Valued(o), Valued(b),
           o.roi <= b.roi, o.net <= b.net, o.risk >= b.risk
    PROVE  Standing[CompositeDecision(o, p, t).decision] <= Standing[CompositeDecision(b, p, t).decision]
  <1> DEFINE V == Votes(o, p, t)
             W == Votes(b, p, t)
             For(v, x) == {i \in DOMAIN v : v[i].decision = x}
  <1>1. /\ ProfitabilityPolicy(o).points <= ProfitabilityPolicy(b).points
        /\ RiskAdjustmentPolicy(o).points <= RiskAdjustmentPolicy(b).points
    BY DEF Valued, ProfitabilityPolicy, RiskAdjustmentPolicy, Vote
  <1>2. For(V, "execute") \subseteq For(W, "execute") /\ For(W, "skip") \subseteq For(V, "skip")
    <2>1. /\ V[1].decision = "execute" => W[1].decision = "execute"
          /\ V[4].decision = "execute" => W[4].decision = "execute"
          /\ W[1].decision = "skip" => V[1].decision = "skip"
          /\ W[4].decision = "skip" => V[4].decision = "skip"
      BY <1>1, DealsVote, VotesAre
    <2>2. V[2] = W[2] /\ V[3] = W[3] /\ DOMAIN V = 1..4 /\ DOMAIN W = 1..4
      BY VotesAre
    <2> HIDE DEF V, W
    <2>3. ASSUME NEW i \in 1..4 PROVE i = 1 \/ i = 2 \/ i = 3 \/ i = 4
      OBVIOUS
    <2> QED BY <2>1, <2>2, <2>3
  <1>3. \A x : /\ IsFiniteSet(For(V, x)) /\ IsFiniteSet(For(W, x))
               /\ Cardinality(For(V, x)) \in Nat /\ Cardinality(For(W, x)) \in Nat
    <2> TAKE x
    <2>1. For(V, x) \subseteq 1..4 /\ For(W, x) \subseteq 1..4
      BY VotesAre
    <2>2. IsFiniteSet(1..4)
      BY ONLY FS_Interval, 1 \in Int, 4 \in Int
    <2> QED BY <2>1, <2>2, FS_Subset, FS_CardinalityType
  <1>4. /\ VotesFor(V, "execute") <= VotesFor(W, "execute") /\ VotesFor(W, "skip") <= VotesFor(V, "skip")
        /\ VotesFor(V, "execute") \in Nat /\ VotesFor(W, "execute") \in Nat
        /\ VotesFor(V, "skip") \in Nat /\ VotesFor(W, "skip") \in Nat
    <2>1. Cardinality(For(V, "execute")) <= Cardinality(For(W, "execute"))
      BY <1>2, <1>3, FS_Subset
    <2>2. Cardinality(For(W, "skip")) <= Cardinality(For(V, "skip"))
      BY <1>2, <1>3, FS_Subset
    <2> QED BY <1>3, <2>1, <2>2 DEF VotesFor
  <1> PICK i \in Nat, j \in Nat, k \in Nat, l \in Nat :
        /\ i = VotesFor(V, "execute") /\ j = VotesFor(W, "execute") /\ i <= j
        /\ k = VotesFor(V, "skip") /\ l = VotesFor(W, "skip") /\ l <= k
    BY <1>4
  <1>5. CompositeOf(o, p, t) \in Int /\ CompositeOf(b, p, t) \in Int /\ CompositeOf(o, p, t) <= CompositeOf(b, p, t)
    <2> PICK x1 \in Int, x4 \in Int, y1 \in Int, y4 \in Int :
          /\ x1 = ProfitabilityPolicy(o).points /\ x4 = RiskAdjustmentPolicy(o).points
          /\ y1 = ProfitabilityPolicy(b).points /\ y4 = RiskAdjustmentPolicy(b).points
          /\ x1 <= y1 /\ x4 <= y4
      <3>1. /\ ProfitabilityPolicy(o).points \in Int /\ RiskAdjustmentPolicy(o).points \in Int
            /\ ProfitabilityPolicy(b).points \in Int /\ RiskAdjustmentPolicy(b).points \in Int
        BY DealsVote
      <3> QED BY <1>1, <3>1
    <2> PICK x2 \in Int, x3 \in Int :
          x2 = PredictionAlignmentPolicy(p).points /\ x3 = TrendMomentumPolicy(t).points
      BY SignalsVote
    <2> QED BY DEF CompositeOf
  <1> PICK x \in Int, y \in Int : x = CompositeOf(o, p, t) /\ y = CompositeOf(b, p, t) /\ x <= y
    BY <1>5
  <1>6. CompositeDecision(o, p, t).decision = reconcile(V, x) /\ CompositeDecision(b, p, t).decision = reconcile(W, y)
    BY VotesAre DEF CompositeDecision, CompositeOf, PolicyWeights
  <1>7. Len(V) = 4 /\ Len(W) = 4 /\ 4 \div 2 = 2
    BY VotesAre
  <1> HIDE DEF V, W
  <1>8. /\ reconcile(V, x) = IF x >= 7000 /\ i >= 2 THEN "execute"
                             ELSE IF x < 3000 \/ k > 2 THEN "skip"
                             ELSE IF x >= 5000 THEN "monitor"
                             ELSE IF i > 0 /\ k > 0 THEN "hold" ELSE "monitor"
        /\ reconcile(W, y) = IF y >= 7000 /\ j >= 2 THEN "execute"
                             ELSE IF y < 3000 \/ l > 2 THEN "skip"
                             ELSE IF y >= 5000 THEN "monitor"
                             ELSE IF j > 0 /\ l > 0 THEN "hold" ELSE "monitor"
    BY <1>7 DEF reconcile
  <1>9. Standing["skip"] = 1 /\ Standing["hold"] = 2 /\ Standing["monitor"] = 2 /\ Standing["execute"] = 3
    BY DEF Standing
  <1> QED BY <1>6, <1>8, <1>9

LEMMA DealsAre == \A o \in Deals : Valued(o)
  BY DEF Deals, Valued

LEMMA PolicyRules == BlindNeverExecutes /\ SkipIsOutvotedByAll /\ DecisionIsMonotone
  <1>1. BlindNeverExecutes
    BY DealsAre, BlindIsNotEnough DEF BlindNeverExecutes
  <1>2. SkipIsOutvotedByAll
    BY DealsAre, SkipIsOutvoted, VotesAre DEF SkipIsOutvotedByAll
  <1>3. DecisionIsMonotone
    BY DealsAre, DecisionRises DEF DecisionIsMonotone
  <1> QED BY <1>1, <1>2, <1>3

-----------------------------------------------------------------------------
(* The selection *)

\* What the optimizer chooses from any list, in whatever order the list comes: it
\* is within the capital and the limits, holds no opportunity twice and nothing
\* that was not offered, and nothing is left out that could still be taken.
THEOREM SelectionHolds ==
    ASSUME NEW S, \A c \in S : Rankable(c), NEW lot \in Seq(S)
    PROVE  LET picked == optimize(lot) IN
           /\ Allocated(picked) <= TotalCapital /\ Len(picked) <= MaxPositions
           /\ \A i \in DOMAIN picked :
                /\ Positions(picked, picked[i], "opp") = 1
                /\ Positions(picked, picked[i], "product") <= MaxPerProduct
                /\ Positions(picked, picked[i], "route") <= MaxPerMarketplace
                /\ \E j \in DOMAIN lot : lot[j] = picked[i]
           /\ \A i \in DOMAIN lot :
                (\E j \in DOMAIN picked : picked[j] = lot[i]) \/ ~Acceptable(picked, lot[i])
  <1> PICK p : p = optimize(lot)
    OBVIOUS
  <1>1. Balanced(S, lot, p)
    BY OptimizedIsBalanced
  <1>2. Allocated(p) <= TotalCapital /\ Len(p) <= MaxPositions
    BY <1>1, SelectionAssumption DEF Balanced
  <1>3. ASSUME NEW i \in DOMAIN p
        PROVE  Positions(p, p[i], "opp") = 1
    <2>1. {j \in DOMAIN p : p[j]["opp"] = p[i]["opp"]} = {i}
      BY <1>1 DEF Balanced
    <2> QED BY <2>1, FS_Singleton DEF Positions
  <1>4. \A i \in DOMAIN lot : (\E j \in DOMAIN p : p[j] = lot[i]) \/ ~Acceptable(p, lot[i])
    BY OptimizeIsMaximal
  <1> QED BY <1>1, <1>2, <1>3, <1>4 DEF Balanced

LEMMA SamplesRank == \A c \in Samples : Rankable(c)
  <1>1. /\ TotalCapital \div 2 \in Nat /\ TotalCapital \div 3 \in Nat /\ TotalCapital \div 5 \in Nat
        /\ TotalCapital + 1 \in Nat /\ MaxRisk \in Int /\ MaxRisk + 1 \in Int
    BY SelectionAssumption
  <1> QED BY <1>1 DEF Samples, Deal, Rankable

LEMMA SelectionRules == SelectionIsMaximal /\ SelectionIsWithinLimits
  <1>1. ASSUME NEW b \in Batches
        PROVE  b \in Seq(Samples)
    <2>1. PICK n \in 0..4 : b \in [1..n -> Samples]
      BY DEF Batches
    <2> QED BY <2>1, SeqDef
  <1> QED BY <1>1, SamplesRank, SelectionHolds DEF SelectionIsMaximal, SelectionIsWithinLimits

-----------------------------------------------------------------------------
(* The tables of routes *)

LEMMA RoutesKnown ==
    \A r \in ARBITRAGE_ROUTES :
        \/ r[1] \in {"amazon_us", "ebay", "amazon"} /\ r[2] = "mercadolibre_mx" /\ r[3] = 1
        \/ r[1] = "mercadolibre_mx" /\ r[2] = "amazon" /\ r[3] = 1
        \/ r[1] = "aliexpress" /\ r[2] = "amazon" /\ r[3] = 2
        \/ /\ r[1] \in {"aliexpress", "mercadolibre_ar", "mercadolibre_cl", "mercadolibre_co"}
           /\ r[2] = "mercadolibre_mx" /\ r[3] = 2
        \/ /\ r[1] \in {"amazon_us", "ebay", "amazon", "mercadolibre_mx", "aliexpress"}
           /\ r[2] = "mercadolibre_cl" /\ r[3] = 2
        \/ /\ r[1] \in {"amazon_us", "ebay", "amazon", "mercadolibre_mx", "aliexpress"}
           /\ r[2] = "mercadolibre_ar" /\ r[3] = 3
        \/ r[1] \in {"amazon_us", "ebay", "amazon", "aliexpress"} /\ r[2] = "mercadolibre_co" /\ r[3] = 2
  BY DEF ARBITRAGE_ROUTES, To

LEMMA CountriesKnown ==
    /\ Country("amazon") = "MX" /\ Country("amazon_us") = "US" /\ Country("ebay") = "US"
    /\ Country("aliexpress") = "CN" /\ Country("mercadolibre_mx") = "MX" /\ Country("mercadolibre_ar") = "AR"
    /\ Country("mercadolibre_cl") = "CL" /\ Country("mercadolibre_co") = "CO"
  BY DEF Country, MARKETPLACE_FEES, Fees

LEMMA FreightKnown ==
    /\ DOMAIN Freight = {"US", "MX", "CN", "AR", "CL", "CO"}
    /\ {"MX", "CL", "AR", "CO"} \subseteq DOMAIN Freight["US"]
    /\ {"CL", "AR", "US", "CO"} \subseteq DOMAIN Freight["MX"]
    /\ {"MX", "CL", "AR", "US", "CO"} \subseteq DOMAIN Freight["CN"]
    /\ "MX" \in DOMAIN Freight["AR"] /\ "MX" \in DOMAIN Freight["CL"] /\ "MX" \in DOMAIN Freight["CO"]
  BY DEF Freight

LEMMA RouteRules == RoutesArePriced /\ RoutesAreFunctional
  <1>1. RoutesArePriced
    BY RoutesKnown, CountriesKnown, FreightKnown DEF RoutesArePriced, is_cross_border, Priced
  <1>2. RoutesAreFunctional
    BY RoutesKnown DEF RoutesAreFunctional
  <1> QED BY <1>1, <1>2

-----------------------------------------------------------------------------
(* The risk classes *)

LEMMA RankIs ==
    Rank("avoid") = 1 /\ Rank("speculative") = 2 /\ Rank("standard") = 3 /\ Rank("prime") = 4
  <1> DEFINE t == <<"avoid", "speculative", "standard", "prime">>
  <1>1. \A k \in 1..4 : k = 1 \/ k = 2 \/ k = 3 \/ k = 4
    OBVIOUS
  <1>2. 1 \in 1..4 /\ 2 \in 1..4 /\ 3 \in 1..4 /\ 4 \in 1..4
    OBVIOUS
  <1>3. t[1] = "avoid" /\ t[2] = "speculative" /\ t[3] = "standard" /\ t[4] = "prime"
    OBVIOUS
  <1>4. Rank("avoid") = (CHOOSE k \in 1..4 : t[k] = "avoid")
    BY DEF Rank
  <1>5. Rank("speculative") = (CHOOSE k \in 1..4 : t[k] = "speculative")
    BY DEF Rank
  <1>6. Rank("standard") = (CHOOSE k \in 1..4 : t[k] = "standard")
    BY DEF Rank
  <1>7. Rank("prime") = (CHOOSE k \in 1..4 : t[k] = "prime")
    BY DEF Rank
  <1> HIDE DEF t
  <1> QED BY <1>1, <1>2, <1>3, <1>4, <1>5, <1>6, <1>7

\* Of a profile whose thresholds are in their order.
Ordered(profile) ==
    /\ profile.primeOpp \in Int /\ profile.primeRisk \in Int /\ profile.primeConf \in Int
    /\ profile.standardOpp \in Int /\ profile.avoidOpp \in Int
    /\ profile.avoidOpp < profile.standardOpp /\ profile.avoidOpp < profile.primeOpp
    /\ profile.primeRisk <= StandardMaxRisk /\ StandardMinConf <= profile.primeConf
    /\ profile.standardOpp <= profile.primeOpp

LEMMA ProfilesAreOrdered ==
    \A name \in DOMAIN PROFILES : Ordered(PROFILES[name])
  BY DEF PROFILES, Profile, Ordered, StandardMaxRisk, StandardMinConf

\* The class of an opportunity never gets worse as its score or its confidence
\* gets better.
THEOREM ClassRises ==
    ASSUME NEW profile, Ordered(profile), NEW o \in Int, NEW p \in Int, NEW c \in Int, NEW d \in Int,
           NEW r \in Int, o <= p, c <= d
    PROVE  Rank(classify_risk(o, r, c, profile)) <= Rank(classify_risk(p, r, d, profile))
  <1>1. PICK po, pr, fc, so, ao \in Int :
          /\ po = profile.primeOpp /\ pr = profile.primeRisk /\ fc = profile.primeConf
          /\ so = profile.standardOpp /\ ao = profile.avoidOpp
          /\ ao < so /\ ao < po /\ so <= po /\ pr <= StandardMaxRisk /\ StandardMinConf <= fc
    BY DEF Ordered
  <1> DEFINE Prime(x, y) == x >= po /\ r <= pr /\ y >= fc
             Class(x, y) == IF Prime(x, y) THEN "prime" ELSE IF x <= ao THEN "avoid"
                            ELSE IF x >= so /\ r <= StandardMaxRisk /\ y >= StandardMinConf THEN "standard"
                            ELSE IF x >= so /\ r > StandardMaxRisk THEN "speculative"
                            ELSE "avoid"
  <1>2. ASSUME NEW x \in Int, NEW y \in Int
        PROVE  classify_risk(x, r, y, profile) = Class(x, y)
    BY <1>1 DEF classify_risk, StandardMaxRisk, StandardMinConf
  <1>3. classify_risk(o, r, c, profile) = Class(o, c) /\ classify_risk(p, r, d, profile) = Class(p, d)
    BY <1>2
  <1>4. \/ Class(o, c) = Class(p, d)
        \/ Class(o, c) = "avoid" /\ Class(p, d) \in {"speculative", "standard", "prime"}
        \/ Class(o, c) = "standard" /\ Class(p, d) = "prime"
    BY <1>1 DEF StandardMaxRisk, StandardMinConf
  <1>5. Class(p, d) \in {"avoid", "speculative", "standard", "prime"}
    OBVIOUS
  <1> HIDE DEF Class
  <1>6. PICK x, y : x = Class(o, c) /\ y = Class(p, d)
    OBVIOUS
  <1>7. Rank(x) <= Rank(y)
    BY <1>4, <1>5, <1>6, RankIs
  <1> QED BY <1>3, <1>6, <1>7

LEMMA ClassRules == ClassRisesWithScore
  <1>1. ASSUME NEW name \in DOMAIN PROFILES, NEW o \in {50 * k : k \in 0..20},
               NEW c \in {50 * k : k \in 0..20}, NEW r \in {100 * k : k \in 0..10}
        PROVE  LET class(opp, conf) == Rank(classify_risk(opp, r, conf, PROFILES[name])) IN
               class(o, c) <= Smaller(class(o + 50, c), class(o, c + 50))
    <2>1. o \in Int /\ c \in Int /\ r \in Int /\ o + 50 \in Int /\ c + 50 \in Int
      OBVIOUS
    <2>2. o <= o + 50 /\ c <= c + 50 /\ o <= o /\ c <= c
      BY <2>1
    <2>3. Ordered(PROFILES[name])
      BY ProfilesAreOrdered
    <2>4. /\ Rank(classify_risk(o, r, c, PROFILES[name])) <= Rank(classify_risk(o + 50, r, c, PROFILES[name]))
          /\ Rank(classify_risk(o, r, c, PROFILES[name])) <= Rank(classify_risk(o, r, c + 50, PROFILES[name]))
      BY <2>1, <2>2, <2>3, ClassRises
    <2> QED BY <2>4 DEF Smaller
  <1> QED BY <1>1 DEF ClassRisesWithScore

-----------------------------------------------------------------------------
(* The scores *)

LEMMA SaturationSteps ==
    \A x \in Nat : /\ Saturation(x) \in Nat /\ Saturation(x) <= 100 /\ Saturation(x) <= Saturation(x + 1)
  <1>1. ASSUME NEW x \in 0..45
        PROVE  Saturation(x) \in Nat /\ Saturation(x) <= 100 /\ Saturation(x) <= Saturation(x + 1)
    BY DEF Saturation
  <1>2. ASSUME NEW x \in Nat, x >= 46
        PROVE  Saturation(x) = 100
    BY <1>2 DEF Saturation
  <1>3. ASSUME NEW x \in Nat
        PROVE  Saturation(x) \in Nat /\ Saturation(x) <= 100 /\ Saturation(x) <= Saturation(x + 1)
    <2>1. CASE x \in 0..45
      BY <1>1, <2>1
    <2>2. CASE x \notin 0..45
      <3>1. x >= 46 /\ x + 1 >= 46 /\ x + 1 \in Nat
        BY <2>2
      <3>2. Saturation(x) = 100 /\ Saturation(x + 1) = 100
        BY <1>2, <3>1
      <3> QED BY <3>2
    <2> QED BY <2>1, <2>2
  <1> QED BY <1>3

LEMMA SaturationRises ==
    ASSUME NEW x \in Nat, NEW y \in Nat, x <= y
    PROVE  Saturation(x) <= Saturation(y)
  <1> DEFINE n == y - x
             B == {k \in 0..n : ~(Saturation(x) <= Saturation(x + k))}
  <1>1. n \in Nat /\ x + n = y
    OBVIOUS
  <1>2. ASSUME B # {} PROVE FALSE
    <2>1. PICK k \in B : \A j \in B : k <= j
      <3>1. B \in SUBSET (0..n)
        OBVIOUS
      <3> HIDE DEF B, n
      <3> QED BY <1>1, <1>2, <3>1, SmallestNumber
    <2>2. k \in Nat /\ k \in 0..n /\ ~(Saturation(x) <= Saturation(x + k))
      BY <1>1
    <2>3. k # 0
      <3>1. Saturation(x) \in Nat
        BY SaturationSteps
      <3>2. x + 0 = x
        OBVIOUS
      <3> QED BY <2>2, <3>1, <3>2
    <2>4. k - 1 \in 0..n /\ k - 1 \notin B /\ x + (k - 1) \in Nat /\ (x + (k - 1)) + 1 = x + k
      <3> HIDE DEF B
      <3> QED BY <1>1, <2>1, <2>2, <2>3
    <2>5. Saturation(x) <= Saturation(x + (k - 1))
      BY <2>4
    <2>6. /\ Saturation(x + (k - 1)) <= Saturation(x + k)
          /\ Saturation(x) \in Nat /\ Saturation(x + (k - 1)) \in Nat /\ Saturation(x + k) \in Nat
      <3>1. \A z \in Nat : Saturation(z) \in Nat /\ Saturation(z) <= Saturation(z + 1)
        BY SaturationSteps
      <3>2. x + k \in Nat
        BY <2>2
      <3> QED BY <2>4, <3>1, <3>2
    <2> QED BY <2>2, <2>5, <2>6
  <1>3. n \in 0..n
    BY <1>1
  <1>4. Saturation(x) <= Saturation(x + n)
    <2> HIDE DEF n
    <2> QED BY <1>2, <1>3
  <1> QED BY <1>1, <1>4

LEMMA Log2Type ==
    \A x : Log2(x) \in Nat
  <1> SUFFICES ASSUME NEW x PROVE Log2(x) \in Nat
    OBVIOUS
  <1> DEFINE t == <<119, 141, 168, 200, 238, 283, 336, 400, 476, 566,
        673, 800, 951, 1131, 1345, 1600, 1903, 2263, 2691, 3200, 3805, 4525, 5382, 6400,
        7611, 9051, 10763, 12800>>
             I == {i \in 1..28 : x >= t[i]}
  <1> HIDE DEF t
  <1>1. IsFiniteSet(1..28)
    <2>1. PICK a, b \in Int : a = 1 /\ b = 28
      OBVIOUS
    <2>2. IsFiniteSet(a..b)
      BY FS_Interval
    <2> QED BY <2>1, <2>2
  <1>2. IsFiniteSet(I)
    BY <1>1, FS_Subset
  <1>3. Cardinality(I) \in Nat
    BY <1>2, FS_CardinalityType
  <1>4. Log2(x) = 25 * Cardinality(I)
    BY DEF Log2, t
  <1> HIDE DEF I
  <1> QED BY <1>3, <1>4

Hundred(x) == x \in Nat /\ x <= 100

ScoringInput(i) ==
    /\ i.margin \in Int /\ i.roi \in Int /\ i.competitors \in Int /\ i.stability \in Int
    /\ i.days \in Int /\ i.spread \in Int /\ i.penalty \in Int
    /\ i.buyRating \in Int /\ i.sellRating \in Int /\ i.buyReviews \in Int /\ i.sellReviews \in Int
    /\ i.sales \in Nat /\ i.reviews \in Nat /\ i.daily \in Nat /\ i.depth \in Nat /\ i.depth <= 100
    /\ i.crossBorder \in BOOLEAN /\ i.difficulty \in 1..3

LEMMA PointsRise ==
    /\ \A x \in Int : Hundred(Points(x))
    /\ \A x, y \in Int : x <= y => Points(x) <= Points(y)
  BY DEF Points, Clamp, Larger, Smaller, Hundred

LEMMA ReputationType ==
    ASSUME NEW rating \in Int, NEW reviews \in Int
    PROVE  Hundred(Reputation(rating, reviews))
  <1>1. PICK l \in Nat : l = Log2(100 * (reviews + 1))
    BY Log2Type
  <1>2. \A x \in Int : Hundred(Points(x))
    BY PointsRise
  <1>3. (IF reviews > 0 THEN Smaller(20, (5 * l) \div 100) ELSE 0) \in Int
    BY DEF Smaller
  <1>4. PICK a \in Int : a = (IF reviews > 0 THEN Smaller(20, (5 * l) \div 100) ELSE 0)
    BY <1>3
  <1>5. Hundred(Points((rating * 16) \div 10 + a))
    BY <1>2
  <1>6. Hundred(IF reviews > 0 THEN Smaller(60, reviews * 2) ELSE 30)
    BY DEF Hundred, Smaller
  <1> QED BY <1>1, <1>4, <1>5, <1>6 DEF Reputation

LEMMA VolumeType ==
    ASSUME NEW n \in Int
    PROVE  Hundred(normalize_listing_volume(n))
  <1>1. PICK l \in Nat : l = Log2(100 * (n + 1))
    BY Log2Type
  <1>2. Hundred(Points(20 + (25 * l) \div 100)) /\ Hundred(0)
    BY PointsRise DEF Hundred
  <1> QED BY <1>1, <1>2 DEF normalize_listing_volume

\* The demand for what sells rises with its sales.
LEMMA DemandRises ==
    ASSUME NEW s \in Nat, NEW t \in Nat, s <= t, NEW r \in Nat, NEW daily \in Nat, NEW depth \in Nat, depth <= 100
    PROVE  /\ Hundred(normalize_demand(s, r, daily, depth))
           /\ s > 0 => normalize_demand(s, r, daily, depth) <= normalize_demand(t, r, daily, depth)
  <1>1. PICK a, b \in Nat : a = s \div 10 /\ b = t \div 10 /\ a <= b
    OBVIOUS
  <1>2. PICK c \in Nat : c = r \div 4
    OBVIOUS
  <1>3. PICK x, y, z \in Nat :
          /\ x = Saturation(s \div 10) /\ y = Saturation(t \div 10) /\ z = Saturation(r \div 4)
          /\ x <= y /\ x <= 100 /\ y <= 100 /\ z <= 100
    <2>1. /\ Saturation(a) \in Nat /\ Saturation(b) \in Nat /\ Saturation(c) \in Nat
          /\ Saturation(a) <= 100 /\ Saturation(b) <= 100 /\ Saturation(c) <= 100
      BY SaturationSteps
    <2>2. Saturation(a) <= Saturation(b)
      BY <1>1, SaturationRises
    <2> QED BY <1>1, <1>2, <2>1, <2>2
  <1>4. PICK d \in Nat : d = Smaller(100, daily \div 5) /\ d <= 100
    BY DEF Smaller
  <1>5. normalize_demand(s, r, daily, depth) =
          IF s > 0 THEN (x * 35 + z * 25 + d * 20 + depth * 20) \div 100
          ELSE IF r > 0 THEN (z * 40 + d * 30 + depth * 30) \div 100
          ELSE (d + depth) \div 2
    BY <1>3, <1>4 DEF normalize_demand
  <1>6. t > 0 => normalize_demand(t, r, daily, depth) = (y * 35 + z * 25 + d * 20 + depth * 20) \div 100
    BY <1>3, <1>4 DEF normalize_demand
  <1>7. Hundred(normalize_demand(s, r, daily, depth))
    BY <1>3, <1>4, <1>5 DEF Hundred
  <1>8. ASSUME s > 0
        PROVE  normalize_demand(s, r, daily, depth) <= normalize_demand(t, r, daily, depth)
    <2>1. PICK e \in Nat : e = z * 25 + d * 20 + depth * 20
      OBVIOUS
    <2>2. (x * 35 + e) \div 100 <= (y * 35 + e) \div 100
      BY <1>3, <2>1
    <2>3. /\ x * 35 + z * 25 + d * 20 + depth * 20 = x * 35 + e
          /\ y * 35 + z * 25 + d * 20 + depth * 20 = y * 35 + e
      BY <2>1
    <2> QED BY <1>5, <1>6, <1>8, <2>2, <2>3
  <1> QED BY <1>7, <1>8

LEMMA FrequencyRises ==
    ASSUME NEW s \in Nat, NEW t \in Nat, s <= t, NEW r \in Nat, NEW days \in Int
    PROVE  /\ Hundred(normalize_sales_frequency(s, r, days))
           /\ s > 0 => normalize_sales_frequency(s, r, days) <= normalize_sales_frequency(t, r, days)
  <1>1. PICK n \in Nat \ {0} : n = Larger(days, 1)
    BY DEF Larger
  <1>2. PICK a, b \in Nat : a = 10 * (s + 33 * r) /\ b = 10 * (t + 33 * r) /\ a <= b
    OBVIOUS
  <1>3. a \div n \in Nat /\ b \div n \in Nat /\ a \div n <= b \div n
    <2>1. a \div n \in Nat /\ b \div n \in Nat
      BY QuotientIs
    <2>2. a <= b /\ n <= n
      BY <1>2
    <2> QED BY <2>1, <2>2, QuotientsGrow
  <1>4. PICK c, d \in Nat : c = (a \div n) \div 2 /\ d = (b \div n) \div 2 /\ c <= d
    <2>1. PICK e, f \in Nat : e = a \div n /\ f = b \div n /\ e <= f
      BY <1>3
    <2>2. e \div 2 \in Nat /\ f \div 2 \in Nat /\ e \div 2 <= f \div 2
      BY <2>1
    <2> QED BY <2>1, <2>2
  <1>5. /\ Saturation(c) \in Nat /\ Saturation(c) <= 100 /\ Saturation(c) <= Saturation(d)
    BY <1>4, SaturationSteps, SaturationRises
  <1>6. normalize_sales_frequency(s, r, days) = IF s + r = 0 THEN 10 ELSE Saturation(c)
    BY <1>1, <1>2, <1>4 DEF normalize_sales_frequency
  <1>7. normalize_sales_frequency(t, r, days) = IF t + r = 0 THEN 10 ELSE Saturation(d)
    BY <1>1, <1>2, <1>4 DEF normalize_sales_frequency
  <1> QED BY <1>5, <1>6, <1>7 DEF Hundred

Factors == {"price_margin", "marketplace_demand", "historical_sales", "price_volatility",
            "listing_volume", "seller_reputation", "price_stability"}

\* Natural weights of a hundred in all.
Weighing(w) ==
    /\ w.price_margin \in Nat /\ w.marketplace_demand \in Nat /\ w.historical_sales \in Nat
    /\ w.price_volatility \in Nat /\ w.listing_volume \in Nat /\ w.seller_reputation \in Nat
    /\ w.price_stability \in Nat
    /\ w.price_margin + w.marketplace_demand + w.historical_sales + w.price_volatility
       + w.listing_volume + w.seller_reputation + w.price_stability = 100

LEMMA SumOfSeven ==
    ASSUME NEW g, \A n \in Factors : g[n] \in Int, DOMAIN g = Factors
    PROVE  SumFunction(g) = g["price_margin"] + g["marketplace_demand"] + g["historical_sales"]
                            + g["price_volatility"] + g["listing_volume"] + g["seller_reputation"]
                            + g["price_stability"]
  <1> DEFINE S1 == {"price_margin"}
             S2 == S1 \cup {"marketplace_demand"}
             S3 == S2 \cup {"historical_sales"}
             S4 == S3 \cup {"price_volatility"}
             S5 == S4 \cup {"listing_volume"}
             S6 == S5 \cup {"seller_reputation"}
             S7 == S6 \cup {"price_stability"}
  <1>1. /\ "price_margin" \notin {} /\ "marketplace_demand" \notin S1 /\ "historical_sales" \notin S2
        /\ "price_volatility" \notin S3 /\ "listing_volume" \notin S4 /\ "seller_reputation" \notin S5
        /\ "price_stability" \notin S6 /\ S7 = Factors /\ S1 = {} \cup {"price_margin"}
    BY DEF Factors
  <1>2. /\ S1 \subseteq Factors /\ S2 \subseteq Factors /\ S3 \subseteq Factors /\ S4 \subseteq Factors
        /\ S5 \subseteq Factors /\ S6 \subseteq Factors
    BY DEF Factors
  <1>3. ASSUME NEW S, IsFiniteSet(S), NEW x, x \notin S, S \cup {x} \subseteq Factors
        PROVE  /\ SumFunctionOnSet(g, S) \in Int /\ IsFiniteSet(S \cup {x})
               /\ SumFunctionOnSet(g, S \cup {x}) = SumFunctionOnSet(g, S) + g[x]
    BY <1>3, SumAdd, FS_AddElement
  <1>4. IsFiniteSet({}) /\ SumFunctionOnSet(g, {}) = 0
    BY FS_EmptySet, SumEmpty
  <1>5. IsFiniteSet(S1) /\ SumFunctionOnSet(g, S1) = g["price_margin"]
    <2>1. "price_margin" \in Factors /\ g["price_margin"] \in Int
      BY DEF Factors
    <2>2. SumFunctionOnSet(g, S1) = 0 + g["price_margin"]
      BY <1>1, <1>2, <1>3, <1>4
    <2>3. IsFiniteSet(S1)
      BY <1>1, <1>2, <1>3, <1>4
    <2> HIDE DEF S1
    <2> QED BY <2>1, <2>2, <2>3
  <1> HIDE DEF S1
  <1>6. IsFiniteSet(S2) /\ SumFunctionOnSet(g, S2) = SumFunctionOnSet(g, S1) + g["marketplace_demand"]
    BY <1>1, <1>2, <1>3, <1>5
  <1> HIDE DEF S2
  <1>7. IsFiniteSet(S3) /\ SumFunctionOnSet(g, S3) = SumFunctionOnSet(g, S2) + g["historical_sales"]
    BY <1>1, <1>2, <1>3, <1>6
  <1> HIDE DEF S3
  <1>8. IsFiniteSet(S4) /\ SumFunctionOnSet(g, S4) = SumFunctionOnSet(g, S3) + g["price_volatility"]
    BY <1>1, <1>2, <1>3, <1>7
  <1> HIDE DEF S4
  <1>9. IsFiniteSet(S5) /\ SumFunctionOnSet(g, S5) = SumFunctionOnSet(g, S4) + g["listing_volume"]
    BY <1>1, <1>2, <1>3, <1>8
  <1> HIDE DEF S5
  <1>10. IsFiniteSet(S6) /\ SumFunctionOnSet(g, S6) = SumFunctionOnSet(g, S5) + g["seller_reputation"]
    BY <1>1, <1>2, <1>3, <1>9
  <1> HIDE DEF S6
  <1>11. SumFunctionOnSet(g, S7) = SumFunctionOnSet(g, S6) + g["price_stability"]
    BY <1>1, <1>2, <1>3, <1>10
  <1> HIDE DEF S7
  <1> QED BY <1>1, <1>5, <1>6, <1>7, <1>8, <1>9, <1>10, <1>11 DEF SumFunction

Factored(f) == DOMAIN f = Factors /\ \A n \in Factors : Hundred(f[n])

\* A factor that rises and others that do not sink make the sum rise, and it never
\* is more than a hundred points.
LEMMA WeightedRises ==
    ASSUME NEW f, NEW g, Factored(f), Factored(g), \A n \in Factors : f[n] <= g[n], NEW w, Weighing(w)
    PROVE  /\ Weighted(f, w) \in Nat /\ Weighted(g, w) \in Nat
           /\ Weighted(f, w) <= Weighted(g, w) /\ Weighted(g, w) <= Whole
  <1> DEFINE p == [n \in Factors |-> f[n] * w[n]]
             q == [n \in Factors |-> g[n] * w[n]]
  <1>1. ASSUME NEW n \in Factors
        PROVE  w[n] \in Nat /\ p[n] \in Nat /\ q[n] \in Nat /\ p[n] <= q[n] /\ q[n] <= 100 * w[n]
    <2>1. w[n] \in Nat
      BY DEF Factors, Weighing
    <2>2. f[n] \in Nat /\ g[n] \in Nat /\ f[n] <= g[n] /\ g[n] <= 100
      BY DEF Factored, Hundred
    <2>3. PICK a, b, c \in Nat : a = f[n] /\ b = g[n] /\ c = w[n] /\ a <= b /\ b <= 100
      BY <2>1, <2>2
    <2>4. a * c \in Nat /\ b * c \in Nat /\ a * c <= b * c /\ b * c <= 100 * c
      BY <2>3, ProductsGrow
    <2> QED BY <2>3, <2>4
  <1>2. Weighted(f, w) = SumFunction(p) /\ Weighted(g, w) = SumFunction(q)
    BY DEF Weighted, Factored
  <1>3. DOMAIN p = Factors /\ DOMAIN q = Factors
    OBVIOUS
  <1> HIDE DEF p, q
  <1>4. (\A n \in Factors : p[n] \in Int) /\ (\A n \in Factors : q[n] \in Int)
    BY <1>1
  <1>5. /\ SumFunction(p) = p["price_margin"] + p["marketplace_demand"] + p["historical_sales"]
                            + p["price_volatility"] + p["listing_volume"] + p["seller_reputation"]
                            + p["price_stability"]
        /\ SumFunction(q) = q["price_margin"] + q["marketplace_demand"] + q["historical_sales"]
                            + q["price_volatility"] + q["listing_volume"] + q["seller_reputation"]
                            + q["price_stability"]
    BY <1>3, <1>4, SumOfSeven
  <1>6. /\ "price_margin" \in Factors /\ "marketplace_demand" \in Factors /\ "historical_sales" \in Factors
        /\ "price_volatility" \in Factors /\ "listing_volume" \in Factors
        /\ "seller_reputation" \in Factors /\ "price_stability" \in Factors
    BY DEF Factors
  <1> QED BY <1>1, <1>2, <1>5, <1>6 DEF Weighing, Whole

LEMMA AdjustedRises ==
    ASSUME NEW f, NEW g, Factored(f), Factored(g), \A n \in Factors : f[n] <= g[n],
           NEW w, Weighing(w), NEW penalty \in Int
    PROVE  Adjusted(f, w, penalty) <= Adjusted(g, w, penalty)
  <1>1. PICK s, t \in Nat : s = Weighted(f, w) /\ t = Weighted(g, w) /\ s <= t /\ t <= Whole
    BY WeightedRises
  <1>2. /\ \A n \in {"price_margin", "marketplace_demand", "listing_volume"} :
              n \in Factors
    BY DEF Factors
  <1>3. PICK a, b, c, d, e, h \in Nat :
          /\ a = f.price_margin /\ b = g.price_margin /\ a <= b
          /\ c = f.marketplace_demand /\ d = g.marketplace_demand /\ c <= d
          /\ e = f.listing_volume /\ h = g.listing_volume /\ e <= h
    BY <1>2 DEF Factored, Hundred
  <1> DEFINE Praised(x, m, n) == IF m > 70 /\ n > 60 THEN Smaller(Whole, (x * 108) \div 100) ELSE x
             Cut(x, v) == IF v < 15 THEN (x * 90) \div 100 ELSE x
  <1>4. PICK x, y \in Nat : x = Praised(s, a, c) /\ y = Praised(t, b, d) /\ x <= y
    BY <1>1, <1>3 DEF Smaller, Whole
  <1>5. PICK u, v \in Nat : u = Cut(x, e) /\ v = Cut(y, h) /\ u <= v
    BY <1>3, <1>4
  <1>6. Adjusted(f, w, penalty) = Tenths(u - 100 * penalty)
    BY <1>1, <1>3, <1>4, <1>5 DEF Adjusted
  <1>7. Adjusted(g, w, penalty) = Tenths(v - 100 * penalty)
    BY <1>1, <1>3, <1>4, <1>5 DEF Adjusted
  <1>8. \A m, n \in Int : m <= n => Tenths(m) <= Tenths(n)
    BY DEF Tenths, Clamp, Larger, Smaller
  <1>9. u - 100 * penalty \in Int /\ v - 100 * penalty \in Int /\ u - 100 * penalty <= v - 100 * penalty
    BY <1>5
  <1> QED BY <1>6, <1>7, <1>8, <1>9

\* j is i at a better margin, with more sales of what sells, or both.
Improved(i, j) ==
    /\ i.margin <= j.margin /\ (i.sales = j.sales \/ (0 < i.sales /\ i.sales <= j.sales))
    /\ i.roi = j.roi /\ i.competitors = j.competitors /\ i.stability = j.stability /\ i.days = j.days
    /\ i.spread = j.spread /\ i.penalty = j.penalty /\ i.buyRating = j.buyRating
    /\ i.sellRating = j.sellRating /\ i.buyReviews = j.buyReviews /\ i.sellReviews = j.sellReviews
    /\ i.reviews = j.reviews /\ i.daily = j.daily /\ i.depth = j.depth
    /\ i.crossBorder = j.crossBorder /\ i.difficulty = j.difficulty

LEMMA FactorsType ==
    ASSUME NEW i, ScoringInput(i)
    PROVE  Factored(compute_factors(i))
  <1>1. /\ \A x \in Int : Hundred(Points(x))
        /\ normalize_margin(i.margin) = Points((i.margin * 200) \div Whole)
        /\ (i.margin * 200) \div Whole \in Int
    BY PointsRise DEF ScoringInput, normalize_margin, Whole
  <1>2. Hundred(normalize_margin(i.margin)) /\ Hundred(Points(i.stability))
    BY <1>1 DEF ScoringInput
  <1>3. Hundred(normalize_demand(i.sales, i.reviews, i.daily, i.depth))
    <2>1. i.sales <= i.sales /\ i.sales \in Nat /\ i.reviews \in Nat /\ i.daily \in Nat /\ i.depth \in Nat
          /\ i.depth <= 100
      BY DEF ScoringInput
    <2> QED BY <2>1, DemandRises
  <1>4. Hundred(normalize_sales_frequency(i.sales, i.reviews, i.days))
    <2>1. i.sales <= i.sales /\ i.sales \in Nat /\ i.reviews \in Nat /\ i.days \in Int
      BY DEF ScoringInput
    <2> QED BY <2>1, FrequencyRises
  <1>5. Hundred(normalize_listing_volume(i.competitors))
    BY VolumeType DEF ScoringInput
  <1>6. PICK a, b : a = Reputation(i.buyRating, i.buyReviews) /\ b = Reputation(i.sellRating, i.sellReviews)
    OBVIOUS
  <1>7. Hundred(a) /\ Hundred(b)
    BY <1>6, ReputationType DEF ScoringInput
  <1>8. Hundred((a + b) \div 2)
    BY <1>7 DEF Hundred
  <1> QED BY <1>2, <1>3, <1>4, <1>5, <1>6, <1>8 DEF Factored, Factors, compute_factors

LEMMA FactorsRise ==
    ASSUME NEW i, NEW j, ScoringInput(i), ScoringInput(j), Improved(i, j)
    PROVE  /\ \A n \in Factors : compute_factors(i)[n] <= compute_factors(j)[n]
           /\ compute_factors(i).price_volatility = compute_factors(j).price_volatility
  <1> PICK f, g : f = compute_factors(i) /\ g = compute_factors(j)
    OBVIOUS
  <1>1. Factored(f) /\ Factored(g)
    BY FactorsType
  <1>2. f.price_margin <= g.price_margin
    <2>1. PICK m, n \in Int : m = i.margin /\ n = j.margin /\ m <= n
      BY DEF ScoringInput, Improved
    <2>2. /\ (m * 200) \div Whole \in Int /\ (n * 200) \div Whole \in Int
          /\ (m * 200) \div Whole <= (n * 200) \div Whole
      BY <2>1 DEF Whole
    <2>3. normalize_margin(m) <= normalize_margin(n)
      BY <2>2, PointsRise DEF normalize_margin
    <2> QED BY <2>1, <2>3 DEF compute_factors
  <1>3. f.marketplace_demand <= g.marketplace_demand /\ f.historical_sales <= g.historical_sales
    <2>1. PICK s, t, r, daily, depth \in Nat, days \in Int :
            /\ s = i.sales /\ t = j.sales /\ r = i.reviews /\ daily = i.daily /\ depth = i.depth
            /\ days = i.days /\ r = j.reviews /\ daily = j.daily /\ depth = j.depth /\ days = j.days
            /\ depth <= 100 /\ (s = t \/ (0 < s /\ s <= t))
      BY DEF ScoringInput, Improved
    <2>2. CASE s = t
      <3>1. f.marketplace_demand = g.marketplace_demand /\ f.historical_sales = g.historical_sales
        BY <2>1, <2>2 DEF compute_factors
      <3>2. f.marketplace_demand \in Nat /\ f.historical_sales \in Nat
        BY <1>1 DEF Factored, Factors, Hundred
      <3> QED BY <3>1, <3>2
    <2>3. CASE 0 < s /\ s <= t
      <3>1. normalize_demand(s, r, daily, depth) <= normalize_demand(t, r, daily, depth)
        BY <2>1, <2>3, DemandRises
      <3>2. normalize_sales_frequency(s, r, days) <= normalize_sales_frequency(t, r, days)
        BY <2>1, <2>3, FrequencyRises
      <3> QED BY <2>1, <3>1, <3>2 DEF compute_factors
    <2> QED BY <2>1, <2>2, <2>3
  <1>4. \A n \in {"price_volatility", "listing_volume", "seller_reputation", "price_stability"} : f[n] = g[n]
    BY DEF compute_factors, Improved
  <1>5. \A n \in Factors : f[n] \in Nat
    BY <1>1 DEF Factored, Hundred
  <1>6. \A n \in Factors : \/ n = "price_margin" \/ n = "marketplace_demand" \/ n = "historical_sales"
                           \/ n \in {"price_volatility", "listing_volume", "seller_reputation", "price_stability"}
    BY DEF Factors
  <1>7. ASSUME NEW n \in Factors
        PROVE  f[n] <= g[n]
    <2>1. CASE n \in {"price_volatility", "listing_volume", "seller_reputation", "price_stability"}
      <3>1. f[n] = g[n] /\ f[n] \in Nat
        BY <1>4, <1>5, <2>1
      <3> QED BY <3>1
    <2> QED BY <1>2, <1>3, <1>6, <2>1
  <1> QED BY <1>4, <1>7

LEMMA MarginRiskFalls ==
    ASSUME NEW x \in Int, NEW y \in Int, x <= y
    PROVE  margin_risk(x) \in Int /\ margin_risk(y) \in Int /\ margin_risk(y) <= margin_risk(x)
  <1> DEFINE R(m) == IF m > 4000 THEN 10 ELSE IF m > 2500 THEN 25 ELSE IF m > 1500 THEN 40
                     ELSE IF m > 800 THEN 55 ELSE IF m > 500 THEN 70 ELSE 85
  <1>1. \A m \in Int : margin_risk(m) = R(m)
    <2> SUFFICES ASSUME NEW m \in Int PROVE margin_risk(m) = R(m)
      OBVIOUS
    <2> DEFINE In1 == m > 4000
               In2 == m \in 2501..4000
               In3 == m \in 1501..2500
               In4 == m \in 801..1500
               In5 == m \in 501..800
    <2>1. margin_risk(m) = CASE In1 -> 10 [] In2 -> 25 [] In3 -> 40 [] In4 -> 55 [] In5 -> 70
                             [] OTHER -> 85
      BY Zenon DEF margin_risk
    <2>2. /\ In2 <=> (m > 2500 /\ ~(m > 4000))
          /\ In3 <=> (m > 1500 /\ ~(m > 2500))
          /\ In4 <=> (m > 800 /\ ~(m > 1500))
          /\ In5 <=> (m > 500 /\ ~(m > 800))
      OBVIOUS
    <2>3. In1 <=> m > 4000
      OBVIOUS
    <2> HIDE DEF In1, In2, In3, In4, In5
    <2> QED BY <2>1, <2>2, <2>3
  <1>2. R(x) \in Int /\ R(y) \in Int /\ R(y) <= R(x)
    OBVIOUS
  <1> HIDE DEF R
  <1> QED BY <1>1, <1>2

LEMMA RiskFalls ==
    ASSUME NEW i, NEW j, ScoringInput(i), ScoringInput(j), Improved(i, j)
    PROVE  compute_risk_score(j) <= compute_risk_score(i)
  <1> PICK f, g : f = compute_factors(i) /\ g = compute_factors(j)
    OBVIOUS
  <1>1. Factored(f) /\ Factored(g) /\ (\A n \in Factors : f[n] <= g[n])
        /\ f.price_volatility = g.price_volatility
    BY FactorsType, FactorsRise
  <1>2. PICK v, d, e \in Nat : /\ v = f.price_volatility /\ v = g.price_volatility
                              /\ d = f.marketplace_demand /\ e = g.marketplace_demand /\ d <= e
    BY <1>1 DEF Factored, Factors, Hundred
  <1>3. competition_risk(i) = competition_risk(j) /\ cross_border_risk(i) = cross_border_risk(j)
    BY DEF competition_risk, cross_border_risk, Improved
  <1>4. PICK a \in Int, b \in Int : a = competition_risk(i) /\ b = cross_border_risk(i)
    <2>1. competition_risk(i) \in Int
      BY DEF competition_risk, ScoringInput
    <2>2. cross_border_risk(i) \in Int
      BY DEF cross_border_risk, ScoringInput
    <2> QED BY <2>1, <2>2
  <1>5. PICK m, n \in Int : m = margin_risk(i.margin) /\ n = margin_risk(j.margin) /\ n <= m
    <2>2. PICK x, y \in Int : x = i.margin /\ y = j.margin /\ x <= y
      BY DEF ScoringInput, Improved
    <2> QED BY <2>2, MarginRiskFalls
  <1> DEFINE Odd(x) == (IF x.roi > 20000 THEN 1000 ELSE 0)
               + 500 * Cardinality({side \in {"buy", "sell"} :
                          Shaky(IF side = "buy" THEN x.buyRating ELSE x.sellRating)})
  <1>6. Odd(i) = Odd(j)
    BY DEF Improved
  <1>7. Odd(i) \in Int
    <2>1. IsFiniteSet({"buy", "sell"})
      <3>1. IsFiniteSet({}) /\ IsFiniteSet({} \cup {"buy"})
        BY FS_EmptySet, FS_AddElement
      <3>2. IsFiniteSet(({} \cup {"buy"}) \cup {"sell"})
        BY <3>1, FS_AddElement
      <3>3. ({} \cup {"buy"}) \cup {"sell"} = {"buy", "sell"}
        OBVIOUS
      <3> QED BY <3>2, <3>3
    <2>2. IsFiniteSet({side \in {"buy", "sell"} : Shaky(IF side = "buy" THEN i.buyRating ELSE i.sellRating)})
      BY <2>1, FS_Subset
    <2>3. Cardinality({side \in {"buy", "sell"} : Shaky(IF side = "buy" THEN i.buyRating ELSE i.sellRating)}) \in Nat
      BY <2>2, FS_CardinalityType
    <2> QED BY <2>3 DEF ScoringInput
  <1>8. PICK o \in Int : o = Odd(i) /\ o = Odd(j)
    <2> HIDE DEF Odd
    <2> QED BY <1>6, <1>7
  <1>9. compute_risk_score(i) = Tenths(25 * (100 - v) + 20 * a + 20 * (100 - d) + 15 * m + 20 * b + o)
    BY <1>2, <1>4, <1>5, <1>8 DEF compute_risk_score
  <1>10. compute_risk_score(j) = Tenths(25 * (100 - v) + 20 * a + 20 * (100 - e) + 15 * n + 20 * b + o)
    BY <1>2, <1>3, <1>4, <1>5, <1>8 DEF compute_risk_score
  <1>11. \A x, y \in Int : x <= y => Tenths(x) <= Tenths(y)
    BY DEF Tenths, Clamp, Larger, Smaller
  <1>12. PICK x, y \in Int :
           /\ x = 25 * (100 - v) + 20 * a + 20 * (100 - d) + 15 * m + 20 * b + o
           /\ y = 25 * (100 - v) + 20 * a + 20 * (100 - e) + 15 * n + 20 * b + o
           /\ y <= x
    BY <1>2, <1>5
  <1>13. Tenths(y) <= Tenths(x)
    BY <1>11, <1>12
  <1> QED BY <1>9, <1>10, <1>12, <1>13

LEMMA ProfilesWeigh ==
    Weighing(OPP_WEIGHTS) /\ \A name \in DOMAIN PROFILES : Weighing(PROFILES[name].weights)
  BY DEF OPP_WEIGHTS, PROFILES, Profile, Weights, Weighing

\* A better margin, or more sales of what sells, never lowers the score of an
\* opportunity under any profile, nor raises its risk.
THEOREM ScoresRise ==
    ASSUME NEW i, NEW j, ScoringInput(i), ScoringInput(j), Improved(i, j)
    PROVE  /\ score(i).opportunity <= score(j).opportunity
           /\ score(j).risk <= score(i).risk
           /\ \A name \in DOMAIN PROFILES :
                 Adjusted(compute_factors(i), PROFILES[name].weights, i.penalty)
                    <= Adjusted(compute_factors(j), PROFILES[name].weights, j.penalty)
  <1>1. /\ Factored(compute_factors(i)) /\ Factored(compute_factors(j))
        /\ \A n \in Factors : compute_factors(i)[n] <= compute_factors(j)[n]
        /\ i.penalty \in Int /\ j.penalty = i.penalty
    BY FactorsType, FactorsRise DEF ScoringInput, Improved
  <1> PICK f, g : f = compute_factors(i) /\ g = compute_factors(j)
    OBVIOUS
  <1>2. \A w : Weighing(w) => Adjusted(f, w, i.penalty) <= Adjusted(g, w, j.penalty)
    BY <1>1, AdjustedRises
  <1>3. compute_opportunity_score(i) <= compute_opportunity_score(j)
    BY <1>2, ProfilesWeigh DEF compute_opportunity_score
  <1>4. compute_risk_score(j) <= compute_risk_score(i)
    BY RiskFalls
  <1>5. /\ score(i).opportunity = compute_opportunity_score(i) /\ score(i).risk = compute_risk_score(i)
        /\ score(j).opportunity = compute_opportunity_score(j) /\ score(j).risk = compute_risk_score(j)
    BY DEF score
  <1> QED BY <1>2, <1>3, <1>4, <1>5, ProfilesWeigh

LEMMA AroundIsInput ==
    \A i \in Around : /\ ScoringInput(i) /\ i.margin = 2000 /\ i.sales = 20
                      /\ "margin" \in DOMAIN i /\ "sales" \in DOMAIN i
  <1>1. ASSUME NEW n \in {1, 2, 9, 10}, NEW r \in {NoRating, 25, 45}, NEW s \in {0, 50, 90}, NEW i,
               i = [Usual EXCEPT !.competitors = n, !.sellRating = r, !.stability = s]
        PROVE  /\ ScoringInput(i) /\ i.margin = 2000 /\ i.sales = 20
               /\ "margin" \in DOMAIN i /\ "sales" \in DOMAIN i
    <2>1. n \in Int /\ r \in Int /\ s \in Int
      BY DEF NoRating
    <2> QED BY <1>1, <2>1 DEF Usual, ScoringInput
  <1> QED BY <1>1 DEF Around

LEMMA ScoreRules == ScoresAreMonotone
  <1>1. ASSUME NEW i \in Around, NEW m \in Int
        PROVE  /\ score(AtMargin(i, m)).opportunity <= score(AtMargin(i, m + 300)).opportunity
               /\ score(AtMargin(i, m)).risk >= score(AtMargin(i, m + 300)).risk
    <2> PICK a, b : a = AtMargin(i, m) /\ b = AtMargin(i, m + 300)
      OBVIOUS
    <2>1. ScoringInput(i) /\ "margin" \in DOMAIN i /\ "sales" \in DOMAIN i
      BY AroundIsInput
    <2>2. ScoringInput(a) /\ ScoringInput(b) /\ Improved(a, b)
      BY <2>1 DEF ScoringInput, Improved, AtMargin
    <2> QED BY <2>2, ScoresRise
  <1>2. ASSUME NEW i \in Around, NEW s \in Nat, 0 < s
        PROVE  /\ score(AtSales(i, s)).opportunity <= score(AtSales(i, s + 20)).opportunity
               /\ score(AtSales(i, s)).risk >= score(AtSales(i, s + 20)).risk
    <2> PICK a, b : a = AtSales(i, s) /\ b = AtSales(i, s + 20)
      OBVIOUS
    <2>1. ScoringInput(i) /\ "margin" \in DOMAIN i /\ "sales" \in DOMAIN i
      BY AroundIsInput
    <2>2. ScoringInput(a) /\ ScoringInput(b) /\ Improved(a, b)
      BY <1>2, <2>1 DEF ScoringInput, Improved, AtSales
    <2> QED BY <2>2, ScoresRise
  <1>3. (\A m \in {300 * k : k \in 0..20} : m \in Int) /\ \A s \in {20 * k : k \in 1..10} : s \in Nat /\ 0 < s
    OBVIOUS
  <1> QED BY <1>1, <1>2, <1>3 DEF ScoresAreMonotone

-----------------------------------------------------------------------------
(* The trends *)

LEMMA MeanType ==
    ASSUME NEW s \in Seq(Int), Len(s) # 0
    PROVE  SumOf(s) \in Int /\ MeanOf(s) \in Int
  <1>1. Len(s) \in Nat \ {0} /\ DOMAIN s = 1..Len(s) /\ \A i \in DOMAIN s : s[i] \in Int
    BY LenProperties, ElementOfSeq
  <1>2. IsFiniteSet(DOMAIN s)
    BY <1>1, FS_Interval
  <1>3. SumFunctionOnSet(s, DOMAIN s) \in Int
    BY <1>1, <1>2, SumRemove
  <1>4. SumOf(s) \in Int
    BY <1>3 DEF SumOf, SumFunction
  <1>5. \A x \in Int, n \in Nat \ {0} : x \div n \in Int
    OBVIOUS
  <1> QED BY <1>1, <1>4, <1>5 DEF MeanOf

\* A function on 1..n is a sequence of length n.
LEMMA SequenceIs ==
    ASSUME NEW S, NEW n \in Nat, NEW s \in [1..n -> S]
    PROVE  s \in Seq(S) /\ Len(s) = n /\ DOMAIN s = 1..n
  <1>1. s \in Seq(S)
    BY SeqDef
  <1>2. Len(s) \in Nat /\ DOMAIN s = 1..Len(s)
    BY <1>1, LenProperties
  <1> QED BY <1>1, <1>2

LEMMA LastOfType ==
    ASSUME NEW S, NEW s \in Seq(S), Len(s) # 0, NEW n \in Nat \ {0}
    PROVE  LastOf(s, n) \in Seq(S) /\ Len(LastOf(s, n)) # 0
  <1>1. PICK a \in Nat : a = Larger(1, Len(s) - n + 1) /\ a >= 1 /\ a <= Len(s)
    BY LenProperties DEF Larger
  <1>2. PICK b \in Nat : b = Len(s) /\ DOMAIN s = 1..b
    BY LenProperties
  <1>3. \A i \in a..b : s[i] \in S
    BY <1>1, <1>2, ElementOfSeq
  <1>4. SubSeq(s, a, b) \in Seq(S) /\ Len(SubSeq(s, a, b)) = b - a + 1
    <2>1. a \in 1..(b + 1)
      BY <1>1, <1>2
    <2> QED BY <1>1, <1>2, <1>3, <2>1, SubSeqProperties
  <1> QED BY <1>1, <1>2, <1>4 DEF LastOf

Snapshot == [count : Nat, price : Int, v7 : Nat, v30 : Nat]

LEMMA ClampType ==
    \A x \in Int : Clamp(x, 0, 1000) \in Int /\ Clamp(x, 0, 1000) >= 0 /\ Clamp(x, 0, 1000) <= 1000
  BY DEF Clamp, Larger, Smaller

\* A function of the elements of a sequence is a sequence as long.
LEMMA ScaledType ==
    ASSUME NEW s \in Seq(Nat), Len(s) # 0
    PROVE  MeanOf([i \in DOMAIN s |-> 1000 * s[i]]) \in Int
  <1>1. PICK n \in Nat : n = Len(s) /\ DOMAIN s = 1..n /\ n # 0
    BY LenProperties
  <1>2. \A i \in 1..n : s[i] \in Nat
    BY <1>1, ElementOfSeq
  <1> PICK q : q = [i \in DOMAIN s |-> 1000 * s[i]]
    OBVIOUS
  <1>3. q \in [1..n -> Int]
    BY <1>1, <1>2
  <1>4. q \in Seq(Int) /\ Len(q) # 0
    BY <1>1, <1>3, SequenceIs
  <1> QED BY <1>4, MeanType

\* A pace of more than five times the usual takes more than five days' worth.
LEMMA PaceIsFive ==
    ASSUME NEW a \in Nat, NEW b \in Nat,
           (1000 * a) \div (IF b > 0 THEN b ELSE 1) > 5000
    PROVE  a > 5 * b
  <1>1. CASE b > 0
    <2>1. PICK c \in Nat : c = 1000 * a
      OBVIOUS
    <2>2. PICK q \in Nat : q = c \div b /\ q * b <= c
      BY <1>1, QuotientIs
    <2>3. q >= 5001
      BY <1>1, <2>1, <2>2
    <2>4. 5001 * b <= q * b
      BY <2>3, ProductsGrow
    <2>5. q * b \in Nat
      OBVIOUS
    <2>6. 5001 * b <= 1000 * a
      BY <2>1, <2>2, <2>4, <2>5
    <2> QED BY <1>1, <2>6
  <1>2. CASE b = 0
    BY <1>2
  <1> QED BY <1>1, <1>2

LEMMA VelocityIs ==
    ASSUME NEW w \in Seq(Snapshot), Len(w) # 0
    PROVE  LET v == VelocitySpike(w) IN
           /\ v.score \in Int /\ v.score <= 1000 /\ v.ratio \in Int
           /\ v.ratio > 5000 => w[Len(w)].v7 > 5 * w[Len(w)].v30
  <1> DEFINE a == w[Len(w)].v7
             b == w[Len(w)].v30
             counts == [i \in DOMAIN w |-> w[i].count]
             older == SubSeq(counts, 1, Larger(Len(counts) - 3, 1))
             recent == MeanOf([i \in DOMAIN LastOf(counts, 3) |-> 1000 * LastOf(counts, 3)[i]])
             base == MeanOf([i \in DOMAIN older |-> 1000 * older[i]])
             ratio == (1000 * a) \div (IF b > 0 THEN b ELSE 1)
             volume == IF base > 0 THEN ((recent - base) * 1000) \div base
                       ELSE IF recent > 0 THEN Huge ELSE 0
             points == Clamp(((ratio - 1000) * 2) \div 5 + volume \div 5 + 300, 0, 1000)
  <1>1. VelocitySpike(w) = IF Len(w) < 2 THEN NoSignal
                           ELSE Signal(Towards(ratio, 500, 1500), points, ratio)
    BY Zenon DEF VelocitySpike
  <1>2. PICK n \in Nat \ {0} : n = Len(w) /\ DOMAIN w = 1..n /\ \A i \in 1..n : w[i] \in Snapshot
    BY LenProperties, ElementOfSeq
  <1>3. a \in Nat /\ b \in Nat
    BY <1>2 DEF Snapshot
  <1>4. counts \in Seq(Nat) /\ Len(counts) = n
    <2>1. counts \in [1..n -> Nat]
      BY <1>2 DEF Snapshot
    <2> HIDE DEF counts
    <2> QED BY <2>1, SequenceIs
  <1> HIDE DEF a, b, counts
  <1>5. older \in Seq(Nat) /\ Len(older) # 0
    <2>1. PICK m \in Nat : m = Larger(Len(counts) - 3, 1) /\ m >= 1 /\ m <= n
      BY <1>4 DEF Larger
    <2>2. \A i \in 1..m : counts[i] \in Nat
      BY <1>4, <2>1, ElementOfSeq
    <2> QED BY <2>1, <2>2, SubSeqProperties
  <1>6. LastOf(counts, 3) \in Seq(Nat) /\ Len(LastOf(counts, 3)) # 0
    <2>1. 3 \in Nat \ {0} /\ Len(counts) # 0
      BY <1>4
    <2> QED BY <1>4, <2>1, LastOfType
  <1> HIDE DEF older
  <1>7. recent \in Int /\ base \in Int
    BY <1>5, <1>6, ScaledType
  <1> HIDE DEF recent, base
  <1>8. ratio \in Int /\ (ratio > 5000 => a > 5 * b)
    BY <1>3, PaceIsFive
  <1> HIDE DEF ratio
  <1>9. volume \in Int
    <2>1. \A x \in Int : base > 0 => x \div base \in Int
      BY <1>7
    <2>2. (recent - base) * 1000 \in Int
      BY <1>7
    <2> QED BY <2>1, <2>2 DEF Huge
  <1> HIDE DEF volume
  <1>10. points \in Int /\ points <= 1000
    <2>1. ((ratio - 1000) * 2) \div 5 + volume \div 5 + 300 \in Int
      BY <1>8, <1>9
    <2> QED BY <2>1, ClampType
  <1> HIDE DEF points
  <1>11. CASE Len(w) < 2
    BY <1>1, <1>11 DEF NoSignal, Signal
  <1>12. CASE ~(Len(w) < 2)
    BY <1>1, <1>8, <1>10, <1>12 DEF Signal, a, b
  <1> QED BY <1>11, <1>12

\* The pace is what the direction follows.
LEMMA VelocityShape ==
    \A w : \/ VelocitySpike(w) = NoSignal
           \/ \E ratio, points : VelocitySpike(w) = Signal(Towards(ratio, 500, 1500), points, ratio)
  <1> SUFFICES ASSUME NEW w
      PROVE  \/ VelocitySpike(w) = NoSignal
             \/ \E ratio, points : VelocitySpike(w) = Signal(Towards(ratio, 500, 1500), points, ratio)
    OBVIOUS
  <1> DEFINE counts == [i \in DOMAIN w |-> w[i].count]
             older == SubSeq(counts, 1, Larger(Len(counts) - 3, 1))
             recent == MeanOf([i \in DOMAIN LastOf(counts, 3) |-> 1000 * LastOf(counts, 3)[i]])
             base == MeanOf([i \in DOMAIN older |-> 1000 * older[i]])
             pace == (1000 * w[Len(w)].v7) \div (IF w[Len(w)].v30 > 0 THEN w[Len(w)].v30 ELSE 1)
             volume == IF base > 0 THEN ((recent - base) * 1000) \div base
                       ELSE IF recent > 0 THEN Huge ELSE 0
             gain == Clamp(((pace - 1000) * 2) \div 5 + volume \div 5 + 300, 0, 1000)
  <1>1. VelocitySpike(w) = IF Len(w) < 2 THEN NoSignal
                           ELSE Signal(Towards(pace, 500, 1500), gain, pace)
    BY Zenon DEF VelocitySpike
  <1> HIDE DEF pace, gain
  <1> QED BY <1>1

\* The price of what is left is a positive one.
LEMMA PricedAre ==
    ASSUME NEW w \in Seq(Snapshot)
    PROVE  LET priced == Without(w, {s \in Range(w) : s.price <= 0}) IN
           /\ priced \in Seq(Snapshot)
           /\ \A i \in 1..Len(priced) : priced[i].price \in Nat \ {0}
  <1> DEFINE T == {s \in Range(w) : s.price <= 0}
             priced == Without(w, T)
  <1>1. priced \in Seq(Snapshot) /\ Range(priced) = Range(w) \ T
    BY WithoutTypes, WithoutRange
  <1>2. ASSUME NEW i \in 1..Len(priced)
        PROVE  priced[i].price \in Nat \ {0}
    <2>1. priced[i] \in Snapshot /\ priced[i] \in Range(priced)
      <3> HIDE DEF priced
      <3>1. DOMAIN priced = 1..Len(priced)
        BY <1>1, LenProperties
      <3> QED BY <1>1, <3>1, ElementOfSeq DEF Range
    <2>2. ~(priced[i].price <= 0)
      BY <1>1, <2>1
    <2> HIDE DEF priced
    <2> QED BY <2>1, <2>2 DEF Snapshot
  <1> QED BY <1>1, <1>2

LEMMA MomentumType ==
    ASSUME NEW w \in Seq(Snapshot)
    PROVE  PriceMomentum(w).score \in Int
  <1> DEFINE priced == Without(w, {s \in Range(w) : s.price <= 0})
             returns == [i \in 1..Len(priced) - 1 |->
                           ((priced[i + 1].price - priced[i].price) * Whole) \div priced[i].price]
             n == Len(returns)
             recent == IF n >= 3 THEN MeanOf(LastOf(returns, 3)) ELSE returns[n]
             momentum == (7 * recent + 3 * MeanOf(returns)) \div 10
             acceleration == IF n >= 2 THEN returns[n] - returns[n - 1] ELSE 0
             points == Smaller(500, Abs(momentum) \div 2) + Smaller(500, Abs(acceleration))
  <1>1. PriceMomentum(w) = IF Len(priced) < 3 THEN NoSignal
                           ELSE Signal(Towards(momentum, -200, 200), points, 0)
    BY Zenon DEF PriceMomentum
  <1>2. CASE Len(priced) < 3
    <2>1. PriceMomentum(w) = NoSignal
      <3> HIDE DEF priced, momentum, points
      <3> QED BY <1>1, <1>2
    <2> QED BY <2>1 DEF NoSignal, Signal
  <1>3. CASE ~(Len(priced) < 3)
    <2>1. priced \in Seq(Snapshot) /\ \A i \in 1..Len(priced) : priced[i].price \in Nat \ {0}
      BY PricedAre
    <2> HIDE DEF priced
    <2>2. PICK m \in Nat : m = Len(priced) - 1 /\ m >= 2
      BY <1>3, <2>1, LenProperties
    <2>3. returns \in [1..m -> Int]
      <3>1. ASSUME NEW i \in 1..m
            PROVE  ((priced[i + 1].price - priced[i].price) * Whole) \div priced[i].price \in Int
        <4>1. i \in 1..Len(priced) /\ i + 1 \in 1..Len(priced)
          BY <2>1, <2>2, LenProperties
        <4>2. PICK p, q \in Nat \ {0} : p = priced[i].price /\ q = priced[i + 1].price
          BY <2>1, <4>1
        <4>3. ((q - p) * Whole) \div p \in Int
          BY DEF Whole
        <4> QED BY <4>2, <4>3
      <3> QED BY <2>2, <3>1
    <2> HIDE DEF returns
    <2>4. returns \in Seq(Int) /\ n = m /\ \A i \in 1..m : returns[i] \in Int
      BY <2>2, <2>3, SequenceIs
    <2> HIDE DEF n
    <2>5. MeanOf(returns) \in Int /\ MeanOf(LastOf(returns, 3)) \in Int
      <3>1. Len(returns) # 0 /\ 3 \in Nat \ {0}
        BY <2>2, <2>4 DEF n
      <3>2. LastOf(returns, 3) \in Seq(Int) /\ Len(LastOf(returns, 3)) # 0
        BY <2>4, <3>1, LastOfType
      <3> QED BY <2>4, <3>1, <3>2, MeanType
    <2>6. m \in 1..m /\ m - 1 \in 1..m
      BY <2>2
    <2>7. recent \in Int /\ acceleration \in Int
      BY <2>4, <2>5, <2>6
    <2> HIDE DEF recent, acceleration
    <2>8. momentum \in Int
      BY <2>5, <2>7
    <2> HIDE DEF momentum
    <2>9. points \in Int
      <3>1. Abs(momentum) \div 2 \in Int /\ Abs(acceleration) \in Int
        BY <2>7, <2>8 DEF Abs, Larger
      <3>2. Smaller(500, Abs(momentum) \div 2) \in Int /\ Smaller(500, Abs(acceleration)) \in Int
        BY <3>1 DEF Smaller
      <3> QED BY <3>2
    <2> HIDE DEF points
    <2> QED BY <1>1, <1>3, <2>9 DEF Signal
  <1> QED BY <1>2, <1>3

\* A breakout takes a pace of more than five times the usual, and prices that have
\* moved.
THEOREM BreakoutNeedsBoth ==
    ASSUME NEW w \in Seq(Snapshot), Len(w) # 0, aggregate(w).type = "breakout"
    PROVE  w[Len(w)].v7 > 5 * w[Len(w)].v30 /\ PriceMomentum(w).score >= 400
  <1> PICK v, m : v = VelocitySpike(w) /\ m = PriceMomentum(w)
    OBVIOUS
  <1>1. /\ v.score \in Int /\ v.score <= 1000 /\ v.ratio \in Int /\ m.score \in Int
        /\ v.ratio > 5000 => w[Len(w)].v7 > 5 * w[Len(w)].v30
    BY VelocityIs, MomentumType
  <1>2. aggregate(w).type = classify_trend_type(CompositeDirection(v, m), (v.score + m.score) \div 2, v.ratio \div 2)
    BY DEF aggregate
  <1>3. v.direction # "breakout"
    BY DEF VelocitySpike, NoSignal, Signal, Towards
  <1>4. (v.score + m.score) \div 2 >= 700 /\ v.ratio \div 2 > 2500
    BY <1>2, <1>3 DEF classify_trend_type, CompositeDirection
  <1>5. PICK x, y, z \in Int : x = v.score /\ y = m.score /\ z = v.ratio
    BY <1>1
  <1>6. z > 5000 /\ y >= 400
    BY <1>1, <1>4, <1>5
  <1> QED BY <1>1, <1>5, <1>6

\* A falling trend is a falling pace.
THEOREM FallingIsSlow ==
    ASSUME NEW w, aggregate(w).type = "falling"
    PROVE  VelocitySpike(w).ratio < 500
  <1> PICK v, m : v = VelocitySpike(w) /\ m = PriceMomentum(w)
    OBVIOUS
  <1>1. aggregate(w).type = classify_trend_type(CompositeDirection(v, m), (v.score + m.score) \div 2, v.ratio \div 2)
    BY DEF aggregate
  <1>2. v.direction = "falling"
    BY <1>1 DEF classify_trend_type, CompositeDirection
  <1>3. \/ v = NoSignal
        \/ \E ratio, points : v = Signal(Towards(ratio, 500, 1500), points, ratio)
    BY VelocityShape
  <1>4. v # NoSignal
    BY <1>2 DEF NoSignal, Signal
  <1>5. PICK ratio, points : v = Signal(Towards(ratio, 500, 1500), points, ratio)
    BY <1>3, <1>4
  <1>6. v.direction = Towards(ratio, 500, 1500) /\ v.ratio = ratio
    BY <1>5 DEF Signal
  <1>7. ratio < 500
    BY <1>2, <1>6 DEF Towards
  <1> QED BY <1>6, <1>7

LEMMA TrendRules == BreakoutTakesBoth /\ MomentumIsOutvoted
  <1>1. Snapshots \subseteq Snapshot /\ Todays \subseteq Snapshot
    BY DEF Snapshots, Todays, Snapshot
  <1>2. ASSUME NEW w \in Weeks
        PROVE  w \in Seq(Snapshot) /\ Len(w) # 0
    <2>1. CASE \E t \in Todays : w = <<t>>
      BY <1>1, <2>1
    <2>2. CASE \E s \in Snapshots, t \in Todays : w = <<s, t>>
      BY <1>1, <2>2
    <2>3. CASE \E s, r \in Snapshots, t \in Todays : w = <<s, s, r, t>>
      BY <1>1, <2>3
    <2> QED BY <2>1, <2>2, <2>3 DEF Weeks
  <1>3. BreakoutTakesBoth
    BY <1>2, BreakoutNeedsBoth DEF BreakoutTakesBoth
  <1>4. MomentumIsOutvoted
    BY FallingIsSlow DEF MomentumIsOutvoted
  <1> QED BY <1>3, <1>4

-----------------------------------------------------------------------------
(* The forecasts *)

Dates == [price : Nat \ {0}, day : Int]

LEMMA SumsAreInt ==
    ASSUME NEW n \in Nat, NEW s, DOMAIN s = 1..n, \A i \in 1..n : s[i] \in Int
    PROVE  /\ SumOf(s) \in Int /\ SumOf(s) = SumFunctionOnSet(s, 1..n)
           /\ IsFiniteSet(1..n) /\ Cardinality(1..n) = n
  <1>1. IsFiniteSet(1..n) /\ Cardinality(1..n) = n
    BY FS_Interval
  <1> QED BY <1>1, SumRemove DEF SumOf, SumFunction

\* The line through n prices at the time t; T and P are the sums of the days and of
\* the prices, den and num the terms of its slope.
LineAt(n, T, P, den, num, t) ==
    IF den = 0 THEN P \div n ELSE (P * den + num * (n * t - T)) \div (n * den)

Sure(n, mape) ==
    Clamp(3 * Smaller(1000, (n * 1000) \div 30) + 7 * Larger(0, 1000 - mape \div 5), 1000, 9000)

LEMMA LineType ==
    ASSUME NEW n \in Nat \ {0}, NEW T \in Int, NEW P \in Int, NEW den \in Nat, NEW num \in Int, NEW t \in Int
    PROVE  LineAt(n, T, P, den, num, t) \in Int
  <1>1. P \div n \in Int
    OBVIOUS
  <1>2. CASE den # 0
    <2>1. PICK m \in Nat \ {0} : m = n * den
      <3>1. \A x, y \in Nat \ {0} : x * y \in Nat \ {0}
        OBVIOUS
      <3> QED BY <1>2, <3>1
    <2>2. P * den + num * (n * t - T) \in Int
      <3>1. P * den \in Int /\ n * t \in Int
        OBVIOUS
      <3>2. n * t - T \in Int
        BY <3>1
      <3>3. num * (n * t - T) \in Int
        BY <3>2
      <3> QED BY <3>1, <3>3
    <2>3. \A x \in Int : x \div m \in Int
      OBVIOUS
    <2> QED BY <1>2, <2>1, <2>2, <2>3 DEF LineAt
  <1> QED BY <1>1, <1>2 DEF LineAt

DaysSeen(h) == [i \in 1..Len(h) |-> h[i].day]
PricesSeen(h) == [i \in 1..Len(h) |-> h[i].price]
SquaresSeen(h) == [i \in 1..Len(h) |-> DaysSeen(h)[i] * DaysSeen(h)[i]]
ProductsSeen(h) == [i \in 1..Len(h) |-> DaysSeen(h)[i] * PricesSeen(h)[i]]

\* The forecast is made of the sums of the days, the prices, the squares of the days
\* and the days times the prices.
Fits(h, horizon, T, P, Q, R, mape) ==
    /\ T = SumFunctionOnSet(DaysSeen(h), 1..Len(h)) /\ P = SumFunctionOnSet(PricesSeen(h), 1..Len(h))
    /\ Q = SumFunctionOnSet(SquaresSeen(h), 1..Len(h)) /\ R = SumFunctionOnSet(ProductsSeen(h), 1..Len(h))
    /\ Len(h) * Q - T * T \in Nat /\ Len(h) * R - T * P \in Int
    /\ BaselinePredict(h, horizon) =
         [price |-> Larger(1, LineAt(Len(h), T, P, Len(h) * Q - T * T, Len(h) * R - T * P,
                                     DaysSeen(h)[Len(h)] + horizon)),
          confidence |-> Sure(Len(h), mape)]

LEMMA BaselineIs ==
    ASSUME NEW h \in Seq(Dates), Len(h) >= MinDataPoints, NEW horizon \in Int
    PROVE  /\ Len(h) \in Nat \ {0} /\ IsFiniteSet(1..Len(h)) /\ Cardinality(1..Len(h)) = Len(h)
           /\ \A i \in 1..Len(h) : /\ DaysSeen(h)[i] \in Int /\ PricesSeen(h)[i] \in Nat \ {0}
                                   /\ SquaresSeen(h)[i] \in Int /\ ProductsSeen(h)[i] \in Int
           /\ \E T, P, Q, R \in Int, mape \in Nat : Fits(h, horizon, T, P, Q, R, mape)
  <1> DEFINE n == Len(h)
             days == DaysSeen(h)
             prices == PricesSeen(h)
             squares == SquaresSeen(h)
             products == ProductsSeen(h)
             T == SumOf(days)
             P == SumOf(prices)
             Q == SumOf(squares)
             R == SumOf(products)
             den == n * Q - T * T
             num == n * R - T * P
             Line(t) == LineAt(n, T, P, den, num, t)
             off == [i \in 1..n |-> (Abs(prices[i] - Line(days[i])) * Whole) \div prices[i]]
             mape == MeanOf(off)
  <1>1. BaselinePredict(h, horizon) = IF n < MinDataPoints THEN FailedForecast
                                      ELSE [price |-> Larger(1, Line(days[n] + horizon)),
                                            confidence |-> Sure(n, mape)]
    BY Zenon DEF BaselinePredict, LineAt, Sure, DaysSeen, PricesSeen, SquaresSeen, ProductsSeen
  <1>2. n \in Nat \ {0} /\ n >= 3 /\ \A i \in 1..n : h[i] \in Dates
    BY LenProperties, ElementOfSeq DEF MinDataPoints
  <1> HIDE DEF n
  <1>3. \A i \in 1..n : days[i] \in Int /\ prices[i] \in Nat \ {0}
    BY <1>2 DEF Dates, DaysSeen, PricesSeen, n
  <1>4. \A i \in 1..n : squares[i] \in Int /\ products[i] \in Int
    <2>1. \A i \in 1..n : days[i] * days[i] \in Int /\ days[i] * prices[i] \in Int
      BY <1>3
    <2> QED BY <2>1 DEF SquaresSeen, ProductsSeen, n
  <1>5. DOMAIN days = 1..n /\ DOMAIN prices = 1..n /\ DOMAIN squares = 1..n /\ DOMAIN products = 1..n
    BY DEF DaysSeen, PricesSeen, SquaresSeen, ProductsSeen, n
  <1> HIDE DEF days, prices, squares, products
  <1>6. /\ T \in Int /\ P \in Int /\ Q \in Int /\ R \in Int
        /\ T = SumFunctionOnSet(days, 1..n) /\ P = SumFunctionOnSet(prices, 1..n)
        /\ Q = SumFunctionOnSet(squares, 1..n) /\ R = SumFunctionOnSet(products, 1..n)
        /\ IsFiniteSet(1..n) /\ Cardinality(1..n) = n
    <2>1. \A i \in 1..n : prices[i] \in Int
      BY <1>3
    <2> QED BY <1>2, <1>3, <1>4, <1>5, <2>1, SumsAreInt
  <1>7. n * Q >= T * T
    <2>1. \A i \in 1..n : days[i] \in Int /\ squares[i] = days[i] * days[i]
      BY <1>3 DEF squares, days, SquaresSeen, n
    <2>2. Cardinality(1..n) * SumFunctionOnSet(squares, 1..n)
             >= SumFunctionOnSet(days, 1..n) * SumFunctionOnSet(days, 1..n)
      BY <1>6, <2>1, SquareOfSum
    <2> HIDE DEF T, Q
    <2> QED BY <1>6, <2>2, Zenon
  <1> HIDE DEF T, P, Q, R
  <1>8. den \in Nat /\ num \in Int
    <2>1. n * Q \in Int /\ T * T \in Int /\ n * R \in Int /\ T * P \in Int
      BY <1>2, <1>6
    <2> QED BY <1>7, <2>1
  <1>9. ASSUME NEW t \in Int
        PROVE  Line(t) \in Int
    <2> HIDE DEF den, num
    <2> QED BY <1>2, <1>6, <1>8, LineType
  <1>10. \A i \in 1..n : off[i] \in Nat
    <2>1. ASSUME NEW i \in 1..n
          PROVE  off[i] \in Nat
      <3> HIDE DEF Line
      <3>1. PICK p \in Nat \ {0}, l \in Int : p = prices[i] /\ l = Line(days[i])
        BY <1>3, <1>9
      <3>2. PICK d \in Nat : d = Abs(p - l) * Whole
        BY DEF Abs, Larger, Whole
      <3>3. d \div p \in Nat
        BY QuotientIs
      <3> QED BY <3>1, <3>2, <3>3
    <2> QED BY <2>1
  <1>11. DOMAIN off = 1..n /\ off = [i \in 1..n |-> off[i]]
    OBVIOUS
  <1> HIDE DEF off
  <1>12. mape \in Nat
    <2>1. \A i \in 1..n : off[i] \in Int
      BY <1>10
    <2>2. SumOf(off) = SumFunctionOnSet(off, 1..n)
      BY <1>2, <1>11, <2>1, SumsAreInt
    <2>3. SumOf(off) \in Nat
      BY <1>6, <1>10, <2>2, SumPart
    <2>4. Len(off) = n
      <3>1. off \in [1..n -> Nat]
        BY <1>10, <1>11
      <3> QED BY <1>2, <3>1, SequenceIs
    <2>5. SumOf(off) \div n \in Nat
      BY <1>2, <2>3, QuotientIs
    <2> QED BY <2>4, <2>5 DEF MeanOf
  <1> HIDE DEF mape
  <1>13. ~(n < MinDataPoints)
    BY <1>2 DEF MinDataPoints
  <1>14. BaselinePredict(h, horizon) =
                     [price |-> Larger(1, LineAt(n, T, P, n * Q - T * T, n * R - T * P, days[n] + horizon)),
                      confidence |-> Sure(n, mape)]
    BY <1>1, <1>13, Zenon
  <1>15. n * Q - T * T \in Nat /\ n * R - T * P \in Int
    BY <1>8
  <1>16. Fits(h, horizon, T, P, Q, R, mape)
    BY <1>6, <1>14, <1>15, Zenon DEF Fits, n, days, prices, squares, products
  <1> QED BY <1>2, <1>3, <1>4, <1>6, <1>12, <1>16 DEF n, days, prices, squares, products

\* A forecast made of enough prices is a price, and few do not make it sure.
THEOREM ForecastIsPrice ==
    ASSUME NEW h \in Seq(Dates), Len(h) >= MinDataPoints, NEW horizon \in Int
    PROVE  LET f == BaselinePredict(h, horizon) IN
           f.price \in Nat \ {0} /\ f.confidence <= 9000 /\ f.confidence <= 7000 + 100 * Len(h)
  <1>1. PICK n \in Nat \ {0} : n = Len(h) /\ \A i \in 1..n : DaysSeen(h)[i] \in Int
    BY BaselineIs
  <1>2. PICK T, P, Q, R \in Int, mape \in Nat : Fits(h, horizon, T, P, Q, R, mape)
    BY BaselineIs, Zenon
  <1>3. PICK t \in Int : t = DaysSeen(h)[n] + horizon
    <2>1. n \in 1..n
      OBVIOUS
    <2> QED BY <1>1, <2>1
  <1>4. PICK den \in Nat, num \in Int : den = n * Q - T * T /\ num = n * R - T * P
    BY <1>1, <1>2, Zenon DEF Fits
  <1>5. PICK x \in Int : x = LineAt(n, T, P, den, num, t)
    BY LineType
  <1>6. PICK c : c = Sure(n, mape)
    OBVIOUS
  <1>7. BaselinePredict(h, horizon) = [price |-> Larger(1, x), confidence |-> c]
    <2>1. BaselinePredict(h, horizon) =
            [price |-> Larger(1, LineAt(n, T, P, n * Q - T * T, n * R - T * P, DaysSeen(h)[n] + horizon)),
             confidence |-> Sure(n, mape)]
      BY <1>1, <1>2, Zenon DEF Fits
    <2> QED BY <1>3, <1>4, <1>5, <1>6, <2>1, Zenon
  <1>8. Larger(1, x) \in Nat \ {0}
    BY DEF Larger
  <1>9. c <= 9000 /\ c <= 7000 + 100 * n
    <2>1. PICK q \in Nat : q = (n * 1000) \div 30 /\ 3 * q <= 100 * n
      OBVIOUS
    <2>2. PICK a \in Nat : a = Smaller(1000, q) /\ 3 * a <= 100 * n /\ a <= 1000
      BY <2>1 DEF Smaller
    <2>3. PICK r \in Nat : r = mape \div 5
      OBVIOUS
    <2>4. PICK b \in Nat : b = Larger(0, 1000 - r) /\ b <= 1000
      <3>1. PICK v \in Int : v = 1000 - r /\ v <= 1000
        OBVIOUS
      <3>2. Larger(0, v) \in Nat /\ Larger(0, v) <= 1000
        BY <3>1 DEF Larger
      <3> QED BY <3>1, <3>2
    <2>5. c = Clamp(3 * a + 7 * b, 1000, 9000)
      BY <1>6, <2>1, <2>2, <2>3, <2>4 DEF Sure
    <2> QED BY <2>2, <2>4, <2>5 DEF Clamp, Larger, Smaller
  <1> QED BY <1>1, <1>7, <1>8, <1>9

LEMMA ExactQuotient ==
    ASSUME NEW m \in Nat \ {0}, NEW x \in Int
    PROVE  (m * x) \div m = x
  OBVIOUS

LEMMA LineCancels ==
    ASSUME NEW n \in Int, NEW den \in Int, NEW a \in Int, NEW b \in Int, NEW T \in Int, NEW t \in Int
    PROVE  (a * n + b * T) * den + (b * den) * (n * t - T) = (n * den) * (a + b * t)
  <1>1. (a * n + b * T) * den = a * (n * den) + b * (T * den)
    OBVIOUS
  <1>2. (b * den) * (n * t - T) = b * (t * (n * den)) - b * (T * den)
    OBVIOUS
  <1>3. (n * den) * (a + b * t) = a * (n * den) + b * (t * (n * den))
    OBVIOUS
  <1>4. a * (n * den) \in Int /\ b * (T * den) \in Int /\ b * (t * (n * den)) \in Int
    OBVIOUS
  <1> QED BY <1>1, <1>2, <1>3, <1>4

\* The prices lie on the line with the values a at the day 0 and a + b a day later.
OnLine(h, a, b) == \A i \in 1..Len(h) : h[i].price = a + b * h[i].day

\* The forecast for prices on a straight line lies on it.
THEOREM ForecastFollowsLine ==
    ASSUME NEW h \in Seq(Dates), Len(h) >= MinDataPoints, NEW horizon \in Int, NEW a \in Int, NEW b \in Int,
           OnLine(h, a, b),
           \E i, j \in 1..Len(h) : h[i].day # h[j].day
    PROVE  BaselinePredict(h, horizon).price = Larger(1, a + b * (h[Len(h)].day + horizon))
  <1>1. PICK n \in Nat \ {0} : n = Len(h)
    BY BaselineIs
  <1>2. PICK S : S = 1..n
    OBVIOUS
  <1>3. PICK days, prices, squares, products :
          days = DaysSeen(h) /\ prices = PricesSeen(h) /\ squares = SquaresSeen(h) /\ products = ProductsSeen(h)
    OBVIOUS
  <1>4. /\ IsFiniteSet(S) /\ Cardinality(S) = n
        /\ \A i \in S : days[i] \in Int /\ prices[i] \in Nat \ {0} /\ squares[i] \in Int /\ products[i] \in Int
    BY <1>1, <1>2, <1>3, BaselineIs
  <1>5. PICK T, P, Q, R \in Int, mape \in Nat : Fits(h, horizon, T, P, Q, R, mape)
    BY BaselineIs, Zenon
  <1>6. /\ T = SumFunctionOnSet(days, S) /\ P = SumFunctionOnSet(prices, S)
        /\ Q = SumFunctionOnSet(squares, S) /\ R = SumFunctionOnSet(products, S)
    BY <1>1, <1>2, <1>3, <1>5, Zenon DEF Fits
  <1>7. PICK ones : ones = [i \in S |-> 1]
    OBVIOUS
  <1>8. ASSUME NEW i \in S
        PROVE  /\ days[i] = h[i].day /\ squares[i] = days[i] * days[i] /\ ones[i] \in Int
               /\ prices[i] = a * ones[i] + b * days[i]
               /\ products[i] = a * days[i] + b * squares[i]
    <2>1. i \in 1..Len(h)
      BY <1>1, <1>2
    <2>2. PICK d \in Int : d = days[i]
      BY <1>4
    <2>3. days[i] = h[i].day /\ prices[i] = h[i].price
      BY <1>3, <2>1 DEF DaysSeen, PricesSeen
    <2>4. squares[i] = days[i] * days[i] /\ products[i] = days[i] * prices[i]
      BY <1>3, <2>1 DEF SquaresSeen, ProductsSeen
    <2>5. prices[i] = a + b * d
      BY <2>1, <2>2, <2>3, Zenon DEF OnLine
    <2>6. products[i] = d * (a + b * d) /\ squares[i] = d * d
      BY <2>2, <2>4, <2>5, Zenon
    <2>7. d * (a + b * d) = a * d + b * (d * d) /\ a * 1 = a /\ 1 \in Int
      OBVIOUS
    <2>8. ones[i] = 1
      BY <1>7
    <2> QED BY <2>2, <2>3, <2>5, <2>6, <2>7, <2>8, Zenon
  <1>9. P = a * n + b * T
    <2>1. SumFunctionOnSet(prices, S) = a * SumFunctionOnSet(ones, S) + b * SumFunctionOnSet(days, S)
      <3>1. \A i \in S : ones[i] \in Int /\ days[i] \in Int /\ prices[i] = a * ones[i] + b * days[i]
        BY <1>4, <1>8, Zenon
      <3> QED BY <1>4, <3>1, SumLinear
    <2>2. SumFunctionOnSet(ones, S) = n
      BY <1>4, <1>7, SumOfOnes
    <2> QED BY <1>6, <2>1, <2>2, Zenon
  <1>10. R = a * T + b * Q
    <2>1. SumFunctionOnSet(products, S) = a * SumFunctionOnSet(days, S) + b * SumFunctionOnSet(squares, S)
      <3>1. \A i \in S : days[i] \in Int /\ squares[i] \in Int /\ products[i] = a * days[i] + b * squares[i]
        BY <1>4, <1>8, Zenon
      <3> QED BY <1>4, <3>1, SumLinear
    <2> QED BY <1>6, <2>1, Zenon
  <1>11. n * Q > T * T
    <2>1. PICK i, j \in S : h[i].day # h[j].day
      BY <1>1, <1>2
    <2>2. days[i] # days[j]
      BY <1>8, <2>1, Zenon
    <2>3. \A k \in S : days[k] \in Int /\ squares[k] = days[k] * days[k]
      BY <1>4, <1>8, Zenon
    <2>4. Cardinality(S) * SumFunctionOnSet(squares, S) > SumFunctionOnSet(days, S) * SumFunctionOnSet(days, S)
      BY <1>4, <2>1, <2>2, <2>3, SquareOfUnequal
    <2> QED BY <1>4, <1>6, <2>4, Zenon
  <1>12. PICK den \in Nat \ {0} : den = n * Q - T * T
    <2>1. n * Q \in Int /\ T * T \in Int
      OBVIOUS
    <2> QED BY <1>11, <2>1
  <1>13. n * R - T * P = b * den
    <2>1. n * (a * T + b * Q) - T * (a * n + b * T) = b * (n * Q - T * T)
      OBVIOUS
    <2> QED BY <1>9, <1>10, <1>12, <2>1, Zenon
  <1>14. PICK t \in Int : t = days[n] + horizon /\ t = h[Len(h)].day + horizon
    <2>1. n \in S
      BY <1>2
    <2>2. days[n] \in Int /\ days[n] = h[n].day
      BY <1>4, <1>8, <2>1, Zenon
    <2> QED BY <1>1, <2>2
  <1>15. LineAt(n, T, P, den, b * den, t) = a + b * t
    <2>1. LineAt(n, T, P, den, b * den, t) = (P * den + (b * den) * (n * t - T)) \div (n * den)
      BY DEF LineAt
    <2>2. (a * n + b * T) * den + (b * den) * (n * t - T) = (n * den) * (a + b * t)
      BY LineCancels
    <2>3. PICK m \in Nat \ {0} : m = n * den
      <3>1. \A x, y \in Nat \ {0} : x * y \in Nat \ {0}
        OBVIOUS
      <3> QED BY <3>1
    <2>4. PICK x \in Int : x = a + b * t
      <3>1. b * t \in Int
        OBVIOUS
      <3> QED BY <3>1
    <2>5. (m * x) \div m = x
      BY ExactQuotient
    <2> QED BY <1>9, <2>1, <2>2, <2>3, <2>4, <2>5, Zenon
  <1>16. BaselinePredict(h, horizon) = [price |-> Larger(1, a + b * t), confidence |-> Sure(n, mape)]
    <2>1. BaselinePredict(h, horizon) =
            [price |-> Larger(1, LineAt(n, T, P, n * Q - T * T, n * R - T * P, days[n] + horizon)),
             confidence |-> Sure(n, mape)]
      BY <1>1, <1>3, <1>5, Zenon DEF Fits
    <2> QED BY <1>12, <1>13, <1>14, <1>15, <2>1, Zenon
  <1> QED BY <1>14, <1>16

LEMMA ForecastRules == ForecastsAreUsable
  <1>1. ASSUME NEW h \in Histories, NEW apart \in {0, 1}
        PROVE  LET f == BaselinePredict(Dated(h, apart), 7) IN
            /\ f.price > 0 \/ f.confidence < 3000
            /\ f.confidence <= 7000 + 100 * Len(h)
            /\ (Len(h) = 3 /\ apart = 1 /\ h[2] - h[1] = h[3] - h[2]) =>
                 f.price = Larger(1, h[3] + 7 * (h[3] - h[2]))
    <2>1. PICK n \in 0..4 : h \in [1..n -> {5000, 6000, 9000}]
      BY DEF Histories
    <2>2. PICK d : d = Dated(h, apart)
      OBVIOUS
    <2>3. n \in Nat /\ Len(h) = n /\ \A i \in 1..n : h[i] \in Nat \ {0}
      BY <2>1, SequenceIs
    <2>4. d \in [1..n -> Dates] /\ \A i \in 1..n : d[i] = [price |-> h[i], day |-> apart * i]
      <3>1. \A i \in 1..n : apart * i \in Int /\ h[i] \in Nat \ {0}
        BY <2>3
      <3> QED BY <2>1, <2>2, <3>1 DEF Dated, Dates
    <2>5. d \in Seq(Dates) /\ Len(d) = n
      BY <2>4, SequenceIs
    <2>6. CASE n < 3
      <3>1. BaselinePredict(d, 7) = FailedForecast
        BY <2>5, <2>6 DEF BaselinePredict, MinDataPoints
      <3> QED BY <2>2, <2>3, <2>6, <3>1 DEF FailedForecast
    <2>7. CASE n >= 3
      <3>1. PICK f : f = BaselinePredict(d, 7)
        OBVIOUS
      <3>2. f.price \in Nat \ {0} /\ f.confidence <= 7000 + 100 * n
        BY <2>5, <2>7, <3>1, ForecastIsPrice DEF MinDataPoints
      <3>3. ASSUME n = 3, apart = 1, h[2] - h[1] = h[3] - h[2]
            PROVE  f.price = Larger(1, h[3] + 7 * (h[3] - h[2]))
        <4>1. PICK p, q, r \in Nat : p = h[1] /\ q = h[2] /\ r = h[3]
          BY <2>3, <3>3
        <4>2. PICK a, b \in Int : b = q - p /\ a = p - b /\ b = r - q
          BY <3>3, <4>1
        <4>3. \A i \in 1..3 : d[i].price = a + b * d[i].day
          <5>1. /\ d[1].price = p /\ d[1].day = 1 /\ d[2].price = q /\ d[2].day = 2
                /\ d[3].price = r /\ d[3].day = 3
            BY <2>4, <3>3, <4>1
          <5>2. p = a + b * 1 /\ q = a + b * 2 /\ r = a + b * 3
            BY <4>2
          <5>3. \A i \in 1..3 : i = 1 \/ i = 2 \/ i = 3
            OBVIOUS
          <5> QED BY <5>1, <5>2, <5>3
        <4>4. \E i, j \in 1..3 : d[i].day # d[j].day
          <5>1. d[1].day = 1 /\ d[2].day = 2 /\ 1 \in 1..3 /\ 2 \in 1..3
            BY <2>4, <3>3
          <5> QED BY <5>1
        <4>5. f.price = Larger(1, a + b * (d[3].day + 7))
          <5>1. /\ d \in Seq(Dates) /\ Len(d) = 3 /\ Len(d) >= MinDataPoints /\ 7 \in Int
                /\ OnLine(d, a, b)
                /\ \E i, j \in 1..Len(d) : d[i].day # d[j].day
            BY <2>5, <3>3, <4>3, <4>4 DEF MinDataPoints, OnLine
          <5>2. BaselinePredict(d, 7).price = Larger(1, a + b * (d[Len(d)].day + 7))
            BY <5>1, ForecastFollowsLine
          <5> QED BY <3>1, <5>1, <5>2
        <4>6. d[3].day = 3
          BY <2>4, <3>3
        <4>7. a + b * (3 + 7) = r + 7 * (r - q)
          BY <4>2
        <4> QED BY <4>1, <4>5, <4>6, <4>7
      <3> QED BY <2>2, <2>3, <3>1, <3>2, <3>3
    <2> QED BY <2>6, <2>7
  <1> QED BY <1>1 DEF ForecastsAreUsable

-----------------------------------------------------------------------------
(* All the rules *)

LEMMA RulesHold ==
    /\ RoutesArePriced /\ RoutesAreFunctional /\ ClassRisesWithScore /\ ScoresAreMonotone
    /\ BreakoutTakesBoth /\ MomentumIsOutvoted /\ ForecastsAreUsable
    /\ BlindNeverExecutes /\ SkipIsOutvotedByAll /\ DecisionIsMonotone
    /\ SelectionIsMaximal /\ SelectionIsWithinLimits
    /\ GateIsMonotone /\ GateAsksForTwice
    /\ GuardIsMonotone /\ ApprovedEarns /\ OneDoubtIsForgiven
  <1>1. RoutesArePriced /\ RoutesAreFunctional
    BY RouteRules
  <1>2. ClassRisesWithScore /\ ScoresAreMonotone
    BY ClassRules, ScoreRules
  <1>3. BreakoutTakesBoth /\ MomentumIsOutvoted /\ ForecastsAreUsable
    BY TrendRules, ForecastRules
  <1>4. BlindNeverExecutes /\ SkipIsOutvotedByAll /\ DecisionIsMonotone
    BY PolicyRules
  <1>5. SelectionIsMaximal /\ SelectionIsWithinLimits
    BY SelectionRules
  <1>6. /\ GateIsMonotone /\ GateAsksForTwice
        /\ GuardIsMonotone /\ ApprovedEarns /\ OneDoubtIsForgiven
    BY GateRules, GuardRules
  <1> QED BY <1>1, <1>2, <1>3, <1>4, <1>5, <1>6

\* The rules promise what RulesSound says of them; the theorems above say it of every
\* input and not of the ones on the grids only.
THEOREM RulesAreSound == EnginesSpec => []RulesSound
  <1>1. RulesSound
    BY RulesHold DEF RulesSound
  <1> QED BY <1>1, PTL
=============================================================================
