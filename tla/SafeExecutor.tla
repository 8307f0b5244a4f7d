---------------------------- MODULE SafeExecutor ----------------------------
(***************************************************************************)
(* Capital allocation against the database: src/capital_management's       *)
(* SafeExecutor on a PortfolioDBStore.                                     *)
(*                                                                         *)
(* Sessions are the concurrent tasks (of one or several API processes)     *)
(* that call execute_with_rollback or close_position_safe.  A call runs in *)
(* one transaction: it waits for the advisory lock, loads the portfolio,   *)
(* decides and changes its copy without yielding, then writes the copy     *)
(* back and commits.  Nothing of a transaction is visible before it        *)
(* commits, so its statements between the load and the commit are one      *)
(* step, and a failure or a crash anywhere before the commit is a rollback.*)
(***************************************************************************)
EXTENDS Portfolio

CONSTANTS
    Sessions,         \* concurrent callers
    Weights,          \* score_fraction * risk_multiplier of the candidates
    RequiredAmounts,  \* capital_required of the candidates
    Profits,          \* actual_profit of the closes, negative for a loss
    MaxRequests,      \* bound: calls made in a behaviour
    MaxTime           \* bound: ticks of the clock

ASSUME WeightsAssumption == Weights \subseteq Nat
ASSUME RequiredAssumption == RequiredAmounts \subseteq Nat
ASSUME ProfitsAssumption == Profits \subseteq Int
ASSUME MaxAssumption == MaxRequests \in Nat /\ MaxTime \in Nat
ASSUME NoSession == None \notin Sessions

VARIABLES
    db,       \* the row of portfolio_state
    rows,     \* portfolio_positions, in the order of insertion
    lock,     \* the session that holds the advisory lock, or None
    pc,       \* where each session is in its call
    request,  \* the arguments of each session's call
    view,     \* the PortfolioState each session has loaded and changed
    change,   \* the position each session has opened or closed in its copy
    reply,    \* what each session's latest call returned
    now,      \* the wall clock
    calls     \* calls begun so far

vars == <<db, rows, lock, pc, request, view, change, reply, now, calls>>

Call ==
    [op : {"open"}, opp : Opps, weight : Weights, required : RequiredAmounts]
      \cup [op : {"close"}, opp : Opps, profit : Profits]

\* A row of portfolio_positions: entry is entry_price, the capital required.
Row == [opp : Opps, amount : Nat, entry : Nat,
        status : {"open", "closed", "failed"}]

\* The one position of the loaded list that differs from its row.
NoChange == [kind |-> "none"]
Opening(opp, amount, entry) ==
    [kind |-> "open", opp |-> opp, amount |-> amount, entry |-> entry]
Closing(opp, status) == [kind |-> "close", opp |-> opp, status |-> status]

Change ==
    {NoChange}
      \cup [kind : {"open"}, opp : Opps, amount : Nat, entry : Nat]
      \cup [kind : {"close"}, opp : Opps, status : {"closed", "failed"}]

TypeOK ==
    /\ db \in PortfolioState
    /\ rows \in Seq(Row)
    /\ lock \in Sessions \cup {None}
    /\ pc \in [Sessions -> {"idle", "waiting", "locked", "decided"}]
    /\ request \in [Sessions -> Call \cup {None}]
    /\ view \in [Sessions -> PortfolioState \cup {None}]
    /\ change \in [Sessions -> Change]
    /\ reply \in [Sessions -> {"none", "approved", "rejected", "closed",
                               "no position", "error"}]
    /\ now \in Nat
    /\ calls \in Nat

Init ==
    /\ db = InitialPortfolio
    /\ rows = <<>>
    /\ lock = None
    /\ pc = [s \in Sessions |-> "idle"]
    /\ request = [s \in Sessions |-> None]
    /\ view = [s \in Sessions |-> None]
    /\ change = [s \in Sessions |-> NoChange]
    /\ reply = [s \in Sessions |-> "none"]
    /\ now = 0
    /\ calls = 0

-----------------------------------------------------------------------------
\* Rows of open positions of an opportunity; the partial unique index allows
\* at most one.
OpenRows(opp) == {i \in OpenIn(rows) : rows[i].opp = opp}

\* execute_with_rollback or close_position_safe is called.
Begin(s, c) ==
    /\ pc[s] = "idle"
    /\ calls < MaxRequests
    /\ calls' = calls + 1
    /\ pc' = [pc EXCEPT ![s] = "waiting"]
    /\ request' = [request EXCEPT ![s] = c]
    /\ reply' = [reply EXCEPT ![s] = "none"]
    /\ UNCHANGED <<db, rows, lock, view, change, now>>

\* A store that opens its transaction without taking the lock.
LockWithoutWaiting(s) ==
    /\ pc[s] = "waiting"
    /\ lock' = s
    /\ pc' = [pc EXCEPT ![s] = "locked"]
    /\ UNCHANGED <<db, rows, request, view, change, reply, now, calls>>

\* pg_advisory_xact_lock, and the FOR UPDATE of the load, wait for the
\* transaction that holds the lock to end.
Lock(s) ==
    /\ pc[s] = "waiting"
    /\ lock = None
    /\ lock' = s
    /\ pc' = [pc EXCEPT ![s] = "locked"]
    /\ UNCHANGED <<db, rows, request, view, change, reply, now, calls>>

\* The load and the body of execute_with_rollback: all gates against the
\* loaded state, then the tracker, which raises for more than what is
\* available, opens the position in the copy.
Execute(s) ==
    LET c == request[s]
        amount == Evaluate(db, rows, c.opp, c.weight, c.required, now)
    IN  /\ pc[s] = "locked"
        /\ c.op = "open"
        /\ pc' = [pc EXCEPT ![s] = "decided"]
        /\ \/ /\ amount = Rejected
              /\ view' = [view EXCEPT ![s] = db]
              /\ UNCHANGED change
           \/ /\ amount \in 0..db.available
              /\ view' = [view EXCEPT ![s] = OpenPosition(db, amount)]
              /\ change' = [change EXCEPT ![s] = Opening(c.opp, amount, c.required)]
        /\ UNCHANGED <<db, rows, lock, request, reply, now, calls>>

\* The load and the body of close_position_safe: the first open position of
\* the opportunity, if there is one, is closed in the copy.
Close(s) ==
    LET c == request[s]
    IN  /\ pc[s] = "locked"
        /\ c.op = "close"
        /\ pc' = [pc EXCEPT ![s] = "decided"]
        /\ \/ /\ OpenRows(c.opp) = {}
              /\ view' = [view EXCEPT ![s] = db]
              /\ UNCHANGED change
           \/ \E i \in OpenRows(c.opp) :
                 /\ c.profit >= 0
                 /\ view' = [view EXCEPT ![s] =
                       ClosePositionSuccess(db, rows[i].amount, c.profit)]
                 /\ change' = [change EXCEPT ![s] = Closing(c.opp, "closed")]
           \/ \E i \in OpenRows(c.opp) :
                 /\ c.profit < 0
                 /\ view' = [view EXCEPT ![s] =
                       ClosePositionFailure(db, rows[i].amount, -c.profit, now)]
                 /\ change' = [change EXCEPT ![s] = Closing(c.opp, "failed")]
        /\ UNCHANGED <<db, rows, lock, request, reply, now, calls>>

\* _save_state on the positions.  A loaded open position inserts nothing,
\* its own row conflicts; so does a new one when the opportunity has an open
\* row.  A closed position closes the open row of its opportunity.
InsertUnlessOpen(c) ==
    IF OpenRows(c.opp) # {} THEN rows
    ELSE Append(rows, [opp |-> c.opp, amount |-> c.amount, entry |-> c.entry,
                       status |-> "open"])

CloseOpenRow(c) ==
    [i \in DOMAIN rows |->
        IF i \in OpenRows(c.opp) THEN [rows[i] EXCEPT !.status = c.status]
        ELSE rows[i]]

SavedRows(c) ==
    CASE c.kind = "none"  -> rows
      [] c.kind = "open"  -> InsertUnlessOpen(c)
      [] c.kind = "close" -> CloseOpenRow(c)

ReplyOf(c, op) ==
    CASE c.kind = "open"  -> "approved"
      [] c.kind = "close" -> "closed"
      [] c.kind = "none"  -> IF op = "open" THEN "rejected" ELSE "no position"

\* A store whose lock outlives a transaction that fails.
FinishKeepingLock(s, answer) ==
    /\ lock' = IF lock = s /\ answer # "error" THEN None ELSE lock
    /\ pc' = [pc EXCEPT ![s] = "idle"]
    /\ request' = [request EXCEPT ![s] = None]
    /\ view' = [view EXCEPT ![s] = None]
    /\ change' = [change EXCEPT ![s] = NoChange]
    /\ reply' = [reply EXCEPT ![s] = answer]
    /\ UNCHANGED <<now, calls>>

\* The transaction ends and releases the lock; the call returns.
Finish(s, answer) ==
    /\ lock' = IF lock = s THEN None ELSE lock
    /\ pc' = [pc EXCEPT ![s] = "idle"]
    /\ request' = [request EXCEPT ![s] = None]
    /\ view' = [view EXCEPT ![s] = None]
    /\ change' = [change EXCEPT ![s] = NoChange]
    /\ reply' = [reply EXCEPT ![s] = answer]
    /\ UNCHANGED <<now, calls>>

\* The state row is written and committed, the positions are not.
CommitStateOnly(s) ==
    /\ pc[s] = "decided"
    /\ db' = view[s]
    /\ UNCHANGED rows
    /\ Finish(s, ReplyOf(change[s], request[s].op))

\* _save_state and the commit.
Commit(s) ==
    /\ pc[s] = "decided"
    /\ db' = view[s]
    /\ rows' = SavedRows(change[s])
    /\ Finish(s, ReplyOf(change[s], request[s].op))

\* The commit takes effect and its acknowledgement is lost: the call catches
\* the exception and returns an error.
CommitUnacknowledged(s) ==
    /\ pc[s] = "decided"
    /\ db' = view[s]
    /\ rows' = SavedRows(change[s])
    /\ Finish(s, "error")

\* An exception or a crash before the commit: the transaction rolls back.
Rollback(s) ==
    /\ pc[s] \in {"waiting", "locked", "decided"}
    /\ UNCHANGED <<db, rows>>
    /\ Finish(s, "error")

Tick ==
    /\ now < MaxTime
    /\ now' = now + 1
    /\ UNCHANGED <<db, rows, lock, pc, request, view, change, reply, calls>>

Next ==
    \/ \E s \in Sessions :
          \/ \E c \in Call : Begin(s, c)
          \/ Lock(s)
          \/ Execute(s)
          \/ Close(s)
          \/ Commit(s)
          \/ CommitUnacknowledged(s)
          \/ Rollback(s)
    \/ Tick

Spec == Init /\ [][Next]_vars

\* A running process keeps executing its tasks, and the database grants the
\* advisory lock in the order of the queue.
Fairness ==
    \A s \in Sessions :
        /\ SF_vars(Lock(s))
        /\ WF_vars(Execute(s) \/ Close(s) \/ Commit(s))

FairSpec == Spec /\ Fairness

-----------------------------------------------------------------------------
(* Properties *)

\* Total capital is what the portfolio began with plus everything realized
\* (models.py, PortfolioState); what is available and what is allocated cover
\* it, and the available capital is never overdrawn, whatever is lost.
Covered(p) ==
    /\ p.total = Initial + p.realized
    /\ p.available >= 0
    /\ p.available + p.allocated >= p.total

\* Capital is conserved by every interleaving of opens, closes, losses larger
\* than the position and rolled back transactions.
CapitalCovered == Covered(db)

\* The portfolio that a session is about to commit was computed from the row
\* that is still in the database: only the holder of the lock has decided, and
\* nobody commits between its load and its commit.
OnlyHolderDecides == \A s \in Sessions : pc[s] \in {"locked", "decided"} => lock = s

\* No capital is allocated twice or forgotten by the rows: allocated_capital
\* is never less than the amounts of the open rows.
OpenRowsFunded == SumAmounts(rows, OpenIn(rows)) <= db.allocated

\* Every trade that is counted closed one row, and every closed row was
\* counted.
TradesAreClosedRows ==
    db.trades = Cardinality({i \in DOMAIN rows : rows[i].status # "open"})

\* The limits hold for the rows as they stand when one is inserted: whatever
\* the other sessions committed since the call began, the inserted position
\* leaves its marketplace within its share of the total capital, and the open
\* positions within their number.
Inserted == Cardinality(OpenIn(rows)') > Cardinality(OpenIn(rows))

InsertionsKeepShares ==
    [][Inserted =>
         LET opp == rows'[Len(rows')].opp
         IN  /\ MarketplaceOf[opp] # None =>
                   AllocatedTo(rows', MarketplaceOf, MarketplaceOf[opp]) * Scale
                       <= Config.pctMarketplace * Larger(db.total, 1)
             /\ Cardinality(OpenIn(rows)') <= Config.maxOpen]_vars

\* "When it says stop, everything stops": no step allocates capital while the
\* portfolio in the database is halted by its fall from the peak.
NoAllocationWhenHalted ==
    [][db'.allocated > db.allocated => ~Halted(db)]_vars

\* Every call that starts returns, whatever the other sessions do.
CallsReturn == \A s \in Sessions : pc[s] # "idle" ~> pc[s] = "idle"

-----------------------------------------------------------------------------
(* What a comment of the code says and the code does not do *)

\* models.py: allocated_capital is "Capital in open positions".  A second
\* position for an opportunity that already has one is allocated, and its row
\* is dropped by ON CONFLICT DO NOTHING: its capital never comes back.
AllocatedIsOpenRows == db.allocated = SumAmounts(rows, OpenIn(rows))
=============================================================================
