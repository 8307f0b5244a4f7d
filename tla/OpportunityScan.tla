--------------------------- MODULE OpportunityScan ---------------------------
(***************************************************************************)
(* The scan that makes the opportunities: detect_opportunities of          *)
(* src/api/opportunity.py, called by the background loop of main.py and by *)
(* POST /opportunities/scan, which goes on to update_all_lifecycles.       *)
(*                                                                         *)
(* A scan is one caller, whose transaction marks stale rows expired, and a *)
(* batch of analyses, each with a session and a transaction of its own.    *)
(* PostgreSQL runs them at READ COMMITTED with no lock or statement        *)
(* timeout: opps is what is committed, and a caller's uncommitted changes  *)
(* are the rows it has marked, snapshotted and touched.                    *)
(*                                                                         *)
(* Which pair of listings is the best, if any qualifies, is left open: any *)
(* valid route between fresh listings, or none.  Notifications and         *)
(* category statistics, which follow the lifecycle, are left out.          *)
(***************************************************************************)
EXTENDS Naturals, Sequences, FiniteSets

CONSTANTS
    Listings,     \* rows of product_listings
    Products,     \* rows of master_products
    Markets,      \* marketplaces
    ProductOf,    \* listing -> product
    MarketOf,     \* listing -> marketplace
    Routes,       \* VALID_ROUTE_PAIRS: <<buy marketplace, sell marketplace>>
    AutoScans,    \* the background loop: one in every process of the API
    PostScans,    \* requests to POST /opportunities/scan
    Ageing,       \* bound: the listings that grow stale or are scraped again
    BatchSize,    \* ANALYSIS_BATCH_SIZE
    MaxRows       \* bound: rows of the opportunities table

Scans == AutoScans \cup PostScans
Rows == 1..MaxRows

ASSUME ScanAssumption ==
    /\ ProductOf \in [Listings -> Products] /\ MarketOf \in [Listings -> Markets]
    /\ Routes \subseteq Markets \X Markets
    /\ AutoScans \cap PostScans = {}
    /\ Ageing \subseteq Listings
    /\ BatchSize \in Nat \ {0} /\ MaxRows \in Nat

\* What an opportunity can be made of: a buy and a sell listing on a valid route.
Pairs == {q \in Listings \X Listings :
            /\ ProductOf[q[1]] = ProductOf[q[2]]
            /\ <<MarketOf[q[1]], MarketOf[q[2]]>> \in Routes}
NoPair == <<>>
NoRow == 0

\* master_product_id, buy_marketplace and sell_marketplace of a row.
Direction(q) == <<ProductOf[q[1]], MarketOf[q[1]], MarketOf[q[2]]>>

VARIABLES
    fresh,      \* listings with scraped_at > NOW() - STALE_HOURS
    opps,       \* committed rows of opportunities: [status, pair]
    phase,      \* where each scan is
    queue,      \* rows the statement under way has yet to change, as it read them
    marked,     \* rows the scan has set to expired and not committed
    snapped,    \* rows it adds to opportunity_history, uncommitted
    touched,    \* rows whose lifecycle columns it has changed and not committed
    todo,       \* candidate products not yet in a batch
    work        \* the batch: the analysis of each product, by scan

callers == <<phase, queue, marked, snapped, touched, todo>>
vars == <<fresh, opps, callers, work>>

Phases == {"idle", "expire", "analyse", "select", "snapshot", "update"}

Steps == {"none", "analyse", "upsert", "update", "insert"}
Job(step, pair, row) == [step |-> step, pair |-> pair, row |-> row]
NoJob == Job("none", NoPair, NoRow)

Active == {o \in Rows : opps[o].status = "active"}
Stale(q) == q[1] \notin fresh /\ q[2] \notin fresh

Init ==
    /\ fresh = Listings
    /\ opps = [o \in Rows |-> [status |-> "unused", pair |-> NoPair]]
    /\ phase = [s \in Scans |-> "idle"]
    /\ queue = [s \in Scans |-> <<>>]
    /\ marked = [s \in Scans |-> {}]
    /\ snapped = [s \in Scans |-> {}]
    /\ touched = [s \in Scans |-> {}]
    /\ todo = [s \in Scans |-> {}]
    /\ work = [s \in Scans |-> [p \in Products |-> NoJob]]

-----------------------------------------------------------------------------
\* Row locks.

\* Uncommitted UPDATEs of a caller; its snapshots hold the row FOR KEY SHARE.
Changed(s) == marked[s] \cup touched[s]

\* Row o is held by an analysis of scan s, FOR UPDATE.
HeldByAnalysis(s, o) ==
    \E p \in Products : work[s][p].step = "update" /\ work[s][p].row = o

\* A caller's UPDATE of row o has to wait for somebody else's transaction.
MustWait(s, o) ==
    \E t \in Scans \ {s} : o \in Changed(t) \/ HeldByAnalysis(t, o)

\* Nobody holds row o: SKIP LOCKED takes it.
Lockable(o) ==
    \A t \in Scans :
        /\ o \notin Changed(t) /\ ~HeldByAnalysis(t, o)
        /\ ~(phase[t] = "update" /\ o \in snapped[t])

\* The orders in which a statement may come to the rows of a set.
Orders(R) ==
    {q \in [1..Cardinality(R) -> R] : \A i, j \in DOMAIN q : i # j => q[i] # q[j]}

\* The rows of an order, each with the pair it has when it is read.
AsRead(q) == [i \in DOMAIN q |-> [row |-> q[i], pair |-> opps[q[i]].pair]]

Waiting(s) == queue[s] # <<>> /\ phase[s] \in {"expire", "update"}

\* Caller s waits for a row caller t has changed.
BlockedBy(s, t) == s # t /\ Waiting(s) /\ Head(queue[s]).row \in Changed(t)

\* The caller's transaction ends: its changes are committed or forgotten.
Forget(s) ==
    /\ queue' = [queue EXCEPT ![s] = <<>>]
    /\ marked' = [marked EXCEPT ![s] = {}]
    /\ snapped' = [snapped EXCEPT ![s] = {}]
    /\ touched' = [touched EXCEPT ![s] = {}]

CommitExpired(s) ==
    opps' = [o \in Rows |-> IF o \in marked[s] THEN [opps[o] EXCEPT !.status = "expired"]
                                                ELSE opps[o]]

Goto(s, step) == phase' = [phase EXCEPT ![s] = step]

-----------------------------------------------------------------------------
\* detect_opportunities, in the caller's session.

\* The UPDATE that expires stale opportunities begins.
StartScan(s) ==
    /\ phase[s] = "idle"
    /\ \E order \in Orders({o \in Active : Stale(opps[o].pair)}) :
         queue' = [queue EXCEPT ![s] = AsRead(order)]
    /\ Goto(s, "expire")
    /\ UNCHANGED <<fresh, opps, marked, snapped, touched, todo, work>>

\* It comes to a row.  A row that was changed since it was read is looked at
\* again: status for certain, the listings of the NOT EXISTS if the plan has
\* them as a subplan (as an anti-join it has not).
MarkExpired(s) ==
    /\ phase[s] = "expire" /\ queue[s] # <<>>
    /\ LET r == Head(queue[s]) IN
         /\ ~MustWait(s, r.row)
         /\ \/ /\ opps[r.row].status = "active"
               /\ marked' = [marked EXCEPT ![s] = @ \cup {r.row}]
            \/ /\ opps[r.row].status # "active" \/ opps[r.row].pair # r.pair
               /\ UNCHANGED marked
    /\ queue' = [queue EXCEPT ![s] = Tail(@)]
    /\ UNCHANGED <<fresh, opps, phase, snapped, touched, todo, work>>

\* Products with fresh listings in two marketplaces.
Candidates ==
    {p \in Products : \E k, l \in fresh : /\ ProductOf[k] = p /\ ProductOf[l] = p
                                          /\ MarketOf[k] # MarketOf[l]}

FindCandidates(s) ==
    /\ phase[s] = "expire" /\ queue[s] = <<>> /\ Candidates # {}
    /\ todo' = [todo EXCEPT ![s] = Candidates]
    /\ Goto(s, "analyse")
    /\ UNCHANGED <<fresh, opps, queue, marked, snapped, touched, work>>

\* No candidates: return without a commit.  The background loop closes its
\* session, which rolls the expiry back; the route goes on in its own.
FindNone(s) ==
    /\ phase[s] = "expire" /\ queue[s] = <<>> /\ Candidates = {}
    /\ \/ s \in AutoScans /\ Goto(s, "idle") /\ Forget(s)
       \/ s \in PostScans /\ Goto(s, "select") /\ UNCHANGED <<queue, marked, snapped, touched>>
    /\ UNCHANGED <<fresh, opps, todo, work>>

Gathered(s) == \A p \in Products : work[s][p] = NoJob

\* A loop that never moves on to the next batch.
StartSameBatch(s) ==
    /\ phase[s] = "analyse" /\ Gathered(s) /\ todo[s] # {}
    /\ \E B \in SUBSET todo[s] :
         /\ Cardinality(B) = BatchSize \/ (B = todo[s] /\ Cardinality(B) <= BatchSize)
         /\ work' = [work EXCEPT ![s] = [p \in Products |->
                       IF p \in B THEN Job("analyse", NoPair, NoRow) ELSE NoJob]]
    /\ UNCHANGED <<fresh, opps, callers>>

\* The next batch of asyncio.gather, when the last one has ended.
StartBatch(s) ==
    /\ phase[s] = "analyse" /\ Gathered(s) /\ todo[s] # {}
    /\ \E B \in SUBSET todo[s] :
         /\ Cardinality(B) = BatchSize \/ (B = todo[s] /\ Cardinality(B) <= BatchSize)
         /\ work' = [work EXCEPT ![s] = [p \in Products |->
                       IF p \in B THEN Job("analyse", NoPair, NoRow) ELSE NoJob]]
         /\ todo' = [todo EXCEPT ![s] = @ \ B]
    /\ UNCHANGED <<fresh, opps, phase, queue, marked, snapped, touched>>

\* Every batch has ended: the caller commits what it has marked.
EndDetection(s) ==
    /\ phase[s] = "analyse" /\ Gathered(s) /\ todo[s] = {}
    /\ CommitExpired(s) /\ Forget(s)
    /\ Goto(s, IF s \in AutoScans THEN "idle" ELSE "select")
    /\ UNCHANGED <<fresh, todo, work>>

\* An exception, or a deadlock PostgreSQL resolves by aborting this
\* transaction: the caller's session is closed, its changes are undone.
RollBack(s) ==
    /\ Goto(s, "idle") /\ Forget(s)
    /\ todo' = [todo EXCEPT ![s] = {}]
    /\ UNCHANGED <<fresh, opps, work>>

Fail(s) == phase[s] # "idle" /\ Gathered(s) /\ RollBack(s)

Deadlock(s) ==
    /\ \E C \in SUBSET Scans :
         /\ s \in C
         /\ \A t \in C : (\E u \in C : BlockedBy(t, u)) /\ (\E u \in C : BlockedBy(u, t))
    /\ RollBack(s)

-----------------------------------------------------------------------------
\* _analyze_product, in a session of its own.

SetJob(s, p, job) == work' = [work EXCEPT ![s][p] = job]

\* Read the fresh listings and choose the best route, if one qualifies.
Analyse(s, p) ==
    /\ work[s][p].step = "analyse"
    /\ \/ \E q \in Pairs :
            /\ ProductOf[q[1]] = p /\ q[1] \in fresh /\ q[2] \in fresh
            /\ SetJob(s, p, Job("upsert", q, NoRow))
       \/ SetJob(s, p, NoJob)
    /\ UNCHANGED <<fresh, opps, callers>>

\* A reader of uncommitted expiries.
SameDirectionUncommitted(q) ==
    {o \in Active : /\ Direction(opps[o].pair) = Direction(q)
                    /\ \A s \in Scans : o \notin marked[s]}

SameDirection(q) == {o \in Active : Direction(opps[o].pair) = Direction(q)}

\* A SELECT without FOR UPDATE.
SelectUnlocked(s, p) ==
    /\ work[s][p].step = "upsert"
    /\ LET q == work[s][p].pair IN
         \/ \E o \in SameDirection(q) : SetJob(s, p, Job("update", q, o))
         \/ SameDirection(q) = {} /\ SetJob(s, p, Job("insert", q, NoRow))
    /\ UNCHANGED <<fresh, opps, callers>>

\* SELECT ... FOR UPDATE SKIP LOCKED of the active row of this direction: a
\* row somebody holds is as good as no row.
SelectForUpdate(s, p) ==
    /\ work[s][p].step = "upsert"
    /\ LET q == work[s][p].pair
           free == {o \in SameDirection(q) : Lockable(o)} IN
         \/ \E o \in free : SetJob(s, p, Job("update", q, o))
         \/ free = {} /\ SetJob(s, p, Job("insert", q, NoRow))
    /\ UNCHANGED <<fresh, opps, callers>>

\* Refresh the row and commit.
Update(s, p) ==
    /\ work[s][p].step = "update"
    /\ opps' = [opps EXCEPT ![work[s][p].row].pair = work[s][p].pair]
    /\ SetJob(s, p, NoJob)
    /\ UNCHANGED <<fresh, callers>>

\* The unique index on active rows makes an INSERT wait for the transaction
\* that is changing the row it collides with.
MustWaitForIndex(q) == \E o \in SameDirection(q), t \in Scans : o \in Changed(t)

Insert(s, p) ==
    /\ work[s][p].step = "insert"
    /\ LET q == work[s][p].pair
           free == {o \in Rows : opps[o].status = "unused"} IN
         /\ ~MustWaitForIndex(q)
         /\ \/ /\ SameDirection(q) = {}
               /\ \E o \in free :
                    /\ \A r \in free : o <= r
                    /\ opps' = [opps EXCEPT ![o] = [status |-> "active", pair |-> q]]
            \/ /\ SameDirection(q) # {} \/ free = {}    \* refused, or at the bound
               /\ UNCHANGED opps
    /\ SetJob(s, p, NoJob)
    /\ UNCHANGED <<fresh, callers>>

\* Any exception: no connection from the pool, an error of the database.
\* gather returns it as a result.
FailAnalysis(s, p) ==
    /\ work[s][p] # NoJob
    /\ SetJob(s, p, NoJob)
    /\ UNCHANGED <<fresh, opps, callers>>

-----------------------------------------------------------------------------
\* update_all_lifecycles and the route's commit.

\* SELECT the active rows (its own expired ones are not).
SelectActive(s) ==
    /\ phase[s] = "select"
    /\ snapped' = [snapped EXCEPT ![s] = Active \ marked[s]]
    /\ Goto(s, "snapshot")
    /\ UNCHANGED <<fresh, opps, queue, marked, touched, todo, work>>

\* Flush the snapshots: the foreign key takes each row FOR KEY SHARE, which
\* waits for an analysis that has it FOR UPDATE.  The metrics of some of the
\* rows will turn out to have changed.
FlushSnapshots(s) ==
    /\ phase[s] = "snapshot"
    /\ \A o \in snapped[s], t \in Scans : ~HeldByAnalysis(t, o)
    /\ \E differ \in SUBSET snapped[s] : \E order \in Orders(differ) :
         queue' = [queue EXCEPT ![s] = AsRead(order)]
    /\ Goto(s, "update")
    /\ UNCHANGED <<fresh, opps, marked, snapped, touched, todo, work>>

\* The metrics of the next row, flushed by the query that follows: an UPDATE
\* by primary key, whatever has become of the row.
UpdateLifecycle(s) ==
    /\ phase[s] = "update" /\ queue[s] # <<>>
    /\ ~MustWait(s, Head(queue[s]).row)
    /\ touched' = [touched EXCEPT ![s] = @ \cup {Head(queue[s]).row}]
    /\ queue' = [queue EXCEPT ![s] = Tail(@)]
    /\ UNCHANGED <<fresh, opps, phase, marked, snapped, todo, work>>

Commit(s) ==
    /\ phase[s] = "update" /\ queue[s] = <<>>
    /\ CommitExpired(s) /\ Forget(s) /\ Goto(s, "idle")
    /\ UNCHANGED <<fresh, todo, work>>

-----------------------------------------------------------------------------
\* Listings are scraped again, or grow older than STALE_HOURS.
Listed(l) ==
    /\ fresh' = IF l \in fresh THEN fresh \ {l} ELSE fresh \cup {l}
    /\ UNCHANGED <<opps, callers, work>>

Caller(s) ==
    \/ MarkExpired(s) \/ FindCandidates(s) \/ FindNone(s) \/ StartBatch(s)
    \/ EndDetection(s) \/ SelectActive(s) \/ FlushSnapshots(s)
    \/ UpdateLifecycle(s) \/ Commit(s)

Analysis(s, p) ==
    Analyse(s, p) \/ SelectForUpdate(s, p) \/ Update(s, p) \/ Insert(s, p)

Next ==
    \/ \E s \in Scans : StartScan(s) \/ Caller(s) \/ Fail(s) \/ Deadlock(s)
    \/ \E s \in Scans, p \in Products : Analysis(s, p) \/ FailAnalysis(s, p)
    \/ \E l \in Ageing : Listed(l)

Spec == Init /\ [][Next]_vars

\* A coroutine runs on when what it waits for is there; PostgreSQL serves the
\* waiters of a lock in turn and finds deadlocks.  Nothing has to succeed.
FairSpec ==
    /\ Spec
    /\ \A s \in AutoScans : WF_vars(StartScan(s))
    /\ \A s \in Scans : SF_vars(Caller(s)) /\ WF_vars(Deadlock(s))
    /\ \A s \in Scans, p \in Products : SF_vars(Analysis(s, p))

-----------------------------------------------------------------------------
TypeOK ==
    /\ fresh \subseteq Listings
    /\ opps \in [Rows -> [status : {"unused", "active", "expired"}, pair : Pairs \cup {NoPair}]]
    /\ phase \in [Scans -> Phases]
    /\ queue \in [Scans -> Seq([row : Rows, pair : Pairs])]
    /\ marked \in [Scans -> SUBSET Rows]
    /\ snapped \in [Scans -> SUBSET Rows]
    /\ touched \in [Scans -> SUBSET Rows]
    /\ todo \in [Scans -> SUBSET Products]
    /\ work \in [Scans -> [Products ->
                  [step : Steps, pair : Pairs \cup {NoPair}, row : Rows \cup {NoRow}]]]

\* One active opportunity per product and direction, although every analysis
\* looks for the row in one statement and inserts it in another, rows are
\* skipped while they are locked, and expiries are rolled back.
OneActivePerDirection ==
    \A o, r \in Active : o # r => Direction(opps[o].pair) # Direction(opps[r].pair)

\* An expired opportunity stays as it was when it expired: no analysis that
\* found it active before refreshes it afterwards, none brings it back.
ExpiredIsFinal ==
    [][\A o \in Rows : opps[o].status = "expired" => opps'[o] = opps[o]]_vars

\* Every scan comes to its end again and again, unless some scan hangs for
\* ever in its analyses with expiries it has not committed.
HangsOnlyOnExpiry ==
    \A s \in Scans : \/ []<>(phase[s] = "idle")
                    \/ \E t \in Scans : <>[](phase[t] = "analyse" /\ marked[t] # {})

\* "Background task: scan for opportunities every SCAN_INTERVAL seconds."
ScansAgain == \A s \in AutoScans : []<>(phase[s] = "idle")
=============================================================================
