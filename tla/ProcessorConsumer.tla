-------------------------- MODULE ProcessorConsumer --------------------------
(***************************************************************************)
(* The processor as docker-compose starts it: src/processor/consumer.py,   *)
(* one consumer of the group on the raw_listings_queue stream, with the    *)
(* resolver's product creation and listing upsert.                         *)
(*                                                                         *)
(* The process is a sequence of awaits on Redis and PostgreSQL, any of     *)
(* which may fail or be the last one before a crash; the container is      *)
(* started again when the process ends.  What it leaves behind is the      *)
(* stream, the group's pending list and the tables.                        *)
(*                                                                         *)
(* consumer.py never loads the product index (only pipeline.py does), so   *)
(* a listing's product is found by its normalised title alone.             *)
(*                                                                         *)
(* Left out: the running median in master_products, which only the index   *)
(* reads; currencies (a price is its value in dollars).                    *)
(***************************************************************************)
EXTENDS RawListings

CONSTANTS
    BatchSize,     \* BATCH_SIZE
    HistoryRead,   \* the 20 rows of price history compared with
    MinCluster     \* the 3 listings validate_price_usd needs

ASSUME LimitsAssumption ==
    /\ BatchSize \in Nat \ {0} /\ HistoryRead \in Nat \ {0} /\ MinCluster \in Nat \ {0}

VARIABLES
    stream,     \* every listing published, in order
    trimmed,    \* entries 1..trimmed are no longer in the stream
    delivered,  \* last-delivered-id of processor_group
    pel,        \* the consumer's pending entries: id -> times_delivered
    dead,       \* original_id of the entries of dead_letter_queue
    products,   \* canonical_name of the rows of master_products
    listings,   \* product_listings: url -> [product, price, from]
    history,    \* price_history rows in order: [url, price, from]
    skipped,    \* ids the log says were skipped
    phase,      \* where main is
    todo,       \* ids read and not yet dealt with
    at,         \* where process_message is with the first of them
    cached,     \* the match cache: <<title, price>> resolved as new
    faults      \* failures at startup so far

redis == <<stream, trimmed, delivered, pel, dead>>
tables == <<products, listings, history>>
vars == <<redis, tables, skipped, phase, todo, at, cached, faults>>

Phases == {"down", "overdue", "redeliver", "running"}
Steps == {"check", "resolve", "validate", "save", "ack"}

Init ==
    /\ stream = <<>> /\ trimmed = 0 /\ delivered = 0
    /\ pel = [i \in {} |-> 0] /\ dead = {}
    /\ products = {} /\ listings = [u \in {} |-> 0] /\ history = <<>>
    /\ skipped = {} /\ phase = "down" /\ todo = {} /\ at = "check"
    /\ cached = {} /\ faults = 0

-----------------------------------------------------------------------------
\* Redis.

Pending == DOMAIN pel
Waiting == {i \in 1..Len(stream) : i > delivered /\ i > trimmed}

\* XADD.  scraper_v2 adds MAXLEN ~, scraper's publishers do not.
Publish(l) ==
    /\ Len(stream) < MaxMessages
    /\ stream' = Append(stream, l)
    /\ trimmed' \in {n \in trimmed..Len(stream) : n = trimmed \/ Len(stream) + 1 - n >= StreamLimit}
    /\ UNCHANGED <<delivered, pel, dead, tables, skipped, phase, todo, at, cached, faults>>

Acked(i) == [j \in Pending \ {i} |-> pel[j]]

\* An entry that is no longer in the stream is returned without its fields,
\* and Redis does not count that as a delivery.
Redelivered(S) ==
    [i \in Pending |-> IF i \in S /\ i > trimmed /\ pel[i] < CountLimit
                       THEN pel[i] + 1 ELSE pel[i]]

-----------------------------------------------------------------------------
\* The comparison of a price with the ones known.

\* consumer.py: more than 80% away from the median of the product's listings.
Deviates(price, known) ==
    /\ Len(known) >= MinCluster
    /\ LET m == TwiceMedian(known) IN 5 * (2 * price - m) > 4 * m \/ 5 * (m - 2 * price) > 4 * m

KnownPrices(rows, url) ==
    LET mine == SelectSeq(rows, LAMBDA r : r.url = url)
        first == IF Len(mine) > HistoryRead THEN Len(mine) - HistoryRead + 1 ELSE 1
    IN  [k \in 1..(Len(mine) - first + 1) |-> mine[first + k - 1].price]

ClusterPrices(title) ==
    LET urls == SetToSeq({u \in DOMAIN listings : listings[u].product = title})
    IN  [k \in 1..Len(urls) |-> listings[urls[k]].price]

-----------------------------------------------------------------------------
\* Startup.

\* An overdue check that looks at the oldest pending entry only.
OverdueHead == {i \in Earliest(Pending, 1) : pel[i] > MaxRetries}

\* main connects, makes sure the group exists, and looks at the pending list.
Overdue == {i \in Earliest(Pending, Window) : pel[i] > MaxRetries}
Start ==
    /\ phase = "down"
    /\ phase' = "overdue" /\ todo' = Overdue /\ at' = "check"
    /\ UNCHANGED <<redis, tables, skipped, cached, faults>>

\* A consumer that takes the messages of a batch in any order.
AnyTurn(i) == i \in todo

InTurn(i) == i \in todo /\ \A j \in todo : i <= j

\* A dead letter step that neither sends nor acknowledges.
DeadLetterLost(i) ==
    /\ phase = "overdue" /\ InTurn(i) /\ at = "check"
    /\ todo' = todo \ {i} /\ at' = "check"
    /\ UNCHANGED <<redis, tables, skipped, phase, cached, faults>>

DeadLetter(i) ==
    /\ phase = "overdue" /\ InTurn(i) /\ at = "check"
    /\ dead' = dead \cup {i} /\ at' = "ack"
    /\ UNCHANGED <<stream, trimmed, delivered, pel, tables, skipped, phase, todo, cached, faults>>

\* Redis fails in the middle of this: main logs it and goes on.
OverdueFails ==
    /\ phase = "overdue" /\ faults < MaxFaults
    /\ phase' = "redeliver" /\ todo' = {} /\ at' = "check" /\ faults' = faults + 1
    /\ UNCHANGED <<redis, tables, skipped, cached>>

\* A startup that redelivers without having dead-lettered.
ReadPendingFirst ==
    LET S == Earliest(Pending, Window) IN
    /\ phase = "overdue"
    /\ phase' = "redeliver" /\ pel' = Redelivered(S) /\ todo' = {i \in S : i > trimmed}
    /\ at' = "check"
    /\ UNCHANGED <<stream, trimmed, delivered, dead, tables, skipped, cached, faults>>

\* xreadgroup "0"; entries without fields are passed over and stay pending.
ReadPending ==
    LET S == Earliest(Pending, Window) IN
    /\ phase = "overdue" /\ todo = {}
    /\ phase' = "redeliver" /\ pel' = Redelivered(S) /\ todo' = {i \in S : i > trimmed}
    /\ at' = "check"
    /\ UNCHANGED <<stream, trimmed, delivered, dead, tables, skipped, cached, faults>>

ReadPendingFails ==
    /\ phase = "overdue" /\ todo = {} /\ faults < MaxFaults
    /\ phase' = "running" /\ faults' = faults + 1
    /\ UNCHANGED <<redis, tables, skipped, todo, at, cached>>

-----------------------------------------------------------------------------
\* The main loop.

Ready == phase \in {"redeliver", "running"} /\ todo = {}

\* A consumer that reads with NOACK: nothing is pending.
ReadNewNoAck ==
    LET S == Earliest(Waiting, BatchSize) IN
    /\ Ready /\ S # {}
    /\ phase' = "running" /\ todo' = S /\ at' = "check"
    /\ \E last \in S : delivered' = last /\ \A i \in S : i <= last
    /\ UNCHANGED <<stream, trimmed, pel, dead, tables, skipped, cached, faults>>

ReadNew ==
    LET S == Earliest(Waiting, BatchSize) IN
    /\ Ready
    /\ S # {} \/ phase = "redeliver"
    /\ phase' = "running"
    /\ IF S = {} THEN UNCHANGED delivered
       ELSE \E last \in S : delivered' = last /\ \A i \in S : i <= last
    /\ pel' = [i \in Pending \cup S |-> IF i \in S THEN 1 ELSE pel[i]]
    /\ todo' = S /\ at' = "check"
    /\ UNCHANGED <<stream, trimmed, dead, tables, skipped, cached, faults>>

\* The process ends: xreadgroup fails or a signal has set the stop event (only
\* looked at between batches), or the process dies wherever it is.  Either way
\* what it had in memory is gone.
Halt ==
    /\ phase # "down"
    /\ phase' = "down" /\ todo' = {} /\ at' = "check" /\ cached' = {}
    /\ UNCHANGED <<redis, tables, skipped, faults>>

-----------------------------------------------------------------------------
\* process_message, and the acknowledgement after it.

Processing(i, step) == phase \in {"redeliver", "running"} /\ InTurn(i) /\ at = step

Skip(i) == skipped' = skipped \cup {i} /\ at' = "ack"
GoOn(step) == at' = step /\ UNCHANGED skipped

Check(i) ==
    LET m == stream[i] IN
    /\ Processing(i, "check")
    /\ IF m.form = "refused" \/ Anomalous(m.price, KnownPrices(history, m.url))
       THEN Skip(i) ELSE GoOn("resolve")
    /\ UNCHANGED <<redis, tables, phase, todo, cached, faults>>

\* A title and price resolved as new less than ten minutes ago are new again;
\* otherwise INSERT ... ON CONFLICT (canonical_name), committed on its own.
Resolve(i) ==
    LET m == stream[i]
        key == <<m.title, m.price>> IN
    /\ Processing(i, "resolve")
    /\ \/ /\ key \in cached
          /\ GoOn("save") /\ UNCHANGED <<products, cached>>
       \/ /\ products' = products \cup {m.title}
          /\ cached' = IF m.title \in products THEN cached \ {key} ELSE cached \cup {key}
          /\ GoOn(IF m.title \in products THEN "validate" ELSE "save")
    /\ UNCHANGED <<redis, listings, history, phase, todo, faults>>

Validate(i) ==
    LET m == stream[i] IN
    /\ Processing(i, "validate")
    /\ IF m.form = "wild" \/ Deviates(m.price, ClusterPrices(m.title))
       THEN Skip(i) ELSE GoOn("save")
    /\ UNCHANGED <<redis, tables, phase, todo, cached, faults>>

\* One transaction.  A url that is already there keeps its product.
Upsert(i) ==
    LET m == stream[i]
        product == IF m.url \in DOMAIN listings THEN listings[m.url].product ELSE m.title
    IN  /\ listings' = [u \in DOMAIN listings \cup {m.url} |->
                          IF u = m.url THEN [product |-> product, price |-> m.price, from |-> i]
                          ELSE listings[u]]
        /\ history' = Append(history, [url |-> m.url, price |-> m.price, from |-> i])

Save(i) ==
    /\ Processing(i, "save")
    /\ Upsert(i) /\ at' = "ack"
    /\ UNCHANGED <<redis, products, skipped, phase, todo, cached, faults>>

\* The transaction commits but the connection is lost before the answer.
SaveUnanswered(i) ==
    /\ Processing(i, "save")
    /\ Upsert(i) /\ at' = "check" /\ todo' = todo \ {i}
    /\ UNCHANGED <<redis, products, skipped, phase, cached, faults>>

Ack(i) ==
    /\ phase # "down" /\ InTurn(i) /\ at = "ack"
    /\ pel' = Acked(i) /\ todo' = todo \ {i} /\ at' = "check"
    /\ UNCHANGED <<stream, trimmed, delivered, dead, tables, skipped, phase, cached, faults>>

\* A failure that acknowledges the message.
FailAndAck(i) ==
    /\ phase \in {"redeliver", "running"} /\ InTurn(i)
    /\ todo' = todo \ {i} /\ at' = "check" /\ pel' = Acked(i)
    /\ UNCHANGED <<stream, trimmed, delivered, dead, tables, skipped, phase, cached, faults>>

\* Some await or conversion raises: main logs it and takes the next message;
\* this one stays pending.
Fail(i) ==
    /\ phase \in {"redeliver", "running"} /\ InTurn(i)
    /\ todo' = todo \ {i} /\ at' = "check"
    /\ UNCHANGED <<redis, tables, skipped, phase, cached, faults>>

-----------------------------------------------------------------------------
Message(i) ==
    \/ DeadLetter(i) \/ Check(i) \/ Resolve(i) \/ Validate(i)
    \/ Save(i) \/ SaveUnanswered(i) \/ Ack(i) \/ Fail(i)

Loop == OverdueFails \/ ReadPending \/ ReadPendingFails \/ ReadNew

Next ==
    \/ \E l \in Listings : Publish(l)
    \/ Start \/ Loop \/ Halt
    \/ \E i \in Ids : Message(i)

Spec == Init /\ [][Next]_vars

\* The event loop runs the process on, and docker starts it again.
FairSpec == Spec /\ WF_vars(Start) /\ WF_vars(Loop \/ \E i \in Ids : Message(i))

-----------------------------------------------------------------------------
Urls == {l.url : l \in Listings}
Titles == {l.title : l \in Listings}
Prices == {l.price : l \in Listings}

RedisOK ==
    /\ stream \in Seq(Listings) /\ Len(stream) <= MaxMessages
    /\ trimmed \in 0..Len(stream) /\ delivered \in 0..Len(stream)
    /\ Pending \subseteq 1..delivered /\ pel \in [Pending -> 1..CountLimit]
    /\ dead \subseteq 1..delivered

TablesOK ==
    /\ products \subseteq Titles
    /\ DOMAIN listings \subseteq Urls
    /\ listings \in [DOMAIN listings -> [product : Titles, price : Prices, from : 1..delivered]]
    /\ history \in Seq([url : Urls, price : Prices, from : 1..delivered])

TypeOK ==
    /\ RedisOK
    /\ TablesOK
    /\ skipped \subseteq 1..delivered /\ cached \subseteq Titles \X Prices
    /\ todo \subseteq Pending
    /\ phase \in Phases /\ at \in Steps /\ faults \in 0..MaxFaults

\* What something definite has happened to.
Handled == {history[k].from : k \in DOMAIN history} \cup skipped \cup dead

\* The consumer keeps the promise of AtLeastOnce over every crash, failure and
\* restart: a listing leaves the pending list only after it was saved, skipped
\* or dead-lettered, and none is worked on that the group does not hold as
\* pending (main acknowledges after process_message, or after the XADD to the
\* dead letter queue).
Queue == INSTANCE AtLeastOnce WITH waiting <- Waiting, pending <- Pending, handled <- Handled
DeliversAtLeastOnce == Queue!Spec

\* Unless a step of the startup has failed, no listing is handed to
\* process_message more often than MAX_RETRIES + 1 times: whatever the window
\* of 100 leaves out is caught before it is read once more.
RetriesBounded == faults = 0 => \A i \in Pending : pel[i] <= MaxRetries + 1

\* Unless a step of the startup has failed, nothing is saved of a listing that
\* was put in the dead letter queue, also when the process died before the
\* XACK and finds the listing still pending.
DeadStaysDead ==
    [][faults = 0 => \A k \in DOMAIN history' \ DOMAIN history : history'[k].from \notin dead]_vars

\* A listing row goes back to an earlier message only when that message is
\* being handed out again: one reading of the stream is applied in order.
OlderOnlyWhenRedelivered ==
    [][\A u \in DOMAIN listings :
         listings'[u].from < listings[u].from => pel[listings'[u].from] > 1]_vars

\* The entries without fields that head the pending list are never counted as
\* delivered and never acknowledged; a window full of them hides the rest.
Clogged == \A i \in Earliest(Pending, Window) : i <= trimmed

\* A pending listing does not stay pending for ever if the process keeps being
\* started again, keeps getting through its startup, and is not clogged: it is
\* saved, skipped or dead-lettered in the end, or its entry has been trimmed.
RetriesSettle ==
    ([]<>(phase = "down") /\ []<>Ready /\ <>[](Pending = {} \/ ~Clogged))
        => \A i \in Ids : (i \in Pending) ~> (i \notin Pending \/ i <= trimmed)

\* TEST_PLAN.md:47 "re-processing the same listing produces the same result":
\* a listing row is not put back to what an earlier message said.
PricesDoNotGoBack ==
    [][\A u \in DOMAIN listings : listings'[u].from >= listings[u].from]_vars
=============================================================================
