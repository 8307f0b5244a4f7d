--------------------------- MODULE ProcessorPipeline ---------------------------
(***************************************************************************)
(* The processor with PROCESSOR_MODE=pipeline: src/processor/pipeline.py   *)
(* and write_buffer.py.  Three tasks of one event loop hand messages on:   *)
(* the reader fills a bounded queue from the stream, the batch stage       *)
(* parses and resolves what the queue holds and waits for its rows, and    *)
(* the writer flushes them by an UPSERT and a COPY that run at the same    *)
(* time on two connections.                                                *)
(*                                                                         *)
(* Left out: what a message resolves to (the batch stage may drop or lose  *)
(* any of a batch), the sizes the writer adapts, the stages that only      *)
(* log, warm a cache or publish "backpressure".                            *)
(***************************************************************************)
EXTENDS RawListings, Filtering

CONSTANTS
    Prefetch,      \* PREFETCH_SIZE: places in the queue
    ReadBatch,     \* read_batch
    PipeBatch      \* BATCH_SIZE of the batch stage

ASSUME PipelineAssumption ==
    Prefetch \in Nat \ {0} /\ ReadBatch \in Nat \ {0} /\ PipeBatch \in Nat \ {0}

VARIABLES
    raw,        \* every listing published, in order
    cut,        \* entries 1..cut are no longer in the stream
    readUpTo,   \* last-delivered-id
    pending,    \* the group's pending entries: id -> times_delivered
    letters,    \* original_id in dead_letter_queue
    rows,       \* product_listings: url -> the message its row is from
    prices,     \* messages with a row in price_history
    stage,      \* main: "down", "letters" or "up"
    stop,       \* stop_event
    overdue,    \* entries drain_dead_letters has still to move
    reader,     \* where reader_stage is
    inHand,     \* ids it has read and not put yet, -i if without fields
    queue,      \* buffer: ids, and 0 for None
    batcher,    \* where batch_process_stage is
    batch,      \* ack_ids
    parsed,     \* its ids that go on to be written
    noted,      \* its ids counted as skipped or as errors
    buffered,   \* ids in the write buffer
    result,     \* of the futures the batch stage waits for
    writer,     \* where write_flush_stage is
    flight,     \* ids of the batch being flushed
    half,       \* the statements of that flush still running
    late,       \* statements that run on although their flush was given up
    mishaps,    \* failures so far
    torn        \* history: a second reading of a message was not gone through with

pipeRedis == <<raw, cut, readUpTo, pending, letters>>
pipeTables == <<rows, prices>>
readerVars == <<reader, inHand>>
batchVars == <<batcher, batch, parsed, noted>>
writerVars == <<buffered, result, writer, flight, half, late>>
mainVars == <<stage, stop, overdue>>
pipeVars == <<pipeRedis, pipeTables, mainVars, readerVars, queue, batchVars, writerVars, mishaps, torn>>

PipeInit ==
    /\ raw = <<>> /\ cut = 0 /\ readUpTo = 0 /\ pending = [i \in {} |-> 0] /\ letters = {}
    /\ rows = [u \in {} |-> 0] /\ prices = {}
    /\ stage = "down" /\ stop = FALSE /\ overdue = {}
    /\ reader = "done" /\ inHand = <<>> /\ queue = <<>>
    /\ batcher = "done" /\ batch = {} /\ parsed = <<>> /\ noted = {}
    /\ buffered = <<>> /\ result = "none" /\ writer = "done" /\ flight = <<>>
    /\ half = {} /\ late = {} /\ mishaps = 0 /\ torn = FALSE

Held == DOMAIN pending
Unread == {i \in 1..Len(raw) : i > readUpTo /\ i > cut}
\* In stream order: the k-th has k - 1 before it.
Sorted(S) == [k \in 1..Cardinality(S) |-> CHOOSE i \in S : Cardinality({j \in S : j < i}) = k - 1]
Released(S) == [i \in Held \ S |-> pending[i]]

PipePublish(l) ==
    /\ Len(raw) < MaxMessages
    /\ raw' = Append(raw, l)
    /\ cut' \in {n \in cut..Len(raw) : n = cut \/ Len(raw) + 1 - n >= StreamLimit}
    /\ UNCHANGED <<readUpTo, pending, letters, pipeTables, mainVars, readerVars, queue,
                   batchVars, writerVars, mishaps, torn>>

-----------------------------------------------------------------------------
\* main.

Launch ==
    /\ stage = "down"
    /\ stage' = "letters"
    /\ overdue' = {i \in Earliest(Held, Window) : pending[i] > MaxRetries}
    /\ UNCHANGED <<pipeRedis, pipeTables, stop, readerVars, queue, batchVars, writerVars, mishaps, torn>>

\* drain_dead_letters: XADD, then XACK.
MoveLetter(i) ==
    /\ stage = "letters" /\ i \in overdue /\ \A j \in overdue : i <= j
    /\ torn' = (torn \/ i \in prices)
    /\ \/ /\ i \notin letters
          /\ letters' = letters \cup {i} /\ UNCHANGED <<pending, overdue>>
       \/ /\ i \in letters
          /\ pending' = Released({i}) /\ overdue' = overdue \ {i} /\ UNCHANGED letters
    /\ UNCHANGED <<raw, cut, readUpTo, pipeTables, stage, stop, readerVars, queue,
                   batchVars, writerVars, mishaps>>

\* The eight stages begin; a failure of drain_dead_letters is logged.
BeginStages ==
    /\ stage = "letters"
    /\ \/ overdue = {} /\ UNCHANGED mishaps
       \/ overdue # {} /\ mishaps < MaxFaults /\ mishaps' = mishaps + 1
    /\ stage' = "up" /\ overdue' = {}
    /\ reader' = "drain" /\ batcher' = "top" /\ writer' = "loop"
    /\ UNCHANGED <<pipeRedis, pipeTables, stop, inHand, queue, batch, parsed, noted,
                   buffered, result, flight, half, late, torn>>

Signal ==
    /\ stage = "up" /\ ~stop
    /\ stop' = TRUE
    /\ UNCHANGED <<pipeRedis, pipeTables, stage, overdue, readerVars, queue,
                   batchVars, writerVars, mishaps, torn>>

\* What the stages and the write buffer hold.
Abs(i) == IF i < 0 THEN -i ELSE i
Copies ==
    {Abs(i) : i \in Range(inHand)} \cup Range(queue) \cup Range(parsed)
        \cup Range(flight) \cup Range(buffered) \cup UNION {Range(l[2]) : l \in late}

Gone ==
    /\ torn' = (torn \/ ~(Copies \subseteq Held \cup {0}))
    /\ stage' = "down" /\ stop' = FALSE /\ overdue' = {}
    /\ reader' = "done" /\ inHand' = <<>> /\ queue' = <<>>
    /\ batcher' = "done" /\ batch' = {} /\ parsed' = <<>> /\ noted' = {}
    /\ buffered' = <<>> /\ result' = "none" /\ writer' = "done" /\ flight' = <<>>
    /\ half' = {} /\ late' = {}
    /\ UNCHANGED <<pipeRedis, pipeTables, mishaps>>

\* gather returns: every stage has ended.
Exit == stage = "up" /\ reader = "done" /\ batcher = "done" /\ writer = "done" /\ Gone

\* The process dies, or a stage raises and takes the others with it: until the
\* process ends they run on, and flush_remaining writes what StartFlush would.
Die == stage # "down" /\ Gone

-----------------------------------------------------------------------------
\* reader_stage.

Reading(at) == stage = "up" /\ reader = at /\ inHand = <<>>
ReaderOnly == UNCHANGED <<pipeTables, mainVars, batchVars, writerVars, mishaps>>

\* bound: a delivery count beyond MaxRetries + 1 is counted as MaxRetries + 1.
\* Phase 1 reads the pending list from its beginning until it is empty, so it
\* reads again what waits in the queue or is being written.
ReadHeld ==
    LET S == Earliest(Held, ReadBatch) IN
    /\ Reading("drain") /\ ~stop
    /\ inHand' = [k \in DOMAIN Sorted(S) |-> IF Sorted(S)[k] > cut THEN Sorted(S)[k] ELSE -Sorted(S)[k]]
    /\ reader' = IF S = {} THEN "new" ELSE "drain"
    /\ pending' = [i \in Held |-> IF i \in S /\ i > cut /\ pending[i] <= MaxRetries
                                  THEN pending[i] + 1 ELSE pending[i]]
    /\ UNCHANGED <<raw, cut, readUpTo, letters, queue, torn>>
    /\ ReaderOnly

ReadUnread ==
    LET S == Earliest(Unread, ReadBatch) IN
    /\ Reading("new") /\ ~stop /\ S # {}
    /\ inHand' = Sorted(S)
    /\ readUpTo' = Last(Sorted(S))
    /\ pending' = [i \in Held \cup S |-> IF i \in S THEN 1 ELSE pending[i]]
    /\ UNCHANGED <<raw, cut, letters, reader, queue, torn>>
    /\ ReaderOnly

\* buffer.put waits for a place; an entry without fields is acknowledged.
Put ==
    /\ stage = "up" /\ inHand # <<>>
    /\ inHand' = Tail(inHand)
    /\ \/ /\ Head(inHand) > 0 /\ Len(queue) < Prefetch
          /\ queue' = Append(queue, Head(inHand)) /\ UNCHANGED <<pending, torn>>
       \/ /\ Head(inHand) < 0
          /\ pending' = Released({-Head(inHand)}) /\ torn' = (torn \/ -Head(inHand) \in prices) /\ UNCHANGED queue
    /\ UNCHANGED <<raw, cut, readUpTo, letters, reader>>
    /\ ReaderOnly

\* stop_event ends both phases; the last put, of None, waits like any other.
PutNone ==
    /\ reader \in {"drain", "new"} /\ Reading(reader) /\ stop
    /\ Len(queue) < Prefetch
    /\ queue' = Append(queue, 0) /\ reader' = "done"
    /\ UNCHANGED <<pipeRedis, inHand, torn>>
    /\ ReaderOnly

Reader == ReadHeld \/ ReadUnread \/ Put \/ PutNone

-----------------------------------------------------------------------------
\* batch_process_stage.

BatcherOnly == UNCHANGED <<raw, cut, readUpTo, letters, pipeTables, mainVars, readerVars,
                           writer, flight, half, late, mishaps>>

\* A loop that never looks at the stop event.
LoopForever ==
    /\ stage = "up" /\ batcher = "top"
    /\ batcher' = "wait"
    /\ UNCHANGED <<pending, queue, batch, parsed, noted, buffered, result, torn>>
    /\ BatcherOnly

LoopTop ==
    /\ stage = "up" /\ batcher = "top"
    /\ batcher' = IF stop THEN "done" ELSE "wait"
    /\ UNCHANGED <<pending, queue, batch, parsed, noted, buffered, result, torn>>
    /\ BatcherOnly

\* buffer.get gives up after two seconds.
GetTimesOut ==
    /\ stage = "up" /\ batcher = "wait" /\ queue = <<>> /\ stop
    /\ batcher' = "top"
    /\ UNCHANGED <<pending, queue, batch, parsed, noted, buffered, result, torn>>
    /\ BatcherOnly

\* The first message of a batch, and what more arrives within 100 ms.
Collect ==
    /\ stage = "up" /\ batcher \in {"wait", "collect"} /\ Len(parsed) < PipeBatch
    /\ queue # <<>> /\ Head(queue) # 0
    /\ queue' = Tail(queue) /\ parsed' = Append(parsed, Head(queue)) /\ batcher' = "collect"
    /\ UNCHANGED <<pending, batch, noted, buffered, result, torn>>
    /\ BatcherOnly

GetNone ==
    /\ stage = "up" /\ batcher \in {"wait", "collect"} /\ Len(parsed) < PipeBatch
    /\ queue # <<>> /\ Head(queue) = 0
    /\ queue' = Tail(queue) /\ batcher' = IF batcher = "wait" THEN "done" ELSE "parse"
    /\ UNCHANGED <<pending, batch, parsed, noted, buffered, result, torn>>
    /\ BatcherOnly

Refused(i) == raw[i].form = "refused"

\* parse_message refuses some, finds others at odds with the anomaly cache, and
\* raises on others still: those are acknowledged with the rest.
Parse ==
    /\ stage = "up" /\ batcher \in {"collect", "parse"}
    /\ \E S \in SUBSET Range(parsed) :
         /\ {i \in Range(parsed) : Refused(i)} \subseteq S
         /\ parsed' = Without(parsed, S)
         /\ noted' = S /\ torn' = (torn \/ S \cap prices # {})
    /\ batch' = Range(parsed)
    /\ batcher' = IF parsed' = <<>> THEN "ack" ELSE "resolve"
    /\ UNCHANGED <<pending, queue, buffered, result>>
    /\ BatcherOnly

\* After embedding and batch_resolve: a listing without a product is an error,
\* one whose dollar price is out of bounds is skipped, the others are enqueued.
ResolveAndEnqueue ==
    /\ stage = "up" /\ batcher = "resolve"
    /\ \E S \in SUBSET Range(parsed) :
         LET kept == Without(parsed, S)
         IN  /\ buffered' = buffered \o kept
             /\ noted' = noted \cup S /\ torn' = (torn \/ S \cap prices # {})
             /\ batcher' = IF kept = <<>> THEN "ack" ELSE "await"
    /\ UNCHANGED <<pending, queue, batch, parsed, result>>
    /\ BatcherOnly

\* A batch stage that goes on without waiting for its futures.
NotAwaited ==
    /\ stage = "up" /\ batcher = "await"
    /\ batcher' = "ack" /\ result' = "none"
    /\ UNCHANGED <<pending, queue, batch, parsed, noted, buffered, torn>>
    /\ BatcherOnly

\* The gather over the rows' futures, exceptions among its results.
Awaited ==
    /\ stage = "up" /\ batcher = "await" /\ result # "none"
    /\ batcher' = "ack" /\ result' = "none"
    /\ noted' = IF result = "ok" THEN noted ELSE noted \cup Range(parsed)
    /\ UNCHANGED <<pending, queue, batch, parsed, buffered, torn>>
    /\ BatcherOnly

AckBatch ==
    /\ stage = "up" /\ batcher = "ack"
    /\ pending' = Released(batch) /\ batcher' = "top" /\ batch' = {} /\ parsed' = <<>> /\ noted' = {}
    /\ UNCHANGED <<queue, buffered, result, torn>>
    /\ BatcherOnly

Batcher ==
    LoopTop \/ GetTimesOut \/ Collect \/ GetNone \/ Parse \/ ResolveAndEnqueue \/ Awaited \/ AckBatch

-----------------------------------------------------------------------------
\* WriteBuffer.

WriterOnly == UNCHANGED <<pipeRedis, mainVars, readerVars, queue, batchVars, torn>>

StartFlush ==
    /\ stage = "up" /\ writer = "loop" /\ buffered # <<>>
    /\ writer' = "flush" /\ flight' = buffered /\ buffered' = <<>> /\ half' = {"upsert", "copy"}
    /\ UNCHANGED <<pipeTables, result, late, mishaps>>
    /\ WriterOnly

\* Where the rows of a url are in a batch.
PlacesOf(ids, u) == {k \in DOMAIN ids : raw[ids[k]].url = u}

\* An UPSERT that keeps the first.
FirstOf(ids, u) == ids[CHOOSE k \in PlacesOf(ids, u) : \A j \in PlacesOf(ids, u) : k <= j]

\* The UPSERT keeps the last of a batch's rows of one url.
LastOf(ids, u) == ids[CHOOSE k \in PlacesOf(ids, u) : \A j \in PlacesOf(ids, u) : j <= k]
Upserted(ids) ==
    LET urls == {raw[i].url : i \in Range(ids)} IN
    [u \in DOMAIN rows \cup urls |-> IF u \in urls THEN LastOf(ids, u) ELSE rows[u]]

\* What the database does when the statement commits.
Commit(statement, ids) ==
    IF statement = "upsert" THEN rows' = Upserted(ids) /\ UNCHANGED prices
    ELSE prices' = prices \cup Range(ids) /\ UNCHANGED rows

\* One of the two statements is done; after both the futures get their result.
HalfDone(statement) ==
    /\ stage = "up" /\ statement \in half
    /\ Commit(statement, flight)
    /\ half' = half \ {statement}
    /\ IF half' = {} THEN result' = "ok" /\ writer' = "loop" /\ flight' = <<>>
       ELSE UNCHANGED <<result, writer, flight>>
    /\ UNCHANGED <<buffered, late, mishaps>>
    /\ WriterOnly

\* The first exception is the flush's: the futures fail, and the loop goes on
\* while the other statement is still running.
HalfFails(statement) ==
    /\ stage = "up" /\ statement \in half /\ mishaps < MaxFaults
    /\ mishaps' = mishaps + 1
    /\ late' = late \cup {<<s, flight>> : s \in half \ {statement}}
    /\ result' = "failed" /\ writer' = "loop" /\ half' = {} /\ flight' = <<>>
    /\ UNCHANGED <<pipeTables, buffered>>
    /\ WriterOnly

LateDone(statement, ids) ==
    /\ stage = "up" /\ <<statement, ids>> \in late
    /\ late' = late \ {<<statement, ids>>}
    /\ Commit(statement, ids)
    /\ UNCHANGED <<buffered, result, writer, flight, half, mishaps>>
    /\ WriterOnly

\* flush_loop ends when it finds the buffer empty after the stop, also while
\* the batch stage still has rows to come; flush_remaining then has none.
EndFlushing ==
    /\ stage = "up" /\ writer = "loop" /\ stop /\ buffered = <<>>
    /\ writer' = "done"
    /\ UNCHANGED <<pipeTables, buffered, result, flight, half, late, mishaps>>
    /\ WriterOnly

Late == \E l \in late : LateDone(l[1], l[2])
Writer ==
    \/ StartFlush \/ EndFlushing \/ Late
    \/ \E s \in {"upsert", "copy"} : HalfDone(s) \/ HalfFails(s)

-----------------------------------------------------------------------------
Main == Launch \/ BeginStages \/ Exit \/ \E i \in Ids : MoveLetter(i)

PipeNext ==
    \/ \E l \in Listings : PipePublish(l)
    \/ Main \/ Signal \/ Die \/ Reader \/ Batcher \/ Writer

\* The event loop runs every stage on.
PipeFairness ==
    WF_pipeVars(Main) /\ WF_pipeVars(Reader) /\ WF_pipeVars(Batcher) /\ WF_pipeVars(Writer)

PipeSpec == PipeInit /\ [][PipeNext]_pipeVars
PipeFairSpec == PipeSpec /\ PipeFairness

-----------------------------------------------------------------------------
PipeTypeOK ==
    /\ raw \in Seq(Listings) /\ cut \in 0..Len(raw) /\ readUpTo \in 0..Len(raw)
    /\ Held \subseteq 1..readUpTo /\ pending \in [Held -> 1..MaxRetries + 1]
    /\ letters \cup prices \cup batch \cup noted \cup overdue \subseteq 1..readUpTo
    /\ \A u \in DOMAIN rows : rows[u] \in 1..readUpTo /\ raw[rows[u]].url = u
    /\ stage \in {"down", "letters", "up"} /\ stop \in BOOLEAN
    /\ reader \in {"drain", "new", "done"} /\ batcher \in {"top", "wait", "collect", "parse", "resolve", "await", "ack", "done"}
    /\ writer \in {"loop", "flush", "done"} /\ result \in {"none", "ok", "failed"}
    /\ Len(queue) <= Prefetch /\ Copies \subseteq 0..readUpTo
    /\ half \subseteq {"upsert", "copy"} /\ mishaps \in 0..MaxFaults

\* A message leaves the pending list only after it was skipped, counted as an
\* error, moved to the dead letters or dropped by the stream, or else its price
\* is in the history and its url has a row: over every crash, every flush that
\* fails half-way and every second reading of the pending list.
AckedIsKept ==
    [][\A i \in Held \ Held' :
         \/ i \in noted \cup letters \cup 1..cut
         \/ i \in prices /\ raw[i].url \in DOMAIN rows]_pipeVars

\* As long as no flush has failed, a row whose url has nothing left to write is
\* that of the last message of the url that was written, however the pending
\* list was read again and put twice in one batch; unless a second reading of a
\* message was broken off (by the end of the process, a skip, the dead letters, the
\* stream that has dropped it).
LatestWins ==
    \A u \in DOMAIN rows :
        LET mine == {i \in 1..readUpTo : raw[i].url = u} IN
        (mishaps = 0 /\ ~torn /\ mine \cap (Held \cup Copies) = {})
            => \A i \in mine \cap prices : i <= rows[u]

WriterLeft == writer = "done" /\ batcher = "await" /\ buffered # <<>>
ReaderStuck == batcher = "done" /\ reader # "done" /\ Len(queue) = Prefetch

\* A shutdown hangs only in one of two ways: the writer has left while the batch
\* stage still had rows to come, or the batch stage has left and the reader
\* waits for a place in the queue that nobody empties any more.
ShutdownEnds == stop ~> (~stop \/ WriterLeft \/ ReaderStuck)
=============================================================================
