--------------------------- MODULE ScrapingService ---------------------------
(***************************************************************************)
(* The second scraper, src/scraper_v2: the orchestrator's cycle, the       *)
(* workers of ScrapingService, the circuit breaker and the bulkhead every  *)
(* request goes through, the deduplication of what was scraped and the     *)
(* buffer from which batches are published.                                *)
(*                                                                         *)
(* All of it is one event loop: a step is what runs between two awaits     *)
(* that can suspend.  Time is abstracted: an open circuit may or may not   *)
(* have waited for recovery_timeout, a fetch takes as long as it likes.    *)
(*                                                                         *)
(* Left out: the rate limiter, the delays and the proxy pool (Fetching),   *)
(* which only change how long a fetch takes and whether it fails; the      *)
(* metrics; the local cache's limit of 50000 keys, all of which are in     *)
(* Redis as well.                                                          *)
(***************************************************************************)
EXTENDS Filtering, FiniteSets, SequencesExt, Functions

CONSTANTS
    Workers,            \* worker_count of them
    Markets,
    TaskCount,          \* tasks generated per cycle
    MarketOf,           \* [Tasks -> Markets]
    PageOf,             \* [Tasks -> Seq(Keys)]: dedup_keys of the listings on it
    EmptyLimit,         \* the 3 of consecutive_empty > 3
    FailureThreshold,   \* of CircuitBreakerConfig, as the next two
    HalfOpenMaxCalls,
    SuccessThreshold,
    MaxPerMarket,       \* max_concurrent_per_marketplace
    MaxTotal,           \* max_concurrent_total
    PublishBatchSize,
    MaxCycles,          \* bound: cycles
    MaxFaults           \* bound: failed calls to Redis

\* In the order of the priority queue, (priority, created_at).
Tasks == 1..TaskCount

ASSUME SizesAssumption ==
    /\ IsFiniteSet(Workers) /\ Workers # {}
    /\ TaskCount \in Nat /\ EmptyLimit \in Nat
    /\ MarketOf \in [Tasks -> Markets]
    /\ FailureThreshold \in Nat \ {0} /\ PublishBatchSize \in Nat \ {0}
    /\ MaxCycles \in Nat /\ MaxFaults \in Nat

\* The configured sizes fit each other as the defaults do (10 workers, 20 and 4
\* slots, 2 and 3 calls): the last three are what keeps a half-open circuit
\* from waiting for an answer nobody will give.  By the last one the global
\* semaphore is never found empty (SlotsConserved), so that of the bulkhead's
\* refusals only the one by the marketplace's semaphore is left.
ASSUME DefaultsAssumption ==
    /\ HalfOpenMaxCalls \in Nat /\ SuccessThreshold \in Nat \ {0}
    /\ MaxPerMarket \in Nat /\ MaxTotal \in Nat
    /\ SuccessThreshold <= HalfOpenMaxCalls + 1
    /\ SuccessThreshold <= MaxPerMarket
    /\ Cardinality(Workers) <= MaxTotal

Keys == UNION {Range(PageOf[t]) : t \in Tasks}

\* A page, of some 50 listings on the sites, fits in a batch of 100.
ASSUME PagesAssumption ==
    /\ PageOf \in [Tasks -> Seq(Keys)]
    /\ \A t \in Tasks : Len(PageOf[t]) <= PublishBatchSize

\* Who may be publishing: a worker, the end of run_workers, shutdown.
CycleEnd == "cycle end"
Closing == "shutdown"
Actors == Workers \cup {CycleEnd, Closing}
ASSUME ActorsAssumption == CycleEnd \notin Workers /\ Closing \notin Workers

VARIABLES
    phase,      \* where run_forever is
    on,         \* its _running
    running,    \* _running of the service
    cycles,     \* _cycle_count
    queue,      \* tasks in the priority queue
    at,         \* Actors -> the await it is at
    task,       \* Workers -> the task it is executing, or 0
    empty,      \* Workers -> consecutive_empty
    circuit,    \* Markets -> [state, failures, successes, calls]
    total,      \* free slots of the global semaphore
    free,       \* Markets -> free slots of its semaphore
    local,      \* keys in the dedup's local cache
    remote,     \* keys in its Redis set
    held,       \* Actors -> the listings it has in hand
    buffer,     \* _publish_buffer
    sent,       \* Keys -> times in the stream
    accepted,   \* Keys -> times filter_new let it through
    faults      \* failed calls to Redis so far

control == <<phase, on, running, cycles>>
slots == <<total, free>>
dedup == <<local, remote>>
output == <<buffer, sent, accepted>>
vars == <<control, queue, at, task, empty, circuit, slots, dedup, held, output, faults>>

States == {"closed", "open", "half_open"}
Awaits == {"waiting", "market", "fetch", "check", "register", "publish", "done"}

Init ==
    /\ phase = "idle" /\ on = TRUE /\ running = FALSE /\ cycles = 0
    /\ queue = {} /\ at = [a \in Actors |-> "done"]
    /\ task = [w \in Workers |-> 0] /\ empty = [w \in Workers |-> 0]
    /\ circuit = [m \in Markets |-> [state |-> "closed", failures |-> 0, successes |-> 0, calls |-> 0]]
    /\ total = MaxTotal /\ free = [m \in Markets |-> MaxPerMarket]
    /\ local = {} /\ remote = {} /\ held = [a \in Actors |-> <<>>]
    /\ buffer = <<>> /\ sent = [k \in Keys |-> 0] /\ accepted = [k \in Keys |-> 0]
    /\ faults = 0

-----------------------------------------------------------------------------
\* The circuit breaker, on the record c of one marketplace.

\* A recovery that counts the first call before it is admitted.
RecoveringCounted(c) == [c EXCEPT !.state = "half_open", !.calls = 1, !.successes = 0]

Recovering(c) == [c EXCEPT !.state = "half_open", !.calls = 0, !.successes = 0]
Probing(c) == [c EXCEPT !.calls = @ + 1]
Exhausted(c) == c.calls >= HalfOpenMaxCalls

RecordSuccess(c) ==
    CASE c.state = "half_open" ->
            IF c.successes + 1 >= SuccessThreshold
            THEN [c EXCEPT !.state = "closed", !.failures = 0, !.successes = 0]
            ELSE [c EXCEPT !.successes = @ + 1]
      [] c.state = "closed" -> [c EXCEPT !.failures = IF @ = 0 THEN 0 ELSE @ - 1]
      [] c.state = "open" -> c

RecordFailure(c) ==
    [c EXCEPT !.failures = @ + 1,
              !.state = IF @ = "half_open" \/ c.failures + 1 >= FailureThreshold THEN "open" ELSE @]

-----------------------------------------------------------------------------
\* _worker_loop.

Market(w) == MarketOf[task[w]]

\* What w does when it is through with a task: the loop looks at _running and
\* waits for the next one.
LoopAt == IF running THEN "waiting" ELSE "done"
BackToLoop(w) ==
    /\ at' = [at EXCEPT ![w] = LoopAt] /\ task' = [task EXCEPT ![w] = 0]

\* w takes the first task off the queue.
Dequeue(w, t) ==
    /\ at[w] = "waiting" /\ t \in queue /\ \A u \in queue : t <= u
    /\ queue' = queue \ {t} /\ empty' = [empty EXCEPT ![w] = 0]

\* Two seconds have passed with nothing in the queue.
DequeueTimesOut(w) ==
    /\ at[w] = "waiting" /\ queue = {}
    /\ empty' = [empty EXCEPT ![w] = @ + 1]
    /\ at' = [at EXCEPT ![w] = IF empty[w] >= EmptyLimit THEN "done" ELSE LoopAt]
    /\ UNCHANGED <<control, queue, task, circuit, slots, dedup, held, output, faults>>

-----------------------------------------------------------------------------
\* _execute_task.  From the dequeue to the bulkhead nothing is awaited that
\* could suspend: the circuit breaker's lock is never held across an await.

\* allow_request says yes, and the first semaphore has a slot; the request that
\* finds the circuit ready to recover is not counted among the half-open calls.
Admit(w, t) ==
    LET m == MarketOf[t]
        c == circuit[m] IN
    /\ Dequeue(w, t)
    /\ \/ c.state = "closed" /\ UNCHANGED circuit
       \/ c.state = "open" /\ circuit' = [circuit EXCEPT ![m] = Recovering(c)]
       \/ c.state = "half_open" /\ ~Exhausted(c) /\ circuit' = [circuit EXCEPT ![m] = Probing(c)]
    /\ total > 0 /\ total' = total - 1
    /\ at' = [at EXCEPT ![w] = "market"] /\ task' = [task EXCEPT ![w] = t]
    /\ UNCHANGED <<control, free, dedup, held, output, faults>>

\* allow_request says no; the task is dropped.
Deny(w, t) ==
    LET c == circuit[MarketOf[t]] IN
    /\ Dequeue(w, t)
    /\ \/ c.state = "open"
       \/ c.state = "half_open" /\ Exhausted(c)
    /\ BackToLoop(w)
    /\ UNCHANGED <<control, circuit, slots, dedup, held, output, faults>>

AcquireMarket(w) ==
    /\ at[w] = "market" /\ free[Market(w)] > 0
    /\ free' = [free EXCEPT ![Market(w)] = @ - 1] /\ at' = [at EXCEPT ![w] = "fetch"]
    /\ UNCHANGED <<control, queue, task, empty, circuit, total, dedup, held, output, faults>>

\* A refusal that keeps the global slot.
RefusedKeepingSlot(w) ==
    /\ at[w] = "market" /\ free[Market(w)] = 0
    /\ queue' = queue \cup {task[w]} /\ BackToLoop(w)
    /\ UNCHANGED <<control, empty, circuit, slots, dedup, held, output, faults>>

\* Bulkhead full: the task goes back to the queue.  The circuit breaker, which
\* has admitted it, hears nothing of it.
Refused(w) ==
    /\ at[w] = "market" /\ free[Market(w)] = 0
    /\ total' = total + 1
    /\ queue' = queue \cup {task[w]} /\ BackToLoop(w)
    /\ UNCHANGED <<control, empty, circuit, free, dedup, held, output, faults>>

Release(w) ==
    /\ total' = total + 1
    /\ free' = [free EXCEPT ![Market(w)] = @ + 1]

\* A worker that ends at its first failed fetch.
FetchFailsLeaving(w) ==
    /\ at[w] = "fetch"
    /\ circuit' = [circuit EXCEPT ![Market(w)] = RecordFailure(@)]
    /\ Release(w) /\ at' = [at EXCEPT ![w] = "done"] /\ task' = [task EXCEPT ![w] = 0]
    /\ UNCHANGED <<control, queue, empty, dedup, held, output, faults>>

\* A block page, or an exception on the way: the task is dropped.
FetchFails(w) ==
    /\ at[w] = "fetch"
    /\ circuit' = [circuit EXCEPT ![Market(w)] = RecordFailure(@)]
    /\ Release(w) /\ BackToLoop(w)
    /\ UNCHANGED <<control, queue, empty, dedup, held, output, faults>>

\* A fetch whose slots are not released.
FetchedKeepingSlots(w) ==
    LET candidates == Without(PageOf[task[w]], local) IN
    /\ at[w] = "fetch"
    /\ circuit' = [circuit EXCEPT ![Market(w)] = RecordSuccess(@)]
    /\ held' = [held EXCEPT ![w] = candidates]
    /\ at' = [at EXCEPT ![w] = IF candidates = <<>> THEN LoopAt ELSE "check"]
    /\ task' = [task EXCEPT ![w] = 0]
    /\ UNCHANGED <<control, queue, empty, slots, dedup, output, faults>>

\* A page with listings goes on to filter_new, up to its call of Redis.
Fetched(w) ==
    LET candidates == Without(PageOf[task[w]], local) IN
    /\ at[w] = "fetch"
    /\ circuit' = [circuit EXCEPT ![Market(w)] = RecordSuccess(@)]
    /\ Release(w)
    /\ held' = [held EXCEPT ![w] = candidates]
    /\ at' = [at EXCEPT ![w] = IF candidates = <<>> THEN LoopAt ELSE "check"]
    /\ task' = [task EXCEPT ![w] = 0]
    /\ UNCHANGED <<control, queue, empty, dedup, output, faults>>

-----------------------------------------------------------------------------
\* filter_new and _handle_result.

RedisFails == faults < MaxFaults /\ faults' = faults + 1
RedisAnswers == UNCHANGED faults

\* The keys found new are put in the local cache, without another look whether
\* they have come there meanwhile.
Check(w) ==
    /\ at[w] = "check"
    /\ \/ RedisAnswers /\ held' = [held EXCEPT ![w] = Without(@, remote)]
       \/ RedisFails /\ UNCHANGED held
    /\ local' = local \cup Range(held'[w])
    /\ at' = [at EXCEPT ![w] = IF held'[w] = <<>> THEN LoopAt ELSE "register"]
    /\ UNCHANGED <<control, queue, task, empty, circuit, slots, remote, output>>

\* A flush that clears the buffer only after it was sent.
TakeBatchLate(a, b) ==
    /\ held' = [held EXCEPT ![a] = SubSeq(b, 1, IF Len(b) < PublishBatchSize THEN Len(b) ELSE PublishBatchSize)]
    /\ buffer' = b

\* _flush_buffer up to the call of Redis: actor a takes a batch off the front of
\* the buffer b, which may be empty.
TakeBatch(a, b) ==
    /\ held' = [held EXCEPT ![a] = SubSeq(b, 1, IF Len(b) < PublishBatchSize THEN Len(b) ELSE PublishBatchSize)]
    /\ buffer' = SubSeq(b, PublishBatchSize + 1, Len(b))

CountIn(s, k) == Cardinality({i \in DOMAIN s : s[i] = k})

Register(w) ==
    LET b == buffer \o held[w] IN
    /\ at[w] = "register"
    /\ \/ RedisAnswers /\ remote' = remote \cup Range(held[w])
       \/ RedisFails /\ UNCHANGED remote
    /\ accepted' = [k \in Keys |-> accepted[k] + CountIn(held[w], k)]
    /\ IF Len(b) >= PublishBatchSize
       THEN TakeBatch(w, b) /\ at' = [at EXCEPT ![w] = "publish"]
       ELSE /\ buffer' = b /\ held' = [held EXCEPT ![w] = <<>>]
            /\ at' = [at EXCEPT ![w] = LoopAt]
    /\ UNCHANGED <<control, queue, task, empty, circuit, slots, local, sent>>

-----------------------------------------------------------------------------
\* publish_batch.  A pipeline without a transaction: when the call fails, any
\* number of its XADDs may have been carried out.

AfterPublish(a) ==
    /\ at' = [at EXCEPT ![a] = IF a \in Workers THEN LoopAt ELSE "done"]
    /\ phase' = IF a = CycleEnd THEN "idle" ELSE phase
    /\ held' = [held EXCEPT ![a] = <<>>]
    /\ UNCHANGED <<on, running, cycles, queue, task, empty, circuit, slots, dedup, accepted>>

Sent(s) == [k \in Keys |-> sent[k] + CountIn(s, k)]

Published(a) ==
    /\ at[a] = "publish"
    /\ sent' = Sent(held[a])
    /\ AfterPublish(a) /\ UNCHANGED <<buffer, faults>>

\* The batch goes back to the front of the buffer.
PublishFails(a) ==
    /\ at[a] = "publish" /\ RedisFails
    /\ \E n \in 0..Len(held[a]) : sent' = Sent(SubSeq(held[a], 1, n))
    /\ buffer' = held[a] \o buffer
    /\ AfterPublish(a)

-----------------------------------------------------------------------------
\* run_forever, run_cycle, run_workers and shutdown.

\* dedup.reset, whose failure to reach Redis is swallowed.
BeginCycle ==
    /\ phase = "idle" /\ on /\ cycles < MaxCycles
    /\ phase' = "preparing" /\ cycles' = cycles + 1
    /\ local' = {}
    /\ \/ RedisAnswers /\ remote' = {}
       \/ RedisFails /\ UNCHANGED remote
    /\ UNCHANGED <<on, running, queue, at, task, empty, circuit, slots, held, output>>

\* generate_cycle, and run_workers up to the gather; a shutdown that came
\* before this is overruled by _running = True.
StartWorkers ==
    /\ phase = "preparing"
    /\ phase' = "scraping" /\ running' = TRUE /\ queue' = queue \cup Tasks
    /\ at' = [a \in Actors |-> IF a \in Workers THEN "waiting" ELSE at[a]]
    /\ empty' = [w \in Workers |-> 0]
    /\ UNCHANGED <<on, cycles, task, circuit, slots, dedup, held, output, faults>>

\* The gather is over; the buffer is flushed once.
WorkersDone ==
    /\ phase = "scraping" /\ \A w \in Workers : at[w] = "done"
    /\ running' = FALSE
    /\ IF buffer = <<>>
       THEN phase' = "idle" /\ UNCHANGED <<at, held, buffer>>
       ELSE /\ phase' = "flushing" /\ TakeBatch(CycleEnd, buffer)
            /\ at' = [at EXCEPT ![CycleEnd] = "publish"]
    /\ UNCHANGED <<on, cycles, queue, task, empty, circuit, slots, dedup, sent, accepted, faults>>

\* The signal handler's task runs up to its flush; the clients it closes
\* afterwards make fetches fail, which they may do anyway.
Shutdown ==
    /\ on /\ phase # "ended"
    /\ on' = FALSE /\ running' = FALSE
    /\ IF buffer = <<>>
       THEN UNCHANGED <<at, held, buffer>>
       ELSE /\ TakeBatch(Closing, buffer)
            /\ at' = [at EXCEPT ![Closing] = "publish"]
    /\ UNCHANGED <<phase, cycles, queue, task, empty, circuit, slots, dedup, sent, accepted, faults>>

\* run_forever returns, after its sleep, and the process with it.
Exit ==
    /\ phase = "idle" /\ ~on
    /\ phase' = "ended"
    /\ UNCHANGED <<on, running, cycles, queue, at, task, empty, circuit, slots, dedup, held, output, faults>>

Ended == phase = "ended" /\ UNCHANGED vars

-----------------------------------------------------------------------------
Publishing(a) == phase # "ended" /\ (Published(a) \/ PublishFails(a))

Work(w) ==
    \/ DequeueTimesOut(w)
    \/ \E t \in queue : Admit(w, t)
    \/ \E t \in queue : Deny(w, t)
    \/ AcquireMarket(w) \/ Refused(w)
    \/ FetchFails(w) \/ Fetched(w) \/ Check(w) \/ Register(w)

Cycle == BeginCycle \/ StartWorkers \/ WorkersDone \/ Exit

Next ==
    \/ \E w \in Workers : Work(w)
    \/ \E a \in Actors : Publishing(a)
    \/ Cycle \/ Shutdown \/ Ended

Spec == Init /\ [][Next]_vars

\* The event loop resumes what can be resumed, and every call of a web site or
\* of Redis has a timeout.
FairSpec ==
    /\ Spec /\ WF_vars(Cycle)
    /\ \A w \in Workers : WF_vars(Work(w) \/ Publishing(w))
    /\ \A a \in Actors \ Workers : WF_vars(Publishing(a))

-----------------------------------------------------------------------------
\* Admitted by the circuit breaker of m, and neither answered nor refused yet.
InFlight(m) == {w \in Workers : at[w] \in {"market", "fetch"} /\ Market(w) = m}
Fetching(m) == {w \in Workers : at[w] = "fetch" /\ Market(w) = m}
Engaged == {w \in Workers : at[w] \in {"market", "fetch"}}

Circuits == [state : States, failures : Nat, successes : Nat, calls : Nat]

ControlOK ==
    /\ phase \in {"idle", "preparing", "scraping", "flushing", "ended"}
    /\ on \in BOOLEAN /\ running \in BOOLEAN /\ cycles \in 0..MaxCycles
    /\ queue \subseteq Tasks /\ at \in [Actors -> Awaits]
    /\ task \in [Workers -> 0..TaskCount]
    /\ \A w \in Workers : at[w] \in {"market", "fetch"} => task[w] \in Tasks
    /\ empty \in [Workers -> 0..EmptyLimit + 1]
    /\ \A w \in Workers : at[w] # "done" => empty[w] <= EmptyLimit
    /\ circuit \in [Markets -> Circuits]
    /\ total \in 0..MaxTotal /\ free \in [Markets -> 0..MaxPerMarket]
    /\ faults \in 0..MaxFaults

ListingsOK ==
    /\ local \subseteq Keys /\ remote \subseteq Keys
    /\ held \in [Actors -> Seq(Keys)] /\ buffer \in Seq(Keys)
    /\ sent \in [Keys -> Nat] /\ accepted \in [Keys -> Nat]

TypeOK == ControlOK /\ ListingsOK

\* A half-open circuit always has a call left to admit or a request in flight
\* whose answer will close or open it: the request that made it half-open is
\* not counted, so that half_open_max_calls + 1 answers come, and a refusal by
\* the bulkhead, which the circuit breaker is not told of, means that other
\* requests hold the slots.
CircuitNotStuck ==
    \A m \in Markets : circuit[m].state = "half_open" =>
        circuit[m].calls < HalfOpenMaxCalls \/ InFlight(m) # {}

\* Every way out of _execute_task gives back the slots it took, also the way of
\* a worker refused by the second semaphore: the free ones and the ones in use
\* are max_concurrent_total, and max_concurrent_per_marketplace; a
\* worker without a slot always finds a global one.
SlotsConserved ==
    /\ \A w \in Workers \ Engaged : total > 0
    /\ total + Cardinality(Engaged) = MaxTotal
    /\ \A m \in Markets : free[m] + Cardinality(Fetching(m)) = MaxPerMarket

\* What filter_new has let through is in the buffer, in a batch being published
\* or in the stream as long as the process runs, however the flushes of several
\* workers, of the end of a cycle and of a shutdown overlap; without failures
\* it is there exactly once.
InBatch(k) == [a \in Actors |-> IF at[a] = "publish" THEN CountIn(held[a], k) ELSE 0]
Copies(k) == sent[k] + CountIn(buffer, k) + SumFunctionOnSet(InBatch(k), Actors)
ListingsKept ==
    phase # "ended" =>
        \A k \in Keys : LET n == Copies(k) IN accepted[k] <= n /\ (faults = 0 => accepted[k] = n)

\* run_workers leaves no task behind, although workers put tasks back in the
\* queue that others have found empty, unless it was shut down.
QueueDrained == phase \in {"flushing", "idle"} /\ on => queue = {}

\* Without failures the one flush at the end of run_workers is enough: all
\* that was accepted is in the stream when the cycle is over.
BufferDrained == phase = "idle" /\ faults = 0 => buffer = <<>>

\* A cycle leaves neither a task nor a listing behind.
CycleDrains == QueueDrained /\ BufferDrained

\* A cycle comes to an end, although refused tasks go round in circles.
CycleEnds == phase = "scraping" ~> phase = "idle"

\* ports.py:128 "Return only listings not seen before.": within a cycle, which
\* starts with an empty memory, a listing passes once.
OnlyNewListings == \A k \in Keys : accepted[k] <= cycles
=============================================================================
