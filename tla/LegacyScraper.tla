---------------------------- MODULE LegacyScraper ----------------------------
(***************************************************************************)
(* scraper/main.py in its three modes, with the cycle of                   *)
(* scraping_orchestrator.py, the filter of dedup.py and the local file      *)
(* (WAL) that keeps what Redis did not take.                               *)
(*                                                                         *)
(* A job is one crawl of a cycle (a category, a search term or the         *)
(* trending pages, on one marketplace).  The legacy modes run them one     *)
(* after the other, the orchestrated mode runs Concurrency at a time; the  *)
(* two semaphores of that mode are one.  Subcategory discovery is left     *)
(* out: it needs crawler._last_html, which no crawler sets.                *)
(***************************************************************************)
EXTENDS FiniteSets, SequencesExt, Filtering

CONSTANTS
    Listings,       \* listing hashes: title, marketplace and price
    Crawled,        \* the listings each job finds, a sequence of sequences
    ChunkSize,      \* PUBLISH_CHUNK_SIZE
    Concurrency,    \* CATEGORY_CONCURRENCY and SEARCH_CONCURRENCY
    WalMax,         \* listings the WAL may hold before it refuses more
    DedupTtl,       \* cycles without a batch until the Redis set expires
    MaxScrapeCycles,      \* bound: cycles
    MaxScrapeFaults \* bound: failed calls, failed crawls and crashes

Jobs == DOMAIN Crawled

ASSUME LegacyAssumption ==
    /\ Crawled \in Seq(Seq(Listings)) /\ {ChunkSize, Concurrency, DedupTtl} \subseteq Nat \ {0}
    /\ {WalMax, MaxScrapeCycles, MaxScrapeFaults} \subseteq Nat

VARIABLES
    mode,       \* SCRAPER_MODE
    process,    \* "starting" (replays the WAL), "cycle", "between" or "stopped"
    job,        \* per job [at, batch, rest, failed]
    recent,     \* _local of the dedup filter
    seen,       \* the Redis set of hashes
    stream,     \* how many messages of each listing raw_listings_queue holds
    wal,        \* WAL files: [listings, sent], sent once the replay has its answer
    skipped,    \* files this replay has given up
    shutdown,   \* stop_event
    cyclesRun,
    quiet,      \* cycles since the last batch that reached the set
    scrapeFaults,
    lost        \* listings no call will publish: [listing, by]

scraperVars == <<mode, process, job, recent, seen, stream, wal, skipped, shutdown,
                 cyclesRun, quiet, scrapeFaults, lost>>

Queued == [at |-> "queued", batch |-> <<>>, rest |-> <<>>, failed |-> <<>>]

ScraperInit ==
    /\ mode \in {"orchestrated", "category", "search"}
    /\ process = "starting" /\ job = [j \in Jobs |-> Queued]
    /\ recent = {} /\ seen = {} /\ stream = [l \in Listings |-> 0]
    /\ wal = {} /\ skipped = {} /\ shutdown = FALSE
    /\ cyclesRun = 0 /\ quiet = 0 /\ scrapeFaults = 0 /\ lost = {}

-----------------------------------------------------------------------------
Fault == scrapeFaults < MaxScrapeFaults /\ scrapeFaults' = scrapeFaults + 1
Added(q, ls) == [l \in DOMAIN q |-> q[l] + Cardinality({i \in DOMAIN ls : ls[i] = l})]
Chunk(batch) == SubSeq(batch, 1, IF Len(batch) < ChunkSize THEN Len(batch) ELSE ChunkSize)
After(batch) == SubSeq(batch, Len(Chunk(batch)) + 1, Len(batch))

\* The pipeline is no transaction: when it raises, any of its XADDs may be done.
PartsOf(ls) == {Without(ls, S) : S \in SUBSET ToSet(ls)}

WalSize == FoldSet(LAMBDA f, n : n + Len(f.listings), 0, wal)

\* A WAL of one file, which the next batch overwrites.
GiveUpOverwriting(ls) ==
    /\ wal' = IF ls = <<>> \/ mode = "orchestrated" THEN wal ELSE {[listings |-> ls, sent |-> FALSE]}
    /\ lost' = IF mode = "orchestrated"
               THEN lost \cup {[listing |-> l, by |-> "no wal"] : l \in ToSet(ls)} ELSE lost

\* _save_to_wal, or the orchestrated mode's log line.
GiveUp(ls) ==
    IF ls = <<>> THEN UNCHANGED <<wal, lost>>
    ELSE IF mode = "orchestrated" THEN
        /\ lost' = lost \cup {[listing |-> l, by |-> "no wal"] : l \in ToSet(ls)}
        /\ UNCHANGED wal
    ELSE IF WalSize > WalMax THEN
        /\ lost' = lost \cup {[listing |-> l, by |-> "wal full"] : l \in ToSet(ls)}
        /\ UNCHANGED wal
    ELSE /\ wal' = wal \cup {[listings |-> ls, sent |-> FALSE]}
         /\ UNCHANGED lost

\* Repeated listings of one crawl are dropped by the local set too.
FirstSights(ls, known) ==
    LET places == Without([i \in DOMAIN ls |-> i],
            {i \in DOMAIN ls : ls[i] \in known \/ \E j \in 1..(i - 1) : ls[j] = ls[i]})
    IN  [n \in DOMAIN places |-> ls[places[n]]]

Running == {j \in Jobs : job[j].at \notin {"queued", "done"}}
MayStart(j) ==
    /\ process = "cycle" /\ job[j].at = "queued"
    /\ IF mode = "orchestrated" THEN Cardinality(Running) < Concurrency
       ELSE \A i \in Jobs : i < j => job[i].at = "done"

-----------------------------------------------------------------------------
\* A replay that removes its files whatever comes of them.
ReplayFileOnce ==
    /\ process = "starting"
    /\ \E f \in wal \ skipped :
         /\ wal' = wal \ {f}
         /\ \/ stream' = Added(stream, f.listings) /\ UNCHANGED scrapeFaults
            \/ Fault /\ \E done \in PartsOf(f.listings) : stream' = Added(stream, done)
    /\ UNCHANGED <<mode, process, job, recent, seen, skipped, shutdown, cyclesRun, quiet, lost>>

\* main() up to the loop: each file is sent, then removed; a file that fails
\* stays for the next start.
ReplayFile ==
    /\ process = "starting"
    /\ \E f \in wal \ skipped :
         /\ ~f.sent
         /\ \/ /\ stream' = Added(stream, f.listings)
               /\ wal' = (wal \ {f}) \cup {[f EXCEPT !.sent = TRUE]}
               /\ UNCHANGED <<skipped, scrapeFaults>>
            \/ /\ Fault
               /\ \E done \in PartsOf(f.listings) : stream' = Added(stream, done)
               /\ skipped' = skipped \cup {f} /\ UNCHANGED wal
    /\ UNCHANGED <<mode, process, job, recent, seen, shutdown, cyclesRun, quiet, lost>>

RemoveFile ==
    /\ process = "starting"
    /\ \E f \in wal : f.sent /\ wal' = wal \ {f}
    /\ UNCHANGED <<mode, process, job, recent, seen, stream, skipped, shutdown,
                   cyclesRun, quiet, scrapeFaults, lost>>

\* The first cycle, and every later one after SCRAPE_INTERVAL.
StartCycle ==
    /\ \/ process = "starting" /\ \A f \in wal : f \in skipped /\ ~f.sent
       \/ process = "between" /\ ~shutdown
    /\ cyclesRun < MaxScrapeCycles
    /\ process' = "cycle" /\ cyclesRun' = cyclesRun + 1
    /\ job' = [j \in Jobs |-> Queued] /\ recent' = {}
    /\ quiet' = quiet + 1 /\ seen' = IF quiet >= DedupTtl THEN {} ELSE seen
    /\ UNCHANGED <<mode, stream, wal, skipped, shutdown, scrapeFaults, lost>>

\* A crawl and the local half of filter_batch, which marks before any answer.
Crawl(j) ==
    /\ MayStart(j)
    /\ LET new == IF mode = "search" THEN Crawled[j] ELSE FirstSights(Crawled[j], recent)
       IN  /\ job' = [job EXCEPT ![j] = [Queued EXCEPT !.batch = new, !.at =
                        IF new = <<>> THEN "done"
                        ELSE IF mode = "search" THEN "publish" ELSE "ask"]]
           /\ recent' = IF mode = "search" THEN recent ELSE recent \cup ToSet(new)
    /\ UNCHANGED <<mode, process, seen, stream, wal, skipped, shutdown, cyclesRun, quiet,
                   scrapeFaults, lost>>

\* A crawl that raises is skipped; in search mode nothing catches it and main ends.
CrawlFails(j) ==
    /\ MayStart(j) /\ Fault
    /\ job' = [job EXCEPT ![j].at = "done"]
    /\ process' = IF mode = "search" THEN "stopped" ELSE process
    /\ UNCHANGED <<mode, recent, seen, stream, wal, skipped, shutdown, cyclesRun, quiet, lost>>

\* SISMEMBER and SADD of the whole batch, in one transaction, which also renews
\* the time to live of the set; without an answer the local set decides.
AskRedis(j) ==
    /\ job[j].at = "ask"
    /\ LET new == Without(job[j].batch, seen)
           Mark == seen' = seen \cup ToSet(job[j].batch) /\ quiet' = 0
       IN  \/ /\ Mark /\ UNCHANGED scrapeFaults
              /\ job' = [job EXCEPT ![j].batch = new,
                                    ![j].at = IF new = <<>> THEN "done" ELSE "publish"]
           \/ /\ Fault /\ (Mark \/ UNCHANGED <<seen, quiet>>)
              /\ job' = [job EXCEPT ![j].at = "publish"]
    /\ UNCHANGED <<mode, process, recent, stream, wal, skipped, shutdown, cyclesRun, lost>>

\* One chunk of publish_batch, or of _dedup_and_publish.
PublishChunk(j) ==
    /\ job[j].at = "publish"
    /\ LET batch == job[j].batch IN
         \/ /\ stream' = Added(stream, Chunk(batch)) /\ UNCHANGED scrapeFaults
            /\ job' = [job EXCEPT ![j].batch = After(batch),
                                  ![j].at = IF After(batch) = <<>> THEN "done" ELSE "publish"]
         \/ /\ Fault
            /\ \E done \in PartsOf(Chunk(batch)) : stream' = Added(stream, done)
            /\ job' = [job EXCEPT ![j].batch = After(batch), ![j].rest = Chunk(batch),
                                  ![j].at = "single"]
    /\ UNCHANGED <<mode, process, recent, seen, wal, skipped, shutdown, cyclesRun, quiet, lost>>

\* The fallback, one listing at a time; a call that fails may have been done.
PublishOne(j) ==
    /\ job[j].at = "single"
    /\ LET l == Head(job[j].rest)  left == Tail(job[j].rest) IN
         \E failed \in {job[j].failed, Append(job[j].failed, l)} :
           /\ IF failed = job[j].failed
              THEN stream' = Added(stream, <<l>>) /\ UNCHANGED scrapeFaults
              ELSE Fault /\ (stream' = Added(stream, <<l>>) \/ UNCHANGED stream)
           /\ IF left # <<>>
              THEN /\ job' = [job EXCEPT ![j].rest = left, ![j].failed = failed]
                   /\ UNCHANGED <<wal, lost>>
              ELSE /\ job' = [job EXCEPT ![j].rest = <<>>, ![j].failed = <<>>,
                        ![j].at = IF job[j].batch = <<>> THEN "done" ELSE "publish"]
                   /\ GiveUp(failed)
    /\ UNCHANGED <<mode, process, recent, seen, skipped, shutdown, cyclesRun, quiet>>

EndCycle ==
    /\ process = "cycle" /\ \A j \in Jobs : job[j].at = "done"
    /\ process' = "between"
    /\ UNCHANGED <<mode, job, recent, seen, stream, wal, skipped, shutdown, cyclesRun, quiet,
                   scrapeFaults, lost>>

\* The signal handler; the loop looks at it between two cycles only.
Signal ==
    /\ process \in {"cycle", "between"} /\ ~shutdown /\ shutdown' = TRUE
    /\ UNCHANGED <<mode, process, job, recent, seen, stream, wal, skipped, cyclesRun, quiet,
                   scrapeFaults, lost>>

LeaveLoop ==
    /\ process = "between" /\ shutdown /\ process' = "stopped"
    /\ UNCHANGED <<mode, job, recent, seen, stream, wal, skipped, shutdown, cyclesRun, quiet,
                   scrapeFaults, lost>>

\* What the jobs have taken and not yet handed to anyone.
InHand(j) == ToSet(job[j].batch) \cup ToSet(job[j].rest) \cup ToSet(job[j].failed)

Crash ==
    /\ process \in {"starting", "cycle", "between"} /\ Fault /\ process' = "stopped"
    /\ lost' = lost \cup {[listing |-> l, by |-> "crash"] : l \in UNION {InHand(j) : j \in Jobs}}
    /\ job' = [j \in Jobs |-> Queued]
    /\ UNCHANGED <<mode, recent, seen, stream, wal, skipped, shutdown, cyclesRun, quiet>>

\* The container is started again, with an empty memory.
Restart ==
    /\ process = "stopped" /\ process' = "starting"
    /\ job' = [j \in Jobs |-> Queued] /\ recent' = {} /\ skipped' = {} /\ shutdown' = FALSE
    /\ wal' = {[f EXCEPT !.sent = FALSE] : f \in wal}
    /\ UNCHANGED <<mode, seen, stream, cyclesRun, quiet, scrapeFaults, lost>>

ScraperNext ==
    \/ ReplayFile \/ RemoveFile \/ StartCycle \/ EndCycle \/ Signal \/ LeaveLoop
    \/ Crash \/ Restart
    \/ \E j \in Jobs : Crawl(j) \/ CrawlFails(j) \/ AskRedis(j) \/ PublishChunk(j) \/ PublishOne(j)

-----------------------------------------------------------------------------
OnStream == {l \in Listings : stream[l] > 0}
InWal == UNION {ToSet(f.listings) : f \in wal}
Unaccounted(S) == S \ (OnStream \cup InWal \cup {x.listing : x \in lost}
                         \cup UNION {InHand(j) : j \in Jobs})

\* The filter marks a listing long before it is published, and the mark stays
\* for a day: a listing Redis has marked is on the stream, in a WAL file or in
\* a job's hands, unless a crash took it from a job, the WAL was full or the
\* orchestrated mode, which has no WAL, failed to send it twice.
MarkedIsKept == Unaccounted(seen) = {}

\* Without a failure no listing is published twice in the modes that filter,
\* however the jobs of a cycle interleave between the local and the Redis set.
PublishedOnce ==
    mode # "search" /\ scrapeFaults = 0 => \A l \in Listings : stream[l] <= 1

\* A file leaves the WAL only with all its listings on the stream, and a replay
\* that dies between sending and removing sends them again rather than never.
WalLeavesSent ==
    [][\A f \in wal : (\A g \in wal' : g.listings # f.listings) =>
          ToSet(f.listings) \subseteq OnStream]_scraperVars
==============================================================================
