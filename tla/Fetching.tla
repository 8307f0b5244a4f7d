------------------------------- MODULE Fetching -------------------------------
(***************************************************************************)
(* What a request of scraper_v2 goes through once the circuit breaker and  *)
(* the bulkhead have let it in: the adaptive rate limiter, the proxy pool, *)
(* and the HTTP client or the browser pool, for the workers of one         *)
(* marketplace (each has a bucket of its own).                             *)
(*                                                                         *)
(* The locks of the limiter and of the proxy pool are never held across an *)
(* await that suspends, so that each call is a step; that of the browser   *)
(* pool is.  Tokens are counted in units of a fraction, rates in units per *)
(* tick.  Which of several proxies comes next depends on their latencies   *)
(* and is left open.                                                       *)
(***************************************************************************)
EXTENDS Integers, Sequences, FiniteSets, SequencesExt, FiniteSetsExt

CONSTANTS
    Fetchers,       \* workers with a request of this marketplace
    Unit,           \* units of a token
    Burst,          \* burst, in tokens
    MinRate, DefaultRate, MaxRate,  \* min_rps, default_rps, max_rps
    RecoverAfter,   \* the 20 requests before a rate goes up
    BlockWindow,    \* block_window
    PoolProxies, Preferred,         \* the proxies, and those of a preferred region
    MaxFailures, ProxyCooldown,     \* max_failures, cooldown_seconds
    MaxContexts,    \* bound: browser contexts created
    MaxLost,        \* bound: those that a failed call leaves behind
    MaxPagesPerContext, ContextTtl, \* max_pages_per_context, context_ttl
    MaxTime,        \* bound: ticks
    MaxFetches      \* bound: requests

ASSUME FetchingAssumption ==
    /\ {Unit, Burst, MinRate, MaxFailures, MaxPagesPerContext} \subseteq Nat \ {0}
    /\ {DefaultRate, MaxRate} \subseteq MinRate..MaxRate
    /\ {RecoverAfter, BlockWindow, ProxyCooldown, MaxContexts, MaxLost} \subseteq Nat
    /\ {ContextTtl, MaxTime, MaxFetches} \subseteq Nat
    /\ Preferred \subseteq PoolProxies /\ IsFiniteSet(Fetchers)

VARIABLES
    byBrowser,  \* requires_browser of the marketplace
    tick,
    bucket,     \* [rate, tokens, refilled, blocks, requests, since]
    fetch,      \* per fetcher [at, until, proxy, page, keep, stale]
    health,     \* per proxy [resting, failures, until]
    pages,      \* the browser pool's list of contexts
    context,    \* per context [used, born, open, lost]; lost is history: a call that
                \* was to close it, or to make it ready, has failed
    lock,       \* who holds the pool's lock, or {}
    browser,    \* [up, ready]: it runs; _initialized
    ending,     \* how far BrowserPool.close is
    asked,      \* history: requests so far
    freely,     \* history: when a request was let through without waiting
    failing     \* history: per proxy, [streak, last] of failures reported

limiter == <<bucket, freely, asked>>
proxyPool == <<health, failing>>
browserPool == <<pages, context, lock, browser>>
fetchingVars == <<byBrowser, tick, limiter, fetch, proxyPool, browserPool, ending>>

NoProxy == "none"
NoRequest == [at |-> "idle", until |-> 0, proxy |-> NoProxy, page |-> 0, keep |-> {}, stale |-> {}]
Contexts == 1..MaxContexts
Unused == [used |-> 0, born |-> 0, open |-> FALSE, lost |-> FALSE]

FetchingInit ==
    /\ byBrowser \in BOOLEAN /\ tick = 0
    /\ bucket = [rate |-> DefaultRate, tokens |-> Burst * Unit, refilled |-> 0,
                 blocks |-> 0, requests |-> 0, since |-> 0]
    /\ fetch = [f \in Fetchers |-> NoRequest]
    /\ health = [p \in PoolProxies |-> [resting |-> FALSE, failures |-> 0, until |-> 0]]
    /\ pages = {} /\ context = [c \in Contexts |-> Unused]
    /\ lock = {} /\ browser = [up |-> FALSE, ready |-> FALSE] /\ ending = "no"
    /\ asked = 0 /\ freely = <<>>
    /\ failing = [p \in PoolProxies |-> [streak |-> 0, last |-> 0]]

Ends(f) == fetch' = [fetch EXCEPT ![f] = NoRequest]

-----------------------------------------------------------------------------
\* AdaptiveRateLimiter.

\* A bucket that takes in more than it holds.
RefilledUncapped(b) == [b EXCEPT !.tokens = @ + (tick - b.refilled) * b.rate, !.refilled = tick]

Refilled(b) == [b EXCEPT !.tokens = Min({Burst * Unit, @ + (tick - b.refilled) * b.rate}), !.refilled = tick]

\* acquire: with a token at once, otherwise after the time it still takes, for
\* which what there is of one is given up.  What comes in while one waits is
\* not kept for it: those who come later find it.
AskLimiter(f) ==
    LET b == Refilled(bucket)
        wait == (Unit - b.tokens + b.rate - 1) \div b.rate IN
    /\ fetch[f].at = "idle" /\ asked < MaxFetches /\ asked' = asked + 1
    /\ \/ /\ b.tokens >= Unit
          /\ bucket' = [b EXCEPT !.tokens = @ - Unit, !.requests = @ + 1]
          /\ freely' = Append(freely, tick)
          /\ fetch' = [fetch EXCEPT ![f].at = "admitted", ![f].until = tick]
       \/ /\ b.tokens < Unit
          /\ bucket' = [b EXCEPT !.tokens = 0, !.requests = @ + 1]
          /\ fetch' = [fetch EXCEPT ![f].at = "admitted", ![f].until = tick + wait]
          /\ UNCHANGED freely
    /\ UNCHANGED <<byBrowser, tick, proxyPool, browserPool, ending>>

\* A new window that keeps the old blocks.
InWindowKeepingBlocks(b) ==
    IF tick - b.since > BlockWindow THEN [b EXCEPT !.requests = 0, !.since = tick] ELSE b

\* _reset_window_if_needed
InWindow(b) ==
    IF tick - b.since > BlockWindow THEN [b EXCEPT !.blocks = 0, !.requests = 0, !.since = tick] ELSE b

\* report_block: more than 30 % of the window's requests blocked halve the rate;
\* with no request in the window yet the share is 0.
ReportBlock ==
    LET b == [InWindow(bucket) EXCEPT !.blocks = @ + 1] IN
    bucket' = IF b.requests > 0 /\ 10 * b.blocks > 3 * b.requests
              THEN [b EXCEPT !.rate = Max({MinRate, @ \div 2})] ELSE b

\* report_success: fewer than 5 % let it grow by a tenth, rounded up.
ReportGood ==
    LET b == InWindow(bucket) IN
    bucket' = IF 20 * b.blocks < b.requests /\ b.requests > RecoverAfter
              THEN [b EXCEPT !.rate = Min({MaxRate, (11 * @ + 9) \div 10})] ELSE b

-----------------------------------------------------------------------------
\* ProxyPool.

Over(h) == h.resting /\ tick >= h.until
\* _is_available, which ends a rest that is over.
Rested == [p \in PoolProxies |-> IF Over(health[p]) THEN [health[p] EXCEPT !.resting = FALSE, !.failures = 0]
                                 ELSE health[p]]
Available == {p \in PoolProxies : ~Rested[p].resting}
\* Of a preferred region, or of any when none of those is available.
Offered == IF Available \cap Preferred # {} THEN Available \cap Preferred ELSE Available

\* The delay is over; the proxy is taken, or none when all of them rest.  That
\* ends the rests that are over, of those that are not taken too.
AcquireProxy(f) ==
    /\ fetch[f].at = "admitted" /\ tick >= fetch[f].until
    /\ health' = Rested
    /\ \E p \in IF Offered = {} THEN {NoProxy} ELSE Offered :
          /\ fetch' = [fetch EXCEPT ![f].at = IF byBrowser THEN "queued" ELSE "http", ![f].proxy = p]
          /\ failing' = [q \in PoolProxies |->
                IF tick - failing[q].last >= ProxyCooldown
                THEN [failing[q] EXCEPT !.streak = 0] ELSE failing[q]]
    /\ UNCHANGED <<byBrowser, tick, limiter, browserPool, ending>>

\* A failure that does not prolong a rest.
RecordProxyFailureOnce(h) ==
    [h EXCEPT !.failures = @ + 1,
              !.resting = @ \/ h.failures + 1 >= MaxFailures,
              !.until = IF ~h.resting /\ h.failures + 1 >= MaxFailures THEN tick + ProxyCooldown ELSE @]

\* record_failure; the count goes on over successes.
RecordProxyFailure(h) ==
    [h EXCEPT !.failures = @ + 1,
              !.resting = @ \/ h.failures + 1 >= MaxFailures,
              !.until = IF h.failures + 1 >= MaxFailures THEN tick + ProxyCooldown ELSE @]

\* record_success ends a rest, and leaves the count.
RecordProxySuccess(h) == [h EXCEPT !.resting = FALSE]

ReleaseProxy(p, good) ==
    IF p = NoProxy THEN UNCHANGED proxyPool
    ELSE /\ health' = [health EXCEPT ![p] = IF good THEN RecordProxySuccess(@) ELSE RecordProxyFailure(@)]
         /\ failing' = [failing EXCEPT ![p] =
                IF good THEN [@ EXCEPT !.streak = 0] ELSE [streak |-> failing[p].streak + 1, last |-> tick]]

-----------------------------------------------------------------------------
\* The fetch is answered.  A block may come with status 200 (a captcha), and
\* what is not 200 need not be a block; all but a block is a success.
Answered(f, ok, blocked) ==
    /\ ReleaseProxy(fetch[f].proxy, ok)
    /\ IF blocked THEN ReportBlock ELSE ReportGood
    /\ Ends(f) /\ UNCHANGED <<byBrowser, tick, asked, freely, ending>>

HttpAnswers(f) ==
    /\ fetch[f].at = "http"
    /\ \E ok, blocked \in BOOLEAN : Answered(f, ok, blocked)
    /\ UNCHANGED browserPool

\* An exception of the client: neither the pool nor the limiter hears of it.
HttpRaises(f) ==
    /\ fetch[f].at = "http" /\ Ends(f)
    /\ UNCHANGED <<byBrowser, tick, limiter, proxyPool, browserPool, ending>>

-----------------------------------------------------------------------------
\* BrowserPool.  _acquire_context holds the lock over the launch, the closing
\* of old contexts and the making of a new one.

LeavesLock(f) == lock' = lock \ {f}

\* Without the lock.
EnterPoolUnlocked(f) ==
    /\ fetch[f].at = "queued" /\ lock' = lock \cup {f}
    /\ fetch' = [fetch EXCEPT ![f].at = "launch"]
    /\ UNCHANGED <<byBrowser, tick, limiter, proxyPool, pages, context, browser, ending>>

EnterPool(f) ==
    /\ fetch[f].at = "queued" /\ lock = {} /\ lock' = {f}
    /\ fetch' = [fetch EXCEPT ![f].at = "launch"]
    /\ UNCHANGED <<byBrowser, tick, limiter, proxyPool, pages, context, browser, ending>>

\* _ensure_browser, which may also raise.
Launch(f) ==
    /\ fetch[f].at = "launch" /\ ~browser.ready
    /\ \/ /\ browser' = [up |-> TRUE, ready |-> TRUE]
          /\ UNCHANGED <<fetch, lock>>
       \/ Ends(f) /\ LeavesLock(f) /\ UNCHANGED browser
    /\ UNCHANGED <<byBrowser, tick, limiter, proxyPool, pages, context, ending>>

Stale(c) == tick - context[c].born > ContextTtl \/ context[c].used >= MaxPagesPerContext

\* With contexts in the pool the least used is taken, without any a new one is
\* made: the pool never grows beyond one.
ReuseOrCreate(f, pool) ==
    IF pool # {}
    THEN \E c \in pool :
            /\ \A d \in pool : context[c].used <= context[d].used
            /\ context' = [context EXCEPT ![c].used = @ + 1]
            /\ fetch' = [fetch EXCEPT ![f].at = "page", ![f].page = c, ![f].keep = {}]
            /\ LeavesLock(f)
    ELSE /\ fetch' = [fetch EXCEPT ![f].at = "create", ![f].keep = {}]
         /\ UNCHANGED <<context, lock>>

\* What is too old or worn out is to be closed before the list is replaced.
Inspect(f) ==
    /\ fetch[f].at = "launch" /\ browser.ready
    /\ IF \E c \in pages : Stale(c)
       THEN /\ fetch' = [fetch EXCEPT ![f].at = "clean", ![f].keep = {c \in pages : ~Stale(c)},
                                      ![f].stale = {c \in pages : Stale(c)}]
            /\ UNCHANGED <<pages, context, lock>>
       ELSE ReuseOrCreate(f, pages) /\ UNCHANGED pages
    /\ UNCHANGED <<byBrowser, tick, limiter, proxyPool, browser, ending>>

MayFail == Cardinality({c \in Contexts : context[c].lost}) < MaxLost

\* close() of a context, which may raise and is not tried again.
Closes(c) ==
    \/ context' = [context EXCEPT ![c].open = FALSE]
    \/ MayFail /\ context' = [context EXCEPT ![c].lost = TRUE]

\* Closing one, pages that others read in it or not; it is dropped either way.
CloseStale(f) ==
    /\ fetch[f].at = "clean"
    /\ \E c \in fetch[f].stale :
          /\ Closes(c)
          /\ fetch' = [fetch EXCEPT ![f].stale = @ \ {c}]
    /\ UNCHANGED <<byBrowser, tick, limiter, proxyPool, pages, lock, browser, ending>>

\* The list becomes what was kept; one that close() emptied under the loop is
\* replaced by what the loop had come to.
Cleaned(f) ==
    /\ fetch[f].at = "clean"
    /\ fetch[f].stale = {}
    /\ \E kept \in IF pages = {} THEN SUBSET fetch[f].keep ELSE {fetch[f].keep} :
          pages' = kept /\ ReuseOrCreate(f, kept)
    /\ UNCHANGED <<byBrowser, tick, limiter, proxyPool, browser, ending>>

NewContext(lost) == [used |-> 1, born |-> tick, open |-> TRUE, lost |-> lost]

\* new_context raises when the browser is gone; what add_init_script raises
\* leaves a context that is in no list.
CreateContext(f) ==
    /\ fetch[f].at = "create"
    /\ \/ /\ browser.up
          /\ \E c \in Contexts :
                /\ context[c].used = 0 /\ \A d \in Contexts : d < c => context[d].used > 0
                /\ \/ /\ context' = [context EXCEPT ![c] = NewContext(FALSE)]
                      /\ pages' = pages \cup {c}
                      /\ fetch' = [fetch EXCEPT ![f].at = "page", ![f].page = c]
                   \/ /\ MayFail /\ context' = [context EXCEPT ![c] = NewContext(TRUE)]
                      /\ Ends(f) /\ UNCHANGED pages
       \/ Ends(f) /\ UNCHANGED <<pages, context>>
    /\ LeavesLock(f)
    /\ UNCHANGED <<byBrowser, tick, limiter, proxyPool, browser, ending>>

\* The page is read and closed; the status is 200 whatever came, and the proxy,
\* which the browser does not use, is released as good.
PageRead(f) ==
    /\ fetch[f].at = "page" /\ context[fetch[f].page].open
    /\ \E blocked \in BOOLEAN : Answered(f, TRUE, blocked)
    /\ UNCHANGED browserPool

\* A timeout, or a context that was closed meanwhile.
PageRaises(f) ==
    /\ fetch[f].at = "page" /\ Ends(f)
    /\ UNCHANGED <<byBrowser, tick, limiter, proxyPool, browserPool, ending>>

\* close() does not take the lock.  What is in the list when the loop is
\* through is forgotten; the browser takes its contexts with it, unless its own
\* close fails, which is swallowed.
ClosePool ==
    \/ /\ ending = "no" /\ ending' = "contexts"
       /\ UNCHANGED <<pages, context, browser>>
    \/ /\ ending = "contexts" /\ \E c \in pages : context[c].open /\ Closes(c)
       /\ UNCHANGED <<pages, browser, ending>>
    \/ /\ ending = "contexts" /\ \A c \in pages : context[c].open => context[c].lost
       /\ pages' = {} /\ ending' = "browser"
       /\ \/ /\ context' = [c \in Contexts |-> [context[c] EXCEPT !.open = FALSE]]
             /\ browser' = [browser EXCEPT !.up = FALSE]
          \/ UNCHANGED <<context, browser>>
    \/ /\ ending = "browser" /\ ending' = "closed"
       /\ browser' = [browser EXCEPT !.ready = FALSE]
       /\ UNCHANGED <<pages, context>>

FetchTick == tick < MaxTime /\ tick' = tick + 1

FetchStep(f) ==
    \/ AskLimiter(f) \/ AcquireProxy(f) \/ HttpAnswers(f) \/ HttpRaises(f)
    \/ EnterPool(f) \/ Launch(f) \/ Inspect(f) \/ CloseStale(f) \/ Cleaned(f) \/ CreateContext(f)
    \/ PageRead(f) \/ PageRaises(f)

FetchingNext ==
    \/ \E f \in Fetchers : FetchStep(f)
    \/ ClosePool /\ byBrowser /\ UNCHANGED <<byBrowser, tick, limiter, fetch, proxyPool, lock>>
    \/ FetchTick /\ UNCHANGED <<byBrowser, limiter, fetch, proxyPool, browserPool, ending>>

-----------------------------------------------------------------------------
\* rate_limiter.py:1, "per-marketplace token bucket": over any stretch of time
\* the requests that did not wait are no more than a burst and what the highest
\* rate brings in, however the rate changed.  (Those who wait wake together;
\* there is no such bound on all of them.)
FreeArePaced ==
    \A i \in DOMAIN freely : \A j \in i..Len(freely) :
        (j - i + 1) * Unit <= Burst * Unit + MaxRate * (freely[j] - freely[i])

\* What the rate is adjusted by overstates the blocks by no more than the
\* requests that were on their way when a window began.
BlocksOfRequests == bucket.blocks <= bucket.requests + Cardinality(Fetchers)

\* A proxy that failed as often as is allowed, with no answer and no rest in
\* between, is not handed out until it has rested since the last failure,
\* also where its failures come in from several workers after it went to rest.
RestsAfterFailures ==
    \A p \in PoolProxies :
        failing[p].streak >= MaxFailures /\ tick - failing[p].last < ProxyCooldown
            => p \notin Available

\* While it is not being closed the pool forgets no context it has open but
\* those that a failed close() or a failed creation left behind, and serves no
\* more pages by one than it may.
PoolKeepsContexts ==
    /\ ending = "no" => \A c \in Contexts : context[c].open /\ ~context[c].lost => c \in pages
    /\ \A c \in Contexts : context[c].used <= MaxPagesPerContext
===============================================================================
