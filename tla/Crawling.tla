------------------------------- MODULE Crawling -------------------------------
(***************************************************************************)
(* How scraper/ reads a category: the pages of one site one after the      *)
(* other, through a StealthSession with a proxy of the shared pool ("http":*)
(* MercadoLibre AR/MX, Amazon), through the shared browser ("browser":     *)
(* MercadoLibre CL/CO, behind a bot challenge), or by API, HTTP and browser*)
(* in turn ("chain": AliExpress).  A section of trending offers is read    *)
(* through a session ("trending") or, of CL/CO, as one page of the browser *)
(* ("section"), and keeps no account of what it has seen.                  *)
(*                                                                         *)
(* A page is a sequence of items [pid, url, usable] and says whether a     *)
(* next one is linked; what parsing an item yields is its flag.  Sleeps    *)
(* are steps; only the cooldown of a proxy has a length.                   *)
(***************************************************************************)
EXTENDS FiniteSets, SequencesExt, FiniteSetsExt, Filtering

CONSTANTS
    Crawlers,
    Kinds,          \* the ways each crawler may work, a function to sets of kinds
    Site,           \* the pages a crawler finds: [items, next]
    MaxPages,       \* max_pages
    ProxyCount,     \* proxies of the pool; without any, requests go out directly
    MaxFails,       \* MAX_FAILS
    CooldownTime,   \* COOLDOWN_SECONDS
    MaxRetries,     \* max_retries
    PerSession,     \* REQUESTS_PER_SESSION
    MaxTrouble      \* bound: requests and calls of the browser that fail

NoKey == 0          \* a product without an id
Proxies == 1..ProxyCount

ASSUME CrawlingAssumption ==
    /\ {MaxPages, ProxyCount, MaxFails, MaxRetries, PerSession, CooldownTime} \subseteq Nat \ {0}
    /\ MaxTrouble \in Nat
    /\ Site \in Seq(Range(Site))
    /\ \A n \in DOMAIN Site :
         /\ Site[n].items \in Seq(Range(Site[n].items))
         /\ \A i \in DOMAIN Site[n].items : Site[n].items[i].url # NoKey

VARIABLES
    kind,       \* how each crawler works
    crawl,      \* per crawler [at, page, attempt, proxy, requests, ids, found]: ids are
                \* the keys seen, found those of what was taken, each with its listing
    proxies,    \* per proxy [fails, cooling]: cooling is the time left
    turn,       \* _index
    asleep,     \* the crawlers that sleep in get_proxy, holding the pool's lock
    contexts,   \* browser contexts each crawler has opened and not closed
    leaked,     \* history: calls of the browser that failed and left one
    trouble

browserVars == <<contexts, leaked>>
crawlVars == <<kind, crawl, proxies, turn, asleep, browserVars, trouble>>

\* requests is PerSession where the session has to be rotated first.
Resting == [at |-> "idle", page |-> 1, attempt |-> 0, proxy |-> 0,
            requests |-> PerSession, ids |-> {}, found |-> <<>>]

CrawlInit ==
    /\ kind \in {k \in [Crawlers -> UNION {Kinds[c] : c \in Crawlers}] :
                    \A c \in Crawlers : k[c] \in Kinds[c]}
    /\ crawl = [c \in Crawlers |-> Resting]
    /\ proxies = [p \in Proxies |-> [fails |-> 0, cooling |-> 0]]
    /\ turn = 1 /\ asleep = {} /\ trouble = 0
    /\ contexts = [c \in Crawlers |-> 0] /\ leaked = [c \in Crawlers |-> 0]

Trouble == trouble < MaxTrouble /\ trouble' = trouble + 1
Goes(c, at) == crawl' = [crawl EXCEPT ![c].at = at]
\* The session is closed with the crawl, which returns what it has found.
EndedWith(c, more) == crawl' = [crawl EXCEPT ![c] = [Resting EXCEPT !.found = crawl[c].found \o more]]
CrawlOver(c) == EndedWith(c, <<>>)
\* An exception nobody in the crawl catches takes what was found with it.
CrawlRaises(c) == crawl' = [crawl EXCEPT ![c] = Resting]

-----------------------------------------------------------------------------
\* crawl_category, or one section of scrape_all_trending.
StartCrawl(c) ==
    /\ crawl[c].at = "idle"
    /\ crawl' = [crawl EXCEPT ![c] = [Resting EXCEPT !.at =
           CASE kind[c] \in {"http", "trending"} -> "client"
             [] kind[c] \in {"browser", "section"} -> "open"
             [] OTHER -> "api"]]
    /\ UNCHANGED <<kind, proxies, turn, asleep, browserVars, trouble>>

\* get_proxy: the next one in turn that is not cooling.
InTurn == [i \in Proxies |-> ((turn + i - 2) % ProxyCount) + 1]
Ready == {i \in Proxies : proxies[InTurn[i]].cooling = 0}
Earliest == CHOOSE p \in Proxies : \A q \in Proxies :
                proxies[p].cooling <= proxies[q].cooling /\ (proxies[p].cooling = proxies[q].cooling => p <= q)

\* _get_client: a client that is worn out is replaced by one with another
\* proxy, and where all are cooling it sleeps until the first is not, lock in
\* hand.
TakeClient(c) ==
    /\ crawl[c].at = "client"
    /\ \/ /\ crawl[c].requests < PerSession
          /\ Goes(c, "get") /\ UNCHANGED <<turn, asleep>>
       \/ /\ crawl[c].requests >= PerSession /\ asleep = {} /\ Ready # {}
          /\ crawl' = [crawl EXCEPT ![c].at = "get", ![c].requests = 0,
                                    ![c].proxy = InTurn[Min(Ready)]]
          /\ turn' = (InTurn[Min(Ready)] % ProxyCount) + 1
          /\ UNCHANGED asleep
       \/ /\ crawl[c].requests >= PerSession /\ asleep = {} /\ Ready = {}
          /\ crawl' = [crawl EXCEPT ![c].at = "sleep", ![c].proxy = Earliest]
          /\ asleep' = {c} /\ UNCHANGED turn
    /\ UNCHANGED <<kind, proxies, browserVars, trouble>>

Wake(c) ==
    /\ crawl[c].at = "sleep" /\ proxies[crawl[c].proxy].cooling = 0
    /\ crawl' = [crawl EXCEPT ![c].at = "get", ![c].requests = 0]
    /\ asleep' = asleep \ {c}
    /\ UNCHANGED <<kind, proxies, turn, browserVars, trouble>>

\* One request of fetch: it is answered, it is blocked or cannot connect, and
\* then counts against the proxy and wears the session out, or it raises what
\* fetch does not catch and ends the crawl.
Request(c) ==
    /\ crawl[c].at = "get"
    /\ \/ /\ crawl' = [crawl EXCEPT ![c].at = "answered", ![c].requests = @ + 1]
          /\ UNCHANGED trouble
       \/ /\ Trouble
          /\ crawl' = [crawl EXCEPT ![c].at = "refused", ![c].requests = PerSession]
       \/ Trouble /\ CrawlOver(c)
    /\ UNCHANGED <<kind, proxies, turn, asleep, browserVars>>

WithFailure(p) ==
    IF p.fails + 1 >= MaxFails THEN [fails |-> 0, cooling |-> CooldownTime]
    ELSE [p EXCEPT !.fails = @ + 1]

\* report_failure, and the next attempt unless it was the last.
ReportFailure(c) ==
    /\ crawl[c].at = "refused" /\ asleep = {}
    /\ proxies' = [proxies EXCEPT ![crawl[c].proxy] = WithFailure(@)]
    /\ IF crawl[c].attempt + 1 < MaxRetries
       THEN crawl' = [crawl EXCEPT ![c].at = "client", ![c].attempt = @ + 1]
       ELSE CrawlOver(c)
    /\ UNCHANGED <<kind, turn, asleep, browserVars, trouble>>

\* report_success takes one failure back; a cooldown goes on.
ReportSuccess(c) ==
    /\ crawl[c].at = "answered" /\ asleep = {}
    /\ proxies' = [proxies EXCEPT ![crawl[c].proxy].fails = Max({0, @ - 1})]
    /\ crawl' = [crawl EXCEPT ![c].at = "parse", ![c].attempt = 0]
    /\ UNCHANGED <<kind, turn, asleep, browserVars, trouble>>

-----------------------------------------------------------------------------
Page(c) == IF crawl[c].page <= Len(Site) THEN Site[crawl[c].page] ELSE [items |-> <<>>, next |-> FALSE]

\* What a listing is known by: its url, or the product's id, which it may lack;
\* a trending section asks nobody.
KeyOf(item, by) == CASE by = "url" -> item.url [] by = "pid" -> item.pid [] OTHER -> NoKey
SeenBy(c) == IF kind[c] \in {"http", "browser"} THEN "url" ELSE "none"

\* The keys of the usable items of a page that were not seen in this crawl, each
\* where it comes first; what has no key is always taken.
NewKeys(items, ids, by) ==
    LET key(i) == KeyOf(items[i], by)
        Known(i) == /\ key(i) # NoKey
                    /\ \/ key(i) \in ids
                       \/ \E j \in 1..(i - 1) : items[j].usable /\ key(j) = key(i)
        places == Without([i \in DOMAIN items |-> i], {i \in DOMAIN items : ~items[i].usable \/ Known(i)})
    IN  [n \in DOMAIN places |-> key(places[n])]

Found(c, by) == NewKeys(Page(c).items, crawl[c].ids, by)
Taken(c, by, at) ==
    [crawl[c] EXCEPT !.ids = @ \cup (ToSet(Found(c, by)) \ {NoKey}), !.found = @ \o Found(c, by),
                     !.page = @ + 1, !.at = at]

\* A page with items counts even where all of them are known; it ends at a page
\* without items, without a next link, or at max_pages.
ParseLinked(c, again) ==
    IF Page(c).items = <<>> \/ ~Page(c).next \/ crawl[c].page >= MaxPages
    THEN EndedWith(c, Found(c, SeenBy(c)))
    ELSE crawl' = [crawl EXCEPT ![c] = Taken(c, SeenBy(c), again)]

ParsePage(c) ==
    /\ crawl[c].at = "parse" /\ ParseLinked(c, "client")
    /\ UNCHANGED <<kind, proxies, turn, asleep, browserVars, trouble>>

\* new_page of the shared browser: a context of its own for the page.  Where the
\* script or the page fails the context stays, and nobody knows of it.
OpenPage(c) ==
    /\ crawl[c].at = "open"
    /\ \/ /\ contexts' = [contexts EXCEPT ![c] = @ + 1]
          /\ Goes(c, "loaded") /\ UNCHANGED <<leaked, trouble>>
       \/ /\ Trouble /\ CrawlRaises(c)
          /\ \/ UNCHANGED browserVars
             \/ /\ contexts' = [contexts EXCEPT ![c] = @ + 1]
                /\ leaked' = [leaked EXCEPT ![c] = @ + 1]
    /\ UNCHANGED <<kind, proxies, turn, asleep>>

\* _crawl_with_playwright closes the page and leaves its context.  What fails
\* while the page is read ends the crawl; a close that fails raises.
LoadPage(c) ==
    /\ kind[c] = "browser" /\ crawl[c].at = "loaded"
    /\ \/ ParseLinked(c, "open") /\ UNCHANGED trouble
       \/ Trouble /\ (CrawlOver(c) \/ CrawlRaises(c))
    /\ UNCHANGED <<kind, proxies, turn, asleep, browserVars>>

\* _scrape_ml_trending_playwright reads one page and catches nothing.
LoadSection(c) ==
    /\ kind[c] = "section" /\ crawl[c].at = "loaded"
    /\ \/ EndedWith(c, Found(c, SeenBy(c))) /\ UNCHANGED trouble
       \/ Trouble /\ CrawlRaises(c)
    /\ UNCHANGED <<kind, proxies, turn, asleep, browserVars>>

\* AliExpress: a page that gives nothing new by one way is tried by the next,
\* and ends the crawl when all three gave nothing.  The keys of all ways go into
\* one set, although JSON has ids and HTML has urls.
TryChain(c, at, ways, instead) ==
    /\ crawl[c].at = at
    /\ \/ /\ \E by \in ways :
               /\ Found(c, by) # <<>>
               /\ IF crawl[c].page >= MaxPages THEN EndedWith(c, Found(c, by))
                  ELSE crawl' = [crawl EXCEPT ![c] = Taken(c, by, "api")]
          /\ UNCHANGED trouble
       \/ (\E by \in ways : Found(c, by) = <<>>) /\ UNCHANGED trouble /\ instead
       \/ Trouble /\ instead
    /\ UNCHANGED <<kind, proxies, turn, asleep, browserVars>>

\* A page carries its items as JSON, which comes first, as HTML, or as both.
TryApi(c) == TryChain(c, "api", {"pid"}, Goes(c, "html"))
TryHtml(c) == TryChain(c, "html", {"pid", "url"}, Goes(c, "open"))
TryBrowser(c) == TryChain(c, "read", {"pid", "url"}, CrawlOver(c))

\* _fetch_with_playwright closes the context whatever happened to the page, and
\* goes on where that fails.
CloseContext(c) ==
    /\ kind[c] = "chain" /\ crawl[c].at = "loaded" /\ Goes(c, "read")
    /\ \/ contexts' = [contexts EXCEPT ![c] = @ - 1] /\ UNCHANGED <<leaked, trouble>>
       \/ Trouble /\ UNCHANGED contexts /\ leaked' = [leaked EXCEPT ![c] = @ + 1]
    /\ UNCHANGED <<kind, proxies, turn, asleep>>

Cool ==
    /\ \E p \in Proxies : proxies[p].cooling > 0
    /\ proxies' = [p \in Proxies |-> [proxies[p] EXCEPT !.cooling = Max({0, @ - 1})]]
    /\ UNCHANGED <<kind, crawl, turn, asleep, browserVars, trouble>>

CrawlStep(c) ==
    \/ TakeClient(c) \/ Wake(c) \/ Request(c) \/ ReportFailure(c) \/ ReportSuccess(c)
    \/ ParsePage(c) \/ OpenPage(c) \/ LoadPage(c) \/ LoadSection(c)
    \/ TryApi(c) \/ TryHtml(c) \/ CloseContext(c) \/ TryBrowser(c)

\* Bound: a browser crawl is not started again once its contexts are many.
CrawlNext ==
    \/ Cool
    \/ \E c \in Crawlers : CrawlStep(c) \/ (contexts[c] < MaxPages /\ StartCrawl(c))

-----------------------------------------------------------------------------
\* A request never goes out through a proxy the pool has put to rest when the
\* session took it, also after the sleep, in which others want to report.
RestedWhenTaken ==
    [][\A c \in Crawlers :
          crawl'[c].at = "get" /\ crawl[c].at \in {"client", "sleep"} /\ crawl'[c].requests = 0
             => proxies'[crawl'[c].proxy].cooling = 0]_crawlVars

\* A crawl of a category never returns two listings under one key, whatever the
\* pages link to and whichever way each of them was read; off AliExpress every
\* listing has a key.  (An AliExpress product comes twice where one page was read
\* by its id and another by its url, and as often as it likes without an id; a
\* trending section keeps no keys.)
FoundOnce ==
    \A c \in Crawlers :
        /\ \A i, j \in DOMAIN crawl[c].found :
             i # j /\ crawl[c].found[i] = crawl[c].found[j] => crawl[c].found[i] = NoKey
        /\ kind[c] \in {"http", "browser"} => NoKey \notin ToSet(crawl[c].found)

\* The browser is shared until the process ends: AliExpress leaves a context
\* behind only where opening the page or closing the context failed, on any
\* path.  (The crawls and sections of CL and CO leave one per page.)
ChainClosesContexts ==
    \A c \in Crawlers : kind[c] = "chain" =>
        contexts[c] = leaked[c] + IF crawl[c].at = "loaded" THEN 1 ELSE 0
===============================================================================
