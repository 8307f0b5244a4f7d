------------------------------ MODULE MCScraping ------------------------------
(***************************************************************************)
(* What scrapes, each part on a small instance of its own: the service of  *)
(* scraper_v2 and what its requests go through, the process of             *)
(* scraper/main.py, the crawlers and their proxies, the two queues made    *)
(* for scaling them out, and the priorities.                               *)
(* A behaviour is one of the part that Init chooses; the others stand      *)
(* still.                                                                  *)
(***************************************************************************)
EXTENDS MCScrapingService, LegacyScraper, Crawling, Queues, Priorities, Fetching

VARIABLE part

others == <<scraperVars, crawlVars, stageVars, taskVars, prioVars, fetchingVars>>
scrapingVars == <<part, vars, others>>

ScrapingInit ==
    /\ part \in {"service", "legacy", "crawlers", "stage", "tasks", "priorities", "fetching"}
    /\ Init /\ ScraperInit /\ CrawlInit /\ StageInit /\ TaskInit /\ PrioInit
    /\ FetchingInit
    \* What Init leaves open counts only for the part it is about.
    /\ part # "legacy" => mode = "category"
    /\ part # "fetching" => ~byBrowser
    /\ part # "crawlers" => \A c \in Crawlers : kind[c] = "http"

\* The parts that are bounded by what may happen to them, not by an end.
MayRest == part # "service" /\ UNCHANGED scrapingVars

ScrapingNext ==
    \/ /\ UNCHANGED part
       /\ \/ part = "service" /\ Next /\ UNCHANGED others
          \/ /\ part = "legacy" /\ ScraperNext
             /\ UNCHANGED <<vars, crawlVars, stageVars, taskVars, prioVars, fetchingVars>>
          \/ /\ part = "crawlers" /\ CrawlNext
             /\ UNCHANGED <<vars, scraperVars, stageVars, taskVars, prioVars, fetchingVars>>
          \/ /\ part = "stage" /\ StageNext
             /\ UNCHANGED <<vars, scraperVars, crawlVars, taskVars, prioVars, fetchingVars>>
          \/ /\ part = "tasks" /\ TaskNext
             /\ UNCHANGED <<vars, scraperVars, crawlVars, stageVars, prioVars, fetchingVars>>
          \/ /\ part = "priorities" /\ PrioNext
             /\ UNCHANGED <<vars, scraperVars, crawlVars, stageVars, taskVars, fetchingVars>>
          \/ /\ part = "fetching" /\ FetchingNext
             /\ UNCHANGED <<vars, scraperVars, crawlVars, stageVars, taskVars, prioVars>>
    \/ MayRest

\* The fairness of ScrapingService's FairSpec.
ScrapingSpec ==
    /\ ScrapingInit /\ [][ScrapingNext]_scrapingVars
    /\ WF_vars(part = "service" /\ Cycle)
    /\ \A w \in Workers : WF_vars(part = "service" /\ (Work(w) \/ Publishing(w)))
    /\ \A a \in Actors \ Workers : WF_vars(part = "service" /\ Publishing(a))

-----------------------------------------------------------------------------
CONSTANTS l1, l2, h1, h2, m1, m2

\* Two jobs with a listing in common, which one of them finds twice.
TwoCrawls == <<<<l1>>, <<l2, l1, l2>>>>

KindsOf == [c \in {h1, h2} |-> IF c = h2 THEN {"http", "browser", "chain", "trending", "section"} ELSE {"http"}]
\* A listing that comes again, one without an id and one that cannot be parsed.
Item(pid, url, ok) == [pid |-> pid, url |-> url, usable |-> ok]
TwoPages ==
    <<[items |-> <<Item(1, 11, TRUE), Item(NoKey, 12, TRUE), Item(1, 11, TRUE)>>, next |-> TRUE],
      [items |-> <<Item(1, 11, TRUE), Item(3, 13, FALSE)>>, next |-> TRUE]>>

TwoMessages == <<m1, m2>>

TwoSites == <<"ml", "amazon">>
TrendingOf == [s \in {"ml", "amazon"} |-> 2]
OffersOf == [s \in {"ml", "amazon"} |-> IF s = "ml" THEN {"phones", "toys"} ELSE {"phones"}]
OneReport == {[found |-> 2, profitable |-> 1, roi |-> 300]}

-----------------------------------------------------------------------------
\* What the parts promise of each state, each of the part it is about.
ScrapersSound ==
    /\ MarkedIsKept /\ PublishedOnce
    /\ FoundOnce /\ ChainClosesContexts
    /\ NobodyStarves /\ PlanWithinBudget
    /\ FreeArePaced /\ BlocksOfRequests /\ RestsAfterFailures /\ PoolKeepsContexts

\* WalLeavesSent and RestedWhenTaken.
ScrapersGuarded == WalLeavesSent /\ RestedWhenTaken
===============================================================================
