------------------------------ MODULE Priorities ------------------------------
(***************************************************************************)
(* Who is scraped how deeply: CategoryPrioritizer of scraper/, which gives *)
(* each category a number of pages after its yield, and the cycle that     *)
(* RequestScheduler of scraper_v2/ cuts out of a budget of tasks, by the   *)
(* priorities of its own CategoryPriorityStrategy.                         *)
(*                                                                         *)
(* Scores are in thousandths.  Nothing in the repository reports           *)
(* opportunities to either (record_opportunities has no caller), so that   *)
(* Reports is empty in the system as it is.                                *)
(***************************************************************************)
EXTENDS FiniteSets, SequencesExt, FiniteSetsExt, Functions, Filtering

CONSTANTS
    Categories,
    Yields,         \* listings a scrape may publish
    Reports,        \* opportunities that may be reported: [found, profitable, roi]
    BasePages,      \* base_pages
    MinPages, MostPages,
    Sites,          \* the marketplaces of a v2 cycle, in order
    Offers,         \* which categories each of them has
    DefaultPages,   \* default_pages of scraper_v2
    Terms,          \* search terms
    Trending,       \* trending pages of each site
    Budget,         \* max_tasks_per_cycle
    MaxScrapes,     \* bound: cycles of one category
    MaxRounds       \* bound: recalculations

\* The marketplaces are the keys of a dictionary.  A base below or above the two
\* limits, which the environment may set, would be used as it is.
ASSUME PrioritiesAssumption ==
    /\ {MinPages, MostPages} \subseteq Nat \ {0} /\ BasePages \in MinPages..MostPages
    /\ {Budget, MaxScrapes, MaxRounds, DefaultPages} \subseteq Nat /\ Yields \subseteq Nat
    /\ Reports \subseteq [found : Nat, profitable : Nat, roi : Nat]
    /\ IsFiniteSet(Categories) /\ IsFiniteSet(Terms)
    /\ Sites \in Seq(Range(Sites)) /\ IsInjective(Sites)
    /\ DOMAIN Offers = Range(Sites) /\ Trending \in [Range(Sites) -> Nat]

VARIABLES
    stats,      \* per known category [listings, opps, good, roi, cycles, pages]
    disk,       \* what _save wrote
    rounds,     \* recalculations
    plan        \* what generate_cycle has enqueued, by kind, until the next step

prioVars == <<stats, disk, rounds, plan>>

NewStats == [listings |-> 0, opps |-> 0, good |-> 0, roi |-> 0, cycles |-> 0, pages |-> BasePages]
Of(c) == IF c \in DOMAIN stats THEN stats[c] ELSE NewStats
With(c, s) == [d \in DOMAIN stats \cup {c} |-> IF d = c THEN s ELSE stats[d]]

NoPlan == [category |-> <<>>, search |-> <<>>, trending |-> <<>>]
PrioInit == stats = <<>> /\ disk = <<>> /\ rounds = 0 /\ plan = NoPlan

-----------------------------------------------------------------------------
RecordScrape(c) ==
    /\ Of(c).cycles < MaxScrapes
    /\ \E n \in Yields :
         stats' = With(c, [Of(c) EXCEPT !.listings = @ + n, !.cycles = @ + 1])
    /\ plan' = NoPlan /\ UNCHANGED <<disk, rounds>>

RecordOpportunities(c) ==
    /\ \E r \in Reports :
         stats' = With(c, [Of(c) EXCEPT !.opps = @ + r.found, !.good = @ + r.profitable,
                       !.roi = IF r.roi = 0 THEN @ ELSE IF @ = 0 THEN r.roi
                               ELSE (@ * 7 + r.roi * 3) \div 10])
    /\ Of(c).opps < 4
    /\ plan' = NoPlan /\ UNCHANGED <<disk, rounds>>

\* opportunity_score, of what has decayed by a tenth, rounded down.
Decayed(s) == [s EXCEPT !.listings = (@ * 9) \div 10, !.opps = (@ * 9) \div 10, !.good = (@ * 9) \div 10]
Score(s) ==
    IF s.cycles = 0 THEN 0
    ELSE (s.opps * 400) \div s.cycles + (s.good * 600) \div s.cycles + s.roi * 10

\* A best score of zero counts as one: everybody is then below 0.2 of it.
PagesFor(score, best) ==
    IF score * 10 > 7 * best THEN Min({2 * BasePages, MostPages})
    ELSE IF score * 10 < 2 * best THEN Max({BasePages \div 2, MinPages})
    ELSE BasePages

Recalculate ==
    /\ stats # <<>> /\ rounds < MaxRounds /\ rounds' = rounds + 1
    /\ LET now == [c \in DOMAIN stats |-> Decayed(stats[c])]
           best == Max({Score(now[c]) : c \in DOMAIN now})
       IN  stats' = [c \in DOMAIN now |->
               [now[c] EXCEPT !.pages = PagesFor(Score(now[c]), IF best = 0 THEN 1000 ELSE best)]]
    /\ disk' = stats' /\ plan' = NoPlan

\* What was not saved by a recalculation is gone with the process.
Reload == stats' = disk /\ plan' = NoPlan /\ UNCHANGED <<disk, rounds>>

\* A stable sort, best first: the i-th of cats comes before the j-th.
Before(cats, i, j) ==
    \/ Score(Of(cats[i])) > Score(Of(cats[j]))
    \/ Score(Of(cats[i])) = Score(Of(cats[j])) /\ i < j
Ranked(cats) ==
    [k \in DOMAIN cats |-> cats[CHOOSE i \in DOMAIN cats :
        Cardinality({j \in DOMAIN cats : Before(cats, j, i)}) = k - 1]]

\* get_prioritized_categories: by score, those without one in the middle.
Order(cats) ==
    LET unknown == {c \in Range(cats) : Of(c).cycles = 0}
        unscored == Without(cats, Range(cats) \ unknown)
        ranked == Ranked(Without(cats, unknown))
        mid == Len(ranked) \div 2
    IN  SubSeq(ranked, 1, mid) \o unscored \o SubSeq(ranked, mid + 1, Len(ranked))

-----------------------------------------------------------------------------
\* generate_cycle: the pages of the categories, in order and site by site, as
\* far as 60 % of the budget reach; the search terms on every site, as far as
\* 25 % do; the trending pages of every site for what is left.
CategoryBudget == (Budget * 60) \div 100
SearchBudget == (Budget * 25) \div 100
UpTo(n, tasks) == SubSeq(tasks, 1, Min({n, Len(tasks)}))
Crossed(outer, inner) ==
    [i \in 1..(Len(outer) * Len(inner)) |->
        <<outer[((i - 1) \div Len(inner)) + 1], inner[((i - 1) % Len(inner)) + 1]>>]

\* v2 sorts by a priority that nobody in v2 ever recalculates, so that any order
\* of the set it starts from may come out, each with the default depth.
Prioritized(set) == {o \in [1..Cardinality(set) -> set] : IsInjective(o)}
GetPages == [p \in 1..DefaultPages |-> p]

CategoryTasks(order) ==
    LET pairs == Crossed(order, Sites)
        offered == Without(pairs, {x \in Range(pairs) : x[1] \notin Offers[x[2]]})
        tasks == Crossed(offered, GetPages)
    IN  UpTo(CategoryBudget,
             [i \in DOMAIN tasks |-> [category |-> tasks[i][1][1], site |-> tasks[i][1][2],
                                     page |-> tasks[i][2]]])
SearchTasks(terms) == UpTo(SearchBudget, Crossed(terms, Sites))
TrendingTasks ==
    LET most == Max(Range(Trending) \cup {0})
        pages == Crossed(Sites, [p \in 1..most |-> p])
    IN  UpTo(Budget - CategoryBudget - SearchBudget,
             Without(pages, {x \in Range(pages) : x[2] > Trending[x[1]]}))

\* They are shuffled, trending pages first, and enqueued.
GenerateCycle ==
    /\ \E order \in Prioritized(Categories), terms \in Prioritized(Terms) :
         plan' = [category |-> CategoryTasks(order), search |-> SearchTasks(terms),
                  trending |-> TrendingTasks]
    /\ UNCHANGED <<stats, disk, rounds>>

PrioNext ==
    \/ Recalculate \/ Reload \/ GenerateCycle
    \/ \E c \in Categories : RecordScrape(c) \/ RecordOpportunities(c)

-----------------------------------------------------------------------------
\* However the yields go, no category is dropped: each is in the order exactly
\* once, with at least MIN_PAGES and at most MAX_PAGES.
NobodyStarves ==
    LET order == Order(SetToSeq(Categories)) IN
      /\ IsInjective(order) /\ ToSet(order) = Categories
      /\ \A c \in DOMAIN stats : stats[c].pages \in MinPages..MostPages

\* A planned cycle stays in its budget, takes nothing twice, and cuts only at the
\* end: where a page is planned, so are the pages before it, and a term that is
\* searched on one site only is the last.
PlanWithinBudget ==
    /\ Len(plan.category) + Len(plan.search) + Len(plan.trending) <= Budget
    /\ \A kind \in DOMAIN plan : IsInjective(plan[kind])
    /\ \A i \in DOMAIN plan.category : plan.category[i].page > 1 =>
          i > 1 /\ plan.category[i - 1] = [plan.category[i] EXCEPT !.page = @ - 1]
    /\ \A i \in DOMAIN plan.search :
          i + Len(Sites) <= Len(plan.search) =>
             \A s \in Range(Sites) : <<plan.search[i][1], s>> \in Range(plan.search)
===============================================================================
