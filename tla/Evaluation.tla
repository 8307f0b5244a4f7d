----------------------------- MODULE Evaluation -----------------------------
(***************************************************************************)
(* How a scan makes its mind up about one product: the exchange rates of   *)
(* src/api/currency.py, _analyze_product of src/api/opportunity.py with    *)
(* its filters and thresholds, and the anti-false-positive layer of        *)
(* src/api/arbitrage_validator.py.  OpportunityScan has the transactions   *)
(* and leaves the choice open; here the choice is made.                    *)
(*                                                                         *)
(* An analysis reads the listings, awaits the price histories, and decides *)
(* and validates in one go; then it awaits the row it writes.  In between  *)
(* listings are scraped again, rates and thresholds move and other         *)
(* analyses of the same product decide.  Times are those of the clock now; *)
(* titles are the features the patterns and keyword lists find in them.    *)
(***************************************************************************)
EXTENDS Scoring, TruthEngine

CONSTANTS
    Goods,          \* rows of product_listings of one product
    About,          \* listing -> what stays the same about it, see Compatible
    PricesOf,       \* listing -> prices it may have, in cents of its currency
    Analyses,       \* 1..n: analyses of the product, as they begin, of one scan or several
    ScrapedAt,      \* listing -> when it was scraped, 0 or before
    Rescraped,      \* listings that are scraped again
    FetchedRates,   \* tables of rates the sources may answer with, some incomplete
    RatesTTL,       \* _TTL_SECONDS
    Strictnesses,   \* HARDENED_MODE and SHADOW_MODE a process may be started with
    Ledgers,        \* outcomes of trades the truth engine may find, see TruthEngine
    Stale,          \* STALE_HOURS
    MaxAge,         \* max_price_age_seconds
    Window,         \* dedup_window_seconds
    MaxTime,        \* bound on the clock
    MaxEvents       \* bound: scrapes, rates and thresholds that change, restarts

ASSUME EvaluationAssumption ==
    /\ IsFiniteSet(Goods) /\ Rescraped \subseteq Goods /\ Analyses = 1..Cardinality(Analyses)
    /\ \A g \in Goods :
          /\ About[g].market \in Marketplaces /\ ScrapedAt[g] \in Int /\ ScrapedAt[g] <= 0
          /\ PricesOf[g] \subseteq Nat \ {0} /\ PricesOf[g] # {} /\ IsFiniteSet(PricesOf[g])
    /\ \A table \in FetchedRates :
          \E C \in SUBSET DOMAIN FALLBACK_RATES : "USD" \in C /\ table \in [C -> Int]
    /\ RatesTTL \in Nat /\ Strictnesses \subseteq [hardened : BOOLEAN, shadow : BOOLEAN]
    /\ Stale \in Nat /\ MaxAge \in Nat /\ Window \in Nat /\ MaxTime \in Nat /\ MaxEvents \in Nat

NoTime == -1
Idle == [step |-> "idle"]
Over == [step |-> "over"]

VARIABLES
    now,        \* the clock
    offer,      \* listing -> [price, at]: its price, and when it was scraped
    rates,      \* _rates; the fallback before the first fetch
    lastFetch,  \* _last_fetch
    unchecked,  \* history: currencies that an answer lacked in this life
    thresholds, \* the adaptive state of the truth engine
    strictness, \* HARDENED_MODE and SHADOW_MODE of the process
    seen,       \* _dedup._seen: key -> time
    job,        \* analysis -> what it holds
    posted,     \* every write of an opportunity, in order
    lives,      \* starts of the process
    events      \* scrapes, rates, adaptations and restarts so far

mind == <<rates, lastFetch, unchecked, thresholds, strictness, seen>>
evars == <<now, offer, mind, job, posted, lives, events>>

EInit ==
    /\ now = 0 /\ events = 0
    /\ offer = [g \in Goods |-> [price |-> Max(PricesOf[g]), at |-> ScrapedAt[g]]]
    /\ rates = FALLBACK_RATES /\ lastFetch = NoTime /\ unchecked = {}
    /\ thresholds = AdaptiveFilterState
    /\ strictness \in Strictnesses
    /\ seen = [k \in {} |-> 0]
    /\ job = [a \in Analyses |-> Idle]
    /\ posted = <<>> /\ lives = 0

-----------------------------------------------------------------------------
\* Exchange rates.
MaxDeviation == 5000

\* A fetched rate too far from the one in use is replaced by that one.
validate_rate(fetched, reference) ==
    IF Whole * Larger(fetched - reference, reference - fetched) > MaxDeviation * reference
    THEN reference ELSE fetched

\* _validate_rates: only a currency that both tables have is compared.
Validated(table) ==
    [c \in DOMAIN table |->
        IF c = "USD" THEN 100
        ELSE IF c \in DOMAIN rates /\ rates[c] > 0 THEN validate_rate(table[c], rates[c])
        ELSE table[c]]

Expired == lastFetch = NoTime \/ now - lastFetch >= RatesTTL

\* get_rates: the answer, validated, becomes the whole table.
GetRates(table) ==
    /\ events < MaxEvents /\ events' = events + 1
    /\ Expired
    /\ rates' = Validated(table) /\ lastFetch' = now
    /\ unchecked' = unchecked \cup (DOMAIN FALLBACK_RATES \ DOMAIN table)
    /\ UNCHANGED <<now, offer, thresholds, strictness, seen, job, posted, lives>>

\* All sources failed: the fallback if there is nothing else, for as long as a
\* fetched table; one that has expired stays in use and is asked for again.
GetNoRates ==
    /\ lastFetch = NoTime /\ lastFetch' = now
    /\ UNCHANGED <<now, offer, rates, unchecked, thresholds, strictness, seen, job, posted,
                   lives, events>>

-----------------------------------------------------------------------------
\* Filters.
MinSellerRating == 25
is_trustworthy(g) == About[g].rating = NoRating \/ About[g].rating >= MinSellerRating

\* Exclusive quartiles of n >= 2 sorted prices, in quarters of a cent.
Quartile(sorted, k) ==
    LET n == Len(sorted)
        at == k * (n + 1)
        j == Clamp(at \div 4, 1, n - 1) IN
        sorted[j] * (4 - (at - 4 * j)) + sorted[j + 1] * (at - 4 * j)

is_outlier_price(price, sorted) ==
    /\ Len(sorted) >= 4
    /\ LET q1 == Quartile(sorted, 1) q3 == Quartile(sorted, 3) IN
         8 * price < 2 * q1 - 3 * (q3 - q1) \/ 8 * price > 2 * q3 + 3 * (q3 - q1)

\* An accessory is named before the product it is for, if that is named.
is_accessory(title) ==
    title.accessory # 0 /\ (title.product = 0 \/ title.accessory < title.product)

Differ(x, y) == x # {} /\ y # {} /\ x \cap y = {}

variants_compatible(b, s) ==
    /\ b.condition = s.condition /\ b.refurbished = s.refurbished
    /\ is_accessory(b) = is_accessory(s)
    /\ ~Differ(b.models, s.models) /\ ~Differ(b.capacity, s.capacity)
    /\ b.edition = s.edition /\ b.bundle = s.bundle

\* A model in one title only speaks against the pair; none, and words decide.
titles_match(b, s) ==
    /\ b.model = s.model
    /\ b.model = "none" /\ b.words # {} /\ s.words # {} =>
         4 * Cardinality(b.words \cap s.words) >= Cardinality(b.words \cup s.words)

Compatible(b, s) == variants_compatible(About[b], About[s]) /\ titles_match(About[b], About[s])

-----------------------------------------------------------------------------
(***************************************************************************)
(* The market an analysis has read: the price in dollars of each fresh     *)
(* listing, when it was scraped, the rates of the scan, and the listings   *)
(* that are trusted and no outliers.                                       *)
(***************************************************************************)
\* x is the i-th of the values of f.
Ranks(f, i, x) ==
    /\ Cardinality({g \in DOMAIN f : f[g] < x}) < i
    /\ i <= Cardinality({g \in DOMAIN f : f[g] <= x})

\* The values of a function, in order.
Sorted(f) ==
    [i \in 1..Cardinality(DOMAIN f) |->
        CHOOSE x \in {f[g] : g \in DOMAIN f} : Ranks(f, i, x)]

Market(offers, scanRates) ==
    LET usd == [g \in DOMAIN offers |->
                  to_usd(offers[g].price, MARKETPLACE_FEES[About[g].market].currency, scanRates)]
        known == {g \in DOMAIN offers : is_trustworthy(g)}
        sorted == Sorted([g \in known |-> usd[g]]) IN
        [usd |-> usd, at |-> [g \in DOMAIN offers |-> offers[g].at], rates |-> scanRates,
         trusted |-> {g \in known : ~is_outlier_price(usd[g], sorted)}]

PricesIn(v, G) == Sorted([g \in G |-> v.usd[g]])
Total(G, f) == MapThenSumSet(LAMBDA g : About[g][f], G)

In(v, market) == {g \in v.trusted : About[g].market = market}
Cheapest(v, market) == CHOOSE g \in In(v, market) : \A h \in In(v, market) : v.usd[g] <= v.usd[h]
Dearest(v, G) == CHOOSE g \in G : \A h \in G : v.usd[g] >= v.usd[h]

Median(sorted) ==
    LET n == Len(sorted) IN (sorted[(n + 1) \div 2] + sorted[n \div 2 + 1]) \div 2

\* Median of the compatible competitors, undercut by 3 %.
analyze_competition(v, rivals) ==
    LET sorted == PricesIn(v, rivals) IN
        [count |-> Len(sorted), lowest |-> Head(sorted),
         realistic |-> Round(Median(sorted) * 9700)]

\* Sales a day in hundredths, from sales and reviews over the days listed.
Estimates(G) ==
    {<<g, "sales", (100 * About[g].sales) \div About[g].days>> : g \in {h \in G : About[h].sales > 0}}
    \cup {<<g, "reviews", (3333 * About[g].reviews) \div About[g].days>> :
            g \in {h \in G : About[h].reviews > 0}}

compute_depth(G) ==
    LET found == Sorted([e \in Estimates(G) |-> e[3]])
        n == Cardinality(G)
        factor == IF n >= 10 THEN 15 ELSE IF n >= 5 THEN 12 ELSE 10
        daily == IF found = <<>> THEN Larger(10, (100 * n) \div 3)
                 ELSE (Median(found) * factor) \div 10 IN
        [daily |-> daily, score |-> Points(20 + (25 * Log2(Smaller(daily + 100, 12800))) \div 100)]

MaxRatio == 8
MaxRoi == 15000
MinMargin == 100
MinRoi == 100
BaseMinProfit == 500

HardFilters(v, calc, rivals) ==
    /\ calc.margin >= MinMargin
    /\ strictness.hardened =>
         calculate_conservative_profit(calc, analyze_competition(v, rivals).lowest).viable
    /\ calc.sell <= MaxRatio * calc.buy /\ calc.roi <= MaxRoi

Spread(v, G) ==
    LET sorted == PricesIn(v, G)
        mean == Larger(1, MapThenSumSet(LAMBDA g : v.usd[g], G) \div Cardinality(G)) IN
        IF Len(sorted) > 1 THEN ((sorted[Len(sorted)] - sorted[1]) * Whole) \div mean ELSE 0

SoftPenalty(calc, b, s, rivals) ==
    (IF calc.margin < 500 THEN 15 ELSE IF calc.margin < 800 THEN 10 ELSE 0)
    + (IF Shaky(About[b].rating) \/ Shaky(About[s].rating) THEN 5 ELSE 0)
    + (IF Cardinality(rivals) > 20 THEN 10 ELSE 0)

scoring_input(v, calc, b, s, rivals) ==
    LET market == In(v, About[s].market)
        depth == compute_depth(market) IN
        [margin |-> calc.margin, roi |-> calc.roi, competitors |-> Cardinality(rivals),
         listings |-> Cardinality(DOMAIN v.usd),
         buyRating |-> About[b].rating, sellRating |-> About[s].rating,
         buyReviews |-> About[b].reviews, sellReviews |-> About[s].reviews,
         sales |-> Total(market, "sales"), reviews |-> Total(market, "reviews"),
         daily |-> depth.daily, depth |-> depth.score,
         stability |-> About[s].stability, days |-> About[s].days,
         crossBorder |-> is_cross_border(About[b].market, About[s].market),
         spread |-> Spread(v, market),
         difficulty |-> get_route_difficulty(About[b].market, About[s].market),
         penalty |-> SoftPenalty(calc, b, s, rivals),
         doubt |-> IF calc.sell > 6 * calc.buy THEN 15 ELSE 0]

-----------------------------------------------------------------------------
(***************************************************************************)
(* The checks of validate_arbitrage on the market of opportunity o, all of *)
(* them made.     Prices are those of the whole sell marketplace, whether  *)
(* they are compatible or not.                                             *)
(***************************************************************************)
SellPrices(v, o) == PricesIn(v, In(v, About[o.sell].market))

\* Standard deviation at most a quarter of the mean, in dollars.
check_spread_stability(v, o) ==
    LET prices == SellPrices(v, o)
        n == Len(prices)
        mean == FoldSeq(LAMBDA p, sum : sum + p, 0, prices) \div n
        squares == FoldSeq(LAMBDA p, sum : sum + ((p - mean) \div 100) * ((p - mean) \div 100), 0, prices) IN
        n < 2 \/ mean <= 0 \/ 16 * squares <= (n - 1) * (mean \div 100) * (mean \div 100)

check_depth(v, o) ==
    LET near == {i \in DOMAIN SellPrices(v, o) : 100 * SellPrices(v, o)[i] <= 105 * o.calc.sell} IN
        Cardinality(near) >= 2 /\ Total(In(v, About[o.sell].market), "sales") >= 3

\* The lowest price, or of eight and more the last of the lowest quarter; the
\* purchase 2 % and the fees 5 % dearer.
check_worst_case_profit(v, o) ==
    LET prices == SellPrices(v, o)
        p25 == prices[Larger(1, Len(prices) \div 4)] IN
        p25 * Whole > o.calc.buy * 10200 + o.calc.fees * 10500

\* Three minutes later, at half a percent an hour.
check_execution_simulation(v, o) ==
    calculate_profit(o.calc.buy, Round(((o.calc.sell * 39990) \div 40000) * Whole),
                     About[o.buy].market, About[o.sell].market, About[o.sell].freeShipping,
                     v.rates).net > 0

AllChecks ==
    {"spread_stability", "depth", "worst_case_profit", "execution_simulation",
     "price_freshness", "duplicate"}

\* Those of the market it passes.
MarketChecks(v, o) ==
    {c \in {"spread_stability", "depth", "worst_case_profit", "execution_simulation"} :
        CASE c = "spread_stability"     -> check_spread_stability(v, o)
          [] c = "depth"                -> check_depth(v, o)
          [] c = "worst_case_profit"    -> check_worst_case_profit(v, o)
          [] c = "execution_simulation" -> check_execution_simulation(v, o)}

-----------------------------------------------------------------------------
(***************************************************************************)
(* What one route offers: nothing, or one opportunity with its scores and  *)
(* what the checks of its market say.  All but the thresholds, the clock   *)
(* and the duplicates depends on the data the analysis has read.           *)
(***************************************************************************)
Evaluate(v, route) ==
    LET b == Cheapest(v, route[1])
        rivals == {s \in In(v, route[2]) : Compatible(b, s)}
        s == Dearest(v, rivals)
        calc == calculate_profit(v.usd[b], analyze_competition(v, rivals).realistic,
                                 route[1], route[2], About[s].freeShipping, v.rates)
        o == [buy |-> b, sell |-> s, calc |-> calc] IN
        IF /\ Head(PricesIn(v, In(v, route[2]))) > v.usd[b]
           /\ rivals # {}
           /\ calc.sell > calc.buy /\ HardFilters(v, calc, rivals)
        THEN {[buy |-> b, sell |-> s, calc |-> calc, rivals |-> rivals,
               score |-> score(scoring_input(v, calc, b, s, rivals)),
               depth |-> compute_depth(In(v, route[2])).score,
               oldest |-> Smaller(v.at[b], v.at[s]),
               lowest |-> Min({v.usd[r] : r \in rivals}),
               few |-> Len(SellPrices(v, o)) < 8,
               passed |-> MarketChecks(v, o)]}
        ELSE {}

Qualified(v) ==
    LET markets == {About[g].market : g \in v.trusted} IN
        IF Cardinality(v.trusted) < 2 THEN {}
        ELSE UNION {Evaluate(v, route) : route \in VALID_ROUTE_PAIRS \cap (markets \X markets)}

\* Never below the thresholds of the environment.
get_adaptive_thresholds ==
    [profit |-> Larger(BaseMinProfit, thresholds.profit), roi |-> Larger(MinRoi, thresholds.roi)]

\* The highest score among those above the thresholds.
Best(offered) ==
    LET floor == get_adaptive_thresholds
        found == {o \in offered : o.calc.net >= floor.profit /\ o.calc.roi >= floor.roi} IN
        {o \in found : \A p \in found : p.score.opportunity <= o.score.opportunity}

\* The listings of the best are not too old by now.
check_price_freshness(o) == now - o.oldest <= MaxAge

Key(o) == <<o.buy, About[o.sell].market>>
Evicted == [k \in {k \in DOMAIN seen : seen[k] >= now - Window} |-> seen[k]]
check_duplicate(o) == Key(o) \notin DOMAIN Evicted

\* is_duplicate marks what it has not seen, whatever the other checks say.
Marked(o) ==
    [k \in DOMAIN Evicted \cup {Key(o)} |-> IF k \in DOMAIN Evicted THEN Evicted[k] ELSE now]

\* "score or 50": zero, the worst, counts as the middle.
OrMiddle(x) == IF x = 0 THEN 500 ELSE x

Checks(o) ==
    o.passed \cup (IF check_price_freshness(o) THEN {"price_freshness"} ELSE {})
             \cup (IF check_duplicate(o) THEN {"duplicate"} ELSE {})

compute_execution_confidence(o) ==
    25 * OrMiddle(o.score.confidence) + 20 * OrMiddle(10 * o.depth)
    + 15 * OrMiddle(10 * About[o.sell].stability) + 15 * (1000 - OrMiddle(o.score.risk))
    + 10 * o.score.opportunity + 2500 * Cardinality(Checks(o))

validate_arbitrage(o) ==
    \/ strictness.shadow
    \/ Checks(o) = AllChecks /\ compute_execution_confidence(o) >= 30000

-----------------------------------------------------------------------------
\* A scan has its rates before its analyses begin.
Begin(a) ==
    /\ lastFetch # NoTime
    /\ job[a] = Idle /\ \A b \in 1..a - 1 : job[b] # Idle
    /\ job' = [job EXCEPT ![a] = [step |-> "begun", rates |-> rates]]
    /\ UNCHANGED <<now, offer, mind, posted, lives, events>>

\* The SELECT of fresh listings; price histories and ages are awaited next.
Read(a) ==
    /\ job[a].step = "begun"
    /\ job' = [job EXCEPT ![a] =
         [step |-> "read", found |->
            Qualified(Market([g \in {g \in Goods : now - offer[g].at < Stale} |-> offer[g]], job[a].rates))]]
    /\ UNCHANGED <<now, offer, mind, posted, lives, events>>

\* From the last read to the upsert nothing is awaited.
Decide(a) ==
    /\ job[a].step = "read"
    /\ LET found == Best(job[a].found) IN
         \/ found = {} /\ job' = [job EXCEPT ![a] = Over] /\ UNCHANGED seen
         \/ \E o \in found :
              /\ seen' = Marked(o)
              /\ job' = [job EXCEPT ![a] =
                   IF validate_arbitrage(o)
                   THEN [step |-> "write", opp |->
                           [life |-> lives, key |-> Key(o),
                            route |-> <<About[o.buy].market, About[o.sell].market>>,
                            net |-> o.calc.net, roi |-> o.calc.roi, floor |-> thresholds,
                            decided |-> now, oldest |-> o.oldest, shadow |-> strictness.shadow,
                            few |-> o.few, atLowest |-> o.lowest - o.calc.buy - o.calc.fees,
                            mates |-> \A r \in o.rivals \cup {o.sell} : Compatible(o.buy, r)]]
                   ELSE Over]
    /\ UNCHANGED <<now, offer, rates, lastFetch, unchecked, thresholds, strictness, posted,
                   lives, events>>

\* The row is inserted or refreshed, or an exception ends the analysis.
WriteOpportunity(a) ==
    /\ job[a].step = "write"
    /\ \/ posted' = Append(posted, job[a].opp)
       \/ UNCHANGED posted
    /\ job' = [job EXCEPT ![a] = Over]
    /\ UNCHANGED <<now, offer, mind, lives, events>>

\* The world meanwhile.
Happen == events < MaxEvents /\ events' = events + 1

Scrape(g, price) ==
    /\ Happen
    /\ offer' = [offer EXCEPT ![g] = [price |-> price, at |-> now]]
    /\ UNCHANGED <<now, mind, job, posted, lives>>

\* The truth engine reads the outcomes of trades.
Adapt(ledger) ==
    /\ Happen
    /\ thresholds' = adapt(thresholds, compute_precision_metrics(ledger))
    /\ UNCHANGED <<now, offer, rates, lastFetch, unchecked, strictness, seen, job, posted,
                   lives>>

\* The process ends: what it remembers and what its analyses hold is gone.
Restart ==
    /\ Happen
    /\ lives' = lives + 1
    /\ seen' = [k \in {} |-> 0] /\ rates' = FALLBACK_RATES /\ lastFetch' = NoTime
    /\ unchecked' = {}
    /\ thresholds' = AdaptiveFilterState
    /\ job' = [a \in Analyses |-> IF job[a] = Idle THEN Idle ELSE Over]
    /\ UNCHANGED <<now, offer, strictness, posted>>

Pass == now < MaxTime /\ now' = now + 1 /\ UNCHANGED <<offer, mind, job, posted, lives, events>>

ENext ==
    \/ \E a \in Analyses : Begin(a) \/ Read(a) \/ Decide(a) \/ WriteOpportunity(a)
    \/ \E g \in Rescraped : \E price \in PricesOf[g] : Scrape(g, price)
    \/ \E table \in FetchedRates : GetRates(table)
    \/ GetNoRates
    \/ \E ledger \in Ledgers : Adapt(ledger)
    \/ Restart \/ Pass

-----------------------------------------------------------------------------
Vetted == {i \in DOMAIN posted : ~posted[i].shadow}

\* What is written was made of listings scraped shortly before it was decided,
\* although the analysis has awaited other reads in between.
PostedWereFresh == \A i \in Vetted : posted[i].decided - posted[i].oldest <= MaxAge

\* One process writes an opportunity of a purchase and a marketplace once per
\* window, whichever of its analyses come to it at the same time.
PostedOncePerWindow ==
    \A i, j \in Vetted :
        i # j /\ posted[i].key = posted[j].key /\ posted[i].life = posted[j].life =>
            Larger(posted[i].decided - posted[j].decided, posted[j].decided - posted[i].decided)
                > Window

\* It still pays when it sells at the lowest price of its competitors, which
\* the checks never look at: they have the median and, in a marketplace of fewer
\* than eight listings, the lowest of them all.
PostedPayAtTheLowest == \A i \in Vetted : posted[i].few => posted[i].atLowest > 0

\* The truth engine tightens the thresholds and never opens them below those of
\* the environment; shadow mode lets off the validator, not the hard filters.
PostedAreAboveTheFloor ==
    \A i \in DOMAIN posted :
        /\ posted[i].net >= BaseMinProfit /\ posted[i].net >= posted[i].floor.profit
        /\ posted[i].roi >= MinRoi /\ posted[i].roi >= posted[i].floor.roi
        /\ posted[i].mates

Powers(base) ==
    LET power[n \in 0..MaxEvents] == IF n = 0 THEN 1 ELSE base * power[n - 1] IN power

\* One fetch moves a rate by half at most: a corrupt source cannot do more, of a
\* currency that every answer of this life had.  One that an answer lacked is gone
\* from the table, and its next rate is taken as it comes.
RatesAreBelievable ==
    \A c \in DOMAIN FALLBACK_RATES \ (unchecked \cup {"USD"}) :
        /\ c \in DOMAIN rates
        /\ rates[c] * Powers(2)[events] <= FALLBACK_RATES[c] * Powers(3)[events]
        /\ rates[c] * Powers(2)[events] >= FALLBACK_RATES[c]
=============================================================================
