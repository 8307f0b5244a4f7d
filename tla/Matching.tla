------------------------------- MODULE Matching -------------------------------
(***************************************************************************)
(* Which product a listing is matched with: the chain of matchers of       *)
(* processor/hybrid_resolver.py, in its default and its strict form, and   *)
(* the three levels of ProductIndex._find_best_match.                      *)
(*                                                                         *)
(* What the matchers read out of two titles is data here: how the brands   *)
(* and the storage sizes compare, how many model identifiers they share.   *)
(* Similarities are in hundredths, confidences in 1/1800.                  *)
(***************************************************************************)
EXTENDS Integers, Sequences, FiniteSets, SequencesExt

CONSTANTS
    CandidateLists,  \* lists of [brand, models, storage, bundle, sim]
    Queries,         \* what the index is asked: [brand, model, price, kind]
    Shelves          \* what it holds: lists of [brand, model, kind, median, count, sim]

NoModels == -1       \* no identifier in one of the titles
None == "none"

ASSUME MatchAssumption ==
    /\ CandidateLists \subseteq
         Seq([brand : {"unknown", "same", "alias", "other"}, models : Nat \cup {NoModels},
              storage : {"none", "same", "other"}, bundle : BOOLEAN, sim : -100..100])
    /\ Shelves \subseteq
         Seq([brand : STRING, model : STRING, kind : STRING, median : Nat, count : Nat, sim : -100..100])

VARIABLES
    asked,       \* what is being matched
    place,       \* candidates looked at
    best         \* the place of the best of them and its confidence; 0 for none

matchVars == <<asked, place, best>>

NoMatch == [at |-> 0, sum |-> 0, n |-> 1]
MatchInit == asked = [how |-> "idle"] /\ place = 0 /\ best = NoMatch

-----------------------------------------------------------------------------
\* The matchers: a verdict, and a confidence if it is "accept".
Says(verdict, conf) == [verdict |-> verdict, conf |-> conf]
Pass == Says("pass", 0)
Reject == Says("reject", 0)

BrandMatcher(c) ==
    CASE c.brand = "unknown" -> Pass
      [] c.brand = "same" -> Says("accept", 1080)
      [] c.brand = "alias" -> Says("accept", 990)
      [] c.brand = "other" -> Reject

\* c.models identifiers are shared; 0 when both titles have some and share none.
ModelMatcher(c) ==
    IF c.models = NoModels THEN Pass
    ELSE IF c.models = 0 THEN Reject
    ELSE Says("accept", IF c.models >= 4 THEN 1620 ELSE 900 + 180 * c.models)

AttributeMatcher(c) ==
    IF c.storage = "other" \/ c.bundle THEN Reject
    ELSE IF c.storage = "same" THEN Says("accept", 1260) ELSE Pass

SemanticMatcher(c, threshold) ==
    IF c.sim >= threshold
    THEN Says("accept", 900 + (720 * (c.sim - threshold)) \div (100 - threshold))
    ELSE IF 100 * c.sim >= 85 * threshold THEN Pass ELSE Reject

\* A title with a word of accessories or bundles in it.
StrictTitleFilter(keyword) == IF keyword THEN Reject ELSE Pass

\* The signals of a chain: it goes on after "pass" and "accept" alike.
Chain(matchers) ==
    LET Rejecting == {k \in DOMAIN matchers : matchers[k].verdict = "reject"} IN
    IF Rejecting = {} THEN matchers
    ELSE SubSeq(matchers, 1, CHOOSE k \in Rejecting : \A j \in Rejecting : k <= j)

DefaultSignals(c) ==
    Chain(<<BrandMatcher(c), ModelMatcher(c), AttributeMatcher(c), SemanticMatcher(c, 82)>>)
StrictSignals(c, keyword) ==
    Chain(<<StrictTitleFilter(keyword), BrandMatcher(c), ModelMatcher(c), AttributeMatcher(c),
            SemanticMatcher(c, 88)>>)

Accepted(signals) == {k \in DOMAIN signals : signals[k].verdict = "accept"}

\* composite_confidence as a fraction: 0 after a rejection, half the similarity
\* without an acceptance, else the mean of the acceptances.
Confidence(c, signals) ==
    IF \E k \in DOMAIN signals : signals[k].verdict = "reject" THEN [sum |-> 0, n |-> 1]
    ELSE IF Accepted(signals) = {} THEN [sum |-> 9 * c.sim, n |-> 1]
    ELSE [sum |-> SumFunctionOnSet([k \in Accepted(signals) |-> signals[k].conf], Accepted(signals)),
          n |-> Cardinality(Accepted(signals))]

Greater(a, b) == a.sum * b.n > b.sum * a.n
AtLeast(a, min) == a.sum >= min * a.n

Confirmed(signals, k) == Len(signals) >= k /\ signals[k].verdict = "accept"

-----------------------------------------------------------------------------
\* hybrid_match and strict_hybrid_match look at one candidate after the other.

\* A strict mode that asks for the brand or the model.
EitherConfirmed(c, keyword) ==
    LET signals == StrictSignals(c, keyword) IN
    /\ Confirmed(signals, 2) \/ Confirmed(signals, 3)
    /\ AtLeast(Confidence(c, signals), 1260)

\* Brand and model have to be accepted; the cap on candidates with semantic
\* acceptance alone never applies then.
StrictlyEligible(c, keyword) ==
    LET signals == StrictSignals(c, keyword) IN
    /\ Confirmed(signals, 2) /\ Confirmed(signals, 3)
    /\ AtLeast(Confidence(c, signals), 1260)

Eligible(c) ==
    IF asked.how = "strict" THEN StrictlyEligible(c, asked.keyword)
    ELSE AtLeast(Confidence(c, DefaultSignals(c)), 810)

ConfidenceOf(c) ==
    Confidence(c, IF asked.how = "strict" THEN StrictSignals(c, asked.keyword) ELSE DefaultSignals(c))

AskHybrid ==
    /\ asked.how = "idle"
    /\ \E cs \in CandidateLists, how \in {"default", "strict"}, keyword \in BOOLEAN :
         asked' = [how |-> how, candidates |-> cs, keyword |-> keyword]
    /\ UNCHANGED <<place, best>>

Consider ==
    /\ asked.how \in {"default", "strict"} /\ place < Len(asked.candidates)
    /\ place' = place + 1
    /\ LET c == asked.candidates[place'] IN
       best' = IF Eligible(c) /\ Greater(ConfidenceOf(c), best)
               THEN [at |-> place', sum |-> ConfidenceOf(c).sum, n |-> ConfidenceOf(c).n]
               ELSE best
    /\ UNCHANGED asked

-----------------------------------------------------------------------------
\* ProductIndex._find_best_match.

\* MATCH_MAX_PRICE_RATIO, once three listings have made a median.
PriceFits(price, p) ==
    price > 0 /\ p.median > 0 /\ p.count >= 3 => 2 * price <= 7 * p.median /\ 2 * p.median <= 7 * price

Fits(q, p, threshold) == p.sim >= threshold /\ p.kind = q.kind /\ PriceFits(q.price, p)

\* The first of the most similar places of a set.
Best(shelf, S) ==
    IF S = {} THEN 0
    ELSE CHOOSE k \in S : \A j \in S : shelf[j].sim < shelf[k].sim
                                       \/ (shelf[j].sim = shelf[k].sim /\ k <= j)

SameModel(q, shelf) ==
    {k \in DOMAIN shelf : q.brand # None /\ q.model # None /\ shelf[k].brand = q.brand
                          /\ shelf[k].model = q.model /\ Fits(q, shelf[k], 60)}

SameBrand(q, shelf) ==
    {k \in DOMAIN shelf : q.brand # None /\ shelf[k].brand = q.brand
                          /\ (shelf[k].model = None \/ shelf[k].model = q.model \/ q.model = None)
                          /\ Fits(q, shelf[k], 75)}

\* The global level looks at the most similar product only.
MostSimilar(q, shelf) ==
    {k \in DOMAIN shelf : k = Best(shelf, DOMAIN shelf) /\ Fits(q, shelf[k], 82)}

Found(q, shelf) ==
    IF SameModel(q, shelf) # {} THEN Best(shelf, SameModel(q, shelf))
    ELSE IF SameBrand(q, shelf) # {} THEN Best(shelf, SameBrand(q, shelf))
    ELSE Best(shelf, MostSimilar(q, shelf))

SearchIndex ==
    /\ asked.how = "idle"
    /\ \E q \in Queries, shelf \in Shelves :
         /\ asked' = [how |-> "index", query |-> q, shelf |-> shelf]
         /\ best' = [at |-> Found(q, shelf), sum |-> 0, n |-> 1]
    /\ UNCHANGED place

MatchNext == AskHybrid \/ Consider \/ SearchIndex

MatchSpec == MatchInit /\ [][MatchNext]_matchVars

-----------------------------------------------------------------------------
\* What is chosen in strict mode is of the same brand and model and has no
\* accessory's title, default mode would not have refused it, and no candidate
\* looked at deserves it more; and whatever the mode, never one whose model,
\* storage size or bundling differs.
Chosen == asked.candidates[best.at]
HybridSound ==
    asked.how \in {"default", "strict"} /\ best.at # 0 =>
        /\ Chosen.models # 0 /\ Chosen.storage # "other" /\ ~Chosen.bundle /\ Chosen.brand # "other"
        /\ asked.how = "strict" =>
             /\ Chosen.brand \in {"same", "alias"} /\ Chosen.models > 0 /\ ~asked.keyword
             /\ AtLeast(Confidence(Chosen, DefaultSignals(Chosen)), 810)
        /\ \A k \in 1..place :
             Eligible(asked.candidates[k]) => ~Greater(ConfidenceOf(asked.candidates[k]), best)

\* A product found is similar enough, of the listing's kind and price; one of
\* another brand or another model is found only if none of the listing's own
\* brand and model would do.
IndexSound ==
    asked.how = "index" /\ best.at # 0 =>
        LET p == asked.shelf[best.at]
            own == {r \in ToSet(asked.shelf) : r.brand = asked.query.brand /\ r.model = asked.query.model}
        IN  /\ Fits(asked.query, p, 60)
            /\ (p \notin own /\ asked.query.brand # None /\ asked.query.model # None)
                 => \A r \in own : ~Fits(asked.query, r, 60)

MatchSound == HybridSound /\ IndexSound
=============================================================================
