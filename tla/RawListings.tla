---------------------------- MODULE RawListings ----------------------------
(***************************************************************************)
(* What both processors share: the listings of the raw_listings_queue      *)
(* stream, the order Redis hands them out in, and the comparison of a      *)
(* price with the ones known (price_anomaly.py).                           *)
(***************************************************************************)
EXTENDS Integers, Sequences, FiniteSets, SequencesExt, Functions

CONSTANTS
    Listings,      \* messages: [url, title, price, form]
    MaxRetries,    \* MAX_RETRIES
    Window,        \* the 100 of xpending_range and of xreadgroup "0"
    MinHistory,    \* MIN_HISTORY_SIZE of price_anomaly
    StreamLimit,   \* maxlen of scraper_v2's XADD
    MaxMessages,   \* bound: listings published
    MaxFaults      \* bound: failures that are not crashes

ASSUME QueueAssumption ==
    /\ MaxRetries \in Nat \ {0} /\ Window \in Nat \ {0} /\ MinHistory \in Nat \ {0}
    /\ StreamLimit \in Nat \ {0} /\ MaxMessages \in Nat /\ MaxFaults \in Nat

Ids == 1..MaxMessages

\* bound: a delivery count beyond MaxRetries + 2 is counted as MaxRetries + 2.
CountLimit == MaxRetries + 2

\* "refused": no title, no url, or a price outside its currency's bounds;
\* "wild": a price within those but outside the dollar bounds.  A field that
\* float(), int() or fromisoformat() rejects is one of the ways to Fail.
Forms == {"whole", "refused", "wild"}
ASSUME ListingsAssumption == \A l \in Listings : l.form \in Forms /\ l.price \in Nat

\* The first k of S in stream order.
Earliest(S, k) == {i \in S : Cardinality({j \in S : j < i}) < k}

\* Twice the median of a non-empty sequence of prices.
TwiceMedian(s) ==
    LET t == SortSeq(s, <) IN t[(Len(t) + 1) \div 2] + t[Len(t) \div 2 + 1]

\* price_anomaly.py: more than 5 times or less than a fifth of the median.
Anomalous(price, known) ==
    /\ Len(known) >= MinHistory
    /\ LET m == TwiceMedian(known) IN 2 * price > 5 * m \/ 10 * price < m
=============================================================================
