----------------------------- MODULE ProductIndex -----------------------------
(***************************************************************************)
(* What the batch pipeline knows of a product, in four places that lag     *)
(* behind each other: master_products, the index in memory                 *)
(* (product_index.py), the match cache (resolver.py) and the prices that   *)
(* wait for the next median flush (write_buffer.py).  A listing goes       *)
(* through batch_resolve, the dollar validation and the write; the index   *)
(* is read again and the medians are flushed in between.                   *)
(*                                                                         *)
(* Left out: matches by similarity (module Matching); a listing's product  *)
(* is the one of its title.                                                *)
(***************************************************************************)
EXTENDS Integers, Sequences, FiniteSets, SequencesExt, Functions, FiniteSetsExt

CONSTANTS
    Titles,        \* normalised titles, the canonical_name of a product
    DollarPrices,  \* prices in dollars
    MinListings,   \* the 3 listings a median needs before it counts
    MaxWrites,     \* bound: listings written
    MaxLost        \* bound: crashes and failed median flushes

ASSUME IndexAssumption ==
    DollarPrices \subseteq Nat \ {0} /\ MinListings \in Nat \ {0} /\ MaxWrites \in Nat /\ MaxLost \in Nat

VARIABLES
    masters,      \* master_products: title -> [median, count]
    index,        \* the index in memory, the same, none if the title is not in it
    appends,      \* the index's append buffer
    loading,      \* rows read by a load that has not swapped them in yet
    cache,        \* the match cache: <<title, price, is_new>>
    listing,      \* what the batch stage is working on
    gathered,     \* MedianAccumulator._data: title -> prices
    flushing,     \* taken out of it by a flush that is not done
    written,      \* history: title -> listings written
    lost          \* history: medians lost by a crash or a failed flush

indexVars == <<masters, index, appends, loading, cache, listing, gathered, flushing, written, lost>>

NoRow == [median |-> 0, count |-> -1]
Absent == [t \in Titles |-> NoRow]
Nothing == [t \in Titles |-> <<>>]
NoLoad == [on |-> FALSE, rows |-> Absent]
NoListing == [title |-> "", price |-> 0, isNew |-> FALSE, at |-> "none"]

IndexInit ==
    /\ masters = Absent /\ index = Absent /\ appends = {} /\ loading = NoLoad
    /\ cache = {} /\ listing = NoListing
    /\ gathered = Nothing /\ flushing = Nothing
    /\ written = [t \in Titles |-> 0] /\ lost = 0

In(table, t) == table[t].count >= 0
NewRow == [median |-> 0, count |-> 0]

-----------------------------------------------------------------------------
\* batch_resolve: the match cache, the index, the insert.

Resolved(t, p, isNew) == listing' = [title |-> t, price |-> p, isNew |-> isNew, at |-> "resolved"]
Remember(t, p, isNew) == cache' = {c \in cache : ~(c[1] = t /\ c[2] = p)} \cup {<<t, p, isNew>>}
Searched == [t \in Titles |-> IF t \in appends THEN NewRow ELSE index[t]]

\* MATCH_MAX_PRICE_RATIO, 3.5 times either way, once the median counts.
PriceOK(p, row) ==
    row.median > 0 /\ row.count >= MinListings => 2 * p <= 7 * row.median /\ 2 * row.median <= 7 * p

ResolveCached(t, p) ==
    /\ listing = NoListing
    /\ \E isNew \in BOOLEAN : <<t, p, isNew>> \in cache /\ Resolved(t, p, isNew)
    /\ UNCHANGED <<masters, index, appends, loading, cache, gathered, flushing, written, lost>>

Uncached(t, p) == listing = NoListing /\ \A isNew \in BOOLEAN : <<t, p, isNew>> \notin cache

\* The search takes in the append buffer first.
ResolveByIndex(t, p) ==
    /\ Uncached(t, p)
    /\ index' = Searched /\ appends' = {}
    /\ In(Searched, t) /\ PriceOK(p, Searched[t])
    /\ Resolved(t, p, FALSE) /\ Remember(t, p, FALSE)
    /\ UNCHANGED <<masters, loading, gathered, flushing, written, lost>>

\* INSERT ... ON CONFLICT, then append_batch to the index; the fallback of one
\* insert at a time puts the product in the append buffer instead.
ResolveByInsert(t, p) ==
    LET isNew == ~In(masters, t) IN
    /\ Uncached(t, p)
    /\ ~(In(Searched, t) /\ PriceOK(p, Searched[t]))
    /\ masters' = IF isNew THEN [masters EXCEPT ![t] = NewRow] ELSE masters
    /\ \/ appends' = {} /\ index' = IF isNew THEN [Searched EXCEPT ![t] = NewRow] ELSE Searched
       \/ appends' = (IF isNew THEN {t} ELSE {}) /\ index' = Searched
    /\ Resolved(t, p, isNew) /\ Remember(t, p, isNew)
    /\ UNCHANGED <<loading, gathered, flushing, written, lost>>

-----------------------------------------------------------------------------
\* validate_price_usd_sync: more than 80% off the median, if the index knows it.
OffMedian(p, row) ==
    /\ row.median > 0 /\ row.count >= MinListings
    /\ 5 * (p - row.median) > 4 * row.median \/ 5 * (row.median - p) > 4 * row.median

\* A validation that lets a known product pass.
NeverRejected == FALSE

Rejected == ~listing.isNew /\ OffMedian(listing.price, index[listing.title])

SkipListing ==
    /\ listing.at = "resolved" /\ Rejected
    /\ listing' = NoListing
    /\ UNCHANGED <<masters, index, appends, loading, cache, gathered, flushing, written, lost>>

\* The write buffer's flush has succeeded: add_batch.
WriteListing ==
    LET t == listing.title IN
    /\ listing.at = "resolved" /\ ~Rejected
    /\ written[t] < MaxWrites
    /\ written' = [written EXCEPT ![t] = @ + 1]
    /\ gathered' = [gathered EXCEPT ![t] = Append(@, listing.price)]
    /\ listing' = NoListing
    /\ UNCHANGED <<masters, index, appends, loading, cache, flushing, lost>>

CacheExpires ==
    /\ cache # {} /\ cache' = {}
    /\ UNCHANGED <<masters, index, appends, loading, listing, gathered, flushing, written, lost>>

-----------------------------------------------------------------------------
\* index_refresh_stage: the rows are read, indexed, and swapped in; what was
\* appended in between is gone, what is in the append buffer stays there.
LoadReads ==
    /\ ~loading.on
    /\ loading' = [on |-> TRUE, rows |-> masters]
    /\ UNCHANGED <<masters, index, appends, cache, listing, gathered, flushing, written, lost>>

LoadSwaps ==
    /\ loading.on
    /\ index' = loading.rows /\ loading' = NoLoad
    /\ UNCHANGED <<masters, appends, cache, listing, gathered, flushing, written, lost>>

-----------------------------------------------------------------------------
\* median_refresh_stage.

Middle(s) == SortSeq(s, <)[Len(s) \div 2 + 1]

\* The running median: towards the batch's price by its share of the count
\* (rounded down here).
Nudged(row, s) ==
    LET n == Len(s) IN
    IF n = 0 THEN row
    ELSE [count |-> row.count + n,
          median |-> IF row.count = 0 THEN Middle(s)
                     ELSE row.median + ((Middle(s) - row.median) * n) \div (row.count + n)]

\* A flush that copies the prices instead of taking them.
CopyMedians ==
    /\ flushing = Nothing /\ gathered # Nothing
    /\ flushing' = gathered /\ gathered' = gathered
    /\ UNCHANGED <<masters, index, appends, loading, cache, listing, written, lost>>

\* Under the lock; what is written from now on waits for the next flush.
TakeMedians ==
    /\ flushing = Nothing /\ gathered # Nothing
    /\ flushing' = gathered /\ gathered' = Nothing
    /\ UNCHANGED <<masters, index, appends, loading, cache, listing, written, lost>>

WriteMedians ==
    /\ flushing # Nothing
    /\ masters' = [t \in Titles |-> Nudged(masters[t], flushing[t])]
    /\ flushing' = Nothing
    /\ UNCHANGED <<index, appends, loading, cache, listing, gathered, written, lost>>

\* The UPDATE fails: logged, and what was taken is not put back.
MediansFail ==
    /\ flushing # Nothing /\ lost < MaxLost
    /\ flushing' = Nothing /\ lost' = lost + 1
    /\ UNCHANGED <<masters, index, appends, loading, cache, listing, gathered, written>>

\* The process starts again: main loads the index before the stages begin.
RestartIndex ==
    /\ lost < MaxLost /\ lost' = lost + 1
    /\ index' = masters /\ appends' = {} /\ loading' = NoLoad /\ cache' = {}
    /\ listing' = NoListing /\ gathered' = Nothing /\ flushing' = Nothing
    /\ UNCHANGED <<masters, written>>

IndexNext ==
    \/ \E t \in Titles, p \in DollarPrices :
         ResolveCached(t, p) \/ ResolveByIndex(t, p) \/ ResolveByInsert(t, p)
    \/ SkipListing \/ WriteListing \/ CacheExpires
    \/ LoadReads \/ LoadSwaps \/ TakeMedians \/ WriteMedians \/ MediansFail \/ RestartIndex

IndexSpec == IndexInit /\ [][IndexNext]_indexVars

-----------------------------------------------------------------------------
\* Every listing written is counted once: by its product's row, or by a flush
\* on its way there, or by the next one; less only after a loss, never more.
CountedOnce ==
    \A t \in Titles :
        LET counted == (IF In(masters, t) THEN masters[t].count ELSE 0)
                          + Len(flushing[t]) + Len(gathered[t])
        IN  counted <= written[t] /\ (lost = 0 => counted = written[t])

\* Why a listing can be written whose price is more than 80% off the median its
\* product has in the database: the match cache still calls the product new, or
\* the index has older numbers of it or none (created during a load).
OffOnlyWhenStale ==
    [][written' # written =>
        \/ ~OffMedian(listing.price, masters[listing.title])
        \/ listing.isNew
        \/ index[listing.title] # masters[listing.title]]_indexVars
=============================================================================
