--------------------------- MODULE ProcessorProofs ----------------------------
(***************************************************************************)
(* Proofs about the batch processor, for any queue and batch sizes, any    *)
(* titles and prices.                                                      *)
(*                                                                         *)
(* ProductIndex: every listing written is counted once. The invariant is   *)
(* that whatever knows a product (the index, its append buffer, a load in  *)
(* progress, the match cache, the listing being worked on) knows one that  *)
(* has a row, so that no price waits for a row that does not exist.        *)
(*                                                                         *)
(* ProcessorPipeline: what is acknowledged is kept. The invariant is that  *)
(* there is one batch at a time between its flush and its acknowledgement, *)
(* and that each message of it is then in the buffer, in a flush whose     *)
(* outcome the batch awaits, or where AckedIsKept wants it.                *)
(*                                                                         *)
(* And the row of a url is that of its last message, however the pending   *)
(* list is read twice. The invariant is about the order of all that is on  *)
(* its way, parsed, in the queue and in the reader's hand: a later message *)
(* that is on its way comes again after every earlier one (InOrder), what  *)
(* is pending comes before what is later (HeldFirst), and so a row that an *)
(* earlier message overwrites is written again (RowsInOrder).              *)
(*                                                                         *)
(* Matching: a match has earned it. The invariant is that the best so far  *)
(* is eligible and that none looked at is ahead of it, which needs that    *)
(* comparing two confidences, as fractions, is transitive.                 *)
(***************************************************************************)
EXTENDS MCProcessor, Folding

-----------------------------------------------------------------------------
(* The product index *)

IndexTyped ==
    /\ DOMAIN masters = Titles
    /\ \A t \in Titles : masters[t].count \in Nat \cup {-1}
    /\ gathered \in [Titles -> Seq(DollarPrices)] /\ flushing \in [Titles -> Seq(DollarPrices)]
    /\ written \in [Titles -> Nat] /\ lost \in Nat

\* What is known of products is known of products that have a row.
KnownHaveRows ==
    /\ \A t \in Titles : In(index, t) \/ t \in appends \/ In(loading.rows, t) => In(masters, t)
    /\ \A c \in cache : c[1] \in Titles /\ In(masters, c[1])
    /\ listing.at = "resolved" =>
         listing.title \in Titles /\ listing.price \in DollarPrices /\ In(masters, listing.title)

\* Only products with a row have prices.
PricedHaveRows ==
    \A t \in Titles :
        ~In(masters, t) => written[t] = 0 /\ gathered[t] = <<>> /\ flushing[t] = <<>>

\* CountedOnce, of one title.
CountedOf(t) ==
    LET counted == (IF In(masters, t) THEN masters[t].count ELSE 0) + Len(flushing[t]) + Len(gathered[t])
    IN  counted <= written[t] /\ (lost = 0 => counted = written[t])

IndexInv == IndexTyped /\ KnownHaveRows /\ PricedHaveRows /\ \A t \in Titles : CountedOf(t)

LEMMA IndexInitInv == IndexInit => IndexInv
  <1>. SUFFICES ASSUME IndexInit PROVE IndexInv
    OBVIOUS
  <1>1. IndexTyped
    BY EmptySeq DEF IndexInit, IndexTyped, Absent, Nothing, NoRow
  <1>2. KnownHaveRows
    BY DEF IndexInit, KnownHaveRows, Absent, NoRow, NoLoad, NoListing, In
  <1>3. PricedHaveRows
    BY DEF IndexInit, PricedHaveRows, Nothing
  <1>4. ASSUME NEW t \in Titles PROVE CountedOf(t)
    <2>1. ~In(masters, t) /\ written[t] = 0 /\ gathered[t] = <<>> /\ flushing[t] = <<>>
      BY DEF IndexInit, Absent, NoRow, Nothing, In
    <2>2. Len(<<>>) = 0
      BY EmptySeq
    <2>. QED
      BY <2>1, <2>2 DEF CountedOf
  <1>. QED
    BY <1>1, <1>2, <1>3, <1>4 DEF IndexInv

\* A step that leaves the numbers of every product alone, and only adds rows
\* without listings.
LEMMA CountsUnchanged ==
    ASSUME IndexInv, UNCHANGED <<gathered, flushing, written>>, lost' \in Nat, lost <= lost',
           DOMAIN masters' = Titles,
           \A t \in Titles : \/ masters'[t] = masters[t]
                             \/ ~In(masters, t) /\ masters'[t].count = 0
    PROVE  /\ IndexTyped' /\ PricedHaveRows' /\ \A t \in Titles : CountedOf(t)'
           /\ \A t \in Titles : In(masters, t) => In(masters', t)
  <1>1. \A t \in Titles : masters'[t].count \in Nat \cup {-1}
    BY DEF IndexInv, IndexTyped
  <1>2. IndexTyped'
    BY <1>1 DEF IndexInv, IndexTyped
  <1>3. \A t \in Titles : In(masters, t) => In(masters', t)
    BY DEF In
  <1>4. PricedHaveRows'
    BY <1>3 DEF IndexInv, PricedHaveRows, In
  <1>5. ASSUME NEW t \in Titles PROVE CountedOf(t)'
    <2>1. CountedOf(t) /\ lost \in Nat
      BY DEF IndexInv, IndexTyped
    <2>2. CASE masters'[t] = masters[t]
      BY <2>1, <2>2 DEF CountedOf, In
    <2>3. CASE ~In(masters, t) /\ masters'[t].count = 0
      <3>1. (IF In(masters, t) THEN masters[t].count ELSE 0) = 0
        BY <2>3
      <3>2. (IF In(masters', t) THEN masters'[t].count ELSE 0) = 0
        BY <2>3
      <3>. QED
        BY <2>1, <3>1, <3>2 DEF CountedOf, In
    <2>. QED
      BY <2>2, <2>3
  <1>. QED
    BY <1>2, <1>3, <1>4, <1>5

\* Products that are known go on to have rows.
LEMMA RowsStay ==
    ASSUME KnownHaveRows, \A t \in Titles : In(masters, t) => In(masters', t)
    PROVE  /\ \A t \in Titles : In(index, t) \/ t \in appends \/ In(loading.rows, t) => In(masters', t)
           /\ \A c \in cache : c[1] \in Titles /\ In(masters', c[1])
  BY DEF KnownHaveRows

LEMMA SearchedHaveRows ==
    ASSUME KnownHaveRows, NEW t \in Titles, In(Searched, t)
    PROVE  In(masters, t)
  BY DEF KnownHaveRows, Searched, In

\* Resolving adds at most a row without listings.
LEMMA ResolveInv ==
    ASSUME IndexInv, NEW t \in Titles, NEW p \in DollarPrices,
           ResolveCached(t, p) \/ ResolveByIndex(t, p) \/ ResolveByInsert(t, p)
    PROVE  IndexInv'
  <1>. USE DEF IndexInv
  <1>1. CASE ResolveCached(t, p)
    <2>1. PICK isNew \in BOOLEAN : <<t, p, isNew>> \in cache /\ Resolved(t, p, isNew)
      BY <1>1 DEF ResolveCached
    <2>2. /\ IndexTyped' /\ PricedHaveRows' /\ \A u \in Titles : CountedOf(u)'
          /\ \A u \in Titles : In(masters, u) => In(masters', u)
      BY <1>1, CountsUnchanged DEF ResolveCached, IndexTyped
    <2>3. In(masters, t)
      BY <2>1 DEF KnownHaveRows
    <2>4. KnownHaveRows'
      BY <1>1, <2>1, <2>2, <2>3, RowsStay DEF KnownHaveRows, ResolveCached, Resolved
    <2>. QED
      BY <2>2, <2>4
  <1>2. CASE ResolveByIndex(t, p)
    <2>2. /\ IndexTyped' /\ PricedHaveRows' /\ \A u \in Titles : CountedOf(u)'
          /\ \A u \in Titles : In(masters, u) => In(masters', u)
      BY <1>2, CountsUnchanged DEF ResolveByIndex, IndexTyped
    <2>3. In(masters, t)
      BY <1>2, SearchedHaveRows DEF ResolveByIndex
    <2>4. \A u \in Titles : In(index', u) => In(masters, u)
      BY <1>2, SearchedHaveRows DEF ResolveByIndex
    <2>5. KnownHaveRows'
      <3>1. \A u \in Titles : In(index', u) \/ u \in appends' \/ In(loading'.rows, u) => In(masters', u)
        BY <1>2, <2>2, <2>4, RowsStay DEF ResolveByIndex
      <3>2. \A c \in cache' : c[1] \in Titles /\ In(masters', c[1])
        <4>1. PICK b : cache' = {c \in cache : ~(c[1] = t /\ c[2] = p)} \cup {<<t, p, b>>}
          BY <1>2 DEF ResolveByIndex, Remember
        <4>2. \A c \in cache' : c \in cache \/ c = <<t, p, b>>
          BY <4>1
        <4>3. <<t, p, b>>[1] = t
          OBVIOUS
        <4>. QED
          BY <2>2, <2>3, <4>2, <4>3, RowsStay
      <3>3. listing'.title = t /\ listing'.price = p
        BY <1>2 DEF ResolveByIndex, Resolved
      <3>. QED
        BY <2>2, <2>3, <3>1, <3>2, <3>3 DEF KnownHaveRows
    <2>. QED
      BY <2>2, <2>5
  <1>3. CASE ResolveByInsert(t, p)
    <2>1. /\ DOMAIN masters' = Titles
          /\ \A u \in Titles :
               masters'[u] = masters[u] \/ (~In(masters, u) /\ masters'[u].count = 0)
      BY <1>3 DEF ResolveByInsert, NewRow, IndexTyped
    <2>2. /\ IndexTyped' /\ PricedHaveRows' /\ \A u \in Titles : CountedOf(u)'
          /\ \A u \in Titles : In(masters, u) => In(masters', u)
      <3>1. UNCHANGED <<gathered, flushing, written>> /\ lost' \in Nat /\ lost <= lost'
        BY <1>3 DEF ResolveByInsert, IndexTyped
      <3>. QED
        BY <2>1, <3>1, CountsUnchanged
    <2>3. In(masters', t)
      BY <1>3 DEF ResolveByInsert, NewRow, In, IndexTyped
    <2>4. \A u \in Titles : In(index', u) => In(masters', u)
      <3>. SUFFICES ASSUME NEW u \in Titles, In(index', u), u # t PROVE In(masters', u)
        BY <2>3
      <3>1. In(Searched, u)
        BY <1>3 DEF ResolveByInsert, Searched, In
      <3>. QED
        BY <2>2, <3>1, SearchedHaveRows
    <2>5. \A u \in appends' : u = t
      BY <1>3 DEF ResolveByInsert
    <2>6. KnownHaveRows'
      <3>1. \A u \in Titles : In(index', u) \/ u \in appends' \/ In(loading'.rows, u) => In(masters', u)
        BY <1>3, <2>2, <2>3, <2>4, <2>5, RowsStay DEF ResolveByInsert
      <3>2. \A c \in cache' : c[1] \in Titles /\ In(masters', c[1])
        <4>1. PICK b : cache' = {c \in cache : ~(c[1] = t /\ c[2] = p)} \cup {<<t, p, b>>}
          BY <1>3 DEF ResolveByInsert, Remember
        <4>2. \A c \in cache' : c \in cache \/ c = <<t, p, b>>
          BY <4>1
        <4>3. <<t, p, b>>[1] = t
          OBVIOUS
        <4>. QED
          BY <2>2, <2>3, <4>2, <4>3, RowsStay
      <3>3. listing'.title = t /\ listing'.price = p
        BY <1>3 DEF ResolveByInsert, Resolved
      <3>. QED
        BY <2>3, <3>1, <3>2, <3>3 DEF KnownHaveRows
    <2>. QED
      BY <2>2, <2>6
  <1>. QED
    BY <1>1, <1>2, <1>3

\* What only drops or reads again what is known leaves the numbers alone.
LEMMA LooksInv ==
    ASSUME IndexInv, SkipListing \/ CacheExpires \/ LoadReads \/ LoadSwaps
    PROVE  IndexInv'
  <1>. USE DEF IndexInv
  <1>1. /\ UNCHANGED <<gathered, flushing, written, masters>> /\ lost' \in Nat /\ lost <= lost'
    BY DEF SkipListing, CacheExpires, LoadReads, LoadSwaps, IndexTyped
  <1>2. DOMAIN masters' = Titles /\ \A t \in Titles : masters'[t] = masters[t]
    BY <1>1 DEF IndexTyped
  <1>3. /\ IndexTyped' /\ PricedHaveRows' /\ \A u \in Titles : CountedOf(u)'
        /\ \A u \in Titles : In(masters, u) => In(masters', u)
    BY <1>1, <1>2, CountsUnchanged
  <1>4. KnownHaveRows'
    <2>1. CASE SkipListing
      BY <1>1, <2>1 DEF KnownHaveRows, SkipListing, NoListing
    <2>2. CASE CacheExpires
      BY <1>1, <2>2 DEF KnownHaveRows, CacheExpires
    <2>3. CASE LoadReads
      BY <1>1, <2>3 DEF KnownHaveRows, LoadReads
    <2>4. CASE LoadSwaps
      <3>1. \A t \in Titles : ~In(NoLoad.rows, t)
        BY DEF NoLoad, Absent, NoRow, In
      <3>. QED
        BY <1>1, <2>4, <3>1 DEF KnownHaveRows, LoadSwaps
    <2>. QED
      BY <2>1, <2>2, <2>3, <2>4
  <1>. QED
    BY <1>3, <1>4

\* The listing written belongs to a product with a row.
LEMMA WriteListingInv == IndexInv /\ WriteListing => IndexInv'
  <1>. SUFFICES ASSUME IndexInv, WriteListing PROVE IndexInv'
    OBVIOUS
  <1>. USE DEF IndexInv
  <1>. DEFINE t == listing.title  p == listing.price
  <1>1. t \in Titles /\ p \in DollarPrices /\ In(masters, t)
    BY DEF WriteListing, KnownHaveRows
  <1>2. /\ gathered[t] \in Seq(DollarPrices) /\ written[t] \in Nat
        /\ gathered' = [gathered EXCEPT ![t] = Append(gathered[t], p)]
        /\ written' = [written EXCEPT ![t] = written[t] + 1]
    BY <1>1 DEF WriteListing, IndexTyped
  <1>3. UNCHANGED <<masters, index, appends, loading, cache, flushing, lost>> /\ listing' = NoListing
    BY DEF WriteListing
  <1>. HIDE DEF t, p
  <1>4. Append(gathered[t], p) \in Seq(DollarPrices) /\ Len(Append(gathered[t], p)) = Len(gathered[t]) + 1
    BY <1>1, <1>2, AppendProperties
  <1>5. IndexTyped'
    BY <1>1, <1>2, <1>3, <1>4 DEF IndexTyped
  <1>6. KnownHaveRows'
    BY <1>3 DEF KnownHaveRows, NoListing
  <1>7. PricedHaveRows'
    BY <1>1, <1>2, <1>3 DEF PricedHaveRows, IndexTyped
  <1>8. ASSUME NEW u \in Titles PROVE CountedOf(u)'
    <2>0. /\ CountedOf(u) /\ masters[u].count \in Nat \cup {-1} /\ written[u] \in Nat /\ lost \in Nat
          /\ Len(gathered[u]) \in Nat /\ Len(flushing[u]) \in Nat
      BY LenProperties DEF IndexTyped
    <2>1. CASE u = t
      <3>1. written'[u] = written[u] + 1 /\ Len(gathered'[u]) = Len(gathered[u]) + 1
        BY <1>1, <1>2, <1>4, <2>1 DEF IndexTyped
      <3>. QED
        <4>1. PICK c \in Int : c = IF In(masters, u) THEN masters[u].count ELSE 0
          BY <2>0
        <4>2. c + Len(flushing[u]) + Len(gathered[u]) <= written[u]
              /\ (lost = 0 => c + Len(flushing[u]) + Len(gathered[u]) = written[u])
          BY <2>0, <4>1 DEF CountedOf
        <4>3. c = (IF In(masters', u) THEN masters'[u].count ELSE 0) /\ flushing' = flushing /\ lost' = lost
          BY <1>3, <4>1 DEF In
        <4>. QED
          <5>1. PICK a \in Nat, b \in Nat : a = Len(flushing[u]) /\ b = Len(gathered[u])
            BY <2>0
          <5>2. c + a + (b + 1) <= written[u] + 1 /\ (lost = 0 => c + a + (b + 1) = written[u] + 1)
            <6>1. written[u] \in Nat /\ c \in Int /\ a \in Nat /\ b \in Nat
              BY <2>0, <4>1, <5>1
            <6>2. c + a + b <= written[u] /\ (lost = 0 => c + a + b = written[u])
              BY <4>2, <5>1
            <6>. QED
              BY <6>1, <6>2
          <5>. QED
            BY <3>1, <4>3, <5>1, <5>2 DEF CountedOf, In
    <2>2. CASE u # t
      <3>1. written'[u] = written[u] /\ gathered'[u] = gathered[u]
        BY <1>2, <2>2 DEF IndexTyped
      <3>. QED
        BY <1>3, <2>0, <3>1 DEF CountedOf
    <2>. QED
      BY <2>1, <2>2
  <1>. QED
    BY <1>5, <1>6, <1>7, <1>8

\* A flush takes what was gathered while no other is on its way.
LEMMA TakeMediansInv == IndexInv /\ TakeMedians => IndexInv'
  <1>. SUFFICES ASSUME IndexInv, TakeMedians PROVE IndexInv'
    OBVIOUS
  <1>. USE DEF IndexInv
  <1>1. /\ flushing = Nothing /\ flushing' = gathered /\ gathered' = Nothing
        /\ UNCHANGED <<masters, index, appends, loading, cache, listing, written, lost>>
    BY DEF TakeMedians
  <1>2. Nothing \in [Titles -> Seq(DollarPrices)] /\ \A t \in Titles : Nothing[t] = <<>>
    BY EmptySeq DEF Nothing
  <1>3. IndexTyped'
    BY <1>1, <1>2 DEF IndexTyped
  <1>4. KnownHaveRows'
    BY <1>1 DEF KnownHaveRows
  <1>5. PricedHaveRows'
    BY <1>1, <1>2 DEF PricedHaveRows
  <1>6. ASSUME NEW t \in Titles PROVE CountedOf(t)'
    <2>0. /\ CountedOf(t) /\ masters[t].count \in Nat \cup {-1} /\ written[t] \in Nat /\ lost \in Nat
          /\ Len(gathered[t]) \in Nat
      BY LenProperties DEF IndexTyped
    <2>1. Len(flushing[t]) = 0 /\ Len(gathered'[t]) = 0 /\ Len(flushing'[t]) = Len(gathered[t])
      BY <1>1, <1>2, EmptySeq
    <2>. QED
      BY <1>1, <2>0, <2>1 DEF CountedOf
  <1>. QED
    BY <1>3, <1>4, <1>5, <1>6

LEMMA NudgedCount ==
    ASSUME NEW s \in Seq(DollarPrices), NEW row, row.count \in Nat \cup {-1}, s # <<>> => row.count >= 0
    PROVE  /\ Nudged(row, s).count = row.count + Len(s)
           /\ Nudged(row, s).count \in Nat \cup {-1}
  <1>1. Len(s) \in Nat /\ (Len(s) = 0 <=> s = <<>>)
    BY LenProperties, EmptySeq
  <1>2. CASE Len(s) = 0
    BY <1>1, <1>2 DEF Nudged
  <1>3. CASE Len(s) # 0
    <2>. DEFINE m == IF row.count = 0 THEN Middle(s)
                     ELSE row.median + ((Middle(s) - row.median) * Len(s)) \div (row.count + Len(s))
    <2>1. Nudged(row, s) = [count |-> row.count + Len(s), median |-> m]
      BY <1>3 DEF Nudged
    <2>. HIDE DEF m
    <2>. QED
      BY <1>1, <1>3, <2>1
  <1>. QED
    BY <1>2, <1>3

\* The flush adds as many listings as it took prices.
LEMMA WriteMediansInv == IndexInv /\ WriteMedians => IndexInv'
  <1>. SUFFICES ASSUME IndexInv, WriteMedians PROVE IndexInv'
    OBVIOUS
  <1>. USE DEF IndexInv
  <1>1. /\ masters' = [t \in Titles |-> Nudged(masters[t], flushing[t])] /\ flushing' = Nothing
        /\ UNCHANGED <<index, appends, loading, cache, listing, gathered, written, lost>>
    BY DEF WriteMedians
  <1>2. Nothing \in [Titles -> Seq(DollarPrices)] /\ \A t \in Titles : Nothing[t] = <<>>
    BY EmptySeq DEF Nothing
  <1>3. ASSUME NEW t \in Titles
        PROVE  /\ masters'[t].count = masters[t].count + Len(flushing[t])
               /\ masters'[t].count \in Nat \cup {-1}
               /\ masters[t].count \in Nat \cup {-1} /\ Len(flushing[t]) \in Nat
               /\ In(masters, t) <=> In(masters', t)
    <2>1. /\ flushing[t] \in Seq(DollarPrices) /\ masters[t].count \in Nat \cup {-1}
          /\ flushing[t] # <<>> => masters[t].count >= 0
      BY DEF IndexTyped, PricedHaveRows, In
    <2>2. /\ Nudged(masters[t], flushing[t]).count = masters[t].count + Len(flushing[t])
          /\ Nudged(masters[t], flushing[t]).count \in Nat \cup {-1}
      BY <2>1, NudgedCount
    <2>3. masters'[t] = Nudged(masters[t], flushing[t])
      BY <1>1
    <2>4. Len(flushing[t]) \in Nat /\ (Len(flushing[t]) = 0 <=> flushing[t] = <<>>)
      BY <2>1, LenProperties, EmptySeq
    <2>. QED
      BY <2>1, <2>2, <2>3, <2>4 DEF In
  <1>4. DOMAIN masters' = Titles
    BY <1>1
  <1>5. IndexTyped'
    BY <1>1, <1>2, <1>3, <1>4 DEF IndexTyped
  <1>6. KnownHaveRows'
    BY <1>1, <1>3 DEF KnownHaveRows
  <1>7. PricedHaveRows'
    BY <1>1, <1>2, <1>3 DEF PricedHaveRows
  <1>8. ASSUME NEW t \in Titles PROVE CountedOf(t)'
    <2>0. CountedOf(t) /\ written[t] \in Nat /\ lost \in Nat /\ Len(gathered[t]) \in Nat
      BY LenProperties DEF IndexTyped
    <2>1. Len(flushing'[t]) = 0
      BY <1>1, <1>2, EmptySeq
    <2>2. ~In(masters, t) => Len(flushing[t]) = 0
      BY EmptySeq DEF PricedHaveRows
    <2>. QED
      BY <1>1, <1>3, <2>0, <2>1, <2>2 DEF CountedOf
  <1>. QED
    BY <1>5, <1>6, <1>7, <1>8

\* What is lost is counted too little, and remembered as lost.
LEMMA LosesInv == IndexInv /\ (MediansFail \/ RestartIndex) => IndexInv'
  <1>. SUFFICES ASSUME IndexInv, MediansFail \/ RestartIndex PROVE IndexInv'
    OBVIOUS
  <1>. USE DEF IndexInv
  <1>1. /\ flushing' = Nothing /\ gathered' \in {gathered, Nothing} /\ lost' = lost + 1
        /\ UNCHANGED <<masters, written>>
    BY DEF MediansFail, RestartIndex
  <1>2. Nothing \in [Titles -> Seq(DollarPrices)] /\ \A t \in Titles : Nothing[t] = <<>>
    BY EmptySeq DEF Nothing
  <1>3. IndexTyped'
    BY <1>1, <1>2 DEF IndexTyped
  <1>4. KnownHaveRows'
    <2>1. CASE MediansFail
      BY <2>1 DEF KnownHaveRows, MediansFail
    <2>2. CASE RestartIndex
      <3>1. \A t \in Titles : ~In(NoLoad.rows, t)
        BY DEF NoLoad, Absent, NoRow, In
      <3>. QED
        BY <2>2, <3>1 DEF KnownHaveRows, RestartIndex, NoListing
    <2>. QED
      BY <2>1, <2>2
  <1>5. PricedHaveRows'
    BY <1>1, <1>2 DEF PricedHaveRows
  <1>6. ASSUME NEW t \in Titles PROVE CountedOf(t)'
    <2>0. /\ CountedOf(t) /\ masters[t].count \in Nat \cup {-1} /\ written[t] \in Nat /\ lost \in Nat
          /\ Len(gathered[t]) \in Nat /\ Len(flushing[t]) \in Nat
      BY LenProperties DEF IndexTyped
    <2>1. Len(flushing'[t]) = 0 /\ Len(gathered'[t]) \in {Len(gathered[t]), 0}
      BY <1>1, <1>2, EmptySeq
    <2>. QED
      <3>1. PICK c \in Int : c = IF In(masters, t) THEN masters[t].count ELSE 0
        BY <2>0
      <3>2. c + Len(flushing[t]) + Len(gathered[t]) <= written[t]
        BY <2>0, <3>1 DEF CountedOf
      <3>3. c = (IF In(masters', t) THEN masters'[t].count ELSE 0) /\ lost' # 0 /\ written' = written
        BY <1>1, <2>0, <3>1 DEF In
      <3>. QED
        <4>1. c + 0 + Len(gathered'[t]) <= written[t]
          <5>1. PICK a \in Nat, b \in Nat, n \in Nat :
                  a = Len(flushing[t]) /\ b = Len(gathered[t]) /\ n = written[t]
            BY <2>0
          <5>2. c \in Int /\ c + a + b <= n
            BY <3>1, <3>2, <5>1
          <5>3. a \in Nat /\ b \in Nat /\ n \in Nat
            BY <5>1
          <5>4. c + 0 + b <= n /\ c + 0 + 0 <= n
            BY <5>2, <5>3
          <5>. QED
            BY <2>1, <5>1, <5>4
        <4>. QED
          BY <2>1, <3>3, <4>1 DEF CountedOf, In
  <1>. QED
    BY <1>3, <1>4, <1>5, <1>6

LEMMA IndexStepInv == IndexInv /\ [IndexNext]_indexVars => IndexInv'
  <1>. SUFFICES ASSUME IndexInv, [IndexNext]_indexVars PROVE IndexInv'
    OBVIOUS
  <1>1. CASE UNCHANGED indexVars
    BY <1>1 DEF indexVars, IndexInv, IndexTyped, KnownHaveRows, PricedHaveRows, CountedOf
  <1>2. CASE IndexNext
    BY <1>2, ResolveInv, LooksInv, WriteListingInv, TakeMediansInv, WriteMediansInv, LosesInv DEF IndexNext
  <1>. QED
    BY <1>1, <1>2

\* A written listing counts once towards its product's median, in every order
\* of writing, loading, flushing and failing (MedianAccumulator, write_buffer.py).
THEOREM ListingsCountedOnce == IndexSpec => []CountedOnce
  <1>1. IndexInv => CountedOnce
    BY DEF IndexInv, CountedOf, CountedOnce
  <1>. QED
    BY <1>1, IndexInitInv, IndexStepInv, PTL DEF IndexSpec

\* A listing far off its product's median is written only by a batch stage that
\* knows less than the database (validate_price_usd_sync, pipeline.py).
THEOREM WrittenOffOnlyWhenStale == IndexSpec => OffOnlyWhenStale
  <1>1. ASSUME [IndexNext]_indexVars, written' # written
        PROVE  \/ ~OffMedian(listing.price, masters[listing.title])
               \/ listing.isNew
               \/ index[listing.title] # masters[listing.title]
    <2>1. WriteListing
      BY <1>1 DEF IndexNext, indexVars, ResolveCached, ResolveByIndex, ResolveByInsert, SkipListing,
                  CacheExpires, LoadReads, LoadSwaps, TakeMedians, WriteMedians, MediansFail, RestartIndex
    <2>. QED
      BY <2>1 DEF WriteListing, Rejected
  <1>. QED
    BY <1>1, PTL DEF IndexSpec, OffOnlyWhenStale

-----------------------------------------------------------------------------
(* The pipeline *)

\* What the reader may hold of a message: its id, or -id if it has no fields.
HandIds == {n \in Int : n \in 1..Len(raw) \/ -n \in 1..cut}

\* Every id, wherever it is held, is that of a message; what has no fields any
\* more was dropped by the stream.
NumsOK ==
    /\ raw \in Seq(Listings) /\ cut \in Nat
    /\ Held \subseteq 1..Len(raw) /\ batch \subseteq 1..Len(raw)
    /\ inHand \in Seq(HandIds) /\ queue \in Seq(0..Len(raw))
    /\ parsed \in Seq(1..Len(raw)) /\ buffered \in Seq(1..Len(raw)) /\ flight \in Seq(1..Len(raw))

Kept(i) == i \in prices /\ raw[i].url \in DOMAIN rows
ToWrite == Range(parsed) \ noted

\* Rows wait in the write buffer, or are being flushed, only while the batch
\* stage waits for them, and for nothing else.
OneBatchAtATime ==
    /\ result \in {"none", "ok", "failed"} /\ half \subseteq {"upsert", "copy"}
    /\ stage # "up" => batcher = "done"
    /\ batcher # "await" => buffered = <<>> /\ half = {} /\ result = "none"
    /\ result # "none" => buffered = <<>> /\ half = {}
    /\ buffered # <<>> => half = {}

\* What the batch stage will acknowledge is accounted for, or is on its way
\* through the write buffer, and what is on its way is written by the
\* statements that are done.
BatchCovered ==
    /\ batcher \in {"resolve", "await"} => batch \subseteq Range(parsed) \cup noted
    /\ batcher = "ack" => \A i \in batch : i \in noted \/ Kept(i)
    /\ batcher = "await" /\ result = "ok" => \A i \in ToWrite : Kept(i)
    /\ batcher = "await" /\ result = "none" /\ half = {} => ToWrite \subseteq Range(buffered)
    /\ half # {} => ToWrite \subseteq Range(flight)
    /\ half # {} /\ "upsert" \notin half => \A i \in Range(flight) : raw[i].url \in DOMAIN rows
    /\ half # {} /\ "copy" \notin half => Range(flight) \subseteq prices

PipeInv == NumsOK /\ OneBatchAtATime /\ BatchCovered

\* Some of a finite set of numbers in stream order.
LEMMA SortedTypes ==
    ASSUME NEW S \in SUBSET Nat, IsFiniteSet(S)
    PROVE  /\ Sorted(S) \in Seq(S)
           /\ \A a, b \in DOMAIN Sorted(S) : a < b => Sorted(S)[a] < Sorted(S)[b]
           /\ \A i \in S : \E a \in DOMAIN Sorted(S) : Sorted(S)[a] = i
  <1>. DEFINE n == Cardinality(S)
              Below(i) == {j \in S : j < i}
              rank == [i \in S |-> Cardinality(Below(i))]
  <1>1. n \in Nat
    BY FS_CardinalityType
  <1>2. ASSUME NEW i \in S
        PROVE  IsFiniteSet(Below(i)) /\ Cardinality(Below(i)) \in 0..(n - 1)
    <2>1. IsFiniteSet(S \ {i}) /\ Cardinality(S \ {i}) = n - 1
      BY FS_RemoveElement
    <2>2. Below(i) \in SUBSET (S \ {i})
      OBVIOUS
    <2>3. IsFiniteSet(Below(i)) /\ Cardinality(Below(i)) <= n - 1
      <3>. HIDE DEF Below
      <3>. QED
        BY <2>1, <2>2, FS_Subset
    <2>4. Cardinality(Below(i)) \in Nat
      BY <2>3, FS_CardinalityType
    <2>. HIDE DEF Below
    <2>. QED
      BY <1>1, <2>3, <2>4
  <1>3. ASSUME NEW i \in S, NEW k \in S, i < k
        PROVE  Cardinality(Below(i)) < Cardinality(Below(k))
    <2>1. IsFiniteSet(Below(k)) /\ Cardinality(Below(k)) \in Nat /\ Cardinality(Below(i)) \in Nat
      BY <1>1, <1>2
    <2>2. i \in Below(k) /\ Below(i) \in SUBSET (Below(k) \ {i})
      <3>1. i \in Nat /\ k \in Nat
        OBVIOUS
      <3>2. \A j \in S : j < i => j < k /\ j # i
        BY <1>3, <3>1
      <3>. QED
        BY <1>3, <3>2
    <2>. HIDE DEF Below
    <2>3. IsFiniteSet(Below(k) \ {i}) /\ Cardinality(Below(k) \ {i}) = Cardinality(Below(k)) - 1
      BY <2>1, <2>2, FS_RemoveElement
    <2>4. Cardinality(Below(i)) <= Cardinality(Below(k) \ {i})
      BY <2>2, <2>3, FS_Subset
    <2>. QED
      BY <2>1, <2>3, <2>4
  <1>4. rank \in Injection(S, 0..(n - 1))
    <2>1. rank \in [S -> 0..(n - 1)]
      BY <1>2
    <2>2. ASSUME NEW i \in S, NEW k \in S, rank[i] = rank[k]
          PROVE  i = k
      <3>1. i \in Nat /\ k \in Nat /\ rank[i] \in Int
        BY <2>1, <1>1
      <3>2. i < k => rank[i] < rank[k]
        BY <1>3
      <3>3. k < i => rank[k] < rank[i]
        BY <1>3
      <3>. HIDE DEF rank
      <3>. QED
        BY <2>2, <3>1, <3>2, <3>3
    <2>. HIDE DEF rank
    <2>. QED
      BY <2>1, <2>2 DEF Injection, IsInjective
  <1>5. IsFiniteSet(0..(n - 1)) /\ Cardinality(0..(n - 1)) = n
    <2>. HIDE DEF n
    <2>. QED
      BY <1>1, FS_Interval
  <1>6. rank \in Surjection(S, 0..(n - 1))
    <2>1. Cardinality(S) = Cardinality(0..(n - 1)) <=> rank \in Surjection(S, 0..(n - 1))
      <3>. HIDE DEF rank
      <3>. QED
        BY <1>4, <1>5, FS_Injection
    <2>. HIDE DEF rank
    <2>. QED
      BY <1>5, <2>1
  <1>7. ASSUME NEW k \in 1..n
        PROVE  /\ (CHOOSE i \in S : Cardinality(Below(i)) = k - 1) \in S
               /\ Cardinality(Below(CHOOSE i \in S : Cardinality(Below(i)) = k - 1)) = k - 1
    <2>1. k - 1 \in 0..(n - 1)
      BY <1>1
    <2>2. PICK i \in S : rank[i] = k - 1
      <3>. HIDE DEF rank
      <3>. QED
        BY <1>6, <2>1 DEF Surjection
    <2>3. Cardinality(Below(i)) = k - 1
      BY <2>2
    <2>. HIDE DEF Below
    <2>. QED
      BY <2>3
  <1>8. Sorted(S) = [k \in 1..n |-> CHOOSE i \in S : Cardinality(Below(i)) = k - 1]
    BY DEF Sorted
  <1>. PICK q : q = Sorted(S)
    OBVIOUS
  <1>9. DOMAIN q = 1..n /\ \A k \in 1..n : q[k] \in S /\ Cardinality(Below(q[k])) = k - 1
    <2>. HIDE DEF Below, n
    <2>. QED
      BY <1>7, <1>8
  <1>10. q \in Seq(S)
    <2>1. q \in [1..n -> S]
      <3>. HIDE DEF Below, n
      <3>. QED
        BY <1>8, <1>9
    <2>. QED
      BY <1>1, <2>1, SeqDef
  <1>11. ASSUME NEW a \in 1..n, NEW b \in 1..n, a < b
         PROVE  q[a] < q[b]
    <2>. HIDE DEF Below
    <2>1. q[a] \in S /\ q[b] \in S /\ q[a] \in Nat /\ q[b] \in Nat
      BY <1>9
    <2>2. Cardinality(Below(q[a])) = a - 1 /\ Cardinality(Below(q[b])) = b - 1 /\ a \in Int /\ b \in Int
      BY <1>1, <1>9
    <2>3. CASE q[b] < q[a]
      <3>1. Cardinality(Below(q[b])) < Cardinality(Below(q[a]))
        BY <1>3, <2>1, <2>3
      <3>. QED
        BY <1>11, <2>2, <3>1
    <2>4. CASE q[a] = q[b]
      BY <1>11, <2>2, <2>4
    <2>. QED
      BY <2>1, <2>3, <2>4
  <1>12. ASSUME NEW i \in S
         PROVE  \E a \in 1..n : q[a] = i
    <2>. HIDE DEF Below
    <2>1. Cardinality(Below(i)) \in 0..(n - 1)
      BY <1>2
    <2>2. PICK a \in 1..n : a - 1 = Cardinality(Below(i))
      <3>1. PICK r \in 0..(n - 1) : r = Cardinality(Below(i))
        BY <2>1
      <3>. HIDE DEF n
      <3>2. r + 1 \in 1..n /\ r + 1 - 1 = r
        BY <1>1
      <3>. QED
        BY <3>1, <3>2
    <2>3. q[a] \in S /\ q[a] \in Nat /\ i \in Nat /\ Cardinality(Below(q[a])) = Cardinality(Below(i))
      BY <1>9, <2>2
    <2>4. ~(q[a] < i)
      <3>1. q[a] < i => Cardinality(Below(q[a])) < Cardinality(Below(i))
        BY <1>3, <2>3
      <3>. QED
        BY <2>1, <2>3, <3>1
    <2>5. ~(i < q[a])
      <3>1. i < q[a] => Cardinality(Below(i)) < Cardinality(Below(q[a]))
        BY <1>3, <2>3
      <3>. QED
        BY <2>1, <2>3, <3>1
    <2>. QED
      BY <2>3, <2>4, <2>5
  <1>. QED
    BY <1>9, <1>10, <1>11, <1>12

LEMMA PipeInitInv == PipeInit => PipeInv
  <1>. SUFFICES ASSUME PipeInit PROVE PipeInv
    OBVIOUS
  <1>1. NumsOK
    BY EmptySeq DEF PipeInit, NumsOK, Held
  <1>2. OneBatchAtATime
    BY DEF PipeInit, OneBatchAtATime
  <1>3. BatchCovered
    BY DEF PipeInit, BatchCovered
  <1>. QED
    BY <1>1, <1>2, <1>3 DEF PipeInv

\* What is published, dropped and written is never taken back.
LEMMA PipeGrows ==
    ASSUME NumsOK, [PipeNext]_pipeVars
    PROVE  /\ raw' \in Seq(Listings) /\ Len(raw) \in Nat /\ Len(raw') \in Nat /\ Len(raw) <= Len(raw')
           /\ \A i \in 1..Len(raw) : raw'[i] = raw[i]
           /\ cut' \in Nat /\ cut <= cut'
           /\ prices \subseteq prices' /\ DOMAIN rows \subseteq DOMAIN rows'
  <1>1. raw \in Seq(Listings) /\ cut \in Nat /\ Len(raw) \in Nat
    BY LenProperties DEF NumsOK
  <1>2. ASSUME NEW l \in Listings, PipePublish(l)
        PROVE  /\ raw' \in Seq(Listings) /\ Len(raw') = Len(raw) + 1
               /\ \A i \in 1..Len(raw) : raw'[i] = raw[i]
               /\ cut' \in Nat /\ cut <= cut'
               /\ UNCHANGED pipeTables
    <2>1. raw' = Append(raw, l) /\ cut' \in cut..Len(raw)
      BY <1>2 DEF PipePublish
    <2>2. UNCHANGED pipeTables
      BY <1>2 DEF PipePublish, pipeTables
    <2>3. Append(raw, l) \in Seq(Listings) /\ Len(Append(raw, l)) = Len(raw) + 1
          /\ \A i \in 1..Len(raw) : Append(raw, l)[i] = raw[i]
      BY <1>1, AppendProperties
    <2>. QED
      BY <1>1, <2>1, <2>2, <2>3
  <1>3. ASSUME ~ \E l \in Listings : PipePublish(l)
        PROVE  UNCHANGED <<raw, cut>>
    BY <1>3 DEF PipeNext, Main, Launch, BeginStages, Exit, Gone, MoveLetter, Signal, Die, Reader, ReadHeld,
            ReadUnread, Put, PutNone, Batcher, LoopTop, GetTimesOut, Collect, GetNone, Parse,
            ResolveAndEnqueue, Awaited, AckBatch, BatcherOnly, Writer, Late, StartFlush, EndFlushing,
            LateDone, HalfDone, HalfFails, WriterOnly, pipeRedis, pipeVars
  <1>4. ASSUME NEW statement, NEW ids, Commit(statement, ids)
        PROVE  prices \subseteq prices' /\ DOMAIN rows \subseteq DOMAIN rows'
    BY <1>4 DEF Commit, Upserted
  <1>5. prices \subseteq prices' /\ DOMAIN rows \subseteq DOMAIN rows'
    <2>1. CASE Writer
      <3>1. CASE Late \/ \E s \in {"upsert", "copy"} : HalfDone(s)
        BY <1>4, <3>1 DEF Late, LateDone, HalfDone
      <3>2. CASE StartFlush \/ EndFlushing \/ \E s \in {"upsert", "copy"} : HalfFails(s)
        BY <3>2 DEF StartFlush, EndFlushing, HalfFails, pipeTables
      <3>. QED
        BY <2>1, <3>1, <3>2 DEF Writer
    <2>2. CASE ~Writer
      <3>1. UNCHANGED pipeTables
        BY <1>2, <2>2 DEF PipeNext, Main, Launch, BeginStages, Exit, Gone, MoveLetter, Signal, Die, Reader,
                ReadHeld, ReadUnread, Put, PutNone, ReaderOnly, Batcher, LoopTop, GetTimesOut, Collect,
                GetNone, Parse, ResolveAndEnqueue, Awaited, AckBatch, BatcherOnly, pipeTables, pipeVars
      <3>. QED
        BY <3>1 DEF pipeTables
    <2>. QED
      BY <2>1, <2>2
  <1>6. CASE \E l \in Listings : PipePublish(l)
    BY <1>1, <1>2, <1>5, <1>6
  <1>7. CASE ~ \E l \in Listings : PipePublish(l)
    BY <1>1, <1>3, <1>5, <1>7
  <1>. QED
    BY <1>6, <1>7

\* A step leaves ids of messages that were published before it.
NumsStep ==
    /\ Held' \subseteq 1..Len(raw) /\ batch' \subseteq 1..Len(raw)
    /\ inHand' \in Seq(HandIds) /\ queue' \in Seq(0..Len(raw))
    /\ parsed' \in Seq(1..Len(raw)) /\ buffered' \in Seq(1..Len(raw)) /\ flight' \in Seq(1..Len(raw))

LEMMA NumsStay ==
    ASSUME NumsOK, [PipeNext]_pipeVars, NumsStep
    PROVE  NumsOK'
  <1>1. /\ raw' \in Seq(Listings) /\ Len(raw) \in Nat /\ Len(raw') \in Nat /\ Len(raw) <= Len(raw')
        /\ cut \in Nat /\ cut' \in Nat /\ cut <= cut'
    BY PipeGrows DEF NumsOK
  <1>2. 1..Len(raw) \subseteq 1..Len(raw') /\ 0..Len(raw) \subseteq 0..Len(raw')
    BY <1>1
  <1>3. HandIds \subseteq HandIds'
    BY <1>1 DEF HandIds
  <1>4. /\ inHand' \in Seq(HandIds') /\ queue' \in Seq(0..Len(raw'))
        /\ parsed' \in Seq(1..Len(raw')) /\ buffered' \in Seq(1..Len(raw')) /\ flight' \in Seq(1..Len(raw'))
    BY <1>2, <1>3, SeqWidens DEF NumsStep
  <1>. QED
    BY <1>1, <1>2, <1>4 DEF NumsOK, NumsStep

LEMMA ReaderNums ==
    ASSUME NumsOK, Reader
    PROVE  NumsStep
  <1>1. /\ Held \subseteq 1..Len(raw) /\ batch \subseteq 1..Len(raw) /\ Len(raw) \in Nat /\ cut \in Nat
        /\ inHand \in Seq(HandIds) /\ queue \in Seq(0..Len(raw))
        /\ parsed \in Seq(1..Len(raw)) /\ buffered \in Seq(1..Len(raw)) /\ flight \in Seq(1..Len(raw))
    BY LenProperties DEF NumsOK
  <1>2. UNCHANGED <<batch, parsed, buffered, flight>>
    BY DEF Reader, ReadHeld, ReadUnread, Put, PutNone, ReaderOnly, batchVars, writerVars
  <1>3. ASSUME NEW S, NEW k \in Nat PROVE Earliest(S, k) \subseteq S
    BY DEF Earliest
  <1>4. ASSUME NEW S, S \subseteq 1..Len(raw)
        PROVE  Sorted(S) \in Seq(S) /\ DOMAIN Sorted(S) = 1..Len(Sorted(S)) /\ Len(Sorted(S)) \in Nat
               /\ \A n \in DOMAIN Sorted(S) : Sorted(S)[n] \in S
    <2>1. IsFiniteSet(1..Len(raw))
      BY <1>1, FS_Interval
    <2>2. S \in SUBSET Nat /\ IsFiniteSet(S)
      <3>1. S \in SUBSET Nat
        BY <1>1, <1>4
      <3>2. S \in SUBSET (1..Len(raw))
        BY <1>4
      <3>. QED
        BY <2>1, <3>1, <3>2, FS_Subset
    <2>3. Sorted(S) \in Seq(S)
      BY <2>2, SortedTypes
    <2>. QED
      BY <2>3, LenProperties, ElementOfSeq
  <1>5. CASE ReadHeld
    <2>. PICK S : S = Earliest(Held, ReadBatch)
      OBVIOUS
    <2>1. S \subseteq 1..Len(raw)
      BY <1>1 DEF Earliest
    <2>2. inHand' = [k \in DOMAIN Sorted(S) |-> IF Sorted(S)[k] > cut THEN Sorted(S)[k] ELSE -Sorted(S)[k]]
      BY <1>5 DEF ReadHeld
    <2>. PICK q : q = Sorted(S)
      OBVIOUS
    <2>3. Len(q) \in Nat /\ DOMAIN q = 1..Len(q) /\ \A n \in 1..Len(q) : q[n] \in 1..Len(raw)
      BY <1>4, <2>1
    <2>4. \A n \in 1..Len(q) : (IF q[n] > cut THEN q[n] ELSE -q[n]) \in HandIds
      BY <1>1, <2>3 DEF HandIds
    <2>5. inHand' \in [1..Len(q) -> HandIds]
      BY <2>2, <2>3, <2>4
    <2>6. inHand' \in Seq(HandIds)
      BY <2>3, <2>5, SeqDef
    <2>7. DOMAIN pending' = Held /\ UNCHANGED queue
      BY <1>5 DEF ReadHeld, Held
    <2>. QED
      BY <1>1, <1>2, <2>6, <2>7 DEF NumsStep, Held
  <1>6. CASE ReadUnread
    <2>. PICK S : S = Earliest(Unread, ReadBatch)
      OBVIOUS
    <2>1. S \subseteq 1..Len(raw)
      BY DEF Earliest, Unread
    <2>2. inHand' = Sorted(S) /\ UNCHANGED queue /\ DOMAIN pending' = Held \cup S
      BY <1>6 DEF ReadUnread
    <2>3. 1..Len(raw) \subseteq HandIds
      BY <1>1 DEF HandIds
    <2>4. inHand' \in Seq(HandIds)
      BY <1>4, <2>1, <2>2, <2>3, SeqWidens
    <2>. QED
      BY <1>1, <1>2, <2>1, <2>2, <2>4 DEF NumsStep, Held
  <1>7. CASE Put
    <2>1. inHand # <<>> /\ inHand' = Tail(inHand)
      BY <1>7 DEF Put
    <2>2. Head(inHand) \in HandIds /\ Tail(inHand) \in Seq(HandIds)
      BY <1>1, <2>1, HeadTailProperties
    <2>3. CASE Head(inHand) > 0 /\ queue' = Append(queue, Head(inHand)) /\ UNCHANGED pending
      <3>1. Head(inHand) \in 0..Len(raw)
        BY <1>1, <2>2, <2>3 DEF HandIds
      <3>2. Append(queue, Head(inHand)) \in Seq(0..Len(raw))
        BY <1>1, <3>1, AppendProperties
      <3>. QED
        BY <1>1, <1>2, <2>1, <2>2, <2>3, <3>2 DEF NumsStep, Held
    <2>4. CASE pending' = Released({-Head(inHand)}) /\ UNCHANGED queue
      <3>1. DOMAIN pending' \subseteq Held
        BY <2>4 DEF Released
      <3>. QED
        BY <1>1, <1>2, <2>1, <2>2, <2>4, <3>1 DEF NumsStep, Held
    <2>. QED
      BY <1>7, <2>3, <2>4 DEF Put
  <1>8. CASE PutNone
    <2>1. Append(queue, 0) \in Seq(0..Len(raw))
      BY <1>1, AppendProperties
    <2>. QED
      BY <1>1, <1>2, <1>8, <2>1 DEF PutNone, NumsStep, Held, pipeRedis
  <1>. QED
    BY <1>5, <1>6, <1>7, <1>8 DEF Reader

LEMMA BatcherNums ==
    ASSUME NumsOK, Batcher
    PROVE  NumsStep
  <1>1. /\ Held \subseteq 1..Len(raw) /\ batch \subseteq 1..Len(raw) /\ Len(raw) \in Nat
        /\ inHand \in Seq(HandIds) /\ queue \in Seq(0..Len(raw))
        /\ parsed \in Seq(1..Len(raw)) /\ buffered \in Seq(1..Len(raw)) /\ flight \in Seq(1..Len(raw))
    BY LenProperties DEF NumsOK
  <1>2. UNCHANGED <<inHand, flight>>
    BY DEF Batcher, LoopTop, GetTimesOut, Collect, GetNone, Parse, ResolveAndEnqueue, Awaited, AckBatch,
           BatcherOnly, readerVars
  <1>3. CASE LoopTop \/ GetTimesOut \/ Awaited
    <2>1. UNCHANGED <<pending, batch, queue, parsed, buffered>>
      BY <1>3 DEF LoopTop, GetTimesOut, Awaited
    <2>. QED
      BY <1>1, <1>2, <2>1 DEF NumsStep, Held
  <1>4. CASE Collect \/ GetNone
    <2>1. /\ queue # <<>> /\ queue' = Tail(queue) /\ UNCHANGED <<pending, batch, buffered>>
          /\ parsed' = parsed \/ (Head(queue) # 0 /\ parsed' = Append(parsed, Head(queue)))
      BY <1>4 DEF Collect, GetNone
    <2>2. Head(queue) \in 0..Len(raw) /\ Tail(queue) \in Seq(0..Len(raw))
      BY <1>1, <2>1, HeadTailProperties
    <2>3. Head(queue) # 0 => Head(queue) \in 1..Len(raw)
      BY <1>1, <2>2
    <2>4. Head(queue) # 0 => Append(parsed, Head(queue)) \in Seq(1..Len(raw))
      BY <1>1, <2>3, AppendProperties
    <2>. QED
      BY <1>1, <1>2, <2>1, <2>2, <2>4 DEF NumsStep, Held
  <1>5. CASE Parse
    <2>1. PICK S : parsed' = Without(parsed, S)
      BY <1>5 DEF Parse
    <2>2. parsed' \in Seq(1..Len(raw))
      BY <1>1, <2>1, WithoutTypes
    <2>3. Range(parsed) \subseteq 1..Len(raw)
      BY <1>1, RangeOfSeq
    <2>. QED
      BY <1>1, <1>2, <1>5, <2>2, <2>3 DEF Parse, NumsStep, Held
  <1>6. CASE ResolveAndEnqueue
    <2>1. PICK S : buffered' = buffered \o Without(parsed, S)
      BY <1>6 DEF ResolveAndEnqueue
    <2>2. Without(parsed, S) \in Seq(1..Len(raw))
      BY <1>1, WithoutTypes
    <2>3. buffered' \in Seq(1..Len(raw))
      BY <1>1, <2>1, <2>2, ConcatProperties
    <2>. QED
      BY <1>1, <1>2, <1>6, <2>3 DEF ResolveAndEnqueue, NumsStep, Held
  <1>7. CASE AckBatch
    <2>1. DOMAIN pending' \subseteq Held
      BY <1>7 DEF AckBatch, Released
    <2>. QED
      BY <1>1, <1>2, <1>7, <2>1, EmptySeq DEF AckBatch, NumsStep, Held
  <1>. QED
    BY <1>3, <1>4, <1>5, <1>6, <1>7 DEF Batcher

LEMMA OtherNums ==
    ASSUME NumsOK, \/ \E l \in Listings : PipePublish(l)
                   \/ Main \/ Signal \/ Die \/ Writer
                   \/ UNCHANGED pipeVars
    PROVE  NumsStep
  <1>1. /\ Held \subseteq 1..Len(raw) /\ batch \subseteq 1..Len(raw)
        /\ inHand \in Seq(HandIds) /\ queue \in Seq(0..Len(raw))
        /\ parsed \in Seq(1..Len(raw)) /\ buffered \in Seq(1..Len(raw)) /\ flight \in Seq(1..Len(raw))
    BY DEF NumsOK
  <1>2. CASE Exit \/ Die
    <2>1. /\ pending' = pending /\ batch' = {} /\ inHand' = <<>> /\ queue' = <<>>
          /\ parsed' = <<>> /\ buffered' = <<>> /\ flight' = <<>>
      BY <1>2 DEF Exit, Die, Gone, pipeRedis
    <2>. QED
      BY <1>1, <2>1, EmptySeq DEF NumsStep, Held
  <1>3. CASE \E i \in Ids : MoveLetter(i)
    <2>1. DOMAIN pending' \subseteq Held
      BY <1>3 DEF MoveLetter, Released, Held
    <2>2. UNCHANGED <<batch, inHand, queue, parsed, buffered, flight>>
      BY <1>3 DEF MoveLetter, readerVars, batchVars, writerVars
    <2>. QED
      BY <1>1, <2>1, <2>2 DEF NumsStep, Held
  <1>4. CASE Writer
    <2>1. UNCHANGED <<pending, batch, inHand, queue, parsed>>
      BY <1>4 DEF Writer, Late, StartFlush, EndFlushing, LateDone, HalfDone, HalfFails, WriterOnly,
                  pipeRedis, readerVars, batchVars
    <2>2. buffered' \in {buffered, <<>>} /\ flight' \in {flight, buffered, <<>>}
      BY <1>4 DEF Writer, Late, StartFlush, EndFlushing, LateDone, HalfDone, HalfFails
    <2>. QED
      BY <1>1, <2>1, <2>2, EmptySeq DEF NumsStep, Held
  <1>5. CASE (\E l \in Listings : PipePublish(l)) \/ Launch \/ BeginStages \/ Signal \/ UNCHANGED pipeVars
    <2>1. UNCHANGED <<pending, batch, inHand, queue, parsed, buffered, flight>>
      BY <1>5 DEF PipePublish, Launch, BeginStages, Signal, pipeVars, pipeRedis, readerVars, batchVars, writerVars
    <2>. QED
      BY <1>1, <2>1 DEF NumsStep, Held
  <1>. QED
    BY <1>2, <1>3, <1>4, <1>5 DEF Main

LEMMA NumsStepInv == NumsOK /\ [PipeNext]_pipeVars => NumsOK'
  BY ReaderNums, BatcherNums, OtherNums, NumsStay DEF PipeNext

\* What has been written stays written.
LEMMA KeptStays ==
    ASSUME NumsOK, [PipeNext]_pipeVars, NEW i \in 1..Len(raw)
    PROVE  /\ Kept(i) => Kept(i)'
           /\ raw'[i] = raw[i]
           /\ raw[i].url \in DOMAIN rows => raw'[i].url \in DOMAIN rows'
  <1>1. raw'[i] = raw[i] /\ prices \subseteq prices' /\ DOMAIN rows \subseteq DOMAIN rows'
    BY PipeGrows
  <1>. QED
    BY <1>1 DEF Kept

batchAndFlush == <<batcher, batch, parsed, noted, buffered, result, flight, half>>

\* Everything else leaves the batch stage and its flush alone.
LEMMA OthersCovered ==
    ASSUME PipeInv, [PipeNext]_pipeVars, UNCHANGED batchAndFlush
    PROVE  BatchCovered'
  <1>1. /\ batcher' = batcher /\ batch' = batch /\ parsed' = parsed /\ noted' = noted
        /\ buffered' = buffered /\ result' = result /\ flight' = flight /\ half' = half
    BY DEF batchAndFlush
  <1>2. /\ batch \subseteq 1..Len(raw) /\ Range(parsed) \subseteq 1..Len(raw) /\ Range(flight) \subseteq 1..Len(raw)
    BY RangeOfSeq DEF PipeInv, NumsOK
  <1>3. \A i \in 1..Len(raw) : (Kept(i) => Kept(i)')
                              /\ (raw[i].url \in DOMAIN rows => raw'[i].url \in DOMAIN rows')
    BY KeptStays DEF PipeInv
  <1>4. prices \subseteq prices'
    BY PipeGrows DEF PipeInv
  <1>5. ToWrite' = ToWrite /\ ToWrite \subseteq 1..Len(raw)
    BY <1>1, <1>2 DEF ToWrite
  <1>6. batcher = "ack" => \A i \in batch' : i \in noted' \/ Kept(i)'
    BY <1>1, <1>2, <1>3 DEF PipeInv, BatchCovered
  <1>7. batcher = "await" /\ result = "ok" => \A i \in ToWrite' : Kept(i)'
    BY <1>3, <1>5 DEF PipeInv, BatchCovered
  <1>8. half # {} /\ "upsert" \notin half => \A i \in Range(flight') : raw'[i].url \in DOMAIN rows'
    BY <1>1, <1>2, <1>3 DEF PipeInv, BatchCovered
  <1>9. half # {} /\ "copy" \notin half => Range(flight') \subseteq prices'
    BY <1>1, <1>4 DEF PipeInv, BatchCovered
  <1>10. /\ batcher \in {"resolve", "await"} => batch' \subseteq Range(parsed') \cup noted'
         /\ batcher = "await" /\ result = "none" /\ half = {} => ToWrite' \subseteq Range(buffered')
         /\ half # {} => ToWrite' \subseteq Range(flight')
    BY <1>1, <1>5 DEF PipeInv, BatchCovered
  <1>. QED
    BY <1>1, <1>6, <1>7, <1>8, <1>9, <1>10 DEF BatchCovered

LEMMA OthersInv ==
    ASSUME PipeInv, [PipeNext]_pipeVars,
           \/ \E l \in Listings : PipePublish(l)
           \/ Launch \/ (\E i \in Ids : MoveLetter(i)) \/ Signal \/ Reader
           \/ EndFlushing \/ Late \/ UNCHANGED pipeVars
    PROVE  OneBatchAtATime' /\ BatchCovered'
  <1>1. UNCHANGED batchAndFlush
    BY DEF PipePublish, Launch, MoveLetter, Signal, Reader, ReadHeld, ReadUnread, Put, PutNone, ReaderOnly,
           EndFlushing, Late, LateDone, WriterOnly, pipeVars, batchVars, writerVars, batchAndFlush
  <1>2. UNCHANGED stage \/ (stage = "down" /\ stage' = "letters")
    BY DEF PipePublish, Launch, MoveLetter, Signal, Reader, ReadHeld, ReadUnread, Put, PutNone, ReaderOnly,
           EndFlushing, Late, LateDone, WriterOnly, pipeVars, mainVars
  <1>3. OneBatchAtATime'
    BY <1>1, <1>2 DEF PipeInv, OneBatchAtATime, batchAndFlush
  <1>. QED
    BY <1>1, <1>3, OthersCovered

LEMMA MainInv ==
    ASSUME PipeInv, BeginStages \/ Exit \/ Die
    PROVE  OneBatchAtATime' /\ BatchCovered'
  <1>1. CASE BeginStages
    <2>1. batcher = "done" /\ buffered = <<>> /\ half = {} /\ result = "none"
      BY <1>1 DEF BeginStages, PipeInv, OneBatchAtATime
    <2>2. stage' = "up" /\ batcher' = "top" /\ buffered' = <<>> /\ half' = {} /\ result' = "none"
      BY <1>1, <2>1 DEF BeginStages
    <2>. QED
      BY <2>2 DEF OneBatchAtATime, BatchCovered
  <1>2. CASE Exit \/ Die
    <2>1. stage' = "down" /\ batcher' = "done" /\ buffered' = <<>> /\ half' = {} /\ result' = "none"
      BY <1>2 DEF Exit, Die, Gone
    <2>. QED
      BY <2>1 DEF OneBatchAtATime, BatchCovered
  <1>. QED
    BY <1>1, <1>2

LEMMA BatcherInv ==
    ASSUME PipeInv, Batcher
    PROVE  OneBatchAtATime' /\ BatchCovered'
  <1>. USE DEF PipeInv
  <1>1. /\ stage = "up" /\ stage' = "up" /\ UNCHANGED <<half, flight, raw, rows, prices>>
    BY DEF Batcher, LoopTop, GetTimesOut, Collect, GetNone, Parse, ResolveAndEnqueue, Awaited, AckBatch,
           BatcherOnly, mainVars, pipeTables
  <1>2. CASE LoopTop \/ GetTimesOut \/ Collect \/ GetNone
    <2>1. batcher \notin {"await", "resolve", "ack"} /\ batcher' \notin {"await", "resolve", "ack"}
          /\ UNCHANGED <<buffered, result>>
      BY <1>2 DEF LoopTop, GetTimesOut, Collect, GetNone
    <2>. QED
      BY <1>1, <2>1 DEF OneBatchAtATime, BatchCovered
  <1>3. CASE Parse
    <2>1. PICK S \in SUBSET Range(parsed) : parsed' = Without(parsed, S) /\ noted' = S
      BY <1>3 DEF Parse
    <2>2. /\ batcher \notin {"await"} /\ batch' = Range(parsed) /\ UNCHANGED <<buffered, result>>
          /\ batcher' = IF parsed' = <<>> THEN "ack" ELSE "resolve"
      BY <1>3 DEF Parse
    <2>3. Range(parsed') = Range(parsed) \ S
      BY <2>1, WithoutRange DEF NumsOK
    <2>4. parsed' = <<>> => Range(parsed') = {}
      BY DEF Range
    <2>5. batcher' = "ack" => \A i \in batch' : i \in noted'
      BY <2>1, <2>2, <2>3, <2>4
    <2>6. batch' \subseteq Range(parsed') \cup noted'
      BY <2>1, <2>2, <2>3
    <2>7. OneBatchAtATime'
      BY <1>1, <2>2 DEF OneBatchAtATime
    <2>8. half' = {} /\ batcher' \in {"ack", "resolve"}
      BY <1>1, <2>2 DEF OneBatchAtATime
    <2>. QED
      BY <2>5, <2>6, <2>7, <2>8 DEF BatchCovered
  <1>4. CASE ResolveAndEnqueue
    <2>1. PICK S \in SUBSET Range(parsed) :
            /\ buffered' = buffered \o Without(parsed, S) /\ noted' = noted \cup S
            /\ batcher' = IF Without(parsed, S) = <<>> THEN "ack" ELSE "await"
      BY <1>4 DEF ResolveAndEnqueue
    <2>2. batcher = "resolve" /\ UNCHANGED <<batch, parsed, result>>
      BY <1>4 DEF ResolveAndEnqueue
    <2>3. buffered = <<>> /\ half = {} /\ result = "none"
      BY <2>2 DEF OneBatchAtATime
    <2>. PICK kept : kept = Without(parsed, S)
      OBVIOUS
    <2>4. kept \in Seq(1..Len(raw)) /\ Range(kept) = Range(parsed) \ S
      BY WithoutTypes, WithoutRange DEF NumsOK
    <2>5. buffered' = kept
      BY <2>1, <2>3, <2>4, ConcatEmptySeq
    <2>6. kept = <<>> => Range(kept) = {}
      BY DEF Range
    <2>7. batch' \subseteq Range(parsed') \cup noted'
      BY <2>1, <2>2 DEF BatchCovered
    <2>8. kept = <<>> => \A i \in batch' : i \in noted'
      BY <2>1, <2>2, <2>4, <2>6 DEF BatchCovered
    <2>9. ToWrite' \subseteq Range(buffered')
      BY <2>1, <2>2, <2>4, <2>5 DEF ToWrite
    <2>10. /\ batcher' = (IF kept = <<>> THEN "ack" ELSE "await") /\ half' = {} /\ result' = "none"
      BY <1>1, <2>1, <2>2, <2>3
    <2>11. OneBatchAtATime'
      BY <1>1, <2>5, <2>10 DEF OneBatchAtATime
    <2>. QED
      BY <2>7, <2>8, <2>9, <2>10, <2>11 DEF BatchCovered
  <1>5. CASE Awaited
    <2>1. /\ batcher = "await" /\ result # "none" /\ batcher' = "ack" /\ result' = "none"
          /\ noted' = IF result = "ok" THEN noted ELSE noted \cup Range(parsed)
          /\ UNCHANGED <<batch, buffered>>
      BY <1>5 DEF Awaited
    <2>2. buffered = <<>> /\ half = {}
      BY <2>1 DEF OneBatchAtATime
    <2>3. batch \subseteq Range(parsed) \cup noted
      BY <2>1 DEF BatchCovered
    <2>4. ASSUME NEW i \in batch' PROVE i \in noted' \/ Kept(i)'
      <3>1. CASE result = "ok"
        <4>1. i \in noted \/ Kept(i)
          BY <2>1, <2>3, <2>4, <3>1 DEF BatchCovered, ToWrite
        <4>2. Kept(i)' <=> Kept(i)
          BY <1>1 DEF Kept
        <4>. QED
          BY <2>1, <3>1, <4>1, <4>2
      <3>2. CASE result # "ok"
        BY <2>1, <2>3, <2>4, <3>2
      <3>. QED
        BY <3>1, <3>2
    <2>5. OneBatchAtATime'
      BY <1>1, <2>1, <2>2 DEF OneBatchAtATime
    <2>. QED
      BY <1>1, <2>1, <2>2, <2>4, <2>5 DEF BatchCovered
  <1>6. CASE AckBatch
    <2>1. batcher = "ack" /\ batcher' = "top" /\ UNCHANGED <<buffered, result>>
      BY <1>6 DEF AckBatch
    <2>. QED
      BY <1>1, <2>1 DEF OneBatchAtATime, BatchCovered
  <1>. QED
    BY <1>2, <1>3, <1>4, <1>5, <1>6 DEF Batcher

LEMMA FlushInv ==
    ASSUME PipeInv, StartFlush \/ \E s \in {"upsert", "copy"} : HalfDone(s) \/ HalfFails(s)
    PROVE  OneBatchAtATime' /\ BatchCovered'
  <1>. USE DEF PipeInv
  <1>1. /\ stage = "up" /\ stage' = "up" /\ UNCHANGED <<raw, batcher, batch, parsed, noted>> /\ ToWrite' = ToWrite
    BY DEF StartFlush, HalfDone, HalfFails, WriterOnly, pipeRedis, mainVars, batchVars, ToWrite
  <1>2. CASE StartFlush
    <2>1. /\ buffered # <<>> /\ flight' = buffered /\ buffered' = <<>> /\ half' = {"upsert", "copy"}
          /\ result' = result
      BY <1>2 DEF StartFlush
    <2>2. half = {} /\ batcher = "await" /\ result = "none"
      BY <2>1 DEF OneBatchAtATime
    <2>3. ToWrite' \subseteq Range(flight')
      BY <1>1, <2>1, <2>2 DEF BatchCovered
    <2>4. batch' \subseteq Range(parsed') \cup noted'
      BY <1>1, <2>2 DEF BatchCovered
    <2>5. OneBatchAtATime'
      BY <1>1, <2>1, <2>2 DEF OneBatchAtATime
    <2>. QED
      BY <1>1, <2>1, <2>2, <2>3, <2>4, <2>5 DEF BatchCovered
  <1>3. ASSUME NEW s \in {"upsert", "copy"}, HalfDone(s)
        PROVE  OneBatchAtATime' /\ BatchCovered'
    <2>1. /\ s \in half /\ half' = half \ {s} /\ Commit(s, flight) /\ UNCHANGED buffered
          /\ IF half' = {} THEN result' = "ok" ELSE result' = result /\ flight' = flight
      BY <1>3 DEF HalfDone
    <2>2. batcher = "await" /\ result = "none" /\ buffered = <<>> /\ half \subseteq {"upsert", "copy"}
      BY <2>1 DEF OneBatchAtATime
    <2>3. /\ s = "upsert" => prices' = prices /\ \A i \in Range(flight) : raw'[i].url \in DOMAIN rows'
          /\ s = "copy" => rows' = rows /\ Range(flight) \subseteq prices'
          /\ prices \subseteq prices' /\ DOMAIN rows \subseteq DOMAIN rows'
      BY <1>1, <2>1 DEF Commit, Upserted
    <2>4. /\ ToWrite \subseteq Range(flight)
          /\ "upsert" \notin half => \A i \in Range(flight) : raw[i].url \in DOMAIN rows
          /\ "copy" \notin half => Range(flight) \subseteq prices
      BY <2>1 DEF BatchCovered
    <2>5. /\ "upsert" \notin half' => \A i \in Range(flight) : raw'[i].url \in DOMAIN rows'
          /\ "copy" \notin half' => Range(flight) \subseteq prices'
      BY <1>1, <2>1, <2>3, <2>4
    <2>6. batch' \subseteq Range(parsed') \cup noted'
      BY <1>1, <2>2 DEF BatchCovered
    <2>7. CASE half' = {}
      <3>1. \A i \in ToWrite' : Kept(i)'
        BY <1>1, <2>4, <2>5, <2>7 DEF Kept
      <3>2. OneBatchAtATime'
        BY <1>1, <2>1, <2>2, <2>7 DEF OneBatchAtATime
      <3>. QED
        BY <1>1, <2>1, <2>2, <2>6, <2>7, <3>1, <3>2 DEF BatchCovered
    <2>8. CASE half' # {}
      <3>1. OneBatchAtATime'
        BY <1>1, <2>1, <2>2, <2>8 DEF OneBatchAtATime
      <3>. QED
        BY <1>1, <2>1, <2>2, <2>4, <2>5, <2>6, <2>8, <3>1 DEF BatchCovered
    <2>. QED
      BY <2>7, <2>8
  <1>4. ASSUME NEW s \in {"upsert", "copy"}, HalfFails(s)
        PROVE  OneBatchAtATime' /\ BatchCovered'
    <2>1. s \in half /\ half' = {} /\ result' = "failed" /\ UNCHANGED buffered
      BY <1>4 DEF HalfFails
    <2>2. batcher = "await" /\ buffered = <<>>
      BY <2>1 DEF OneBatchAtATime
    <2>3. batch' \subseteq Range(parsed') \cup noted'
      BY <1>1, <2>2 DEF BatchCovered
    <2>4. OneBatchAtATime'
      BY <1>1, <2>1, <2>2 DEF OneBatchAtATime
    <2>. QED
      BY <1>1, <2>1, <2>2, <2>3, <2>4 DEF BatchCovered
  <1>. QED
    BY <1>2, <1>3, <1>4

LEMMA PipeStepInv == PipeInv /\ [PipeNext]_pipeVars => PipeInv'
  <1>. SUFFICES ASSUME PipeInv, [PipeNext]_pipeVars PROVE PipeInv'
    OBVIOUS
  <1>1. NumsOK'
    BY NumsStepInv DEF PipeInv
  <1>2. CASE \/ \E l \in Listings : PipePublish(l)
             \/ Launch \/ (\E i \in Ids : MoveLetter(i)) \/ Signal \/ Reader
             \/ EndFlushing \/ Late \/ UNCHANGED pipeVars
    BY <1>1, <1>2, OthersInv DEF PipeInv
  <1>3. CASE BeginStages \/ Exit \/ Die
    BY <1>1, <1>3, MainInv DEF PipeInv
  <1>4. CASE Batcher
    BY <1>1, <1>4, BatcherInv DEF PipeInv
  <1>5. CASE StartFlush \/ \E s \in {"upsert", "copy"} : HalfDone(s) \/ HalfFails(s)
    BY <1>1, <1>5, FlushInv DEF PipeInv
  <1>. QED
    BY <1>2, <1>3, <1>4, <1>5 DEF PipeNext, Main, Writer

\* A row waits for at most one batch, and the batch that is acknowledged next
\* is accounted for (pipeline.py, write_buffer.py).
THEOREM PipelineInvariance == PipeSpec => []PipeInv
  BY PipeInitInv, PipeStepInv, PTL DEF PipeSpec

LEMMA AckStep ==
    ASSUME PipeInv, [PipeNext]_pipeVars, NEW i \in Held \ Held'
    PROVE  i \in noted \cup letters \cup 1..cut \/ (i \in prices /\ raw[i].url \in DOMAIN rows)
  <1>1. CASE UNCHANGED pending
    BY <1>1 DEF Held
  <1>2. CASE \E j \in Ids : MoveLetter(j)
    <2>1. PICK j \in Ids : MoveLetter(j)
      BY <1>2
    <2>2. j \in letters /\ pending' = Released({j})
      BY <2>1 DEF MoveLetter, Held
    <2>3. i = j
      BY <2>2 DEF Released, Held
    <2>. QED
      BY <2>2, <2>3
  <1>3. CASE AckBatch
    <2>1. batcher = "ack" /\ pending' = Released(batch)
      BY <1>3 DEF AckBatch
    <2>2. i \in batch
      BY <2>1 DEF Released, Held
    <2>. QED
      BY <2>1, <2>2 DEF PipeInv, BatchCovered, Kept
  <1>4. CASE Reader
    <2>1. CASE ReadHeld \/ ReadUnread
      BY <2>1 DEF ReadHeld, ReadUnread, Held
    <2>2. CASE PutNone
      BY <2>2 DEF PutNone, pipeRedis, Held
    <2>3. CASE Put
      <3>1. inHand # <<>> /\ Head(inHand) < 0 /\ pending' = Released({-Head(inHand)})
        BY <2>3 DEF Put, Held
      <3>2. Head(inHand) \in HandIds
        BY <3>1, HeadTailProperties DEF PipeInv, NumsOK
      <3>3. Len(raw) \in Nat
        BY LenProperties DEF PipeInv, NumsOK
      <3>4. -Head(inHand) \in 1..cut
        BY <3>1, <3>2, <3>3 DEF HandIds
      <3>5. i = -Head(inHand)
        BY <3>1 DEF Released, Held
      <3>. QED
        BY <3>4, <3>5
    <2>. QED
      BY <1>4, <2>1, <2>2, <2>3 DEF Reader
  <1>5. CASE (\E l \in Listings : PipePublish(l)) \/ Launch \/ BeginStages \/ Exit \/ Signal \/ Die
    BY <1>1, <1>5 DEF PipePublish, Launch, BeginStages, Exit, Signal, Die, Gone, pipeRedis
  <1>6. CASE LoopTop \/ GetTimesOut \/ Collect \/ GetNone \/ Parse \/ ResolveAndEnqueue \/ Awaited
    BY <1>1, <1>6 DEF LoopTop, GetTimesOut, Collect, GetNone, Parse, ResolveAndEnqueue, Awaited
  <1>7. CASE Writer
    BY <1>1, <1>7 DEF Writer, Late, StartFlush, EndFlushing, LateDone, HalfDone, HalfFails, WriterOnly, pipeRedis
  <1>8. CASE UNCHANGED pipeVars
    BY <1>1, <1>8 DEF pipeVars, pipeRedis
  <1>. QED
    BY <1>2, <1>3, <1>4, <1>5, <1>6, <1>7, <1>8 DEF PipeNext, Main, Batcher

\* No message is acknowledged unread or unwritten: over every crash, every flush
\* that fails half-way and every second reading (batch_process_stage and
\* reader_stage of pipeline.py).
THEOREM AcknowledgedIsKept == PipeSpec => AckedIsKept
  <1>1. PipeInv /\ [PipeNext]_pipeVars =>
          (\/ \A i \in Held \ Held' :
                 \/ i \in noted \cup letters \cup 1..cut
                 \/ i \in prices /\ raw[i].url \in DOMAIN rows
           \/ UNCHANGED pipeVars)
    BY AckStep
  <1>. QED
    BY <1>1, PipelineInvariance, PTL DEF PipeSpec, AckedIsKept

-----------------------------------------------------------------------------
(* The order of messages *)

\* The later messages of X come after every earlier one of r.
Followed(r, X) ==
    \A b \in DOMAIN r, i \in X : 0 < r[b] /\ r[b] < i => \E c \in DOMAIN r : b < c /\ r[c] = i

\* So do those of s, in s or in what comes after it.
Ends(s, r) ==
    \A b \in DOMAIN s, i \in Range(s) :
        s[b] < i => i \in Range(r) \/ \E c \in DOMAIN s : b < c /\ s[c] = i

\* What is held and earlier than a message of r is in T, or comes before it.
Preceded(r, H, T) ==
    \A a \in DOMAIN r, k \in H :
        k < r[a] => k \in T \/ \E b \in DOMAIN r : b < a /\ r[b] \in {k, -k}

\* What is held and earlier than a message without fields has none either.
TrimmedFirst(h, H) ==
    \A a \in DOMAIN h, k \in H : k < -h[a] => \E b \in DOMAIN h : b < a /\ h[b] = -k

\* w is r without its element at m.
Dropped(r, w, m) ==
    /\ w \in Seq(Int) /\ m \in 1..Len(r) /\ Len(w) = Len(r) - 1
    /\ \A c \in 1..Len(w) : w[c] = IF c < m THEN r[c] ELSE r[c + 1]

LEMMA Joined ==
    ASSUME NEW r \in Seq(Int), NEW t \in Seq(Int)
    PROVE  /\ r \o t \in Seq(Int) /\ Len(r \o t) = Len(r) + Len(t) /\ DOMAIN (r \o t) = 1..(Len(r) + Len(t))
           /\ \A a \in 1..Len(r) : a \in DOMAIN (r \o t) /\ (r \o t)[a] = r[a]
           /\ \A a \in 1..Len(t) : Len(r) + a \in DOMAIN (r \o t) /\ (r \o t)[Len(r) + a] = t[a]
           /\ \A a \in DOMAIN (r \o t) : a \in 1..Len(r) \/ a - Len(r) \in 1..Len(t)
           /\ Range(r \o t) = Range(r) \cup Range(t)
  <1>1. Len(r) \in Nat /\ Len(t) \in Nat /\ DOMAIN r = 1..Len(r) /\ DOMAIN t = 1..Len(t)
    BY LenProperties
  <1>. PICK w : w = r \o t
    OBVIOUS
  <1>2. /\ w \in Seq(Int) /\ Len(w) = Len(r) + Len(t)
        /\ \A a \in 1..(Len(r) + Len(t)) : w[a] = IF a <= Len(r) THEN r[a] ELSE t[a - Len(r)]
    BY ConcatProperties
  <1>3. DOMAIN w = 1..(Len(r) + Len(t))
    BY <1>2, LenProperties
  <1>4. \A a \in 1..Len(r) : a \in DOMAIN w /\ w[a] = r[a]
    BY <1>1, <1>2, <1>3
  <1>5. ASSUME NEW a \in 1..Len(t)
        PROVE  Len(r) + a \in DOMAIN w /\ w[Len(r) + a] = t[a]
    <2>1. Len(r) + a \in 1..(Len(r) + Len(t)) /\ ~(Len(r) + a <= Len(r)) /\ (Len(r) + a) - Len(r) = a
      BY <1>1
    <2>. QED
      BY <1>2, <1>3, <2>1
  <1>6. \A a \in DOMAIN w : a \in 1..Len(r) \/ a - Len(r) \in 1..Len(t)
    BY <1>1, <1>3
  <1>7. \A a \in DOMAIN w : w[a] \in Range(r) \cup Range(t)
    <2>1. \A a \in 1..Len(r) : w[a] \in Range(r)
      BY <1>1, <1>4 DEF Range
    <2>2. \A a \in DOMAIN w : a \notin 1..Len(r) => w[a] = t[a - Len(r)] /\ a - Len(r) \in DOMAIN t
      BY <1>1, <1>2, <1>3
    <2>3. \A a \in DOMAIN t : t[a] \in Range(t)
      BY DEF Range
    <2>. QED
      BY <2>1, <2>2, <2>3
  <1>8. Range(r) \subseteq Range(w)
    BY <1>1, <1>4 DEF Range
  <1>9. Range(t) \subseteq Range(w)
    BY <1>1, <1>5 DEF Range
  <1>10. Range(w) \subseteq Range(r) \cup Range(t)
    BY <1>7 DEF Range
  <1>. QED
    BY <1>2, <1>3, <1>4, <1>5, <1>6, <1>8, <1>9, <1>10

LEMMA DroppedPlaces ==
    ASSUME NEW r \in Seq(Int), NEW w, NEW m, Dropped(r, w, m)
    PROVE  /\ Len(r) \in Nat /\ Len(w) \in Nat /\ DOMAIN r = 1..Len(r) /\ DOMAIN w = 1..Len(w)
           /\ \A b \in DOMAIN w : \E a \in DOMAIN r : a # m /\ w[b] = r[a] /\ (IF b < m THEN a = b ELSE a = b + 1)
           /\ \A a \in DOMAIN r : a # m => \E b \in DOMAIN w : w[b] = r[a] /\ (IF a < m THEN b = a ELSE b = a - 1)
           /\ Range(r) = Range(w) \cup {r[m]}
  <1>1. Len(r) \in Nat /\ DOMAIN r = 1..Len(r) /\ Len(w) \in Nat /\ DOMAIN w = 1..Len(w)
    BY LenProperties DEF Dropped
  <1>2. /\ m \in 1..Len(r) /\ Len(w) = Len(r) - 1 /\ m \in Int
        /\ \A c \in 1..Len(w) : w[c] = IF c < m THEN r[c] ELSE r[c + 1]
    BY DEF Dropped
  <1>3. ASSUME NEW b \in DOMAIN w
        PROVE  \E a \in DOMAIN r : a # m /\ w[b] = r[a] /\ (IF b < m THEN a = b ELSE a = b + 1)
    <2>1. CASE b < m
      <3>1. b \in DOMAIN r /\ b # m /\ w[b] = r[b]
        BY <1>1, <1>2, <2>1
      <3>. QED
        BY <2>1, <3>1
    <2>2. CASE ~(b < m)
      <3>1. b + 1 \in DOMAIN r /\ b + 1 # m /\ w[b] = r[b + 1]
        BY <1>1, <1>2, <2>2
      <3>. QED
        BY <2>2, <3>1
    <2>. QED
      BY <2>1, <2>2
  <1>4. ASSUME NEW a \in DOMAIN r, a # m
        PROVE  \E b \in DOMAIN w : w[b] = r[a] /\ (IF a < m THEN b = a ELSE b = a - 1)
    <2>1. CASE a < m
      <3>1. a \in DOMAIN w /\ w[a] = r[a]
        BY <1>1, <1>2, <2>1
      <3>. QED
        BY <2>1, <3>1
    <2>2. CASE ~(a < m)
      <3>1. a - 1 \in DOMAIN w /\ ~(a - 1 < m) /\ (a - 1) + 1 = a
        BY <1>1, <1>2, <1>4, <2>2
      <3>2. w[a - 1] = r[a]
        BY <1>1, <1>2, <3>1
      <3>. QED
        BY <2>2, <3>1, <3>2
    <2>. QED
      BY <2>1, <2>2
  <1>5. Range(w) \subseteq Range(r)
    BY <1>3 DEF Range
  <1>6. r[m] \in Range(r)
    BY <1>1, <1>2 DEF Range
  <1>7. Range(r) \subseteq Range(w) \cup {r[m]}
    BY <1>4 DEF Range
  <1>. QED
    BY <1>1, <1>3, <1>4, <1>5, <1>6, <1>7

\* Of what is dropped, the first or one without fields, nothing comes after
\* anything else.
LEMMA FollowedDropped ==
    ASSUME NEW r \in Seq(Int), NEW w, NEW m, Dropped(r, w, m), m = 1 \/ r[m] <= 0,
           NEW X, NEW Y, Y \subseteq X, X \subseteq Int, Followed(r, X)
    PROVE  Followed(w, Y)
  <1>0. /\ Len(r) \in Nat /\ Len(w) \in Nat /\ DOMAIN r = 1..Len(r) /\ DOMAIN w = 1..Len(w)
        /\ \A b \in DOMAIN w : \E a \in DOMAIN r : a # m /\ w[b] = r[a] /\ (IF b < m THEN a = b ELSE a = b + 1)
        /\ \A a \in DOMAIN r : a # m => \E b \in DOMAIN w : w[b] = r[a] /\ (IF a < m THEN b = a ELSE b = a - 1)
    BY DroppedPlaces
  <1>. m \in Int
    BY LenProperties DEF Dropped
  <1>1. SUFFICES ASSUME NEW b \in DOMAIN w, NEW i \in Y, 0 < w[b], w[b] < i
                 PROVE  \E d \in DOMAIN w : b < d /\ w[d] = i
    BY DEF Followed
  <1>2. PICK a \in DOMAIN r : a # m /\ w[b] = r[a] /\ (IF b < m THEN a = b ELSE a = b + 1)
    BY <1>0
  <1>3. PICK c \in DOMAIN r : a < c /\ r[c] = i
    BY <1>1, <1>2 DEF Followed
  <1>4. c # m
    <2>1. r[a] \in Int /\ r[c] \in Int
      BY <1>0, ElementOfSeq
    <2>. QED
      BY <1>0, <1>1, <1>2, <1>3, <2>1
  <1>5. PICK d \in DOMAIN w : w[d] = r[c] /\ (IF c < m THEN d = c ELSE d = c - 1)
    BY <1>0, <1>4
  <1>6. b < d
    <2>1. a \in Int /\ b \in Int /\ c \in Int /\ d \in Int
      BY <1>0
    <2>. QED
      BY <1>2, <1>3, <1>4, <1>5, <2>1
  <1>. QED
    BY <1>3, <1>5, <1>6

LEMMA PrecededDropped ==
    ASSUME NEW r \in Seq(Int), NEW w, NEW m, Dropped(r, w, m), NEW H, NEW T, Preceded(r, H, T),
           NEW G \in SUBSET H, NEW U, T \cap G \subseteq U, \A k \in G : r[m] \in {k, -k} => k \in U
    PROVE  Preceded(w, G, U)
  <1>0. /\ Len(r) \in Nat /\ Len(w) \in Nat /\ DOMAIN r = 1..Len(r) /\ DOMAIN w = 1..Len(w)
        /\ \A b \in DOMAIN w : \E a \in DOMAIN r : a # m /\ w[b] = r[a] /\ (IF b < m THEN a = b ELSE a = b + 1)
        /\ \A a \in DOMAIN r : a # m => \E b \in DOMAIN w : w[b] = r[a] /\ (IF a < m THEN b = a ELSE b = a - 1)
    BY DroppedPlaces
  <1>. m \in Int
    BY LenProperties DEF Dropped
  <1>1. SUFFICES ASSUME NEW d \in DOMAIN w, NEW k \in G, k < w[d], k \notin U
                 PROVE  \E b \in DOMAIN w : b < d /\ w[b] \in {k, -k}
    BY DEF Preceded
  <1>2. PICK a \in DOMAIN r : a # m /\ w[d] = r[a] /\ (IF d < m THEN a = d ELSE a = d + 1)
    BY <1>0
  <1>3. PICK c \in DOMAIN r : c < a /\ r[c] \in {k, -k}
    BY <1>1, <1>2 DEF Preceded
  <1>4. c # m
    BY <1>1, <1>3
  <1>5. PICK b \in DOMAIN w : w[b] = r[c] /\ (IF c < m THEN b = c ELSE b = c - 1)
    BY <1>0, <1>4
  <1>6. b < d
    <2>1. a \in Int /\ b \in Int /\ c \in Int /\ d \in Int
      BY <1>0
    <2>. QED
      BY <1>2, <1>3, <1>4, <1>5, <2>1
  <1>. QED
    BY <1>3, <1>5, <1>6

LEMMA FollowedJoined ==
    ASSUME NEW r \in Seq(Int), NEW t \in Seq(Int), NEW X,
           Followed(r, X), Followed(t, X \cup Range(t))
    PROVE  Followed(r \o t, X \cup Range(t))
  <1>. PICK w : w = r \o t
    OBVIOUS
  <1>0. /\ Len(r) \in Nat /\ Len(t) \in Nat /\ DOMAIN r = 1..Len(r) /\ DOMAIN t = 1..Len(t)
        /\ DOMAIN w = 1..(Len(r) + Len(t))
        /\ \A a \in 1..Len(r) : a \in DOMAIN w /\ w[a] = r[a]
        /\ \A a \in 1..Len(t) : Len(r) + a \in DOMAIN w /\ w[Len(r) + a] = t[a]
        /\ \A a \in DOMAIN w : a \in 1..Len(r) \/ a - Len(r) \in 1..Len(t)
    BY Joined, LenProperties
  <1>1. SUFFICES ASSUME NEW b \in DOMAIN w, NEW i \in X \cup Range(t), 0 < w[b], w[b] < i
                 PROVE  \E c \in DOMAIN w : b < c /\ w[c] = i
    BY DEF Followed
  <1>2. CASE b \in 1..Len(r)
    <2>1. w[b] = r[b]
      BY <1>0, <1>2
    <2>2. CASE i \in X
      <3>1. PICK c \in DOMAIN r : b < c /\ r[c] = i
        BY <1>0, <1>1, <1>2, <2>1, <2>2 DEF Followed
      <3>. QED
        BY <1>0, <3>1
    <2>3. CASE i \in Range(t)
      <3>1. PICK c \in 1..Len(t) : t[c] = i
        BY <1>0, <2>3 DEF Range
      <3>2. Len(r) + c \in DOMAIN w /\ w[Len(r) + c] = i /\ b < Len(r) + c
        BY <1>0, <1>2, <3>1
      <3>. QED
        BY <3>2
    <2>. QED
      BY <2>2, <2>3
  <1>3. CASE b - Len(r) \in 1..Len(t)
    <2>. PICK e \in 1..Len(t) : e = b - Len(r)
      BY <1>3
    <2>1. w[b] = t[e] /\ b = Len(r) + e
      BY <1>0
    <2>2. PICK c \in DOMAIN t : e < c /\ t[c] = i
      BY <1>0, <1>1, <2>1 DEF Followed
    <2>3. Len(r) + c \in DOMAIN w /\ w[Len(r) + c] = i /\ b < Len(r) + c
      BY <1>0, <2>1, <2>2
    <2>. QED
      BY <2>3
  <1>. QED
    BY <1>0, <1>2, <1>3

LEMMA PrecededJoined ==
    ASSUME NEW r \in Seq(Int), NEW t \in Seq(Int), NEW H, NEW T, Preceded(r, H, T),
           \A a \in DOMAIN t, k \in H : k < t[a] =>
              \/ k \in T \/ k \in Range(r) \/ -k \in Range(r)
              \/ \E b \in DOMAIN t : b < a /\ t[b] \in {k, -k}
    PROVE  Preceded(r \o t, H, T)
  <1>. PICK w : w = r \o t
    OBVIOUS
  <1>0. /\ Len(r) \in Nat /\ Len(t) \in Nat /\ DOMAIN r = 1..Len(r) /\ DOMAIN t = 1..Len(t)
        /\ DOMAIN w = 1..(Len(r) + Len(t))
        /\ \A a \in 1..Len(r) : a \in DOMAIN w /\ w[a] = r[a]
        /\ \A a \in 1..Len(t) : Len(r) + a \in DOMAIN w /\ w[Len(r) + a] = t[a]
        /\ \A a \in DOMAIN w : a \in 1..Len(r) \/ a - Len(r) \in 1..Len(t)
    BY Joined, LenProperties
  <1>1. SUFFICES ASSUME NEW a \in DOMAIN w, NEW k \in H, k < w[a], k \notin T
                 PROVE  \E b \in DOMAIN w : b < a /\ w[b] \in {k, -k}
    BY DEF Preceded
  <1>2. CASE a \in 1..Len(r)
    <2>1. PICK b \in DOMAIN r : b < a /\ r[b] \in {k, -k}
      BY <1>0, <1>1, <1>2 DEF Preceded
    <2>. QED
      BY <1>0, <2>1
  <1>3. CASE a - Len(r) \in 1..Len(t)
    <2>. PICK e \in 1..Len(t) : e = a - Len(r)
      BY <1>3
    <2>1. w[a] = t[e] /\ a = Len(r) + e
      BY <1>0
    <2>2. CASE \E n \in {k, -k} : n \in Range(r)
      <3>1. PICK b \in 1..Len(r) : r[b] \in {k, -k}
        BY <1>0, <2>2 DEF Range
      <3>2. b < a
        BY <1>0, <2>1
      <3>. QED
        BY <1>0, <3>1, <3>2
    <2>3. CASE \E b \in DOMAIN t : b < e /\ t[b] \in {k, -k}
      <3>1. PICK b \in 1..Len(t) : b < e /\ t[b] \in {k, -k}
        BY <1>0, <2>3
      <3>2. Len(r) + b \in DOMAIN w /\ w[Len(r) + b] = t[b] /\ Len(r) + b < a
        BY <1>0, <2>1, <3>1
      <3>. QED
        BY <3>1, <3>2
    <2>. QED
      BY <1>0, <1>1, <2>1, <2>2, <2>3
  <1>. QED
    BY <1>0, <1>2, <1>3

-----------------------------------------------------------------------------
\* What the batch stage has not taken yet, all it may still write, and its batch.
Rest == queue \o inHand
Line == Range(parsed) \cup Range(Rest)
Taken == Range(parsed) \cup batch

Bounded ==
    /\ readUpTo \in Nat /\ readUpTo <= Len(raw)
    /\ Held \cup prices \cup batch \subseteq 1..readUpTo /\ Line \subseteq -readUpTo..readUpTo

\* Where the batch is while nothing has failed.
InStages ==
    /\ late = {} /\ result # "failed"
    /\ noted \cap prices = {} /\ noted \cap (Range(buffered) \cup Range(flight)) = {}
    /\ batcher \in {"top", "wait", "collect", "parse", "done"} => batch = {}
    /\ batcher \in {"top", "wait", "done"} => parsed = <<>>
    /\ batcher \in {"resolve", "await", "ack"} => Range(parsed) \subseteq batch
    /\ batcher = "resolve" => noted \cap Range(parsed) = {}
    /\ half = {} => flight = <<>>
    /\ Range(flight) \cup Range(buffered) \subseteq Range(parsed)
    /\ stage # "up" => queue = <<>> /\ inHand = <<>> /\ reader = "done"
    /\ batcher \in {"top", "wait", "collect", "parse", "resolve", "await", "ack", "done"}

\* The last message of a url comes last, of all that is on its way.
InOrder ==
    /\ Ends(parsed, Rest) /\ Ends(buffered, Rest) /\ Ends(flight, Rest)
    /\ Followed(Rest, Line)
    /\ \A i \in batch, k \in Range(Rest) : 0 < k /\ k < i => i \in Range(Rest)

\* What is pending is read again before anything later is acknowledged.
HeldFirst ==
    /\ \A k \in Held, i \in Taken : k < i => k \in Taken
    /\ Preceded(Rest, Held, Taken)
    /\ TrimmedFirst(inHand, Held)
    /\ \A k \in Held, i \in prices \cup Line \cup Taken : k < i => i \in Held
    /\ reader = "new" => \A k \in Held : k \in Taken \/ k \in Range(Rest) \/ -k \in Range(Rest)
    /\ reader = "drain" => (Line \cup Taken) \cap Held \subseteq Earliest(Held, ReadBatch)

\* A row is that of the last message written, or a later one is written again.
RowIsLatest(i) == raw[i].url \in DOMAIN rows /\ i <= rows[raw[i].url]
RowsInOrder ==
    /\ \A k \in Line, i \in prices : 0 < k /\ k < i => i \in Held \cup Line
    /\ \A i \in prices : raw[i].url \notin DOMAIN rows \/ RowIsLatest(i) \/ i \in Held \cup Line
    /\ half # {} /\ "upsert" \notin half => \A i \in Range(flight) : RowIsLatest(i) \/ i \in Range(Rest)
    /\ batcher = "ack" \/ result # "none" => \A i \in batch \cap prices : RowIsLatest(i) \/ i \in Range(Rest)

CoreInv == Bounded /\ InStages /\ InOrder /\ HeldFirst /\ RowsInOrder
Quiet == mishaps = 0 /\ ~torn
OrderInv == mishaps \in Nat /\ (Quiet => CoreInv)

LEMMA RestTypes ==
    ASSUME NumsOK
    PROVE  /\ queue \in Seq(Int) /\ inHand \in Seq(Int) /\ parsed \in Seq(Int) /\ buffered \in Seq(Int)
           /\ flight \in Seq(Int) /\ Rest \in Seq(Int) /\ Len(queue) \in Nat /\ Len(inHand) \in Nat
           /\ DOMAIN Rest = 1..(Len(queue) + Len(inHand)) /\ Len(Rest) = Len(queue) + Len(inHand)
           /\ DOMAIN inHand = 1..Len(inHand) /\ DOMAIN queue = 1..Len(queue)
           /\ \A a \in DOMAIN queue : a \in DOMAIN Rest /\ Rest[a] = queue[a] /\ queue[a] \in 0..Len(raw)
           /\ \A a \in DOMAIN inHand : Len(queue) + a \in DOMAIN Rest /\ Rest[Len(queue) + a] = inHand[a]
           /\ Range(Rest) = Range(queue) \cup Range(inHand)
           /\ Held \subseteq 1..Len(raw) /\ Len(raw) \in Nat /\ cut \in Nat
  <1>1. /\ queue \in Seq(0..Len(raw)) /\ inHand \in Seq(HandIds) /\ parsed \in Seq(1..Len(raw))
        /\ buffered \in Seq(1..Len(raw)) /\ flight \in Seq(1..Len(raw)) /\ Len(raw) \in Nat
        /\ Held \subseteq 1..Len(raw) /\ cut \in Nat
    BY LenProperties DEF NumsOK
  <1>2. HandIds \subseteq Int /\ 0..Len(raw) \subseteq Int /\ 1..Len(raw) \subseteq Int
    BY DEF HandIds
  <1>3. queue \in Seq(Int) /\ inHand \in Seq(Int) /\ parsed \in Seq(Int) /\ buffered \in Seq(Int) /\ flight \in Seq(Int)
    BY <1>1, <1>2, SeqWidens
  <1>4. /\ Len(queue) \in Nat /\ Len(inHand) \in Nat
        /\ DOMAIN inHand = 1..Len(inHand) /\ DOMAIN queue = 1..Len(queue)
    BY <1>3, LenProperties
  <1>5. \A a \in 1..Len(queue) : queue[a] \in 0..Len(raw)
    BY <1>1, ElementOfSeq
  <1>6. /\ Rest \in Seq(Int) /\ DOMAIN Rest = 1..(Len(queue) + Len(inHand)) /\ Len(Rest) = Len(queue) + Len(inHand)
        /\ Range(Rest) = Range(queue) \cup Range(inHand)
    BY <1>3, Joined DEF Rest
  <1>7. \A a \in 1..Len(queue) : a \in DOMAIN Rest /\ Rest[a] = queue[a]
    BY <1>3, Joined DEF Rest
  <1>8. \A a \in 1..Len(inHand) : Len(queue) + a \in DOMAIN Rest /\ Rest[Len(queue) + a] = inHand[a]
    BY <1>3, Joined DEF Rest
  <1>. QED
    BY <1>1, <1>3, <1>4, <1>5, <1>6, <1>7, <1>8

\* Taking the first of s: of the two parts it is followed by, or of the second.
LEMMA TailDropped ==
    ASSUME NEW s \in Seq(Int), s # <<>>
    PROVE  Dropped(s, Tail(s), 1) /\ Head(s) = s[1] /\ s[1] \in Int /\ 1 \in DOMAIN s
  <1>1. Len(s) \in Nat /\ Len(s) # 0 /\ DOMAIN s = 1..Len(s)
    BY LenProperties, EmptySeq
  <1>. PICK w : w = Tail(s)
    OBVIOUS
  <1>2. w \in Seq(Int) /\ Len(w) = Len(s) - 1 /\ \A c \in 1..Len(w) : w[c] = s[c + 1]
    BY HeadTailProperties
  <1>3. \A c \in 1..Len(w) : ~(c < 1)
    BY <1>1, <1>2
  <1>4. Dropped(s, w, 1)
    BY <1>1, <1>2, <1>3 DEF Dropped
  <1>5. Head(s) = s[1] /\ s[1] \in Int
    BY <1>1, ElementOfSeq
  <1>. QED
    BY <1>1, <1>4, <1>5

LEMMA FirstDropped ==
    ASSUME NEW r \in Seq(Int), NEW t \in Seq(Int), NEW w, NEW m, Dropped(r, w, m)
    PROVE  Dropped(r \o t, w \o t, m) /\ (r \o t)[m] = r[m]
  <1>. PICK u : u = r \o t
    OBVIOUS
  <1>0. /\ Len(r) \in Nat /\ Len(t) \in Nat /\ DOMAIN r = 1..Len(r) /\ DOMAIN t = 1..Len(t)
        /\ u \in Seq(Int) /\ Len(u) = Len(r) + Len(t)
        /\ \A a \in 1..(Len(r) + Len(t)) : u[a] = IF a <= Len(r) THEN r[a] ELSE t[a - Len(r)]
    BY ConcatProperties, LenProperties
  <1>. PICK v : v = w \o t
    OBVIOUS
  <1>1. /\ w \in Seq(Int) /\ m \in 1..Len(r) /\ Len(w) = Len(r) - 1 /\ Len(w) \in Nat
        /\ \A c \in 1..Len(w) : w[c] = IF c < m THEN r[c] ELSE r[c + 1]
    BY LenProperties DEF Dropped
  <1>2. /\ v \in Seq(Int) /\ Len(v) = Len(w) + Len(t)
        /\ \A a \in 1..(Len(w) + Len(t)) : v[a] = IF a <= Len(w) THEN w[a] ELSE t[a - Len(w)]
    BY <1>1, ConcatProperties
  <1>3. m \in 1..Len(u) /\ Len(v) = Len(u) - 1 /\ u[m] = r[m]
    BY <1>0, <1>1, <1>2
  <1>4. ASSUME NEW c \in 1..Len(v)
        PROVE  v[c] = IF c < m THEN u[c] ELSE u[c + 1]
    <2>1. CASE c <= Len(w)
      <3>1. v[c] = w[c] /\ u[c] = r[c] /\ u[c + 1] = r[c + 1] /\ c \in 1..Len(w)
        BY <1>0, <1>1, <1>2, <2>1
      <3>. QED
        BY <1>1, <3>1
    <2>2. CASE ~(c <= Len(w))
      <3>1. v[c] = t[c - Len(w)] /\ u[c + 1] = t[(c + 1) - Len(r)] /\ ~(c < m) /\ (c + 1) - Len(r) = c - Len(w)
        BY <1>0, <1>1, <1>2, <2>2
      <3>. QED
        BY <3>1
    <2>. QED
      BY <2>1, <2>2
  <1>. QED
    BY <1>2, <1>3, <1>4 DEF Dropped

LEMMA SecondDropped ==
    ASSUME NEW r \in Seq(Int), NEW t \in Seq(Int), NEW w, NEW m \in Int, Dropped(t, w, m),
           NEW k, k = Len(r) + m
    PROVE  Dropped(r \o t, r \o w, k)
  <1>. PICK u : u = r \o t
    OBVIOUS
  <1>0. /\ Len(r) \in Nat /\ Len(t) \in Nat /\ DOMAIN r = 1..Len(r) /\ DOMAIN t = 1..Len(t)
        /\ u \in Seq(Int) /\ Len(u) = Len(r) + Len(t)
        /\ \A a \in 1..(Len(r) + Len(t)) : u[a] = IF a <= Len(r) THEN r[a] ELSE t[a - Len(r)]
    BY ConcatProperties, LenProperties
  <1>. PICK v : v = r \o w
    OBVIOUS
  <1>1. /\ w \in Seq(Int) /\ m \in 1..Len(t) /\ Len(w) = Len(t) - 1 /\ Len(w) \in Nat
        /\ \A c \in 1..Len(w) : w[c] = IF c < m THEN t[c] ELSE t[c + 1]
    BY LenProperties DEF Dropped
  <1>2. /\ v \in Seq(Int) /\ Len(v) = Len(r) + Len(w)
        /\ \A a \in 1..(Len(r) + Len(w)) : v[a] = IF a <= Len(r) THEN r[a] ELSE w[a - Len(r)]
    BY <1>1, ConcatProperties
  <1>. m \in Int /\ k \in Int
    BY <1>0
  <1>3. k \in 1..Len(u) /\ Len(v) = Len(u) - 1
    BY <1>0, <1>1, <1>2
  <1>5. ASSUME NEW c \in 1..Len(v)
        PROVE  v[c] = IF c < k THEN u[c] ELSE u[c + 1]
    <2>1. CASE c <= Len(r)
      <3>1. v[c] = r[c] /\ u[c] = r[c] /\ c < k
        BY <1>0, <1>1, <1>2, <2>1
      <3>. QED
        BY <3>1
    <2>2. CASE ~(c <= Len(r))
      <3>0. c - Len(r) \in 1..Len(w)
        BY <1>0, <1>1, <1>2, <2>2
      <3>1. PICK d \in 1..Len(w) : d = c - Len(r)
        BY <3>0
      <3>2. v[c] = w[d] /\ u[c] = t[d] /\ u[c + 1] = t[d + 1]
        <4>1. v[c] = w[d]
          BY <1>0, <1>1, <1>2, <2>2, <3>1
        <4>2. u[c] = t[d]
          BY <1>0, <1>1, <1>2, <2>2, <3>1
        <4>3. c + 1 \in 1..(Len(r) + Len(t)) /\ ~(c + 1 <= Len(r)) /\ (c + 1) - Len(r) = d + 1
          BY <1>0, <1>1, <1>2, <2>2, <3>1
        <4>4. u[c + 1] = t[d + 1]
          BY <1>0, <4>3
        <4>. QED
          BY <4>1, <4>2, <4>4
      <3>3. c < k <=> d < m
        <4>1. c \in Int /\ d \in Int /\ Len(r) \in Int
          BY <1>0, <1>1, <1>2
        <4>. QED
          BY <3>1, <4>1
      <3>. QED
        BY <1>1, <3>2, <3>3
    <2>. QED
      BY <2>1, <2>2
  <1>. QED
    BY <1>2, <1>3, <1>5 DEF Dropped

-----------------------------------------------------------------------------
\* What a reading of the numbers of S has in hand, those up to n as negatives.
HandOf(h, S, n) ==
    /\ h \in Seq(Int)
    /\ \A i \in S : i > n => \E a \in DOMAIN h : h[a] = i
    /\ \A i \in S : i <= n => \E a \in DOMAIN h : h[a] = -i
    /\ \A a \in DOMAIN h : (h[a] > n /\ h[a] \in S) \/ (-h[a] \in 1..n /\ -h[a] \in S)
    /\ \A a, b \in DOMAIN h : h[a] < 0 /\ h[b] < 0 /\ h[b] > h[a] => b < a
    /\ \A a, b \in DOMAIN h : h[a] < 0 /\ h[b] > 0 => a < b
    /\ \A a, b \in DOMAIN h : h[a] > 0 /\ h[b] > h[a] => a < b

LEMMA Handed ==
    ASSUME NumsOK, NEW S, S \subseteq 1..Len(raw), NEW h, NEW n \in Nat,
           h = [k \in DOMAIN Sorted(S) |-> IF Sorted(S)[k] > n THEN Sorted(S)[k] ELSE -Sorted(S)[k]]
    PROVE  HandOf(h, S, n)
  <1>. PICK q : q = Sorted(S)
    OBVIOUS
  <1>1. Len(raw) \in Nat
    BY RestTypes
  <1>2. S \in SUBSET Nat /\ IsFiniteSet(S)
    <2>1. IsFiniteSet(1..Len(raw))
      BY <1>1, FS_Interval
    <2>2. S \in SUBSET (1..Len(raw))
      OBVIOUS
    <2>3. IsFiniteSet(S)
      BY <2>1, <2>2, FS_Subset
    <2>. QED
      BY <1>1, <2>2, <2>3
  <1>3. /\ q \in Seq(S) /\ \A a, b \in DOMAIN q : a < b => q[a] < q[b]
        /\ \A i \in S : \E a \in DOMAIN q : q[a] = i
    BY <1>2, SortedTypes
  <1>4. Len(q) \in Nat /\ DOMAIN q = 1..Len(q) /\ \A a \in 1..Len(q) : q[a] \in S
    BY <1>3, LenProperties, ElementOfSeq
  <1>5. \A a \in 1..Len(q) : q[a] \in S /\ q[a] \in Int /\ q[a] > 0
    <2>1. \A i \in S : i \in Int /\ i > 0
      BY <1>1
    <2>. QED
      BY <1>4, <2>1
  <1>6. DOMAIN h = 1..Len(q) /\ \A a \in 1..Len(q) : h[a] = IF q[a] > n THEN q[a] ELSE -q[a]
    BY <1>4
  <1>7. h \in Seq(Int)
    <2>1. \A a \in 1..Len(q) : h[a] \in Int
      BY <1>5, <1>6
    <2>2. h \in [1..Len(q) -> Int]
      BY <1>4, <2>1
    <2>. QED
      BY <1>4, <2>2, SeqDef
  <1>8. \A a, b \in 1..Len(q) : a \in Int /\ b \in Int /\ (a < b => q[a] < q[b]) /\ (b < a => q[b] < q[a])
    BY <1>3, <1>4
  <1>9. \A i \in S : \E a \in 1..Len(q) : q[a] = i
    BY <1>3, <1>4
  <1>10. \A i \in S : i > n => \E a \in DOMAIN h : h[a] = i
    BY <1>6, <1>9
  <1>11. \A i \in S : i <= n => \E a \in DOMAIN h : h[a] = -i
    <2>1. \A i \in S : i <= n => ~(i > n)
      BY <1>2
    <2>. QED
      BY <1>6, <1>9, <2>1
  <1>12. \A a \in DOMAIN h : (h[a] > n /\ h[a] \in S) \/ (-h[a] \in 1..n /\ -h[a] \in S)
    <2>1. ASSUME NEW a \in DOMAIN h
          PROVE  (h[a] > n /\ h[a] \in S) \/ (-h[a] \in 1..n /\ -h[a] \in S)
      <3>. PICK x \in Int : x = q[a] /\ x > 0 /\ x \in S
        BY <1>5, <1>6
      <3>1. h[a] = IF x > n THEN x ELSE -x
        BY <1>6
      <3>2. -(-x) = x
        OBVIOUS
      <3>. QED
        BY <3>1, <3>2
    <2>. QED
      BY <2>1
  <1>13. ASSUME NEW a \in DOMAIN h, NEW b \in DOMAIN h
         PROVE  /\ h[a] < 0 /\ h[b] < 0 /\ h[b] > h[a] => b < a
                /\ h[a] < 0 /\ h[b] > 0 => a < b
                /\ h[a] > 0 /\ h[b] > h[a] => a < b
    <2>. PICK x \in Int : x = q[a] /\ x > 0
      BY <1>5, <1>6
    <2>. PICK y \in Int : y = q[b] /\ y > 0
      BY <1>5, <1>6
    <2>1. /\ h[a] = IF x > n THEN x ELSE -x
          /\ h[b] = IF y > n THEN y ELSE -y
          /\ a \in Int /\ b \in Int /\ (a < b => x < y) /\ (b < a => y < x) /\ (a = b => x = y)
      BY <1>6, <1>8
    <2>. QED
      BY <2>1
  <1>. QED
    BY <1>7, <1>10, <1>11, <1>12, <1>13 DEF HandOf

\* Putting the first one: it changes hands, or a message without fields goes.
LEMMA PutRest ==
    ASSUME NumsOK, Put
    PROVE  /\ Dropped(inHand, inHand', 1) /\ inHand[1] \in Int
           /\ \/ inHand[1] > 0 /\ Rest' = Rest /\ Held' = Held
              \/ /\ inHand[1] < 0 /\ Dropped(Rest, Rest', Len(queue) + 1) /\ Rest[Len(queue) + 1] = inHand[1]
                 /\ Held' = Held \ {-inHand[1]} /\ torn' = (torn \/ -inHand[1] \in prices)
           /\ UNCHANGED <<cut, readUpTo, reader, pipeTables, batchVars, writerVars, stage>>
  <1>0. /\ queue \in Seq(Int) /\ inHand \in Seq(Int)
        /\ Len(queue) \in Nat /\ Len(inHand) \in Nat /\ DOMAIN inHand = 1..Len(inHand)
    BY RestTypes
  <1>1. inHand # <<>> /\ inHand' = Tail(inHand)
    BY DEF Put
  <1>2. Dropped(inHand, Tail(inHand), 1) /\ Head(inHand) = inHand[1] /\ inHand[1] \in Int
    BY <1>0, <1>1, TailDropped
  <1>3. UNCHANGED <<cut, readUpTo, reader, pipeTables, batchVars, writerVars, stage>>
    BY DEF Put, ReaderOnly, mainVars
  <1>4. CASE Head(inHand) > 0 /\ queue' = Append(queue, Head(inHand)) /\ UNCHANGED pending
    <2>. PICK e \in Int : e = Head(inHand)
      BY <1>2
    <2>. PICK t : t = Tail(inHand)
      OBVIOUS
    <2>1. /\ t \in Seq(Int) /\ Len(t) = Len(inHand) - 1
          /\ \A c \in 1..Len(t) : t[c] = inHand[c + 1]
      BY <1>0, <1>1, HeadTailProperties
    <2>2. /\ Append(queue, e) \in Seq(Int) /\ Len(Append(queue, e)) = Len(queue) + 1
          /\ Append(queue, e)[Len(queue) + 1] = e /\ \A c \in 1..Len(queue) : Append(queue, e)[c] = queue[c]
      BY <1>0, AppendProperties
    <2>. PICK p \in Seq(Int) : p = Append(queue, e)
      BY <2>2
    <2>. PICK u \in Seq(Int) : u = p \o t
      BY <2>1, ConcatProperties
    <2>. PICK v \in Seq(Int) : v = queue \o inHand
      BY <1>0, ConcatProperties
    <2>3. /\ Len(u) = Len(p) + Len(t)
          /\ \A c \in 1..(Len(p) + Len(t)) : u[c] = IF c <= Len(p) THEN p[c] ELSE t[c - Len(p)]
      BY <2>1, ConcatProperties
    <2>4. /\ Len(v) = Len(queue) + Len(inHand)
          /\ \A c \in 1..(Len(queue) + Len(inHand)) : v[c] = IF c <= Len(queue) THEN queue[c] ELSE inHand[c - Len(queue)]
      BY <1>0, ConcatProperties
    <2>5. Len(p) = Len(queue) + 1 /\ p[Len(queue) + 1] = e /\ \A c \in 1..Len(queue) : p[c] = queue[c]
      BY <2>2
    <2>6. Len(u) = Len(v) /\ Len(v) \in Nat
      BY <1>0, <2>1, <2>3, <2>4, <2>5
    <2>7. ASSUME NEW c \in 1..Len(v)
          PROVE  u[c] = v[c]
      <3>1. CASE c <= Len(queue)
        <4>1. u[c] = queue[c]
          BY <1>0, <2>1, <2>3, <2>4, <2>5, <3>1
        <4>2. v[c] = queue[c]
          BY <2>4, <3>1
        <4>. QED
          BY <4>1, <4>2
      <3>2. CASE c = Len(queue) + 1
        <4>1. u[c] = e
          <5>1. c \in 1..(Len(p) + Len(t)) /\ c <= Len(p)
            BY <1>0, <2>1, <2>4, <2>5, <3>2
          <5>. QED
            BY <2>3, <2>5, <3>2, <5>1
        <4>2. v[c] = inHand[1]
          <5>1. c - Len(queue) = 1 /\ ~(c <= Len(queue))
            BY <1>0, <3>2
          <5>. QED
            BY <2>4, <5>1
        <4>. QED
          BY <1>2, <4>1, <4>2
      <3>3. CASE c > Len(queue) + 1
        <4>1. c - Len(p) \in 1..Len(t) /\ ~(c <= Len(p)) /\ ~(c <= Len(queue)) /\ (c - Len(p)) + 1 = c - Len(queue)
              /\ c \in 1..(Len(p) + Len(t)) /\ c \in 1..(Len(queue) + Len(inHand))
          BY <1>0, <2>1, <2>4, <2>5, <3>3
        <4>2. u[c] = t[c - Len(p)] /\ v[c] = inHand[c - Len(queue)]
          BY <2>3, <2>4, <4>1
        <4>. QED
          BY <2>1, <4>1, <4>2
      <3>. QED
        BY <1>0, <3>1, <3>2, <3>3
    <2>8. u = v
      BY <2>6, <2>7, SeqEqual
    <2>. QED
      BY <1>1, <1>2, <1>3, <1>4, <2>8 DEF Rest, Held
  <1>5. CASE Head(inHand) < 0 /\ pending' = Released({-Head(inHand)}) /\ UNCHANGED queue
             /\ torn' = (torn \/ -Head(inHand) \in prices)
    <2>1. /\ Dropped(queue \o inHand, queue \o Tail(inHand), Len(queue) + 1)
          /\ (queue \o inHand)[Len(queue) + 1] = inHand[1]
      <3>. PICK w : w = Tail(inHand)
        OBVIOUS
      <3>1. Dropped(inHand, w, 1)
        BY <1>2
      <3>2. Dropped(queue \o inHand, queue \o w, Len(queue) + 1)
        BY <1>0, <3>1, SecondDropped
      <3>3. 1 \in DOMAIN inHand
        BY <1>0, <1>1, TailDropped
      <3>4. (queue \o inHand)[Len(queue) + 1] = inHand[1]
        BY <3>3, RestTypes DEF Rest
      <3>. QED
        BY <3>2, <3>4
    <2>2. Held' = Held \ {-inHand[1]}
      BY <1>2, <1>5 DEF Held, Released
    <2>. QED
      BY <1>1, <1>2, <1>3, <1>5, <2>1, <2>2 DEF Rest
  <1>. QED
    BY <1>4, <1>5 DEF Put

\* Taking the first of the queue.
LEMMA TakeRest ==
    ASSUME NumsOK, queue # <<>>, queue' = Tail(queue), UNCHANGED inHand
    PROVE  Dropped(Rest, Rest', 1) /\ Rest[1] = Head(queue)
  <1>1. queue \in Seq(Int) /\ inHand \in Seq(Int)
    BY RestTypes
  <1>2. Dropped(queue, Tail(queue), 1) /\ Head(queue) = queue[1]
    BY <1>1, TailDropped
  <1>. QED
    BY <1>1, <1>2, FirstDropped DEF Rest

LEMMA HeldRead ==
    ASSUME NumsOK, ReadHeld, NEW S, S = Earliest(Held, ReadBatch)
    PROVE  /\ HandOf(inHand', S, cut) /\ Rest' = Rest \o inHand' /\ inHand = <<>> /\ Range(inHand) = {}
           /\ S \subseteq Held /\ Held' = Held /\ reader = "drain" /\ reader' = IF S = {} THEN "new" ELSE "drain"
           /\ UNCHANGED <<raw, cut, readUpTo, queue, pipeTables, mainVars, batchVars, writerVars>>
  <1>1. S \subseteq Held /\ S \subseteq 1..Len(raw) /\ cut \in Nat
    BY RestTypes DEF Earliest
  <1>2. inHand' = [k \in DOMAIN Sorted(S) |-> IF Sorted(S)[k] > cut THEN Sorted(S)[k] ELSE -Sorted(S)[k]]
    BY DEF ReadHeld
  <1>3. HandOf(inHand', S, cut)
    BY <1>1, <1>2, Handed
  <1>4. /\ inHand = <<>> /\ queue' = queue /\ Held' = Held /\ reader = "drain"
        /\ reader' = IF S = {} THEN "new" ELSE "drain"
    BY DEF ReadHeld, Reading, Held
  <1>5. Rest' = Rest \o inHand'
    BY <1>4, RestTypes, ConcatEmptySeq DEF Rest
  <1>6. UNCHANGED <<raw, cut, readUpTo, queue, pipeTables, mainVars, batchVars, writerVars>>
    BY DEF ReadHeld, ReaderOnly
  <1>7. Range(inHand) = {}
    BY <1>4 DEF Range
  <1>. QED
    BY <1>1, <1>3, <1>4, <1>5, <1>6, <1>7

LEMMA UnreadRead ==
    ASSUME NumsOK, ReadUnread, NEW S, S = Earliest(Unread, ReadBatch), readUpTo \in Nat
    PROVE  /\ HandOf(inHand', S, 0) /\ Rest' = Rest \o inHand' /\ inHand = <<>> /\ Range(inHand) = {}
           /\ S \subseteq 1..Len(raw) /\ (\A i \in S : readUpTo < i /\ i <= readUpTo') /\ readUpTo' \in S
           /\ Held' = Held \cup S /\ reader = "new" /\ reader' = "new"
           /\ UNCHANGED <<raw, queue, pipeTables, mainVars, batchVars, writerVars>>
  <1>1. S \subseteq Unread /\ S \subseteq 1..Len(raw) /\ Len(raw) \in Nat
    BY RestTypes DEF Earliest, Unread
  <1>. PICK q : q = Sorted(S)
    OBVIOUS
  <1>2. IsFiniteSet(S) /\ S \in SUBSET Nat
    <2>1. IsFiniteSet(1..Len(raw))
      BY <1>1, FS_Interval
    <2>2. S \in SUBSET (1..Len(raw))
      BY <1>1
    <2>3. IsFiniteSet(S)
      BY <2>1, <2>2, FS_Subset
    <2>. QED
      BY <1>1, <2>2, <2>3
  <1>3. /\ q \in Seq(S) /\ \A a, b \in DOMAIN q : a < b => q[a] < q[b]
        /\ \A i \in S : \E a \in DOMAIN q : q[a] = i
    BY <1>2, SortedTypes
  <1>4. /\ inHand = <<>> /\ queue' = queue /\ Held' = Held \cup S /\ reader = "new" /\ reader' = "new" /\ S # {}
        /\ inHand' = q /\ readUpTo' = Last(q)
    BY DEF ReadUnread, Reading, Held
  <1>5. Len(q) \in Nat /\ DOMAIN q = 1..Len(q) /\ \A a \in 1..Len(q) : q[a] \in S
    BY <1>3, LenProperties, ElementOfSeq
  <1>6. Len(q) \in DOMAIN q /\ readUpTo' = q[Len(q)]
    <2>1. Len(q) # 0
      BY <1>3, <1>4, <1>5
    <2>. QED
      BY <1>4, <1>5, <2>1 DEF Last
  <1>7. \A i \in S : i \in Int /\ i > 0 /\ readUpTo < i
    BY <1>1, <1>2 DEF Unread
  <1>8. \A i \in S : i <= readUpTo'
    <2>1. ASSUME NEW i \in S PROVE i <= readUpTo'
      <3>1. PICK a \in DOMAIN q : q[a] = i
        BY <1>3
      <3>2. a < Len(q) \/ a = Len(q)
        BY <1>5
      <3>3. q[a] \in Int /\ q[Len(q)] \in Int
        BY <1>5, <1>6, <1>7
      <3>. QED
        BY <1>3, <1>6, <3>1, <3>2, <3>3
    <2>. QED
      BY <2>1
  <1>9. HandOf(q, S, 0)
    <2>1. q = [k \in DOMAIN q |-> IF q[k] > 0 THEN q[k] ELSE -q[k]]
      <3>1. \A k \in DOMAIN q : q[k] > 0
        BY <1>5, <1>7
      <3>2. q = [k \in DOMAIN q |-> q[k]]
        BY <1>3, SeqDef
      <3>. QED
        BY <3>1, <3>2
    <2>. QED
      BY <1>1, <2>1, Handed
  <1>10. Rest' = Rest \o inHand'
    BY <1>4, RestTypes, ConcatEmptySeq DEF Rest
  <1>11. UNCHANGED <<raw, queue, pipeTables, mainVars, batchVars, writerVars>>
    BY DEF ReadUnread, ReaderOnly
  <1>12. Range(inHand) = {}
    BY <1>4 DEF Range
  <1>. QED
    BY <1>1, <1>4, <1>5, <1>6, <1>7, <1>8, <1>9, <1>10, <1>11, <1>12

-----------------------------------------------------------------------------
(* The order of what is on its way *)

LEMMA EmptyOrder ==
    ASSUME NEW r, NEW X, NEW H, NEW T
    PROVE  /\ Ends(<<>>, r) /\ Followed(<<>>, X) /\ Preceded(<<>>, H, T) /\ TrimmedFirst(<<>>, H)
           /\ Range(<<>>) = {}
  BY DEF Ends, Followed, Preceded, TrimmedFirst, Range

\* Outside the wait for the rows nothing is in the write buffer or in a flush.
LEMMA NothingInFlight ==
    ASSUME OneBatchAtATime, InStages, batcher # "await"
    PROVE  buffered = <<>> /\ flight = <<>> /\ half = {} /\ result = "none"
  BY DEF OneBatchAtATime, InStages

LEMMA InOrderStill ==
    ASSUME InOrder, UNCHANGED <<parsed, queue, inHand, buffered, flight, batch>>
    PROVE  InOrder'
  <1>1. Rest' = Rest /\ Line' = Line
    BY DEF Rest, Line
  <1>. QED
    BY <1>1 DEF InOrder, Ends, Followed

\* More that comes after it leaves the end of a batch where it is.
LEMMA EndsMore ==
    ASSUME NEW s, NEW r, NEW w, Ends(s, r), Range(s) \cap Range(r) \subseteq Range(w)
    PROVE  Ends(s, w)
  BY DEF Ends

LEMMA InOrderRead ==
    ASSUME NumsOK, Bounded, InOrder, HeldFirst, ReadHeld \/ ReadUnread
    PROVE  InOrder'
  <1>0. readUpTo \in Nat /\ Rest \in Seq(Int)
    BY RestTypes DEF Bounded
  <1>1. PICK t : t = inHand'
    OBVIOUS
  <1>2. /\ Rest' = Rest \o t /\ t \in Seq(Int) /\ UNCHANGED <<parsed, buffered, flight, batch>>
        /\ Followed(t, Line \cup Range(t))
        /\ \A i \in batch, k \in Range(t) : 0 < k /\ k < i => i \in Range(t)
    <2>1. CASE ReadHeld
      <3>. PICK S : S = Earliest(Held, ReadBatch)
        OBVIOUS
      <3>1. /\ HandOf(t, S, cut) /\ Rest' = Rest \o t /\ reader = "drain" /\ S \subseteq Held
            /\ UNCHANGED <<parsed, buffered, flight, batch>>
        BY <1>1, <2>1, HeldRead DEF batchVars, writerVars
      <3>2. cut \in Nat /\ \A i \in S : i \in Int /\ i > 0
        BY <3>1, RestTypes
      <3>3. ASSUME NEW k \in S, NEW i \in Line \cup Taken, k < i
            PROVE  i \in S
        BY <3>1, <3>3 DEF HeldFirst
      <3>4. \A b \in DOMAIN t : t[b] > 0 => t[b] > cut /\ t[b] \in S
        <4>1. ASSUME NEW b \in DOMAIN t, t[b] > 0 PROVE t[b] > cut /\ t[b] \in S
          <5>1. t[b] \in Int
            BY <3>1, ElementOfSeq, LenProperties DEF HandOf
          <5>. QED
            BY <3>1, <4>1, <5>1 DEF HandOf
        <4>. QED
          BY <4>1
      <3>5. ASSUME NEW b \in DOMAIN t, NEW i \in S, 0 < t[b], t[b] < i
            PROVE  \E c \in DOMAIN t : b < c /\ t[c] = i
        <4>1. t[b] > cut /\ t[b] \in Int
          BY <3>2, <3>4, <3>5
        <4>2. i > cut
          BY <3>2, <3>5, <4>1
        <4>3. PICK c \in DOMAIN t : t[c] = i
          BY <3>1, <4>2 DEF HandOf
        <4>. QED
          BY <3>1, <3>5, <4>3 DEF HandOf
      <3>6. \A i \in Range(t) : i > 0 => i \in S
        BY <3>4 DEF Range
      <3>7. ASSUME NEW b \in DOMAIN t, NEW i \in Line \cup Range(t), 0 < t[b], t[b] < i
            PROVE  i \in S
        <4>1. t[b] \in S
          BY <3>4, <3>7
        <4>2. CASE i \in Line
          BY <3>3, <3>7, <4>1, <4>2
        <4>3. CASE i \in Range(t)
          <5>1. i \in Int /\ t[b] \in Int
            BY <3>1, ElementOfSeq, LenProperties, <4>3 DEF HandOf, Range
          <5>. QED
            BY <3>6, <3>7, <4>3, <5>1
        <4>. QED
          BY <4>2, <4>3
      <3>8. Followed(t, Line \cup Range(t))
        BY <3>5, <3>7 DEF Followed
      <3>9. ASSUME NEW i \in batch, NEW k \in Range(t), 0 < k, k < i
            PROVE  i \in Range(t)
        <4>1. PICK b \in DOMAIN t : t[b] = k
          BY DEF Range
        <4>2. k \in S /\ i \in S
          BY <3>3, <3>4, <3>9, <4>1 DEF Taken
        <4>3. \E c \in DOMAIN t : b < c /\ t[c] = i
          BY <3>5, <3>9, <4>1, <4>2
        <4>. QED
          BY <4>3 DEF Range
      <3>. QED
        BY <3>1, <3>8, <3>9 DEF HandOf
    <2>2. CASE ReadUnread
      <3>. PICK S : S = Earliest(Unread, ReadBatch)
        OBVIOUS
      <3>1. /\ HandOf(t, S, 0) /\ Rest' = Rest \o t /\ \A i \in S : readUpTo < i
            /\ UNCHANGED <<parsed, buffered, flight, batch>>
        BY <1>0, <1>1, <2>2, UnreadRead DEF batchVars, writerVars
      <3>2. \A i \in Line \cup batch : i \in Int /\ i <= readUpTo
        BY <1>0 DEF Bounded
      <3>3. \A b \in DOMAIN t : t[b] \in Int /\ readUpTo < t[b]
        <4>1. ASSUME NEW b \in DOMAIN t PROVE t[b] \in Int /\ readUpTo < t[b]
          <5>1. t[b] \in Int
            BY <3>1, ElementOfSeq, LenProperties DEF HandOf
          <5>2. t[b] \in S
            BY <3>1 DEF HandOf
          <5>. QED
            BY <3>1, <5>1, <5>2
        <4>. QED
          BY <4>1
      <3>4. \A k \in Range(t) : k \in Int /\ readUpTo < k
        BY <3>3 DEF Range
      <3>5. \A k \in Range(t), i \in Line \cup batch : ~(k < i)
        BY <1>0, <3>2, <3>4
      <3>6. ASSUME NEW b \in DOMAIN t, NEW i \in Line \cup Range(t), 0 < t[b], t[b] < i
            PROVE  \E c \in DOMAIN t : b < c /\ t[c] = i
        <4>1. t[b] \in Range(t)
          BY DEF Range
        <4>2. PICK c \in DOMAIN t : t[c] = i
          BY <3>5, <3>6, <4>1 DEF Range
        <4>. QED
          BY <3>1, <3>3, <3>6, <4>2 DEF HandOf
      <3>. QED
        BY <3>1, <3>5, <3>6 DEF HandOf, Followed
    <2>. QED
      BY <2>1, <2>2
  <1>3. Range(Rest') = Range(Rest) \cup Range(t) /\ Line' = Line \cup Range(t)
    BY <1>0, <1>2, Joined DEF Line
  <1>4. Followed(Rest, Line) /\ Followed(Rest', Line')
    BY <1>0, <1>2, <1>3, FollowedJoined DEF InOrder
  <1>5. Ends(parsed, Rest') /\ Ends(buffered, Rest') /\ Ends(flight, Rest')
    BY <1>3, EndsMore DEF InOrder
  <1>. QED
    BY <1>2, <1>3, <1>4, <1>5 DEF InOrder

LEMMA InOrderPut ==
    ASSUME NumsOK, InOrder, Put
    PROVE  InOrder'
  <1>0. Rest \in Seq(Int) /\ Len(raw) \in Nat
    BY RestTypes
  <1>1. UNCHANGED <<parsed, buffered, flight, batch>>
    BY PutRest DEF batchVars, writerVars
  <1>2. CASE Rest' = Rest
    <2>1. Line' = Line
      BY <1>1, <1>2 DEF Line
    <2>. QED
      BY <1>1, <1>2, <2>1 DEF InOrder
  <1>3. CASE Rest' # Rest
    <2>. PICK m : m = Len(queue) + 1
      OBVIOUS
    <2>1. Dropped(Rest, Rest', m) /\ Rest[m] < 0 /\ Rest[m] \in Int
      BY <1>3, PutRest
    <2>2. Range(Rest) = Range(Rest') \cup {Rest[m]}
      BY <1>0, <2>1, DroppedPlaces
    <2>3. Line' \subseteq Line /\ Line \subseteq Int
      <3>1. Range(Rest) \subseteq Int /\ Range(parsed) \subseteq Int
        BY <1>0, RestTypes, RangeOfSeq
      <3>. QED
        BY <1>1, <2>2, <3>1 DEF Line
    <2>4. Followed(Rest', Line')
      <3>1. Rest[m] <= 0 /\ Followed(Rest, Line)
        BY <2>1 DEF InOrder
      <3>. QED
        BY <1>0, <2>1, <2>3, <3>1, FollowedDropped
    <2>5. \A i \in 1..Len(raw) : i \in Range(Rest) => i \in Range(Rest')
      BY <1>0, <2>1, <2>2
    <2>6. /\ Range(parsed) \subseteq 1..Len(raw) /\ Range(buffered) \subseteq 1..Len(raw)
          /\ Range(flight) \subseteq 1..Len(raw) /\ batch \subseteq 1..Len(raw)
      BY RangeOfSeq DEF NumsOK
    <2>7. Ends(parsed, Rest') /\ Ends(buffered, Rest') /\ Ends(flight, Rest')
      BY <2>5, <2>6, EndsMore DEF InOrder
    <2>. QED
      BY <1>1, <2>2, <2>4, <2>5, <2>6, <2>7 DEF InOrder
  <1>. QED
    BY <1>2, <1>3

LEMMA InOrderPutNone ==
    ASSUME NumsOK, InOrder, PutNone
    PROVE  InOrder'
  <1>0. Rest \in Seq(Int) /\ inHand = <<>> /\ queue \in Seq(Int) /\ <<0>> \in Seq(Int)
    BY RestTypes DEF PutNone, Reading
  <1>1. UNCHANGED <<inHand, parsed, buffered, flight, batch>>
    BY DEF PutNone, ReaderOnly, batchVars, writerVars
  <1>2. Rest = queue /\ Rest' = Append(queue, 0)
    BY <1>0, <1>1, ConcatEmptySeq, AppendProperties DEF Rest, PutNone
  <1>3. Append(queue, 0) = queue \o <<0>>
    BY <1>0, AppendIsConcat
  <1>. PICK t : t = <<0>>
    OBVIOUS
  <1>4. Rest' = Rest \o t /\ t \in Seq(Int) /\ Range(t) = {0} /\ \A b \in DOMAIN t : t[b] = 0
    BY <1>0, <1>2, <1>3 DEF Range
  <1>5. Range(Rest') = Range(Rest) \cup Range(t) /\ Line' = Line \cup Range(t)
    BY <1>0, <1>1, <1>4, Joined DEF Line
  <1>6. Followed(t, Line \cup Range(t))
    BY <1>4 DEF Followed
  <1>7. Followed(Rest', Line')
    <2>1. Followed(Rest, Line)
      BY DEF InOrder
    <2>. QED
      BY <1>0, <1>4, <1>5, <1>6, <2>1, FollowedJoined
  <1>8. Ends(parsed, Rest') /\ Ends(buffered, Rest') /\ Ends(flight, Rest')
    BY <1>5, EndsMore DEF InOrder
  <1>. QED
    BY <1>1, <1>4, <1>5, <1>7, <1>8 DEF InOrder

LEMMA InOrderTake ==
    ASSUME NumsOK, InOrder, InStages, OneBatchAtATime, Collect \/ GetNone
    PROVE  InOrder'
  <1>0. Rest \in Seq(Int) /\ parsed \in Seq(Int) /\ queue \in Seq(Int)
    BY RestTypes
  <1>1. /\ UNCHANGED <<inHand, buffered, flight, batch>> /\ queue # <<>> /\ queue' = Tail(queue)
        /\ batcher \in {"wait", "collect"} /\ batch = {}
    BY DEF Collect, GetNone, BatcherOnly, readerVars, InStages
  <1>2. buffered = <<>> /\ flight = <<>>
    BY <1>1, NothingInFlight
  <1>3. Dropped(Rest, Rest', 1) /\ Rest[1] = Head(queue)
    BY <1>1, TakeRest
  <1>. PICK e : e = Head(queue)
    OBVIOUS
  <1>4. /\ Range(Rest) = Range(Rest') \cup {e} /\ DOMAIN Rest = 1..Len(Rest) /\ 1 \in DOMAIN Rest /\ Rest[1] = e
        /\ e \in Int /\ DOMAIN Rest' = 1..Len(Rest')
    <2>1. /\ Range(Rest) = Range(Rest') \cup {Rest[1]} /\ DOMAIN Rest = 1..Len(Rest)
          /\ DOMAIN Rest' = 1..Len(Rest')
      BY <1>0, <1>3, DroppedPlaces
    <2>2. 1 \in 1..Len(Rest)
      BY <1>3 DEF Dropped
    <2>. QED
      BY <1>0, <1>3, <2>1, <2>2, ElementOfSeq
  <1>5. Line \subseteq Int
    BY <1>0, RangeOfSeq DEF Line
  <1>6. Followed(Rest, Line)
    BY DEF InOrder
  <1>7. CASE GetNone
    <2>1. e = 0 /\ UNCHANGED parsed
      BY <1>7 DEF GetNone
    <2>2. Line' \subseteq Line
      BY <1>4, <2>1 DEF Line
    <2>3. Followed(Rest', Line')
      BY <1>0, <1>3, <1>5, <1>6, <2>2, FollowedDropped
    <2>4. Range(parsed) \subseteq 1..Len(raw)
      BY RangeOfSeq DEF NumsOK
    <2>5. 0 \notin Range(parsed)
      BY <2>4
    <2>6. Ends(parsed, Rest')
      BY <1>4, <2>1, <2>5, EndsMore DEF InOrder
    <2>. QED
      BY <1>1, <1>2, <2>1, <2>3, <2>6, EmptyOrder DEF InOrder
  <1>8. CASE Collect
    <2>. PICK p : p = Append(parsed, e)
      OBVIOUS
    <2>1. parsed' = p /\ e # 0
      BY <1>8 DEF Collect
    <2>2. /\ Len(parsed) \in Nat /\ DOMAIN parsed = 1..Len(parsed) /\ DOMAIN p = 1..(Len(parsed) + 1)
          /\ p[Len(parsed) + 1] = e /\ \A k \in 1..Len(parsed) : p[k] = parsed[k]
      BY <1>0, <1>4, AppendProperties, LenProperties
    <2>3. Range(p) = Range(parsed) \cup {e}
      BY <1>0, <1>4, RangeOfAppend
    <2>4. Line' = Line
      BY <1>4, <2>1, <2>3 DEF Line
    <2>5. Followed(Rest', Line')
      BY <1>0, <1>3, <1>5, <1>6, <2>4, FollowedDropped
    <2>6. e > 0
      <3>1. queue \in Seq(0..Len(raw)) /\ Head(queue) \in 0..Len(raw)
        BY <1>1, HeadTailProperties DEF NumsOK
      <3>. QED
        BY <2>1, <3>1
    <2>7. ASSUME NEW b \in DOMAIN p, NEW i \in Range(p), p[b] < i
          PROVE  i \in Range(Rest') \/ \E c \in DOMAIN p : b < c /\ p[c] = i
      <3>1. CASE b \in 1..Len(parsed)
        <4>1. CASE i = e
          <5>1. Len(parsed) + 1 \in DOMAIN p /\ b < Len(parsed) + 1
            BY <2>2, <3>1
          <5>. QED
            BY <2>2, <4>1, <5>1
        <4>2. CASE i # e
          <5>1. i \in Range(parsed) /\ parsed[b] < i /\ b \in DOMAIN parsed
            BY <2>2, <2>3, <2>7, <3>1, <4>2
          <5>2. i \in Range(Rest) \/ \E c \in DOMAIN parsed : b < c /\ parsed[c] = i
            BY <5>1 DEF InOrder, Ends
          <5>3. \A c \in DOMAIN parsed : c \in DOMAIN p /\ p[c] = parsed[c]
            BY <2>2
          <5>. QED
            BY <1>4, <4>2, <5>2, <5>3
        <4>. QED
          BY <4>1, <4>2
      <3>2. CASE b = Len(parsed) + 1
        <4>1. p[b] = e /\ i # e
          BY <1>4, <2>2, <2>7, <3>2
        <4>2. i \in Line
          BY <2>3, <4>1 DEF Line
        <4>3. PICK c \in DOMAIN Rest : 1 < c /\ Rest[c] = i
          BY <1>4, <1>6, <2>6, <2>7, <4>1, <4>2 DEF Followed
        <4>4. i \in Range(Rest)
          BY <4>3 DEF Range
        <4>. QED
          BY <1>4, <4>1, <4>4
      <3>. QED
        BY <2>2, <3>1, <3>2
    <2>8. Ends(p, Rest')
      BY <2>7 DEF Ends
    <2>. QED
      BY <1>1, <1>2, <2>1, <2>5, <2>8, EmptyOrder DEF InOrder
  <1>. QED
    BY <1>7, <1>8

\* What goes on of a batch ends as the batch does.
LEMMA EndsWithout ==
    ASSUME NEW s \in Seq(Int), NEW r, NEW T, Ends(s, r)
    PROVE  Ends(Without(s, T), r) /\ Range(Without(s, T)) = Range(s) \ T
  <1>. PICK w : w = Without(s, T)
    OBVIOUS
  <1>1. Range(w) = Range(s) \ T
    BY WithoutRange
  <1>2. ASSUME NEW b \in DOMAIN w, NEW i \in Range(w), w[b] < i
        PROVE  i \in Range(r) \/ \E d \in DOMAIN w : b < d /\ w[d] = i
    <2>1. PICK a \in DOMAIN s :
            /\ s[a] = w[b]
            /\ \A c \in DOMAIN s : a < c /\ s[c] \notin T => \E d \in DOMAIN w : b < d /\ w[d] = s[c]
      BY WithoutOrder
    <2>2. i \in Range(s) /\ i \notin T /\ s[a] < i
      BY <1>1, <1>2, <2>1
    <2>3. i \in Range(r) \/ \E c \in DOMAIN s : a < c /\ s[c] = i
      BY <2>2 DEF Ends
    <2>. QED
      BY <2>1, <2>2, <2>3
  <1>. QED
    BY <1>1, <1>2 DEF Ends

LEMMA InOrderBatch ==
    ASSUME NumsOK, InOrder, InStages, OneBatchAtATime, Parse \/ ResolveAndEnqueue \/ AckBatch
    PROVE  InOrder'
  <1>0. Rest \in Seq(Int) /\ parsed \in Seq(Int)
    BY RestTypes
  <1>1. UNCHANGED <<inHand, queue, flight>> /\ Rest' = Rest /\ batcher # "await"
    BY DEF Parse, ResolveAndEnqueue, AckBatch, BatcherOnly, readerVars, Rest
  <1>2. buffered = <<>> /\ flight = <<>>
    BY <1>1, NothingInFlight
  <1>3. Followed(Rest, Line) /\ Ends(parsed, Rest)
    BY DEF InOrder
  <1>4. ASSUME Range(parsed') \subseteq Range(parsed)
        PROVE  Followed(Rest', Line')
    BY <1>1, <1>3, <1>4 DEF Followed, Line
  <1>5. CASE Parse
    <2>1. PICK S : parsed' = Without(parsed, S)
      BY <1>5 DEF Parse
    <2>2. batch' = Range(parsed) /\ UNCHANGED buffered
      BY <1>5 DEF Parse
    <2>3. Ends(parsed', Rest') /\ Range(parsed') \subseteq Range(parsed)
      BY <1>0, <1>1, <1>3, <2>1, EndsWithout
    <2>4. ASSUME NEW i \in Range(parsed), NEW k \in Range(Rest), 0 < k, k < i
          PROVE  i \in Range(Rest)
      <3>1. PICK b \in DOMAIN Rest : Rest[b] = k
        BY DEF Range
      <3>2. PICK c \in DOMAIN Rest : Rest[c] = i
        BY <1>3, <2>4, <3>1 DEF Followed, Line
      <3>. QED
        BY <3>2 DEF Range
    <2>. QED
      BY <1>1, <1>2, <1>4, <2>2, <2>3, <2>4, EmptyOrder DEF InOrder
  <1>6. CASE ResolveAndEnqueue
    <2>1. PICK S : buffered' = buffered \o Without(parsed, S)
      BY <1>6 DEF ResolveAndEnqueue
    <2>2. UNCHANGED <<parsed, batch>>
      BY <1>6 DEF ResolveAndEnqueue
    <2>3. Ends(Without(parsed, S), Rest)
      BY <1>0, <1>3, EndsWithout
    <2>4. buffered' = Without(parsed, S)
      BY <1>0, <1>2, <2>1, WithoutTypes, ConcatEmptySeq
    <2>. QED
      BY <1>1, <1>2, <1>4, <2>2, <2>3, <2>4 DEF InOrder
  <1>7. CASE AckBatch
    <2>1. parsed' = <<>> /\ batch' = {} /\ UNCHANGED buffered
      BY <1>7 DEF AckBatch
    <2>2. Range(parsed') \subseteq Range(parsed)
      BY <2>1, EmptyOrder
    <2>. QED
      BY <1>1, <1>2, <1>4, <2>1, <2>2, EmptyOrder DEF InOrder
  <1>. QED
    BY <1>5, <1>6, <1>7

LEMMA InOrderStep ==
    ASSUME NumsOK, OneBatchAtATime, Bounded, InStages, InOrder, HeldFirst, [PipeNext]_pipeVars
    PROVE  InOrder'
  <1>1. CASE ReadHeld \/ ReadUnread
    BY <1>1, InOrderRead
  <1>2. CASE Put
    BY <1>2, InOrderPut
  <1>3. CASE PutNone
    BY <1>3, InOrderPutNone
  <1>4. CASE Collect \/ GetNone
    BY <1>4, InOrderTake
  <1>5. CASE Parse \/ ResolveAndEnqueue \/ AckBatch
    BY <1>5, InOrderBatch
  <1>6. CASE LoopTop \/ GetTimesOut \/ Awaited
    BY <1>6, InOrderStill DEF LoopTop, GetTimesOut, Awaited, BatcherOnly, readerVars
  <1>7. CASE Gone
    <2>1. /\ parsed' = <<>> /\ buffered' = <<>> /\ flight' = <<>> /\ queue' = <<>> /\ inHand' = <<>> /\ batch' = {}
      BY <1>7 DEF Gone
    <2>2. Rest' = <<>>
      BY <2>1, ConcatEmptySeq, EmptySeq DEF Rest
    <2>. QED
      BY <2>1, <2>2, EmptyOrder DEF InOrder
  <1>8. CASE Launch \/ BeginStages \/ (\E i \in Ids : MoveLetter(i)) \/ Signal \/ (\E l \in Listings : PipePublish(l))
    BY <1>8, InOrderStill DEF Launch, BeginStages, MoveLetter, Signal, PipePublish, readerVars, batchVars, writerVars
  <1>9. CASE Writer
    <2>1. UNCHANGED <<parsed, queue, inHand, batch>>
      BY <1>9 DEF Writer, Late, StartFlush, EndFlushing, LateDone, HalfDone, HalfFails, WriterOnly, readerVars, batchVars
    <2>2. Rest' = Rest /\ Line' = Line
      BY <2>1 DEF Rest, Line
    <2>3. buffered' \in {buffered, <<>>} /\ flight' \in {flight, buffered, <<>>}
      BY <1>9 DEF Writer, Late, StartFlush, EndFlushing, LateDone, HalfDone, HalfFails
    <2>4. Ends(buffered', Rest') /\ Ends(flight', Rest')
      BY <2>2, <2>3, EmptyOrder DEF InOrder
    <2>. QED
      BY <2>1, <2>2, <2>4 DEF InOrder
  <1>10. CASE UNCHANGED pipeVars
    BY <1>10, InOrderStill DEF pipeVars, readerVars, batchVars, writerVars
  <1>. QED
    BY <1>1, <1>2, <1>3, <1>4, <1>5, <1>6, <1>7, <1>8, <1>9, <1>10
       DEF PipeNext, Main, Exit, Die, Reader, Batcher

-----------------------------------------------------------------------------
(* The order of what is pending *)

LEMMA EarliestOf ==
    ASSUME NEW m \in Nat, NEW S \in SUBSET (1..m), NEW n \in Nat, n > 0, NEW G \in SUBSET S
    PROVE  /\ \A i \in Earliest(S, n), k \in S : k < i => k \in Earliest(S, n)
           /\ Earliest(S, n) \cap G \subseteq Earliest(G, n)
           /\ Earliest(S, n) = {} => S = {}
  <1>0. IsFiniteSet(S)
    <2>. PICK D : D = 1..m
      OBVIOUS
    <2>1. IsFiniteSet(D) /\ S \in SUBSET D
      BY FS_Interval
    <2>. QED
      BY <2>1, FS_Subset
  <1>. S \in SUBSET Int
    OBVIOUS
  <1>. DEFINE Below(i) == {j \in S : j < i}
  <1>1. ASSUME NEW i \in S PROVE IsFiniteSet(Below(i)) /\ Cardinality(Below(i)) \in Nat
    <2>1. Below(i) \in SUBSET S
      OBVIOUS
    <2>. HIDE DEF Below
    <2>. QED
      BY <1>0, <2>1, FS_Subset, FS_CardinalityType
  <1>2. Earliest(S, n) = {i \in S : Cardinality(Below(i)) < n}
    BY DEF Earliest
  <1>3. ASSUME NEW i \in Earliest(S, n), NEW k \in S, k < i
        PROVE  k \in Earliest(S, n)
    <2>1. i \in S
      BY <1>2, <1>3
    <2>3. Below(k) \in SUBSET Below(i)
      <3>1. \A j \in S : j < k => j < i
        <4>1. i \in Int /\ k \in Int /\ \A j \in S : j \in Int
          BY <2>1
        <4>. QED
          BY <1>3, <4>1
      <3>. QED
        BY <3>1
    <2>. HIDE DEF Below
    <2>2. Cardinality(Below(k)) <= Cardinality(Below(i))
      BY <1>1, <2>1, <2>3, FS_Subset
    <2>. QED
      BY <1>1, <1>2, <2>1, <2>2
  <1>4. ASSUME NEW i \in Earliest(S, n) \cap G
        PROVE  i \in Earliest(G, n)
    <2>. PICK B : B = {j \in G : j < i}
      OBVIOUS
    <2>1. i \in S /\ B \in SUBSET Below(i)
      BY <1>2, <1>4
    <2>2. Cardinality(B) <= Cardinality(Below(i)) /\ Cardinality(B) \in Nat
      <3>. HIDE DEF Below
      <3>. QED
        BY <1>1, <2>1, FS_Subset, FS_CardinalityType
    <2>3. Cardinality(Below(i)) < n
      <3>. HIDE DEF Below
      <3>. QED
        BY <1>2, <1>4
    <2>4. Cardinality(B) < n
      <3>. HIDE DEF Below
      <3>. QED
        BY <1>1, <2>1, <2>2, <2>3
    <2>. QED
      BY <1>4, <2>4 DEF Earliest
  <1>5. ASSUME S # {}
        PROVE  Earliest(S, n) # {}
    <2>1. PICK i \in S : \A j \in S : i <= j
      <3>1. S \in SUBSET (0..m)
        OBVIOUS
      <3>. QED
        BY <1>5, <3>1, SmallestNumber
    <2>2. Below(i) = {}
      <3>1. \A j \in S : ~(j < i)
        BY <2>1
      <3>. QED
        BY <3>1
    <2>3. Cardinality(Below(i)) = 0
      BY <2>2, FS_EmptySet
    <2>. HIDE DEF Below
    <2>. QED
      BY <1>2, <2>3
  <1>. QED
    BY <1>3, <1>4, <1>5

LEMMA TrimmedDropped ==
    ASSUME NEW h \in Seq(Int), NEW w, Dropped(h, w, 1), NEW H, TrimmedFirst(h, H),
           NEW G \in SUBSET H, \A k \in G : h[1] # -k
    PROVE  TrimmedFirst(w, G)
  <1>0. /\ Len(h) \in Nat /\ Len(w) \in Nat /\ DOMAIN h = 1..Len(h) /\ DOMAIN w = 1..Len(w)
        /\ \A b \in DOMAIN w : \E a \in DOMAIN h : a # 1 /\ w[b] = h[a] /\ (IF b < 1 THEN a = b ELSE a = b + 1)
        /\ \A a \in DOMAIN h : a # 1 => \E b \in DOMAIN w : w[b] = h[a] /\ (IF a < 1 THEN b = a ELSE b = a - 1)
    BY DroppedPlaces
  <1>1. SUFFICES ASSUME NEW a \in DOMAIN w, NEW k \in G, k < -w[a]
                 PROVE  \E b \in DOMAIN w : b < a /\ w[b] = -k
    BY DEF TrimmedFirst
  <1>2. PICK c \in DOMAIN h : w[a] = h[c] /\ c = a + 1
    BY <1>0
  <1>3. PICK d \in DOMAIN h : d < c /\ h[d] = -k
    BY <1>1, <1>2 DEF TrimmedFirst
  <1>4. d # 1
    BY <1>3
  <1>5. PICK b \in DOMAIN w : w[b] = h[d] /\ b = d - 1
    <2>1. ~(d < 1)
      BY <1>0
    <2>. QED
      BY <1>0, <1>4, <2>1
  <1>6. b < a
    BY <1>0, <1>2, <1>3, <1>5
  <1>. QED
    BY <1>3, <1>5, <1>6

\* A step that moves none of it, and writes the prices of what is on its way.
LEMMA HeldFirstStill ==
    ASSUME HeldFirst, UNCHANGED <<parsed, batch, queue, inHand, reader, pending>>, prices' \subseteq prices \cup Line
    PROVE  HeldFirst'
  <1>1. Rest' = Rest /\ Line' = Line /\ Taken' = Taken /\ Held' = Held
    BY DEF Rest, Line, Taken, Held
  <1>2. Preceded(Rest, Held, Taken)' /\ TrimmedFirst(inHand, Held)' 
    BY <1>1 DEF HeldFirst, Preceded, TrimmedFirst
  <1>3. \A k \in Held', i \in prices' \cup Line' \cup Taken' : k < i => i \in Held'
    BY <1>1 DEF HeldFirst
  <1>. QED
    BY <1>1, <1>2, <1>3 DEF HeldFirst, Earliest

LEMMA HeldFirstReadHeld ==
    ASSUME NumsOK, PipelineAssumption, HeldFirst, ReadHeld
    PROVE  HeldFirst'
  <1>. PICK S : S = Earliest(Held, ReadBatch)
    OBVIOUS
  <1>. PICK t : t = inHand'
    OBVIOUS
  <1>1. /\ HandOf(t, S, cut) /\ Rest' = Rest \o t
        /\ S \subseteq Held /\ Held' = Held /\ reader = "drain" /\ reader' = IF S = {} THEN "new" ELSE "drain"
        /\ UNCHANGED <<pipeTables, batchVars>>
    BY HeldRead
  <1>2. /\ Rest \in Seq(Int) /\ t \in Seq(Int) /\ cut \in Nat /\ Len(raw) \in Nat /\ Held \subseteq 1..Len(raw)
        /\ DOMAIN t = 1..Len(t) /\ \A a \in DOMAIN t : t[a] \in Int
    <2>1. t \in Seq(Int)
      BY <1>1 DEF HandOf
    <2>. QED
      BY <2>1, RestTypes, LenProperties, ElementOfSeq
  <1>3. UNCHANGED <<parsed, batch, prices>> /\ Taken' = Taken
    BY <1>1 DEF pipeTables, batchVars, Taken
  <1>4. /\ \A i \in S, k \in Held : k < i => k \in S
        /\ S = {} => Held = {}
    <2>1. Held \in SUBSET (1..Len(raw)) /\ ReadBatch \in Nat /\ ReadBatch > 0
      BY <1>2 DEF PipelineAssumption
    <2>. QED
      BY <1>2, <2>1, EarliestOf
  <1>5. /\ \A i \in S : i > cut => \E a \in DOMAIN t : t[a] = i
        /\ \A i \in S : i <= cut => \E a \in DOMAIN t : t[a] = -i
        /\ \A a \in DOMAIN t : (t[a] > cut /\ t[a] \in S) \/ (-t[a] \in 1..cut /\ -t[a] \in S)
        /\ \A a, b \in DOMAIN t : t[a] < 0 /\ t[b] < 0 /\ t[b] > t[a] => b < a
        /\ \A a, b \in DOMAIN t : t[a] < 0 /\ t[b] > 0 => a < b
        /\ \A a, b \in DOMAIN t : t[a] > 0 /\ t[b] > t[a] => a < b
    BY <1>1 DEF HandOf
  <1>6. \A k \in Held : k \in Int /\ k > 0
    BY <1>2
  <1>7. ASSUME NEW a \in DOMAIN t, NEW k \in Held, k < t[a]
        PROVE  \E b \in DOMAIN t : b < a /\ t[b] \in {k, -k}
    <2>1. t[a] > 0 /\ t[a] \in S /\ k \in Int /\ k > 0 /\ t[a] \in Int
      BY <1>2, <1>5, <1>6, <1>7
    <2>2. k \in S
      BY <1>4, <1>7, <2>1
    <2>3. CASE k > cut
      <3>1. PICK b \in DOMAIN t : t[b] = k
        BY <1>5, <2>2, <2>3
      <3>2. b < a
        BY <1>5, <1>7, <2>1, <3>1
      <3>. QED
        BY <3>1, <3>2
    <2>4. CASE k <= cut
      <3>1. PICK b \in DOMAIN t : t[b] = -k
        BY <1>5, <2>2, <2>4
      <3>2. -k < 0
        BY <2>1
      <3>3. b < a
        BY <1>5, <2>1, <3>1, <3>2
      <3>. QED
        BY <3>1, <3>3
    <2>. QED
      BY <1>2, <2>1, <2>3, <2>4
  <1>8. ASSUME NEW a \in DOMAIN t, NEW k \in Held, k < -t[a]
        PROVE  \E b \in DOMAIN t : b < a /\ t[b] = -k
    <2>1. t[a] \in Int /\ k \in Int /\ k > 0
      BY <1>2, <1>6
    <2>2. t[a] < 0 /\ ~(t[a] > cut)
      BY <1>2, <1>8, <2>1
    <2>3. -t[a] \in 1..cut /\ -t[a] \in S
      BY <1>5, <2>2
    <2>4. k \in S
      BY <1>4, <1>8, <2>3
    <2>5. k <= cut /\ -k < 0 /\ -k > t[a]
      BY <1>2, <1>8, <2>1, <2>3
    <2>6. PICK b \in DOMAIN t : t[b] = -k
      BY <1>5, <2>4, <2>5
    <2>7. b < a
      BY <1>5, <2>2, <2>5, <2>6
    <2>. QED
      BY <2>6, <2>7
  <1>9. Preceded(Rest', Held', Taken')
    <2>1. Preceded(Rest, Held, Taken)
      BY DEF HeldFirst
    <2>2. Preceded(Rest \o t, Held, Taken)
      BY <1>2, <1>7, <2>1, PrecededJoined
    <2>. QED
      BY <1>1, <1>3, <2>2
  <1>10. TrimmedFirst(inHand', Held')
    BY <1>1, <1>8 DEF TrimmedFirst
  <1>11. Range(Rest') = Range(Rest) \cup Range(t) /\ Line' = Line \cup Range(t)
    BY <1>1, <1>2, <1>3, Joined DEF Line
  <1>12. \A i \in Range(t) : i \in S \/ (i \in Int /\ i < 0)
    <2>1. \A a \in DOMAIN t : t[a] \in S \/ (t[a] \in Int /\ t[a] < 0)
      BY <1>2, <1>5
    <2>. QED
      BY <2>1 DEF Range
  <1>13. ASSUME NEW k \in Held, NEW i \in prices' \cup Line' \cup Taken', k < i
         PROVE  i \in Held
    <2>1. CASE i \in prices \cup Line \cup Taken
      BY <1>13, <2>1 DEF HeldFirst
    <2>2. CASE i \in Range(t)
      BY <1>1, <1>6, <1>12, <1>13, <2>2
    <2>. QED
      BY <1>3, <1>11, <1>13, <2>1, <2>2
  <1>14. reader' = "new" => Held' = {}
    BY <1>1, <1>4
  <1>15. (Line' \cup Taken') \cap Held' \subseteq Earliest(Held', ReadBatch)
    <2>1. (Line \cup Taken) \cap Held \subseteq S
      BY <1>1 DEF HeldFirst
    <2>2. Range(t) \cap Held \subseteq S
      BY <1>6, <1>12
    <2>. QED
      BY <1>1, <1>3, <1>11, <2>1, <2>2
  <1>16. \A k \in Held', i \in Taken' : k < i => k \in Taken'
    BY <1>1, <1>3 DEF HeldFirst
  <1>. QED
    BY <1>1, <1>9, <1>10, <1>13, <1>14, <1>15, <1>16 DEF HeldFirst

LEMMA HeldFirstReadUnread ==
    ASSUME NumsOK, Bounded, HeldFirst, ReadUnread
    PROVE  HeldFirst'
  <1>. PICK S : S = Earliest(Unread, ReadBatch)
    OBVIOUS
  <1>. PICK t : t = inHand'
    OBVIOUS
  <1>0. readUpTo \in Nat /\ \A i \in prices \cup Line \cup Taken : i \in Int /\ i <= readUpTo
    BY DEF Bounded, Line, Taken
  <1>1. /\ HandOf(t, S, 0) /\ Rest' = Rest \o t
        /\ Held' = Held \cup S /\ reader = "new" /\ reader' = "new"
        /\ \A i \in S : readUpTo < i
        /\ S \subseteq 1..Len(raw) /\ UNCHANGED <<pipeTables, batchVars>>
    BY <1>0, UnreadRead
  <1>2. /\ Rest \in Seq(Int) /\ t \in Seq(Int) /\ Len(raw) \in Nat /\ Held \subseteq 1..Len(raw)
        /\ \A a \in DOMAIN t : t[a] \in Int
    <2>1. t \in Seq(Int)
      BY <1>1 DEF HandOf
    <2>. QED
      BY <2>1, RestTypes, LenProperties, ElementOfSeq
  <1>3. UNCHANGED <<parsed, batch, prices>> /\ Taken' = Taken
    BY <1>1 DEF pipeTables, batchVars, Taken
  <1>4. \A k \in S, i \in prices \cup Line \cup Taken : k \in Int /\ ~(k < i)
    BY <1>0, <1>1, <1>2
  <1>5. /\ \A i \in S : i > 0 => \E a \in DOMAIN t : t[a] = i
        /\ \A a \in DOMAIN t : (t[a] > 0 /\ t[a] \in S) \/ (-t[a] \in 1..0 /\ -t[a] \in S)
        /\ \A a, b \in DOMAIN t : t[a] > 0 /\ t[b] > t[a] => a < b
    BY <1>1 DEF HandOf
  <1>6. \A a \in DOMAIN t : t[a] \in S /\ t[a] > 0
    BY <1>2, <1>5
  <1>7. \A i \in S : i > 0 /\ \E a \in DOMAIN t : t[a] = i
    BY <1>1, <1>5
  <1>8. Range(t) = S
    BY <1>6, <1>7 DEF Range
  <1>9. Range(Rest') = Range(Rest) \cup S /\ Line' = Line \cup S
    BY <1>1, <1>2, <1>3, <1>8, Joined DEF Line
  <1>10. Preceded(Rest', Held', Taken')
    <2>. PICK H : H = Held \cup S
      OBVIOUS
    <2>1. Preceded(Rest, H, Taken)
      <3>1. ASSUME NEW a \in DOMAIN Rest, NEW k \in S
            PROVE  ~(k < Rest[a])
        <4>1. Rest[a] \in Line
          BY DEF Line, Range
        <4>. QED
          BY <1>4, <4>1
      <3>. QED
        BY <3>1 DEF HeldFirst, Preceded
    <2>2. ASSUME NEW a \in DOMAIN t, NEW k \in H, k < t[a]
          PROVE  \/ k \in Taken \/ k \in Range(Rest) \/ -k \in Range(Rest)
                 \/ \E b \in DOMAIN t : b < a /\ t[b] \in {k, -k}
      <3>1. CASE k \in Held
        BY <1>1, <3>1 DEF HeldFirst
      <3>2. CASE k \in S
        BY <1>5, <1>7, <2>2, <3>2
      <3>. QED
        BY <3>1, <3>2
    <2>3. Preceded(Rest \o t, H, Taken)
      BY <1>2, <2>1, <2>2, PrecededJoined
    <2>. QED
      BY <1>1, <1>3, <2>3
  <1>11. TrimmedFirst(inHand', Held')
    <2>1. \A k \in Held' : k \in Int /\ k > 0
      BY <1>1, <1>2
    <2>2. \A a \in DOMAIN t, k \in Held' : ~(k < -t[a])
      BY <1>2, <1>6, <2>1
    <2>. QED
      BY <2>2 DEF TrimmedFirst
  <1>12. ASSUME NEW k \in Held', NEW i \in prices' \cup Line' \cup Taken', k < i
         PROVE  i \in Held'
    <2>1. CASE i \in prices \cup Line \cup Taken
      BY <1>1, <1>4, <1>12, <2>1 DEF HeldFirst
    <2>2. CASE i \in S
      BY <1>1, <2>2
    <2>. QED
      BY <1>3, <1>9, <1>12, <2>1, <2>2
  <1>13. \A k \in Held' : k \in Taken' \/ k \in Range(Rest') \/ -k \in Range(Rest')
    BY <1>1, <1>3, <1>9 DEF HeldFirst
  <1>14. \A k \in Held', i \in Taken' : k < i => k \in Taken'
    BY <1>1, <1>3, <1>4 DEF HeldFirst
  <1>. QED
    BY <1>1, <1>10, <1>11, <1>12, <1>13, <1>14 DEF HeldFirst

LEMMA HeldFirstPut ==
    ASSUME NumsOK, PipelineAssumption, HeldFirst, Put
    PROVE  HeldFirst'
  <1>0. /\ Rest \in Seq(Int) /\ inHand \in Seq(Int) /\ Len(raw) \in Nat /\ Held \subseteq 1..Len(raw)
        /\ \A k \in Held : k \in Int /\ k > 0
    BY RestTypes
  <1>. PICK x \in Int : x = inHand[1]
    BY PutRest
  <1>1. /\ Dropped(inHand, inHand', 1) /\ UNCHANGED <<parsed, batch, prices, reader>>
        /\ \/ x > 0 /\ Rest' = Rest /\ Held' = Held
           \/ /\ x < 0 /\ Dropped(Rest, Rest', Len(queue) + 1) /\ Rest[Len(queue) + 1] = x
              /\ Held' = Held \ {-x}
    BY PutRest DEF pipeTables, batchVars
  <1>2. Taken' = Taken /\ Held' \in SUBSET Held
    BY <1>1 DEF Taken
  <1>3. TrimmedFirst(inHand', Held')
    <2>1. \A k \in Held' : x # -k
      <3>1. \A k \in Held' : k \in Int /\ k > 0
        BY <1>0, <1>2
      <3>2. CASE x > 0
        BY <3>1, <3>2
      <3>3. CASE x < 0 /\ Held' = Held \ {-x}
        BY <3>1, <3>3
      <3>. QED
        BY <1>1, <3>2, <3>3
    <2>2. TrimmedFirst(inHand, Held)
      BY DEF HeldFirst
    <2>. QED
      BY <1>0, <1>1, <1>2, <2>1, <2>2, TrimmedDropped
  <1>4. \A k \in Held', i \in Taken' : k < i => k \in Taken'
    BY <1>2 DEF HeldFirst
  <1>5. CASE x > 0 /\ Rest' = Rest /\ Held' = Held
    <2>1. Line' = Line
      BY <1>1, <1>5 DEF Line
    <2>2. Preceded(Rest', Held', Taken')
      BY <1>2, <1>5 DEF HeldFirst
    <2>3. \A k \in Held', i \in prices' \cup Line' \cup Taken' : k < i => i \in Held'
      BY <1>1, <1>2, <1>5, <2>1 DEF HeldFirst
    <2>4. reader' = "new" => \A k \in Held' : k \in Taken' \/ k \in Range(Rest') \/ -k \in Range(Rest')
      BY <1>1, <1>2, <1>5 DEF HeldFirst
    <2>5. reader' = "drain" => (Line' \cup Taken') \cap Held' \subseteq Earliest(Held', ReadBatch)
      BY <1>1, <1>2, <1>5, <2>1 DEF HeldFirst
    <2>. QED
      BY <1>3, <1>4, <2>2, <2>3, <2>4, <2>5 DEF HeldFirst
  <1>6. CASE x < 0 /\ Dropped(Rest, Rest', Len(queue) + 1) /\ Rest[Len(queue) + 1] = x /\ Held' = Held \ {-x}
    <2>. PICK m : m = Len(queue) + 1
      OBVIOUS
    <2>1. Range(Rest) = Range(Rest') \cup {x}
      BY <1>0, <1>6, DroppedPlaces
    <2>2. Line' \subseteq Line
      BY <1>1, <2>1 DEF Line
    <2>3. Preceded(Rest', Held', Taken')
      <3>1. \A k \in Held' : Rest[m] \in {k, -k} => k \in Taken
        BY <1>0, <1>6
      <3>2. Preceded(Rest, Held, Taken) /\ Dropped(Rest, Rest', m) /\ Taken \cap Held' \subseteq Taken
        BY <1>6 DEF HeldFirst
      <3>3. Preceded(Rest', Held', Taken)
        BY <1>0, <1>2, <3>1, <3>2, PrecededDropped
      <3>. QED
        BY <1>2, <3>3
    <2>4. ASSUME NEW k \in Held', NEW i \in prices' \cup Line' \cup Taken', k < i
          PROVE  i \in Held'
      <3>1. i \in Held
        BY <1>1, <1>2, <2>2, <2>4 DEF HeldFirst
      <3>2. i # -x
        <4>1. SUFFICES ASSUME k < -inHand[1] PROVE FALSE
          BY <2>4
        <4>2. 1 \in DOMAIN inHand /\ DOMAIN inHand = 1..Len(inHand)
          BY <1>0, <1>1, LenProperties DEF Dropped
        <4>3. \E b \in DOMAIN inHand : b < 1
          BY <1>2, <4>1, <4>2 DEF HeldFirst, TrimmedFirst
        <4>. QED
          BY <4>2, <4>3
      <3>. QED
        BY <1>6, <3>1, <3>2
    <2>5. reader' = "new" => \A k \in Held' : k \in Taken' \/ k \in Range(Rest') \/ -k \in Range(Rest')
      <3>1. \A k \in Held' : k # x /\ -k # x
        BY <1>0, <1>6
      <3>. QED
        BY <1>1, <1>2, <2>1, <3>1 DEF HeldFirst
    <2>6. reader' = "drain" => (Line' \cup Taken') \cap Held' \subseteq Earliest(Held', ReadBatch)
      <3>1. Held \in SUBSET (1..Len(raw)) /\ ReadBatch \in Nat /\ ReadBatch > 0
        BY <1>0 DEF PipelineAssumption
      <3>2. Earliest(Held, ReadBatch) \cap Held' \subseteq Earliest(Held', ReadBatch)
        BY <1>0, <1>2, <3>1, EarliestOf
      <3>3. reader' = "drain" => (Line \cup Taken) \cap Held \subseteq Earliest(Held, ReadBatch)
        BY <1>1 DEF HeldFirst
      <3>. QED
        BY <1>2, <2>2, <3>2, <3>3
    <2>. QED
      BY <1>3, <1>4, <2>3, <2>4, <2>5, <2>6 DEF HeldFirst
  <1>. QED
    BY <1>1, <1>5, <1>6

LEMMA HeldFirstPutNone ==
    ASSUME NumsOK, HeldFirst, PutNone
    PROVE  HeldFirst'
  <1>. PICK t : t = <<0>>
    OBVIOUS
  <1>0. /\ Rest \in Seq(Int) /\ inHand = <<>> /\ queue \in Seq(Int) /\ t \in Seq(Int)
        /\ \A k \in Held : k \in Int /\ k > 0
    BY RestTypes DEF PutNone, Reading
  <1>1. UNCHANGED <<inHand, parsed, batch, pending, prices>> /\ reader' = "done"
    BY DEF PutNone, ReaderOnly, batchVars, pipeRedis, pipeTables
  <1>2. Rest' = Rest \o t
    <2>1. Rest = queue /\ Rest' = Append(queue, 0)
      BY <1>0, <1>1, ConcatEmptySeq, AppendProperties DEF Rest, PutNone
    <2>2. Append(queue, 0) = queue \o <<0>>
      BY <1>0, AppendIsConcat
    <2>. QED
      BY <2>1, <2>2
  <1>3. Range(t) = {0} /\ \A b \in DOMAIN t : t[b] = 0
    BY DEF Range
  <1>4. Range(Rest') = Range(Rest) \cup {0} /\ Line' = Line \cup {0}
    <2>1. Range(Rest \o t) = Range(Rest) \cup Range(t)
      BY <1>0, Joined
    <2>2. Range(t) = {0}
      BY <1>3
    <2>. QED
      BY <1>1, <1>2, <2>1, <2>2 DEF Line
  <1>5. Taken' = Taken /\ Held' = Held
    BY <1>1 DEF Taken, Held
  <1>6. Preceded(Rest', Held', Taken')
    <2>1. \A a \in DOMAIN t, k \in Held : ~(k < t[a])
      BY <1>0, <1>3
    <2>2. Preceded(Rest, Held, Taken)
      BY DEF HeldFirst
    <2>3. Preceded(Rest \o t, Held, Taken)
      BY <1>0, <2>1, <2>2, PrecededJoined
    <2>. QED
      BY <1>2, <1>5, <2>3
  <1>7. \A k \in Held', i \in prices' \cup Line' \cup Taken' : k < i => i \in Held'
    <2>1. \A k \in Held : ~(k < 0)
      BY <1>0
    <2>. QED
      BY <1>1, <1>4, <1>5, <2>1 DEF HeldFirst
  <1>8. TrimmedFirst(inHand', Held') /\ \A k \in Held', i \in Taken' : k < i => k \in Taken'
    BY <1>0, <1>1, <1>5, EmptyOrder DEF HeldFirst
  <1>. QED
    BY <1>1, <1>6, <1>7, <1>8 DEF HeldFirst

LEMMA HeldFirstTake ==
    ASSUME NumsOK, HeldFirst, Collect \/ GetNone
    PROVE  HeldFirst'
  <1>0. /\ Rest \in Seq(Int) /\ parsed \in Seq(Int) /\ queue \in Seq(Int)
        /\ \A k \in Held : k \in Int /\ k > 0
    BY RestTypes
  <1>1. /\ UNCHANGED <<inHand, batch, pending, prices, reader>> /\ queue # <<>> /\ queue' = Tail(queue)
    BY DEF Collect, GetNone, BatcherOnly, readerVars, pipeTables
  <1>2. Dropped(Rest, Rest', 1) /\ Rest[1] = Head(queue)
    BY <1>1, TakeRest
  <1>. PICK e : e = Head(queue)
    OBVIOUS
  <1>3. /\ Range(Rest) = Range(Rest') \cup {e} /\ DOMAIN Rest = 1..Len(Rest) /\ 1 \in DOMAIN Rest /\ Rest[1] = e
        /\ e \in Int /\ e >= 0
    <2>1. /\ Range(Rest) = Range(Rest') \cup {Rest[1]} /\ DOMAIN Rest = 1..Len(Rest)
      BY <1>0, <1>2, DroppedPlaces
    <2>2. 1 \in 1..Len(Rest)
      BY <1>2 DEF Dropped
    <2>3. queue \in Seq(0..Len(raw)) /\ Head(queue) \in 0..Len(raw)
      BY <1>1, HeadTailProperties DEF NumsOK
    <2>. QED
      BY <1>2, <2>1, <2>2, <2>3
  <1>4. /\ (Taken' = Taken /\ e = 0 /\ Line' \subseteq Line) \/ (Taken' = Taken \cup {e} /\ e > 0 /\ Line' = Line)
    <2>1. CASE GetNone
      BY <1>1, <1>3, <2>1 DEF GetNone, Taken, Line
    <2>2. CASE Collect
      <3>1. Range(Append(parsed, e)) = Range(parsed) \cup {e}
        BY <1>0, <1>3, RangeOfAppend
      <3>2. parsed' = Append(parsed, e) /\ e # 0
        BY <2>2 DEF Collect
      <3>3. Line' = Line /\ Taken' = Taken \cup {e}
        BY <1>1, <1>3, <3>1, <3>2 DEF Taken, Line
      <3>. QED
        BY <1>3, <3>2, <3>3
    <2>. QED
      BY <2>1, <2>2
  <1>5. Held' = Held /\ Line' \subseteq Line /\ Taken \subseteq Taken' /\ Taken' \subseteq Taken \cup {e} /\ e \in Line
    BY <1>1, <1>3, <1>4 DEF Held, Line
  <1>6. \A k \in Held' : e \in {k, -k} => k \in Taken'
    BY <1>0, <1>3, <1>4, <1>5
  <1>7. \A k \in Held', i \in Taken' : k < i => k \in Taken'
    <2>1. ASSUME NEW k \in Held, k < e PROVE k \in Taken
      <3>1. k \in Taken \/ \E b \in DOMAIN Rest : b < 1
        BY <1>3, <2>1 DEF HeldFirst, Preceded
      <3>. QED
        BY <1>3, <3>1
    <2>. QED
      BY <1>5, <2>1 DEF HeldFirst
  <1>8. Preceded(Rest', Held', Taken')
    <2>1. Preceded(Rest, Held, Taken) /\ Held' \in SUBSET Held /\ Taken \cap Held' \subseteq Taken'
      BY <1>5 DEF HeldFirst
    <2>. QED
      BY <1>0, <1>2, <1>3, <1>6, <2>1, PrecededDropped
  <1>9. \A k \in Held', i \in prices' \cup Line' \cup Taken' : k < i => i \in Held'
    BY <1>1, <1>5 DEF HeldFirst
  <1>10. reader' = "new" => \A k \in Held' : k \in Taken' \/ k \in Range(Rest') \/ -k \in Range(Rest')
    BY <1>1, <1>3, <1>5, <1>6 DEF HeldFirst
  <1>11. reader' = "drain" => (Line' \cup Taken') \cap Held' \subseteq Earliest(Held', ReadBatch)
    BY <1>1, <1>5 DEF HeldFirst
  <1>12. TrimmedFirst(inHand', Held')
    BY <1>1, <1>5 DEF HeldFirst
  <1>. QED
    BY <1>7, <1>8, <1>9, <1>10, <1>11, <1>12 DEF HeldFirst

\* The batch is parsed: what was collected becomes what will be acknowledged.
LEMMA HeldFirstParse ==
    ASSUME NumsOK, InStages, HeldFirst, Parse
    PROVE  HeldFirst'
  <1>1. UNCHANGED <<inHand, queue, pending, prices, reader>> /\ Rest' = Rest /\ batch = {} /\ batch' = Range(parsed)
    BY DEF Parse, BatcherOnly, readerVars, pipeTables, InStages, Rest
  <1>2. Range(parsed') \subseteq Range(parsed)
    <2>1. PICK S : parsed' = Without(parsed, S)
      BY DEF Parse
    <2>2. parsed \in Seq(Int)
      BY RestTypes
    <2>. QED
      BY <2>1, <2>2, WithoutRange
  <1>3. Taken' = Taken /\ Line' \subseteq Line /\ Held' = Held
    BY <1>1, <1>2 DEF Taken, Line, Held
  <1>4. Preceded(Rest', Held', Taken') /\ TrimmedFirst(inHand', Held')
    BY <1>1, <1>3 DEF HeldFirst
  <1>5. \A k \in Held', i \in prices' \cup Line' \cup Taken' : k < i => i \in Held'
    BY <1>1, <1>3 DEF HeldFirst
  <1>6. reader' = "drain" => (Line' \cup Taken') \cap Held' \subseteq Earliest(Held', ReadBatch)
    BY <1>1, <1>3 DEF HeldFirst
  <1>. QED
    BY <1>1, <1>3, <1>4, <1>5, <1>6 DEF HeldFirst

LEMMA HeldFirstAck ==
    ASSUME NumsOK, PipelineAssumption, InStages, HeldFirst, AckBatch
    PROVE  HeldFirst'
  <1>1. /\ UNCHANGED <<inHand, queue, prices, reader>> /\ Rest' = Rest /\ Taken = batch /\ Taken' = {}
        /\ Held' = Held \ batch
    <2>1. Range(<<>>) = {}
      BY EmptyOrder
    <2>. QED
      BY <2>1 DEF AckBatch, BatcherOnly, readerVars, pipeTables, InStages, Rest, Taken, Held, Released
  <1>2. Line' \subseteq Line
    BY <1>1, EmptyOrder DEF Line, AckBatch
  <1>3. Preceded(Rest', Held', Taken')
    BY <1>1 DEF HeldFirst, Preceded
  <1>4. TrimmedFirst(inHand', Held')
    BY <1>1 DEF HeldFirst, TrimmedFirst
  <1>5. \A k \in Held', i \in prices' \cup Line' \cup Taken' : k < i => i \in Held'
    BY <1>1, <1>2 DEF HeldFirst
  <1>6. reader' = "new" => \A k \in Held' : k \in Taken' \/ k \in Range(Rest') \/ -k \in Range(Rest')
    BY <1>1 DEF HeldFirst
  <1>7. reader' = "drain" => (Line' \cup Taken') \cap Held' \subseteq Earliest(Held', ReadBatch)
    <2>1. Held \in SUBSET (1..Len(raw)) /\ ReadBatch \in Nat /\ ReadBatch > 0 /\ Len(raw) \in Nat /\ Held' \in SUBSET Held
      BY <1>1, RestTypes DEF PipelineAssumption
    <2>2. Earliest(Held, ReadBatch) \cap Held' \subseteq Earliest(Held', ReadBatch)
      BY <2>1, EarliestOf
    <2>. QED
      BY <1>1, <1>2, <2>2 DEF HeldFirst
  <1>. QED
    BY <1>1, <1>3, <1>4, <1>5, <1>6, <1>7 DEF HeldFirst

LEMMA NothingTaken ==
    ASSUME OneBatchAtATime, InStages, stage # "up"
    PROVE  queue = <<>> /\ inHand = <<>> /\ parsed = <<>> /\ batch = {} /\ reader = "done"
  BY DEF OneBatchAtATime, InStages

\* The stages have nothing, and what is no longer held was not written.
LEMMA HeldFirstEmpty ==
    ASSUME HeldFirst, inHand' = <<>>, queue' = <<>>, parsed' = <<>>, batch' = {}, reader' # "new",
           UNCHANGED prices, Held' \subseteq Held, Held \cap prices \subseteq Held'
    PROVE  HeldFirst'
  <1>1. Rest' = <<>>
    BY ConcatEmptySeq, EmptySeq DEF Rest
  <1>2. Line' = {} /\ Taken' = {}
    BY <1>1, EmptyOrder DEF Line, Taken
  <1>3. Preceded(Rest', Held', Taken') /\ TrimmedFirst(inHand', Held')
    BY <1>1, EmptyOrder
  <1>4. \A k \in Held', i \in prices' \cup Line' \cup Taken' : k < i => i \in Held'
    BY <1>2 DEF HeldFirst
  <1>. QED
    BY <1>2, <1>3, <1>4 DEF HeldFirst

LEMMA HeldFirstStep ==
    ASSUME NumsOK, OneBatchAtATime, PipelineAssumption, Bounded, InStages, HeldFirst,
           [PipeNext]_pipeVars, Quiet'
    PROVE  HeldFirst'
  <1>1. CASE ReadHeld
    BY <1>1, HeldFirstReadHeld
  <1>2. CASE ReadUnread
    BY <1>2, HeldFirstReadUnread
  <1>3. CASE Put
    BY <1>3, HeldFirstPut
  <1>4. CASE PutNone
    BY <1>4, HeldFirstPutNone
  <1>5. CASE Collect \/ GetNone
    BY <1>5, HeldFirstTake
  <1>6. CASE Parse
    BY <1>6, HeldFirstParse
  <1>7. CASE AckBatch
    BY <1>7, HeldFirstAck
  <1>8. CASE LoopTop \/ GetTimesOut \/ ResolveAndEnqueue \/ Awaited
    <2>1. UNCHANGED <<parsed, batch, queue, inHand, reader, pending, prices>>
      BY <1>8 DEF LoopTop, GetTimesOut, ResolveAndEnqueue, Awaited, BatcherOnly, readerVars, pipeTables
    <2>. QED
      BY <2>1, HeldFirstStill
  <1>9. CASE Launch \/ Signal \/ \E l \in Listings : PipePublish(l)
    <2>1. UNCHANGED <<parsed, batch, queue, inHand, reader, pending, prices>>
      BY <1>9 DEF Launch, Signal, PipePublish, readerVars, batchVars, pipeTables, pipeRedis
    <2>. QED
      BY <2>1, HeldFirstStill
  <1>10. CASE Gone
    <2>1. /\ inHand' = <<>> /\ queue' = <<>> /\ parsed' = <<>> /\ batch' = {} /\ reader' = "done"
          /\ UNCHANGED <<prices, pending>>
      BY <1>10 DEF Gone, pipeTables, pipeRedis
    <2>2. Held' = Held
      BY <2>1 DEF Held
    <2>. QED
      BY <2>1, <2>2, HeldFirstEmpty
  <1>11. CASE BeginStages
    <2>1. stage # "up" /\ reader' = "drain" /\ UNCHANGED <<inHand, queue, parsed, batch, prices, pending>>
      BY <1>11 DEF BeginStages, pipeTables, pipeRedis
    <2>2. queue = <<>> /\ inHand = <<>> /\ parsed = <<>> /\ batch = {}
      BY <2>1, NothingTaken
    <2>3. Held' = Held
      BY <2>1 DEF Held
    <2>. QED
      BY <2>1, <2>2, <2>3, HeldFirstEmpty
  <1>12. CASE \E i \in Ids : MoveLetter(i)
    <2>1. PICK i : MoveLetter(i)
      BY <1>12
    <2>2. stage # "up" /\ UNCHANGED <<inHand, queue, parsed, batch, prices, reader>>
      BY <2>1 DEF MoveLetter, pipeTables, readerVars, batchVars
    <2>3. queue = <<>> /\ inHand = <<>> /\ parsed = <<>> /\ batch = {} /\ reader = "done"
      BY <2>2, NothingTaken
    <2>4. i \notin prices
      BY <2>1 DEF MoveLetter, Quiet
    <2>5. Held' \subseteq Held /\ Held \cap prices \subseteq Held'
      <3>1. Held' = Held \/ Held' = Held \ {i}
        BY <2>1 DEF MoveLetter, Held, Released
      <3>. QED
        BY <2>4, <3>1
    <2>. QED
      BY <2>2, <2>3, <2>5, HeldFirstEmpty
  <1>13. CASE Writer
    <2>1. UNCHANGED <<parsed, batch, queue, inHand, reader, pending>>
      BY <1>13 DEF Writer, Late, StartFlush, EndFlushing, LateDone, HalfDone, HalfFails, WriterOnly,
              readerVars, batchVars, pipeRedis
    <2>2. prices' \subseteq prices \cup Range(flight)
      BY <1>13 DEF Writer, Late, StartFlush, EndFlushing, LateDone, HalfDone, HalfFails, Commit, pipeTables, InStages
    <2>3. Range(flight) \subseteq Line
      BY DEF InStages, Line
    <2>. QED
      BY <2>1, <2>2, <2>3, HeldFirstStill
  <1>14. CASE UNCHANGED pipeVars
    <2>1. UNCHANGED <<parsed, batch, queue, inHand, reader, pending, prices>>
      BY <1>14 DEF pipeVars, readerVars, batchVars, pipeTables, pipeRedis
    <2>. QED
      BY <2>1, HeldFirstStill
  <1>. QED
    BY <1>1, <1>2, <1>3, <1>4, <1>5, <1>6, <1>7, <1>8, <1>9, <1>10, <1>11, <1>12, <1>13, <1>14
       DEF PipeNext, Main, Exit, Die, Reader, Batcher

-----------------------------------------------------------------------------
(* What is read, and where the batch is *)

\* Once something has failed, or a message was not gone through with, that stays.
LEMMA QuietBefore ==
    ASSUME mishaps \in Nat, [PipeNext]_pipeVars
    PROVE  /\ mishaps' \in Nat /\ (Quiet' => Quiet)
           /\ Quiet' => ~\E s \in {"upsert", "copy"} : HalfFails(s)
  <1>1. mishaps' \in {mishaps, mishaps + 1}
    BY DEF PipeNext, PipePublish, Main, Launch, BeginStages, Exit, Gone, MoveLetter, Signal, Die, Reader, ReadHeld,
           ReadUnread, Put, PutNone, ReaderOnly, Batcher, LoopTop, GetTimesOut, Collect, GetNone, Parse,
           ResolveAndEnqueue, Awaited, AckBatch, BatcherOnly, Writer, Late, StartFlush, EndFlushing,
           LateDone, HalfDone, HalfFails, WriterOnly, pipeVars
  <1>2. torn => torn'
    BY DEF PipeNext, PipePublish, Main, Launch, BeginStages, Exit, Gone, MoveLetter, Signal, Die, Reader, ReadHeld,
           ReadUnread, Put, PutNone, ReaderOnly, Batcher, LoopTop, GetTimesOut, Collect, GetNone, Parse,
           ResolveAndEnqueue, Awaited, AckBatch, BatcherOnly, Writer, Late, StartFlush, EndFlushing,
           LateDone, HalfDone, HalfFails, WriterOnly, pipeVars
  <1>3. ASSUME NEW s \in {"upsert", "copy"}, HalfFails(s)
        PROVE  mishaps' = mishaps + 1
    BY <1>3 DEF HalfFails
  <1>. QED
    BY <1>1, <1>2, <1>3 DEF Quiet

\* What a reading of the pending list, or a put, does to what is on its way.
LEMMA LineReadHeld ==
    ASSUME NumsOK, ReadHeld
    PROVE  /\ Range(Rest') = Range(Rest) \cup Range(inHand') /\ Line' = Line \cup Range(inHand')
           /\ \A i \in Range(inHand') : i \in Held \/ (i \in Int /\ i < 0 /\ -i \in Held)
  <1>. PICK S : S = Earliest(Held, ReadBatch)
    OBVIOUS
  <1>. PICK t : t = inHand'
    OBVIOUS
  <1>1. /\ HandOf(t, S, cut) /\ Rest' = Rest \o t /\ S \subseteq Held /\ UNCHANGED parsed
    BY HeldRead DEF batchVars
  <1>2. Rest \in Seq(Int) /\ t \in Seq(Int) /\ \A a \in DOMAIN t : t[a] \in Int
    <2>1. t \in Seq(Int)
      BY <1>1 DEF HandOf
    <2>. QED
      BY <2>1, RestTypes, LenProperties, ElementOfSeq
  <1>3. \A a \in DOMAIN t : t[a] \in Held \/ (t[a] < 0 /\ -t[a] \in Held)
    <2>1. ASSUME NEW a \in DOMAIN t PROVE t[a] \in S \/ (t[a] < 0 /\ -t[a] \in S)
      <3>1. (t[a] > cut /\ t[a] \in S) \/ (-t[a] \in 1..cut /\ -t[a] \in S)
        BY <1>1 DEF HandOf
      <3>. QED
        BY <1>2, <3>1
    <2>. QED
      BY <1>1, <2>1
  <1>4. Range(Rest \o t) = Range(Rest) \cup Range(t)
    BY <1>2, Joined
  <1>5. \A i \in Range(t) : i \in Held \/ (i \in Int /\ i < 0 /\ -i \in Held)
    BY <1>2, <1>3 DEF Range
  <1>. QED
    BY <1>1, <1>4, <1>5 DEF Line

LEMMA LineReadUnread ==
    ASSUME NumsOK, readUpTo \in Nat, ReadUnread
    PROVE  /\ Range(Rest') = Range(Rest) \cup Range(inHand') /\ Line' = Line \cup Range(inHand')
           /\ readUpTo' \in Nat /\ readUpTo <= readUpTo' /\ readUpTo' <= Len(raw)
           /\ \A i \in Range(inHand') \cup (Held' \ Held) : i \in 1..readUpTo' /\ readUpTo < i
           /\ Held \subseteq Held'
  <1>. PICK S : S = Earliest(Unread, ReadBatch)
    OBVIOUS
  <1>. PICK t : t = inHand'
    OBVIOUS
  <1>1. /\ HandOf(t, S, 0) /\ Rest' = Rest \o t /\ S \subseteq 1..Len(raw) /\ UNCHANGED parsed
        /\ (\A i \in S : readUpTo < i /\ i <= readUpTo') /\ readUpTo' \in S /\ Held' = Held \cup S
    BY UnreadRead DEF batchVars
  <1>2. Rest \in Seq(Int) /\ t \in Seq(Int) /\ Len(raw) \in Nat
    BY <1>1, RestTypes DEF HandOf
  <1>3. \A a \in DOMAIN t : t[a] \in S
    <2>1. ASSUME NEW a \in DOMAIN t PROVE t[a] \in S
      <3>1. t[a] \in S \/ -t[a] \in 1..0
        BY <1>1 DEF HandOf
      <3>2. ~(-t[a] \in 1..0)
        OBVIOUS
      <3>. QED
        BY <3>1, <3>2
    <2>. QED
      BY <2>1
  <1>4. Range(Rest \o t) = Range(Rest) \cup Range(t)
    BY <1>2, Joined
  <1>5. \A i \in S : i \in 1..readUpTo' /\ readUpTo < i
    BY <1>1, <1>2
  <1>6. \A i \in Range(t) : i \in S
    BY <1>3 DEF Range
  <1>7. readUpTo' \in Nat /\ readUpTo <= readUpTo' /\ readUpTo' <= Len(raw)
    BY <1>1, <1>2
  <1>. QED
    BY <1>1, <1>4, <1>5, <1>6, <1>7 DEF Line

LEMMA LinePut ==
    ASSUME NumsOK, Put
    PROVE  /\ Line' \subseteq Line /\ \A i \in Line : i > 0 => i \in Line'
           /\ \A i \in Range(Rest) : i > 0 => i \in Range(Rest')
           /\ Held' \subseteq Held /\ (~torn' => Held \cap prices \subseteq Held')
  <1>0. Rest \in Seq(Int)
    BY RestTypes
  <1>. PICK x \in Int : x = inHand[1]
    BY PutRest
  <1>1. /\ UNCHANGED parsed
        /\ \/ Rest' = Rest /\ Held' = Held
           \/ /\ x < 0 /\ Dropped(Rest, Rest', Len(queue) + 1) /\ Rest[Len(queue) + 1] = x
              /\ Held' = Held \ {-x} /\ torn' = (torn \/ -x \in prices)
    BY PutRest DEF batchVars
  <1>2. CASE Rest' = Rest /\ Held' = Held
    BY <1>1, <1>2 DEF Line
  <1>3. CASE /\ x < 0 /\ Dropped(Rest, Rest', Len(queue) + 1) /\ Rest[Len(queue) + 1] = x
             /\ Held' = Held \ {-x} /\ torn' = (torn \/ -x \in prices)
    <2>1. Range(Rest) = Range(Rest') \cup {x}
      BY <1>0, <1>3, DroppedPlaces
    <2>2. ~(x > 0)
      BY <1>3
    <2>. QED
      BY <1>1, <1>3, <2>1, <2>2 DEF Line
  <1>. QED
    BY <1>1, <1>2, <1>3

LEMMA LinePutNone ==
    ASSUME NumsOK, PutNone
    PROVE  Range(Rest') = Range(Rest) \cup {0} /\ Line' = Line \cup {0}
  <1>1. inHand = <<>> /\ inHand' = <<>> /\ UNCHANGED parsed
    BY DEF PutNone, Reading, ReaderOnly, batchVars
  <1>2. queue \in Seq(Int) /\ Append(queue, 0) \in Seq(Int) /\ Range(Append(queue, 0)) = Range(queue) \cup {0}
    <2>1. queue \in Seq(Int)
      BY RestTypes
    <2>2. 0 \in Int
      OBVIOUS
    <2>. QED
      BY <2>1, <2>2, AppendProperties, RangeOfAppend
  <1>3. Rest = queue /\ Rest' = Append(queue, 0)
    BY <1>1, <1>2, ConcatEmptySeq DEF Rest, PutNone
  <1>. QED
    BY <1>1, <1>2, <1>3 DEF Line

LEMMA LineTake ==
    ASSUME NumsOK, Collect \/ GetNone
    PROVE  Line' \subseteq Line /\ \A i \in Line : i # 0 => i \in Line'
  <1>0. Rest \in Seq(Int) /\ parsed \in Seq(Int) /\ queue \in Seq(Int)
    BY RestTypes
  <1>1. UNCHANGED inHand /\ queue # <<>> /\ queue' = Tail(queue)
    BY DEF Collect, GetNone, BatcherOnly, readerVars
  <1>. PICK e : e = Head(queue)
    OBVIOUS
  <1>2. Dropped(Rest, Rest', 1) /\ Rest[1] = e /\ e \in Int
    BY <1>0, <1>1, TakeRest, HeadTailProperties
  <1>3. Range(Rest) = Range(Rest') \cup {e}
    BY <1>0, <1>2, DroppedPlaces
  <1>4. CASE GetNone
    BY <1>3, <1>4 DEF GetNone, Line
  <1>5. CASE Collect
    <2>1. parsed' = Append(parsed, e)
      BY <1>5 DEF Collect
    <2>2. Range(parsed') = Range(parsed) \cup {e}
      BY <1>0, <1>2, <2>1, RangeOfAppend
    <2>. QED
      BY <1>3, <2>2 DEF Line
  <1>. QED
    BY <1>4, <1>5

LEMMA LineBatch ==
    ASSUME NumsOK, Parse \/ ResolveAndEnqueue \/ AckBatch
    PROVE  Rest' = Rest /\ Range(parsed') \subseteq Range(parsed) /\ Line' \subseteq Line
  <1>1. Rest' = Rest
    BY DEF Parse, ResolveAndEnqueue, AckBatch, BatcherOnly, readerVars, Rest
  <1>2. Range(parsed') \subseteq Range(parsed)
    <2>1. CASE Parse
      <3>1. PICK S : parsed' = Without(parsed, S)
        BY <2>1 DEF Parse
      <3>2. parsed \in Seq(Int)
        BY RestTypes
      <3>. QED
        BY <3>1, <3>2, WithoutRange
    <2>2. CASE ResolveAndEnqueue
      BY <2>2 DEF ResolveAndEnqueue
    <2>3. CASE AckBatch
      BY <2>3, EmptyOrder DEF AckBatch
    <2>. QED
      BY <2>1, <2>2, <2>3
  <1>. QED
    BY <1>1, <1>2 DEF Line

LEMMA WiderBounds ==
    ASSUME NEW n \in Nat, NEW m \in Nat, n <= m
    PROVE  1..n \subseteq 1..m /\ -n..n \subseteq -m..m /\ 1..m \subseteq -m..m
  <1>1. -m <= -n /\ -m <= 1
    OBVIOUS
  <1>2. \A i \in -n..n : i \in Int /\ -m <= i /\ i <= m
    BY <1>1
  <1>. QED
    BY <1>1, <1>2

LEMMA BoundedStep ==
    ASSUME NumsOK, OneBatchAtATime, Bounded, InStages, [PipeNext]_pipeVars, Quiet'
    PROVE  Bounded'
  <1>0. /\ readUpTo \in Nat /\ readUpTo <= Len(raw) /\ Len(raw) \in Nat /\ Len(raw') \in Nat /\ Len(raw) <= Len(raw')
        /\ Held \subseteq 1..readUpTo /\ prices \subseteq 1..readUpTo /\ batch \subseteq 1..readUpTo
        /\ Line \subseteq -readUpTo..readUpTo
    BY PipeGrows DEF Bounded
  <1>1. Range(parsed) \subseteq 1..readUpTo
    <2>1. Range(parsed) \subseteq 1..Len(raw)
      BY RangeOfSeq DEF NumsOK
    <2>2. \A i \in Range(parsed) : i \in Int /\ i > 0 /\ i <= readUpTo
      BY <1>0, <2>1 DEF Line
    <2>. QED
      BY <1>0, <2>2
  <1>2. ASSUME UNCHANGED readUpTo, Held' \subseteq Held, prices' \subseteq prices \cup Range(parsed),
               batch' \subseteq batch \cup Range(parsed), Line' \subseteq Line \cup {0}
        PROVE  Bounded'
    <2>1. 0 \in -readUpTo..readUpTo
      BY <1>0
    <2>2. readUpTo' \in Nat /\ readUpTo' <= Len(raw')
      BY <1>0, <1>2
    <2>. QED
      BY <1>0, <1>1, <1>2, <2>1, <2>2 DEF Bounded
  <1>3. CASE ReadHeld
    <2>1. /\ Line' = Line \cup Range(inHand')
          /\ \A i \in Range(inHand') : i \in Held \/ (i \in Int /\ i < 0 /\ -i \in Held)
      BY <1>3, LineReadHeld
    <2>2. UNCHANGED <<readUpTo, prices, batch>> /\ Held' = Held
      BY <1>3, HeldRead DEF pipeTables, batchVars
    <2>3. ASSUME NEW i \in Range(inHand')
          PROVE  i \in -readUpTo..readUpTo
      <3>1. CASE i \in Held
        BY <1>0, <3>1
      <3>2. CASE i \in Int /\ i < 0 /\ -i \in Held
        <4>1. -i \in 1..readUpTo
          BY <1>0, <3>2
        <4>. QED
          BY <1>0, <3>2, <4>1
      <3>. QED
        BY <2>1, <3>1, <3>2
    <2>4. Line' \subseteq -readUpTo..readUpTo
      BY <1>0, <2>1, <2>3
    <2>. QED
      BY <1>0, <2>2, <2>4 DEF Bounded
  <1>4. CASE ReadUnread
    <2>1. /\ Line' = Line \cup Range(inHand')
          /\ readUpTo' \in Nat /\ readUpTo <= readUpTo' /\ readUpTo' <= Len(raw)
          /\ \A i \in Range(inHand') \cup (Held' \ Held) : i \in 1..readUpTo' /\ readUpTo < i
      BY <1>0, <1>4, LineReadUnread
    <2>2. UNCHANGED <<prices, batch>>
      BY <1>4 DEF ReadUnread, ReaderOnly, pipeTables, batchVars
    <2>3. 1..readUpTo \subseteq 1..readUpTo' /\ -readUpTo..readUpTo \subseteq -readUpTo'..readUpTo'
          /\ 1..readUpTo' \subseteq -readUpTo'..readUpTo'
      BY <1>0, <2>1, WiderBounds
    <2>4. Line' \subseteq -readUpTo'..readUpTo' /\ Held' \subseteq 1..readUpTo'
      BY <1>0, <2>1, <2>3
    <2>5. readUpTo' <= Len(raw')
      BY <1>0, <2>1
    <2>. QED
      BY <1>0, <2>1, <2>2, <2>3, <2>4, <2>5 DEF Bounded
  <1>5. CASE Put
    BY <1>2, <1>5, LinePut, PutRest DEF pipeTables, batchVars
  <1>6. CASE PutNone
    BY <1>2, <1>6, LinePutNone DEF PutNone, ReaderOnly, pipeRedis, pipeTables, batchVars, Held
  <1>7. CASE Collect \/ GetNone
    <2>1. Line' \subseteq Line
      BY <1>7, LineTake
    <2>. QED
      BY <1>2, <1>7, <2>1 DEF Collect, GetNone, BatcherOnly, pipeTables, Held
  <1>8. CASE Parse \/ ResolveAndEnqueue \/ AckBatch
    <2>1. Line' \subseteq Line
      BY <1>8, LineBatch
    <2>. QED
      BY <1>2, <1>8, <2>1 DEF Parse, ResolveAndEnqueue, AckBatch, BatcherOnly, pipeTables, Held, Released
  <1>9. CASE LoopTop \/ GetTimesOut \/ Awaited \/ Launch \/ Signal \/ BeginStages \/ UNCHANGED pipeVars
             \/ (\E l \in Listings : PipePublish(l)) \/ (\E i \in Ids : MoveLetter(i))
    <2>1. UNCHANGED <<parsed, queue, inHand, batch, readUpTo, prices>> /\ Held' \subseteq Held
      BY <1>9 DEF LoopTop, GetTimesOut, Awaited, BatcherOnly, Launch, Signal, BeginStages, PipePublish, MoveLetter,
              pipeVars, pipeRedis, pipeTables, readerVars, batchVars, Held, Released
    <2>2. Line' = Line
      BY <2>1 DEF Line, Rest
    <2>. QED
      BY <1>2, <2>1, <2>2
  <1>10. CASE Gone
    <2>1. parsed' = <<>> /\ inHand' = <<>> /\ queue' = <<>> /\ batch' = {} /\ UNCHANGED <<readUpTo, prices, pending>>
      BY <1>10 DEF Gone, pipeRedis, pipeTables
    <2>2. Rest' = <<>>
      BY <2>1, ConcatEmptySeq, EmptySeq DEF Rest
    <2>3. Line' = {} /\ Held' = Held
      BY <2>1, <2>2, EmptyOrder DEF Line, Held
    <2>. QED
      BY <1>2, <2>1, <2>3
  <1>11. CASE Writer
    <2>1. UNCHANGED <<parsed, queue, inHand, batch, readUpTo, pending>>
      BY <1>11 DEF Writer, Late, StartFlush, EndFlushing, LateDone, HalfDone, HalfFails, WriterOnly,
              readerVars, batchVars, pipeRedis
    <2>2. Line' = Line /\ Held' = Held
      BY <2>1 DEF Line, Rest, Held
    <2>3. prices' \subseteq prices \cup Range(flight) /\ Range(flight) \subseteq Range(parsed)
      BY <1>11 DEF Writer, Late, StartFlush, EndFlushing, LateDone, HalfDone, HalfFails, Commit, pipeTables, InStages
    <2>. QED
      BY <1>2, <2>1, <2>2, <2>3
  <1>. QED
    BY <1>3, <1>4, <1>5, <1>6, <1>7, <1>8, <1>9, <1>10, <1>11 DEF PipeNext, Main, Exit, Die, Reader, Batcher

LEMMA InStagesStill ==
    ASSUME InStages, UNCHANGED <<batchVars, buffered, result, flight, half, late, prices, stage>>,
           stage = "up" \/ UNCHANGED <<queue, inHand, reader>>
    PROVE  InStages'
  BY DEF InStages, batchVars

LEMMA InStagesBatch ==
    ASSUME NumsOK, OneBatchAtATime, InStages, Batcher, Quiet'
    PROVE  InStages'
  <1>0. parsed \in Seq(Int)
    BY RestTypes
  <1>1. UNCHANGED <<prices, flight, half, late, stage>> /\ stage = "up"
    BY DEF Batcher, LoopTop, GetTimesOut, Collect, GetNone, Parse, ResolveAndEnqueue, Awaited, AckBatch,
           BatcherOnly, pipeTables, mainVars
  <1>2. CASE LoopTop \/ GetTimesOut \/ GetNone
    <2>1. UNCHANGED <<batch, parsed, noted, buffered, result>>
      BY <1>2 DEF LoopTop, GetTimesOut, GetNone
    <2>2. \/ batcher = "top" /\ batcher' \in {"done", "wait"}
          \/ batcher = "wait" /\ batcher' \in {"top", "done"}
          \/ batcher = "collect" /\ batcher' = "parse"
      BY <1>2 DEF LoopTop, GetTimesOut, GetNone
    <2>. QED
      BY <1>1, <2>1, <2>2 DEF InStages
  <1>3. CASE Collect
    <2>1. UNCHANGED <<batch, noted, buffered, result>> /\ batcher \in {"wait", "collect"} /\ batcher' = "collect"
      BY <1>3 DEF Collect
    <2>2. buffered = <<>> /\ flight = <<>> /\ half = {} /\ result = "none"
      BY <2>1, NothingInFlight
    <2>. QED
      BY <1>1, <2>1, <2>2, EmptyOrder DEF InStages
  <1>4. CASE Parse
    <2>1. PICK S : parsed' = Without(parsed, S) /\ noted' = S /\ torn' = (torn \/ S \cap prices # {})
      BY <1>4 DEF Parse
    <2>2. /\ UNCHANGED <<buffered, result>> /\ batcher \in {"collect", "parse"} /\ batcher' \in {"ack", "resolve"}
          /\ batch' = Range(parsed)
      BY <1>4 DEF Parse
    <2>3. buffered = <<>> /\ flight = <<>> /\ half = {} /\ result = "none"
      BY <2>2, NothingInFlight
    <2>4. Range(parsed') = Range(parsed) \ S
      BY <1>0, <2>1, WithoutRange
    <2>5. S \cap prices = {}
      BY <2>1 DEF Quiet
    <2>. QED
      BY <1>1, <2>1, <2>2, <2>3, <2>4, <2>5, EmptyOrder DEF InStages
  <1>5. CASE ResolveAndEnqueue
    <2>1. PICK S : /\ buffered' = buffered \o Without(parsed, S)
                   /\ noted' = noted \cup S /\ torn' = (torn \/ S \cap prices # {})
      BY <1>5 DEF ResolveAndEnqueue
    <2>2. UNCHANGED <<batch, parsed, result>> /\ batcher = "resolve" /\ batcher' \in {"ack", "await"}
      BY <1>5 DEF ResolveAndEnqueue
    <2>3. buffered = <<>> /\ flight = <<>> /\ half = {} /\ result = "none"
      BY <2>2, NothingInFlight
    <2>4. buffered' = Without(parsed, S)
      BY <1>0, <2>1, <2>3, WithoutTypes, ConcatEmptySeq
    <2>5. Range(buffered') = Range(parsed) \ S
      BY <1>0, <2>4, WithoutRange
    <2>6. S \cap prices = {}
      BY <2>1 DEF Quiet
    <2>7. noted \cap prices = {} /\ noted \cap Range(parsed) = {} /\ Range(parsed) \subseteq batch /\ late = {}
      BY <2>2 DEF InStages
    <2>8. noted' \cap (Range(buffered') \cup Range(flight')) = {} /\ noted' \cap prices' = {}
          /\ Range(flight') \cup Range(buffered') \subseteq Range(parsed')
      BY <1>1, <2>1, <2>2, <2>3, <2>5, <2>6, <2>7, EmptyOrder
    <2>. QED
      BY <1>1, <2>2, <2>3, <2>7, <2>8 DEF InStages
  <1>6. CASE Awaited
    <2>1. result # "failed" /\ result # "none" /\ batcher = "await"
      BY <1>6 DEF Awaited, InStages
    <2>2. result = "ok"
      BY <2>1 DEF OneBatchAtATime
    <2>3. UNCHANGED <<batch, parsed, buffered, noted>> /\ batcher' = "ack" /\ result' = "none"
      BY <1>6, <2>2 DEF Awaited
    <2>. QED
      BY <1>1, <2>1, <2>3 DEF InStages
  <1>7. CASE AckBatch
    <2>1. /\ UNCHANGED <<buffered, result>> /\ batcher = "ack" /\ batcher' = "top"
          /\ batch' = {} /\ parsed' = <<>> /\ noted' = {}
      BY <1>7 DEF AckBatch
    <2>2. buffered = <<>> /\ flight = <<>> /\ half = {} /\ result = "none"
      BY <2>1, NothingInFlight
    <2>. QED
      BY <1>1, <2>1, <2>2, EmptyOrder DEF InStages
  <1>. QED
    BY <1>2, <1>3, <1>4, <1>5, <1>6, <1>7 DEF Batcher

LEMMA InStagesFlush ==
    ASSUME OneBatchAtATime, InStages, Writer, ~\E s \in {"upsert", "copy"} : HalfFails(s)
    PROVE  InStages'
  <1>1. UNCHANGED <<batcher, batch, parsed, noted, stage, queue, inHand, reader>>
    BY DEF Writer, Late, StartFlush, EndFlushing, LateDone, HalfDone, HalfFails, WriterOnly,
           readerVars, batchVars, mainVars
  <1>2. CASE StartFlush
    <2>1. flight' = buffered /\ buffered' = <<>> /\ half' = {"upsert", "copy"} /\ UNCHANGED <<prices, result, late>>
      BY <1>2 DEF StartFlush, pipeTables
    <2>. QED
      BY <1>1, <2>1, EmptyOrder DEF InStages
  <1>3. CASE EndFlushing
    <2>1. UNCHANGED <<prices, buffered, result, flight, half, late>>
      BY <1>3 DEF EndFlushing, pipeTables
    <2>. QED
      BY <1>1, <2>1 DEF InStages
  <1>4. CASE Late
    BY <1>4 DEF Late, InStages
  <1>5. ASSUME NEW s \in {"upsert", "copy"}, HalfDone(s)
        PROVE  InStages'
    <2>1. UNCHANGED <<buffered, late>> /\ half' = half \ {s} /\ prices' \in {prices, prices \cup Range(flight)}
      BY <1>5 DEF HalfDone, Commit
    <2>2. \/ half' = {} /\ result' = "ok" /\ flight' = <<>>
          \/ half' # {} /\ UNCHANGED <<result, flight>>
      BY <1>5 DEF HalfDone
    <2>3. noted \cap prices' = {}
      BY <2>1 DEF InStages
    <2>. QED
      BY <1>1, <2>1, <2>2, <2>3, EmptyOrder DEF InStages
  <1>. QED
    BY <1>2, <1>3, <1>4, <1>5 DEF Writer

LEMMA InStagesStep ==
    ASSUME NumsOK, OneBatchAtATime, InStages, mishaps \in Nat, [PipeNext]_pipeVars, Quiet'
    PROVE  InStages'
  <1>1. CASE Reader \/ Signal \/ (\E l \in Listings : PipePublish(l)) \/ UNCHANGED pipeVars
    <2>1. UNCHANGED <<batchVars, buffered, result, flight, half, late, prices, stage>>
      BY <1>1 DEF Reader, ReadHeld, ReadUnread, Put, PutNone, ReaderOnly, Signal, PipePublish, pipeVars,
              pipeTables, writerVars, mainVars
    <2>2. stage = "up" \/ UNCHANGED <<queue, inHand, reader>>
      BY <1>1 DEF Reader, ReadHeld, ReadUnread, Put, PutNone, Reading, Signal, PipePublish, pipeVars, readerVars
    <2>. QED
      BY <2>1, <2>2, InStagesStill
  <1>2. CASE Batcher
    BY <1>2, InStagesBatch
  <1>3. CASE Writer
    BY <1>3, QuietBefore, InStagesFlush
  <1>4. CASE Launch \/ \E i \in Ids : MoveLetter(i)
    <2>1. /\ UNCHANGED <<batchVars, buffered, result, flight, half, late, prices, queue, inHand, reader>>
          /\ stage # "up"
      BY <1>4 DEF Launch, MoveLetter, pipeTables, writerVars, readerVars
    <2>. QED
      BY <2>1 DEF InStages, batchVars
  <1>5. CASE BeginStages
    <2>1. /\ UNCHANGED <<batch, parsed, noted, buffered, result, flight, half, late, prices>>
          /\ stage # "up" /\ stage' = "up" /\ batcher' = "top"
      BY <1>5 DEF BeginStages, pipeTables
    <2>2. parsed = <<>> /\ batch = {}
      BY <2>1, NothingTaken
    <2>. QED
      BY <2>1, <2>2 DEF InStages
  <1>6. CASE Gone
    <2>1. /\ stage' = "down" /\ reader' = "done" /\ inHand' = <<>> /\ queue' = <<>>
          /\ batcher' = "done" /\ batch' = {} /\ parsed' = <<>> /\ noted' = {}
          /\ buffered' = <<>> /\ result' = "none" /\ flight' = <<>> /\ half' = {} /\ late' = {}
      BY <1>6 DEF Gone
    <2>. QED
      BY <2>1, EmptyOrder DEF InStages
  <1>. QED
    BY <1>1, <1>2, <1>3, <1>4, <1>5, <1>6 DEF PipeNext, Main, Exit, Die

-----------------------------------------------------------------------------
(* The rows *)

LEMMA RowsKept ==
    ASSUME NumsOK, [PipeNext]_pipeVars, UNCHANGED rows, NEW i \in 1..Len(raw)
    PROVE  raw'[i].url = raw[i].url /\ (RowIsLatest(i)' <=> RowIsLatest(i))
  <1>1. raw'[i] = raw[i]
    BY PipeGrows
  <1>. QED
    BY <1>1 DEF RowIsLatest

\* What the batch stage has not taken stays on its way to it.
RestStays == \A i \in Range(Rest) : 0 < i => i \in Range(Rest')

\* A step that writes nothing, and after which what was written and is on its
\* way, or pending, still is.
LEMMA RowsStill ==
    ASSUME NumsOK, [PipeNext]_pipeVars, Bounded, InStages, RowsInOrder, UNCHANGED <<rows, prices>>,
           \A i \in prices : i \in Held \cup Line => i \in Held' \cup Line',
           \A k \in Line', i \in prices : 0 < k /\ k < i => k \in Line \/ i \in Held',
           half' = {} \/ (UNCHANGED <<half, flight>> /\ RestStays),
           \/ batcher' # "ack" /\ result' = "none"
           \/ batch' \cap prices = {}
           \/ (batcher = "ack" \/ result # "none") /\ batch' \subseteq batch /\ RestStays
    PROVE  RowsInOrder'
  <1>0. /\ prices \subseteq 1..Len(raw) /\ Range(flight) \subseteq 1..Len(raw)
        /\ \A i \in prices \cup Range(flight) : 0 < i
    <2>1. prices \subseteq 1..readUpTo /\ readUpTo \in Nat /\ readUpTo <= Len(raw) /\ Len(raw) \in Nat
      BY PipeGrows DEF Bounded
    <2>2. Range(flight) \subseteq 1..Len(raw)
      BY RangeOfSeq DEF NumsOK
    <2>. QED
      BY <2>1, <2>2
  <1>1. \A i \in prices : raw'[i].url = raw[i].url /\ (RowIsLatest(i)' <=> RowIsLatest(i))
    BY <1>0, RowsKept
  <1>2. \A i \in Range(flight) : RowIsLatest(i)' <=> RowIsLatest(i)
    BY <1>0, RowsKept
  <1>3. \A k \in Line', i \in prices' : 0 < k /\ k < i => i \in Held' \cup Line'
    BY DEF RowsInOrder
  <1>4. \A i \in prices' : raw'[i].url \notin DOMAIN rows' \/ RowIsLatest(i)' \/ i \in Held' \cup Line'
    BY <1>1 DEF RowsInOrder
  <1>5. half' # {} /\ "upsert" \notin half' => \A i \in Range(flight') : RowIsLatest(i)' \/ i \in Range(Rest')
    BY <1>0, <1>2 DEF RowsInOrder, RestStays
  <1>6. batcher' = "ack" \/ result' # "none" => \A i \in batch' \cap prices' : RowIsLatest(i)' \/ i \in Range(Rest')
    BY <1>0, <1>1 DEF RowsInOrder, RestStays
  <1>7. RowsInOrder'
    <2>. HIDE DEF RowIsLatest
    <2>. QED
      BY <1>3, <1>4, <1>5, <1>6 DEF RowsInOrder
  <1>. QED
    BY <1>7

\* Of the rows of a batch, that of a url is the last one.
LEMMA LastPlace ==
    ASSUME NumsOK, NEW b \in DOMAIN flight
    PROVE  \E c \in DOMAIN flight :
              /\ LastOf(flight, raw[flight[b]].url) = flight[c] /\ raw[flight[c]].url = raw[flight[b]].url
              /\ \A d \in DOMAIN flight : raw[flight[d]].url = raw[flight[b]].url => d <= c
  <1>. PICK u : u = raw[flight[b]].url
    OBVIOUS
  <1>. PICK P : P = PlacesOf(flight, u)
    OBVIOUS
  <1>. PICK n \in Nat : n = Len(flight) /\ DOMAIN flight = 1..n
    BY LenProperties DEF NumsOK
  <1>1. P \subseteq 1..n /\ b \in P /\ \A d \in P : raw[flight[d]].url = u
    BY DEF PlacesOf
  <1>2. \E c \in P : \A d \in P : d <= c
    <2>. PICK B : B = {n - d : d \in P}
      OBVIOUS
    <2>1. \A d \in P : d \in Int /\ n - d \in 0..n
      BY <1>1
    <2>2. B \in SUBSET (0..n) /\ B # {}
      BY <1>1, <2>1
    <2>3. PICK a \in B : \A e \in B : a <= e
      BY <2>2, SmallestNumber
    <2>4. PICK c \in P : a = n - c
      BY <2>3
    <2>5. \A d \in P : n - d \in B /\ n - c <= n - d
      BY <2>3, <2>4
    <2>6. \A d \in P : d <= c
      BY <2>1, <2>5
    <2>. QED
      BY <2>6
  <1>3. PICK c : c = CHOOSE k \in P : \A j \in P : j <= k
    OBVIOUS
  <1>4. c \in P /\ \A d \in P : d <= c
    BY <1>2, <1>3
  <1>5. LastOf(flight, u) = flight[c]
    BY <1>3 DEF LastOf
  <1>6. \A d \in DOMAIN flight : raw[flight[d]].url = u => d <= c
    BY <1>4 DEF PlacesOf
  <1>. QED
    BY <1>1, <1>4, <1>5, <1>6

\* What the UPSERT does to the rows of the urls it writes, and to the others.
LEMMA UpsertedRows ==
    ASSUME NumsOK, InOrder, rows' = Upserted(flight), UNCHANGED raw
    PROVE  /\ \A i \in Range(flight) : RowIsLatest(i)' \/ i \in Range(Rest)
           /\ \A i \in 1..Len(raw) :
                \/ raw[i].url \in DOMAIN rows' /\ rows'[raw[i].url] \in Range(flight)
                \/ /\ raw[i].url \in DOMAIN rows' <=> raw[i].url \in DOMAIN rows
                   /\ RowIsLatest(i)' <=> RowIsLatest(i)
  <1>. PICK urls : urls = {raw[i].url : i \in Range(flight)}
    OBVIOUS
  <1>1. /\ DOMAIN rows' = DOMAIN rows \cup urls
        /\ \A u \in DOMAIN rows' : rows'[u] = IF u \in urls THEN LastOf(flight, u) ELSE rows[u]
    BY DEF Upserted
  <1>2. \A j \in Range(flight) : \E b \in DOMAIN flight : flight[b] = j
    BY DEF Range
  <1>3. ASSUME NEW i \in Range(flight)
        PROVE  RowIsLatest(i)' \/ i \in Range(Rest)
    <2>1. PICK b \in DOMAIN flight : flight[b] = i
      BY <1>2
    <2>2. PICK c \in DOMAIN flight :
            /\ LastOf(flight, raw[i].url) = flight[c] /\ raw[flight[c]].url = raw[i].url
            /\ \A d \in DOMAIN flight : raw[flight[d]].url = raw[i].url => d <= c
      BY <2>1, LastPlace
    <2>3. raw[i].url \in DOMAIN rows' /\ rows'[raw[i].url] = flight[c]
      BY <1>1, <2>2
    <2>4. i \in Int /\ flight[c] \in Int /\ DOMAIN flight = 1..Len(flight) /\ Len(flight) \in Nat
      <3>1. flight \in Seq(Int)
        BY RestTypes
      <3>. QED
        BY <2>1, <3>1, LenProperties, ElementOfSeq
    <2>5. CASE i <= flight[c]
      BY <2>3, <2>5 DEF RowIsLatest
    <2>6. CASE flight[c] < i
      <3>1. i \in Range(Rest) \/ \E d \in DOMAIN flight : c < d /\ flight[d] = i
        BY <2>6 DEF InOrder, Ends
      <3>2. \A d \in DOMAIN flight : flight[d] = i => ~(c < d)
        BY <2>2, <2>4
      <3>. QED
        BY <3>1, <3>2
    <2>. QED
      BY <2>4, <2>5, <2>6
  <1>4. ASSUME NEW i \in 1..Len(raw), raw[i].url \in urls
        PROVE  raw[i].url \in DOMAIN rows' /\ rows'[raw[i].url] \in Range(flight)
    <2>1. PICK j \in Range(flight) : raw[j].url = raw[i].url
      BY <1>4
    <2>2. PICK b \in DOMAIN flight : flight[b] = j
      BY <1>2
    <2>3. PICK c \in DOMAIN flight : LastOf(flight, raw[i].url) = flight[c]
      BY <2>1, <2>2, LastPlace
    <2>. QED
      BY <1>1, <1>4, <2>3 DEF Range
  <1>5. ASSUME NEW i \in 1..Len(raw), raw[i].url \notin urls
        PROVE  /\ raw[i].url \in DOMAIN rows' <=> raw[i].url \in DOMAIN rows
               /\ RowIsLatest(i)' <=> RowIsLatest(i)
    BY <1>1, <1>5 DEF RowIsLatest
  <1>. QED
    BY <1>3, <1>4, <1>5

LEMMA RowsReader ==
    ASSUME NumsOK, OneBatchAtATime, Bounded, InStages, HeldFirst, RowsInOrder, [PipeNext]_pipeVars, Reader, ~torn'
    PROVE  RowsInOrder'
  <1>1. UNCHANGED <<rows, prices, half, flight, batcher, result, batch>>
    BY DEF Reader, ReadHeld, ReadUnread, Put, PutNone, ReaderOnly, pipeTables, batchVars, writerVars
  <1>2. \A i \in prices : i \in Int /\ i > 0 /\ i <= readUpTo
    BY DEF Bounded
  <1>3. ASSUME RestStays,
               \A i \in prices : i \in Held \cup Line => i \in Held' \cup Line',
               \A k \in Line', i \in prices : 0 < k /\ k < i => k \in Line \/ i \in Held'
        PROVE  RowsInOrder'
    <2>1. half' = {} \/ (UNCHANGED <<half, flight>> /\ RestStays)
      BY <1>1, <1>3
    <2>2. \/ batcher' # "ack" /\ result' = "none"
          \/ (batcher = "ack" \/ result # "none") /\ batch' \subseteq batch /\ RestStays
      BY <1>1, <1>3
    <2>. QED
      BY <1>1, <1>3, <2>1, <2>2, RowsStill
  <1>4. CASE ReadHeld
    <2>1. /\ Range(Rest') = Range(Rest) \cup Range(inHand') /\ Line' = Line \cup Range(inHand')
          /\ \A i \in Range(inHand') : i \in Held \/ (i \in Int /\ i < 0 /\ -i \in Held)
      BY <1>4, LineReadHeld
    <2>2. Held' = Held
      BY <1>4 DEF ReadHeld, Held
    <2>3. ASSUME NEW k \in Line', NEW i \in prices, 0 < k, k < i
          PROVE  k \in Line \/ i \in Held'
      <3>1. k \in Line \/ k \in Held
        BY <2>1, <2>3
      <3>2. k \in Held => i \in Held
        BY <2>3 DEF HeldFirst
      <3>. QED
        BY <2>2, <3>1, <3>2
    <2>. QED
      BY <1>3, <2>1, <2>2, <2>3 DEF RestStays
  <1>5. CASE ReadUnread
    <2>0. readUpTo \in Nat
      BY DEF Bounded
    <2>1. /\ Range(Rest') = Range(Rest) \cup Range(inHand') /\ Line' = Line \cup Range(inHand')
          /\ \A i \in Range(inHand') \cup (Held' \ Held) : i \in 1..readUpTo' /\ readUpTo < i
          /\ Held \subseteq Held'
      BY <1>5, <2>0, LineReadUnread
    <2>2. ASSUME NEW k \in Line', NEW i \in prices, 0 < k, k < i
          PROVE  k \in Line
      <3>1. k \in Range(inHand') => k \in Int /\ readUpTo < k
        BY <2>1
      <3>2. i \in Int /\ i <= readUpTo
        BY <1>2
      <3>3. k \notin Range(inHand')
        BY <2>0, <2>2, <3>1, <3>2
      <3>. QED
        BY <2>1, <3>3
    <2>. QED
      BY <1>3, <2>1, <2>2 DEF RestStays
  <1>6. CASE Put
    <2>1. /\ Line' \subseteq Line /\ \A i \in Line : i > 0 => i \in Line'
          /\ Held \cap prices \subseteq Held'
      BY <1>6, LinePut
    <2>2. RestStays
      BY <1>6, LinePut DEF RestStays
    <2>3. \A i \in prices : i \in Held \cup Line => i \in Held' \cup Line'
      BY <1>2, <2>1
    <2>. QED
      BY <1>3, <2>1, <2>2, <2>3
  <1>7. CASE PutNone
    <2>1. Range(Rest') = Range(Rest) \cup {0} /\ Line' = Line \cup {0}
      BY <1>7, LinePutNone
    <2>2. Held' = Held
      BY <1>7 DEF PutNone, pipeRedis, Held
    <2>3. \A k \in Line', i \in prices : 0 < k /\ k < i => k \in Line
      BY <2>1
    <2>. QED
      BY <1>3, <2>1, <2>2, <2>3 DEF RestStays
  <1>. QED
    BY <1>4, <1>5, <1>6, <1>7 DEF Reader

LEMMA RowsBatch ==
    ASSUME NumsOK, OneBatchAtATime, BatchCovered, Bounded, InStages, InOrder, RowsInOrder,
           [PipeNext]_pipeVars, Batcher, Quiet'
    PROVE  RowsInOrder'
  <1>1. UNCHANGED <<rows, prices, half, flight>>
    BY DEF Batcher, LoopTop, GetTimesOut, Collect, GetNone, Parse, ResolveAndEnqueue, Awaited, AckBatch,
           BatcherOnly, pipeTables
  <1>2. \A i \in prices : i \in Int /\ i > 0 /\ i # 0 /\ i \in 1..Len(raw)
    <2>1. prices \subseteq 1..readUpTo /\ readUpTo \in Nat /\ readUpTo <= Len(raw) /\ Len(raw) \in Nat
      BY PipeGrows DEF Bounded
    <2>. QED
      BY <2>1
  <1>3. ASSUME Line' \subseteq Line, \A i \in prices : i \in Held \cup Line => i \in Held' \cup Line',
               half' = {} \/ RestStays,
               \/ batcher' # "ack" /\ result' = "none"
               \/ batch' \cap prices = {}
               \/ (batcher = "ack" \/ result # "none") /\ batch' \subseteq batch /\ RestStays
        PROVE  RowsInOrder'
    <2>1. \A k \in Line', i \in prices : 0 < k /\ k < i => k \in Line \/ i \in Held'
      BY <1>3
    <2>2. half' = {} \/ (UNCHANGED <<half, flight>> /\ RestStays)
      BY <1>1, <1>3
    <2>. QED
      BY <1>1, <1>3, <2>1, <2>2, RowsStill
  <1>4. CASE LoopTop \/ GetTimesOut
    <2>1. UNCHANGED <<pending, queue, inHand, parsed, result>> /\ batcher \in {"top", "wait"} /\ batcher' # "ack"
      BY <1>4 DEF LoopTop, GetTimesOut, BatcherOnly, readerVars
    <2>2. half = {} /\ result = "none"
      BY <2>1, NothingInFlight
    <2>3. Line' = Line /\ Held' = Held
      BY <2>1 DEF Line, Rest, Held
    <2>. QED
      BY <1>1, <1>3, <2>1, <2>2, <2>3
  <1>5. CASE Collect \/ GetNone
    <2>1. /\ UNCHANGED <<pending, result>> /\ batcher # "await"
          /\ batcher' # "ack"
      BY <1>5 DEF Collect, GetNone
    <2>2. half = {} /\ result = "none"
      BY <2>1, NothingInFlight
    <2>3. /\ Line' \subseteq Line /\ \A i \in Line : i # 0 => i \in Line'
          /\ Held' = Held
      BY <1>5, <2>1, LineTake DEF Held
    <2>4. \A i \in prices : i \in Held \cup Line => i \in Held' \cup Line'
      BY <1>2, <2>3
    <2>. QED
      BY <1>1, <1>3, <2>1, <2>2, <2>3, <2>4
  <1>6. CASE Parse
    <2>1. PICK S : parsed' = Without(parsed, S) /\ torn' = (torn \/ S \cap prices # {})
      BY <1>6 DEF Parse
    <2>2. UNCHANGED <<pending, result>> /\ batcher # "await" /\ batch' = Range(parsed)
          /\ batcher' = IF parsed' = <<>> THEN "ack" ELSE "resolve"
      BY <1>6 DEF Parse
    <2>3. half = {} /\ result = "none"
      BY <2>2, NothingInFlight
    <2>4. Rest' = Rest /\ Line' \subseteq Line /\ Held' = Held
      BY <1>6, <2>2, LineBatch DEF Held
    <2>5. Range(parsed') = Range(parsed) \ S
      BY <2>1, RestTypes, WithoutRange
    <2>6. S \cap prices = {}
      BY <2>1 DEF Quiet
    <2>7. \A i \in prices : i \in Held \cup Line => i \in Held' \cup Line'
      BY <2>4, <2>5, <2>6 DEF Line
    <2>8. batcher' = "ack" => batch' \cap prices = {}
      <3>1. batcher' = "ack" => Range(parsed') = {}
        BY <2>2, EmptyOrder
      <3>. QED
        BY <2>2, <2>5, <2>6, <3>1
    <2>. QED
      BY <1>1, <1>3, <2>2, <2>3, <2>4, <2>7, <2>8
  <1>7. CASE ResolveAndEnqueue
    <2>1. PICK S : /\ buffered' = buffered \o Without(parsed, S)
                   /\ torn' = (torn \/ S \cap prices # {})
                   /\ batcher' = IF Without(parsed, S) = <<>> THEN "ack" ELSE "await"
      BY <1>7 DEF ResolveAndEnqueue
    <2>2. UNCHANGED <<pending, result, batch, parsed>> /\ batcher = "resolve"
      BY <1>7 DEF ResolveAndEnqueue
    <2>3. half = {} /\ result = "none"
      BY <2>2, NothingInFlight
    <2>4. Rest' = Rest /\ Line' = Line /\ Held' = Held
      BY <1>7, <2>2, LineBatch DEF Held, Line
    <2>5. batcher' = "ack" => batch' \cap prices = {}
      <3>1. Range(Without(parsed, S)) = Range(parsed) \ S
        BY RestTypes, WithoutRange
      <3>2. batcher' = "ack" => Range(parsed) \subseteq S
        BY <2>1, <3>1, EmptyOrder
      <3>3. S \cap prices = {} /\ noted \cap prices = {} /\ batch \subseteq Range(parsed) \cup noted
        BY <2>1, <2>2 DEF Quiet, InStages, BatchCovered
      <3>. QED
        BY <2>2, <3>2, <3>3
    <2>. QED
      BY <1>1, <1>3, <2>2, <2>3, <2>4, <2>5
  <1>8. CASE Awaited
    <2>1. /\ UNCHANGED <<pending, batch, parsed, queue, inHand>> /\ result # "none"
      BY <1>8 DEF Awaited, BatcherOnly, readerVars
    <2>2. Rest' = Rest /\ Line' = Line /\ Held' = Held
      BY <2>1 DEF Held, Line, Rest
    <2>3. RestStays
      BY <2>2 DEF RestStays
    <2>. QED
      BY <1>1, <1>3, <2>1, <2>2, <2>3
  <1>9. CASE AckBatch
    <2>1. batcher = "ack" /\ batcher' = "top" /\ UNCHANGED result /\ Held' = Held \ batch /\ parsed' = <<>>
      BY <1>9 DEF AckBatch, Held, Released
    <2>2. half = {} /\ result = "none" /\ Range(parsed) \subseteq batch
      <3>1. half = {} /\ result = "none"
        BY <2>1, NothingInFlight
      <3>. QED
        BY <2>1, <3>1 DEF InStages
    <2>3. Rest' = Rest /\ Line' = Range(Rest) /\ Line = Range(parsed) \cup Range(Rest)
      <3>1. Rest' = Rest
        BY <1>9, LineBatch
      <3>. QED
        BY <2>1, <3>1, EmptyOrder DEF Line
    <2>4. \A i \in prices : RowIsLatest(i)' <=> RowIsLatest(i) /\ raw'[i].url = raw[i].url
      BY <1>1, <1>2, RowsKept
    <2>5. \A i \in batch \cap prices : RowIsLatest(i) \/ i \in Range(Rest)
      BY <2>1 DEF RowsInOrder
    <2>6. ASSUME NEW k \in Line', NEW i \in prices', 0 < k, k < i
          PROVE  i \in Held' \cup Line'
      <3>1. i \in Held \cup Line
        BY <1>1, <2>3, <2>6 DEF RowsInOrder
      <3>2. i \in batch => i \in Range(Rest)
        BY <2>3, <2>6 DEF InOrder
      <3>. QED
        BY <2>1, <2>2, <2>3, <3>1, <3>2
    <2>7. ASSUME NEW i \in prices'
          PROVE  raw'[i].url \notin DOMAIN rows' \/ RowIsLatest(i)' \/ i \in Held' \cup Line'
      <3>1. raw[i].url \notin DOMAIN rows \/ RowIsLatest(i) \/ i \in Held \cup Line
        BY <1>1, <2>7 DEF RowsInOrder
      <3>2. raw'[i].url = raw[i].url /\ (RowIsLatest(i)' <=> RowIsLatest(i))
        BY <1>1, <1>2, <2>7, RowsKept
      <3>3. i \in batch => RowIsLatest(i) \/ i \in Range(Rest)
        BY <1>1, <2>5, <2>7
      <3>. QED
        BY <1>1, <2>1, <2>2, <2>3, <3>1, <3>2, <3>3
    <2>8. half' = {} /\ batcher' # "ack" /\ result' = "none"
      BY <1>1, <2>1, <2>2
    <2>. HIDE DEF RowIsLatest
    <2>. QED
      BY <2>6, <2>7, <2>8 DEF RowsInOrder
  <1>. QED
    BY <1>4, <1>5, <1>6, <1>7, <1>8, <1>9 DEF Batcher

LEMMA RowsFlush ==
    ASSUME NumsOK, OneBatchAtATime, BatchCovered, Bounded, InStages, InStages', InOrder, RowsInOrder,
           [PipeNext]_pipeVars, Writer, ~\E s \in {"upsert", "copy"} : HalfFails(s)
    PROVE  RowsInOrder'
  <1>1. UNCHANGED <<raw, pending, parsed, queue, inHand, batcher, batch, noted>>
    BY DEF Writer, Late, StartFlush, EndFlushing, LateDone, HalfDone, HalfFails, WriterOnly,
           readerVars, batchVars, pipeRedis
  <1>2. Rest' = Rest /\ Line' = Line /\ Held' = Held
    BY <1>1 DEF Rest, Line, Held
  <1>3. RestStays
    BY <1>2 DEF RestStays
  <1>4. CASE StartFlush \/ EndFlushing
    <2>1. /\ UNCHANGED <<rows, prices, result>>
          /\ (half' = {"upsert", "copy"} /\ buffered # <<>>) \/ UNCHANGED <<half, flight>>
      BY <1>4 DEF StartFlush, EndFlushing, pipeTables
    <2>2. CASE UNCHANGED <<half, flight>>
      <3>1. (batcher' # "ack" /\ result' = "none") \/ (batcher = "ack" \/ result # "none")
        BY <1>1, <2>1
      <3>. QED
        BY <1>1, <1>2, <1>3, <2>1, <2>2, <3>1, RowsStill
    <2>3. CASE half' = {"upsert", "copy"} /\ buffered # <<>>
      <3>1. batcher' # "ack" /\ result' = "none"
        BY <1>1, <2>1, <2>3 DEF OneBatchAtATime
      <3>2. UNCHANGED <<rows, raw, prices>> /\ "upsert" \in half'
        BY <1>1, <2>1, <2>3
      <3>3. RowsInOrder
        OBVIOUS
      <3>. QED
        BY <1>2, <3>1, <3>2, <3>3 DEF RowsInOrder, RowIsLatest
    <2>. QED
      BY <2>1, <2>2, <2>3
  <1>5. CASE Late
    BY <1>5 DEF Late, InStages
  <1>6. ASSUME NEW s \in {"upsert", "copy"}, HalfDone(s)
        PROVE  RowsInOrder'
    <2>1. /\ s \in half /\ half' = half \ {s} /\ Commit(s, flight)
          /\ \/ half' = {} /\ result' = "ok" /\ flight' = <<>>
             \/ half' # {} /\ UNCHANGED <<result, flight>>
      BY <1>6 DEF HalfDone
    <2>2. batcher = "await" /\ result = "none" /\ half \subseteq {"upsert", "copy"}
      BY <2>1 DEF OneBatchAtATime
    <2>3. batch \subseteq Range(flight) \cup noted
      BY <2>1, <2>2 DEF BatchCovered, ToWrite
    <2>4. noted \cap prices' = {} /\ Range(flight) \subseteq Line /\ Range(flight) \subseteq 1..Len(raw)
      <3>1. Range(flight) \subseteq 1..Len(raw)
        BY RangeOfSeq DEF NumsOK
      <3>2. noted' \cap prices' = {}
        BY DEF InStages
      <3>. QED
        BY <1>1, <3>1, <3>2 DEF InStages, Line
    <2>5. \A i \in batch \cap prices' : i \in Range(flight)
      BY <2>3, <2>4
    <2>6. prices \subseteq 1..Len(raw) /\ \A i \in prices : i \in Int
      <3>1. prices \subseteq 1..readUpTo /\ readUpTo \in Nat /\ readUpTo <= Len(raw) /\ Len(raw) \in Nat
        BY PipeGrows DEF Bounded
      <3>. QED
        BY <3>1
    <2>7. CASE s = "upsert"
      <3>1. rows' = Upserted(flight) /\ UNCHANGED <<prices, raw>>
        BY <1>1, <2>1, <2>7 DEF Commit
      <3>2. /\ \A i \in Range(flight) : RowIsLatest(i)' \/ i \in Range(Rest)
            /\ \A i \in 1..Len(raw) :
                \/ raw[i].url \in DOMAIN rows' /\ rows'[raw[i].url] \in Range(flight)
                \/ /\ raw[i].url \in DOMAIN rows' <=> raw[i].url \in DOMAIN rows
                   /\ RowIsLatest(i)' <=> RowIsLatest(i)
        BY <3>1, UpsertedRows
      <3>3. \A k \in Line', i \in prices' : 0 < k /\ k < i => i \in Held' \cup Line'
        BY <1>2, <3>1 DEF RowsInOrder
      <3>4. ASSUME NEW i \in prices'
            PROVE  raw'[i].url \notin DOMAIN rows' \/ RowIsLatest(i)' \/ i \in Held' \cup Line'
        <4>1. i \in prices /\ i \in 1..Len(raw) /\ raw' = raw
          BY <2>6, <3>1, <3>4
        <4>2. CASE raw[i].url \in DOMAIN rows' /\ rows'[raw[i].url] \in Range(flight)
          <5>. PICK l : l = rows'[raw[i].url]
            OBVIOUS
          <5>1. l \in Line /\ l \in Int /\ l > 0 /\ i \in Int
            BY <2>4, <2>6, <4>1, <4>2
          <5>2. CASE i <= l
            BY <4>1, <4>2, <5>2 DEF RowIsLatest
          <5>3. CASE l < i
            BY <1>2, <4>1, <5>1, <5>3 DEF RowsInOrder
          <5>. QED
            BY <5>1, <5>2, <5>3
        <4>3. CASE /\ raw[i].url \in DOMAIN rows' <=> raw[i].url \in DOMAIN rows
                   /\ RowIsLatest(i)' <=> RowIsLatest(i)
          <5>1. raw[i].url \notin DOMAIN rows \/ RowIsLatest(i) \/ i \in Held \cup Line
            BY <4>1 DEF RowsInOrder
          <5>. QED
            BY <1>2, <4>1, <4>3, <5>1
        <4>. QED
          BY <3>2, <4>1, <4>2, <4>3
      <3>5. half' # {} /\ "upsert" \notin half' => \A i \in Range(flight') : RowIsLatest(i)' \/ i \in Range(Rest')
        BY <1>2, <2>1, <3>2
      <3>6. batcher' = "ack" \/ result' # "none" => \A i \in batch' \cap prices' : RowIsLatest(i)' \/ i \in Range(Rest')
        BY <1>1, <1>2, <2>5, <3>2
      <3>. HIDE DEF RowIsLatest
      <3>. QED
        BY <3>3, <3>4, <3>5, <3>6 DEF RowsInOrder
    <2>8. CASE s = "copy"
      <3>1. prices' = prices \cup Range(flight) /\ UNCHANGED <<rows, raw>>
        BY <1>1, <2>1, <2>8 DEF Commit
      <3>2. \A i : RowIsLatest(i)' <=> RowIsLatest(i)
        BY <3>1 DEF RowIsLatest
      <3>3. \A k \in Line', i \in prices' : 0 < k /\ k < i => i \in Held' \cup Line'
        BY <1>2, <2>4, <3>1 DEF RowsInOrder
      <3>4. \A i \in prices' : raw'[i].url \notin DOMAIN rows' \/ RowIsLatest(i)' \/ i \in Held' \cup Line'
        BY <1>2, <2>4, <3>1, <3>2 DEF RowsInOrder
      <3>5. half' # {} /\ "upsert" \notin half' => \A i \in Range(flight') : RowIsLatest(i)' \/ i \in Range(Rest')
        BY <2>1, <2>2, <2>8
      <3>6. batcher' = "ack" \/ result' # "none" => \A i \in batch' \cap prices' : RowIsLatest(i)' \/ i \in Range(Rest')
        <4>1. result' # "none" => half # {} /\ "upsert" \notin half
          BY <2>1, <2>2, <2>8
        <4>2. half # {} /\ "upsert" \notin half => \A i \in Range(flight) : RowIsLatest(i) \/ i \in Range(Rest)
          BY DEF RowsInOrder
        <4>3. batcher' # "ack" /\ batch' = batch
          BY <1>1, <2>2
        <4>. QED
          BY <1>2, <2>5, <3>2, <4>1, <4>2, <4>3
      <3>. HIDE DEF RowIsLatest
      <3>. QED
        BY <3>3, <3>4, <3>5, <3>6 DEF RowsInOrder
    <2>. QED
      BY <2>7, <2>8
  <1>. QED
    BY <1>4, <1>5, <1>6 DEF Writer

\* What is on its way of a message is a copy of it.
LEMMA LineCopies ==
    ASSUME NumsOK, NEW i \in Line, i > 0
    PROVE  i \in Copies
  <1>1. Range(Rest) = Range(queue) \cup Range(inHand)
    BY RestTypes
  <1>2. i \in Range(inHand) => i \in Copies
    <2>1. SUFFICES ASSUME i \in Range(inHand) PROVE i \in Copies
      OBVIOUS
    <2>2. i \in Int
      <3>1. inHand \in Seq(Int)
        BY RestTypes
      <3>. QED
        BY <2>1, <3>1, RangeOfSeq
    <2>3. Abs(i) = i
      BY <2>2 DEF Abs
    <2>4. i \in {Abs(j) : j \in Range(inHand)}
      BY <2>1, <2>3
    <2>. QED
      BY <2>4 DEF Copies
  <1>3. i \in Range(queue) \cup Range(parsed) => i \in Copies
    BY DEF Copies
  <1>. QED
    BY <1>1, <1>2, <1>3 DEF Line

LEMMA RowsStep ==
    ASSUME NumsOK, OneBatchAtATime, BatchCovered, mishaps \in Nat, CoreInv, InStages',
           [PipeNext]_pipeVars, Quiet'
    PROVE  RowsInOrder'
  <1>0. Bounded /\ InStages /\ InOrder /\ HeldFirst /\ RowsInOrder
    BY DEF CoreInv
  <1>1. CASE Reader
    BY <1>0, <1>1, RowsReader DEF Quiet
  <1>2. CASE Batcher
    BY <1>0, <1>2, RowsBatch
  <1>3. CASE Writer
    BY <1>0, <1>3, QuietBefore, RowsFlush
  <1>4. CASE Launch \/ Signal \/ (\E l \in Listings : PipePublish(l)) \/ UNCHANGED pipeVars
    <2>1. UNCHANGED <<rows, prices, pending, queue, inHand, parsed, batcher, batch, half, flight, result>>
      BY <1>4 DEF Launch, Signal, PipePublish, pipeVars, pipeRedis, pipeTables, readerVars, batchVars, writerVars
    <2>2. Line' = Line /\ Held' = Held /\ Rest' = Rest
      BY <2>1 DEF Line, Held, Rest
    <2>3. RestStays
      BY <2>2 DEF RestStays
    <2>4. (batcher' # "ack" /\ result' = "none") \/ (batcher = "ack" \/ result # "none")
      BY <2>1
    <2>. QED
      BY <1>0, <2>1, <2>2, <2>3, <2>4, RowsStill
  <1>5. CASE BeginStages
    <2>1. /\ UNCHANGED <<rows, prices, pending, queue, inHand, parsed, half, result>> /\ stage # "up"
          /\ batcher' = "top"
      BY <1>5 DEF BeginStages, pipeRedis, pipeTables
    <2>2. half = {} /\ result = "none"
      BY <2>1 DEF OneBatchAtATime
    <2>3. Line' = Line /\ Held' = Held
      BY <2>1 DEF Line, Held, Rest
    <2>. QED
      BY <1>0, <2>1, <2>2, <2>3, RowsStill
  <1>6. CASE \E i \in Ids : MoveLetter(i)
    <2>1. PICK i : MoveLetter(i)
      BY <1>6
    <2>2. /\ UNCHANGED <<rows, prices, queue, inHand, parsed, batcher, half, result>> /\ stage # "up"
          /\ i \notin prices
      BY <2>1 DEF MoveLetter, pipeTables, readerVars, batchVars, writerVars, Quiet
    <2>3. half = {} /\ result = "none" /\ batcher # "ack"
      BY <2>2 DEF OneBatchAtATime
    <2>4. Line' = Line
      BY <2>2 DEF Line, Rest
    <2>5. Held' = Held \/ Held' = Held \ {i}
      BY <2>1 DEF MoveLetter, Held, Released
    <2>6. \A j \in prices : j \in Held \cup Line => j \in Held' \cup Line'
      BY <2>2, <2>4, <2>5
    <2>. QED
      BY <1>0, <2>2, <2>3, <2>4, <2>6, RowsStill
  <1>7. CASE Gone
    <2>1. /\ UNCHANGED <<rows, prices, pending>> /\ parsed' = <<>> /\ queue' = <<>> /\ inHand' = <<>>
          /\ batcher' = "done" /\ result' = "none" /\ half' = {} /\ Copies \subseteq Held \cup {0}
      BY <1>7 DEF Gone, pipeRedis, pipeTables, Quiet
    <2>2. Rest' = <<>>
      BY <2>1, ConcatEmptySeq, EmptySeq DEF Rest
    <2>3. Line' = {} /\ Held' = Held
      BY <2>1, <2>2, EmptyOrder DEF Line, Held
    <2>4. \A i \in prices : i > 0 /\ i # 0
      <3>1. prices \subseteq 1..readUpTo /\ readUpTo \in Nat
        BY <1>0 DEF Bounded
      <3>. QED
        BY <3>1
    <2>5. \A i \in prices : i \in Held \cup Line => i \in Held'
      BY <2>1, <2>3, <2>4, LineCopies
    <2>. QED
      BY <1>0, <2>1, <2>3, <2>5, RowsStill
  <1>. QED
    BY <1>1, <1>2, <1>3, <1>4, <1>5, <1>6, <1>7 DEF PipeNext, Main, Exit, Die

LEMMA OrderInit == PipeInit => OrderInv
  <1>. SUFFICES ASSUME PipeInit PROVE OrderInv
    OBVIOUS
  <1>1. /\ raw = <<>> /\ readUpTo = 0 /\ Held = {} /\ prices = {} /\ batch = {} /\ noted = {} /\ late = {}
        /\ parsed = <<>> /\ queue = <<>> /\ inHand = <<>> /\ buffered = <<>> /\ flight = <<>> /\ half = {}
        /\ result = "none" /\ batcher = "done" /\ reader = "done" /\ mishaps = 0
    BY DEF PipeInit, Held
  <1>2. Rest = <<>> /\ Len(raw) = 0
    BY <1>1, ConcatEmptySeq, EmptySeq DEF Rest
  <1>3. Line = {} /\ Taken = {} /\ Range(<<>>) = {}
    BY <1>1, <1>2, EmptyOrder DEF Line, Taken
  <1>4. Bounded
    BY <1>1, <1>2, <1>3 DEF Bounded
  <1>5. InStages
    BY <1>1, <1>3 DEF InStages
  <1>6. InOrder
    BY <1>1, <1>2, EmptyOrder DEF InOrder
  <1>7. HeldFirst
    BY <1>1, <1>2, <1>3, EmptyOrder DEF HeldFirst
  <1>8. RowsInOrder
    BY <1>1, <1>3 DEF RowsInOrder
  <1>. QED
    BY <1>1, <1>4, <1>5, <1>6, <1>7, <1>8 DEF OrderInv, CoreInv

LEMMA OrderStep == PipeInv /\ OrderInv /\ [PipeNext]_pipeVars => OrderInv'
  <1>. SUFFICES ASSUME PipeInv, OrderInv, [PipeNext]_pipeVars PROVE OrderInv'
    OBVIOUS
  <1>1. NumsOK /\ OneBatchAtATime /\ BatchCovered /\ mishaps \in Nat
    BY DEF PipeInv, OrderInv
  <1>2. mishaps' \in Nat /\ (Quiet' => Quiet)
    BY <1>1, QuietBefore
  <1>3. ASSUME Quiet'
        PROVE  CoreInv'
    <2>1. CoreInv
      BY <1>2, <1>3 DEF OrderInv
    <2>2. Bounded /\ InStages /\ InOrder /\ HeldFirst
      BY <2>1 DEF CoreInv
    <2>3. Bounded'
      BY <1>1, <1>3, <2>2, BoundedStep
    <2>4. InStages'
      BY <1>1, <1>3, <2>2, InStagesStep
    <2>5. InOrder'
      BY <1>1, <2>2, InOrderStep
    <2>6. HeldFirst'
      BY <1>1, <1>3, <2>2, PipelineAssumption, HeldFirstStep
    <2>7. RowsInOrder'
      BY <1>1, <1>3, <2>1, <2>4, RowsStep
    <2>. QED
      BY <2>3, <2>4, <2>5, <2>6, <2>7 DEF CoreInv
  <1>. QED
    BY <1>2, <1>3 DEF OrderInv

\* As long as no flush has failed and no second reading of a message was broken
\* off, a row whose url has nothing left to write is that of the last message of
\* the url that was written, whatever the reader hands over twice
\* (WriteBuffer._batch_upsert_listings, reader_stage).
THEOREM LastWriteWins == PipeSpec => []LatestWins
  <1>1. PipeInv /\ OrderInv => LatestWins
    <2>. SUFFICES ASSUME NumsOK, Quiet => CoreInv, NEW u \in DOMAIN rows, Quiet,
                         {i \in 1..readUpTo : raw[i].url = u} \cap (Held \cup Copies) = {},
                         NEW i \in 1..readUpTo, raw[i].url = u, i \in prices
                  PROVE  i <= rows[u]
      BY DEF PipeInv, OrderInv, LatestWins, Quiet
    <2>1. RowIsLatest(i) \/ i \in Held \cup Line
      BY DEF CoreInv, RowsInOrder
    <2>2. i \notin Held \cup Copies
      OBVIOUS
    <2>3. i > 0
      BY DEF CoreInv, Bounded
    <2>4. i \notin Line
      BY <2>2, <2>3, LineCopies
    <2>. QED
      BY <2>1, <2>2, <2>4 DEF RowIsLatest
  <1>2. PipeSpec => []PipeInv
    BY PipelineInvariance
  <1>. QED
    BY <1>1, <1>2, OrderInit, OrderStep, PTL DEF PipeSpec

-----------------------------------------------------------------------------
(* The chain of matchers *)

Candidate ==
    [brand : {"unknown", "same", "alias", "other"}, models : Nat \cup {NoModels},
     storage : {"none", "same", "other"}, bundle : BOOLEAN, sim : -100..100]

\* What a matcher says: a confidence of half at least with an acceptance.
Verdict(s) ==
    /\ s.verdict \in {"pass", "reject", "accept"} /\ s.conf \in Nat
    /\ s.verdict = "accept" => s.conf >= 900

LEMMA MatchersSpeak ==
    ASSUME NEW c \in Candidate, NEW t \in {82, 88}
    PROVE  /\ Verdict(BrandMatcher(c)) /\ Verdict(ModelMatcher(c)) /\ Verdict(AttributeMatcher(c))
           /\ Verdict(SemanticMatcher(c, t))
  <1>1. Verdict(BrandMatcher(c))
    BY DEF Candidate, Verdict, BrandMatcher, Says, Pass, Reject
  <1>2. Verdict(ModelMatcher(c))
    BY DEF Candidate, Verdict, ModelMatcher, Says, Pass, Reject, NoModels
  <1>3. Verdict(AttributeMatcher(c))
    BY DEF Candidate, Verdict, AttributeMatcher, Says, Pass, Reject
  <1>4. Verdict(SemanticMatcher(c, t))
    <2>1. ASSUME c.sim >= t
          PROVE  (720 * (c.sim - t)) \div (100 - t) \in Nat
      <3>1. c.sim \in Int /\ t \in {82, 88}
        BY DEF Candidate
      <3>2. CASE t = 82
        BY <2>1, <3>1, <3>2
      <3>3. CASE t = 88
        BY <2>1, <3>1, <3>3
      <3> QED BY <3>2, <3>3
    <2> QED BY <2>1 DEF Candidate, Verdict, SemanticMatcher, Says, Pass, Reject
  <1> QED BY <1>1, <1>2, <1>3, <1>4

LEMMA FilterSpeaks ==
    ASSUME NEW k \in BOOLEAN PROVE Verdict(StrictTitleFilter(k))
  BY DEF Verdict, StrictTitleFilter, Says, Pass, Reject

Rejecting(signals) == \E k \in DOMAIN signals : signals[k].verdict = "reject"

\* A chain in which nobody rejects is heard to its end; else it ends in a rejection.
LEMMA ChainHeard ==
    ASSUME NEW S, NEW ms \in Seq(S)
    PROVE  /\ Rejecting(Chain(ms)) <=> Rejecting(ms)
           /\ ~Rejecting(ms) => Chain(ms) = ms
           /\ \E n \in 0..Len(ms) : /\ DOMAIN Chain(ms) = 1..n /\ Len(Chain(ms)) = n
                                    /\ \A k \in 1..n : Chain(ms)[k] = ms[k]
  <1> DEFINE R == {k \in DOMAIN ms : ms[k].verdict = "reject"}
             First == CHOOSE k \in R : \A j \in R : k <= j
  <1>1. CASE R = {}
    <2>1. Chain(ms) = ms /\ ~Rejecting(ms)
      BY <1>1 DEF Chain, Rejecting
    <2>2. Len(ms) \in 0..Len(ms) /\ DOMAIN ms = 1..Len(ms)
      OBVIOUS
    <2> QED BY <2>1, <2>2
  <1>2. CASE R # {}
    <2>1. Len(ms) \in Nat /\ DOMAIN ms = 1..Len(ms)
      OBVIOUS
    <2>2. R \in SUBSET (0..Len(ms))
      BY <2>1
    <2>3. \E i \in R : \A j \in R : i <= j
      <3> HIDE DEF R
      <3> QED BY <1>2, <2>1, <2>2, SmallestNumber
    <2>4. First \in R
      <3> HIDE DEF R
      <3> QED BY <2>3
    <2>5. First \in 1..Len(ms) /\ ms[First].verdict = "reject"
      <3> HIDE DEF First
      <3> QED BY <2>1, <2>4
    <2>6. Chain(ms) = SubSeq(ms, 1, First)
      BY <1>2 DEF Chain
    <2>7. Rejecting(ms)
      BY <1>2 DEF Rejecting
    <2>8. Rejecting(SubSeq(ms, 1, First))
      <3> HIDE DEF First
      <3>1. DOMAIN SubSeq(ms, 1, First) = 1..First /\ SubSeq(ms, 1, First)[First] = ms[First]
        BY <2>1, <2>5
      <3>2. First \in 1..First
        BY <2>5
      <3> DEFINE t == SubSeq(ms, 1, First)
      <3>3. First \in DOMAIN t /\ t[First].verdict = "reject"
        BY <2>5, <3>1, <3>2
      <3> QED BY <3>3, Zenon DEF Rejecting
    <2>9. /\ First \in 0..Len(ms)
          /\ DOMAIN SubSeq(ms, 1, First) = 1..First /\ Len(SubSeq(ms, 1, First)) = First
          /\ \A k \in 1..First : SubSeq(ms, 1, First)[k] = ms[k]
      <3> HIDE DEF First
      <3> QED BY <2>1, <2>5
    <2> HIDE DEF First, R
    <2> QED BY <2>6, <2>7, <2>8, <2>9
  <1> QED BY <1>1, <1>2

\* What the confidence in a candidate tells of its signals.
LEMMA ConfidenceTyped ==
    ASSUME NEW c \in Candidate, NEW n \in Nat, NEW signals, DOMAIN signals = 1..n,
           \A k \in DOMAIN signals : Verdict(signals[k])
    PROVE  /\ Confidence(c, signals).sum \in Int /\ Confidence(c, signals).n \in Nat \ {0}
           /\ \A m \in Nat \ {0} : AtLeast(Confidence(c, signals), m) => ~Rejecting(signals)
           /\ ~Rejecting(signals) /\ Accepted(signals) # {} => AtLeast(Confidence(c, signals), 900)
  <1> DEFINE f == [k \in Accepted(signals) |-> signals[k].conf]
             A == Accepted(signals)
             sum == SumFunctionOnSet(f, A)
  <1>1. IsFiniteSet(A) /\ Cardinality(A) \in Nat /\ (A # {} => Cardinality(A) # 0)
    <2>1. A \subseteq 1..n
      BY DEF Accepted
    <2>2. IsFiniteSet(1..n)
      BY FS_Interval
    <2>3. IsFiniteSet(A)
      <3> HIDE DEF A
      <3> QED BY <2>1, <2>2, FS_Subset
    <2> HIDE DEF A
    <2> QED BY <2>3, FS_CardinalityType, FS_EmptySet
  <1>2. \A i \in A : f[i] \in Nat /\ f[i] >= 900
    BY DEF Accepted, Verdict
  <1>3. sum \in Nat /\ sum >= 900 * Cardinality(A)
    <2> HIDE DEF A, f
    <2>1. 900 \in Nat
      OBVIOUS
    <2> QED BY <1>1, <1>2, <2>1, SumFloor
  <1>4. 9 * c.sim \in Int
    <2>1. c.sim \in -100..100
      BY DEF Candidate
    <2>2. \A x \in -100..100 : 9 * x \in Int
      OBVIOUS
    <2> QED BY <2>1, <2>2, Zenon
  <1>5. CASE Rejecting(signals)
    <2>1. Confidence(c, signals) = [sum |-> 0, n |-> 1]
      BY <1>5 DEF Confidence, Rejecting
    <2> QED BY <1>5, <2>1 DEF AtLeast
  <1>6. CASE ~Rejecting(signals) /\ A = {}
    <2>1. Confidence(c, signals) = [sum |-> 9 * c.sim, n |-> 1]
      BY <1>6 DEF Confidence, Rejecting
    <2> QED BY <1>4, <1>6, <2>1
  <1>7. CASE ~Rejecting(signals) /\ A # {}
    <2>1. Confidence(c, signals) = [sum |-> sum, n |-> Cardinality(A)]
      BY <1>7 DEF Confidence, Rejecting
    <2> HIDE DEF sum, A
    <2> QED BY <1>1, <1>3, <1>7, <2>1 DEF AtLeast, A
  <1> QED BY <1>5, <1>6, <1>7

\* The signals of the two chains.
LEMMA DefaultHeard ==
    ASSUME NEW c \in Candidate
    PROVE  LET signals == DefaultSignals(c) conf == Confidence(c, signals) IN
           /\ conf.sum \in Int /\ conf.n \in Nat \ {0}
           /\ AtLeast(conf, 810) => /\ BrandMatcher(c).verdict # "reject" /\ ModelMatcher(c).verdict # "reject"
                                    /\ AttributeMatcher(c).verdict # "reject"
           /\ (/\ BrandMatcher(c).verdict = "accept" /\ ModelMatcher(c).verdict # "reject"
               /\ AttributeMatcher(c).verdict # "reject" /\ SemanticMatcher(c, 82).verdict # "reject")
                  => AtLeast(conf, 900)
  <1> DEFINE ms == <<BrandMatcher(c), ModelMatcher(c), AttributeMatcher(c), SemanticMatcher(c, 82)>>
             signals == DefaultSignals(c)
  <1>1. \A k \in 1..4 : Verdict(ms[k])
    BY MatchersSpeak
  <1>2. ms \in Seq({ms[k] : k \in 1..4}) /\ Len(ms) = 4 /\ DOMAIN ms = 1..4
    OBVIOUS
  <1>3. /\ Rejecting(signals) <=> Rejecting(ms)
        /\ ~Rejecting(ms) => signals = ms
    BY <1>2, ChainHeard DEF DefaultSignals
  <1>4. PICK n \in 0..4 : DOMAIN signals = 1..n /\ \A k \in 1..n : signals[k] = ms[k]
    BY <1>2, ChainHeard DEF DefaultSignals
  <1>5. n \in Nat /\ \A k \in DOMAIN signals : Verdict(signals[k])
    BY <1>1, <1>4
  <1> HIDE DEF signals
  <1>6. /\ Confidence(c, signals).sum \in Int /\ Confidence(c, signals).n \in Nat \ {0}
        /\ \A m \in Nat \ {0} : AtLeast(Confidence(c, signals), m) => ~Rejecting(signals)
        /\ ~Rejecting(signals) /\ Accepted(signals) # {} => AtLeast(Confidence(c, signals), 900)
    BY <1>4, <1>5, ConfidenceTyped
  <1>7. Rejecting(ms) <=> \E k \in 1..4 : ms[k].verdict = "reject"
    BY <1>2 DEF Rejecting
  <1>8. ASSUME AtLeast(Confidence(c, signals), 810)
        PROVE  /\ BrandMatcher(c).verdict # "reject" /\ ModelMatcher(c).verdict # "reject"
               /\ AttributeMatcher(c).verdict # "reject"
    <2>1. ~Rejecting(ms)
      BY <1>3, <1>6, <1>8
    <2> QED BY <1>7, <2>1
  <1>9. ASSUME BrandMatcher(c).verdict = "accept", ModelMatcher(c).verdict # "reject",
               AttributeMatcher(c).verdict # "reject", SemanticMatcher(c, 82).verdict # "reject"
        PROVE  AtLeast(Confidence(c, signals), 900)
    <2>1. ~Rejecting(ms)
      BY <1>7, <1>9
    <2>2. 1 \in Accepted(ms)
      BY <1>2, <1>9 DEF Accepted
    <2> QED BY <1>3, <1>6, <2>1, <2>2
  <1> QED BY <1>6, <1>8, <1>9 DEF signals

LEMMA StrictHeard ==
    ASSUME NEW c \in Candidate, NEW k \in BOOLEAN
    PROVE  LET signals == StrictSignals(c, k) conf == Confidence(c, signals) IN
           /\ conf.sum \in Int /\ conf.n \in Nat \ {0}
           /\ StrictlyEligible(c, k) =>
                /\ ~k /\ BrandMatcher(c).verdict = "accept" /\ ModelMatcher(c).verdict = "accept"
                /\ AttributeMatcher(c).verdict # "reject" /\ SemanticMatcher(c, 88).verdict # "reject"
  <1> DEFINE ms == <<StrictTitleFilter(k), BrandMatcher(c), ModelMatcher(c), AttributeMatcher(c),
                     SemanticMatcher(c, 88)>>
             signals == StrictSignals(c, k)
  <1>1. \A i \in 1..5 : Verdict(ms[i])
    BY MatchersSpeak, FilterSpeaks
  <1>2. ms \in Seq({ms[i] : i \in 1..5}) /\ Len(ms) = 5 /\ DOMAIN ms = 1..5
    OBVIOUS
  <1>3. /\ Rejecting(signals) <=> Rejecting(ms)
        /\ ~Rejecting(ms) => signals = ms
    BY <1>2, ChainHeard DEF StrictSignals
  <1>4. PICK n \in 0..5 : DOMAIN signals = 1..n /\ \A i \in 1..n : signals[i] = ms[i]
    BY <1>2, ChainHeard DEF StrictSignals
  <1>5. n \in Nat /\ \A i \in DOMAIN signals : Verdict(signals[i])
    BY <1>1, <1>4
  <1> HIDE DEF signals
  <1>6. /\ Confidence(c, signals).sum \in Int /\ Confidence(c, signals).n \in Nat \ {0}
        /\ \A m \in Nat \ {0} : AtLeast(Confidence(c, signals), m) => ~Rejecting(signals)
    BY <1>4, <1>5, ConfidenceTyped
  <1>7. Rejecting(ms) <=> \E i \in 1..5 : ms[i].verdict = "reject"
    BY <1>2 DEF Rejecting
  <1>8. ASSUME StrictlyEligible(c, k)
        PROVE  /\ ~k /\ BrandMatcher(c).verdict = "accept" /\ ModelMatcher(c).verdict = "accept"
               /\ AttributeMatcher(c).verdict # "reject" /\ SemanticMatcher(c, 88).verdict # "reject"
    <2>1. /\ AtLeast(Confidence(c, signals), 1260) /\ Confirmed(signals, 2) /\ Confirmed(signals, 3)
      BY <1>8 DEF StrictlyEligible, signals
    <2>2. ~Rejecting(ms)
      BY <1>3, <1>6, <2>1
    <2>3. signals = ms
      BY <1>3, <2>2
    <2>4. ms[2].verdict = "accept" /\ ms[3].verdict = "accept"
      BY <2>1, <2>3 DEF Confirmed
    <2>5. StrictTitleFilter(k).verdict # "reject"
      BY <1>7, <2>2
    <2>6. ~k
      BY <2>5 DEF StrictTitleFilter, Reject, Says
    <2> QED BY <1>7, <2>2, <2>4, <2>6
  <1> QED BY <1>6, <1>8 DEF signals

-----------------------------------------------------------------------------
(* The best candidate *)

\* Comparing fractions is transitive.
LEMMA ProductOrder ==
    ASSUME NEW a \in Int, NEW b \in Int, NEW n \in Nat \ {0}, a * n <= b * n
    PROVE  a <= b
  <1> SUFFICES ASSUME a >= b + 1 PROVE FALSE
    OBVIOUS
  <1>1. (a - b) * n >= n
    OBVIOUS
  <1>2. (a - b) * n = a * n - b * n
    OBVIOUS
  <1> QED BY <1>1, <1>2

LEMMA ProductGrows ==
    ASSUME NEW a \in Int, NEW b \in Int, NEW n \in Nat, a <= b
    PROVE  a * n <= b * n
  <1>1. (b - a) * n >= 0
    OBVIOUS
  <1>2. (b - a) * n = b * n - a * n
    OBVIOUS
  <1>3. a * n \in Int /\ b * n \in Int
    OBVIOUS
  <1> DEFINE x == a * n
             y == b * n
             z == (b - a) * n
  <1> HIDE DEF x, y, z
  <1>4. z >= 0 /\ z = y - x /\ x \in Int /\ y \in Int
    BY <1>1, <1>2, <1>3 DEF x, y, z
  <1>5. x <= y
    BY <1>4
  <1> QED BY <1>5 DEF x, y

LEMMA GreaterStays ==
    ASSUME NEW a, NEW b, NEW d,
           a.sum \in Int, b.sum \in Int, d.sum \in Int,
           a.n \in Nat \ {0}, b.n \in Nat \ {0}, d.n \in Nat \ {0},
           ~Greater(a, b), Greater(d, b)
    PROVE  ~Greater(a, d)
  <1> DEFINE p == a.sum  q == b.sum  r == d.sum  i == a.n  j == b.n  k == d.n
  <1>1. p * j <= q * i /\ q * k <= r * j
    BY DEF Greater
  <1> SUFFICES p * k <= r * i
    BY DEF Greater
  <1>2. p \in Int /\ q \in Int /\ r \in Int /\ i \in Nat \ {0} /\ j \in Nat \ {0} /\ k \in Nat \ {0}
    OBVIOUS
  <1> HIDE DEF p, q, r, i, j, k
  <1>3. p * j \in Int /\ q * i \in Int /\ q * k \in Int /\ r * j \in Int /\ p * k \in Int /\ r * i \in Int
    BY <1>2
  <1>4. (p * j) * k <= (q * i) * k
    BY <1>1, <1>2, <1>3, ProductGrows
  <1>5. (q * k) * i <= (r * j) * i
    BY <1>1, <1>2, <1>3, ProductGrows
  <1>6. (p * j) * k = (p * k) * j /\ (q * i) * k = (q * k) * i /\ (r * j) * i = (r * i) * j
    BY <1>2
  <1>7. (p * k) * j <= (r * i) * j
    <2> DEFINE x == (p * j) * k  y == (q * i) * k  z == (r * j) * i
    <2>1. x \in Int /\ y \in Int /\ z \in Int
      BY <1>2
    <2>2. x <= y /\ y <= z
      BY <1>4, <1>5, <1>6
    <2>3. x <= z
      <3> HIDE DEF x, y, z
      <3> QED BY <2>1, <2>2
    <2> QED BY <1>6, <2>3
  <1> QED BY <1>2, <1>3, <1>7, ProductOrder

\* What is the best so far has earned it.
MatchInv ==
    /\ asked.how \in {"idle", "default", "strict", "index"}
    /\ asked.how = "idle" => place = 0 /\ best = NoMatch
    /\ asked.how \in {"default", "strict"} =>
         /\ asked.candidates \in CandidateLists /\ asked.keyword \in BOOLEAN
         /\ place \in 0..Len(asked.candidates)
         /\ best.at \in 0..place /\ best.sum \in Int /\ best.n \in Nat \ {0}
         /\ best.at # 0 => Eligible(Chosen)
         /\ \A k \in 1..place :
              Eligible(asked.candidates[k]) => ~Greater(ConfidenceOf(asked.candidates[k]), best)
    /\ asked.how = "index" =>
         /\ asked.shelf \in Shelves /\ best.at = Found(asked.query, asked.shelf)

LEMMA ConfidenceOfTyped ==
    ASSUME NEW c \in Candidate, asked.how \in {"default", "strict"}, asked.keyword \in BOOLEAN
    PROVE  ConfidenceOf(c).sum \in Int /\ ConfidenceOf(c).n \in Nat \ {0}
  BY DefaultHeard, StrictHeard DEF ConfidenceOf

LEMMA MatchStep == MatchInv /\ [MatchNext]_matchVars => MatchInv'
  <1> SUFFICES ASSUME MatchInv, [MatchNext]_matchVars PROVE MatchInv'
    OBVIOUS
  <1>1. CASE AskHybrid
    <2>1. PICK cs \in CandidateLists, how \in {"default", "strict"}, keyword \in BOOLEAN :
             asked' = [how |-> how, candidates |-> cs, keyword |-> keyword]
      BY <1>1 DEF AskHybrid
    <2>2. place' = 0 /\ best' = NoMatch
      BY <1>1 DEF AskHybrid, MatchInv
    <2>3. cs \in Seq(Candidate)
      BY MatchAssumption DEF Candidate
    <2>4. Len(cs) \in Nat
      BY <2>3
    <2> QED BY <2>1, <2>2, <2>4 DEF MatchInv, NoMatch
  <1>2. CASE Consider
    <2> DEFINE c == asked.candidates[place']
               conf == ConfidenceOf(c)
    <2>1. /\ asked.how \in {"default", "strict"} /\ place < Len(asked.candidates)
          /\ place' = place + 1 /\ asked' = asked
          /\ best' = IF Eligible(c) /\ Greater(conf, best)
                     THEN [at |-> place', sum |-> conf.sum, n |-> conf.n] ELSE best
      BY <1>2 DEF Consider
    <2>2. asked.candidates \in Seq(Candidate) /\ asked.keyword \in BOOLEAN
      BY <2>1, MatchAssumption DEF MatchInv, Candidate
    <2>3. place \in Nat /\ place' \in 1..Len(asked.candidates) /\ place' = place + 1
      BY <2>1, <2>2 DEF MatchInv
    <2>4. c \in Candidate
      BY <2>2, <2>3
    <2>5. conf.sum \in Int /\ conf.n \in Nat \ {0}
      BY <2>1, <2>2, <2>4, ConfidenceOfTyped
    <2> DEFINE Keeps(x) == Eligible(x) => ~Greater(ConfidenceOf(x), best')
    <2>6. \A k \in 1..place : Eligible(asked.candidates[k]) => ~Greater(ConfidenceOf(asked.candidates[k]), best)
      BY <2>1 DEF MatchInv
    <2>7. best.sum \in Int /\ best.n \in Nat \ {0} /\ best.at \in 0..place /\ (best.at # 0 => Eligible(Chosen))
      BY <2>1 DEF MatchInv
    <2>8. /\ best'.sum \in Int /\ best'.n \in Nat \ {0} /\ best'.at \in 0..place'
          /\ best'.at # 0 => Eligible(asked.candidates[best'.at])
          /\ \A k \in 1..place' : Keeps(asked.candidates[k])
      <3>1. CASE Eligible(c) /\ Greater(conf, best)
        <4>1. best' = [at |-> place', sum |-> conf.sum, n |-> conf.n]
          BY <2>1, <3>1
        <4>2. ~Greater(conf, best')
          <5> HIDE DEF conf
          <5> QED BY <2>5, <4>1 DEF Greater
        <4>3. ASSUME NEW k \in 1..place', Eligible(asked.candidates[k])
              PROVE  ~Greater(ConfidenceOf(asked.candidates[k]), best')
          <5>1. CASE k = place'
            BY <4>2, <5>1
          <5>2. CASE k # place'
            <6>1. k \in 1..place
              BY <2>3, <5>2
            <6>2. asked.candidates[k] \in Candidate
              BY <2>2, <2>3, <6>1
            <6> DEFINE other == ConfidenceOf(asked.candidates[k])
            <6>3. other.sum \in Int /\ other.n \in Nat \ {0}
              BY <2>1, <2>2, <6>2, ConfidenceOfTyped
            <6>4. ~Greater(other, best)
              BY <2>6, <4>3, <6>1
            <6>5. ~Greater(other, conf)
              <7> HIDE DEF other, conf
              <7> QED BY <2>5, <2>7, <3>1, <6>3, <6>4, GreaterStays
            <6> HIDE DEF other, conf
            <6>6. ~Greater(other, best')
              BY <4>1, <6>5 DEF Greater
            <6> QED BY <6>6 DEF other
          <5> QED BY <5>1, <5>2
        <4>4. /\ best'.sum \in Int /\ best'.n \in Nat \ {0} /\ best'.at \in 0..place'
              /\ Eligible(asked.candidates[best'.at])
          <5> HIDE DEF conf
          <5> QED BY <2>3, <2>5, <3>1, <4>1
        <4> QED BY <4>3, <4>4
      <3>2. CASE ~(Eligible(c) /\ Greater(conf, best))
        <4>1. best' = best
          BY <2>1, <3>2
        <4>2. ASSUME NEW k \in 1..place' PROVE Keeps(asked.candidates[k])
          <5>1. CASE k = place'
            BY <3>2, <4>1, <5>1
          <5>2. CASE k # place'
            <6>1. k \in 1..place
              BY <2>3, <5>2
            <6> QED BY <2>6, <4>1, <6>1
          <5> QED BY <5>1, <5>2
        <4> QED BY <2>3, <2>7, <4>1, <4>2 DEF Chosen
      <3> QED BY <3>1, <3>2
    <2>9. asked' = asked /\ asked.candidates \in CandidateLists
      BY <2>1 DEF MatchInv
    <2>10. place' \in 0..Len(asked.candidates)
      BY <2>2, <2>3
    <2> HIDE DEF c, conf
    <2> QED BY <2>1, <2>2, <2>8, <2>9, <2>10 DEF MatchInv, Eligible, ConfidenceOf, Chosen
  <1>3. CASE SearchIndex
    BY <1>3 DEF SearchIndex, MatchInv, Found
  <1>4. CASE UNCHANGED matchVars
    BY <1>4 DEF matchVars, MatchInv, Eligible, ConfidenceOf, Chosen
  <1> QED BY <1>1, <1>2, <1>3, <1>4 DEF MatchNext
LEMMA ShelvesTyped ==
    ASSUME NEW shelf \in Shelves
    PROVE  /\ Len(shelf) \in Nat /\ DOMAIN shelf = 1..Len(shelf)
           /\ \A k \in DOMAIN shelf : shelf[k].sim \in Int /\ shelf[k].sim \in -100..100
  <1> DEFINE R == [brand : STRING, model : STRING, kind : STRING, median : Nat, count : Nat, sim : -100..100]
  <1>1. shelf \in Seq(R)
    BY MatchAssumption
  <1>2. \A r \in R : r.sim \in -100..100
    OBVIOUS
  <1>3. \A x \in -100..100 : x \in Int
    OBVIOUS
  <1> HIDE DEF R
  <1>4. /\ Len(shelf) \in Nat /\ DOMAIN shelf = 1..Len(shelf)
        /\ \A k \in DOMAIN shelf : shelf[k] \in R
    BY <1>1
  <1> QED BY <1>2, <1>3, <1>4

\* The first of the most similar places of a set that is not empty.
LEMMA BestExists ==
    ASSUME NEW shelf \in Shelves, NEW S \in SUBSET (DOMAIN shelf), S # {}
    PROVE  Best(shelf, S) \in S /\ Best(shelf, S) # 0
  <1>1. /\ Len(shelf) \in Nat /\ DOMAIN shelf = 1..Len(shelf)
        /\ \A k \in DOMAIN shelf : shelf[k].sim \in Int /\ shelf[k].sim \in -100..100
    BY ShelvesTyped
  <1> DEFINE Gaps == {100 - shelf[k].sim : k \in S}
  <1>2. Gaps \in SUBSET (0..200) /\ Gaps # {}
    <2>1. \A x \in -100..100 : 100 - x \in 0..200
      OBVIOUS
    <2>2. \A k \in S : 100 - shelf[k].sim \in 0..200
      BY <1>1, <2>1, Zenon
    <2> QED BY <2>2, Zenon
  <1>3. PICK g \in Gaps : \A h \in Gaps : g <= h
    <2> HIDE DEF Gaps
    <2>1. 200 \in Nat
      OBVIOUS
    <2> QED BY <1>2, <2>1, SmallestNumber
  <1> DEFINE T == {k \in S : 100 - shelf[k].sim = g}
  <1>4. T \in SUBSET (0..Len(shelf)) /\ T # {}
    BY <1>1, <1>3
  <1>5. PICK k \in T : \A j \in T : k <= j
    <2> HIDE DEF T
    <2> QED BY <1>1, <1>4, SmallestNumber
  <1>6. \A j \in S : shelf[j].sim < shelf[k].sim \/ (shelf[j].sim = shelf[k].sim /\ k <= j)
    <2> SUFFICES ASSUME NEW j \in S
                 PROVE  shelf[j].sim < shelf[k].sim \/ (shelf[j].sim = shelf[k].sim /\ k <= j)
      OBVIOUS
    <2>1. shelf[j].sim \in Int /\ shelf[k].sim \in Int /\ 100 - shelf[k].sim = g
      BY <1>1, <1>5
    <2>2. g <= 100 - shelf[j].sim
      BY <1>3
    <2>3. CASE 100 - shelf[j].sim = g
      BY <1>5, <2>1, <2>3
    <2>4. CASE 100 - shelf[j].sim # g
      BY <2>1, <2>2, <2>4
    <2> QED BY <2>3, <2>4
  <1>7. k \in S
    BY <1>5
  <1>8. Best(shelf, S) \in S
    <2> HIDE DEF T, Gaps
    <2> QED BY <1>6, <1>7, Zenon DEF Best
  <1> QED BY <1>1, <1>8

\* What ProductIndex finds is on the shelf and fits, and the own model comes first.
LEMMA FoundFits ==
    ASSUME NEW q, NEW shelf \in Shelves, Found(q, shelf) # 0
    PROVE  /\ Found(q, shelf) \in DOMAIN shelf /\ Fits(q, shelf[Found(q, shelf)], 60)
           /\ SameModel(q, shelf) # {} => Found(q, shelf) \in SameModel(q, shelf)
  <1>1. SameModel(q, shelf) \in SUBSET (DOMAIN shelf)
    BY DEF SameModel
  <1>2. SameBrand(q, shelf) \in SUBSET (DOMAIN shelf)
    BY DEF SameBrand
  <1>3. MostSimilar(q, shelf) \in SUBSET (DOMAIN shelf)
    BY DEF MostSimilar
  <1>4. \A k \in DOMAIN shelf : shelf[k].sim \in Int
    BY ShelvesTyped
  <1>5. CASE SameModel(q, shelf) # {}
    <2>1. Found(q, shelf) \in SameModel(q, shelf)
      BY <1>1, <1>5, BestExists DEF Found
    <2> QED BY <1>1, <2>1 DEF SameModel
  <1>6. CASE SameModel(q, shelf) = {} /\ SameBrand(q, shelf) # {}
    <2>1. Found(q, shelf) \in SameBrand(q, shelf)
      BY <1>2, <1>6, BestExists DEF Found
    <2>2. Found(q, shelf) \in DOMAIN shelf /\ Fits(q, shelf[Found(q, shelf)], 75)
      BY <2>1 DEF SameBrand
    <2> QED BY <1>4, <1>6, <2>2 DEF Fits
  <1>7. CASE SameModel(q, shelf) = {} /\ SameBrand(q, shelf) = {}
    <2>1. MostSimilar(q, shelf) # {}
      BY <1>7 DEF Found, Best
    <2>2. Found(q, shelf) \in MostSimilar(q, shelf)
      BY <1>3, <1>7, <2>1, BestExists DEF Found
    <2>3. Found(q, shelf) \in DOMAIN shelf /\ Fits(q, shelf[Found(q, shelf)], 82)
      BY <2>2 DEF MostSimilar
    <2> QED BY <1>4, <1>7, <2>3 DEF Fits
  <1> QED BY <1>5, <1>6, <1>7

LEMMA MatchesSound == MatchInv => MatchSound
  <1> SUFFICES ASSUME MatchInv PROVE MatchSound
    OBVIOUS
  <1>1. HybridSound
    <2> SUFFICES ASSUME asked.how \in {"default", "strict"}, best.at # 0
                 PROVE  /\ Chosen.models # 0 /\ Chosen.storage # "other" /\ ~Chosen.bundle /\ Chosen.brand # "other"
                        /\ asked.how = "strict" =>
                             /\ Chosen.brand \in {"same", "alias"} /\ Chosen.models > 0 /\ ~asked.keyword
                             /\ AtLeast(Confidence(Chosen, DefaultSignals(Chosen)), 810)
      BY DEF HybridSound, MatchInv
    <2>1. Chosen \in Candidate /\ asked.keyword \in BOOLEAN /\ Eligible(Chosen)
      <3>1. asked.candidates \in Seq(Candidate)
        BY MatchAssumption DEF MatchInv, Candidate
      <3>2. best.at \in 1..Len(asked.candidates)
        BY <3>1 DEF MatchInv
      <3> QED BY <3>1, <3>2 DEF MatchInv, Chosen
    <2>2. ASSUME BrandMatcher(Chosen).verdict # "reject", ModelMatcher(Chosen).verdict # "reject",
                 AttributeMatcher(Chosen).verdict # "reject"
          PROVE  Chosen.models # 0 /\ Chosen.storage # "other" /\ ~Chosen.bundle /\ Chosen.brand # "other"
      BY <2>1, <2>2 DEF Candidate, BrandMatcher, ModelMatcher, AttributeMatcher, Says, Pass, Reject, NoModels
    <2>3. CASE asked.how = "default"
      <3>1. AtLeast(Confidence(Chosen, DefaultSignals(Chosen)), 810)
        BY <2>1, <2>3 DEF Eligible
      <3> QED BY <2>1, <2>2, <2>3, <3>1, DefaultHeard
    <2>4. CASE asked.how = "strict"
      <3>1. StrictlyEligible(Chosen, asked.keyword)
        BY <2>1, <2>4 DEF Eligible
      <3>2. /\ ~asked.keyword /\ BrandMatcher(Chosen).verdict = "accept"
            /\ ModelMatcher(Chosen).verdict = "accept" /\ AttributeMatcher(Chosen).verdict # "reject"
            /\ SemanticMatcher(Chosen, 88).verdict # "reject"
        BY <2>1, <3>1, StrictHeard
      <3>3. Chosen.brand \in {"same", "alias"} /\ Chosen.models > 0
        BY <2>1, <3>2 DEF Candidate, BrandMatcher, ModelMatcher, Says, Pass, Reject, NoModels
      <3>4. SemanticMatcher(Chosen, 82).verdict # "reject"
        <4>1. Chosen.sim \in -100..100
          BY <2>1 DEF Candidate
        <4> QED BY <3>2, <4>1 DEF SemanticMatcher, Says, Pass, Reject
      <3>5. AtLeast(Confidence(Chosen, DefaultSignals(Chosen)), 900)
        BY <2>1, <3>2, <3>4, DefaultHeard
      <3>6. AtLeast(Confidence(Chosen, DefaultSignals(Chosen)), 810)
        <4> DEFINE conf == Confidence(Chosen, DefaultSignals(Chosen))
        <4>1. conf.sum \in Int /\ conf.n \in Nat \ {0}
          BY <2>1, DefaultHeard
        <4> HIDE DEF conf
        <4>2. AtLeast(conf, 810)
          BY <3>5, <4>1 DEF AtLeast, conf
        <4> QED BY <4>2 DEF conf
      <3> QED BY <2>2, <3>2, <3>3, <3>6
    <2> QED BY <2>3, <2>4
  <1>2. IndexSound
    <2> SUFFICES ASSUME asked.how = "index", best.at # 0 PROVE IndexSound
      BY DEF IndexSound
    <2> DEFINE q == asked.query
               shelf == asked.shelf
               p == shelf[best.at]
               own == {r \in ToSet(shelf) : r.brand = q.brand /\ r.model = q.model}
    <2>1. shelf \in Shelves /\ best.at = Found(q, shelf)
      BY DEF MatchInv
    <2>2. /\ best.at \in DOMAIN shelf /\ Fits(q, p, 60)
          /\ SameModel(q, shelf) # {} => best.at \in SameModel(q, shelf)
      BY <2>1, FoundFits
    <2>3. p \in ToSet(shelf)
      BY <2>2 DEF ToSet
    <2>4. ASSUME p \notin own, q.brand # None, q.model # None, NEW r \in own, Fits(q, r, 60)
          PROVE  FALSE
      <3>1. PICK k \in DOMAIN shelf : r = shelf[k]
        BY DEF ToSet
      <3>2. k \in SameModel(q, shelf)
        BY <2>4, <3>1 DEF SameModel
      <3>3. best.at \in SameModel(q, shelf)
        BY <2>2, <3>2
      <3> QED BY <2>3, <2>4, <3>3 DEF SameModel
    <2> QED BY <2>2, <2>4 DEF IndexSound
  <1> QED BY <1>1, <1>2 DEF MatchSound

\* A match is one that has earned it (MatchSound): no model, storage size, bundle or
\* brand that differs, in strict mode the brand and the model confirmed, no better
\* candidate passed over, and in the index the own model before any other.
THEOREM MatchesAreSound == MatchSpec => []MatchSound
  <1>1. MatchInit => MatchInv
    BY DEF MatchInit, MatchInv
  <1> QED BY <1>1, MatchStep, MatchesSound, PTL DEF MatchSpec

-----------------------------------------------------------------------------
(* All of the processor *)

\* Each part does its own steps or none.
LEMMA ProcessorParts == Spec => PipeSpec /\ IndexSpec /\ MatchSpec
  <1>1. Init => PipeInit /\ IndexInit /\ MatchInit
    BY DEF Init
  <1>2. [Next]_vars => [PipeNext]_pipeVars /\ [IndexNext]_indexVars /\ [MatchNext]_matchVars
    BY DEF Next, vars
  <1> QED BY <1>1, <1>2, PTL DEF Spec, PipeSpec, IndexSpec, MatchSpec

\* The invariants and the action properties of the run hold of the whole processor
\* for any queue, batch and history sizes, titles, prices and candidates: rows are
\* of the last message, listings are counted once, matches have earned it, what is
\* acknowledged is kept and a price is written off only when its product is stale.
THEOREM ProcessorIsSound == Spec => [](LatestWins /\ CountedOnce /\ MatchSound)
  BY ProcessorParts, LastWriteWins, ListingsCountedOnce, MatchesAreSound, PTL

THEOREM ProcessorIsGuarded == Spec => AckedIsKept /\ OffOnlyWhenStale
  BY ProcessorParts, AcknowledgedIsKept, WrittenOffOnlyWhenStale, PTL
=============================================================================
