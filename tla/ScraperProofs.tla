---------------------------- MODULE ScraperProofs -----------------------------
(***************************************************************************)
(* What scrapes beside the service of scraper_v2 and is proved about here, *)
(* for any listings, pages, messages and tasks, any numbers of jobs,       *)
(* crawlers, workers and failures: the two queues made for scaling the     *)
(* scraper out, the process of scraper/main.py, and the crawlers with their *)
(* proxies.  The last part puts all of it together: what the parts promise, *)
(* those of ScrapingServiceProofs included, holds in what MCScraping runs. *)
(*                                                                         *)
(* The stage: an entry that may still be added again is its message's last *)
(* one, so that no two entries of a message have the same number of        *)
(* retries.  The tasks: for every task of a key that a cycle has there is  *)
(* one caller less that may still add one.                                 *)
(*                                                                         *)
(* The process: LegacyInv says where a listing is that is marked, and that *)
(* a WAL file whose replay has its answer has all its listings on the      *)
(* stream.  OnceInv, which holds until something fails, says that a listing *)
(* has one job that brings it, how far that job is, and which of the two   *)
(* sets know it by then.                                                   *)
(*                                                                         *)
(* The crawlers: CrawlInv ties the session's requests to where its crawl   *)
(* is, and what is found to what is known.                                 *)
(***************************************************************************)
EXTENDS MCScraping, ScrapingServiceProofs, Folding

-----------------------------------------------------------------------------
(* infra/pipeline.py *)

Msgs == ToSet(StageMsgs)
Entry == [msg : Msgs, retries : 0..StageRetries, state : {"new", "pending", "acked"}]

\* What a stage may hold while there are n entries.
StageOK(s, n) ==
    /\ s \in [at : {"read", "process", "bury", "write", "ack", "fail", "down"},
              batch : Seq(1..n), todo : Seq(1..n), good : SUBSET (1..n)]
    /\ IsInjective(s.batch) /\ IsInjective(s.todo)
    /\ Range(s.todo) \subseteq Range(s.batch)
    /\ s.at \in {"bury", "write", "fail"} => s.todo # <<>>

StageTyped ==
    /\ source \in Seq(Entry) /\ results \in Seq(Msgs) /\ dead \in Seq(Msgs)
    /\ StageOK(stage, Len(source))

\* Every message came in, and what counts as processed is on the output stream.
CameIn == \A m \in Msgs : \E i \in DOMAIN source : source[i].msg = m
GoodWritten == \A i \in stage.good : source[i].msg \in Range(results)

\* The entries of the batch that may still be added again.
InHands(s) ==
    IF s.at \in {"process", "bury", "write", "ack"} THEN Range(s.batch)
    ELSE IF s.at = "fail" THEN Range(s.todo) ELSE {}
Fresh == InHands(stage) \cup {i \in DOMAIN source : source[i].state = "new"}

\* Of the entries of a message no two have the same number of retries, and only
\* one with the most retries may be added again.
Generations ==
    /\ \A i \in Range(stage.batch) : source[i].state # "new"
    /\ \A i, j \in DOMAIN source :
         source[i].msg = source[j].msg /\ source[i].retries = source[j].retries => i = j
    /\ \A i \in Fresh, j \in DOMAIN source :
         source[i].msg = source[j].msg => source[j].retries <= source[i].retries

\* NothingDisappears, of one message.
Somewhere(m) ==
    \/ m \in Range(results) \/ m \in Range(dead)
    \/ \E i \in DOMAIN source : source[i].msg = m /\ source[i].state # "acked"

StageInv == StageTyped /\ CameIn /\ GoodWritten /\ (\A m \in Msgs : Somewhere(m)) /\ Generations

\* A step that handles what is left of the batch in one of the steps.
LEMMA ThenTypes ==
  ASSUME NEW n \in Nat, StageOK(stage, n), NEW to \in {"bury", "write", "fail"}, NEW todo \in Seq(1..n),
         IsInjective(todo), Range(todo) \subseteq Range(stage.batch)
  PROVE  /\ StageOK(Then(to, todo), n)
         /\ Then(to, todo) = Reading \/ (Then(to, todo).batch = stage.batch /\ Then(to, todo).good = stage.good)
         /\ InHands(Then(to, todo)) \subseteq (IF to = "fail" THEN Range(todo) ELSE Range(stage.batch))
<1>. PICK next : next = Then(to, todo)
  OBVIOUS
<1>0. <<>> \in Seq(1..n) /\ Range(<<>>) = {} /\ IsInjective(<<>>)
  BY EmptySeq DEF Range, IsInjective
<1>1. StageOK(Reading, n) /\ InHands(Reading) = {}
  BY <1>0 DEF StageOK, Reading, InHands
<1>2. CASE todo = <<>> /\ to = "write"
  <2>1. next = [stage EXCEPT !.at = "ack", !.todo = <<>>]
    BY <1>2 DEF Then
  <2>2. StageOK(next, n)
    BY <1>0, <2>1 DEF StageOK
  <2>3. next.batch = stage.batch /\ next.good = stage.good /\ next.at = "ack"
    BY <2>1 DEF StageOK
  <2>. QED
    BY <1>2, <2>2, <2>3 DEF InHands
<1>3. CASE todo = <<>> /\ to # "write"
  <2>1. next = Reading
    BY <1>3 DEF Then
  <2>. QED
    BY <1>1, <2>1
<1>4. CASE todo # <<>>
  <2>1. next = [stage EXCEPT !.at = to, !.todo = todo]
    BY <1>4 DEF Then
  <2>2. StageOK(next, n)
    BY <1>4, <2>1 DEF StageOK
  <2>3. next.batch = stage.batch /\ next.good = stage.good /\ next.at = to /\ next.todo = todo
    BY <2>1 DEF StageOK
  <2>. QED
    BY <2>2, <2>3 DEF InHands
<1>. QED
  BY <1>2, <1>3, <1>4

LEMMA AckedTypes ==
  ASSUME NEW q \in Seq(Entry), NEW S
  PROVE  /\ Acked(q, S) \in Seq(Entry) /\ Len(Acked(q, S)) = Len(q) /\ DOMAIN Acked(q, S) = DOMAIN q
         /\ \A i \in DOMAIN q : Acked(q, S)[i].msg = q[i].msg /\ Acked(q, S)[i].retries = q[i].retries
         /\ \A i \in DOMAIN q : Acked(q, S)[i].state = IF i \in S THEN "acked" ELSE q[i].state
<1>1. Len(q) \in Nat /\ DOMAIN q = 1..Len(q) /\ \A i \in 1..Len(q) : q[i] \in Entry
  BY LenProperties, ElementOfSeq
<1>. PICK a : a = Acked(q, S)
  OBVIOUS
<1>2. a = [i \in 1..Len(q) |-> IF i \in S THEN [q[i] EXCEPT !.state = "acked"] ELSE q[i]]
  BY <1>1 DEF Acked
<1>3. ASSUME NEW i \in 1..Len(q)
      PROVE  /\ a[i] \in Entry /\ a[i].msg = q[i].msg /\ a[i].retries = q[i].retries
             /\ a[i].state = IF i \in S THEN "acked" ELSE q[i].state
  <2>1. q[i] \in Entry
    BY <1>1
  <2>2. CASE i \in S
    <3>1. a[i] = [q[i] EXCEPT !.state = "acked"]
      BY <1>2, <2>2
    <3>. QED
      BY <2>1, <2>2, <3>1 DEF Entry
  <2>3. CASE i \notin S
    <3>1. a[i] = q[i]
      BY <1>2, <2>3
    <3>. QED
      BY <2>1, <2>3, <3>1
  <2>. QED
    BY <2>2, <2>3
<1>4. a \in [1..Len(q) -> Entry]
  <2>1. \A i \in 1..Len(q) : a[i] \in Entry
    BY <1>3
  <2>. QED
    BY <1>2, <2>1
<1>5. a \in Seq(Entry) /\ DOMAIN a = 1..Len(q)
  BY <1>1, <1>4, SeqDef
<1>6. Len(a) = Len(q)
  BY <1>1, <1>5, LenProperties
<1>. QED
  BY <1>1, <1>3, <1>5, <1>6

\* The stream after an entry is added again, acknowledged or not.
LEMMA AppendedTypes ==
  ASSUME NEW q \in Seq(Entry), NEW e \in Entry, NEW i \in 1..Len(q), NEW next,
         next = Append(q, e) \/ next = Acked(Append(q, e), {i})
  PROVE  /\ next \in Seq(Entry) /\ Len(next) = Len(q) + 1 /\ DOMAIN next = 1..(Len(q) + 1)
         /\ next[Len(q) + 1] = e
         /\ \A j \in 1..Len(q) : /\ next[j].msg = q[j].msg /\ next[j].retries = q[j].retries
                                 /\ next[j].state = q[j].state \/ (j = i /\ next[j].state = "acked")
<1>1. /\ Append(q, e) \in Seq(Entry) /\ Len(Append(q, e)) = Len(q) + 1 /\ DOMAIN Append(q, e) = 1..(Len(q) + 1)
      /\ Append(q, e)[Len(q) + 1] = e /\ \A j \in 1..Len(q) : Append(q, e)[j] = q[j]
  BY AppendProperties, LenProperties
<1>2. CASE next = Append(q, e)
  BY <1>1, <1>2
<1>3. CASE next = Acked(Append(q, e), {i})
  <2>1. Len(q) \in Nat /\ Len(q) + 1 \in 1..(Len(q) + 1) /\ Len(q) + 1 # i
    BY LenProperties
  <2>2. \A j \in 1..Len(q) : j \in 1..(Len(q) + 1) /\ q[j] \in Entry
    BY <2>1, ElementOfSeq
  <2>3. next = [j \in 1..(Len(q) + 1) |->
          IF j \in {i} THEN [Append(q, e)[j] EXCEPT !.state = "acked"] ELSE Append(q, e)[j]]
    BY <1>1, <1>3 DEF Acked
  <2>4. next[Len(q) + 1] = e
    BY <1>1, <2>1, <2>3
  <2>5. \A j \in 1..Len(q) : next[j] = IF j = i THEN [q[j] EXCEPT !.state = "acked"] ELSE q[j]
    BY <1>1, <2>2, <2>3
  <2>6. ASSUME NEW j \in 1..Len(q)
        PROVE  /\ next[j] \in Entry /\ next[j].msg = q[j].msg /\ next[j].retries = q[j].retries
               /\ next[j].state = q[j].state \/ (j = i /\ next[j].state = "acked")
    <3>1. q[j] \in Entry
      BY <2>2
    <3>2. CASE j = i
      <4>1. next[j] = [q[j] EXCEPT !.state = "acked"]
        BY <2>5, <3>2
      <4>. QED
        BY <3>1, <3>2, <4>1 DEF Entry
    <3>3. CASE j # i
      <4>1. next[j] = q[j]
        BY <2>5, <3>3
      <4>. QED
        BY <3>1, <4>1
    <3>. QED
      BY <3>2, <3>3
  <2>7. \A j \in 1..(Len(q) + 1) : j \in 1..Len(q) \/ j = Len(q) + 1
    BY <2>1
  <2>8. \A j \in 1..(Len(q) + 1) : next[j] \in Entry
    BY <2>4, <2>6, <2>7
  <2>9. DOMAIN next = 1..(Len(q) + 1) /\ next \in [1..(Len(q) + 1) -> Entry]
    BY <2>3, <2>8
  <2>10. next \in Seq(Entry)
    BY <2>1, <2>9, SeqDef
  <2>11. Len(next) = Len(q) + 1
    BY <2>1, <2>9, <2>10, LenProperties
  <2>. QED
    BY <2>4, <2>6, <2>9, <2>10, <2>11
<1>. QED
  BY <1>2, <1>3

\* A step that changes at most the states of the entries, makes none new, and
\* takes nothing into its hands that it had not.
LEMMA GenerationsStay ==
  ASSUME Generations, DOMAIN source' = DOMAIN source,
         \A i \in DOMAIN source : source'[i].msg = source[i].msg /\ source'[i].retries = source[i].retries,
         \A i \in DOMAIN source : source'[i].state = "new" => source[i].state = "new",
         InHands(stage') \subseteq Fresh, Fresh \subseteq DOMAIN source,
         \A i \in Range(stage'.batch) : source'[i].state # "new"
  PROVE  Generations'
<1>1. Fresh' \subseteq Fresh
  BY DEF Fresh, InHands
<1>2. \A i, j \in DOMAIN source' :
        source'[i].msg = source'[j].msg /\ source'[i].retries = source'[j].retries => i = j
  BY DEF Generations
<1>3. \A i \in Fresh', j \in DOMAIN source' : source'[i].msg = source'[j].msg => source'[j].retries <= source'[i].retries
  BY <1>1 DEF Generations
<1>. QED
  BY <1>2, <1>3 DEF Generations

\* The parts of the invariant that a step keeps which changes at most states and
\* adds at most to the output and the dead letters.
LEMMA StageStays ==
  ASSUME StageInv, source' \in Seq(Entry), Len(source') = Len(source), DOMAIN source' = DOMAIN source,
         \A i \in DOMAIN source : source'[i].msg = source[i].msg /\ source'[i].retries = source[i].retries,
         \A i \in DOMAIN source : source'[i].state = "new" => source[i].state = "new",
         results' \in Seq(Msgs), dead' \in Seq(Msgs),
         Range(results) \subseteq Range(results'), Range(dead) \subseteq Range(dead'),
         StageOK(stage', Len(source)), InHands(stage') \subseteq Fresh,
         \A i \in Range(stage'.batch) : source'[i].state # "new",
         \A i \in stage'.good : source[i].msg \in Range(results'),
         \A i \in DOMAIN source : source'[i].state = "acked" =>
            source[i].state = "acked" \/ source[i].msg \in Range(results') \/ source[i].msg \in Range(dead')
  PROVE  StageInv'
<1>0. DOMAIN source = 1..Len(source) /\ Len(source) \in Nat
  BY LenProperties DEF StageInv, StageTyped
<1>1. StageTyped'
  BY DEF StageTyped
<1>2. CameIn'
  BY DEF StageInv, CameIn
<1>3. GoodWritten'
  <2>1. stage'.good \subseteq DOMAIN source
    BY <1>0 DEF StageOK
  <2>. QED
    BY <2>1 DEF GoodWritten
<1>4. \A m \in Msgs : Somewhere(m)'
  BY DEF StageInv, Somewhere
<1>5. Fresh \subseteq DOMAIN source
  <2>1. Range(stage.batch) \subseteq 1..Len(source) /\ Range(stage.todo) \subseteq 1..Len(source)
    BY RangeOfSeq DEF StageInv, StageTyped, StageOK
  <2>. QED
    BY <1>0, <2>1 DEF Fresh, InHands
<1>6. Generations'
  BY <1>5, GenerationsStay DEF StageInv
<1>. QED
  BY <1>1, <1>2, <1>3, <1>4, <1>6 DEF StageInv

LEMMA StageInitInv == StageInit => StageInv
<1>. SUFFICES ASSUME StageInit PROVE StageInv
  OBVIOUS
<1>0. StageMsgs \in Seq(Msgs) /\ Len(StageMsgs) \in Nat /\ DOMAIN StageMsgs = 1..Len(StageMsgs)
  BY StageAssumption, LenProperties DEF Msgs
<1>1. \A i \in 1..Len(StageMsgs) : StageMsgs[i] \in Msgs
  BY <1>0, ElementOfSeq
<1>2. source = [i \in 1..Len(StageMsgs) |-> [msg |-> StageMsgs[i], retries |-> 0, state |-> "new"]]
  BY <1>0 DEF StageInit
<1>3. source \in [1..Len(StageMsgs) -> Entry]
  BY <1>1, <1>2, StageAssumption DEF Entry
<1>4. source \in Seq(Entry)
  BY <1>0, <1>3, SeqDef
<1>5. DOMAIN source = 1..Len(StageMsgs) /\ Len(source) = Len(StageMsgs)
  BY <1>0, <1>3, <1>4, LenProperties
<1>6. \A i \in DOMAIN source : source[i].msg = StageMsgs[i] /\ source[i].retries = 0 /\ source[i].state = "new"
  BY <1>2, <1>5
<1>7. <<>> \in Seq(1..Len(source)) /\ <<>> \in Seq(Msgs) /\ Range(<<>>) = {} /\ IsInjective(<<>>)
  BY EmptySeq DEF Range, IsInjective
<1>8. stage = Reading /\ results = <<>> /\ dead = <<>>
  BY DEF StageInit
<1>9. StageTyped
  BY <1>4, <1>7, <1>8 DEF StageTyped, StageOK, Reading
<1>10. CameIn
  BY <1>0, <1>5, <1>6 DEF CameIn, Msgs, ToSet
<1>11. GoodWritten
  BY <1>8 DEF GoodWritten, Reading
<1>12. \A m \in Msgs : Somewhere(m)
  BY <1>6, <1>10 DEF Somewhere, CameIn
<1>13. Generations
  <2>1. InHands(stage) = {} /\ Range(stage.batch) = {}
    BY <1>7, <1>8 DEF InHands, Reading
  <2>2. \A i, j \in DOMAIN source : source[i].msg = source[j].msg => i = j
    BY <1>0, <1>5, <1>6, StageAssumption DEF IsInjective
  <2>3. Fresh \subseteq DOMAIN source
    BY <2>1 DEF Fresh
  <2>. QED
    BY <1>6, <2>1, <2>2, <2>3 DEF Generations
<1>. QED
  BY <1>9, <1>10, <1>11, <1>12, <1>13 DEF StageInv

\* The first k elements of a sequence.
LEMMA FirstTypes ==
  ASSUME NEW S, NEW s \in Seq(S), NEW k \in 0..Len(s), IsInjective(s)
  PROVE  SubSeq(s, 1, k) \in Seq(S) /\ IsInjective(SubSeq(s, 1, k)) /\ Range(SubSeq(s, 1, k)) \subseteq Range(s)
<1>1. Len(s) \in Nat /\ DOMAIN s = 1..Len(s) /\ \A i \in 1..Len(s) : s[i] \in S
  BY LenProperties, ElementOfSeq
<1>2. k \in Int /\ 1 \in Int /\ \A i \in 1..k : s[i] \in S
  BY <1>1
<1>. PICK q : q = SubSeq(s, 1, k)
  OBVIOUS
<1>3. q \in Seq(S) /\ Len(q) = (IF 1 <= k THEN k - 1 + 1 ELSE 0) /\ \A i \in 1..(k - 1 + 1) : q[i] = s[1 + i - 1]
  BY <1>2, SubSeqProperties
<1>4. DOMAIN q = 1..Len(q)
  BY <1>3, LenProperties
<1>5. \A i \in DOMAIN q : i \in DOMAIN s /\ q[i] = s[i]
  BY <1>1, <1>3, <1>4
<1>6. IsInjective(q)
  BY <1>5 DEF IsInjective
<1>7. Range(q) \subseteq Range(s)
  BY <1>5 DEF Range
<1>. QED
  BY <1>3, <1>6, <1>7

LEMMA ReadBatchInv == StageInv /\ ReadBatch => StageInv'
<1>. SUFFICES ASSUME StageInv, ReadBatch PROVE StageInv'
  OBVIOUS
<1>. DEFINE n == Len(source)  all == [i \in DOMAIN source |-> i]  old == {i \in DOMAIN source : source[i].state # "new"}
<1>0. /\ source \in Seq(Entry) /\ n \in Nat /\ DOMAIN source = 1..n /\ results \in Seq(Msgs) /\ dead \in Seq(Msgs)
      /\ \A i \in 1..n : source[i] \in Entry
  BY LenProperties, ElementOfSeq DEF StageInv, StageTyped
<1>1. all \in Seq(1..n) /\ IsInjective(all) /\ Range(all) = 1..n
  <2>1. all \in [1..n -> 1..n]
    BY <1>0
  <2>. QED
    BY <1>0, <2>1, SeqDef DEF IsInjective, Range
<1>. DEFINE new == Without(all, old)
<1>2. new \in Seq(1..n) /\ IsInjective(new) /\ Range(new) = (1..n) \ old
  <2>. HIDE DEF all, old, n
  <2>. QED
    BY <1>1, WithoutTypes, WithoutInjective, WithoutRange
<1>. DEFINE k == IF Len(new) < BatchSize THEN Len(new) ELSE BatchSize
<1>3. k \in 0..Len(new)
  <2>1. Len(new) \in Nat
    BY <1>2, LenProperties
  <2>. HIDE DEF new
  <2>. QED
    BY <2>1, StageAssumption
<1>. DEFINE got == SubSeq(new, 1, k)
<1>4. got \in Seq(1..n) /\ IsInjective(got) /\ Range(got) \subseteq (1..n) \ old
  <2>. HIDE DEF new, k, n, old
  <2>. QED
    BY <1>2, <1>3, FirstTypes
<1>5. /\ source' = [i \in DOMAIN source |->
                      IF i \in Range(got) THEN [source[i] EXCEPT !.state = "pending"] ELSE source[i]]
      /\ stage' = [Reading EXCEPT !.at = "process", !.batch = got]
      /\ UNCHANGED <<results, dead>>
  BY DEF ReadBatch, ToSet, Range
<1>. HIDE DEF got
<1>6. ASSUME NEW i \in 1..n
      PROVE  /\ source'[i] \in Entry /\ source'[i].msg = source[i].msg /\ source'[i].retries = source[i].retries
             /\ source'[i].state = IF i \in Range(got) THEN "pending" ELSE source[i].state
  <2>1. source[i] \in Entry
    BY <1>0
  <2>2. CASE i \in Range(got)
    <3>1. source'[i] = [source[i] EXCEPT !.state = "pending"]
      BY <1>0, <1>5, <2>2
    <3>. QED
      BY <2>1, <2>2, <3>1 DEF Entry
  <2>3. CASE i \notin Range(got)
    <3>1. source'[i] = source[i]
      BY <1>0, <1>5, <2>3
    <3>. QED
      BY <2>1, <2>3, <3>1
  <2>. QED
    BY <2>2, <2>3
<1>7. source' \in [1..n -> Entry] /\ DOMAIN source' = DOMAIN source
  <2>1. \A i \in 1..n : source'[i] \in Entry
    BY <1>6
  <2>. QED
    BY <1>0, <1>5, <2>1
<1>8. source' \in Seq(Entry) /\ Len(source') = n
  <2>. HIDE DEF n
  <2>1. source' \in Seq(Entry)
    BY <1>0, <1>7, SeqDef
  <2>. QED
    BY <1>0, <1>7, <2>1, LenProperties
<1>9. <<>> \in Seq(1..n) /\ Range(<<>>) = {} /\ IsInjective(<<>>)
  BY EmptySeq DEF Range, IsInjective
<1>10. stage' = [at |-> "process", batch |-> got, todo |-> <<>>, good |-> {}]
  BY <1>5 DEF Reading
<1>11. StageOK(stage', n) /\ InHands(stage') = Range(got) /\ stage'.batch = got /\ stage'.good = {}
  <2>. HIDE DEF n
  <2>. QED
    BY <1>4, <1>9, <1>10 DEF StageOK, InHands
<1>12. Range(got) \subseteq Fresh
  BY <1>0, <1>4 DEF Fresh
<1>13. \A i \in DOMAIN source : /\ source'[i].msg = source[i].msg /\ source'[i].retries = source[i].retries
  BY <1>0, <1>6
<1>14. \A i \in DOMAIN source : source'[i].state = "new" => source[i].state = "new"
  BY <1>0, <1>6
<1>15. \A i \in Range(stage'.batch) : source'[i].state # "new"
  BY <1>4, <1>6, <1>11
<1>16. \A i \in DOMAIN source : source'[i].state = "acked" => source[i].state = "acked"
  BY <1>0, <1>6
<1>. HIDE DEF n
<1>. QED
  BY <1>0, <1>5, <1>7, <1>8, <1>11, <1>12, <1>13, <1>14, <1>15, <1>16, StageStays DEF n

\* What is left of the list of a step after its first entry.
LEMMA RestTypes ==
  ASSUME NEW n \in Nat, StageOK(stage, n), stage.todo # <<>>
  PROVE  /\ Head(stage.todo) \in Range(stage.todo) /\ Head(stage.todo) \in 1..n
         /\ Tail(stage.todo) \in Seq(1..n) /\ IsInjective(Tail(stage.todo))
         /\ Range(Tail(stage.todo)) \subseteq Range(stage.todo)
         /\ Head(stage.todo) \notin Range(Tail(stage.todo))
<1>. PICK s : s = stage.todo
  OBVIOUS
<1>0. s \in Seq(1..n) /\ IsInjective(s) /\ s # <<>>
  BY DEF StageOK
<1>1. /\ Head(s) \in 1..n /\ Tail(s) \in Seq(1..n) /\ Len(s) \in Nat \ {0} /\ Len(Tail(s)) = Len(s) - 1
      /\ Head(s) = s[1] /\ \A j \in 1..(Len(s) - 1) : Tail(s)[j] = s[j + 1]
      /\ DOMAIN s = 1..Len(s) /\ DOMAIN Tail(s) = 1..(Len(s) - 1)
  <2>. PICK S : S = 1..n
    OBVIOUS
  <2>1. s \in Seq(S) /\ s # <<>>
    BY <1>0
  <2>2. /\ Head(s) \in S /\ Tail(s) \in Seq(S) /\ Len(Tail(s)) = Len(s) - 1
        /\ \A j \in 1..Len(Tail(s)) : Tail(s)[j] = s[j + 1]
    BY <2>1, HeadTailProperties
  <2>3. Len(s) \in Nat /\ Len(s) # 0 /\ DOMAIN s = 1..Len(s) /\ DOMAIN Tail(s) = 1..Len(Tail(s))
    BY <2>1, <2>2, LenProperties, EmptySeq
  <2>4. Head(s) = s[1]
    BY <2>1, <2>3
  <2>. QED
    BY <2>2, <2>3, <2>4
<1>2. 1 \in DOMAIN s /\ \A j \in DOMAIN Tail(s) : j + 1 \in DOMAIN s /\ Tail(s)[j] = s[j + 1] /\ j \in Nat /\ j # 0
  BY <1>1
<1>3. IsInjective(Tail(s))
  <2>1. ASSUME NEW a \in DOMAIN Tail(s), NEW b \in DOMAIN Tail(s), Tail(s)[a] = Tail(s)[b] PROVE a = b
    <3>1. a + 1 = b + 1
      BY <1>0, <1>2, <2>1 DEF IsInjective
    <3>. QED
      BY <1>2, <3>1
  <2>. QED
    BY <2>1 DEF IsInjective
<1>4. Range(Tail(s)) \subseteq Range(s) /\ Head(s) \in Range(s)
  BY <1>1, <1>2 DEF Range
<1>5. ASSUME NEW b \in DOMAIN Tail(s), Tail(s)[b] = s[1] PROVE FALSE
  <2>1. b + 1 = 1
    BY <1>0, <1>2, <1>5 DEF IsInjective
  <2>. QED
    BY <1>2, <2>1
<1>6. Head(s) \notin Range(Tail(s))
  BY <1>1, <1>5 DEF Range
<1>. QED
  BY <1>1, <1>3, <1>4, <1>6

\* What the invariant says of the stage that every step needs.
LEMMA StageFacts ==
  ASSUME StageInv
  PROVE  /\ Len(source) \in Nat /\ DOMAIN source = 1..Len(source) /\ \A i \in 1..Len(source) : source[i] \in Entry
         /\ StageOK(stage, Len(source)) /\ Range(stage.batch) \subseteq 1..Len(source)
         /\ \A i \in Range(stage.batch) : source[i].state # "new"
         /\ stage.good \subseteq 1..Len(source) /\ \A i \in stage.good : source[i].msg \in Range(results)
<1>1. Len(source) \in Nat /\ DOMAIN source = 1..Len(source) /\ \A i \in 1..Len(source) : source[i] \in Entry
  BY LenProperties, ElementOfSeq DEF StageInv, StageTyped
<1>2. StageOK(stage, Len(source))
  BY DEF StageInv, StageTyped
<1>3. Range(stage.batch) \subseteq 1..Len(source)
  BY <1>2, RangeOfSeq DEF StageOK
<1>4. stage.good \subseteq 1..Len(source)
  BY <1>2 DEF StageOK
<1>. QED
  BY <1>1, <1>2, <1>3, <1>4 DEF StageInv, GoodWritten, Generations

\* A step that changes only where the stage is.
LEMMA OnlyStageMoves ==
  ASSUME StageInv, UNCHANGED <<source, results, dead>>, StageOK(stage', Len(source)),
         stage' = Reading \/ stage' = Down \/ (stage'.batch = stage.batch /\ stage'.good = stage.good),
         InHands(stage') \subseteq Fresh
  PROVE  StageInv'
<1>1. Range(Reading.batch) = {} /\ Range(Down.batch) = {} /\ Reading.good = {} /\ Down.good = {}
  BY EmptySeq DEF Reading, Down, Range
<1>2. \A i \in Range(stage'.batch) : source[i].state # "new"
  BY <1>1, StageFacts
<1>3. \A i \in stage'.good : source[i].msg \in Range(results)
  BY <1>1, StageFacts
<1>4. source \in Seq(Entry) /\ results \in Seq(Msgs) /\ dead \in Seq(Msgs)
  BY DEF StageInv, StageTyped
<1>. QED
  BY <1>2, <1>3, <1>4, StageStays

LEMMA DownTypes ==
  ASSUME NEW n \in Nat
  PROVE  StageOK(Down, n) /\ StageOK(Reading, n) /\ InHands(Down) = {} /\ InHands(Reading) = {}
         /\ Range(Down.batch) = {} /\ Range(Reading.batch) = {} /\ Down.good = {} /\ Reading.good = {}
<1>1. <<>> \in Seq(1..n) /\ Range(<<>>) = {} /\ IsInjective(<<>>)
  BY EmptySeq DEF Range, IsInjective
<1>2. /\ Down.at = "down" /\ Down.batch = <<>> /\ Down.todo = <<>> /\ Down.good = {}
      /\ Reading.at = "read" /\ Reading.batch = <<>> /\ Reading.todo = <<>> /\ Reading.good = {}
  BY DEF Down, Reading
<1>. DEFINE Stages == [at : {"read", "process", "bury", "write", "ack", "fail", "down"},
                       batch : Seq(1..n), todo : Seq(1..n), good : SUBSET (1..n)]
<1>3. Reading \in Stages
  BY <1>1 DEF Reading
<1>4. Down \in Stages
  BY <1>3 DEF Down
<1>. QED
  BY <1>1, <1>2, <1>3, <1>4 DEF StageOK, InHands

LEMMA ProcessInv == StageInv /\ Process => StageInv'
<1>. SUFFICES ASSUME StageInv, Process PROVE StageInv'
  OBVIOUS
<1>. PICK n : n = Len(source)
  OBVIOUS
<1>0. n \in Nat /\ StageOK(stage, n)
  BY StageFacts
<1>1. stage.at = "process" /\ UNCHANGED <<source, results, dead>> /\ Range(stage.batch) \subseteq Fresh
  BY DEF Process, Fresh, InHands
<1>2. stage.batch \in Seq(1..n) /\ IsInjective(stage.batch)
  BY <1>0 DEF StageOK
<1>3. \/ \E failed : stage' = Then("write", Without(stage.batch, failed))
      \/ stage' = Then("bury", stage.batch)
  BY DEF Process
<1>4. ASSUME NEW to \in {"bury", "write", "fail"}, NEW todo \in Seq(1..n), IsInjective(todo),
             Range(todo) \subseteq Range(stage.batch), stage' = Then(to, todo)
      PROVE  StageInv'
  <2>1. /\ StageOK(stage', n) /\ (stage' = Reading \/ (stage'.batch = stage.batch /\ stage'.good = stage.good))
        /\ InHands(stage') \subseteq Range(stage.batch)
    BY <1>0, <1>4, ThenTypes
  <2>. QED
    BY <1>1, <2>1, OnlyStageMoves
<1>5. CASE \E failed : stage' = Then("write", Without(stage.batch, failed))
  <2>1. PICK failed : stage' = Then("write", Without(stage.batch, failed))
    BY <1>5
  <2>2. /\ Without(stage.batch, failed) \in Seq(1..n) /\ IsInjective(Without(stage.batch, failed))
        /\ Range(Without(stage.batch, failed)) \subseteq Range(stage.batch)
    BY <1>2, WithoutTypes, WithoutInjective, WithoutRange
  <2>. QED
    BY <1>4, <2>1, <2>2
<1>6. CASE stage' = Then("bury", stage.batch)
  BY <1>2, <1>4, <1>6
<1>. QED
  BY <1>3, <1>5, <1>6

\* _send_to_dlq of an entry of the batch, after which the stage is at next.
LEMMA SendToDlqInv ==
  ASSUME StageInv, NEW i \in Range(stage.batch), NEW next, SendToDlq(i, next), StageOK(next, Len(source)),
         next = Reading \/ (next.batch = stage.batch /\ next.good = stage.good), InHands(next) \subseteq Fresh
  PROVE  StageInv'
<1>0. /\ Len(source) \in Nat /\ DOMAIN source = 1..Len(source) /\ source \in Seq(Entry)
      /\ i \in DOMAIN source /\ source[i] \in Entry /\ source[i].msg \in Msgs
      /\ results \in Seq(Msgs) /\ dead \in Seq(Msgs)
  BY StageFacts DEF StageInv, StageTyped, Entry
<1>1. results' = results /\ stage' = next
  BY DEF SendToDlq
<1>2. \A j \in Range(stage'.batch) : source[j].state # "new"
  <2>1. Range(Reading.batch) = {}
    BY <1>0, DownTypes
  <2>. QED
    BY <1>1, <2>1, StageFacts
<1>3. \A j \in stage'.good : source[j].msg \in Range(results')
  <2>1. Reading.good = {}
    BY <1>0, DownTypes
  <2>. QED
    BY <1>1, <2>1, StageFacts
<1>4. dead' = dead \/ dead' = Append(dead, source[i].msg)
  BY DEF SendToDlq
<1>5. dead' \in Seq(Msgs) /\ Range(dead) \subseteq Range(dead')
  <2>1. /\ Append(dead, source[i].msg) \in Seq(Msgs)
        /\ Range(Append(dead, source[i].msg)) = Range(dead) \cup {source[i].msg}
    BY <1>0, RangeOfAppend, AppendProperties
  <2>. QED
    BY <1>0, <1>4, <2>1
<1>6. CASE source' = source
  BY <1>0, <1>1, <1>2, <1>3, <1>5, <1>6, StageStays
<1>7. CASE source' = Acked(source, {i}) /\ dead' = Append(dead, source[i].msg)
  <2>1. /\ source' \in Seq(Entry) /\ Len(source') = Len(source) /\ DOMAIN source' = DOMAIN source
        /\ \A j \in DOMAIN source : source'[j].msg = source[j].msg /\ source'[j].retries = source[j].retries
        /\ \A j \in DOMAIN source : source'[j].state = IF j \in {i} THEN "acked" ELSE source[j].state
    BY <1>0, <1>7, AckedTypes
  <2>2. source[i].msg \in Range(dead')
    BY <1>0, <1>7, RangeOfAppend
  <2>3. \A j \in DOMAIN source : source'[j].state = "new" => source[j].state = "new"
    BY <2>1
  <2>4. \A j \in Range(stage'.batch) : source'[j].state # "new"
    <3>1. Range(stage'.batch) \subseteq DOMAIN source
      BY <1>0, <1>1, RangeOfSeq DEF StageOK
    <3>. QED
      BY <1>2, <2>3, <3>1
  <2>5. \A j \in DOMAIN source : source'[j].state = "acked" => source[j].state = "acked" \/ source[j].msg \in Range(dead')
    BY <2>1, <2>2
  <2>. QED
    BY <1>0, <1>1, <1>3, <1>5, <2>1, <2>3, <2>4, <2>5, StageStays
<1>. QED
  BY <1>6, <1>7 DEF SendToDlq

LEMMA BuryInv == StageInv /\ Bury => StageInv'
<1>. SUFFICES ASSUME StageInv, Bury PROVE StageInv'
  OBVIOUS
<1>. PICK n : n = Len(source)
  OBVIOUS
<1>. PICK i : i = Head(stage.todo)
  OBVIOUS
<1>0. /\ n \in Nat /\ StageOK(stage, n) /\ stage.at = "bury" /\ stage.todo # <<>>
      /\ Range(stage.todo) \subseteq Range(stage.batch)
      /\ stage.batch \in Seq(1..n) /\ IsInjective(stage.batch)
  BY StageFacts DEF Bury, StageOK
<1>1. /\ i \in Range(stage.batch) /\ Tail(stage.todo) \in Seq(1..n) /\ IsInjective(Tail(stage.todo))
      /\ Range(Tail(stage.todo)) \subseteq Range(stage.batch)
  BY <1>0, RestTypes
<1>2. Range(stage.batch) \subseteq Fresh
  BY <1>0 DEF Fresh, InHands
<1>3. ASSUME NEW to \in {"bury", "write", "fail"}, NEW todo \in Seq(1..n), IsInjective(todo),
             Range(todo) \subseteq Range(stage.batch), SendToDlq(i, Then(to, todo))
      PROVE  StageInv'
  <2>. PICK next : next = Then(to, todo)
    OBVIOUS
  <2>1. /\ StageOK(next, n) /\ (next = Reading \/ (next.batch = stage.batch /\ next.good = stage.good))
        /\ InHands(next) \subseteq Range(stage.batch)
    BY <1>0, <1>3, ThenTypes
  <2>. QED
    BY <1>1, <1>2, <1>3, <2>1, SendToDlqInv
<1>4. SendToDlq(i, Then("bury", Tail(stage.todo))) \/ SendToDlq(i, Then("fail", stage.batch))
  BY DEF Bury
<1>5. CASE SendToDlq(i, Then("bury", Tail(stage.todo)))
  BY <1>1, <1>3, <1>5
<1>6. CASE SendToDlq(i, Then("fail", stage.batch))
  BY <1>0, <1>3, <1>6
<1>. QED
  BY <1>4, <1>5, <1>6

LEMMA WriteResultInv == StageInv /\ WriteResult => StageInv'
<1>. SUFFICES ASSUME StageInv, WriteResult PROVE StageInv'
  OBVIOUS
<1>. PICK n : n = Len(source)
  OBVIOUS
<1>. PICK i : i = Head(stage.todo)
  OBVIOUS
<1>. PICK rest : rest = Then("write", Tail(stage.todo))
  OBVIOUS
<1>0. /\ n \in Nat /\ StageOK(stage, n) /\ stage.at = "write" /\ stage.todo # <<>>
      /\ Range(stage.todo) \subseteq Range(stage.batch)
  BY StageFacts DEF WriteResult, StageOK
<1>1. /\ i \in 1..n /\ Tail(stage.todo) \in Seq(1..n) /\ IsInjective(Tail(stage.todo))
      /\ Range(Tail(stage.todo)) \subseteq Range(stage.batch)
  BY <1>0, RestTypes
<1>2. Range(stage.batch) \subseteq Fresh
  BY <1>0 DEF Fresh, InHands
<1>3. rest.batch = stage.batch /\ rest.good = stage.good
  <2>1. Tail(stage.todo) = <<>> => rest = [stage EXCEPT !.at = "ack", !.todo = <<>>]
    BY DEF Then
  <2>2. Tail(stage.todo) # <<>> => rest = [stage EXCEPT !.at = "write", !.todo = Tail(stage.todo)]
    BY DEF Then
  <2>. QED
    BY <1>0, <2>1, <2>2 DEF StageOK
<1>4. StageOK(rest, n) /\ InHands(rest) \subseteq Range(stage.batch)
  <2>1. /\ StageOK(Then("write", Tail(stage.todo)), n)
        /\ InHands(Then("write", Tail(stage.todo))) \subseteq Range(stage.batch)
    BY <1>0, <1>1, ThenTypes
  <2>. QED
    BY <2>1
<1>5. /\ source \in Seq(Entry) /\ results \in Seq(Msgs) /\ dead \in Seq(Msgs) /\ source[i].msg \in Msgs
      /\ DOMAIN source = 1..n
  BY <1>1, StageFacts DEF StageInv, StageTyped, Entry
<1>6. source' = source /\ dead' = dead
  BY DEF WriteResult
<1>7. \/ results' = Append(results, source[i].msg) /\ stage' = [rest EXCEPT !.good = @ \cup {i}]
      \/ (results' = results \/ results' = Append(results, source[i].msg)) /\ stage' = rest
  BY DEF WriteResult
<1>8. /\ results' \in Seq(Msgs) /\ Range(results) \subseteq Range(results')
      /\ results' = Append(results, source[i].msg) => source[i].msg \in Range(results')
  <2>1. /\ Append(results, source[i].msg) \in Seq(Msgs)
        /\ Range(Append(results, source[i].msg)) = Range(results) \cup {source[i].msg}
    BY <1>5, RangeOfAppend, AppendProperties
  <2>2. results' = results \/ results' = Append(results, source[i].msg)
    BY <1>7
  <2>. QED
    BY <1>5, <2>1, <2>2
<1>9. /\ stage'.batch = stage.batch /\ StageOK(stage', n) /\ InHands(stage') = InHands(rest)
      /\ \A j \in stage'.good : source[j].msg \in Range(results')
  <2>1. CASE stage' = rest
    BY <1>3, <1>4, <1>8, <2>1, StageFacts
  <2>2. CASE results' = Append(results, source[i].msg) /\ stage' = [rest EXCEPT !.good = @ \cup {i}]
    <3>1. /\ stage'.batch = rest.batch /\ stage'.at = rest.at /\ stage'.todo = rest.todo
          /\ stage'.good = stage.good \cup {i} /\ StageOK(stage', n)
      BY <1>1, <1>3, <1>4, <2>2 DEF StageOK
    <3>. QED
      BY <1>3, <1>8, <2>2, <3>1, StageFacts DEF InHands
  <2>. QED
    BY <1>7, <2>1, <2>2
<1>10. \A j \in Range(stage'.batch) : source[j].state # "new"
  BY <1>9, StageFacts
<1>. QED
  BY <1>2, <1>4, <1>5, <1>6, <1>8, <1>9, <1>10, StageStays

LEMMA AckProcessedInv == StageInv /\ AckProcessed => StageInv'
<1>. SUFFICES ASSUME StageInv, AckProcessed PROVE StageInv'
  OBVIOUS
<1>. PICK n : n = Len(source)
  OBVIOUS
<1>0. /\ n \in Nat /\ StageOK(stage, n) /\ stage.batch \in Seq(1..n) /\ IsInjective(stage.batch)
      /\ DOMAIN source = 1..n /\ source \in Seq(Entry) /\ results \in Seq(Msgs) /\ dead \in Seq(Msgs)
  BY StageFacts DEF StageOK, StageInv, StageTyped
<1>1. stage.at = "ack" /\ Range(stage.batch) \subseteq Fresh /\ results' = results /\ dead' = dead
  BY DEF AckProcessed, Fresh, InHands
<1>2. /\ Unprocessed \in Seq(1..n) /\ IsInjective(Unprocessed)
      /\ Range(Unprocessed) \subseteq Range(stage.batch)
  BY <1>0, WithoutTypes, WithoutInjective, WithoutRange DEF Unprocessed
<1>3. stage' = Then("fail", Unprocessed) \/ stage' = Down
  BY DEF AckProcessed
<1>4. /\ StageOK(stage', n) /\ InHands(stage') \subseteq Fresh
      /\ stage' = Reading \/ stage' = Down \/ (stage'.batch = stage.batch /\ stage'.good = stage.good)
  <2>1. CASE stage' = Then("fail", Unprocessed)
    <3>1. /\ StageOK(Then("fail", Unprocessed), n)
          /\ \/ Then("fail", Unprocessed) = Reading
             \/ Then("fail", Unprocessed).batch = stage.batch /\ Then("fail", Unprocessed).good = stage.good
          /\ InHands(Then("fail", Unprocessed)) \subseteq Range(Unprocessed)
      BY <1>0, <1>2, ThenTypes
    <3>. QED
      BY <1>1, <1>2, <2>1, <3>1
  <2>2. CASE stage' = Down
    BY <1>0, <2>2, DownTypes
  <2>. QED
    BY <1>3, <2>1, <2>2
<1>5. CASE source' = source
  BY <1>0, <1>1, <1>4, <1>5, OnlyStageMoves
<1>6. CASE source' = Acked(source, stage.good)
  <2>1. /\ source' \in Seq(Entry) /\ Len(source') = n /\ DOMAIN source' = DOMAIN source
        /\ \A j \in DOMAIN source : source'[j].msg = source[j].msg /\ source'[j].retries = source[j].retries
        /\ \A j \in DOMAIN source : source'[j].state = IF j \in stage.good THEN "acked" ELSE source[j].state
    BY <1>0, <1>6, AckedTypes
  <2>2. \A j \in stage.good : source[j].msg \in Range(results)
    BY StageFacts
  <2>3. \A j \in DOMAIN source : source'[j].state = "acked" => source[j].state = "acked" \/ source[j].msg \in Range(results)
    BY <2>1, <2>2
  <2>4. \A j \in DOMAIN source : source'[j].state = "new" => source[j].state = "new"
    BY <2>1
  <2>5. \A j \in Range(stage'.batch) : source'[j].state # "new"
    <3>1. Range(stage'.batch) = {} \/ stage'.batch = stage.batch
      BY <1>0, <1>4, DownTypes
    <3>. QED
      BY <1>0, <2>4, <3>1, StageFacts
  <2>6. \A j \in stage'.good : source[j].msg \in Range(results)
    <3>1. stage'.good = {} \/ stage'.good = stage.good
      BY <1>0, <1>4, DownTypes
    <3>. QED
      BY <2>2, <3>1
  <2>. QED
    BY <1>0, <1>1, <1>4, <2>1, <2>3, <2>4, <2>5, <2>6, StageStays
<1>. QED
  BY <1>5, <1>6 DEF AckProcessed, ProcessedIds

\* The entry that is added again is its message's last; the one it stands for
\* is not in the stage's hands any more.
LEMMA AddedAgainInv ==
  ASSUME StageInv, NEW i \in Range(stage.todo), stage.at = "fail", MayRetry(i),
         NEW e, e = [source[i] EXCEPT !.retries = @ + 1, !.state = "new"],
         source' = Append(source, e) \/ source' = Acked(Append(source, e), {i}), UNCHANGED <<results, dead>>,
         StageOK(stage', Len(source)), Range(stage'.batch) \subseteq Range(stage.batch),
         stage'.good \subseteq stage.good, InHands(stage') \subseteq Range(stage.todo) \ {i}
  PROVE  StageInv'
<1>. PICK n : n = Len(source)
  OBVIOUS
<1>0. /\ n \in Nat /\ DOMAIN source = 1..n /\ source \in Seq(Entry) /\ results \in Seq(Msgs) /\ dead \in Seq(Msgs)
      /\ StageOK(stage, n) /\ Range(stage.todo) \subseteq Range(stage.batch) /\ Range(stage.batch) \subseteq 1..n
      /\ i \in 1..n /\ source[i] \in Entry /\ stage.good \subseteq 1..n
  BY StageFacts DEF StageInv, StageTyped, StageOK
<1>1. e \in Entry /\ e.msg = source[i].msg /\ e.retries = source[i].retries + 1 /\ e.state = "new"
  <2>1. source[i].retries \in 0..StageRetries /\ source[i].retries + 1 \in 0..StageRetries
    BY <1>0, StageAssumption DEF Entry, MayRetry
  <2>2. source[i] \in [msg : Msgs, retries : 0..StageRetries, state : {"new", "pending", "acked"}]
    BY <1>0 DEF Entry
  <2>. PICK r : r = source[i].retries + 1
    OBVIOUS
  <2>3. e = [source[i] EXCEPT !.retries = r, !.state = "new"]
    BY <2>2
  <2>. QED
    BY <2>1, <2>2, <2>3 DEF Entry
<1>2. PICK d \in Entry : d.msg = source[i].msg /\ d.retries = source[i].retries + 1 /\ d.state = "new" /\ d = e
  BY <1>1
<1>3. /\ source' \in Seq(Entry) /\ Len(source') = n + 1 /\ DOMAIN source' = 1..(n + 1) /\ source'[n + 1] = d
      /\ \A j \in 1..n : /\ source'[j].msg = source[j].msg /\ source'[j].retries = source[j].retries
                         /\ source'[j].state = source[j].state \/ (j = i /\ source'[j].state = "acked")
  <2>1. source' = Append(source, d) \/ source' = Acked(Append(source, d), {i})
    BY <1>2
  <2>. QED
    BY <1>0, <1>2, <2>1, AppendedTypes
<1>4. /\ source'[n + 1].msg = source[i].msg /\ source'[n + 1].retries = source[i].retries + 1
      /\ source'[n + 1].state = "new" /\ n + 1 \in DOMAIN source' /\ n + 1 \notin 1..n
  BY <1>0, <1>2, <1>3
<1>5. \A j \in 1..n : /\ source'[j].msg = source[j].msg /\ source'[j].retries = source[j].retries
                      /\ source'[j].state = source[j].state \/ (j = i /\ source'[j].state = "acked")
  BY <1>3
<1>6. StageOK(stage', n + 1)
  <2>1. 1..n \subseteq 1..(n + 1)
    BY <1>0
  <2>2. \A s \in Seq(1..n) : s \in Seq(1..(n + 1))
    BY <2>1, SeqWidens
  <2>. QED
    BY <2>1, <2>2 DEF StageOK
<1>7. StageTyped'
  BY <1>0, <1>3, <1>6 DEF StageTyped
<1>8. CameIn'
  <2>1. \A m \in Msgs : \E j \in 1..n : source[j].msg = m
    BY <1>0 DEF StageInv, CameIn
  <2>2. 1..n \subseteq DOMAIN source'
    BY <1>0, <1>3
  <2>. QED
    BY <1>5, <2>1, <2>2 DEF CameIn
<1>9. GoodWritten'
  BY <1>0, <1>5, StageFacts DEF GoodWritten
<1>10. ASSUME NEW m \in Msgs PROVE Somewhere(m)'
  <2>1. m \in Range(results') \/ m \in Range(dead') \/ \E j \in 1..n : source[j].msg = m /\ source[j].state # "acked"
    BY <1>0 DEF StageInv, Somewhere
  <2>2. ASSUME NEW j \in 1..n, source[j].msg = m, source[j].state # "acked"
        PROVE  \E k \in DOMAIN source' : source'[k].msg = m /\ source'[k].state # "acked"
    <3>1. CASE j = i
      BY <1>4, <2>2, <3>1
    <3>2. CASE j # i
      BY <1>0, <1>3, <1>5, <2>2, <3>2
    <3>. QED
      BY <3>1, <3>2
  <2>. QED
    BY <2>1, <2>2 DEF Somewhere
<1>11. Generations'
  <2>1. i \in Fresh /\ Range(stage.todo) \subseteq Fresh
    BY DEF Fresh, InHands
  <2>2. /\ \A a, b \in 1..n : source[a].msg = source[b].msg /\ source[a].retries = source[b].retries => a = b
        /\ \A a \in Fresh, b \in 1..n : source[a].msg = source[b].msg => source[b].retries <= source[a].retries
    BY <1>0 DEF StageInv, Generations
  <2>3. \A j \in 1..n : source[j].retries \in Nat
    <3>1. \A j \in 1..n : source[j] \in Entry
      BY <1>0, StageFacts
    <3>. QED
      BY <3>1, StageAssumption DEF Entry
  <2>4. \A j \in 1..n : source[j].msg = source[i].msg => source[j].retries < source[i].retries + 1
    BY <1>0, <2>1, <2>2, <2>3
  <2>5. \A j \in Range(stage'.batch) : j \in 1..n /\ source'[j].state # "new"
    <3>1. \A j \in Range(stage.batch) : j \in 1..n /\ source[j].state # "new"
      BY <1>0, StageFacts
    <3>. QED
      BY <1>5, <3>1
  <2>6. ASSUME NEW a \in DOMAIN source', NEW b \in DOMAIN source',
               source'[a].msg = source'[b].msg, source'[a].retries = source'[b].retries
        PROVE  a = b
    <3>0. (a \in 1..n \/ a = n + 1) /\ (b \in 1..n \/ b = n + 1)
      BY <1>0, <1>3
    <3>1. CASE a \in 1..n /\ b \in 1..n
      BY <1>5, <2>2, <2>6, <3>1
    <3>2. CASE a \in 1..n /\ b = n + 1
      BY <1>0, <1>4, <1>5, <2>3, <2>4, <2>6, <3>2
    <3>3. CASE a = n + 1 /\ b \in 1..n
      BY <1>0, <1>4, <1>5, <2>3, <2>4, <2>6, <3>3
    <3>. QED
      BY <3>0, <3>1, <3>2, <3>3
  <2>7. Fresh' \subseteq (Fresh \ {i}) \cup {n + 1}
    <3>1. ASSUME NEW j \in 1..n, source'[j].state = "new" PROVE j \in Fresh \ {i}
      <4>1. source[j].state = "new"
        BY <1>5, <3>1
      <4>2. source[i].state # "new"
        BY <1>0, StageFacts
      <4>. QED
        BY <1>0, <4>1, <4>2 DEF Fresh
    <3>2. InHands(stage') \subseteq Fresh \ {i}
      BY <2>1
    <3>3. \A j \in DOMAIN source' : j \in 1..n \/ j = n + 1
      BY <1>0, <1>3
    <3>. QED
      BY <3>1, <3>2, <3>3 DEF Fresh, InHands
  <2>8. Fresh \subseteq 1..n
    BY <1>0 DEF Fresh, InHands
  <2>9. ASSUME NEW a \in Fresh', NEW b \in DOMAIN source', source'[a].msg = source'[b].msg
        PROVE  source'[b].retries <= source'[a].retries
    <3>0. (a \in Fresh \ {i} \/ a = n + 1) /\ (b \in 1..n \/ b = n + 1)
      BY <1>0, <1>3, <2>7
    <3>1. CASE a = n + 1 /\ b = n + 1
      BY <1>0, <1>4, <2>3, <3>1
    <3>2. CASE a = n + 1 /\ b \in 1..n
      BY <1>0, <1>4, <1>5, <2>3, <2>4, <2>9, <3>2
    <3>3. CASE a \in Fresh \ {i} /\ b \in 1..n
      BY <1>5, <2>2, <2>8, <2>9, <3>3
    <3>4. CASE a \in Fresh \ {i} /\ b = n + 1
      <4>1. a \in 1..n /\ a # i /\ source[a].msg = source[i].msg
        BY <1>4, <1>5, <2>8, <2>9, <3>4
      <4>2. source[i].retries <= source[a].retries /\ source[a].retries <= source[i].retries
        BY <1>0, <2>1, <2>2, <3>4, <4>1
      <4>3. source[i].retries = source[a].retries
        BY <1>0, <2>3, <4>1, <4>2
      <4>. QED
        BY <1>0, <2>2, <4>1, <4>3
    <3>. QED
      BY <3>0, <3>1, <3>2, <3>3, <3>4
  <2>. QED
    BY <2>5, <2>6, <2>9 DEF Generations
<1>. QED
  BY <1>7, <1>8, <1>9, <1>10, <1>11 DEF StageInv

LEMMA HandleFailureInv == StageInv /\ HandleFailure => StageInv'
<1>. SUFFICES ASSUME StageInv, HandleFailure PROVE StageInv'
  OBVIOUS
<1>. PICK n : n = Len(source)
  OBVIOUS
<1>. PICK i : i = Head(stage.todo)
  OBVIOUS
<1>0. /\ n \in Nat /\ StageOK(stage, n) /\ stage.at = "fail" /\ stage.todo # <<>>
      /\ Range(stage.todo) \subseteq Range(stage.batch)
  BY StageFacts DEF HandleFailure, StageOK
<1>1. /\ i \in Range(stage.todo) /\ Tail(stage.todo) \in Seq(1..n) /\ IsInjective(Tail(stage.todo))
      /\ Range(Tail(stage.todo)) \subseteq Range(stage.todo) /\ i \notin Range(Tail(stage.todo))
  BY <1>0, RestTypes
<1>. PICK rest : rest = Then("fail", Tail(stage.todo))
  OBVIOUS
<1>2. /\ StageOK(rest, n) /\ (rest = Reading \/ (rest.batch = stage.batch /\ rest.good = stage.good))
      /\ InHands(rest) \subseteq Range(stage.todo) \ {i}
  <2>1. /\ StageOK(Then("fail", Tail(stage.todo)), n)
        /\ \/ Then("fail", Tail(stage.todo)) = Reading
           \/ /\ Then("fail", Tail(stage.todo)).batch = stage.batch
              /\ Then("fail", Tail(stage.todo)).good = stage.good
        /\ InHands(Then("fail", Tail(stage.todo))) \subseteq Range(Tail(stage.todo))
    BY <1>0, <1>1, ThenTypes
  <2>. QED
    BY <1>1, <2>1
<1>3. Range(stage.todo) \subseteq Fresh
  BY <1>0 DEF Fresh, InHands
<1>4. CASE MayRetry(i)
  <2>. PICK e : e = [source[i] EXCEPT !.retries = @ + 1, !.state = "new"]
    OBVIOUS
  <2>1. /\ results' = results /\ dead' = dead
        /\ \/ source' = Acked(Append(source, e), {i}) /\ stage' = rest
           \/ stage' = Down /\ (source' = Append(source, e) \/ source' = source)
    BY <1>4 DEF HandleFailure
  <2>2. /\ StageOK(stage', n) /\ InHands(stage') \subseteq Range(stage.todo) \ {i}
        /\ stage' = Reading \/ stage' = Down \/ (stage'.batch = stage.batch /\ stage'.good = stage.good)
    BY <1>0, <1>2, <2>1, DownTypes
  <2>3. Range(stage'.batch) \subseteq Range(stage.batch) /\ stage'.good \subseteq stage.good
    BY <1>0, <2>2, DownTypes
  <2>4. CASE source' = source
    BY <1>0, <1>3, <2>1, <2>2, <2>4, OnlyStageMoves
  <2>5. CASE source' = Append(source, e) \/ source' = Acked(Append(source, e), {i})
    BY <1>0, <1>1, <1>4, <2>1, <2>2, <2>3, <2>5, AddedAgainInv
  <2>. QED
    BY <2>1, <2>4, <2>5
<1>5. CASE ~MayRetry(i)
  <2>1. SendToDlq(i, rest)
    BY <1>5 DEF HandleFailure
  <2>. QED
    BY <1>0, <1>1, <1>2, <1>3, <2>1, SendToDlqInv
<1>. QED
  BY <1>4, <1>5

LEMMA StageNextInv == StageInv /\ [StageNext]_stageVars => StageInv'
<1>. SUFFICES ASSUME StageInv, [StageNext]_stageVars PROVE StageInv'
  OBVIOUS
<1>0. Len(source) \in Nat /\ StageOK(stage, Len(source)) /\ InHands(stage) \subseteq Fresh
  BY StageFacts DEF Fresh
<1>1. CASE StageCrash \/ StageRestart
  <2>1. UNCHANGED <<source, results, dead>> /\ (stage' = Down \/ stage' = Reading)
    BY <1>1 DEF StageCrash, StageRestart
  <2>. QED
    BY <1>0, <2>1, DownTypes, OnlyStageMoves
<1>2. CASE UNCHANGED stageVars
  BY <1>0, <1>2, OnlyStageMoves DEF stageVars
<1>. QED
  BY <1>1, <1>2, ReadBatchInv, ProcessInv, BuryInv, WriteResultInv, AckProcessedInv, HandleFailureInv DEF StageNext

THEOREM StageInvariance == StageSpec => []StageInv
  BY StageInitInv, StageNextInv, PTL DEF StageSpec

\* Wherever the stage fails or dies, every message that came in is on the output
\* stream, in the dead letter queue, or on the input stream, where it is not
\* acknowledged.
THEOREM NoMessageDisappears == StageSpec => []NothingDisappears
<1>1. StageInv => NothingDisappears
  BY DEF StageInv, NothingDisappears, Somewhere, Msgs, ToSet, Range
<1>. QED
  BY <1>1, StageInvariance, PTL

\* The entries of a message are as many as the numbers of retries they can have.
THEOREM RoundsAreBounded == StageSpec => []RoundsBounded
<1>1. StageInv => RoundsBounded
  <2>. SUFFICES ASSUME StageInv, NEW m \in Msgs
                PROVE  Cardinality({i \in DOMAIN source : source[i].msg = m}) <= 1 + StageRetries
    BY DEF RoundsBounded, Msgs
  <2>. DEFINE Rounds == {i \in DOMAIN source : source[i].msg = m}
              f == [i \in Rounds |-> source[i].retries]
  <2>. PICK N : N = 0..StageRetries
    OBVIOUS
  <2>1. IsFiniteSet(N) /\ Cardinality(N) = StageRetries + 1
    BY StageAssumption, FS_Interval
  <2>2. \A i \in Rounds : source[i].retries \in N
    BY StageFacts DEF Entry
  <2>3. f \in Injection(Rounds, N)
    BY <2>2 DEF StageInv, Generations, Injection, IsInjective
  <2>4. Cardinality(Rounds) <= Cardinality(N)
    <3>. HIDE DEF Rounds, f
    <3>. QED
      BY <2>1, <2>3, FS_Injection
  <2>. QED
    BY <2>1, <2>4, StageAssumption
<1>. QED
  BY <1>1, StageInvariance, PTL

-----------------------------------------------------------------------------
(* scraper/task_queue.py *)

TaskEntry ==
    [key : TaskKeys, retries : Nat, cycle : Nat, state : {"new", "pending", "acked"}, heard : BOOLEAN]

TaskTyped ==
    /\ entries \in Seq(TaskEntry) /\ keyCycle \in Nat
    /\ adding \in [Callers -> SUBSET TaskKeys]
    /\ runs \in [TaskWorkers -> [task : Nat, at : {"read", "handle", "ack", "failed"}]]
    /\ \A w \in TaskWorkers : runs[w].at # "read" => runs[w].task \in DOMAIN entries
    /\ completed \in [TaskKeys -> Nat] /\ buried \in Seq(TaskKeys)

\* A worker acknowledges a task only when its handler has succeeded.
CompletedFirst ==
    \A w \in TaskWorkers : runs[w].at = "ack" => completed[entries[runs[w].task].key] > 0

\* The tasks of a key that a caller knows to have scheduled, not added again, in
\* cycle n, and the callers that have still to add one.
FirstOfCycle(k, n) ==
    {i \in DOMAIN entries :
        /\ entries[i].key = k /\ entries[i].cycle = n /\ entries[i].retries = 0
        /\ entries[i].heard}
Adders(k) == {c \in Callers : k \in adding[c]}

\* A cycle has a task of a key only when the key is remembered, and there is
\* one caller less for each of them.
CallersCounted ==
    /\ \A i \in DOMAIN entries : entries[i].cycle <= keyCycle
    /\ \A k \in TaskKeys : k \notin scheduled => FirstOfCycle(k, keyCycle) = {}
    /\ \A k \in TaskKeys :
         Cardinality(FirstOfCycle(k, keyCycle)) + Cardinality(Adders(k)) <= Cardinality(Callers)
    /\ \A k \in TaskKeys : \A n \in 0..keyCycle : Cardinality(FirstOfCycle(k, n)) <= Cardinality(Callers)

TaskInv == TaskTyped /\ CompletedFirst /\ TaskAccounted /\ CallersCounted

\* The stream with another state of one entry.
Marked(q, i, to) == [q EXCEPT ![i].state = to]

LEMMA MarkedTypes ==
  ASSUME NEW q \in Seq(TaskEntry), NEW i, NEW to, i \in 1..Len(q), to \in {"pending", "acked"}
  PROVE  /\ Marked(q, i, to) \in Seq(TaskEntry) /\ Len(Marked(q, i, to)) = Len(q)
         /\ DOMAIN Marked(q, i, to) = 1..Len(q)
         /\ \A j \in 1..Len(q) : /\ Marked(q, i, to)[j].key = q[j].key
                                 /\ Marked(q, i, to)[j].retries = q[j].retries
                                 /\ Marked(q, i, to)[j].cycle = q[j].cycle
                                 /\ Marked(q, i, to)[j].heard = q[j].heard
                                 /\ Marked(q, i, to)[j].state = IF j = i THEN to ELSE q[j].state
         /\ \A j \in 1..Len(q) : j # i => Marked(q, i, to)[j] = q[j]
<1>. PICK a : a = Marked(q, i, to)
  OBVIOUS
<1>1. Len(q) \in Nat /\ DOMAIN q = 1..Len(q) /\ \A j \in 1..Len(q) : q[j] \in TaskEntry
  BY LenProperties, ElementOfSeq
<1>2. a = [q EXCEPT ![i] = [q[i] EXCEPT !.state = to]]
  BY DEF Marked
<1>3. /\ [q[i] EXCEPT !.state = to] \in TaskEntry
      /\ [q[i] EXCEPT !.state = to].key = q[i].key /\ [q[i] EXCEPT !.state = to].retries = q[i].retries
      /\ [q[i] EXCEPT !.state = to].cycle = q[i].cycle
      /\ [q[i] EXCEPT !.state = to].heard = q[i].heard /\ [q[i] EXCEPT !.state = to].state = to
  BY <1>1 DEF TaskEntry
<1>4. DOMAIN a = 1..Len(q) /\ a[i] = [q[i] EXCEPT !.state = to] /\ \A j \in 1..Len(q) : j # i => a[j] = q[j]
  BY <1>1, <1>2
<1>5. \A j \in 1..Len(q) : a[j] \in TaskEntry
  BY <1>1, <1>3, <1>4
<1>6. a \in Seq(TaskEntry) /\ Len(a) = Len(q)
  <2>1. a = [j \in 1..Len(q) |-> a[j]]
    BY <1>1, <1>2
  <2>2. a \in [1..Len(q) -> TaskEntry]
    BY <1>5, <2>1
  <2>3. a \in Seq(TaskEntry)
    BY <1>1, <2>2, SeqDef
  <2>. QED
    BY <1>1, <1>4, <2>3, LenProperties
<1>7. \A j \in 1..Len(q) : /\ a[j].key = q[j].key /\ a[j].retries = q[j].retries /\ a[j].cycle = q[j].cycle
                           /\ a[j].heard = q[j].heard
                           /\ a[j].state = IF j = i THEN to ELSE q[j].state
  BY <1>3, <1>4
<1>. QED
  BY <1>4, <1>6, <1>7

LEMMA TaskInitInv == TaskInit => TaskInv
<1>. SUFFICES ASSUME TaskInit PROVE TaskInv
  OBVIOUS
<1>0. <<>> \in Seq(TaskEntry) /\ <<>> \in Seq(TaskKeys) /\ DOMAIN entries = {} /\ entries = <<>>
  BY EmptySeq DEF TaskInit
<1>1. TaskTyped
  BY <1>0 DEF TaskInit, TaskTyped, Waiting
<1>2. CompletedFirst /\ TaskAccounted
  BY <1>0 DEF TaskInit, CompletedFirst, TaskAccounted, Waiting
<1>3. CallersCounted
  <2>1. \A k, n : FirstOfCycle(k, n) = {}
    BY <1>0 DEF FirstOfCycle
  <2>2. \A k : Adders(k) = {}
    BY DEF Adders, TaskInit
  <2>3. Cardinality({}) = 0 /\ Cardinality(Callers) \in Nat
    BY FS_EmptySet, TaskQueueAssumption, FS_CardinalityType
  <2>4. \A k, n : Cardinality(FirstOfCycle(k, n)) = 0
    BY <2>1, <2>3
  <2>5. \A k : Cardinality(Adders(k)) = 0
    BY <2>2, <2>3
  <2>. QED
    BY <1>0, <2>1, <2>3, <2>4, <2>5 DEF CallersCounted
<1>. QED
  BY <1>1, <1>2, <1>3 DEF TaskInv

\* What the invariant says of the stream.
LEMMA TaskFacts ==
  ASSUME TaskInv
  PROVE  /\ Len(entries) \in Nat /\ DOMAIN entries = 1..Len(entries) /\ entries \in Seq(TaskEntry)
         /\ \A i \in 1..Len(entries) : entries[i] \in TaskEntry
         /\ \A k, n : IsFiniteSet(FirstOfCycle(k, n)) /\ Cardinality(FirstOfCycle(k, n)) \in Nat
         /\ \A k : IsFiniteSet(Adders(k)) /\ Cardinality(Adders(k)) \in Nat
         /\ Cardinality(Callers) \in Nat
<1>1. /\ Len(entries) \in Nat /\ DOMAIN entries = 1..Len(entries) /\ entries \in Seq(TaskEntry)
      /\ \A i \in 1..Len(entries) : entries[i] \in TaskEntry
  BY LenProperties, ElementOfSeq DEF TaskInv, TaskTyped
<1>. PICK D : D = 1..Len(entries)
  OBVIOUS
<1>2. IsFiniteSet(D)
  BY <1>1, FS_Interval
<1>3. \A k, n : FirstOfCycle(k, n) \subseteq D
  BY <1>1 DEF FirstOfCycle
<1>4. \A k : Adders(k) \subseteq Callers
  BY DEF Adders
<1>. QED
  BY <1>1, <1>2, <1>3, <1>4, TaskQueueAssumption, FS_Subset, FS_CardinalityType

\* A step that changes at most the states of entries, and forgets no caller that
\* is adding.
LEMMA CallersStay ==
  ASSUME TaskInv, DOMAIN entries' = DOMAIN entries, keyCycle' = keyCycle, scheduled' = scheduled, adding' = adding,
         \A i \in DOMAIN entries : /\ entries'[i].key = entries[i].key
                                   /\ entries'[i].retries = entries[i].retries /\ entries'[i].cycle = entries[i].cycle
                                   /\ entries'[i].heard = entries[i].heard
  PROVE  CallersCounted'
<1>1. \A k, n : FirstOfCycle(k, n)' = FirstOfCycle(k, n)
  BY DEF FirstOfCycle
<1>2. \A k : Adders(k)' = Adders(k)
  BY DEF Adders
<1>. QED
  BY <1>1, <1>2 DEF TaskInv, CallersCounted

LEMMA ScheduleInv == ASSUME TaskInv, NEW c \in Callers, Schedule(c) PROVE TaskInv'
<1>1. PICK k \in TaskKeys \ scheduled : adding' = [adding EXCEPT ![c] = {k}]
  BY DEF Schedule
<1>2. adding[c] = {} /\ UNCHANGED <<entries, scheduled, keyCycle, runs, completed, buried>>
  BY DEF Schedule
<1>3. TaskTyped'
  BY <1>1, <1>2 DEF TaskInv, TaskTyped
<1>4. CompletedFirst' /\ TaskAccounted'
  BY <1>2 DEF TaskInv, CompletedFirst, TaskAccounted
<1>5. \A l, n : FirstOfCycle(l, n)' = FirstOfCycle(l, n)
  BY <1>2 DEF FirstOfCycle
<1>6. \A l \in TaskKeys : l # k => Adders(l)' = Adders(l)
  BY <1>1, <1>2 DEF Adders, TaskInv, TaskTyped
<1>7. Cardinality(FirstOfCycle(k, keyCycle)) = 0
  BY <1>1, FS_EmptySet DEF TaskInv, CallersCounted
<1>8. Cardinality(Adders(k)') <= Cardinality(Callers) /\ Cardinality(Adders(k)') \in Nat
  <2>1. Adders(k)' \subseteq Callers
    BY DEF Adders
  <2>. QED
    BY <2>1, TaskQueueAssumption, FS_Subset, FS_CardinalityType
<1>9. ASSUME NEW l \in TaskKeys
      PROVE  Cardinality(FirstOfCycle(l, keyCycle)') + Cardinality(Adders(l)') <= Cardinality(Callers)
  <2>1. CASE l = k
    <3>1. FirstOfCycle(k, keyCycle)' = FirstOfCycle(k, keyCycle)
      BY <1>2, <1>5
    <3>. QED
      BY <1>7, <1>8, <2>1, <3>1
  <2>2. CASE l # k
    <3>1. FirstOfCycle(l, keyCycle)' = FirstOfCycle(l, keyCycle) /\ Adders(l)' = Adders(l)
      BY <1>2, <1>5, <1>6, <2>2
    <3>2. Cardinality(FirstOfCycle(l, keyCycle)) + Cardinality(Adders(l)) <= Cardinality(Callers)
      BY DEF TaskInv, CallersCounted
    <3>. QED
      BY <3>1, <3>2
  <2>. QED
    BY <2>1, <2>2
<1>10. CallersCounted'
  BY <1>2, <1>5, <1>9 DEF TaskInv, CallersCounted
<1>. QED
  BY <1>3, <1>4, <1>10 DEF TaskInv

\* A stream that has grown by one task of key k, of retries r.
LEMMA StreamGrows ==
  ASSUME TaskInv, NEW e \in TaskEntry, entries' = Append(entries, e)
  PROVE  /\ entries' \in Seq(TaskEntry) /\ Len(entries') = Len(entries) + 1
         /\ DOMAIN entries' = DOMAIN entries \cup {Len(entries) + 1} /\ Len(entries) + 1 \notin DOMAIN entries
         /\ entries'[Len(entries) + 1] = e /\ \A i \in DOMAIN entries : entries'[i] = entries[i]
<1>1. Len(entries) \in Nat /\ DOMAIN entries = 1..Len(entries) /\ entries \in Seq(TaskEntry)
  BY TaskFacts
<1>2. /\ Append(entries, e) \in Seq(TaskEntry) /\ Len(Append(entries, e)) = Len(entries) + 1
      /\ Append(entries, e)[Len(entries) + 1] = e
      /\ \A i \in 1..Len(entries) : Append(entries, e)[i] = entries[i]
  BY <1>1, AppendProperties
<1>3. DOMAIN Append(entries, e) = 1..(Len(entries) + 1)
  BY <1>2, LenProperties
<1>. QED
  BY <1>1, <1>2, <1>3

LEMMA AddTaskInv == ASSUME TaskInv, NEW c \in Callers, AddTask(c) PROVE TaskInv'
<1>1. PICK k \in adding[c] :
         \/ entries' = Append(entries, NewTask(k, TRUE)) /\ scheduled' = scheduled \cup {k}
         \/ entries' = Append(entries, NewTask(k, FALSE)) /\ scheduled' = scheduled
         \/ UNCHANGED <<entries, scheduled>>
  BY DEF AddTask, Remembered
<1>2. adding' = [adding EXCEPT ![c] = {}] /\ UNCHANGED <<keyCycle, runs, completed, buried>>
  BY DEF AddTask
<1>3. adding \in [Callers -> SUBSET TaskKeys] /\ k \in TaskKeys /\ keyCycle \in Nat
  BY <1>1 DEF TaskInv, TaskTyped
<1>4. /\ \A l : Adders(l)' = Adders(l) \ {c}
      /\ c \in Adders(k)
  BY <1>1, <1>2, <1>3 DEF Adders
<1>5. \A l : Cardinality(Adders(l)') \in Nat /\ Cardinality(Adders(l)') <= Cardinality(Adders(l))
  <2>. SUFFICES ASSUME NEW l PROVE Cardinality(Adders(l)') \in Nat /\ Cardinality(Adders(l)') <= Cardinality(Adders(l))
    OBVIOUS
  <2>1. IsFiniteSet(Adders(l)) /\ Adders(l)' \subseteq Adders(l)
    BY <1>4, TaskFacts
  <2>. QED
    BY <2>1, FS_Subset, FS_CardinalityType
<1>6. Cardinality(Adders(k)') = Cardinality(Adders(k)) - 1
  BY <1>4, TaskFacts, FS_RemoveElement
<1>7. CASE UNCHANGED <<entries, scheduled>>
  <2>1. TaskTyped'
    BY <1>2, <1>3, <1>7 DEF TaskInv, TaskTyped
  <2>2. CompletedFirst' /\ TaskAccounted'
    BY <1>2, <1>7 DEF TaskInv, CompletedFirst, TaskAccounted
  <2>3. \A l, n : FirstOfCycle(l, n)' = FirstOfCycle(l, n)
    BY <1>2, <1>7 DEF FirstOfCycle
  <2>4. ASSUME NEW l \in TaskKeys
        PROVE  Cardinality(FirstOfCycle(l, keyCycle)') + Cardinality(Adders(l)') <= Cardinality(Callers)
    <3>1. Cardinality(FirstOfCycle(l, keyCycle)) + Cardinality(Adders(l)) <= Cardinality(Callers)
      BY DEF TaskInv, CallersCounted
    <3>2. /\ Cardinality(FirstOfCycle(l, keyCycle)) \in Nat /\ Cardinality(Adders(l)) \in Nat
          /\ Cardinality(Callers) \in Nat /\ Cardinality(Adders(l)') \in Nat
          /\ Cardinality(Adders(l)') <= Cardinality(Adders(l))
      BY <1>5, TaskFacts
    <3>3. FirstOfCycle(l, keyCycle)' = FirstOfCycle(l, keyCycle)
      BY <1>2, <2>3
    <3>. QED
      BY <3>1, <3>2, <3>3
  <2>5. CallersCounted'
    BY <1>2, <1>7, <2>3, <2>4 DEF TaskInv, CallersCounted
  <2>. QED
    BY <2>1, <2>2, <2>5 DEF TaskInv
<1>8. ASSUME NEW known \in BOOLEAN, entries' = Append(entries, NewTask(k, known)),
             scheduled' = IF known THEN scheduled \cup {k} ELSE scheduled
      PROVE  TaskInv'
  <2>. PICK e : e = NewTask(k, known)
    OBVIOUS
  <2>. PICK last : last = Len(entries) + 1
    OBVIOUS
  <2>0. e \in TaskEntry /\ e.key = k /\ e.retries = 0 /\ e.cycle = keyCycle /\ e.state = "new" /\ e.heard = known
    BY <1>3 DEF TaskEntry, NewTask
  <2>1. /\ entries' \in Seq(TaskEntry)
        /\ DOMAIN entries' = DOMAIN entries \cup {last} /\ last \notin DOMAIN entries
        /\ entries'[last] = e /\ \A i \in DOMAIN entries : entries'[i] = entries[i]
    BY <1>8, <2>0, StreamGrows
  <2>2. TaskTyped'
    BY <1>2, <1>3, <2>1 DEF TaskInv, TaskTyped
  <2>3. CompletedFirst'
    BY <1>2, <2>1 DEF TaskInv, TaskTyped, CompletedFirst
  <2>4. TaskAccounted'
    <3>. SUFFICES ASSUME NEW i \in DOMAIN entries', entries'[i].state = "acked"
                  PROVE  \/ completed[entries'[i].key] > 0 \/ entries'[i].key \in ToSet(buried)
                         \/ \E j \in DOMAIN entries' : entries'[j].key = entries'[i].key /\ entries'[j].state # "acked"
      BY <1>2 DEF TaskAccounted, ToSet
    <3>1. i \in DOMAIN entries /\ entries[i].state = "acked" /\ entries[i].key = entries'[i].key
      BY <2>0, <2>1
    <3>. QED
      BY <2>1, <3>1 DEF TaskInv, TaskAccounted
  <2>5. \A l, n : (l # k \/ n # keyCycle) => FirstOfCycle(l, n)' = FirstOfCycle(l, n)
    BY <2>0, <2>1 DEF FirstOfCycle
  <2>6. /\ known => FirstOfCycle(k, keyCycle)' = FirstOfCycle(k, keyCycle) \cup {last}
        /\ ~known => FirstOfCycle(k, keyCycle)' = FirstOfCycle(k, keyCycle)
    BY <1>2, <2>0, <2>1 DEF FirstOfCycle
  <2>7. /\ Cardinality(FirstOfCycle(k, keyCycle)') \in Nat
        /\ Cardinality(FirstOfCycle(k, keyCycle)') <= Cardinality(FirstOfCycle(k, keyCycle)) + 1
    <3>1. last \notin FirstOfCycle(k, keyCycle)
      BY <2>1 DEF FirstOfCycle
    <3>2. CASE known
      <4>1. FirstOfCycle(k, keyCycle)' = FirstOfCycle(k, keyCycle) \cup {last}
        BY <2>6, <3>2
      <4>2. /\ IsFiniteSet(FirstOfCycle(k, keyCycle)) /\ Cardinality(FirstOfCycle(k, keyCycle)) \in Nat
        BY TaskFacts
      <4>3. Cardinality(FirstOfCycle(k, keyCycle) \cup {last}) = Cardinality(FirstOfCycle(k, keyCycle)) + 1
        BY <3>1, <4>2, FS_AddElement
      <4>. QED
        BY <4>1, <4>2, <4>3
    <3>3. CASE ~known
      BY <2>6, <3>3, TaskFacts
    <3>. QED
      BY <3>2, <3>3
  <2>8. ASSUME NEW l \in TaskKeys
        PROVE  /\ Cardinality(FirstOfCycle(l, keyCycle)') + Cardinality(Adders(l)') <= Cardinality(Callers)
               /\ Cardinality(FirstOfCycle(l, keyCycle)') <= Cardinality(Callers)
    <3>1. Cardinality(FirstOfCycle(l, keyCycle)) + Cardinality(Adders(l)) <= Cardinality(Callers)
      BY DEF TaskInv, CallersCounted
    <3>2. /\ Cardinality(FirstOfCycle(l, keyCycle)) \in Nat /\ Cardinality(Adders(l)) \in Nat
          /\ Cardinality(Callers) \in Nat /\ Cardinality(Adders(l)') \in Nat
          /\ Cardinality(Adders(l)') <= Cardinality(Adders(l))
      BY <1>5, TaskFacts
    <3>3. CASE l = k
      BY <1>6, <2>7, <3>1, <3>2, <3>3
    <3>4. CASE l # k
      <4>1. FirstOfCycle(l, keyCycle)' = FirstOfCycle(l, keyCycle)
        BY <1>2, <2>5, <3>4
      <4>. QED
        BY <3>1, <3>2, <4>1
    <3>. QED
      BY <3>3, <3>4
  <2>9. CallersCounted'
    <3>1. \A i \in DOMAIN entries' : entries'[i].cycle <= keyCycle
      <4>1. \A i \in DOMAIN entries : entries'[i].cycle <= keyCycle
        BY <2>1 DEF TaskInv, CallersCounted
      <4>. QED
        BY <1>3, <2>0, <2>1, <4>1
    <3>2. \A l \in TaskKeys : l \notin scheduled' => FirstOfCycle(l, keyCycle)' = {}
      BY <1>2, <1>8, <2>5, <2>6 DEF TaskInv, CallersCounted
    <3>3. \A l \in TaskKeys : \A n \in 0..keyCycle : Cardinality(FirstOfCycle(l, n)') <= Cardinality(Callers)
      <4>. SUFFICES ASSUME NEW l \in TaskKeys, NEW n \in 0..keyCycle
                    PROVE  Cardinality(FirstOfCycle(l, n)') <= Cardinality(Callers)
        OBVIOUS
      <4>1. CASE n = keyCycle
        BY <1>2, <2>8, <4>1 DEF FirstOfCycle
      <4>2. CASE n # keyCycle
        BY <2>5, <4>2 DEF TaskInv, CallersCounted
      <4>. QED
        BY <4>1, <4>2
    <3>. QED
      BY <1>2, <2>8, <3>1, <3>2, <3>3 DEF CallersCounted
  <2>. QED
    BY <2>2, <2>3, <2>4, <2>9 DEF TaskInv
<1>. QED
  BY <1>1, <1>7, <1>8, Zenon

LEMMA ResetCycleInv == TaskInv /\ ResetCycle => TaskInv'
<1>. SUFFICES ASSUME TaskInv, ResetCycle PROVE TaskInv'
  OBVIOUS
<1>1. scheduled' = {} /\ keyCycle' = keyCycle + 1 /\ UNCHANGED <<entries, adding, runs, completed, buried>>
  BY DEF ResetCycle
<1>2. keyCycle \in Nat
  BY DEF TaskInv, TaskTyped
<1>3. TaskTyped' /\ CompletedFirst' /\ TaskAccounted'
  BY <1>1, <1>2 DEF TaskInv, TaskTyped, CompletedFirst, TaskAccounted
<1>4. \A i \in DOMAIN entries : entries[i].cycle \in Nat /\ entries[i].cycle <= keyCycle
  BY TaskFacts DEF TaskInv, CallersCounted, TaskEntry
<1>5. \A k, n : FirstOfCycle(k, n)' = FirstOfCycle(k, n)
  BY <1>1 DEF FirstOfCycle
<1>6. \A k : Adders(k)' = Adders(k)
  BY <1>1 DEF Adders
<1>7. \A k : FirstOfCycle(k, keyCycle + 1) = {}
  BY <1>2, <1>4 DEF FirstOfCycle
<1>8. \A k : FirstOfCycle(k, keyCycle)' = {}
  BY <1>1, <1>5, <1>7
<1>9. ASSUME NEW k \in TaskKeys
      PROVE  /\ Cardinality(FirstOfCycle(k, keyCycle)') + Cardinality(Adders(k)') <= Cardinality(Callers)
             /\ \A n \in 0..keyCycle' : Cardinality(FirstOfCycle(k, n)') <= Cardinality(Callers)
  <2>1. Cardinality(Adders(k)) <= Cardinality(Callers) /\ Cardinality(Adders(k)) \in Nat
    BY TaskQueueAssumption, FS_Subset, FS_CardinalityType DEF Adders
  <2>2. Cardinality(FirstOfCycle(k, keyCycle)') = 0
    BY <1>8, FS_EmptySet
  <2>3. ASSUME NEW n \in 0..(keyCycle + 1)
        PROVE  Cardinality(FirstOfCycle(k, n)') <= Cardinality(Callers)
    <3>1. CASE n = keyCycle + 1
      BY <1>1, <2>1, <2>2, <3>1, TaskFacts
    <3>2. CASE n # keyCycle + 1
      <4>1. n \in 0..keyCycle
        BY <1>2, <3>2
      <4>. QED
        BY <1>5, <4>1 DEF TaskInv, CallersCounted
    <3>. QED
      BY <3>1, <3>2
  <2>. QED
    BY <1>1, <1>6, <2>1, <2>2, <2>3
<1>10. CallersCounted'
  BY <1>1, <1>2, <1>4, <1>8, <1>9 DEF CallersCounted
<1>. QED
  BY <1>3, <1>10 DEF TaskInv

\* A step of a worker that adds no task and accounts for what it acknowledges.
LEMMA WorkerStays ==
  ASSUME TaskInv, UNCHANGED <<scheduled, adding, keyCycle>>, entries' \in Seq(TaskEntry), DOMAIN entries' = DOMAIN entries,
         \A i \in DOMAIN entries : /\ entries'[i].key = entries[i].key
                                   /\ entries'[i].retries = entries[i].retries /\ entries'[i].cycle = entries[i].cycle
                                   /\ entries'[i].heard = entries[i].heard,
         \A i \in DOMAIN entries : entries[i].state # "acked" =>
            entries'[i].state # "acked" \/ completed'[entries[i].key] > 0 \/ entries[i].key \in ToSet(buried'),
         completed' \in [TaskKeys -> Nat], \A k \in TaskKeys : completed[k] > 0 => completed'[k] > 0,
         buried' \in Seq(TaskKeys), ToSet(buried) \subseteq ToSet(buried'),
         runs' \in [TaskWorkers -> [task : Nat, at : {"read", "handle", "ack", "failed"}]],
         \A w \in TaskWorkers : runs'[w].at # "read" => runs'[w].task \in DOMAIN entries,
         \A w \in TaskWorkers : runs'[w].at = "ack" => completed'[entries[runs'[w].task].key] > 0
  PROVE  TaskInv'
<1>0. \A i \in DOMAIN entries : entries[i].key \in TaskKeys
  BY TaskFacts DEF TaskEntry
<1>1. TaskTyped'
  BY DEF TaskInv, TaskTyped
<1>2. CompletedFirst'
  BY DEF CompletedFirst
<1>3. TaskAccounted'
  <2>1. ASSUME NEW i \in DOMAIN entries, entries'[i].state = "acked"
        PROVE  \/ completed'[entries[i].key] > 0 \/ entries[i].key \in ToSet(buried')
               \/ \E j \in DOMAIN entries : entries[j].key = entries[i].key /\ entries'[j].state # "acked"
    <3>1. CASE entries[i].state # "acked"
      BY <2>1, <3>1
    <3>2. CASE entries[i].state = "acked"
      BY <1>0, <2>1, <3>2 DEF TaskInv, TaskAccounted
    <3>. QED
      BY <3>1, <3>2
  <2>2. DOMAIN entries' = DOMAIN entries /\ \A i \in DOMAIN entries : entries'[i].key = entries[i].key
    OBVIOUS
  <2>3. ToSet(buried)' = ToSet(buried')
    BY ONLY DEF ToSet
  <2>. QED
    BY ONLY <2>1, <2>2, <2>3 DEF TaskAccounted
<1>4. CallersCounted'
  BY CallersStay
<1>. QED
  BY <1>1, <1>2, <1>3, <1>4 DEF TaskInv

LEMMA TakeTaskInv == ASSUME TaskInv, NEW w \in TaskWorkers, TakeTask(w) PROVE TaskInv'
<1>1. PICK i \in DOMAIN entries :
        /\ entries[i].state = "new" /\ entries' = [entries EXCEPT ![i].state = "pending"]
        /\ runs' = [runs EXCEPT ![w] = [task |-> i, at |-> "handle"]]
  BY DEF TakeTask
<1>2. UNCHANGED <<scheduled, adding, keyCycle, completed, buried>>
  BY DEF TakeTask
<1>3. /\ entries' \in Seq(TaskEntry) /\ DOMAIN entries' = DOMAIN entries
      /\ \A j \in DOMAIN entries :
            /\ entries'[j].key = entries[j].key
            /\ entries'[j].retries = entries[j].retries /\ entries'[j].cycle = entries[j].cycle
            /\ entries'[j].heard = entries[j].heard
      /\ \A j \in DOMAIN entries : entries'[j].state = IF j = i THEN "pending" ELSE entries[j].state
  <2>1. entries \in Seq(TaskEntry) /\ i \in 1..Len(entries) /\ DOMAIN entries = 1..Len(entries)
    BY TaskFacts
  <2>. PICK to \in {"pending", "acked"} : to = "pending"
    OBVIOUS
  <2>2. entries' = Marked(entries, i, to)
    BY <1>1 DEF Marked
  <2>3. /\ entries' \in Seq(TaskEntry) /\ DOMAIN entries' = 1..Len(entries)
        /\ \A j \in 1..Len(entries) :
              /\ entries'[j].key = entries[j].key /\ entries'[j].retries = entries[j].retries
              /\ entries'[j].cycle = entries[j].cycle /\ entries'[j].heard = entries[j].heard
              /\ entries'[j].state = IF j = i THEN to ELSE entries[j].state
    BY <2>1, <2>2, MarkedTypes
  <2>. QED
    BY <2>1, <2>3
<1>4. i \in Nat
  BY <1>1, TaskFacts
<1>5. runs \in [TaskWorkers -> [task : Nat, at : {"read", "handle", "ack", "failed"}]]
  BY DEF TaskInv, TaskTyped
<1>6. /\ runs' \in [TaskWorkers -> [task : Nat, at : {"read", "handle", "ack", "failed"}]]
      /\ runs'[w].task = i /\ runs'[w].at = "handle" /\ \A v \in TaskWorkers : v # w => runs'[v] = runs[v]
  BY <1>1, <1>4, <1>5
<1>7. \A v \in TaskWorkers : runs'[v].at # "read" => runs'[v].task \in DOMAIN entries
  BY <1>1, <1>6 DEF TaskInv, TaskTyped
<1>8. \A v \in TaskWorkers : runs'[v].at = "ack" => completed'[entries[runs'[v].task].key] > 0
  BY <1>2, <1>6 DEF TaskInv, CompletedFirst
<1>9. \A j \in DOMAIN entries : entries[j].state # "acked" => entries'[j].state # "acked"
  BY <1>3
<1>10. completed \in [TaskKeys -> Nat] /\ buried \in Seq(TaskKeys)
  BY DEF TaskInv, TaskTyped
<1>. QED
  BY <1>2, <1>3, <1>6, <1>7, <1>8, <1>9, <1>10, WorkerStays

\* The worker w goes to another step of its task, or back to reading.
LEMMA RunsMove ==
  ASSUME TaskInv, NEW w \in TaskWorkers, runs[w].at # "read", NEW to \in {"ack", "failed"},
         runs' = [runs EXCEPT ![w].at = to] \/ runs' = [runs EXCEPT ![w] = Waiting]
  PROVE  /\ runs' \in [TaskWorkers -> [task : Nat, at : {"read", "handle", "ack", "failed"}]]
         /\ \A v \in TaskWorkers : runs'[v].at # "read" => runs'[v].task \in DOMAIN entries
         /\ \A v \in TaskWorkers : runs'[v].at = "ack" =>
               completed[entries[runs'[v].task].key] > 0 \/ (v = w /\ to = "ack" /\ runs'[v].task = runs[w].task)
<1>1. /\ runs \in [TaskWorkers -> [task : Nat, at : {"read", "handle", "ack", "failed"}]]
      /\ \A v \in TaskWorkers : runs[v].at # "read" => runs[v].task \in DOMAIN entries
      /\ \A v \in TaskWorkers : runs[v].at = "ack" => completed[entries[runs[v].task].key] > 0
  BY DEF TaskInv, TaskTyped, CompletedFirst
<1>2. CASE runs' = [runs EXCEPT ![w].at = to]
  <2>1. /\ runs' \in [TaskWorkers -> [task : Nat, at : {"read", "handle", "ack", "failed"}]]
        /\ runs'[w].task = runs[w].task /\ runs'[w].at = to /\ \A v \in TaskWorkers : v # w => runs'[v] = runs[v]
    BY <1>1, <1>2
  <2>. QED
    BY <1>1, <2>1
<1>3. CASE runs' = [runs EXCEPT ![w] = Waiting]
  <2>1. /\ runs' \in [TaskWorkers -> [task : Nat, at : {"read", "handle", "ack", "failed"}]]
        /\ runs'[w].at = "read" /\ \A v \in TaskWorkers : v # w => runs'[v] = runs[v]
    BY <1>1, <1>3 DEF Waiting
  <2>. QED
    BY <1>1, <2>1
<1>. QED
  BY <1>2, <1>3

LEMMA RunTaskInv == ASSUME TaskInv, NEW w \in TaskWorkers, RunTask(w) PROVE TaskInv'
<1>. PICK k : k = entries[runs[w].task].key
  OBVIOUS
<1>1. /\ runs[w].at = "handle" /\ UNCHANGED <<entries, scheduled, adding, keyCycle, buried>>
      /\ \/ completed' = [completed EXCEPT ![k] = @ + 1] /\ runs' = [runs EXCEPT ![w].at = "ack"]
         \/ runs' = [runs EXCEPT ![w].at = "failed"] /\ UNCHANGED completed
  BY DEF RunTask
<1>2. /\ runs[w].task \in DOMAIN entries /\ completed \in [TaskKeys -> Nat] /\ buried \in Seq(TaskKeys)
      /\ entries \in Seq(TaskEntry)
  BY <1>1 DEF TaskInv, TaskTyped
<1>3. k \in TaskKeys
  BY <1>2, TaskFacts DEF TaskEntry
<1>4. /\ completed' \in [TaskKeys -> Nat]
      /\ completed' = [completed EXCEPT ![k] = @ + 1] => completed'[k] > 0
      /\ \A l \in TaskKeys : completed[l] > 0 => completed'[l] > 0
  <2>1. CASE completed' = completed
    <3>1. ~(completed' = [completed EXCEPT ![k] = @ + 1])
      <4>1. [completed EXCEPT ![k] = @ + 1][k] = completed[k] + 1 /\ completed[k] \in Nat
        BY <1>2, <1>3
      <4>. QED
        BY <2>1, <4>1
    <3>. QED
      BY <1>2, <2>1, <3>1
  <2>2. CASE completed' = [completed EXCEPT ![k] = @ + 1]
    <3>1. completed'[k] = completed[k] + 1 /\ \A l \in TaskKeys : l # k => completed'[l] = completed[l]
      BY <1>2, <1>3, <2>2
    <3>2. completed' \in [TaskKeys -> Nat] /\ completed[k] \in Nat
      BY <1>2, <1>3, <2>2
    <3>. QED
      BY <3>1, <3>2
  <2>. QED
    BY <1>1, <2>1, <2>2
<1>5. ASSUME NEW to \in {"ack", "failed"}, runs' = [runs EXCEPT ![w].at = to],
             to = "ack" => completed'[k] > 0
      PROVE  TaskInv'
  <2>1. /\ runs' \in [TaskWorkers -> [task : Nat, at : {"read", "handle", "ack", "failed"}]]
        /\ \A v \in TaskWorkers : runs'[v].at # "read" => runs'[v].task \in DOMAIN entries
        /\ \A v \in TaskWorkers : runs'[v].at = "ack" =>
              completed[entries[runs'[v].task].key] > 0 \/ (v = w /\ to = "ack" /\ runs'[v].task = runs[w].task)
    BY <1>1, <1>5, RunsMove
  <2>2. \A v \in TaskWorkers : runs'[v].at = "ack" => completed'[entries[runs'[v].task].key] > 0
    <3>1. \A i \in DOMAIN entries : entries[i].key \in TaskKeys
      BY TaskFacts DEF TaskEntry
    <3>. QED
      BY <1>4, <1>5, <2>1, <3>1
  <2>. QED
    BY <1>1, <1>2, <1>4, <2>1, <2>2, WorkerStays
<1>. QED
  BY <1>1, <1>4, <1>5

LEMMA AckedStream ==
  ASSUME entries \in Seq(TaskEntry), NEW i \in 1..Len(entries), entries' = AckTask(entries, i)
  PROVE  /\ entries' \in Seq(TaskEntry) /\ DOMAIN entries' = 1..Len(entries)
         /\ \A j \in 1..Len(entries) :
               /\ entries'[j].key = entries[j].key /\ entries'[j].retries = entries[j].retries
               /\ entries'[j].cycle = entries[j].cycle /\ entries'[j].heard = entries[j].heard
               /\ entries'[j].state = IF j = i THEN "acked" ELSE entries[j].state
<1>. PICK to \in {"pending", "acked"} : to = "acked"
  OBVIOUS
<1>1. entries' = Marked(entries, i, to)
  BY DEF Marked, AckTask
<1>. QED
  BY <1>1, MarkedTypes

\* A worker that goes to another step while the stream and the dead letters stay
\* as they are, or what it acknowledges is accounted for.
LEMMA AckMoves ==
  ASSUME TaskInv, NEW w \in TaskWorkers, runs[w].at # "read", UNCHANGED <<scheduled, adding, keyCycle, completed>>,
         runs' = [runs EXCEPT ![w].at = "failed"] \/ runs' = [runs EXCEPT ![w] = Waiting],
         buried' \in Seq(TaskKeys), ToSet(buried) \subseteq ToSet(buried'),
         \/ entries' = entries
         \/ /\ entries' = AckTask(entries, runs[w].task)
            /\ \/ completed[entries[runs[w].task].key] > 0
               \/ entries[runs[w].task].key \in ToSet(buried')
  PROVE  TaskInv'
<1>. PICK i : i = runs[w].task
  OBVIOUS
<1>1. i \in DOMAIN entries /\ completed \in [TaskKeys -> Nat] /\ entries \in Seq(TaskEntry)
  BY DEF TaskInv, TaskTyped
<1>2. /\ runs' \in [TaskWorkers -> [task : Nat, at : {"read", "handle", "ack", "failed"}]]
      /\ \A v \in TaskWorkers : runs'[v].at # "read" => runs'[v].task \in DOMAIN entries
      /\ \A v \in TaskWorkers : runs'[v].at = "ack" => completed[entries[runs'[v].task].key] > 0
  <2>. PICK to \in {"ack", "failed"} : to = "failed"
    OBVIOUS
  <2>1. runs' = [runs EXCEPT ![w].at = to] \/ runs' = [runs EXCEPT ![w] = Waiting]
    OBVIOUS
  <2>. QED
    BY <2>1, RunsMove
<1>3. CASE entries' = entries
  BY <1>1, <1>2, <1>3, WorkerStays
<1>4. CASE entries' = AckTask(entries, i) /\ (completed[entries[i].key] > 0 \/ entries[i].key \in ToSet(buried'))
  <2>1. i \in 1..Len(entries) /\ DOMAIN entries = 1..Len(entries)
    BY <1>1, TaskFacts
  <2>2. /\ entries' \in Seq(TaskEntry) /\ DOMAIN entries' = 1..Len(entries)
        /\ \A j \in 1..Len(entries) :
              /\ entries'[j].key = entries[j].key /\ entries'[j].retries = entries[j].retries
              /\ entries'[j].cycle = entries[j].cycle /\ entries'[j].heard = entries[j].heard
              /\ entries'[j].state = IF j = i THEN "acked" ELSE entries[j].state
    BY <1>1, <1>4, <2>1, AckedStream
  <2>3. \A j \in DOMAIN entries : entries[j].state # "acked" =>
          entries'[j].state # "acked" \/ completed'[entries[j].key] > 0 \/ entries[j].key \in ToSet(buried')
    BY <1>4, <2>1, <2>2
  <2>. QED
    BY <1>1, <1>2, <2>1, <2>2, <2>3, WorkerStays
<1>. QED
  BY <1>3, <1>4

LEMMA AckCompletedInv == ASSUME TaskInv, NEW w \in TaskWorkers, AckCompleted(w) PROVE TaskInv'
<1>1. /\ runs[w].at = "ack" /\ UNCHANGED <<scheduled, adding, keyCycle, completed, buried>>
      /\ runs' = [runs EXCEPT ![w].at = "failed"] \/ runs' = [runs EXCEPT ![w] = Waiting]
      /\ entries' = entries \/ entries' = AckTask(entries, runs[w].task)
  BY DEF AckCompleted
<1>2. completed[entries[runs[w].task].key] > 0 /\ buried \in Seq(TaskKeys)
  BY <1>1 DEF TaskInv, TaskTyped, CompletedFirst
<1>. QED
  BY <1>1, <1>2, AckMoves

LEMMA WorkerDiesInv == ASSUME TaskInv, NEW w \in TaskWorkers, WorkerDies(w) PROVE TaskInv'
<1>1. /\ runs[w].at # "read" /\ UNCHANGED <<entries, scheduled, adding, keyCycle, completed, buried>>
      /\ runs' = [runs EXCEPT ![w] = Waiting]
  BY DEF WorkerDies
<1>2. buried \in Seq(TaskKeys)
  BY DEF TaskInv, TaskTyped
<1>. QED
  BY <1>1, <1>2, AckMoves

\* The stream after a task is added again, acknowledged or not.
LEMMA AddedTask ==
  ASSUME NEW q \in Seq(TaskEntry), NEW e \in TaskEntry, NEW i \in 1..Len(q), NEW next,
         next = Append(q, e) \/ next = AckTask(Append(q, e), i)
  PROVE  /\ next \in Seq(TaskEntry) /\ Len(next) = Len(q) + 1 /\ DOMAIN next = 1..(Len(q) + 1)
         /\ next[Len(q) + 1] = e
         /\ \A j \in 1..Len(q) :
               /\ next[j].key = q[j].key /\ next[j].retries = q[j].retries /\ next[j].cycle = q[j].cycle
               /\ next[j].heard = q[j].heard
               /\ next[j].state = q[j].state \/ (j = i /\ next[j].state = "acked")
<1>0. Len(q) \in Nat /\ Len(q) + 1 \notin 1..Len(q)
  BY LenProperties
<1>. DEFINE p == Append(q, e)
<1>1. /\ p \in Seq(TaskEntry) /\ Len(p) = Len(q) + 1 /\ DOMAIN p = 1..(Len(q) + 1)
      /\ p[Len(q) + 1] = e /\ \A j \in 1..Len(q) : p[j] = q[j]
  BY AppendProperties, LenProperties
<1>2. next = p \/ next = AckTask(p, i)
  OBVIOUS
<1>. HIDE DEF p
<1>3. CASE next = p
  BY <1>1, <1>3
<1>4. CASE next = AckTask(p, i)
  <2>1. i \in 1..Len(p) /\ Len(q) + 1 \in 1..Len(p) /\ Len(q) + 1 # i
    BY <1>0, <1>1
  <2>. PICK to \in {"pending", "acked"} : to = "acked"
    OBVIOUS
  <2>2. /\ Marked(p, i, to) \in Seq(TaskEntry) /\ Len(Marked(p, i, to)) = Len(p)
        /\ DOMAIN Marked(p, i, to) = 1..Len(p)
        /\ \A j \in 1..Len(p) : /\ Marked(p, i, to)[j].key = p[j].key
                                /\ Marked(p, i, to)[j].retries = p[j].retries
                                /\ Marked(p, i, to)[j].cycle = p[j].cycle
                                /\ Marked(p, i, to)[j].heard = p[j].heard
                                /\ Marked(p, i, to)[j].state = IF j = i THEN to ELSE p[j].state
        /\ \A j \in 1..Len(p) : j # i => Marked(p, i, to)[j] = p[j]
    BY <1>1, <2>1, MarkedTypes
  <2>3. next = Marked(p, i, to)
    BY <1>4 DEF Marked, AckTask
  <2>4. \A j \in 1..Len(q) : j \in 1..Len(p) /\ p[j] = q[j]
    BY <1>0, <1>1
  <2>5. next[Len(q) + 1] = e
    BY <1>1, <2>1, <2>2, <2>3
  <2>. QED
    BY <1>1, <2>2, <2>3, <2>4, <2>5
<1>. QED
  BY <1>2, <1>3, <1>4

LEMMA AddedAgain ==
  ASSUME TaskInv, NEW w \in TaskWorkers, runs[w].at # "read", NEW e,
         e = [entries[runs[w].task] EXCEPT !.retries = @ + 1, !.state = "new"],
         entries' = Append(entries, e) \/ entries' = AckTask(Append(entries, e), runs[w].task),
         runs' = [runs EXCEPT ![w] = Waiting], UNCHANGED <<scheduled, adding, keyCycle, completed, buried>>
  PROVE  TaskInv'
<1>. PICK i : i = runs[w].task
  OBVIOUS
<1>. PICK last : last = Len(entries) + 1
  OBVIOUS
<1>0. /\ i \in 1..Len(entries) /\ entries[i] \in TaskEntry /\ DOMAIN entries = 1..Len(entries) /\ Len(entries) \in Nat
      /\ entries \in Seq(TaskEntry)
  BY TaskFacts DEF TaskInv, TaskTyped
<1>1. /\ e \in TaskEntry /\ e.key = entries[i].key /\ e.cycle = entries[i].cycle
      /\ e.heard = entries[i].heard /\ e.state = "new"
      /\ e.retries # 0
  <2>a. entries[i].retries \in Nat
    BY <1>0 DEF TaskEntry
  <2>b. \A n \in Nat : n + 1 \in Nat /\ n + 1 # 0
    OBVIOUS
  <2>1. PICK r \in Nat : r # 0 /\ r = entries[i].retries + 1
    BY ONLY <2>a, <2>b
  <2>2. e = [entries[i] EXCEPT !.retries = r, !.state = "new"]
    BY <2>1
  <2>3. entries[i] \in [key : TaskKeys, retries : Nat, cycle : Nat, state : {"new", "pending", "acked"},
                        heard : BOOLEAN]
    BY <1>0 DEF TaskEntry
  <2>. QED
    BY <2>1, <2>2, <2>3 DEF TaskEntry
<1>2. /\ entries' \in Seq(TaskEntry) /\ DOMAIN entries' = DOMAIN entries \cup {last} /\ last \notin DOMAIN entries
      /\ entries'[last] = e
      /\ \A j \in DOMAIN entries :
            /\ entries'[j].key = entries[j].key /\ entries'[j].retries = entries[j].retries
            /\ entries'[j].cycle = entries[j].cycle /\ entries'[j].heard = entries[j].heard
            /\ entries'[j].state = entries[j].state \/ (j = i /\ entries'[j].state = "acked")
  <2>1. PICK d \in TaskEntry : d = e
    BY <1>1
  <2>2. entries' = Append(entries, d) \/ entries' = AckTask(Append(entries, d), i)
    BY <2>1
  <2>3. /\ entries' \in Seq(TaskEntry) /\ Len(entries') = Len(entries) + 1 /\ DOMAIN entries' = 1..(Len(entries) + 1)
        /\ entries'[Len(entries) + 1] = d
        /\ \A j \in 1..Len(entries) :
              /\ entries'[j].key = entries[j].key /\ entries'[j].retries = entries[j].retries
              /\ entries'[j].cycle = entries[j].cycle /\ entries'[j].heard = entries[j].heard
              /\ entries'[j].state = entries[j].state \/ (j = i /\ entries'[j].state = "acked")
    BY <1>0, <2>1, <2>2, AddedTask
  <2>. QED
    BY <1>0, <2>1, <2>3
<1>8. /\ entries'[last].key = entries[i].key /\ entries'[last].cycle = entries[i].cycle
      /\ entries'[last].heard = entries[i].heard
      /\ entries'[last].state = "new" /\ entries'[last].retries # 0
  BY <1>1, <1>2
<1>3. /\ runs \in [TaskWorkers -> [task : Nat, at : {"read", "handle", "ack", "failed"}]]
      /\ runs' \in [TaskWorkers -> [task : Nat, at : {"read", "handle", "ack", "failed"}]]
      /\ runs'[w].at = "read" /\ \A v \in TaskWorkers : v # w => runs'[v] = runs[v]
  BY DEF TaskInv, TaskTyped, Waiting
<1>4. TaskTyped'
  BY <1>2, <1>3 DEF TaskInv, TaskTyped
<1>5. CompletedFirst'
  <2>. SUFFICES ASSUME NEW v \in TaskWorkers, runs'[v].at = "ack"
                PROVE  completed'[entries'[runs'[v].task].key] > 0
    BY DEF CompletedFirst
  <2>1. v # w /\ runs'[v] = runs[v]
    BY <1>3
  <2>. PICK j : j = runs[v].task
    OBVIOUS
  <2>2. j \in DOMAIN entries /\ completed[entries[j].key] > 0
    BY <2>1 DEF TaskInv, TaskTyped, CompletedFirst
  <2>3. entries'[j].key = entries[j].key
    BY <1>2, <2>2
  <2>. QED
    BY <2>1, <2>2, <2>3
<1>6. TaskAccounted'
  <2>. SUFFICES ASSUME NEW j \in DOMAIN entries', entries'[j].state = "acked"
                PROVE  \/ completed[entries'[j].key] > 0 \/ entries'[j].key \in ToSet(buried)
                       \/ \E k \in DOMAIN entries' : entries'[k].key = entries'[j].key /\ entries'[k].state # "acked"
    BY DEF TaskAccounted, ToSet
  <2>1. j \in DOMAIN entries /\ entries'[j].key = entries[j].key
    BY <1>1, <1>2
  <2>2. CASE entries[j].key = entries[i].key
    BY <1>2, <1>8, <2>1, <2>2
  <2>3. CASE entries[j].key # entries[i].key
    <3>1. entries[j].state = "acked"
      BY <1>2, <2>1, <2>3
    <3>2. \/ completed[entries[j].key] > 0 \/ entries[j].key \in ToSet(buried)
          \/ \E k \in DOMAIN entries : entries[k].key = entries[j].key /\ entries[k].state # "acked"
      BY <2>1, <3>1 DEF TaskInv, TaskAccounted
    <3>3. ASSUME NEW k \in DOMAIN entries, entries[k].key = entries[j].key, entries[k].state # "acked"
          PROVE  k \in DOMAIN entries' /\ entries'[k].key = entries'[j].key /\ entries'[k].state # "acked"
      BY <1>2, <2>1, <2>3, <3>3
    <3>. QED
      BY <2>1, <3>2, <3>3
  <2>. QED
    BY <2>2, <2>3
<1>7. CallersCounted'
  <2>1. \A k, n : FirstOfCycle(k, n)' = FirstOfCycle(k, n)
    <3>. SUFFICES ASSUME NEW k, NEW n PROVE FirstOfCycle(k, n)' = FirstOfCycle(k, n)
      OBVIOUS
    <3>1. \A j \in DOMAIN entries : (j \in FirstOfCycle(k, n)') <=> j \in FirstOfCycle(k, n)
      BY <1>2 DEF FirstOfCycle
    <3>2. last \notin FirstOfCycle(k, n)' /\ last \notin FirstOfCycle(k, n)
      BY <1>2, <1>8 DEF FirstOfCycle
    <3>3. FirstOfCycle(k, n) \subseteq DOMAIN entries /\ FirstOfCycle(k, n)' \subseteq DOMAIN entries \cup {last}
      BY <1>2 DEF FirstOfCycle
    <3>. QED
      BY <3>1, <3>2, <3>3
  <2>2. \A k : Adders(k)' = Adders(k)
    BY DEF Adders
  <2>3. \A j \in DOMAIN entries' : entries'[j].cycle <= keyCycle
    <3>1. \A j \in DOMAIN entries : entries'[j].cycle <= keyCycle
      BY <1>2 DEF TaskInv, CallersCounted
    <3>2. entries'[last].cycle <= keyCycle
      BY <1>0, <1>8 DEF TaskInv, CallersCounted
    <3>. QED
      BY <1>2, <3>1, <3>2
  <2>. QED
    BY <2>1, <2>2, <2>3 DEF TaskInv, CallersCounted
<1>. QED
  BY <1>4, <1>5, <1>6, <1>7 DEF TaskInv

LEMMA SettleFailedInv == ASSUME TaskInv, NEW w \in TaskWorkers, SettleFailed(w) PROVE TaskInv'
<1>. PICK i : i = runs[w].task
  OBVIOUS
<1>. PICK e : e = [entries[i] EXCEPT !.retries = @ + 1, !.state = "new"]
  OBVIOUS
<1>1. /\ runs[w].at = "failed" /\ runs' = [runs EXCEPT ![w] = Waiting]
      /\ UNCHANGED <<scheduled, adding, keyCycle, completed>>
  BY DEF SettleFailed
<1>2. entries[i].key \in TaskKeys /\ buried \in Seq(TaskKeys)
  <2>1. i \in 1..Len(entries) /\ entries[i] \in TaskEntry
    BY <1>1, TaskFacts DEF TaskInv, TaskTyped
  <2>. QED
    BY <2>1 DEF TaskEntry, TaskInv, TaskTyped
<1>3. /\ Append(buried, entries[i].key) \in Seq(TaskKeys)
      /\ ToSet(Append(buried, entries[i].key)) = ToSet(buried) \cup {entries[i].key}
  BY <1>2, RangeOfAppend, AppendProperties DEF ToSet, Range
<1>4. \/ /\ UNCHANGED buried
         /\ \/ entries' = AckTask(Append(entries, e), i) \/ entries' = Append(entries, e)
            \/ entries' = entries
      \/ /\ entries' = AckTask(entries, i) /\ buried' = Append(buried, entries[i].key)
      \/ /\ entries' = entries /\ (buried' = Append(buried, entries[i].key) \/ UNCHANGED buried)
  BY DEF SettleFailed, Buried
<1>5. CASE UNCHANGED buried /\ (entries' = AckTask(Append(entries, e), i) \/ entries' = Append(entries, e))
  BY <1>1, <1>5, AddedAgain
<1>6. CASE entries' = AckTask(entries, i) /\ buried' = Append(buried, entries[i].key)
  BY <1>1, <1>3, <1>6, AckMoves
<1>7. CASE entries' = entries /\ (buried' = Append(buried, entries[i].key) \/ UNCHANGED buried)
  BY <1>1, <1>2, <1>3, <1>7, AckMoves
<1>. QED
  BY <1>4, <1>5, <1>6, <1>7

LEMMA TaskNextInv == TaskInv /\ [TaskNext]_taskVars => TaskInv'
<1>1. ASSUME TaskInv, UNCHANGED taskVars PROVE TaskInv'
  <2>1. UNCHANGED <<entries, scheduled, adding, keyCycle, runs, completed, buried>>
    BY <1>1 DEF taskVars
  <2>2. TaskTyped' /\ CompletedFirst' /\ TaskAccounted'
    BY <1>1, <2>1 DEF TaskInv, TaskTyped, CompletedFirst, TaskAccounted
  <2>3. CallersCounted'
    BY <1>1, <2>1, CallersStay
  <2>. QED
    BY <2>2, <2>3 DEF TaskInv
<1>. QED
  BY <1>1, ScheduleInv, AddTaskInv, ResetCycleInv, TakeTaskInv, RunTaskInv, AckCompletedInv, SettleFailedInv,
     WorkerDiesInv DEF TaskNext

THEOREM TaskInvariance == TaskSpec => []TaskInv
  BY TaskInitInv, TaskNextInv, PTL DEF TaskSpec

\* Whatever workers fail or die, a task that the stream has acknowledged was
\* completed, buried, or added again.
THEOREM TasksAreAccountedFor == TaskSpec => []TaskAccounted
<1>1. TaskInv => TaskAccounted
  BY DEF TaskInv
<1>. QED
  BY <1>1, TaskInvariance, PTL

\* However many cycles there are, one of them adds no more tasks of a key than
\* there are callers at once.
THEOREM DuplicatesPerCycleBounded == TaskSpec => []DuplicatesPerCycle
<1>1. TaskInv => DuplicatesPerCycle
  BY DEF TaskInv, CallersCounted, DuplicatesPerCycle, FirstOfCycle
<1>. QED
  BY <1>1, TaskInvariance, PTL

\* Whatever the two do, side by side or one after the other, what their streams
\* have acknowledged is accounted for and what they add again is bounded
\* (QueuesSound, of both).
THEOREM QueuesAreSound == StageSpec /\ TaskSpec => []QueuesSound
<1>1. NothingDisappears /\ RoundsBounded /\ TaskAccounted /\ DuplicatesPerCycle => QueuesSound
  BY DEF QueuesSound
<1>. QED
  BY <1>1, NoMessageDisappears, RoundsAreBounded, TasksAreAccountedFor, DuplicatesPerCycleBounded, PTL

-----------------------------------------------------------------------------
(* scraper/main.py: the process that scrapes, its dedup filter and its WAL *)

\* A listing more than once in what is added counts as often; what is not in it
\* stays as it is.
LEMMA AddedTypes ==
  ASSUME NEW q \in [Listings -> Nat], NEW ls \in Seq(Listings)
  PROVE  /\ Added(q, ls) \in [Listings -> Nat]
         /\ \A l \in Listings : q[l] <= Added(q, ls)[l]
         /\ \A l \in ToSet(ls) : Added(q, ls)[l] > 0
         /\ \A l \in Listings \ ToSet(ls) : Added(q, ls)[l] = q[l]
         /\ IsInjective(ls) => \A l \in Listings : Added(q, ls)[l] <= q[l] + 1
<1>. DEFINE At(l) == {i \in DOMAIN ls : ls[i] = l}
<1>0. Len(ls) \in Nat /\ DOMAIN ls = 1..Len(ls) /\ IsFiniteSet(1..Len(ls)) /\ \A i \in DOMAIN ls : ls[i] \in Listings
  BY LenProperties, ElementOfSeq, FS_Interval
<1>1. ASSUME NEW l \in Listings
      PROVE  /\ IsFiniteSet(At(l)) /\ Cardinality(At(l)) \in Nat
             /\ l \in ToSet(ls) => Cardinality(At(l)) # 0
             /\ l \notin ToSet(ls) => Cardinality(At(l)) = 0
             /\ IsInjective(ls) => Cardinality(At(l)) <= 1
  <2>1. At(l) \subseteq 1..Len(ls)
    BY <1>0
  <2>2. IsFiniteSet(At(l)) /\ Cardinality(At(l)) \in Nat
    BY <1>0, <2>1, FS_Subset, FS_CardinalityType
  <2>3. l \in ToSet(ls) <=> At(l) # {}
    BY DEF ToSet
  <2>4. Cardinality(At(l)) = 0 <=> At(l) = {}
    BY <2>2, FS_EmptySet
  <2>5. ASSUME IsInjective(ls) PROVE Cardinality(At(l)) <= 1
    <3>1. CASE At(l) = {}
      <4>. HIDE DEF At
      <4>. QED
        BY <2>4, <3>1
    <3>2. CASE At(l) # {}
      <4>1. PICK i \in DOMAIN ls : ls[i] = l
        BY <3>2
      <4>2. At(l) = {i}
        BY <2>5, <4>1 DEF IsInjective
      <4>3. Cardinality({i}) = 1
        BY FS_Singleton
      <4>. HIDE DEF At
      <4>. QED
        BY <4>2, <4>3
    <3>. QED
      BY <3>1, <3>2
  <2>. QED
    BY <2>2, <2>3, <2>4, <2>5
<1>2. \A l \in Listings : Added(q, ls)[l] = q[l] + Cardinality(At(l))
  BY DEF Added
<1>3. Added(q, ls) = [l \in Listings |-> q[l] + Cardinality(At(l))]
  BY DEF Added
<1>4. \A l \in Listings : q[l] \in Nat /\ Cardinality(At(l)) \in Nat
  BY <1>1
<1>5. \A l \in ToSet(ls) : l \in Listings
  BY <1>0 DEF ToSet
<1>. HIDE DEF At
<1>6. Added(q, ls) \in [Listings -> Nat]
  BY <1>3, <1>4
<1>. QED
  BY <1>1, <1>2, <1>4, <1>5, <1>6

\* A batch is a chunk and what comes after it.
LEMMA ChunkTypes ==
  ASSUME NEW S, NEW b \in Seq(S), b # <<>>
  PROVE  /\ Chunk(b) \in Seq(S) /\ After(b) \in Seq(S) /\ Chunk(b) # <<>>
         /\ ToSet(b) = ToSet(Chunk(b)) \cup ToSet(After(b))
         /\ IsInjective(b) => /\ IsInjective(Chunk(b)) /\ IsInjective(After(b))
                              /\ ToSet(Chunk(b)) \cap ToSet(After(b)) = {}
<1>0. Len(b) \in Nat /\ DOMAIN b = 1..Len(b) /\ \A i \in 1..Len(b) : b[i] \in S
  BY LenProperties, ElementOfSeq
<1>1. Len(b) > 0
  BY EmptySeq
<1>. DEFINE n == IF Len(b) < ChunkSize THEN Len(b) ELSE ChunkSize
<1>2. n \in 1..Len(b)
  BY <1>0, <1>1, LegacyAssumption
<1>. PICK k \in 1..Len(b) : k = n
  BY <1>2
<1>. PICK c : c = Chunk(b)
  OBVIOUS
<1>. PICK a : a = After(b)
  OBVIOUS
<1>3. c = SubSeq(b, 1, k)
  BY DEF Chunk
<1>. HIDE DEF n
<1>4. c \in Seq(S) /\ Len(c) = k /\ \A i \in 1..k : c[i] = b[i]
  BY <1>0, <1>3, SubSeqProperties
<1>5. a = SubSeq(b, k + 1, Len(b))
  BY <1>4 DEF After
<1>6. a \in Seq(S) /\ Len(a) = Len(b) - k /\ \A i \in 1..(Len(b) - k) : a[i] = b[k + i]
  <2>1. /\ SubSeq(b, k + 1, Len(b)) \in Seq(S)
        /\ Len(SubSeq(b, k + 1, Len(b))) = IF k + 1 <= Len(b) THEN Len(b) - (k + 1) + 1 ELSE 0
        /\ \A i \in 1..(Len(b) - (k + 1) + 1) : SubSeq(b, k + 1, Len(b))[i] = b[k + 1 + i - 1]
    BY <1>0, SubSeqProperties
  <2>2. Len(a) = Len(b) - k /\ a \in Seq(S)
    <3>. PICK m \in Nat : m = Len(b)
      BY <1>0
    <3>1. Len(a) = IF k + 1 <= m THEN m - (k + 1) + 1 ELSE 0
      BY <1>5, <2>1
    <3>2. Len(a) = m - k
      BY <3>1
    <3>. QED
      BY <1>5, <2>1, <3>2
  <2>3. ASSUME NEW i \in 1..(Len(b) - k) PROVE a[i] = b[k + i]
    <3>1. i \in 1..(Len(b) - (k + 1) + 1) /\ k + 1 + i - 1 = k + i
      BY <1>0
    <3>2. a[i] = b[k + 1 + i - 1]
      BY <1>5, <2>1, <3>1
    <3>. QED
      BY <3>1, <3>2
  <2>. QED
    BY <2>2, <2>3
<1>7. DOMAIN c = 1..k /\ DOMAIN a = 1..(Len(b) - k)
  BY <1>4, <1>6, LenProperties
<1>8. c # <<>>
  BY <1>4, <1>7
<1>9. \A z : z \in ToSet(c) => z \in ToSet(b)
  BY <1>0, <1>4, <1>7 DEF ToSet
<1>10. \A z : z \in ToSet(a) => z \in ToSet(b)
  <2>1. ASSUME NEW i \in 1..(Len(b) - k) PROVE a[i] \in ToSet(b)
    <3>1. a[i] = b[k + i] /\ k + i \in 1..Len(b)
      BY <1>0, <1>6
    <3>. QED
      BY <1>0, <3>1 DEF ToSet
  <2>. QED
    BY <1>7, <2>1 DEF ToSet
<1>11. ASSUME NEW i \in 1..Len(b) PROVE b[i] \in ToSet(c) \/ b[i] \in ToSet(a)
  <2>1. CASE i <= k
    <3>1. i \in DOMAIN c /\ c[i] = b[i]
      BY <1>0, <1>4, <1>7, <2>1
    <3>. QED
      BY <3>1 DEF ToSet
  <2>2. CASE i > k
    <3>1. i - k \in DOMAIN a /\ a[i - k] = b[i]
      BY <1>0, <1>6, <1>7, <2>2
    <3>. QED
      BY <3>1 DEF ToSet
  <2>. QED
    BY <1>0, <2>1, <2>2
<1>12. ToSet(b) = ToSet(c) \cup ToSet(a)
  BY <1>0, <1>9, <1>10, <1>11 DEF ToSet
<1>13. ASSUME IsInjective(b)
       PROVE  IsInjective(c) /\ IsInjective(a) /\ ToSet(c) \cap ToSet(a) = {}
  <2>1. IsInjective(c)
    BY <1>0, <1>4, <1>7, <1>13 DEF IsInjective
  <2>2. IsInjective(a)
    <3>1. SUFFICES ASSUME NEW i \in 1..(Len(b) - k), NEW j \in 1..(Len(b) - k), a[i] = a[j] PROVE i = j
      BY <1>7 DEF IsInjective
    <3>2. k + i \in DOMAIN b /\ k + j \in DOMAIN b /\ b[k + i] = b[k + j]
      BY <1>0, <1>6, <3>1
    <3>3. k + i = k + j
      BY <1>13, <3>2 DEF IsInjective
    <3>. QED
      BY <1>0, <3>3
  <2>3. ASSUME NEW i \in 1..k, NEW j \in 1..(Len(b) - k), c[i] = a[j] PROVE FALSE
    <3>1. i \in DOMAIN b /\ k + j \in DOMAIN b /\ b[i] = b[k + j] /\ i # k + j
      BY <1>0, <1>4, <1>6, <2>3
    <3>. QED
      BY <1>13, <3>1 DEF IsInjective
  <2>. QED
    BY <1>7, <2>1, <2>2, <2>3 DEF ToSet
<1>. QED
  BY <1>4, <1>6, <1>8, <1>12, <1>13

\* The first sights are new, and each of them comes once.
LEMMA FirstSightsTypes ==
  ASSUME NEW ls \in Seq(Listings), NEW known
  PROVE  /\ FirstSights(ls, known) \in Seq(Listings) /\ IsInjective(FirstSights(ls, known))
         /\ ToSet(FirstSights(ls, known)) \subseteq ToSet(ls) \ known
         /\ ls # <<>> /\ known = {} => FirstSights(ls, known) # <<>>
         /\ ls = <<>> => FirstSights(ls, known) = <<>>
<1>0. Len(ls) \in Nat /\ DOMAIN ls = 1..Len(ls) /\ \A i \in 1..Len(ls) : ls[i] \in Listings
  BY LenProperties, ElementOfSeq
<1>. DEFINE all == [i \in DOMAIN ls |-> i]
            T == {i \in DOMAIN ls : ls[i] \in known \/ \E j \in 1..(i - 1) : ls[j] = ls[i]}
            places == Without(all, T)
<1>1. all \in Seq(1..Len(ls)) /\ IsInjective(all) /\ Range(all) = 1..Len(ls)
  <2>1. all \in [1..Len(ls) -> 1..Len(ls)]
    BY <1>0
  <2>2. all \in Seq(1..Len(ls))
    BY <1>0, <2>1, SeqDef
  <2>. QED
    BY <1>0, <2>2 DEF IsInjective, Range
<1>2. places \in Seq(1..Len(ls)) /\ Len(places) \in Nat
  <2>. HIDE DEF all, T
  <2>. QED
    BY <1>1, WithoutTypes, LenProperties
<1>3. Range(places) = (1..Len(ls)) \ T
  <2>. HIDE DEF all, T
  <2>1. Range(places) = Range(all) \ T
    BY <1>1, WithoutRange
  <2>. QED
    BY <1>1, <2>1
<1>4. IsInjective(places)
  <2>. HIDE DEF all, T
  <2>. QED
    BY <1>1, WithoutInjective
<1>5. FirstSights(ls, known) = [n \in DOMAIN places |-> ls[places[n]]]
  BY DEF FirstSights
<1>. PICK p : p = places
  OBVIOUS
<1>6. p \in Seq(1..Len(ls)) /\ Len(p) \in Nat /\ DOMAIN p = 1..Len(p) /\ \A n \in 1..Len(p) : p[n] \in 1..Len(ls)
  BY <1>2, LenProperties, ElementOfSeq
<1>. PICK r : r = FirstSights(ls, known)
  OBVIOUS
<1>7. r = [n \in 1..Len(p) |-> ls[p[n]]]
  BY <1>5, <1>6
<1>. HIDE DEF places
<1>8. r \in Seq(Listings) /\ Len(r) = Len(p) /\ DOMAIN r = 1..Len(p)
  <2>1. r \in [1..Len(p) -> Listings]
    BY <1>0, <1>6, <1>7
  <2>2. r \in Seq(Listings)
    BY <1>6, <2>1, SeqDef
  <2>. QED
    BY <1>6, <2>1, <2>2, LenProperties
<1>9. \A n \in 1..Len(p) : p[n] \notin T
  BY <1>3, <1>6 DEF Range
<1>10. \A n \in 1..Len(p) : ls[p[n]] \notin known /\ \A j \in 1..(p[n] - 1) : ls[j] # ls[p[n]]
  BY <1>0, <1>6, <1>9
<1>11. IsInjective(r)
  <2>1. SUFFICES ASSUME NEW m \in 1..Len(p), NEW n \in 1..Len(p), r[m] = r[n] PROVE m = n
    BY <1>8 DEF IsInjective
  <2>2. ls[p[m]] = ls[p[n]] /\ p[m] \in 1..Len(ls) /\ p[n] \in 1..Len(ls)
    BY <1>6, <1>7, <2>1
  <2>3. ~(p[m] < p[n]) /\ ~(p[n] < p[m])
    BY <1>0, <1>10, <2>2
  <2>4. p[m] = p[n]
    BY <1>0, <2>2, <2>3
  <2>. QED
    BY <1>4, <1>6, <2>4 DEF IsInjective
<1>12. ToSet(r) \subseteq ToSet(ls) \ known
  <2>1. \A n \in 1..Len(p) : r[n] \in ToSet(ls) /\ r[n] \notin known
    BY <1>0, <1>6, <1>7, <1>10 DEF ToSet
  <2>. QED
    BY <1>8, <2>1 DEF ToSet
<1>13. ASSUME ls # <<>>, known = {} PROVE r # <<>>
  <2>1. 1 \in 1..Len(ls)
    BY <1>0, <1>13, EmptySeq
  <2>2. 1 \notin T
    BY <1>0, <1>13, <2>1
  <2>3. 1 \in Range(p)
    BY <1>3, <2>1, <2>2
  <2>4. PICK n \in 1..Len(p) : p[n] = 1
    BY <1>6, <2>3 DEF Range
  <2>. QED
    BY <1>8, <2>4
<1>14. ASSUME ls = <<>> PROVE r = <<>>
  <2>1. Len(ls) = 0
    BY <1>14
  <2>2. Len(p) = 0
    BY <1>0, <1>6, <2>1
  <2>. QED
    BY <1>8, <2>2, EmptySeq
<1>. QED
  BY <1>8, <1>11, <1>12, <1>13, <1>14

\* What a pipeline that raises may have done is a part of what it was to do.
LEMMA PartsTypes ==
  ASSUME NEW ls \in Seq(Listings), NEW done \in PartsOf(ls)
  PROVE  done \in Seq(Listings) /\ ToSet(done) \subseteq ToSet(ls)
<1>1. PICK S : done = Without(ls, S)
  BY DEF PartsOf
<1>2. done \in Seq(Listings)
  BY <1>1, WithoutTypes
<1>3. Range(done) = Range(ls) \ S
  BY <1>1, WithoutRange
<1>. QED
  BY <1>2, <1>3 DEF ToSet, Range

LEMMA FirstAndRest ==
  ASSUME NEW S, NEW s \in Seq(S), s # <<>>
  PROVE  /\ Head(s) \in S /\ Tail(s) \in Seq(S) /\ <<Head(s)>> \in Seq(S)
         /\ ToSet(<<Head(s)>>) = {Head(s)}
         /\ ToSet(s) = {Head(s)} \cup ToSet(Tail(s))
<1>0. Len(s) \in Nat /\ Len(s) > 0 /\ DOMAIN s = 1..Len(s)
  BY LenProperties, EmptySeq
<1>1. Head(s) = s[1] /\ Head(s) \in S
  BY HeadTailProperties
<1>. PICK t : t = Tail(s)
  OBVIOUS
<1>2. t \in Seq(S) /\ Len(t) = Len(s) - 1 /\ DOMAIN t = 1..(Len(s) - 1) /\ \A i \in 1..(Len(s) - 1) : t[i] = s[i + 1]
  BY HeadTailProperties, LenProperties
<1>3. \A z : z \in ToSet(t) => z \in ToSet(s)
  BY <1>0, <1>2 DEF ToSet
<1>4. ASSUME NEW i \in 1..Len(s), i # 1 PROVE s[i] \in ToSet(t)
  <2>1. i - 1 \in DOMAIN t /\ t[i - 1] = s[i]
    BY <1>0, <1>2, <1>4
  <2>. QED
    BY <2>1 DEF ToSet
<1>5. s[1] \in ToSet(s)
  BY <1>0 DEF ToSet
<1>6. ToSet(s) = {s[1]} \cup ToSet(t)
  BY <1>0, <1>3, <1>4, <1>5 DEF ToSet
<1>7. <<Head(s)>> \in Seq(S)
  BY <1>1
<1>. PICK h : h = Head(s)
  OBVIOUS
<1>8. ToSet(<<h>>) = {h}
  BY DEF ToSet
<1>. QED
  BY <1>1, <1>2, <1>6, <1>7, <1>8

LEMMA AppendedSet ==
  ASSUME NEW S, NEW s \in Seq(S), NEW e \in S
  PROVE  Append(s, e) \in Seq(S) /\ ToSet(Append(s, e)) = ToSet(s) \cup {e}
BY RangeOfAppend, AppendProperties DEF ToSet, Range

LEMMA NoneSet == ToSet(<<>>) = {}
BY DEF ToSet

-----------------------------------------------------------------------------
(* scraper/main.py: what is marked is kept *)

JobRecord == [at : {"queued", "ask", "publish", "single", "done"}, batch : Seq(Listings),
              rest : Seq(Listings), failed : Seq(Listings)]

LegacyTyped ==
    /\ mode \in {"orchestrated", "category", "search"}
    /\ process \in {"starting", "cycle", "between", "stopped"}
    /\ job \in [Jobs -> JobRecord]
    /\ seen \subseteq Listings /\ stream \in [Listings -> Nat]
    /\ wal \subseteq [listings : Seq(Listings), sent : BOOLEAN]
    /\ \A z \in lost : z.listing \in Listings
    /\ quiet \in Nat /\ scrapeFaults \in Nat

\* What a job holds where it is.
JobOK(b) ==
    /\ b.at \in {"queued", "done"} => b.batch = <<>> /\ b.rest = <<>> /\ b.failed = <<>>
    /\ b.at \in {"ask", "publish"} => b.batch # <<>> /\ b.rest = <<>> /\ b.failed = <<>>
    /\ b.at = "single" => b.rest # <<>>

\* Where no cycle runs no job does; and the legacy modes run one job after the
\* other.
ProcessOK ==
    /\ \A j \in Jobs : JobOK(job[j])
    /\ process # "cycle" => \A j \in Jobs : job[j].at \in {"queued", "done"}
    /\ mode # "orchestrated" =>
         \A i, j \in Jobs : i < j /\ job[j].at # "queued" => job[i].at = "done"

\* Marked listings that a job has not yet asked about are somebody else's.
Held(l) ==
    \/ stream[l] > 0
    \/ \E f \in wal : l \in ToSet(f.listings)
    \/ \E z \in lost : z.listing = l
    \/ \E j \in Jobs : job[j].at \in {"publish", "single"} /\ l \in InHand(j)

LegacyInv ==
    /\ LegacyTyped /\ ProcessOK
    /\ \A l \in seen : Held(l)
    /\ \A f \in wal : f.sent => \A l \in ToSet(f.listings) : stream[l] > 0

\* As long as nothing has failed each listing has one job that brings it, and
\* where it comes from: the local set, then the Redis set, then the stream.
Faultless ==
    /\ wal = {} /\ \A j \in Jobs : job[j].at # "single"
    /\ \A j \in Jobs : IsInjective(job[j].batch) /\ ToSet(job[j].batch) \subseteq recent
    /\ \A i, j \in Jobs : i # j => ToSet(job[i].batch) \cap ToSet(job[j].batch) = {}
    /\ \A j \in Jobs : job[j].at = "publish" => ToSet(job[j].batch) \subseteq seen /\ quiet = 0
    /\ \A l \in Listings : stream[l] <= 1
    /\ \A l \in Listings : stream[l] > 0 =>
         l \in seen /\ \A j \in Jobs : job[j].at = "publish" => l \notin ToSet(job[j].batch)

\* The Redis set is not forgotten while there is something to remember: every
\* cycle that finds anything renews it.
Recognized ==
    \/ quiet = 0
    \/ \A l \in Listings : stream[l] = 0
    \/ process = "cycle" /\ \E j \in Jobs : job[j].at = "ask"
    \/ process = "cycle" /\ recent = {} /\ \E j \in Jobs : job[j].at = "queued" /\ Crawled[j] # <<>>

\* What is on the stream has been found.
SomethingFound ==
    (\A j \in Jobs : Crawled[j] = <<>>) =>
        (\A j \in Jobs : job[j].batch = <<>>) /\ \A l \in Listings : stream[l] = 0

OnceInv == mode # "search" /\ scrapeFaults = 0 => Faultless /\ Recognized /\ SomethingFound

LEMMA LegacyInitInv == ScraperInit => LegacyInv /\ OnceInv
<1>. SUFFICES ASSUME ScraperInit PROVE LegacyInv /\ OnceInv
  OBVIOUS
<1>0. <<>> \in Seq(Listings) /\ Queued \in JobRecord /\ JobOK(Queued) /\ Queued.at = "queued" /\ Queued.batch = <<>>
  <2>1. <<>> \in Seq(Listings)
    BY EmptySeq
  <2>. QED
    BY <2>1 DEF Queued, JobRecord, JobOK
<1>1. LegacyTyped
  BY <1>0 DEF ScraperInit, LegacyTyped
<1>2. \A j \in Jobs : job[j] = Queued
  BY DEF ScraperInit
<1>3. ProcessOK
  BY <1>0, <1>2 DEF ScraperInit, ProcessOK
<1>4. LegacyInv
  BY <1>1, <1>3 DEF ScraperInit, LegacyInv
<1>5. \A j \in Jobs : IsInjective(job[j].batch) /\ ToSet(job[j].batch) = {}
  BY <1>0, <1>2, NoneSet DEF IsInjective
<1>6. OnceInv
  BY <1>0, <1>2, <1>5 DEF ScraperInit, OnceInv, Faultless, Recognized, SomethingFound
<1>. QED
  BY <1>4, <1>6

LEMMA QueuedFacts ==
  /\ Queued \in JobRecord /\ JobOK(Queued) /\ Queued.at = "queued"
  /\ Queued.batch = <<>> /\ Queued.rest = <<>> /\ Queued.failed = <<>>
<1>1. <<>> \in Seq(Listings)
  BY EmptySeq
<1>. QED
  BY <1>1 DEF Queued, JobRecord, JobOK

\* One job goes on.
LEMMA JobMoves ==
  ASSUME LegacyInv, NEW j \in Jobs, NEW b \in JobRecord, JobOK(b), job' = [job EXCEPT ![j] = b],
         mode' = mode, job[j].at # "done", b.at # "queued",
         process' # "cycle" => b.at = "done" /\ \A i \in Jobs \ {j} : job[i].at \in {"queued", "done"},
         job[j].at = "queued" /\ mode # "orchestrated" => \A i \in Jobs : i < j => job[i].at = "done"
  PROVE  job' \in [Jobs -> JobRecord] /\ ProcessOK'
<1>0. job \in [Jobs -> JobRecord] /\ ProcessOK
  BY DEF LegacyInv, LegacyTyped
<1>1. job' \in [Jobs -> JobRecord] /\ job'[j] = b /\ \A i \in Jobs \ {j} : job'[i] = job[i]
  BY <1>0
<1>2. \A i \in Jobs : JobOK(job'[i])
  BY <1>0, <1>1 DEF ProcessOK
<1>3. process' # "cycle" => \A i \in Jobs : job'[i].at \in {"queued", "done"}
  BY <1>1
<1>4. ASSUME mode # "orchestrated", NEW i \in Jobs, NEW k \in Jobs, i < k, job'[k].at # "queued"
      PROVE  job'[i].at = "done"
  <2>1. \A m, n \in Jobs : m < n /\ job[n].at # "queued" => job[m].at = "done"
    BY <1>0, <1>4 DEF ProcessOK
  <2>2. i # k
    <3>1. Jobs \subseteq Int
      BY LegacyAssumption, LenProperties DEF Jobs
    <3>. QED
      BY <1>4, <3>1
  <2>3. CASE k = j
    BY <1>1, <1>4, <2>1, <2>2, <2>3
  <2>4. CASE k # j /\ i = j
    BY <1>1, <1>4, <2>1, <2>4
  <2>5. CASE k # j /\ i # j
    BY <1>1, <1>4, <2>1, <2>5
  <2>. QED
    BY <2>3, <2>4, <2>5
<1>. QED
  BY <1>1, <1>2, <1>3, <1>4 DEF ProcessOK

\* Who had a listing still has it, if the job that goes on hands on what it had.
LEMMA HeldMoves ==
  ASSUME LegacyInv, NEW j \in Jobs, NEW b \in JobRecord, job' = [job EXCEPT ![j] = b],
         \A k \in Listings : stream[k] > 0 => stream'[k] > 0,
         wal \subseteq wal', lost \subseteq lost', NEW l \in Listings, Held(l),
         job[j].at \in {"publish", "single"} /\ l \in InHand(j) => Held(l)'
  PROVE  Held(l)'
<1>0. job \in [Jobs -> JobRecord]
  BY DEF LegacyInv, LegacyTyped
<1>1. \A i \in Jobs \ {j} : job'[i] = job[i]
  BY <1>0
<1>2. CASE stream[l] > 0
  BY <1>2 DEF Held
<1>3. CASE \E f \in wal : l \in ToSet(f.listings)
  BY <1>3 DEF Held
<1>4. CASE \E z \in lost : z.listing = l
  BY <1>4 DEF Held
<1>5. CASE \E i \in Jobs : job[i].at \in {"publish", "single"} /\ l \in InHand(i)
  <2>1. PICK i \in Jobs : job[i].at \in {"publish", "single"} /\ l \in InHand(i)
    BY <1>5
  <2>2. CASE i = j
    BY <2>1, <2>2
  <2>3. CASE i # j
    <3>1. job'[i] = job[i]
      BY <1>1, <2>3
    <3>2. job'[i].at \in {"publish", "single"} /\ l \in InHand(i)'
      BY <2>1, <3>1 DEF InHand
    <3>. QED
      BY <3>2 DEF Held
  <2>. QED
    BY <2>2, <2>3
<1>. QED
  BY <1>2, <1>3, <1>4, <1>5 DEF Held

LEMMA CrawlKeeps ==
  ASSUME LegacyInv, NEW j \in Jobs, Crawl(j)
  PROVE  LegacyInv'
<1>. DEFINE new == IF mode = "search" THEN Crawled[j] ELSE FirstSights(Crawled[j], recent)
            b == [Queued EXCEPT !.batch = new, !.at = IF new = <<>> THEN "done"
                        ELSE IF mode = "search" THEN "publish" ELSE "ask"]
<1>0. /\ LegacyTyped /\ ProcessOK /\ process = "cycle" /\ job[j].at = "queued"
      /\ job' = [job EXCEPT ![j] = b]
      /\ UNCHANGED <<mode, process, seen, stream, wal, quiet, scrapeFaults, lost>>
  BY DEF LegacyInv, Crawl, MayStart
<1>1. Crawled[j] \in Seq(Listings)
  BY LegacyAssumption, ElementOfSeq, LenProperties DEF Jobs
<1>2. new \in Seq(Listings)
  BY <1>1, FirstSightsTypes
<1>3. b \in JobRecord /\ JobOK(b) /\ b.at # "queued"
  <2>. HIDE DEF new
  <2>1. <<>> \in Seq(Listings)
    BY EmptySeq
  <2>. QED
    BY <1>2, <2>1 DEF JobRecord, JobOK, Queued
<1>4. mode # "orchestrated" => \A i \in Jobs : i < j => job[i].at = "done"
  BY DEF Crawl, MayStart
<1>. HIDE DEF b
<1>5. job' \in [Jobs -> JobRecord] /\ ProcessOK'
  BY <1>0, <1>3, <1>4, JobMoves
<1>6. LegacyTyped'
  BY <1>0, <1>5 DEF LegacyTyped
<1>7. ASSUME NEW l \in seen PROVE Held(l)'
  <2>1. l \in Listings /\ Held(l)
    BY <1>0 DEF LegacyInv, LegacyTyped
  <2>. QED
    BY <1>0, <1>3, <2>1, HeldMoves
<1>. QED
  BY <1>0, <1>5, <1>6, <1>7 DEF LegacyInv

LEMMA CrawlFailsKeeps ==
  ASSUME LegacyInv, NEW j \in Jobs, CrawlFails(j)
  PROVE  LegacyInv'
<1>. DEFINE b == [job[j] EXCEPT !.at = "done"]
<1>0. /\ LegacyTyped /\ ProcessOK /\ process = "cycle" /\ job[j].at = "queued" /\ job[j] \in JobRecord
      /\ job' = [job EXCEPT ![j] = b]
      /\ UNCHANGED <<mode, seen, stream, wal, quiet, lost>> /\ scrapeFaults' = scrapeFaults + 1
      /\ process' = IF mode = "search" THEN "stopped" ELSE process
  BY DEF LegacyInv, LegacyTyped, CrawlFails, MayStart, Fault
<1>1. JobOK(job[j])
  BY <1>0 DEF ProcessOK
<1>3. b \in JobRecord /\ JobOK(b) /\ b.at = "done"
  BY <1>0, <1>1 DEF JobRecord, JobOK
<1>4. mode # "orchestrated" => \A i \in Jobs : i < j => job[i].at = "done"
  BY DEF CrawlFails, MayStart
<1>5. process' # "cycle" => \A i \in Jobs \ {j} : job[i].at \in {"queued", "done"}
  <2>1. SUFFICES ASSUME mode = "search", NEW i \in Jobs \ {j} PROVE job[i].at \in {"queued", "done"}
    BY <1>0
  <2>2. i \in Int /\ j \in Int
    BY LegacyAssumption, LenProperties DEF Jobs
  <2>3. CASE i < j
    BY <1>4, <2>1, <2>3
  <2>4. CASE j < i
    BY <1>0, <2>1, <2>4 DEF ProcessOK
  <2>. QED
    BY <2>2, <2>3, <2>4
<1>. HIDE DEF b
<1>6. job' \in [Jobs -> JobRecord] /\ ProcessOK'
  BY <1>0, <1>3, <1>4, <1>5, JobMoves
<1>7. LegacyTyped'
  BY <1>0, <1>6 DEF LegacyTyped
<1>8. ASSUME NEW l \in seen PROVE Held(l)'
  <2>1. l \in Listings /\ Held(l)
    BY <1>0 DEF LegacyInv, LegacyTyped
  <2>. QED
    BY <1>0, <1>3, <2>1, HeldMoves
<1>. QED
  BY <1>0, <1>6, <1>7, <1>8 DEF LegacyInv

LEMMA AskRedisKeeps ==
  ASSUME LegacyInv, NEW j \in Jobs, AskRedis(j)
  PROVE  LegacyInv'
<1>. DEFINE new == Without(job[j].batch, seen)
            answered == [job[j] EXCEPT !.batch = new, !.at = IF new = <<>> THEN "done" ELSE "publish"]
            alone == [job[j] EXCEPT !.at = "publish"]
<1>0. /\ LegacyTyped /\ ProcessOK /\ job[j].at = "ask" /\ job[j] \in JobRecord
      /\ UNCHANGED <<mode, process, stream, wal, lost>>
  BY DEF LegacyInv, LegacyTyped, AskRedis
<1>1. JobOK(job[j]) /\ process = "cycle"
  BY <1>0 DEF ProcessOK
<1>2. new \in Seq(Listings) /\ ToSet(new) = ToSet(job[j].batch) \ seen
  <2>1. job[j].batch \in Seq(Listings)
    BY <1>0 DEF JobRecord
  <2>2. new \in Seq(Listings) /\ Range(new) = Range(job[j].batch) \ seen
    BY <2>1, WithoutTypes, WithoutRange
  <2>. QED
    BY <2>2 DEF ToSet, Range
<1>3. PICK b : /\ job' = [job EXCEPT ![j] = b]
               /\ \/ b = answered /\ seen' = seen \cup ToSet(job[j].batch)
                  \/ b = alone /\ seen' \in {seen, seen \cup ToSet(job[j].batch)}
               /\ quiet' \in {0, quiet} /\ scrapeFaults' \in {scrapeFaults, scrapeFaults + 1}
  <2>1. CASE /\ seen' = seen \cup ToSet(job[j].batch) /\ quiet' = 0 /\ UNCHANGED scrapeFaults
             /\ job' = [job EXCEPT ![j].batch = new,
                                    ![j].at = IF new = <<>> THEN "done" ELSE "publish"]
    <3>1. job' = [job EXCEPT ![j] = answered]
      BY <1>0, <2>1 DEF LegacyTyped
    <3>. QED
      BY <2>1, <3>1
  <2>2. CASE /\ Fault /\ ((seen' = seen \cup ToSet(job[j].batch) /\ quiet' = 0) \/ UNCHANGED <<seen, quiet>>)
             /\ job' = [job EXCEPT ![j].at = "publish"]
    <3>1. job' = [job EXCEPT ![j] = alone]
      BY <1>0, <2>2 DEF LegacyTyped
    <3>. QED
      BY <2>2, <3>1 DEF Fault
  <2>. QED
    BY <2>1, <2>2 DEF AskRedis
<1>4. /\ b \in JobRecord /\ JobOK(b) /\ b.at # "queued"
      /\ \A l \in ToSet(job[j].batch) \ seen : b.at = "publish" /\ l \in ToSet(b.batch)
  <2>1. CASE b = answered
    <3>. HIDE DEF new
    <3>1. b \in JobRecord /\ b.at # "queued" /\ JobOK(b)
      BY <1>0, <1>1, <1>2, <2>1 DEF JobRecord, JobOK
    <3>2. ASSUME NEW l \in ToSet(job[j].batch) \ seen PROVE b.at = "publish" /\ l \in ToSet(b.batch)
      <4>1. b.batch = new /\ l \in ToSet(new) /\ new # <<>>
        BY <1>0, <1>2, <2>1, <3>2, NoneSet DEF JobRecord
      <4>. QED
        BY <1>0, <2>1, <4>1 DEF JobRecord
    <3>. QED
      BY <3>1, <3>2
  <2>2. CASE b = alone
    BY <1>0, <1>1, <2>2 DEF JobRecord, JobOK
  <2>. QED
    BY <1>3, <2>1, <2>2
<1>5. ToSet(job[j].batch) \subseteq Listings
  <2>1. job[j].batch \in Seq(Listings)
    BY <1>0 DEF JobRecord
  <2>. QED
    BY <2>1, RangeOfSeq DEF ToSet, Range
<1>6. job' \in [Jobs -> JobRecord] /\ ProcessOK'
  BY <1>0, <1>1, <1>3, <1>4, JobMoves
<1>7. LegacyTyped'
  BY <1>0, <1>3, <1>5, <1>6 DEF LegacyTyped
<1>8. ASSUME NEW l \in seen' PROVE Held(l)'
  <2>1. CASE l \in seen
    <3>1. l \in Listings /\ Held(l)
      BY <1>0, <2>1 DEF LegacyInv, LegacyTyped
    <3>. QED
      BY <1>0, <1>3, <1>4, <3>1, HeldMoves
  <2>2. CASE l \notin seen
    <3>1. l \in ToSet(job[j].batch) \ seen
      BY <1>3, <1>8, <2>2
    <3>2. job'[j] = b /\ b.at = "publish" /\ l \in ToSet(b.batch)
      BY <1>0, <1>3, <1>4, <3>1 DEF LegacyTyped
    <3>3. l \in InHand(j)'
      BY <3>2 DEF InHand
    <3>. QED
      BY <3>2, <3>3 DEF Held
  <2>. QED
    BY <2>1, <2>2
<1>9. \A f \in wal' : f.sent => \A l \in ToSet(f.listings) : stream'[l] > 0
  BY <1>0 DEF LegacyInv
<1>. QED
  BY <1>6, <1>7, <1>8, <1>9 DEF LegacyInv

LEMMA PublishChunkKeeps ==
  ASSUME LegacyInv, NEW j \in Jobs, PublishChunk(j)
  PROVE  LegacyInv'
<1>. DEFINE batch == job[j].batch
            gone == [job[j] EXCEPT !.batch = After(batch), !.at = IF After(batch) = <<>> THEN "done" ELSE "publish"]
            broken == [job[j] EXCEPT !.batch = After(batch), !.rest = Chunk(batch), !.at = "single"]
<1>0. /\ LegacyTyped /\ ProcessOK /\ job[j].at = "publish" /\ job[j] \in JobRecord
      /\ UNCHANGED <<mode, process, seen, wal, quiet, lost>>
  BY DEF LegacyInv, LegacyTyped, PublishChunk
<1>1. JobOK(job[j]) /\ process = "cycle"
  BY <1>0 DEF ProcessOK
<1>2. batch \in Seq(Listings) /\ batch # <<>> /\ job[j].rest = <<>> /\ job[j].failed = <<>>
  BY <1>0, <1>1 DEF JobRecord, JobOK
<1>3. /\ Chunk(batch) \in Seq(Listings) /\ After(batch) \in Seq(Listings) /\ Chunk(batch) # <<>>
      /\ ToSet(batch) = ToSet(Chunk(batch)) \cup ToSet(After(batch))
  BY <1>2, ChunkTypes
<1>4. PICK b, done : /\ job' = [job EXCEPT ![j] = b] /\ stream' = Added(stream, done)
                     /\ done \in Seq(Listings) /\ ToSet(done) \subseteq Listings
                     /\ \/ b = gone /\ done = Chunk(batch)
                        \/ b = broken
                     /\ scrapeFaults' \in {scrapeFaults, scrapeFaults + 1}
  <2>1. CASE /\ stream' = Added(stream, Chunk(batch)) /\ UNCHANGED scrapeFaults
             /\ job' = [job EXCEPT ![j].batch = After(batch),
                                  ![j].at = IF After(batch) = <<>> THEN "done" ELSE "publish"]
    <3>1. job' = [job EXCEPT ![j] = gone]
      BY <1>0, <2>1 DEF LegacyTyped
    <3>2. ToSet(Chunk(batch)) \subseteq Listings
      BY <1>3, RangeOfSeq DEF ToSet, Range
    <3>. QED
      BY <1>3, <2>1, <3>1, <3>2
  <2>2. CASE /\ Fault
             /\ \E done \in PartsOf(Chunk(batch)) : stream' = Added(stream, done)
             /\ job' = [job EXCEPT ![j].batch = After(batch), ![j].rest = Chunk(batch),
                                  ![j].at = "single"]
    <3>1. job' = [job EXCEPT ![j] = broken]
      BY <1>0, <2>2 DEF LegacyTyped
    <3>2. PICK done \in PartsOf(Chunk(batch)) : stream' = Added(stream, done)
      BY <2>2
    <3>3. done \in Seq(Listings)
      BY <1>3, PartsTypes
    <3>4. ToSet(done) \subseteq Listings
      BY <3>3, RangeOfSeq DEF ToSet, Range
    <3>. QED
      BY <2>2, <3>1, <3>2, <3>3, <3>4 DEF Fault
  <2>. QED
    BY <2>1, <2>2 DEF PublishChunk
<1>5. /\ stream' \in [Listings -> Nat] /\ \A l \in Listings : stream[l] > 0 => stream'[l] > 0
      /\ \A l \in ToSet(done) : stream'[l] > 0
  <2>1. stream \in [Listings -> Nat]
    BY <1>0 DEF LegacyTyped
  <2>2. /\ stream' \in [Listings -> Nat] /\ \A l \in Listings : stream[l] <= stream'[l]
        /\ \A l \in ToSet(done) : stream'[l] > 0
    BY <1>4, <2>1, AddedTypes
  <2>. QED
    BY <2>1, <2>2
<1>6. /\ b \in JobRecord /\ JobOK(b) /\ b.at # "queued"
      /\ \A l \in ToSet(batch) : \/ b.at \in {"publish", "single"} /\ l \in ToSet(b.batch) \cup ToSet(b.rest)
                               \/ l \in ToSet(done)
  <2>. HIDE DEF batch
  <2>1. CASE b = gone /\ done = Chunk(batch)
    <3>1. b \in JobRecord /\ JobOK(b) /\ b.at # "queued"
      BY <1>0, <1>2, <1>3, <2>1 DEF JobRecord, JobOK
    <3>2. ASSUME NEW l \in ToSet(batch), l \notin ToSet(done) PROVE b.at = "publish" /\ l \in ToSet(b.batch)
      <4>1. l \in ToSet(After(batch)) /\ After(batch) # <<>>
        BY <1>3, <2>1, <3>2, NoneSet
      <4>. QED
        BY <1>0, <2>1, <4>1 DEF JobRecord
    <3>. QED
      BY <3>1, <3>2
  <2>2. CASE b = broken
    BY <1>0, <1>2, <1>3, <2>2 DEF JobRecord, JobOK
  <2>. QED
    BY <1>4, <2>1, <2>2
<1>7. job' \in [Jobs -> JobRecord] /\ ProcessOK'
  BY <1>0, <1>1, <1>4, <1>6, JobMoves
<1>8. LegacyTyped'
  BY <1>0, <1>4, <1>5, <1>7 DEF LegacyTyped
<1>9. job'[j] = b
  BY <1>0, <1>4 DEF LegacyTyped
<1>10. ASSUME NEW l \in Listings, l \in InHand(j) PROVE Held(l)'
  <2>1. l \in ToSet(batch)
    BY <1>2, <1>10, NoneSet DEF InHand
  <2>2. CASE l \in ToSet(done)
    BY <1>5, <2>2 DEF Held
  <2>3. CASE b.at \in {"publish", "single"} /\ l \in ToSet(b.batch) \cup ToSet(b.rest)
    <3>1. l \in InHand(j)'
      BY <1>9, <2>3 DEF InHand
    <3>. QED
      BY <1>9, <2>3, <3>1 DEF Held
  <2>. QED
    BY <1>6, <2>1, <2>2, <2>3
<1>11. ASSUME NEW l \in seen PROVE Held(l)'
  <2>1. l \in Listings /\ Held(l)
    BY <1>0 DEF LegacyInv, LegacyTyped
  <2>. QED
    BY <1>0, <1>4, <1>5, <1>6, <1>10, <2>1, HeldMoves
<1>12. \A f \in wal' : f.sent => \A l \in ToSet(f.listings) : stream'[l] > 0
  <2>1. \A f \in wal : f.sent => \A l \in ToSet(f.listings) : l \in Listings /\ stream[l] > 0
    <3>1. \A f \in wal : f.listings \in Seq(Listings)
      BY <1>0 DEF LegacyTyped
    <3>2. \A f \in wal : ToSet(f.listings) \subseteq Listings
      BY <3>1, RangeOfSeq DEF ToSet, Range
    <3>. QED
      BY <3>2 DEF LegacyInv
  <2>. QED
    BY <1>0, <1>5, <2>1
<1>. QED
  BY <1>0, <1>7, <1>8, <1>11, <1>12 DEF LegacyInv

\* Who cannot write a listing to the WAL counts it as lost.
LEMMA GiveUpTypes ==
  ASSUME LegacyInv, NEW ls \in Seq(Listings), GiveUp(ls)
  PROVE  /\ wal \subseteq wal' /\ lost \subseteq lost'
         /\ wal' \subseteq [listings : Seq(Listings), sent : BOOLEAN]
         /\ \A f \in wal' : f.sent => f \in wal
         /\ \A z \in lost' : z.listing \in Listings
         /\ \A l \in ToSet(ls) : (\E f \in wal' : l \in ToSet(f.listings)) \/ (\E z \in lost' : z.listing = l)
         /\ ls = <<>> => UNCHANGED <<wal, lost>>
<1>0. wal \subseteq [listings : Seq(Listings), sent : BOOLEAN] /\ \A z \in lost : z.listing \in Listings
  BY DEF LegacyInv, LegacyTyped
<1>1. ToSet(ls) \subseteq Listings
  BY RangeOfSeq DEF ToSet, Range
<1>2. CASE ls = <<>>
  <2>1. UNCHANGED <<wal, lost>>
    BY <1>2 DEF GiveUp
  <2>2. \A l \in ToSet(ls) : FALSE
    BY <1>2, NoneSet
  <2>. QED
    BY <1>0, <2>1, <2>2
<1>3. ASSUME ls # <<>>, NEW by, lost' = lost \cup {[listing |-> l, by |-> by] : l \in ToSet(ls)}, UNCHANGED wal
      PROVE  /\ \A z \in lost' : z.listing \in Listings
             /\ \A l \in ToSet(ls) : \E z \in lost' : z.listing = l
  <2>1. \A l \in ToSet(ls) : [listing |-> l, by |-> by] \in lost'
    BY <1>3
  <2>2. \A l \in ToSet(ls) : \E z \in lost' : z.listing = l
    BY <2>1
  <2>3. ASSUME NEW z \in lost' PROVE z.listing \in Listings
    <3>1. CASE z \in lost
      BY <1>0, <3>1
    <3>2. CASE z \notin lost
      <4>1. PICK l \in ToSet(ls) : z = [listing |-> l, by |-> by]
        BY <1>3, <2>3, <3>2
      <4>. QED
        BY <1>1, <4>1
    <3>. QED
      BY <3>1, <3>2
  <2>. QED
    BY <2>2, <2>3
<1>4. CASE ls # <<>> /\ mode = "orchestrated"
  <2>1. lost' = lost \cup {[listing |-> l, by |-> "no wal"] : l \in ToSet(ls)} /\ UNCHANGED wal
    BY <1>4 DEF GiveUp
  <2>2. (\A z \in lost' : z.listing \in Listings) /\ \A l \in ToSet(ls) : \E z \in lost' : z.listing = l
    BY <1>3, <1>4, <2>1
  <2>. QED
    BY <1>0, <1>4, <2>1, <2>2
<1>5. CASE ls # <<>> /\ mode # "orchestrated" /\ WalSize > WalMax
  <2>1. lost' = lost \cup {[listing |-> l, by |-> "wal full"] : l \in ToSet(ls)} /\ UNCHANGED wal
    BY <1>5 DEF GiveUp
  <2>2. (\A z \in lost' : z.listing \in Listings) /\ \A l \in ToSet(ls) : \E z \in lost' : z.listing = l
    BY <1>3, <1>5, <2>1
  <2>. QED
    BY <1>0, <1>5, <2>1, <2>2
<1>6. CASE ls # <<>> /\ mode # "orchestrated" /\ ~(WalSize > WalMax)
  <2>. DEFINE f == [listings |-> ls, sent |-> FALSE]
  <2>1. wal' = wal \cup {f} /\ UNCHANGED lost
    BY <1>6 DEF GiveUp
  <2>2. f \in [listings : Seq(Listings), sent : BOOLEAN] /\ f.sent = FALSE /\ f.listings = ls
    OBVIOUS
  <2>. HIDE DEF f
  <2>3. wal' \subseteq [listings : Seq(Listings), sent : BOOLEAN]
    BY <1>0, <2>1, <2>2
  <2>4. \A g \in wal' : g.sent => g \in wal
    BY <2>1, <2>2
  <2>5. \A l \in ToSet(ls) : \E g \in wal' : l \in ToSet(g.listings)
    BY <2>1, <2>2
  <2>. QED
    BY <1>0, <1>6, <2>1, <2>3, <2>4, <2>5
<1>. QED
  BY <1>2, <1>4, <1>5, <1>6

LEMMA PublishOneKeeps ==
  ASSUME LegacyInv, NEW j \in Jobs, PublishOne(j)
  PROVE  LegacyInv'
<1>. DEFINE l == Head(job[j].rest)
            left == Tail(job[j].rest)
            more(failed) == [job[j] EXCEPT !.rest = left, !.failed = failed]
            over == [job[j] EXCEPT !.rest = <<>>, !.failed = <<>>,
                        !.at = IF job[j].batch = <<>> THEN "done" ELSE "publish"]
<1>0. /\ LegacyTyped /\ ProcessOK /\ job[j].at = "single" /\ job[j] \in JobRecord
      /\ UNCHANGED <<mode, process, seen, quiet>>
  BY DEF LegacyInv, LegacyTyped, PublishOne
<1>1. JobOK(job[j]) /\ process = "cycle"
  BY <1>0 DEF ProcessOK
<1>2. /\ job[j].rest \in Seq(Listings) /\ job[j].rest # <<>> /\ job[j].batch \in Seq(Listings)
      /\ job[j].failed \in Seq(Listings)
  BY <1>0, <1>1 DEF JobRecord, JobOK
<1>3. /\ l \in Listings /\ left \in Seq(Listings) /\ <<l>> \in Seq(Listings) /\ ToSet(<<l>>) = {l}
      /\ ToSet(job[j].rest) = {l} \cup ToSet(left)
  BY <1>2, FirstAndRest
<1>4. stream \in [Listings -> Nat]
  BY <1>0 DEF LegacyTyped
<1>5. PICK failed \in {job[j].failed, Append(job[j].failed, l)} :
           /\ IF failed = job[j].failed
              THEN stream' = Added(stream, <<l>>) /\ UNCHANGED scrapeFaults
              ELSE Fault /\ (stream' = Added(stream, <<l>>) \/ UNCHANGED stream)
           /\ IF left # <<>>
              THEN /\ job' = [job EXCEPT ![j].rest = left, ![j].failed = failed]
                   /\ UNCHANGED <<wal, lost>>
              ELSE /\ job' = [job EXCEPT ![j].rest = <<>>, ![j].failed = <<>>,
                        ![j].at = IF job[j].batch = <<>> THEN "done" ELSE "publish"]
                   /\ GiveUp(failed)
  BY DEF PublishOne
<1>60. /\ Append(job[j].failed, l) \in Seq(Listings)
       /\ ToSet(Append(job[j].failed, l)) = ToSet(job[j].failed) \cup {l}
  <2>. HIDE DEF l
  <2>. QED
    BY <1>2, <1>3, AppendedSet
<1>6. failed \in Seq(Listings) /\ ToSet(job[j].failed) \subseteq ToSet(failed)
  <2>1. CASE failed = job[j].failed
    BY <1>2, <2>1
  <2>2. CASE failed = Append(job[j].failed, l)
    BY <1>60, <2>2
  <2>. QED
    BY <1>5, <2>1, <2>2
<1>7. /\ stream' \in [Listings -> Nat] /\ \A k \in Listings : stream[k] > 0 => stream'[k] > 0
      /\ stream'[l] > 0 \/ l \in ToSet(failed)
      /\ scrapeFaults' \in {scrapeFaults, scrapeFaults + 1}
  <2>1. ASSUME stream' = Added(stream, <<l>>)
        PROVE  /\ stream' \in [Listings -> Nat] /\ \A k \in Listings : stream[k] > 0 => stream'[k] > 0
               /\ stream'[l] > 0
    <3>1. /\ stream' \in [Listings -> Nat] /\ \A k \in Listings : stream[k] <= stream'[k]
          /\ \A k \in ToSet(<<l>>) : stream'[k] > 0
      BY <1>3, <1>4, <2>1, AddedTypes
    <3>. QED
      BY <1>3, <1>4, <3>1
  <2>2. CASE failed = job[j].failed
    BY <1>5, <2>1, <2>2
  <2>3. CASE failed # job[j].failed
    <3>1. l \in ToSet(failed)
      <4>1. failed = Append(job[j].failed, l)
        BY <1>5, <2>3
      <4>. QED
        BY <1>60, <4>1
    <3>2. CASE stream' = Added(stream, <<l>>)
      BY <1>5, <2>1, <2>3, <3>2 DEF Fault
    <3>3. CASE UNCHANGED stream
      BY <1>4, <1>5, <2>3, <3>1, <3>3 DEF Fault
    <3>. QED
      BY <1>5, <2>3, <3>2, <3>3
  <2>. QED
    BY <2>2, <2>3
<1>8. PICK b : /\ job' = [job EXCEPT ![j] = b]
               /\ \/ b = more(failed) /\ left # <<>> /\ UNCHANGED <<wal, lost>>
                  \/ b = over /\ left = <<>> /\ GiveUp(failed)
  <2>1. CASE left # <<>>
    <3>1. job' = [job EXCEPT ![j] = more(failed)]
      BY <1>0, <1>5, <2>1 DEF LegacyTyped
    <3>. QED
      BY <1>5, <2>1, <3>1
  <2>2. CASE left = <<>>
    <3>1. job' = [job EXCEPT ![j] = over]
      BY <1>0, <1>5, <2>2 DEF LegacyTyped
    <3>. QED
      BY <1>5, <2>2, <3>1
  <2>. QED
    BY <2>1, <2>2
<1>9. /\ wal \subseteq wal' /\ lost \subseteq lost'
      /\ wal' \subseteq [listings : Seq(Listings), sent : BOOLEAN]
      /\ \A f \in wal' : f.sent => f \in wal
      /\ \A z \in lost' : z.listing \in Listings
      /\ left = <<>> => \A k \in ToSet(failed) :
            (\E f \in wal' : k \in ToSet(f.listings)) \/ (\E z \in lost' : z.listing = k)
  <2>1. CASE left # <<>>
    BY <1>0, <1>8, <2>1 DEF LegacyTyped
  <2>2. CASE left = <<>>
    <3>1. GiveUp(failed)
      BY <1>8, <2>2
    <3>. QED
      BY <1>6, <3>1, GiveUpTypes
  <2>. QED
    BY <2>1, <2>2
<1>. HIDE DEF l, left
<1>10. b \in JobRecord /\ JobOK(b) /\ b.at # "queued" /\ b.batch = job[j].batch
  <2>0. <<>> \in Seq(Listings)
    BY EmptySeq
  <2>1. CASE b = more(failed) /\ left # <<>>
    BY <1>0, <1>2, <1>3, <1>6, <2>1 DEF JobRecord, JobOK
  <2>2. CASE b = over
    BY <1>0, <1>2, <2>0, <2>2 DEF JobRecord, JobOK
  <2>. QED
    BY <1>8, <2>1, <2>2
<1>11. job' \in [Jobs -> JobRecord] /\ ProcessOK' /\ job'[j] = b
  <2>1. job' \in [Jobs -> JobRecord] /\ ProcessOK'
    BY <1>0, <1>1, <1>8, <1>10, JobMoves
  <2>. QED
    BY <1>0, <1>8, <2>1 DEF LegacyTyped
<1>12. LegacyTyped'
  BY <1>0, <1>7, <1>9, <1>11 DEF LegacyTyped
<1>13. ASSUME NEW k \in Listings, k \in InHand(j) PROVE Held(k)'
  <2>1. k \in ToSet(job[j].batch) \/ k = l \/ k \in ToSet(left) \/ k \in ToSet(failed)
    BY <1>3, <1>6, <1>13 DEF InHand
  <2>2. CASE stream'[k] > 0
    BY <2>2 DEF Held
  <2>3. CASE k \in ToSet(job[j].batch)
    <3>1. b.at \in {"publish", "single"} /\ k \in ToSet(b.batch)
      <4>1. job[j].batch # <<>>
        BY <2>3, NoneSet
      <4>. QED
        BY <1>0, <1>8, <1>10, <2>3, <4>1 DEF JobRecord
    <3>2. k \in InHand(j)'
      BY <1>11, <3>1 DEF InHand
    <3>. QED
      BY <1>11, <3>1, <3>2 DEF Held
  <2>4. CASE b = more(failed) /\ left # <<>> /\ (k \in ToSet(left) \/ k \in ToSet(failed))
    <3>1. b.at = "single" /\ k \in ToSet(b.rest) \cup ToSet(b.failed)
      BY <1>0, <2>4 DEF JobRecord
    <3>2. k \in InHand(j)'
      BY <1>11, <3>1 DEF InHand
    <3>. QED
      BY <1>11, <3>1, <3>2 DEF Held
  <2>5. CASE left = <<>> /\ k \in ToSet(failed)
    BY <1>9, <2>5 DEF Held
  <2>6. CASE left = <<>> /\ k \in ToSet(left)
    BY <2>6, NoneSet
  <2>. QED
    BY <1>7, <1>8, <2>1, <2>2, <2>3, <2>4, <2>5, <2>6
<1>14. ASSUME NEW k \in seen PROVE Held(k)'
  <2>1. k \in Listings /\ Held(k)
    BY <1>0 DEF LegacyInv, LegacyTyped
  <2>. QED
    BY <1>0, <1>7, <1>8, <1>9, <1>10, <1>13, <2>1, HeldMoves
<1>15. \A f \in wal' : f.sent => \A k \in ToSet(f.listings) : stream'[k] > 0
  <2>1. \A f \in wal : f.sent => \A k \in ToSet(f.listings) : k \in Listings /\ stream[k] > 0
    <3>1. \A f \in wal : f.listings \in Seq(Listings)
      BY <1>0 DEF LegacyTyped
    <3>2. \A f \in wal : ToSet(f.listings) \subseteq Listings
      BY <3>1, RangeOfSeq DEF ToSet, Range
    <3>. QED
      BY <3>2 DEF LegacyInv
  <2>. QED
    BY <1>7, <1>9, <2>1
<1>. QED
  BY <1>0, <1>11, <1>12, <1>14, <1>15 DEF LegacyInv

LEMMA WalListings ==
  ASSUME LegacyInv, NEW f \in wal
  PROVE  f.listings \in Seq(Listings) /\ ToSet(f.listings) \subseteq Listings
<1>1. f.listings \in Seq(Listings)
  BY DEF LegacyInv, LegacyTyped
<1>. QED
  BY <1>1, RangeOfSeq DEF ToSet, Range

\* The steps in which no job moves.
LEMMA HeldStays ==
  ASSUME LegacyInv, UNCHANGED job, NEW l \in Listings, Held(l), lost \subseteq lost',
         stream[l] > 0 => stream'[l] > 0,
         \A f \in wal : l \in ToSet(f.listings) =>
            stream'[l] > 0 \/ \E g \in wal' : g.listings = f.listings
  PROVE  Held(l)'
<1>1. CASE stream[l] > 0
  BY <1>1 DEF Held
<1>2. CASE \E f \in wal : l \in ToSet(f.listings)
  BY <1>2 DEF Held
<1>3. CASE \E z \in lost : z.listing = l
  BY <1>3 DEF Held
<1>4. CASE \E i \in Jobs : job[i].at \in {"publish", "single"} /\ l \in InHand(i)
  BY <1>4 DEF Held, InHand
<1>. QED
  BY <1>1, <1>2, <1>3, <1>4 DEF Held

LEMMA ReplayFileKeeps ==
  ASSUME LegacyInv, ReplayFile
  PROVE  LegacyInv'
<1>0. /\ LegacyTyped /\ ProcessOK /\ process = "starting"
      /\ UNCHANGED <<mode, process, job, seen, quiet, lost>>
  BY DEF LegacyInv, ReplayFile
<1>1. PICK f \in wal, done \in Seq(Listings) :
         /\ stream' = Added(stream, done)
         /\ \/ done = f.listings /\ wal' = (wal \ {f}) \cup {[f EXCEPT !.sent = TRUE]}
            \/ UNCHANGED wal
         /\ scrapeFaults' \in {scrapeFaults, scrapeFaults + 1}
  <2>1. PICK f \in wal \ skipped :
           \/ /\ stream' = Added(stream, f.listings)
              /\ wal' = (wal \ {f}) \cup {[f EXCEPT !.sent = TRUE]}
              /\ UNCHANGED scrapeFaults
           \/ /\ Fault
              /\ \E done \in PartsOf(f.listings) : stream' = Added(stream, done)
              /\ UNCHANGED wal
    BY DEF ReplayFile
  <2>2. f.listings \in Seq(Listings)
    BY WalListings
  <2>3. CASE /\ stream' = Added(stream, f.listings)
             /\ wal' = (wal \ {f}) \cup {[f EXCEPT !.sent = TRUE]}
             /\ UNCHANGED scrapeFaults
    BY <2>2, <2>3
  <2>4. CASE /\ Fault
             /\ \E done \in PartsOf(f.listings) : stream' = Added(stream, done)
             /\ UNCHANGED wal
    <3>1. PICK done \in PartsOf(f.listings) : stream' = Added(stream, done)
      BY <2>4
    <3>2. done \in Seq(Listings)
      BY <2>2, PartsTypes
    <3>. QED
      BY <2>4, <3>1, <3>2 DEF Fault
  <2>. QED
    BY <2>1, <2>3, <2>4
<1>2. /\ stream' \in [Listings -> Nat] /\ \A l \in Listings : stream[l] > 0 => stream'[l] > 0
      /\ \A l \in ToSet(done) : stream'[l] > 0
  <2>1. stream \in [Listings -> Nat]
    BY <1>0 DEF LegacyTyped
  <2>2. /\ stream' \in [Listings -> Nat] /\ \A l \in Listings : stream[l] <= stream'[l]
        /\ \A l \in ToSet(done) : stream'[l] > 0
    BY <1>1, <2>1, AddedTypes
  <2>. QED
    BY <2>1, <2>2
<1>3. wal \subseteq [listings : Seq(Listings), sent : BOOLEAN]
  BY <1>0 DEF LegacyTyped
<1>. DEFINE g == [f EXCEPT !.sent = TRUE]
<1>4. g \in [listings : Seq(Listings), sent : BOOLEAN] /\ g.listings = f.listings
  BY <1>3
<1>5. wal' \subseteq [listings : Seq(Listings), sent : BOOLEAN]
  BY <1>1, <1>3, <1>4
<1>6. LegacyTyped'
  BY <1>0, <1>1, <1>2, <1>5 DEF LegacyTyped
<1>7. ProcessOK'
  BY <1>0 DEF ProcessOK
<1>8. ASSUME NEW l \in seen PROVE Held(l)'
  <2>1. l \in Listings /\ Held(l)
    BY <1>0 DEF LegacyInv, LegacyTyped
  <2>2. \A h \in wal : \E k \in wal' : k.listings = h.listings
    BY <1>1, <1>4
  <2>. QED
    BY <1>0, <1>2, <2>1, <2>2, HeldStays
<1>9. ASSUME NEW h \in wal', h.sent, NEW l \in ToSet(h.listings) PROVE stream'[l] > 0
  <2>1. CASE h \in wal
    <3>1. l \in Listings /\ stream[l] > 0
      BY <1>9, <2>1, WalListings DEF LegacyInv
    <3>. QED
      BY <1>2, <3>1
  <2>2. CASE h = g /\ done = f.listings
    BY <1>2, <1>4, <1>9, <2>2
  <2>. QED
    BY <1>1, <2>1, <2>2
<1>. QED
  BY <1>0, <1>6, <1>7, <1>8, <1>9 DEF LegacyInv

LEMMA RemoveFileKeeps ==
  ASSUME LegacyInv, RemoveFile
  PROVE  LegacyInv'
<1>0. /\ LegacyTyped /\ ProcessOK
      /\ UNCHANGED <<mode, process, job, seen, stream, quiet, scrapeFaults, lost>>
  BY DEF LegacyInv, RemoveFile
<1>1. PICK f \in wal : f.sent /\ wal' = wal \ {f}
  BY DEF RemoveFile
<1>2. LegacyTyped' /\ ProcessOK'
  BY <1>0, <1>1 DEF LegacyTyped, ProcessOK
<1>3. \A l \in ToSet(f.listings) : stream[l] > 0
  BY <1>1 DEF LegacyInv
<1>4. ASSUME NEW l \in seen PROVE Held(l)'
  <2>1. l \in Listings /\ Held(l)
    BY <1>0 DEF LegacyInv, LegacyTyped
  <2>2. \A h \in wal : l \in ToSet(h.listings) => stream'[l] > 0 \/ \E k \in wal' : k.listings = h.listings
    BY <1>0, <1>1, <1>3
  <2>. QED
    BY <1>0, <2>1, <2>2, HeldStays
<1>. QED
  BY <1>0, <1>1, <1>2, <1>4 DEF LegacyInv

LEMMA StartCycleKeeps ==
  ASSUME LegacyInv, StartCycle
  PROVE  LegacyInv'
<1>0. /\ LegacyTyped /\ ProcessOK /\ process \in {"starting", "between"} /\ process' = "cycle"
      /\ job' = [j \in Jobs |-> Queued] /\ quiet' = quiet + 1 /\ seen' \subseteq seen
      /\ UNCHANGED <<mode, stream, wal, scrapeFaults, lost>>
  BY DEF LegacyInv, StartCycle
<1>1. LegacyTyped'
  BY <1>0, QueuedFacts DEF LegacyTyped
<1>2. ProcessOK'
  BY <1>0, QueuedFacts DEF ProcessOK
<1>3. \A j \in Jobs : job[j].at \in {"queued", "done"}
  BY <1>0 DEF ProcessOK
<1>4. \A l \in seen : Held(l)'
  BY <1>0, <1>3 DEF LegacyInv, Held
<1>. QED
  BY <1>0, <1>1, <1>2, <1>4 DEF LegacyInv

LEMMA CrashKeeps ==
  ASSUME LegacyInv, Crash
  PROVE  LegacyInv'
<1>. DEFINE mine == UNION {InHand(j) : j \in Jobs}
<1>0. /\ LegacyTyped /\ process' = "stopped" /\ scrapeFaults' = scrapeFaults + 1
      /\ job' = [j \in Jobs |-> Queued]
      /\ lost' = lost \cup {[listing |-> l, by |-> "crash"] : l \in mine}
      /\ UNCHANGED <<mode, seen, stream, wal, quiet>>
  BY DEF LegacyInv, Crash, Fault
<1>1. mine \subseteq Listings
  <2>1. ASSUME NEW j \in Jobs PROVE InHand(j) \subseteq Listings
    <3>1. job[j].batch \in Seq(Listings) /\ job[j].rest \in Seq(Listings) /\ job[j].failed \in Seq(Listings)
      BY <1>0 DEF LegacyTyped, JobRecord
    <3>2. ToSet(job[j].batch) \subseteq Listings /\ ToSet(job[j].rest) \subseteq Listings
      BY <3>1, RangeOfSeq DEF ToSet, Range
    <3>3. ToSet(job[j].failed) \subseteq Listings
      BY <3>1, RangeOfSeq DEF ToSet, Range
    <3>. QED
      BY <3>2, <3>3 DEF InHand
  <2>. QED
    BY <2>1
<1>2. LegacyTyped'
  <2>1. \A z \in lost' : z.listing \in Listings
    <3>. HIDE DEF mine
    <3>. QED
      BY <1>0, <1>1 DEF LegacyTyped
  <2>2. job' \in [Jobs -> JobRecord]
    BY <1>0, QueuedFacts
  <2>. QED
    BY <1>0, <2>1, <2>2 DEF LegacyTyped
<1>3. ProcessOK'
  BY <1>0, QueuedFacts DEF ProcessOK
<1>4. ASSUME NEW l \in seen PROVE Held(l)'
  <2>1. Held(l)
    BY DEF LegacyInv
  <2>2. CASE \E j \in Jobs : job[j].at \in {"publish", "single"} /\ l \in InHand(j)
    <3>1. l \in mine
      BY <2>2
    <3>2. [listing |-> l, by |-> "crash"] \in lost'
      BY <1>0, <3>1
    <3>. QED
      BY <3>2 DEF Held
  <2>3. CASE ~\E j \in Jobs : job[j].at \in {"publish", "single"} /\ l \in InHand(j)
    <3>. HIDE DEF mine
    <3>. QED
      BY <1>0, <2>1, <2>3 DEF Held
  <2>. QED
    BY <2>2, <2>3
<1>5. \A f \in wal' : f.sent => \A l \in ToSet(f.listings) : stream'[l] > 0
  BY <1>0 DEF LegacyInv
<1>. QED
  BY <1>0, <1>2, <1>3, <1>4, <1>5 DEF LegacyInv

LEMMA RestartKeeps ==
  ASSUME LegacyInv, Restart
  PROVE  LegacyInv'
<1>. DEFINE again(f) == [f EXCEPT !.sent = FALSE]
<1>0. /\ LegacyTyped /\ ProcessOK /\ process = "stopped" /\ process' = "starting"
      /\ job' = [j \in Jobs |-> Queued] /\ wal' = {again(f) : f \in wal}
      /\ UNCHANGED <<mode, seen, stream, quiet, scrapeFaults, lost>>
  BY DEF LegacyInv, Restart
<1>1. \A f \in wal : /\ again(f) \in [listings : Seq(Listings), sent : BOOLEAN]
                     /\ again(f).listings = f.listings /\ ~again(f).sent
  BY <1>0 DEF LegacyTyped
<1>. HIDE DEF again
<1>2. LegacyTyped' /\ \A f \in wal' : ~f.sent
  BY <1>0, <1>1, QueuedFacts DEF LegacyTyped
<1>3. ProcessOK'
  BY <1>0, QueuedFacts DEF ProcessOK
<1>4. \A j \in Jobs : job[j].at \in {"queued", "done"}
  BY <1>0 DEF ProcessOK
<1>5. ASSUME NEW l \in seen PROVE Held(l)'
  <2>1. Held(l)
    BY DEF LegacyInv
  <2>2. CASE stream[l] > 0
    BY <1>0, <2>2 DEF Held
  <2>3. CASE \E f \in wal : l \in ToSet(f.listings)
    <3>1. PICK f \in wal : l \in ToSet(f.listings)
      BY <2>3
    <3>2. again(f) \in wal' /\ l \in ToSet(again(f).listings)
      BY <1>0, <1>1, <3>1
    <3>. QED
      BY <3>2 DEF Held
  <2>4. CASE \E z \in lost : z.listing = l
    BY <1>0, <2>4 DEF Held
  <2>. QED
    BY <1>4, <2>1, <2>2, <2>3, <2>4 DEF Held
<1>. QED
  BY <1>0, <1>2, <1>3, <1>5 DEF LegacyInv

LEMMA LegacyNextInv == LegacyInv /\ [ScraperNext]_scraperVars => LegacyInv'
<1>. SUFFICES ASSUME LegacyInv, [ScraperNext]_scraperVars PROVE LegacyInv'
  OBVIOUS
<1>1. ASSUME UNCHANGED <<mode, job, seen, stream, wal, quiet, scrapeFaults, lost>>,
             process' \in {"starting", "cycle", "between", "stopped"},
             process' # "cycle" => \A j \in Jobs : job[j].at \in {"queued", "done"}
      PROVE  LegacyInv'
  <2>1. LegacyTyped' /\ ProcessOK'
    BY <1>1 DEF LegacyInv, LegacyTyped, ProcessOK
  <2>2. \A l \in seen : Held(l)'
    BY <1>1 DEF LegacyInv, Held, InHand
  <2>. QED
    BY <1>1, <2>1, <2>2 DEF LegacyInv
<1>2. CASE EndCycle
  BY <1>1, <1>2 DEF EndCycle
<1>3. process \in {"starting", "cycle", "between", "stopped"}
      /\ (process # "cycle" => \A j \in Jobs : job[j].at \in {"queued", "done"})
  BY DEF LegacyInv, LegacyTyped, ProcessOK
<1>4. CASE Signal
  BY <1>1, <1>3, <1>4 DEF Signal
<1>5. CASE LeaveLoop
  BY <1>1, <1>3, <1>5 DEF LeaveLoop
<1>6. CASE UNCHANGED scraperVars
  BY <1>1, <1>3, <1>6 DEF scraperVars
<1>7. ASSUME NEW j \in Jobs, Crawl(j) \/ CrawlFails(j) \/ AskRedis(j) \/ PublishChunk(j) \/ PublishOne(j)
      PROVE  LegacyInv'
  BY <1>7, CrawlKeeps, CrawlFailsKeeps, AskRedisKeeps, PublishChunkKeeps, PublishOneKeeps
<1>. QED
  BY <1>2, <1>4, <1>5, <1>6, <1>7, ReplayFileKeeps, RemoveFileKeeps, StartCycleKeeps, CrashKeeps, RestartKeeps
     DEF ScraperNext

-----------------------------------------------------------------------------
(* scraper/main.py: nothing is published twice *)

\* Where all jobs are empty the filter's state is simple.
LEMMA OnceAtRest ==
  ASSUME LegacyInv, OnceInv, mode' = mode, scrapeFaults' = scrapeFaults,
         \A j \in Jobs : job'[j].at # "single" /\ job'[j].at # "publish" /\ job'[j].batch = <<>>,
         wal = {} => wal' = {}, stream' = stream,
         seen \subseteq seen' \/ (mode # "search" /\ scrapeFaults = 0 => \A l \in Listings : stream[l] = 0),
         mode # "search" /\ scrapeFaults = 0 => Recognized'
  PROVE  OnceInv'
<1>. SUFFICES ASSUME mode # "search", scrapeFaults = 0 PROVE Faultless' /\ Recognized' /\ SomethingFound'
  BY DEF OnceInv
<1>0. Faultless /\ SomethingFound
  BY DEF OnceInv
<1>1. stream \in [Listings -> Nat]
  BY DEF LegacyInv, LegacyTyped
<1>2. \A j \in Jobs : IsInjective(job'[j].batch) /\ ToSet(job'[j].batch) = {}
  BY NoneSet DEF IsInjective
<1>3. \A l \in Listings : stream[l] > 0 => l \in seen'
  BY <1>0, <1>1 DEF Faultless
<1>4. Faultless'
  BY <1>0, <1>2, <1>3 DEF Faultless
<1>5. SomethingFound'
  BY <1>0 DEF SomethingFound
<1>. QED
  BY <1>4, <1>5

LEMMA StartCycleOnce ==
  ASSUME LegacyInv, OnceInv, StartCycle
  PROVE  OnceInv'
<1>0. /\ process \in {"starting", "between"} /\ process' = "cycle" /\ recent' = {}
      /\ job' = [j \in Jobs |-> Queued] /\ quiet' = quiet + 1
      /\ seen' = IF quiet >= DedupTtl THEN {} ELSE seen
      /\ UNCHANGED <<mode, stream, wal, scrapeFaults>>
  BY DEF StartCycle
<1>1. quiet \in Nat /\ stream \in [Listings -> Nat]
  BY DEF LegacyInv, LegacyTyped
<1>2. \A j \in Jobs : job'[j] = Queued
  BY <1>0
<1>3. ASSUME mode # "search", scrapeFaults = 0, quiet # 0 PROVE \A l \in Listings : stream[l] = 0
  BY <1>0, <1>3 DEF OnceInv, Recognized
<1>4. mode # "search" /\ scrapeFaults = 0 /\ quiet >= DedupTtl => \A l \in Listings : stream[l] = 0
  <2>1. quiet >= DedupTtl => quiet # 0
    BY <1>1, LegacyAssumption
  <2>. QED
    BY <1>3, <2>1
<1>5. ASSUME mode # "search", scrapeFaults = 0 PROVE Recognized'
  <2>1. CASE \A l \in Listings : stream[l] = 0
    BY <1>0, <2>1 DEF Recognized
  <2>2. CASE ~\A l \in Listings : stream[l] = 0
    <3>1. ~\A j \in Jobs : Crawled[j] = <<>>
      BY <1>5, <2>2 DEF OnceInv, SomethingFound
    <3>2. PICK j \in Jobs : Crawled[j] # <<>>
      BY <3>1
    <3>3. job'[j].at = "queued"
      BY <1>2, QueuedFacts
    <3>. QED
      BY <1>0, <3>2, <3>3 DEF Recognized
  <2>. QED
    BY <2>1, <2>2
<1>6. seen \subseteq seen' \/ (mode # "search" /\ scrapeFaults = 0 => \A l \in Listings : stream[l] = 0)
  BY <1>0, <1>4
<1>7. \A j \in Jobs : job'[j].at # "single" /\ job'[j].at # "publish" /\ job'[j].batch = <<>>
  BY <1>2, QueuedFacts
<1>. QED
  BY <1>0, <1>5, <1>6, <1>7, OnceAtRest

\* Between two cycles nothing is in a job's hands.
LEMMA BetweenCyclesOnce ==
  ASSUME LegacyInv, OnceInv, UNCHANGED <<mode, stream, seen, quiet, scrapeFaults>>, wal = {} => wal' = {},
         \A j \in Jobs : job[j].at \in {"queued", "done"},
         \A j \in Jobs : job'[j] \in {job[j], Queued},
         process # "cycle" \/ \A j \in Jobs : job[j].at = "done"
  PROVE  OnceInv'
<1>1. \A j \in Jobs : job[j].batch = <<>>
  BY DEF LegacyInv, ProcessOK, JobOK
<1>2. \A j \in Jobs : job'[j].at # "single" /\ job'[j].at # "publish" /\ job'[j].batch = <<>>
  BY <1>1, QueuedFacts
<1>3. ASSUME mode # "search", scrapeFaults = 0 PROVE Recognized'
  <2>1. quiet = 0 \/ \A l \in Listings : stream[l] = 0
    BY <1>3 DEF OnceInv, Recognized
  <2>. QED
    BY <2>1 DEF Recognized
<1>. QED
  BY <1>2, <1>3, OnceAtRest

LEMMA CrawlOnce ==
  ASSUME LegacyInv, OnceInv, NEW j \in Jobs, Crawl(j)
  PROVE  OnceInv'
<1>. SUFFICES ASSUME mode # "search", scrapeFaults = 0 PROVE Faultless' /\ Recognized' /\ SomethingFound'
  BY DEF OnceInv, Crawl
<1>. DEFINE new == FirstSights(Crawled[j], recent)
            b == [Queued EXCEPT !.batch = new, !.at = IF new = <<>> THEN "done" ELSE "ask"]
<1>0. /\ Faultless /\ Recognized /\ SomethingFound
      /\ job \in [Jobs -> JobRecord] /\ process = "cycle" /\ job[j].at = "queued"
      /\ job' = [job EXCEPT ![j] = b] /\ recent' = recent \cup ToSet(new)
      /\ UNCHANGED <<process, seen, stream, wal, quiet>>
  BY DEF LegacyInv, LegacyTyped, OnceInv, Crawl, MayStart
<1>1. Crawled[j] \in Seq(Listings)
  BY LegacyAssumption, ElementOfSeq, LenProperties DEF Jobs
<1>2. /\ IsInjective(new) /\ ToSet(new) \cap recent = {}
      /\ Crawled[j] # <<>> /\ recent = {} => new # <<>>
      /\ Crawled[j] = <<>> => new = <<>>
  <2>. HIDE DEF new
  <2>1. /\ IsInjective(FirstSights(Crawled[j], recent))
        /\ ToSet(FirstSights(Crawled[j], recent)) \subseteq ToSet(Crawled[j]) \ recent
        /\ Crawled[j] # <<>> /\ recent = {} => FirstSights(Crawled[j], recent) # <<>>
        /\ Crawled[j] = <<>> => FirstSights(Crawled[j], recent) = <<>>
    BY <1>1, FirstSightsTypes
  <2>. QED
    BY <2>1 DEF new
<1>. HIDE DEF new
<1>3. b.batch = new /\ b.at = IF new = <<>> THEN "done" ELSE "ask"
  BY DEF Queued
<1>. HIDE DEF b
<1>4. job'[j] = b /\ \A i \in Jobs \ {j} : job'[i] = job[i]
  BY <1>0
<1>5. \A i \in Jobs : /\ IsInjective(job'[i].batch) /\ ToSet(job'[i].batch) \subseteq recent'
                      /\ job'[i].at # "single"
                      /\ job'[i].at = "publish" => i # j /\ job[i].at = "publish" /\ job'[i].batch = job[i].batch
  BY <1>0, <1>2, <1>3, <1>4 DEF Faultless
<1>6. ASSUME NEW i \in Jobs, NEW k \in Jobs, i # k PROVE ToSet(job'[i].batch) \cap ToSet(job'[k].batch) = {}
  <2>1. \A m \in Jobs : ToSet(job[m].batch) \subseteq recent
    BY <1>0 DEF Faultless
  <2>2. CASE i = j
    BY <1>2, <1>3, <1>4, <1>6, <2>1, <2>2
  <2>3. CASE k = j
    BY <1>2, <1>3, <1>4, <1>6, <2>1, <2>3
  <2>4. CASE i # j /\ k # j
    BY <1>0, <1>4, <1>6, <2>4 DEF Faultless
  <2>. QED
    BY <2>2, <2>3, <2>4
<1>7. Faultless'
  BY <1>0, <1>5, <1>6 DEF Faultless
<1>8. Recognized'
  <2>1. CASE quiet = 0 \/ \A l \in Listings : stream[l] = 0
    BY <1>0, <2>1 DEF Recognized
  <2>2. CASE new # <<>>
    BY <1>0, <1>3, <1>4, <2>2 DEF Recognized
  <2>3. CASE \E i \in Jobs : job[i].at = "ask"
    BY <1>0, <1>4, <2>3 DEF Recognized
  <2>4. CASE new = <<>> /\ recent = {} /\ \E i \in Jobs : job[i].at = "queued" /\ Crawled[i] # <<>>
    <3>1. PICK i \in Jobs : job[i].at = "queued" /\ Crawled[i] # <<>>
      BY <2>4
    <3>2. i # j
      BY <1>2, <2>4, <3>1
    <3>3. recent' = {}
      BY <1>0, <2>4, NoneSet
    <3>. QED
      BY <1>0, <1>4, <3>1, <3>2, <3>3 DEF Recognized
  <2>. QED
    BY <1>0, <2>1, <2>2, <2>3, <2>4 DEF Recognized
<1>9. SomethingFound'
  BY <1>0, <1>2, <1>3, <1>4 DEF SomethingFound
<1>. QED
  BY <1>7, <1>8, <1>9

LEMMA AskRedisOnce ==
  ASSUME LegacyInv, OnceInv, NEW j \in Jobs, AskRedis(j), mode' # "search", scrapeFaults' = 0
  PROVE  Faultless' /\ Recognized' /\ SomethingFound'
<1>. DEFINE new == Without(job[j].batch, seen)
            b == [job[j] EXCEPT !.batch = new, !.at = IF new = <<>> THEN "done" ELSE "publish"]
<1>0. /\ LegacyTyped /\ ProcessOK /\ job[j].at = "ask" /\ job[j] \in JobRecord
      /\ UNCHANGED <<mode, process, recent, stream, wal>>
  BY DEF LegacyInv, LegacyTyped, AskRedis
<1>1. /\ seen' = seen \cup ToSet(job[j].batch) /\ quiet' = 0 /\ scrapeFaults = 0
      /\ job' = [job EXCEPT ![j].batch = new,
                            ![j].at = IF new = <<>> THEN "done" ELSE "publish"]
  <2>1. ~Fault
    BY <1>0 DEF Fault, LegacyTyped
  <2>. QED
    BY <2>1 DEF AskRedis
<1>2. Faultless /\ SomethingFound
  BY <1>0, <1>1 DEF OnceInv
<1>3. job' = [job EXCEPT ![j] = b]
  BY <1>0, <1>1 DEF LegacyTyped
<1>4. IsInjective(new) /\ ToSet(new) = ToSet(job[j].batch) \ seen
  <2>1. job[j].batch \in Seq(Listings) /\ IsInjective(job[j].batch)
    BY <1>0, <1>2 DEF JobRecord, Faultless
  <2>2. Range(new) = Range(job[j].batch) \ seen
    BY <2>1, WithoutRange
  <2>3. IsInjective(new)
    BY <2>1, WithoutInjective
  <2>. QED
    BY <2>2, <2>3 DEF ToSet, Range
<1>. HIDE DEF new
<1>5. b.batch = new /\ b.at = IF new = <<>> THEN "done" ELSE "publish"
  BY <1>0 DEF JobRecord
<1>. HIDE DEF b
<1>6. job'[j] = b /\ \A i \in Jobs \ {j} : job'[i] = job[i]
  BY <1>0, <1>3 DEF LegacyTyped
<1>7. \A i \in Jobs : ToSet(job'[i].batch) \subseteq ToSet(job[i].batch) /\ IsInjective(job'[i].batch)
  BY <1>2, <1>4, <1>5, <1>6 DEF Faultless
<1>8. \A i \in Jobs : job'[i].at # "single" /\ (job'[i].at = "publish" => ToSet(job'[i].batch) \subseteq seen' /\ quiet' = 0)
  BY <1>1, <1>2, <1>4, <1>5, <1>6 DEF Faultless
<1>9. ASSUME NEW l \in Listings, stream[l] > 0
      PROVE  l \in seen /\ \A i \in Jobs : job'[i].at = "publish" => l \notin ToSet(job'[i].batch)
  BY <1>2, <1>4, <1>5, <1>6, <1>9 DEF Faultless
<1>10. Faultless'
  <2>1. \A i, k \in Jobs : i # k => ToSet(job'[i].batch) \cap ToSet(job'[k].batch) = {}
    BY <1>2, <1>7 DEF Faultless
  <2>. QED
    BY <1>0, <1>1, <1>2, <1>7, <1>8, <1>9, <2>1 DEF Faultless
<1>11. Recognized'
  BY <1>1 DEF Recognized
<1>12. SomethingFound'
  <2>1. job[j].batch # <<>>
    BY <1>0 DEF ProcessOK, JobOK
  <2>2. ~\A i \in Jobs : Crawled[i] = <<>>
    BY <1>2, <2>1 DEF SomethingFound
  <2>. QED
    BY <2>2 DEF SomethingFound
<1>. QED
  BY <1>10, <1>11, <1>12

LEMMA PublishChunkOnce ==
  ASSUME LegacyInv, OnceInv, NEW j \in Jobs, PublishChunk(j), mode' # "search", scrapeFaults' = 0
  PROVE  Faultless' /\ Recognized' /\ SomethingFound'
<1>. DEFINE batch == job[j].batch
            b == [job[j] EXCEPT !.batch = After(batch), !.at = IF After(batch) = <<>> THEN "done" ELSE "publish"]
<1>0. /\ LegacyTyped /\ ProcessOK /\ job[j].at = "publish" /\ job[j] \in JobRecord
      /\ UNCHANGED <<mode, process, recent, seen, wal, quiet>>
  BY DEF LegacyInv, LegacyTyped, PublishChunk
<1>1. /\ stream' = Added(stream, Chunk(batch)) /\ scrapeFaults = 0
      /\ job' = [job EXCEPT ![j].batch = After(batch),
                            ![j].at = IF After(batch) = <<>> THEN "done" ELSE "publish"]
  <2>1. ~Fault
    BY <1>0 DEF Fault, LegacyTyped
  <2>. QED
    BY <2>1 DEF PublishChunk
<1>2. Faultless /\ SomethingFound
  BY <1>0, <1>1 DEF OnceInv
<1>3. job' = [job EXCEPT ![j] = b]
  BY <1>0, <1>1 DEF LegacyTyped
<1>4. batch \in Seq(Listings) /\ batch # <<>> /\ IsInjective(batch)
  BY <1>0, <1>2 DEF JobRecord, ProcessOK, JobOK, Faultless
<1>. HIDE DEF batch
<1>5. /\ Chunk(batch) \in Seq(Listings)
      /\ ToSet(batch) = ToSet(Chunk(batch)) \cup ToSet(After(batch))
      /\ IsInjective(Chunk(batch)) /\ IsInjective(After(batch))
      /\ ToSet(Chunk(batch)) \cap ToSet(After(batch)) = {}
  BY <1>4, ChunkTypes
<1>6. b.batch = After(batch) /\ b.at = IF After(batch) = <<>> THEN "done" ELSE "publish"
  BY <1>0 DEF JobRecord
<1>. HIDE DEF b
<1>7. job'[j] = b /\ \A i \in Jobs \ {j} : job'[i] = job[i]
  BY <1>0, <1>3 DEF LegacyTyped
<1>8. \A i \in Jobs : ToSet(job'[i].batch) \subseteq ToSet(job[i].batch) /\ IsInjective(job'[i].batch)
  BY <1>2, <1>5, <1>6, <1>7 DEF Faultless, batch
<1>9. \A i \in Jobs : /\ job'[i].at # "single"
                      /\ job'[i].at = "publish" => job[i].at = "publish" /\ ToSet(job'[i].batch) \subseteq seen
  BY <1>0, <1>2, <1>6, <1>7, <1>8 DEF Faultless
<1>10. stream \in [Listings -> Nat]
  BY <1>0 DEF LegacyTyped
<1>11. /\ stream' \in [Listings -> Nat]
       /\ \A l \in Listings \ ToSet(Chunk(batch)) : stream'[l] = stream[l]
       /\ \A l \in Listings : stream'[l] <= stream[l] + 1
  <2>1. /\ Added(stream, Chunk(batch)) \in [Listings -> Nat]
        /\ \A l \in Listings \ ToSet(Chunk(batch)) : Added(stream, Chunk(batch))[l] = stream[l]
        /\ IsInjective(Chunk(batch)) => \A l \in Listings : Added(stream, Chunk(batch))[l] <= stream[l] + 1
    BY <1>5, <1>10, AddedTypes
  <2>. QED
    BY <1>1, <1>5, <2>1
<1>12. ASSUME NEW l \in Listings
       PROVE  /\ stream'[l] <= 1
              /\ stream'[l] > 0 =>
                   l \in seen /\ \A i \in Jobs : job'[i].at = "publish" => l \notin ToSet(job'[i].batch)
  <2>1. CASE l \in ToSet(Chunk(batch))
    <3>1. l \in ToSet(batch) /\ l \in seen
      BY <1>0, <1>2, <1>5, <2>1 DEF Faultless, batch
    <3>2. ~(stream[l] > 0)
      BY <1>0, <1>2, <3>1 DEF Faultless, batch
    <3>3. stream'[l] <= 1
      BY <1>10, <1>11, <3>2
    <3>4. ASSUME NEW i \in Jobs PROVE l \notin ToSet(job'[i].batch)
      <4>1. CASE i = j
        BY <1>5, <1>6, <1>7, <2>1, <4>1
      <4>2. CASE i # j
        BY <1>2, <1>7, <3>1, <4>2 DEF Faultless, batch
      <4>. QED
        BY <4>1, <4>2
    <3>. QED
      BY <3>1, <3>3, <3>4
  <2>2. CASE l \notin ToSet(Chunk(batch))
    <3>1. stream'[l] = stream[l]
      BY <1>11, <2>2
    <3>2. stream[l] <= 1 /\ (stream[l] > 0 => l \in seen /\ \A i \in Jobs : job[i].at = "publish" => l \notin ToSet(job[i].batch))
      BY <1>2 DEF Faultless
    <3>3. stream[l] > 0 => \A i \in Jobs : job'[i].at = "publish" => l \notin ToSet(job'[i].batch)
      BY <1>8, <1>9, <3>2
    <3>. QED
      BY <3>1, <3>2, <3>3
  <2>. QED
    BY <2>1, <2>2
<1>13. quiet' = 0
  BY <1>0, <1>2 DEF Faultless
<1>14. Faultless'
  <2>1. \A i, k \in Jobs : i # k => ToSet(job'[i].batch) \cap ToSet(job'[k].batch) = {}
    BY <1>2, <1>8 DEF Faultless
  <2>2. \A i \in Jobs : ToSet(job'[i].batch) \subseteq recent'
    BY <1>0, <1>2, <1>8 DEF Faultless
  <2>3. wal' = {}
    BY <1>0, <1>2 DEF Faultless
  <2>. QED
    BY <1>0, <1>8, <1>9, <1>12, <1>13, <2>1, <2>2, <2>3 DEF Faultless
<1>15. Recognized'
  BY <1>13 DEF Recognized
<1>16. SomethingFound'
  <2>1. ~\A i \in Jobs : Crawled[i] = <<>>
    BY <1>2, <1>4 DEF SomethingFound, batch
  <2>. QED
    BY <2>1 DEF SomethingFound
<1>. QED
  BY <1>14, <1>15, <1>16

LEMMA OnceNextInv == LegacyInv /\ OnceInv /\ [ScraperNext]_scraperVars => OnceInv'
<1>. SUFFICES ASSUME LegacyInv, OnceInv, [ScraperNext]_scraperVars PROVE OnceInv'
  OBVIOUS
<1>0. scrapeFaults \in Nat /\ job \in [Jobs -> JobRecord]
  BY DEF LegacyInv, LegacyTyped
<1>1. ASSUME Fault PROVE OnceInv'
  BY <1>0, <1>1 DEF Fault, OnceInv
<1>2. process # "cycle" => \A j \in Jobs : job[j].at \in {"queued", "done"}
  BY DEF LegacyInv, ProcessOK
<1>3. CASE ReplayFile \/ RemoveFile
  <2>1. wal # {} /\ mode' = mode /\ (UNCHANGED scrapeFaults \/ Fault)
    BY <1>3 DEF ReplayFile, RemoveFile
  <2>2. ~(mode # "search" /\ scrapeFaults = 0)
    BY <2>1 DEF OnceInv, Faultless
  <2>. QED
    BY <1>1, <2>1, <2>2 DEF OnceInv
<1>4. CASE EndCycle
  BY <1>2, <1>4, BetweenCyclesOnce DEF EndCycle
<1>5. CASE LeaveLoop
  BY <1>2, <1>5, BetweenCyclesOnce DEF LeaveLoop
<1>6. CASE Signal \/ UNCHANGED scraperVars
  BY <1>6 DEF Signal, scraperVars, OnceInv, Faultless, Recognized, SomethingFound
<1>7. CASE Crash
  BY <1>1, <1>7 DEF Crash
<1>8. CASE Restart
  <2>1. /\ UNCHANGED <<mode, stream, seen, quiet, scrapeFaults>> /\ process # "cycle"
        /\ \A j \in Jobs : job'[j] = Queued
        /\ wal = {} => wal' = {}
    BY <1>8 DEF Restart
  <2>. QED
    BY <1>2, <2>1, BetweenCyclesOnce
<1>9. ASSUME NEW j \in Jobs, Crawl(j) \/ CrawlFails(j) \/ AskRedis(j) \/ PublishChunk(j) \/ PublishOne(j)
      PROVE  OnceInv'
  <2>1. CASE Crawl(j)
    BY <2>1, CrawlOnce
  <2>2. CASE CrawlFails(j)
    BY <1>1, <2>2 DEF CrawlFails
  <2>3. CASE AskRedis(j)
    BY <2>3, AskRedisOnce DEF OnceInv
  <2>4. CASE PublishChunk(j)
    BY <2>4, PublishChunkOnce DEF OnceInv
  <2>5. CASE PublishOne(j)
    <3>1. job[j].at = "single" /\ mode' = mode /\ (UNCHANGED scrapeFaults \/ Fault)
      BY <2>5 DEF PublishOne
    <3>2. ~(mode # "search" /\ scrapeFaults = 0)
      BY <3>1 DEF OnceInv, Faultless
    <3>. QED
      BY <1>1, <3>1, <3>2 DEF OnceInv
  <2>. QED
    BY <1>9, <2>1, <2>2, <2>3, <2>4, <2>5
<1>. QED
  BY <1>3, <1>4, <1>5, <1>6, <1>7, <1>8, <1>9, StartCycleOnce DEF ScraperNext

\* What a listing's holders are is what MarkedIsKept counts.
LEMMA LegacyHolds == LegacyInv /\ OnceInv => MarkedIsKept /\ PublishedOnce
<1>. SUFFICES ASSUME LegacyInv, OnceInv PROVE MarkedIsKept /\ PublishedOnce
  OBVIOUS
<1>1. ASSUME NEW l \in seen
      PROVE  l \in OnStream \cup InWal \cup {z.listing : z \in lost} \cup UNION {InHand(j) : j \in Jobs}
  <2>1. l \in Listings /\ Held(l)
    BY DEF LegacyInv, LegacyTyped
  <2>2. CASE stream[l] > 0
    BY <2>1, <2>2 DEF OnStream
  <2>3. CASE \E f \in wal : l \in ToSet(f.listings)
    BY <2>3 DEF InWal
  <2>4. CASE \E z \in lost : z.listing = l
    BY <2>4
  <2>5. CASE \E j \in Jobs : job[j].at \in {"publish", "single"} /\ l \in InHand(j)
    BY <2>5
  <2>. QED
    BY <2>1, <2>2, <2>3, <2>4, <2>5 DEF Held
<1>2. MarkedIsKept
  BY <1>1 DEF MarkedIsKept, Unaccounted
<1>3. PublishedOnce
  BY DEF PublishedOnce, OnceInv, Faultless
<1>. QED
  BY <1>2, <1>3

\* A file that leaves the WAL was sent, and a sent file is on the stream.
LEMMA LegacySteps ==
  ASSUME LegacyInv, [ScraperNext]_scraperVars, NEW f \in wal, \A g \in wal' : g.listings # f.listings
  PROVE  ToSet(f.listings) \subseteq OnStream
<1>0. wal \subseteq [listings : Seq(Listings), sent : BOOLEAN]
  BY DEF LegacyInv, LegacyTyped
<1>1. CASE f.sent
  BY <1>1, WalListings DEF LegacyInv, OnStream
<1>2. f \notin wal'
  OBVIOUS
<1>3. CASE ReplayFile
  <2>1. PICK g \in wal : wal' = wal \/ wal' = (wal \ {g}) \cup {[g EXCEPT !.sent = TRUE]}
    BY <1>3 DEF ReplayFile
  <2>2. g = f /\ [g EXCEPT !.sent = TRUE] \in wal'
    BY <1>2, <2>1
  <2>3. [g EXCEPT !.sent = TRUE].listings = f.listings
    BY <1>0, <2>2
  <2>. QED
    BY <2>2, <2>3
<1>4. CASE RemoveFile
  BY <1>1, <1>2, <1>4 DEF RemoveFile
<1>5. CASE Restart
  <2>1. [f EXCEPT !.sent = FALSE] \in wal' /\ [f EXCEPT !.sent = FALSE].listings = f.listings
    BY <1>0, <1>5 DEF Restart
  <2>. QED
    BY <2>1
<1>6. ASSUME NEW j \in Jobs, PublishOne(j) PROVE FALSE
  <2>1. wal \subseteq wal'
    BY <1>6 DEF PublishOne, GiveUp
  <2>. QED
    BY <1>2, <2>1
<1>7. ASSUME NEW j \in Jobs, Crawl(j) \/ CrawlFails(j) \/ AskRedis(j) \/ PublishChunk(j) PROVE FALSE
  BY <1>2, <1>7 DEF Crawl, CrawlFails, AskRedis, PublishChunk
<1>8. CASE StartCycle \/ EndCycle \/ Signal \/ LeaveLoop \/ Crash \/ UNCHANGED scraperVars
  BY <1>2, <1>8 DEF StartCycle, EndCycle, Signal, LeaveLoop, Crash, scraperVars
<1>. QED
  BY <1>3, <1>4, <1>5, <1>6, <1>7, <1>8 DEF ScraperNext

LegacySpec == ScraperInit /\ [][ScraperNext]_scraperVars

LEMMA LegacyInvariance == LegacySpec => [](LegacyInv /\ OnceInv)
  BY LegacyInitInv, LegacyNextInv, OnceNextInv, PTL DEF LegacySpec

\* Whatever fails, and wherever the process dies, a listing that is marked as
\* seen is on the stream, in the WAL, in a job's hands, or among those known to
\* be lost; and as long as nothing fails none is published twice in the modes
\* that filter (MarkedIsKept and PublishedOnce, about the dedup filter and what
\* publishes after it).
THEOREM ListingsAreKept == LegacySpec => [](MarkedIsKept /\ PublishedOnce)
  BY LegacyInvariance, LegacyHolds, PTL

\* A file leaves the WAL only with all its listings on the stream, also when a
\* replay is cut off between the two (WalLeavesSent, about WAL replay).
THEOREM FilesLeaveSent == LegacySpec => WalLeavesSent
<1>1. LegacyInv /\ [ScraperNext]_scraperVars =>
        [\A f \in wal : (\A g \in wal' : g.listings # f.listings) => ToSet(f.listings) \subseteq OnStream]_scraperVars
  <2>. SUFFICES ASSUME LegacyInv, [ScraperNext]_scraperVars,
                       NEW f \in wal, \A g \in wal' : g.listings # f.listings
                PROVE  ToSet(f.listings) \subseteq OnStream
    OBVIOUS
  <2>. QED
    BY LegacySteps
<1>. QED
  BY <1>1, LegacyInvariance, PTL DEF LegacySpec, WalLeavesSent

-----------------------------------------------------------------------------
(* scraper/: the crawlers, their proxies and the browser *)

\* A sequence of keys that has each of them once.
Once(s) == \A i, j \in DOMAIN s : i # j /\ s[i] = s[j] => s[i] = NoKey
KeysIn(s) == ToSet(s) \ {NoKey}

\* Two of them without a key in common.
LEMMA JoinedOnce ==
  ASSUME NEW S, NEW r \in Seq(S), NEW t \in Seq(S), Once(r), Once(t), KeysIn(r) \cap KeysIn(t) = {}
  PROVE  r \o t \in Seq(S) /\ Once(r \o t) /\ ToSet(r \o t) = ToSet(r) \cup ToSet(t)
<1>0. Len(r) \in Nat /\ Len(t) \in Nat /\ DOMAIN r = 1..Len(r) /\ DOMAIN t = 1..Len(t)
  BY LenProperties
<1>. PICK w : w = r \o t
  OBVIOUS
<1>1. /\ w \in Seq(S) /\ Len(w) = Len(r) + Len(t)
      /\ \A a \in 1..(Len(r) + Len(t)) : w[a] = IF a <= Len(r) THEN r[a] ELSE t[a - Len(r)]
  BY ConcatProperties
<1>2. DOMAIN w = 1..(Len(r) + Len(t))
  BY <1>1, LenProperties
<1>3. \A a \in 1..Len(r) : a \in DOMAIN w /\ w[a] = r[a]
  BY <1>0, <1>1, <1>2
<1>4. ASSUME NEW a \in 1..Len(t)
      PROVE  Len(r) + a \in DOMAIN w /\ w[Len(r) + a] = t[a]
  <2>1. Len(r) + a \in 1..(Len(r) + Len(t)) /\ ~(Len(r) + a <= Len(r)) /\ (Len(r) + a) - Len(r) = a
    BY <1>0
  <2>. QED
    BY <1>1, <1>2, <2>1
<1>5. ASSUME NEW a \in DOMAIN w, a \notin 1..Len(r)
      PROVE  a - Len(r) \in 1..Len(t) /\ w[a] = t[a - Len(r)]
  BY <1>0, <1>1, <1>2, <1>5
<1>6. \A a \in DOMAIN w : w[a] \in ToSet(r) \cup ToSet(t)
  BY <1>0, <1>3, <1>5 DEF ToSet
<1>7. \A a \in 1..Len(r) : r[a] \in ToSet(w)
  BY <1>3 DEF ToSet
<1>8. \A a \in 1..Len(t) : t[a] \in ToSet(w)
  BY <1>4 DEF ToSet
<1>9. ToSet(w) = ToSet(r) \cup ToSet(t)
  <2>1. \A z \in ToSet(w) : z \in ToSet(r) \cup ToSet(t)
    BY <1>6 DEF ToSet
  <2>2. \A z \in ToSet(r) : z \in ToSet(w)
    BY <1>0, <1>7 DEF ToSet
  <2>3. \A z \in ToSet(t) : z \in ToSet(w)
    BY <1>0, <1>8 DEF ToSet
  <2>. QED
    BY <2>1, <2>2, <2>3
<1>10. ASSUME NEW a \in DOMAIN w, NEW b \in DOMAIN w, w[a] = w[b], w[a] # NoKey PROVE a = b
  <2>1. a \in Int /\ b \in Int
    BY <1>0, <1>2
  <2>2. CASE a \in 1..Len(r) /\ b \in 1..Len(r)
    BY <1>0, <1>3, <1>10, <2>2 DEF Once
  <2>3. CASE a \notin 1..Len(r) /\ b \notin 1..Len(r)
    <3>1. a - Len(r) = b - Len(r)
      BY <1>0, <1>5, <1>10, <2>3 DEF Once
    <3>. QED
      BY <1>0, <2>1, <3>1
  <2>0. \A z \in 1..Len(r), v \in 1..Len(t) : r[z] = t[v] => r[z] = NoKey
    BY <1>0 DEF KeysIn, ToSet
  <2>4. CASE a \in 1..Len(r) /\ b \notin 1..Len(r)
    BY <1>3, <1>5, <1>10, <2>0, <2>4
  <2>5. CASE a \notin 1..Len(r) /\ b \in 1..Len(r)
    BY <1>3, <1>5, <1>10, <2>0, <2>5
  <2>. QED
    BY <2>2, <2>3, <2>4, <2>5
<1>11. Once(w)
  BY <1>10 DEF Once
<1>. QED
  BY <1>1, <1>9, <1>11

\* What listings are known by.
KeysOf(n) == {Site[n].items[i].url : i \in DOMAIN Site[n].items}
               \cup {Site[n].items[i].pid : i \in DOMAIN Site[n].items}
Ids == {NoKey} \cup UNION {KeysOf(n) : n \in DOMAIN Site}

\* The new keys of a page are new, and each of them comes once.
LEMMA NewKeysTypes ==
  ASSUME NEW items, items \in Seq(Range(items)), NEW known, NEW S, NEW by,
         \A i \in DOMAIN items : KeyOf(items[i], by) \in S
  PROVE  /\ NewKeys(items, known, by) \in Seq(S) /\ Once(NewKeys(items, known, by))
         /\ KeysIn(NewKeys(items, known, by)) \cap known = {}
         /\ (\A i \in DOMAIN items : KeyOf(items[i], by) # NoKey)
              => NoKey \notin ToSet(NewKeys(items, known, by))
<1>0. Len(items) \in Nat /\ DOMAIN items = 1..Len(items)
  BY LenProperties
<1>. DEFINE key(i) == KeyOf(items[i], by)
            Known(i) == /\ key(i) # NoKey
                        /\ \/ key(i) \in known
                           \/ \E j \in 1..(i - 1) : items[j].usable /\ key(j) = key(i)
            all == [i \in DOMAIN items |-> i]
            T == {i \in DOMAIN items : ~items[i].usable \/ Known(i)}
            places == Without(all, T)
<1>1. all \in Seq(1..Len(items)) /\ IsInjective(all) /\ Range(all) = 1..Len(items)
  <2>1. all \in [1..Len(items) -> 1..Len(items)]
    BY <1>0
  <2>2. all \in Seq(1..Len(items))
    BY <1>0, <2>1, SeqDef
  <2>. QED
    BY <1>0, <2>2 DEF IsInjective, Range
<1>2. places \in Seq(1..Len(items)) /\ Len(places) \in Nat
  <2>. HIDE DEF all, T
  <2>. QED
    BY <1>1, WithoutTypes, LenProperties
<1>3. Range(places) = (1..Len(items)) \ T
  <2>. HIDE DEF all, T
  <2>1. Range(places) = Range(all) \ T
    BY <1>1, WithoutRange
  <2>. QED
    BY <1>1, <2>1
<1>4. IsInjective(places)
  <2>. HIDE DEF all, T
  <2>. QED
    BY <1>1, WithoutInjective
<1>5. NewKeys(items, known, by) = [n \in DOMAIN places |-> KeyOf(items[places[n]], by)]
  BY DEF NewKeys
<1>. PICK p : p = places
  OBVIOUS
<1>6. p \in Seq(1..Len(items)) /\ Len(p) \in Nat /\ DOMAIN p = 1..Len(p) /\ \A n \in 1..Len(p) : p[n] \in 1..Len(items)
  BY <1>2, LenProperties, ElementOfSeq
<1>. PICK r : r = NewKeys(items, known, by)
  OBVIOUS
<1>7. r = [n \in 1..Len(p) |-> KeyOf(items[p[n]], by)]
  BY <1>5, <1>6
<1>. HIDE DEF places
<1>8. r \in Seq(S) /\ Len(r) = Len(p) /\ DOMAIN r = 1..Len(p)
  <2>1. r \in [1..Len(p) -> S]
    BY <1>0, <1>6, <1>7
  <2>2. r \in Seq(S)
    BY <1>6, <2>1, SeqDef
  <2>. QED
    BY <1>6, <2>1, <2>2, LenProperties
<1>9. \A n \in 1..Len(p) : p[n] \notin T
  BY <1>3, <1>6 DEF Range
<1>10. \A n \in 1..Len(p) : /\ items[p[n]].usable
                            /\ KeyOf(items[p[n]], by) # NoKey =>
                                 /\ KeyOf(items[p[n]], by) \notin known
                                 /\ \A j \in 1..(p[n] - 1) :
                                      ~(items[j].usable /\ KeyOf(items[j], by) = KeyOf(items[p[n]], by))
  BY <1>0, <1>6, <1>9
<1>11. Once(r)
  <2>1. SUFFICES ASSUME NEW m \in 1..Len(p), NEW n \in 1..Len(p), r[m] = r[n], r[m] # NoKey PROVE m = n
    BY <1>8 DEF Once
  <2>2. /\ KeyOf(items[p[m]], by) = KeyOf(items[p[n]], by) /\ KeyOf(items[p[m]], by) # NoKey
        /\ p[m] \in 1..Len(items) /\ p[n] \in 1..Len(items)
    BY <1>6, <1>7, <2>1
  <2>3. ~(p[m] < p[n]) /\ ~(p[n] < p[m])
    BY <1>0, <1>10, <2>2
  <2>4. p[m] = p[n]
    BY <1>0, <2>2, <2>3
  <2>. QED
    BY <1>4, <1>6, <2>4 DEF IsInjective
<1>12. KeysIn(r) \cap known = {}
  BY <1>7, <1>8, <1>10 DEF KeysIn, ToSet
<1>13. (\A i \in DOMAIN items : KeyOf(items[i], by) # NoKey) => NoKey \notin ToSet(r)
  BY <1>0, <1>6, <1>7, <1>8 DEF ToSet
<1>. QED
  BY <1>8, <1>11, <1>12, <1>13

CrawlRecord == [at : {"idle", "client", "sleep", "get", "refused", "answered", "parse", "open",
                      "loaded", "read", "api", "html"},
                page : Nat \ {0}, attempt : Nat, proxy : Nat, requests : Nat, ids : SUBSET Ids,
                found : Seq(Ids)]

Keyed == {"http", "browser"}

\* A session is worn out or has made a request where it asks for a client; what
\* a crawl has found it knows, and off AliExpress and the trending sections it
\* has the url of each.
CrawlOK(k, b) ==
    /\ b.at \in {"client", "refused", "answered", "parse"} => b.requests # 0
    /\ Once(b.found)
    /\ b.at # "idle" => KeysIn(b.found) \subseteq b.ids
    /\ k \in Keyed => b.at \notin {"api", "html", "read"} /\ NoKey \notin ToSet(b.found)

CrawlTyped ==
    /\ crawl \in [Crawlers -> CrawlRecord]
    /\ proxies \in [Proxies -> [fails : Nat, cooling : Nat]]
    /\ turn \in Nat \ {0} /\ contexts \in [Crawlers -> Int] /\ leaked \in [Crawlers -> Int]

CrawlInv ==
    /\ CrawlTyped /\ \A c \in Crawlers : CrawlOK(kind[c], crawl[c])
    /\ ChainClosesContexts

LEMMA RestingTypes ==
  /\ Resting \in CrawlRecord /\ \A k : CrawlOK(k, Resting)
  /\ Resting.at = "idle" /\ Resting.requests # 0 /\ Resting.ids = {} /\ Resting.found = <<>>
<1>1. <<>> \in Seq(Ids)
  BY EmptySeq
<1>2. ToSet(<<>>) = {} /\ Once(<<>>) /\ KeysIn(<<>>) = {}
  BY DEF ToSet, Once, KeysIn
<1>3. PerSession \in Nat \ {0}
  BY CrawlingAssumption
<1>. QED
  BY <1>1, <1>2, <1>3 DEF Resting, CrawlRecord, CrawlOK

LEMMA CrawlInitInv == CrawlInit => CrawlInv
<1>. SUFFICES ASSUME CrawlInit PROVE CrawlInv
  OBVIOUS
<1>1. \A c \in Crawlers : crawl[c] = Resting /\ contexts[c] = 0 /\ leaked[c] = 0
  BY DEF CrawlInit
<1>2. CrawlTyped
  BY RestingTypes DEF CrawlInit, CrawlTyped
<1>3. ChainClosesContexts
  BY <1>1, RestingTypes DEF ChainClosesContexts
<1>. QED
  BY <1>1, <1>2, <1>3, RestingTypes DEF CrawlInv

LEMMA CrawlMoves ==
  ASSUME CrawlInv, NEW c \in Crawlers, NEW b \in CrawlRecord, CrawlOK(kind[c], b),
         crawl' = [crawl EXCEPT ![c] = b],
         kind' = kind, proxies' \in [Proxies -> [fails : Nat, cooling : Nat]], turn' \in Nat \ {0},
         NEW n \in Int, contexts' = [contexts EXCEPT ![c] = n],
         NEW m \in Int, leaked' = [leaked EXCEPT ![c] = m],
         kind[c] = "chain" => n = m + IF b.at = "loaded" THEN 1 ELSE 0
  PROVE  CrawlInv'
<1>0. crawl \in [Crawlers -> CrawlRecord] /\ contexts \in [Crawlers -> Int] /\ leaked \in [Crawlers -> Int]
  BY DEF CrawlInv, CrawlTyped
<1>1. /\ crawl'[c] = b /\ contexts'[c] = n /\ leaked'[c] = m
      /\ \A d \in Crawlers \ {c} :
           crawl'[d] = crawl[d] /\ contexts'[d] = contexts[d] /\ leaked'[d] = leaked[d]
  BY <1>0
<1>2. CrawlTyped'
  BY <1>0 DEF CrawlTyped
<1>3. \A d \in Crawlers : CrawlOK(kind'[d], crawl'[d])
  BY <1>1 DEF CrawlInv
<1>4. ChainClosesContexts'
  BY <1>1 DEF CrawlInv, ChainClosesContexts
<1>. QED
  BY <1>2, <1>3, <1>4 DEF CrawlInv

\* The same for a step that opens and closes no context.
LEMMA CrawlGoesOn ==
  ASSUME CrawlInv, NEW c \in Crawlers, NEW b \in CrawlRecord, CrawlOK(kind[c], b),
         crawl' = [crawl EXCEPT ![c] = b],
         kind' = kind, proxies' \in [Proxies -> [fails : Nat, cooling : Nat]], turn' \in Nat \ {0},
         UNCHANGED browserVars, kind[c] = "chain" => crawl[c].at # "loaded" /\ b.at # "loaded"
  PROVE  CrawlInv'
<1>1. contexts \in [Crawlers -> Int] /\ leaked \in [Crawlers -> Int]
  BY DEF CrawlInv, CrawlTyped
<1>2. /\ contexts[c] \in Int /\ contexts' = [contexts EXCEPT ![c] = contexts[c]]
      /\ leaked[c] \in Int /\ leaked' = [leaked EXCEPT ![c] = leaked[c]]
  BY <1>1 DEF browserVars
<1>3. kind[c] = "chain" => contexts[c] = leaked[c] + IF b.at = "loaded" THEN 1 ELSE 0
  BY DEF CrawlInv, ChainClosesContexts
<1>. QED
  BY <1>2, <1>3, CrawlMoves

LEMMA CrawlFacts ==
  ASSUME CrawlInv, NEW c \in Crawlers
  PROVE  /\ crawl[c] \in CrawlRecord /\ CrawlOK(kind[c], crawl[c])
         /\ proxies \in [Proxies -> [fails : Nat, cooling : Nat]] /\ turn \in Nat \ {0}
BY DEF CrawlInv, CrawlTyped

\* The keys by which a crawl may look at a page.
LooksBy(c, by) == kind[c] \in Keyed => by = "url"

LEMMA PageTypes ==
  ASSUME CrawlInv, NEW c \in Crawlers, NEW by \in {"url", "pid", "none"}
  PROVE  /\ Found(c, by) \in Seq(Ids) /\ Once(Found(c, by)) /\ ToSet(Found(c, by)) \subseteq Ids
         /\ KeysIn(Found(c, by)) \cap crawl[c].ids = {}
         /\ by = "url" => NoKey \notin ToSet(Found(c, by))
<1>1. Len(Site) \in Nat /\ DOMAIN Site = 1..Len(Site)
  BY CrawlingAssumption, LenProperties
<1>2. crawl[c].page \in Nat \ {0}
  BY CrawlFacts DEF CrawlRecord
<1>3. /\ Page(c).items \in Seq(Range(Page(c).items))
      /\ \A i \in DOMAIN Page(c).items : /\ KeyOf(Page(c).items[i], by) \in Ids
                                         /\ by = "url" => KeyOf(Page(c).items[i], by) # NoKey
  <2>1. CASE crawl[c].page <= Len(Site)
    <3>1. Page(c) = Site[crawl[c].page] /\ crawl[c].page \in DOMAIN Site
      BY <1>1, <1>2, <2>1 DEF Page
    <3>. PICK n \in DOMAIN Site : Page(c) = Site[n]
      BY <3>1
    <3>5. \A i \in DOMAIN Site[n].items : Site[n].items[i].url # NoKey
      BY CrawlingAssumption
    <3>6. ASSUME NEW i \in DOMAIN Site[n].items
          PROVE  Site[n].items[i].url \in Ids /\ Site[n].items[i].pid \in Ids
      <4>1. Site[n].items[i].url \in KeysOf(n) /\ Site[n].items[i].pid \in KeysOf(n)
        BY DEF KeysOf
      <4>. QED
        BY <4>1 DEF Ids
    <3>2. \A i \in DOMAIN Page(c).items : /\ Page(c).items[i].url \in Ids /\ Page(c).items[i].pid \in Ids
                                          /\ Page(c).items[i].url # NoKey
      BY <3>5, <3>6
    <3>3. NoKey \in Ids
      BY DEF Ids
    <3>4. ASSUME NEW i \in DOMAIN Page(c).items
          PROVE  /\ KeyOf(Page(c).items[i], by) \in Ids
                 /\ by = "url" => KeyOf(Page(c).items[i], by) # NoKey
      <4>1. CASE by = "url"
        BY <3>2, <4>1 DEF KeyOf
      <4>2. CASE by = "pid"
        BY <3>2, <4>2 DEF KeyOf
      <4>3. CASE by = "none"
        BY <3>3, <4>3 DEF KeyOf
      <4>. QED
        BY <4>1, <4>2, <4>3
    <3>. QED
      BY <3>1, <3>4, CrawlingAssumption
  <2>2. CASE ~(crawl[c].page <= Len(Site))
    <3>1. Page(c).items = <<>>
      BY <2>2 DEF Page
    <3>2. <<>> \in Seq(Range(<<>>)) /\ DOMAIN <<>> = {}
      BY EmptySeq
    <3>. QED
      BY <3>1, <3>2
  <2>. QED
    BY <2>1, <2>2
<1>. PICK items : items = Page(c).items
  OBVIOUS
<1>4. /\ NewKeys(items, crawl[c].ids, by) \in Seq(Ids) /\ Once(NewKeys(items, crawl[c].ids, by))
      /\ KeysIn(NewKeys(items, crawl[c].ids, by)) \cap crawl[c].ids = {}
      /\ by = "url" => NoKey \notin ToSet(NewKeys(items, crawl[c].ids, by))
  BY <1>3, NewKeysTypes
<1>5. ToSet(Found(c, by)) \subseteq Ids
  <2>1. Found(c, by) \in Seq(Ids)
    BY <1>4 DEF Found
  <2>. QED
    BY <2>1, RangeOfSeq DEF ToSet, Range
<1>. QED
  BY <1>4, <1>5 DEF Found

\* What a crawl that is over leaves behind.
LEMMA EndedTypes ==
  ASSUME CrawlInv, NEW c \in Crawlers, crawl[c].at # "idle", NEW by \in {"url", "pid", "none"}, LooksBy(c, by),
         NEW more \in {<<>>, Found(c, by)}, EndedWith(c, more)
  PROVE  \E b \in CrawlRecord : CrawlOK(kind[c], b) /\ b.at = "idle" /\ crawl' = [crawl EXCEPT ![c] = b]
<1>. DEFINE b == [Resting EXCEPT !.found = crawl[c].found \o more]
<1>0. /\ crawl[c].found \in Seq(Ids) /\ Once(crawl[c].found)
      /\ KeysIn(crawl[c].found) \subseteq crawl[c].ids
      /\ kind[c] \in Keyed => NoKey \notin ToSet(crawl[c].found)
  BY CrawlFacts DEF CrawlRecord, CrawlOK
<1>1. /\ more \in Seq(Ids) /\ Once(more) /\ KeysIn(crawl[c].found) \cap KeysIn(more) = {}
      /\ kind[c] \in Keyed => NoKey \notin ToSet(more)
  <2>1. CASE more = <<>>
    <3>1. <<>> \in Seq(Ids) /\ Once(<<>>) /\ KeysIn(<<>>) = {} /\ ToSet(<<>>) = {}
      BY EmptySeq DEF Once, KeysIn, ToSet
    <3>. QED
      BY <2>1, <3>1
  <2>2. CASE more = Found(c, by)
    BY <1>0, <2>2, PageTypes DEF LooksBy
  <2>. QED
    BY <2>1, <2>2
<1>. PICK all : all = crawl[c].found \o more
  OBVIOUS
<1>2. all \in Seq(Ids) /\ Once(all) /\ (kind[c] \in Keyed => NoKey \notin ToSet(all))
  BY <1>0, <1>1, JoinedOnce
<1>3. b = [Resting EXCEPT !.found = all]
  OBVIOUS
<1>. HIDE DEF b
<1>4. b \in CrawlRecord /\ CrawlOK(kind[c], b) /\ b.at = "idle"
  BY <1>2, <1>3, RestingTypes DEF CrawlRecord, CrawlOK
<1>5. crawl' = [crawl EXCEPT ![c] = b]
  BY DEF EndedWith, b
<1>. QED
  BY <1>4, <1>5

LEMMA TakenTypes ==
  ASSUME CrawlInv, NEW c \in Crawlers, crawl[c].at # "idle", NEW to \in {"client", "open", "api"},
         to = "client" => crawl[c].requests # 0, to = "api" => kind[c] \notin Keyed,
         NEW by \in {"url", "pid", "none"}, LooksBy(c, by)
  PROVE  Taken(c, by, to) \in CrawlRecord /\ CrawlOK(kind[c], Taken(c, by, to)) /\ Taken(c, by, to).at = to
<1>0. /\ crawl[c] \in CrawlRecord /\ crawl[c].found \in Seq(Ids) /\ Once(crawl[c].found)
      /\ KeysIn(crawl[c].found) \subseteq crawl[c].ids /\ crawl[c].ids \subseteq Ids
      /\ crawl[c].page \in Nat \ {0} /\ (kind[c] \in Keyed => NoKey \notin ToSet(crawl[c].found))
  BY CrawlFacts DEF CrawlRecord, CrawlOK
<1>1. /\ Found(c, by) \in Seq(Ids) /\ Once(Found(c, by)) /\ ToSet(Found(c, by)) \subseteq Ids
      /\ KeysIn(crawl[c].found) \cap KeysIn(Found(c, by)) = {}
      /\ kind[c] \in Keyed => NoKey \notin ToSet(Found(c, by))
  BY <1>0, PageTypes DEF LooksBy
<1>. PICK all : all = crawl[c].found \o Found(c, by)
  OBVIOUS
<1>2. all \in Seq(Ids) /\ Once(all) /\ ToSet(all) = ToSet(crawl[c].found) \cup ToSet(Found(c, by))
  BY <1>0, <1>1, JoinedOnce
<1>. PICK ids : ids = crawl[c].ids \cup (ToSet(Found(c, by)) \ {NoKey})
  OBVIOUS
<1>. PICK page : page = crawl[c].page + 1
  OBVIOUS
<1>3. Taken(c, by, to) = [crawl[c] EXCEPT !.ids = ids, !.found = all, !.page = page, !.at = to]
  BY DEF Taken
<1>4. /\ ids \in SUBSET Ids /\ KeysIn(all) \subseteq ids /\ page \in Nat \ {0}
      /\ kind[c] \in Keyed => NoKey \notin ToSet(all)
  BY <1>0, <1>1, <1>2 DEF KeysIn
<1>5. Taken(c, by, to) \in CrawlRecord
  BY <1>0, <1>2, <1>3, <1>4 DEF CrawlRecord
<1>6. /\ Taken(c, by, to).at = to /\ Taken(c, by, to).requests = crawl[c].requests
      /\ Taken(c, by, to).found = all /\ Taken(c, by, to).ids = ids
  BY <1>0, <1>3 DEF CrawlRecord
<1>7. CrawlOK(kind[c], Taken(c, by, to))
  BY <1>2, <1>4, <1>6 DEF CrawlOK
<1>. QED
  BY <1>5, <1>6, <1>7

\* get_proxy hands out a proxy that is not cooling.
LEMMA ReadyTypes ==
  ASSUME CrawlInv, Ready # {}
  PROVE  /\ InTurn[Min(Ready)] \in Proxies /\ proxies[InTurn[Min(Ready)]].cooling = 0
         /\ (InTurn[Min(Ready)] % ProxyCount) + 1 \in Nat \ {0}
<1>0. ProxyCount \in Nat \ {0} /\ turn \in Nat \ {0}
  BY CrawlingAssumption DEF CrawlInv, CrawlTyped
<1>1. Ready \subseteq Proxies /\ Proxies \subseteq 0..ProxyCount
  BY <1>0 DEF Ready, Proxies
<1>2. \E i \in Ready : \A j \in Ready : i <= j
  <2>1. Ready \in SUBSET (0..ProxyCount)
    BY <1>1
  <2>. QED
    BY <1>0, <2>1, SmallestNumber
<1>3. Min(Ready) \in Ready
  BY <1>2 DEF Min
<1>. PICK i : i = Min(Ready)
  OBVIOUS
<1>4. i \in Proxies /\ proxies[InTurn[i]].cooling = 0
  BY <1>1, <1>3 DEF Ready
<1>5. InTurn[i] = ((turn + i - 2) % ProxyCount) + 1
  BY <1>4 DEF InTurn
<1>6. turn + i - 2 \in Int
  BY <1>0, <1>4 DEF Proxies
<1>7. (turn + i - 2) % ProxyCount \in 0..(ProxyCount - 1)
  BY <1>0, <1>6
<1>8. InTurn[i] \in Proxies
  BY <1>0, <1>5, <1>7 DEF Proxies
<1>9. (InTurn[i] % ProxyCount) + 1 \in Nat \ {0}
  <2>1. InTurn[i] \in Nat
    BY <1>0, <1>8 DEF Proxies
  <2>2. InTurn[i] % ProxyCount \in 0..(ProxyCount - 1)
    BY <1>0, <2>1
  <2>. QED
    BY <1>0, <2>2
<1>. QED
  BY <1>4, <1>8, <1>9

\* Where all proxies are cooling one of them is through first.
LEMMA EarliestTypes == CrawlInv => Earliest \in Nat
<1>. SUFFICES ASSUME CrawlInv PROVE Earliest \in Nat
  OBVIOUS
<1>0. ProxyCount \in Nat \ {0} /\ Proxies = 1..ProxyCount /\ \A p \in Proxies : proxies[p].cooling \in Nat
  BY CrawlingAssumption DEF CrawlInv, CrawlTyped, Proxies
<1>. DEFINE first == proxies[1].cooling
            V == {v \in 0..first : \E p \in Proxies : proxies[p].cooling = v}
<1>1. first \in Nat /\ first \in V /\ V \in SUBSET (0..first)
  BY <1>0
<1>2. PICK v \in V : \A w \in V : v <= w
  <2>. HIDE DEF V, first
  <2>. QED
    BY <1>1, SmallestNumber
<1>3. \A p \in Proxies : v <= proxies[p].cooling
  <2>1. SUFFICES ASSUME NEW p \in Proxies PROVE v <= proxies[p].cooling
    OBVIOUS
  <2>2. CASE proxies[p].cooling <= first
    BY <1>0, <1>1, <1>2, <2>2
  <2>3. CASE ~(proxies[p].cooling <= first)
    BY <1>0, <1>1, <1>2, <2>3
  <2>. QED
    BY <2>2, <2>3
<1>. DEFINE P == {p \in Proxies : proxies[p].cooling = v}
<1>4. P # {} /\ P \in SUBSET (0..ProxyCount)
  BY <1>0, <1>2
<1>5. PICK p \in P : \A q \in P : p <= q
  <2>. HIDE DEF P
  <2>. QED
    BY <1>0, <1>4, SmallestNumber
<1>6. \A q \in Proxies : proxies[p].cooling <= proxies[q].cooling /\ (proxies[p].cooling = proxies[q].cooling => p <= q)
  BY <1>3, <1>5
<1>7. \E e \in Proxies : \A q \in Proxies :
         proxies[e].cooling <= proxies[q].cooling /\ (proxies[e].cooling = proxies[q].cooling => e <= q)
  BY <1>5, <1>6
<1>8. Earliest \in Proxies
  BY <1>7 DEF Earliest
<1>. QED
  BY <1>0, <1>8

LEMMA StartCrawlKeeps ==
  ASSUME CrawlInv, NEW c \in Crawlers, StartCrawl(c)
  PROVE  CrawlInv'
<1>1. PICK to \in {"client", "open", "api"} :
         /\ to = "api" => kind[c] \notin Keyed
         /\ crawl' = [crawl EXCEPT ![c] = [Resting EXCEPT !.at = to]]
  <2>1. CASE kind[c] \in {"http", "trending"}
    BY <2>1 DEF StartCrawl
  <2>2. CASE kind[c] \in {"browser", "section"}
    BY <2>2 DEF StartCrawl
  <2>3. CASE kind[c] \notin {"http", "trending", "browser", "section"}
    BY <2>3 DEF StartCrawl, Keyed
  <2>. QED
    BY <2>1, <2>2, <2>3
<1>. DEFINE b == [Resting EXCEPT !.at = to]
<1>0. /\ crawl[c].at = "idle" /\ crawl' = [crawl EXCEPT ![c] = b]
      /\ UNCHANGED <<kind, proxies, turn, asleep, browserVars, trouble>>
  BY <1>1 DEF StartCrawl
<1>2. b \in CrawlRecord /\ b.at = to /\ b.requests # 0 /\ b.found = <<>> /\ Once(b.found)
  BY <1>1, RestingTypes DEF CrawlRecord, CrawlOK
<1>3. CrawlOK(kind[c], b)
  <2>1. ToSet(<<>>) = {} /\ KeysIn(<<>>) = {}
    BY DEF ToSet, KeysIn
  <2>. QED
    BY <1>1, <1>2, <2>1 DEF CrawlOK
<1>. QED
  BY <1>0, <1>1, <1>2, <1>3, CrawlFacts, CrawlGoesOn

LEMMA TakeClientKeeps ==
  ASSUME CrawlInv, NEW c \in Crawlers, TakeClient(c)
  PROVE  CrawlInv'
<1>0. /\ crawl[c].at = "client" /\ crawl[c] \in CrawlRecord /\ CrawlOK(kind[c], crawl[c])
      /\ proxies \in [Proxies -> [fails : Nat, cooling : Nat]] /\ turn \in Nat \ {0}
      /\ UNCHANGED <<kind, proxies, browserVars, trouble>>
  BY CrawlFacts DEF TakeClient
<1>1. PICK to \in {"get", "sleep"}, requests \in Nat, proxy \in Nat :
         /\ crawl' = [crawl EXCEPT ![c] = [crawl[c] EXCEPT !.at = to, !.requests = requests, !.proxy = proxy]]
         /\ turn' \in Nat \ {0}
  <2>0. crawl \in [Crawlers -> CrawlRecord] /\ crawl[c].requests \in Nat /\ crawl[c].proxy \in Nat
    BY <1>0 DEF CrawlInv, CrawlTyped, CrawlRecord
  <2>1. CASE /\ crawl[c].requests < PerSession
             /\ Goes(c, "get") /\ UNCHANGED <<turn, asleep>>
    <3>1. crawl' = [crawl EXCEPT ![c] = [crawl[c] EXCEPT !.at = "get", !.requests = crawl[c].requests, !.proxy = crawl[c].proxy]]
      BY <1>0, <2>0, <2>1 DEF Goes, CrawlRecord
    <3>. QED
      BY <1>0, <2>0, <2>1, <3>1
  <2>2. CASE /\ crawl[c].requests >= PerSession /\ asleep = {} /\ Ready # {}
             /\ crawl' = [crawl EXCEPT ![c].at = "get", ![c].requests = 0,
                                    ![c].proxy = InTurn[Min(Ready)]]
             /\ turn' = (InTurn[Min(Ready)] % ProxyCount) + 1
             /\ UNCHANGED asleep
    <3>. PICK p : p = InTurn[Min(Ready)]
      OBVIOUS
    <3>1. p \in Nat /\ turn' \in Nat \ {0}
      BY <2>2, ReadyTypes DEF Proxies
    <3>2. crawl' = [crawl EXCEPT ![c] = [crawl[c] EXCEPT !.at = "get", !.requests = 0, !.proxy = p]]
      BY <2>0, <2>2
    <3>. QED
      BY <3>1, <3>2
  <2>3. CASE /\ crawl[c].requests >= PerSession /\ asleep = {} /\ Ready = {}
             /\ crawl' = [crawl EXCEPT ![c].at = "sleep", ![c].proxy = Earliest]
             /\ asleep' = {c} /\ UNCHANGED turn
    <3>1. Earliest \in Nat
      BY EarliestTypes
    <3>2. crawl' = [crawl EXCEPT ![c] = [crawl[c] EXCEPT !.at = "sleep", !.requests = crawl[c].requests, !.proxy = Earliest]]
      BY <1>0, <2>0, <2>3 DEF CrawlRecord
    <3>. QED
      BY <1>0, <2>0, <2>3, <3>1, <3>2
  <2>. QED
    BY <2>1, <2>2, <2>3 DEF TakeClient
<1>. DEFINE b == [crawl[c] EXCEPT !.at = to, !.requests = requests, !.proxy = proxy]
<1>2. b \in CrawlRecord /\ CrawlOK(kind[c], b) /\ b.at = to
  BY <1>0, <1>1 DEF CrawlRecord, CrawlOK
<1>. HIDE DEF b
<1>3. crawl' = [crawl EXCEPT ![c] = b]
  BY <1>1 DEF b
<1>. QED
  BY <1>0, <1>1, <1>2, <1>3, CrawlGoesOn

LEMMA WakeKeeps ==
  ASSUME CrawlInv, NEW c \in Crawlers, Wake(c)
  PROVE  CrawlInv'
<1>. DEFINE b == [crawl[c] EXCEPT !.at = "get", !.requests = 0]
<1>0. /\ crawl[c].at = "sleep" /\ crawl[c] \in CrawlRecord /\ CrawlOK(kind[c], crawl[c])
      /\ UNCHANGED <<kind, proxies, turn, browserVars, trouble>>
  BY CrawlFacts DEF Wake
<1>1. crawl' = [crawl EXCEPT ![c] = b]
  BY DEF Wake, CrawlInv, CrawlTyped
<1>2. b \in CrawlRecord /\ CrawlOK(kind[c], b) /\ b.at = "get"
  BY <1>0 DEF CrawlRecord, CrawlOK
<1>. HIDE DEF b
<1>. QED
  BY <1>0, <1>1, <1>2, CrawlFacts, CrawlGoesOn

\* A crawl that ends, or raises, before its time.
LEMMA OverGoesOn ==
  ASSUME CrawlInv, NEW c \in Crawlers, crawl[c].at # "idle", NEW by \in {"url", "pid", "none"}, LooksBy(c, by),
         NEW more \in {<<>>, Found(c, by)}, EndedWith(c, more),
         kind' = kind, proxies' \in [Proxies -> [fails : Nat, cooling : Nat]], turn' \in Nat \ {0},
         UNCHANGED browserVars, kind[c] = "chain" => crawl[c].at # "loaded"
  PROVE  CrawlInv'
<1>1. PICK b \in CrawlRecord : CrawlOK(kind[c], b) /\ b.at = "idle" /\ crawl' = [crawl EXCEPT ![c] = b]
  BY EndedTypes
<1>. QED
  BY <1>1, CrawlGoesOn

LEMMA GivenUp ==
  ASSUME CrawlInv, NEW c \in Crawlers, crawl[c].at # "idle", CrawlOver(c) \/ CrawlRaises(c),
         kind' = kind, proxies' \in [Proxies -> [fails : Nat, cooling : Nat]], turn' \in Nat \ {0},
         UNCHANGED browserVars, kind[c] = "chain" => crawl[c].at # "loaded"
  PROVE  CrawlInv'
<1>1. CASE CrawlOver(c)
  BY <1>1, OverGoesOn DEF CrawlOver, LooksBy
<1>2. CASE CrawlRaises(c)
  BY <1>2, RestingTypes, CrawlGoesOn DEF CrawlRaises
<1>. QED
  BY <1>1, <1>2

LEMMA RequestKeeps ==
  ASSUME CrawlInv, NEW c \in Crawlers, Request(c)
  PROVE  CrawlInv'
<1>0. /\ crawl[c].at = "get" /\ crawl[c] \in CrawlRecord /\ CrawlOK(kind[c], crawl[c])
      /\ crawl \in [Crawlers -> CrawlRecord]
      /\ UNCHANGED <<kind, proxies, turn, browserVars>>
  BY CrawlFacts DEF Request, CrawlInv, CrawlTyped
<1>1. CASE crawl' = [crawl EXCEPT ![c].at = "answered", ![c].requests = @ + 1]
  <2>. PICK n \in Nat \ {0} : n = crawl[c].requests + 1
    BY <1>0 DEF CrawlRecord
  <2>. DEFINE b == [crawl[c] EXCEPT !.at = "answered", !.requests = n]
  <2>1. crawl' = [crawl EXCEPT ![c] = b]
    BY <1>0, <1>1
  <2>2. b \in CrawlRecord /\ CrawlOK(kind[c], b) /\ b.at = "answered"
    BY <1>0 DEF CrawlRecord, CrawlOK
  <2>. HIDE DEF b
  <2>. QED
    BY <1>0, <2>1, <2>2, CrawlFacts, CrawlGoesOn
<1>2. CASE crawl' = [crawl EXCEPT ![c].at = "refused", ![c].requests = PerSession]
  <2>. DEFINE b == [crawl[c] EXCEPT !.at = "refused", !.requests = PerSession]
  <2>1. crawl' = [crawl EXCEPT ![c] = b]
    BY <1>0, <1>2
  <2>2. b \in CrawlRecord /\ CrawlOK(kind[c], b) /\ b.at = "refused"
    BY <1>0, CrawlingAssumption DEF CrawlRecord, CrawlOK
  <2>. HIDE DEF b
  <2>. QED
    BY <1>0, <2>1, <2>2, CrawlFacts, CrawlGoesOn
<1>3. CASE CrawlOver(c)
  BY <1>0, <1>3, CrawlFacts, GivenUp
<1>. QED
  BY <1>1, <1>2, <1>3 DEF Request

LEMMA ReportFailureKeeps ==
  ASSUME CrawlInv, NEW c \in Crawlers, ReportFailure(c)
  PROVE  CrawlInv'
<1>0. /\ crawl[c].at = "refused" /\ crawl[c] \in CrawlRecord /\ CrawlOK(kind[c], crawl[c])
      /\ crawl \in [Crawlers -> CrawlRecord] /\ proxies \in [Proxies -> [fails : Nat, cooling : Nat]]
      /\ UNCHANGED <<kind, turn, browserVars>>
  BY CrawlFacts DEF ReportFailure, CrawlInv, CrawlTyped
<1>1. \A p \in [fails : Nat, cooling : Nat] : WithFailure(p) \in [fails : Nat, cooling : Nat]
  BY CrawlingAssumption DEF WithFailure
<1>2. proxies' \in [Proxies -> [fails : Nat, cooling : Nat]]
  <2>1. proxies' = [proxies EXCEPT ![crawl[c].proxy] = WithFailure(@)]
    BY DEF ReportFailure
  <2>2. proxies' = [p \in Proxies |-> IF p = crawl[c].proxy THEN WithFailure(proxies[p]) ELSE proxies[p]]
    BY <1>0, <2>1
  <2>. QED
    BY <1>0, <1>1, <2>2
<1>3. CASE crawl' = [crawl EXCEPT ![c].at = "client", ![c].attempt = @ + 1]
  <2>. PICK n \in Nat : n = crawl[c].attempt + 1
    BY <1>0 DEF CrawlRecord
  <2>. DEFINE b == [crawl[c] EXCEPT !.at = "client", !.attempt = n]
  <2>1. crawl' = [crawl EXCEPT ![c] = b]
    BY <1>0, <1>3
  <2>2. b \in CrawlRecord /\ CrawlOK(kind[c], b) /\ b.at = "client"
    BY <1>0 DEF CrawlRecord, CrawlOK
  <2>. HIDE DEF b
  <2>. QED
    BY <1>0, <1>2, <2>1, <2>2, CrawlFacts, CrawlGoesOn
<1>4. CASE CrawlOver(c)
  BY <1>0, <1>2, <1>4, CrawlFacts, GivenUp
<1>. QED
  BY <1>3, <1>4 DEF ReportFailure

\* The greater of nothing and what is left.
LEMMA AtLeastNone == ASSUME NEW n \in Int PROVE Max({0, n}) \in Nat
<1>1. \E m \in {0, n} : \A k \in {0, n} : m >= k
  <2>1. CASE n >= 0
    BY <2>1
  <2>2. CASE ~(n >= 0)
    BY <2>2
  <2>. QED
    BY <2>1, <2>2
<1>2. Max({0, n}) \in {0, n} /\ \A k \in {0, n} : Max({0, n}) >= k
  BY <1>1 DEF Max
<1>. QED
  BY <1>2

LEMMA ReportSuccessKeeps ==
  ASSUME CrawlInv, NEW c \in Crawlers, ReportSuccess(c)
  PROVE  CrawlInv'
<1>. DEFINE b == [crawl[c] EXCEPT !.at = "parse", !.attempt = 0]
<1>0. /\ crawl[c].at = "answered" /\ crawl[c] \in CrawlRecord /\ CrawlOK(kind[c], crawl[c])
      /\ crawl \in [Crawlers -> CrawlRecord] /\ proxies \in [Proxies -> [fails : Nat, cooling : Nat]]
      /\ UNCHANGED <<kind, turn, browserVars>>
  BY CrawlFacts DEF ReportSuccess, CrawlInv, CrawlTyped
<1>1. proxies' \in [Proxies -> [fails : Nat, cooling : Nat]]
  <2>1. proxies' = [proxies EXCEPT ![crawl[c].proxy].fails = Max({0, @ - 1})]
    BY DEF ReportSuccess
  <2>2. proxies' = [p \in Proxies |-> IF p = crawl[c].proxy
                                      THEN [proxies[p] EXCEPT !.fails = Max({0, proxies[p].fails - 1})] ELSE proxies[p]]
    BY <1>0, <2>1
  <2>3. \A p \in Proxies : Max({0, proxies[p].fails - 1}) \in Nat
    BY <1>0, AtLeastNone
  <2>. QED
    BY <1>0, <2>2, <2>3
<1>2. crawl' = [crawl EXCEPT ![c] = b]
  BY <1>0 DEF ReportSuccess
<1>3. b \in CrawlRecord /\ CrawlOK(kind[c], b) /\ b.at = "parse"
  BY <1>0 DEF CrawlRecord, CrawlOK
<1>. HIDE DEF b
<1>. QED
  BY <1>0, <1>1, <1>2, <1>3, CrawlFacts, CrawlGoesOn

LEMMA SeenByTypes ==
  ASSUME NEW c \in Crawlers
  PROVE  SeenBy(c) \in {"url", "pid", "none"} /\ LooksBy(c, SeenBy(c))
BY DEF SeenBy, LooksBy, Keyed

LEMMA ParseLinkedKeeps ==
  ASSUME CrawlInv, NEW c \in Crawlers, crawl[c].at # "idle", NEW again \in {"client", "open"},
         again = "client" => crawl[c].requests # 0, ParseLinked(c, again),
         UNCHANGED <<kind, proxies, turn, browserVars>>, kind[c] = "chain" => crawl[c].at # "loaded"
  PROVE  CrawlInv'
<1>. PICK by \in {"url", "pid", "none"} : LooksBy(c, by) /\ by = SeenBy(c)
  BY SeenByTypes
<1>1. CASE EndedWith(c, Found(c, by))
  BY <1>1, CrawlFacts, OverGoesOn
<1>2. CASE crawl' = [crawl EXCEPT ![c] = Taken(c, by, again)]
  <2>1. /\ Taken(c, by, again) \in CrawlRecord /\ CrawlOK(kind[c], Taken(c, by, again))
        /\ Taken(c, by, again).at = again
    BY TakenTypes
  <2>. QED
    BY <1>2, <2>1, CrawlFacts, CrawlGoesOn
<1>. QED
  BY <1>1, <1>2 DEF ParseLinked

LEMMA ParsePageKeeps ==
  ASSUME CrawlInv, NEW c \in Crawlers, ParsePage(c)
  PROVE  CrawlInv'
<1>1. crawl[c].at = "parse" /\ crawl[c].requests # 0
  BY CrawlFacts DEF ParsePage, CrawlOK
<1>. QED
  BY <1>1, ParseLinkedKeeps DEF ParsePage

LEMMA LoadPageKeeps ==
  ASSUME CrawlInv, NEW c \in Crawlers, LoadPage(c)
  PROVE  CrawlInv'
<1>0. /\ kind[c] = "browser" /\ crawl[c].at = "loaded"
      /\ UNCHANGED <<kind, proxies, turn, asleep, browserVars>>
  BY DEF LoadPage
<1>1. CASE ParseLinked(c, "open")
  BY <1>0, <1>1, ParseLinkedKeeps
<1>2. CASE CrawlOver(c) \/ CrawlRaises(c)
  BY <1>0, <1>2, CrawlFacts, GivenUp
<1>. QED
  BY <1>1, <1>2 DEF LoadPage

LEMMA LoadSectionKeeps ==
  ASSUME CrawlInv, NEW c \in Crawlers, LoadSection(c)
  PROVE  CrawlInv'
<1>0. /\ kind[c] = "section" /\ crawl[c].at = "loaded"
      /\ UNCHANGED <<kind, proxies, turn, asleep, browserVars>>
  BY DEF LoadSection
<1>1. CASE EndedWith(c, Found(c, SeenBy(c)))
  BY <1>0, <1>1, CrawlFacts, SeenByTypes, OverGoesOn
<1>2. CASE CrawlRaises(c)
  BY <1>0, <1>2, CrawlFacts, GivenUp
<1>. QED
  BY <1>1, <1>2 DEF LoadSection

\* A step that only goes on with something else.
LEMMA GoesTypes ==
  ASSUME CrawlInv, NEW c \in Crawlers, crawl[c].at # "idle", NEW to \in {"html", "open", "loaded", "read"},
         to \in {"html", "read"} => kind[c] \notin Keyed, Goes(c, to)
  PROVE  \E b \in CrawlRecord : CrawlOK(kind[c], b) /\ b.at = to /\ crawl' = [crawl EXCEPT ![c] = b]
<1>. DEFINE b == [crawl[c] EXCEPT !.at = to]
<1>0. crawl[c] \in CrawlRecord /\ CrawlOK(kind[c], crawl[c]) /\ crawl \in [Crawlers -> CrawlRecord]
  BY CrawlFacts DEF CrawlInv, CrawlTyped
<1>1. crawl' = [crawl EXCEPT ![c] = b]
  BY <1>0 DEF Goes
<1>2. b \in CrawlRecord /\ b.at = to /\ b.found = crawl[c].found /\ b.ids = crawl[c].ids
  BY <1>0 DEF CrawlRecord
<1>3. CrawlOK(kind[c], b)
  BY <1>0, <1>2 DEF CrawlOK
<1>. QED
  BY <1>1, <1>2, <1>3

LEMMA OpenPageKeeps ==
  ASSUME CrawlInv, NEW c \in Crawlers, OpenPage(c)
  PROVE  CrawlInv'
<1>0. /\ crawl[c].at = "open" /\ contexts \in [Crawlers -> Int] /\ leaked \in [Crawlers -> Int]
      /\ UNCHANGED <<kind, proxies, turn, asleep>>
  BY DEF OpenPage, CrawlInv, CrawlTyped
<1>1. /\ contexts[c] + 1 \in Int /\ leaked[c] + 1 \in Int /\ leaked[c] \in Int
      /\ kind[c] = "chain" => contexts[c] = leaked[c]
  BY <1>0 DEF CrawlInv, ChainClosesContexts
<1>2. CASE Goes(c, "loaded") /\ contexts' = [contexts EXCEPT ![c] = contexts[c] + 1] /\ UNCHANGED leaked
  <2>1. PICK b \in CrawlRecord : CrawlOK(kind[c], b) /\ b.at = "loaded" /\ crawl' = [crawl EXCEPT ![c] = b]
    BY <1>0, <1>2, GoesTypes
  <2>2. leaked' = [leaked EXCEPT ![c] = leaked[c]]
    BY <1>0, <1>2
  <2>3. kind[c] = "chain" => contexts[c] + 1 = leaked[c] + IF b.at = "loaded" THEN 1 ELSE 0
    BY <1>1, <2>1
  <2>. QED
    BY <1>0, <1>1, <1>2, <2>1, <2>2, <2>3, CrawlFacts, CrawlMoves
<1>3. CASE CrawlRaises(c) /\ UNCHANGED browserVars
  BY <1>0, <1>3, CrawlFacts, GivenUp
<1>4. CASE /\ CrawlRaises(c) /\ contexts' = [contexts EXCEPT ![c] = contexts[c] + 1]
           /\ leaked' = [leaked EXCEPT ![c] = leaked[c] + 1]
  <2>1. kind[c] = "chain" => contexts[c] + 1 = (leaked[c] + 1) + IF Resting.at = "loaded" THEN 1 ELSE 0
    BY <1>1, RestingTypes
  <2>2. Resting \in CrawlRecord /\ CrawlOK(kind[c], Resting) /\ crawl' = [crawl EXCEPT ![c] = Resting]
    BY <1>4, RestingTypes DEF CrawlRaises
  <2>. QED
    BY <1>0, <1>1, <1>4, <2>1, <2>2, CrawlFacts, CrawlMoves
<1>. QED
  BY <1>2, <1>3, <1>4 DEF OpenPage

LEMMA TryChainKeeps ==
  ASSUME CrawlInv, NEW c \in Crawlers, TryApi(c) \/ TryHtml(c) \/ TryBrowser(c)
  PROVE  CrawlInv'
<1>0. crawl[c].at \in {"api", "html", "read"} /\ UNCHANGED <<kind, proxies, turn, asleep, browserVars>>
  BY DEF TryApi, TryHtml, TryBrowser, TryChain
<1>a. kind[c] \notin Keyed
  BY <1>0, CrawlFacts DEF CrawlOK
<1>1. ASSUME NEW by \in {"pid", "url"}, EndedWith(c, Found(c, by)) PROVE CrawlInv'
  BY <1>0, <1>a, <1>1, CrawlFacts, OverGoesOn DEF LooksBy
<1>2. ASSUME NEW by \in {"pid", "url"}, crawl' = [crawl EXCEPT ![c] = Taken(c, by, "api")] PROVE CrawlInv'
  <2>1. /\ Taken(c, by, "api") \in CrawlRecord /\ CrawlOK(kind[c], Taken(c, by, "api"))
        /\ Taken(c, by, "api").at = "api"
    BY <1>0, <1>a, TakenTypes DEF LooksBy
  <2>. QED
    BY <1>0, <1>2, <2>1, CrawlFacts, CrawlGoesOn
<1>3. ASSUME NEW to \in {"html", "open"}, Goes(c, to) PROVE CrawlInv'
  <2>1. PICK b \in CrawlRecord : CrawlOK(kind[c], b) /\ b.at = to /\ crawl' = [crawl EXCEPT ![c] = b]
    BY <1>0, <1>a, <1>3, GoesTypes
  <2>. QED
    BY <1>0, <2>1, CrawlFacts, CrawlGoesOn
<1>4. CASE CrawlOver(c)
  BY <1>0, <1>4, CrawlFacts, GivenUp
<1>5. CASE TryApi(c)
  BY <1>1, <1>2, <1>3, <1>5 DEF TryApi, TryChain
<1>6. CASE TryHtml(c)
  BY <1>1, <1>2, <1>3, <1>6 DEF TryHtml, TryChain
<1>7. CASE TryBrowser(c)
  BY <1>1, <1>2, <1>4, <1>7 DEF TryBrowser, TryChain
<1>. QED
  BY <1>5, <1>6, <1>7

LEMMA CloseContextKeeps ==
  ASSUME CrawlInv, NEW c \in Crawlers, CloseContext(c)
  PROVE  CrawlInv'
<1>0. /\ crawl[c].at = "loaded" /\ kind[c] = "chain" /\ Goes(c, "read")
      /\ contexts \in [Crawlers -> Int] /\ leaked \in [Crawlers -> Int]
      /\ UNCHANGED <<kind, proxies, turn, asleep>>
  BY DEF CloseContext, CrawlInv, CrawlTyped
<1>1. PICK b \in CrawlRecord : CrawlOK(kind[c], b) /\ b.at = "read" /\ crawl' = [crawl EXCEPT ![c] = b]
  BY <1>0, GoesTypes DEF Keyed
<1>2. /\ contexts[c] \in Int /\ contexts[c] - 1 \in Int /\ leaked[c] \in Int /\ leaked[c] + 1 \in Int
      /\ contexts[c] = leaked[c] + 1
  BY <1>0 DEF CrawlInv, ChainClosesContexts
<1>3. CASE contexts' = [contexts EXCEPT ![c] = contexts[c] - 1] /\ UNCHANGED leaked
  <2>1. leaked' = [leaked EXCEPT ![c] = leaked[c]]
    BY <1>0, <1>3
  <2>2. contexts[c] - 1 = leaked[c] + IF b.at = "loaded" THEN 1 ELSE 0
    BY <1>1, <1>2
  <2>. QED
    BY <1>0, <1>1, <1>2, <1>3, <2>1, <2>2, CrawlFacts, CrawlMoves
<1>4. CASE UNCHANGED contexts /\ leaked' = [leaked EXCEPT ![c] = leaked[c] + 1]
  <2>1. contexts' = [contexts EXCEPT ![c] = contexts[c]]
    BY <1>0, <1>4
  <2>2. contexts[c] = (leaked[c] + 1) + IF b.at = "loaded" THEN 1 ELSE 0
    BY <1>1, <1>2
  <2>. QED
    BY <1>0, <1>1, <1>2, <1>4, <2>1, <2>2, CrawlFacts, CrawlMoves
<1>. QED
  BY <1>3, <1>4 DEF CloseContext

LEMMA CoolKeeps ==
  ASSUME CrawlInv, Cool
  PROVE  CrawlInv'
<1>0. /\ proxies' = [p \in Proxies |-> [proxies[p] EXCEPT !.cooling = Max({0, proxies[p].cooling - 1})]]
      /\ proxies \in [Proxies -> [fails : Nat, cooling : Nat]]
      /\ UNCHANGED <<kind, crawl, turn, asleep, browserVars, trouble>>
  BY DEF Cool, CrawlInv, CrawlTyped
<1>1. ASSUME NEW p \in Proxies PROVE Max({0, proxies[p].cooling - 1}) \in Nat
  <2>1. proxies[p].cooling - 1 \in Int
    BY <1>0
  <2>. QED
    BY <2>1, AtLeastNone
<1>2. proxies' \in [Proxies -> [fails : Nat, cooling : Nat]]
  BY <1>0, <1>1
<1>. QED
  BY <1>0, <1>2 DEF CrawlInv, CrawlTyped, ChainClosesContexts, browserVars

LEMMA CrawlNextInv == CrawlInv /\ [CrawlNext]_crawlVars => CrawlInv'
<1>. SUFFICES ASSUME CrawlInv, [CrawlNext]_crawlVars PROVE CrawlInv'
  OBVIOUS
<1>1. CASE UNCHANGED crawlVars
  BY <1>1 DEF crawlVars, browserVars, CrawlInv, CrawlTyped, ChainClosesContexts
<1>2. CASE Cool
  BY <1>2, CoolKeeps
<1>3. ASSUME NEW c \in Crawlers, StartCrawl(c) PROVE CrawlInv'
  BY <1>3, StartCrawlKeeps
<1>4. ASSUME NEW c \in Crawlers, CrawlStep(c) PROVE CrawlInv'
  <2>1. CASE TakeClient(c) \/ Wake(c) \/ Request(c) \/ ReportFailure(c) \/ ReportSuccess(c)
    BY <2>1, TakeClientKeeps, WakeKeeps, RequestKeeps, ReportFailureKeeps, ReportSuccessKeeps
  <2>2. CASE ParsePage(c) \/ OpenPage(c) \/ LoadPage(c) \/ LoadSection(c)
    BY <2>2, ParsePageKeeps, OpenPageKeeps, LoadPageKeeps, LoadSectionKeeps
  <2>3. CASE TryApi(c) \/ TryHtml(c) \/ CloseContext(c) \/ TryBrowser(c)
    BY <2>3, TryChainKeeps, CloseContextKeeps
  <2>. QED
    BY <1>4, <2>1, <2>2, <2>3 DEF CrawlStep
<1>. QED
  BY <1>1, <1>2, <1>3, <1>4 DEF CrawlNext

LEMMA CrawlHolds == CrawlInv => FoundOnce /\ ChainClosesContexts
BY DEF CrawlInv, CrawlOK, Once, Keyed, FoundOnce

\* A session takes a new proxy from those that rest no more.
LEMMA CrawlSteps ==
  ASSUME CrawlInv, [CrawlNext]_crawlVars, NEW c \in Crawlers,
         crawl'[c].at = "get", crawl[c].at \in {"client", "sleep"}, crawl'[c].requests = 0
  PROVE  proxies'[crawl'[c].proxy].cooling = 0
<1>0. crawl \in [Crawlers -> CrawlRecord] /\ crawl[c] \in CrawlRecord /\ CrawlOK(kind[c], crawl[c])
  BY CrawlFacts DEF CrawlInv, CrawlTyped
<1>1. crawl'[c] # crawl[c]
  OBVIOUS
<1>2. ASSUME NEW d \in Crawlers, d # c, NEW b, crawl' = [crawl EXCEPT ![d] = b] PROVE FALSE
  BY <1>0, <1>1, <1>2
<1>3. CASE TakeClient(c)
  <2>1. CASE crawl[c].requests < PerSession /\ Goes(c, "get")
    <3>1. crawl'[c].requests = crawl[c].requests /\ crawl[c].at = "client"
      BY <1>0, <1>3, <2>1 DEF Goes, TakeClient, CrawlRecord
    <3>. QED
      BY <1>0, <3>1 DEF CrawlOK
  <2>2. CASE /\ Ready # {}
             /\ crawl' = [crawl EXCEPT ![c].at = "get", ![c].requests = 0, ![c].proxy = InTurn[Min(Ready)]]
    <3>1. crawl'[c].proxy = InTurn[Min(Ready)] /\ proxies' = proxies
      BY <1>0, <1>3, <2>2 DEF TakeClient, CrawlRecord
    <3>. QED
      BY <2>2, <3>1, ReadyTypes
  <2>3. CASE crawl' = [crawl EXCEPT ![c].at = "sleep", ![c].proxy = Earliest]
    BY <1>0, <2>3 DEF CrawlRecord
  <2>. QED
    BY <1>3, <2>1, <2>2, <2>3 DEF TakeClient
<1>4. CASE Wake(c)
  <2>1. crawl'[c].proxy = crawl[c].proxy /\ proxies' = proxies /\ proxies[crawl[c].proxy].cooling = 0
    BY <1>0, <1>4 DEF Wake, CrawlRecord
  <2>. QED
    BY <2>1
<1>5. CASE UNCHANGED crawlVars \/ Cool
  BY <1>1, <1>5 DEF crawlVars, Cool
<1>6. ASSUME NEW d \in Crawlers, d # c, CrawlStep(d) \/ StartCrawl(d) PROVE FALSE
  <2>1. \A to : ~Goes(d, to)
    BY <1>0, <1>1, <1>6 DEF Goes
  <2>2. \A more : ~EndedWith(d, more)
    BY <1>0, <1>1, <1>6 DEF EndedWith
  <2>3. ~CrawlOver(d) /\ ~CrawlRaises(d)
    BY <1>0, <1>1, <1>6, <2>2 DEF CrawlOver, CrawlRaises
  <2>4. \A by, to : crawl' # [crawl EXCEPT ![d] = Taken(d, by, to)]
    BY <1>0, <1>1, <1>6
  <2>5. \A to : ~ParseLinked(d, to)
    BY <2>2, <2>4 DEF ParseLinked
  <2>6. CASE StartCrawl(d) \/ TakeClient(d) \/ Wake(d)
    BY <1>0, <1>1, <1>6, <2>1, <2>6 DEF StartCrawl, TakeClient, Wake
  <2>7. CASE Request(d) \/ ReportFailure(d) \/ ReportSuccess(d)
    BY <1>0, <1>1, <1>6, <2>3, <2>7 DEF Request, ReportFailure, ReportSuccess
  <2>8. CASE ParsePage(d) \/ LoadPage(d) \/ LoadSection(d) \/ OpenPage(d)
    BY <2>1, <2>2, <2>3, <2>5, <2>8 DEF ParsePage, LoadPage, LoadSection, OpenPage
  <2>9. CASE TryApi(d) \/ TryHtml(d) \/ CloseContext(d) \/ TryBrowser(d)
    BY <2>1, <2>2, <2>3, <2>4, <2>9 DEF TryApi, TryHtml, CloseContext, TryBrowser, TryChain
  <2>. QED
    BY <1>6, <2>6, <2>7, <2>8, <2>9 DEF CrawlStep
<1>7. CASE StartCrawl(c)
  BY <1>7 DEF StartCrawl
<1>8. CASE CrawlStep(c)
  <2>1. crawl[c].at \in {"client", "sleep"}
    OBVIOUS
  <2>2. TakeClient(c) \/ Wake(c)
    BY <1>8, <2>1 DEF CrawlStep, Request, ReportFailure, ReportSuccess, ParsePage, OpenPage, LoadPage,
                      LoadSection, TryApi, TryHtml, CloseContext, TryBrowser, TryChain
  <2>. QED
    BY <1>3, <1>4, <2>2
<1>. QED
  BY <1>5, <1>6, <1>7, <1>8 DEF CrawlNext

CrawlSpec == CrawlInit /\ [][CrawlNext]_crawlVars

LEMMA CrawlInvariance == CrawlSpec => []CrawlInv
  BY CrawlInitInv, CrawlNextInv, PTL DEF CrawlSpec

\* A crawl of a category returns no two listings under one key, whatever pages
\* link to and by whatever way each was read, and AliExpress's chain of fallbacks
\* leaves a browser context behind only where the browser itself has failed, on
\* any path (FoundOnce and ChainClosesContexts).
THEOREM CrawlsAreClean == CrawlSpec => [](FoundOnce /\ ChainClosesContexts)
  BY CrawlInvariance, CrawlHolds, PTL

\* A session never takes a proxy that the pool has put to rest, also after the
\* sleep in get_proxy, in which others report failures (RestedWhenTaken).
THEOREM ProxiesHaveRested == CrawlSpec => RestedWhenTaken
<1>1. CrawlInv /\ [CrawlNext]_crawlVars =>
        [\A c \in Crawlers :
           crawl'[c].at = "get" /\ crawl[c].at \in {"client", "sleep"} /\ crawl'[c].requests = 0
             => proxies'[crawl'[c].proxy].cooling = 0]_crawlVars
  <2>. SUFFICES ASSUME CrawlInv, [CrawlNext]_crawlVars, NEW c \in Crawlers,
                       crawl'[c].at = "get", crawl[c].at \in {"client", "sleep"}, crawl'[c].requests = 0
                PROVE  proxies'[crawl'[c].proxy].cooling = 0
    OBVIOUS
  <2>. QED
    BY CrawlSteps
<1>. QED
  BY <1>1, CrawlInvariance, PTL DEF CrawlSpec, RestedWhenTaken

-----------------------------------------------------------------------------
(* All of what scrapes *)

\* The parts share no state: a step of one is a step or a stutter of each other.
LEMMA PartsInit ==
  ScrapingInit => /\ Init /\ ScraperInit /\ CrawlInit /\ StageInit /\ TaskInit
                  /\ PrioInit /\ FetchingInit
BY DEF ScrapingInit

LEMMA PartsNext ==
  [ScrapingNext]_scrapingVars =>
    /\ [Next]_vars /\ [ScraperNext]_scraperVars /\ [CrawlNext]_crawlVars
    /\ [StageNext]_stageVars /\ [TaskNext]_taskVars /\ [PrioNext]_prioVars
    /\ [FetchingNext]_fetchingVars
<1>1. CASE UNCHANGED scrapingVars
  BY <1>1 DEF scrapingVars, others
<1>2. CASE MayRest
  BY <1>2 DEF MayRest, scrapingVars, others
<1>3. CASE ScrapingNext /\ ~MayRest
  BY <1>3 DEF ScrapingNext, others
<1>. QED
  BY <1>1, <1>2, <1>3

LEMMA Parts ==
  ScrapingSpec => /\ Spec /\ LegacySpec /\ CrawlSpec /\ StageSpec /\ TaskSpec
                  /\ PrioSpec /\ FetchingSpec
<1>1. ScrapingSpec => ScrapingInit /\ [][ScrapingNext]_scrapingVars
  BY PTL DEF ScrapingSpec
<1>2. ScrapingInit /\ [][ScrapingNext]_scrapingVars =>
        /\ Spec /\ LegacySpec /\ CrawlSpec /\ StageSpec /\ TaskSpec /\ PrioSpec /\ FetchingSpec
  BY PartsInit, PartsNext, PTL
     DEF Spec, LegacySpec, CrawlSpec, StageSpec, TaskSpec, PrioSpec, FetchingSpec
<1>. QED
  BY <1>1, <1>2

\* Everything the run of what scrapes checks of each state, for any sizes of
\* every part: what the service of scraper_v2 promises (CircuitNotStuck,
\* SlotsConserved, ListingsKept, CycleDrains), what the queues do (QueuesSound)
\* and what the other parts do (ScrapersSound).
THEOREM ScrapingIsSound ==
  ScrapingSpec => [](/\ CircuitNotStuck /\ SlotsConserved /\ ListingsKept /\ CycleDrains
                     /\ QueuesSound /\ ScrapersSound)
<1>1. (/\ MarkedIsKept /\ PublishedOnce
       /\ FoundOnce /\ ChainClosesContexts
       /\ NobodyStarves /\ PlanWithinBudget
       /\ FreeArePaced /\ BlocksOfRequests /\ RestsAfterFailures /\ PoolKeepsContexts)
        => ScrapersSound
  BY DEF ScrapersSound
<1>. QED
  BY <1>1, Parts, ListingsAreKept, CrawlsAreClean, CyclesArePlanned, RequestsAreGuarded,
     CircuitNeverStuck, SlotsKept, NoListingLost, CyclesDrain, QueuesAreSound, PTL

\* What leaves the WAL has been sent, and what goes out has rested, in every
\* step of what scrapes (ScrapersGuarded).
THEOREM ScrapingIsGuarded == ScrapingSpec => ScrapersGuarded
  BY Parts, FilesLeaveSent, ProxiesHaveRested DEF ScrapersGuarded
===============================================================================
