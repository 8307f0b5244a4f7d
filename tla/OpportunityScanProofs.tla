------------------------ MODULE OpportunityScanProofs ------------------------
(***************************************************************************)
(* What holds of every number of concurrent scans, listings and rows: at   *)
(* most one active opportunity per direction, and an expired one is final. *)
(*                                                                         *)
(* The argument is about who may change a row.  An analysis that refreshes *)
(* a row holds it (Held), so nobody has marked it; a marked row is active  *)
(* and marked by one scan (MarkedActive, MarkedOnce), and a scan marks     *)
(* only while it has no analyses of its own (Quiet).                       *)
(***************************************************************************)
EXTENDS OpportunityScan, FiniteSetTheorems, TLAPS

PairsKnown == \A o \in Rows : opps[o].status # "unused" => opps[o].pair \in Pairs

JobsKnown ==
    \A s \in Scans, p \in Products :
        /\ work[s][p].step \in {"upsert", "update", "insert"} => work[s][p].pair \in Pairs
        /\ work[s][p].step = "update" => work[s][p].row \in Rows

Quiet == \A s \in Scans : phase[s] # "analyse" => Gathered(s)

MarkedActive == \A s \in Scans : \A o \in marked[s] : opps[o].status = "active"

SnappedKnown == \A s \in Scans : \A o \in snapped[s] : opps[o].status # "unused"

MarkedOnce == \A s, t \in Scans : s # t => marked[s] \cap marked[t] = {}

Held ==
    \A s \in Scans, p \in Products : work[s][p].step = "update" =>
        /\ opps[work[s][p].row].status = "active"
        /\ Direction(opps[work[s][p].row].pair) = Direction(work[s][p].pair)
        /\ \A t \in Scans : work[s][p].row \notin marked[t]

IInv ==
    /\ TypeOK /\ PairsKnown /\ JobsKnown /\ Quiet
    /\ MarkedActive /\ MarkedOnce /\ SnappedKnown /\ Held /\ OneActivePerDirection

-----------------------------------------------------------------------------
LEMMA InitOK == ASSUME Init PROVE IInv
  <1> USE ScanAssumption
  <1>1. TypeOK
    BY DEF Init, TypeOK, NoJob, Job, Steps, Phases
  <1>2. PairsKnown /\ OneActivePerDirection
    BY DEF Init, PairsKnown, OneActivePerDirection, Active
  <1>3. JobsKnown /\ Quiet /\ Held
    BY DEF Init, JobsKnown, Quiet, Gathered, Held, NoJob, Job
  <1>4. MarkedActive /\ MarkedOnce /\ SnappedKnown
    BY DEF Init, MarkedActive, MarkedOnce, SnappedKnown
  <1> QED BY <1>1, <1>2, <1>3, <1>4 DEF IInv

-----------------------------------------------------------------------------
\* The rows of a statement under way are rows with a pair.
LEMMA ReadRows ==
    ASSUME TypeOK, PairsKnown, NEW R \in SUBSET Rows, NEW order \in Orders(R),
           \A o \in R : opps[o].pair \in Pairs
    PROVE  AsRead(order) \in Seq([row : Rows, pair : Pairs])
  <1>1. Cardinality(R) \in Nat
    <2>1. IsFiniteSet(Rows)
      BY ScanAssumption, FS_Interval DEF Rows
    <2>2. IsFiniteSet(R)
      BY <2>1, FS_Subset
    <2> QED BY <2>2, FS_CardinalityType
  <1>2. order \in [1..Cardinality(R) -> R]
    BY DEF Orders
  <1>3. AsRead(order) = [i \in 1..Cardinality(R) |-> [row |-> order[i], pair |-> opps[order[i]].pair]]
    BY <1>2 DEF AsRead
  <1>4. \A i \in 1..Cardinality(R) : [row |-> order[i], pair |-> opps[order[i]].pair] \in [row : Rows, pair : Pairs]
    BY <1>2
  <1> DEFINE Entry == [row : Rows, pair : Pairs]
  <1>5. AsRead(order) \in [1..Cardinality(R) -> Entry]
    BY <1>3, <1>4
  <1> HIDE DEF Entry
  <1>6. AsRead(order) \in Seq(Entry)
    BY <1>1, <1>5
  <1> QED BY <1>6 DEF Entry

-----------------------------------------------------------------------------
\* A step that changes neither rows nor analyses and marks nothing.
LEMMA Frame ==
    ASSUME IInv, opps' = opps, work' = work, TypeOK',
           \A s \in Scans : marked'[s] \subseteq marked[s],
           \A s \in Scans : \A o \in snapped'[s] : o \in snapped[s] \/ opps[o].status # "unused",
           \A s \in Scans : phase'[s] # "analyse" => phase[s] # "analyse" \/ Gathered(s)
    PROVE  IInv'
  <1> USE DEF IInv
  <1>1. PairsKnown' /\ JobsKnown'
    BY DEF PairsKnown, JobsKnown
  <1>2. Quiet'
    BY DEF Quiet, Gathered
  <1>3. MarkedActive' /\ MarkedOnce' /\ SnappedKnown'
    BY DEF MarkedActive, MarkedOnce, SnappedKnown
  <1>4. Held'
    BY DEF Held
  <1>5. OneActivePerDirection'
    BY DEF OneActivePerDirection, Active
  <1> QED BY <1>1, <1>2, <1>3, <1>4, <1>5

LEMMA StartScanOK == ASSUME IInv, NEW s \in Scans, StartScan(s) PROVE IInv'
  <1> USE DEF StartScan, Goto, IInv
  <1> DEFINE R == {o \in Active : Stale(opps[o].pair)}
  <1>1. R \in SUBSET Rows /\ \A o \in R : opps[o].pair \in Pairs
    BY DEF Active, PairsKnown
  <1>2. PICK order \in Orders(R) : queue' = [queue EXCEPT ![s] = AsRead(order)]
    OBVIOUS
  <1> HIDE DEF R
  <1>3. AsRead(order) \in Seq([row : Rows, pair : Pairs])
    BY <1>1, ReadRows
  <1>4. TypeOK'
    BY <1>2, <1>3 DEF TypeOK, Phases
  <1>5. \A t \in Scans : phase'[t] # "analyse" => phase[t] # "analyse" \/ Gathered(t)
    BY DEF TypeOK
  <1>6. marked' = marked /\ snapped' = snapped /\ opps' = opps /\ work' = work
    OBVIOUS
  <1> HIDE DEF StartScan, Goto, IInv
  <1> QED BY <1>4, <1>5, <1>6, Frame

LEMMA FindOK == ASSUME IInv, NEW s \in Scans, FindCandidates(s) \/ FindNone(s) PROVE IInv'
  <1> USE DEF FindCandidates, FindNone, Goto, Forget
  <1>1. Candidates \in SUBSET Products
    BY DEF Candidates
  <1>2. TypeOK'
    BY <1>1 DEF TypeOK, Phases, IInv
  <1>3. \A t \in Scans : marked'[t] \subseteq marked[t] /\ snapped'[t] \subseteq snapped[t]
    BY DEF TypeOK, IInv
  <1>4. \A t \in Scans : phase'[t] # "analyse" => phase[t] # "analyse" \/ Gathered(t)
    BY DEF TypeOK, IInv
  <1> QED BY <1>2, <1>3, <1>4, Frame

LEMMA RollBackOK ==
    ASSUME IInv, NEW s \in Scans, RollBack(s), Gathered(s) \/ phase[s] # "analyse" PROVE IInv'
  <1> USE DEF RollBack, Goto, Forget
  <1> DEFINE Read == Seq([row : Rows, pair : Pairs])
  <1>1. <<>> \in Read
    OBVIOUS
  <1> HIDE DEF Read
  <1>2. TypeOK'
    <2>1. queue \in [Scans -> Read] /\ todo \in [Scans -> SUBSET Products]
      BY DEF TypeOK, IInv, Read
    <2>2. queue' \in [Scans -> Read] /\ todo' \in [Scans -> SUBSET Products]
      BY <1>1, <2>1
    <2>3. /\ phase' \in [Scans -> Phases] /\ marked' \in [Scans -> SUBSET Rows]
          /\ snapped' \in [Scans -> SUBSET Rows] /\ touched' \in [Scans -> SUBSET Rows]
      BY DEF TypeOK, Phases, IInv
    <2> QED BY <2>2, <2>3 DEF TypeOK, IInv, Read
  <1>3. \A t \in Scans : marked'[t] \subseteq marked[t] /\ snapped'[t] \subseteq snapped[t]
    BY DEF TypeOK, IInv
  <1>4. \A t \in Scans : phase'[t] # "analyse" => phase[t] # "analyse" \/ Gathered(t)
    BY DEF TypeOK, IInv
  <1> QED BY <1>2, <1>3, <1>4, Frame

LEMMA LifecycleOK ==
    ASSUME IInv, NEW s \in Scans, SelectActive(s) \/ FlushSnapshots(s) \/ UpdateLifecycle(s)
    PROVE  IInv'
  <1>1. TypeOK'
    <2>1. CASE SelectActive(s)
      <3>1. Active \ marked[s] \in SUBSET Rows
        BY DEF Active
      <3>2. snapped' \in [Scans -> SUBSET Rows] /\ phase' \in [Scans -> Phases]
        BY <2>1, <3>1 DEF SelectActive, Goto, TypeOK, Phases, IInv
      <3> QED BY <2>1, <3>2 DEF SelectActive, TypeOK, IInv
    <2>2. CASE FlushSnapshots(s)
      <3>1. PICK differ \in SUBSET snapped[s] : \E order \in Orders(differ) :
               queue' = [queue EXCEPT ![s] = AsRead(order)]
        BY <2>2 DEF FlushSnapshots
      <3>2. PICK order \in Orders(differ) : queue' = [queue EXCEPT ![s] = AsRead(order)]
        BY <3>1
      <3>3. differ \in SUBSET Rows /\ \A o \in differ : opps[o].pair \in Pairs
        BY DEF IInv, TypeOK, SnappedKnown, PairsKnown
      <3>4. AsRead(order) \in Seq([row : Rows, pair : Pairs])
        BY <3>3, ReadRows DEF IInv
      <3> QED BY <2>2, <3>2, <3>4 DEF FlushSnapshots, Goto, TypeOK, Phases, IInv
    <2>3. CASE UpdateLifecycle(s)
      <3> DEFINE Entry == [row : Rows, pair : Pairs]
      <3>1. queue[s] \in Seq(Entry) /\ queue[s] # <<>>
        BY <2>3 DEF UpdateLifecycle, TypeOK, IInv
      <3>2. Head(queue[s]).row \in Rows /\ Tail(queue[s]) \in Seq(Entry)
        <4>1. \A e \in Entry : e.row \in Rows
          OBVIOUS
        <4> HIDE DEF Entry
        <4>2. Head(queue[s]) \in Entry /\ Tail(queue[s]) \in Seq(Entry)
          BY <3>1
        <4> QED BY <4>1, <4>2
      <3> HIDE DEF Entry
      <3>3. queue' \in [Scans -> Seq(Entry)] /\ touched' \in [Scans -> SUBSET Rows]
        BY <2>3, <3>2 DEF UpdateLifecycle, TypeOK, IInv, Entry
      <3> QED BY <2>3, <3>3 DEF UpdateLifecycle, TypeOK, IInv, Entry
    <2> QED BY <2>1, <2>2, <2>3
  <1>2. /\ \A t \in Scans : marked'[t] \subseteq marked[t]
        /\ \A t \in Scans : \A o \in snapped'[t] : o \in snapped[t] \/ opps[o].status # "unused"
    BY DEF SelectActive, FlushSnapshots, UpdateLifecycle, Active, TypeOK, IInv
  <1>3. \A t \in Scans : phase'[t] # "analyse" => phase[t] # "analyse" \/ Gathered(t)
    BY DEF SelectActive, FlushSnapshots, UpdateLifecycle, Goto, TypeOK, IInv
  <1>4. opps' = opps /\ work' = work
    BY DEF SelectActive, FlushSnapshots, UpdateLifecycle
  <1> QED BY <1>1, <1>2, <1>3, <1>4, Frame

-----------------------------------------------------------------------------
\* Only an active row nobody else has marked and no analysis holds is marked.
LEMMA MarkExpiredOK == ASSUME IInv, NEW s \in Scans, MarkExpired(s) PROVE IInv'
  <1> DEFINE Entry == [row : Rows, pair : Pairs]
             o == Head(queue[s]).row
  <1>1. queue[s] \in Seq(Entry) /\ queue[s] # <<>>
    BY DEF MarkExpired, TypeOK, IInv
  <1>2. o \in Rows /\ Tail(queue[s]) \in Seq(Entry)
    <2>1. \A e \in Entry : e.row \in Rows
      OBVIOUS
    <2> HIDE DEF Entry
    <2>2. Head(queue[s]) \in Entry /\ Tail(queue[s]) \in Seq(Entry)
      BY <1>1
    <2> QED BY <2>1, <2>2
  <1>3. /\ phase[s] = "expire" /\ ~MustWait(s, o)
        /\ \/ opps[o].status = "active" /\ marked' = [marked EXCEPT ![s] = @ \cup {o}]
           \/ marked' = marked
        /\ queue' = [queue EXCEPT ![s] = Tail(@)]
        /\ UNCHANGED <<fresh, opps, phase, snapped, touched, todo, work>>
    BY DEF MarkExpired
  <1> HIDE DEF o
  <1>quiet. \A p \in Products : work[s][p].step # "update"
    BY <1>3 DEF IInv, Quiet, Gathered, NoJob, Job
  <1>4. TypeOK'
    <2> HIDE DEF Entry
    <2>0. queue \in [Scans -> Seq(Entry)] /\ marked \in [Scans -> SUBSET Rows]
      BY DEF TypeOK, IInv, Entry
    <2>1. queue' \in [Scans -> Seq(Entry)]
      BY <1>2, <1>3, <2>0
    <2>2. marked' \in [Scans -> SUBSET Rows]
      BY <1>2, <1>3, <2>0
    <2> QED BY <1>3, <2>1, <2>2 DEF TypeOK, IInv, Entry
  <1>5. CASE marked' = marked
    BY <1>3, <1>4, <1>5, Frame DEF IInv, Quiet
  <1>6. CASE /\ opps[o].status = "active" /\ marked' = [marked EXCEPT ![s] = @ \cup {o}]
    <2> USE <1>3, <1>6 DEF IInv, TypeOK
    <2>1. PairsKnown' /\ JobsKnown' /\ SnappedKnown'
      BY DEF PairsKnown, JobsKnown, SnappedKnown
    <2>2. Quiet' /\ OneActivePerDirection'
      BY DEF Quiet, Gathered, OneActivePerDirection, Active
    <2>3. MarkedActive'
      BY DEF MarkedActive
    <2>4. MarkedOnce'
      BY DEF MarkedOnce, MustWait, Changed
    <2>5. Held'
      <3> SUFFICES ASSUME NEW t \in Scans, NEW p \in Products, work[t][p].step = "update"
                   PROVE  work[t][p].row # o
        BY DEF Held
      <3>1. t # s
        BY <1>quiet
      <3> QED BY <3>1 DEF MustWait, HeldByAnalysis
    <2> QED BY <1>4, <2>1, <2>2, <2>3, <2>4, <2>5
  <1> QED BY <1>3, <1>5, <1>6

\* The marked rows become expired; nobody else has marked or holds them.
LEMMA CommitOK == ASSUME IInv, NEW s \in Scans, EndDetection(s) \/ Commit(s) PROVE IInv'
  <1> DEFINE Row == [status : {"unused", "active", "expired"}, pair : Pairs \cup {NoPair}]
             Read == Seq([row : Rows, pair : Pairs])
  <1>1. /\ CommitExpired(s) /\ Forget(s)
        /\ \E step \in {"idle", "select"} : phase' = [phase EXCEPT ![s] = step]
        /\ phase[s] = "analyse" => Gathered(s)
        /\ UNCHANGED <<fresh, todo, work>>
    BY DEF EndDetection, Commit, Goto
  <1>2. Gathered(s)
    BY <1>1 DEF IInv, Quiet
  <1>3. TypeOK'
    <2>1. <<>> \in Read
      OBVIOUS
    <2>2. opps \in [Rows -> Row] /\ queue \in [Scans -> Read]
      BY DEF TypeOK, IInv
    <2>3. \A r \in Row : [r EXCEPT !.status = "expired"] \in Row
      OBVIOUS
    <2> HIDE DEF Row, Read
    <2>4. opps' \in [Rows -> Row] /\ queue' \in [Scans -> Read]
      BY <1>1, <2>1, <2>2, <2>3 DEF CommitExpired, Forget
    <2>5. /\ phase' \in [Scans -> Phases] /\ marked' \in [Scans -> SUBSET Rows]
          /\ snapped' \in [Scans -> SUBSET Rows] /\ touched' \in [Scans -> SUBSET Rows]
      BY <1>1 DEF TypeOK, Phases, IInv, Forget
    <2> QED BY <1>1, <2>4, <2>5 DEF TypeOK, IInv, Row, Read
  <1>4. \A o \in Rows : /\ opps'[o].pair = opps[o].pair
                        /\ opps'[o].status = IF o \in marked[s] THEN "expired" ELSE opps[o].status
    BY <1>1 DEF CommitExpired, TypeOK, IInv
  <1>5. marked' = [marked EXCEPT ![s] = {}] /\ snapped' = [snapped EXCEPT ![s] = {}]
    BY <1>1 DEF Forget
  <1> USE DEF IInv, TypeOK
  <1>6. PairsKnown'
    BY <1>4 DEF PairsKnown, MarkedActive
  <1>7. JobsKnown'
    BY <1>1 DEF JobsKnown
  <1>8. Quiet'
    BY <1>1, <1>2 DEF Quiet, Gathered
  <1>9. MarkedActive' /\ MarkedOnce'
    BY <1>4, <1>5 DEF MarkedActive, MarkedOnce
  <1>10. SnappedKnown'
    BY <1>4, <1>5 DEF SnappedKnown
  <1>11. Held'
    BY <1>1, <1>4, <1>5 DEF Held, JobsKnown
  <1>12. OneActivePerDirection'
    BY <1>4 DEF OneActivePerDirection, Active
  <1> QED BY <1>3, <1>6, <1>7, <1>8, <1>9, <1>10, <1>11, <1>12

-----------------------------------------------------------------------------
\* A step of one analysis, whose next job is the right one.
LEMMA JobOK ==
    ASSUME IInv, NEW s \in Scans, NEW p \in Products,
           NEW step \in Steps, NEW pair \in Pairs \cup {NoPair}, NEW row \in Rows \cup {NoRow},
           SetJob(s, p, Job(step, pair, row)), phase[s] = "analyse",
           UNCHANGED <<fresh, opps, callers>>,
           step \in {"upsert", "update", "insert"} => pair \in Pairs,
           step = "update" => /\ row \in Rows /\ opps[row].status = "active"
                              /\ Direction(opps[row].pair) = Direction(pair)
                              /\ \A t \in Scans : row \notin marked[t]
    PROVE  IInv'
  <1> DEFINE job == Job(step, pair, row)
  <1>1. job \in [step : Steps, pair : Pairs \cup {NoPair}, row : Rows \cup {NoRow}]
    BY DEF Job
  <1>2. job.step = step /\ job.pair = pair /\ job.row = row
    BY DEF Job
  <1>3. work' = [work EXCEPT ![s][p] = job]
    BY DEF SetJob
  <1> HIDE DEF job
  <1>4. TypeOK'
    BY <1>1, <1>3 DEF TypeOK, IInv, callers
  <1>5. \A t \in Scans, r \in Products :
          work'[t][r] = IF t = s /\ r = p THEN job ELSE work[t][r]
    BY <1>3 DEF TypeOK, IInv
  <1>6. PairsKnown' /\ MarkedActive' /\ MarkedOnce' /\ SnappedKnown'
    BY DEF callers, IInv, PairsKnown, MarkedActive, MarkedOnce, SnappedKnown
  <1>7. OneActivePerDirection'
    BY DEF IInv, OneActivePerDirection, Active
  <1>8. Quiet'
    BY <1>5 DEF IInv, Quiet, Gathered, callers
  <1>9. JobsKnown'
    BY <1>2, <1>5 DEF IInv, JobsKnown
  <1>10. Held'
    BY <1>2, <1>5 DEF IInv, Held, callers
  <1> QED BY <1>4, <1>6, <1>7, <1>8, <1>9, <1>10 DEF IInv

\* An analysis under way belongs to a scan in its analyses.
LEMMA Analysing ==
    ASSUME IInv, NEW s \in Scans, NEW p \in Products, work[s][p] # NoJob
    PROVE  phase[s] = "analyse"
  BY DEF IInv, Quiet, Gathered

LEMMA EndJobOK ==
    ASSUME IInv, NEW s \in Scans, NEW p \in Products, work[s][p] # NoJob,
           SetJob(s, p, NoJob), UNCHANGED <<fresh, opps, callers>>
    PROVE  IInv'
  <1>1. "none" \in Steps /\ NoPair \in Pairs \cup {NoPair} /\ NoRow \in Rows \cup {NoRow}
    BY DEF Steps
  <1>2. SetJob(s, p, Job("none", NoPair, NoRow))
    BY DEF NoJob
  <1> QED BY <1>1, <1>2, Analysing, JobOK

LEMMA AnalyseOK ==
    ASSUME IInv, NEW s \in Scans, NEW p \in Products, Analyse(s, p) PROVE IInv'
  <1>1. work[s][p] # NoJob
    BY DEF Analyse, NoJob, Job
  <1>2. CASE SetJob(s, p, NoJob)
    BY <1>1, <1>2, EndJobOK DEF Analyse
  <1>3. CASE \E q \in Pairs : SetJob(s, p, Job("upsert", q, NoRow))
    <2>1. PICK q \in Pairs : SetJob(s, p, Job("upsert", q, NoRow))
      BY <1>3
    <2>2. "upsert" \in Steps /\ q \in Pairs \cup {NoPair} /\ NoRow \in Rows \cup {NoRow}
      BY DEF Steps
    <2>3. UNCHANGED <<fresh, opps, callers>>
      BY DEF Analyse
    <2> QED BY <1>1, <2>1, <2>2, <2>3, Analysing, JobOK
  <1> QED BY <1>2, <1>3 DEF Analyse

LEMMA SelectForUpdateOK ==
    ASSUME IInv, NEW s \in Scans, NEW p \in Products, SelectForUpdate(s, p) PROVE IInv'
  <1> DEFINE q == work[s][p].pair
  <1>1. work[s][p] # NoJob /\ q \in Pairs /\ UNCHANGED <<fresh, opps, callers>>
    BY DEF SelectForUpdate, NoJob, Job, IInv, JobsKnown
  <1>2. "update" \in Steps /\ "insert" \in Steps /\ NoRow \in Rows \cup {NoRow}
    BY DEF Steps
  <1>3. CASE SetJob(s, p, Job("insert", q, NoRow))
    BY <1>1, <1>2, <1>3, Analysing, JobOK
  <1>4. CASE \E o \in SameDirection(q) : Lockable(o) /\ SetJob(s, p, Job("update", q, o))
    <2>1. PICK o \in SameDirection(q) : Lockable(o) /\ SetJob(s, p, Job("update", q, o))
      BY <1>4
    <2>2. o \in Rows /\ opps[o].status = "active" /\ Direction(opps[o].pair) = Direction(q)
      BY DEF SameDirection, Active
    <2>3. \A t \in Scans : o \notin marked[t]
      BY <2>1 DEF Lockable, Changed
    <2> HIDE DEF q
    <2> QED BY <1>1, <1>2, <2>1, <2>2, <2>3, Analysing, JobOK
  <1> QED BY <1>3, <1>4 DEF SelectForUpdate

LEMMA StartBatchOK == ASSUME IInv, NEW s \in Scans, StartBatch(s) PROVE IInv'
  <1>1. PICK B \in SUBSET todo[s] :
          /\ work' = [work EXCEPT ![s] = [p \in Products |->
                       IF p \in B THEN Job("analyse", NoPair, NoRow) ELSE NoJob]]
          /\ todo' = [todo EXCEPT ![s] = @ \ B]
    BY DEF StartBatch
  <1>2. /\ phase[s] = "analyse"
        /\ UNCHANGED <<fresh, opps, phase, queue, marked, snapped, touched>>
    BY DEF StartBatch
  <1>3. \A t \in Scans, p \in Products :
          \/ work'[t][p] = work[t][p]
          \/ t = s /\ work'[t][p] \in {Job("analyse", NoPair, NoRow), NoJob}
    BY <1>1 DEF TypeOK, IInv
  <1>4. TypeOK'
    <2>1. Job("analyse", NoPair, NoRow) \in [step : Steps, pair : Pairs \cup {NoPair}, row : Rows \cup {NoRow}]
      BY DEF Job, Steps
    <2>2. NoJob \in [step : Steps, pair : Pairs \cup {NoPair}, row : Rows \cup {NoRow}]
      BY DEF NoJob, Job, Steps
    <2>3. todo' \in [Scans -> SUBSET Products]
      BY <1>1 DEF TypeOK, IInv
    <2> QED BY <1>1, <1>2, <2>1, <2>2, <2>3 DEF TypeOK, IInv
  <1>5. PairsKnown' /\ MarkedActive' /\ MarkedOnce' /\ SnappedKnown'
    BY <1>2 DEF IInv, PairsKnown, MarkedActive, MarkedOnce, SnappedKnown
  <1>6. OneActivePerDirection'
    BY <1>2 DEF IInv, OneActivePerDirection, Active
  <1>7. Quiet'
    BY <1>2, <1>3 DEF IInv, Quiet, Gathered
  <1>8. \A t \in Scans, p \in Products :
          \/ work'[t][p] = work[t][p]
          \/ work'[t][p].step \notin {"upsert", "update", "insert"}
    BY <1>3 DEF Job, NoJob
  <1>9. JobsKnown'
    BY <1>8 DEF IInv, JobsKnown
  <1>10. Held'
    BY <1>2, <1>8 DEF IInv, Held
  <1> QED BY <1>4, <1>5, <1>6, <1>7, <1>9, <1>10 DEF IInv

-----------------------------------------------------------------------------
\* The row an analysis refreshes is active, and keeps its direction.
LEMMA UpdateOK ==
    ASSUME IInv, NEW s \in Scans, NEW p \in Products, Update(s, p) PROVE IInv'
  <1> DEFINE o == work[s][p].row
             q == work[s][p].pair
  <1>1. /\ work[s][p].step = "update" /\ UNCHANGED <<fresh, callers>>
        /\ opps' = [opps EXCEPT ![o].pair = q]
        /\ work' = [work EXCEPT ![s][p] = NoJob]
    BY DEF Update, SetJob
  <1>2. o \in Rows /\ q \in Pairs /\ opps[o].status = "active" /\ Direction(opps[o].pair) = Direction(q)
    BY <1>1 DEF IInv, JobsKnown, Held
  <1> HIDE DEF o, q
  <1>3. /\ \A r \in Rows : opps'[r].status = opps[r].status /\ (r # o => opps'[r] = opps[r])
        /\ opps'[o].pair = q
    BY <1>1, <1>2 DEF IInv, TypeOK
  <1>4. \A t \in Scans, r \in Products :
          work'[t][r] = IF t = s /\ r = p THEN NoJob ELSE work[t][r]
    BY <1>1 DEF IInv, TypeOK
  <1>5. TypeOK'
    <2>1. NoJob \in [step : Steps, pair : Pairs \cup {NoPair}, row : Rows \cup {NoRow}]
      BY DEF NoJob, Job, Steps
    <2>2. work' \in [Scans -> [Products -> [step : Steps, pair : Pairs \cup {NoPair}, row : Rows \cup {NoRow}]]]
      BY <1>1, <2>1 DEF IInv, TypeOK
    <2>3. opps' \in [Rows -> [status : {"unused", "active", "expired"}, pair : Pairs \cup {NoPair}]]
      BY <1>1, <1>2 DEF IInv, TypeOK
    <2> QED BY <1>1, <2>2, <2>3 DEF IInv, TypeOK, callers
  <1>6. PairsKnown' /\ SnappedKnown'
    BY <1>1, <1>2, <1>3 DEF IInv, TypeOK, PairsKnown, SnappedKnown, callers
  <1>7. MarkedActive' /\ MarkedOnce'
    BY <1>1, <1>3 DEF IInv, TypeOK, MarkedActive, MarkedOnce, callers
  <1>8. OneActivePerDirection'
    <2>1. \A r \in Rows : r # o => opps'[r].pair = opps[r].pair
      BY <1>3
    <2>2. \A r \in Rows : r \in Active <=> r \in Active'
      BY <1>3 DEF Active
    <2>3. \A r \in Active : Direction(opps'[r].pair) = Direction(opps[r].pair)
      BY <1>2, <1>3, <2>1 DEF Active
    <2> QED BY <2>2, <2>3 DEF IInv, OneActivePerDirection, Active
  <1>9. Quiet'
    BY <1>1, <1>4 DEF IInv, Quiet, Gathered, callers
  <1>10. NoJob.step = "none"
    BY DEF NoJob, Job
  <1>11. JobsKnown'
    BY <1>4, <1>10 DEF IInv, JobsKnown
  <1>12. Held'
    <2> SUFFICES ASSUME NEW t \in Scans, NEW r \in Products, work'[t][r].step = "update"
                 PROVE  /\ opps'[work'[t][r].row].status = "active"
                        /\ Direction(opps'[work'[t][r].row].pair) = Direction(work'[t][r].pair)
                        /\ \A u \in Scans : work'[t][r].row \notin marked'[u]
      BY DEF Held
    <2>1. work'[t][r] = work[t][r]
      BY <1>4, <1>10
    <2>2. work[t][r].row \in Rows
      BY <2>1 DEF IInv, JobsKnown
    <2> QED BY <1>1, <1>2, <1>3, <2>1, <2>2 DEF IInv, Held, callers
  <1> QED BY <1>5, <1>6, <1>7, <1>8, <1>9, <1>11, <1>12 DEF IInv

\* A row is inserted only where no active row has the direction.
LEMMA InsertOK ==
    ASSUME IInv, NEW s \in Scans, NEW p \in Products, Insert(s, p) PROVE IInv'
  <1> DEFINE q == work[s][p].pair
             NewRow == [status |-> "active", pair |-> q]
  <1>1. /\ work[s][p].step = "insert" /\ UNCHANGED <<fresh, callers>>
        /\ SetJob(s, p, NoJob)
    BY DEF Insert
  <1>2. q \in Pairs /\ work[s][p] # NoJob
    BY <1>1 DEF IInv, JobsKnown, NoJob, Job
  <1>3. CASE opps' = opps
    BY <1>1, <1>2, <1>3, EndJobOK
  <1>4. CASE /\ SameDirection(q) = {}
             /\ \E o \in Rows : opps[o].status = "unused" /\ opps' = [opps EXCEPT ![o] = NewRow]
    <2>1. PICK o \in Rows : opps[o].status = "unused" /\ opps' = [opps EXCEPT ![o] = NewRow]
      BY <1>4
    <2>2. NewRow.status = "active" /\ NewRow.pair = q
      OBVIOUS
    <2>3. NewRow \in [status : {"unused", "active", "expired"}, pair : Pairs \cup {NoPair}]
      BY <1>2
    <2> HIDE DEF NewRow, q
    <2>4. \A r \in Rows : opps'[r] = IF r = o THEN NewRow ELSE opps[r]
      BY <2>1 DEF IInv, TypeOK
    <2>5. work' = [work EXCEPT ![s][p] = NoJob]
      BY <1>1 DEF SetJob
    <2>6. \A t \in Scans, r \in Products :
            work'[t][r] = IF t = s /\ r = p THEN NoJob ELSE work[t][r]
      BY <2>5 DEF IInv, TypeOK
    <2>7. TypeOK'
      <3>1. NoJob \in [step : Steps, pair : Pairs \cup {NoPair}, row : Rows \cup {NoRow}]
        BY DEF NoJob, Job, Steps
      <3>2. work' \in [Scans -> [Products -> [step : Steps, pair : Pairs \cup {NoPair}, row : Rows \cup {NoRow}]]]
        BY <2>5, <3>1 DEF IInv, TypeOK
      <3>3. opps' \in [Rows -> [status : {"unused", "active", "expired"}, pair : Pairs \cup {NoPair}]]
        BY <2>1, <2>3 DEF IInv, TypeOK
      <3> QED BY <1>1, <3>2, <3>3 DEF IInv, TypeOK, callers
    <2>8. PairsKnown' /\ SnappedKnown'
      BY <1>1, <1>2, <2>2, <2>4 DEF IInv, TypeOK, PairsKnown, SnappedKnown, callers
    <2>9. MarkedActive' /\ MarkedOnce'
      BY <1>1, <2>2, <2>4 DEF IInv, TypeOK, MarkedActive, MarkedOnce, callers
    <2>10. OneActivePerDirection'
      <3>1. \A r \in Rows : r \in Active' => r = o \/ (r \in Active /\ opps'[r] = opps[r])
        BY <2>4 DEF Active
      <3>2. \A r \in Active : Direction(opps[r].pair) # Direction(q)
        BY <1>4 DEF SameDirection
      <3>3. opps'[o].pair = q
        BY <2>2, <2>4
      <3> QED BY <3>1, <3>2, <3>3 DEF IInv, OneActivePerDirection, Active
    <2>11. Quiet'
      BY <1>1, <2>6 DEF IInv, Quiet, Gathered, callers
    <2>12. NoJob.step = "none"
      BY DEF NoJob, Job
    <2>13. JobsKnown'
      BY <2>6, <2>12 DEF IInv, JobsKnown
    <2>14. Held'
      <3> SUFFICES ASSUME NEW t \in Scans, NEW r \in Products, work'[t][r].step = "update"
                   PROVE  /\ opps'[work'[t][r].row].status = "active"
                          /\ Direction(opps'[work'[t][r].row].pair) = Direction(work'[t][r].pair)
                          /\ \A u \in Scans : work'[t][r].row \notin marked'[u]
        BY DEF Held
      <3>1. work'[t][r] = work[t][r]
        BY <2>6, <2>12
      <3>2. work[t][r].row \in Rows /\ opps[work[t][r].row].status = "active"
        BY <3>1 DEF IInv, JobsKnown, Held
      <3>3. work[t][r].row # o
        BY <2>1, <3>2
      <3> QED BY <1>1, <2>4, <3>1, <3>2, <3>3 DEF IInv, Held, callers
    <2> QED BY <2>7, <2>8, <2>9, <2>10, <2>11, <2>13, <2>14 DEF IInv
  <1> QED BY <1>3, <1>4 DEF Insert

-----------------------------------------------------------------------------
LEMMA NextOK == ASSUME IInv, [Next]_vars PROVE IInv'
  <1>1. CASE \E s \in Scans : StartScan(s) \/ Caller(s) \/ Fail(s) \/ Deadlock(s)
    <2>1. PICK s \in Scans : StartScan(s) \/ Caller(s) \/ Fail(s) \/ Deadlock(s)
      BY <1>1
    <2>2. CASE StartScan(s)
      BY <2>2, StartScanOK
    <2>3. CASE Caller(s)
      BY <2>3, MarkExpiredOK, FindOK, StartBatchOK, CommitOK, LifecycleOK DEF Caller
    <2>4. CASE Fail(s)
      BY <2>4, RollBackOK DEF Fail
    <2>5. CASE Deadlock(s)
      <3>1. RollBack(s) /\ phase[s] # "analyse"
        BY <2>5 DEF Deadlock, BlockedBy, Waiting
      <3> QED BY <3>1, RollBackOK
    <2> QED BY <2>1, <2>2, <2>3, <2>4, <2>5
  <1>2. CASE \E s \in Scans, p \in Products : Analysis(s, p) \/ FailAnalysis(s, p)
    <2>1. PICK s \in Scans, p \in Products : Analysis(s, p) \/ FailAnalysis(s, p)
      BY <1>2
    <2>2. CASE Analysis(s, p)
      BY <2>2, AnalyseOK, SelectForUpdateOK, UpdateOK, InsertOK DEF Analysis
    <2>3. CASE FailAnalysis(s, p)
      BY <2>3, EndJobOK DEF FailAnalysis
    <2> QED BY <2>1, <2>2, <2>3
  <1>3. CASE \E l \in Ageing : Listed(l)
    <2>1. TypeOK' /\ UNCHANGED <<opps, callers, work>>
      BY <1>3, ScanAssumption DEF Listed, TypeOK, IInv, callers
    <2>2. /\ \A s \in Scans : marked'[s] = marked[s] /\ snapped'[s] = snapped[s] /\ phase'[s] = phase[s]
      BY <2>1 DEF callers
    <2> QED BY <2>1, <2>2, Frame DEF IInv, Quiet
  <1>4. CASE UNCHANGED vars
    BY <1>4 DEF vars, callers, IInv, TypeOK, PairsKnown, JobsKnown, Quiet, Gathered,
                MarkedActive, MarkedOnce, SnappedKnown, Held, OneActivePerDirection, Active
  <1> QED BY <1>1, <1>2, <1>3, <1>4 DEF Next

\* Every variable of the scan keeps its type, for every number of scans,
\* listings and rows, and the argument of the heading holds throughout.
THEOREM Invariance == Spec => []IInv
  <1> QED BY InitOK, NextOK, PTL DEF Spec

\* The types alone: what a caller or an analysis holds and has marked are rows,
\* scans and phases of the code whatever fails or is aborted.
THEOREM TypeCorrect == Spec => []TypeOK
  <1>1. IInv => TypeOK
    BY DEF IInv
  <1> QED BY <1>1, Invariance, PTL

\* Select-then-insert, SKIP LOCKED and rolled back expiries never leave two
\* active opportunities of one product and direction.
THEOREM OneActive == Spec => []OneActivePerDirection
  <1>1. IInv => OneActivePerDirection
    BY DEF IInv
  <1> QED BY <1>1, Invariance, PTL

\* No scan changes an expired opportunity: an analysis that found it active
\* holds it, so that nobody can have expired it since.
LEMMA FinalStep ==
    ASSUME IInv, [Next]_vars, NEW o \in Rows, opps[o].status = "expired"
    PROVE  opps'[o] = opps[o]
  <1>1. CASE \E s \in Scans : CommitExpired(s)
    <2>1. PICK s \in Scans : CommitExpired(s)
      BY <1>1
    <2>2. o \notin marked[s]
      BY DEF IInv, MarkedActive
    <2> QED BY <2>1, <2>2 DEF CommitExpired
  <1>2. CASE \E s \in Scans, p \in Products : Update(s, p)
    <2>1. PICK s \in Scans, p \in Products : Update(s, p)
      BY <1>2
    <2>2. work[s][p].row # o
      BY <2>1 DEF Update, IInv, Held
    <2> QED BY <2>1, <2>2 DEF Update, IInv, TypeOK
  <1>3. CASE \E s \in Scans, p \in Products : Insert(s, p)
    <2>1. PICK s \in Scans, p \in Products : Insert(s, p)
      BY <1>3
    <2>2. \/ opps' = opps
          \/ \E r \in Rows : /\ opps[r].status = "unused"
                             /\ opps' = [opps EXCEPT ![r] = [status |-> "active", pair |-> work[s][p].pair]]
      BY <2>1 DEF Insert
    <2> QED BY <2>2 DEF IInv, TypeOK
  <1>4. CASE UNCHANGED opps
    BY <1>4
  <1>5. \/ \E s \in Scans : CommitExpired(s)
        \/ \E s \in Scans, p \in Products : Update(s, p) \/ Insert(s, p)
        \/ UNCHANGED opps
    BY DEF Next, Caller, Analysis, StartScan, MarkExpired, FindCandidates, FindNone, StartBatch,
           EndDetection, SelectActive, FlushSnapshots, UpdateLifecycle, Commit, Fail, Deadlock,
           RollBack, Analyse, SelectForUpdate, FailAnalysis, Listed, vars
  <1> QED BY <1>1, <1>2, <1>3, <1>4, <1>5

THEOREM ExpiredStays == Spec => ExpiredIsFinal
  <1>1. ASSUME IInv, [Next]_vars
        PROVE  [\A o \in Rows : opps[o].status = "expired" => opps'[o] = opps[o]]_vars
    BY <1>1, FinalStep
  <1> QED BY <1>1, Invariance, PTL DEF Spec, ExpiredIsFinal
=============================================================================
