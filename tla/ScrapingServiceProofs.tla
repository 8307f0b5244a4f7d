------------------------ MODULE ScrapingServiceProofs ------------------------
(***************************************************************************)
(* What ScrapingService promises, for any number of workers, marketplaces  *)
(* and tasks, any pages, and all sizes that fit each other as the defaults *)
(* do: a half-open circuit is never stuck, the slots of the bulkhead are   *)
(* conserved, no task is left behind, and no accepted listing is lost.     *)
(*                                                                         *)
(* Inv counts the answers a half-open circuit can still get: the           *)
(* successes it has, the calls it has left and the requests in flight are  *)
(* together at least success_threshold.  A step of a worker moves one from *)
(* one of these to the next, except a refusal by the bulkhead, which loses *)
(* one; but then the requests that hold the slots are alone enough.        *)
(*                                                                         *)
(* FlowInv counts the copies of a listing: in the stream, in the buffer,   *)
(* and in the batches the actors are publishing.  Every step is one        *)
(* actor's, and it moves copies between that actor's batch and the other   *)
(* two.  As long as no publishing has failed the buffer is shorter than a  *)
(* batch, so that the one flush at the end empties it.                     *)
(*                                                                         *)
(* FetchingInv and PrioInv are about what its requests go through and how  *)
(* deeply each category is scraped.  The bucket: by the time it has, what  *)
(* was taken without waiting since any request is paid for by a burst and  *)
(* the highest rate.  The blocks: each was counted in the window, or is of *)
(* a request that was under way when the window began.  The pool: one      *)
(* request at a time works on the list, and what it keeps and what it      *)
(* closes are together what is open.                                       *)
(***************************************************************************)
EXTENDS ScrapingService, Fetching, Priorities, Folding

\* Outside of run_workers no worker is busy; who publishes at the end of it
\* is not one of them.
RestOK ==
    /\ phase # "scraping" => \A w \in Workers : at[w] = "done"
    /\ at[CycleEnd] = "publish" => phase = "flushing"

Answers(c, S) == c.successes + (HalfOpenMaxCalls - c.calls) + Cardinality(S)

ProbesOK ==
    \A m \in Markets : circuit[m].state = "half_open" =>
        /\ circuit[m].successes < SuccessThreshold
        /\ circuit[m].calls <= HalfOpenMaxCalls
        /\ Answers(circuit[m], InFlight(m)) >= SuccessThreshold

CountsOK ==
    /\ total + Cardinality(Engaged) = MaxTotal
    /\ \A m \in Markets : free[m] + Cardinality(Fetching(m)) = MaxPerMarket

Inv == ControlOK /\ RestOK /\ CountsOK /\ ProbesOK

-----------------------------------------------------------------------------
\* The sets of workers that are counted are finite.
LEMMA FiniteSets ==
    /\ IsFiniteSet(Workers) /\ IsFiniteSet(Engaged)
    /\ \A m : IsFiniteSet(InFlight(m)) /\ IsFiniteSet(Fetching(m))
<1>1. IsFiniteSet(Workers)
  BY SizesAssumption
<1>2. Engaged \subseteq Workers /\ \A m : InFlight(m) \subseteq Workers /\ Fetching(m) \subseteq Workers
  BY DEF Engaged, InFlight, Fetching
<1>. QED
  BY <1>1, <1>2, FS_Subset

LEMMA FiniteSetsNext ==
    /\ IsFiniteSet(Engaged')
    /\ \A m : IsFiniteSet(InFlight(m)') /\ IsFiniteSet(Fetching(m)')
<1>1. IsFiniteSet(Workers)
  BY SizesAssumption
<1>2. Engaged' \subseteq Workers /\ \A m : InFlight(m)' \subseteq Workers /\ Fetching(m)' \subseteq Workers
  BY DEF Engaged, InFlight, Fetching
<1>. QED
  BY <1>1, <1>2, FS_Subset

\* What LoopAt is: one of the two awaits at which a worker has nothing.
LEMMA LoopAtTypes == LoopAt \in {"waiting", "done"}
  BY DEF LoopAt

-----------------------------------------------------------------------------
\* A step after which every worker is engaged with what it was engaged with
\* before, and that leaves the circuits and the slots alone.
Stays ==
    /\ \A w \in Workers : (at'[w] \in {"market", "fetch"} <=> at[w] \in {"market", "fetch"})
    /\ \A w \in Workers : (at'[w] = "fetch" <=> at[w] = "fetch")
    /\ \A w \in Workers : at[w] \in {"market", "fetch"} => task'[w] = task[w]
    /\ UNCHANGED <<circuit, total, free>>

LEMMA CountsStay ==
  ASSUME CountsOK, ProbesOK, Stays
  PROVE  CountsOK' /\ ProbesOK'
<1>1. Engaged' = Engaged
  BY DEF Stays, Engaged
<1>2. \A m : InFlight(m)' = InFlight(m) /\ Fetching(m)' = Fetching(m)
  BY DEF Stays, InFlight, Fetching, Market
<1>. QED
  BY <1>1, <1>2 DEF Stays, CountsOK, ProbesOK, Answers

-----------------------------------------------------------------------------
\* The types of the control state, one lemma for the steps that move one
\* worker, one for each of the others.

\* Worker w goes to await a with task t and x empty dequeues.
Moves(w, a, t, x) ==
    /\ at' = [at EXCEPT ![w] = a]
    /\ task' = [task EXCEPT ![w] = t]
    /\ empty' = [empty EXCEPT ![w] = x]

LEMMA MovesKeepTypes ==
  ASSUME ControlOK, NEW w \in Workers, NEW a \in Awaits, NEW t \in 0..TaskCount,
         NEW x \in 0..EmptyLimit + 1, Moves(w, a, t, x),
         a \in {"market", "fetch"} => t \in Tasks,
         a # "done" => x <= EmptyLimit
  PROVE  /\ at' \in [Actors -> Awaits] /\ task' \in [Workers -> 0..TaskCount]
         /\ \A v \in Workers : at'[v] \in {"market", "fetch"} => task'[v] \in Tasks
         /\ empty' \in [Workers -> 0..EmptyLimit + 1]
         /\ \A v \in Workers : at'[v] # "done" => empty'[v] <= EmptyLimit
<1>1. w \in Actors
  BY DEF Actors
<1>2. at \in [Actors -> Awaits] /\ task \in [Workers -> 0..TaskCount] /\ empty \in [Workers -> 0..EmptyLimit + 1]
  BY DEF ControlOK
<1>3. at' \in [Actors -> Awaits] /\ task' \in [Workers -> 0..TaskCount] /\ empty' \in [Workers -> 0..EmptyLimit + 1]
  BY <1>1, <1>2, Zenon DEF Moves
<1>4. ASSUME NEW v \in Workers
      PROVE  /\ at'[v] = IF v = w THEN a ELSE at[v]
             /\ task'[v] = IF v = w THEN t ELSE task[v]
             /\ empty'[v] = IF v = w THEN x ELSE empty[v]
  BY <1>1, <1>2, v \in Actors DEF Moves, Actors
<1>. QED
  BY <1>3, <1>4 DEF ControlOK

\* A worker that moves is busy, so run_workers is on; the others stay put.
LEMMA MovesKeepRest ==
  ASSUME ControlOK, RestOK, NEW w \in Workers, NEW a, at[w] # "done",
         at' = [at EXCEPT ![w] = a], phase' = phase
  PROVE  RestOK'
<1>1. phase = "scraping" /\ CycleEnd # w
  BY ActorsAssumption DEF RestOK
<1>2. at'[CycleEnd] = at[CycleEnd]
  BY <1>1, CycleEnd \in Actors DEF ControlOK, Actors
<1>. QED
  BY <1>1, <1>2 DEF RestOK

WorkerFrame(w) ==
    /\ UNCHANGED control
    /\ queue' \subseteq Tasks
    /\ faults' \in 0..MaxFaults
    /\ circuit' \in [Markets -> Circuits]
    /\ total' \in 0..MaxTotal /\ free' \in [Markets -> 0..MaxPerMarket]

\* The two put together, for what a worker's step leaves of the control state.
LEMMA MovesKeepControl ==
  ASSUME ControlOK, RestOK, NEW w \in Workers, NEW a \in Awaits, NEW t \in 0..TaskCount,
         NEW x \in 0..EmptyLimit + 1, Moves(w, a, t, x), WorkerFrame(w),
         a \in {"market", "fetch"} => t \in Tasks,
         a # "done" => x <= EmptyLimit, at[w] # "done"
  PROVE  ControlOK' /\ RestOK'
<1>1. at' = [at EXCEPT ![w] = a]
  BY DEF Moves
<1>2. phase' = phase
  BY DEF WorkerFrame, control
<1>3. RestOK'
  BY <1>1, <1>2, MovesKeepRest
<1>4. ControlOK'
  BY MovesKeepTypes DEF ControlOK, WorkerFrame, control
<1>. QED
  BY <1>3, <1>4

\* What does not change is assigned its own value.
LEMMA SameEntry ==
  ASSUME ControlOK, NEW w \in Workers
  PROVE  /\ (UNCHANGED task => task' = [task EXCEPT ![w] = task[w]])
         /\ (UNCHANGED empty => empty' = [empty EXCEPT ![w] = empty[w]])
         /\ task[w] \in 0..TaskCount /\ empty[w] \in 0..EmptyLimit + 1
         /\ 0 \in 0..TaskCount /\ 0 \in 0..EmptyLimit + 1 /\ 0 <= EmptyLimit
         /\ (at[w] # "done" => empty[w] <= EmptyLimit)
         /\ LoopAt \in Awaits /\ LoopAt \notin {"market", "fetch"}
<1>1. task \in [Workers -> 0..TaskCount] /\ empty \in [Workers -> 0..EmptyLimit + 1]
  BY DEF ControlOK
<1>2. TaskCount \in Nat /\ EmptyLimit \in Nat
  BY SizesAssumption
<1>3. at[w] # "done" => empty[w] <= EmptyLimit
  BY DEF ControlOK
<1>. QED
  BY <1>1, <1>2, <1>3 DEF LoopAt, Awaits

LEMMA CircuitTypes ==
  ASSUME NEW c \in Circuits
  PROVE  /\ Recovering(c) \in Circuits /\ Probing(c) \in Circuits
         /\ RecordSuccess(c) \in Circuits /\ RecordFailure(c) \in Circuits
<1>1. c.failures \in Nat /\ c.successes \in Nat /\ c.calls \in Nat /\ c.state \in States
  BY DEF Circuits
<1>2. c.failures + 1 \in Nat /\ c.successes + 1 \in Nat /\ c.calls + 1 \in Nat /\ 0 \in Nat
      /\ (c.failures # 0 => c.failures - 1 \in Nat)
  BY <1>1
<1>3. Recovering(c) \in Circuits
  BY <1>2 DEF Circuits, States, Recovering
<1>4. Probing(c) \in Circuits
  BY <1>2 DEF Circuits, States, Probing
<1>5. RecordSuccess(c) \in Circuits
  <2>1. CASE c.state = "half_open" /\ c.successes + 1 >= SuccessThreshold
    BY <2>1, <1>2 DEF Circuits, States, RecordSuccess
  <2>2. CASE c.state = "half_open" /\ ~(c.successes + 1 >= SuccessThreshold)
    BY <2>2, <1>2 DEF Circuits, States, RecordSuccess
  <2>3. CASE c.state = "closed"
    BY <2>3, <1>2 DEF Circuits, States, RecordSuccess
  <2>4. CASE c.state = "open"
    BY <2>4 DEF RecordSuccess
  <2>. QED
    BY <1>1, <2>1, <2>2, <2>3, <2>4 DEF States
<1>6. RecordFailure(c) \in Circuits
  BY <1>1, <1>2 DEF Circuits, States, RecordFailure
<1>. QED
  BY <1>3, <1>4, <1>5, <1>6

\* Every worker's step is a move of that worker.
LEMMA WorkKeepsControl ==
  ASSUME ControlOK, RestOK, CountsOK, NEW w \in Workers, Work(w)
  PROVE  ControlOK' /\ RestOK'
<1>0. /\ task[w] \in 0..TaskCount /\ empty[w] \in 0..EmptyLimit + 1
      /\ 0 \in 0..TaskCount /\ 0 \in 0..EmptyLimit + 1 /\ 0 <= EmptyLimit
      /\ (at[w] # "done" => empty[w] <= EmptyLimit)
      /\ LoopAt \in Awaits /\ LoopAt \notin {"market", "fetch"}
      /\ (UNCHANGED task => task' = [task EXCEPT ![w] = task[w]])
      /\ (UNCHANGED empty => empty' = [empty EXCEPT ![w] = empty[w]])
  BY SameEntry
<1>t. /\ queue \subseteq Tasks /\ faults \in 0..MaxFaults /\ circuit \in [Markets -> Circuits]
      /\ total \in 0..MaxTotal /\ free \in [Markets -> 0..MaxPerMarket]
      /\ (at[w] \in {"market", "fetch"} => task[w] \in Tasks /\ Market(w) \in Markets)
  BY SizesAssumption DEF ControlOK, Market
<1>c. (at[w] \in {"market", "fetch"} => total < MaxTotal) /\ (at[w] = "fetch" => free[Market(w)] < MaxPerMarket)
  <2>1. ASSUME at[w] \in {"market", "fetch"} PROVE total < MaxTotal
    <3>1. w \in Engaged
      BY <2>1 DEF Engaged
    <3>2. Cardinality(Engaged) \in Nat /\ Cardinality(Engaged) # 0
      BY <3>1, FiniteSets, FS_EmptySet, FS_CardinalityType
    <3>. QED
      BY <3>2, <1>t, DefaultsAssumption DEF CountsOK
  <2>2. ASSUME at[w] = "fetch" PROVE free[Market(w)] < MaxPerMarket
    <3>1. w \in Fetching(Market(w)) /\ Market(w) \in Markets
      BY <2>2, <1>t DEF Fetching
    <3>2. Cardinality(Fetching(Market(w))) \in Nat /\ Cardinality(Fetching(Market(w))) # 0
      BY <3>1, FiniteSets, FS_EmptySet, FS_CardinalityType
    <3>3. free[Market(w)] + Cardinality(Fetching(Market(w))) = MaxPerMarket /\ free[Market(w)] \in Nat
      BY <3>1, <1>t DEF CountsOK
    <3>. QED
      BY <3>2, <3>3, DefaultsAssumption
  <2>. QED
    BY <2>1, <2>2
<1>1. CASE DequeueTimesOut(w)
  <2>. DEFINE a == IF empty[w] >= EmptyLimit THEN "done" ELSE LoopAt
  <2>1. at[w] # "done" /\ a \in Awaits /\ a \notin {"market", "fetch"}
    BY <1>1, <1>0 DEF DequeueTimesOut, Awaits
  <2>2. empty[w] + 1 \in 0..EmptyLimit + 1 /\ (a # "done" => empty[w] + 1 <= EmptyLimit)
    BY <2>1, <1>0, SizesAssumption
  <2>3. Moves(w, a, task[w], empty[w] + 1)
    BY <1>1, <1>0 DEF DequeueTimesOut, Moves
  <2>4. WorkerFrame(w)
    BY <1>1, <1>t DEF DequeueTimesOut, WorkerFrame, slots
  <2>. HIDE DEF a
  <2>. QED
    BY <2>1, <2>2, <2>3, <2>4, <1>0, MovesKeepControl
<1>2. ASSUME NEW t \in queue, Admit(w, t) PROVE ControlOK' /\ RestOK'
  <2>1. at[w] # "done" /\ "market" \in Awaits /\ t \in Tasks /\ t \in 0..TaskCount
    BY <1>2, <1>t, SizesAssumption DEF Admit, Dequeue, Awaits, Tasks
  <2>2. Moves(w, "market", t, 0)
    BY <1>2 DEF Admit, Dequeue, Moves
  <2>3. circuit' \in [Markets -> Circuits]
    BY <1>2, <1>t, <2>1, CircuitTypes DEF Admit
  <2>5. total' \in 0..MaxTotal
    BY <1>2, <1>t, DefaultsAssumption DEF Admit
  <2>4. WorkerFrame(w)
    BY <1>2, <1>t, <2>3, <2>5 DEF Admit, Dequeue, WorkerFrame
  <2>. QED
    BY <2>1, <2>2, <2>4, <1>0, MovesKeepControl
<1>3. ASSUME NEW t \in queue, Deny(w, t) PROVE ControlOK' /\ RestOK'
  <2>1. at[w] # "done"
    BY <1>3 DEF Deny, Dequeue
  <2>2. Moves(w, LoopAt, 0, 0)
    BY <1>3 DEF Deny, Dequeue, BackToLoop, Moves
  <2>4. WorkerFrame(w)
    BY <1>3, <1>t DEF Deny, Dequeue, WorkerFrame, slots
  <2>. QED
    BY <2>1, <2>2, <2>4, <1>0, MovesKeepControl
<1>4. CASE AcquireMarket(w)
  <2>1. at[w] # "done" /\ "fetch" \in Awaits /\ task[w] \in Tasks
    BY <1>4, <1>t DEF AcquireMarket, Awaits
  <2>2. Moves(w, "fetch", task[w], empty[w])
    BY <1>4, <1>0 DEF AcquireMarket, Moves
  <2>3. free' \in [Markets -> 0..MaxPerMarket]
    <3>1. free[Market(w)] \in 0..MaxPerMarket /\ free[Market(w)] > 0 /\ Market(w) \in Markets
      BY <1>4, <1>t DEF AcquireMarket
    <3>2. free[Market(w)] - 1 \in 0..MaxPerMarket
      BY <3>1, DefaultsAssumption
    <3>. QED
      BY <3>1, <3>2, <1>4, <1>t DEF AcquireMarket
  <2>4. WorkerFrame(w)
    BY <1>4, <1>t, <2>3 DEF AcquireMarket, WorkerFrame
  <2>. QED
    BY <2>1, <2>2, <2>4, <1>0, MovesKeepControl
<1>5. CASE Refused(w)
  <2>1. at[w] # "done" /\ task[w] \in Tasks
    BY <1>5, <1>t DEF Refused
  <2>2. Moves(w, LoopAt, 0, empty[w])
    BY <1>5, <1>0 DEF Refused, BackToLoop, Moves
  <2>3. total' \in 0..MaxTotal
    BY <1>5, <1>t, <1>c, DefaultsAssumption DEF Refused
  <2>4. WorkerFrame(w)
    BY <1>5, <1>t, <2>1, <2>3 DEF Refused, WorkerFrame
  <2>. QED
    BY <2>1, <2>2, <2>4, <1>0, MovesKeepControl
<1>r. ASSUME at[w] = "fetch", Release(w)
      PROVE  total' \in 0..MaxTotal /\ free' \in [Markets -> 0..MaxPerMarket]
  <2>1. free[Market(w)] \in 0..MaxPerMarket /\ free[Market(w)] < MaxPerMarket /\ Market(w) \in Markets
    BY <1>r, <1>t, <1>c
  <2>2. free[Market(w)] + 1 \in 0..MaxPerMarket
    BY <2>1, DefaultsAssumption
  <2>3. total' \in 0..MaxTotal
    BY <1>r, <1>t, <1>c, DefaultsAssumption DEF Release
  <2>. QED
    BY <2>1, <2>2, <2>3, <1>r, <1>t DEF Release
<1>6. CASE FetchFails(w)
  <2>1. at[w] = "fetch" /\ Market(w) \in Markets
    BY <1>6, <1>t DEF FetchFails
  <2>2. Moves(w, LoopAt, 0, empty[w])
    BY <1>6, <1>0 DEF FetchFails, BackToLoop, Moves
  <2>3. circuit' \in [Markets -> Circuits]
    BY <1>6, <1>t, <2>1, CircuitTypes DEF FetchFails
  <2>4. WorkerFrame(w)
    BY <1>6, <1>t, <1>r, <2>1, <2>3 DEF FetchFails, WorkerFrame
  <2>. QED
    BY <2>1, <2>2, <2>4, <1>0, MovesKeepControl
<1>7. CASE Fetched(w)
  <2>1. at[w] = "fetch" /\ Market(w) \in Markets
    BY <1>7, <1>t DEF Fetched
  <2>2. PICK a \in {LoopAt, "check"} : at' = [at EXCEPT ![w] = a]
    BY <1>7 DEF Fetched
  <2>3. Moves(w, a, 0, empty[w])
    BY <1>7, <1>0, <2>2 DEF Fetched, Moves
  <2>4. circuit' \in [Markets -> Circuits]
    BY <1>7, <1>t, <2>1, CircuitTypes DEF Fetched
  <2>5. WorkerFrame(w)
    BY <1>7, <1>t, <1>r, <2>1, <2>4 DEF Fetched, WorkerFrame
  <2>6. a \in Awaits /\ a \notin {"market", "fetch"}
    BY <1>0 DEF Awaits
  <2>. QED
    BY <2>1, <2>3, <2>5, <2>6, <1>0, MovesKeepControl
<1>f. ASSUME RedisFails \/ RedisAnswers PROVE faults' \in 0..MaxFaults
  BY <1>f, <1>t, SizesAssumption DEF RedisFails, RedisAnswers
<1>8. CASE Check(w)
  <2>1. at[w] # "done"
    BY <1>8 DEF Check
  <2>2. PICK a \in {LoopAt, "register"} : at' = [at EXCEPT ![w] = a]
    BY <1>8 DEF Check
  <2>3. Moves(w, a, task[w], empty[w])
    BY <1>8, <1>0, <2>2 DEF Check, Moves
  <2>5. WorkerFrame(w)
    BY <1>8, <1>t, <1>f DEF Check, WorkerFrame, slots
  <2>6. a \in Awaits /\ a \notin {"market", "fetch"}
    BY <1>0 DEF Awaits
  <2>. QED
    BY <2>1, <2>3, <2>5, <2>6, <1>0, MovesKeepControl
<1>9. CASE Register(w)
  <2>1. at[w] # "done"
    BY <1>9 DEF Register
  <2>2. PICK a \in {LoopAt, "publish"} : at' = [at EXCEPT ![w] = a]
    BY <1>9 DEF Register
  <2>3. Moves(w, a, task[w], empty[w])
    BY <1>9, <1>0, <2>2 DEF Register, Moves
  <2>5. WorkerFrame(w)
    BY <1>9, <1>t, <1>f DEF Register, WorkerFrame, slots
  <2>6. a \in Awaits /\ a \notin {"market", "fetch"}
    BY <1>0 DEF Awaits
  <2>. QED
    BY <2>1, <2>3, <2>5, <2>6, <1>0, MovesKeepControl
<1>. QED
  BY <1>1, <1>2, <1>3, <1>4, <1>5, <1>6, <1>7, <1>8, <1>9 DEF Work

-----------------------------------------------------------------------------
\* The other steps: none of them takes place while a worker is engaged, or it
\* leaves the workers alone.
LEMMA OthersKeepControl ==
  ASSUME ControlOK, RestOK,
         \/ \E a \in Actors : Publishing(a)
         \/ Cycle \/ Shutdown \/ Ended \/ UNCHANGED vars
  PROVE  ControlOK' /\ RestOK' /\ Stays
<1>0. /\ CycleEnd \in Actors /\ Closing \in Actors /\ Workers \subseteq Actors
      /\ CycleEnd \notin Workers /\ Closing \notin Workers /\ CycleEnd # Closing
      /\ at \in [Actors -> Awaits] /\ LoopAt \in {"waiting", "done"}
      /\ (RedisFails \/ RedisAnswers => faults' \in 0..MaxFaults)
  <2>1. CycleEnd \in Actors /\ Closing \in Actors /\ Workers \subseteq Actors
    BY DEF Actors
  <2>2. CycleEnd # Closing
    BY DEF CycleEnd, Closing
  <2>3. at \in [Actors -> Awaits] /\ LoopAt \in {"waiting", "done"}
    BY DEF ControlOK, LoopAt
  <2>4. RedisFails \/ RedisAnswers => faults' \in 0..MaxFaults
    BY SizesAssumption DEF ControlOK, RedisFails, RedisAnswers
  <2>. QED
    BY <2>1, <2>2, <2>3, <2>4, ActorsAssumption
<1>1. ASSUME NEW a \in Actors, Publishing(a) PROVE ControlOK' /\ RestOK' /\ Stays
  <2>1. /\ at[a] = "publish" /\ AfterPublish(a) /\ faults' \in 0..MaxFaults
    BY <1>1, <1>0 DEF Publishing, Published, PublishFails, RedisAnswers
  <2>2. PICK b \in {"waiting", "done"} : at' = [at EXCEPT ![a] = b] /\ (a \notin Workers => b = "done")
    BY <2>1, <1>0 DEF AfterPublish
  <2>3. \A v \in Actors : at'[v] = IF v = a THEN b ELSE at[v]
    BY <2>2, <1>0
  <2>4. at' \in [Actors -> Awaits]
    BY <2>2, <1>0 DEF Awaits
  <2>5. ControlOK'
    BY <2>1, <2>3, <2>4, <1>0 DEF ControlOK, AfterPublish, slots
  <2>6. Stays
    BY <2>1, <2>3, <1>0 DEF Stays, AfterPublish, slots
  <2>7. RestOK'
    BY <2>1, <2>2, <2>3, <1>0 DEF RestOK, AfterPublish
  <2>. QED
    BY <2>5, <2>6, <2>7
<1>2. CASE BeginCycle
  <2>1. cycles' \in 0..MaxCycles /\ faults' \in 0..MaxFaults
    BY <1>2, <1>0, SizesAssumption DEF BeginCycle, ControlOK
  <2>2. phase = "idle" /\ phase' = "preparing" /\ UNCHANGED <<on, running, queue, at, task, empty, circuit, total, free>>
    BY <1>2 DEF BeginCycle, slots
  <2>3. ControlOK'
    BY <2>1, <2>2 DEF ControlOK
  <2>. QED
    BY <2>2, <2>3 DEF RestOK, Stays
<1>3. CASE StartWorkers
  <2>1. \A w \in Workers : at[w] = "done"
    BY <1>3 DEF StartWorkers, RestOK
  <2>2. \A v \in Actors : at'[v] = IF v \in Workers THEN "waiting" ELSE at[v]
    BY <1>3 DEF StartWorkers
  <2>3. at' \in [Actors -> Awaits] /\ empty' \in [Workers -> 0..EmptyLimit + 1]
    BY <1>3, <1>0, SizesAssumption DEF StartWorkers, Awaits
  <2>4. \A w \in Workers : empty'[w] <= EmptyLimit
    BY <1>3, SizesAssumption DEF StartWorkers
  <2>5. ControlOK'
    BY <1>3, <2>2, <2>3, <2>4, <1>0 DEF StartWorkers, ControlOK, slots
  <2>6. RestOK' /\ Stays
    BY <1>3, <2>1, <2>2, <1>0 DEF StartWorkers, RestOK, Stays, slots
  <2>. QED
    BY <2>5, <2>6
<1>4. CASE WorkersDone
  <2>1. PICK b \in Awaits : /\ at' = [at EXCEPT ![CycleEnd] = b]
                            /\ (phase' = "flushing" \/ b = at[CycleEnd])
                            /\ phase' \in {"idle", "flushing"}
    <3>1. CASE buffer = <<>>
      BY <1>4, <3>1, <1>0 DEF WorkersDone
    <3>2. CASE buffer # <<>>
      BY <1>4, <3>2, <1>0 DEF WorkersDone, Awaits
    <3>. QED
      BY <3>1, <3>2
  <2>2. \A v \in Actors : at'[v] = IF v = CycleEnd THEN b ELSE at[v]
    BY <2>1, <1>0
  <2>3. at' \in [Actors -> Awaits]
    BY <2>1, <1>0
  <2>4. ControlOK'
    BY <1>4, <2>1, <2>2, <2>3, <1>0 DEF WorkersDone, ControlOK, slots
  <2>5. RestOK' /\ Stays
    BY <1>4, <2>1, <2>2, <1>0 DEF WorkersDone, RestOK, Stays, slots
  <2>. QED
    BY <2>4, <2>5
<1>5. CASE Shutdown
  <2>1. PICK b \in Awaits : at' = [at EXCEPT ![Closing] = b]
    <3>1. CASE buffer = <<>>
      BY <1>5, <3>1, <1>0 DEF Shutdown
    <3>2. CASE buffer # <<>>
      BY <1>5, <3>2, <1>0 DEF Shutdown, Awaits
    <3>. QED
      BY <3>1, <3>2
  <2>2. \A v \in Actors : at'[v] = IF v = Closing THEN b ELSE at[v]
    BY <2>1, <1>0
  <2>3. at' \in [Actors -> Awaits]
    BY <2>1, <1>0
  <2>4. ControlOK'
    BY <1>5, <2>2, <2>3, <1>0 DEF Shutdown, ControlOK, slots
  <2>5. RestOK' /\ Stays
    BY <1>5, <2>2, <1>0 DEF Shutdown, RestOK, Stays, slots
  <2>. QED
    BY <2>4, <2>5
<1>6. CASE Exit
  BY <1>6 DEF Exit, ControlOK, RestOK, Stays, slots
<1>7. CASE Ended \/ UNCHANGED vars
  BY <1>7 DEF Ended, vars, control, slots, ControlOK, RestOK, Stays
<1>. QED
  BY <1>1, <1>2, <1>3, <1>4, <1>5, <1>6, <1>7 DEF Cycle

-----------------------------------------------------------------------------
\* What the workers' steps do to the sets that are counted.

\* The counts of slots, by the slots taken and given back.
LEMMA WorkKeepsCounts ==
  ASSUME ControlOK, CountsOK, NEW w \in Workers, Work(w)
  PROVE  CountsOK'
<1>0. /\ w \in Actors /\ at \in [Actors -> Awaits] /\ Workers \subseteq Actors
      /\ task \in [Workers -> 0..TaskCount] /\ free \in [Markets -> 0..MaxPerMarket]
      /\ total \in Int /\ MaxTotal \in Int /\ MaxPerMarket \in Int
      /\ LoopAt \notin {"market", "fetch"}
  BY DefaultsAssumption DEF ControlOK, Actors, LoopAt
<1>f. /\ IsFiniteSet(Engaged) /\ Cardinality(Engaged) \in Int
      /\ \A m : IsFiniteSet(Fetching(m)) /\ Cardinality(Fetching(m)) \in Int
  BY FiniteSets, FS_CardinalityType
\* A step that leaves w as engaged as it was.
<1>s. ASSUME Stays PROVE CountsOK'
  <2>1. Engaged' = Engaged /\ \A m : Fetching(m)' = Fetching(m)
    BY <1>s DEF Stays, Engaged, Fetching, Market
  <2>. QED
    BY <1>s, <2>1 DEF Stays, CountsOK
<1>1. CASE DequeueTimesOut(w)
  BY <1>1, <1>0, <1>s DEF DequeueTimesOut, Stays, slots
<1>2. ASSUME NEW t \in queue, Admit(w, t) PROVE CountsOK'
  <2>1. Engaged' = Engaged \cup {w} /\ w \notin Engaged
    BY <1>2, <1>0 DEF Admit, Dequeue, Engaged
  <2>2. \A m : Fetching(m)' = Fetching(m)
    BY <1>2, <1>0 DEF Admit, Dequeue, Fetching, Market
  <2>3. Cardinality(Engaged') = Cardinality(Engaged) + 1
    BY <2>1, <1>f, FS_AddElement
  <2>. QED
    BY <1>2, <2>2, <2>3, <1>0, <1>f DEF Admit, CountsOK
<1>3. ASSUME NEW t \in queue, Deny(w, t) PROVE CountsOK'
  BY <1>3, <1>0, <1>s DEF Deny, Dequeue, BackToLoop, Stays, slots
<1>4. CASE AcquireMarket(w)
  <2>0. PICK m : m = Market(w)
    OBVIOUS
  <2>1. Engaged' = Engaged
    BY <1>4, <1>0 DEF AcquireMarket, Engaged
  <2>2. w \notin Fetching(m) /\ Fetching(m)' = Fetching(m) \cup {w}
    BY <1>4, <1>0, <2>0 DEF AcquireMarket, Fetching, Market
  <2>3. \A n : n # m => Fetching(n)' = Fetching(n)
    BY <1>4, <1>0, <2>0 DEF AcquireMarket, Fetching, Market
  <2>4. Cardinality(Fetching(m)') = Cardinality(Fetching(m)) + 1
    BY <2>2, <1>f, FS_AddElement
  <2>5. total' = total /\ \A n \in Markets : free'[n] = IF n = m THEN free[n] - 1 ELSE free[n]
    BY <1>4, <1>0, <2>0 DEF AcquireMarket
  <2>6. ASSUME NEW n \in Markets PROVE free'[n] + Cardinality(Fetching(n)') = MaxPerMarket
    <3>1. free[n] + Cardinality(Fetching(n)) = MaxPerMarket /\ free[n] \in Int /\ Cardinality(Fetching(n)) \in Int
      BY <1>0, <1>f DEF CountsOK
    <3>2. CASE n = m
      BY <2>4, <2>5, <3>1, <3>2
    <3>3. CASE n # m
      BY <2>3, <2>5, <3>1, <3>3
    <3>. QED
      BY <3>2, <3>3
  <2>. QED
    BY <2>1, <2>5, <2>6 DEF CountsOK
<1>5. CASE Refused(w)
  <2>1. Engaged' = Engaged \ {w} /\ w \in Engaged
    BY <1>5, <1>0 DEF Refused, BackToLoop, Engaged
  <2>2. \A m : Fetching(m)' = Fetching(m)
    BY <1>5, <1>0 DEF Refused, BackToLoop, Fetching, Market
  <2>3. Cardinality(Engaged') = Cardinality(Engaged) - 1
    BY <2>1, <1>f, FS_RemoveElement
  <2>4. total' = total + 1 /\ free' = free
    BY <1>5 DEF Refused
  <2>5. total' + Cardinality(Engaged') = MaxTotal
    BY <2>3, <2>4, <1>0, <1>f DEF CountsOK
  <2>. QED
    BY <2>2, <2>4, <2>5 DEF CountsOK
\* The answer of a fetch gives both slots back.
<1>6. ASSUME at[w] = "fetch", Release(w), task' = [task EXCEPT ![w] = 0],
             NEW a, at' = [at EXCEPT ![w] = a], a \notin {"market", "fetch"}
      PROVE  CountsOK'
  <2>0. PICK m : m = Market(w)
    OBVIOUS
  <2>1. Engaged' = Engaged \ {w} /\ w \in Engaged
    BY <1>6, <1>0 DEF Engaged
  <2>2. w \in Fetching(m) /\ Fetching(m)' = Fetching(m) \ {w}
    BY <1>6, <1>0, <2>0 DEF Fetching, Market
  <2>3. \A n : n # m => Fetching(n)' = Fetching(n)
    BY <1>6, <1>0, <2>0 DEF Fetching, Market
  <2>4. Cardinality(Fetching(m)') = Cardinality(Fetching(m)) - 1 /\ Cardinality(Engaged') = Cardinality(Engaged) - 1
    BY <2>1, <2>2, <1>f, FS_RemoveElement
  <2>5. total' = total + 1 /\ \A n \in Markets : free'[n] = IF n = m THEN free[n] + 1 ELSE free[n]
    BY <1>6, <1>0, <2>0 DEF Release
  <2>6. ASSUME NEW n \in Markets PROVE free'[n] + Cardinality(Fetching(n)') = MaxPerMarket
    <3>1. free[n] + Cardinality(Fetching(n)) = MaxPerMarket /\ free[n] \in Int /\ Cardinality(Fetching(n)) \in Int
      BY <1>0, <1>f DEF CountsOK
    <3>2. CASE n = m
      BY <2>4, <2>5, <3>1, <3>2
    <3>3. CASE n # m
      BY <2>3, <2>5, <3>1, <3>3
    <3>. QED
      BY <3>2, <3>3
  <2>7. total' + Cardinality(Engaged') = MaxTotal
    BY <2>4, <2>5, <1>0, <1>f DEF CountsOK
  <2>. QED
    BY <2>6, <2>7 DEF CountsOK
<1>7. CASE FetchFails(w)
  BY <1>7, <1>6, <1>0 DEF FetchFails, BackToLoop
<1>8. CASE Fetched(w)
  <2>1. PICK a \in {LoopAt, "check"} : at' = [at EXCEPT ![w] = a]
    BY <1>8 DEF Fetched
  <2>. QED
    BY <1>8, <2>1, <1>6, <1>0 DEF Fetched
<1>9. CASE Check(w)
  <2>1. PICK a \in {LoopAt, "register"} : at' = [at EXCEPT ![w] = a]
    BY <1>9 DEF Check
  <2>. QED
    BY <1>9, <2>1, <1>0, <1>s DEF Check, Stays, slots
<1>10. CASE Register(w)
  <2>1. PICK a \in {LoopAt, "publish"} : at' = [at EXCEPT ![w] = a]
    BY <1>10 DEF Register
  <2>. QED
    BY <1>10, <2>1, <1>0, <1>s DEF Register, Stays, slots
<1>. QED
  BY <1>1, <1>2, <1>3, <1>4, <1>5, <1>7, <1>8, <1>9, <1>10 DEF Work

-----------------------------------------------------------------------------
\* The answers a half-open circuit can still get.

\* The record of another marketplace, and the requests to it, stay.
LEMMA WorkKeepsProbes ==
  ASSUME ControlOK, CountsOK, ProbesOK, NEW w \in Workers, Work(w)
  PROVE  ProbesOK'
<1>0. /\ w \in Actors /\ at \in [Actors -> Awaits] /\ Workers \subseteq Actors
      /\ task \in [Workers -> 0..TaskCount] /\ circuit \in [Markets -> Circuits]
      /\ LoopAt \notin {"market", "fetch"}
      /\ HalfOpenMaxCalls \in Nat /\ SuccessThreshold \in Nat \ {0} /\ MaxPerMarket \in Nat
      /\ SuccessThreshold <= HalfOpenMaxCalls + 1 /\ SuccessThreshold <= MaxPerMarket
  BY DefaultsAssumption DEF ControlOK, Actors, LoopAt
<1>t. at[w] \in {"market", "fetch"} => Market(w) \in Markets
  BY SizesAssumption DEF ControlOK, Market
<1>f. \A m : /\ IsFiniteSet(InFlight(m)) /\ Cardinality(InFlight(m)) \in Nat
             /\ IsFiniteSet(InFlight(m)') /\ Cardinality(InFlight(m)') \in Nat
             /\ IsFiniteSet(Fetching(m)) /\ Cardinality(Fetching(m)) \in Nat
  BY FiniteSets, FiniteSetsNext, FS_CardinalityType
<1>c. \A m \in Markets : circuit[m].successes \in Nat /\ circuit[m].calls \in Nat /\ circuit[m].state \in States
  BY <1>0 DEF Circuits
<1>s. ASSUME Stays PROVE ProbesOK'
  BY <1>s, CountsStay
\* What has to be shown when the record of one marketplace m changes.
<1>m. ASSUME NEW m \in Markets, NEW c, circuit' = [circuit EXCEPT ![m] = c],
             \A n \in Markets \ {m} : InFlight(n)' = InFlight(n),
             c.state = "half_open" =>
                /\ c.successes < SuccessThreshold /\ c.calls <= HalfOpenMaxCalls
                /\ Answers(c, InFlight(m)') >= SuccessThreshold
      PROVE  ProbesOK'
  <2>1. circuit'[m] = c /\ \A n \in Markets \ {m} : circuit'[n] = circuit[n]
    BY <1>m, <1>0
  <2>2. ASSUME NEW n \in Markets, circuit'[n].state = "half_open"
        PROVE  /\ circuit'[n].successes < SuccessThreshold
               /\ circuit'[n].calls <= HalfOpenMaxCalls
               /\ Answers(circuit'[n], InFlight(n)') >= SuccessThreshold
    <3>1. CASE n = m
      BY <2>1, <2>2, <3>1, <1>m
    <3>2. CASE n # m
      BY <2>1, <2>2, <3>2, <1>m DEF ProbesOK
    <3>. QED
      BY <3>1, <3>2
  <2>. QED
    BY <2>2 DEF ProbesOK, Answers
<1>1. CASE DequeueTimesOut(w)
  BY <1>1, <1>0, <1>s DEF DequeueTimesOut, Stays, slots
<1>2. ASSUME NEW t \in queue, Admit(w, t) PROVE ProbesOK'
  <2>. DEFINE m == MarketOf[t]
  <2>0. m \in Markets /\ at[w] = "waiting"
    BY <1>2, SizesAssumption DEF ControlOK, Admit, Dequeue
  <2>1. InFlight(m)' = InFlight(m) \cup {w} /\ w \notin InFlight(m)
    BY <1>2, <1>0, <2>0 DEF Admit, InFlight, Market
  <2>2. \A n \in Markets \ {m} : InFlight(n)' = InFlight(n)
    BY <1>2, <1>0, <2>0 DEF Admit, InFlight, Market
  <2>3. Cardinality(InFlight(m)') = Cardinality(InFlight(m)) + 1
    BY <2>1, <1>f, FS_AddElement
  <2>. DEFINE c == circuit[m]
  <2>4. c \in Circuits /\ c.successes \in Nat /\ c.calls \in Nat /\ Cardinality(InFlight(m)) \in Nat
    BY <2>0, <1>0, <1>c, <1>f
  <2>5. CASE c.state = "closed" /\ circuit' = circuit
    <3>1. circuit' = [circuit EXCEPT ![m] = c]
      BY <2>5, <1>0, <2>0
    <3>. HIDE DEF m, c
    <3>. QED
      BY <2>0, <2>2, <2>5, <3>1, <1>m
  <2>6. CASE circuit' = [circuit EXCEPT ![m] = Recovering(c)]
    <3>1. Recovering(c).state = "half_open" /\ Recovering(c).successes = 0 /\ Recovering(c).calls = 0
      BY <2>4 DEF Recovering, Circuits
    <3>. HIDE DEF m, c
    <3>2. Answers(Recovering(c), InFlight(m)') >= SuccessThreshold
      BY <2>3, <2>4, <3>1, <1>0 DEF Answers
    <3>3. PICK d : d = Recovering(c)
      OBVIOUS
    <3>4. d.successes < SuccessThreshold /\ d.calls <= HalfOpenMaxCalls /\ Answers(d, InFlight(m)') >= SuccessThreshold
      BY <3>1, <3>2, <3>3, <1>0
    <3>. QED
      BY <2>0, <2>2, <2>6, <3>3, <3>4, <1>m
  <2>7. CASE c.state = "half_open" /\ ~Exhausted(c) /\ circuit' = [circuit EXCEPT ![m] = Probing(c)]
    <3>1. Probing(c).successes = c.successes /\ Probing(c).calls = c.calls + 1
      BY <2>4 DEF Probing, Circuits
    <3>2. c.calls < HalfOpenMaxCalls
      BY <2>4, <2>7, <1>0 DEF Exhausted
    <3>3. c.successes < SuccessThreshold /\ Answers(c, InFlight(m)) >= SuccessThreshold
      BY <2>0, <2>7 DEF ProbesOK
    <3>. HIDE DEF m, c
    <3>4. Answers(Probing(c), InFlight(m)') >= SuccessThreshold
      BY <2>3, <2>4, <3>1, <3>2, <3>3, <1>0 DEF Answers
    <3>5. PICK d : d = Probing(c)
      OBVIOUS
    <3>6. d.successes < SuccessThreshold /\ d.calls <= HalfOpenMaxCalls /\ Answers(d, InFlight(m)') >= SuccessThreshold
      BY <2>4, <3>1, <3>2, <3>3, <3>4, <3>5, <1>0
    <3>. QED
      BY <2>0, <2>2, <2>7, <3>5, <3>6, <1>m
  <2>. QED
    BY <1>2, <2>5, <2>6, <2>7 DEF Admit
<1>3. ASSUME NEW t \in queue, Deny(w, t) PROVE ProbesOK'
  BY <1>3, <1>0, <1>s DEF Deny, Dequeue, BackToLoop, Stays, slots
<1>4. CASE AcquireMarket(w)
  <2>1. \A m : InFlight(m)' = InFlight(m)
    BY <1>4, <1>0 DEF AcquireMarket, InFlight, Market
  <2>. QED
    BY <1>4, <2>1 DEF AcquireMarket, ProbesOK, Answers
\* A refusal means that others hold all the slots of the marketplace.
<1>5. CASE Refused(w)
  <2>0. PICK m : m = Market(w)
    OBVIOUS
  <2>1. m \in Markets /\ at[w] = "market" /\ free[m] = 0
    BY <1>5, <1>t, <2>0 DEF Refused
  <2>2. \A n \in Markets \ {m} : InFlight(n)' = InFlight(n)
    BY <1>5, <1>0, <2>0, <2>1 DEF Refused, BackToLoop, InFlight, Market
  <2>3. Fetching(m) \subseteq InFlight(m)'
    BY <1>5, <1>0, <2>1 DEF Refused, BackToLoop, Fetching, InFlight, Market
  <2>4. Cardinality(Fetching(m)) = MaxPerMarket
    BY <2>1, <1>f, <1>0 DEF CountsOK
  <2>5. Cardinality(InFlight(m)') >= SuccessThreshold
    BY <2>3, <2>4, <1>0, <1>f, FS_Subset
  <2>6. ASSUME NEW n \in Markets, circuit'[n].state = "half_open"
        PROVE  /\ circuit'[n].successes < SuccessThreshold
               /\ circuit'[n].calls <= HalfOpenMaxCalls
               /\ Answers(circuit'[n], InFlight(n)') >= SuccessThreshold
    <3>1. circuit' = circuit
      BY <1>5 DEF Refused
    <3>2. circuit[n].successes < SuccessThreshold /\ circuit[n].calls <= HalfOpenMaxCalls
      BY <2>6, <3>1 DEF ProbesOK
    <3>3. CASE n = m
      BY <2>5, <3>1, <3>2, <3>3, <1>0, <1>c, <1>f DEF Answers
    <3>4. CASE n # m
      BY <2>2, <2>6, <3>1, <3>4 DEF ProbesOK
    <3>. QED
      BY <3>1, <3>2, <3>3, <3>4
  <2>. QED
    BY <2>6 DEF ProbesOK, Answers
\* An answer: a failure opens a half-open circuit, a success is one more.
<1>6. ASSUME at[w] = "fetch", task' = [task EXCEPT ![w] = 0],
             NEW a, at' = [at EXCEPT ![w] = a], a \notin {"market", "fetch"},
             \/ circuit' = [circuit EXCEPT ![Market(w)] = RecordFailure(@)]
             \/ circuit' = [circuit EXCEPT ![Market(w)] = RecordSuccess(@)]
      PROVE  ProbesOK'
  <2>0. PICK m : m = Market(w)
    OBVIOUS
  <2>1. m \in Markets /\ w \in InFlight(m) /\ InFlight(m)' = InFlight(m) \ {w}
    BY <1>6, <1>0, <1>t, <2>0 DEF InFlight, Market
  <2>2. \A n \in Markets \ {m} : InFlight(n)' = InFlight(n)
    BY <1>6, <1>0, <2>0 DEF InFlight, Market
  <2>3. Cardinality(InFlight(m)') = Cardinality(InFlight(m)) - 1
    BY <2>1, <1>f, FS_RemoveElement
  <2>4. PICK c : c = circuit[m]
    OBVIOUS
  <2>5. /\ c \in Circuits /\ c.successes \in Nat /\ c.calls \in Nat /\ c.state \in States
        /\ Cardinality(InFlight(m)) \in Nat
    BY <2>1, <2>4, <1>0, <1>c, <1>f
  <2>6. CASE circuit' = [circuit EXCEPT ![Market(w)] = RecordFailure(@)]
    <3>1. circuit' = [circuit EXCEPT ![m] = RecordFailure(c)]
      BY <2>0, <2>4, <2>6
    <3>2. RecordFailure(c).state # "half_open"
      BY <2>5 DEF RecordFailure, Circuits, States
    <3>. QED
      BY <2>1, <2>2, <3>1, <3>2, <1>m
  <2>7. CASE circuit' = [circuit EXCEPT ![Market(w)] = RecordSuccess(@)]
    <3>1. circuit' = [circuit EXCEPT ![m] = RecordSuccess(c)]
      BY <2>0, <2>4, <2>7
    <3>2. CASE RecordSuccess(c).state # "half_open"
      BY <2>1, <2>2, <3>1, <3>2, <1>m
    <3>3. CASE RecordSuccess(c).state = "half_open"
      <4>1. /\ c.state = "half_open" /\ RecordSuccess(c).successes = c.successes + 1
            /\ RecordSuccess(c).calls = c.calls /\ c.successes + 1 < SuccessThreshold
        <5>1. c.state = "half_open"
          <6>1. CASE c.state = "closed"
            BY <2>5, <3>3, <6>1 DEF RecordSuccess, Circuits
          <6>2. CASE c.state = "open"
            BY <3>3, <6>2 DEF RecordSuccess
          <6>. QED
            BY <2>5, <6>1, <6>2 DEF States
        <5>2. c.successes + 1 < SuccessThreshold
          BY <2>5, <3>3, <5>1, <1>0 DEF RecordSuccess, Circuits
        <5>. QED
          BY <2>5, <5>1, <5>2, <1>0 DEF RecordSuccess, Circuits
      <4>2. Answers(c, InFlight(m)) >= SuccessThreshold /\ c.calls <= HalfOpenMaxCalls
        BY <2>1, <2>4, <4>1 DEF ProbesOK
      <4>3. Answers(RecordSuccess(c), InFlight(m)') >= SuccessThreshold
        BY <2>3, <2>5, <4>1, <4>2, <1>0 DEF Answers
      <4>. QED
        BY <2>1, <2>2, <3>1, <4>1, <4>2, <4>3, <1>m
    <3>. QED
      BY <3>2, <3>3
  <2>. QED
    BY <1>6, <2>6, <2>7
<1>7. CASE FetchFails(w)
  BY <1>7, <1>6, <1>0 DEF FetchFails, BackToLoop
<1>8. CASE Fetched(w)
  <2>1. PICK a \in {LoopAt, "check"} : at' = [at EXCEPT ![w] = a]
    BY <1>8 DEF Fetched
  <2>. QED
    BY <1>8, <2>1, <1>6, <1>0 DEF Fetched
<1>9. CASE Check(w)
  <2>1. PICK a \in {LoopAt, "register"} : at' = [at EXCEPT ![w] = a]
    BY <1>9 DEF Check
  <2>. QED
    BY <1>9, <2>1, <1>0, <1>s DEF Check, Stays, slots
<1>10. CASE Register(w)
  <2>1. PICK a \in {LoopAt, "publish"} : at' = [at EXCEPT ![w] = a]
    BY <1>10 DEF Register
  <2>. QED
    BY <1>10, <2>1, <1>0, <1>s DEF Register, Stays, slots
<1>. QED
  BY <1>1, <1>2, <1>3, <1>4, <1>5, <1>7, <1>8, <1>9, <1>10 DEF Work

-----------------------------------------------------------------------------
LEMMA InvInit == Init => Inv
<1>. SUFFICES ASSUME Init PROVE Inv
  OBVIOUS
<1>1. ControlOK
  <2>1. circuit \in [Markets -> Circuits]
    BY DEF Init, Circuits, States
  <2>2. at \in [Actors -> Awaits] /\ \A w \in Workers : at[w] = "done"
    BY DEF Init, Awaits, Actors
  <2>3. /\ task \in [Workers -> 0..TaskCount] /\ empty \in [Workers -> 0..EmptyLimit + 1]
        /\ cycles \in 0..MaxCycles /\ faults \in 0..MaxFaults
    BY SizesAssumption DEF Init
  <2>4. total \in 0..MaxTotal /\ free \in [Markets -> 0..MaxPerMarket]
    BY DefaultsAssumption DEF Init
  <2>5. phase = "idle" /\ on \in BOOLEAN /\ running \in BOOLEAN /\ queue \subseteq Tasks
    BY DEF Init
  <2>. QED
    BY <2>1, <2>2, <2>3, <2>4, <2>5 DEF ControlOK
<1>2. RestOK
  BY DEF Init, RestOK, Actors
<1>3. Engaged = {} /\ \A m : Fetching(m) = {}
  BY DEF Init, Engaged, Fetching, Actors
<1>4. CountsOK
  <2>1. Cardinality(Engaged) = 0 /\ \A m : Cardinality(Fetching(m)) = 0
    BY <1>3, FS_EmptySet
  <2>2. total = MaxTotal /\ \A m \in Markets : free[m] = MaxPerMarket
    BY DEF Init
  <2>3. MaxTotal + 0 = MaxTotal /\ MaxPerMarket + 0 = MaxPerMarket
    BY DefaultsAssumption
  <2>. QED
    BY <2>1, <2>2, <2>3 DEF CountsOK
<1>5. ProbesOK
  BY DEF Init, ProbesOK
<1>. QED
  BY <1>1, <1>2, <1>4, <1>5 DEF Inv

LEMMA InvNext == Inv /\ [Next]_vars => Inv'
<1>. SUFFICES ASSUME Inv, [Next]_vars PROVE Inv'
  OBVIOUS
<1>1. ASSUME NEW w \in Workers, Work(w) PROVE Inv'
  BY <1>1, WorkKeepsControl, WorkKeepsCounts, WorkKeepsProbes DEF Inv
<1>2. CASE (\E a \in Actors : Publishing(a)) \/ Cycle \/ Shutdown \/ Ended \/ UNCHANGED vars
  <2>1. ControlOK' /\ RestOK' /\ Stays
    BY <1>2, OthersKeepControl DEF Inv
  <2>. QED
    BY <2>1, CountsStay DEF Inv
<1>. QED
  BY <1>1, <1>2 DEF Next

\* The inductive invariant holds of every execution.
THEOREM Invariance == Spec => []Inv
  BY InvInit, InvNext, PTL DEF Spec

-----------------------------------------------------------------------------
\* A half-open circuit always has a call left to admit or a request in flight
\* (CircuitNotStuck, about CircuitBreaker and Bulkhead together).
THEOREM CircuitNeverStuck == Spec => []CircuitNotStuck
<1>1. Inv => CircuitNotStuck
  <2>. SUFFICES ASSUME Inv, NEW m \in Markets, circuit[m].state = "half_open",
                       InFlight(m) = {}
                PROVE  circuit[m].calls < HalfOpenMaxCalls
    BY DEF CircuitNotStuck
  <2>1. circuit[m].successes \in Nat /\ circuit[m].calls \in Nat
    BY DEF Inv, ControlOK, Circuits
  <2>2. Cardinality(InFlight(m)) = 0
    BY FS_EmptySet
  <2>3. circuit[m].successes < SuccessThreshold /\ Answers(circuit[m], InFlight(m)) >= SuccessThreshold
    BY DEF Inv, ProbesOK
  <2>. QED
    BY <2>1, <2>2, <2>3, DefaultsAssumption DEF Answers
<1>. QED
  BY <1>1, Invariance, PTL

\* Every way out of _execute_task gives back the slots it took, and the global
\* semaphore is never found empty (SlotsConserved, about Bulkhead).
THEOREM SlotsKept == Spec => []SlotsConserved
<1>1. Inv => SlotsConserved
  <2>. SUFFICES ASSUME Inv PROVE SlotsConserved
    OBVIOUS
  <2>1. ASSUME NEW w \in Workers \ Engaged PROVE total > 0
    <3>1. Engaged \subseteq Workers \ {w}
      BY <2>1 DEF Engaged
    <3>2. IsFiniteSet(Workers) /\ Cardinality(Workers \ {w}) = Cardinality(Workers) - 1 /\ IsFiniteSet(Workers \ {w})
      BY <2>1, FiniteSets, FS_RemoveElement
    <3>3. Cardinality(Engaged) <= Cardinality(Workers) - 1 /\ Cardinality(Engaged) \in Nat /\ Cardinality(Workers) \in Nat
      BY <3>1, <3>2, FiniteSets, FS_Subset, FS_CardinalityType
    <3>. QED
      BY <3>3, DefaultsAssumption DEF Inv, CountsOK, ControlOK
  <2>. QED
    BY <2>1 DEF Inv, CountsOK, SlotsConserved
<1>. QED
  BY <1>1, Invariance, PTL

-----------------------------------------------------------------------------
\* Why run_workers leaves no task behind: a worker that finds the queue empty
\* may leave, but one that puts a task back stays.
DrainOK ==
    /\ phase = "scraping" /\ on => running
    /\ phase = "scraping" /\ running /\ queue # {} => \E w \in Workers : at[w] # "done"
    /\ phase \in {"flushing", "idle"} /\ on => queue = {}

\* A worker that is through with a task is at the queue as long as the service
\* runs; only one that found it empty is done.
LEMMA WorkKeepsDrain ==
  ASSUME ControlOK, RestOK, DrainOK, NEW w \in Workers, Work(w)
  PROVE  DrainOK'
<1>0. at \in [Actors -> Awaits] /\ w \in Actors /\ (running => LoopAt = "waiting")
  BY DEF ControlOK, Actors, LoopAt
<1>1. at[w] # "done" /\ UNCHANGED control
  <2>1. ASSUME NEW t \in queue, Admit(w, t) \/ Deny(w, t) PROVE at[w] # "done" /\ UNCHANGED control
    BY <2>1 DEF Admit, Deny, Dequeue
  <2>2. CASE DequeueTimesOut(w) \/ AcquireMarket(w) \/ Refused(w)
    BY <2>2 DEF DequeueTimesOut, AcquireMarket, Refused
  <2>3. CASE FetchFails(w) \/ Fetched(w)
    BY <2>3 DEF FetchFails, Fetched
  <2>4. CASE Check(w) \/ Register(w)
    BY <2>4 DEF Check, Register
  <2>. QED
    BY <2>1, <2>2, <2>3, <2>4 DEF Work
<1>2. phase = "scraping" /\ phase' = "scraping" /\ running' = running /\ on' = on
  BY <1>1 DEF RestOK, control
<1>3. ASSUME running, queue' # {} PROVE at'[w] # "done"
  <2>1. ASSUME NEW t \in queue, Admit(w, t) PROVE at'[w] # "done"
    BY <2>1, <1>0 DEF Admit
  <2>2. ASSUME NEW t \in queue, Deny(w, t) PROVE at'[w] # "done"
    BY <2>2, <1>0, <1>3 DEF Deny, BackToLoop
  <2>3. CASE DequeueTimesOut(w)
    BY <2>3, <1>3 DEF DequeueTimesOut
  <2>4. CASE AcquireMarket(w)
    BY <2>4, <1>0 DEF AcquireMarket
  <2>5. CASE Refused(w) \/ FetchFails(w)
    BY <2>5, <1>0, <1>3 DEF Refused, FetchFails, BackToLoop
  <2>6. CASE Fetched(w)
    <3>1. PICK a \in {LoopAt, "check"} : at' = [at EXCEPT ![w] = a]
      BY <2>6 DEF Fetched
    <3>. QED
      BY <3>1, <1>0, <1>3
  <2>7. CASE Check(w)
    <3>1. PICK a \in {LoopAt, "register"} : at' = [at EXCEPT ![w] = a]
      BY <2>7 DEF Check
    <3>. QED
      BY <3>1, <1>0, <1>3
  <2>8. CASE Register(w)
    <3>1. PICK a \in {LoopAt, "publish"} : at' = [at EXCEPT ![w] = a]
      BY <2>8 DEF Register
    <3>. QED
      BY <3>1, <1>0, <1>3
  <2>. QED
    BY <2>1, <2>2, <2>3, <2>4, <2>5, <2>6, <2>7, <2>8 DEF Work
<1>. QED
  BY <1>2, <1>3 DEF DrainOK

\* The cycle and shutdown; a batch that is published leaves its worker at the
\* queue.
LEMMA OthersKeepDrain ==
  ASSUME ControlOK, RestOK, DrainOK,
         \/ \E a \in Actors : Publishing(a)
         \/ Cycle \/ Shutdown \/ Ended \/ UNCHANGED vars
  PROVE  DrainOK'
<1>0. /\ CycleEnd \notin Workers /\ Closing \notin Workers /\ Workers \subseteq Actors
      /\ CycleEnd \in Actors /\ Closing \in Actors
      /\ at \in [Actors -> Awaits] /\ (running => LoopAt = "waiting")
  BY ActorsAssumption DEF ControlOK, Actors, LoopAt
<1>1. ASSUME NEW a \in Actors, Publishing(a) PROVE DrainOK'
  <2>1. at[a] = "publish" /\ AfterPublish(a)
    BY <1>1 DEF Publishing, Published, PublishFails
  <2>2. UNCHANGED <<on, running, queue>> /\ (phase' = phase \/ (phase = "flushing" /\ phase' = "idle"))
    BY <2>1 DEF AfterPublish, RestOK
  <2>3. ASSUME running, NEW w \in Workers, at[w] # "done" PROVE at'[w] # "done"
    BY <2>1, <2>3, <1>0 DEF AfterPublish
  <2>. QED
    BY <2>2, <2>3 DEF DrainOK
<1>2. CASE BeginCycle \/ Exit
  BY <1>2 DEF BeginCycle, Exit, DrainOK
<1>3. CASE StartWorkers
  <2>1. \A w \in Workers : at'[w] = "waiting"
    BY <1>3, <1>0 DEF StartWorkers
  <2>. QED
    BY <1>3, <2>1, SizesAssumption DEF StartWorkers, DrainOK
<1>4. CASE WorkersDone
  BY <1>4 DEF WorkersDone, DrainOK
<1>5. CASE Shutdown
  <2>1. on' = FALSE /\ running' = FALSE
    BY <1>5 DEF Shutdown
  <2>. QED
    BY <2>1 DEF DrainOK
<1>6. CASE Ended \/ UNCHANGED vars
  BY <1>6 DEF Ended, vars, control, DrainOK
<1>. QED
  BY <1>1, <1>2, <1>3, <1>4, <1>5, <1>6 DEF Cycle

\* run_workers leaves no task behind, unless it was shut down (QueueDrained,
\* about _worker_loop, which may leave, and _execute_task, which may requeue).
THEOREM NoTaskLeftBehind == Spec => []QueueDrained
<1>1. Init => DrainOK
  BY DEF Init, DrainOK
<1>2. Inv /\ DrainOK /\ [Next]_vars => DrainOK'
  BY WorkKeepsDrain, OthersKeepDrain DEF Next, Inv
<1>3. DrainOK => QueueDrained
  BY DEF DrainOK, QueueDrained
<1>. QED
  BY <1>1, <1>2, <1>3, Invariance, PTL DEF Spec

-----------------------------------------------------------------------------
(* How often a listing is in a sequence *)

LEMMA CountTypes ==
  ASSUME NEW S, NEW s \in Seq(S), NEW k
  PROVE  /\ IsFiniteSet({i \in DOMAIN s : s[i] = k})
         /\ CountIn(s, k) \in Nat
<1>1. DOMAIN s = 1..Len(s) /\ Len(s) \in Nat
  BY LenProperties
<1>2. IsFiniteSet(1..Len(s))
  BY <1>1, FS_Interval
<1>3. IsFiniteSet({i \in DOMAIN s : s[i] = k})
  BY <1>1, <1>2, FS_Subset
<1>. QED
  BY <1>3, FS_CardinalityType DEF CountIn

LEMMA CountEmpty == \A k : CountIn(<<>>, k) = 0
<1>1. \A k : {i \in DOMAIN <<>> : <<>>[i] = k} = {}
  OBVIOUS
<1>. QED
  BY <1>1, FS_EmptySet DEF CountIn

\* Putting sequences together loses and adds nothing.
LEMMA CountConcat ==
  ASSUME NEW S, NEW s \in Seq(S), NEW t \in Seq(S), NEW k
  PROVE  CountIn(s \o t, k) = CountIn(s, k) + CountIn(t, k)
<1>. DEFINE A == {i \in DOMAIN s : s[i] = k}
            B == {i \in DOMAIN t : t[i] = k}
            C == {Len(s) + i : i \in B}
<1>1. /\ Len(s) \in Nat /\ Len(t) \in Nat /\ DOMAIN s = 1..Len(s) /\ DOMAIN t = 1..Len(t)
      /\ s \o t \in Seq(S) /\ DOMAIN (s \o t) = 1..(Len(s) + Len(t))
      /\ \A i \in 1..(Len(s) + Len(t)) : (s \o t)[i] = IF i <= Len(s) THEN s[i] ELSE t[i - Len(s)]
  BY LenProperties, ConcatProperties
<1>2. {i \in DOMAIN (s \o t) : (s \o t)[i] = k} = A \cup C
  <2>1. ASSUME NEW i \in DOMAIN (s \o t), (s \o t)[i] = k PROVE i \in A \cup C
    <3>1. CASE i <= Len(s)
      BY <1>1, <2>1, <3>1
    <3>2. CASE i > Len(s)
      <4>1. i - Len(s) \in B
        BY <1>1, <2>1, <3>2
      <4>2. i = Len(s) + (i - Len(s))
        BY <1>1
      <4>. HIDE DEF B
      <4>. QED
        BY <4>1, <4>2
    <3>. QED
      BY <1>1, <3>1, <3>2
  <2>2. ASSUME NEW i \in A PROVE i \in DOMAIN (s \o t) /\ (s \o t)[i] = k
    BY <1>1
  <2>3. ASSUME NEW i \in B PROVE Len(s) + i \in DOMAIN (s \o t) /\ (s \o t)[Len(s) + i] = k
    <3>1. Len(s) + i \in 1..(Len(s) + Len(t)) /\ ~ (Len(s) + i <= Len(s)) /\ (Len(s) + i) - Len(s) = i
      BY <1>1
    <3>. QED
      BY <1>1, <3>1
  <2>. QED
    BY <2>1, <2>2, <2>3
<1>3. IsFiniteSet(A) /\ IsFiniteSet(B) /\ A \cap C = {}
  <2>1. IsFiniteSet(A) /\ IsFiniteSet(B)
    BY CountTypes
  <2>2. A \subseteq 1..Len(s) /\ B \subseteq 1..Len(t)
    BY <1>1
  <2>3. \A i \in B : Len(s) + i \notin 1..Len(s)
    BY <1>1, <2>2
  <2>. HIDE DEF A, B
  <2>. QED
    BY <2>1, <2>2, <2>3
<1>4. IsFiniteSet(C) /\ Cardinality(C) = Cardinality(B)
  <2>. DEFINE f == [i \in B |-> Len(s) + i]
  <2>1. f \in Bijection(B, C)
    <3>1. f \in [B -> C] /\ \A c \in C : \E i \in B : f[i] = c
      OBVIOUS
    <3>2. \A i, j \in B : f[i] = f[j] => i = j
      BY <1>1
    <3>. HIDE DEF f, B, C
    <3>. QED
      BY <3>1, <3>2 DEF Bijection, Injection, Surjection, IsInjective
  <2>. HIDE DEF f, B, C
  <2>2. ExistsBijection(B, C)
    BY <2>1 DEF ExistsBijection
  <2>. QED
    BY <1>3, <2>2, FS_Bijection
<1>5. Cardinality(A \cup C) = Cardinality(A) + Cardinality(C)
  <2>. HIDE DEF A, C
  <2>1. Cardinality(A \cap C) = 0 /\ Cardinality(A) \in Nat /\ Cardinality(C) \in Nat
    BY <1>3, <1>4, FS_EmptySet, FS_CardinalityType
  <2>2. Cardinality(A \cup C) = Cardinality(A) + Cardinality(C) - Cardinality(A \cap C)
    BY <1>3, <1>4, FS_Union
  <2>. QED
    BY <2>1, <2>2
<1>. QED
  BY <1>2, <1>4, <1>5 DEF CountIn

\* Nor does cutting one in two.
LEMMA CountSplit ==
  ASSUME NEW S, NEW s \in Seq(S), NEW n \in 0..Len(s), NEW k
  PROVE  /\ SubSeq(s, 1, n) \in Seq(S) /\ SubSeq(s, n + 1, Len(s)) \in Seq(S)
         /\ Len(SubSeq(s, 1, n)) = n /\ Len(SubSeq(s, n + 1, Len(s))) = Len(s) - n
         /\ CountIn(SubSeq(s, 1, n), k) + CountIn(SubSeq(s, n + 1, Len(s)), k) = CountIn(s, k)
<1>1. Len(s) \in Nat /\ \A i \in 1..Len(s) : s[i] \in S
  BY LenProperties, ElementOfSeq
<1>2. SubSeq(s, 1, n) \in Seq(S) /\ Len(SubSeq(s, 1, n)) = n
  <2>1. \A i \in 1..n : s[i] \in S
    BY <1>1
  <2>2. SubSeq(s, 1, n) \in Seq(S) /\ Len(SubSeq(s, 1, n)) = IF 1 <= n THEN n - 1 + 1 ELSE 0
    BY <1>1, <2>1, SubSeqProperties
  <2>. QED
    BY <1>1, <2>2
<1>3. SubSeq(s, n + 1, Len(s)) \in Seq(S) /\ Len(SubSeq(s, n + 1, Len(s))) = Len(s) - n
  <2>1. \A i \in (n + 1)..Len(s) : s[i] \in S
    BY <1>1
  <2>2. /\ SubSeq(s, n + 1, Len(s)) \in Seq(S)
        /\ Len(SubSeq(s, n + 1, Len(s))) = IF n + 1 <= Len(s) THEN Len(s) - (n + 1) + 1 ELSE 0
    BY <1>1, <2>1, SubSeqProperties
  <2>. QED
    BY <1>1, <2>2
<1>4. SubSeq(s, 1, n) \o SubSeq(s, n + 1, Len(s)) = s
  <2>1. 1 \in 1..Len(s) + 1 /\ n \in 1 - 1..Len(s) /\ Len(s) \in n..Len(s)
    BY <1>1
  <2>2. SubSeq(s, 1, n) \o SubSeq(s, n + 1, Len(s)) = SubSeq(s, 1, Len(s))
    BY <2>1, ConcatAdjacentSubSeq, Zenon
  <2>. QED
    BY <2>2, SubSeqFull
<1>5. CountIn(SubSeq(s, 1, n) \o SubSeq(s, n + 1, Len(s)), k)
        = CountIn(SubSeq(s, 1, n), k) + CountIn(SubSeq(s, n + 1, Len(s)), k)
  BY <1>2, <1>3, CountConcat, Zenon
<1>. QED
  BY <1>2, <1>3, <1>4, <1>5

-----------------------------------------------------------------------------
(* The types of what the listings go through *)

LEMMA Pages ==
  /\ \A t \in Tasks : PageOf[t] \in Seq(Keys)
  /\ \A s \in Seq(Keys) : Range(s) \subseteq Keys
<1>1. \A s \in Seq(Keys) : Range(s) \subseteq Keys
  BY LenProperties, ElementOfSeq DEF Range
<1>. QED
  BY <1>1, PagesAssumption

\* What TakeBatch takes of b, it takes off the front.
LEMMA BatchTaken ==
  ASSUME NEW b \in Seq(Keys), NEW a \in Actors, held \in [Actors -> Seq(Keys)], TakeBatch(a, b), NEW k
  PROVE  /\ held' \in [Actors -> Seq(Keys)] /\ buffer' \in Seq(Keys)
         /\ \A c \in Actors \ {a} : held'[c] = held[c]
         /\ CountIn(held'[a], k) + CountIn(buffer', k) = CountIn(b, k)
         /\ Len(buffer') = IF Len(b) < PublishBatchSize THEN 0 ELSE Len(b) - PublishBatchSize
<1>. DEFINE n == IF Len(b) < PublishBatchSize THEN Len(b) ELSE PublishBatchSize
<1>1. Len(b) \in Nat /\ PublishBatchSize \in Nat /\ n \in 0..Len(b)
  BY LenProperties, SizesAssumption
<1>2. held'[a] = SubSeq(b, 1, n) /\ held' = [held EXCEPT ![a] = SubSeq(b, 1, n)]
  BY DEF TakeBatch
<1>3. buffer' = SubSeq(b, n + 1, Len(b))
  <2>1. CASE Len(b) < PublishBatchSize
    <3>1. n + 1 > Len(b) /\ PublishBatchSize + 1 > Len(b) /\ n + 1 \in Int /\ PublishBatchSize + 1 \in Int
      BY <1>1, <2>1
    <3>. HIDE DEF n
    <3>2. SubSeq(b, n + 1, Len(b)) = <<>> /\ SubSeq(b, PublishBatchSize + 1, Len(b)) = <<>>
      BY <1>1, <3>1, SubSeqEmpty
    <3>. QED
      BY <3>2 DEF TakeBatch
  <2>2. CASE ~ (Len(b) < PublishBatchSize)
    BY <2>2 DEF TakeBatch
  <2>. QED
    BY <2>1, <2>2
<1>4. Len(buffer') = Len(b) - n
  <2>. HIDE DEF n
  <2>. QED
    BY <1>1, <1>3, CountSplit
<1>5. Len(b) - n = IF Len(b) < PublishBatchSize THEN 0 ELSE Len(b) - PublishBatchSize
  BY <1>1
<1>. HIDE DEF n
<1>6. /\ SubSeq(b, 1, n) \in Seq(Keys) /\ SubSeq(b, n + 1, Len(b)) \in Seq(Keys)
      /\ CountIn(SubSeq(b, 1, n), k) + CountIn(SubSeq(b, n + 1, Len(b)), k) = CountIn(b, k)
  BY <1>1, CountSplit
<1>. QED
  BY <1>2, <1>3, <1>4, <1>5, <1>6

-----------------------------------------------------------------------------
(* Where the accepted listings are *)

\* Every accepted listing is in the stream, in the buffer or in a batch being
\* published, and without failures once.
Balanced ==
    \A k \in Keys : accepted[k] <= Copies(k) /\ (faults = 0 => accepted[k] = Copies(k))

\* The copies of k that a step of actor a can move.
Share(a, k) == sent[k] + CountIn(buffer, k) + InBatch(k)[a]

LEMMA ShareTypes ==
  ASSUME ListingsOK, NEW k \in Keys
  PROVE  /\ sent[k] \in Nat /\ accepted[k] \in Nat /\ CountIn(buffer, k) \in Nat
         /\ \A a \in Actors : /\ InBatch(k)[a] = (IF at[a] = "publish" THEN CountIn(held[a], k) ELSE 0)
                              /\ InBatch(k)[a] \in Nat
<1>1. \A a \in Actors : CountIn(held[a], k) \in Nat
  BY CountTypes DEF ListingsOK
<1>2. CountIn(buffer, k) \in Nat
  BY CountTypes DEF ListingsOK
<1>. QED
  BY <1>1, <1>2 DEF ListingsOK, InBatch

LEMMA ShareTypesNext ==
  ASSUME ListingsOK', NEW k \in Keys
  PROVE  /\ sent'[k] \in Nat /\ accepted'[k] \in Nat /\ CountIn(buffer', k) \in Nat
         /\ \A a \in Actors : /\ InBatch(k)'[a] = (IF at'[a] = "publish" THEN CountIn(held'[a], k) ELSE 0)
                              /\ InBatch(k)'[a] \in Nat
<1>1. \A a \in Actors : CountIn(held'[a], k) \in Nat
  BY CountTypes DEF ListingsOK
<1>2. CountIn(buffer', k) \in Nat
  BY CountTypes DEF ListingsOK
<1>. QED
  BY <1>1, <1>2 DEF ListingsOK, InBatch

\* The batches of all actors but a.
OthersPublish(a) ==
    \A b \in Actors \ {a} : /\ at'[b] = "publish" <=> at[b] = "publish"
                            /\ at[b] = "publish" => held'[b] = held[b]

LEMMA ActorsFinite == IsFiniteSet(Actors)
<1>1. IsFiniteSet((Workers \cup {CycleEnd}) \cup {Closing})
  BY FiniteSets, FS_AddElement
<1>2. Actors = (Workers \cup {CycleEnd}) \cup {Closing}
  BY DEF Actors
<1>. QED
  BY <1>1, <1>2

\* A step of one actor moves its share.
LEMMA CopiesMove ==
  ASSUME ListingsOK, ListingsOK', NEW a \in Actors, OthersPublish(a), NEW k \in Keys
  PROVE  /\ Copies(k) \in Int /\ Share(a, k) \in Int /\ Share(a, k)' \in Int
         /\ Copies(k)' = Copies(k) - Share(a, k) + Share(a, k)'
<1>1. IsFiniteSet(Actors)
  BY ActorsFinite
<1>. DEFINE f == InBatch(k)
            g == InBatch(k)'
<1>2. \A b \in Actors : f[b] \in Int /\ g[b] \in Int
  BY ShareTypes, ShareTypesNext
<1>3. \A b \in Actors \ {a} : g[b] = f[b]
  BY ShareTypes, ShareTypesNext DEF OthersPublish
<1>4. /\ sent[k] \in Int /\ sent'[k] \in Int
      /\ CountIn(buffer, k) \in Int /\ CountIn(buffer', k) \in Int
  BY ShareTypes, ShareTypesNext
<1>5. /\ Copies(k) = sent[k] + CountIn(buffer, k) + SumFunctionOnSet(f, Actors)
      /\ Copies(k)' = sent'[k] + CountIn(buffer', k) + SumFunctionOnSet(g, Actors)
      /\ Share(a, k) = sent[k] + CountIn(buffer, k) + f[a]
      /\ Share(a, k)' = sent'[k] + CountIn(buffer', k) + g[a]
  BY DEF Copies, Share
<1>. HIDE DEF f, g
<1>6. /\ SumFunctionOnSet(f, Actors) \in Int
      /\ SumFunctionOnSet(g, Actors) = SumFunctionOnSet(f, Actors) - f[a] + g[a]
  BY <1>1, <1>2, <1>3, SumChange
<1>. QED
  BY <1>2, <1>4, <1>5, <1>6

\* So what is accepted stays balanced if the share grows with it.
LEMMA BalanceMoves ==
  ASSUME ListingsOK, ListingsOK', Balanced, NEW a \in Actors, OthersPublish(a),
         faults' = 0 => faults = 0,
         \A k \in Keys : /\ accepted'[k] - accepted[k] <= Share(a, k)' - Share(a, k)
                         /\ faults' = 0 => accepted'[k] - accepted[k] = Share(a, k)' - Share(a, k)
  PROVE  Balanced'
<1>1. ASSUME NEW k \in Keys
      PROVE  accepted'[k] <= Copies(k)' /\ (faults' = 0 => accepted'[k] = Copies(k)')
  <2>1. /\ Copies(k) \in Int /\ Share(a, k) \in Int /\ Share(a, k)' \in Int
        /\ Copies(k)' = Copies(k) - Share(a, k) + Share(a, k)'
    BY CopiesMove
  <2>2. accepted[k] \in Int /\ accepted'[k] \in Int
    BY ShareTypes, ShareTypesNext
  <2>3. accepted[k] <= Copies(k) /\ (faults = 0 => accepted[k] = Copies(k))
    BY DEF Balanced
  <2>4. /\ accepted'[k] - accepted[k] <= Share(a, k)' - Share(a, k)
        /\ faults' = 0 => accepted'[k] - accepted[k] = Share(a, k)' - Share(a, k)
    OBVIOUS
  <2>. QED
    BY <2>1, <2>2, <2>3, <2>4
<1>. QED
  BY <1>1 DEF Balanced

\* A step that publishes nothing and fills no batch.
LEMMA QuietKeepsBalance ==
  ASSUME ListingsOK, ListingsOK', Balanced, UNCHANGED output,
         \A b \in Actors : /\ at'[b] = "publish" <=> at[b] = "publish"
                           /\ at[b] = "publish" => held'[b] = held[b],
         faults' = 0 => faults = 0
  PROVE  Balanced'
<1>1. PICK a : a \in Actors
  BY DEF Actors
<1>2. ASSUME NEW k \in Keys
      PROVE  /\ accepted'[k] - accepted[k] <= Share(a, k)' - Share(a, k)
             /\ accepted'[k] - accepted[k] = Share(a, k)' - Share(a, k)
  <2>1. InBatch(k)'[a] = InBatch(k)[a] /\ InBatch(k)[a] \in Int
    BY <1>1, ShareTypes, ShareTypesNext
  <2>2. sent'[k] = sent[k] /\ accepted'[k] = accepted[k] /\ CountIn(buffer', k) = CountIn(buffer, k)
    BY DEF output
  <2>3. sent[k] \in Int /\ accepted[k] \in Int /\ CountIn(buffer, k) \in Int
    BY ShareTypes
  <2>4. /\ Share(a, k) = sent[k] + CountIn(buffer, k) + InBatch(k)[a]
        /\ Share(a, k)' = sent'[k] + CountIn(buffer', k) + InBatch(k)'[a]
    BY DEF Share
  <2>. QED
    BY <2>1, <2>2, <2>3, <2>4
<1>3. OthersPublish(a)
  BY DEF OthersPublish
<1>. QED
  BY <1>1, <1>2, <1>3, BalanceMoves

\* Before Register a worker changes only what it has in hand.
LEMMA QuietWork ==
  ASSUME ControlOK, ListingsOK, Balanced, NEW w \in Workers, NEW a \in Awaits, NEW h \in Seq(Keys),
         at' = [at EXCEPT ![w] = a], held' = [held EXCEPT ![w] = h], at[w] # "publish", a # "publish",
         UNCHANGED <<remote, output>>, local' \subseteq Keys, RedisFails \/ RedisAnswers
  PROVE  ListingsOK' /\ Balanced'
<1>1. w \in Actors /\ at \in [Actors -> Awaits] /\ held \in [Actors -> Seq(Keys)]
  BY DEF ControlOK, ListingsOK, Actors
<1>2. ListingsOK'
  BY <1>1 DEF ListingsOK, output
<1>3. \A b \in Actors : /\ at'[b] = "publish" <=> at[b] = "publish"
                        /\ at[b] = "publish" => held'[b] = held[b]
  BY <1>1
<1>4. faults' = 0 => faults = 0
  BY SizesAssumption DEF RedisFails, RedisAnswers, ControlOK
<1>. QED
  BY <1>2, <1>3, <1>4, QuietKeepsBalance

\* What a worker accepts is in the buffer or in the batch it takes.
LEMMA RegisterKeepsListings ==
  ASSUME ControlOK, ListingsOK, Balanced, NEW w \in Workers, Register(w)
  PROVE  ListingsOK' /\ Balanced'
<1>. DEFINE b == buffer \o held[w]
<1>1. /\ w \in Actors /\ at \in [Actors -> Awaits] /\ held \in [Actors -> Seq(Keys)] /\ at[w] = "register"
      /\ held[w] \in Seq(Keys) /\ buffer \in Seq(Keys) /\ b \in Seq(Keys) /\ LoopAt # "publish"
  BY ConcatProperties DEF ControlOK, ListingsOK, Actors, Register, LoopAt
<1>2. \A k \in Keys : /\ CountIn(b, k) = CountIn(buffer, k) + CountIn(held[w], k)
                      /\ CountIn(buffer, k) \in Nat /\ CountIn(held[w], k) \in Nat
  <2>1. ASSUME NEW k \in Keys
        PROVE  CountIn(buffer \o held[w], k) = CountIn(buffer, k) + CountIn(held[w], k)
    <3>1. buffer \in Seq(Keys) /\ held[w] \in Seq(Keys)
      BY <1>1
    <3>. QED
      BY <3>1, CountConcat
  <2>2. \A k \in Keys : CountIn(buffer, k) \in Nat /\ CountIn(held[w], k) \in Nat
    BY <1>1, CountTypes
  <2>. QED
    BY <2>1, <2>2
<1>3. sent' = sent /\ local' = local /\ remote' \subseteq Keys /\ accepted' \in [Keys -> Nat]
  <2>1. remote' \subseteq Keys
    BY <1>1, Pages DEF Register, ListingsOK
  <2>2. accepted' = [k \in Keys |-> accepted[k] + CountIn(held[w], k)]
    BY DEF Register
  <2>. QED
    BY <1>2, <2>1, <2>2 DEF Register, ListingsOK
<1>4. faults' = 0 => faults = 0
  BY SizesAssumption DEF Register, RedisFails, RedisAnswers, ControlOK
\* Either way the buffer and the batch together are what the buffer was and
\* what was accepted.
<1>5. /\ held' \in [Actors -> Seq(Keys)] /\ buffer' \in Seq(Keys)
      /\ \A c \in Actors \ {w} : held'[c] = held[c] /\ at'[c] = at[c]
      /\ \A k \in Keys : CountIn(buffer', k) + (IF at'[w] = "publish" THEN CountIn(held'[w], k) ELSE 0) = CountIn(b, k)
  <2>1. CASE Len(b) >= PublishBatchSize
    <3>1. TakeBatch(w, b) /\ at' = [at EXCEPT ![w] = "publish"]
      BY <2>1 DEF Register
    <3>. HIDE DEF b
    <3>2. ASSUME NEW k \in Keys
          PROVE  /\ held' \in [Actors -> Seq(Keys)] /\ buffer' \in Seq(Keys)
                 /\ \A c \in Actors \ {w} : held'[c] = held[c]
                 /\ CountIn(held'[w], k) + CountIn(buffer', k) = CountIn(b, k)
      BY <1>1, <3>1, BatchTaken
    <3>3. held' \in [Actors -> Seq(Keys)] /\ buffer' \in Seq(Keys) /\ \A c \in Actors \ {w} : held'[c] = held[c]
      BY <1>1, <3>1, BatchTaken
    <3>4. \A k \in Keys : CountIn(held'[w], k) \in Nat /\ CountIn(buffer', k) \in Nat
      BY <1>1, <3>3, CountTypes
    <3>5. \A k \in Keys : CountIn(buffer', k) + CountIn(held'[w], k) = CountIn(b, k)
      BY <3>2, <3>4
    <3>6. at'[w] = "publish" /\ \A c \in Actors \ {w} : at'[c] = at[c]
      BY <1>1, <3>1
    <3>. QED
      BY <3>3, <3>5, <3>6
  <2>2. CASE ~ (Len(b) >= PublishBatchSize)
    <3>1. buffer' = b /\ held' = [held EXCEPT ![w] = <<>>] /\ at' = [at EXCEPT ![w] = LoopAt]
      BY <2>2 DEF Register
    <3>. HIDE DEF b
    <3>2. \A k \in Keys : CountIn(b, k) \in Nat
      BY <1>1, CountTypes
    <3>3. at'[w] # "publish" /\ \A c \in Actors \ {w} : at'[c] = at[c] /\ held'[c] = held[c]
      BY <1>1, <3>1
    <3>4. held' \in [Actors -> Seq(Keys)] /\ buffer' \in Seq(Keys)
      BY <1>1, <3>1
    <3>. QED
      BY <3>1, <3>2, <3>3, <3>4
  <2>. QED
    BY <2>1, <2>2
<1>6. ListingsOK'
  BY <1>3, <1>5 DEF ListingsOK
<1>. HIDE DEF b
<1>7. ASSUME NEW k \in Keys
      PROVE  accepted'[k] - accepted[k] = Share(w, k)' - Share(w, k) /\ accepted'[k] - accepted[k] \in Int
  <2>1. /\ Share(w, k) = sent[k] + CountIn(buffer, k)
        /\ Share(w, k)' = sent[k] + CountIn(b, k)
    <3>1. /\ InBatch(k)[w] = 0
          /\ InBatch(k)'[w] = (IF at'[w] = "publish" THEN CountIn(held'[w], k) ELSE 0)
          /\ InBatch(k)'[w] \in Nat /\ CountIn(buffer', k) \in Nat /\ sent[k] \in Nat
      BY <1>1, <1>3, <1>6, ShareTypes, ShareTypesNext
    <3>2. /\ Share(w, k) = sent[k] + CountIn(buffer, k) + InBatch(k)[w]
          /\ Share(w, k)' = sent'[k] + CountIn(buffer', k) + InBatch(k)'[w]
      BY DEF Share
    <3>3. CountIn(buffer', k) + InBatch(k)'[w] = CountIn(b, k)
      BY <1>5, <3>1
    <3>. QED
      BY <1>2, <1>3, <3>1, <3>2, <3>3
  <2>2. accepted'[k] = accepted[k] + CountIn(held[w], k) /\ accepted[k] \in Nat /\ sent[k] \in Nat
    BY DEF Register, ListingsOK
  <2>. QED
    BY <1>2, <2>1, <2>2
<1>8. OthersPublish(w)
  BY <1>5 DEF OthersPublish
<1>9. \A k \in Keys : Share(w, k) \in Int /\ Share(w, k)' \in Int
  BY <1>1, <1>6, <1>8, CopiesMove
<1>. QED
  BY <1>1, <1>4, <1>6, <1>7, <1>8, <1>9, BalanceMoves

LEMMA WorkKeepsListings ==
  ASSUME ControlOK, ListingsOK, Balanced, NEW w \in Workers, Work(w)
  PROVE  ListingsOK' /\ Balanced'
<1>0. /\ w \in Actors /\ at \in [Actors -> Awaits] /\ held \in [Actors -> Seq(Keys)]
      /\ held[w] \in Seq(Keys) /\ held = [held EXCEPT ![w] = held[w]]
      /\ LoopAt \in Awaits /\ LoopAt # "publish" /\ local \subseteq Keys
      /\ "market" \in Awaits /\ "fetch" \in Awaits /\ "check" \in Awaits /\ "register" \in Awaits /\ "done" \in Awaits
  BY DEF ControlOK, ListingsOK, Actors, LoopAt, Awaits
\* A step that leaves the listings alone.
<1>s. ASSUME NEW a \in Awaits, at' = [at EXCEPT ![w] = a], at[w] # "publish", a # "publish",
             UNCHANGED <<local, remote, held, output, faults>>
      PROVE  ListingsOK' /\ Balanced'
  <2>1. held' = [held EXCEPT ![w] = held[w]]
    BY <1>0, <1>s
  <2>2. RedisAnswers /\ local' \subseteq Keys
    BY <1>0, <1>s DEF RedisAnswers
  <2>. QED
    BY <1>0, <1>s, <2>1, <2>2, QuietWork
<1>1. ASSUME NEW t \in queue, Admit(w, t) PROVE ListingsOK' /\ Balanced'
  BY <1>0, <1>1, <1>s DEF Admit, Dequeue, dedup
<1>2. ASSUME NEW t \in queue, Deny(w, t) PROVE ListingsOK' /\ Balanced'
  BY <1>0, <1>2, <1>s DEF Deny, Dequeue, BackToLoop, dedup
<1>3. CASE DequeueTimesOut(w)
  <2>1. PICK a \in {LoopAt, "done"} : at' = [at EXCEPT ![w] = a]
    BY <1>3 DEF DequeueTimesOut
  <2>. QED
    BY <1>0, <1>3, <2>1, <1>s DEF DequeueTimesOut, dedup
<1>4. CASE AcquireMarket(w)
  BY <1>0, <1>4, <1>s DEF AcquireMarket, dedup
<1>5. CASE Refused(w) \/ FetchFails(w)
  BY <1>0, <1>5, <1>s DEF Refused, FetchFails, BackToLoop, dedup
<1>6. CASE Fetched(w)
  <2>1. task[w] \in Tasks
    BY <1>6 DEF Fetched, ControlOK
  <2>2. PICK h : h = Without(PageOf[task[w]], local)
    OBVIOUS
  <2>3. h \in Seq(Keys)
    BY <2>1, <2>2, Pages, WithoutTypes
  <2>4. PICK a \in {LoopAt, "check"} : at' = [at EXCEPT ![w] = a]
    BY <1>6 DEF Fetched
  <2>5. held' = [held EXCEPT ![w] = h] /\ RedisAnswers /\ UNCHANGED <<local, remote, output>> /\ at[w] = "fetch"
    BY <1>6, <2>2 DEF Fetched, RedisAnswers, dedup
  <2>. QED
    BY <1>0, <2>3, <2>4, <2>5, QuietWork
<1>7. CASE Check(w)
  <2>1. PICK a \in {LoopAt, "register"} : at' = [at EXCEPT ![w] = a]
    BY <1>7 DEF Check
  <2>2. PICK h \in Seq(Keys) : held' = [held EXCEPT ![w] = h]
    <3>1. CASE UNCHANGED held
      BY <1>0, <3>1
    <3>2. CASE held' = [held EXCEPT ![w] = Without(@, remote)]
      BY <1>0, <3>2, WithoutTypes
    <3>. QED
      BY <1>7, <3>1, <3>2 DEF Check
  <2>3. held'[w] = h
    BY <1>0, <2>2
  <2>4. local' \subseteq Keys /\ UNCHANGED <<remote, output>> /\ at[w] = "check" /\ (RedisFails \/ RedisAnswers)
    BY <1>0, <1>7, <2>2, <2>3, Pages DEF Check
  <2>. QED
    BY <1>0, <2>1, <2>2, <2>4, QuietWork
<1>8. CASE Register(w)
  BY <1>8, RegisterKeepsListings
<1>. QED
  BY <1>1, <1>2, <1>3, <1>4, <1>5, <1>6, <1>7, <1>8 DEF Work

\* Only shutdown publishes as Closing, and it comes once.
ClosesOnce == on => at[Closing] # "publish"

\* A flush that is not a worker's: the batch is what the buffer has lost.
LEMMA FlushKeepsListings ==
  ASSUME ControlOK, ListingsOK, Balanced, NEW a \in Actors, at[a] # "publish",
         TakeBatch(a, buffer), at' = [at EXCEPT ![a] = "publish"],
         UNCHANGED <<local, remote, sent, accepted, faults>>
  PROVE  ListingsOK' /\ Balanced'
<1>1. buffer \in Seq(Keys) /\ held \in [Actors -> Seq(Keys)] /\ at \in [Actors -> Awaits]
  BY DEF ListingsOK, ControlOK
<1>2. held' \in [Actors -> Seq(Keys)] /\ buffer' \in Seq(Keys) /\ \A c \in Actors \ {a} : held'[c] = held[c]
  BY <1>1, BatchTaken
<1>3. ListingsOK'
  BY <1>2 DEF ListingsOK
<1>4. OthersPublish(a) /\ at'[a] = "publish"
  BY <1>1, <1>2 DEF OthersPublish
<1>5. ASSUME NEW k \in Keys
      PROVE  accepted'[k] - accepted[k] = Share(a, k)' - Share(a, k) /\ accepted'[k] - accepted[k] \in Int
  <2>1. CountIn(held'[a], k) + CountIn(buffer', k) = CountIn(buffer, k)
    BY <1>1, BatchTaken
  <2>2. InBatch(k)[a] = 0 /\ InBatch(k)'[a] = CountIn(held'[a], k) /\ InBatch(k)'[a] \in Nat
    BY <1>3, <1>4, ShareTypes, ShareTypesNext
  <2>3. /\ sent[k] \in Nat /\ accepted[k] \in Nat /\ CountIn(buffer, k) \in Nat
        /\ CountIn(buffer', k) \in Nat /\ sent'[k] = sent[k] /\ accepted'[k] = accepted[k]
    BY <1>3, ShareTypes, ShareTypesNext
  <2>4. /\ Share(a, k) = sent[k] + CountIn(buffer, k) + InBatch(k)[a]
        /\ Share(a, k)' = sent'[k] + CountIn(buffer', k) + InBatch(k)'[a]
    BY DEF Share
  <2>. QED
    BY <2>1, <2>2, <2>3, <2>4
<1>6. \A k \in Keys : Share(a, k) \in Int /\ Share(a, k)' \in Int
  BY <1>3, <1>4, CopiesMove
<1>. QED
  BY <1>3, <1>4, <1>5, <1>6, BalanceMoves

\* A batch that is sent is in the stream; one that is not is in the buffer
\* again, and what of it was sent is there a second time.
LEMMA PublishingKeepsListings ==
  ASSUME ControlOK, ListingsOK, Balanced, NEW a \in Actors, Publishing(a)
  PROVE  ListingsOK' /\ Balanced'
<1>1. /\ buffer \in Seq(Keys) /\ held \in [Actors -> Seq(Keys)] /\ held[a] \in Seq(Keys)
      /\ at \in [Actors -> Awaits] /\ sent \in [Keys -> Nat]
  BY DEF ListingsOK, ControlOK
<1>2. at[a] = "publish" /\ AfterPublish(a)
  BY DEF Publishing, Published, PublishFails
<1>3. PICK b \in {"waiting", "done"} : at' = [at EXCEPT ![a] = b]
  BY <1>2 DEF AfterPublish, LoopAt
<1>4. /\ held' = [held EXCEPT ![a] = <<>>] /\ UNCHANGED <<local, remote, accepted>>
      /\ OthersPublish(a) /\ at'[a] # "publish"
  BY <1>1, <1>2, <1>3 DEF AfterPublish, dedup, OthersPublish
\* The share of a is its batch, the rest of the buffer and the stream.
<1>5. ASSUME ListingsOK', NEW k \in Keys, NEW n \in Nat, faults' = 0 => n = 0,
             sent'[k] + CountIn(buffer', k) = sent[k] + CountIn(buffer, k) + CountIn(held[a], k) + n
      PROVE  /\ accepted'[k] - accepted[k] <= Share(a, k)' - Share(a, k)
             /\ faults' = 0 => accepted'[k] - accepted[k] = Share(a, k)' - Share(a, k)
  <2>1. InBatch(k)[a] = CountIn(held[a], k) /\ InBatch(k)[a] \in Nat /\ InBatch(k)'[a] = 0
    BY <1>2, <1>4, <1>5, ShareTypes, ShareTypesNext
  <2>2. /\ sent[k] \in Nat /\ accepted[k] \in Nat /\ CountIn(buffer, k) \in Nat
        /\ CountIn(buffer', k) \in Nat /\ sent'[k] \in Nat /\ accepted'[k] = accepted[k]
    BY <1>4, <1>5, ShareTypes, ShareTypesNext
  <2>3. /\ Share(a, k) = sent[k] + CountIn(buffer, k) + InBatch(k)[a]
        /\ Share(a, k)' = sent'[k] + CountIn(buffer', k) + InBatch(k)'[a]
    BY DEF Share
  <2>4. Share(a, k)' - Share(a, k) = n /\ accepted'[k] - accepted[k] = 0
    BY <1>5, <2>1, <2>2, <2>3
  <2>. QED
    BY <1>5, <2>4
<1>6. CASE Published(a)
  <2>1. UNCHANGED <<buffer, faults>> /\ sent' = [k \in Keys |-> sent[k] + CountIn(held[a], k)]
    BY <1>6 DEF Published, Sent
  <2>2. \A k \in Keys : CountIn(held[a], k) \in Nat /\ CountIn(buffer, k) \in Nat /\ sent[k] \in Nat
    BY <1>1, CountTypes
  <2>3. ListingsOK'
    BY <1>1, <1>4, <2>1, <2>2 DEF ListingsOK
  <2>4. \A k \in Keys : sent'[k] + CountIn(buffer', k) = sent[k] + CountIn(buffer, k) + CountIn(held[a], k) + 0
    BY <2>1, <2>2
  <2>5. \A k \in Keys : /\ accepted'[k] - accepted[k] <= Share(a, k)' - Share(a, k)
                        /\ faults' = 0 => accepted'[k] - accepted[k] = Share(a, k)' - Share(a, k)
    BY <1>5, <2>3, <2>4
  <2>. QED
    BY <1>4, <2>1, <2>3, <2>5, BalanceMoves
<1>7. CASE PublishFails(a)
  <2>1. PICK n \in 0..Len(held[a]) : sent' = Sent(SubSeq(held[a], 1, n))
    BY <1>7 DEF PublishFails
  <2>. DEFINE s == SubSeq(held[a], 1, n)
  <2>2. s \in Seq(Keys)
    BY <1>1, CountSplit
  <2>. HIDE DEF s
  <2>3. sent' = [k \in Keys |-> sent[k] + CountIn(s, k)] /\ buffer' = held[a] \o buffer
    BY <1>7, <2>1 DEF PublishFails, Sent, s
  <2>4. faults' # 0
    BY <1>7, SizesAssumption DEF PublishFails, RedisFails, ControlOK
  <2>5. ASSUME NEW k \in Keys
        PROVE  /\ CountIn(s, k) \in Nat /\ CountIn(held[a], k) \in Nat /\ CountIn(buffer, k) \in Nat /\ sent[k] \in Nat
               /\ CountIn(held[a] \o buffer, k) = CountIn(held[a], k) + CountIn(buffer, k)
    <3>1. buffer \in Seq(Keys) /\ held[a] \in Seq(Keys)
      BY <1>1
    <3>2. CountIn(held[a] \o buffer, k) = CountIn(held[a], k) + CountIn(buffer, k)
      BY <3>1, CountConcat
    <3>. QED
      BY <1>1, <2>2, <3>2, CountTypes
  <2>6. ListingsOK'
    <3>1. buffer' \in Seq(Keys)
      BY <1>1, <2>3, ConcatProperties
    <3>. QED
      BY <1>1, <1>4, <2>3, <2>5, <3>1 DEF ListingsOK
  <2>7. ASSUME NEW k \in Keys
        PROVE  sent'[k] + CountIn(buffer', k) = sent[k] + CountIn(buffer, k) + CountIn(held[a], k) + CountIn(s, k)
    BY <2>3, <2>5
  <2>8. \A k \in Keys : /\ accepted'[k] - accepted[k] <= Share(a, k)' - Share(a, k)
                        /\ faults' = 0 => accepted'[k] - accepted[k] = Share(a, k)' - Share(a, k)
    BY <1>5, <2>4, <2>5, <2>6, <2>7
  <2>. QED
    BY <1>4, <2>4, <2>6, <2>8, BalanceMoves
<1>. QED
  BY <1>6, <1>7 DEF Publishing

LEMMA OthersKeepListings ==
  ASSUME ControlOK, RestOK, ListingsOK, ClosesOnce, Balanced,
         \/ \E a \in Actors : Publishing(a)
         \/ Cycle \/ Shutdown \/ Ended \/ UNCHANGED vars
  PROVE  ListingsOK' /\ Balanced' /\ ClosesOnce'
<1>0. /\ CycleEnd \in Actors /\ Closing \in Actors /\ CycleEnd # Closing
      /\ CycleEnd \notin Workers /\ Closing \notin Workers
      /\ at \in [Actors -> Awaits]
  BY ActorsAssumption DEF ControlOK, Actors, CycleEnd, Closing
\* A step that leaves the listings alone, but what it knows of them.
<1>s. ASSUME \A b \in Actors : at'[b] = "publish" <=> at[b] = "publish",
             UNCHANGED <<held, output>>, local' \subseteq Keys, remote' \subseteq Keys,
             faults' = 0 => faults = 0
      PROVE  ListingsOK' /\ Balanced'
  <2>1. ListingsOK'
    BY <1>s DEF ListingsOK, output
  <2>. QED
    BY <1>s, <2>1, QuietKeepsBalance
<1>1. ASSUME NEW a \in Actors, Publishing(a) PROVE ListingsOK' /\ Balanced' /\ ClosesOnce'
  <2>1. AfterPublish(a)
    BY <1>1 DEF Publishing, Published, PublishFails
  <2>2. on' = on /\ (at'[Closing] = "publish" => at[Closing] = "publish")
    BY <2>1, <1>0 DEF AfterPublish, LoopAt
  <2>. QED
    BY <1>1, <2>2, PublishingKeepsListings DEF ClosesOnce
<1>2. CASE BeginCycle
  <2>1. faults' = 0 => faults = 0
    BY <1>2, SizesAssumption DEF BeginCycle, RedisFails, RedisAnswers, ControlOK
  <2>2. local' \subseteq Keys /\ remote' \subseteq Keys /\ UNCHANGED <<held, output, at, on>>
    BY <1>2 DEF BeginCycle, ListingsOK
  <2>. QED
    BY <2>1, <2>2, <1>s DEF ClosesOnce
<1>3. CASE StartWorkers
  <2>1. \A v \in Actors : at'[v] = IF v \in Workers THEN "waiting" ELSE at[v]
    BY <1>3 DEF StartWorkers
  <2>2. \A w \in Workers : at[w] = "done"
    BY <1>3 DEF StartWorkers, RestOK
  <2>3. local' \subseteq Keys /\ remote' \subseteq Keys /\ UNCHANGED <<held, output, faults, on>>
    BY <1>3 DEF StartWorkers, ListingsOK, dedup
  <2>. QED
    BY <2>1, <2>2, <2>3, <1>0, <1>s DEF ClosesOnce
<1>4. CASE WorkersDone
  <2>1. CASE buffer = <<>>
    <3>1. UNCHANGED <<at, on, local, remote, held, output, faults>>
      BY <1>4, <2>1 DEF WorkersDone, dedup, output
    <3>. QED
      BY <3>1, <1>s DEF ClosesOnce, ListingsOK
  <2>2. CASE buffer # <<>>
    <3>1. /\ at' = [at EXCEPT ![CycleEnd] = "publish"] /\ TakeBatch(CycleEnd, buffer)
          /\ UNCHANGED <<on, local, remote, sent, accepted, faults>>
      BY <1>4, <2>2 DEF WorkersDone, dedup
    <3>2. at[CycleEnd] # "publish" /\ at'[Closing] = at[Closing]
      BY <1>0, <1>4, <3>1 DEF WorkersDone, RestOK
    <3>. QED
      BY <1>0, <3>1, <3>2, FlushKeepsListings DEF ClosesOnce
  <2>. QED
    BY <2>1, <2>2
<1>5. CASE Shutdown
  <2>0. on' = FALSE /\ on
    BY <1>5 DEF Shutdown
  <2>1. CASE buffer = <<>>
    <3>1. UNCHANGED <<at, local, remote, held, output, faults>>
      BY <1>5, <2>1 DEF Shutdown, dedup, output
    <3>. QED
      BY <2>0, <3>1, <1>s DEF ClosesOnce, ListingsOK
  <2>2. CASE buffer # <<>>
    <3>1. /\ at' = [at EXCEPT ![Closing] = "publish"] /\ TakeBatch(Closing, buffer)
          /\ UNCHANGED <<local, remote, sent, accepted, faults>>
      BY <1>5, <2>2 DEF Shutdown, dedup
    <3>. QED
      BY <1>0, <2>0, <3>1, FlushKeepsListings DEF ClosesOnce
  <2>. QED
    BY <2>1, <2>2
<1>6. CASE Exit \/ Ended \/ UNCHANGED vars
  <2>1. UNCHANGED <<at, on, local, remote, held, output, faults>>
    BY <1>6 DEF Exit, Ended, vars, control, dedup
  <2>. QED
    BY <2>1, <1>s DEF ClosesOnce, ListingsOK
<1>. QED
  BY <1>1, <1>2, <1>3, <1>4, <1>5, <1>6 DEF Cycle

-----------------------------------------------------------------------------
(* How much is in the buffer *)

\* As long as no publishing has failed the buffer is less than a batch, so
\* that one flush empties it.
SmallOK ==
    /\ \A w \in Workers : at[w] \in {"check", "register"} => Len(held[w]) <= PublishBatchSize
    /\ faults = 0 => Len(buffer) < PublishBatchSize /\ (phase # "scraping" => buffer = <<>>)

LEMMA WorkKeepsSmall ==
  ASSUME ControlOK, RestOK, ListingsOK, ListingsOK', SmallOK, NEW w \in Workers, Work(w)
  PROVE  SmallOK'
<1>0. /\ w \in Actors /\ Workers \subseteq Actors /\ at \in [Actors -> Awaits]
      /\ held \in [Actors -> Seq(Keys)] /\ held[w] \in Seq(Keys) /\ buffer \in Seq(Keys)
      /\ Len(held[w]) \in Nat /\ Len(buffer) \in Nat /\ PublishBatchSize \in Nat
      /\ LoopAt \notin {"check", "register"}
  <2>1. /\ w \in Actors /\ Workers \subseteq Actors /\ at \in [Actors -> Awaits]
        /\ held \in [Actors -> Seq(Keys)] /\ held[w] \in Seq(Keys) /\ buffer \in Seq(Keys)
    BY DEF ListingsOK, ControlOK, Actors
  <2>. QED
    BY <2>1, LenProperties, SizesAssumption DEF LoopAt
\* A step that leaves the buffer alone and what is in the others' hands.
<1>s. ASSUME UNCHANGED <<phase, buffer>>, NEW a, at' = [at EXCEPT ![w] = a], faults' = 0 => faults = 0,
             NEW h, held' = [held EXCEPT ![w] = h],
             a \in {"check", "register"} => Len(h) <= PublishBatchSize
      PROVE  SmallOK'
  <2>1. at'[w] = a /\ held'[w] = h /\ \A v \in Workers \ {w} : at'[v] = at[v] /\ held'[v] = held[v]
    BY <1>0, <1>s
  <2>. QED
    BY <1>s, <2>1 DEF SmallOK
\* The same with nothing in hand.
<1>e. ASSUME UNCHANGED <<phase, buffer, held, faults>>, NEW a, at' = [at EXCEPT ![w] = a],
             a \notin {"check", "register"}
      PROVE  SmallOK'
  <2>1. held' = [held EXCEPT ![w] = held[w]]
    BY <1>0, <1>e
  <2>. QED
    BY <1>e, <2>1, <1>s
<1>1. ASSUME NEW t \in queue, Admit(w, t) PROVE SmallOK'
  <2>1. PICK a \in {"market"} : at' = [at EXCEPT ![w] = a] /\ UNCHANGED <<phase, buffer, held, faults>>
    BY <1>1 DEF Admit, control, output
  <2>. QED
    BY <2>1, <1>e
<1>2. ASSUME NEW t \in queue, Deny(w, t) PROVE SmallOK'
  <2>1. at' = [at EXCEPT ![w] = LoopAt] /\ UNCHANGED <<phase, buffer, held, faults>>
    BY <1>2 DEF Deny, BackToLoop, control, output
  <2>. QED
    BY <1>0, <2>1, <1>e
<1>3. CASE DequeueTimesOut(w)
  <2>1. PICK a \in {LoopAt, "done"} : at' = [at EXCEPT ![w] = a]
    BY <1>3 DEF DequeueTimesOut
  <2>. QED
    BY <1>0, <1>3, <2>1, <1>e DEF DequeueTimesOut, control, output
<1>4. CASE AcquireMarket(w)
  <2>1. PICK a \in {"fetch"} : at' = [at EXCEPT ![w] = a] /\ UNCHANGED <<phase, buffer, held, faults>>
    BY <1>4 DEF AcquireMarket, control, output
  <2>. QED
    BY <2>1, <1>e
<1>5. CASE Refused(w) \/ FetchFails(w)
  <2>1. at' = [at EXCEPT ![w] = LoopAt] /\ UNCHANGED <<phase, buffer, held, faults>>
    BY <1>5 DEF Refused, FetchFails, BackToLoop, control, output
  <2>. QED
    BY <1>0, <2>1, <1>e
<1>6. CASE Fetched(w)
  <2>1. task[w] \in Tasks
    BY <1>6 DEF Fetched, ControlOK
  <2>2. PICK h : h = Without(PageOf[task[w]], local)
    OBVIOUS
  <2>3. Len(h) <= PublishBatchSize
    <3>1. PageOf[task[w]] \in Seq(Keys) /\ Len(PageOf[task[w]]) <= PublishBatchSize
      BY <2>1, PagesAssumption
    <3>2. h \in Seq(Keys) /\ Len(h) <= Len(PageOf[task[w]])
      BY <2>2, <3>1, WithoutTypes
    <3>3. Len(h) \in Nat /\ Len(PageOf[task[w]]) \in Nat
      BY <3>1, <3>2, LenProperties
    <3>. QED
      BY <1>0, <3>1, <3>2, <3>3
  <2>4. PICK a \in {LoopAt, "check"} : at' = [at EXCEPT ![w] = a]
    BY <1>6 DEF Fetched
  <2>5. held' = [held EXCEPT ![w] = h] /\ UNCHANGED <<phase, buffer, faults>>
    BY <1>6, <2>2 DEF Fetched, control, output
  <2>. QED
    BY <2>3, <2>4, <2>5, <1>s
<1>f. RedisFails \/ RedisAnswers => (faults' = 0 => faults = 0)
  BY SizesAssumption DEF RedisFails, RedisAnswers, ControlOK
<1>7. CASE Check(w)
  <2>1. PICK a \in {LoopAt, "register"} : at' = [at EXCEPT ![w] = a]
    BY <1>7 DEF Check
  <2>2. Len(held[w]) <= PublishBatchSize
    BY <1>7 DEF Check, SmallOK
  <2>3. PICK h : held' = [held EXCEPT ![w] = h] /\ Len(h) <= PublishBatchSize
    <3>1. CASE UNCHANGED held
      BY <1>0, <2>2, <3>1
    <3>2. CASE held' = [held EXCEPT ![w] = Without(@, remote)]
      <4>1. /\ Without(held[w], remote) \in Seq(Keys)
            /\ Len(Without(held[w], remote)) <= Len(held[w])
        BY <1>0, WithoutTypes
      <4>2. Len(Without(held[w], remote)) <= PublishBatchSize
        BY <1>0, <2>2, <4>1, LenProperties
      <4>. QED
        BY <3>2, <4>2
    <3>. QED
      BY <1>7, <3>1, <3>2 DEF Check
  <2>4. UNCHANGED <<phase, buffer>>
    BY <1>7 DEF Check, control, output
  <2>. QED
    BY <1>7, <1>f, <2>1, <2>3, <2>4, <1>s DEF Check
<1>8. CASE Register(w)
  <2>. DEFINE b == buffer \o held[w]
  <2>1. at[w] = "register" /\ UNCHANGED <<phase>> /\ (faults' = 0 => faults = 0)
    BY <1>8, <1>f DEF Register, control
  <2>2. phase = "scraping"
    BY <2>1 DEF RestOK
  <2>3. b \in Seq(Keys) /\ Len(b) = Len(buffer) + Len(held[w]) /\ Len(held[w]) <= PublishBatchSize
    BY <1>0, <2>1, ConcatProperties DEF SmallOK
  <2>4. CASE Len(b) >= PublishBatchSize
    <3>1. TakeBatch(w, b) /\ at' = [at EXCEPT ![w] = "publish"]
      BY <1>8, <2>4 DEF Register
    <3>. HIDE DEF b
    <3>2. /\ Len(buffer') = IF Len(b) < PublishBatchSize THEN 0 ELSE Len(b) - PublishBatchSize
          /\ \A c \in Actors \ {w} : held'[c] = held[c]
      BY <1>0, <2>3, <3>1, BatchTaken
    <3>3. faults' = 0 => Len(buffer') < PublishBatchSize
      BY <1>0, <2>1, <2>3, <2>4, <3>2 DEF SmallOK
    <3>4. at'[w] = "publish" /\ \A v \in Workers \ {w} : at'[v] = at[v] /\ held'[v] = held[v]
      BY <1>0, <3>1, <3>2
    <3>. QED
      BY <2>1, <2>2, <3>3, <3>4 DEF SmallOK
  <2>5. CASE ~ (Len(b) >= PublishBatchSize)
    <3>1. buffer' = b /\ held' = [held EXCEPT ![w] = <<>>] /\ at' = [at EXCEPT ![w] = LoopAt]
      BY <1>8, <2>5 DEF Register
    <3>. HIDE DEF b
    <3>2. Len(buffer') < PublishBatchSize
      BY <1>0, <2>3, <2>5, <3>1
    <3>3. at'[w] = LoopAt /\ \A v \in Workers \ {w} : at'[v] = at[v] /\ held'[v] = held[v]
      BY <1>0, <3>1
    <3>. QED
      BY <1>0, <2>1, <2>2, <3>2, <3>3 DEF SmallOK
  <2>. QED
    BY <2>4, <2>5
<1>. QED
  BY <1>1, <1>2, <1>3, <1>4, <1>5, <1>6, <1>7, <1>8 DEF Work

LEMMA OthersKeepSmall ==
  ASSUME ControlOK, RestOK, ListingsOK, ListingsOK', SmallOK,
         \/ \E a \in Actors : Publishing(a)
         \/ Cycle \/ Shutdown \/ Ended \/ UNCHANGED vars
  PROVE  SmallOK'
<1>0. /\ CycleEnd \in Actors /\ Closing \in Actors /\ CycleEnd \notin Workers /\ Closing \notin Workers
      /\ Workers \subseteq Actors /\ at \in [Actors -> Awaits]
      /\ held \in [Actors -> Seq(Keys)] /\ buffer \in Seq(Keys) /\ buffer' \in Seq(Keys)
      /\ Len(buffer) \in Nat /\ PublishBatchSize \in Nat \ {0}
  <2>1. /\ CycleEnd \in Actors /\ Closing \in Actors /\ Workers \subseteq Actors /\ at \in [Actors -> Awaits]
        /\ held \in [Actors -> Seq(Keys)] /\ buffer \in Seq(Keys) /\ buffer' \in Seq(Keys)
    BY DEF ListingsOK, ControlOK, Actors
  <2>. QED
    BY <2>1, LenProperties, SizesAssumption, ActorsAssumption
<1>1. ASSUME NEW a \in Actors, Publishing(a) PROVE SmallOK'
  <2>1. at[a] = "publish" /\ AfterPublish(a)
    BY <1>1 DEF Publishing, Published, PublishFails
  <2>2. \A v \in Workers : at'[v] \in {"check", "register"} => at'[v] = at[v] /\ held'[v] = held[v]
    BY <1>0, <2>1 DEF AfterPublish, LoopAt
  <2>3. phase' # "scraping" => phase # "scraping"
    BY <2>1 DEF AfterPublish, RestOK
  <2>4. CASE Published(a)
    BY <2>2, <2>3, <2>4 DEF Published, SmallOK
  <2>5. CASE PublishFails(a)
    <3>1. faults' # 0
      BY <2>5, SizesAssumption DEF PublishFails, RedisFails, ControlOK
    <3>. QED
      BY <2>2, <3>1 DEF SmallOK
  <2>. QED
    BY <1>1, <2>4, <2>5 DEF Publishing
<1>2. CASE BeginCycle
  <2>1. faults' = 0 => faults = 0
    BY <1>2, SizesAssumption DEF BeginCycle, RedisFails, RedisAnswers, ControlOK
  <2>. QED
    BY <1>2, <2>1 DEF BeginCycle, SmallOK, output
<1>3. CASE StartWorkers
  <2>1. \A w \in Workers : at'[w] = "waiting"
    BY <1>0, <1>3 DEF StartWorkers
  <2>. QED
    BY <1>3, <2>1 DEF StartWorkers, SmallOK, output
\* A flush of less than a batch takes everything.
<1>f. ASSUME NEW a \in Actors \ Workers, TakeBatch(a, buffer), at' = [at EXCEPT ![a] = "publish"], UNCHANGED faults
      PROVE  SmallOK'
  <2>1. /\ Len(buffer') = IF Len(buffer) < PublishBatchSize THEN 0 ELSE Len(buffer) - PublishBatchSize
        /\ \A c \in Actors \ {a} : held'[c] = held[c]
    BY <1>0, <1>f, BatchTaken
  <2>2. faults' = 0 => Len(buffer') = 0
    BY <1>0, <1>f, <2>1 DEF SmallOK
  <2>3. Len(buffer') = 0 => buffer' = <<>>
    BY <1>0, EmptySeq
  <2>4. \A v \in Workers : at'[v] = at[v] /\ held'[v] = held[v]
    BY <1>0, <1>f, <2>1
  <2>. QED
    BY <1>0, <2>2, <2>3, <2>4 DEF SmallOK
<1>e. Len(<<>>) = 0 /\ 0 < PublishBatchSize
  BY <1>0
<1>4. CASE WorkersDone
  <2>1. CASE buffer = <<>>
    <3>1. UNCHANGED <<at, held, buffer, faults>>
      BY <1>4, <2>1 DEF WorkersDone
    <3>. QED
      BY <1>e, <2>1, <3>1 DEF SmallOK
  <2>2. CASE buffer # <<>>
    BY <1>0, <1>4, <2>2, <1>f DEF WorkersDone
  <2>. QED
    BY <2>1, <2>2
<1>5. CASE Shutdown
  <2>1. CASE buffer = <<>>
    <3>1. UNCHANGED <<at, held, buffer, faults>>
      BY <1>5, <2>1 DEF Shutdown
    <3>. QED
      BY <1>e, <2>1, <3>1 DEF SmallOK
  <2>2. CASE buffer # <<>>
    BY <1>0, <1>5, <2>2, <1>f DEF Shutdown
  <2>. QED
    BY <2>1, <2>2
<1>6. CASE Exit \/ Ended \/ UNCHANGED vars
  <2>1. UNCHANGED <<at, held, buffer, faults>> /\ (phase' # "scraping" => phase # "scraping")
    BY <1>6 DEF Exit, Ended, vars, control, output
  <2>2. \A w \in Workers : at'[w] = at[w] /\ held'[w] = held[w]
    BY <2>1
  <2>. QED
    BY <2>1, <2>2 DEF SmallOK
<1>. QED
  BY <1>1, <1>2, <1>3, <1>4, <1>5, <1>6 DEF Cycle

-----------------------------------------------------------------------------
FlowInv == Inv /\ ListingsOK /\ Balanced /\ ClosesOnce /\ SmallOK

LEMMA FlowInit == Init => FlowInv
<1>. SUFFICES ASSUME Init PROVE FlowInv
  OBVIOUS
<1>1. Inv
  BY InvInit
<1>2. ListingsOK
  BY EmptySeq DEF Init, ListingsOK
<1>3. \A a \in Actors : at[a] = "done"
  BY DEF Init
<1>4. Balanced
  <2>1. PICK a : a \in Actors
    BY DEF Actors
  <2>2. ASSUME NEW k \in Keys PROVE Copies(k) = 0 /\ accepted[k] = 0
    <3>. DEFINE f == InBatch(k)
    <3>1. \A b \in Actors : f[b] = 0
      BY <1>3 DEF InBatch
    <3>2. IsFiniteSet(Actors)
      BY ActorsFinite
    <3>. HIDE DEF f
    <3>3. /\ SumFunctionOnSet(f, Actors) \in Nat
          /\ SumFunctionOnSet(f, Actors) <= 0 * Cardinality(Actors)
      BY <3>1, <3>2, SumBound, SumPart
    <3>4. Cardinality(Actors) \in Nat
      BY <3>2, FS_CardinalityType
    <3>5. SumFunctionOnSet(f, Actors) = 0
      BY <3>3, <3>4
    <3>6. CountIn(buffer, k) = 0 /\ sent[k] = 0 /\ accepted[k] = 0
      BY CountEmpty DEF Init
    <3>. QED
      BY <3>5, <3>6 DEF Copies, f
  <2>. QED
    BY <2>2 DEF Balanced
<1>5. ClosesOnce
  BY <1>3 DEF ClosesOnce, Actors
<1>6. SmallOK
  <2>1. buffer = <<>> /\ Len(buffer) = 0
    BY DEF Init
  <2>2. \A w \in Workers : at[w] = "done"
    BY <1>3 DEF Actors
  <2>. QED
    BY <2>1, <2>2, SizesAssumption DEF SmallOK
<1>. QED
  BY <1>1, <1>2, <1>4, <1>5, <1>6 DEF FlowInv

LEMMA FlowNext == FlowInv /\ [Next]_vars => FlowInv'
<1>. SUFFICES ASSUME FlowInv, [Next]_vars PROVE FlowInv'
  OBVIOUS
<1>1. Inv'
  BY InvNext DEF FlowInv
<1>2. ASSUME NEW w \in Workers, Work(w) PROVE FlowInv'
  <2>1. ListingsOK' /\ Balanced'
    BY <1>2, WorkKeepsListings DEF FlowInv, Inv
  <2>2. SmallOK'
    BY <1>2, <2>1, WorkKeepsSmall DEF FlowInv, Inv
  <2>3. on' = on /\ at'[Closing] = at[Closing]
    <3>1. PICK a : at' = [at EXCEPT ![w] = a]
      <4>1. ASSUME NEW t \in queue, Admit(w, t) \/ Deny(w, t) PROVE \E a : at' = [at EXCEPT ![w] = a]
        BY <4>1 DEF Admit, Deny, BackToLoop
      <4>2. CASE DequeueTimesOut(w) \/ AcquireMarket(w) \/ Refused(w)
        BY <4>2 DEF DequeueTimesOut, AcquireMarket, Refused, BackToLoop
      <4>3. CASE FetchFails(w) \/ Fetched(w)
        BY <4>3 DEF FetchFails, Fetched, BackToLoop
      <4>4. CASE Check(w)
        BY <4>4 DEF Check
      <4>5. CASE Register(w)
        BY <4>5 DEF Register
      <4>. QED
        BY <1>2, <4>1, <4>2, <4>3, <4>4, <4>5 DEF Work
    <3>2. on' = on
      <4>1. ASSUME NEW t \in queue, Admit(w, t) \/ Deny(w, t) PROVE on' = on
        BY <4>1 DEF Admit, Deny, control
      <4>2. CASE DequeueTimesOut(w) \/ AcquireMarket(w) \/ Refused(w)
        BY <4>2 DEF DequeueTimesOut, AcquireMarket, Refused, control
      <4>3. CASE FetchFails(w) \/ Fetched(w)
        BY <4>3 DEF FetchFails, Fetched, control
      <4>4. CASE Check(w) \/ Register(w)
        BY <4>4 DEF Check, Register, control
      <4>. QED
        BY <1>2, <4>1, <4>2, <4>3, <4>4 DEF Work
    <3>3. Closing \in Actors /\ Closing # w /\ at \in [Actors -> Awaits]
      BY ActorsAssumption DEF Actors, FlowInv, Inv, ControlOK
    <3>. QED
      BY <3>1, <3>2, <3>3
  <2>. QED
    BY <1>1, <2>1, <2>2, <2>3 DEF FlowInv, ClosesOnce
<1>3. CASE (\E a \in Actors : Publishing(a)) \/ Cycle \/ Shutdown \/ Ended \/ UNCHANGED vars
  <2>1. ListingsOK' /\ Balanced' /\ ClosesOnce'
    BY <1>3, OthersKeepListings DEF FlowInv, Inv
  <2>2. SmallOK'
    BY <1>3, <2>1, OthersKeepSmall DEF FlowInv, Inv
  <2>. QED
    BY <1>1, <2>1, <2>2 DEF FlowInv
<1>. QED
  BY <1>2, <1>3 DEF Next

THEOREM FlowInvariance == Spec => []FlowInv
  BY FlowInit, FlowNext, PTL DEF Spec

\* The types, of what filter_new leaves of a page as well.
THEOREM TypeCorrect == Spec => []TypeOK
<1>1. FlowInv => TypeOK
  BY DEF FlowInv, Inv, TypeOK
<1>. QED
  BY <1>1, FlowInvariance, PTL

\* What filter_new has let through is in the buffer, in a batch being published
\* or in the stream, and without failures exactly once (ListingsKept, about
\* _handle_result, _flush_buffer and publish_batch).
THEOREM NoListingLost == Spec => []ListingsKept
<1>1. FlowInv => ListingsKept
  BY DEF FlowInv, Balanced, ListingsKept
<1>. QED
  BY <1>1, FlowInvariance, PTL

\* Without failures all that was accepted is in the stream when the cycle is
\* over (BufferDrained, about the one flush at the end of run_workers).
THEOREM OneFlushIsEnough == Spec => []BufferDrained
<1>1. FlowInv => BufferDrained
  BY DEF FlowInv, SmallOK, BufferDrained
<1>. QED
  BY <1>1, FlowInvariance, PTL

\* A cycle leaves neither a task nor a listing behind (CycleDrains).
THEOREM CyclesDrain == Spec => []CycleDrains
<1>1. QueueDrained /\ BufferDrained => CycleDrains
  BY DEF CycleDrains
<1>. QED
  BY <1>1, NoTaskLeftBehind, OneFlushIsEnough, PTL

-----------------------------------------------------------------------------
(* scraper_v2: what a request goes through *)

\* The smaller and the greater of two numbers.
LEMMA SmallerOfTwo ==
  ASSUME NEW a \in Int, NEW b \in Int
  PROVE  Min({a, b}) \in {a, b} /\ Min({a, b}) <= a /\ Min({a, b}) <= b
<1>1. \E m \in {a, b} : \A k \in {a, b} : m <= k
  <2>1. CASE a <= b
    BY <2>1
  <2>2. CASE ~(a <= b)
    BY <2>2
  <2>. QED
    BY <2>1, <2>2
<1>2. Min({a, b}) \in {a, b} /\ \A k \in {a, b} : Min({a, b}) <= k
  BY <1>1 DEF Min
<1>. QED
  BY <1>2

LEMMA GreaterOfTwo ==
  ASSUME NEW a \in Int, NEW b \in Int
  PROVE  Max({a, b}) \in {a, b} /\ Max({a, b}) >= a /\ Max({a, b}) >= b
<1>1. \E m \in {a, b} : \A k \in {a, b} : m >= k
  <2>1. CASE a >= b
    BY <2>1
  <2>2. CASE ~(a >= b)
    BY <2>2
  <2>. QED
    BY <2>1, <2>2
<1>2. Max({a, b}) \in {a, b} /\ \A k \in {a, b} : Max({a, b}) >= k
  BY <1>1 DEF Max
<1>. QED
  BY <1>2

OneFetch == [at : {"idle", "admitted", "queued", "http", "launch", "clean", "create", "page"},
             until : Int, proxy : PoolProxies \cup {NoProxy}, page : Nat,
             keep : SUBSET Contexts, stale : SUBSET Contexts]
BucketRecord == [rate : MinRate..MaxRate, tokens : Nat, refilled : Nat, blocks : Nat, requests : Nat, since : Nat]
HealthRecord == [resting : BOOLEAN, failures : Nat, until : Int]
FailingRecord == [streak : Nat, last : Nat]

FetchTyped ==
    /\ tick \in Nat /\ fetch \in [Fetchers -> OneFetch]

\* The tokens that are left and those that were taken are no more than came in.
LimiterInv ==
    /\ bucket \in BucketRecord /\ bucket.refilled <= tick
    /\ freely \in Seq(Nat) /\ FreeArePaced
    /\ \A i \in DOMAIN freely :
          (Len(freely) - i + 1) * Unit + bucket.tokens <= Burst * Unit + MaxRate * (bucket.refilled - freely[i])

\* Each block is of a request of this window or of one that was on its way.
Busy == {f \in Fetchers : fetch[f].at # "idle"}
Counted == bucket.blocks + Cardinality(Busy) <= bucket.requests + Cardinality(Fetchers)

\* Who failed too often rests, from the last failure on.
ProxyInv ==
    /\ health \in [PoolProxies -> HealthRecord] /\ failing \in [PoolProxies -> FailingRecord]
    /\ \A p \in PoolProxies :
         /\ failing[p].streak <= health[p].failures
         /\ failing[p].streak >= MaxFailures => health[p].resting
         /\ health[p].resting => health[p].failures >= MaxFailures
                              /\ health[p].until = failing[p].last + ProxyCooldown

\* One at a time works on the list of contexts; what it keeps and what it closes
\* is all that is open and was not left behind.
ContextRecord == [used : Nat, born : Nat, open : BOOLEAN, lost : BOOLEAN]
\* A context that is open, and that no failed call has left behind.
Attached(x) == x.open /\ ~x.lost

PoolInv ==
    /\ pages \subseteq Contexts /\ context \in [Contexts -> ContextRecord]
    /\ \A f \in Fetchers : fetch[f].at \in {"launch", "clean", "create"} => lock = {f}
    /\ \A f \in Fetchers : fetch[f].at = "clean" =>
         /\ \A c \in fetch[f].keep : context[c].used < MaxPagesPerContext
         /\ ending = "no" => \A c \in Contexts : Attached(context[c]) => c \in fetch[f].keep \cup fetch[f].stale
    /\ PoolKeepsContexts

FetchingInv == FetchTyped /\ LimiterInv /\ Counted /\ ProxyInv /\ PoolInv

LEMMA FetchConstants ==
  /\ Unit \in Nat \ {0} /\ Burst \in Nat \ {0} /\ MinRate \in Nat \ {0} /\ MaxFailures \in Nat \ {0}
  /\ MaxPagesPerContext \in Nat \ {0} /\ ProxyCooldown \in Nat /\ MaxContexts \in Nat /\ ContextTtl \in Nat
  /\ DefaultRate \in MinRate..MaxRate /\ MaxRate \in Nat /\ MinRate <= MaxRate
  /\ IsFiniteSet(Fetchers) /\ Burst * Unit \in Nat
<1>1. /\ Unit \in Nat \ {0} /\ Burst \in Nat \ {0} /\ MinRate \in Nat \ {0} /\ MaxFailures \in Nat \ {0}
      /\ MaxPagesPerContext \in Nat \ {0} /\ ProxyCooldown \in Nat /\ MaxContexts \in Nat /\ ContextTtl \in Nat
      /\ DefaultRate \in MinRate..MaxRate /\ MaxRate \in MinRate..MaxRate /\ IsFiniteSet(Fetchers)
  BY FetchingAssumption
<1>. QED
  BY <1>1

LEMMA NoRequestTypes == NoRequest \in OneFetch /\ NoRequest.at = "idle"
BY DEF NoRequest, OneFetch, NoProxy

LEMMA FetchingInitInv == FetchingInit => FetchingInv
<1>. SUFFICES ASSUME FetchingInit PROVE FetchingInv
  OBVIOUS
<1>0. /\ Unit \in Nat /\ Burst \in Nat /\ DefaultRate \in MinRate..MaxRate /\ MaxFailures \in Nat \ {0}
      /\ MaxPagesPerContext \in Nat \ {0} /\ MaxContexts \in Nat /\ IsFiniteSet(Fetchers)
  BY FetchConstants
<1>1. Burst * Unit \in Nat
  BY FetchConstants
<1>2. FetchTyped
  BY NoRequestTypes DEF FetchingInit, FetchTyped
<1>3. LimiterInv
  <2>1. freely = <<>> /\ freely \in Seq(Nat) /\ DOMAIN freely = {}
    BY EmptySeq DEF FetchingInit
  <2>2. bucket \in BucketRecord /\ bucket.refilled = 0 /\ tick = 0
    BY <1>0, <1>1 DEF FetchingInit, BucketRecord
  <2>. QED
    BY <2>1, <2>2 DEF LimiterInv, FreeArePaced
<1>4. Counted
  <2>1. Busy = {}
    BY NoRequestTypes DEF FetchingInit, Busy
  <2>2. Cardinality(Busy) = 0 /\ Cardinality(Fetchers) \in Nat
    BY <1>0, <2>1, FS_EmptySet, FS_CardinalityType
  <2>3. bucket.blocks = 0 /\ bucket.requests = 0
    BY DEF FetchingInit
  <2>. QED
    BY <2>2, <2>3 DEF Counted
<1>5. ProxyInv
  BY <1>0 DEF FetchingInit, ProxyInv, HealthRecord, FailingRecord
<1>6. PoolInv
  BY <1>0, NoRequestTypes DEF FetchingInit, PoolInv, ContextRecord, Unused, PoolKeepsContexts, Contexts
<1>. QED
  BY <1>2, <1>3, <1>4, <1>5, <1>6 DEF FetchingInv

-----------------------------------------------------------------------------
(* The limiter *)

\* Over a time no more comes in than the highest rate brings.
LEMMA Inflow ==
  ASSUME NEW max \in Nat, NEW rate \in Nat, rate <= max, NEW time \in Nat
  PROVE  time * rate \in Nat /\ time * rate <= max * time
<1>. PICK more \in Nat : max = rate + more
  BY SMT
<1>1. max * time = time * rate + more * time /\ more * time \in Nat /\ time * rate \in Nat
  BY SMT
<1>. PICK a \in Nat : a = time * rate
  BY <1>1
<1>. PICK b \in Nat : b = more * time
  BY <1>1
<1>2. max * time = a + b
  BY <1>1
<1>. QED
  BY <1>2

LEMMA Elapses ==
  ASSUME NEW max \in Nat, NEW a \in Int, NEW b \in Int, NEW c \in Int
  PROVE  /\ max * (c - a) = max * (b - a) + max * (c - b)
         /\ max * (c - a) \in Int /\ max * (b - a) \in Int /\ max * (c - b) \in Int
BY SMT

LEMMA OneMore ==
  ASSUME NEW u \in Nat, NEW n \in Int, NEW i \in Int
  PROVE  /\ ((n + 1) - i + 1) * u = (n - i + 1) * u + u
         /\ (n - i + 1) * u \in Int /\ ((n + 1) - (n + 1) + 1) * u = u
BY SMT

\* What the tokens and the requests of a stretch add up to as time goes on.
LEMMA StretchGrows ==
  ASSUME NEW used \in Int, NEW tokens \in Nat, NEW cap \in Nat, NEW max \in Nat, NEW rate \in Nat, rate <= max,
         NEW from \in Int, NEW refilled \in Nat, NEW now \in Nat, refilled <= now,
         used + tokens <= cap + max * (refilled - from),
         NEW left \in Int, left <= tokens + (now - refilled) * rate
  PROVE  used + left <= cap + max * (now - from)
<1>1. now - refilled \in Nat
  BY SMT
<1>. PICK time \in Nat : time = now - refilled
  BY <1>1
<1>2. time * rate \in Nat /\ time * rate <= max * time /\ max * time \in Int
  BY Inflow, SMT
<1>3. max * (now - from) = max * (refilled - from) + max * time /\ max * (refilled - from) \in Int
  BY Elapses
<1>. PICK a \in Int : a = max * (refilled - from)
  BY <1>3
<1>. PICK b \in Int : b = max * time
  BY <1>2
<1>. PICK d \in Int : d = time * rate
  BY <1>2
<1>. PICK e : e = max * (now - from)
  OBVIOUS
<1>4. e = a + b /\ d <= b /\ left <= tokens + d /\ used + tokens <= cap + a
  BY <1>2, <1>3
<1>. QED
  BY <1>4

LEMMA RefilledTypes ==
  ASSUME FetchingInv
  PROVE  /\ Refilled(bucket) \in BucketRecord /\ Refilled(bucket).refilled = tick
         /\ Refilled(bucket).tokens <= Burst * Unit
         /\ Refilled(bucket).tokens <= bucket.tokens + (tick - bucket.refilled) * bucket.rate
         /\ Refilled(bucket).blocks = bucket.blocks /\ Refilled(bucket).requests = bucket.requests
         /\ Refilled(bucket).rate = bucket.rate
<1>0. /\ bucket \in BucketRecord /\ bucket.refilled <= tick /\ tick \in Nat
      /\ bucket.tokens \in Nat /\ bucket.refilled \in Nat /\ bucket.rate \in MinRate..MaxRate
      /\ MinRate \in Nat /\ MaxRate \in Nat /\ Burst \in Nat /\ Unit \in Nat
  BY FetchConstants DEF FetchingInv, FetchTyped, LimiterInv, BucketRecord
<1>1. tick - bucket.refilled \in Nat /\ bucket.rate \in Nat /\ bucket.rate <= MaxRate
  BY <1>0
<1>2. (tick - bucket.refilled) * bucket.rate \in Nat
  BY <1>0, <1>1, Inflow
<1>. PICK in \in Nat : in = (tick - bucket.refilled) * bucket.rate
  BY <1>2
<1>. PICK cap \in Nat : cap = Burst * Unit
  BY <1>0
<1>. PICK tokens : tokens = Min({cap, bucket.tokens + in})
  OBVIOUS
<1>3. tokens \in Nat /\ tokens <= cap /\ tokens <= bucket.tokens + in
  <2>. PICK more \in Nat : more = bucket.tokens + in
    BY <1>0
  <2>1. cap \in Int /\ more \in Int
    OBVIOUS
  <2>2. Min({cap, more}) \in {cap, more} /\ Min({cap, more}) <= cap /\ Min({cap, more}) <= more
    BY <2>1, SmallerOfTwo
  <2>. QED
    BY <2>2
<1>4. Refilled(bucket) = [bucket EXCEPT !.tokens = tokens, !.refilled = tick]
  BY DEF Refilled
<1>5. Refilled(bucket) \in BucketRecord
  BY <1>0, <1>3, <1>4 DEF BucketRecord
<1>6. /\ Refilled(bucket).tokens = tokens /\ Refilled(bucket).refilled = tick
      /\ Refilled(bucket).blocks = bucket.blocks /\ Refilled(bucket).requests = bucket.requests
      /\ Refilled(bucket).rate = bucket.rate
  BY <1>0, <1>4 DEF BucketRecord
<1>. QED
  BY <1>3, <1>5, <1>6

LEMMA LimiterMoves ==
  ASSUME FetchingInv, tick' = tick, bucket' \in BucketRecord, bucket'.refilled = tick,
         \/ /\ freely' = freely
            /\ bucket'.tokens <= bucket.tokens + (tick - bucket.refilled) * bucket.rate
         \/ /\ freely' = Append(freely, tick)
            /\ bucket'.tokens + Unit <= bucket.tokens + (tick - bucket.refilled) * bucket.rate
            /\ bucket'.tokens + Unit <= Burst * Unit
  PROVE  LimiterInv'
<1>0. /\ bucket \in BucketRecord /\ bucket.refilled <= tick /\ tick \in Nat
      /\ bucket.tokens \in Nat /\ bucket.refilled \in Nat /\ bucket.rate \in Nat /\ bucket.rate <= MaxRate
      /\ MaxRate \in Nat /\ Burst \in Nat /\ Unit \in Nat /\ bucket'.tokens \in Nat
      /\ freely \in Seq(Nat) /\ FreeArePaced /\ Burst * Unit \in Nat
  BY FetchConstants DEF FetchingInv, FetchTyped, LimiterInv, BucketRecord
<1>1. Len(freely) \in Nat /\ DOMAIN freely = 1..Len(freely) /\ \A i \in 1..Len(freely) : freely[i] \in Nat
  BY <1>0, LenProperties, ElementOfSeq
<1>. PICK n \in Nat : n = Len(freely)
  BY <1>1
<1>. PICK cap \in Nat : cap = Burst * Unit
  BY <1>0
<1>2. \A i \in 1..n : (n - i + 1) * Unit + bucket.tokens <= cap + MaxRate * (bucket.refilled - freely[i])
  BY <1>1 DEF FetchingInv, LimiterInv
<1>3. ASSUME NEW i \in 1..n, NEW left \in Int, left <= bucket.tokens + (tick - bucket.refilled) * bucket.rate
      PROVE  (n - i + 1) * Unit + left <= cap + MaxRate * (tick - freely[i])
  <2>1. (n - i + 1) * Unit \in Int /\ freely[i] \in Int
    BY <1>0, <1>1, OneMore
  <2>2. (n - i + 1) * Unit + bucket.tokens <= cap + MaxRate * (bucket.refilled - freely[i])
    BY <1>2
  <2>. QED
    BY <1>0, <1>3, <2>1, <2>2, StretchGrows
<1>. PICK tk \in Nat : tk = bucket'.tokens
  BY <1>0
<1>4. CASE /\ freely' = freely
           /\ bucket'.tokens <= bucket.tokens + (tick - bucket.refilled) * bucket.rate
  <2>0. tk \in Int /\ tk <= bucket.tokens + (tick - bucket.refilled) * bucket.rate
    BY <1>4
  <2>1. \A i \in 1..n : (n - i + 1) * Unit + tk <= cap + MaxRate * (bucket'.refilled - freely[i])
    BY <1>3, <2>0
  <2>2. FreeArePaced'
    BY <1>0, <1>4 DEF FreeArePaced
  <2>. QED
    BY <1>0, <1>1, <1>4, <2>1, <2>2 DEF LimiterInv
<1>5. CASE /\ freely' = Append(freely, tick)
           /\ bucket'.tokens + Unit <= bucket.tokens + (tick - bucket.refilled) * bucket.rate
           /\ bucket'.tokens + Unit <= Burst * Unit
  <2>. PICK now : now = Append(freely, tick)
    OBVIOUS
  <2>1. /\ now \in Seq(Nat) /\ Len(now) = n + 1 /\ DOMAIN now = 1..(n + 1) /\ now[n + 1] = tick
        /\ \A i \in 1..n : now[i] = freely[i]
    BY <1>0, <1>1, AppendProperties, LenProperties
  <2>2. ASSUME NEW i \in 1..(n + 1)
        PROVE  ((n + 1) - i + 1) * Unit + tk <= cap + MaxRate * (tick - now[i])
    <3>1. CASE i \in 1..n
      <4>. PICK more \in Nat : more = tk + Unit
        BY <1>0
      <4>0. more \in Int /\ more <= bucket.tokens + (tick - bucket.refilled) * bucket.rate
        BY <1>5
      <4>1. (n - i + 1) * Unit + more <= cap + MaxRate * (tick - freely[i])
        BY <1>3, <3>1, <4>0
      <4>2. ((n + 1) - i + 1) * Unit = (n - i + 1) * Unit + Unit /\ (n - i + 1) * Unit \in Int
        BY <1>0, <3>1, OneMore
      <4>. PICK k \in Int : k = (n - i + 1) * Unit
        BY <4>2
      <4>3. ((n + 1) - i + 1) * Unit + tk = k + more
        BY <1>0, <4>2
      <4>. QED
        BY <2>1, <3>1, <4>1, <4>3
    <3>2. CASE i = n + 1
      <4>1. ((n + 1) - i + 1) * Unit = Unit
        BY <1>0, <3>2, OneMore
      <4>2. now[i] = tick /\ tick - now[i] = 0 /\ MaxRate * 0 = 0
        BY <1>0, <2>1, <3>2
      <4>3. MaxRate * (tick - now[i]) = 0
        BY <4>2
      <4>4. tk + Unit <= cap
        BY <1>5
      <4>5. PICK e : e = ((n + 1) - i + 1) * Unit /\ e = Unit
        BY ONLY <4>1
      <4>6. PICK g : g = MaxRate * (tick - now[i]) /\ g = 0
        BY ONLY <4>3
      <4>7. Unit \in Nat
        BY <1>0
      <4>8. e + tk <= cap + g
        BY <4>4, <4>5, <4>6, <4>7
      <4>. QED
        BY ONLY <4>5, <4>6, <4>8
    <3>. QED
      BY <2>2, <3>1, <3>2
  <2>3. ASSUME NEW i \in 1..(n + 1), NEW j \in i..(n + 1)
        PROVE  (j - i + 1) * Unit <= cap + MaxRate * (now[j] - now[i])
    <3>1. CASE j = n + 1
      <4>1. ((n + 1) - i + 1) * Unit + tk <= cap + MaxRate * (tick - now[i])
        BY <2>2
      <4>2. now[j] = tick
        BY <2>1, <3>1
      <4>3. ((n + 1) - i + 1) * Unit \in Int /\ MaxRate * (tick - now[i]) \in Int
        <5>1. now[i] \in Int
          BY <1>0, <1>1, <2>1
        <5>. QED
          BY <1>0, <5>1
      <4>. PICK a \in Int : a = ((n + 1) - i + 1) * Unit
        BY <4>3
      <4>. PICK b \in Int : b = MaxRate * (tick - now[i])
        BY <4>3
      <4>4. a + tk <= cap + b
        BY <4>1
      <4>5. a <= cap + b
        BY <4>4
      <4>. QED
        BY <3>1, <4>2, <4>5
    <3>2. CASE j # n + 1
      <4>1. i \in 1..n /\ j \in i..n /\ j \in 1..n
        BY <3>2
      <4>2. (j - i + 1) * Unit <= cap + MaxRate * (freely[j] - freely[i])
        BY <1>0, <1>1, <4>1 DEF FreeArePaced
      <4>. QED
        BY <2>1, <4>1, <4>2
    <3>. QED
      BY <3>1, <3>2
  <2>4. freely' = now
    BY <1>5
  <2>5. FreeArePaced'
    BY <2>1, <2>3, <2>4 DEF FreeArePaced
  <2>6. \A i \in DOMAIN freely' : (Len(freely') - i + 1) * Unit + bucket'.tokens <= Burst * Unit + MaxRate * (bucket'.refilled - freely'[i])
    BY <2>1, <2>2, <2>4
  <2>7. freely' \in Seq(Nat) /\ bucket'.refilled <= tick'
    BY <1>0, <2>1, <2>4
  <2>. QED
    BY <2>5, <2>6, <2>7 DEF LimiterInv
<1>. QED
  BY <1>4, <1>5

\* What the reports of the answers leave alone.
LEMMA LimiterStays ==
  ASSUME FetchingInv, bucket' \in BucketRecord, bucket'.tokens = bucket.tokens, bucket'.refilled = bucket.refilled,
         freely' = freely, tick' \in Nat, tick' >= tick
  PROVE  LimiterInv'
<1>0. /\ LimiterInv /\ bucket.refilled <= tick /\ bucket.refilled \in Nat /\ tick \in Nat
  BY DEF FetchingInv, FetchTyped, LimiterInv, BucketRecord
<1>1. bucket.refilled <= tick'
  BY <1>0
<1>2. FreeArePaced'
  BY <1>0 DEF LimiterInv, FreeArePaced
<1>. QED
  BY <1>0, <1>1, <1>2 DEF LimiterInv

LEMMA BusyTypes ==
  ASSUME FetchingInv
  PROVE  /\ Busy \subseteq Fetchers /\ IsFiniteSet(Busy) /\ Cardinality(Busy) \in Nat
         /\ Cardinality(Fetchers) \in Nat /\ bucket.blocks \in Nat /\ bucket.requests \in Nat
<1>1. Busy \subseteq Fetchers
  BY DEF Busy
<1>2. IsFiniteSet(Fetchers)
  BY FetchConstants
<1>3. IsFiniteSet(Busy)
  BY <1>1, <1>2, FS_Subset
<1>4. bucket \in BucketRecord
  BY DEF FetchingInv, LimiterInv
<1>. QED
  BY <1>1, <1>2, <1>3, <1>4, FS_CardinalityType DEF BucketRecord

LEMMA BusyMoves ==
  ASSUME FetchingInv, NEW f \in Fetchers, NEW b \in OneFetch, fetch' = [fetch EXCEPT ![f] = b]
  PROVE  /\ FetchTyped' \/ tick' # tick
         /\ Cardinality(Busy') \in Nat /\ Cardinality(Busy') <= Cardinality(Busy) + 1
         /\ fetch[f].at # "idle" => Cardinality(Busy') <= Cardinality(Busy)
         /\ fetch[f].at # "idle" /\ b.at = "idle" =>
              Cardinality(Busy') = Cardinality(Busy) - 1 /\ Cardinality(Busy') <= Cardinality(Fetchers) - 1
<1>0. fetch \in [Fetchers -> OneFetch] /\ tick \in Nat
  BY DEF FetchingInv, FetchTyped
<1>1. fetch'[f] = b /\ \A g \in Fetchers \ {f} : fetch'[g] = fetch[g]
  BY <1>0
<1>2. FetchTyped' \/ tick' # tick
  BY <1>0 DEF FetchTyped
<1>3. Busy' \subseteq Busy \cup {f} /\ Busy' \subseteq Fetchers
  BY <1>1 DEF Busy
<1>4. IsFiniteSet(Fetchers) /\ IsFiniteSet(Busy) /\ Cardinality(Busy) \in Nat /\ Cardinality(Fetchers) \in Nat
  BY FetchConstants, BusyTypes
<1>. PICK now : now = Busy'
  OBVIOUS
<1>5. /\ IsFiniteSet(Busy \cup {f})
      /\ Cardinality(Busy \cup {f}) = IF f \in Busy THEN Cardinality(Busy) ELSE Cardinality(Busy) + 1
  BY <1>4, FS_AddElement
<1>6. IsFiniteSet(now) /\ Cardinality(now) \in Nat /\ Cardinality(now) <= Cardinality(Busy \cup {f})
  <2>1. now \subseteq Busy \cup {f}
    BY <1>3
  <2>. QED
    BY <1>5, <2>1, FS_Subset, FS_CardinalityType
<1>7. ASSUME fetch[f].at # "idle" PROVE f \in Busy
  BY <1>7 DEF Busy
<1>8. ASSUME fetch[f].at # "idle", b.at = "idle"
      PROVE  Cardinality(now) = Cardinality(Busy) - 1 /\ Cardinality(now) <= Cardinality(Fetchers) - 1
  <2>1. now = Busy \ {f}
    BY <1>1, <1>8 DEF Busy
  <2>2. f \in Busy
    BY <1>7, <1>8
  <2>3. Cardinality(Busy \ {f}) = Cardinality(Busy) - 1
    BY <1>4, <2>2, FS_RemoveElement
  <2>4. Cardinality(Busy) <= Cardinality(Fetchers)
    BY <1>4, BusyTypes, FS_Subset
  <2>. QED
    BY <1>4, <2>1, <2>3, <2>4
<1>. QED
  BY <1>2, <1>4, <1>5, <1>6, <1>7, <1>8

LEMMA CountedMoves ==
  ASSUME FetchingInv, NEW f \in Fetchers, NEW b \in OneFetch, fetch' = [fetch EXCEPT ![f] = b],
         bucket' \in BucketRecord,
         \/ bucket'.blocks = bucket.blocks /\ bucket'.requests = bucket.requests /\ fetch[f].at # "idle"
         \/ bucket'.blocks = bucket.blocks /\ bucket'.requests = bucket.requests + 1
         \/ /\ fetch[f].at # "idle" /\ b.at = "idle"
            /\ \/ bucket'.blocks <= bucket.blocks + 1 /\ bucket'.requests = bucket.requests
               \/ bucket'.blocks <= 1
  PROVE  Counted'
<1>. PICK k \in Nat : k = Cardinality(Busy)
  BY BusyTypes
<1>. PICK n \in Nat : n = Cardinality(Busy')
  BY BusyMoves
<1>. PICK all \in Nat : all = Cardinality(Fetchers)
  BY BusyTypes
<1>. PICK bl \in Nat, rq \in Nat : bl = bucket'.blocks /\ rq = bucket'.requests
  BY DEF BucketRecord
<1>0. bucket.blocks \in Nat /\ bucket.requests \in Nat /\ bucket.blocks + k <= bucket.requests + all
  BY BusyTypes DEF FetchingInv, Counted
<1>1. /\ n <= k + 1 /\ (fetch[f].at # "idle" => n <= k)
      /\ fetch[f].at # "idle" /\ b.at = "idle" => n = k - 1 /\ n <= all - 1
  BY BusyMoves
<1>2. bl + n <= rq + all
  BY <1>0, <1>1
<1>. QED
  BY <1>2 DEF Counted

\* The part that a step does not touch.
LEMMA ProxyStays == ASSUME FetchingInv, UNCHANGED proxyPool PROVE ProxyInv'
BY DEF FetchingInv, ProxyInv, proxyPool

LEMMA PoolStays ==
  ASSUME FetchingInv, UNCHANGED <<browserPool, ending>>, NEW f \in Fetchers, NEW b \in OneFetch,
         fetch' = [fetch EXCEPT ![f] = b], b.at \notin {"launch", "clean", "create"}
  PROVE  PoolInv'
<1>0. fetch \in [Fetchers -> OneFetch]
  BY DEF FetchingInv, FetchTyped
<1>1. fetch'[f] = b /\ \A g \in Fetchers \ {f} : fetch'[g] = fetch[g]
  BY <1>0
<1>2. \A g \in Fetchers : fetch'[g].at \in {"launch", "clean", "create"} => fetch'[g] = fetch[g]
  BY <1>1
<1>3. UNCHANGED <<pages, context, lock, ending>>
  BY DEF browserPool
<1>4. PoolKeepsContexts'
  BY <1>3 DEF FetchingInv, PoolInv, PoolKeepsContexts
<1>. QED
  BY <1>2, <1>3, <1>4 DEF FetchingInv, PoolInv

LEMMA AskLimiterKeeps ==
  ASSUME FetchingInv, NEW f \in Fetchers, AskLimiter(f)
  PROVE  FetchingInv'
<1>. DEFINE b == Refilled(bucket)
            wait == (Unit - b.tokens + b.rate - 1) \div b.rate
<1>0. /\ fetch[f].at = "idle" /\ UNCHANGED <<tick, proxyPool, browserPool, ending>>
      /\ fetch \in [Fetchers -> OneFetch] /\ fetch[f] \in OneFetch /\ tick \in Nat
  BY DEF AskLimiter, FetchingInv, FetchTyped
<1>1. /\ b \in BucketRecord /\ b.refilled = tick
      /\ b.tokens <= Burst * Unit
      /\ b.tokens <= bucket.tokens + (tick - bucket.refilled) * bucket.rate
      /\ b.blocks = bucket.blocks /\ b.requests = bucket.requests
  BY RefilledTypes
<1>2. wait \in Int
  <2>1. b.rate \in Nat \ {0} /\ b.tokens \in Nat /\ Unit \in Nat
    BY <1>1, FetchConstants DEF BucketRecord
  <2>. PICK r \in Nat \ {0} : r = b.rate
    BY <2>1
  <2>. PICK x \in Int : x = Unit - b.tokens + b.rate - 1
    BY <2>1
  <2>2. wait = x \div r
    OBVIOUS
  <2>. QED
    BY <2>2
<1>3. /\ bucket.tokens \in Nat /\ (tick - bucket.refilled) * bucket.rate \in Int
      /\ bucket.requests \in Nat /\ Unit \in Nat /\ Burst * Unit \in Nat
  <2>1. bucket \in BucketRecord /\ MinRate \in Nat
    BY FetchConstants DEF FetchingInv, LimiterInv
  <2>2. tick - bucket.refilled \in Int /\ bucket.rate \in Int /\ bucket.tokens \in Nat /\ bucket.requests \in Nat
    BY <1>0, <2>1 DEF BucketRecord
  <2>. QED
    BY <2>2, FetchConstants
<1>. HIDE DEF b, wait
<1>. PICK in \in Int : in = (tick - bucket.refilled) * bucket.rate
  BY <1>3
<1>4. PICK until \in Int, tokens \in Nat :
         /\ fetch' = [fetch EXCEPT ![f] = [fetch[f] EXCEPT !.at = "admitted", !.until = until]]
         /\ bucket' = [b EXCEPT !.tokens = tokens, !.requests = bucket.requests + 1]
         /\ \/ freely' = freely /\ tokens <= bucket.tokens + in
            \/ /\ freely' = Append(freely, tick)
               /\ tokens + Unit <= bucket.tokens + in /\ tokens + Unit <= Burst * Unit
  <2>1. CASE /\ b.tokens >= Unit
             /\ bucket' = [b EXCEPT !.tokens = @ - Unit, !.requests = @ + 1]
             /\ freely' = Append(freely, tick)
             /\ fetch' = [fetch EXCEPT ![f].at = "admitted", ![f].until = tick]
    <3>1. PICK tokens \in Nat : tokens = b.tokens - Unit
      BY <1>1, <1>3, <2>1 DEF BucketRecord
    <3>2. tokens + Unit <= bucket.tokens + in /\ tokens + Unit <= Burst * Unit
      <4>1. tokens + Unit = b.tokens
        BY <1>1, <1>3, <3>1 DEF BucketRecord
      <4>. QED
        BY <1>1, <4>1
    <3>3. bucket' = [b EXCEPT !.tokens = tokens, !.requests = bucket.requests + 1]
      BY <1>1, <2>1, <3>1 DEF BucketRecord
    <3>4. fetch' = [fetch EXCEPT ![f] = [fetch[f] EXCEPT !.at = "admitted", !.until = tick]]
      BY <1>0, <2>1
    <3>5. tick \in Int
      BY <1>0
    <3>. QED
      BY <2>1, <3>2, <3>3, <3>4, <3>5
  <2>2. CASE /\ bucket' = [b EXCEPT !.tokens = 0, !.requests = @ + 1]
             /\ fetch' = [fetch EXCEPT ![f].at = "admitted", ![f].until = tick + wait]
             /\ UNCHANGED freely
    <3>. PICK until \in Int : until = tick + wait
      BY <1>0, <1>2
    <3>1. bucket' = [b EXCEPT !.tokens = 0, !.requests = bucket.requests + 1]
      BY <1>1, <2>2 DEF BucketRecord
    <3>2. fetch' = [fetch EXCEPT ![f] = [fetch[f] EXCEPT !.at = "admitted", !.until = until]]
      BY <1>0, <2>2
    <3>3. 0 <= bucket.tokens + in
      BY <1>1, <1>3 DEF BucketRecord
    <3>. QED
      BY <2>2, <3>1, <3>2, <3>3
  <2>. QED
    BY <2>1, <2>2 DEF AskLimiter, b, wait
<1>. DEFINE g == [fetch[f] EXCEPT !.at = "admitted", !.until = until]
<1>5. g \in OneFetch /\ g.at = "admitted" /\ fetch' = [fetch EXCEPT ![f] = g]
  BY <1>0, <1>4 DEF OneFetch
<1>. HIDE DEF g
<1>. PICK n \in Nat : n = bucket.requests + 1
  BY <1>3
<1>6. /\ bucket' \in BucketRecord /\ bucket'.refilled = tick /\ bucket'.tokens = tokens
      /\ bucket'.blocks = bucket.blocks /\ bucket'.requests = bucket.requests + 1
  <2>1. bucket' = [b EXCEPT !.tokens = tokens, !.requests = n]
    BY <1>4
  <2>. QED
    BY <1>1, <2>1 DEF BucketRecord
<1>7. LimiterInv'
  BY <1>0, <1>4, <1>6, LimiterMoves
<1>8. Counted'
  BY <1>5, <1>6, CountedMoves
<1>9. FetchTyped'
  BY <1>0, <1>5, BusyMoves
<1>10. PoolInv'
  BY <1>0, <1>5, PoolStays
<1>. QED
  BY <1>0, <1>7, <1>8, <1>9, <1>10, ProxyStays DEF FetchingInv

-----------------------------------------------------------------------------
(* The proxies *)

LEMMA OverTypes ==
  ASSUME NEW h \in HealthRecord
  PROVE  LET d == [h EXCEPT !.resting = FALSE, !.failures = 0] IN d \in HealthRecord /\ ~d.resting /\ d.failures = 0
<1>. DEFINE e == [h EXCEPT !.resting = FALSE]
            d == [e EXCEPT !.failures = 0]
<1>1. e \in HealthRecord /\ e.resting = FALSE
  BY DEF HealthRecord
<1>2. [h EXCEPT !.resting = FALSE, !.failures = 0] = d
  BY DEF HealthRecord
<1>. HIDE DEF e
<1>3. d \in HealthRecord /\ d.resting = e.resting /\ d.failures = 0
  BY <1>1 DEF HealthRecord
<1>. QED
  BY <1>1, <1>2, <1>3

\* What is not tried for as long as it rests has rested since its last failure.
LEMMA RestedTypes ==
  ASSUME FetchingInv,
         health' = Rested,
         failing' = [q \in PoolProxies |->
                IF tick - failing[q].last >= ProxyCooldown
                THEN [failing[q] EXCEPT !.streak = 0] ELSE failing[q]]
  PROVE  ProxyInv'
<1>0. /\ health \in [PoolProxies -> HealthRecord] /\ failing \in [PoolProxies -> FailingRecord]
      /\ tick \in Nat /\ MaxFailures \in Nat \ {0} /\ ProxyCooldown \in Nat
  BY FetchConstants DEF FetchingInv, FetchTyped, ProxyInv
<1>1. SUFFICES ASSUME NEW p \in PoolProxies
               PROVE  /\ health'[p] \in HealthRecord /\ failing'[p] \in FailingRecord
                      /\ failing'[p].streak <= health'[p].failures
                      /\ failing'[p].streak >= MaxFailures => health'[p].resting
                      /\ health'[p].resting => health'[p].failures >= MaxFailures
                                           /\ health'[p].until = failing'[p].last + ProxyCooldown
  BY DEF ProxyInv, Rested
<1>2. /\ health[p] \in HealthRecord /\ failing[p] \in FailingRecord
      /\ failing[p].streak <= health[p].failures
      /\ failing[p].streak >= MaxFailures => health[p].resting
      /\ health[p].resting => health[p].failures >= MaxFailures
                           /\ health[p].until = failing[p].last + ProxyCooldown
  BY <1>0 DEF FetchingInv, ProxyInv
<1>3. /\ health'[p] = IF Over(health[p]) THEN [health[p] EXCEPT !.resting = FALSE, !.failures = 0] ELSE health[p]
      /\ failing'[p] = IF tick - failing[p].last >= ProxyCooldown
                       THEN [failing[p] EXCEPT !.streak = 0] ELSE failing[p]
  BY DEF Rested
<1>4. CASE tick - failing[p].last >= ProxyCooldown
  <2>1. failing'[p] \in FailingRecord /\ failing'[p].streak = 0 /\ failing'[p].last = failing[p].last
    BY <1>2, <1>3, <1>4 DEF FailingRecord
  <2>2. CASE Over(health[p])
    <3>1. /\ Over(health[p])
          /\ health'[p] = [health[p] EXCEPT !.resting = FALSE, !.failures = 0]
      BY <1>3, <2>2
    <3>2. health'[p] \in HealthRecord /\ ~health'[p].resting /\ health'[p].failures = 0
      BY <1>2, <3>1, OverTypes
    <3>. QED
      BY <1>0, <2>1, <3>2
  <2>3. CASE ~Over(health[p])
    <3>1. health'[p] = health[p] /\ health[p].failures \in Nat
      BY <1>2, <1>3, <2>3 DEF HealthRecord
    <3>. QED
      BY <1>0, <1>2, <2>1, <3>1
  <2>. QED
    BY <2>2, <2>3
<1>5. CASE ~(tick - failing[p].last >= ProxyCooldown)
  <2>1. failing'[p] = failing[p] /\ failing[p].last \in Nat
    BY <1>2, <1>3, <1>5 DEF FailingRecord
  <2>2. ~Over(health[p])
    BY <1>0, <1>2, <1>5, <2>1 DEF Over
  <2>. QED
    BY <1>2, <1>3, <2>1, <2>2
<1>. QED
  BY <1>4, <1>5

LEMMA AcquireProxyKeeps ==
  ASSUME FetchingInv, NEW f \in Fetchers, AcquireProxy(f)
  PROVE  FetchingInv'
<1>0. /\ fetch[f].at = "admitted" /\ UNCHANGED <<tick, limiter, browserPool, ending>>
      /\ UNCHANGED <<bucket, freely>>
      /\ fetch \in [Fetchers -> OneFetch] /\ fetch[f] \in OneFetch /\ tick \in Nat
  BY DEF AcquireProxy, FetchingInv, FetchTyped, limiter
<1>1. PICK p \in PoolProxies \cup {NoProxy}, spot \in {"queued", "http"} :
         fetch' = [fetch EXCEPT ![f] = [fetch[f] EXCEPT !.at = spot, !.proxy = p]]
  <2>1. PICK p \in IF Offered = {} THEN {NoProxy} ELSE Offered :
           fetch' = [fetch EXCEPT ![f].at = IF byBrowser THEN "queued" ELSE "http", ![f].proxy = p]
    BY DEF AcquireProxy
  <2>2. p \in PoolProxies \cup {NoProxy}
    BY <2>1 DEF Offered, Available
  <2>. PICK spot \in {"queued", "http"} : spot = IF byBrowser THEN "queued" ELSE "http"
    OBVIOUS
  <2>3. fetch' = [fetch EXCEPT ![f] = [fetch[f] EXCEPT !.at = spot, !.proxy = p]]
    BY <1>0, <2>1
  <2>. QED
    BY <2>2, <2>3
<1>. DEFINE g == [fetch[f] EXCEPT !.at = spot, !.proxy = p]
<1>2. g \in OneFetch /\ g.at = spot /\ fetch' = [fetch EXCEPT ![f] = g]
  BY <1>0, <1>1 DEF OneFetch
<1>. HIDE DEF g
<1>3. ProxyInv'
  BY RestedTypes DEF AcquireProxy
<1>4. bucket \in BucketRecord
  BY DEF FetchingInv, LimiterInv
<1>5. LimiterInv'
  BY <1>0, <1>4, LimiterStays
<1>6. Counted'
  BY <1>0, <1>2, <1>4, CountedMoves
<1>7. PoolInv'
  BY <1>0, <1>2, PoolStays
<1>8. FetchTyped'
  BY <1>0, <1>2, BusyMoves
<1>. QED
  BY <1>3, <1>5, <1>6, <1>7, <1>8 DEF FetchingInv

LEMMA ReleaseProxyTypes ==
  ASSUME FetchingInv, NEW p, NEW good \in BOOLEAN, ReleaseProxy(p, good)
  PROVE  ProxyInv'
<1>0. /\ health \in [PoolProxies -> HealthRecord] /\ failing \in [PoolProxies -> FailingRecord]
      /\ tick \in Nat /\ MaxFailures \in Nat \ {0} /\ ProxyCooldown \in Nat
  BY FetchConstants DEF FetchingInv, FetchTyped, ProxyInv
<1>1. CASE p = NoProxy
  BY <1>1, ProxyStays DEF ReleaseProxy
<1>2. CASE p # NoProxy
  <2>1. /\ health' = [q \in PoolProxies |-> IF q = p THEN IF good THEN RecordProxySuccess(health[q]) ELSE RecordProxyFailure(health[q])
                                            ELSE health[q]]
        /\ failing' = [q \in PoolProxies |-> IF q = p THEN IF good THEN [failing[q] EXCEPT !.streak = 0]
                                                           ELSE [streak |-> failing[p].streak + 1, last |-> tick]
                                             ELSE failing[q]]
    BY <1>0, <1>2 DEF ReleaseProxy
  <2>2. SUFFICES ASSUME NEW q \in PoolProxies
                 PROVE  /\ health'[q] \in HealthRecord /\ failing'[q] \in FailingRecord
                        /\ failing'[q].streak <= health'[q].failures
                        /\ failing'[q].streak >= MaxFailures => health'[q].resting
                        /\ health'[q].resting => health'[q].failures >= MaxFailures
                                             /\ health'[q].until = failing'[q].last + ProxyCooldown
    <3>1. health' \in [PoolProxies -> HealthRecord] /\ failing' \in [PoolProxies -> FailingRecord]
      BY <2>1, <2>2
    <3>. QED
      BY <2>2, <3>1 DEF ProxyInv
  <2>3. /\ health[q] \in HealthRecord /\ failing[q] \in FailingRecord
        /\ failing[q].streak <= health[q].failures
        /\ failing[q].streak >= MaxFailures => health[q].resting
        /\ health[q].resting => health[q].failures >= MaxFailures
                             /\ health[q].until = failing[q].last + ProxyCooldown
        /\ health[q].failures \in Nat /\ failing[q].streak \in Nat
    BY <1>0 DEF FetchingInv, ProxyInv, HealthRecord, FailingRecord
  <2>4. CASE q # p
    BY <2>1, <2>3, <2>4
  <2>5. CASE q = p /\ good
    <3>1. /\ failing'[q] \in FailingRecord /\ failing'[q].streak = 0
          /\ health'[q] \in HealthRecord /\ ~health'[q].resting /\ health'[q].failures = health[q].failures
      BY <2>1, <2>3, <2>5 DEF RecordProxySuccess, HealthRecord, FailingRecord
    <3>. QED
      BY <1>0, <2>3, <3>1
  <2>6. CASE q = p /\ ~good
    <3>. PICK fs \in Nat : fs = health[q].failures + 1
      BY <2>3
    <3>. PICK st \in Nat : st = failing[q].streak + 1
      BY <2>3
    <3>. PICK until \in Int : until = IF fs >= MaxFailures THEN tick + ProxyCooldown ELSE health[q].until
      BY <1>0, <2>3 DEF HealthRecord
    <3>. PICK resting \in BOOLEAN : resting = (health[q].resting \/ fs >= MaxFailures)
      BY <1>0
    <3>1. health'[q] = [resting |-> resting, failures |-> fs, until |-> until]
      <4>1. health'[q] = RecordProxyFailure(health[q])
        BY <2>1, <2>6
      <4>. PICK h \in HealthRecord : h = health[q]
        BY <2>3
      <4>2. /\ resting = (h.resting \/ h.failures + 1 >= MaxFailures) /\ fs = h.failures + 1
            /\ until = IF h.failures + 1 >= MaxFailures THEN tick + ProxyCooldown ELSE h.until
        OBVIOUS
      <4>3. RecordProxyFailure(h) = [h EXCEPT !.failures = fs, !.resting = resting, !.until = until]
        BY <4>2 DEF RecordProxyFailure, HealthRecord
      <4>. QED
        BY <4>1, <4>3 DEF HealthRecord
    <3>2. failing'[q] = [streak |-> st, last |-> tick]
      BY <2>1, <2>6
    <3>3. /\ failing'[q] \in FailingRecord /\ failing'[q].streak = st /\ failing'[q].last = tick
          /\ health'[q] \in HealthRecord /\ health'[q].resting = resting /\ health'[q].failures = fs
          /\ health'[q].until = until
      <4>1. tick \in Nat
        BY <1>0
      <4>2. failing'[q] \in FailingRecord /\ failing'[q].streak = st /\ failing'[q].last = tick
        BY <3>2, <4>1 DEF FailingRecord
      <4>3. /\ health'[q] \in HealthRecord /\ health'[q].resting = resting /\ health'[q].failures = fs
            /\ health'[q].until = until
        BY <3>1 DEF HealthRecord
      <4>. QED
        BY <4>2, <4>3
    <3>4. st <= fs /\ (resting => fs >= MaxFailures) /\ (st >= MaxFailures => resting)
      <4>1. resting <=> (health[q].resting \/ fs >= MaxFailures)
        OBVIOUS
      <4>2. st <= fs
        BY <2>3
      <4>3. health[q].resting => fs >= MaxFailures
        BY <1>0, <2>3
      <4>4. st >= MaxFailures => fs >= MaxFailures
        BY <1>0, <4>2
      <4>. QED
        BY <4>1, <4>2, <4>3, <4>4
    <3>. QED
      BY <3>3, <3>4
  <2>. QED
    BY <2>4, <2>5, <2>6
<1>. QED
  BY <1>1, <1>2

\* The rate stays between its limits, whatever is reported.
LEMMA ReportTypes ==
  ASSUME FetchingInv, ReportBlock \/ ReportGood
  PROVE  /\ bucket' \in BucketRecord /\ bucket'.tokens = bucket.tokens /\ bucket'.refilled = bucket.refilled
         /\ \/ bucket'.blocks <= bucket.blocks + 1 /\ bucket'.requests = bucket.requests
            \/ bucket'.blocks <= 1
<1>0. /\ bucket \in BucketRecord /\ tick \in Nat /\ MinRate \in Nat \ {0} /\ MaxRate \in Nat /\ MinRate <= MaxRate
  BY FetchConstants DEF FetchingInv, FetchTyped, LimiterInv
<1>. DEFINE b == InWindow(bucket)
<1>1. /\ b \in BucketRecord /\ b.tokens = bucket.tokens /\ b.refilled = bucket.refilled
      /\ (b.blocks = bucket.blocks /\ b.requests = bucket.requests) \/ b.blocks = 0
  <2>1. CASE tick - bucket.since > BlockWindow
    <3>1. b = [bucket EXCEPT !.blocks = 0, !.requests = 0, !.since = tick]
      BY <2>1 DEF InWindow
    <3>2. tick \in Nat /\ 0 \in Nat
      BY <1>0
    <3>3. b \in BucketRecord
      BY <1>0, <3>1, <3>2 DEF BucketRecord
    <3>4. b.tokens = bucket.tokens /\ b.refilled = bucket.refilled /\ b.blocks = 0
      BY <1>0, <3>1 DEF BucketRecord
    <3>. QED
      BY <3>3, <3>4
  <2>2. CASE ~(tick - bucket.since > BlockWindow)
    BY <1>0, <2>2 DEF InWindow
  <2>. QED
    BY <2>1, <2>2
<1>. HIDE DEF b
<1>2. b.rate \in Nat /\ MinRate <= b.rate /\ b.rate <= MaxRate /\ b.blocks \in Nat /\ bucket.blocks \in Nat
  BY <1>0, <1>1 DEF BucketRecord
<1>3. CASE ReportBlock
  <2>. PICK n \in Nat : n = b.blocks + 1
    BY <1>2
  <2>. DEFINE d == [b EXCEPT !.blocks = n]
              slower == Max({MinRate, d.rate \div 2})
  <2>1. d \in BucketRecord /\ d.tokens = b.tokens /\ d.refilled = b.refilled /\ d.blocks = n /\ d.requests = b.requests
        /\ d.rate = b.rate
    BY <1>1 DEF BucketRecord
  <2>2. [InWindow(bucket) EXCEPT !.blocks = @ + 1] = d
    BY <1>1 DEF b, BucketRecord
  <2>. HIDE DEF d
  <2>3. slower \in MinRate..MaxRate
    <3>. PICK h \in Int : h = d.rate \div 2
      BY <1>2, <2>1
    <3>1. h <= MaxRate
      BY <1>0, <1>2, <2>1
    <3>a. MinRate \in Int
      BY <1>0
    <3>2. Max({MinRate, h}) \in {MinRate, h} /\ Max({MinRate, h}) >= MinRate
      BY <3>a, GreaterOfTwo
    <3>. QED
      BY <1>0, <3>1, <3>2
  <2>. HIDE DEF slower
  <2>4. bucket' = d \/ bucket' = [d EXCEPT !.rate = slower]
    <3>1. bucket' = IF d.requests > 0 /\ 10 * d.blocks > 3 * d.requests
                    THEN [d EXCEPT !.rate = Max({MinRate, @ \div 2})] ELSE d
      BY <1>3, <2>2 DEF ReportBlock
    <3>2. [d EXCEPT !.rate = Max({MinRate, @ \div 2})] = [d EXCEPT !.rate = slower]
      BY <2>1 DEF slower, BucketRecord
    <3>. QED
      BY <3>1, <3>2
  <2>5. /\ bucket' \in BucketRecord /\ bucket'.tokens = d.tokens /\ bucket'.refilled = d.refilled
        /\ bucket'.blocks = n /\ bucket'.requests = d.requests
    BY <2>1, <2>3, <2>4 DEF BucketRecord
  <2>. QED
    BY <1>1, <1>2, <2>1, <2>5
<1>4. CASE ReportGood
  <2>. DEFINE faster == Min({MaxRate, (11 * b.rate + 9) \div 10})
  <2>1. faster \in MinRate..MaxRate
    <3>. PICK h \in Int : h = (11 * b.rate + 9) \div 10
      BY <1>2
    <3>1. h >= MinRate
      BY <1>0, <1>2
    <3>a. MaxRate \in Int
      BY <1>0
    <3>2. Min({MaxRate, h}) \in {MaxRate, h} /\ Min({MaxRate, h}) <= MaxRate
      BY <3>a, SmallerOfTwo
    <3>. QED
      BY <1>0, <3>1, <3>2
  <2>. HIDE DEF faster
  <2>2. bucket' = b \/ bucket' = [b EXCEPT !.rate = faster]
    <3>1. bucket' = IF 20 * b.blocks < b.requests /\ b.requests > RecoverAfter
                    THEN [b EXCEPT !.rate = Min({MaxRate, (11 * @ + 9) \div 10})] ELSE b
      BY <1>4 DEF ReportGood, b
    <3>2. [b EXCEPT !.rate = Min({MaxRate, (11 * @ + 9) \div 10})] = [b EXCEPT !.rate = faster]
      BY <1>1 DEF faster, BucketRecord
    <3>. QED
      BY <3>1, <3>2
  <2>3. /\ bucket' \in BucketRecord /\ bucket'.tokens = b.tokens /\ bucket'.refilled = b.refilled
        /\ bucket'.blocks = b.blocks /\ bucket'.requests = b.requests
    BY <1>1, <2>1, <2>2 DEF BucketRecord
  <2>. QED
    BY <1>1, <1>2, <2>3
<1>. QED
  BY <1>3, <1>4

LEMMA EndsTypes ==
  ASSUME FetchingInv, NEW f \in Fetchers, Ends(f)
  PROVE  fetch' = [fetch EXCEPT ![f] = NoRequest] /\ NoRequest \in OneFetch /\ NoRequest.at = "idle"
BY NoRequestTypes DEF Ends

LEMMA AnsweredKeeps ==
  ASSUME FetchingInv, NEW f \in Fetchers, fetch[f].at # "idle", NEW ok \in BOOLEAN, NEW blocked \in BOOLEAN,
         Answered(f, ok, blocked), UNCHANGED browserPool
  PROVE  FetchingInv'
<1>0. Ends(f) /\ UNCHANGED <<tick, freely, ending>> /\ tick \in Nat
  BY DEF Answered, FetchingInv, FetchTyped
<1>1. ProxyInv'
  BY ReleaseProxyTypes DEF Answered
<1>2. /\ bucket' \in BucketRecord /\ bucket'.tokens = bucket.tokens /\ bucket'.refilled = bucket.refilled
      /\ \/ bucket'.blocks <= bucket.blocks + 1 /\ bucket'.requests = bucket.requests
         \/ bucket'.blocks <= 1
  BY ReportTypes DEF Answered
<1>3. fetch' = [fetch EXCEPT ![f] = NoRequest] /\ NoRequest \in OneFetch /\ NoRequest.at = "idle"
  BY <1>0, EndsTypes
<1>4. LimiterInv'
  BY <1>0, <1>2, LimiterStays
<1>5. Counted'
  BY <1>2, <1>3, CountedMoves
<1>6. PoolInv'
  BY <1>0, <1>3, PoolStays
<1>7. FetchTyped'
  BY <1>0, <1>3, BusyMoves
<1>. QED
  BY <1>1, <1>4, <1>5, <1>6, <1>7 DEF FetchingInv

\* A step of a request that touches neither the limiter nor the proxies.
LEMMA RequestMoves ==
  ASSUME FetchingInv, NEW f \in Fetchers, fetch[f].at # "idle", NEW b \in OneFetch,
         fetch' = [fetch EXCEPT ![f] = b], UNCHANGED <<tick, limiter, proxyPool>>, PoolInv'
  PROVE  FetchingInv'
<1>0. UNCHANGED <<bucket, freely>> /\ tick \in Nat /\ bucket \in BucketRecord
  BY DEF limiter, FetchingInv, FetchTyped, LimiterInv
<1>1. LimiterInv'
  BY <1>0, LimiterStays
<1>2. Counted'
  BY <1>0, CountedMoves
<1>3. FetchTyped'
  BY BusyMoves
<1>. QED
  BY <1>1, <1>2, <1>3, ProxyStays DEF FetchingInv

LEMMA RaisesKeeps ==
  ASSUME FetchingInv, NEW f \in Fetchers, HttpRaises(f) \/ PageRaises(f)
  PROVE  FetchingInv'
<1>0. /\ fetch[f].at # "idle" /\ Ends(f) /\ UNCHANGED <<tick, limiter, proxyPool, browserPool, ending>>
  BY DEF HttpRaises, PageRaises
<1>1. fetch' = [fetch EXCEPT ![f] = NoRequest] /\ NoRequest \in OneFetch /\ NoRequest.at = "idle"
  BY <1>0, EndsTypes
<1>2. PoolInv'
  BY <1>0, <1>1, PoolStays
<1>. QED
  BY <1>0, <1>1, <1>2, RequestMoves

-----------------------------------------------------------------------------
(* The browser pool *)

\* A step of the one who works on the list.
LEMMA PoolMoves ==
  ASSUME FetchingInv, NEW f \in Fetchers, NEW b \in OneFetch, fetch' = [fetch EXCEPT ![f] = b],
         lock \subseteq {f}, ending' = ending,
         pages' \subseteq Contexts, context' \in [Contexts -> ContextRecord],
         b.at \in {"launch", "clean", "create"} => lock' = {f},
         b.at = "clean" =>
            /\ \A c \in b.keep : context'[c].used < MaxPagesPerContext
            /\ ending = "no" => \A c \in Contexts : Attached(context'[c]) => c \in b.keep \cup b.stale,
         PoolKeepsContexts'
  PROVE  PoolInv'
<1>0. fetch \in [Fetchers -> OneFetch]
  BY DEF FetchingInv, FetchTyped
<1>1. fetch'[f] = b /\ \A g \in Fetchers \ {f} : fetch'[g] = fetch[g]
  BY <1>0
<1>2. \A g \in Fetchers \ {f} : fetch[g].at \notin {"launch", "clean", "create"}
  BY DEF FetchingInv, PoolInv
<1>. QED
  BY <1>1, <1>2 DEF PoolInv

LEMMA PoolFacts ==
  ASSUME FetchingInv, NEW f \in Fetchers
  PROVE  /\ fetch \in [Fetchers -> OneFetch] /\ fetch[f] \in OneFetch
         /\ fetch[f].keep \subseteq Contexts /\ fetch[f].stale \subseteq Contexts
         /\ pages \subseteq Contexts /\ context \in [Contexts -> ContextRecord]
         /\ fetch[f].at \in {"launch", "clean", "create"} => lock = {f}
         /\ ending = "no" => \A c \in Contexts : Attached(context[c]) => c \in pages
         /\ \A c \in Contexts : context[c].used <= MaxPagesPerContext
BY DEF FetchingInv, FetchTyped, PoolInv, PoolKeepsContexts, OneFetch, Attached

LEMMA EnterPoolKeeps ==
  ASSUME FetchingInv, NEW f \in Fetchers, EnterPool(f)
  PROVE  FetchingInv'
<1>. DEFINE b == [fetch[f] EXCEPT !.at = "launch"]
<1>0. /\ fetch[f].at = "queued" /\ lock = {} /\ lock' = {f}
      /\ UNCHANGED <<tick, limiter, proxyPool, pages, context, ending>>
      /\ fetch \in [Fetchers -> OneFetch] /\ fetch[f] \in OneFetch
  BY PoolFacts DEF EnterPool
<1>1. b \in OneFetch /\ b.at = "launch" /\ fetch' = [fetch EXCEPT ![f] = b]
  BY <1>0 DEF EnterPool, OneFetch
<1>. HIDE DEF b
<1>2. PoolKeepsContexts'
  BY <1>0 DEF FetchingInv, PoolInv, PoolKeepsContexts
<1>3. PoolInv'
  BY <1>0, <1>1, <1>2, PoolFacts, PoolMoves
<1>. QED
  BY <1>0, <1>1, <1>3, RequestMoves

LEMMA LaunchKeeps ==
  ASSUME FetchingInv, NEW f \in Fetchers, Launch(f)
  PROVE  FetchingInv'
<1>0. /\ fetch[f].at = "launch" /\ lock = {f}
      /\ UNCHANGED <<tick, limiter, proxyPool, pages, context, ending>>
      /\ fetch \in [Fetchers -> OneFetch] /\ fetch[f] \in OneFetch
  BY PoolFacts DEF Launch
<1>1. PoolKeepsContexts'
  BY <1>0 DEF FetchingInv, PoolInv, PoolKeepsContexts
<1>2. CASE UNCHANGED <<fetch, lock>>
  <2>1. fetch' = [fetch EXCEPT ![f] = fetch[f]]
    BY <1>0, <1>2
  <2>2. PoolInv'
    BY <1>0, <1>1, <1>2, <2>1, PoolFacts, PoolMoves
  <2>. QED
    BY <1>0, <2>1, <2>2, RequestMoves
<1>3. CASE Ends(f)
  <2>1. fetch' = [fetch EXCEPT ![f] = NoRequest] /\ NoRequest \in OneFetch /\ NoRequest.at = "idle"
    BY <1>3, EndsTypes
  <2>2. PoolInv'
    BY <1>0, <1>1, <2>1, PoolFacts, PoolMoves
  <2>. QED
    BY <1>0, <2>1, <2>2, RequestMoves
<1>. QED
  BY <1>2, <1>3 DEF Launch

LEMMA ContextNumbers == \A c \in Contexts : c \in Nat
BY FetchConstants DEF Contexts

LEMMA ReuseOrCreateKeeps ==
  ASSUME FetchingInv, NEW f \in Fetchers, fetch[f].at \in {"launch", "clean"},
         NEW pool \in SUBSET Contexts, ReuseOrCreate(f, pool), pages' = pool,
         \A c \in pool : context[c].used < MaxPagesPerContext,
         ending = "no" => \A c \in Contexts : Attached(context[c]) => c \in pool,
         UNCHANGED <<tick, limiter, proxyPool, ending>>
  PROVE  FetchingInv'
<1>0. /\ lock = {f} /\ context \in [Contexts -> ContextRecord]
      /\ fetch \in [Fetchers -> OneFetch] /\ fetch[f] \in OneFetch
      /\ \A c \in Contexts : context[c].used <= MaxPagesPerContext
      /\ MaxPagesPerContext \in Nat /\ MaxContexts \in Nat
  BY PoolFacts, FetchConstants
<1>1. CASE pool # {}
  <2>1. PICK c \in pool : /\ context' = [context EXCEPT ![c].used = @ + 1]
                          /\ fetch' = [fetch EXCEPT ![f].at = "page", ![f].page = c, ![f].keep = {}]
    BY <1>1 DEF ReuseOrCreate
  <2>. PICK n \in Nat : n = context[c].used + 1
    BY <1>0 DEF ContextRecord
  <2>. DEFINE b == [fetch[f] EXCEPT !.at = "page", !.page = c, !.keep = {}]
              d == [context[c] EXCEPT !.used = n]
  <2>a. c \in Nat
    BY ContextNumbers
  <2>2. b \in OneFetch /\ b.at = "page" /\ fetch' = [fetch EXCEPT ![f] = b]
    <3>1. b \in OneFetch /\ b.at = "page"
      BY <1>0, <2>a DEF OneFetch
    <3>2. fetch' = [fetch EXCEPT ![f] = b]
      BY <1>0, <2>1
    <3>. QED
      BY <3>1, <3>2
  <2>3. /\ d \in ContextRecord /\ d.used = n /\ d.open = context[c].open /\ d.lost = context[c].lost
        /\ context' = [context EXCEPT ![c] = d]
    BY <1>0, <2>1 DEF ContextRecord
  <2>. HIDE DEF b, d
  <2>4. context' \in [Contexts -> ContextRecord] /\ context'[c] = d /\ \A e \in Contexts \ {c} : context'[e] = context[e]
    BY <1>0, <2>3
  <2>5. n <= MaxPagesPerContext
    BY <1>0 DEF ContextRecord
  <2>6. PoolKeepsContexts'
    BY <1>0, <2>3, <2>4, <2>5 DEF PoolKeepsContexts, Attached
  <2>7. PoolInv'
    BY <1>0, <2>2, <2>4, <2>6, PoolMoves
  <2>. QED
    BY <2>2, <2>7, RequestMoves
<1>2. CASE pool = {}
  <2>. DEFINE b == [fetch[f] EXCEPT !.at = "create", !.keep = {}]
  <2>0. UNCHANGED <<context, lock>>
    BY <1>2 DEF ReuseOrCreate
  <2>1. b \in OneFetch /\ b.at = "create" /\ fetch' = [fetch EXCEPT ![f] = b]
    BY <1>0, <1>2 DEF ReuseOrCreate, OneFetch
  <2>. HIDE DEF b
  <2>2. PoolKeepsContexts'
    BY <1>0, <2>0 DEF PoolKeepsContexts, Attached
  <2>3. PoolInv'
    BY <1>0, <2>0, <2>1, <2>2, PoolMoves
  <2>. QED
    BY <2>1, <2>3, RequestMoves
<1>. QED
  BY <1>1, <1>2

LEMMA InspectKeeps ==
  ASSUME FetchingInv, NEW f \in Fetchers, Inspect(f)
  PROVE  FetchingInv'
<1>0. /\ fetch[f].at = "launch" /\ lock = {f} /\ pages \subseteq Contexts
      /\ UNCHANGED <<tick, limiter, proxyPool, ending>>
      /\ fetch \in [Fetchers -> OneFetch] /\ fetch[f] \in OneFetch
      /\ context \in [Contexts -> ContextRecord] /\ MaxPagesPerContext \in Nat
      /\ ending = "no" => \A c \in Contexts : Attached(context[c]) => c \in pages
  BY PoolFacts, FetchConstants DEF Inspect
<1>1. \A c \in pages : ~Stale(c) => context[c].used < MaxPagesPerContext
  BY <1>0 DEF Stale, ContextRecord
<1>2. CASE \E c \in pages : Stale(c)
  <2>. DEFINE keep == {c \in pages : ~Stale(c)}
              stale == {c \in pages : Stale(c)}
              b == [fetch[f] EXCEPT !.at = "clean", !.keep = keep, !.stale = stale]
  <2>0. UNCHANGED <<pages, context, lock>>
    BY <1>2 DEF Inspect
  <2>1. /\ b \in OneFetch /\ b.at = "clean" /\ b.keep = keep /\ b.stale = stale
        /\ fetch' = [fetch EXCEPT ![f] = b]
    BY <1>0, <1>2 DEF Inspect, OneFetch
  <2>2. keep \cup stale = pages
    OBVIOUS
  <2>3. \A c \in keep : context'[c].used < MaxPagesPerContext
    BY <1>1, <2>0
  <2>. HIDE DEF b, keep, stale
  <2>4. PoolKeepsContexts'
    BY <1>0, <2>0 DEF FetchingInv, PoolInv, PoolKeepsContexts
  <2>5. ending = "no" => \A c \in Contexts : Attached(context'[c]) => c \in b.keep \cup b.stale
    BY <1>0, <2>0, <2>1, <2>2
  <2>6. PoolInv'
    BY <1>0, <2>0, <2>1, <2>3, <2>4, <2>5, PoolMoves
  <2>. QED
    BY <1>0, <2>1, <2>6, RequestMoves
<1>3. CASE ~\E c \in pages : Stale(c)
  <2>1. ReuseOrCreate(f, pages) /\ pages' = pages
    BY <1>3 DEF Inspect
  <2>. QED
    BY <1>0, <1>1, <1>3, <2>1, ReuseOrCreateKeeps
<1>. QED
  BY <1>2, <1>3

\* close() of a context, whether it raises or not.
LEMMA ClosesTypes ==
  ASSUME NEW c \in Contexts, Closes(c), context \in [Contexts -> ContextRecord]
  PROVE  /\ context' \in [Contexts -> ContextRecord]
         /\ \A e \in Contexts : /\ context'[e].used = context[e].used
                                /\ Attached(context'[e]) => Attached(context[e]) /\ e # c
<1>1. PICK d \in ContextRecord : /\ d.used = context[c].used /\ ~Attached(d)
                                 /\ context' = [context EXCEPT ![c] = d]
  <2>1. CASE context' = [context EXCEPT ![c].open = FALSE]
    <3>. DEFINE d == [context[c] EXCEPT !.open = FALSE]
    <3>1. d \in ContextRecord /\ d.used = context[c].used /\ ~Attached(d) /\ context' = [context EXCEPT ![c] = d]
      BY <2>1 DEF ContextRecord, Attached
    <3>. QED
      BY <3>1
  <2>2. CASE context' = [context EXCEPT ![c].lost = TRUE]
    <3>. DEFINE d == [context[c] EXCEPT !.lost = TRUE]
    <3>1. d \in ContextRecord /\ d.used = context[c].used /\ ~Attached(d) /\ context' = [context EXCEPT ![c] = d]
      BY <2>2 DEF ContextRecord, Attached
    <3>. QED
      BY <3>1
  <2>. QED
    BY <2>1, <2>2 DEF Closes
<1>2. context'[c] = d /\ \A e \in Contexts \ {c} : context'[e] = context[e]
  BY <1>1
<1>. QED
  BY <1>1, <1>2

LEMMA CloseStaleKeeps ==
  ASSUME FetchingInv, NEW f \in Fetchers, CloseStale(f)
  PROVE  FetchingInv'
<1>0. /\ fetch[f].at = "clean" /\ lock = {f} /\ pages \subseteq Contexts
      /\ UNCHANGED <<tick, limiter, proxyPool, pages, lock, ending>>
      /\ fetch \in [Fetchers -> OneFetch] /\ fetch[f] \in OneFetch
      /\ fetch[f].keep \subseteq Contexts /\ fetch[f].stale \subseteq Contexts
      /\ context \in [Contexts -> ContextRecord]
      /\ \A c \in fetch[f].keep : context[c].used < MaxPagesPerContext
      /\ ending = "no" => \A c \in Contexts : Attached(context[c]) => c \in fetch[f].keep \cup fetch[f].stale
  BY PoolFacts DEF CloseStale, FetchingInv, PoolInv
<1>1. PICK c \in fetch[f].stale : Closes(c) /\ fetch' = [fetch EXCEPT ![f].stale = @ \ {c}]
  BY DEF CloseStale
<1>. DEFINE b == [fetch[f] EXCEPT !.stale = fetch[f].stale \ {c}]
<1>2. /\ b \in OneFetch /\ b.at = "clean" /\ b.keep = fetch[f].keep /\ b.stale = fetch[f].stale \ {c}
      /\ fetch' = [fetch EXCEPT ![f] = b]
  BY <1>0, <1>1 DEF OneFetch
<1>. HIDE DEF b
<1>4. /\ context' \in [Contexts -> ContextRecord]
      /\ \A e \in Contexts : /\ context'[e].used = context[e].used
                             /\ Attached(context'[e]) => Attached(context[e]) /\ e # c
  BY <1>0, <1>1, ClosesTypes
<1>6. PoolKeepsContexts'
  BY <1>0, <1>4 DEF FetchingInv, PoolInv, PoolKeepsContexts, Attached
<1>7. PoolInv'
  BY <1>0, <1>2, <1>4, <1>6, PoolMoves
<1>. QED
  BY <1>0, <1>2, <1>7, RequestMoves

LEMMA CleanedKeeps ==
  ASSUME FetchingInv, NEW f \in Fetchers, Cleaned(f)
  PROVE  FetchingInv'
<1>0. /\ fetch[f].at = "clean" /\ fetch[f].stale = {}
      /\ UNCHANGED <<tick, limiter, proxyPool, ending>>
      /\ fetch[f].keep \subseteq Contexts
      /\ \A c \in fetch[f].keep : context[c].used < MaxPagesPerContext
      /\ ending = "no" => \A c \in Contexts : Attached(context[c]) => c \in fetch[f].keep /\ c \in pages
  BY PoolFacts DEF Cleaned, FetchingInv, PoolInv
<1>1. PICK kept \in IF pages = {} THEN SUBSET fetch[f].keep ELSE {fetch[f].keep} :
         pages' = kept /\ ReuseOrCreate(f, kept)
  BY DEF Cleaned
<1>2. kept \subseteq fetch[f].keep /\ kept \in SUBSET Contexts
  BY <1>0, <1>1
<1>3. ending = "no" => \A c \in Contexts : Attached(context[c]) => c \in kept
  BY <1>0, <1>1
<1>. QED
  BY <1>0, <1>1, <1>2, <1>3, ReuseOrCreateKeeps

LEMMA CreateContextKeeps ==
  ASSUME FetchingInv, NEW f \in Fetchers, CreateContext(f)
  PROVE  FetchingInv'
<1>0. /\ fetch[f].at = "create" /\ lock = {f} /\ pages \subseteq Contexts
      /\ UNCHANGED <<tick, limiter, proxyPool, ending>>
      /\ fetch \in [Fetchers -> OneFetch] /\ fetch[f] \in OneFetch
      /\ context \in [Contexts -> ContextRecord] /\ tick \in Nat
      /\ MaxPagesPerContext \in Nat \ {0} /\ MaxContexts \in Nat
  BY PoolFacts, FetchConstants DEF CreateContext, FetchingInv, FetchTyped
<1>. DEFINE Created(c, lost) == context' = [context EXCEPT ![c] = NewContext(lost)]
<1>3. ASSUME NEW c \in Contexts, NEW lost \in BOOLEAN, Created(c, lost)
      PROVE  /\ context' \in [Contexts -> ContextRecord]
             /\ \A e \in Contexts : /\ context'[e].used <= MaxPagesPerContext
                                    /\ Attached(context'[e]) => Attached(context[e]) \/ (e = c /\ ~lost)
  <2>1. /\ NewContext(lost) \in ContextRecord /\ NewContext(lost).used = 1
        /\ NewContext(lost).lost = lost
    BY <1>0 DEF ContextRecord, NewContext
  <2>2. /\ context' \in [Contexts -> ContextRecord] /\ context'[c] = NewContext(lost)
        /\ \A e \in Contexts \ {c} : context'[e] = context[e]
    BY <1>0, <1>3, <2>1
  <2>3. \A e \in Contexts : context[e].used <= MaxPagesPerContext
    BY PoolFacts
  <2>4. 1 <= MaxPagesPerContext
    BY <1>0
  <2>. QED
    BY <2>1, <2>2, <2>3, <2>4 DEF Attached
<1>. HIDE DEF Created
<1>1. CASE \E c \in Contexts : /\ Created(c, FALSE) /\ pages' = pages \cup {c}
                               /\ fetch' = [fetch EXCEPT ![f].at = "page", ![f].page = c]
  <2>1. PICK c \in Contexts : /\ Created(c, FALSE) /\ pages' = pages \cup {c}
                              /\ fetch' = [fetch EXCEPT ![f].at = "page", ![f].page = c]
    BY <1>1
  <2>. DEFINE b == [fetch[f] EXCEPT !.at = "page", !.page = c]
  <2>0. c \in Nat
    BY <1>0, ContextNumbers
  <2>2. b \in OneFetch /\ b.at = "page" /\ fetch' = [fetch EXCEPT ![f] = b]
    <3>1. b \in OneFetch /\ b.at = "page"
      BY <1>0, <2>0 DEF OneFetch
    <3>2. fetch' = [fetch EXCEPT ![f] = b]
      BY <1>0, <2>1
    <3>. QED
      BY <3>1, <3>2
  <2>. HIDE DEF b
  <2>5. PoolKeepsContexts'
    BY <1>0, <1>3, <2>1, PoolFacts DEF PoolKeepsContexts, Attached
  <2>6. PoolInv'
    BY <1>0, <1>3, <2>1, <2>2, <2>5, PoolMoves
  <2>. QED
    BY <1>0, <2>2, <2>6, RequestMoves
<1>4. CASE \E c \in Contexts : Created(c, TRUE) /\ Ends(f) /\ UNCHANGED pages
  <2>1. PICK c \in Contexts : Created(c, TRUE) /\ Ends(f) /\ UNCHANGED pages
    BY <1>4
  <2>2. fetch' = [fetch EXCEPT ![f] = NoRequest] /\ NoRequest \in OneFetch /\ NoRequest.at = "idle"
    BY <2>1, EndsTypes
  <2>3. PoolKeepsContexts'
    BY <1>0, <1>3, <2>1, PoolFacts DEF PoolKeepsContexts, Attached
  <2>4. PoolInv'
    BY <1>0, <1>3, <2>1, <2>2, <2>3, PoolMoves
  <2>. QED
    BY <1>0, <2>2, <2>4, RequestMoves
<1>2. CASE Ends(f) /\ UNCHANGED <<pages, context>>
  <2>1. fetch' = [fetch EXCEPT ![f] = NoRequest] /\ NoRequest \in OneFetch /\ NoRequest.at = "idle"
    BY <1>2, EndsTypes
  <2>2. PoolKeepsContexts'
    BY <1>0, <1>2 DEF FetchingInv, PoolInv, PoolKeepsContexts
  <2>3. PoolInv'
    BY <1>0, <1>2, <2>1, <2>2, PoolMoves
  <2>. QED
    BY <1>0, <2>1, <2>3, RequestMoves
<1>. QED
  BY <1>1, <1>2, <1>4 DEF CreateContext, Created

LEMMA ClosePoolKeeps ==
  ASSUME FetchingInv, ClosePool, UNCHANGED <<byBrowser, tick, limiter, fetch, proxyPool, lock>>
  PROVE  FetchingInv'
<1>0. /\ pages \subseteq Contexts /\ context \in [Contexts -> ContextRecord] /\ ending' # "no"
      /\ UNCHANGED <<bucket, freely>>
  BY DEF ClosePool, FetchingInv, PoolInv, limiter
<1>1. /\ context' \in [Contexts -> ContextRecord] /\ pages' \subseteq Contexts
      /\ \A c \in Contexts : context'[c].used = context[c].used
  <2>1. CASE UNCHANGED <<pages, context>>
    BY <1>0, <2>1
  <2>2. CASE UNCHANGED pages /\ \E c \in pages : Closes(c)
    BY <1>0, <2>2, ClosesTypes
  <2>3. CASE pages' = {} /\ context' = [c \in Contexts |-> [context[c] EXCEPT !.open = FALSE]]
    BY <1>0, <2>3 DEF ContextRecord
  <2>4. CASE pages' = {} /\ UNCHANGED context
    BY <1>0, <2>4
  <2>. QED
    BY <2>1, <2>2, <2>3, <2>4 DEF ClosePool
<1>2. \A f \in Fetchers : fetch[f].keep \subseteq Contexts
  BY PoolFacts
<1>3. PoolKeepsContexts'
  BY <1>0, <1>1 DEF FetchingInv, PoolInv, PoolKeepsContexts
<1>4. PoolInv'
  BY <1>0, <1>1, <1>2, <1>3 DEF FetchingInv, PoolInv
<1>5. LimiterInv' /\ Counted' /\ FetchTyped'
  <2>1. bucket \in BucketRecord /\ tick \in Nat
    BY DEF FetchingInv, FetchTyped, LimiterInv
  <2>2. LimiterInv'
    BY <1>0, <2>1, LimiterStays
  <2>. QED
    BY <1>0, <2>2 DEF FetchingInv, Counted, Busy, FetchTyped
<1>. QED
  BY <1>4, <1>5, ProxyStays DEF FetchingInv

LEMMA FetchTickKeeps ==
  ASSUME FetchingInv, UNCHANGED <<limiter, fetch, proxyPool, browserPool, ending>>, tick' \in {tick, tick + 1}
  PROVE  FetchingInv'
<1>0. UNCHANGED <<bucket, freely, pages, context, lock>> /\ bucket \in BucketRecord /\ tick \in Nat
  BY DEF FetchingInv, FetchTyped, LimiterInv, limiter, browserPool
<1>1. LimiterInv'
  BY <1>0, LimiterStays
<1>2. Counted' /\ FetchTyped'
  BY <1>0 DEF FetchingInv, Counted, Busy, FetchTyped
<1>3. PoolInv'
  BY <1>0 DEF FetchingInv, PoolInv, PoolKeepsContexts
<1>. QED
  BY <1>1, <1>2, <1>3, ProxyStays DEF FetchingInv

LEMMA FetchingNextInv == FetchingInv /\ [FetchingNext]_fetchingVars => FetchingInv'
<1>. SUFFICES ASSUME FetchingInv, [FetchingNext]_fetchingVars PROVE FetchingInv'
  OBVIOUS
<1>1. CASE UNCHANGED fetchingVars
  BY <1>1, FetchTickKeeps DEF fetchingVars
<1>2. CASE ClosePool /\ byBrowser /\ UNCHANGED <<byBrowser, tick, limiter, fetch, proxyPool, lock>>
  BY <1>2, ClosePoolKeeps
<1>3. CASE FetchTick /\ UNCHANGED <<byBrowser, limiter, fetch, proxyPool, browserPool, ending>>
  BY <1>3, FetchTickKeeps DEF FetchTick
<1>4. ASSUME NEW f \in Fetchers, FetchStep(f) PROVE FetchingInv'
  <2>1. CASE AskLimiter(f) \/ AcquireProxy(f) \/ HttpRaises(f) \/ PageRaises(f)
    BY <2>1, AskLimiterKeeps, AcquireProxyKeeps, RaisesKeeps
  <2>2. CASE HttpAnswers(f)
    BY <2>2, AnsweredKeeps DEF HttpAnswers
  <2>3. CASE PageRead(f)
    BY <2>3, AnsweredKeeps DEF PageRead
  <2>4. CASE EnterPool(f) \/ Launch(f) \/ Inspect(f) \/ CloseStale(f) \/ Cleaned(f) \/ CreateContext(f)
    BY <2>4, EnterPoolKeeps, LaunchKeeps, InspectKeeps, CloseStaleKeeps, CleanedKeeps, CreateContextKeeps
  <2>. QED
    BY <1>4, <2>1, <2>2, <2>3, <2>4 DEF FetchStep
<1>. QED
  BY <1>1, <1>2, <1>3, <1>4 DEF FetchingNext

LEMMA FetchingHolds == FetchingInv => FreeArePaced /\ BlocksOfRequests /\ RestsAfterFailures /\ PoolKeepsContexts
<1>. SUFFICES ASSUME FetchingInv PROVE FreeArePaced /\ BlocksOfRequests /\ RestsAfterFailures /\ PoolKeepsContexts
  OBVIOUS
<1>1. BlocksOfRequests
  BY BusyTypes DEF FetchingInv, Counted, BlocksOfRequests
<1>2. RestsAfterFailures
  <2>1. SUFFICES ASSUME NEW p \in PoolProxies, failing[p].streak >= MaxFailures, tick - failing[p].last < ProxyCooldown
                 PROVE  p \notin Available
    BY DEF RestsAfterFailures
  <2>2. /\ health[p] \in HealthRecord /\ failing[p] \in FailingRecord /\ tick \in Nat /\ ProxyCooldown \in Nat
        /\ health[p].resting /\ health[p].until = failing[p].last + ProxyCooldown
    BY <2>1, FetchConstants DEF FetchingInv, FetchTyped, ProxyInv
  <2>3. ~Over(health[p])
    BY <2>1, <2>2 DEF Over, FailingRecord
  <2>. QED
    BY <2>2, <2>3 DEF Available, Rested
<1>. QED
  BY <1>1, <1>2 DEF FetchingInv, LimiterInv, PoolInv

FetchingSpec == FetchingInit /\ [][FetchingNext]_fetchingVars

LEMMA FetchingInvariance == FetchingSpec => []FetchingInv
  BY FetchingInitInv, FetchingNextInv, PTL DEF FetchingSpec

\* However requests interleave and the rate changes, those that did not wait are
\* no more than the bucket brings in, blocks are overstated by no more than the
\* requests under way, a proxy that keeps failing is not handed out before it
\* has rested, and the browser pool forgets no open context (FreeArePaced,
\* BlocksOfRequests, RestsAfterFailures, PoolKeepsContexts).
THEOREM RequestsAreGuarded ==
    FetchingSpec => [](FreeArePaced /\ BlocksOfRequests /\ RestsAfterFailures /\ PoolKeepsContexts)
  BY FetchingInvariance, FetchingHolds, PTL

-----------------------------------------------------------------------------
(* Who is scraped how deeply *)

LEMMA PrioConstants ==
  /\ MinPages \in Nat \ {0} /\ MostPages \in Nat \ {0} /\ BasePages \in MinPages..MostPages
  /\ Budget \in Nat /\ DefaultPages \in Nat /\ Yields \subseteq Nat
  /\ Reports \subseteq [found : Nat, profitable : Nat, roi : Nat]
  /\ IsFiniteSet(Categories) /\ IsFiniteSet(Terms)
  /\ Sites \in Seq(Range(Sites)) /\ IsInjective(Sites)
  /\ Trending \in [Range(Sites) -> Nat]
BY PrioritiesAssumption

\* What is divided falls into a block and a place in it, in one way.
LEMMA DivMod ==
  ASSUME NEW n \in Nat, NEW d \in Nat, d > 0
  PROVE  /\ n \div d \in Nat /\ n % d \in Nat /\ n % d < d
         /\ n = d * (n \div d) + (n % d)
<1>1. n \div d \in Int /\ n % d \in Int
  OBVIOUS
<1>2. n % d >= 0 /\ n % d < d
  OBVIOUS
<1>3. n = d * (n \div d) + (n % d)
  OBVIOUS
<1>4. n \div d >= 0
  BY <1>1, <1>2, <1>3
<1>. QED
  BY <1>1, <1>2, <1>3, <1>4

LEMMA BlocksUnique ==
  ASSUME NEW d \in Nat, NEW p \in Nat, NEW q \in Nat, NEW r \in Nat, NEW s \in Nat, r < d, s < d,
         d * p + r = d * q + s
  PROVE  p = q /\ r = s
<1>1. ASSUME p < q PROVE FALSE
  <2>. PICK k \in Nat : q = p + 1 + k
    BY <1>1
  <2>1. d * q = d * p + d + d * k /\ d * k \in Nat /\ d * p \in Nat
    BY SMT
  <2>. QED
    BY <2>1
<1>2. ASSUME q < p PROVE FALSE
  <2>. PICK k \in Nat : p = q + 1 + k
    BY <1>2
  <2>1. d * p = d * q + d + d * k /\ d * k \in Nat /\ d * q \in Nat
    BY SMT
  <2>. QED
    BY <2>1
<1>3. p = q
  BY <1>1, <1>2
<1>. QED
  <2>1. d * p \in Nat /\ d * p = d * q
    BY <1>3
  <2>. QED
    BY <2>1, <1>3

Places(m, d) == m * d
Place(d, q, r) == d * q + r + 1
Block(d, i) == (i - 1) \div d
Spot(d, i) == (i - 1) % d

\* Of m blocks of d places each.
LEMMA PlaceOfBlock ==
  ASSUME NEW m \in Nat, NEW d \in Nat, NEW n, n = Places(m, d), NEW q \in 0..(m - 1), NEW r \in 0..(d - 1),
         NEW i, i = Place(d, q, r)
  PROVE  i \in 1..n /\ Block(d, i) = q /\ Spot(d, i) = r
<1>. PICK k \in Nat : m = q + 1 + k
  OBVIOUS
<1>0. d > 0 /\ d * q \in Nat /\ r \in Nat /\ q \in Nat
  OBVIOUS
<1>. PICK j \in Nat : j = d * q + r
  BY <1>0
<1>. PICK kd \in Nat : kd = k * d
  OBVIOUS
<1>1. n = d * q + d + kd
  <2>1. m * d = d * q + d + k * d
    BY SMT
  <2>. QED
    BY <2>1 DEF Places
<1>2. j + 1 \in 1..n
  BY <1>0, <1>1
<1>3. j \div d \in Nat /\ j % d \in Nat /\ j % d < d /\ j = d * (j \div d) + (j % d)
  BY <1>0, DivMod
<1>4. j \div d = q /\ j % d = r
  BY <1>0, <1>3, BlocksUnique
<1>5. i = j + 1
  BY <1>0 DEF Place
<1>6. i - 1 = j
  BY <1>5
<1>7. Block(d, i) = q /\ Spot(d, i) = r
  BY <1>4, <1>6 DEF Block, Spot
<1>. QED
  BY <1>2, <1>5, <1>7

LEMMA FewerBlocks ==
  ASSUME NEW m \in Nat, NEW d \in Nat, NEW q \in Nat, NEW r \in Nat, d * q + r < m * d
  PROVE  q < m
<1>1. ASSUME q >= m PROVE FALSE
  <2>. PICK k \in Nat : q = m + k
    BY <1>1
  <2>1. d * q = m * d + d * k /\ d * k \in Nat /\ m * d \in Nat
    BY SMT
  <2>. QED
    BY <2>1
<1>. QED
  BY <1>1

LEMMA BlockOfPlace ==
  ASSUME NEW m \in Nat, NEW d \in Nat, NEW w, w = Places(m, d), NEW i \in 1..w
  PROVE  Block(d, i) \in 0..(m - 1) /\ Spot(d, i) \in 0..(d - 1) /\ i = Place(d, Block(d, i), Spot(d, i))
<1>1. d > 0
  <2>1. CASE d = 0
    <3>1. m * d = 0
      BY <2>1
    <3>. QED
      BY <3>1 DEF Places
  <2>. QED
    BY <2>1
<1>0. w = m * d /\ w \in Nat
  BY DEF Places
<1>. PICK n \in Nat : n = i - 1
  BY <1>0
<1>2. n \div d \in Nat /\ n % d \in Nat /\ n % d < d /\ n = d * (n \div d) + (n % d)
  BY <1>1, DivMod
<1>. PICK q \in Nat : q = n \div d
  BY <1>2
<1>. PICK r \in Nat : r = n % d
  BY <1>2
<1>3. n = d * q + r /\ r < d
  BY <1>2
<1>4. q < m
  BY <1>0, <1>3, FewerBlocks
<1>5. d * q \in Nat
  OBVIOUS
<1>6. i = Place(d, q, r)
  BY <1>3, <1>5 DEF Place
<1>7. q \in 0..(m - 1) /\ r \in 0..(d - 1)
  BY <1>3, <1>4
<1>8. Block(d, i) = q /\ Spot(d, i) = r
  BY DEF Block, Spot
<1>. QED
  BY <1>6, <1>7, <1>8

\* Each of one sequence with each of another, in blocks of the other.
PairsOf(c, s, t, m, d) ==
    /\ \A i \in 1..Len(c) : \E q \in 0..(m - 1), r \in 0..(d - 1) :
          i = Place(d, q, r) /\ c[i] = <<s[q + 1], t[r + 1]>>
    /\ \A q \in 0..(m - 1), r \in 0..(d - 1) :
          Place(d, q, r) \in 1..Len(c) /\ c[Place(d, q, r)] = <<s[q + 1], t[r + 1]>>

LEMMA CrossedPairs ==
  ASSUME NEW A, NEW B, NEW s \in Seq(A), NEW t \in Seq(B),
         NEW m \in Nat, m = Len(s), NEW d \in Nat, d = Len(t), NEW c, c = Crossed(s, t)
  PROVE  c \in Seq(A \X B) /\ PairsOf(c, s, t, m, d)
<1>0. (\A k \in 1..m : s[k] \in A) /\ (\A k \in 1..d : t[k] \in B)
  BY ElementOfSeq
<1>. PICK n \in Nat : n = Places(m, d)
  BY DEF Places
<1>1. c = [i \in 1..n |-> <<s[Block(d, i) + 1], t[Spot(d, i) + 1]>>]
  BY DEF Crossed, Block, Spot, Places
<1>2. ASSUME NEW i \in 1..n
      PROVE  \E q \in 0..(m - 1), r \in 0..(d - 1) :
                /\ i = Place(d, q, r) /\ c[i] = <<s[q + 1], t[r + 1]>> /\ c[i] \in A \X B
  <2>1. PICK q \in 0..(m - 1), r \in 0..(d - 1) :
               Block(d, i) = q /\ Spot(d, i) = r /\ i = Place(d, q, r)
    <3>1. Block(d, i) \in 0..(m - 1) /\ Spot(d, i) \in 0..(d - 1) /\ i = Place(d, Block(d, i), Spot(d, i))
      BY BlockOfPlace
    <3>. QED
      BY <3>1
  <2>2. c[i] = <<s[Block(d, i) + 1], t[Spot(d, i) + 1]>>
    BY <1>1
  <2>3. c[i] = <<s[q + 1], t[r + 1]>>
    BY <2>1, <2>2
  <2>4. q + 1 \in 1..m /\ r + 1 \in 1..d
    OBVIOUS
  <2>5. s[q + 1] \in A /\ t[r + 1] \in B
    BY <1>0, <2>4
  <2>6. c[i] \in A \X B
    BY <2>3, <2>5
  <2>7. i = Place(d, q, r)
    BY <2>1
  <2>. QED
    BY <2>3, <2>6, <2>7
<1>3. ASSUME NEW q \in 0..(m - 1), NEW r \in 0..(d - 1)
      PROVE  Place(d, q, r) \in 1..n /\ c[Place(d, q, r)] = <<s[q + 1], t[r + 1]>>
  <2>. PICK i : i = Place(d, q, r)
    OBVIOUS
  <2>1. i \in 1..n /\ Block(d, i) = q /\ Spot(d, i) = r
    BY PlaceOfBlock
  <2>2. c[i] = <<s[Block(d, i) + 1], t[Spot(d, i) + 1]>>
    BY <1>1, <2>1
  <2>3. c[i] = <<s[q + 1], t[r + 1]>>
    BY <2>1, <2>2
  <2>. QED
    BY <2>1, <2>3
<1>4. c \in [1..n -> A \X B]
  BY <1>1, <1>2
<1>5. c \in Seq(A \X B) /\ Len(c) = n
  BY <1>4, SeqDef, LenProperties
<1>. QED
  BY <1>2, <1>3, <1>5 DEF PairsOf

LEMMA CrossedTypes ==
  ASSUME NEW A, NEW B, NEW s \in Seq(A), NEW t \in Seq(B)
  PROVE  Crossed(s, t) \in Seq(A \X B)
<1>. PICK m \in Nat : m = Len(s)
  BY LenProperties
<1>. PICK d \in Nat : d = Len(t)
  BY LenProperties
<1>. PICK c : c = Crossed(s, t)
  OBVIOUS
<1>. QED
  BY CrossedPairs

LEMMA CrossedInjective ==
  ASSUME NEW A, NEW B, NEW s \in Seq(A), NEW t \in Seq(B), IsInjective(s), IsInjective(t)
  PROVE  IsInjective(Crossed(s, t))
<1>. PICK c : c = Crossed(s, t)
  OBVIOUS
<1>. PICK m \in Nat : m = Len(s) /\ DOMAIN s = 1..m
  BY LenProperties
<1>. PICK d \in Nat : d = Len(t) /\ DOMAIN t = 1..d
  BY LenProperties
<1>0. c \in Seq(A \X B)
  BY CrossedPairs
<1>a. PairsOf(c, s, t, m, d)
  BY CrossedPairs
<1>1. \A i \in 1..Len(c) : \E q \in 0..(m - 1), r \in 0..(d - 1) :
               i = Place(d, q, r) /\ c[i] = <<s[q + 1], t[r + 1]>>
  BY <1>a DEF PairsOf
<1>2. ASSUME NEW i \in 1..Len(c), NEW j \in 1..Len(c), c[i] = c[j]
      PROVE  i = j
  <2>1. PICK q \in 0..(m - 1), r \in 0..(d - 1) : i = Place(d, q, r) /\ c[i] = <<s[q + 1], t[r + 1]>>
    BY <1>1
  <2>2. PICK u \in 0..(m - 1), v \in 0..(d - 1) : j = Place(d, u, v) /\ c[j] = <<s[u + 1], t[v + 1]>>
    BY <1>1
  <2>3. s[q + 1] = s[u + 1] /\ t[r + 1] = t[v + 1]
    BY <1>2, <2>1, <2>2
  <2>4. q + 1 \in 1..m /\ u + 1 \in 1..m /\ r + 1 \in 1..d /\ v + 1 \in 1..d
    OBVIOUS
  <2>5. q + 1 = u + 1 /\ r + 1 = v + 1
    BY <2>3, <2>4 DEF IsInjective
  <2>6. q = u /\ r = v
    BY <2>5
  <2>. QED
    BY <2>1, <2>2, <2>6
<1>3. DOMAIN c = 1..Len(c)
  BY <1>0, LenProperties
<1>. QED
  BY <1>2, <1>3 DEF IsInjective

\* The beginning of a plan.
LEMMA UpToTypes ==
  ASSUME NEW S, NEW s \in Seq(S), NEW n \in Nat
  PROVE  /\ UpTo(n, s) \in Seq(S) /\ Len(UpTo(n, s)) <= n /\ Len(UpTo(n, s)) <= Len(s)
         /\ \A i \in 1..Len(UpTo(n, s)) : UpTo(n, s)[i] = s[i]
<1>0. Len(s) \in Nat /\ \A i \in 1..Len(s) : s[i] \in S
  BY LenProperties, ElementOfSeq
<1>. PICK m : m = Min({n, Len(s)})
  OBVIOUS
<1>. PICK l \in Nat : l = Len(s)
  BY <1>0
<1>a. n \in Int /\ l \in Int
  OBVIOUS
<1>b. Min({n, l}) \in {n, l} /\ Min({n, l}) <= n /\ Min({n, l}) <= l
  BY <1>a, SmallerOfTwo
<1>1. m \in {n, Len(s)} /\ m <= n /\ m <= Len(s)
  BY <1>b
<1>2. m \in Nat /\ 1 \in Int
  BY <1>0, <1>1
<1>3. \A i \in 1..m : s[i] \in S
  BY <1>0, <1>1, <1>2
<1>. PICK u : u = SubSeq(s, 1, m)
  OBVIOUS
<1>4. u \in Seq(S) /\ Len(u) = (IF 1 <= m THEN m - 1 + 1 ELSE 0) /\ \A i \in 1..(m - 1 + 1) : u[i] = s[1 + i - 1]
  <2>1. m \in Int
    BY <1>2
  <2>. QED
    BY ONLY <1>2, <1>3, <2>1, u = SubSeq(s, 1, m), SubSeqProperties
<1>5. Len(u) = m
  BY <1>2, <1>4
<1>6. \A i \in 1..m : u[i] = s[i]
  <2>1. ASSUME NEW i \in 1..m PROVE u[i] = s[i]
    <3>1. i \in 1..(m - 1 + 1) /\ 1 + i - 1 = i
      BY <1>2
    <3>2. u[i] = s[1 + i - 1]
      BY <1>4, <3>1
    <3>. QED
      BY <3>1, <3>2
  <2>. QED
    BY <2>1
<1>7. UpTo(n, s) = u
  BY DEF UpTo
<1>. QED
  BY <1>1, <1>4, <1>5, <1>6, <1>7

LEMMA UpToInjective ==
  ASSUME NEW S, NEW s \in Seq(S), NEW n \in Nat, IsInjective(s)
  PROVE  IsInjective(UpTo(n, s))
<1>. PICK u : u = UpTo(n, s)
  OBVIOUS
<1>1. u \in Seq(S) /\ Len(u) <= Len(s)
  BY UpToTypes
<1>2. \A i \in 1..Len(u) : u[i] = s[i]
  BY UpToTypes
<1>3. DOMAIN u = 1..Len(u) /\ DOMAIN s = 1..Len(s) /\ Len(u) \in Nat /\ Len(s) \in Nat
  BY <1>1, LenProperties
<1>4. \A i \in 1..Len(u) : i \in 1..Len(s)
  BY <1>1, <1>3
<1>. QED
  BY <1>2, <1>3, <1>4 DEF IsInjective

LEMMA BudgetParts ==
  /\ CategoryBudget \in Nat /\ SearchBudget \in Nat
  /\ Budget - CategoryBudget - SearchBudget \in Nat
<1>1. Budget \in Nat
  BY PrioConstants
<1>. QED
  BY <1>1 DEF CategoryBudget, SearchBudget

LEMMA PlannedOrder ==
  ASSUME NEW S, IsFiniteSet(S), NEW o \in Prioritized(S)
  PROVE  o \in Seq(S) /\ IsInjective(o)
<1>1. Cardinality(S) \in Nat
  BY FS_CardinalityType
<1>2. o \in [1..Cardinality(S) -> S] /\ IsInjective(o)
  BY DEF Prioritized
<1>. QED
  BY <1>1, <1>2, SeqDef

\* The numbers from 1 to n.
LEMMA PageNumbers ==
  ASSUME NEW n \in Nat, NEW s, s = [p \in 1..n |-> p]
  PROVE  s \in Seq(Nat) /\ Len(s) = n /\ IsInjective(s) /\ \A p \in 1..n : s[p] = p
<1>1. s \in [1..n -> Nat] /\ DOMAIN s = 1..n /\ \A p \in 1..n : s[p] = p
  OBVIOUS
<1>2. s \in Seq(Nat) /\ Len(s) = n
  BY <1>1, SeqDef, LenProperties
<1>. QED
  BY <1>1, <1>2 DEF IsInjective

\* A finite set of numbers has a greatest one.
LEMMA GreatestTypes ==
  ASSUME NEW S, S \subseteq Nat, IsFiniteSet(S), S # {}
  PROVE  Max(S) \in S /\ \A k \in S : Max(S) >= k
<1>. DEFINE Above(i) == {j \in S : j > i}
            N == {Cardinality(Above(i)) : i \in S}
<1>1. \A i \in S : IsFiniteSet(Above(i)) /\ Cardinality(Above(i)) \in Nat
  <2>. SUFFICES ASSUME NEW i \in S PROVE IsFiniteSet(Above(i)) /\ Cardinality(Above(i)) \in Nat
    OBVIOUS
  <2>1. Above(i) \in SUBSET S
    OBVIOUS
  <2>. HIDE DEF Above
  <2>. QED
    BY <2>1, FS_Subset, FS_CardinalityType
<1>. PICK most \in Nat : most = Cardinality(S)
  BY FS_CardinalityType
<1>a. \A i \in S : Cardinality(Above(i)) \in 0..most
  <2>. SUFFICES ASSUME NEW i \in S PROVE Cardinality(Above(i)) \in 0..most
    OBVIOUS
  <2>1. Above(i) \in SUBSET S
    OBVIOUS
  <2>2. Cardinality(Above(i)) \in Nat
    BY <1>1
  <2>. HIDE DEF Above
  <2>3. Cardinality(Above(i)) <= Cardinality(S)
    BY <2>1, FS_Subset
  <2>. QED
    BY <2>2, <2>3
<1>2. N \in SUBSET (0..most) /\ N # {}
  BY <1>a
<1>3. PICK n \in N : \A k \in N : n <= k
  <2>. HIDE DEF N
  <2>. QED
    BY <1>2, SmallestNumber
<1>4. PICK m \in S : n = Cardinality(Above(m))
  OBVIOUS
<1>5. ASSUME NEW k \in S, k > m PROVE FALSE
  <2>1. Above(k) \in SUBSET (Above(m) \ {k}) /\ k \in Above(m)
    <3>1. m \in Nat /\ k \in Nat
      OBVIOUS
    <3>2. \A j \in S : j > k => j > m /\ j # k
      BY <1>5, <3>1
    <3>. QED
      BY <1>5, <3>2
  <2>2. Cardinality(Above(k)) \in N
    OBVIOUS
  <2>. HIDE DEF Above, N
  <2>3. IsFiniteSet(Above(m) \ {k}) /\ Cardinality(Above(m) \ {k}) = Cardinality(Above(m)) - 1
    BY <1>1, <2>1, FS_RemoveElement
  <2>4. Cardinality(Above(k)) <= Cardinality(Above(m) \ {k})
    BY <2>1, <2>3, FS_Subset
  <2>5. Cardinality(Above(k)) \in Nat /\ Cardinality(Above(m)) \in Nat
    BY <1>1
  <2>6. Cardinality(Above(k)) < n
    BY <1>4, <2>3, <2>4, <2>5
  <2>7. n <= Cardinality(Above(k)) /\ n \in Nat
    <3>1. n \in 0..most
      BY <1>2
    <3>2. n \in Nat
      BY <3>1
    <3>3. n <= Cardinality(Above(k))
      BY ONLY <1>3, <2>2
    <3>. QED
      BY <3>2, <3>3
  <2>. QED
    BY <2>5, <2>6, <2>7
<1>6. \A k \in S : m >= k
  <2>1. m \in Nat /\ \A k \in S : k \in Nat
    OBVIOUS
  <2>. HIDE DEF Above, N
  <2>. QED
    BY <1>5, <2>1
<1>. QED
  BY <1>6 DEF Max

LEMMA OnePageLess ==
  ASSUME NEW a, NEW b, NEW k \in Nat, NEW d, d = [category |-> a, site |-> b, page |-> k]
  PROVE  [d EXCEPT !.page = @ - 1] = [category |-> a, site |-> b, page |-> k - 1]
<1>1. d.page = k
  OBVIOUS
<1>. PICK j : j = k - 1
  OBVIOUS
<1>2. [d EXCEPT !.page = j] = [category |-> a, site |-> b, page |-> j]
  OBVIOUS
<1>. QED
  BY <1>1, <1>2

LEMMA SamePair ==
  ASSUME NEW A, NEW B, NEW a \in A \X B, NEW b \in A \X B, a[1] = b[1], a[2] = b[2]
  PROVE  a = b
OBVIOUS

LEMMA SameTask ==
  ASSUME NEW a, NEW b, NEW c, NEW x, NEW y, NEW z,
         [category |-> a, site |-> b, page |-> c] = [category |-> x, site |-> y, page |-> z]
  PROVE  a = x /\ b = y /\ c = z
<1>. PICK d : d = [category |-> a, site |-> b, page |-> c]
  OBVIOUS
<1>1. d.category = a /\ d.site = b /\ d.page = c
  OBVIOUS
<1>2. d.category = x /\ d.site = y /\ d.page = z
  OBVIOUS
<1>. QED
  BY <1>1, <1>2

LEMMA SeqOfFunction ==
  ASSUME NEW S, NEW n \in Nat, NEW v \in [1..n -> S]
  PROVE  v \in Seq(S) /\ Len(v) = n
BY SeqDef, LenProperties

CategoryTask(A, B) == [category : A, site : B, page : Nat]
TaskOf(x) == [category |-> x[1][1], site |-> x[1][2], page |-> x[2]]
TasksOf(s) == [i \in DOMAIN s |-> TaskOf(s[i])]

LEMMA TaskOfTypes ==
  ASSUME NEW A, NEW B, NEW x \in (A \X B) \X Nat
  PROVE  TaskOf(x) \in CategoryTask(A, B)
<1>1. x[1] \in A \X B /\ x[2] \in Nat
  OBVIOUS
<1>. QED
  BY <1>1 DEF TaskOf, CategoryTask

LEMMA TaskOfInjective ==
  ASSUME NEW A, NEW B, NEW x \in (A \X B) \X Nat, NEW y \in (A \X B) \X Nat, TaskOf(x) = TaskOf(y)
  PROVE  x = y
<1>1. x[1] \in A \X B /\ y[1] \in A \X B
  OBVIOUS
<1>2. x[1][1] = y[1][1] /\ x[1][2] = y[1][2] /\ x[2] = y[2]
  BY SameTask DEF TaskOf
<1>3. x[1] = y[1]
  BY <1>1, <1>2
<1>. PICK P : P = A \X B
  OBVIOUS
<1>4. x \in P \X Nat /\ y \in P \X Nat
  OBVIOUS
<1>. QED
  BY <1>2, <1>3, <1>4

LEMMA TasksOfPairs ==
  ASSUME NEW A, NEW B, NEW s \in Seq((A \X B) \X Nat), IsInjective(s),
         NEW w, w = TasksOf(s)
  PROVE  w \in Seq(CategoryTask(A, B)) /\ Len(w) = Len(s) /\ IsInjective(w)
<1>. PICK P : P = (A \X B) \X Nat
  OBVIOUS
<1>. PICK R : R = CategoryTask(A, B)
  OBVIOUS
<1>. PICK n \in Nat : n = Len(s) /\ DOMAIN s = 1..n
  BY LenProperties
<1>1. \A i \in 1..n : s[i] \in P
  BY ElementOfSeq
<1>2. \A x \in P : TaskOf(x) \in R
  BY TaskOfTypes
<1>3. \A x \in P, y \in P : TaskOf(x) = TaskOf(y) => x = y
  BY TaskOfInjective
<1>4. w \in [1..n -> R]
  BY <1>1, <1>2 DEF TasksOf
<1>5. w \in Seq(R) /\ Len(w) = n
  BY <1>4, SeqOfFunction
<1>6. IsInjective(w)
  BY <1>1, <1>3 DEF IsInjective, TasksOf
<1>. QED
  BY <1>5, <1>6

\* The pages of the categories: none twice, and where one is planned, so are
\* those before it.
LEMMA CategoryTasksTypes ==
  ASSUME NEW order \in Prioritized(Categories), NEW w, w = CategoryTasks(order)
  PROVE  /\ Len(w) \in Nat /\ Len(w) <= CategoryBudget /\ IsInjective(w) /\ DOMAIN w = 1..Len(w)
         /\ \A i \in DOMAIN w : w[i].page > 1 => i > 1 /\ w[i - 1] = [w[i] EXCEPT !.page = @ - 1]
<1>. DEFINE P == Categories \X Range(Sites)
            Rec == CategoryTask(Categories, Range(Sites))
<1>. PICK depths : depths = GetPages
  OBVIOUS
<1>. PICK D \in Nat : D = DefaultPages
  BY PrioConstants
<1>1. order \in Seq(Categories) /\ IsInjective(order)
  BY PrioConstants, PlannedOrder
<1>2. Sites \in Seq(Range(Sites)) /\ IsInjective(Sites)
  BY PrioConstants
<1>. PICK pairs : pairs = Crossed(order, Sites)
  OBVIOUS
<1>3. pairs \in Seq(P) /\ IsInjective(pairs)
  BY <1>1, <1>2, CrossedTypes, CrossedInjective
<1>. PICK offered : offered = Without(pairs, {x \in Range(pairs) : x[1] \notin Offers[x[2]]})
  OBVIOUS
<1>4. offered \in Seq(P) /\ IsInjective(offered)
  <2>. HIDE DEF P
  <2>. QED
    BY <1>3, WithoutTypes, WithoutInjective
<1>a. depths = [p \in 1..D |-> p]
  BY DEF GetPages
<1>b. \A p \in 1..D : depths[p] = p
  BY <1>a, PageNumbers
<1>5. depths \in Seq(Nat) /\ Len(depths) = D /\ IsInjective(depths)
  BY <1>a, PageNumbers
<1>. PICK tasks : tasks = Crossed(offered, depths)
  OBVIOUS
<1>. PICK m \in Nat : m = Len(offered)
  BY <1>4, LenProperties
<1>6. tasks \in Seq(P \X Nat) /\ IsInjective(tasks)
  <2>. HIDE DEF P
  <2>. QED
    BY <1>4, <1>5, CrossedTypes, CrossedInjective
<1>7. PairsOf(tasks, offered, depths, m, D)
  <2>. HIDE DEF P
  <2>1. /\ offered \in Seq(P) /\ depths \in Seq(Nat) /\ tasks = Crossed(offered, depths)
        /\ m \in Nat /\ m = Len(offered) /\ D \in Nat /\ D = Len(depths)
    BY <1>4, <1>5
  <2>. QED
    BY ONLY <2>1, CrossedPairs
<1>. PICK n \in Nat : n = Len(tasks) /\ DOMAIN tasks = 1..n
  BY <1>6, LenProperties
<1>8. \A i \in 1..n : tasks[i] \in P \X Nat
  <2>. HIDE DEF P
  <2>. QED
    BY <1>6, ElementOfSeq
<1>. PICK b \in Nat : b = CategoryBudget
  BY BudgetParts
<1>9. PICK recs : recs = TasksOf(tasks) /\ w = UpTo(b, recs)
  BY DEF CategoryTasks, TaskOf, TasksOf
<1>10. recs \in Seq(Rec) /\ IsInjective(recs)
  <2>1. tasks \in Seq((Categories \X Range(Sites)) \X Nat)
    BY <1>6
  <2>2. recs \in Seq(CategoryTask(Categories, Range(Sites))) /\ IsInjective(recs)
    BY ONLY <1>6, <1>9, <2>1, TasksOfPairs
  <2>. QED
    BY <2>2
<1>11. Len(recs) = n
  <2>1. recs \in Seq(Rec) /\ DOMAIN recs = DOMAIN tasks
    BY <1>9, <1>10 DEF TasksOf
  <2>. HIDE DEF Rec
  <2>. QED
    BY <2>1, LenProperties
<1>12. \A i \in 1..n : recs[i] = TaskOf(tasks[i])
  BY <1>9 DEF TasksOf
<1>13. w = UpTo(b, recs)
  BY <1>9
<1>. HIDE DEF Rec, P
<1>14. w \in Seq(Rec) /\ Len(w) <= CategoryBudget /\ Len(w) <= n
  <2>1. w \in Seq(Rec) /\ Len(w) <= b /\ Len(w) <= Len(recs)
    BY <1>10, <1>13, UpToTypes
  <2>. QED
    BY <2>1, <1>11
<1>15. \A i \in 1..Len(w) : w[i] = recs[i]
  BY <1>10, <1>13, UpToTypes
<1>16. IsInjective(w)
  BY <1>10, <1>13, UpToInjective
<1>17. Len(w) \in Nat /\ DOMAIN w = 1..Len(w)
  BY <1>14, LenProperties
<1>7b. \A q \in 0..(m - 1), r \in 0..(D - 1) :
          Place(D, q, r) \in 1..Len(tasks) /\ tasks[Place(D, q, r)] = <<offered[q + 1], depths[r + 1]>>
  BY ONLY <1>7 DEF PairsOf
<1>18. ASSUME NEW i \in 1..Len(w), w[i].page > 1
       PROVE  i > 1 /\ w[i - 1] = [w[i] EXCEPT !.page = @ - 1]
  <2>1. i \in 1..n /\ w[i] = recs[i]
    <3>1. i \in 1..n
      BY <1>14, <1>17
    <3>. QED
      BY <1>15, <3>1
  <2>2. PICK q \in 0..(m - 1), r \in 0..(D - 1) : i = Place(D, q, r) /\ tasks[i] = <<offered[q + 1], depths[r + 1]>>
    BY <1>7, <2>1 DEF PairsOf
  <2>3. r + 1 \in 1..D /\ depths[r + 1] = r + 1
    BY <1>b
  <2>. PICK o : o = offered[q + 1]
    OBVIOUS
  <2>. PICK k \in Nat : k = r + 1
    OBVIOUS
  <2>4. w[i] = [category |-> o[1], site |-> o[2], page |-> k]
    <3>1. tasks[i] = <<o, k>>
      BY <2>2, <2>3
    <3>2. w[i] = TaskOf(<<o, k>>)
      BY <1>12, <2>1, <3>1
    <3>. QED
      BY <3>2 DEF TaskOf
  <2>5. k > 1
    BY <1>18, <2>4
  <2>. PICK j \in Nat : j = r - 1
    BY <2>5
  <2>6. j \in 0..(D - 1) /\ j + 1 = r /\ r \in 1..D
    BY <2>5
  <2>7. Place(D, q, j) \in 1..n /\ tasks[Place(D, q, j)] = <<o, r>>
    <3>1. tasks[Place(D, q, j)] = <<offered[q + 1], depths[j + 1]>> /\ Place(D, q, j) \in 1..n
      BY <1>7b, <2>6
    <3>2. depths[j + 1] = r
      BY <1>b, <2>6
    <3>. QED
      BY <3>1, <3>2
  <2>8. Place(D, q, j) = i - 1
    <3>1. i = D * q + r + 1
      BY <2>2 DEF Place
    <3>2. Place(D, q, j) = D * q + j + 1
      BY DEF Place
    <3>3. D * q \in Nat
      OBVIOUS
    <3>. QED
      BY <2>6, <3>1, <3>2, <3>3
  <2>9. i - 1 \in 1..Len(w) /\ i > 1
    BY <1>17, <2>7, <2>8
  <2>10. recs[i - 1] = [category |-> o[1], site |-> o[2], page |-> r]
    <3>1. tasks[i - 1] = <<o, r>> /\ i - 1 \in 1..n
      BY <2>7, <2>8
    <3>2. recs[i - 1] = TaskOf(<<o, r>>)
      BY <1>12, <3>1
    <3>. QED
      BY <3>2 DEF TaskOf
  <2>11. w[i - 1] = [category |-> o[1], site |-> o[2], page |-> r]
    BY <1>15, <2>9, <2>10
  <2>12. [w[i] EXCEPT !.page = @ - 1] = [category |-> o[1], site |-> o[2], page |-> k - 1]
    <3>. PICK d : d = w[i]
      OBVIOUS
    <3>1. d = [category |-> o[1], site |-> o[2], page |-> k]
      BY <2>4
    <3>2. [d EXCEPT !.page = @ - 1] = [category |-> o[1], site |-> o[2], page |-> k - 1]
      BY ONLY k \in Nat, <3>1, OnePageLess
    <3>. QED
      BY <3>2
  <2>13. k - 1 = r
    OBVIOUS
  <2>. QED
    BY <2>9, <2>11, <2>12, <2>13
<1>. QED
  BY <1>14, <1>16, <1>17, <1>18

\* The searches: none twice, and all sites for a term whose last is in the plan.
LEMMA SearchTasksTypes ==
  ASSUME NEW terms \in Prioritized(Terms), NEW w, w = SearchTasks(terms)
  PROVE  /\ Len(w) \in Nat /\ Len(w) <= SearchBudget /\ IsInjective(w) /\ DOMAIN w = 1..Len(w)
         /\ \A i \in DOMAIN w : i + Len(Sites) <= Len(w) =>
               \A s \in Range(Sites) : <<w[i][1], s>> \in Range(w)
<1>1. terms \in Seq(Terms) /\ IsInjective(terms)
  BY PrioConstants, PlannedOrder
<1>2. Sites \in Seq(Range(Sites)) /\ IsInjective(Sites)
  BY PrioConstants
<1>. PICK pairs : pairs = Crossed(terms, Sites)
  OBVIOUS
<1>3. pairs \in Seq(Terms \X Range(Sites)) /\ IsInjective(pairs)
  BY <1>1, <1>2, CrossedTypes, CrossedInjective
<1>. PICK m \in Nat : m = Len(terms)
  BY <1>1, LenProperties
<1>. PICK D \in Nat : D = Len(Sites) /\ DOMAIN Sites = 1..D
  BY <1>2, LenProperties
<1>4. PairsOf(pairs, terms, Sites, m, D)
  BY <1>1, <1>2, CrossedPairs
<1>. PICK n \in Nat : n = Len(pairs)
  BY <1>3, LenProperties
<1>5. w = UpTo(SearchBudget, pairs)
  BY DEF SearchTasks
<1>6. w \in Seq(Terms \X Range(Sites)) /\ Len(w) <= SearchBudget /\ Len(w) <= n
  BY <1>3, <1>5, BudgetParts, UpToTypes
<1>7. \A i \in 1..Len(w) : w[i] = pairs[i]
  BY <1>3, <1>5, BudgetParts, UpToTypes
<1>8. IsInjective(w)
  BY <1>3, <1>5, BudgetParts, UpToInjective
<1>9. Len(w) \in Nat /\ DOMAIN w = 1..Len(w)
  BY <1>6, LenProperties
<1>10. ASSUME NEW i \in 1..Len(w), i + D <= Len(w), NEW s \in Range(Sites)
       PROVE  <<w[i][1], s>> \in Range(w)
  <2>1. i \in 1..n /\ w[i] = pairs[i]
    BY <1>6, <1>7, <1>9
  <2>2. PICK q \in 0..(m - 1), r \in 0..(D - 1) : i = Place(D, q, r) /\ pairs[i] = <<terms[q + 1], Sites[r + 1]>>
    BY <1>4, <2>1 DEF PairsOf
  <2>3. w[i][1] = terms[q + 1]
    BY <2>1, <2>2
  <2>4. PICK k \in 1..D : s = Sites[k]
    BY DEF Range
  <2>. PICK v \in 0..(D - 1) : v + 1 = k
    OBVIOUS
  <2>. PICK j : j = Place(D, q, v)
    OBVIOUS
  <2>5. j \in 1..n /\ pairs[j] = <<terms[q + 1], Sites[v + 1]>>
    BY <1>4 DEF PairsOf
  <2>6. j <= i + D
    <3>1. i = D * q + r + 1 /\ j = D * q + v + 1 /\ D * q \in Nat
      BY <2>2 DEF Place
    <3>. QED
      BY <3>1
  <2>7. j \in 1..Len(w)
    BY <1>9, <1>10, <2>5, <2>6
  <2>8. w[j] = <<terms[q + 1], s>>
    BY <1>7, <2>4, <2>5, <2>7
  <2>9. w[j] \in Range(w)
    BY <1>9, <2>7 DEF Range
  <2>. QED
    BY <2>3, <2>8, <2>9
<1>. QED
  BY <1>6, <1>8, <1>9, <1>10

\* The trending pages, for what is left.
LEMMA TrendingTasksTypes ==
  ASSUME NEW w, w = TrendingTasks
  PROVE  /\ Len(w) \in Nat /\ Len(w) <= Budget - CategoryBudget - SearchBudget /\ IsInjective(w)
<1>1. Sites \in Seq(Range(Sites)) /\ IsInjective(Sites) /\ Trending \in [Range(Sites) -> Nat]
  BY PrioConstants
<1>. PICK S : S = Range(Trending) \cup {0}
  OBVIOUS
<1>2. S \subseteq Nat /\ IsFiniteSet(S) /\ S # {}
  <2>1. Range(Trending) \subseteq Nat
    BY <1>1 DEF Range
  <2>2. IsFiniteSet(Range(Sites))
    <3>1. Len(Sites) \in Nat /\ DOMAIN Sites = 1..Len(Sites)
      BY <1>1, LenProperties
    <3>2. IsFiniteSet(1..Len(Sites))
      BY <3>1, FS_Interval
    <3>3. Sites \in Surjection(1..Len(Sites), Range(Sites))
      BY <1>1, <3>1 DEF Surjection, Range
    <3>. QED
      BY <3>2, <3>3, FS_Surjection
  <2>3. Trending \in Surjection(Range(Sites), Range(Trending))
    <3>. PICK R : R = Range(Sites)
      OBVIOUS
    <3>1. Trending \in [R -> Nat]
      BY <1>1
    <3>2. Trending \in Surjection(R, Range(Trending))
      BY <3>1 DEF Surjection, Range
    <3>. QED
      BY <3>2
  <2>4. IsFiniteSet(Range(Trending))
    BY <2>2, <2>3, FS_Surjection
  <2>5. IsFiniteSet({0})
    BY FS_Singleton
  <2>6. IsFiniteSet(Range(Trending) \cup {0})
    BY <2>4, <2>5, FS_Union
  <2>. QED
    BY <2>1, <2>6
<1>. PICK most \in Nat : most = Max(S)
  BY <1>2, GreatestTypes
<1>. PICK numbers : numbers = [p \in 1..most |-> p]
  OBVIOUS
<1>3. numbers \in Seq(Nat) /\ IsInjective(numbers)
  BY PageNumbers
<1>. PICK crossing : crossing = Crossed(Sites, numbers)
  OBVIOUS
<1>4. crossing \in Seq(Range(Sites) \X Nat) /\ IsInjective(crossing)
  BY <1>1, <1>3, CrossedTypes, CrossedInjective
<1>. PICK wanted : wanted = Without(crossing, {x \in Range(crossing) : x[2] > Trending[x[1]]})
  OBVIOUS
<1>5. wanted \in Seq(Range(Sites) \X Nat) /\ IsInjective(wanted)
  BY <1>4, WithoutTypes, WithoutInjective
<1>6. w = UpTo(Budget - CategoryBudget - SearchBudget, wanted)
  BY DEF TrendingTasks
<1>. PICK n \in Nat : n = Budget - CategoryBudget - SearchBudget
  BY BudgetParts
<1>7. w \in Seq(Range(Sites) \X Nat) /\ Len(w) <= n
  BY <1>5, <1>6, UpToTypes
<1>8. IsInjective(w)
  BY <1>5, <1>6, UpToInjective
<1>. QED
  BY <1>7, <1>8, LenProperties

\* What generate_cycle enqueues.
LEMMA GenerateCyclePlans ==
  ASSUME GenerateCycle
  PROVE  PlanWithinBudget'
<1>1. PICK order \in Prioritized(Categories), terms \in Prioritized(Terms) :
         plan' = [category |-> CategoryTasks(order), search |-> SearchTasks(terms), trending |-> TrendingTasks]
  BY DEF GenerateCycle
<1>. PICK c : c = CategoryTasks(order)
  OBVIOUS
<1>. PICK s : s = SearchTasks(terms)
  OBVIOUS
<1>. PICK t : t = TrendingTasks
  OBVIOUS
<1>2. plan' = [category |-> c, search |-> s, trending |-> t]
  BY <1>1
<1>3. /\ Len(c) \in Nat /\ Len(c) <= CategoryBudget /\ IsInjective(c)
      /\ \A i \in DOMAIN c : c[i].page > 1 => i > 1 /\ c[i - 1] = [c[i] EXCEPT !.page = @ - 1]
  BY CategoryTasksTypes
<1>4. /\ Len(s) \in Nat /\ Len(s) <= SearchBudget /\ IsInjective(s)
      /\ \A i \in DOMAIN s : i + Len(Sites) <= Len(s) => \A x \in Range(Sites) : <<s[i][1], x>> \in Range(s)
  BY SearchTasksTypes
<1>5. Len(t) \in Nat /\ Len(t) <= Budget - CategoryBudget - SearchBudget /\ IsInjective(t)
  BY TrendingTasksTypes
<1>6. Len(c) + Len(s) + Len(t) <= Budget
  <2>1. Budget \in Nat
    BY PrioConstants
  <2>. QED
    BY <1>3, <1>4, <1>5, <2>1, BudgetParts
<1>7. plan'.category = c /\ plan'.search = s /\ plan'.trending = t /\ DOMAIN plan' = {"category", "search", "trending"}
  BY <1>2
<1>8. \A kind \in DOMAIN plan' : IsInjective(plan'[kind])
  BY <1>3, <1>4, <1>5, <1>7
<1>. QED
  BY <1>3, <1>4, <1>6, <1>7, <1>8 DEF PlanWithinBudget

-----------------------------------------------------------------------------
\* What is counted of a category.
StatsRecord == [listings : Nat, opps : Nat, good : Nat, roi : Nat, cycles : Nat, pages : MinPages..MostPages]
StatsOK(s) == s \in [DOMAIN s -> StatsRecord]

PrioInv == StatsOK(stats) /\ StatsOK(disk) /\ PlanWithinBudget

LEMMA NewStatsTypes == NewStats \in StatsRecord
<1>1. BasePages \in MinPages..MostPages /\ 0 \in Nat
  BY PrioConstants
<1>. QED
  BY <1>1 DEF NewStats, StatsRecord

LEMMA OfTypes ==
  ASSUME StatsOK(stats), NEW c
  PROVE  Of(c) \in StatsRecord
<1>1. CASE c \in DOMAIN stats
  BY <1>1 DEF Of, StatsOK
<1>2. CASE c \notin DOMAIN stats
  BY <1>2, NewStatsTypes DEF Of
<1>. QED
  BY <1>1, <1>2

LEMMA WithTypes ==
  ASSUME StatsOK(stats), NEW c, NEW s \in StatsRecord
  PROVE  StatsOK(With(c, s))
BY DEF With, StatsOK

\* A score is a number.
LEMMA ScoreTypes ==
  ASSUME NEW s \in StatsRecord
  PROVE  Score(s) \in Int
<1>1. s.opps \in Nat /\ s.good \in Nat /\ s.roi \in Nat /\ s.cycles \in Nat
  BY DEF StatsRecord
<1>2. CASE s.cycles = 0
  BY <1>2 DEF Score
<1>3. CASE s.cycles # 0
  <2>. PICK d \in Nat : d = s.cycles /\ d > 0
    BY <1>1, <1>3
  <2>. PICK a \in Nat : a = s.opps * 400
    BY <1>1
  <2>. PICK b \in Nat : b = s.good * 600
    BY <1>1
  <2>1. a \div d \in Nat /\ b \div d \in Nat
    BY DivMod
  <2>. PICK x \in Nat : x = a \div d
    BY <2>1
  <2>. PICK y \in Nat : y = b \div d
    BY <2>1
  <2>2. Score(s) = x + y + s.roi * 10
    BY <1>3 DEF Score
  <2>. QED
    BY <1>1, <2>2
<1>. QED
  BY <1>2, <1>3

LEMMA PagesForTypes ==
  ASSUME NEW score, NEW best
  PROVE  PagesFor(score, best) \in MinPages..MostPages
<1>0. /\ MinPages \in Nat \ {0} /\ MostPages \in Nat \ {0} /\ BasePages \in MinPages..MostPages
  BY PrioConstants
<1>. PICK h \in Nat : h = BasePages \div 2 /\ h <= BasePages
  BY <1>0
<1>. PICK d \in Nat : d = 2 * BasePages /\ d >= BasePages
  BY <1>0
<1>1. Min({d, MostPages}) \in MinPages..MostPages
  <2>1. MostPages \in Int /\ d \in Int
    BY <1>0
  <2>2. Min({d, MostPages}) \in {d, MostPages} /\ Min({d, MostPages}) <= MostPages
    BY <2>1, SmallerOfTwo
  <2>. QED
    BY <1>0, <2>2
<1>2. Max({h, MinPages}) \in MinPages..MostPages
  <2>1. MinPages \in Int /\ h \in Int
    BY <1>0
  <2>2. Max({h, MinPages}) \in {h, MinPages} /\ Max({h, MinPages}) >= MinPages
    BY <2>1, GreaterOfTwo
  <2>. QED
    BY <1>0, <2>2
<1>3. PagesFor(score, best) \in {Min({d, MostPages}), Max({h, MinPages}), BasePages}
  BY DEF PagesFor
<1>. QED
  BY <1>0, <1>1, <1>2, <1>3

LEMMA RecordScrapeKeeps ==
  ASSUME StatsOK(stats), NEW c, RecordScrape(c)
  PROVE  StatsOK(stats)'
<1>. PICK o \in StatsRecord : o = Of(c)
  BY OfTypes
<1>1. PICK n \in Yields : stats' = With(c, [o EXCEPT !.listings = @ + n, !.cycles = @ + 1])
  BY DEF RecordScrape
<1>2. n \in Nat
  BY PrioConstants
<1>. PICK l \in Nat : l = o.listings + n
  BY <1>2 DEF StatsRecord
<1>. PICK k \in Nat : k = o.cycles + 1
  BY DEF StatsRecord
<1>. DEFINE d == [o EXCEPT !.listings = l, !.cycles = k]
<1>3. d \in StatsRecord
  BY DEF StatsRecord
<1>4. stats' = With(c, d)
  BY <1>1
<1>. HIDE DEF d
<1>5. StatsOK(With(c, d))
  BY <1>3, WithTypes
<1>. QED
  BY <1>4, <1>5 DEF StatsOK

LEMMA RecordOpportunitiesKeeps ==
  ASSUME StatsOK(stats), NEW c, RecordOpportunities(c)
  PROVE  StatsOK(stats)'
<1>. PICK o \in StatsRecord : o = Of(c)
  BY OfTypes
<1>1. PICK r \in Reports :
         stats' = With(c, [o EXCEPT !.opps = @ + r.found, !.good = @ + r.profitable,
                       !.roi = IF r.roi = 0 THEN @ ELSE IF @ = 0 THEN r.roi
                               ELSE (@ * 7 + r.roi * 3) \div 10])
  BY DEF RecordOpportunities
<1>2. r.found \in Nat /\ r.profitable \in Nat /\ r.roi \in Nat
  BY PrioConstants
<1>3. o.opps \in Nat /\ o.good \in Nat /\ o.roi \in Nat
  BY DEF StatsRecord
<1>. PICK f \in Nat : f = o.opps + r.found
  BY <1>2, <1>3
<1>. PICK g \in Nat : g = o.good + r.profitable
  BY <1>2, <1>3
<1>. PICK i \in Nat : i = IF r.roi = 0 THEN o.roi ELSE IF o.roi = 0 THEN r.roi ELSE (o.roi * 7 + r.roi * 3) \div 10
  BY <1>2, <1>3
<1>. DEFINE d == [o EXCEPT !.opps = f, !.good = g, !.roi = i]
<1>4. d \in StatsRecord
  BY DEF StatsRecord
<1>5. stats' = With(c, d)
  BY <1>1
<1>. HIDE DEF d
<1>6. StatsOK(With(c, d))
  BY <1>4, WithTypes
<1>. QED
  BY <1>5, <1>6 DEF StatsOK

LEMMA DecayedTypes ==
  ASSUME NEW s \in StatsRecord
  PROVE  Decayed(s) \in StatsRecord
<1>1. s.listings \in Nat /\ s.opps \in Nat /\ s.good \in Nat
  BY DEF StatsRecord
<1>. PICK l \in Nat : l = (s.listings * 9) \div 10
  BY <1>1
<1>. PICK o \in Nat : o = (s.opps * 9) \div 10
  BY <1>1
<1>. PICK g \in Nat : g = (s.good * 9) \div 10
  BY <1>1
<1>2. Decayed(s) = [s EXCEPT !.listings = l, !.opps = o, !.good = g]
  BY DEF Decayed
<1>. QED
  BY <1>2 DEF StatsRecord

LEMMA RecalculateKeeps ==
  ASSUME StatsOK(stats), Recalculate
  PROVE  StatsOK(stats)' /\ disk' = stats'
<1>. DEFINE now == [c \in DOMAIN stats |-> Decayed(stats[c])]
            best == Max({Score(now[c]) : c \in DOMAIN now})
<1>1. \A c \in DOMAIN now : now[c] \in StatsRecord
  BY DecayedTypes DEF StatsOK
<1>. PICK depthOf : \A c \in DOMAIN now : depthOf[c] = PagesFor(Score(now[c]), IF best = 0 THEN 1000 ELSE best)
  <2>. HIDE DEF best, now
  <2>1. \E p : p = [c \in DOMAIN now |-> PagesFor(Score(now[c]), IF best = 0 THEN 1000 ELSE best)]
    OBVIOUS
  <2>. QED
    BY <2>1
<1>2. \A c \in DOMAIN now : depthOf[c] \in MinPages..MostPages
  <2>. HIDE DEF best, now
  <2>. QED
    BY PagesForTypes
<1>3. /\ stats' = [c \in DOMAIN now |-> [now[c] EXCEPT !.pages = PagesFor(Score(now[c]), IF best = 0 THEN 1000 ELSE best)]]
      /\ disk' = stats'
  BY DEF Recalculate
<1>. HIDE DEF now, best
<1>4. stats' = [c \in DOMAIN now |-> [now[c] EXCEPT !.pages = depthOf[c]]]
  BY <1>3
<1>5. \A c \in DOMAIN now : [now[c] EXCEPT !.pages = depthOf[c]] \in StatsRecord
  BY <1>1, <1>2 DEF StatsRecord
<1>6. DOMAIN stats' = DOMAIN now /\ stats' \in [DOMAIN now -> StatsRecord]
  BY <1>4, <1>5
<1>. QED
  BY <1>3, <1>6 DEF StatsOK

-----------------------------------------------------------------------------
CountsOnce(n, F) ==
    /\ \A i \in 1..n : Cardinality(F[i]) \in 0..(n - 1)
    /\ \A i, k \in 1..n : Cardinality(F[i]) = Cardinality(F[k]) => i = k
    /\ \A k \in 1..n : \E i \in 1..n : Cardinality(F[i]) = k - 1

\* In a strict order of n things, those that come before the i-th are as many
\* as its place, less one.
LEMMA PlacesAreOnce ==
  ASSUME NEW n \in Nat, NEW F,
         \A i \in 1..n : F[i] \in SUBSET ((1..n) \ {i}),
         \A i, k \in 1..n : i \in F[k] => F[i] \in SUBSET (F[k] \ {i}),
         \A i, k \in 1..n : i = k \/ i \in F[k] \/ k \in F[i]
  PROVE  CountsOnce(n, F)
<1>0. IsFiniteSet(1..n) /\ Cardinality(1..n) = n
  BY FS_Interval
<1>1. \A i \in 1..n : F[i] \in SUBSET ((1..n) \ {i})
  OBVIOUS
<1>2. \A i, k \in 1..n : i \in F[k] => F[i] \in SUBSET (F[k] \ {i})
  OBVIOUS
<1>3. \A i, k \in 1..n : i = k \/ i \in F[k] \/ k \in F[i]
  OBVIOUS
<1>6. ASSUME NEW i \in 1..n
      PROVE  IsFiniteSet(F[i]) /\ Cardinality(F[i]) \in 0..(n - 1)
  <2>1. IsFiniteSet((1..n) \ {i}) /\ Cardinality((1..n) \ {i}) = n - 1
    BY <1>0, FS_RemoveElement
  <2>2. F[i] \in SUBSET ((1..n) \ {i})
    BY <1>1
  <2>. PICK f : f = F[i]
    OBVIOUS
  <2>. PICK r : r = (1..n) \ {i}
    OBVIOUS
  <2>3. IsFiniteSet(f) /\ Cardinality(f) <= Cardinality(r)
    BY <2>1, <2>2, FS_Subset
  <2>4. Cardinality(f) \in Nat
    BY <2>3, FS_CardinalityType
  <2>. QED
    BY <2>1, <2>3, <2>4
<1>7. ASSUME NEW i \in 1..n, NEW k \in 1..n, i \in F[k]
      PROVE  Cardinality(F[i]) < Cardinality(F[k])
  <2>. PICK f : f = F[i]
    OBVIOUS
  <2>. PICK g : g = F[k]
    OBVIOUS
  <2>1. IsFiniteSet(g) /\ Cardinality(g) \in Nat /\ Cardinality(f) \in Nat /\ i \in g /\ f \in SUBSET (g \ {i})
    <3>1. IsFiniteSet(g) /\ Cardinality(g) \in 0..(n - 1) /\ Cardinality(f) \in 0..(n - 1)
      BY <1>6
    <3>2. i \in g /\ f \in SUBSET (g \ {i})
      BY <1>2, <1>7
    <3>. QED
      BY <3>1, <3>2
  <2>2. IsFiniteSet(g \ {i}) /\ Cardinality(g \ {i}) = Cardinality(g) - 1
    BY <2>1, FS_RemoveElement
  <2>3. Cardinality(f) <= Cardinality(g \ {i})
    BY <2>1, <2>2, FS_Subset
  <2>4. Cardinality(f) < Cardinality(g)
    BY <2>1, <2>2, <2>3
  <2>. QED
    BY <2>4
<1>8. ASSUME NEW i \in 1..n, NEW k \in 1..n, Cardinality(F[i]) = Cardinality(F[k])
      PROVE  i = k
  <2>. PICK c \in 0..(n - 1) : c = Cardinality(F[i])
    BY <1>6
  <2>1. Cardinality(F[i]) = c /\ Cardinality(F[k]) = c /\ ~(c < c)
    BY <1>8
  <2>2. i \notin F[k]
    <3>1. i \in F[k] => Cardinality(F[i]) < Cardinality(F[k])
      BY <1>7
    <3>. QED
      BY <2>1, <3>1
  <2>3. k \notin F[i]
    <3>1. k \in F[i] => Cardinality(F[k]) < Cardinality(F[i])
      BY <1>7
    <3>. QED
      BY <2>1, <3>1
  <2>. QED
    BY <1>3, <2>2, <2>3
<1>9. PICK rank : rank = [i \in 1..n |-> Cardinality(F[i])]
  OBVIOUS
<1>10. rank \in [1..n -> 0..(n - 1)] /\ IsInjective(rank)
  <2>1. \A i \in 1..n : rank[i] = Cardinality(F[i])
    BY <1>9
  <2>2. rank \in [1..n -> 0..(n - 1)]
    BY <1>6, <1>9
  <2>. QED
    <3>1. DOMAIN rank = 1..n
      BY <2>2
    <3>2. \A i, k \in 1..n : rank[i] = rank[k] => i = k
      BY <1>8, <2>1
    <3>3. IsInjective(rank)
      BY <3>1, <3>2 DEF IsInjective
    <3>. QED
      BY <2>2, <3>3
<1>11. rank \in Injection(1..n, 0..(n - 1))
  BY <1>10 DEF Injection
<1>12. IsFiniteSet(0..(n - 1)) /\ Cardinality(0..(n - 1)) = n
  BY FS_Interval
<1>13. rank \in Surjection(1..n, 0..(n - 1))
  <2>. PICK T : T = 0..(n - 1)
    OBVIOUS
  <2>. PICK U : U = 1..n
    OBVIOUS
  <2>1. Cardinality(U) = Cardinality(T) <=> rank \in Surjection(U, T)
    BY <1>11, <1>12, FS_Injection
  <2>. QED
    BY <1>0, <1>12, <2>1
<1>14. ASSUME NEW k \in 1..n
       PROVE  \E i \in 1..n : Cardinality(F[i]) = k - 1
  <2>1. k - 1 \in 0..(n - 1)
    OBVIOUS
  <2>2. PICK i \in 1..n : rank[i] = k - 1
    BY <1>13, <2>1 DEF Surjection
  <2>. QED
    BY <1>9, <2>2
<1>. QED
  BY <1>6, <1>8, <1>14 DEF CountsOnce

\* Of n things with a score each, those that come before each of them.
Earlier(n, score) ==
    [i \in 1..n |-> {j \in 1..n : score[j] > score[i] \/ (score[j] = score[i] /\ j < i)}]

LEMMA RanksAreOnce ==
  ASSUME NEW n \in Nat, NEW score \in [1..n -> Int], NEW E, E = Earlier(n, score)
  PROVE  CountsOnce(n, E)
<1>a. \A i \in 1..n : E[i] = {j \in 1..n : score[j] > score[i] \/ (score[j] = score[i] /\ j < i)}
  BY DEF Earlier
<1>b. \A i \in 1..n : score[i] \in Int /\ i \in Int
  OBVIOUS
<1>1. ASSUME NEW i \in 1..n
      PROVE  E[i] \in SUBSET ((1..n) \ {i})
  BY <1>a, <1>b
<1>2. ASSUME NEW i \in 1..n, NEW k \in 1..n, i \in E[k]
      PROVE  E[i] \in SUBSET (E[k] \ {i})
  <2>1. score[i] > score[k] \/ (score[i] = score[k] /\ i < k)
    BY <1>2, <1>a
  <2>2. \A j \in E[i] : j \in 1..n /\ (score[j] > score[i] \/ (score[j] = score[i] /\ j < i))
    BY <1>a
  <2>3. \A j \in E[i] : j \in E[k] /\ j # i
    BY <1>a, <1>b, <2>1, <2>2
  <2>. QED
    BY <2>3
<1>3. \A i, k \in 1..n : i = k \/ i \in E[k] \/ k \in E[i]
  BY <1>a, <1>b
<1>4. /\ \A i \in 1..n : E[i] \in SUBSET ((1..n) \ {i})
      /\ \A i, k \in 1..n : i \in E[k] => E[i] \in SUBSET (E[k] \ {i})
  BY <1>1, <1>2
<1>. QED
  BY ONLY n \in Nat, <1>3, <1>4, PlacesAreOnce

\* Ranking moves the elements of a sequence about.
LEMMA RankedTypes ==
  ASSUME NEW S, NEW s \in Seq(S), \A c \in S : Score(Of(c)) \in Int, NEW w, w = Ranked(s)
  PROVE  /\ w \in Seq(S) /\ Range(w) = Range(s)
         /\ IsInjective(s) => IsInjective(w)
<1>. PICK n \in Nat : n = Len(s) /\ DOMAIN s = 1..n /\ \A i \in 1..n : s[i] \in S
  BY LenProperties, ElementOfSeq
<1>1. PICK score \in [1..n -> Int] : \A i \in 1..n : score[i] = Score(Of(s[i]))
  <2>. PICK z : z = [i \in 1..n |-> Score(Of(s[i]))]
    OBVIOUS
  <2>1. z \in [1..n -> Int] /\ \A i \in 1..n : z[i] = Score(Of(s[i]))
    OBVIOUS
  <2>. QED
    BY <2>1
<1>2. PICK E : E = Earlier(n, score)
  OBVIOUS
<1>b. CountsOnce(n, E)
  BY <1>2, RanksAreOnce
<1>3. \A i, k \in 1..n : Cardinality(E[i]) = Cardinality(E[k]) => i = k
  BY <1>b DEF CountsOnce
<1>4. \A k \in 1..n : \E i \in 1..n : Cardinality(E[i]) = k - 1
  BY <1>b DEF CountsOnce
<1>5. \A i \in 1..n : Cardinality(E[i]) \in 0..(n - 1)
  BY <1>b DEF CountsOnce
<1>6. \A i \in 1..n : {j \in DOMAIN s : Before(s, j, i)} = E[i]
  BY <1>1, <1>2 DEF Before, Earlier
<1>7. \A k \in 1..n : \E i \in 1..n : w[k] = s[i] /\ Cardinality(E[i]) = k - 1
  <2>. SUFFICES ASSUME NEW k \in 1..n PROVE \E i \in 1..n : w[k] = s[i] /\ Cardinality(E[i]) = k - 1
    OBVIOUS
  <2>. DEFINE P(i) == Cardinality({j \in DOMAIN s : Before(s, j, i)}) = k - 1
  <2>1. \E i \in DOMAIN s : P(i)
    BY <1>4, <1>6
  <2>2. w[k] = s[CHOOSE i \in DOMAIN s : P(i)]
    BY DEF Ranked
  <2>. PICK i : i = CHOOSE m \in DOMAIN s : P(m)
    OBVIOUS
  <2>3. i \in 1..n /\ P(i)
    <3>. HIDE DEF P
    <3>. QED
      BY <2>1
  <2>4. Cardinality(E[i]) = k - 1
    BY <1>6, <2>3
  <2>. QED
    BY <2>2, <2>3, <2>4
<1>8. DOMAIN w = 1..n /\ w = [k \in 1..n |-> w[k]]
  BY DEF Ranked
<1>a. DOMAIN w = 1..n
  BY <1>8
<1>9. w \in Seq(S)
  <2>1. \A k \in 1..n : w[k] \in S
    BY <1>7
  <2>2. w \in [1..n -> S]
    BY <1>8, <2>1
  <2>. QED
    BY ONLY n \in Nat, <2>2, SeqOfFunction
<1>10. \A i \in 1..n : \E k \in 1..n : w[k] = s[i]
  <2>. SUFFICES ASSUME NEW i \in 1..n PROVE \E k \in 1..n : w[k] = s[i]
    OBVIOUS
  <2>. PICK c \in 0..(n - 1) : c = Cardinality(E[i])
    BY <1>5
  <2>. PICK k \in 1..n : k = c + 1
    OBVIOUS
  <2>1. PICK j \in 1..n : w[k] = s[j] /\ Cardinality(E[j]) = k - 1
    BY <1>7
  <2>2. k - 1 = c
    OBVIOUS
  <2>3. i = j
    BY <1>3, <2>1, <2>2
  <2>. QED
    BY <2>1, <2>3
<1>11. Range(w) = Range(s)
  <2>1. Range(w) \subseteq Range(s)
    <3>1. \A k \in 1..n : w[k] \in Range(s)
      BY <1>7 DEF Range
    <3>. QED
      BY <1>a, <3>1 DEF Range
  <2>2. Range(s) \subseteq Range(w)
    <3>1. \A i \in 1..n : s[i] \in Range(w)
      BY <1>a, <1>10 DEF Range
    <3>. QED
      BY <3>1 DEF Range
  <2>. QED
    BY <2>1, <2>2
<1>12. ASSUME IsInjective(s) PROVE IsInjective(w)
  <2>1. ASSUME NEW k \in 1..n, NEW l \in 1..n, w[k] = w[l] PROVE k = l
    <3>1. PICK i \in 1..n : w[k] = s[i] /\ Cardinality(E[i]) = k - 1
      BY <1>7
    <3>2. PICK j \in 1..n : w[l] = s[j] /\ Cardinality(E[j]) = l - 1
      BY <1>7
    <3>3. i = j
      BY <1>12, <2>1, <3>1, <3>2 DEF IsInjective
    <3>4. k - 1 = l - 1
      BY <3>1, <3>2, <3>3
    <3>. QED
      BY <3>4
  <2>. QED
    BY <1>8, <2>1 DEF IsInjective
<1>. QED
  BY <1>9, <1>11, <1>12

\* w has what s and t have together, and nothing twice.
Unites(S, s, t, w) == w \in Seq(S) /\ Range(w) = Range(s) \cup Range(t) /\ IsInjective(w)
Apart(s, t) == \A x \in Range(s) : x \notin Range(t)

\* Two sequences without an element twice or in both, one after the other.
LEMMA JoinedInjective ==
  ASSUME NEW S, NEW s \in Seq(S), NEW t \in Seq(S), IsInjective(s), IsInjective(t),
         Apart(s, t), NEW w, w = s \o t
  PROVE  Unites(S, s, t, w)
<1>. PICK m \in Nat : m = Len(s) /\ DOMAIN s = 1..m
  BY LenProperties
<1>. PICK n \in Nat : n = Len(t) /\ DOMAIN t = 1..n
  BY LenProperties
<1>1. w \in Seq(S) /\ Len(w) = m + n /\ \A i \in 1..(m + n) : w[i] = IF i <= m THEN s[i] ELSE t[i - m]
  BY ConcatProperties
<1>2. DOMAIN w = 1..(m + n)
  BY <1>1, LenProperties
<1>3. \A i \in 1..(m + n) : (i <= m => i \in 1..m) /\ (~(i <= m) => i - m \in 1..n)
  OBVIOUS
<1>4. ASSUME NEW i \in 1..(m + n), NEW j \in 1..(m + n), w[i] = w[j]
      PROVE  i = j
  <2>1. CASE i <= m /\ j <= m
    BY <1>1, <1>3, <1>4, <2>1 DEF IsInjective
  <2>2. CASE ~(i <= m) /\ ~(j <= m)
    <3>1. w[i] = t[i - m] /\ w[j] = t[j - m] /\ i - m \in 1..n /\ j - m \in 1..n
      BY <1>1, <1>3, <2>2
    <3>2. i - m = j - m
      BY <1>4, <3>1 DEF IsInjective
    <3>. QED
      BY <3>2
  <2>3. CASE i <= m /\ ~(j <= m)
    <3>1. w[i] = s[i] /\ i \in 1..m /\ w[j] = t[j - m] /\ j - m \in 1..n
      BY <1>1, <1>3, <2>3
    <3>2. w[i] \in Range(s) /\ w[j] \in Range(t)
      BY <3>1 DEF Range
    <3>. QED
      BY <1>4, <3>2 DEF Apart
  <2>4. CASE ~(i <= m) /\ j <= m
    <3>1. w[j] = s[j] /\ j \in 1..m /\ w[i] = t[i - m] /\ i - m \in 1..n
      BY <1>1, <1>3, <2>4
    <3>2. w[j] \in Range(s) /\ w[i] \in Range(t)
      BY <3>1 DEF Range
    <3>. QED
      BY <1>4, <3>2 DEF Apart
  <2>. QED
    BY <2>1, <2>2, <2>3, <2>4
<1>5. Range(w) = Range(s) \cup Range(t)
  BY RangeConcatenation
<1>. QED
  BY <1>1, <1>2, <1>4, <1>5 DEF IsInjective, Unites

\* The two halves of a sequence.
LEMMA HalvesTypes ==
  ASSUME NEW S, NEW s \in Seq(S), IsInjective(s), NEW mid \in 0..Len(s),
         NEW a, a = SubSeq(s, 1, mid), NEW b, b = SubSeq(s, mid + 1, Len(s))
  PROVE  /\ a \in Seq(S) /\ b \in Seq(S) /\ IsInjective(a) /\ IsInjective(b)
         /\ Unites(S, a, b, s) /\ Apart(a, b)
<1>. PICK n \in Nat : n = Len(s) /\ DOMAIN s = 1..n /\ \A i \in 1..n : s[i] \in S
  BY LenProperties, ElementOfSeq
<1>. PICK k \in Nat : k = mid /\ k <= n
  OBVIOUS
<1>1. a \in Seq(S) /\ Len(a) = k /\ \A i \in 1..k : a[i] = s[i]
  <2>1. \A i \in 1..k : s[i] \in S
    OBVIOUS
  <2>2. a \in Seq(S) /\ Len(a) = (IF 1 <= k THEN k - 1 + 1 ELSE 0) /\ \A i \in 1..(k - 1 + 1) : a[i] = s[1 + i - 1]
    BY ONLY k \in Nat, <2>1, a = SubSeq(s, 1, mid), k = mid, SubSeqProperties
  <2>3. \A i \in 1..k : i \in 1..(k - 1 + 1) /\ 1 + i - 1 = i
    OBVIOUS
  <2>. QED
    BY <2>2, <2>3
<1>2. b \in Seq(S) /\ Len(b) = n - k /\ \A i \in 1..(n - k) : b[i] = s[k + i]
  <2>. PICK l \in Nat : l = k + 1
    OBVIOUS
  <2>1. \A i \in l..n : s[i] \in S
    OBVIOUS
  <2>2. b \in Seq(S) /\ Len(b) = (IF l <= n THEN n - l + 1 ELSE 0) /\ \A i \in 1..(n - l + 1) : b[i] = s[l + i - 1]
    <3>1. b = SubSeq(s, l, n)
      OBVIOUS
    <3>. QED
      BY ONLY l \in Nat, n \in Nat, <2>1, <3>1, SubSeqProperties
  <2>3. \A i \in 1..(n - k) : i \in 1..(n - l + 1) /\ l + i - 1 = k + i
    OBVIOUS
  <2>4. Len(b) = n - k
    BY <2>2
  <2>. QED
    BY <2>2, <2>3, <2>4
<1>3. DOMAIN a = 1..k /\ DOMAIN b = 1..(n - k)
  BY <1>1, <1>2, LenProperties
<1>4. IsInjective(a)
  BY <1>1, <1>3 DEF IsInjective
<1>5. IsInjective(b)
  <2>1. ASSUME NEW i \in 1..(n - k), NEW j \in 1..(n - k), b[i] = b[j] PROVE i = j
    <3>1. s[k + i] = s[k + j] /\ k + i \in 1..n /\ k + j \in 1..n
      BY <1>2, <2>1
    <3>2. k + i = k + j
      BY <3>1 DEF IsInjective
    <3>. QED
      BY <3>2
  <2>. QED
    BY <1>3, <2>1 DEF IsInjective
<1>6. Apart(a, b)
  <2>1. ASSUME NEW i \in 1..k, NEW j \in 1..(n - k), a[i] = b[j] PROVE FALSE
    <3>1. s[i] = s[k + j] /\ i \in 1..n /\ k + j \in 1..n
      BY <1>1, <1>2, <2>1
    <3>2. i = k + j
      BY <3>1 DEF IsInjective
    <3>. QED
      BY <3>2
  <2>. QED
    BY <1>3, <2>1 DEF Range, Apart
<1>7. Range(a) \cup Range(b) = Range(s)
  <2>1. \A i \in 1..k : a[i] \in Range(s)
    BY <1>1 DEF Range
  <2>2. ASSUME NEW i \in 1..(n - k) PROVE b[i] \in Range(s)
    <3>1. k + i \in 1..n /\ b[i] = s[k + i]
      BY <1>2
    <3>. QED
      BY <3>1 DEF Range
  <2>3. ASSUME NEW i \in 1..n PROVE s[i] \in Range(a) \cup Range(b)
    <3>1. CASE i <= k
      <4>1. i \in 1..k /\ a[i] = s[i]
        BY <1>1, <3>1
      <4>. QED
        BY <1>3, <4>1 DEF Range
    <3>2. CASE ~(i <= k)
      <4>. PICK j \in 1..(n - k) : k + j = i
        <5>1. i - k \in 1..(n - k) /\ k + (i - k) = i
          BY <3>2
        <5>. QED
          BY <5>1
      <4>1. b[j] = s[i]
        BY <1>2
      <4>. QED
        BY <1>3, <4>1 DEF Range
    <3>. QED
      BY <3>1, <3>2
  <2>4. Range(a) \subseteq Range(s)
    BY <1>3, <2>1 DEF Range
  <2>5. Range(b) \subseteq Range(s)
    BY <1>3, <2>2 DEF Range
  <2>6. \A x \in Range(s) : x \in Range(a) \cup Range(b)
    <3>. PICK U : U = Range(a) \cup Range(b)
      OBVIOUS
    <3>1. \A i \in 1..n : s[i] \in U
      BY <2>3
    <3>2. \A x \in Range(s) : x \in U
      BY <3>1 DEF Range
    <3>. QED
      BY <3>2
  <2>. QED
    BY <2>4, <2>5, <2>6
<1>8. Unites(S, a, b, s)
  BY <1>7 DEF Unites
<1>. QED
  BY <1>1, <1>2, <1>4, <1>5, <1>6, <1>8

\* The order has what it is given, each once.
LEMMA OrderTypes ==
  ASSUME NEW S, NEW cats \in Seq(S), IsInjective(cats), \A c \in S : Score(Of(c)) \in Int
  PROVE  IsInjective(Order(cats)) /\ Range(Order(cats)) = Range(cats)
<1>1. PICK unknown : unknown = {c \in Range(cats) : Of(c).cycles = 0}
  OBVIOUS
<1>2. PICK unscored : unscored = Without(cats, Range(cats) \ unknown)
  OBVIOUS
<1>3. PICK known : known = Without(cats, unknown)
  OBVIOUS
<1>4. PICK ranked : ranked = Ranked(known)
  OBVIOUS
<1>5. unscored \in Seq(S) /\ IsInjective(unscored) /\ Range(unscored) = Range(cats) \cap unknown
  <2>. PICK T : T = Range(cats) \ unknown
    OBVIOUS
  <2>1. unscored \in Seq(S)
    BY <1>2, WithoutTypes
  <2>2. IsInjective(unscored)
    BY <1>2, WithoutInjective
  <2>3. Range(unscored) = Range(cats) \ T
    BY <1>2, WithoutRange
  <2>. QED
    BY <2>1, <2>2, <2>3
<1>6. known \in Seq(S) /\ IsInjective(known) /\ Range(known) = Range(cats) \ unknown
  <2>1. known \in Seq(S)
    BY <1>3, WithoutTypes
  <2>2. IsInjective(known)
    BY <1>3, WithoutInjective
  <2>3. Range(known) = Range(cats) \ unknown
    BY <1>3, WithoutRange
  <2>. QED
    BY <2>1, <2>2, <2>3
<1>7. ranked \in Seq(S) /\ IsInjective(ranked) /\ Range(ranked) = Range(known)
  BY <1>4, <1>6, RankedTypes
<1>8. PICK n \in Nat : n = Len(ranked)
  BY <1>7, LenProperties
<1>9. PICK mid \in 0..n : mid = n \div 2
  BY <1>8
<1>10. PICK a : a = SubSeq(ranked, 1, mid)
  OBVIOUS
<1>11. PICK b : b = SubSeq(ranked, mid + 1, Len(ranked))
  OBVIOUS
<1>12. /\ a \in Seq(S) /\ b \in Seq(S) /\ IsInjective(a) /\ IsInjective(b)
       /\ Unites(S, a, b, ranked) /\ Apart(a, b)
  <2>1. mid \in 0..Len(ranked) /\ ranked \in Seq(S) /\ IsInjective(ranked)
    BY <1>7, <1>8, <1>9
  <2>. QED
    BY ONLY <1>10, <1>11, <2>1, HalvesTypes
<1>a. Range(a) \cup Range(b) = Range(ranked)
  BY <1>12 DEF Unites
<1>13. PICK front : front = a \o unscored
  OBVIOUS
<1>14. Unites(S, a, unscored, front)
  <2>1. Apart(a, unscored)
    BY <1>5, <1>6, <1>7, <1>a DEF Apart
  <2>2. a \in Seq(S) /\ unscored \in Seq(S) /\ IsInjective(a) /\ IsInjective(unscored)
    BY <1>5, <1>12
  <2>. QED
    BY ONLY <1>13, <2>1, <2>2, JoinedInjective
<1>b. front \in Seq(S) /\ IsInjective(front) /\ Range(front) = Range(a) \cup Range(unscored)
  BY <1>14 DEF Unites
<1>15. PICK all : all = front \o b
  OBVIOUS
<1>16. Unites(S, front, b, all)
  <2>1. Apart(front, b)
    BY <1>5, <1>6, <1>7, <1>12, <1>a, <1>b DEF Apart
  <2>2. front \in Seq(S) /\ b \in Seq(S) /\ IsInjective(front) /\ IsInjective(b)
    BY <1>b, <1>12
  <2>. QED
    BY ONLY <1>15, <2>1, <2>2, JoinedInjective
<1>c. IsInjective(all) /\ Range(all) = Range(front) \cup Range(b)
  BY <1>16 DEF Unites
<1>17. Range(all) = Range(cats)
  <2>1. Range(all) = (Range(a) \cup Range(b)) \cup Range(unscored)
    BY <1>b, <1>c
  <2>. QED
    BY <1>5, <1>6, <1>7, <1>a, <2>1
<1>18. Order(cats) = all
  <2>1. Order(cats) = SubSeq(ranked, 1, Len(ranked) \div 2) \o unscored \o SubSeq(ranked, (Len(ranked) \div 2) + 1, Len(ranked))
    BY <1>1, <1>2, <1>3, <1>4 DEF Order
  <2>2. Len(ranked) \div 2 = mid
    BY <1>8, <1>9
  <2>. QED
    BY <1>10, <1>11, <1>13, <1>15, <2>1, <2>2
<1>. QED
  BY <1>c, <1>17, <1>18

\* A finite set as a sequence.
LEMMA SetToSeqTypes ==
  ASSUME NEW S, IsFiniteSet(S)
  PROVE  SetToSeq(S) \in Seq(S) /\ IsInjective(SetToSeq(S)) /\ Range(SetToSeq(S)) = S
<1>1. PICK n \in Nat : n = Cardinality(S)
  BY FS_CardinalityType
<1>2. \E f : f \in Bijection(1..n, S)
  <2>1. ExistsBijection(1..Cardinality(S), S)
    BY FS_CardinalityType
  <2>. QED
    BY <1>1, <2>1 DEF ExistsBijection
<1>3. \E f \in [1..n -> S] : IsInjective(f)
  BY <1>2 DEF Bijection, Injection
<1>4. PICK s : s = SetToSeq(S)
  OBVIOUS
<1>5. s \in [1..n -> S] /\ IsInjective(s)
  BY <1>1, <1>3, <1>4 DEF SetToSeq
<1>6. s \in Injection(1..n, S)
  BY <1>5 DEF Injection
<1>7. IsFiniteSet(1..n) /\ Cardinality(1..n) = n
  BY <1>1, FS_Interval
<1>8. s \in Surjection(1..n, S)
  <2>1. PICK U : U = 1..n
    OBVIOUS
  <2>2. s \in Injection(U, S) /\ Cardinality(U) = Cardinality(S)
    BY <1>1, <1>6, <1>7, <2>1
  <2>3. s \in Surjection(U, S)
    BY ONLY <2>2, IsFiniteSet(S), FS_Injection
  <2>. QED
    BY <2>1, <2>3
<1>9. Range(s) = S
  <2>1. DOMAIN s = 1..n /\ \A i \in 1..n : s[i] \in S
    BY <1>5
  <2>2. \A x \in S : \E i \in 1..n : s[i] = x
    BY <1>8 DEF Surjection
  <2>. QED
    BY <2>1, <2>2 DEF Range
<1>10. s \in Seq(S)
  BY ONLY n \in Nat, <1>5, SeqOfFunction
<1>. QED
  BY <1>4, <1>5, <1>9, <1>10

LEMMA NobodyStarvesHolds == StatsOK(stats) => NobodyStarves
<1>. SUFFICES ASSUME StatsOK(stats) PROVE NobodyStarves
  OBVIOUS
<1>1. PICK cats : cats = SetToSeq(Categories)
  OBVIOUS
<1>2. cats \in Seq(Categories) /\ IsInjective(cats) /\ Range(cats) = Categories
  BY <1>1, PrioConstants, SetToSeqTypes
<1>3. \A c \in Categories : Score(Of(c)) \in Int
  BY OfTypes, ScoreTypes
<1>4. PICK order : order = Order(cats)
  OBVIOUS
<1>5. IsInjective(order) /\ Range(order) = Categories
  BY <1>2, <1>3, <1>4, OrderTypes
<1>6. ToSet(order) = Categories
  BY <1>5 DEF ToSet, Range
<1>7. \A c \in DOMAIN stats : stats[c].pages \in MinPages..MostPages
  BY DEF StatsOK, StatsRecord
<1>. QED
  BY <1>1, <1>4, <1>5, <1>6, <1>7 DEF NobodyStarves

LEMMA PlanStays ==
  ASSUME PrioInv, UNCHANGED plan \/ plan' = NoPlan
  PROVE  PlanWithinBudget'
<1>1. CASE UNCHANGED plan
  BY <1>1 DEF PrioInv, PlanWithinBudget
<1>2. CASE plan' = NoPlan
  <2>1. plan' = [category |-> <<>>, search |-> <<>>, trending |-> <<>>]
    BY <1>2 DEF NoPlan
  <2>2. /\ plan'.category = <<>> /\ plan'.search = <<>> /\ plan'.trending = <<>>
        /\ \A kind \in DOMAIN plan' : plan'[kind] = <<>>
    BY <2>1
  <2>3. Len(<<>>) = 0 /\ DOMAIN <<>> = {} /\ Budget \in Nat
    BY EmptySeq, PrioConstants
  <2>4. IsInjective(<<>>)
    BY <2>3 DEF IsInjective
  <2>5. Len(plan'.category) + Len(plan'.search) + Len(plan'.trending) <= Budget
    BY <2>2, <2>3
  <2>6. \A kind \in DOMAIN plan' : IsInjective(plan'[kind])
    BY <2>2, <2>4
  <2>7. DOMAIN plan'.category = {} /\ DOMAIN plan'.search = {}
    BY <2>2, <2>3
  <2>. QED
    BY <2>5, <2>6, <2>7 DEF PlanWithinBudget
<1>. QED
  BY <1>1, <1>2

LEMMA PrioInitInv == PrioInit => PrioInv
<1>. SUFFICES ASSUME PrioInit PROVE PrioInv
  OBVIOUS
<1>1. StatsOK(stats) /\ StatsOK(disk)
  <2>1. DOMAIN <<>> = {}
    BY EmptySeq
  <2>2. stats = <<>> /\ disk = <<>>
    BY DEF PrioInit
  <2>3. \A S : <<>> \in [{} -> S]
    BY <2>1
  <2>. QED
    BY <2>1, <2>2, <2>3 DEF StatsOK
<1>2. PlanWithinBudget
  <2>1. plan = [category |-> <<>>, search |-> <<>>, trending |-> <<>>]
    BY DEF NoPlan, PrioInit
  <2>2. /\ plan.category = <<>> /\ plan.search = <<>> /\ plan.trending = <<>>
        /\ \A kind \in DOMAIN plan : plan[kind] = <<>>
    BY <2>1
  <2>3. Len(<<>>) = 0 /\ DOMAIN <<>> = {} /\ Budget \in Nat
    BY EmptySeq, PrioConstants
  <2>4. IsInjective(<<>>)
    BY <2>3 DEF IsInjective
  <2>5. Len(plan.category) + Len(plan.search) + Len(plan.trending) <= Budget
    BY <2>2, <2>3
  <2>6. \A kind \in DOMAIN plan : IsInjective(plan[kind])
    BY <2>2, <2>4
  <2>7. DOMAIN plan.category = {} /\ DOMAIN plan.search = {}
    BY <2>2, <2>3
  <2>. QED
    BY <2>5, <2>6, <2>7 DEF PlanWithinBudget
<1>. QED
  BY <1>1, <1>2 DEF PrioInv

LEMMA PrioNextInv == PrioInv /\ [PrioNext]_prioVars => PrioInv'
<1>. SUFFICES ASSUME PrioInv, [PrioNext]_prioVars PROVE PrioInv'
  OBVIOUS
<1>0. StatsOK(stats) /\ StatsOK(disk)
  BY DEF PrioInv
<1>1. CASE UNCHANGED prioVars
  <2>1. UNCHANGED <<stats, disk, plan>>
    BY <1>1 DEF prioVars
  <2>. QED
    BY <1>0, <2>1, PlanStays DEF PrioInv, StatsOK
<1>2. CASE Recalculate
  <2>1. StatsOK(stats)' /\ disk' = stats'
    BY <1>0, <1>2, RecalculateKeeps
  <2>2. plan' = NoPlan
    BY <1>2 DEF Recalculate
  <2>. QED
    BY <2>1, <2>2, PlanStays DEF PrioInv, StatsOK
<1>3. CASE Reload
  <2>1. stats' = disk /\ plan' = NoPlan /\ UNCHANGED disk
    BY <1>3 DEF Reload
  <2>. QED
    BY <1>0, <2>1, PlanStays DEF PrioInv, StatsOK
<1>4. CASE GenerateCycle
  <2>1. UNCHANGED <<stats, disk>>
    BY <1>4 DEF GenerateCycle
  <2>. QED
    BY <1>0, <1>4, <2>1, GenerateCyclePlans DEF PrioInv, StatsOK
<1>5. ASSUME NEW c \in Categories, RecordScrape(c) \/ RecordOpportunities(c) PROVE PrioInv'
  <2>1. StatsOK(stats)'
    BY <1>0, <1>5, RecordScrapeKeeps, RecordOpportunitiesKeeps
  <2>2. plan' = NoPlan /\ UNCHANGED disk
    BY <1>5 DEF RecordScrape, RecordOpportunities
  <2>. QED
    BY <1>0, <2>1, <2>2, PlanStays DEF PrioInv, StatsOK
<1>. QED
  BY <1>1, <1>2, <1>3, <1>4, <1>5 DEF PrioNext

LEMMA PrioHolds == PrioInv => NobodyStarves /\ PlanWithinBudget
BY NobodyStarvesHolds DEF PrioInv

PrioSpec == PrioInit /\ [][PrioNext]_prioVars

LEMMA PrioInvariance == PrioSpec => []PrioInv
  BY PrioInitInv, PrioNextInv, PTL DEF PrioSpec

\* However the yields go, every category is in the order exactly once, with
\* pages within the limits; and what generate_cycle plans stays in the budget,
\* takes nothing twice and cuts only at the end (NobodyStarves and
\* PlanWithinBudget, about get_prioritized_categories and generate_cycle).
THEOREM CyclesArePlanned == PrioSpec => [](NobodyStarves /\ PlanWithinBudget)
  BY PrioInvariance, PrioHolds, PTL
===============================================================================
