---------------------- MODULE ProcessorConsumerProofs ------------------------
(***************************************************************************)
(* Proofs about ProcessorConsumer, for any number of messages, retries and *)
(* failures, any batch and window: the consumer implements AtLeastOnce,    *)
(* deliveries are bounded, dead letters stay dead, and a row goes back to  *)
(* an older message only while that message is delivered again.            *)
(***************************************************************************)
EXTENDS ProcessorConsumer, TLAPS, FiniteSetTheorems

LEMMA SampleFields ==
    \A l \in Listings : /\ l.url \in Urls /\ l.title \in Titles /\ l.price \in Prices
                        /\ l.form \in Forms /\ l.price \in Nat
  BY ListingsAssumption DEF Urls, Titles, Prices

LEMMA EarliestIsPart == \A S, k : Earliest(S, k) \subseteq S
  BY DEF Earliest

LEMMA InitTyped == Init => TypeOK
  BY QueueAssumption, LimitsAssumption DEF Init, TypeOK, RedisOK, TablesOK, Pending, Phases, Steps

-----------------------------------------------------------------------------
(* The types *)

LEMMA DeliveredOK ==
    ASSUME RedisOK
    PROVE  /\ Len(stream) \in Nat /\ DOMAIN stream = 1..Len(stream) /\ delivered \in Nat
           /\ \A i \in 1..delivered : i \in DOMAIN stream /\ stream[i] \in Listings
  BY DEF RedisOK

\* Rows stay what they are when more has been delivered.
LEMMA RowsStay ==
    ASSUME TablesOK, RedisOK, RedisOK', UNCHANGED <<products, listings, history>>,
           delivered <= delivered'
    PROVE  TablesOK'
  <1> DEFINE LR(d) == [product : Titles, price : Prices, from : 1..d]
             HR(d) == [url : Urls, price : Prices, from : 1..d]
  <1>1. 1..delivered \subseteq 1..delivered'
    BY DEF RedisOK
  <1>2. LR(delivered) \subseteq LR(delivered') /\ HR(delivered) \subseteq HR(delivered')
    BY <1>1
  <1>3. listings \in [DOMAIN listings -> LR(delivered)] /\ history \in Seq(HR(delivered))
    BY DEF TablesOK
  <1> HIDE DEF LR, HR
  <1>4. listings \in [DOMAIN listings -> LR(delivered')]
    BY <1>2, <1>3
  <1>5. history \in Seq(HR(delivered'))
    BY <1>2, <1>3
  <1> QED
    BY <1>4, <1>5 DEF TablesOK, LR, HR

LEMMA UpsertTyped ==
    ASSUME TablesOK, RedisOK, NEW i \in 1..delivered, Upsert(i),
           UNCHANGED <<delivered, products>>
    PROVE  TablesOK'
  <1> DEFINE m == stream[i]
             L == [product : Titles, price : Prices, from : 1..delivered]
             H == [url : Urls, price : Prices, from : 1..delivered]
             product == IF m.url \in DOMAIN listings THEN listings[m.url].product ELSE m.title
             row == [product |-> product, price |-> m.price, from |-> i]
  <1>1. m \in Listings
    BY DeliveredOK
  <1>2. m.url \in Urls /\ m.title \in Titles /\ m.price \in Prices
    BY <1>1, SampleFields
  <1>3. listings \in [DOMAIN listings -> L] /\ DOMAIN listings \subseteq Urls /\ history \in Seq(H)
    BY DEF TablesOK
  <1>4. product \in Titles
    BY <1>2, <1>3
  <1>5. row \in L
    BY <1>2, <1>4
  <1>6. [url |-> m.url, price |-> m.price, from |-> i] \in H
    BY <1>2
  <1>7. history' = Append(history, [url |-> m.url, price |-> m.price, from |-> i])
    BY DEF Upsert
  <1>8. history' \in Seq(H)
    <2> HIDE DEF H
    <2> QED BY <1>3, <1>6, <1>7
  <1>9. listings' = [u \in DOMAIN listings \cup {m.url} |-> IF u = m.url THEN row ELSE listings[u]]
    BY DEF Upsert
  <1>10. /\ DOMAIN listings' = DOMAIN listings \cup {m.url}
         /\ listings' \in [DOMAIN listings' -> L]
    <2> HIDE DEF L, row, m
    <2> QED BY <1>3, <1>5, <1>9
  <1> QED
    BY <1>2, <1>3, <1>8, <1>10 DEF TablesOK

\* What a step that leaves Redis alone has to show.
LEMMA ProcessTyped ==
    ASSUME TypeOK, UNCHANGED <<stream, trimmed, delivered, pel, dead>>,
           TablesOK', skipped' \subseteq 1..delivered, cached' \subseteq Titles \X Prices,
           todo' \subseteq Pending, phase' \in Phases, at' \in Steps, faults' \in 0..MaxFaults
    PROVE  TypeOK'
  BY DEF TypeOK, RedisOK, Pending

LEMMA NextTyped == TypeOK /\ [Next]_vars => TypeOK'
  <1> SUFFICES ASSUME TypeOK, [Next]_vars
               PROVE  TypeOK'
    OBVIOUS
  <1> USE QueueAssumption, LimitsAssumption
  <1>a. RedisOK /\ TablesOK
    BY DEF TypeOK
  <1>b. UNCHANGED <<redis, tables>> => TablesOK'
    BY <1>a, Zenon DEF TablesOK, redis, tables
  <1>1. ASSUME NEW l \in Listings, Publish(l)
        PROVE  TypeOK'
    <2>1. RedisOK'
      BY <1>1, <1>a DEF RedisOK, Publish, Pending
    <2>2. TablesOK'
      BY <1>1, <1>a, <2>1, RowsStay DEF Publish, tables, RedisOK
    <2> QED
      BY <1>1, <2>1, <2>2 DEF TypeOK, Publish, Pending
  <1>2. CASE Start
    BY <1>2, <1>b, EarliestIsPart, ProcessTyped DEF TypeOK, Start, Overdue, redis, Phases, Steps
  <1>3. CASE OverdueFails
    BY <1>3, <1>b, ProcessTyped DEF TypeOK, OverdueFails, redis, Phases, Steps
  <1>4. CASE ReadPending
    <2>1. RedisOK'
      BY <1>4, <1>a DEF RedisOK, ReadPending, Redelivered, Pending, CountLimit
    <2>2. TablesOK'
      BY <1>4, <1>a, <2>1, RowsStay DEF ReadPending, tables, RedisOK
    <2> QED
      BY <1>4, <2>1, <2>2, EarliestIsPart
      DEF TypeOK, ReadPending, Redelivered, Pending, Phases, Steps
  <1>5. CASE ReadPendingFails
    BY <1>5, <1>b, ProcessTyped DEF TypeOK, ReadPendingFails, redis, Phases, Steps
  <1>6. CASE ReadNew
    <2> DEFINE S == Earliest(Waiting, BatchSize)
    <2>1. S \subseteq Waiting
      BY EarliestIsPart
    <2>2. /\ delivered' \in 0..Len(stream) /\ delivered <= delivered'
          /\ S \subseteq 1..delivered'
      <3>1. delivered \in 0..Len(stream) /\ Len(stream) \in Nat
        BY <1>a DEF RedisOK
      <3>2. CASE S = {}
        BY <1>6, <3>1, <3>2 DEF ReadNew
      <3>3. CASE S # {}
        <4>1. PICK last \in S : delivered' = last /\ \A i \in S : i <= last
          BY <1>6, <3>3 DEF ReadNew
        <4>2. \A i \in S : i \in 1..Len(stream) /\ i > delivered
          BY <2>1 DEF Waiting
        <4> HIDE DEF S
        <4> QED
          BY <3>1, <4>1, <4>2
      <3> QED
        BY <3>2, <3>3
    <2>3. pel' = [i \in Pending \cup S |-> IF i \in S THEN 1 ELSE pel[i]] /\ todo' = S
      BY <1>6 DEF ReadNew
    <2>4. UNCHANGED <<stream, trimmed, dead>>
      BY <1>6 DEF ReadNew
    <2> HIDE DEF S
    <2>5. RedisOK'
      <3>1. stream' \in Seq(Listings) /\ Len(stream') <= MaxMessages /\ trimmed' \in 0..Len(stream')
        BY <1>a, <2>4 DEF RedisOK
      <3>2. delivered' \in 0..Len(stream')
        BY <2>2, <2>4
      <3>3. dead' \subseteq 1..delivered'
        BY <1>a, <2>2, <2>4 DEF RedisOK
      <3>4. Pending' \subseteq 1..delivered' /\ pel' \in [Pending' -> 1..CountLimit]
        BY <1>a, <2>2, <2>3, DeliveredOK DEF RedisOK, Pending, CountLimit
      <3> QED
        BY <3>1, <3>2, <3>3, <3>4 DEF RedisOK
    <2>6. TablesOK'
      BY <1>6, <1>a, <2>2, <2>5, RowsStay DEF ReadNew, tables
    <2>7. todo' \subseteq Pending'
      BY <2>3 DEF Pending
    <2>8. skipped' \subseteq 1..delivered'
      BY <1>6, <1>a, <2>2, DeliveredOK DEF ReadNew, TypeOK
    <2> QED
      BY <1>6, <2>5, <2>6, <2>7, <2>8 DEF TypeOK, ReadNew, Phases, Steps
  <1>7. CASE Halt
    BY <1>7, <1>b, ProcessTyped DEF TypeOK, Halt, redis, Phases, Steps
  <1>8. ASSUME NEW i \in Ids, Message(i)
        PROVE  TypeOK'
    <2>0. InTurn(i) => i \in todo /\ i \in 1..delivered /\ stream[i] \in Listings
      BY <1>a, DeliveredOK DEF TypeOK, RedisOK, InTurn
    <2>1. CASE DeadLetter(i)
      <3>1. RedisOK'
        BY <2>1, <2>0, <1>a DEF RedisOK, DeadLetter, Pending
      <3>2. TablesOK'
        BY <2>1, <1>a, <3>1, RowsStay DEF DeadLetter, tables, RedisOK
      <3> QED
        BY <2>1, <3>1, <3>2 DEF TypeOK, DeadLetter, Pending, Steps
    <2>2. CASE Check(i)
      BY <2>2, <2>0, <1>b, ProcessTyped DEF TypeOK, Check, Processing, Skip, GoOn, redis, Steps
    <2>3. CASE Resolve(i)
      <3>1. stream[i].title \in Titles /\ stream[i].price \in Prices
        BY <2>3, <2>0, SampleFields DEF Resolve, Processing
      <3>2. products' \subseteq Titles /\ cached' \subseteq Titles \X Prices
        BY <2>3, <3>1, <1>a DEF Resolve, TypeOK, TablesOK
      <3>3. TablesOK'
        BY <2>3, <3>2, <1>a DEF Resolve, TablesOK, redis
      <3>4. at' \in Steps /\ skipped' = skipped
        BY <2>3 DEF Resolve, GoOn, Steps
      <3> QED
        BY <2>3, <3>2, <3>3, <3>4, ProcessTyped DEF TypeOK, Resolve, redis
    <2>4. CASE Validate(i)
      BY <2>4, <2>0, <1>b, ProcessTyped DEF TypeOK, Validate, Processing, Skip, GoOn, redis, Steps
    <2>5. CASE Save(i)
      <3>1. TablesOK'
        BY <2>5, <2>0, <1>a, UpsertTyped DEF Save, Processing, redis
      <3> QED
        BY <2>5, <3>1, ProcessTyped DEF TypeOK, Save, redis, Steps
    <2>6. CASE SaveUnanswered(i)
      <3>1. TablesOK'
        BY <2>6, <2>0, <1>a, UpsertTyped DEF SaveUnanswered, Processing, redis
      <3> QED
        BY <2>6, <3>1, ProcessTyped DEF TypeOK, SaveUnanswered, redis, Steps
    <2>7. CASE Ack(i)
      <3>1. RedisOK'
        BY <2>7, <1>a DEF RedisOK, Ack, Acked, Pending
      <3>2. TablesOK'
        BY <2>7, <1>a, <3>1, RowsStay DEF Ack, tables, RedisOK
      <3> QED
        BY <2>7, <3>1, <3>2 DEF TypeOK, Ack, Acked, Pending, Steps
    <2>8. CASE Fail(i)
      BY <2>8, <1>b, ProcessTyped DEF TypeOK, Fail, redis, Steps
    <2> QED
      BY <1>8, <2>1, <2>2, <2>3, <2>4, <2>5, <2>6, <2>7, <2>8 DEF Message
  <1>9. CASE UNCHANGED vars
    BY <1>9, <1>b, ProcessTyped DEF TypeOK, vars, redis, tables
  <1> QED
    BY <1>1, <1>2, <1>3, <1>4, <1>5, <1>6, <1>7, <1>8, <1>9 DEF Next, Loop

\* The types of everything the processor leaves in Redis and PostgreSQL.
THEOREM TypeCorrect == Spec => []TypeOK
  BY InitTyped, NextTyped, PTL DEF Spec

-----------------------------------------------------------------------------
(* AtLeastOnce *)

\* What is about to be acknowledged has been handled.
AckKnown == at = "ack" => \A i \in todo : InTurn(i) => i \in Handled

QInv == TypeOK /\ AckKnown

LEMMA HandledDelivered == TypeOK => Handled \subseteq 1..delivered
  <1> SUFFICES ASSUME TypeOK
               PROVE  Handled \subseteq 1..delivered
    OBVIOUS
  <1> DEFINE H == [url : Urls, price : Prices, from : 1..delivered]
  <1>1. \A r \in H : r.from \in 1..delivered
    OBVIOUS
  <1>2. history \in Seq(H)
    BY DEF TypeOK, TablesOK
  <1> HIDE DEF H
  <1>3. \A k \in DOMAIN history : history[k] \in H
    BY <1>2
  <1> QED
    BY <1>1, <1>3 DEF TypeOK, RedisOK, Handled

LEMMA InitQueue == Init => AckKnown /\ Queue!Init
  BY DEF Init, AckKnown, Queue!Init, Handled, Waiting, Pending

\* Ids are numbers, so one message is in turn.
LEMMA OneInTurn ==
    ASSUME TypeOK, NEW i \in todo, NEW j \in todo, InTurn(i), InTurn(j)
    PROVE  i = j
  BY DEF TypeOK, RedisOK, InTurn

\* Parts of a set of ids: finite, and the smaller the fewer.
LEMMA Fewer ==
    ASSUME NEW n \in Nat, NEW S \in SUBSET (1..n), NEW T \in SUBSET S
    PROVE  Cardinality(T) \in Nat /\ Cardinality(S) \in Nat /\ Cardinality(T) <= Cardinality(S)
  <1>1. IsFiniteSet(1..n)
    BY FS_Interval
  <1>2. IsFiniteSet(S)
    BY <1>1, FS_Subset
  <1> QED
    BY <1>2, FS_Subset, FS_CardinalityType

\* What a batch leaves waiting is what comes after the last of it.
LEMMA BatchIsFirst ==
    ASSUME RedisOK, ReadNew
    PROVE  Waiting' = Waiting \ Earliest(Waiting, BatchSize)
  <1> DEFINE S == Earliest(Waiting, BatchSize)
             Before(i) == {j \in Waiting : j < i}
  <1>1. Len(stream) \in Nat /\ delivered \in 0..Len(stream) /\ Waiting \subseteq 1..Len(stream)
    BY DEF RedisOK, Waiting
  <1>2. CASE S = {}
    BY <1>2 DEF ReadNew, Waiting
  <1>3. CASE S # {}
    <2>1. PICK last \in S : delivered' = last /\ \A i \in S : i <= last
      BY <1>3 DEF ReadNew
    <2>2. last \in Waiting /\ Cardinality(Before(last)) < BatchSize
      BY <2>1 DEF Earliest
    <2>3. ASSUME NEW j \in Waiting, j <= last
          PROVE  j \in S
      <3>1. Before(j) \subseteq Before(last)
        <4>1. j \in Int /\ last \in Int /\ \A k \in Waiting : k \in Int
          BY <1>1, <2>2, <2>3
        <4>2. ASSUME NEW k \in Waiting, k < j
              PROVE  k < last
          <5> HIDE DEF S
          <5> QED
            BY <2>3, <4>1, <4>2
        <4> QED
          BY <4>2
      <3>2. Before(last) \subseteq 1..Len(stream)
        BY <1>1
      <3> HIDE DEF Before
      <3>3. /\ Cardinality(Before(j)) \in Nat /\ Cardinality(Before(last)) \in Nat
            /\ Cardinality(Before(j)) <= Cardinality(Before(last))
        BY <1>1, <3>1, <3>2, Fewer
      <3>4. Cardinality(Before(j)) < BatchSize
        BY <2>2, <3>3, QueueAssumption, LimitsAssumption
      <3> QED
        BY <2>3, <3>4 DEF Earliest, Before
    <2>4. \A j \in Waiting : j \in S <=> j <= last
      BY <2>1, <2>3
    <2>5. UNCHANGED <<stream, trimmed>>
      BY DEF ReadNew
    <2>6. last \in 1..Len(stream) /\ last > delivered
      BY <2>2, <1>1 DEF Waiting
    <2>7. Waiting' = {i \in 1..Len(stream) : i > last /\ i > trimmed}
      BY <2>1, <2>5 DEF Waiting
    <2> HIDE DEF S
    <2>8. Waiting' = Waiting \ S
      BY <1>1, <2>4, <2>6, <2>7 DEF Waiting
    <2> QED
      BY <2>8 DEF S
  <1> QED
    BY <1>2, <1>3

\* process_message either says that it skips the message or goes on.
LEMMA SkipOrGoOn ==
    ASSUME QInv, NEW i \in Ids, InTurn(i), UNCHANGED <<redis, tables, todo>>,
           Skip(i) \/ \E step \in Steps \ {"ack"} : GoOn(step)
    PROVE  AckKnown' /\ [Queue!Next]_(Queue!qvars)
  <1>1. Pending' = Pending /\ Waiting' = Waiting /\ i \in Pending
    BY DEF redis, Pending, Waiting, InTurn, QInv, TypeOK
  <1>2. CASE Skip(i)
    <2>1. Handled' = Handled \cup {i}
      BY <1>2 DEF Skip, Handled, redis, tables
    <2>2. AckKnown'
      BY <2>1, OneInTurn DEF QInv, AckKnown, InTurn
    <2> QED
      BY <1>1, <2>1, <2>2 DEF Queue!Next, Queue!Handle
  <1>3. ASSUME NEW step \in Steps \ {"ack"}, GoOn(step)
        PROVE  AckKnown' /\ [Queue!Next]_(Queue!qvars)
    <2>1. Handled' = Handled
      BY <1>3 DEF GoOn, Handled, redis, tables
    <2> QED
      BY <1>1, <1>3, <2>1 DEF GoOn, AckKnown, Queue!qvars
  <1> QED
    BY <1>2, <1>3

\* A new row of price_history handles its message and nothing else.
LEMMA UpsertHandles ==
    ASSUME TypeOK, NEW i \in Ids, Upsert(i), UNCHANGED <<skipped, dead>>
    PROVE  Handled' = Handled \cup {i}
  <1> DEFINE row == [url |-> stream[i].url, price |-> stream[i].price, from |-> i]
  <1>1. Len(history) \in Nat /\ DOMAIN history = 1..Len(history)
    BY DEF TypeOK, TablesOK
  <1>2. history' = Append(history, row) /\ row.from = i
    BY DEF Upsert
  <1> HIDE DEF row
  <1>3. /\ DOMAIN history' = DOMAIN history \cup {Len(history) + 1}
        /\ \A k \in DOMAIN history : history'[k] = history[k]
        /\ history'[Len(history) + 1] = row
    BY <1>1, <1>2 DEF TypeOK, TablesOK
  <1> QED
    BY <1>2, <1>3 DEF Handled

\* Each step of the consumer is a step of AtLeastOnce or leaves it alone.
LEMMA StepQueue == QInv /\ [Next]_vars => AckKnown' /\ [Queue!Next]_(Queue!qvars)
  <1> SUFFICES ASSUME QInv, [Next]_vars
               PROVE  AckKnown' /\ [Queue!Next]_(Queue!qvars)
    OBVIOUS
  <1> USE DEF QInv
  <1>0. RedisOK /\ Handled \subseteq 1..delivered /\ todo \subseteq Pending
    BY HandledDelivered DEF TypeOK
  <1>a. ASSUME UNCHANGED <<stream, trimmed, delivered, pel, dead, skipped, history>>
        PROVE  /\ Handled' = Handled
               /\ UNCHANGED Queue!qvars
    BY <1>a DEF Queue!qvars, Waiting, Pending, Handled
  <1>b. at' # "ack" => AckKnown'
    BY DEF AckKnown
  <1>1. ASSUME NEW l \in Listings, Publish(l)
        PROVE  AckKnown' /\ [Queue!Next]_(Queue!qvars)
    <2> DEFINE i == Len(stream) + 1
               S == {j \in Waiting : j <= trimmed'}
    <2>1. Len(stream) \in Nat /\ delivered \in 0..Len(stream) /\ trimmed \in 0..Len(stream)
      BY <1>0 DEF RedisOK
    <2>2. i \in Ids
      BY <1>1, <2>1, QueueAssumption, LimitsAssumption DEF Publish, Ids
    <2>3. Handled' = Handled /\ Pending' = Pending
      BY <1>1 DEF Publish, Handled, Pending, tables
    <2>4. i \notin Waiting \cup Pending \cup Handled
      BY <1>0, <2>1 DEF Waiting, RedisOK
    <2>5. trimmed' \in trimmed..Len(stream) /\ Len(stream') = i /\ delivered' = delivered
      BY <1>0, <1>1, <2>1 DEF Publish, RedisOK
    <2>6. Waiting' = (Waiting \cup {i}) \ S
      BY <2>1, <2>5 DEF Waiting
    <2>7. S \in SUBSET Ids
      BY <1>0, <2>1, QueueAssumption, LimitsAssumption DEF Waiting, RedisOK, Ids
    <2>8. AckKnown'
      BY <1>1, <2>3 DEF AckKnown, Publish, InTurn
    <2> HIDE DEF i, S
    <2>9. S \subseteq Waiting
      BY DEF S
    <2>10. Queue!Publish(i, S)
      BY <2>3, <2>4, <2>6, <2>9 DEF Queue!Publish
    <2> QED
      BY <2>2, <2>7, <2>8, <2>10 DEF Queue!Next
  <1>2. CASE Start
    BY <1>2, <1>a, <1>b DEF Start, redis, tables
  <1>3. CASE OverdueFails
    BY <1>3, <1>a, <1>b DEF OverdueFails, redis, tables
  <1>4. CASE ReadPending
    <2>1. Pending' = Pending /\ Handled' = Handled /\ Waiting' = Waiting
      BY <1>4 DEF ReadPending, Redelivered, Pending, Handled, Waiting, tables
    <2> QED
      BY <1>4, <1>b, <2>1 DEF ReadPending, Queue!qvars
  <1>5. CASE ReadPendingFails
    BY <1>5, <1>a DEF ReadPendingFails, redis, tables, AckKnown, InTurn
  <1>6. CASE ReadNew
    <2> DEFINE S == Earliest(Waiting, BatchSize)
    <2>1. S \subseteq Waiting /\ S \in SUBSET Ids
      <3>1. Waiting \subseteq Ids
        BY <1>0, QueueAssumption, LimitsAssumption DEF Waiting, Ids, RedisOK
      <3> QED
        BY <3>1, EarliestIsPart
    <2>2. Pending' = Pending \cup S /\ Handled' = Handled
      BY <1>6 DEF ReadNew, Pending, Handled, tables
    <2>3. Waiting' = Waiting \ S
      BY <1>6, <1>0, BatchIsFirst
    <2>4. Queue!Deliver(S)
      BY <2>1, <2>2, <2>3 DEF Queue!Deliver
    <2> QED
      BY <1>6, <1>b, <2>1, <2>4 DEF Queue!Next, ReadNew
  <1>7. CASE Halt
    BY <1>7, <1>a, <1>b DEF Halt, redis, tables
  <1>8. ASSUME NEW i \in Ids, Message(i)
        PROVE  AckKnown' /\ [Queue!Next]_(Queue!qvars)
    <2>1. CASE DeadLetter(i)
      <3>1. /\ Handled' = Handled \cup {i} /\ Pending' = Pending /\ Waiting' = Waiting
            /\ InTurn(i) /\ i \in Pending
        BY <2>1, <1>0 DEF DeadLetter, Handled, Pending, Waiting, tables, InTurn
      <3>2. AckKnown'
        BY <2>1, <1>0, <3>1, OneInTurn DEF AckKnown, DeadLetter, InTurn
      <3> QED
        BY <3>1, <3>2 DEF Queue!Next, Queue!Handle
    <2>2. CASE Check(i)
      BY <2>2, SkipOrGoOn DEF Check, Processing, Steps
    <2>3. CASE Resolve(i)
      BY <2>3, <1>a, <1>b DEF Resolve, GoOn, redis
    <2>4. CASE Validate(i)
      BY <2>4, SkipOrGoOn DEF Validate, Processing, Steps
    <2>5. CASE Save(i)
      <3>1. /\ Handled' = Handled \cup {i} /\ Pending' = Pending /\ Waiting' = Waiting
            /\ InTurn(i) /\ i \in Pending
        BY <2>5, <1>0, UpsertHandles DEF Save, Processing, redis, Pending, Waiting, InTurn
      <3>2. AckKnown'
        BY <2>5, <1>0, <3>1, OneInTurn DEF AckKnown, Save, InTurn
      <3> QED
        BY <3>1, <3>2 DEF Queue!Next, Queue!Handle
    <2>6. CASE SaveUnanswered(i)
      <3>1. /\ Handled' = Handled \cup {i} /\ Pending' = Pending /\ Waiting' = Waiting
            /\ i \in Pending
        BY <2>6, <1>0, UpsertHandles DEF SaveUnanswered, Processing, redis, Pending, Waiting, InTurn
      <3> QED
        BY <2>6, <1>b, <3>1 DEF Queue!Next, Queue!Handle, SaveUnanswered
    <2>7. CASE Ack(i)
      <3>1. /\ Handled' = Handled /\ Pending' = Pending \ {i} /\ Waiting' = Waiting
            /\ i \in Pending \cap Handled
        BY <2>7, <1>0 DEF Ack, Acked, AckKnown, Handled, Pending, Waiting, tables, InTurn
      <3> QED
        BY <2>7, <1>b, <3>1 DEF Queue!Next, Queue!Acknowledge, Ack
    <2>8. CASE Fail(i)
      BY <2>8, <1>a, <1>b DEF Fail, redis, tables
    <2> QED
      BY <1>8, <2>1, <2>2, <2>3, <2>4, <2>5, <2>6, <2>7, <2>8 DEF Message
  <1>9. CASE UNCHANGED vars
    BY <1>9, <1>a DEF vars, redis, tables, AckKnown, InTurn
  <1> QED
    BY <1>1, <1>2, <1>3, <1>4, <1>5, <1>6, <1>7, <1>8, <1>9 DEF Next, Loop

\* However the processor crashes, fails and restarts, a listing leaves the
\* pending list only after it was saved, skipped or dead-lettered.
THEOREM ImplementsAtLeastOnce == Spec => DeliversAtLeastOnce
  <1>1. Init => QInv /\ Queue!Init
    BY InitTyped, InitQueue DEF QInv
  <1>2. QInv /\ [Next]_vars => QInv' /\ [Queue!Next]_(Queue!qvars)
    BY NextTyped, StepQueue DEF QInv
  <1> QED
    BY <1>1, <1>2, PTL DEF Spec, DeliversAtLeastOnce, Queue!Spec

-----------------------------------------------------------------------------
(* Retries and dead letters *)

\* Pending messages that the next startup has to put in the dead letter queue.
Spent == {i \in Pending : pel[i] > MaxRetries}

\* The 100 messages that startup looks at are the first ones, and the pending
\* list is only shortened, or lengthened at its end; so what has been spent is
\* always among them.  While they are moved they are what is left to do.
RetryInv ==
    faults = 0 =>
        /\ RetriesBounded
        /\ Spent \subseteq Earliest(Pending, Window)
        /\ dead \cap Pending \subseteq Spent
        /\ phase = "overdue" => todo = Spent
        /\ phase \in {"redeliver", "running"} => dead \cap Pending = {}

\* An early entry is still early when others are acknowledged,
LEMMA EarlyWhenFewer ==
    ASSUME NEW n \in Nat, NEW P \in SUBSET (1..n), NEW Q \in SUBSET P, NEW k \in Nat,
           NEW i \in Q, i \in Earliest(P, k)
    PROVE  i \in Earliest(Q, k)
  <1> DEFINE Before(S) == {j \in S : j < i}
  <1>1. Before(Q) \subseteq Before(P) /\ Before(P) \subseteq 1..n
    OBVIOUS
  <1>2. Cardinality(Before(P)) < k
    BY DEF Earliest
  <1> HIDE DEF Before
  <1>3. /\ Cardinality(Before(Q)) \in Nat /\ Cardinality(Before(P)) \in Nat
        /\ Cardinality(Before(Q)) <= Cardinality(Before(P))
    BY <1>1, Fewer
  <1>4. Cardinality(Before(Q)) < k
    BY <1>2, <1>3
  <1> QED
    BY <1>4 DEF Before, Earliest

\* and when later ones are added.
LEMMA EarlyWhenLonger ==
    ASSUME NEW P, NEW T, NEW k \in Nat, NEW i \in Earliest(P, k),
           \A j \in T : ~(j < i)
    PROVE  i \in Earliest(P \cup T, k)
  <1>1. {j \in P \cup T : j < i} = {j \in P : j < i}
    OBVIOUS
  <1> QED
    BY <1>1 DEF Earliest

\* What acknowledging a message does to the spent ones.
LEMMA AckSpent ==
    ASSUME TypeOK, RetryInv, faults = 0, NEW i \in Pending,
           pel' = Acked(i), UNCHANGED dead
    PROVE  /\ Pending' = Pending \ {i} /\ Spent' = Spent \ {i}
           /\ \A j \in Pending' : pel'[j] <= MaxRetries + 1
           /\ Spent' \subseteq Earliest(Pending', Window)
           /\ dead' \cap Pending' \subseteq Spent'
  <1>1. Pending' = Pending \ {i} /\ \A j \in Pending' : pel'[j] = pel[j]
    BY DEF Acked, Pending
  <1>2. Spent' = Spent \ {i}
    BY <1>1 DEF Spent
  <1>3. \A j \in Pending' : pel'[j] <= MaxRetries + 1
    BY <1>1 DEF RetryInv, RetriesBounded
  <1>4. delivered \in Nat /\ Pending \subseteq 1..delivered
    BY DEF TypeOK, RedisOK
  <1>5. ASSUME NEW j \in Spent'
        PROVE  j \in Earliest(Pending \ {i}, Window)
    <2>1. j \in Earliest(Pending, Window) /\ j \in Pending \ {i}
      BY <1>2, <1>5 DEF RetryInv, Spent
    <2> QED
      BY <2>1, <1>4, EarlyWhenFewer, QueueAssumption, LimitsAssumption
  <1> QED
    BY <1>1, <1>2, <1>3, <1>5 DEF RetryInv

LEMMA NextRetry == TypeOK /\ RetryInv /\ [Next]_vars => RetryInv'
  <1> SUFFICES ASSUME TypeOK, RetryInv, [Next]_vars, faults' = 0
               PROVE  /\ \A i \in Pending' : pel'[i] <= MaxRetries + 1
                      /\ Spent' \subseteq Earliest(Pending', Window)
                      /\ dead' \cap Pending' \subseteq Spent'
                      /\ phase' = "overdue" => todo' = Spent'
                      /\ phase' \in {"redeliver", "running"} => dead' \cap Pending' = {}
    BY DEF RetryInv, RetriesBounded
  <1> DEFINE Goal == /\ \A i \in Pending' : pel'[i] <= MaxRetries + 1
                     /\ Spent' \subseteq Earliest(Pending', Window)
                     /\ dead' \cap Pending' \subseteq Spent'
                     /\ phase' = "overdue" => todo' = Spent'
                     /\ phase' \in {"redeliver", "running"} => dead' \cap Pending' = {}
  <1>t. /\ delivered \in Nat /\ Pending \subseteq 1..delivered /\ dead \subseteq 1..delivered
        /\ pel \in [Pending -> 1..CountLimit] /\ todo \subseteq Pending /\ faults \in Nat
        /\ MaxRetries \in Nat \ {0} /\ Window \in Nat
    BY QueueAssumption, LimitsAssumption DEF TypeOK, RedisOK
  <1>f. ASSUME UNCHANGED pel
        PROVE  Pending' = Pending /\ Spent' = Spent
    BY <1>f DEF Pending, Spent
  <1>h. faults = 0 => /\ \A i \in Pending : pel[i] <= MaxRetries + 1
                      /\ Spent \subseteq Earliest(Pending, Window)
                      /\ dead \cap Pending \subseteq Spent
                      /\ phase = "overdue" => todo = Spent
                      /\ phase \in {"redeliver", "running"} => dead \cap Pending = {}
    BY DEF RetryInv, RetriesBounded
  <1> SUFFICES Goal
    OBVIOUS
  <1>1. ASSUME NEW l \in Listings, Publish(l)
        PROVE  Goal
    BY <1>1, <1>f, <1>h DEF Publish
  <1>2. CASE Start
    <2>1. Overdue = Spent
      BY <1>2, <1>h DEF Overdue, Spent, Earliest, Start
    <2> QED
      BY <1>2, <2>1, <1>f, <1>h DEF Start, redis
  <1>3. CASE OverdueFails
    BY <1>3, <1>t DEF OverdueFails
  <1>4. CASE ReadPending
    <2>1. faults = 0 /\ Spent = {} /\ dead \cap Pending = {}
      BY <1>4, <1>h DEF ReadPending
    <2>2. \A i \in Pending : pel[i] \in Nat /\ pel[i] <= MaxRetries
      BY <2>1, <1>t DEF Spent
    <2>3. pel' = Redelivered(Earliest(Pending, Window)) /\ dead' = dead /\ phase' = "redeliver"
      BY <1>4 DEF ReadPending
    <2>4. /\ Pending' = Pending
          /\ \A i \in Pending : pel'[i] \in {pel[i], pel[i] + 1}
          /\ \A i \in Pending \ Earliest(Pending, Window) : pel'[i] = pel[i]
      BY <2>3 DEF Redelivered, Pending
    <2>5. \A i \in Pending : pel'[i] <= MaxRetries + 1
      BY <2>2, <2>4, <1>t
    <2>6. Spent' \subseteq Earliest(Pending, Window)
      <3>1. Spent' = {i \in Pending' : pel'[i] > MaxRetries}
        BY DEF Spent
      <3>2. ASSUME NEW i \in Pending \ Earliest(Pending, Window)
            PROVE  ~(pel'[i] > MaxRetries)
        BY <2>2, <2>4, <1>t
      <3> QED
        BY <2>4, <3>1, <3>2, Zenon
    <2> QED
      BY <2>1, <2>3, <2>4, <2>5, <2>6
  <1>5. CASE ReadPendingFails
    BY <1>5, <1>t DEF ReadPendingFails
  <1>6. CASE ReadNew
    <2> DEFINE S == Earliest(Waiting, BatchSize)
    <2>1. faults = 0 /\ dead \cap Pending = {} /\ phase' = "running" /\ dead' = dead
      BY <1>6, <1>h DEF ReadNew, Ready
    <2>2. \A i \in S : i \in Int /\ i > delivered
      BY EarliestIsPart DEF Waiting
    <2>3. pel' = [i \in Pending \cup S |-> IF i \in S THEN 1 ELSE pel[i]]
      BY <1>6 DEF ReadNew
    <2> HIDE DEF S
    <2>4. Pending' = Pending \cup S /\ Pending \cap S = {}
      BY <2>2, <2>3, <1>t DEF Pending
    <2>5. \A i \in Pending' : pel'[i] <= MaxRetries + 1
      BY <2>1, <2>3, <2>4, <1>t, <1>h
    <2>6. Spent' = Spent
      BY <2>3, <2>4, <1>t DEF Spent
    <2>7. ASSUME NEW i \in Spent
          PROVE  i \in Earliest(Pending \cup S, Window)
      <3>1. i \in Earliest(Pending, Window) /\ i \in 1..delivered
        BY <2>1, <2>7, <1>h, <1>t DEF Spent
      <3>2. \A j \in S : ~(j < i)
        BY <2>2, <3>1, <1>t
      <3> QED
        BY <3>1, <3>2, <1>t, EarlyWhenLonger
    <2>8. dead \cap Pending' = {}
      <3>1. \A j \in S : j \notin dead
        BY <2>2, <1>t
      <3> QED
        BY <2>1, <2>4, <3>1
    <2> QED
      BY <2>1, <2>4, <2>5, <2>6, <2>7, <2>8
  <1>7. CASE Halt
    BY <1>7, <1>f, <1>h DEF Halt, redis
  <1>8. ASSUME NEW i \in Ids, Message(i)
        PROVE  Goal
    <2>1. CASE DeadLetter(i)
      BY <2>1, <1>f, <1>h DEF DeadLetter, InTurn
    <2>2. CASE Check(i)
      BY <2>2, <1>f, <1>h DEF Check, redis, Processing
    <2>3. CASE Resolve(i)
      BY <2>3, <1>f, <1>h DEF Resolve, redis, Processing
    <2>4. CASE Validate(i)
      BY <2>4, <1>f, <1>h DEF Validate, redis, Processing
    <2>5. CASE Save(i)
      BY <2>5, <1>f, <1>h DEF Save, redis, Processing
    <2>6. CASE SaveUnanswered(i)
      BY <2>6, <1>f, <1>h DEF SaveUnanswered, redis, Processing
    <2>7. CASE Ack(i)
      <3>1. /\ faults = 0 /\ i \in Pending /\ pel' = Acked(i) /\ todo' = todo \ {i}
            /\ UNCHANGED <<dead, phase>>
        BY <2>7, <1>t DEF Ack, InTurn
      <3>2. /\ Pending' = Pending \ {i} /\ Spent' = Spent \ {i}
            /\ \A j \in Pending' : pel'[j] <= MaxRetries + 1
            /\ Spent' \subseteq Earliest(Pending', Window)
            /\ dead' \cap Pending' \subseteq Spent'
        BY <3>1, AckSpent
      <3> QED
        BY <3>1, <3>2, <1>h
    <2>8. CASE Fail(i)
      BY <2>8, <1>f, <1>h DEF Fail, redis
    <2> QED
      BY <1>8, <2>1, <2>2, <2>3, <2>4, <2>5, <2>6, <2>7, <2>8 DEF Message
  <1>9. CASE UNCHANGED vars
    BY <1>9, <1>f, <1>h DEF vars, redis
  <1> QED
    BY <1>1, <1>2, <1>3, <1>4, <1>5, <1>6, <1>7, <1>8, <1>9 DEF Next, Loop

LEMMA InitRetry == Init => RetryInv
  BY DEF Init, RetryInv, RetriesBounded, Spent, Pending

LEMMA RetryInvariance == Spec => [](TypeOK /\ RetryInv)
  BY InitTyped, NextTyped, InitRetry, NextRetry, PTL DEF Spec

\* Whatever batches, crashes and failures there are, no listing is processed
\* more often than MAX_RETRIES + 1 times while the steps of the startup work.
THEOREM RetriesLimited == Spec => []RetriesBounded
  <1>1. RetryInv => RetriesBounded
    BY DEF RetryInv, RetriesBounded
  <1> QED
    BY <1>1, RetryInvariance, PTL

\* A step that saves a listing saves a pending one, which is not dead then.
LEMMA StepSparesDead ==
    TypeOK /\ RetryInv /\ [Next]_vars =>
        (faults = 0 => \A k \in DOMAIN history' \ DOMAIN history : history'[k].from \notin dead)
  <1> SUFFICES ASSUME TypeOK, RetryInv, [Next]_vars, faults = 0,
                      NEW k \in DOMAIN history' \ DOMAIN history
               PROVE  history'[k].from \notin dead
    OBVIOUS
  <1>1. PICK i \in Ids : Save(i) \/ SaveUnanswered(i)
    BY DEF Next, Loop, Message, Publish, Start, OverdueFails, ReadPending, ReadPendingFails, ReadNew,
           Halt, DeadLetter, Check, Resolve, Validate, Ack, Fail, vars, tables
  <1>2. Upsert(i) /\ phase \in {"redeliver", "running"} /\ i \in todo
    BY <1>1 DEF Save, SaveUnanswered, Processing, InTurn
  <1>3. i \notin dead
    BY <1>2 DEF RetryInv, TypeOK
  <1> DEFINE row == [url |-> stream[i].url, price |-> stream[i].price, from |-> i]
  <1>4. history' = Append(history, row) /\ row.from = i
    BY <1>2 DEF Upsert
  <1> HIDE DEF row
  <1>5. DOMAIN history' = 1..(Len(history) + 1) /\ history'[Len(history) + 1] = row
    BY <1>4 DEF TypeOK, TablesOK
  <1>6. DOMAIN history = 1..Len(history) /\ Len(history) \in Nat
    BY DEF TypeOK, TablesOK
  <1>7. k = Len(history) + 1
    BY <1>5, <1>6
  <1> QED
    BY <1>3, <1>4, <1>5, <1>7

\* While the steps of the startup work, nothing is saved of a listing that was
\* put in the dead letter queue.
THEOREM DeadLettersFinal == Spec => DeadStaysDead
  <1>1. TypeOK /\ RetryInv /\ [Next]_vars =>
          [faults = 0 => \A k \in DOMAIN history' \ DOMAIN history : history'[k].from \notin dead]_vars
    BY StepSparesDead
  <1> QED
    BY <1>1, RetryInvariance, PTL DEF Spec, DeadStaysDead

-----------------------------------------------------------------------------
(* The order of the rows *)

\* What is handled for the first time is not older than any row.
FreshInOrder ==
    phase \in {"redeliver", "running"} =>
      \A i \in todo : pel[i] = 1 => \A u \in DOMAIN listings : listings[u].from <= i

OrderInv == TypeOK /\ FreshInOrder

LEMMA RowsDelivered ==
    ASSUME TypeOK
    PROVE  /\ \A u \in DOMAIN listings : listings[u].from \in 1..delivered
           /\ delivered \in Nat
           /\ \A i \in todo : i \in 1..delivered /\ i \in Pending /\ pel[i] \in 1..CountLimit
  <1>. DEFINE L == [product : Titles, price : Prices, from : 1..delivered]
  <1>1. listings \in [DOMAIN listings -> L]
    BY DEF TypeOK, TablesOK
  <1>2. \A r \in L : r.from \in 1..delivered
    OBVIOUS
  <1>. HIDE DEF L
  <1>3. \A u \in DOMAIN listings : listings[u].from \in 1..delivered
    BY <1>1, <1>2
  <1>. QED
    BY <1>3 DEF TypeOK, RedisOK, Pending

\* The row of a message is the only one that an upsert changes.
LEMMA UpsertRows ==
    ASSUME NEW i, Upsert(i)
    PROVE  \A u \in DOMAIN listings' :
             \/ listings'[u].from = i
             \/ u \in DOMAIN listings /\ listings'[u] = listings[u]
  <1>. DEFINE m == stream[i]
              product == IF m.url \in DOMAIN listings THEN listings[m.url].product ELSE m.title
              row == [product |-> product, price |-> m.price, from |-> i]
  <1>1. listings' = [u \in DOMAIN listings \cup {m.url} |-> IF u = m.url THEN row ELSE listings[u]]
    BY DEF Upsert
  <1>2. row.from = i
    OBVIOUS
  <1>. HIDE DEF row, m
  <1>. QED
    BY <1>1, <1>2

LEMMA FewerInOrder ==
    ASSUME OrderInv, TypeOK', UNCHANGED listings, todo' \subseteq todo,
           phase' \in {"redeliver", "running"} => phase \in {"redeliver", "running"} \/ todo' = {},
           \A i \in todo' : pel'[i] = pel[i]
    PROVE  FreshInOrder'
  BY DEF OrderInv, FreshInOrder

LEMMA NextInOrder == OrderInv /\ TypeOK' /\ [Next]_vars => FreshInOrder'
  <1>. SUFFICES ASSUME OrderInv, TypeOK', [Next]_vars PROVE FreshInOrder'
    OBVIOUS
  <1>0. TypeOK /\ todo \subseteq Pending
    BY DEF OrderInv, TypeOK
  <1>1. CASE UNCHANGED vars \/ (\E l \in Listings : Publish(l))
    BY <1>1, FewerInOrder DEF vars, redis, tables, Publish
  <1>2. CASE Start \/ OverdueFails \/ ReadPendingFails \/ Halt
    BY <1>2, FewerInOrder DEF Start, OverdueFails, ReadPendingFails, Halt, redis, tables, OrderInv, FreshInOrder
  <1>3. CASE ReadPending
    <2>1. PICK S \in SUBSET Pending : pel' = Redelivered(S) /\ todo' = {i \in S : i > trimmed}
      BY <1>3, EarliestIsPart DEF ReadPending
    <2>2. ASSUME NEW i \in todo' PROVE pel'[i] # 1
      <3>1. i \in S /\ i \in Pending /\ i > trimmed
        BY <2>1
      <3>2. pel[i] \in 1..CountLimit /\ CountLimit \in Nat /\ CountLimit > 1
        BY <1>0, <3>1, QueueAssumption DEF TypeOK, RedisOK, Pending, CountLimit
      <3>3. pel'[i] = IF pel[i] < CountLimit THEN pel[i] + 1 ELSE pel[i]
        BY <2>1, <3>1 DEF Redelivered
      <3>. QED
        BY <3>2, <3>3
    <2>. QED
      BY <2>2 DEF FreshInOrder
  <1>4. CASE ReadNew
    <2>1. todo' \subseteq Waiting /\ UNCHANGED listings
      BY <1>4, EarliestIsPart DEF ReadNew, tables
    <2>2. \A i \in todo' : i > delivered /\ i \in Nat
      BY <1>0, <2>1, DeliveredOK DEF Waiting, TypeOK
    <2>3. \A u \in DOMAIN listings : listings[u].from \in 1..delivered /\ delivered \in Nat
      BY <1>0, RowsDelivered
    <2>. QED
      BY <2>1, <2>2, <2>3 DEF FreshInOrder
  <1>5. ASSUME NEW i \in Ids, Message(i) PROVE FreshInOrder'
    <2>1. CASE DeadLetter(i)
      BY <2>1, FewerInOrder DEF DeadLetter, tables
    <2>2. CASE Check(i) \/ Resolve(i) \/ Validate(i)
      BY <2>2, FewerInOrder DEF Check, Resolve, Validate, redis, tables
    <2>3. CASE Save(i) \/ SaveUnanswered(i)
      <3>1. /\ Upsert(i) /\ InTurn(i) /\ todo' \subseteq todo /\ UNCHANGED <<pel, phase>>
            /\ phase \in {"redeliver", "running"}
        BY <2>3 DEF Save, SaveUnanswered, Processing, redis
      <3>2. ASSUME NEW j \in todo', pel'[j] = 1, NEW u \in DOMAIN listings'
            PROVE  listings'[u].from <= j
        <4>1. CASE listings'[u].from = i
          BY <3>1, <4>1 DEF InTurn
        <4>2. CASE u \in DOMAIN listings /\ listings'[u] = listings[u]
          BY <3>1, <3>2, <4>2 DEF OrderInv, FreshInOrder
        <4>. QED
          BY <3>1, <4>1, <4>2, UpsertRows
      <3>. QED
        BY <3>2 DEF FreshInOrder
    <2>4. CASE Ack(i)
      <3>1. pel' = Acked(i) /\ todo' = todo \ {i} /\ UNCHANGED <<listings, phase>>
        BY <2>4 DEF Ack, tables
      <3>2. \A j \in todo' : pel'[j] = pel[j]
        BY <1>0, <3>1 DEF Acked
      <3>. QED
        BY <3>1, <3>2, FewerInOrder
    <2>5. CASE Fail(i)
      BY <2>5, FewerInOrder DEF Fail, redis, tables
    <2>. QED
      BY <1>5, <2>1, <2>2, <2>3, <2>4, <2>5 DEF Message
  <1>. QED
    BY <1>1, <1>2, <1>3, <1>4, <1>5 DEF Next, Loop

LEMMA OrderInvariance == Spec => []OrderInv
  <1>1. Init => FreshInOrder
    BY DEF Init, FreshInOrder
  <1>2. OrderInv /\ [Next]_vars => OrderInv'
    BY NextTyped, NextInOrder DEF OrderInv
  <1>. QED
    BY <1>1, <1>2, InitTyped, PTL DEF Spec, OrderInv

\* A row goes back to an earlier message only while that message is delivered
\* again (resolver.py, upsert_listing).
THEOREM RowsGoBackOnlyWhenRedelivered == Spec => OlderOnlyWhenRedelivered
  <1>. DEFINE InOrder == \A u \in DOMAIN listings :
                           listings'[u].from < listings[u].from => pel[listings'[u].from] > 1
  <1>1. OrderInv /\ [Next]_vars => [InOrder]_vars
    <2>. SUFFICES ASSUME OrderInv, [Next]_vars, NEW u \in DOMAIN listings,
                         listings'[u].from < listings[u].from
                  PROVE  pel[listings'[u].from] > 1
      OBVIOUS
    <2>0. TypeOK
      BY DEF OrderInv
    <2>1. listings[u].from \in Nat
      BY <2>0, RowsDelivered
    <2>2. ASSUME NEW i \in Ids, Save(i) \/ SaveUnanswered(i) PROVE pel[listings'[u].from] > 1
      <3>1. Upsert(i) /\ i \in todo /\ phase \in {"redeliver", "running"}
        BY <2>2 DEF Save, SaveUnanswered, Processing, InTurn
      <3>2. u \in DOMAIN listings'
        BY <3>1 DEF Upsert
      <3>3. listings'[u] # listings[u]
        BY <2>1
      <3>4. listings'[u].from = i
        BY <3>1, <3>2, <3>3, UpsertRows
      <3>5. pel[i] \in 1..CountLimit /\ i \in Nat
        BY <2>0, <3>1, RowsDelivered
      <3>6. pel[i] # 1
        BY <2>1, <3>1, <3>4, <3>5 DEF OrderInv, FreshInOrder
      <3>. QED
        BY <3>4, <3>5, <3>6 DEF CountLimit
    <2>3. ASSUME UNCHANGED listings PROVE FALSE
      BY <2>1, <2>3
    <2>. QED
      BY <2>2, <2>3
         DEF Next, Loop, Message, Publish, Start, OverdueFails, ReadPending, ReadPendingFails, ReadNew, Halt,
             DeadLetter, Check, Resolve, Validate, Ack, Fail, redis, tables, vars
  <1>. QED
    BY <1>1, OrderInvariance, PTL DEF OlderOnlyWhenRedelivered, Spec
===============================================================================
