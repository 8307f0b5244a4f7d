--------------------------- MODULE DecisionPipeline ---------------------------
(***************************************************************************)
(* From opportunities to orders: the orchestrator, the portfolio optimizer *)
(* and the execution bridge of src/engines, three processes that hand each *)
(* other messages through Redis streams.                                   *)
(*                                                                         *)
(*   orchestrator_input -> OrchestratorConsumer -> process_opportunity     *)
(*   orchestrator_events -> PortfolioOptimizerService                      *)
(*   execution_selected -> ExecutionBridge -> create_order                 *)
(*                                                                         *)
(* Each reads with ">" what its group has not read yet, and never what it  *)
(* has read without acknowledging it: a position in the stream is all that *)
(* a group remembers.  The bridge may be set to read orchestrator_events.  *)
(*                                                                         *)
(* Acknowledgements are in the model where one that fails changes what is  *)
(* done next.  Prices and profits are in cents.                            *)
(***************************************************************************)
EXTENDS Policies, Selection

CONSTANTS
    Offered,        \* opportunity -> its product, buy price, net profit, roi and risk
    Inbox,          \* orchestrator_input: messages, each a sequence of opportunities
    Forecasted,     \* signals the prediction engine may give
    Trending,       \* signals the trend engine may give, Absent among them
    Attempts,       \* max_retries + 1
    Parallel,       \* semaphore of process_batch
    MaxCrashes      \* bound: processes that end, of the three

ASSUME PipelineAssumption ==
    /\ Attempts \in Nat \ {0} /\ Parallel \in Nat \ {0} /\ MaxCrashes \in Nat
    /\ Inbox \in Seq(Seq(DOMAIN Offered)) /\ \A opp \in DOMAIN Offered : Offered[opp].buy \in Nat

Phases == {"prediction", "trend"}

VARIABLES
    direct,     \* BRIDGE_INPUT_STREAM is orchestrator_events
    handed,     \* messages of Inbox read by the group
    hand,       \* messages the consumer holds, the first being processed
    runs,       \* process_opportunity of each opportunity of that message
    saved,      \* orchestrator_pipelines, in order
    advices,    \* orchestrator_events: the recommendations, in order
    heard,      \* advices read by the optimizer
    ears,       \* advices it holds
    batch,      \* _batch
    turn,       \* where its loop is: it reads, or it flushes its batch
    approved,   \* approved candidates not yet published
    batches,    \* batches optimized
    chosen,     \* execution_selected, in order
    taken,      \* messages read by the bridge
    todo,       \* messages it holds
    tickets,    \* rows of execution_orders it has created
    crashes

orchestration == <<handed, hand, runs, saved>>
optimizing == <<heard, ears, batch, turn, approved, batches>>
bridging == <<taken, todo, tickets>>
dvars == <<direct, orchestration, advices, optimizing, chosen, bridging, crashes>>

DInit ==
    /\ direct \in BOOLEAN
    /\ handed = 0 /\ hand = <<>> /\ runs = <<>> /\ saved = <<>> /\ advices = <<>>
    /\ heard = 0 /\ ears = <<>> /\ batch = <<>> /\ turn = "read" /\ approved = <<>> /\ batches = 0 /\ chosen = <<>>
    /\ taken = 0 /\ todo = <<>> /\ tickets = <<>> /\ crashes = 0

-----------------------------------------------------------------------------
\* The orchestrator.
NotRun == [status |-> "running", attempts |-> 0, signal |-> Absent]
Queued(opp) ==
    [opp |-> opp, step |-> "queued", phases |-> [p \in Phases |-> NotRun],
     decision |-> Absent]

Busy(i) == runs[i].step \notin {"queued", "over"}
Settled(i) == \A p \in Phases : runs[i].phases[p].status \in {"completed", "failed"}

\* xreadgroup, up to ten messages.
Receive ==
    /\ hand = <<>> /\ handed < Len(Inbox)
    /\ handed' = Smaller(Len(Inbox), handed + 10)
    /\ hand' = SubSeq(Inbox, handed + 1, handed')
    /\ UNCHANGED <<direct, runs, saved, advices, optimizing, chosen, bridging, crashes>>

Dispatch ==
    /\ hand # <<>> /\ runs = <<>>
    /\ runs' = [i \in DOMAIN Head(hand) |-> Queued(Head(hand)[i])]
    /\ UNCHANGED <<direct, handed, hand, saved, advices, optimizing, chosen, bridging, crashes>>

\* process_batch has gathered its runs: on to the next message, whether or not
\* this one can be acknowledged.
Gathered ==
    /\ hand # <<>> /\ \A i \in DOMAIN runs : runs[i].step = "over"
    /\ runs # <<>> \/ Head(hand) = <<>>
    /\ hand' = Tail(hand) /\ runs' = <<>>
    /\ UNCHANGED <<direct, handed, saved, advices, optimizing, chosen, bridging, crashes>>

Enrich(i) ==
    /\ runs[i].step = "queued" /\ Cardinality({j \in DOMAIN runs : Busy(j)}) < Parallel
    /\ runs' = [runs EXCEPT ![i].step = "enrich"]
    /\ UNCHANGED <<direct, handed, hand, saved, advices, optimizing, chosen, bridging, crashes>>

\* run_phase: an attempt succeeds, or it fails or is late and the next one, if
\* there is one, starts after a pause.
SignalsOf(p) == IF p = "prediction" THEN Forecasted ELSE Trending

Attempt(i, p) ==
    /\ runs[i].step = "enrich"
    /\ LET phase == runs[i].phases[p] IN
         /\ phase.status # "completed" /\ phase.attempts < Attempts
         /\ \E status \in {"completed", "failing"} : \E signal \in SignalsOf(p) :
              runs' = [runs EXCEPT ![i].phases[p] =
                [attempts |-> phase.attempts + 1,
                 status |-> IF status = "completed" THEN "completed"
                            ELSE IF phase.attempts + 1 = Attempts THEN "failed" ELSE "failing",
                 signal |-> IF status = "completed" THEN signal ELSE Absent]]
    /\ UNCHANGED <<direct, handed, hand, saved, advices, optimizing, chosen, bridging, crashes>>

\* The signals are those of the completed phases.
Conclude(i) ==
    /\ runs[i].step = "enrich" /\ Settled(i)
    /\ runs' = [runs EXCEPT ![i].step = "save", ![i].decision =
         CompositeDecision(Offered[runs[i].opp], runs[i].phases["prediction"].signal,
                           runs[i].phases["trend"].signal)]
    /\ UNCHANGED <<direct, handed, hand, saved, advices, optimizing, chosen, bridging, crashes>>

Record(i) ==
    [opp |-> runs[i].opp, decision |-> runs[i].decision.decision,
     score |-> runs[i].decision.score,
     sighted |-> \E p \in Phases : runs[i].phases[p].signal # Absent]
AfterSave(i) == IF runs[i].decision.decision = "execute" THEN "publish" ELSE "over"

\* Mutant: a save that raises is logged, and the run carries on.
SaveOrCarryOn(i) ==
    /\ runs[i].step = "save"
    /\ saved' \in {Append(saved, Record(i)), saved}
    /\ runs' = [runs EXCEPT ![i].step = AfterSave(i)]
    /\ UNCHANGED <<direct, handed, hand, advices, optimizing, chosen, bridging, crashes>>

\* save_pipeline, which ends the run if it raises.
SavePipeline(i) ==
    /\ runs[i].step = "save"
    /\ \/ saved' = Append(saved, Record(i)) /\ runs' = [runs EXCEPT ![i].step = AfterSave(i)]
       \/ runs' = [runs EXCEPT ![i].step = "over"] /\ UNCHANGED saved
    /\ UNCHANGED <<direct, handed, hand, advices, optimizing, chosen, bridging, crashes>>

\* execution_recommended, or an error that is logged.  It says no more of the
\* opportunity than this.
Recommend(i) ==
    /\ runs[i].step = "publish"
    /\ \/ advices' = Append(advices,
            [opp |-> runs[i].opp, product |-> Offered[runs[i].opp].product,
             price |-> Offered[runs[i].opp].buy, score |-> runs[i].decision.score])
       \/ UNCHANGED advices
    /\ runs' = [runs EXCEPT ![i].step = "over"]
    /\ UNCHANGED <<direct, handed, hand, saved, optimizing, chosen, bridging, crashes>>

-----------------------------------------------------------------------------
\* The optimizer.  What an event lacks is filled in.
Candidate(advice) ==
    [opp |-> advice.opp, product |-> advice.product, route |-> "->", capital |-> advice.price,
     profit |-> 0, velocity |-> 50, confidence |-> 50, risk |-> 50, score |-> advice.score,
     strength |-> "moderate"]

\* xreadgroup, or the window passes without a message.
Hear ==
    /\ turn = "read" /\ ears = <<>> /\ approved = <<>>
    /\ \/ /\ heard < Len(advices)
          /\ heard' = Smaller(Len(advices), heard + 500)
          /\ ears' = SubSeq(advices, heard + 1, heard')
          /\ UNCHANGED turn
       \/ heard = Len(advices) /\ batch # <<>> /\ turn' = "flush" /\ UNCHANGED <<heard, ears>>
    /\ UNCHANGED <<direct, orchestration, advices, batch, approved, batches, chosen, bridging, crashes>>

\* _collect, and then the acknowledgement: if that fails the rest of what was
\* read is dropped, and the batch waits for the next messages.
Collect ==
    /\ ears # <<>>
    /\ batch' = IF Head(ears).price > 0 THEN Append(batch, Candidate(Head(ears))) ELSE batch
    /\ \/ /\ ears' = Tail(ears)
          /\ turn' = IF ears' = <<>> /\ batch' # <<>> THEN "flush" ELSE "read"
       \/ ears' = <<>> /\ turn' = "read"
    /\ UNCHANGED <<direct, orchestration, advices, heard, approved, batches, chosen, bridging, crashes>>

\* _flush_batch, of a portfolio without positions.
FlushBatch ==
    /\ turn = "flush"
    /\ approved' = optimize(batch) /\ batch' = <<>> /\ batches' = batches + 1 /\ turn' = "read"
    /\ UNCHANGED <<direct, orchestration, advices, heard, ears, chosen, bridging, crashes>>

\* execution_selected, or an error that is logged.
PublishSelected ==
    /\ approved # <<>>
    /\ LET c == Head(approved) IN
         \/ chosen' = Append(chosen, [opp |-> c.opp, product |-> c.product, price |-> c.capital,
                                      score |-> c.score, strength |-> c.strength, of |-> batches])
         \/ UNCHANGED chosen
    /\ approved' = Tail(approved)
    /\ UNCHANGED <<direct, orchestration, advices, heard, ears, batch, turn, batches, bridging, crashes>>

-----------------------------------------------------------------------------
\* The bridge.  A recommendation names no strength, which is weak.
Events == IF direct
          THEN [i \in DOMAIN advices |->
                  [opp |-> advices[i].opp, price |-> advices[i].price, score |-> advices[i].score,
                   strength |-> "weak"]]
          ELSE chosen

MIN_DECISION_SCORE == 6000
StrengthOrder == [weak |-> 0, conflicting |-> 0, moderate |-> 1, strong |-> 2]

ExecutionMode(event) ==
    IF event.strength = "strong" /\ event.score >= 8000 THEN "auto"
    ELSE IF StrengthOrder[event.strength] >= 1 /\ event.score >= 6500 THEN "assisted"
    ELSE "manual"

\* net_profit, which neither publisher sends.
EstimatedProfit(event) == 0

\* The guards of the risk engine that look at the order alone; the others may
\* refuse it as well.
MinROIGuard(price, profit) == profit * Whole >= 500 * price
MinProfitGuard(profit) == profit >= 500

Take ==
    /\ todo = <<>> /\ taken < Len(Events)
    /\ taken' = Smaller(Len(Events), taken + 10)
    /\ todo' = SubSeq(Events, taken + 1, taken')
    /\ UNCHANGED <<direct, orchestration, advices, optimizing, chosen, tickets, crashes>>

\* Skipped, an order, or an error: in each case it is acknowledged.
Handle ==
    /\ todo # <<>>
    /\ LET event == Head(todo)
           sound == /\ MinROIGuard(event.price, EstimatedProfit(event))
                    /\ MinProfitGuard(EstimatedProfit(event)) IN
         \/ /\ event.score >= MIN_DECISION_SCORE /\ StrengthOrder[event.strength] >= 1
            /\ event.price > 0
            /\ \E passed \in BOOLEAN :
                 tickets' = Append(tickets, [opp |-> event.opp, mode |-> ExecutionMode(event),
                                           live |-> passed /\ sound])
         \/ UNCHANGED tickets
    /\ todo' = Tail(todo)
    /\ UNCHANGED <<direct, orchestration, advices, optimizing, chosen, taken, crashes>>

-----------------------------------------------------------------------------
\* A process ends, by a crash or cancelled while it publishes, and is started again.
Crash ==
    /\ crashes < MaxCrashes /\ crashes' = crashes + 1
    /\ \/ hand' = <<>> /\ runs' = <<>> /\ UNCHANGED <<ears, batch, turn, approved, todo>>
       \/ /\ ears' = <<>> /\ batch' = <<>> /\ approved' = <<>> /\ turn' = "read"
          /\ UNCHANGED <<hand, runs, todo>>
       \/ todo' = <<>> /\ UNCHANGED <<hand, runs, ears, batch, turn, approved>>
    /\ UNCHANGED <<direct, handed, saved, advices, heard, batches, chosen, taken, tickets>>

Run(i) ==
    Enrich(i) \/ (\E p \in Phases : Attempt(i, p)) \/ Conclude(i) \/ SavePipeline(i) \/ Recommend(i)

DNext ==
    \/ Receive \/ Dispatch \/ Gathered \/ \E i \in DOMAIN runs : Run(i)
    \/ Hear \/ Collect \/ FlushBatch \/ PublishSelected
    \/ Take \/ Handle \/ Crash

-----------------------------------------------------------------------------
Of(s, opp) == {i \in DOMAIN s : s[i].opp = opp}
Count(s, opp) == Cardinality(Of(s, opp))
Executed(opp) == {i \in Of(saved, opp) : saved[i].decision = "execute"}

\* What is recommended was saved first as a decision to execute, so that whoever
\* acts on it finds why; and no decision is acted upon twice, whatever is lost,
\* retried or started again on the way.
NothingIsDoneTwice ==
    \A opp \in DOMAIN Offered :
        /\ Count(advices, opp) <= Cardinality(Executed(opp))
        /\ Count(chosen, opp) <= Count(advices, opp)
        /\ Count(tickets, opp) <= IF direct THEN 0 ELSE Count(chosen, opp)

\* What is executed was seen by one of the engines: when both of them are down
\* the pipeline advises nothing.
BlindNeverAdvised == \A i \in DOMAIN saved : saved[i].decision = "execute" => saved[i].sighted

\* One batch is within the capital and the limits, although the optimizer knows
\* none of the positions that earlier batches have opened.
BatchesAreWithinLimits ==
    \A b \in 1..batches :
        LET mine == {i \in DOMAIN chosen : chosen[i].of = b} IN
            /\ SumFunctionOnSet([i \in DOMAIN chosen |-> chosen[i].price], mine) <= TotalCapital
            /\ Cardinality(mine) <= MaxPositions
            /\ \A i, j \in mine : chosen[i].opp = chosen[j].opp => i = j

\* Only what a person confirms comes out of the pipeline, and nothing of that may
\* be executed: the profit is lost between the optimizer and the bridge, and the
\* guards cancel every order for earning nothing.
NothingIsBought == \A i \in DOMAIN tickets : tickets[i].mode # "auto" /\ ~tickets[i].live
=============================================================================
