--------------------------------- MODULE Queues ---------------------------------
(***************************************************************************)
(* The two queues made for scaling the scrapers out, which share nothing.  *)
(*                                                                         *)
(* infra/pipeline.py: one consumer of a stream that processes batches,     *)
(* writes the results to an output stream, acknowledges, adds failed       *)
(* messages again and gives them up to a dead letter queue. The input      *)
(* stream is a sequence of entries [msg, retries, state]; a message is     *)
(* what all entries of its retries have in common.                         *)
(*                                                                         *)
(* scraper/task_queue.py: schedulers add scrape tasks to a stream, workers *)
(* of one consumer group run them, a task that fails is added again and in *)
(* the end goes to the dead letter stream.                                 *)
(***************************************************************************)
EXTENDS Filtering, FiniteSets, SequencesExt

-----------------------------------------------------------------------------
(* infra/pipeline.py *)

CONSTANTS
    StageMsgs,      \* what producers add, in this order
    BatchSize,      \* batch_size
    StageRetries,   \* MAX_RETRIES
    MaxStageFaults  \* bound: failed calls, failed messages and crashes

ASSUME StageAssumption ==
    /\ StageMsgs \in Seq(ToSet(StageMsgs)) /\ IsInjective(StageMsgs)
    /\ BatchSize \in Nat \ {0} /\ {StageRetries, MaxStageFaults} \subseteq Nat

VARIABLES
    source,     \* the entries of the input stream: "new", "pending" or "acked"
    results,    \* the messages on the output stream
    dead,       \* the messages in the dead letter queue
    stage,      \* [at, batch, todo, good]: the step, the entries read, those it is
                \* still to handle in this step, those that are processed
    stageFaults

stageVars == <<source, results, dead, stage, stageFaults>>

Reading == [at |-> "read", batch |-> <<>>, todo |-> <<>>, good |-> {}]
Down == [Reading EXCEPT !.at = "down"]

StageInit ==
    /\ source = [i \in DOMAIN StageMsgs |-> [msg |-> StageMsgs[i], retries |-> 0, state |-> "new"]]
    /\ results = <<>> /\ dead = <<>> /\ stage = Reading /\ stageFaults = 0

StageFault == stageFaults < MaxStageFaults /\ stageFaults' = stageFaults + 1
Acked(q, S) == [i \in DOMAIN q |-> IF i \in S THEN [q[i] EXCEPT !.state = "acked"] ELSE q[i]]
\* The next step, passed over where it has nothing to do.
Then(at, todo) ==
    IF todo = <<>> THEN IF at = "write" THEN [stage EXCEPT !.at = "ack", !.todo = <<>>] ELSE Reading
    ELSE [stage EXCEPT !.at = at, !.todo = todo]

-----------------------------------------------------------------------------
\* XREADGROUP of new entries; what is pending is never read again.
ReadBatch ==
    /\ stage.at = "read"
    /\ LET new == Without([i \in DOMAIN source |-> i], {i \in DOMAIN source : source[i].state # "new"})
           got == SubSeq(new, 1, IF Len(new) < BatchSize THEN Len(new) ELSE BatchSize)
       IN  /\ got # <<>>
           /\ source' = [i \in DOMAIN source |->
                           IF i \in ToSet(got) THEN [source[i] EXCEPT !.state = "pending"] ELSE source[i]]
           /\ stage' = [Reading EXCEPT !.at = "process", !.batch = got]
    /\ UNCHANGED <<results, dead, stageFaults>>

\* process_batch returns results for some, or raises.
Process ==
    /\ stage.at = "process"
    /\ \/ \E failed \in SUBSET ToSet(stage.batch) :
            /\ IF failed = {} THEN UNCHANGED stageFaults ELSE StageFault
            /\ stage' = Then("write", Without(stage.batch, failed))
       \/ StageFault /\ stage' = Then("bury", stage.batch)
    /\ UNCHANGED <<source, results, dead>>

\* _send_to_dlq: the letter, then the acknowledgement; it swallows what fails.
SendToDlq(i, next) ==
    /\ \/ dead' = Append(dead, source[i].msg) /\ source' = Acked(source, {i}) /\ UNCHANGED stageFaults
       \/ StageFault /\ dead' = Append(dead, source[i].msg) /\ UNCHANGED source
       \/ StageFault /\ UNCHANGED <<dead, source>>
    /\ stage' = next
    /\ UNCHANGED results

\* A batch that raised: every message is buried, and then handled as failed.
Bury ==
    /\ stage.at = "bury"
    /\ SendToDlq(Head(stage.todo),
           IF Len(stage.todo) > 1 THEN Then("bury", Tail(stage.todo)) ELSE Then("fail", stage.batch))

WriteResult ==
    /\ stage.at = "write"
    /\ LET i == Head(stage.todo)  rest == Then("write", Tail(stage.todo)) IN
         \/ /\ results' = Append(results, source[i].msg) /\ UNCHANGED stageFaults
            /\ stage' = [rest EXCEPT !.good = @ \cup {i}]
         \/ StageFault /\ (UNCHANGED results \/ results' = Append(results, source[i].msg)) /\ stage' = rest
    /\ UNCHANGED <<source, dead>>

Unprocessed == Without(stage.batch, stage.good)

ProcessedIds == stage.good

\* One XACK of all that were written; an error ends run().
AckProcessed ==
    /\ stage.at = "ack"
    /\ \/ source' = Acked(source, ProcessedIds) /\ stage' = Then("fail", Unprocessed) /\ UNCHANGED stageFaults
       \/ StageFault /\ ProcessedIds # {} /\ stage' = Down
          /\ (UNCHANGED source \/ source' = Acked(source, ProcessedIds))
    /\ UNCHANGED <<results, dead>>

MayRetry(i) == source[i].retries < StageRetries

\* _handle_failure: added again with one retry more, then acknowledged; an
\* error in between ends run().
HandleFailure ==
    /\ stage.at = "fail"
    /\ LET i == Head(stage.todo)  rest == Then("fail", Tail(stage.todo))
           again == Append(source, [source[i] EXCEPT !.retries = @ + 1, !.state = "new"])
       IN  IF MayRetry(i)
           THEN /\ \/ source' = Acked(again, {i}) /\ stage' = rest /\ UNCHANGED stageFaults
                   \/ StageFault /\ stage' = Down /\ (source' = again \/ UNCHANGED source)
                /\ UNCHANGED <<results, dead>>
           ELSE SendToDlq(i, rest)

StageCrash ==
    /\ stage.at \notin {"down", "read"} /\ StageFault /\ stage' = Down
    /\ UNCHANGED <<source, results, dead>>

\* A new process claims what is pending, counts it and leaves it there.
StageRestart ==
    /\ stage.at = "down" /\ stage' = Reading
    /\ UNCHANGED <<source, results, dead, stageFaults>>

StageNext ==
    \/ ReadBatch \/ Process \/ Bury \/ WriteResult \/ AckProcessed \/ HandleFailure
    \/ StageCrash \/ StageRestart

StageSpec == StageInit /\ [][StageNext]_stageVars

-----------------------------------------------------------------------------
\* A message is acknowledged only when it is on the output stream, in the dead
\* letter queue, or on the input stream again: wherever the stage dies, no
\* message is gone.
NothingDisappears ==
    \A m \in ToSet(StageMsgs) :
        \/ m \in ToSet(results) \/ m \in ToSet(dead)
        \/ \E i \in DOMAIN source : source[i].msg = m /\ source[i].state # "acked"

\* A message goes round at most 1 + MAX_RETRIES times, however often the stage
\* is interrupted between adding it again and acknowledging it.
RoundsBounded ==
    \A m \in ToSet(StageMsgs) :
        Cardinality({i \in DOMAIN source : source[i].msg = m}) <= 1 + StageRetries

-----------------------------------------------------------------------------
(* scraper/task_queue.py *)

CONSTANTS
    TaskKeys,       \* task_type:marketplace:target
    Callers,        \* concurrent callers of one scheduler
    TaskWorkers,
    TaskRetries,    \* MAX_TASK_RETRIES
    MaxTaskFaults,  \* bound: failed calls and crashes
    MaxScheduled    \* bound: calls of schedule

ASSUME TaskQueueAssumption ==
    {TaskRetries, MaxTaskFaults, MaxScheduled} \subseteq Nat /\ IsFiniteSet(Callers)

VARIABLES
    entries,    \* the stream: [key, retries, cycle, state], "new", "pending" or "acked",
                \* and history: heard, the scheduler has had the answer of its XADD
    scheduled,  \* _scheduled_keys
    adding,     \* per caller the key it is adding, in a set
    keyCycle,   \* scheduling cycles
    runs,       \* per worker [task, at]; task 0: none
    completed,  \* keys whose handler has succeeded, once per success
    buried,     \* the dead letter stream
    scheduleCalls, taskFaults

taskVars == <<entries, scheduled, adding, keyCycle, runs, completed, buried, scheduleCalls, taskFaults>>

Waiting == [task |-> 0, at |-> "read"]

TaskInit ==
    /\ entries = <<>> /\ scheduled = {} /\ adding = [c \in Callers |-> {}] /\ keyCycle = 0
    /\ runs = [w \in TaskWorkers |-> Waiting] /\ completed = [k \in TaskKeys |-> 0] /\ buried = <<>>
    /\ scheduleCalls = 0 /\ taskFaults = 0

TaskFault == taskFaults < MaxTaskFaults /\ taskFaults' = taskFaults + 1
AckTask(q, i) == [q EXCEPT ![i].state = "acked"]

-----------------------------------------------------------------------------
\* schedule looks at the keys before its calls to Redis and adds its own after.
Schedule(c) ==
    /\ adding[c] = {} /\ scheduleCalls < MaxScheduled
    /\ \E k \in TaskKeys \ scheduled : adding' = [adding EXCEPT ![c] = {k}]
    /\ scheduleCalls' = scheduleCalls + 1
    /\ UNCHANGED <<entries, scheduled, keyCycle, runs, completed, buried, taskFaults>>

Remembered(k) == scheduled \cup {k}

NewTask(k, heard) ==
    [key |-> k, retries |-> 0, cycle |-> keyCycle, state |-> "new", heard |-> heard]

\* The key is remembered once the XADD has answered; a call that fails may have
\* added the task all the same.
AddTask(c) ==
    /\ \E k \in adding[c] :
         \/ /\ entries' = Append(entries, NewTask(k, TRUE))
            /\ scheduled' = Remembered(k) /\ UNCHANGED taskFaults
         \/ TaskFault /\ entries' = Append(entries, NewTask(k, FALSE)) /\ UNCHANGED scheduled
         \/ TaskFault /\ UNCHANGED <<entries, scheduled>>
    /\ adding' = [adding EXCEPT ![c] = {}]
    /\ UNCHANGED <<keyCycle, runs, completed, buried, scheduleCalls>>

\* reset_cycle, which the callers in flight do not notice.
ResetCycle ==
    /\ scheduled # {} /\ scheduled' = {} /\ keyCycle' = keyCycle + 1
    /\ UNCHANGED <<entries, adding, runs, completed, buried, scheduleCalls, taskFaults>>

-----------------------------------------------------------------------------
\* XREADGROUP of one new task; pending ones are never read again.
TakeTask(w) ==
    /\ runs[w].at = "read"
    /\ \E i \in DOMAIN entries :
         /\ entries[i].state = "new" /\ \A j \in 1..(i - 1) : entries[j].state # "new"
         /\ entries' = [entries EXCEPT ![i].state = "pending"]
         /\ runs' = [runs EXCEPT ![w] = [task |-> i, at |-> "handle"]]
    /\ UNCHANGED <<scheduled, adding, keyCycle, completed, buried, scheduleCalls, taskFaults>>

\* The handler, then the acknowledgement under the same try.
RunTask(w) ==
    /\ runs[w].at = "handle"
    /\ \/ /\ completed' = [completed EXCEPT ![entries[runs[w].task].key] = @ + 1]
          /\ runs' = [runs EXCEPT ![w].at = "ack"] /\ UNCHANGED taskFaults
       \/ /\ TaskFault /\ runs' = [runs EXCEPT ![w].at = "failed"] /\ UNCHANGED completed
    /\ UNCHANGED <<entries, scheduled, adding, keyCycle, buried, scheduleCalls>>

AckCompleted(w) ==
    /\ runs[w].at = "ack"
    /\ \/ /\ entries' = AckTask(entries, runs[w].task) /\ UNCHANGED taskFaults
          /\ runs' = [runs EXCEPT ![w] = Waiting]
       \/ /\ TaskFault /\ runs' = [runs EXCEPT ![w].at = "failed"]
          /\ (UNCHANGED entries \/ entries' = AckTask(entries, runs[w].task))
    /\ UNCHANGED <<scheduled, adding, keyCycle, completed, buried, scheduleCalls>>

\* A worker that gives a task up without a letter.
NoLetter(i) == buried

Buried(i) == Append(buried, entries[i].key)

\* Added again or buried, and then acknowledged; an error leaves the task
\* pending, for nobody.
SettleFailed(w) ==
    /\ runs[w].at = "failed"
    /\ LET i == runs[w].task
           again == Append(entries, [entries[i] EXCEPT !.retries = @ + 1, !.state = "new"])
       IN  IF entries[i].retries < TaskRetries
           THEN /\ \/ entries' = AckTask(again, i) /\ UNCHANGED taskFaults
                   \/ TaskFault /\ (entries' = again \/ UNCHANGED entries)
                /\ UNCHANGED buried
           ELSE \/ entries' = AckTask(entries, i) /\ buried' = Buried(i) /\ UNCHANGED taskFaults
                \/ TaskFault /\ UNCHANGED entries /\ (buried' = Buried(i) \/ UNCHANGED buried)
    /\ runs' = [runs EXCEPT ![w] = Waiting]
    /\ UNCHANGED <<scheduled, adding, keyCycle, completed, scheduleCalls>>

WorkerDies(w) ==
    /\ runs[w].at # "read" /\ TaskFault
    /\ runs' = [runs EXCEPT ![w] = Waiting]
    /\ UNCHANGED <<entries, scheduled, adding, keyCycle, completed, buried, scheduleCalls>>

TaskNext ==
    \/ ResetCycle \/ \E c \in Callers : Schedule(c) \/ AddTask(c)
    \/ \E w \in TaskWorkers :
         TakeTask(w) \/ RunTask(w) \/ AckCompleted(w) \/ SettleFailed(w) \/ WorkerDies(w)

TaskSpec == TaskInit /\ [][TaskNext]_taskVars

-----------------------------------------------------------------------------
\* A task the stream has acknowledged was completed, buried or added again; in
\* particular a worker that dies in between leaves it pending, not lost.
TaskAccounted ==
    \A i \in DOMAIN entries : entries[i].state = "acked" =>
        \/ completed[entries[i].key] > 0 \/ entries[i].key \in ToSet(buried)
        \/ \E j \in DOMAIN entries : entries[j].key = entries[i].key /\ entries[j].state # "acked"

\* The keys make a task unique within a cycle, up to the callers that looked
\* before the first of them had its answer, and to the tasks whose answer was
\* lost: those the scheduler does not know of, and adds again.
DuplicatesPerCycle ==
    \A k \in TaskKeys, n \in 0..keyCycle :
        Cardinality({i \in DOMAIN entries :
            /\ entries[i].key = k /\ entries[i].cycle = n /\ entries[i].retries = 0
            /\ entries[i].heard}) <= Cardinality(Callers)

-----------------------------------------------------------------------------
\* What either queue promises: NothingDisappears and RoundsBounded of the stage,
\* TaskAccounted and DuplicatesPerCycle of the tasks.
QueuesSound == NothingDisappears /\ RoundsBounded /\ TaskAccounted /\ DuplicatesPerCycle
=================================================================================
