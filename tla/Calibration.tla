----------------------------- MODULE Calibration -----------------------------
(***************************************************************************)
(* The feedback loop of api/execution_tracker.py (what became of emitted   *)
(* opportunities) and api/runtime_config.py (the versioned parameters and  *)
(* the calibrator that moves them).  decay_rate_per_hour is left out: it   *)
(* moves as profit_buffer_pct does, from another statistic.                *)
(*                                                                         *)
(* Parameters are in millionths, which is what update() rounds them to;    *)
(* the running averages are truncated to that.  Profits are in cents,      *)
(* rates in ten-thousandths.                                               *)
(***************************************************************************)
EXTENDS Integers, Sequences, FiniteSets, SequencesExt, FiniteSetsExt, Functions

CONSTANTS
    Emitted,          \* opportunity ids
    Predicted,        \* the profits expected of them
    Observed,         \* what the fresh prices leave of them
    MaxTracked,       \* maxlen of the tracker's deque
    MinFeedback,      \* revalidated entries feedback needs (10 in the code)
    MaxHistory,       \* max_history
    ManualValues,     \* what an operator may set min_roi to
    MaxRecords,       \* bound: opportunities recorded
    MaxVersions       \* bound: updates, rollbacks and calibrations

ASSUME CalibrationAssumption ==
    /\ {MaxTracked, MinFeedback, MaxHistory} \subseteq Nat \ {0}
    /\ Predicted \subseteq Nat \ {0} /\ Observed \subseteq Int /\ ManualValues \subseteq Int

Params == {"buffer", "confidence", "roi", "profit"}
Bounds ==
    [buffer |-> <<0, 300000>>, confidence |-> <<100000, 950000>>,
     roi |-> <<10000, 400000>>, profit |-> <<1000000, 100000000>>]
Defaults ==
    [buffer |-> 50000, confidence |-> 300000, roi |-> 150000, profit |-> 20000000]

VARIABLES
    tracked,    \* the deque: serial numbers of entries, oldest first
    entries,    \* all entries ever recorded: [id, expected, revalidated, real]
    byId,       \* _by_id: the entry an id stands for; never shrinks
    history,    \* snapshots [values, version, source]; the last one is the current
    frozen,
    average,    \* the calibrator's _ema, of the parameters it has seen
    turns       \* updates, rollbacks and calibrations so far

calVars == <<tracked, entries, byId, history, frozen, average, turns>>
trackerVars == <<tracked, entries, byId>>
configVars == <<history, frozen>>

CalInit ==
    /\ tracked = <<>> /\ entries = <<>> /\ byId = <<>>
    /\ history = <<[values |-> Defaults, version |-> 0, source |-> "default"]>>
    /\ frozen = FALSE /\ average = <<>> /\ turns = 0

Current == Last(history)
NewestOf(s, n) == IF Len(s) > n THEN SubSeq(s, Len(s) - n + 1, Len(s)) ELSE s
Between(v, b) == IF v < b[1] THEN b[1] ELSE IF v > b[2] THEN b[2] ELSE v
Magnitude(v) == IF v < 0 THEN -v ELSE v
Nearest(n, d) == (2 * n + d) \div (2 * d)

-----------------------------------------------------------------------------
\* ShadowExecutionTracker.
RecordShadow ==
    /\ Len(entries) < MaxRecords
    /\ \E id \in Emitted, profit \in Predicted :
         /\ entries' = Append(entries, [id |-> id, expected |-> profit,
                                           revalidated |-> FALSE, real |-> 0])
         /\ byId' = [i \in DOMAIN byId \cup {id} |-> IF i = id THEN Len(entries') ELSE byId[i]]
    /\ tracked' = NewestOf(Append(tracked, Len(entries')), MaxTracked)
    /\ UNCHANGED <<configVars, average, turns>>

\* The entry may have left the deque long ago.
Revalidate ==
    /\ \E id \in DOMAIN byId, profit \in Observed :
         /\ ~entries[byId[id]].revalidated
         /\ entries' = [entries EXCEPT ![byId[id]].revalidated = TRUE, ![byId[id]].real = profit]
    /\ UNCHANGED <<tracked, byId, configVars, average, turns>>

Revalidated == {e \in ToSet(tracked) : entries[e].revalidated}
Drift == [e \in Revalidated |-> entries[e].real - entries[e].expected]
Failed == {e \in Revalidated : entries[e].real <= 0}
Samples == Cardinality(Revalidated)
MeanDrift == LET t == SumFunctionOnSet(Drift, Revalidated) IN
             IF t < 0 THEN -Nearest(-t, Samples) ELSE Nearest(t, Samples)
MeanPredicted ==
    Nearest(SumFunctionOnSet([e \in Revalidated |-> entries[e].expected], Revalidated), Samples)
FailureRate == Nearest(10000 * Cardinality(Failed), Samples)

\* profit_buffer_pct, to four places.
WantedBuffer ==
    IF MeanDrift < 0 THEN 100 * Nearest(10000 * Magnitude(MeanDrift), MeanPredicted) ELSE 0

ConfidenceStep == IF FailureRate > 3000 THEN 50000 ELSE IF FailureRate < 1000 THEN -20000 ELSE 0

-----------------------------------------------------------------------------
\* RuntimeConfig.

\* A new snapshot becomes the current one; the oldest is dropped.
Keep(values, source) ==
    history' = NewestOf(Append(history,
        [values |-> values, version |-> Current.version + 1, source |-> source]), MaxHistory)

\* A configuration that is stored as it is asked for.
Unclamped(changes) == [p \in Params |-> IF p \in DOMAIN changes THEN changes[p] ELSE Current.values[p]]

Clamped(changes) ==
    [p \in Params |-> IF p \in DOMAIN changes THEN Between(changes[p], Bounds[p]) ELSE Current.values[p]]

UpdateByHand ==
    /\ turns < MaxVersions /\ turns' = turns + 1
    /\ ~frozen
    /\ \E v \in ManualValues : Keep(Clamped([roi |-> v]), "manual")
    /\ UNCHANGED <<trackerVars, frozen, average>>

\* Without a version the snapshot before the last one, which after a rollback
\* is the one rolled back from.  A freeze is lifted.
RollBack ==
    /\ turns < MaxVersions /\ turns' = turns + 1
    /\ Len(history) >= 2
    /\ \E k \in 1..Len(history) : Keep(history[k].values, "rollback")
    /\ frozen' = FALSE
    /\ UNCHANGED <<trackerVars, average>>

FreezeByHand ==
    /\ turns < MaxVersions /\ turns' = turns + 1
    /\ frozen' = ~frozen
    /\ UNCHANGED <<trackerVars, history, average>>

-----------------------------------------------------------------------------
\* AutoCalibrator.
Nudge(low, high, up, down) ==
    IF MeanDrift < -low THEN up ELSE IF MeanDrift > high THEN -down ELSE 0

Wanted ==
    LET v == Current.values IN
    [buffer |-> WantedBuffer, confidence |-> v.confidence + ConfidenceStep,
     roi |-> v.roi + Nudge(500, 500, 10000, 5000),
     profit |-> v.profit + Nudge(1000, 1000, 2000000, 1000000)]

\* The first time the average starts from the current value; a rollback or a
\* change by hand does not move it.
Smoothed ==
    [p \in Params |->
        LET before == IF p \in DOMAIN average THEN average[p] ELSE Current.values[p] IN
        (3 * Wanted[p] + 7 * before) \div 10]

\* Five percent, or a thousandth, in one cycle.
LargestStep(v) == IF v < 20000 THEN 1000 ELSE v \div 20

Proposed ==
    [p \in Params |->
        LET v == Current.values[p] IN
        v + Between(Smoothed[p] - v, <<-LargestStep(v), LargestStep(v)>>)]

\* A guardrail that does not look at the rate of success.
AlwaysHealthy == TRUE

\* success_rate is below a half exactly when false_positive_rate is above it.
Healthy == 2 * Cardinality(Failed) <= Samples

TooFew ==
    /\ turns < MaxVersions /\ turns' = turns + 1
    /\ Samples < MinFeedback
    /\ UNCHANGED <<trackerVars, configVars, average>>

Guardrail ==
    /\ turns < MaxVersions /\ turns' = turns + 1
    /\ Samples >= MinFeedback /\ ~Healthy
    /\ frozen' = TRUE
    /\ UNCHANGED <<trackerVars, history, average>>

\* A shadow calibration lifts a freeze and moves the averages all the same.
Calibrate(shadow) ==
    /\ turns < MaxVersions /\ turns' = turns + 1
    /\ Samples >= MinFeedback /\ Healthy
    /\ frozen' = FALSE
    /\ average' = Smoothed
    /\ IF shadow THEN UNCHANGED history ELSE Keep(Clamped(Proposed), "calibration")
    /\ UNCHANGED trackerVars

CalNext ==
    \/ RecordShadow
    \/ Revalidate
    \/ UpdateByHand
    \/ RollBack
    \/ FreezeByHand
    \/ TooFew
    \/ Guardrail
    \/ \E shadow \in BOOLEAN : Calibrate(shadow)

CalSpec == CalInit /\ [][CalNext]_calVars

-----------------------------------------------------------------------------
\* Every snapshot a rollback can reach is within the hard bounds, and a version
\* number names one snapshot: rollbacks to "version n" cannot be ambiguous
\* although they add versions themselves (runtime_config.py:183).
HistorySound ==
    /\ Len(history) <= MaxHistory
    /\ \A k \in 1..Len(history) :
         /\ history[k].version = Current.version - (Len(history) - k)
         /\ \A p \in Params : Between(history[k].values[p], Bounds[p]) = history[k].values[p]

\* The feedback loop moves no parameter by more than its share of a cycle, and
\* none at all while most of what was looked at failed; and what a freeze holds
\* still, only a rollback or a calibration with good results moves.
LoopGuarded ==
    [][LET was == Current.values  is == Current'.values IN
       was # is =>
         \/ Current'.source = "rollback"
         \/ Current'.source = "manual" /\ ~frozen
         \/ /\ Current'.source = "calibration" /\ 2 * Cardinality(Failed) <= Samples
            /\ \A p \in Params : Magnitude(is[p] - was[p]) <= LargestStep(was[p])]_calVars
=============================================================================
