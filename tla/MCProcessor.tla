----------------------------- MODULE MCProcessor -----------------------------
(***************************************************************************)
(* The batch processor's parts, each on a small instance of its own: a     *)
(* behaviour is one of the part that Init chooses, the others stand still. *)
(***************************************************************************)
EXTENDS ProcessorPipeline, ProductIndex, Matching

VARIABLE part

vars == <<part, pipeVars, indexVars, matchVars>>

Init == part \in {"pipeline", "index", "matching"} /\ PipeInit /\ IndexInit /\ MatchInit

Next ==
    /\ UNCHANGED part
    /\ \/ part = "pipeline" /\ PipeNext /\ UNCHANGED <<indexVars, matchVars>>
       \/ part = "index" /\ IndexNext /\ UNCHANGED <<pipeVars, matchVars>>
       \/ part = "matching" /\ MatchNext /\ UNCHANGED <<pipeVars, indexVars>>

Pipeline == part = "pipeline"

Spec ==
    /\ Init /\ [][Next]_vars
    /\ WF_vars(Pipeline /\ Main /\ UNCHANGED <<part, indexVars, matchVars>>)
    /\ WF_vars(Pipeline /\ Reader /\ UNCHANGED <<part, indexVars, matchVars>>)
    /\ WF_vars(Pipeline /\ Batcher /\ UNCHANGED <<part, indexVars, matchVars>>)
    /\ WF_vars(Pipeline /\ Writer /\ UNCHANGED <<part, indexVars, matchVars>>)

Sample(url, price, form) == [url |-> url, title |-> "t", price |-> price, form |-> form]

Candidates ==
    [brand : {"unknown", "same", "alias", "other"}, models : {-1, 0, 2}, storage : {"none", "same", "other"},
     bundle : {FALSE}, sim : {69, 72, 76, 85, 95}]
Likely == {c \in Candidates : c.brand \in {"unknown", "same"} /\ c.models # 0 /\ c.storage # "other" /\ c.sim # 69}
Singles == {<<c>> : c \in Candidates \cup {[c EXCEPT !.bundle = TRUE] : c \in Likely}}
Lists == Singles \cup {<<c, d>> : c \in Likely, d \in Likely}

Asked == [brand : {"none", "b"}, model : {"none", "m"}, price : {10}, kind : {"main"}]
Product(model, median, sim) ==
    [brand |-> "b", model |-> model, kind |-> "main", median |-> median, count |-> 3, sim |-> sim]
Stock ==
    {Product(m, d, s) : m \in {"none", "m", "n"}, d \in {10, 40}, s \in {70, 90}}
    \cup {[Product("m", 10, 80) EXCEPT !.brand = b, !.kind = k] : b \in {"b", "c"}, k \in {"main", "accessory"}}
    \cup {[Product("n", 10, 95) EXCEPT !.brand = "c"]}
Shelved == {<<p, q>> : p \in Stock, q \in Stock}

PipeSamples == {Sample("u", 2, "whole")}
=============================================================================
