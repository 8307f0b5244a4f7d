----------------------------- MODULE AtLeastOnce -----------------------------
(***************************************************************************)
(* What the processor's side of the raw_listings_queue stream promises:    *)
(* a listing handed to the consumer group stays pending until something    *)
(* definite has happened to it (it was saved, refused with a reason, or    *)
(* put in the dead letter queue), however often that takes.  The stream    *)
(* itself may drop listings that nobody has been handed yet: the producer  *)
(* bounds its length.                                                      *)
(***************************************************************************)
CONSTANT Ids   \* stream entries

VARIABLES
    waiting,   \* in the stream, handed to nobody
    pending,   \* handed to a consumer, not acknowledged
    handled    \* something definite has happened to it, at least once

qvars == <<waiting, pending, handled>>

Init == waiting = {} /\ pending = {} /\ handled = {}

\* A listing is published; the stream's limit may push out the oldest ones.
Publish(i, S) ==
    /\ i \notin waiting \cup pending \cup handled
    /\ S \subseteq waiting
    /\ waiting' = (waiting \cup {i}) \ S
    /\ UNCHANGED <<pending, handled>>

Deliver(S) ==
    /\ S \subseteq waiting
    /\ waiting' = waiting \ S
    /\ pending' = pending \cup S
    /\ UNCHANGED handled

\* Only what is pending is worked on, and it may be worked on again.
Handle(i) ==
    /\ i \in pending
    /\ handled' = handled \cup {i}
    /\ UNCHANGED <<waiting, pending>>

\* What is acknowledged is never handed out again, so it has to be handled.
Acknowledge(i) ==
    /\ i \in pending \cap handled
    /\ pending' = pending \ {i}
    /\ UNCHANGED <<waiting, handled>>

Next ==
    \/ \E i \in Ids, S \in SUBSET Ids : Publish(i, S)
    \/ \E S \in SUBSET Ids : Deliver(S)
    \/ \E i \in Ids : Handle(i) \/ Acknowledge(i)

Spec == Init /\ [][Next]_qvars
=============================================================================
