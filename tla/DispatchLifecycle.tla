--------------------------- MODULE DispatchLifecycle ---------------------------
(******************************************************************************)
(* What the dispatch and completion-event tables promise, whatever requests,  *)
(* brokers and workers do: the attempts of an item are made one after the     *)
(* other, each under a request key of its own; an attempt waits, is queued,   *)
(* runs and is settled for good; and settling it writes its completion event, *)
(* unless a publisher refused it.                                             *)
(******************************************************************************)
EXTENDS Naturals

CONSTANTS
    Item,          \* items
    Key,           \* request keys
    MaxAttempt     \* attempts per item

VARIABLES
    dispatch,      \* ingest_dispatch rows: state, error and request key
    event          \* ingest_completion_event, at most one per dispatch

Dispatch == Item \X (1..MaxAttempt)

NoEvent == [state |-> "none", error |-> "none"]

Terminal   == {"completed", "failed"}
Searchable == {"ready", "needs_extension", "needs_asr"}

Refusal == {"queue_unavailable", "capture_upload_failed"}
Failure == Refusal \union {"item_deleted", "transient_fetch_failed",
                           "ingest_too_large", "ingestion_failed"}

Init ==
    /\ dispatch = [d \in Dispatch |-> [state |-> "none", error |-> "none", key |-> <<>>]]
    /\ event = [d \in Dispatch |-> NoEvent]

\* A new attempt follows the settled ones of its item, under a new key.
Admit(d, key) ==
    /\ \A e \in Dispatch :
           e[1] = d[1] => /\ dispatch[e].key # key
                          /\ e[2] < d[2] => dispatch[e].state \in Terminal
                          /\ e[2] >= d[2] => dispatch[e].state = "none"
    /\ dispatch' = [dispatch EXCEPT ![d] = [state |-> "pending", error |-> "none",
                                            key |-> key]]
    /\ UNCHANGED event

\* The attempt was published, claimed by a worker, or handed back by it.
Move(d, from, to) ==
    /\ dispatch[d].state \in from
    /\ dispatch' = [dispatch EXCEPT ![d].state = to]
    /\ UNCHANGED event

Enqueue(d) == Move(d, {"pending"}, "enqueued")
Claim(d)   == Move(d, {"pending", "enqueued"}, "running")
Release(d) == Move(d, {"running"}, "enqueued")

\* Outcome, error and completion event, in one transaction.
Settle(d, from, state, error, outcome) ==
    /\ dispatch[d].state \in from
    /\ dispatch' = [dispatch EXCEPT ![d].state = state, ![d].error = error]
    /\ event' = [event EXCEPT ![d] = [state |-> outcome, error |-> error]]

Complete(d, outcome) ==
    Settle(d, {"enqueued", "running"}, "completed", "none", outcome)

Fail(d, error) ==
    Settle(d, {"pending", "enqueued", "running"}, "failed", error, "failed")

\* A publisher gives the attempt up before anybody worked on it, silently.
Refuse(d, error) ==
    /\ dispatch[d].state = "pending"
    /\ dispatch' = [dispatch EXCEPT ![d].state = "failed", ![d].error = error]
    /\ UNCHANGED event

\* The event of a refused attempt, written by a failure hook that comes later.
Report(d) ==
    /\ dispatch[d].state = "failed"
    /\ event[d] = NoEvent
    /\ event' = [event EXCEPT ![d] = [state |-> "failed", error |-> dispatch[d].error]]
    /\ UNCHANGED dispatch

Next ==
    \E d \in Dispatch :
        \/ \E key \in Key : Admit(d, key)
        \/ Enqueue(d) \/ Claim(d) \/ Release(d)
        \/ \E outcome \in Searchable : Complete(d, outcome)
        \/ \E error \in Failure : Fail(d, error)
        \/ \E error \in Refusal : Refuse(d, error)
        \/ Report(d)

Spec == Init /\ [][Next]_<<dispatch, event>>

================================================================================
