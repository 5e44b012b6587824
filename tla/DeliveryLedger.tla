----------------------------- MODULE DeliveryLedger -----------------------------
(******************************************************************************)
(* What the notification ledger promises about the completion events it is    *)
(* owed: each is settled once, as told only after a message went out, or is   *)
(* given up until an operator asks again; and the messages an event can cause *)
(* are bounded by the tries it was granted.                                   *)
(******************************************************************************)
EXTENDS Naturals

CONSTANTS
    Event,        \* completion events
    MaxAttempts   \* tries granted to an event, and granted again by an operator

VARIABLES
    outcome,      \* what became of each event
    sends,        \* messages handed to the channel
    granted       \* messages the event may cause at most

Skip == {"skipped_no_channel", "skipped_deleted"}

Success == {"sent"} \union Skip

Init ==
    /\ outcome = [e \in Event |-> "absent"]
    /\ sends = [e \in Event |-> 0]
    /\ granted = [e \in Event |-> MaxAttempts]

Owe(e) ==
    /\ outcome[e] = "absent"
    /\ outcome' = [outcome EXCEPT ![e] = "owed"]
    /\ UNCHANGED <<sends, granted>>

\* A message may go out late, after the event was settled by somebody else.
Send(e) ==
    /\ sends[e] < granted[e]
    /\ sends' = [sends EXCEPT ![e] = @ + 1]
    /\ UNCHANGED <<outcome, granted>>

Succeed(e, disposition) ==
    /\ outcome[e] = "owed"
    /\ disposition = "sent" => sends[e] > 0
    /\ outcome' = [outcome EXCEPT ![e] = disposition]
    /\ UNCHANGED <<sends, granted>>

\* Several events may be given up by one transaction.
GiveUp(E) ==
    /\ \A e \in E : outcome[e] = "owed"
    /\ outcome' = [e \in Event |-> IF e \in E THEN "given_up" ELSE outcome[e]]
    /\ UNCHANGED <<sends, granted>>

Redrive(e) ==
    /\ outcome[e] \in {"owed", "given_up"}
    /\ outcome' = [outcome EXCEPT ![e] = "owed"]
    /\ granted' = [granted EXCEPT ![e] = @ + MaxAttempts]
    /\ UNCHANGED sends

\* The item of the event was purged, and the event with it.
Forget(e) ==
    /\ outcome[e] # "absent"
    /\ outcome' = [outcome EXCEPT ![e] = "gone"]
    /\ UNCHANGED <<sends, granted>>

Next ==
    \/ \E e \in Event :
           \/ Owe(e) \/ Send(e) \/ Redrive(e) \/ Forget(e)
           \/ \E disposition \in Success : Succeed(e, disposition)
    \/ \E E \in SUBSET Event : GiveUp(E)

Spec == Init /\ [][Next]_<<outcome, sends, granted>>

================================================================================
