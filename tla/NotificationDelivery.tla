-------------------------- MODULE NotificationDelivery --------------------------
(******************************************************************************)
(* The poller that tells users over their chat channel how an ingestion       *)
(* ended. Sweeps claim completion events in the delivery ledger, send outside *)
(* of any transaction and acknowledge with the token of their claim. A claim  *)
(* is a lease: when it expires another sweep takes the event over, while the  *)
(* first may still be sending.                                                *)
(*                                                                            *)
(* Sweeps overlap: each tick of the schedule starts one and the send of a     *)
(* message may outlast its time budget. Times are abstracted to two flags of  *)
(* a row: its lease has expired, its backoff has elapsed.                     *)
(******************************************************************************)
EXTENDS Naturals, Sequences, FiniteSets, Functions

CONSTANTS
    MaxEvent,      \* bound: completion events, numbered as they are created
    Sweeper,       \* sweeps that may be running
    MaxAttempts,   \* ingest_notification_max_attempts
    BatchSize,     \* ingest_notification_batch_size
    MaxRedrives,   \* bound: operator redrives in all
    Deletable,     \* bound: events whose item the user may delete
    MaxMishaps     \* bound: deadlines, crashes and failed transactions in all

\* What the constants must satisfy.
BoundsAssumption ==
    /\ MaxEvent \in Nat /\ MaxRedrives \in Nat /\ MaxMishaps \in Nat
    /\ MaxAttempts \in Nat \ {0} /\ BatchSize \in Nat \ {0}
    /\ Deletable \subseteq 1..MaxEvent

VARIABLES
    event,       \* is the completion event written, or purged with its item
    target,      \* where its notification would go
    delivery,    \* ingest_completion_delivery, at most one row per event
    sweeper,     \* what each running sweep is doing
    sends,       \* history: messages handed to the channel, per event
    spent,       \* history: tries used since the event was last redriven
    redrives,    \* history: redrives of an event
    mishaps      \* mishaps so far

vars == <<event, target, delivery, sweeper, sends, spent, redrives, mishaps>>

--------------------------------------------------------------------------------
(* Rows and process states *)

Event == 1..MaxEvent

\* Why an event is settled without a message. Disabled identities and owners and
\* threads that changed hands are handled as deleted items.
Skip    == {"skipped_no_channel", "skipped_deleted"}
Success == {"sent"} \union Skip
Failure == {"retry", "terminal", "internal"}

\* The answer of the channel decides whether a failed send is worth a retry.
Verdict ==
    [accepted |-> "sent", redirect |-> "terminal", unauthorized |-> "terminal",
     malformed |-> "terminal", unknown_target |-> "terminal",
     throttled |-> "retry", server_error |-> "retry", timeout |-> "retry",
     no_api_key |-> "terminal"]

\* Answers that need no request: the transport is not configured.
Unsent == {"no_api_key"}

Row ==
    [status      : {"none", "claimed", "succeeded", "failed"},
     disposition : {"none", "given_up"} \union Success,
     error       : {"none", "failure", "notification_deferred", "manual_redrive",
                    "retry_exhausted"},
     attempts    : 0..(MaxAttempts + 1),
     token       : Nat,        \* the row's claims are numbered
     stale       : BOOLEAN,    \* claimed: the lease has expired
     due         : BOOLEAN]    \* failed with a retry: its time has come

NoRow == [status |-> "none", disposition |-> "none", error |-> "none",
          attempts |-> 0, token |-> 0, stale |-> FALSE, due |-> FALSE]

Claim == [event : Event, token : Nat]

SweeperState ==
    [pc     : {"idle", "claim", "load", "send", "ack"},
     batch  : SUBSET Event,     \* scanned candidates
     claims : Seq(Claim),       \* the claims still to be worked on
     result : {"none"} \union Success \union Failure]

Idle == [pc |-> "idle", batch |-> {}, claims |-> <<>>, result |-> "none"]

Init ==
    /\ event = [e \in Event |-> "absent"]
    /\ target = [e \in Event |-> "reachable"]
    /\ delivery = [e \in Event |-> NoRow]
    /\ sweeper = [s \in Sweeper |-> Idle]
    /\ sends = [e \in Event |-> 0]
    /\ spent = [e \in Event |-> 0]
    /\ redrives = [e \in Event |-> 0]
    /\ mishaps = 0

--------------------------------------------------------------------------------
(* State formulas *)

\* Waits for a retry at next_attempt_at.
Retrying(row) == row.status = "failed" /\ row.disposition = "none"

\* What a sweep may claim: no row yet, a retry that is due, a lease that ended.
Eligible(e) ==
    /\ event[e] = "written"
    /\ \/ delivery[e].status = "none"
       \/ Retrying(delivery[e]) /\ delivery[e].due
       \/ delivery[e].status = "claimed" /\ delivery[e].stale

Current(s) == Head(sweeper[s].claims)

\* Variant of Holds without the token.
HoldsAny(claim) ==
    /\ event[claim.event] = "written"
    /\ delivery[claim.event].status = "claimed"

\* The predicate every acknowledgement is fenced with.
Holds(claim) ==
    /\ event[claim.event] = "written"
    /\ delivery[claim.event].status = "claimed"
    /\ delivery[claim.event].token = claim.token

Settled(e) ==
    \/ delivery[e].status = "succeeded"
    \/ delivery[e].status = "failed" /\ delivery[e].disposition = "given_up"

Mishap == mishaps < MaxMishaps /\ mishaps' = mishaps + 1

--------------------------------------------------------------------------------
(* A sweep *)

\* The candidate statement: the oldest eligible events, as of its snapshot.
Scan(s) ==
    /\ sweeper[s].pc = "idle"
    /\ LET eligible == {e \in Event : Eligible(e)}
           oldest   == {e \in eligible :
                           Cardinality({f \in eligible : f < e}) < BatchSize}
       IN  sweeper' = [sweeper EXCEPT ![s].pc = "claim", ![s].batch = oldest]
    /\ UNCHANGED <<event, target, delivery, sends, spent, redrives, mishaps>>

\* The attempt number of a new claim: an operator's redrive starts again, a claim
\* that was handed back unsent is not counted.
NextAttempt(row) ==
    CASE row.error = "manual_redrive"        -> 1
      [] row.error = "notification_deferred" -> row.attempts
      [] OTHER                               -> row.attempts + 1

Exhausted(row) ==
    [row EXCEPT !.status = "failed", !.disposition = "given_up",
                !.error = "retry_exhausted", !.stale = FALSE, !.due = FALSE]

\* Each candidate is read again under its lock; one that ran out of attempts is
\* closed instead of claimed.
ClaimBatch(s) ==
    LET taken  == {e \in sweeper[s].batch : Eligible(e)}
        handed == {e \in taken : NextAttempt(delivery[e]) <= MaxAttempts}
        Claimed(row) == [NoRow EXCEPT !.status = "claimed", !.token = row.token + 1,
                                      !.attempts = NextAttempt(row)]
    IN  /\ sweeper[s].pc = "claim"
        /\ delivery' = [e \in Event |->
               IF e \in handed THEN Claimed(delivery[e])
               ELSE IF e \in taken THEN Exhausted(Claimed(delivery[e]))
               ELSE delivery[e]]
        /\ spent' = [e \in Event |-> IF e \in handed THEN spent[e] + 1 ELSE spent[e]]
        /\ \E order \in [1..Cardinality(handed) -> handed] :
               /\ \A m, n \in DOMAIN order : m < n => order[m] < order[n]
               /\ sweeper' = [sweeper EXCEPT ![s] =
                      IF handed = {} THEN Idle
                      ELSE [Idle EXCEPT !.pc = "load",
                               !.claims = [n \in DOMAIN order |->
                                   [event |-> order[n],
                                    token |-> delivery[order[n]].token + 1]]]]
        /\ UNCHANGED <<event, target, sends, redrives, mishaps>>

Acknowledge(s, result) ==
    sweeper' = [sweeper EXCEPT ![s].pc = "ack", ![s].result = result]

\* The next claim of the batch, or the end of the sweep.
Advance(s) ==
    sweeper' = [sweeper EXCEPT ![s] =
        IF Len(@.claims) = 1 THEN Idle
        ELSE [Idle EXCEPT !.pc = "load", !.claims = Tail(sweeper[s].claims)]]

\* Re-reads what the message would say and to whom. An event whose outcome
\* contradicts its item state is given up.
LoadTarget(s) ==
    LET e == Current(s).event
    IN  /\ sweeper[s].pc = "load"
        /\ \/ /\ event[e] = "written" /\ target[e] = "reachable"
              /\ sweeper' = [sweeper EXCEPT ![s].pc = "send"]
           \/ /\ event[e] = "written" /\ target[e] \in Skip
              /\ Acknowledge(s, target[e])
           \/ /\ event[e] = "written" /\ target[e] = "contradictory"
              /\ Acknowledge(s, "terminal")
           \/ event[e] = "purged" /\ Acknowledge(s, "skipped_deleted")
        /\ UNCHANGED <<event, target, delivery, sends, spent, redrives, mishaps>>

\* The row that cannot be read is retried like a failed send.
LoadRaises(s) ==
    /\ sweeper[s].pc = "load"
    /\ Mishap
    /\ Acknowledge(s, "internal")
    /\ UNCHANGED <<event, target, delivery, sends, spent, redrives>>

\* The message goes out although the lease may be lost by now.
SendMessage(s) ==
    /\ sweeper[s].pc = "send"
    /\ \E answer \in DOMAIN Verdict :
           /\ sends' = IF answer \in Unsent THEN sends
                       ELSE [sends EXCEPT ![Current(s).event] = @ + 1]
           /\ Acknowledge(s, Verdict[answer])
    /\ UNCHANGED <<event, target, delivery, spent, redrives, mishaps>>

\* Variant of AckSucceeded that finds its row by the event alone.
AckSucceededByEvent(s) ==
    /\ sweeper[s].pc = "ack" /\ sweeper[s].result \in Success
    /\ delivery' = [delivery EXCEPT ![Current(s).event].status = "succeeded",
                                   ![Current(s).event].disposition = sweeper[s].result]
    /\ Advance(s)
    /\ UNCHANGED <<event, target, sends, spent, redrives, mishaps>>

AckSucceeded(s) ==
    /\ sweeper[s].pc = "ack"
    /\ sweeper[s].result \in Success
    /\ delivery' = IF Holds(Current(s))
                   THEN [delivery EXCEPT ![Current(s).event] =
                            [@ EXCEPT !.status = "succeeded",
                                      !.disposition = sweeper[s].result,
                                      !.stale = FALSE]]
                   ELSE delivery
    /\ Advance(s)
    /\ UNCHANGED <<event, target, sends, spent, redrives, mishaps>>

\* Retry with backoff, unless the failure is final or the attempts are used up.
AckFailure(s) ==
    LET e == Current(s).event
        final == \/ sweeper[s].result = "terminal"
                 \/ delivery[e].attempts >= MaxAttempts
    IN  /\ sweeper[s].pc = "ack"
        /\ sweeper[s].result \in Failure
        /\ delivery' = IF Holds(Current(s))
                       THEN [delivery EXCEPT ![e] =
                                [@ EXCEPT !.status = "failed",
                                          !.disposition = IF final THEN "given_up"
                                                                   ELSE "none",
                                          !.error = IF final /\ sweeper[s].result # "terminal"
                                                    THEN "retry_exhausted" ELSE "failure",
                                          !.stale = FALSE]]
                       ELSE delivery
        /\ Advance(s)
        /\ UNCHANGED <<event, target, sends, spent, redrives, mishaps>>

\* A failing acknowledgement of a success is reported as an internal failure, even
\* of a message that was sent; one of a failed send ends the whole sweep; one of an
\* internal failure leaves the claim to its lease.
AckRaises(s) ==
    /\ sweeper[s].pc = "ack"
    /\ Mishap
    /\ \/ sweeper[s].result \in Success /\ Acknowledge(s, "internal")
       \/ /\ sweeper[s].result \in {"retry", "terminal"}
          /\ sweeper' = [sweeper EXCEPT ![s] = Idle]
       \/ sweeper[s].result = "internal" /\ Advance(s)
    /\ UNCHANGED <<event, target, delivery, sends, spent, redrives>>

\* No time is left to acknowledge: the claim is left to its lease.
AckTooLate(s) ==
    /\ sweeper[s].pc = "ack"
    /\ Mishap
    /\ Advance(s)
    /\ UNCHANGED <<event, target, delivery, sends, spent, redrives>>

\* The sweep is out of time: what it has not sent is handed to the next sweep.
DeferUnsent(s) ==
    LET held == {e \in Event : \E n \in DOMAIN sweeper[s].claims :
                    /\ sweeper[s].claims[n].event = e
                    /\ Holds(sweeper[s].claims[n])}
    IN  /\ sweeper[s].pc \in {"load", "send"}
        /\ Mishap
        /\ delivery' = [e \in Event |->
               IF e \notin held THEN delivery[e]
               ELSE [delivery[e] EXCEPT !.status = "failed", !.stale = FALSE,
                        !.due = TRUE, !.error = "notification_deferred"]]
        /\ spent' = [e \in Event |-> IF e \in held THEN spent[e] - 1 ELSE spent[e]]
        /\ sweeper' = [sweeper EXCEPT ![s] = Idle]
        /\ UNCHANGED <<event, target, sends, redrives>>

\* The worker dies, or hands nothing back: every claim is left to its lease.
SweepEnds(s) ==
    /\ sweeper[s].pc # "idle"
    /\ Mishap
    /\ sweeper' = [sweeper EXCEPT ![s] = Idle]
    /\ UNCHANGED <<event, target, delivery, sends, spent, redrives>>

--------------------------------------------------------------------------------
(* Time, the operator and the rest of the system *)

LeaseExpires(e) ==
    /\ delivery[e].status = "claimed" /\ ~delivery[e].stale
    /\ delivery' = [delivery EXCEPT ![e].stale = TRUE]
    /\ UNCHANGED <<event, target, sweeper, sends, spent, redrives, mishaps>>

BackoffElapses(e) ==
    /\ Retrying(delivery[e]) /\ ~delivery[e].due
    /\ delivery' = [delivery EXCEPT ![e].due = TRUE]
    /\ UNCHANGED <<event, target, sweeper, sends, spent, redrives, mishaps>>

\* Makes a failed row eligible again, one that waits for its retry included.
RedriveFailed(e) ==
    /\ FoldFunction(+, 0, redrives) < MaxRedrives
    /\ delivery[e].status = "failed"
    /\ delivery' = [delivery EXCEPT ![e] =
           [@ EXCEPT !.disposition = "none", !.due = TRUE, !.attempts = 1,
                     !.error = "manual_redrive"]]
    /\ redrives' = [redrives EXCEPT ![e] = @ + 1]
    /\ spent' = [spent EXCEPT ![e] = 0]
    /\ UNCHANGED <<event, target, sweeper, sends, mishaps>>

\* A settled dispatch has written its completion event.
WriteEvent(e) ==
    /\ event[e] = "absent"
    /\ \A f \in 1..(e - 1) : event[f] # "absent"
    /\ event' = [event EXCEPT ![e] = "written"]
    /\ target' \in {[target EXCEPT ![e] = t] :
                       t \in {"reachable", "skipped_no_channel", "contradictory"}}
    /\ UNCHANGED <<delivery, sweeper, sends, spent, redrives, mishaps>>

\* The user deletes or restores the item.
TargetChanges(e) ==
    /\ event[e] = "written" /\ e \in Deletable
    /\ \/ target[e] = "reachable" /\ target' = [target EXCEPT ![e] = "skipped_deleted"]
       \/ target[e] = "skipped_deleted" /\ target' = [target EXCEPT ![e] = "reachable"]
    /\ UNCHANGED <<event, delivery, sweeper, sends, spent, redrives, mishaps>>

\* The purge of the item deletes its events and their deliveries.
PurgeEvent(e) ==
    /\ event[e] = "written" /\ target[e] = "skipped_deleted"
    /\ event' = [event EXCEPT ![e] = "purged"]
    /\ delivery' = [delivery EXCEPT ![e] = NoRow]
    /\ UNCHANGED <<target, sweeper, sends, spent, redrives, mishaps>>

--------------------------------------------------------------------------------

SweepStep(s) ==
    Scan(s) \/ ClaimBatch(s) \/ LoadTarget(s) \/ SendMessage(s)
            \/ AckSucceeded(s) \/ AckFailure(s)

SweepMishap(s) ==
    LoadRaises(s) \/ AckRaises(s) \/ AckTooLate(s) \/ DeferUnsent(s) \/ SweepEnds(s)

Next ==
    \/ \E s \in Sweeper : SweepStep(s) \/ SweepMishap(s)
    \/ \E e \in Event : \/ LeaseExpires(e) \/ BackoffElapses(e) \/ RedriveFailed(e)
                        \/ WriteEvent(e) \/ TargetChanges(e) \/ PurgeEvent(e)

Spec == Init /\ [][Next]_vars

\* The schedule starts sweeps for ever, and time passes.
Fairness ==
    /\ \A s \in Sweeper : WF_vars(SweepStep(s))
    /\ \A e \in Event : WF_vars(LeaseExpires(e)) /\ WF_vars(BackoffElapses(e))

FairSpec == Spec /\ Fairness

--------------------------------------------------------------------------------
(* Properties *)

TypeOK ==
    /\ event \in [Event -> {"absent", "written", "purged"}]
    /\ target \in [Event -> {"reachable", "contradictory"} \union Skip]
    /\ delivery \in [Event -> Row]
    /\ sweeper \in [Sweeper -> SweeperState]
    /\ sends \in [Event -> Nat] /\ spent \in [Event -> Nat]
    /\ redrives \in [Event -> Nat]
    /\ mishaps \in 0..MaxMishaps

\* While a claim is held, only the sweep that holds its token settles or returns
\* the row (the token predicate of _ack_succeeded, _ack_failure and
\* _release_deferred_claims): no sweep that lost its lease speaks for its successor.
OnlyHolderSettles ==
    [][\A e \in Event :
           /\ delivery[e].status = "claimed" /\ ~delivery[e].stale
           /\ delivery'[e].status # "claimed"
           /\ event'[e] = "written"
           => \E s \in Sweeper :
                  /\ sweeper'[s] # sweeper[s]
                  /\ \E n \in DOMAIN sweeper[s].claims :
                         sweeper[s].claims[n] = [event |-> e, token |-> delivery[e].token]]_vars

\* Every event is told, skipped or given up, whatever sweeps die or run out of
\* time, as long as the mishaps end.
EveryEventSettles ==
    \A e \in Event : event[e] = "written" ~> Settled(e) \/ event[e] = "purged"

Outcome(e) ==
    CASE event[e] = "absent"                       -> "absent"
      [] event[e] = "purged"                       -> "gone"
      [] event[e] = "written" /\ ~Settled(e)       -> "owed"
      [] event[e] = "written" /\ Settled(e)        -> delivery[e].disposition

Ledger == INSTANCE DeliveryLedger WITH
    outcome <- [e \in Event |-> Outcome(e)],
    granted <- [e \in Event |-> MaxAttempts * (1 + redrives[e])]

\* The poller keeps the promise of the ledger: one final outcome per event, none of
\* them "sent" without a message, and no more messages than tries were granted,
\* although leases expire under sweeps that are still sending.
ImplementsLedger == Ledger!Spec

================================================================================
