-------------------------- MODULE CompletionPublisher --------------------------
(******************************************************************************)
(* The outbox of completion events. A publisher claims rows in one short      *)
(* transaction, hands each event to the broker outside of any transaction and *)
(* acknowledges the row with the token of its claim. Two kinds of publisher   *)
(* work on the same rows: the direct publication of one event and the repair  *)
(* sweep over a batch. A claim that was not settled in time is stale and may  *)
(* be taken over, whether its publisher died or is only slow.                 *)
(******************************************************************************)
EXTENDS Naturals, Sequences, FiniteSets

CONSTANTS
    Event,       \* rows of ingest_completion_event
    Direct,      \* processes that publish one event
    Repair,      \* processes that run repair sweeps
    BatchSize,   \* ingest_completion_batch_size
    MaxFaults    \* bound: failures and claims outlived, per event

\* What the constants must satisfy.
OutboxAssumption ==
    /\ Event \subseteq Nat /\ IsFiniteSet(Event)
    /\ Direct \intersect Repair = {}
    /\ BatchSize \in Nat \ {0} /\ MaxFaults \in Nat

VARIABLES
    row,        \* publish_state, claim_token and the age of the claim
    publisher,  \* what each process is doing
    accepted,   \* history: messages the broker accepted, per event
    faults      \* history: failures of a publication and claims outlived, per event

vars == <<row, publisher, accepted, faults>>

--------------------------------------------------------------------------------

Process == Direct \union Repair

Row == [state : {"absent", "pending", "claimed", "enqueued"},
        token : Nat, stale : BOOLEAN]

Claim == [event : Event, token : Nat]

PublisherState == [pc : {"idle", "send", "ack", "release"}, claims : Seq(Claim)]

Idle == [pc |-> "idle", claims |-> <<>>]

Init ==
    /\ row = [e \in Event |-> [state |-> "absent", token |-> 0, stale |-> FALSE]]
    /\ publisher = [p \in Process |-> Idle]
    /\ accepted = [e \in Event |-> 0]
    /\ faults = [e \in Event |-> 0]

Fault(e) == faults[e] < MaxFaults /\ faults' = [faults EXCEPT ![e] = @ + 1]

\* Waits for a publisher, or its publisher took too long.
Claimable(e) ==
    \/ row[e].state = "pending"
    \/ row[e].state = "claimed" /\ row[e].stale

\* Variant of Holds without the token.
HoldsAny(claim) == row[claim.event].state = "claimed"

\* The predicate an acknowledgement or a release is fenced with.
Holds(claim) ==
    row[claim.event].state = "claimed" /\ row[claim.event].token = claim.token

--------------------------------------------------------------------------------
(* Claims *)

\* Every claim carries a fresh token; the oldest rows are claimed first.
ClaimRows(p, E) ==
    /\ row' = [e \in Event |->
           IF e \in E THEN [state |-> "claimed", token |-> row[e].token + 1,
                            stale |-> FALSE]
           ELSE row[e]]
    /\ \E order \in [1..Cardinality(E) -> E] :
           /\ \A m, n \in DOMAIN order : m < n => order[m] < order[n]
           /\ publisher' = [publisher EXCEPT ![p] =
                  [pc |-> "send",
                   claims |-> [n \in DOMAIN order |->
                       [event |-> order[n], token |-> row[order[n]].token + 1]]]]
    /\ UNCHANGED <<accepted, faults>>

ClaimOne(p, e) ==
    /\ p \in Direct /\ publisher[p].pc = "idle"
    /\ Claimable(e)
    /\ ClaimRows(p, {e})

\* Rows another transaction has locked are skipped, so a batch may miss some.
ClaimBatch(p) ==
    /\ p \in Repair /\ publisher[p].pc = "idle"
    /\ \E free \in SUBSET {e \in Event : Claimable(e)} :
           LET oldest == {e \in free : Cardinality({f \in free : f < e}) < BatchSize}
           IN  oldest # {} /\ ClaimRows(p, oldest)

--------------------------------------------------------------------------------
(* Publication *)

Current(p) == Head(publisher[p].claims)

Enter(p, pc) == publisher' = [publisher EXCEPT ![p].pc = pc]

\* The next claim of the batch, or the end.
Advance(p) ==
    publisher' = [publisher EXCEPT ![p] =
        IF Len(@.claims) = 1 THEN Idle
        ELSE [pc |-> "send", claims |-> Tail(publisher[p].claims)]]

\* The broker accepts the message.
Send(p) ==
    /\ publisher[p].pc = "send"
    /\ accepted' = [accepted EXCEPT ![Current(p).event] = @ + 1]
    /\ Enter(p, "ack")
    /\ UNCHANGED <<row, faults>>

\* The broker refuses it, or answers too late to know.
SendFails(p) ==
    /\ publisher[p].pc = "send"
    /\ \/ UNCHANGED accepted
       \/ accepted' = [accepted EXCEPT ![Current(p).event] = @ + 1]
    /\ Fault(Current(p).event)
    /\ Enter(p, "release")
    /\ UNCHANGED row

\* The row is settled only by the publisher whose token it still carries.
MarkEnqueued(p) ==
    /\ publisher[p].pc = "ack"
    /\ row' = IF Holds(Current(p))
              THEN [row EXCEPT ![Current(p).event].state = "enqueued",
                               ![Current(p).event].stale = FALSE]
              ELSE row
    /\ Advance(p)
    /\ UNCHANGED <<accepted, faults>>

\* A sweep whose acknowledgement fails hands the claim back although the broker has
\* the message; the direct publication leaves its claim to become stale.
MarkRaises(p) ==
    /\ publisher[p].pc = "ack"
    /\ Fault(Current(p).event)
    /\ IF p \in Repair THEN Enter(p, "release") ELSE Advance(p)
    /\ UNCHANGED <<row, accepted>>

ReleaseClaim(p) ==
    /\ publisher[p].pc = "release"
    /\ row' = IF Holds(Current(p))
              THEN [row EXCEPT ![Current(p).event].state = "pending",
                               ![Current(p).event].stale = FALSE]
              ELSE row
    /\ Advance(p)
    /\ UNCHANGED <<accepted, faults>>

\* A release that fails, or an acknowledgement or a release of a sweep that is out of
\* time, leaves the claim to become stale.
LeaveClaim(p) ==
    /\ \/ publisher[p].pc = "release"
       \/ publisher[p].pc = "ack" /\ p \in Repair
    /\ Advance(p)
    /\ UNCHANGED <<row, accepted, faults>>

\* A sweep that is out of time defers the rest of its batch; a process may also die.
EndEarly(p) ==
    /\ publisher[p].pc # "idle"
    /\ publisher' = [publisher EXCEPT ![p] = Idle]
    /\ UNCHANGED <<row, accepted, faults>>

--------------------------------------------------------------------------------

\* A settled dispatch writes its event in the transaction that settles it.
EnsureEvent(e) ==
    /\ row[e].state = "absent"
    /\ row' = [row EXCEPT ![e].state = "pending"]
    /\ UNCHANGED <<publisher, accepted, faults>>

ClaimAges(e) ==
    /\ row[e].state = "claimed" /\ ~row[e].stale
    /\ Fault(e)
    /\ row' = [row EXCEPT ![e].stale = TRUE]
    /\ UNCHANGED <<publisher, accepted>>

Next ==
    \/ \E p \in Process :
           \/ \E e \in Event : ClaimOne(p, e)
           \/ ClaimBatch(p) \/ Send(p) \/ SendFails(p) \/ MarkEnqueued(p)
           \/ MarkRaises(p) \/ ReleaseClaim(p) \/ LeaveClaim(p) \/ EndEarly(p)
    \/ \E e \in Event : EnsureEvent(e) \/ ClaimAges(e)

Spec == Init /\ [][Next]_vars

--------------------------------------------------------------------------------
(* Properties *)

TypeOK ==
    /\ row \in [Event -> Row]
    /\ publisher \in [Process -> PublisherState]
    /\ accepted \in [Event -> Nat] /\ faults \in [Event -> 0..MaxFaults]

\* No row claims to be enqueued without a message at the broker, whatever claims were
\* taken over on the way (tasks.py 1418-1442 acknowledges only after send_task).
EnqueuedWasAccepted == \A e \in Event : row[e].state = "enqueued" => accepted[e] > 0

\* The broker gets a second message of an event only after a publication failed or a
\* claim outlived its time (tasks.py 575-588, 1249-1264): direct publications and
\* sweeps over the same rows do not send twice by themselves.
DuplicatesNeedFaults == \A e \in Event : accepted[e] <= 1 + faults[e]

\* A claim in force is settled or handed back only by the publisher that holds its
\* token (tasks.py 1280-1336): the loser of a takeover changes nothing.
OnlyHolderSettles ==
    [][\A e \in Event :
           row[e].state = "claimed" /\ row'[e].state # "claimed"
           => \E p \in Process :
                  /\ publisher[p].pc \in {"ack", "release"}
                  /\ Current(p) = [event |-> e, token |-> row[e].token]
                  /\ publisher'[p] # publisher[p]]_vars

================================================================================
