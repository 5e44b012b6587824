------------------------------- MODULE RecycleBin -------------------------------
(******************************************************************************)
(* The recycle bin and its purge. A sweep claims expired rows, deletes their  *)
(* raw objects from the store and then the rows, in three separate steps per  *)
(* item, while users save the same URL again, restore and delete, workers     *)
(* write objects, other sweeps run and processes die.                         *)
(*                                                                            *)
(* Raw objects are named by their content: a URL that was purged and is saved *)
(* again gets a row with a new id, and an object with the old name.           *)
(******************************************************************************)
EXTENDS Naturals, FiniteSets

CONSTANTS
    Url,        \* videos of one user; at most one row each
    Content,    \* transcripts a connector may return for a video
    Sweeper,    \* purge sweeps that may be running
    MaxRow,     \* bound: rows created for a URL, one after the other
    MaxClaim,   \* bound: purge claims
    BatchSize,  \* trash_purge_batch_size
    MaxMishaps, \* bound: crashes, failed calls and exceeded deadlines
    Stall       \* may a sweep go on after its claims have become stale?

\* What the constants must satisfy.
BoundsAssumption ==
    /\ MaxRow \in Nat /\ MaxClaim \in Nat /\ MaxMishaps \in Nat
    /\ BatchSize \in Nat \ {0}
    /\ Stall \in BOOLEAN
    /\ "none" \notin Content

VARIABLES
    row,       \* content_item of a URL
    objects,   \* raw objects in the store
    sweeper,   \* what each sweep is doing
    claims,    \* claims made so far: purge_claimed_at of the next sweep
    mishaps    \* mishaps so far

vars == <<row, objects, sweeper, claims, mishaps>>

--------------------------------------------------------------------------------
(* Rows and sweeps *)

\* An attempt is under way (work) or over; id is the row's identity.
Row ==
    [id    : 0..MaxRow,       \* 0: no row was ever made
     shelf : {"none", "live", "trash", "expired"},
     work  : {"queued", "named", "stored", "cleanup", "done"},
     state : {"pending", "ready", "failed"},
     key   : {"none"} \union Content,
     claim : 0..MaxClaim,     \* purge_claimed_at, 0 for NULL
     stale : BOOLEAN]         \* the claim is older than the claim timeout

NoRow == [id |-> 0, shelf |-> "none", work |-> "done", state |-> "pending",
          key |-> "none", claim |-> 0, stale |-> FALSE]

SweeperState ==
    [pc    : {"idle", "row", "object", "final", "fail"},
     now   : 0..MaxClaim,
     batch : [Url -> 0..MaxRow],  \* ids still to be purged, 0 for none
     url   : {"none"} \union Url,
     key   : {"none"} \union Content]

Idle == [pc |-> "idle", now |-> 0, batch |-> [u \in Url |-> 0],
         url |-> "none", key |-> "none"]

Init ==
    /\ row = [u \in Url |-> NoRow]
    /\ objects = {}
    /\ sweeper = [s \in Sweeper |-> Idle]
    /\ claims = 0
    /\ mishaps = 0

Exists(u)  == row[u].shelf # "none"
Deleted(u) == row[u].shelf \in {"trash", "expired"}
Active(u)  == Exists(u) /\ row[u].work \in {"queued", "named", "stored", "cleanup"}

Mishap == mishaps < MaxMishaps /\ mishaps' = mishaps + 1

Write(u, r) == row' = [row EXCEPT ![u] = r]

--------------------------------------------------------------------------------
(* Users *)

\* A save makes a row, restores a deleted one, or starts another attempt. A row
\* that is expired or claimed for the purge is refused.
Save(u) ==
    LET attempt(r) == [r EXCEPT !.shelf = "live", !.work = "queued", !.state = "pending"]
    IN  /\ \/ /\ ~Exists(u) /\ row[u].id < MaxRow
              /\ Write(u, attempt([NoRow EXCEPT !.id = row[u].id + 1]))
           \/ /\ row[u].shelf = "trash" /\ row[u].claim = 0
              /\ Active(u) \/ row[u].state = "ready"
              /\ Write(u, [row[u] EXCEPT !.shelf = "live"])
           \/ /\ row[u].shelf \in {"live", "trash"} /\ row[u].claim = 0
              /\ ~Active(u) /\ row[u].state = "failed"
              /\ Write(u, attempt(row[u]))
        /\ UNCHANGED <<objects, sweeper, claims, mishaps>>

SoftDelete(u) ==
    /\ row[u].shelf = "live"
    /\ Write(u, [row[u] EXCEPT !.shelf = "trash", !.claim = 0, !.stale = FALSE])
    /\ UNCHANGED <<objects, sweeper, claims, mishaps>>

\* Variant of Restore that looks at neither the retention nor the claim.
RestoreExpired(u) ==
    /\ Deleted(u)
    /\ Write(u, [row[u] EXCEPT !.shelf = "live"])
    /\ UNCHANGED <<objects, sweeper, claims, mishaps>>

\* Expired and claimed rows are reported as missing.
Restore(u) ==
    /\ row[u].shelf = "trash" /\ row[u].claim = 0
    /\ Write(u, [row[u] EXCEPT !.shelf = "live"])
    /\ UNCHANGED <<objects, sweeper, claims, mishaps>>

RetentionEnds(u) ==
    /\ row[u].shelf = "trash"
    /\ Write(u, [row[u] EXCEPT !.shelf = "expired"])
    /\ UNCHANGED <<objects, sweeper, claims, mishaps>>

--------------------------------------------------------------------------------
(* The worker, as far as it meets the bin: Ingestion has it in full *)

\* The row names its object before the object exists; a deleted item is given up.
NameObject(u) ==
    /\ Exists(u) /\ row[u].work = "queued"
    /\ \/ Deleted(u) /\ Write(u, [row[u] EXCEPT !.work = "done", !.state = "failed"])
       \/ /\ ~Deleted(u)
          /\ \E c \in Content : Write(u, [row[u] EXCEPT !.work = "named", !.key = c])
    /\ UNCHANGED <<objects, sweeper, claims, mishaps>>

PutObject(u) ==
    /\ Exists(u) /\ row[u].work = "named"
    /\ objects' = objects \union {<<u, row[u].key>>}
    /\ Write(u, [row[u] EXCEPT !.work = "stored"])
    /\ UNCHANGED <<sweeper, claims, mishaps>>

\* The last look at the row: the segments are written, or the item was deleted.
Finish(u) ==
    /\ Exists(u) /\ row[u].work = "stored"
    /\ \/ Deleted(u) /\ Write(u, [row[u] EXCEPT !.work = "cleanup"])
       \/ ~Deleted(u) /\ Write(u, [row[u] EXCEPT !.work = "done", !.state = "ready"])
    /\ UNCHANGED <<objects, sweeper, claims, mishaps>>

\* Best-effort delete of the late object, then the row is marked as failed.
CleanUp(u) ==
    /\ Exists(u) /\ row[u].work = "cleanup"
    /\ objects' = objects \ {<<u, row[u].key>>}
    /\ Write(u, [row[u] EXCEPT !.work = "done", !.state = "failed"])
    /\ UNCHANGED <<sweeper, claims, mishaps>>

\* The attempt failed, or its worker was given up.
AttemptFails(u) ==
    /\ Active(u)
    /\ Mishap
    /\ Write(u, [row[u] EXCEPT !.work = "done", !.state = "failed"])
    /\ UNCHANGED <<objects, sweeper, claims>>

--------------------------------------------------------------------------------
(* A purge sweep *)

\* Variant of Claimable without the claim timeout.
ClaimableOnce(u) == row[u].shelf = "expired" /\ row[u].claim = 0 /\ ~Active(u)

\* Expired rows without a running attempt, unclaimed or with a stale claim.
Claimable(u) ==
    /\ row[u].shelf = "expired"
    /\ row[u].claim = 0 \/ row[u].stale
    /\ ~Active(u)

\* One transaction; the time of the sweep is the name of its claims.
ClaimExpired(s) ==
    /\ sweeper[s].pc = "idle"
    /\ claims < MaxClaim
    /\ \E batch \in SUBSET {u \in Url : Claimable(u)} :
           /\ batch # {}
           /\ Cardinality(batch) = BatchSize \/ batch = {u \in Url : Claimable(u)}
           /\ row' = [u \in Url |->
                  IF u \in batch THEN [row[u] EXCEPT !.claim = claims + 1, !.stale = FALSE]
                                 ELSE row[u]]
           /\ sweeper' = [sweeper EXCEPT ![s] =
                  [Idle EXCEPT !.pc = "row", !.now = claims + 1,
                      !.batch = [u \in Url |-> IF u \in batch THEN row[u].id ELSE 0]]]
    /\ claims' = claims + 1
    /\ UNCHANGED <<objects, mishaps>>

Go(s, pc) == sweeper' = [sweeper EXCEPT ![s].pc = pc]

\* The next item of the batch, or the end of the sweep.
Next1(s, batch) ==
    sweeper' = [sweeper EXCEPT ![s] =
        IF batch = [u \in Url |-> 0] THEN Idle
        ELSE [Idle EXCEPT !.pc = "row", !.now = sweeper[s].now, !.batch = batch]]

Rest(s) == [sweeper[s].batch EXCEPT ![sweeper[s].url] = 0]

\* Reads the object key of a row that is still deleted, whoever has claimed it.
ReadKey(s) ==
    /\ sweeper[s].pc = "row"
    /\ \E u \in Url :
           /\ sweeper[s].batch[u] # 0
           /\ \/ /\ Deleted(u) /\ row[u].id = sweeper[s].batch[u]
                 /\ sweeper' = [sweeper EXCEPT ![s].url = u, ![s].key = row[u].key,
                        ![s].pc = IF row[u].key = "none" THEN "final" ELSE "object"]
              \/ /\ ~(Deleted(u) /\ row[u].id = sweeper[s].batch[u])
                 /\ Next1(s, [sweeper[s].batch EXCEPT ![u] = 0])
    /\ UNCHANGED <<row, objects, claims, mishaps>>

DeleteObject(s) ==
    /\ sweeper[s].pc = "object"
    /\ objects' = objects \ {<<sweeper[s].url, sweeper[s].key>>}
    /\ Go(s, "final")
    /\ UNCHANGED <<row, claims, mishaps>>

\* The store raised, before or after it deleted the object.
DeleteRaises(s) ==
    /\ sweeper[s].pc = "object"
    /\ Mishap
    /\ objects' \in {objects, objects \ {<<sweeper[s].url, sweeper[s].key>>}}
    /\ Go(s, "fail")
    /\ UNCHANGED <<row, claims>>

\* The claim a sweep's last transactions look for.
Claims(s, u) == Deleted(u) /\ row[u].id = sweeper[s].batch[u]
                           /\ row[u].claim = sweeper[s].now

FinalizeRow(s) ==
    LET u == sweeper[s].url
    IN  /\ sweeper[s].pc = "final"
        /\ Write(u, IF Claims(s, u) THEN [NoRow EXCEPT !.id = row[u].id] ELSE row[u])
        /\ Next1(s, Rest(s))
        /\ UNCHANGED <<objects, claims, mishaps>>

\* The row could not be read or deleted.
RowRaises(s) ==
    /\ sweeper[s].pc \in {"row", "final"}
    /\ Mishap
    /\ \E u \in Url :
           /\ IF sweeper[s].pc = "row" THEN sweeper[s].batch[u] # 0 ELSE u = sweeper[s].url
           /\ sweeper' = [sweeper EXCEPT ![s].pc = "fail", ![s].url = u]
    /\ UNCHANGED <<row, objects, claims>>

\* Gives a failed row back for the next sweep.
MarkFailed(s) ==
    LET u == sweeper[s].url
    IN  /\ sweeper[s].pc = "fail"
        /\ Write(u, IF Claims(s, u) THEN [row[u] EXCEPT !.claim = 0, !.stale = FALSE]
                    ELSE row[u])
        /\ Next1(s, Rest(s))
        /\ UNCHANGED <<objects, claims, mishaps>>

\* Out of time between two steps: what is left of the batch is given back.
ReleaseClaims(s) ==
    /\ sweeper[s].pc \in {"row", "object", "final"}
    /\ Mishap
    /\ row' = [u \in Url |-> IF sweeper[s].batch[u] # 0 /\ Claims(s, u)
                             THEN [row[u] EXCEPT !.claim = 0, !.stale = FALSE] ELSE row[u]]
    /\ sweeper' = [sweeper EXCEPT ![s] = Idle]
    /\ UNCHANGED <<objects, claims>>

\* The process dies, or the release fails: the claims wait for their timeout.
SweepDies(s) ==
    /\ sweeper[s].pc # "idle"
    /\ Mishap
    /\ sweeper' = [sweeper EXCEPT ![s] = Idle]
    /\ UNCHANGED <<row, objects, claims>>

\* A sweep's budget is a fraction of the claim timeout, so that a claim becomes
\* stale under a running sweep only if its process was stalled.
ClaimExpires(u) ==
    /\ row[u].claim # 0 /\ ~row[u].stale
    /\ Stall \/ \A s \in Sweeper : sweeper[s].now # row[u].claim
    /\ Write(u, [row[u] EXCEPT !.stale = TRUE])
    /\ UNCHANGED <<objects, sweeper, claims, mishaps>>

--------------------------------------------------------------------------------

WorkerStep(u) == NameObject(u) \/ PutObject(u) \/ Finish(u) \/ CleanUp(u)

SweepStep(s) ==
    ClaimExpired(s) \/ ReadKey(s) \/ DeleteObject(s) \/ FinalizeRow(s) \/ MarkFailed(s)

SweepMishap(s) == DeleteRaises(s) \/ RowRaises(s) \/ ReleaseClaims(s) \/ SweepDies(s)

Next ==
    \/ \E u \in Url : \/ Save(u) \/ SoftDelete(u) \/ Restore(u) \/ RetentionEnds(u)
                      \/ WorkerStep(u) \/ AttemptFails(u) \/ ClaimExpires(u)
    \/ \E s \in Sweeper : SweepStep(s) \/ SweepMishap(s)

Spec == Init /\ [][Next]_vars

\* Workers work, sweeps are scheduled for ever, and claims grow old.
Fairness ==
    /\ \A u \in Url : WF_vars(WorkerStep(u)) /\ WF_vars(ClaimExpires(u))
    /\ \A s \in Sweeper : WF_vars(SweepStep(s))

FairSpec == Spec /\ Fairness

--------------------------------------------------------------------------------
(* Properties *)

TypeOK ==
    /\ row \in [Url -> Row]
    /\ \A u \in Url : row[u].claim # 0 => Deleted(u)
    /\ objects \subseteq Url \X Content
    /\ sweeper \in [Sweeper -> SweeperState]
    /\ claims \in 0..MaxClaim
    /\ mishaps \in 0..MaxMishaps

\* A ready item that its user sees or can still restore has its raw object, also
\* when the same URL was purged before and its object had the same name
\* (management.py 738-786 against submission.py 607-624).
KeptItemHasObject ==
    \A u \in Url :
        row[u].shelf \in {"live", "trash"} /\ row[u].state = "ready"
        => <<u, row[u].key>> \in objects

\* Every attempt at a video yields the same transcript.
OneContent == \E c \in Content : Content = {c}

\* With one transcript per video, the purge leaves no object behind: when no row is
\* left, neither is an object, however often calls failed half-way.
PurgeLeavesNothing ==
    OneContent =>
        \A u \in Url : ~Exists(u) => \A c \in Content : <<u, c>> \notin objects

\* A sweep removes only rows that it has claimed itself, that no user could have
\* brought back in between and that no worker writes to.
PurgesOnlyOwnClaims ==
    [][\A u \in Url :
           Exists(u) /\ row'[u].shelf = "none"
           => /\ row[u].shelf = "expired" /\ ~Active(u)
              /\ \E s \in Sweeper : sweeper[s].url = u /\ sweeper[s].now = row[u].claim
                                                       /\ sweeper'[s] # sweeper[s]]_vars

\* Every expired item is purged in the end, although sweeps die with their claims
\* and the store fails.
ExpiredIsPurged ==
    \A u \in Url :
        row[u].shelf = "expired" /\ claims < MaxClaim ~> ~Exists(u) \/ claims = MaxClaim

================================================================================
