------------------------------- MODULE Background -------------------------------
(******************************************************************************)
(* The periodic work nobody waits for: the delivery of notifications          *)
(* (NotificationDelivery) and the purge of the recycle bin (RecycleBin). They *)
(* are scheduled side by side and share no state.                             *)
(******************************************************************************)
EXTENDS NotificationDelivery

CONSTANTS
    Url, Content,        \* of RecycleBin
    MaxRow, MaxClaim

VARIABLES item, objects, purger, purges, failures

bin == <<item, objects, purger, purges, failures>>

\* A sweep of the bin never outlives its claims: its budget is a fraction of their
\* timeout, and its process is not stalled.
Bin == INSTANCE RecycleBin WITH
    Stall <- FALSE,
    row <- item, sweeper <- purger, claims <- purges, mishaps <- failures

--------------------------------------------------------------------------------
(* Properties of the parts *)

\* A ready item that its user sees or can restore has its raw object, and when no
\* row of a video is left, neither is an object (management.py 738-836 against
\* submission.py 607-624).
ObjectsFollowRows == Bin!KeptItemHasObject /\ Bin!PurgeLeavesNothing

\* What was claimed is settled, returned or purged by the sweep that holds the
\* claim and by no other, although leases expire under both sweeps
\* (notifications.py _ack_succeeded, _ack_failure; management.py 738-786).
OnlyHoldersAct == OnlyHolderSettles /\ Bin!PurgesOnlyOwnClaims

================================================================================
