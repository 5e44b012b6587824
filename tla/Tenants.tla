-------------------------------- MODULE Tenants --------------------------------
(******************************************************************************)
(* What users own and may spend: the quotas of admission (IngestQuota),       *)
(* accounts and the links between them (AccountLinking), and the outbox that  *)
(* announces what became of a video (CompletionPublisher). A link takes the   *)
(* locks of the quotas and moves what they count, which IngestQuota has as a  *)
(* step of its own; beyond that the three share no state.                     *)
(******************************************************************************)
EXTENDS IngestQuota

CONSTANTS
    Identity, Channel, ChannelOf, Linkable, Extension,  \* of AccountLinking
    MaxToken, MaxAttempt, MaxActs,
    Event, Direct, Repair, BatchSize, MaxFaults         \* of CompletionPublisher

VARIABLES
    user, owner, rebound, saved, token, thread, turn, operator,
    row, publisher, accepted, faults

linking     == <<user, owner, rebound, saved, token, thread, turn, operator>>
publication == <<row, publisher, accepted, faults>>

Linking == INSTANCE AccountLinking WITH Video <- Linkable, item <- saved

Publication == INSTANCE CompletionPublisher

--------------------------------------------------------------------------------
(* Properties of the parts *)

\* Linking two accounts loses no video, text or note of either, takes no row away
\* under a running attempt, uses up an open token of another live account, and
\* takes the open threads along, while what was answered for one account never
\* stands in a thread of another (identity.py 270-314, 386-446, 496-551;
\* channels/service.py 482-491).
LinksAreClean ==
    /\ [](Linking!AnswersStayInAccount /\ Linking!ThreadFollowsIdentity)
    /\ Linking!LinkKeepsLibrary
    /\ Linking!RunningAttemptSurvives
    /\ Linking!TokenLinksOnce

\* No outbox row claims to be enqueued without a message at the broker, the broker
\* gets a second message of an event only after a failed publication or an outlived
\* claim, and a claim in force is settled or handed back by its holder only
\* (tasks.py 575-588, 1249-1336, 1418-1442).
OutboxIsHonest ==
    /\ [](Publication!EnqueuedWasAccepted /\ Publication!DuplicatesNeedFaults)
    /\ Publication!OnlyHolderSettles

================================================================================
