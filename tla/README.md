# Verification of notebook-agent

notebook-agent saves videos for a user, fetches and indexes their transcripts,
answers questions about them over chat channels, a Web application, an MCP server
and a browser extension, and tells the user when an ingestion ended. The program
is a FastAPI gateway, Celery workers, an MCP server, a LangBot plug-in and a command
line, all sharing one PostgreSQL database, a Redis broker and a MinIO object store,
a React application and an extension. These modules model the parts of it where
several of these processes, or several steps of one, can disagree about the same
state.

Contents: [Inventory](#inventory) - [Modules](#modules) - [Runs](#runs) -
[Disagreements](#where-the-documentation-and-the-code-disagree) - [Proofs](#proofs) -
[Not modelled](#not-modelled) - [Plan](#plan)

## Inventory

`PROJECT.json` lists every component with its sources and how far it is modelled.

| Component | State | Operations | Interaction |
|---|---|---|---|
| Admission (`ingest/submission.py`, `web/library.py`, `browser_capture_submission.py`) | `content_item`, `ingest_dispatch`, `browser_capture` | save, retry, Web retry, capture, each followed by a publication outside the transaction | publishes to Celery; compensates when the broker refuses |
| Worker (`ingest/tasks.py`) | the same rows, `segment`, raw objects | claim, process, release for retry, settle, failure hook | early-acknowledged messages; writes the completion events |
| Quota (`submission.py` 220-394) | counts over dispatches | acquire locks, enforce | called by every admission |
| Library and recycle bin (`agent/management.py`, `web/library.py`) | `deleted_at`, `purge_claimed_at`, `delete_claim_token`, `archived_at` | soft delete, restore, archive, purge sweep | the worker re-reads the row before every commit |
| Confirmed actions (`channels/pending_actions.py`) | `pending_channel_action` | request, confirm, clarify, cancel | three transactions around the deletion effect |
| Notifications (`notifications.py`) | `ingest_completion_delivery` | sweep: claim, send, acknowledge, defer; redrive | leases and claim tokens, backoff, external channel |
| Completion publisher (`tasks.py` 542-747, 1226-1443) | the event rows | claim, publish, acknowledge, release, repair | no schedule and no caller starts it at this commit |
| Identity (`channels/identity.py`) | `app_user`, `channel_identity`, link tokens | resolve, issue token, link (merge two accounts), disable, rebind | locks and moves the rows of the merged account |
| Sessions, pairings, grants (`web_auth.py`, `web/auth.py`, `browser_companion.py`, `mcp_grants.py`) | challenges, sessions, pairings, grants | issue, consume, approve, claim, rotate, revoke | expiry, attempt limits, one-time use |
| MCP server (`mcp_server.py`, `mcp_readiness.py`) | grant of a request, shared facade | start, assess, authenticate, call a tool | reads the grants, acts through the agent's tools |
| Conversations (`channels/service.py`, `channels/conversations.py`, `api/conversation_routes.py`) | `conversation_thread`, `conversation_turn` | claim of a turn, record, reply, stream, delete | redeliveries of the platform, request idempotency |
| Agent runtime (`agent/*.py`) | run state, budgets, evidence, todo | tool loop, actions, answer pipeline | calls management, submission and search |
| Web interface (`web/src`) | query caches, page state | list, poll, submit, chat, log in | reads the routes; shares a cookie between tabs |
| Browser extension (`extension/src`) | what a page holds | read captions of a YouTube or Kaltura page | sends the capture to admission |
| Deployment lifecycle (`deployment.py`) | lock, state file, processes | start, supervise, stop | operator, Compose services |
| Retrieval (`embed.py`, `chunker.py`, `search.py`) | `segment` | chunk, embed, search | called by worker and agent |
| Connectors, object store, CLI, diagnostics, migrations, evaluations | files, external services | I/O | - |

What is hard in it:

- a dispatch is committed and then published; the publisher may raise after the
  broker accepted the message, and its acknowledgement may arrive after the worker
  has finished;
- four kinds of request admit attempts of the same item;
- messages are acknowledged before the task runs, may be delivered twice, and are
  re-published under the same task id when a fetch fails transiently;
- the item is committed `ready` before its dispatch is settled, and the failure
  hook of Celery runs after the handler of the task;
- users delete, restore and archive an item while a worker is between two reads;
- deletes are confirmed in a conversation, leases expire, sweeps overlap;
- a turn reads the thread, thinks without a lock and stores its answer, while the
  thread is closed, moved or deleted, and the same message is delivered again;
- a secret is exchanged in two transactions, and the account may change in between;
- answers of the server overtake each other on their way into a page's cache;
- the page an extension reads goes to another video without reloading;
- the supervisor of the deployment writes its state file without the lock.

What makes each component correct is stated by its properties, in the table of
[runs](#runs) and the comments of the modules. `PROJECT.json` lists the hazards
at their lines, each with the properties that cover it.

## Modules

| Module | Stands for |
|---|---|
| `Ingestion` | admission, publication, the broker, the workers and the user's deletions, over the same rows |
| `DispatchLifecycle` | what the tables `ingest_dispatch` and `ingest_completion_event` promise; `Ingestion` implements it |
| `PendingDelete` | one conversation thread with its pending action, overlapping turns and confirmed deletions |
| `NotificationDelivery` | the sweeps that tell users over their channel how an ingestion ended |
| `DeliveryLedger` | what that ledger promises about an event; `NotificationDelivery` implements it |
| `RecycleBin` | the purge: claims, object deletes and row deletes against saves, workers and other sweeps |
| `AccountLinking` | accounts, identities, link tokens and the merge of two accounts |
| `IngestQuota` | the admission locks, counts and limits of many clients |
| `CompletionPublisher` | the outbox of completion events with its direct publication and its repair sweep |
| `Credentials` | login commands, mailed codes, pairings and MCP grants, and how long they are good for |
| `OneTimeSecret` | what every login protocol promises of the secret it hands out; `Credentials` implements it |
| `McpServer` | processes, requests and tools of the MCP server |
| `WebSession` | a browser's tabs, its session cookie and the private query client of each tab |
| `ConversationTurns` | repeated, abandoned and lost requests of one conversation |
| `AnswerStream` | one streamed answer from the agent over service, route and reader to the page |
| `StreamContract` | what the browser may rely on in the public events; `AnswerStream` implements it |
| `AgentTurn` | one run of the agent: tools, budgets, outcomes and every way to end |
| `WebLibrary` | the library pages, their query cache, polling and the add dialog |
| `YouTubeCapture`, `FrameCapture` | the two caption adapters of the extension |
| `Deployment` | start, supervise and stop on one host |
| `Configuration` | the profiles of a host and the rules by which an environment is refused; `Deployment` starts what it says |
| `Background` | `NotificationDelivery` with `RecycleBin`: the sweeps |
| `Tenants` | `IngestQuota` with `AccountLinking` and `CompletionPublisher`: what users own and may spend |
| `Access` | `Credentials` with `McpServer` and `WebSession`: who is let in |
| `Conversation` | `ConversationTurns` with `AnswerStream` and `AgentTurn`: a question and its answer |
| `Browser` | `FrameCapture` with `YouTubeCapture` and `WebLibrary`: what runs in the browser |
| `IngestionProofs`, `PendingProofs`, `NotificationProofs`, `TenantsProofs`, `AccessProofs`, `ConversationProofs`, `BrowserProofs`, `DeploymentProofs` | the theorems about `Ingestion`, `PendingDelete`, `Background`, `Tenants`, `Access`, `Conversation`, `Browser` and `Deployment` |
| `MC...` | instances for TLC, see [Runs](#runs) |

`Background`, `Tenants`, `Access`, `Conversation` and `Browser` compose: each extends
its first module, instantiates the others and states the properties that join their
parts. Both the runs and the proofs use them, so a theorem and a run speak of the same
formula.

Every module opens with a paragraph on what it abstracts, and every definition
that stands for code is mapped to its lines in `PROJECT.json`. In all of them an action
is a transaction or an external call of the code, from one commit (or await) to
the next; what the code does inside one transaction that locks all it reads is one
step.

### Ingestion

State. `item` is the part of a `content_item` row that the pipeline decides on: its
processing state, the shelf it is on (`live`, `archived`, `trash`, or `expired`: in
the recycle bin past its retention) and which raw object it names. `attempts`,
`dispatch`, `event` and `capture` are the rows of one attempt; `producer` is the
request that admitted it and has not yet returned; `queue` holds the messages in
the broker, `objects` the raw transcripts in the store and `worker` the local state
of each Celery process: program counter, dispatch, retries and what `process_item`
has read before and uses later. `repeated` is a history variable: the attempts one
of whose messages the broker delivered twice.

Actions.

- *Admission* (`SubmitNew`, `SubmitAgain`, `SubmitRestores`, `RetryItem`,
  `RetryReplay`, `WebRetry`, `CaptureAdmit`, `CaptureRestores`): the transactions of
  `save`, `retry_item`, the Web retry and `_admit`, with the checks each makes under
  the row lock. They differ, and the model keeps the differences: a save looks at
  the newest dispatch, a capture at any active one, only the Web retry refuses
  settled items, and a replayed `retry_item` repairs the replayed dispatch.
- *Publication* (`UploadCapture` to `CaptureUnpublished`, `ProducerDies`): upload,
  publish, the conditional acknowledgement, and four different compensations. A
  publisher that raises may have delivered its message.
- *Worker* (`ClaimDispatch` to `OnFailure`): claim, every step of `process_item`
  with its re-reads of the row, settlement, hand-back for a retry, Celery's retry
  and the failure hook, which also runs after the task's own handler.
- *Environment*: `SoftDelete`, `Restore`, `Archive`, `Unarchive`, `RetentionEnds` at
  any moment; with `Fault`, deaths of requests and workers (`crash`), redelivered
  messages (`duplicate`) and failing settlement transactions (`database`).

Segments, texts, metadata and task ids are not state: a dispatch is published once
under a task id, so all of its messages carry the same id and the comparisons of
task ids in the code cannot tell them apart.

### PendingDelete

State. `thread` is the open conversation and its newest recorded turn, `turns` the
messages already recorded, `code` the confirmation code a message contains,
`action` the rows of `pending_channel_action`, `item` the recycle-bin flag and
`delete_claim_token` of the targets, `caller` the handlers of turns. Claim tokens
and restore fences are drawn from one counter, `tokens`, so that their order is the
order of events; `restored` is a history variable with the token of an item's last
restore.

Actions. `BeginTurn` reads the newest completed turn, as the channel service does
before the agent runs; one operation follows, then `RecordTurn` or `LoseTurn`.
`ClaimDelete`, `RunEffect` or `EffectRaises`, and `FinishDelete` or `RecordFailure`
are the three transactions of `confirm_delete`; between them leases pass, other
turns run, and the Web library deletes and restores the items. Handlers overlap
because tools run in threads that outlive a cancelled turn and the conversation
lock, because MCP calls take no such lock, and because a restarted gateway starts
anew.

### Background work: NotificationDelivery, RecycleBin, CompletionPublisher

`NotificationDelivery` keeps the delivery rows, the sweeps with the claims they hold,
and history counters of messages sent and tries spent. A sweep claims a batch, loads,
sends and acknowledges each event outside of any transaction. Times are two flags of
a row: its lease has expired, its backoff has elapsed. An error before the send gives
the try back (`notification_deferred`); a redrive starts a new series of tries.

`RecycleBin` keeps rows and objects of a few URLs, the sweeps of the purge and their
claims. Objects are named by content, so a saved-again URL gets a row with a new id and
an object with the old name; this is what makes the three steps of the purge
interesting. `Stall` says whether a sweep may go on after its own claims have become
stale, as a process that is suspended for long may; it is `FALSE` in the run, and a video
has one content there: a stalled sweep, or a video whose transcript changed between two
saves, can leave an object behind or take one away.

`CompletionPublisher` models the publishing code as it stands, although nothing starts it
at this commit; no liveness is claimed of it.

### Accounts and credentials: AccountLinking, Credentials, WebSession, McpServer

`AccountLinking` merges two accounts while turns of both hold a tenant they resolved
before. Rows that stand for the same video are reconciled; the surviving row is chosen
by the code's rank, which ignores the shelf. Rows of `browser_capture` stay with the
absorbed account and go with it, so an attempt that was admitted for a capture fetches
with the connector after a link. `rebind-identity` leaves threads where they are; the
properties speak of links only.

`Credentials` has one transaction per step and exercises one protocol in a behaviour. A
request that exchanges a secret locks the secret, not the account. `WebSession` takes
these as single steps and asks what the tabs of one browser show: a request carries the
cookie of the moment it is sent, its answer sets or deletes the cookie when it arrives.
A login replaces the query client of its own tab; the other tabs are not told, and
`elsewhere` records of each whether its client held or awaited anything at that moment.
`McpServer` follows a token from the request to the tool. Tools are coroutines without a
suspension point, except a question to the agent, so in one process they run one at a
time; a stdio process resolves its grant once.

### Conversations: ConversationTurns, AnswerStream, AgentTurn

`ConversationTurns` keeps threads with their stored turns, the lock a process keeps for
the conversation and the requests with what they have read. `AnswerStream` follows one
question through four layers that each keep the open section; generators are pulled, so
an event passes service and route in one step. `AgentTurn` is one execution: each model
step chooses tools or a text, the server executes calls one after the other under its
budgets; every handler of the orchestrator that can end a run is an action. A streamed answer that
fails before a section was shown gives way to the whole answer of the compatibility path.

### Pages: WebLibrary, YouTubeCapture, FrameCapture

`WebLibrary` has the rows and attempts of the server, one cache entry per query with at
most one read in flight, polls, changes and the add dialog. A read of the server is two
statements, so that it can be torn. A change invalidates the lists: the read in flight of
the one on the screen is dropped and asked again, as React Query does, but only where the
entry holds an answer; a first load keeps the read it has (`Reread`).

`YouTubeCapture` and `FrameCapture` are the adapters, one step per stretch between two
awaits, reading what the page holds by then. A YouTube page has up to three responses: what
the player says of its video, and what was loaded with the page, once as a response and
once without a name; each may or may not name its video (`Responses`, `Ours`). In
`FrameCapture` the attempts of the frames are compared by `captureScore`: a piece has any
number of cues, a known length and a title add 200 and 50, so one capture is sure to beat
another only if it has all its pieces and no less of the rest (`Outscores`); a capture over
the limits is dropped before they are compared (`Attempts`).

### Deployment

State: who holds `lifecycle.lock`, the state file, the local state of each launcher,
supervisor and stopper, the children of each run, the running Compose services. What a
start runs depends on its environment `Env`: `Configuration` derives the children, the
services and the target of the migrations from the profile, and says which environments
the static checks and the settings refuse (`Refused`). `InitializeFails` is the first
start that finds no configuration and gets no answer to its questions.
`faults` bounds processes that are killed; `blind` records that the identity probe of a
live process failed, after which the program takes the process for gone. `OneRuntime` is
claimed up to that, and up to a killed supervisor: two runtimes can overlap when the
launcher gives up and kills its supervisor before it stopped its children
(`.trellis/spec/backend/deployment-lifecycle.md`:41 rules them out).

## Runs

TLC checks small instances. The `MC` module of a composition extends it; its variable
`part` (or `scenario`) is fixed by the initial state and says which of the parts a
behaviour is about, the others stay at an initial state. The parts of one run do not
interact; they share a run because a run is a question about an area.
Safety properties that speak of one part are true of the others at their initial
states, except where they are guarded by `part`. Bounds that TLC needs and the modules
do not (`Bounded`, `AttemptsWithin`, ...) are conjuncts of the composite's next-state
relation, never of a module's.

| Run | Question | Bounds |
|---|---|---|
| `ingestion` | Are attempts made one at a time, with final outcomes, matching events and items that show them? | 1 item, 1 request name, 2 workers, 1 retry; scenarios: crashes and failing transactions (2 attempts), doubled messages (2 attempts), repeated requests (3 attempts, 1 busy worker) |
| `ingestion_liveness` | Is every attempt settled, and is each step one of `DispatchLifecycle`? | no faults, 1 worker, 2 attempts, 1 retry |
| `pending` | Do requests of one thread replace each other one at a time; are claims kept, results true, restored items spared, redeliveries harmless? | 1 item, 2 handlers, 3 messages; 3 tokens with 1 action, or 2 actions with 1 token |
| `background` | Do sweeps act only on what they hold, and finish? | 2 sweeps; 1 event with 2 attempts and a redrive; 2 URLs with 1 content, 2 rows, 3 claims, 1 mishap |
| `tenants` | Do links, quotas and the outbox keep their word against each other's interleavings? | 2 accounts with 2 link tokens; 2 users, 2 videos, 2 clients, 2 attempts, 2 days, five limit settings; 2 events, 1 direct and 2 repair publishers, 2 faults in all |
| `access` | Does a credential open what it was issued for, once, until it is revoked; does a tab's client hold one account? | 1 HTTP and 1 stdio process, 2 grants, 2 calls, 1 operator act; 2 accounts, 2 tabs, two login commands, two sessions or one of each; 2 secrets of a kind, 2 clients, 2 chat turns |
| `conversation` | Are turns stored once and in order, streams whole, and does the agent tell what it did? | 3 requests (or 2 and a loss) of 2 messages in 2 processes, 3 threads; 2 sections, 2 deltas; 4 model steps, 3 tool calls, 1 action |
| `browser` | Do pages show recent answers, are captures those of the video on the page? | 1 item, 1 change or 1 failed read; 3 videos, 2 of them with captions, 2 navigations, 2 late responses, each response with or without a name; 2 frames, 2 pieces, 1 timeout |
| `deployment` | Is there one runtime with one record, and is what was stopped gone? | 2 starts, of `langbot` and, attached, of `read`; 1 stop; the children and services of these profiles; 1 fault; 15 environments that break one rule each |
| `contradictory_failure`, `restore_fence`, `partial_captions` | see [Disagreements](#where-the-documentation-and-the-code-disagree) | |

Why the bounds are enough for the cases that matter:

- *One item.* Attempts of different items share only workers and the broker, and
  all row state is per item; the theorems quantify over any set of items.
- *Two or three attempts.* Every admission decides on the newest attempt and on the
  others only as "some other": a late message, acknowledgement or hook of attempt 1
  meets attempt 2. A replayed request looks back past another attempt with three.
- *Request names.* The keys of save, retry and capture are name spaces, so one name
  gives three keys and lets a save and a Web retry collide.
- *Retries and redeliveries.* Retries only count down; one gives a first, a last and
  an exhausted delivery (the code allows five). The broker redelivers one message of
  an attempt.
- *Three messages, three tokens.* Request, claim and takeover of one deletion take
  three messages; two claims with a restore between them take three tokens. The
  replay of a consumed confirmation against a newer request takes two actions; with the one
  token left there, at most one of the two confirmed is a deletion, and the theorem
  `ConsumedOnce` has any number of them.
- *Two tabs.* The second is interesting once the first has logged in: it then reads and
  logs out with the same cookie (`OneAsks`). Logins, links and navigation with requests
  under way stay with the first tab; the theorem has any number of tabs that do anything.
- *Frames.* The page itself shows one source of captions at most, the player in its frame
  any combination, and the frames are asked one after the other, the page first
  (`Single`, `InTurn`): the adapters share nothing until all are done.
- *Two of everything that competes*: sweeps, clients, processes, starts, frames,
  users. A third is a repetition of the second in all of these protocols, and where
  a theorem is listed it is proved for any number.

What the properties are about, by run. A property that joins several is a conjunction
of named parts, each with its own comment.

- `ingestion`: `AtMostOneActive`, `RequestAdmitsOnce`: the admission checks against
  each other and against settling workers. `OutcomeIsFinal`, `OutcomeHasEvent`: late
  publishers, hooks and duplicates against settled rows; an attempt that a *publisher*
  failed has no event, all others exactly the one that matches. `ExclusiveIngestion`: no
  two workers in one item. `ItemStaysTrue` = `ItemShowsLatestOutcome`,
  `ReadyItemHasRawObject`, `NoDeadEnd`: the item row against its newest attempt across
  the two commits that end an ingestion, with deletions, captures and crashes between
  them. The last two are claimed of items all of whose messages were delivered once
  (`DeliveredOnce`): with a doubled message they fail, see below.
- `ingestion_liveness`: `EveryAttemptSettles`, exhausted retries and deleted items
  included; `ImplementsLifecycle`: no step but its own ever moves an attempt.
- `pending`: `ClaimIsKept`: within its lease a deletion is not run twice, replaced,
  cancelled or expired. `LateDeletionSparesRestored`, `ResultsAreAccurate`: restores
  between claim, deletion and result. `ResolvedIsFinal`, `MessageConsumesOnce`: late
  results, replacements and redeliveries.
- `background`: `ObjectsFollowRows` = `KeptItemHasObject`, `PurgeLeavesNothing`;
  `OnlyHoldersAct` = `OnlyHolderSettles`, `PurgesOnlyOwnClaims`; `ImplementsLedger`;
  `SweepsFinish` = `EveryEventSettles`, `ExpiredIsPurged`.
- `tenants`: `LinksAreClean` = `AnswersStayInAccount`, `ThreadFollowsIdentity`,
  `LinkKeepsLibrary`, `RunningAttemptSurvives`, `TokenLinksOnce`; `LimitsHold` =
  `GlobalLimitsHold`, `AdmissionsStayWithin`; `NoLockCycle`: admissions and links never
  wait for each other in a circle; `OutboxIsHonest` = `EnqueuedWasAccepted`,
  `DuplicatesNeedFaults`, `OnlyHolderSettles`.
- `access`: `RevokedIsRefused`; `ServedAsAdmitted` = `CallKeepsItsGrant`,
  `AdvertisedIsAllowed`, `ManagerIsRunning`, `CodeIsAnchored`; `OneAccountPerClient`: late
  answers to a replaced client, and logouts, links and refusals seen by any tab, never mix
  two accounts in a query client. Only a login in another tab does, and the property
  excludes it by name;
  `ImplementsOneTimeSecret`; `CredentialsStayTrue` = `OpensOwnAccount`,
  `RevokedStaysRevoked`, `NoOlderCodeLogsIn`; `NobodyWaits` = `StartupEnds`,
  `ApprovalIsNoticed`.
- `conversation`: `TurnsStayInOrder` = `AnswersAgree`, `TurnsSerialised`;
  `AnswerIsWhole` = `ReaderAcceptsAll`, `ToldIsStored`, `PartialIsNotStored`,
  `WithdrawnIsGone`, `ExecutedOnce`; `AgentKeepsItsWord` = `OneEffect`, `OutcomeIsTold`,
  `FailedReadIsAdmitted`, `BackendWithinBudget`, `CitesThisTurn`, `TodoIsFinal`;
  `ClosedThreadIsQuiet`; `FollowsContract`; `EverythingEnds`.
- `browser`: `PagesKeepUp` = `RefreshedListIsRecent` (of lists that show an answer while
  they are refreshed), `DialogShowsItsBatch`; `CapturesAreTrue` = `CaptionsOfThatVideo` and
  `NoCaptionIsTrue` of a page on which any response names a video, `SavedIsOnScreen`,
  `PartIsNotTaken` (a part is taken only where no playlist could be read), `NoCaptionIsTrue`
  of the frames, but for one that threw or whose captions are over the limits, and
  `WholeWins` (a part beats a whole only if that is over the limits, or the part comes with
  a length or a title that the whole lacks); `NothingHangs`.
- `deployment`: `NothingLeftBehind` = `FailedStartIsOver`, `StoppedIsOver`,
  `ServicesKept`; `RuntimeStaysOne` = `OneRuntime`, `LiveRecordKept`;
  `ExitStopsSiblings`.

A run checks `TypeOK` of `Ingestion` only; every `TypeOK` of the modules is proved, except
that of `OneTimeSecret`, whose state is a function of the state of `Credentials`.

`CHECK_DEADLOCK FALSE`: a closed thread, an item past its retention whose attempts are
settled, a finished run of the agent or of a command, and instances whose bounds are used
up have nothing more to do. The liveness properties and `NoDeadEnd` say that
nothing else stops half-way.

### Fairness

Nothing is asked of users, operators or faults: requests, deletions, restores, revocations
and kills happen or do not. Weak fairness is asked of:

- requests that started, delivery and workers in `Ingestion` (`SystemStep`), in
  the scenario without deaths: Celery hands a queued message to an idle worker. With
  crashes `EveryAttemptSettles` fails, rightly: messages are acknowledged before the
  task runs and nothing in the code picks up a dispatch that is left `running` or
  `pending`. These are the two hazards without a property at `tasks.py`:472 and
  `submission.py`:738;
- each sweep's own steps, the passing of leases and of backoff times, and workers that
  hold an object not yet named by a row: beat starts a sweep again and again, and clocks
  go on;
- the readiness assessment of each MCP process and, for each tab, the poll of the login
  page, the answering of its requests and their arrival (each is answered or lost);
- the handlers of a conversation, the agent (its model calls and the transport have
  time limits), the route's writes and the browser's reads;
- poll and read of a cached query (React Query's interval), the timers of the
  extension's adapters;
- launcher and supervisor steps of `Deployment`: processes that are not killed run.

The composites state these conditions as conjunctions of weak fairness per part,
because a fair action of one part must not be disabled by the part being another.

### Refinements

Four abstract specifications are checked as properties, with a refinement mapping by
`INSTANCE ... WITH`: `DispatchLifecycle` (rows: same variables), `DeliveryLedger` (a row
is owed, told, skipped or given up; messages and tries are the history counters),
`OneTimeSecret` (`Progress` of a secret, credentials minted for it) and `StreamContract`
(the events written so far). All four are also proved.

## Where the documentation and the code disagree

Three runs check what a comment, a test or a document says and find a counterexample.

- `contradictory_failure`: the failure hook of one delivery settles the attempt that
  another delivery is processing; the item becomes ready after its failure was
  reported (`tasks.py`:1524, `ingest-completion-queue.md`:23-25).
- `restore_fence`: a restore leaves a random token in the row that no later claim can
  equal, so an item that was once restored is never again deleted by a confirmed
  deletion, which reports it as already restored (`management.py`:461, the comment
  at 466-468).
- `partial_captions`: with the playlist request failed, a piece among the loaded
  resources is read as if it were the whole captions file (`page-capture.ts`:1453, the
  comment at 1449 and the test at `page-capture.test.ts`:1264).

Further behaviours met while modelling, described here only:

- a worker that finds the item deleted discards the stored capture and leaves it
  `ready`, so a retry after a restore reads a missing object
  (`browser-companion-capture.md`:44 says that it is reused);
- a handler whose deletion was taken over deletes the items all the same, unless they
  were restored (`pending_actions.py`:475-477 calls it a no-op), and after one
  ordinary turn no confirmation reaches a deletion whose handler died
  (`pending_actions.py`:85-87 says that a new one may recover it);
- linking may leave a user above his limits; `tasks.py`:222 (`create_item`, used by the
  command line) asks no quota; a daily limit counts from the midnight before the count,
  rows are dated at the start of their transaction;
- closing the add dialog during a submission drops the result and refreshes nothing; a
  read in flight while a change is answered can overwrite the change in an item's
  cache entry; a list that is still loading for the first time keeps its read through a
  refresh and shows an answer from before the change as fresh; a torn read of the library
  can show a saved item as failed without a dispatch;
- a login in one tab leaves the query client of the others in place: their next read
  carries the new cookie and puts a second account's data beside the first's, although
  `.trellis/spec/frontend/state-management.md`:34-35 has the client replaced before another
  user can authenticate in the same browser; a late 401 of an old session tears a new view
  down; the answer to a logout may delete the cookie another tab received meanwhile;
- a launcher waits 5 seconds for its supervisor and then kills it (`deployment.py`:800),
  while the supervisor allows its children 10: the children run on and the next start
  launches others beside them. `.trellis/spec/backend/deployment-lifecycle.md`:52-53 wants
  the outer budgets to exceed the cleanup budget. `NothingLeftBehind` speaks of the
  supervisor and its record, and `OneRuntime` excludes this case;
- 200 points for a known length and 50 for a title let a part of the captions beat a
  whole file of another frame (`page-capture.ts`:188-204); a capture over the limits is
  dropped, so that another frame's "no captions" becomes the answer (206-244); after a
  navigation within the page, a response of the previous video that has no name is taken
  for one of the new video if no response names any (527-549);
- a stdio MCP process keeps serving a grant that was revoked after it started; the agent
  behind `ask` may act whatever the scope of the grant;
- a time-out inside a section of a streamed answer is told as a cancellation; a time-out
  that cuts a blocked send truncates the stream; a tool thread may take effect after its
  run has timed out and the answer was made;
- the rendered transcript panel of YouTube is not tied to a video, so a panel that
  stayed from the previous video is read for the new one; properties speak of cues that
  come with a video.

## Proofs

Eight modules hold theorems, for every value of the constants; no fact is taken on
trust. Each specification has one inductive invariant, proved with one step per action
and, below it, one per conjunct the action can disturb; type correctness, the safety and
the action properties follow from it. In brackets: the property a run checks too. The
specifications a composition instantiates have theorems of their own specification
(`Publication!Spec => OutboxIsHonest`), in the module of the composition.

The assumptions are those the modules declare: bounds are natural numbers (at least one
attempt, message, action or thread), what competes for a lock or is counted is finite,
names of different things differ, the values used for "nobody" are no names, and the
limits of the agent leave room for an answer (`BoundsAssumption`, `FaultAssumption`,
`PendingBounds`, `NumbersAssumption`, `HostAssumption`). Where such a formula is not an
`ASSUME` of its module, it is a hypothesis of the theorem, and the `MC` module assumes it
for the values it runs (`LimitsAssumption`, `McpBounds`, `OutboxAssumption`,
`ConstantsAssumption`, `FrameBounds`, `YouTubeBounds`, and the `BoundsAssumption` of
`NotificationDelivery`, `RecycleBin` and `AnswerStream`). One hypothesis restricts what the
code can do, because without it the property is false: `Stall = FALSE` (`RecycleBin`).
Properties whose excuse is a state of the system say so in their own formula
(`DeliveredOnce`, `elsewhere`, `known`, `fits`), never in a hypothesis.

**IngestionProofs.** `TypeCorrect` (`TypeOK`), `OneActive` (`AtMostOneActive`), `Outbox`
(`OutcomeHasEvent`), `AdmittedOnce` (`RequestAdmitsOnce`), `FinalOutcome`
(`OutcomeIsFinal`), `Refinement` (`ImplementsLifecycle`), `ExclusiveWork`
(`ExclusiveIngestion`), `TrueItems` (`ItemStaysTrue`); invariants `Invariance`,
`ItemInvariance`.

*Rows.* `AtMostOneActive` is not inductive: an admission checks the *newest* attempt (a
capture any attempt), so the attempts before the newest must be known to be settled.
`IInv` therefore says that the rows of an item are attempts 1 to `attempts[i]`, all but
the newest terminal, the ones after it unused (`RowsInOrder`); that an item without a
row has no attempt (`NewItemsUntried`); that an unsettled attempt has no event
(`OutcomeHasEvent`); and that keys are unique. Every step is an admission or moves
one attempt along the life cycle (`EveryStep`); the action property and the step
simulation of `Refinement` follow from that classification.

*Items.* What an item shows needs to know whose hands an attempt is in. While the
broker delivers an attempt's message once (`d \notin repeated`), the attempt is with its
publisher, in the broker or with one worker (`CarriedOnce`), it was published before
it was delivered and claimed after (`PublishedFirst`, `ClaimsLast`). With `ItemsTried`,
every existing item has an attempt. `TruthInv` then relates the three: `RowsFit` (the
item's state fits the state of its newest attempt and the step its holder is at),
`ItemStored` (an object the row names exists, unless its worker is about to write or
discard it) and `WorkersFit` (what a busy worker has read is still so, or will be
noticed at its next read). An attempt claimed alone gives `ExclusiveIngestion`;
steps that are calm for an item leave what is said of it alone. The guard
`DeliveredOnce` is needed: with a doubled message TLC finds both properties violated,
and `contradictory_failure` shows how.

**PendingProofs.** `OneUnresolved` (at most one unresolved action, what the partial
unique index enforces), `ConsumedOnce` (`MessageConsumesOnce`), `ResolvedStays`
(`ResolvedIsFinal`), `ClaimKept` (`ClaimIsKept`), `RestoredIsSpared`
(`LateDeletionSparesRestored`), `ReportIsAccurate` (`ResultsAreAccurate`), `PendingTypes`.
A handler in the middle of a deletion holds a token of its own and the message whose
code names its action (`CallersHold`, `ClaimsDiffer`); every operation that writes a row
writes the one unresolved action (`WriteKeeps`); tokens and fences are drawn from one
counter, so a fence is never the token of a claim (`FencesInOrder`); what a deletion saw
of its targets stays true or is overruled by a later restore (`ResultsHold`).

**NotificationProofs.** *Notifications:* `OnlyHolder` (a claim in force is settled or
handed back by its holder), `KeepsLedger` (`ImplementsLedger`), `NotificationTypes`. No
two sweeps work on the same claim (`ClaimsDiffer`), because each claim takes a token no
claim has yet (`TokensUsed`). What was claimed and not sent yet was paid for by a try,
and so was every message (`TriesPaid`: messages plus claims that may still send are at
most the tries granted); a try is given back only with the claim it paid for.

*Recycle bin:* `ObjectsOfRows` (`ObjectsFollowRows`), `PurgesOwn`, `HoldersAct`
(`OnlyHoldersAct`), `BinTypes`. A claim is named after its sweep and no two names are the
same (`NamesDiffer`). Until its sweep is done with a row, the row stays expired, at rest
and under that claim (`Holds`), so objects are removed only from rows nobody gets back,
and a row goes after its object has or when it never named one (`RowFits`). That a purge
leaves nothing behind is claimed, and proved, for videos with one content.

**TenantsProofs.** *Quotas:* `AlwaysSomebodyGoesOn` (`NoLockCycle`), `LimitsAlwaysHold`
(`LimitsHold`, of which `GlobalLimitsAlwaysHold` and `AdmissionsAlwaysStayWithin` are the
parts), `QuotaInvariance`, `QuotaTypes`. Whoever is between the count and the insert holds
the lock of the user, and the global one when some limit is global (`UsersLocked`,
`GlobalLocked`), so the room that a check found is still there (`Room`): no other step lets
a count grow (`InsertCounts` is the one that does). A link moves attempts, which maps the
counted ones of the new rows injectively to those of the old (`MergeCounts`). No circle:
an admission takes the global lock before its one user, and a link its two users in
ascending order and no global lock, so the client that holds the greatest user anybody
holds can go on.

*Links:* `LinksAlwaysClean` (`LinksAreClean`), `LinkInvariance`, `LinkTypes`. A link either
meets an identity that has never written or absorbs its account (`LinkCases`). A row of the
merged library is one of the two rows of its video or their fusion; a ready row always
outranks one that is not (`ReadyOutranks`, `MergedRow`), and a link that would drop a row
under a running attempt is refused (`Busy`). The invariant adds to
`AnswersStayInAccount` and `ThreadFollowsIdentity` that rows nobody saved are empty, that a
running turn has a tenant, and that an open token has an account, which a merge keeps true
by moving the tokens of the absorbed one.

*Outbox:* `OutboxAlwaysHonest` (`OutboxIsHonest`), `OutboxInvariance`, `OutboxTypes`. No
claim is in two hands or twice in one (`ClaimsDiffer`), because its token is one the row
has just counted up to (`TokensUsed`). `FaultsPaid` says why a duplicate needs a fault: the
messages accepted of an event, the claims that may still become one (or are about to be
handed back) and a row that is open to another claim are together at most one more than
the faults; each step that adds to one of them takes from another or is a fault.

**AccessProofs.** *Credentials:* `OpensOwn`, `RevokedStays`, `NoOlderCode` (together
`StayTrue`, `CredentialsStayTrue`), `OneTimeUse` (`ImplementsOneTimeSecret`),
`CredentialsTypes`. A request that has checked a secret keeps it usable until it ends,
because whoever would void it waits for its lock (`CheckedStays`) or holds a lock the
check waits for (`SendingHolds`); two such requests never hold the same secret or two
codes of one address (`CheckedDiffer`); what is not spent has bought nothing (`Unspent`).

*MCP:* `NoDeadToken` (`RevokedIsRefused`), `AdmittedIsServed` (`ServedAsAdmitted`),
`McpTypes`. A token that was no good when its request was sent is no good when the
request is authenticated, because nothing makes a grant good again and rotations only
count up; a request that was let in names its grant in its own context or in the stdio
process that outlives it (`CallFits`); what a process runs was complete when it came up
(`UpIsComplete`).

*Web session:* `OneAccount` (`OneAccountPerClient`), `SessionInvariance`, for any number of
tabs. A client that no login of another tab found in use belongs to one session, or to none
(`OneSeen`): the cookie and all its requests name that session or no session, and what it
shows, or will show when an answer that is its own arrives, is of one account, that of the
session while it is live (`Belongs`). An answer that changes the account of a tab disowns
the requests in flight with the client it replaces; a logout or a link, in whichever tab,
only ends sessions (`OnlyEnd`) and takes the cookie away; a login elsewhere finds a client
that holds and awaits nothing, which then belongs to the new session, or marks it.

**ConversationProofs.** *Turns:* `InOrder` (`TurnsStayInOrder`), `StoredOnce` (a message
has at most one turn per thread), `ClosedIsQuiet` (`ClosedThreadIsQuiet`),
`ConversationTypes`. A handler that has entered holds the lock of its process until it
ends (`LockHeld`), so the turns its process has stored in its thread are those it has
read (`SeenAll`), and a thread its process closed is not its own (`QuietHandlers`). What
a caller was told is the run of the one turn stored for its message (`TurnsUnique`,
`ToldStored`), and a deleted thread never comes back (`TurnsLive`).

*The agent:* `AgentWordIsKept` (`AgentKeepsItsWord`), `AgentTypesHold`. Until a run has an
answer nothing is told, and a run without an outcome has asked for no effect, so the
first action is the only one; every read the backend saw was reserved in the budget
first; what ends a run does so with its outcome, with an admitted failure, or with
evidence of this turn (`AgentInv` and its parts).

*Streams:* `AnswersAreWhole` (`AnswerIsWhole`), `StreamFollowsContract` (`FollowsContract`),
`StreamTypesHold`. The route is up to date with its log, which is what the contract reads;
the agent agrees with the route about the open section; the reader is a prefix of the
log behind; and a turn is stored when, and only when, a whole answer ended (`StreamInv`).

**BrowserProofs.** `KeepUp` (`PagesKeepUp`), `CapturesTrue` (`CapturesAreTrue`), invariants
`FrameInvariance`, `TubeInvariance`, `LibInvariance`. Frames: the sources of an attempt can
be read as what they are (`Readable`), a playlist is read to its end or given up, and a
frame that is done never changes, so no capture within the limits certainly scores more
than the one that is reported. YouTube: once any response names a video, one is taken up
only if it names that of the page, and whatever goes on does so with the video the attempt
was started for (`Fits`). Pages: the refresh of a list that holds an answer leaves no
earlier read in flight, so an entry that shows something older is still marked (`Recent`),
and a batch of this opening of the dialog is the one it waits for (`DialogFits`).

**DeploymentProofs.** `OneRuntimeStays` (`RuntimeStaysOne`), `NothingIsLeft`
(`NothingLeftBehind`), `DeploymentTypes`. As long as every live process can be
identified, the state file names the one supervisor past its claim (`RecordOfOwner`),
and a start that holds the lock has found, and keeps, a file that names nobody or its
own reservation (`Reserved`); a supervisor without the lock therefore writes over
nobody's record but its own.

Model-checked only:

- every liveness property (`EveryAttemptSettles`, `SweepsFinish`, `NobodyWaits`,
  `EverythingEnds`, `NothingHangs`, `ExitStopsSiblings`): liveness under fairness and
  `ENABLED` are out of the prover's reach. `NoDeadEnd`, the part of `ItemStaysTrue` that
  says that nothing is stranded, is a state property and is proved;
- the three disagreements: a proof shows what always holds;
- the rules of `Configuration`: a list of cases, checked by evaluation.

Proving found what the runs had not. With one client, the lock guard of `IngestQuota`
excluded nobody; `WebSession` let a navigation lead to the library only; cases of
`FrameCapture`, `YouTubeCapture` and `McpServer` overlapped, so that their order, which
TLA+ does not define, mattered. The modules say now what the code does.

## Not modelled

- Retrieval: chunking is a pure function of a transcript, embedding and search call
  external services and SQL ranking.
- Validation of payloads, texts, prompts and ranking: they refuse or compute, and change
  no state that a property is about. Signatures and nonces of the gateway, rate windows,
  cookie attributes.
- The agent's model calls, connectors, the object store's and the broker's internals:
  external, and modelled by their outcomes where their callers depend on them.
- The command line and diagnostics, migrations, evaluations and the demonstration
  server.
- In `Deployment`: two first starts that create the state directory at once, an operator
  who starts a Compose service while a failed start is stopping it. In `IngestQuota`:
  the lock order of workers against links and purges. In `WebLibrary`: filters, search,
  sort orders and pages are queries alike. In `FrameCapture`: a text-track mode that the
  player changes during the adapter's wait. In `YouTubeCapture`: the limits on a capture,
  which can only turn one into an error. In `CompletionPublisher`: whoever consumed
  its messages.

## Plan

Done: every module above, the four refinements, and the theorems of eight modules: every
invariant and action property that a run checks is also proved, up to the cases named
under [Proofs](#proofs).

When the code changes, in this order:

1. In the module of the component: the action, its lines in `PROJECT.json` and the run.
2. In its proof module: the step of the inductive invariant that the action needs.
3. A worker's chunking against a reference definition, if `chunker.py` grows cases
   that its tests do not cover.
4. Runs for the settings the instances leave out: a second tab that logs in too
   (`WebSession`), a sweep that outlives its claims (`Stall` in `RecycleBin`), whoever
   will start the completion publisher.
