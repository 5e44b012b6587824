------------------------------- MODULE Ingestion -------------------------------
(******************************************************************************)
(* The ingestion pipeline of notebook-agent: saved items, their dispatch      *)
(* attempts, the Celery broker between the gateway and the workers, and the   *)
(* worker that turns a video into searchable segments.                        *)
(*                                                                            *)
(* Three kinds of process share the PostgreSQL rows, each step below being    *)
(* one transaction or one external call:                                      *)
(*   - requests (submit, retry, web retry, browser capture) admit an attempt  *)
(*     and then publish it, outside the admitting transaction;                *)
(*   - Celery workers acknowledge a message early, claim its dispatch,        *)
(*     process the item and settle the dispatch together with its completion  *)
(*     event;                                                                 *)
(*   - the user deletes, restores and archives items at any moment.           *)
(*                                                                            *)
(* A dispatch is published once, so its Celery task id is a function of the   *)
(* dispatch and every message of one dispatch carries the same task id, retry *)
(* deliveries included: the task id comparisons of the code never tell two of *)
(* them apart and are not modelled.                                           *)
(******************************************************************************)
EXTENDS Naturals

CONSTANTS
    Item,          \* content_item rows of one user
    Request,       \* what callers name their requests by (message ids, hashes)
    Worker,        \* Celery worker processes
    MaxAttempt,    \* bound: dispatch attempts per item
    MaxRetries,    \* Celery max_retries of fetch_text_task (5 in the code)
    Fault          \* which failures the environment may inject

ASSUME BoundsAssumption == MaxAttempt \in Nat \ {0} /\ MaxRetries \in Nat

ASSUME FaultAssumption == Fault \subseteq {"crash", "duplicate", "database"}

VARIABLES
    item,        \* content_item: processing state, visibility, raw object key
    attempts,    \* number of dispatch rows of an item = its latest attempt
    dispatch,    \* ingest_dispatch rows
    event,       \* ingest_completion_event, at most one per dispatch
    capture,     \* browser_capture, at most one per dispatch
    producer,    \* the request that admitted a dispatch, until it has published
    queue,       \* Celery messages waiting in the broker
    repeated,    \* history: dispatches the broker delivered a message of twice
    objects,     \* raw transcript objects in the object store
    worker       \* what each worker process is doing

broker == <<queue, repeated>>

vars == <<item, attempts, dispatch, event, capture, producer, broker, objects,
          worker>>

--------------------------------------------------------------------------------
(* Rows, messages and process states *)

Attempt  == 1..MaxAttempt
Dispatch == Item \X Attempt

ItemOf(d) == d[1]

Active   == {"pending", "enqueued", "running"}
Terminal == {"completed", "failed"}
Textual  == {"needs_extension", "needs_asr"}
Settled  == {"ready"} \union Textual

\* The recycle bin. Past its retention an item waits for the purge, which only
\* claims items without active attempts, and no operation takes it out again.
Trash == {"trash", "expired"}

\* Request keys are namespaced by the request they are made for; the Web library
\* saves and retries under the same names.
Key   == {"save", "retry", "extension"} \X Request
NoKey == <<>>

FailureCode == {"queue_unavailable", "capture_upload_failed", "item_deleted",
                "transient_fetch_failed", "ingest_too_large", "ingestion_failed"}

\* The two names an item's raw object can have: the canonical transcript of a
\* browser capture and the subtitle file a connector fetched.
ObjectName == {"capture", "connector"}

ItemRow ==
    [state : {"absent", "pending", "fetching", "chunking", "failed"} \union Settled,
     shelf : {"live", "archived"} \union Trash,
     raw   : {"none"} \union ObjectName]

DispatchRow ==
    [state : {"none"} \union Active \union Terminal,
     error : {"none"} \union FailureCode,
     key   : {NoKey} \union Key]

EventRow == [state : {"none", "failed"} \union Settled,
             error : {"none"} \union FailureCode]

CaptureRow == [state : {"none", "staging", "ready", "failed"}, cued : BOOLEAN]

Producer == [via : {"none", "submit", "retry", "web", "capture"},
             pc  : {"idle", "upload", "stage", "publish",
                    "accepted", "rejected", "unstored"}]

Message == [disp : Dispatch, retries : 0..MaxRetries]

\* The message of one delivery of a task.
Sent(d, retries) == [disp |-> d, retries |-> retries]

\* Steps of process_item, in the order in which a worker passes them.
Processing == {"load", "meta", "fetch", "chunk", "put", "embed", "index",
               "discard", "void"}

WorkerState ==
    [pc      : {"idle", "finish", "release", "again", "fail", "hook"}
                   \union Processing,
     disp    : Dispatch \union {<<>>},
     retries : 0..MaxRetries,
     source  : {"none", "connector", "capture", "blank"},
     result  : {"none", "deleted"} \union Settled \union FailureCode]

NoDispatch == [state |-> "none", error |-> "none", key |-> NoKey]
NoEvent    == [state |-> "none", error |-> "none"]
NoCapture  == [state |-> "none", cued |-> FALSE]
NoProducer == [via |-> "none", pc |-> "idle"]
IdleWorker == [pc |-> "idle", disp |-> <<>>, retries |-> 0,
               source |-> "none", result |-> "none"]

Init ==
    /\ item = [i \in Item |-> [state |-> "absent", shelf |-> "live", raw |-> "none"]]
    /\ attempts = [i \in Item |-> 0]
    /\ dispatch = [d \in Dispatch |-> NoDispatch]
    /\ event = [d \in Dispatch |-> NoEvent]
    /\ capture = [d \in Dispatch |-> NoCapture]
    /\ producer = [d \in Dispatch |-> NoProducer]
    /\ queue = {}
    /\ repeated = {}
    /\ objects = {}
    /\ worker = [w \in Worker |-> IdleWorker]

--------------------------------------------------------------------------------
(* State formulas *)

Exists(i)  == item[i].state # "absent"
InTrash(i) == item[i].shelf \in Trash

\* The newest dispatch row of an item that has one.
Latest(i) == <<i, attempts[i]>>

\* Variant of Replay that forgets the attempts that failed.
ReplayOfUnfailed(i, key) ==
    {d \in Dispatch : ItemOf(d) = i /\ dispatch[d].key = key
                                    /\ dispatch[d].state # "failed"}

\* The dispatch row a request key of this item has created, if any.
Replay(i, key) == {d \in Dispatch : ItemOf(d) = i /\ dispatch[d].key = key}

\* Variant of HasActive that overlooks what waits in the broker.
HasActiveNotQueued(i) ==
    \E d \in Dispatch : ItemOf(d) = i /\ dispatch[d].state \in {"pending", "running"}

HasActive(i) == \E d \in Dispatch : ItemOf(d) = i /\ dispatch[d].state \in Active

\* The captures process_item may read, and the newest of them.
ReadyCaptures(i) == {n \in Attempt : capture[<<i, n>>].state = "ready"}

CaptureSource(i) ==
    IF ReadyCaptures(i) = {} THEN "connector"
    ELSE LET newest == CHOOSE n \in ReadyCaptures(i) :
                           \A m \in ReadyCaptures(i) : m <= n
         IN  IF capture[<<i, newest>>].cued THEN "capture" ELSE "blank"

--------------------------------------------------------------------------------
(* Admission: one transaction under the item row lock *)

\* A new attempt: dispatch row, capture row (for captures) and the publishing
\* request. row is the item row the same transaction writes.
Admit(i, key, via, cued, row) ==
    LET d == <<i, attempts[i] + 1>>
    IN  /\ attempts[i] < MaxAttempt
        /\ attempts' = [attempts EXCEPT ![i] = @ + 1]
        /\ item' = [item EXCEPT ![i] = row]
        /\ dispatch' = [dispatch EXCEPT ![d] = [state |-> "pending",
                                                error |-> "none", key |-> key]]
        /\ capture' = [capture EXCEPT ![d] =
               IF via = "capture" THEN [state |-> "staging", cued |-> cued] ELSE @]
        /\ producer' = [producer EXCEPT ![d] =
               [via |-> via,
                pc  |-> IF via # "capture" THEN "publish"
                        ELSE IF cued THEN "upload" ELSE "stage"]]
        /\ UNCHANGED <<event, broker, objects, worker>>

Pending(i) == [item[i] EXCEPT !.state = "pending"]

\* The same transaction takes the item out of the recycle bin.
Restored(row) == [row EXCEPT !.shelf = "live"]

\* Save of a URL that has no row yet.
SubmitNew(i, key) ==
    /\ ~Exists(i)
    /\ Admit(i, key, "submit", FALSE, Pending(i))

\* Save of a URL whose last attempt failed, restoring it when it is in the bin.
SubmitAgain(i, key) ==
    /\ Exists(i)
    /\ item[i].shelf \in {"live", "trash"}
    /\ Replay(i, key) = {}
    /\ item[i].state \in {"pending", "failed"}
    /\ dispatch[Latest(i)].state = "failed"
    /\ Admit(i, key, "submit", FALSE, Restored(Pending(i)))

\* Save of a deleted URL that needs no new attempt: only the restore is written.
SubmitRestores(i, key) ==
    /\ Exists(i)
    /\ item[i].shelf = "trash"
    /\ \/ item[i].state \notin {"pending", "failed"}
       \/ Replay(i, key) # {}
       \/ dispatch[Latest(i)].state \in Active \union {"completed"}
    /\ item' = [item EXCEPT ![i] = Restored(@)]
    /\ UNCHANGED <<attempts, dispatch, event, capture, producer, broker, objects,
                   worker>>

\* retry_item repairs "pending item, queue_unavailable dispatch" before it
\* looks at the item's state.
SplitState(i, d) ==
    /\ item[i].state = "pending"
    /\ dispatch[d].state = "failed"
    /\ dispatch[d].error = "queue_unavailable"

RetryItem(i, key) ==
    /\ Exists(i)
    /\ item[i].shelf = "live"
    /\ Replay(i, key) = {}
    /\ item[i].state = "failed" \/ SplitState(i, Latest(i))
    /\ dispatch[Latest(i)].state \notin Active
    /\ Admit(i, key, "retry", FALSE, Pending(i))

\* retry_item called again with a key it has seen: the repair looks at the
\* replayed dispatch, whatever attempts came after it.
RetryReplay(i, key) ==
    /\ Exists(i)
    /\ item[i].shelf = "live"
    /\ \E d \in Replay(i, key) : SplitState(i, d)
    /\ item' = [item EXCEPT ![i].state = "failed"]
    /\ UNCHANGED <<attempts, dispatch, event, capture, producer, broker, objects,
                   worker>>

\* The Web library's retry button: same admission, decided on the projected
\* lifecycle of the item.
WebRetry(i, key) ==
    /\ Exists(i)
    /\ item[i].shelf = "live"
    /\ Replay(i, key) = {}
    /\ item[i].state \notin Settled
    /\ item[i].state = "failed" \/ dispatch[Latest(i)].state = "failed"
    /\ dispatch[Latest(i)].state \notin Active
    /\ Admit(i, key, "web", FALSE, Pending(i))

\* A capture is looked up by its key among all captures of the user.
CaptureReplayed(key) == \E i \in Item : Replay(i, key) # {}

\* A browser capture admits any visible or restorable item that is neither
\* ready nor being ingested. It renames the raw object of the item at once.
CaptureAdmit(i, key, cued) ==
    /\ ~InTrash(i) \/ item[i].shelf = "trash"
    /\ ~CaptureReplayed(key)
    /\ ~HasActive(i)
    /\ item[i].state # "ready"
    /\ Admit(i, key, "capture", cued,
             [state |-> "pending", shelf |-> "live",
              raw |-> IF cued THEN "capture" ELSE "none"])

\* A capture of a ready item only makes it visible again.
CaptureRestores(i, key) ==
    /\ Exists(i)
    /\ item[i].shelf \in {"trash", "archived"}
    /\ ~CaptureReplayed(key)
    /\ ~HasActive(i)
    /\ item[i].state = "ready"
    /\ item' = [item EXCEPT ![i] = Restored(@)]
    /\ UNCHANGED <<attempts, dispatch, event, capture, producer, broker, objects,
                   worker>>

--------------------------------------------------------------------------------
(* Publication: what the admitting request does after its transaction *)

Publishing(d, pc) == producer[d].pc = pc

Proceed(d, pc) == producer' = [producer EXCEPT ![d].pc = pc]
Return(d)      == producer' = [producer EXCEPT ![d] = NoProducer]

UploadCapture(d) ==
    /\ Publishing(d, "upload")
    /\ objects' = objects \union {<<ItemOf(d), "capture">>}
    /\ Proceed(d, "stage")
    /\ UNCHANGED <<item, attempts, dispatch, event, capture, broker, worker>>

\* The upload raised, after or before the store kept the object; the best-effort
\* delete that follows may fail too.
UploadFails(d) ==
    /\ Publishing(d, "upload")
    /\ objects' \in {objects,
                     objects \union {<<ItemOf(d), "capture">>},
                     objects \ {<<ItemOf(d), "capture">>}}
    /\ Proceed(d, "unstored")
    /\ UNCHANGED <<item, attempts, dispatch, event, capture, broker, worker>>

MarkCaptureReady(d) ==
    /\ Publishing(d, "stage")
    /\ capture' = [capture EXCEPT ![d].state = IF @ = "staging" THEN "ready" ELSE @]
    /\ Proceed(d, "publish")
    /\ UNCHANGED <<item, attempts, dispatch, event, broker, objects, worker>>

Publish(d) ==
    /\ Publishing(d, "publish")
    /\ queue' = queue \union {Sent(d, 0)}
    /\ UNCHANGED repeated
    /\ Proceed(d, "accepted")
    /\ UNCHANGED <<item, attempts, dispatch, event, capture, objects, worker>>

\* The publisher raised. The broker may have accepted the message all the same.
PublishRaises(d) ==
    /\ Publishing(d, "publish")
    /\ \/ queue' = queue \union {Sent(d, 0)}
       \/ queue' = queue
    /\ UNCHANGED repeated
    /\ Proceed(d, "rejected")
    /\ UNCHANGED <<item, attempts, dispatch, event, capture, objects, worker>>

\* The conditional pending -> enqueued of every publisher.
MarkEnqueued(d) ==
    /\ Publishing(d, "accepted")
    /\ dispatch' = [dispatch EXCEPT ![d].state = IF @ = "pending" THEN "enqueued" ELSE @]
    /\ Return(d)
    /\ UNCHANGED <<item, attempts, event, capture, broker, objects, worker>>

\* Variant of Compensated that does not look at the dispatch again.
CompensatedUnchecked(d, code) ==
    [dispatch[d] EXCEPT !.state = "failed", !.error = code]

\* The row a publisher's failure writes: only a dispatch still pending fails.
Compensated(d, code) ==
    IF dispatch[d].state = "pending"
    THEN [dispatch[d] EXCEPT !.state = "failed", !.error = code]
    ELSE dispatch[d]

\* Failure of a save: the item stays pending.
SubmitUnpublished(d) ==
    /\ Publishing(d, "rejected")
    /\ producer[d].via = "submit"
    /\ dispatch' = [dispatch EXCEPT ![d] = Compensated(d, "queue_unavailable")]
    /\ Return(d)
    /\ UNCHANGED <<item, attempts, event, capture, broker, objects, worker>>

\* Failure of retry_item: the item fails if it is pending, whatever became of
\* the dispatch.
RetryUnpublished(d) ==
    LET i == ItemOf(d)
    IN  /\ Publishing(d, "rejected")
        /\ producer[d].via = "retry"
        /\ dispatch' = [dispatch EXCEPT ![d] = Compensated(d, "queue_unavailable")]
        /\ item' = [item EXCEPT ![i].state = IF @ = "pending" THEN "failed" ELSE @]
        /\ Return(d)
        /\ UNCHANGED <<attempts, event, capture, broker, objects, worker>>

\* Failure of the Web retry: dispatch and pending item together.
WebUnpublished(d) ==
    LET i == ItemOf(d)
    IN  /\ Publishing(d, "rejected")
        /\ producer[d].via = "web"
        /\ dispatch' = [dispatch EXCEPT ![d] = Compensated(d, "queue_unavailable")]
        /\ item' = [item EXCEPT ![i].state =
               IF dispatch[d].state = "pending" /\ @ = "pending" THEN "failed" ELSE @]
        /\ Return(d)
        /\ UNCHANGED <<attempts, event, capture, broker, objects, worker>>

\* Variant of CaptureUnpublished that fails the item whatever the dispatch did.
CaptureUnpublishedUnchecked(d) ==
    LET i == ItemOf(d)
    IN  /\ producer[d].via = "capture"
        /\ Publishing(d, "unstored") \/ Publishing(d, "rejected")
        /\ dispatch' = [dispatch EXCEPT ![d] = Compensated(d, "queue_unavailable")]
        /\ capture' = [capture EXCEPT ![d].state = "failed"]
        /\ item' = [item EXCEPT ![i].state = "failed"]
        /\ Return(d)
        /\ UNCHANGED <<attempts, event, broker, objects, worker>>

\* Failure of a capture, at its upload or at the broker: capture, item and
\* dispatch together.
CaptureUnpublished(d) ==
    LET i == ItemOf(d)
        code == IF Publishing(d, "unstored") THEN "capture_upload_failed"
                                             ELSE "queue_unavailable"
    IN  /\ producer[d].via = "capture"
        /\ Publishing(d, "unstored") \/ Publishing(d, "rejected")
        /\ dispatch' = [dispatch EXCEPT ![d] = Compensated(d, code)]
        /\ capture' = [capture EXCEPT ![d].state =
               IF dispatch[d].state = "pending" THEN "failed" ELSE @]
        /\ item' = [item EXCEPT ![i].state =
               IF dispatch[d].state = "pending" THEN "failed" ELSE @]
        /\ Return(d)
        /\ UNCHANGED <<attempts, event, broker, objects, worker>>

\* The request dies, or its last transaction fails and the error is swallowed.
ProducerDies(d) ==
    /\ "crash" \in Fault
    /\ producer[d].pc # "idle"
    /\ Return(d)
    /\ UNCHANGED <<item, attempts, dispatch, event, capture, broker, objects, worker>>

--------------------------------------------------------------------------------
(* The user's recycle bin and archive *)

MoveShelf(i, from, to) ==
    /\ Exists(i)
    /\ item[i].shelf = from
    /\ item' = [item EXCEPT ![i].shelf = to]
    /\ UNCHANGED <<attempts, dispatch, event, capture, producer, broker, objects,
                   worker>>

SoftDelete(i) == MoveShelf(i, "live", "trash") \/ MoveShelf(i, "archived", "trash")
Restore(i)    == MoveShelf(i, "trash", "live")
Archive(i)    == MoveShelf(i, "live", "archived")
Unarchive(i)  == MoveShelf(i, "archived", "live")

\* Time passes.
RetentionEnds(i) == MoveShelf(i, "trash", "expired")

--------------------------------------------------------------------------------
(* The worker: delivery and claim *)

Step(w, pc) == worker' = [worker EXCEPT ![w].pc = pc]

Conclude(w, pc, result) ==
    worker' = [worker EXCEPT ![w].pc = pc, ![w].result = result]

GoIdle(w) == worker' = [worker EXCEPT ![w] = IdleWorker]

Begin(w, m, pc, result) ==
    worker' = [worker EXCEPT ![w] = [pc |-> pc, disp |-> m.disp,
                                     retries |-> m.retries, source |-> "none",
                                     result |-> result]]

\* Celery acknowledges before it runs the task. A message the broker thought lost
\* is delivered a second time; bound: one message of a dispatch.
Take(w, m) ==
    /\ worker[w].pc = "idle"
    /\ m \in queue
    /\ \/ queue' = queue \ {m} /\ UNCHANGED repeated
       \/ /\ "duplicate" \in Fault
          /\ m.disp \notin repeated
          /\ UNCHANGED queue
          /\ repeated' = repeated \union {m.disp}

\* The dispatch is no longer claimable: the delivery is a duplicate.
ClaimRefused(w, m) ==
    /\ Take(w, m)
    /\ dispatch[m.disp].state \notin {"pending", "enqueued"}
    /\ UNCHANGED <<item, attempts, dispatch, event, capture, producer, objects, worker>>

\* Insert-or-read of the one completion event of a dispatch.
EnsureEvent(d, state, error) ==
    event' = [event EXCEPT ![d] =
        IF @ = NoEvent THEN [state |-> state, error |-> error] ELSE @]

\* Variant of FailDispatch that forgets the outbox row.
FailDispatchSilently(d, code) ==
    /\ dispatch' = [dispatch EXCEPT ![d].state = "failed", ![d].error = code]
    /\ item' = [item EXCEPT ![ItemOf(d)].state = "failed"]
    /\ UNCHANGED event

FailDispatch(d, code) ==
    /\ dispatch' = [dispatch EXCEPT ![d].state = "failed", ![d].error = code]
    /\ item' = [item EXCEPT ![ItemOf(d)].state = "failed"]
    /\ EnsureEvent(d, "failed", code)

CompleteDispatch(d, state) ==
    /\ dispatch' = [dispatch EXCEPT ![d].state = "completed", ![d].error = "none"]
    /\ EnsureEvent(d, state, "none")
    /\ UNCHANGED item

\* The item was deleted while its message waited.
ClaimDeleted(w, m) ==
    /\ Take(w, m)
    /\ dispatch[m.disp].state \in {"pending", "enqueued"}
    /\ InTrash(ItemOf(m.disp))
    /\ FailDispatch(m.disp, "item_deleted")
    /\ UNCHANGED <<attempts, capture, producer, objects, worker>>

\* Variant of ClaimDispatch that claims whatever message arrives.
ClaimDispatchUnchecked(w, m) ==
    /\ Take(w, m)
    /\ ~InTrash(ItemOf(m.disp))
    /\ dispatch' = [dispatch EXCEPT ![m.disp].state = "running"]
    /\ Begin(w, m, "load", "none")
    /\ UNCHANGED <<item, attempts, event, capture, producer, objects>>

ClaimDispatch(w, m) ==
    /\ Take(w, m)
    /\ dispatch[m.disp].state \in {"pending", "enqueued"}
    /\ ~InTrash(ItemOf(m.disp))
    /\ dispatch' = [dispatch EXCEPT ![m.disp].state = "running"]
    /\ Begin(w, m, "load", "none")
    /\ UNCHANGED <<item, attempts, event, capture, producer, objects>>

\* The claim transaction raised: Celery calls the failure hook of the task.
ClaimRaises(w, m) ==
    /\ "database" \in Fault
    /\ Take(w, m)
    /\ Begin(w, m, "hook", "ingestion_failed")
    /\ UNCHANGED <<item, attempts, dispatch, event, capture, producer, objects>>

--------------------------------------------------------------------------------
(* The worker: process_item *)

At(w, pc) == worker[w].pc = pc
Subject(w) == ItemOf(worker[w].disp)

SetState(i, state) == item' = [item EXCEPT ![i].state = state]

\* The object process_item reads or writes for its source.
RawObject(w) ==
    <<Subject(w), IF worker[w].source = "capture" THEN "capture" ELSE "connector">>

Load(w) ==
    LET i == Subject(w)
    IN  /\ At(w, "load")
        /\ IF InTrash(i)
           THEN /\ SetState(i, "failed")
                /\ Conclude(w, "finish", "deleted")
           ELSE /\ UNCHANGED item
                /\ worker' = [worker EXCEPT ![w].pc = "meta",
                                            ![w].source = CaptureSource(i)]
        /\ UNCHANGED <<attempts, dispatch, event, capture, producer, broker, objects>>

StartFetch(w) ==
    /\ At(w, "meta")
    /\ SetState(Subject(w), "fetching")
    /\ Step(w, "fetch")
    /\ UNCHANGED <<attempts, dispatch, event, capture, producer, broker, objects>>

\* No text to be had: a capture without captions, or a connector that needs the
\* extension or speech recognition.
FetchNoText(w) ==
    /\ At(w, "fetch")
    /\ \E state \in Textual :
           /\ \/ worker[w].source = "connector"
              \/ worker[w].source = "blank" /\ state = "needs_asr"
           /\ SetState(Subject(w), state)
           /\ Conclude(w, "finish", state)
    /\ UNCHANGED <<attempts, dispatch, event, capture, producer, broker, objects>>

\* The text passed its guards; the item is read again before it is written.
FetchText(w) ==
    /\ At(w, "fetch")
    /\ \/ worker[w].source = "connector"
       \/ worker[w].source = "capture" /\ RawObject(w) \in objects
    /\ Step(w, IF InTrash(Subject(w)) THEN "void" ELSE "chunk")
    /\ UNCHANGED <<item, attempts, dispatch, event, capture, producer, broker, objects>>

\* The raw object key is committed before the object exists, so that a purge
\* knows what to delete.
CommitRawKey(w) ==
    /\ At(w, "chunk")
    /\ item' = [item EXCEPT ![Subject(w)].state = "chunking",
                            ![Subject(w)].raw = RawObject(w)[2]]
    /\ Step(w, "put")
    /\ UNCHANGED <<attempts, dispatch, event, capture, producer, broker, objects>>

\* A capture is already stored. The item is read again after the write.
PutRawObject(w) ==
    /\ At(w, "put")
    /\ objects' = IF worker[w].source = "connector"
                  THEN objects \union {RawObject(w)} ELSE objects
    /\ Step(w, IF InTrash(Subject(w)) THEN "discard" ELSE "embed")
    /\ UNCHANGED <<item, attempts, dispatch, event, capture, producer, broker>>

EmbedChunks(w) ==
    /\ At(w, "embed")
    /\ Step(w, IF InTrash(Subject(w)) THEN "discard" ELSE "index")
    /\ UNCHANGED <<item, attempts, dispatch, event, capture, producer, broker, objects>>

\* Segments are replaced and the item is ready, in one transaction.
IndexSegments(w) ==
    /\ At(w, "index")
    /\ SetState(Subject(w), "ready")
    /\ Conclude(w, "finish", "ready")
    /\ UNCHANGED <<attempts, dispatch, event, capture, producer, broker, objects>>

\* Best-effort delete of the object of an item that was deleted meanwhile.
DiscardRawObject(w) ==
    /\ At(w, "discard")
    /\ objects' \in {objects, objects \ {RawObject(w)}}
    /\ Step(w, "void")
    /\ UNCHANGED <<item, attempts, dispatch, event, capture, producer, broker>>

MarkItemDeleted(w) ==
    /\ At(w, "void")
    /\ SetState(Subject(w), "failed")
    /\ Conclude(w, "finish", "deleted")
    /\ UNCHANGED <<attempts, dispatch, event, capture, producer, broker, objects>>

\* Any step of process_item may raise; only connectors raise the transient
\* error, only the text guards and the embedding budget raise the limit error.
ProcessRaises(w) ==
    /\ worker[w].pc \in Processing \ {"discard"}
    /\ \/ /\ worker[w].pc \in {"meta", "fetch"}
          /\ worker[w].source = "connector"
          /\ Step(w, "release")
       \/ /\ worker[w].pc \in {"fetch", "embed"}
          /\ worker[w].source # "blank"
          /\ Conclude(w, "fail", "ingest_too_large")
       \/ Conclude(w, "fail", "ingestion_failed")
    /\ UNCHANGED <<item, attempts, dispatch, event, capture, producer, broker, objects>>

--------------------------------------------------------------------------------
(* The worker: settling the dispatch *)

\* _complete_dispatch of a run whose dispatch it no longer owns.
FinishStale(w) ==
    /\ At(w, "finish")
    /\ dispatch[worker[w].disp].state # "running"
    /\ GoIdle(w)
    /\ UNCHANGED <<item, attempts, dispatch, event, capture, producer, broker, objects>>

FinishDeleted(w) ==
    /\ At(w, "finish")
    /\ dispatch[worker[w].disp].state = "running"
    /\ worker[w].result = "deleted" \/ InTrash(Subject(w))
    /\ FailDispatch(worker[w].disp, "item_deleted")
    /\ GoIdle(w)
    /\ UNCHANGED <<attempts, capture, producer, broker, objects>>

FinishCompleted(w) ==
    /\ At(w, "finish")
    /\ dispatch[worker[w].disp].state = "running"
    /\ worker[w].result # "deleted" /\ ~InTrash(Subject(w))
    /\ item[Subject(w)].state = worker[w].result
    /\ CompleteDispatch(worker[w].disp, worker[w].result)
    /\ GoIdle(w)
    /\ UNCHANGED <<attempts, capture, producer, broker, objects>>

\* The item no longer has the state this run gave it: _terminal_item_state
\* raises, and so does the task.
FinishMismatch(w) ==
    /\ At(w, "finish")
    /\ dispatch[worker[w].disp].state = "running"
    /\ worker[w].result # "deleted" /\ ~InTrash(Subject(w))
    /\ item[Subject(w)].state # worker[w].result
    /\ Conclude(w, "hook", "ingestion_failed")
    /\ UNCHANGED <<item, attempts, dispatch, event, capture, producer, broker, objects>>

\* A transient failure hands the dispatch back ...
ReleaseForRetry(w) ==
    /\ At(w, "release")
    /\ dispatch' = [dispatch EXCEPT ![worker[w].disp].state =
                       IF @ = "running" THEN "enqueued" ELSE @]
    /\ Step(w, "again")
    /\ UNCHANGED <<item, attempts, event, capture, producer, broker, objects>>

\* Variant of RetryTask that retries once too often.
RetryTaskOnceMore(w) ==
    /\ At(w, "again")
    /\ worker[w].retries <= MaxRetries
    /\ queue' = queue \union {Sent(worker[w].disp, worker[w].retries + 1)}
    /\ GoIdle(w)
    /\ UNCHANGED <<repeated, item, attempts, dispatch, event, capture, producer, objects>>

\* Variant of RetryTask that gives up without its failure hook.
RetryTaskSilently(w) ==
    /\ At(w, "again")
    /\ IF worker[w].retries < MaxRetries
       THEN queue' = queue \union {Sent(worker[w].disp, worker[w].retries + 1)}
       ELSE UNCHANGED queue
    /\ GoIdle(w)
    /\ UNCHANGED <<repeated, item, attempts, dispatch, event, capture, producer, objects>>

\* ... and Celery publishes the task again, under the same task id, until its
\* retries are used up.
RetryTask(w) ==
    /\ At(w, "again")
    /\ IF worker[w].retries < MaxRetries
       THEN /\ queue' = queue \union {Sent(worker[w].disp, worker[w].retries + 1)}
            /\ GoIdle(w)
       ELSE /\ Conclude(w, "hook", "transient_fetch_failed")
            /\ UNCHANGED queue
    /\ UNCHANGED <<repeated, item, attempts, dispatch, event, capture, producer, objects>>

\* _mark_dispatch_failed: a settled dispatch keeps its outcome (a failed one
\* gets the event it may lack), an item that is already ready wins, anything
\* else fails with its item.
MarkDispatchFailed(d, code) ==
    \/ /\ dispatch[d].state = "completed"
       /\ UNCHANGED <<item, dispatch, event>>
    \/ /\ dispatch[d].state = "failed"
       /\ EnsureEvent(d, "failed", dispatch[d].error)
       /\ UNCHANGED <<item, dispatch>>
    \/ /\ dispatch[d].state \in {"running", "enqueued"}
       /\ item[ItemOf(d)].state = "ready"
       /\ CompleteDispatch(d, "ready")
    \/ /\ dispatch[d].state \in Active
       /\ dispatch[d].state = "pending" \/ item[ItemOf(d)].state # "ready"
       /\ FailDispatch(d, code)

\* The handler of process_dispatch; the exception it raises reaches the hook.
FailRun(w) ==
    /\ At(w, "fail")
    /\ MarkDispatchFailed(worker[w].disp, worker[w].result)
    /\ Conclude(w, "hook", "ingestion_failed")
    /\ UNCHANGED <<attempts, capture, producer, broker, objects>>

\* IngestTask.on_failure.
OnFailure(w) ==
    /\ At(w, "hook")
    /\ MarkDispatchFailed(worker[w].disp, worker[w].result)
    /\ GoIdle(w)
    /\ UNCHANGED <<attempts, capture, producer, broker, objects>>

\* A settling transaction fails: the task raises and its failure hook runs.
SettlementRaises(w) ==
    /\ "database" \in Fault
    /\ worker[w].pc \in {"finish", "release", "fail"}
    /\ Conclude(w, "hook", "ingestion_failed")
    /\ UNCHANGED <<item, attempts, dispatch, event, capture, producer, broker, objects>>

\* A worker process is killed. Its message is already acknowledged.
WorkerDies(w) ==
    /\ "crash" \in Fault
    /\ worker[w].pc # "idle"
    /\ GoIdle(w)
    /\ UNCHANGED <<item, attempts, dispatch, event, capture, producer, broker, objects>>

--------------------------------------------------------------------------------
(* The specification *)

RequestStep ==
    \E i \in Item, k \in Request :
        \/ SubmitNew(i, <<"save", k>>)
        \/ SubmitAgain(i, <<"save", k>>)
        \/ SubmitRestores(i, <<"save", k>>)
        \/ WebRetry(i, <<"save", k>>)
        \/ RetryItem(i, <<"retry", k>>)
        \/ RetryReplay(i, <<"retry", k>>)
        \/ CaptureRestores(i, <<"extension", k>>)
        \/ \E cued \in BOOLEAN : CaptureAdmit(i, <<"extension", k>>, cued)

ShelfStep ==
    \E i \in Item :
        \/ SoftDelete(i) \/ Restore(i) \/ Archive(i) \/ Unarchive(i)
        \/ RetentionEnds(i)

ProducerStep ==
    \E d \in Dispatch :
        \/ UploadCapture(d) \/ UploadFails(d) \/ MarkCaptureReady(d)
        \/ Publish(d) \/ PublishRaises(d) \/ MarkEnqueued(d)
        \/ SubmitUnpublished(d) \/ RetryUnpublished(d)
        \/ WebUnpublished(d) \/ CaptureUnpublished(d)

DeliveryStep ==
    \E w \in Worker, m \in queue :
        \/ ClaimRefused(w, m) \/ ClaimDeleted(w, m) \/ ClaimDispatch(w, m)
        \/ ClaimRaises(w, m)

WorkerStep(w) ==
    \/ Load(w) \/ StartFetch(w) \/ FetchNoText(w) \/ FetchText(w)
    \/ CommitRawKey(w) \/ PutRawObject(w) \/ EmbedChunks(w) \/ IndexSegments(w)
    \/ DiscardRawObject(w) \/ MarkItemDeleted(w) \/ ProcessRaises(w)
    \/ FinishStale(w) \/ FinishDeleted(w) \/ FinishCompleted(w) \/ FinishMismatch(w)
    \/ SettlementRaises(w)
    \/ ReleaseForRetry(w) \/ RetryTask(w) \/ FailRun(w) \/ OnFailure(w)

FaultStep ==
    \/ \E d \in Dispatch : ProducerDies(d)
    \/ \E w \in Worker : WorkerDies(w)

Next ==
    \/ RequestStep
    \/ ShelfStep
    \/ ProducerStep
    \/ DeliveryStep
    \/ \E w \in Worker : WorkerStep(w)
    \/ FaultStep

Spec == Init /\ [][Next]_vars

\* Liveness is claimed of the code's own steps: a request that started goes on,
\* Celery delivers, and a worker runs until it returns.
SystemStep == ProducerStep \/ DeliveryStep \/ \E w \in Worker : WorkerStep(w)

Fairness == WF_vars(SystemStep)

--------------------------------------------------------------------------------
(* Properties *)

\* Every row, message and process has the shape the schema and the code give it.
TypeOK ==
    /\ item \in [Item -> ItemRow]
    /\ attempts \in [Item -> 0..MaxAttempt]
    /\ dispatch \in [Dispatch -> DispatchRow]
    /\ event \in [Dispatch -> EventRow]
    /\ capture \in [Dispatch -> CaptureRow]
    /\ producer \in [Dispatch -> Producer]
    /\ queue \subseteq Message
    /\ repeated \subseteq Dispatch
    /\ objects \subseteq Item \X ObjectName
    /\ worker \in [Worker -> WorkerState]

\* However saves, retries, Web retries and captures of one video interleave with
\* its workers, at most one of its attempts is ever pending, enqueued or running:
\* the admission checks alone guarantee what the partial unique index
\* uq_ingest_dispatch_item_active enforces, so that no admission trips over it.
AtMostOneActive ==
    \A d, e \in Dispatch :
        /\ ItemOf(d) = ItemOf(e)
        /\ dispatch[d].state \in Active
        /\ dispatch[e].state \in Active
        => d = e

\* A settled attempt keeps its outcome and its error code, and a completion event
\* keeps its snapshot, whatever late publisher, duplicate delivery or repeated
\* failure hook comes after it.
OutcomeIsFinal ==
    [][\A d \in Dispatch :
          /\ dispatch[d].state \in Terminal => dispatch'[d] = dispatch[d]
          /\ event[d] # NoEvent => event'[d] = event[d]]_vars

\* The outbox: an attempt a worker settled has its completion event, the event
\* tells the outcome and the error of the dispatch row, and an attempt that is
\* not settled has none. Only publishers fail an attempt without an event.
OutcomeHasEvent ==
    \A d \in Dispatch :
        /\ dispatch[d].state \in {"none"} \union Active => event[d] = NoEvent
        /\ dispatch[d].state = "completed" => event[d].state \in Settled
        /\ dispatch[d].state = "failed" =>
               \/ event[d] = [state |-> "failed", error |-> dispatch[d].error]
               \/ /\ event[d] = NoEvent
                  /\ dispatch[d].error \in {"queue_unavailable",
                                           "capture_upload_failed"}

\* A request key creates at most one attempt of an item, across the four kinds of
\* request that may carry it.
RequestAdmitsOnce ==
    \A d, e \in Dispatch :
        /\ ItemOf(d) = ItemOf(e)
        /\ dispatch[d].key = dispatch[e].key
        /\ dispatch[d].key # NoKey
        => d = e

\* The broker delivered no message of this item's attempts twice. Where it does,
\* the second delivery may settle an attempt while its first worker goes on, and
\* the next attempt runs beside that worker.
DeliveredOnce(i) == \A d \in repeated : ItemOf(d) # i

\* Two workers never process one item at the same time: claims are conditional
\* and the next attempt waits for the end of the last (tasks.py claim_dispatch).
ExclusiveIngestion ==
    \A v, w \in Worker :
        /\ worker[v].pc \in Processing
        /\ worker[w].pc \in Processing
        /\ Subject(v) = Subject(w)
        /\ DeliveredOnce(Subject(v))
        => v = w

\* What the user was notified of is what the library shows: the item has the
\* state its newest attempt ended in, a save the broker refused leaving it
\* pending.
ItemShowsLatestOutcome ==
    \A i \in Item : Exists(i) /\ DeliveredOnce(i) =>
        LET d == Latest(i)
        IN  /\ dispatch[d].state = "completed" => item[i].state = event[d].state
            /\ dispatch[d].state = "failed" =>
                   \/ item[i].state = "failed"
                   \/ /\ item[i].state = "pending"
                      /\ dispatch[d].error = "queue_unavailable"

\* No item is stranded: one that is in the middle of ingestion belongs to an
\* active attempt, one that waits or failed has either an active attempt or a
\* failed one, which the next save or retry may follow.
NoDeadEnd ==
    \A i \in Item : DeliveredOnce(i) =>
        /\ item[i].state \in {"fetching", "chunking"} => HasActive(i)
        /\ item[i].state \in {"pending", "failed"} =>
               HasActive(i) \/ dispatch[Latest(i)].state = "failed"

\* The transcript of a ready item outside the recycle bin can be read: its raw
\* object is in the store, although deletions discard objects and captures
\* rename them at any moment.
ReadyItemHasRawObject ==
    \A i \in Item :
        item[i].state = "ready" /\ ~InTrash(i) /\ DeliveredOnce(i)
        => <<i, item[i].raw>> \in objects

\* An item tells the truth: it shows what its user was notified of, the
\* transcript of a ready one can be read, and none is stranded half-way or
\* without a way to a new attempt, whatever crashes, retries, deletions and
\* captures came between (tasks.py 389-434, submission.py 738-802, 965-1010).
ItemStaysTrue == ItemShowsLatestOutcome /\ ReadyItemHasRawObject /\ NoDeadEnd

\* Every admitted attempt is settled in the end, if processes do not die and no
\* transaction fails: broker errors, transient failures and deletions at any
\* moment included.
EveryAttemptSettles ==
    \A d \in Dispatch :
        dispatch[d].state \in Active ~> dispatch[d].state \in Terminal

\* The rows of dispatches and events behave as DispatchLifecycle says, attempt by
\* attempt: whatever happens around them, no step but its own moves an attempt.
Lifecycle == INSTANCE DispatchLifecycle

ImplementsLifecycle == Lifecycle!Spec

--------------------------------------------------------------------------------
(* What the documentation says and the code does not do *)

\* "must not downgrade a searchable item or emit a contradictory failure": a
\* searchable item's newest attempt was not reported as failed.
NoContradictoryFailure ==
    \A i \in Item :
        item[i].state = "ready" /\ ~InTrash(i) => event[Latest(i)].state # "failed"

================================================================================
