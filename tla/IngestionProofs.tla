---------------------------- MODULE IngestionProofs ----------------------------
(******************************************************************************)
(* Theorems about Ingestion, for every set of items, requests and workers,    *)
(* every attempt and retry bound and every choice of faults.                  *)
(*                                                                            *)
(* The argument: types are inductive once it is known what each worker holds  *)
(* (Typed). The rows of an item are numbered without gaps and only the newest *)
(* may be active (RowsInOrder); every admission checks the newest row, so it  *)
(* finds no active attempt, and every other step moves one attempt along the  *)
(* life cycle of DispatchLifecycle (EveryStep). One attempt at a time, events *)
(* told once, request keys used once and outcomes that stay follow from that  *)
(* classification, and so does the refinement.                                *)
(*                                                                            *)
(* What an item shows needs more. While a message is delivered once, each     *)
(* attempt is in one hand: its publisher, the broker or one worker (HandsInv).*)
(* So the attempt a worker claimed runs until that worker settles it, no other*)
(* worker processes the item (ClaimedAlone), and the item is what that worker *)
(* left it as (TruthInv). A step of another item leaves it Calm; a step of its*)
(* own attempt is accounted for row by row, object by object.                 *)
(******************************************************************************)
EXTENDS Ingestion, TLAPS

\* What a worker holds while it works: a dispatch, and the result or the error
\* code it is about to settle it with.
WorkerHolds ==
    \A w \in Worker :
        /\ worker[w].pc # "idle" => worker[w].disp \in Dispatch
        /\ worker[w].pc = "finish" => worker[w].result \in Settled \union {"deleted"}
        /\ worker[w].pc \in {"fail", "hook"} => worker[w].result \in FailureCode

Typed == TypeOK /\ WorkerHolds

WorkersTyped == worker \in [Worker -> WorkerState] /\ WorkerHolds

\* A message is typed if its retry count is in range.
LEMMA SentTyped ==
  ASSUME NEW d \in Dispatch, NEW retries \in 0..MaxRetries
  PROVE  Sent(d, retries) \in Message
  BY DEF Sent, Message

\* Counters may start at zero.
LEMMA Zero == 0 \in 0..MaxRetries /\ 0 \in 0..MaxAttempt
  BY BoundsAssumption

\* An idle worker is a worker.
LEMMA IdleTyped == IdleWorker \in WorkerState
  BY Zero DEF IdleWorker, WorkerState

\* The initial rows and processes are typed.
LEMMA InitTyped == Init => Typed
<1> SUFFICES ASSUME Init PROVE Typed
  OBVIOUS
<1> USE DEF Init
<1>1. item \in [Item -> ItemRow]
  BY DEF ItemRow
<1>2. attempts \in [Item -> 0..MaxAttempt]
  BY Zero
<1>3. dispatch \in [Dispatch -> DispatchRow]
  BY DEF DispatchRow, NoDispatch
<1>4. event \in [Dispatch -> EventRow]
  BY DEF EventRow, NoEvent
<1>5. capture \in [Dispatch -> CaptureRow]
  BY DEF CaptureRow, NoCapture
<1>6. producer \in [Dispatch -> Producer]
  BY DEF Producer, NoProducer
<1>7. worker \in [Worker -> WorkerState]
  BY IdleTyped
<1>8. WorkerHolds
  BY DEF WorkerHolds, IdleWorker
<1> QED
  BY <1>1, <1>2, <1>3, <1>4, <1>5, <1>6, <1>7, <1>8 DEF Typed, TypeOK

\* Admitting an attempt keeps every type, the attempt bound included.
LEMMA AdmitTyped ==
  ASSUME Typed, NEW i \in Item, NEW key \in Key,
         NEW via \in {"submit", "retry", "web", "capture"},
         NEW cued \in BOOLEAN, NEW row \in ItemRow,
         Admit(i, key, via, cued, row)
  PROVE  Typed'
<1> DEFINE d == <<i, attempts[i] + 1>>
<1>1. d \in Dispatch /\ attempts[i] + 1 \in 0..MaxAttempt
  <2>1. attempts[i] \in 0..MaxAttempt /\ attempts[i] < MaxAttempt
    BY DEF Typed, TypeOK, Admit
  <2>2. attempts[i] + 1 \in 1..MaxAttempt
    BY <2>1, BoundsAssumption
  <2> QED
    BY <2>2 DEF Dispatch, Attempt
<1>2. item' \in [Item -> ItemRow]
  BY DEF Typed, TypeOK, Admit
<1>3. attempts' \in [Item -> 0..MaxAttempt]
  BY <1>1 DEF Typed, TypeOK, Admit
<1>4. dispatch' \in [Dispatch -> DispatchRow]
  BY <1>1 DEF Typed, TypeOK, Admit, DispatchRow, Active
<1>5. capture' \in [Dispatch -> CaptureRow]
  BY <1>1 DEF Typed, TypeOK, Admit, CaptureRow
<1>6. producer' \in [Dispatch -> Producer]
  BY <1>1 DEF Typed, TypeOK, Admit, Producer
<1>7. UNCHANGED <<event, broker, objects, worker>>
  BY DEF Admit
<1> QED
  BY <1>2, <1>3, <1>4, <1>5, <1>6, <1>7 DEF Typed, TypeOK, WorkerHolds, broker

\* Every request keeps every type.
LEMMA RequestTyped == Typed /\ RequestStep => Typed'
<1> SUFFICES ASSUME Typed, NEW i \in Item, NEW k \in Request,
                    \/ SubmitNew(i, <<"save", k>>)
                    \/ SubmitAgain(i, <<"save", k>>)
                    \/ SubmitRestores(i, <<"save", k>>)
                    \/ WebRetry(i, <<"save", k>>)
                    \/ RetryItem(i, <<"retry", k>>)
                    \/ RetryReplay(i, <<"retry", k>>)
                    \/ CaptureRestores(i, <<"extension", k>>)
                    \/ \E cued \in BOOLEAN : CaptureAdmit(i, <<"extension", k>>, cued)
             PROVE  Typed'
  BY DEF RequestStep
<1> <<"save", k>> \in Key /\ <<"retry", k>> \in Key /\ <<"extension", k>> \in Key
  BY DEF Key
<1> item[i] \in ItemRow /\ Pending(i) \in ItemRow /\ Restored(Pending(i)) \in ItemRow
  BY DEF Typed, TypeOK, ItemRow, Pending, Restored
<1>1. CASE SubmitNew(i, <<"save", k>>)
  BY <1>1, AdmitTyped DEF SubmitNew
<1>2. CASE SubmitAgain(i, <<"save", k>>)
  BY <1>2, AdmitTyped DEF SubmitAgain
<1>3. CASE WebRetry(i, <<"save", k>>)
  BY <1>3, AdmitTyped DEF WebRetry
<1>4. CASE RetryItem(i, <<"retry", k>>)
  BY <1>4, AdmitTyped DEF RetryItem
<1>5. ASSUME NEW cued \in BOOLEAN, CaptureAdmit(i, <<"extension", k>>, cued)
      PROVE  Typed'
  <2>1. [state |-> "pending", shelf |-> "live",
         raw |-> IF cued THEN "capture" ELSE "none"] \in ItemRow
    BY DEF ItemRow, ObjectName
  <2> QED
    BY <1>5, <2>1, AdmitTyped DEF CaptureAdmit
<1>6. CASE \/ SubmitRestores(i, <<"save", k>>)
           \/ RetryReplay(i, <<"retry", k>>)
           \/ CaptureRestores(i, <<"extension", k>>)
  <2>1. PICK row \in ItemRow : item' = [item EXCEPT ![i] = row]
    <3>1. Restored(item[i]) \in ItemRow /\ [item[i] EXCEPT !.state = "failed"] \in ItemRow
      BY DEF ItemRow, Restored
    <3> QED
      BY <1>6, <3>1 DEF SubmitRestores, RetryReplay, CaptureRestores
  <2>2. UNCHANGED <<attempts, dispatch, event, capture, producer, broker, objects,
                    worker>>
    BY <1>6 DEF SubmitRestores, RetryReplay, CaptureRestores
  <2>3. item' \in [Item -> ItemRow]
    BY <2>1 DEF Typed, TypeOK
  <2> QED
    BY <2>2, <2>3 DEF Typed, TypeOK, WorkerHolds, broker
<1> QED
  BY <1>1, <1>2, <1>3, <1>4, <1>5, <1>6

\* Deleting, restoring and archiving keep every type.
LEMMA ShelfTyped == Typed /\ ShelfStep => Typed'
<1> SUFFICES ASSUME Typed, NEW i \in Item, NEW from,
                    NEW to \in {"live", "archived", "trash", "expired"},
                    MoveShelf(i, from, to)
             PROVE  Typed'
  BY DEF ShelfStep, SoftDelete, Restore, Archive, Unarchive, RetentionEnds
<1>1. item' \in [Item -> ItemRow]
  BY DEF MoveShelf, Typed, TypeOK, ItemRow, Trash
<1> QED
  BY <1>1 DEF MoveShelf, Typed, TypeOK, WorkerHolds, broker

\* Publishing an attempt, or failing to, keeps every type.
LEMMA ProducerTyped ==
  ASSUME Typed, NEW d \in Dispatch,
         \/ UploadCapture(d) \/ UploadFails(d) \/ MarkCaptureReady(d)
         \/ Publish(d) \/ PublishRaises(d) \/ MarkEnqueued(d)
         \/ SubmitUnpublished(d) \/ RetryUnpublished(d)
         \/ WebUnpublished(d) \/ CaptureUnpublished(d) \/ ProducerDies(d)
  PROVE  Typed'
<1> USE DEF UploadCapture, UploadFails, MarkCaptureReady, Publish, PublishRaises,
            MarkEnqueued, SubmitUnpublished, RetryUnpublished, WebUnpublished,
            CaptureUnpublished, ProducerDies
<1>1. /\ ItemOf(d) \in Item
      /\ item \in [Item -> ItemRow] /\ dispatch \in [Dispatch -> DispatchRow]
  BY DEF Dispatch, ItemOf, Typed, TypeOK
<1>2. item' \in [Item -> ItemRow]
  <2>1. [item[ItemOf(d)] EXCEPT !.state = "failed"] \in ItemRow
    BY <1>1 DEF ItemRow
  <2>2. \/ item' = item
        \/ item' = [item EXCEPT ![ItemOf(d)] = [@ EXCEPT !.state = "failed"]]
    BY <1>1 DEF ItemRow
  <2> QED
    BY <1>1, <2>1, <2>2
<1>3. dispatch' \in [Dispatch -> DispatchRow]
  <2>1. /\ [dispatch[d] EXCEPT !.state = "enqueued"] \in DispatchRow
        /\ \A code \in FailureCode : Compensated(d, code) \in DispatchRow
    BY <1>1 DEF DispatchRow, Active, Terminal, Compensated
  <2>2. PICK row \in DispatchRow : dispatch' = [dispatch EXCEPT ![d] = row]
    <3>1. dispatch[d] \in DispatchRow /\ dispatch = [dispatch EXCEPT ![d] = dispatch[d]]
      BY <1>1
    <3>2. [dispatch[d] EXCEPT !.state = dispatch[d].state] = dispatch[d]
      BY <1>1 DEF DispatchRow
    <3> QED
      BY <2>1, <3>1, <3>2 DEF FailureCode
  <2> QED
    BY <1>1, <2>2
<1>4. capture' \in [Dispatch -> CaptureRow]
  BY DEF Typed, TypeOK, CaptureRow
<1>5. producer' \in [Dispatch -> Producer]
  BY SMTT(30) DEF Typed, TypeOK, Producer, Proceed, Return, NoProducer
<1>6. queue' \subseteq Message /\ repeated' \subseteq Dispatch
  BY SentTyped, Zero DEF Typed, TypeOK, broker
<1>7. objects' \subseteq Item \X ObjectName
  BY <1>1 DEF Typed, TypeOK, ObjectName
<1>8. UNCHANGED <<attempts, event, worker>>
  OBVIOUS
<1> QED
  BY <1>2, <1>3, <1>4, <1>5, <1>6, <1>7, <1>8 DEF Typed, TypeOK, WorkerHolds, broker

\* Failing an attempt with its item and event writes typed rows.
LEMMA FailDispatchTyped ==
  ASSUME Typed, NEW d \in Dispatch, NEW code \in FailureCode, FailDispatch(d, code)
  PROVE  /\ item' \in [Item -> ItemRow]
         /\ dispatch' \in [Dispatch -> DispatchRow]
         /\ event' \in [Dispatch -> EventRow]
<1>1. /\ ItemOf(d) \in Item /\ item[ItemOf(d)] \in ItemRow
      /\ dispatch[d] \in DispatchRow /\ event[d] \in EventRow
  BY DEF Dispatch, ItemOf, Typed, TypeOK
<1>2. /\ [item[ItemOf(d)] EXCEPT !.state = "failed"] \in ItemRow
      /\ [dispatch[d] EXCEPT !.state = "failed", !.error = code] \in DispatchRow
      /\ [state |-> "failed", error |-> code] \in EventRow
  BY <1>1 DEF ItemRow, DispatchRow, EventRow, Terminal
<1>3. /\ item' = [item EXCEPT ![ItemOf(d)] = [@ EXCEPT !.state = "failed"]]
      /\ dispatch' = [dispatch EXCEPT ![d] = [@ EXCEPT !.state = "failed", !.error = code]]
  BY DEF FailDispatch
<1> QED
  BY <1>1, <1>2, <1>3 DEF FailDispatch, EnsureEvent, Typed, TypeOK

\* Completing an attempt with its event writes typed rows.
LEMMA CompleteDispatchTyped ==
  ASSUME Typed, NEW d \in Dispatch, NEW state \in Settled, CompleteDispatch(d, state)
  PROVE  /\ item' \in [Item -> ItemRow]
         /\ dispatch' \in [Dispatch -> DispatchRow]
         /\ event' \in [Dispatch -> EventRow]
  BY ZenonT(30)
  DEF CompleteDispatch, EnsureEvent, Typed, TypeOK, DispatchRow, EventRow, Terminal

\* The failure hook writes typed rows, whatever it finds.
LEMMA MarkDispatchFailedTyped ==
  ASSUME Typed, NEW d \in Dispatch, NEW code \in FailureCode,
         MarkDispatchFailed(d, code)
  PROVE  /\ item' \in [Item -> ItemRow]
         /\ dispatch' \in [Dispatch -> DispatchRow]
         /\ event' \in [Dispatch -> EventRow]
<1>1. CASE dispatch[d].state = "failed" /\ EnsureEvent(d, "failed", dispatch[d].error)
           /\ UNCHANGED <<item, dispatch>>
  BY <1>1 DEF EnsureEvent, Typed, TypeOK, DispatchRow, EventRow
<1> QED
  BY <1>1, FailDispatchTyped, CompleteDispatchTyped
     DEF MarkDispatchFailed, Typed, TypeOK, Settled

\* A worker that takes a message holds what its next step needs.
LEMMA BeginTyped ==
  ASSUME Typed, NEW w \in Worker, NEW m \in Message,
         NEW pc, NEW result,
         \/ pc = "load" /\ result = "none"
         \/ pc = "hook" /\ result \in FailureCode,
         Begin(w, m, pc, result)
  PROVE  WorkersTyped'
<1> DEFINE row == [pc |-> pc, disp |-> m.disp, retries |-> m.retries,
                   source |-> "none", result |-> result]
<1>1. m.disp \in Dispatch /\ m.retries \in 0..MaxRetries
  BY DEF Message
<1>2. row \in WorkerState
  BY <1>1 DEF WorkerState, Processing
<1>3. worker' = [worker EXCEPT ![w] = row]
  BY DEF Begin
<1> HIDE DEF row
<1>4. worker' \in [Worker -> WorkerState] /\ worker'[w] = row
  BY <1>2, <1>3 DEF Typed, TypeOK
<1>5. WorkerHolds'
  BY <1>1, <1>3, <1>4 DEF row, Typed, TypeOK, WorkerHolds
<1> QED
  BY <1>4, <1>5 DEF WorkersTyped

\* A worker that goes on processing keeps its dispatch.
LEMMA StepTyped ==
  ASSUME Typed, NEW w \in Worker, worker[w].pc # "idle",
         NEW pc \in Processing \union {"release", "again"}, Step(w, pc)
  PROVE  WorkersTyped'
<1>1. [worker[w] EXCEPT !.pc = pc] \in WorkerState
  BY DEF Typed, TypeOK, WorkerState
<1>2. worker' = [worker EXCEPT ![w] = [@ EXCEPT !.pc = pc]]
  BY DEF Step
<1>3. worker' \in [Worker -> WorkerState] /\ worker'[w].pc = pc
  BY <1>1, <1>2 DEF Typed, TypeOK, WorkerState
<1>4. WorkerHolds'
  BY <1>2, <1>3 DEF Typed, TypeOK, WorkerHolds, WorkerState, Processing
<1> QED
  BY <1>3, <1>4 DEF WorkersTyped

\* A worker that concludes holds a result its settling step accepts.
LEMMA ConcludeTyped ==
  ASSUME Typed, NEW w \in Worker, worker[w].pc # "idle", NEW pc, NEW result,
         \/ pc = "finish" /\ result \in Settled \union {"deleted"}
         \/ pc \in {"fail", "hook"} /\ result \in FailureCode,
         Conclude(w, pc, result)
  PROVE  WorkersTyped'
<1> DEFINE row == [worker[w] EXCEPT !.pc = pc, !.result = result]
<1>1. worker[w] \in WorkerState /\ worker[w].disp \in Dispatch
  BY DEF Typed, TypeOK, WorkerHolds, broker
<1>2. /\ row \in WorkerState
      /\ row.pc = pc /\ row.result = result /\ row.disp = worker[w].disp
  BY <1>1 DEF WorkerState
<1>3. worker' = [worker EXCEPT ![w] = row]
  BY DEF Conclude
<1> HIDE DEF row
<1>4. worker' \in [Worker -> WorkerState] /\ worker'[w] = row
  BY <1>2, <1>3 DEF Typed, TypeOK
<1>5. WorkerHolds'
  BY <1>1, <1>2, <1>3, <1>4 DEF Typed, TypeOK, WorkerHolds, broker
<1> QED
  BY <1>4, <1>5 DEF WorkersTyped

\* A worker that is done holds nothing.
LEMMA GoIdleTyped ==
  ASSUME Typed, NEW w \in Worker, GoIdle(w)
  PROVE  WorkersTyped'
<1>1. worker' = [worker EXCEPT ![w] = IdleWorker]
  BY DEF GoIdle
<1>2. worker' \in [Worker -> WorkerState] /\ worker'[w].pc = "idle"
  BY <1>1, IdleTyped DEF Typed, TypeOK, IdleWorker
<1>3. WorkerHolds'
  BY <1>1, <1>2 DEF Typed, TypeOK, WorkerHolds, broker
<1> QED
  BY <1>2, <1>3 DEF WorkersTyped

\* Claiming a message keeps every type.
LEMMA DeliveryTyped ==
  ASSUME Typed, NEW w \in Worker, NEW m \in queue,
         \/ ClaimRefused(w, m) \/ ClaimDeleted(w, m) \/ ClaimDispatch(w, m)
         \/ ClaimRaises(w, m)
  PROVE  Typed'
<1>1. m \in Message /\ m.disp \in Dispatch
  BY DEF Typed, TypeOK, Message
<1>2. queue' \subseteq Message /\ repeated' \subseteq Dispatch
  <2>1. Take(w, m)
    BY DEF ClaimRefused, ClaimDeleted, ClaimDispatch, ClaimRaises
  <2> QED
    BY <1>1, <2>1 DEF Take, Typed, TypeOK
<1>3. CASE ClaimRefused(w, m)
  BY <1>2, <1>3 DEF ClaimRefused, Typed, TypeOK, WorkerHolds
<1>4. CASE ClaimDeleted(w, m)
  BY <1>1, <1>2, <1>4, FailDispatchTyped
     DEF ClaimDeleted, Typed, TypeOK, WorkerHolds, FailureCode
<1>5. CASE ClaimDispatch(w, m) \/ ClaimRaises(w, m)
  <2>1. WorkersTyped'
    BY <1>1, <1>5, BeginTyped DEF ClaimDispatch, ClaimRaises, FailureCode
  <2>2. dispatch' \in [Dispatch -> DispatchRow]
    BY SMTT(30), <1>1, <1>5 DEF ClaimDispatch, ClaimRaises, Typed, TypeOK, DispatchRow, Active
  <2> QED
    BY <1>2, <1>5, <2>1, <2>2
       DEF ClaimDispatch, ClaimRaises, Typed, TypeOK, WorkersTyped
<1> QED
  BY <1>3, <1>4, <1>5

\* Every step of a worker keeps every type.
LEMMA WorkerTyped ==
  ASSUME Typed, NEW w \in Worker, WorkerStep(w) \/ WorkerDies(w)
  PROVE  Typed'
<1> DEFINE d == worker[w].disp
<1>1. worker[w] \in WorkerState /\ worker[w].retries \in 0..MaxRetries
  BY DEF Typed, TypeOK, WorkerState
<1>2. worker[w].pc # "idle"
  BY DEF WorkerStep, WorkerDies, At, Load, StartFetch, FetchNoText, FetchText,
         CommitRawKey, PutRawObject, EmbedChunks, IndexSegments, DiscardRawObject,
         MarkItemDeleted, ProcessRaises, FinishStale, FinishDeleted,
         FinishCompleted, FinishMismatch, SettlementRaises, ReleaseForRetry,
         RetryTask, FailRun, OnFailure, Processing
<1>3. d \in Dispatch /\ Subject(w) \in Item
  BY <1>2 DEF Typed, WorkerHolds, Subject, ItemOf, Dispatch
<1>4. CASE \/ Load(w) \/ StartFetch(w) \/ FetchNoText(w) \/ FetchText(w)
           \/ CommitRawKey(w) \/ PutRawObject(w) \/ EmbedChunks(w)
           \/ IndexSegments(w) \/ DiscardRawObject(w) \/ MarkItemDeleted(w)
           \/ ProcessRaises(w)
  <2>1. item' \in [Item -> ItemRow]
    BY <1>3, <1>4
       DEF Typed, TypeOK, ItemRow, SetState, RawObject, ObjectName, Settled, Textual,
           Load, StartFetch, FetchNoText, FetchText, CommitRawKey, PutRawObject,
           EmbedChunks, IndexSegments, DiscardRawObject, MarkItemDeleted,
           ProcessRaises
  <2>2. objects' \subseteq Item \X ObjectName
    BY <1>3, <1>4
       DEF Typed, TypeOK, RawObject, ObjectName, Load, StartFetch, FetchNoText,
           FetchText, CommitRawKey, PutRawObject, EmbedChunks, IndexSegments,
           DiscardRawObject, MarkItemDeleted, ProcessRaises
  <2>3. ASSUME Load(w) PROVE WorkersTyped'
    <3>1. CASE InTrash(Subject(w))
      BY <1>2, <2>3, <3>1, ConcludeTyped DEF Load, WorkersTyped, Typed, TypeOK
    <3>2. CASE ~InTrash(Subject(w))
      <4> DEFINE row == [worker[w] EXCEPT !.pc = "meta",
                                          !.source = CaptureSource(Subject(w))]
      <4>1. row \in WorkerState /\ row.disp = worker[w].disp /\ row.pc = "meta"
        BY <1>1 DEF WorkerState, Processing, CaptureSource
      <4>2. worker' = [worker EXCEPT ![w] = row]
        BY <2>3, <3>2 DEF Load
      <4> HIDE DEF row
      <4> QED
        BY <1>3, <4>1, <4>2 DEF Typed, TypeOK, WorkersTyped, WorkerHolds
    <3> QED
      BY <3>1, <3>2
  <2>4. ASSUME \/ StartFetch(w) \/ FetchText(w) \/ CommitRawKey(w)
               \/ PutRawObject(w) \/ EmbedChunks(w) \/ DiscardRawObject(w)
        PROVE  WorkersTyped'
    <3>1. PICK pc \in Processing : Step(w, pc)
      BY <2>4 DEF StartFetch, FetchText, CommitRawKey, PutRawObject, EmbedChunks,
                  DiscardRawObject, Processing
    <3> QED
      BY <1>2, <3>1, StepTyped
  <2>5. ASSUME FetchNoText(w) \/ IndexSegments(w) \/ MarkItemDeleted(w)
        PROVE  WorkersTyped'
    <3>1. PICK result \in Settled \union {"deleted"} : Conclude(w, "finish", result)
      BY <2>5 DEF FetchNoText, IndexSegments, MarkItemDeleted, Settled
    <3> QED
      BY <1>2, <3>1, ConcludeTyped
  <2>6. ASSUME ProcessRaises(w) PROVE WorkersTyped'
    <3>1. CASE Step(w, "release")
      BY <1>2, <3>1, StepTyped
    <3>2. CASE Conclude(w, "fail", "ingest_too_large")
      BY <1>2, <3>2, ConcludeTyped DEF FailureCode
    <3>3. CASE Conclude(w, "fail", "ingestion_failed")
      BY <1>2, <3>3, ConcludeTyped DEF FailureCode
    <3> QED
      BY <2>6, <3>1, <3>2, <3>3 DEF ProcessRaises
  <2>7. WorkersTyped'
    BY <1>4, <2>3, <2>4, <2>5, <2>6
  <2>8. UNCHANGED <<attempts, dispatch, event, capture, producer, broker>>
    BY <1>4 DEF Load, StartFetch, FetchNoText, FetchText, CommitRawKey, PutRawObject,
                EmbedChunks, IndexSegments, DiscardRawObject, MarkItemDeleted,
                ProcessRaises
  <2> QED
    BY <2>1, <2>2, <2>7, <2>8 DEF Typed, TypeOK, WorkersTyped, broker
<1>5. CASE FinishDeleted(w) \/ FinishCompleted(w)
  <2>1. /\ item' \in [Item -> ItemRow]
        /\ dispatch' \in [Dispatch -> DispatchRow]
        /\ event' \in [Dispatch -> EventRow]
    BY <1>3, <1>5, FailDispatchTyped, CompleteDispatchTyped
       DEF FinishDeleted, FinishCompleted, Typed, WorkerHolds, FailureCode, At
  <2>2. WorkersTyped'
    BY <1>5, GoIdleTyped DEF FinishDeleted, FinishCompleted
  <2> QED
    BY <1>5, <2>1, <2>2
       DEF FinishDeleted, FinishCompleted, Typed, TypeOK, WorkersTyped, broker
<1>6. CASE FailRun(w) \/ OnFailure(w)
  <2>1. /\ item' \in [Item -> ItemRow]
        /\ dispatch' \in [Dispatch -> DispatchRow]
        /\ event' \in [Dispatch -> EventRow]
    BY <1>3, <1>6, MarkDispatchFailedTyped
       DEF FailRun, OnFailure, Typed, WorkerHolds, At
  <2>2. WorkersTyped'
    BY <1>2, <1>6, GoIdleTyped, ConcludeTyped DEF FailRun, OnFailure, FailureCode
  <2> QED
    BY <1>6, <2>1, <2>2
       DEF FailRun, OnFailure, Typed, TypeOK, WorkersTyped, broker
<1>7. CASE \/ FinishStale(w) \/ FinishMismatch(w) \/ SettlementRaises(w)
           \/ ReleaseForRetry(w) \/ RetryTask(w) \/ WorkerDies(w)
  <2>1. dispatch' \in [Dispatch -> DispatchRow]
    <3>1. [dispatch[d] EXCEPT !.state = "enqueued"] \in DispatchRow
      BY <1>3 DEF Typed, TypeOK, DispatchRow, Active
    <3>2. dispatch' = dispatch \/ dispatch' = [dispatch EXCEPT ![d].state = "enqueued"]
      BY <1>3, <1>7
         DEF Typed, TypeOK, DispatchRow, FinishStale, FinishMismatch,
             SettlementRaises, ReleaseForRetry, RetryTask, WorkerDies
    <3> QED
      BY <1>3, <3>1, <3>2 DEF Typed, TypeOK
  <2>2. queue' \subseteq Message /\ UNCHANGED repeated
    <3>1. CASE RetryTask(w) /\ worker[w].retries < MaxRetries
      <4>1. worker[w].retries + 1 \in 0..MaxRetries
        BY <1>1, <3>1, BoundsAssumption
      <4> QED
        BY <1>3, <3>1, <4>1, SentTyped DEF RetryTask, Typed, TypeOK
    <3>2. CASE UNCHANGED broker
      BY <3>2 DEF Typed, TypeOK, broker
    <3> QED
      BY <1>7, <3>1, <3>2 DEF FinishStale, FinishMismatch, SettlementRaises,
                              ReleaseForRetry, RetryTask, WorkerDies, broker
  <2>3. WorkersTyped'
    BY <1>2, <1>7, StepTyped, ConcludeTyped, GoIdleTyped
       DEF FinishStale, FinishMismatch, SettlementRaises, ReleaseForRetry, RetryTask,
           WorkerDies, FailureCode
  <2>4. UNCHANGED <<item, attempts, event, capture, producer, objects>>
    BY <1>7 DEF FinishStale, FinishMismatch, SettlementRaises, ReleaseForRetry,
                RetryTask, WorkerDies
  <2> QED
    BY <2>1, <2>2, <2>3, <2>4 DEF Typed, TypeOK, WorkersTyped
<1> QED
  BY <1>4, <1>5, <1>6, <1>7 DEF WorkerStep

\* The types, with what workers hold, are inductive.
LEMMA NextTyped == Typed /\ [Next]_vars => Typed'
<1> SUFFICES ASSUME Typed, [Next]_vars PROVE Typed'
  OBVIOUS
<1>1. CASE UNCHANGED vars
  BY <1>1 DEF vars, broker, Typed, TypeOK, WorkerHolds
<1> QED
  BY <1>1, RequestTyped, ShelfTyped, ProducerTyped, DeliveryTyped, WorkerTyped
     DEF Next, ProducerStep, DeliveryStep, FaultStep

\* Rows, messages, objects and workers keep the shape TypeOK gives them.
THEOREM TypeCorrect == Spec => []TypeOK
<1>1. Typed => TypeOK
  BY DEF Typed
<1> QED
  BY <1>1, InitTyped, NextTyped, PTL DEF Spec

--------------------------------------------------------------------------------
(* The rows follow the life cycle of DispatchLifecycle *)

\* The rows of an item are its attempts so far, and only the newest can be active.
RowsInOrder ==
    \A d \in Dispatch :
        /\ dispatch[d].state = "none" <=> d[2] > attempts[d[1]]
        /\ dispatch[d].state = "none" => dispatch[d].key = NoKey
        /\ dispatch[d].state \in Active => d[2] = attempts[d[1]]

NewItemsUntried == \A i \in Item : ~Exists(i) => attempts[i] = 0

\* The inductive invariant.
IInv ==
    /\ Typed
    /\ RowsInOrder
    /\ NewItemsUntried
    /\ OutcomeHasEvent
    /\ RequestAdmitsOnce

\* What an admission does to the rows, and what its caller has checked.
Admission(i, key) ==
    /\ ~HasActive(i)
    /\ Replay(i, key) = {}
    /\ attempts[i] < MaxAttempt
    /\ attempts' = [attempts EXCEPT ![i] = @ + 1]
    /\ dispatch' = [dispatch EXCEPT ![<<i, attempts[i] + 1>>] =
                       [state |-> "pending", error |-> "none", key |-> key]]
    /\ UNCHANGED event

\* A step of the life cycle of one attempt, once it is admitted.
LifeStep(d) ==
    \/ Lifecycle!Enqueue(d)
    \/ Lifecycle!Claim(d)
    \/ Lifecycle!Release(d)
    \/ \E outcome \in Settled : Lifecycle!Complete(d, outcome)
    \/ \E error \in FailureCode : Lifecycle!Fail(d, error)
    \/ \E error \in {"queue_unavailable", "capture_upload_failed"} :
           Lifecycle!Refuse(d, error)
    \/ Lifecycle!Report(d)

\* Any step but an admission.
RowStep ==
    /\ UNCHANGED attempts
    /\ UNCHANGED <<dispatch, event>> \/ \E d \in Dispatch : LifeStep(d)

\* The invariant holds initially.
LEMMA InitInv == Init => IInv
<1> SUFFICES ASSUME Init PROVE IInv
  OBVIOUS
<1>1. Typed
  BY InitTyped
<1>2. RowsInOrder
  BY DEF Init, RowsInOrder, NoDispatch, Active, Dispatch, Attempt
<1>3. NewItemsUntried
  BY DEF Init, NewItemsUntried
<1>4. OutcomeHasEvent
  BY DEF Init, OutcomeHasEvent, NoDispatch, NoEvent
<1>5. RequestAdmitsOnce
  BY DEF Init, RequestAdmitsOnce, NoDispatch
<1> QED
  BY <1>1, <1>2, <1>3, <1>4, <1>5 DEF IInv

\* If the newest attempt of an item is settled, none of them is active.
LEMMA NewestInactive ==
  ASSUME RowsInOrder, NEW i \in Item, dispatch[Latest(i)].state \notin Active
  PROVE  ~HasActive(i)
  BY DEF RowsInOrder, HasActive, Latest, ItemOf, Dispatch

\* An item without attempts has no active one and no request key.
LEMMA UntriedItem ==
  ASSUME Typed, RowsInOrder, NEW i \in Item, attempts[i] = 0, NEW key \in Key
  PROVE  ~HasActive(i) /\ Replay(i, key) = {}
<1>1. ASSUME NEW d \in Dispatch, ItemOf(d) = i
      PROVE  dispatch[d].state = "none" /\ dispatch[d].key = NoKey
  <2>1. d[2] \in 1..MaxAttempt /\ d[1] = i
    BY <1>1 DEF Dispatch, Attempt, ItemOf
  <2>2. d[2] > attempts[d[1]]
    BY <2>1
  <2> QED
    BY <1>1, <2>2 DEF RowsInOrder
<1>2. key # NoKey
  <2>1. key = <<key[1], key[2]>>
    BY DEF Key
  <2>2. 1 \in DOMAIN <<key[1], key[2]>> /\ 1 \notin DOMAIN <<>>
    OBVIOUS
  <2> QED
    BY <2>1, <2>2 DEF NoKey
<1> QED
  BY <1>1, <1>2 DEF HasActive, Replay, Active

\* A request that changes the rows is an admission, checked as it should be.
LEMMA RequestSteps ==
  ASSUME IInv, RequestStep
  PROVE  \/ UNCHANGED <<attempts, dispatch, event>>
         \/ \E i \in Item, key \in Key : Admission(i, key)
<1> SUFFICES ASSUME NEW i \in Item, NEW k \in Request,
                    \/ SubmitNew(i, <<"save", k>>)
                    \/ SubmitAgain(i, <<"save", k>>)
                    \/ SubmitRestores(i, <<"save", k>>)
                    \/ WebRetry(i, <<"save", k>>)
                    \/ RetryItem(i, <<"retry", k>>)
                    \/ RetryReplay(i, <<"retry", k>>)
                    \/ CaptureRestores(i, <<"extension", k>>)
                    \/ \E cued \in BOOLEAN : CaptureAdmit(i, <<"extension", k>>, cued)
             PROVE  \/ UNCHANGED <<attempts, dispatch, event>>
                    \/ \E key \in Key : Admission(i, key)
  BY DEF RequestStep
<1> <<"save", k>> \in Key /\ <<"retry", k>> \in Key /\ <<"extension", k>> \in Key
  BY DEF Key
<1>1. CASE SubmitNew(i, <<"save", k>>)
  <2>1. ~HasActive(i) /\ Replay(i, <<"save", k>>) = {}
    BY <1>1, UntriedItem DEF SubmitNew, IInv, NewItemsUntried
  <2> QED
    BY <1>1, <2>1 DEF SubmitNew, Admit, Admission
<1>2. CASE SubmitAgain(i, <<"save", k>>)
  <2>1. ~HasActive(i)
    BY <1>2, NewestInactive DEF SubmitAgain, IInv, Active
  <2> QED
    BY <1>2, <2>1 DEF SubmitAgain, Admit, Admission
<1>3. CASE WebRetry(i, <<"save", k>>)
  <2>1. ~HasActive(i)
    BY <1>3, NewestInactive DEF WebRetry, IInv
  <2> QED
    BY <1>3, <2>1 DEF WebRetry, Admit, Admission
<1>4. CASE RetryItem(i, <<"retry", k>>)
  <2>1. ~HasActive(i)
    BY <1>4, NewestInactive DEF RetryItem, IInv
  <2> QED
    BY <1>4, <2>1 DEF RetryItem, Admit, Admission
<1>5. ASSUME NEW cued \in BOOLEAN, CaptureAdmit(i, <<"extension", k>>, cued)
      PROVE  \E key \in Key : Admission(i, key)
  BY <1>5 DEF CaptureAdmit, CaptureReplayed, Admit, Admission
<1>6. CASE \/ SubmitRestores(i, <<"save", k>>)
           \/ RetryReplay(i, <<"retry", k>>)
           \/ CaptureRestores(i, <<"extension", k>>)
  BY <1>6 DEF SubmitRestores, RetryReplay, CaptureRestores
<1> QED
  BY <1>1, <1>2, <1>3, <1>4, <1>5, <1>6

\* Rewriting a row with its own values changes nothing.
LEMMA RowsTyped ==
  ASSUME IInv, NEW d \in Dispatch
  PROVE  /\ dispatch[d] \in DispatchRow /\ event[d] \in EventRow
         /\ dispatch = [dispatch EXCEPT ![d] = dispatch[d]]
         /\ dispatch = [dispatch EXCEPT ![d].state = dispatch[d].state]
         /\ event = [event EXCEPT ![d] = event[d]]
  BY DEF IInv, Typed, TypeOK, DispatchRow

\* An active attempt has no completion event.
LEMMA ActiveUnreported ==
  ASSUME IInv, NEW d \in Dispatch, dispatch[d].state \in Active
  PROVE  event[d] = NoEvent
  BY DEF IInv, OutcomeHasEvent

\* Failing an active attempt is a Fail of its life cycle.
LEMMA FailDispatchFails ==
  ASSUME IInv, NEW d \in Dispatch, dispatch[d].state \in Active,
         NEW code \in FailureCode, FailDispatch(d, code)
  PROVE  LifeStep(d)
<1>1. Lifecycle!Fail(d, code)
  BY ActiveUnreported
     DEF FailDispatch, EnsureEvent, Active, Lifecycle!Fail, Lifecycle!Settle
<1> QED
  BY <1>1 DEF LifeStep

\* Completing a claimed or released attempt is a Complete of its life cycle.
LEMMA CompleteDispatchCompletes ==
  ASSUME IInv, NEW d \in Dispatch, dispatch[d].state \in {"enqueued", "running"},
         NEW state \in Settled, CompleteDispatch(d, state)
  PROVE  LifeStep(d)
<1>1. Lifecycle!Complete(d, state)
  BY ActiveUnreported
     DEF CompleteDispatch, EnsureEvent, Active, Lifecycle!Complete, Lifecycle!Settle
<1> QED
  BY <1>1 DEF LifeStep

\* The failure hook settles an active attempt, reports a refused one, or does
\* nothing.
LEMMA MarkDispatchFailedRows ==
  ASSUME IInv, NEW d \in Dispatch, NEW code \in FailureCode,
         MarkDispatchFailed(d, code)
  PROVE  UNCHANGED <<dispatch, event>> \/ LifeStep(d)
<1>1. CASE UNCHANGED <<item, dispatch, event>>
  BY <1>1
<1>2. CASE /\ dispatch[d].state = "failed"
           /\ EnsureEvent(d, "failed", dispatch[d].error)
           /\ UNCHANGED <<item, dispatch>>
  <2>1. CASE event[d] = NoEvent
    BY <1>2, <2>1 DEF EnsureEvent, LifeStep, Lifecycle!Report, Lifecycle!NoEvent, NoEvent
  <2>2. CASE event[d] # NoEvent
    BY <1>2, <2>2, RowsTyped DEF EnsureEvent
  <2> QED
    BY <2>1, <2>2
<1>3. CASE /\ dispatch[d].state \in {"running", "enqueued"}
           /\ CompleteDispatch(d, "ready")
  BY <1>3, CompleteDispatchCompletes DEF Settled
<1>4. CASE dispatch[d].state \in Active /\ FailDispatch(d, code)
  BY <1>4, FailDispatchFails
<1> QED
  BY <1>1, <1>2, <1>3, <1>4 DEF MarkDispatchFailed

\* A publisher enqueues or refuses a pending attempt, or changes no row.
LEMMA ProducerRows ==
  ASSUME IInv, NEW d \in Dispatch,
         \/ UploadCapture(d) \/ UploadFails(d) \/ MarkCaptureReady(d)
         \/ Publish(d) \/ PublishRaises(d) \/ MarkEnqueued(d)
         \/ SubmitUnpublished(d) \/ RetryUnpublished(d)
         \/ WebUnpublished(d) \/ CaptureUnpublished(d) \/ ProducerDies(d)
  PROVE  RowStep
<1>1. CASE \/ UploadCapture(d) \/ UploadFails(d) \/ MarkCaptureReady(d)
           \/ Publish(d) \/ PublishRaises(d) \/ ProducerDies(d)
  BY <1>1 DEF RowStep, UploadCapture, UploadFails, MarkCaptureReady, Publish,
              PublishRaises, ProducerDies
<1>2. CASE MarkEnqueued(d)
  <2>1. CASE dispatch[d].state = "pending"
    BY <1>2, <2>1 DEF MarkEnqueued, RowStep, LifeStep, Lifecycle!Enqueue, Lifecycle!Move
  <2>2. CASE dispatch[d].state # "pending"
    BY <1>2, <2>2, RowsTyped DEF MarkEnqueued, RowStep
  <2> QED
    BY <2>1, <2>2
<1>3. CASE \/ SubmitUnpublished(d) \/ RetryUnpublished(d)
           \/ WebUnpublished(d) \/ CaptureUnpublished(d)
  <2>1. PICK code \in {"queue_unavailable", "capture_upload_failed"} :
             dispatch' = [dispatch EXCEPT ![d] = Compensated(d, code)]
    BY <1>3 DEF SubmitUnpublished, RetryUnpublished, WebUnpublished,
                CaptureUnpublished
  <2>2. UNCHANGED <<attempts, event>>
    BY <1>3 DEF SubmitUnpublished, RetryUnpublished, WebUnpublished,
                CaptureUnpublished
  <2>3. CASE dispatch[d].state = "pending"
    <3>1. Lifecycle!Refuse(d, code)
      BY <2>1, <2>2, <2>3, RowsTyped DEF Compensated, Lifecycle!Refuse
    <3> QED
      BY <2>2, <3>1 DEF RowStep, LifeStep
  <2>4. CASE dispatch[d].state # "pending"
    BY <2>1, <2>2, <2>4, RowsTyped DEF Compensated, RowStep
  <2> QED
    BY <2>3, <2>4
<1> QED
  BY <1>1, <1>2, <1>3

\* A delivery claims or fails its attempt, or changes no row.
LEMMA DeliveryRows ==
  ASSUME IInv, NEW w \in Worker, NEW m \in queue,
         \/ ClaimRefused(w, m) \/ ClaimDeleted(w, m) \/ ClaimDispatch(w, m)
         \/ ClaimRaises(w, m)
  PROVE  RowStep
<1>1. m.disp \in Dispatch
  BY DEF IInv, Typed, TypeOK, Message
<1>2. CASE ClaimRefused(w, m) \/ ClaimRaises(w, m)
  BY <1>2 DEF ClaimRefused, ClaimRaises, RowStep
<1>3. CASE ClaimDeleted(w, m)
  BY <1>1, <1>3, FailDispatchFails DEF ClaimDeleted, RowStep, Active, FailureCode
<1>4. CASE ClaimDispatch(w, m)
  <2>1. Lifecycle!Claim(m.disp)
    BY <1>4 DEF ClaimDispatch, Lifecycle!Claim, Lifecycle!Move
  <2> QED
    BY <1>1, <1>4, <2>1 DEF ClaimDispatch, RowStep, LifeStep
<1> QED
  BY <1>2, <1>3, <1>4

\* A worker settles or releases its attempt, or changes no row.
LEMMA WorkerRows ==
  ASSUME IInv, NEW w \in Worker, WorkerStep(w) \/ WorkerDies(w)
  PROVE  RowStep
<1> DEFINE d == worker[w].disp
<1>1. CASE \/ Load(w) \/ StartFetch(w) \/ FetchNoText(w) \/ FetchText(w)
           \/ CommitRawKey(w) \/ PutRawObject(w) \/ EmbedChunks(w)
           \/ IndexSegments(w) \/ DiscardRawObject(w) \/ MarkItemDeleted(w)
           \/ ProcessRaises(w) \/ FinishStale(w) \/ FinishMismatch(w)
           \/ SettlementRaises(w) \/ RetryTask(w) \/ WorkerDies(w)
  BY <1>1 DEF RowStep, Load, StartFetch, FetchNoText, FetchText, CommitRawKey,
              PutRawObject, EmbedChunks, IndexSegments, DiscardRawObject,
              MarkItemDeleted, ProcessRaises, FinishStale, FinishMismatch,
              SettlementRaises, RetryTask, WorkerDies
<1>2. ASSUME worker[w].pc # "idle" PROVE d \in Dispatch
  BY <1>2 DEF IInv, Typed, WorkerHolds
<1>3. CASE FinishDeleted(w)
  BY <1>2, <1>3, FailDispatchFails
     DEF FinishDeleted, At, RowStep, Active, FailureCode
<1>4. CASE FinishCompleted(w)
  <2>1. d \in Dispatch /\ worker[w].result \in Settled
    BY <1>2, <1>4 DEF FinishCompleted, At, IInv, Typed, WorkerHolds
  <2> QED
    BY <1>4, <2>1, CompleteDispatchCompletes DEF FinishCompleted, RowStep
<1>5. CASE ReleaseForRetry(w)
  <2>1. d \in Dispatch
    BY <1>2, <1>5 DEF ReleaseForRetry, At
  <2>2. CASE dispatch[d].state = "running"
    <3>1. Lifecycle!Release(d)
      BY <1>5, <2>2 DEF ReleaseForRetry, Lifecycle!Release, Lifecycle!Move
    <3> QED
      BY <1>5, <2>1, <3>1 DEF ReleaseForRetry, RowStep, LifeStep
  <2>3. CASE dispatch[d].state # "running"
    BY <1>5, <2>1, <2>3, RowsTyped DEF ReleaseForRetry, RowStep
  <2> QED
    BY <2>2, <2>3
<1>6. CASE FailRun(w) \/ OnFailure(w)
  <2>1. d \in Dispatch /\ worker[w].result \in FailureCode
    BY <1>2, <1>6 DEF FailRun, OnFailure, At, IInv, Typed, WorkerHolds
  <2> QED
    BY <1>6, <2>1, MarkDispatchFailedRows DEF FailRun, OnFailure, RowStep
<1> QED
  BY <1>1, <1>3, <1>4, <1>5, <1>6 DEF WorkerStep

\* Every step of the system admits an attempt or follows its life cycle.
LEMMA EveryStep ==
  ASSUME IInv, [Next]_vars
  PROVE  RowStep \/ \E i \in Item, key \in Key : Admission(i, key)
<1>1. CASE UNCHANGED vars
  BY <1>1 DEF vars, RowStep
<1>2. CASE RequestStep
  BY <1>2, RequestSteps DEF RowStep
<1>3. CASE ShelfStep
  BY <1>3 DEF ShelfStep, SoftDelete, Restore, Archive, Unarchive, RetentionEnds, MoveShelf, RowStep
<1>4. CASE ProducerStep \/ \E d \in Dispatch : ProducerDies(d)
  BY <1>4, ProducerRows DEF ProducerStep
<1>5. CASE DeliveryStep
  BY <1>5, DeliveryRows DEF DeliveryStep
<1>6. CASE \E w \in Worker : WorkerStep(w) \/ WorkerDies(w)
  BY <1>6, WorkerRows
<1> QED
  BY <1>1, <1>2, <1>3, <1>4, <1>5, <1>6 DEF Next, FaultStep

--------------------------------------------------------------------------------
(* The invariant is inductive *)

\* What a step of the life cycle leaves alone in a row and its event.
RowKept(d) ==
    /\ dispatch'[d].key = dispatch[d].key
    /\ dispatch'[d].state = "none" <=> dispatch[d].state = "none"
    /\ dispatch'[d].state \in Active => dispatch[d].state \in Active
    /\ dispatch[d].state \in Terminal => dispatch'[d] = dispatch[d]
    /\ event[d] # NoEvent => event'[d] = event[d]

\* No step of the life cycle creates or renames an attempt or reopens it.
LEMMA RowStepKeeps ==
  ASSUME IInv, RowStep, NEW d \in Dispatch
  PROVE  RowKept(d)
<1>1. CASE UNCHANGED <<dispatch, event>>
  BY <1>1 DEF RowKept
<1>2. ASSUME NEW e \in Dispatch, LifeStep(e) PROVE RowKept(d)
  <2>1. /\ dispatch \in [Dispatch -> DispatchRow] /\ event \in [Dispatch -> EventRow]
        /\ dispatch[d].state \in Active => event[d] = NoEvent
    BY DEF IInv, Typed, TypeOK, OutcomeHasEvent
  <2>2. CASE Lifecycle!Enqueue(e) \/ Lifecycle!Claim(e) \/ Lifecycle!Release(e)
    BY <2>1, <2>2 DEF Lifecycle!Enqueue, Lifecycle!Claim, Lifecycle!Release,
       Lifecycle!Move, DispatchRow, Active, Terminal, RowKept
  <2>3. ASSUME NEW outcome \in Settled, Lifecycle!Complete(e, outcome)
        PROVE  RowKept(d)
    BY <2>1, <2>3 DEF Lifecycle!Complete, Lifecycle!Settle, DispatchRow, Active,
       Terminal, RowKept
  <2>4. ASSUME NEW error \in FailureCode,
               Lifecycle!Fail(e, error) \/ Lifecycle!Refuse(e, error)
        PROVE  RowKept(d)
    BY <2>1, <2>4 DEF Lifecycle!Fail, Lifecycle!Settle, Lifecycle!Refuse, DispatchRow,
       Active, Terminal, RowKept
  <2>5. CASE Lifecycle!Report(e)
    BY <2>1, <2>5 DEF Lifecycle!Report, Lifecycle!NoEvent, NoEvent, RowKept
  <2> QED
    BY <1>2, <2>2, <2>3, <2>4, <2>5 DEF LifeStep, FailureCode
<1> QED
  BY <1>1, <1>2 DEF RowStep

\* The attempt an admission creates, and all the others.
LEMMA AdmissionRows ==
  ASSUME IInv, NEW i \in Item, NEW key \in Key, Admission(i, key)
  PROVE  LET new == <<i, attempts[i] + 1>>
         IN  /\ new \in Dispatch
             /\ dispatch[new].state = "none"
             /\ dispatch'[new] = [state |-> "pending", error |-> "none", key |-> key]
             /\ \A d \in Dispatch : d # new => dispatch'[d] = dispatch[d]
             /\ attempts'[i] = attempts[i] + 1
             /\ \A j \in Item : j # i => attempts'[j] = attempts[j]
<1>1. attempts \in [Item -> 0..MaxAttempt] /\ dispatch \in [Dispatch -> DispatchRow]
  BY DEF IInv, Typed, TypeOK
<1>2. attempts[i] + 1 \in 1..MaxAttempt /\ attempts[i] + 1 > attempts[i]
  BY <1>1, BoundsAssumption DEF Admission
<1>3. <<i, attempts[i] + 1>> \in Dispatch
  BY <1>2 DEF Dispatch, Attempt
<1>4. dispatch[<<i, attempts[i] + 1>>].state = "none"
  BY <1>2, <1>3 DEF IInv, RowsInOrder
<1> QED
  BY <1>1, <1>3, <1>4 DEF Admission

\* Admissions extend the sequence of an item's attempts, other steps keep it.
LEMMA RowsInOrderKept == IInv /\ [Next]_vars => RowsInOrder'
<1> DEFINE InOrder(d) == /\ dispatch[d].state = "none" <=> d[2] > attempts[d[1]]
                         /\ dispatch[d].state = "none" => dispatch[d].key = NoKey
                         /\ dispatch[d].state \in Active => d[2] = attempts[d[1]]
<1> SUFFICES ASSUME IInv, [Next]_vars, NEW d \in Dispatch PROVE InOrder(d)'
  BY DEF RowsInOrder
<1>1. InOrder(d)
  BY DEF IInv, RowsInOrder
<1>2. CASE RowStep
  BY <1>1, <1>2, RowStepKeeps DEF RowStep, RowKept
<1>3. ASSUME NEW i \in Item, NEW key \in Key, Admission(i, key)
      PROVE  InOrder(d)'
  <2> DEFINE new == <<i, attempts[i] + 1>>
  <2>1. /\ dispatch'[new] = [state |-> "pending", error |-> "none", key |-> key]
        /\ d # new => dispatch'[d] = dispatch[d]
        /\ attempts'[i] = attempts[i] + 1
        /\ d[1] # i => attempts'[d[1]] = attempts[d[1]]
    BY <1>3, AdmissionRows DEF Dispatch
  <2>2. d[1] \in Item /\ d[2] \in Nat /\ d = <<d[1], d[2]>> /\ attempts[i] \in Nat
    BY BoundsAssumption DEF Dispatch, Attempt, IInv, Typed, TypeOK
  <2>3. CASE d = new
    BY <2>1, <2>2, <2>3 DEF Active
  <2>4. CASE d # new /\ d[1] = i
    <3>1. d[2] # attempts[i] + 1
      BY <2>2, <2>4
    <3>2. dispatch[d].state \notin Active
      BY <1>3, <2>4 DEF Admission, HasActive, ItemOf
    <3> QED
      BY <1>1, <2>1, <2>2, <2>4, <3>1, <3>2
  <2>5. CASE d[1] # i
    BY <1>1, <2>1, <2>5
  <2> QED
    BY <2>3, <2>4, <2>5
<1> QED
  BY <1>2, <1>3, EveryStep

\* Settling writes the event in the same step, nothing else touches either.
LEMMA OutcomeHasEventKept == IInv /\ [Next]_vars => OutcomeHasEvent'
<1> DEFINE Told(d) ==
        /\ dispatch[d].state \in {"none"} \union Active => event[d] = NoEvent
        /\ dispatch[d].state = "completed" => event[d].state \in Settled
        /\ dispatch[d].state = "failed" =>
               \/ event[d] = [state |-> "failed", error |-> dispatch[d].error]
               \/ /\ event[d] = NoEvent
                  /\ dispatch[d].error \in {"queue_unavailable",
                                           "capture_upload_failed"}
<1> SUFFICES ASSUME IInv, [Next]_vars, NEW d \in Dispatch PROVE Told(d)'
  BY DEF OutcomeHasEvent
<1>1. /\ Told(d)
      /\ dispatch \in [Dispatch -> DispatchRow] /\ event \in [Dispatch -> EventRow]
  BY DEF IInv, OutcomeHasEvent, Typed, TypeOK
<1>2. CASE UNCHANGED <<dispatch, event>>
  BY <1>1, <1>2
<1>3. ASSUME NEW e \in Dispatch, LifeStep(e) PROVE Told(d)'
  BY <1>1, <1>3 DEF LifeStep, Lifecycle!Enqueue, Lifecycle!Claim, Lifecycle!Release,
     Lifecycle!Move, Lifecycle!Complete, Lifecycle!Fail, Lifecycle!Settle,
     Lifecycle!Refuse, Lifecycle!Report, Lifecycle!NoEvent, NoEvent, DispatchRow,
     EventRow, Active
<1>4. ASSUME NEW i \in Item, NEW key \in Key, Admission(i, key) PROVE Told(d)'
  <2> DEFINE new == <<i, attempts[i] + 1>>
  <2>1. event'[d] = event[d]
    BY <1>4 DEF Admission
  <2>2. /\ dispatch[new].state = "none"
        /\ dispatch'[new] = [state |-> "pending", error |-> "none", key |-> key]
        /\ d # new => dispatch'[d] = dispatch[d]
    BY <1>4, AdmissionRows
  <2> HIDE DEF new
  <2> QED
    BY <1>1, <2>1, <2>2
<1> QED
  BY <1>2, <1>3, <1>4, EveryStep DEF RowStep

\* An admission has looked for its key among the item's attempts.
LEMMA RequestAdmitsOnceKept == IInv /\ [Next]_vars => RequestAdmitsOnce'
<1> SUFFICES ASSUME IInv, [Next]_vars, NEW d \in Dispatch, NEW e \in Dispatch,
                    ItemOf(d) = ItemOf(e), dispatch'[d].key = dispatch'[e].key,
                    dispatch'[d].key # NoKey
             PROVE  d = e
  BY DEF RequestAdmitsOnce
<1>1. CASE RowStep
  BY <1>1, RowStepKeeps DEF IInv, RequestAdmitsOnce, RowKept
<1>2. ASSUME NEW i \in Item, NEW key \in Key, Admission(i, key)
      PROVE  d = e
  <2> DEFINE new == <<i, attempts[i] + 1>>
  <2>1. ItemOf(new) = i
    BY DEF ItemOf
  <2>2. \A f \in Dispatch : ItemOf(f) = i => dispatch[f].key # key
    BY <1>2 DEF Admission, Replay
  <2>3. /\ dispatch'[new] = [state |-> "pending", error |-> "none", key |-> key]
        /\ \A f \in Dispatch : f # new => dispatch'[f] = dispatch[f]
    BY <1>2, AdmissionRows
  <2> HIDE DEF new
  <2>4. CASE d = new \/ e = new
    BY <2>1, <2>2, <2>3, <2>4
  <2>5. CASE d # new /\ e # new
    BY <2>3, <2>5 DEF IInv, RequestAdmitsOnce
  <2> QED
    BY <2>4, <2>5
<1> QED
  BY <1>1, <1>2, EveryStep

\* An item exists from its first attempt on.
LEMMA NewItemsUntriedKept == IInv /\ [Next]_vars => NewItemsUntried'
<1> SUFFICES ASSUME IInv, [Next]_vars, NEW i \in Item, item'[i].state = "absent"
             PROVE  attempts'[i] = 0
  BY DEF NewItemsUntried, Exists
<1>1. /\ item[i].state = "absent" => attempts[i] = 0
      /\ item \in [Item -> ItemRow] /\ attempts \in [Item -> 0..MaxAttempt]
  BY DEF IInv, NewItemsUntried, Exists, Typed, TypeOK
<1> USE <1>1
<1>2. CASE UNCHANGED <<item, attempts>>
  BY <1>2
<1>3. ASSUME NEW j \in Item, NEW state, state # "absent",
             item' = [item EXCEPT ![j].state = state], UNCHANGED attempts
      PROVE  attempts'[i] = 0
  BY <1>3 DEF ItemRow
<1>4. CASE RequestStep
  <2> SUFFICES ASSUME NEW j \in Item, NEW k \in Request,
                      \/ SubmitNew(j, <<"save", k>>)
                      \/ SubmitAgain(j, <<"save", k>>)
                      \/ SubmitRestores(j, <<"save", k>>)
                      \/ WebRetry(j, <<"save", k>>)
                      \/ RetryItem(j, <<"retry", k>>)
                      \/ RetryReplay(j, <<"retry", k>>)
                      \/ CaptureRestores(j, <<"extension", k>>)
                      \/ \E cued \in BOOLEAN : CaptureAdmit(j, <<"extension", k>>, cued)
               PROVE  attempts'[i] = 0
    BY <1>4 DEF RequestStep
  <2>1. ASSUME NEW key, NEW via, NEW cued, NEW row, row.state = "pending",
               Admit(j, key, via, cued, row)
        PROVE  attempts'[i] = 0
    BY <2>1 DEF Admit
  <2>2. Pending(j).state = "pending" /\ Restored(Pending(j)).state = "pending"
    BY DEF Pending, Restored, ItemRow
  <2>3. CASE SubmitRestores(j, <<"save", k>>) \/ CaptureRestores(j, <<"extension", k>>)
    BY <2>3 DEF SubmitRestores, CaptureRestores, Restored, ItemRow
  <2>4. CASE RetryReplay(j, <<"retry", k>>)
    BY <1>3, <2>4 DEF RetryReplay
  <2>5. CASE \/ SubmitNew(j, <<"save", k>>) \/ SubmitAgain(j, <<"save", k>>)
             \/ WebRetry(j, <<"save", k>>) \/ RetryItem(j, <<"retry", k>>)
    BY <2>1, <2>2, <2>5 DEF SubmitNew, SubmitAgain, WebRetry, RetryItem
  <2>6. ASSUME NEW cued \in BOOLEAN, CaptureAdmit(j, <<"extension", k>>, cued)
        PROVE  attempts'[i] = 0
    BY <2>1, <2>6 DEF CaptureAdmit
  <2> QED
    BY <2>3, <2>4, <2>5, <2>6
<1>5. CASE ShelfStep
  BY <1>5 DEF ShelfStep, SoftDelete, Restore, Archive, Unarchive, RetentionEnds, MoveShelf, ItemRow
<1>6. ASSUME NEW d \in Dispatch,
             \/ UploadCapture(d) \/ UploadFails(d) \/ MarkCaptureReady(d)
             \/ Publish(d) \/ PublishRaises(d) \/ MarkEnqueued(d)
             \/ SubmitUnpublished(d) \/ RetryUnpublished(d)
             \/ WebUnpublished(d) \/ CaptureUnpublished(d) \/ ProducerDies(d)
      PROVE  attempts'[i] = 0
  <2>1. ItemOf(d) \in Item
    BY DEF ItemOf, Dispatch
  <2>2. CASE \/ UploadCapture(d) \/ UploadFails(d) \/ MarkCaptureReady(d)
             \/ Publish(d) \/ PublishRaises(d) \/ MarkEnqueued(d)
             \/ SubmitUnpublished(d) \/ ProducerDies(d)
    BY <1>2, <2>2 DEF UploadCapture, UploadFails, MarkCaptureReady, Publish,
       PublishRaises, MarkEnqueued, SubmitUnpublished, ProducerDies
  <2>3. CASE RetryUnpublished(d) \/ WebUnpublished(d) \/ CaptureUnpublished(d)
    BY <2>1, <2>3 DEF RetryUnpublished, WebUnpublished, CaptureUnpublished, ItemRow
  <2> QED
    BY <1>6, <2>2, <2>3
<1>7. ASSUME NEW d \in Dispatch, NEW code, UNCHANGED attempts,
             \/ FailDispatch(d, code) \/ CompleteDispatch(d, code)
             \/ MarkDispatchFailed(d, code)
      PROVE  attempts'[i] = 0
  <2>1. ItemOf(d) \in Item
    BY DEF ItemOf, Dispatch
  <2>2. UNCHANGED item \/ FailDispatch(d, code)
    BY <1>7 DEF CompleteDispatch, MarkDispatchFailed
  <2> QED
    BY <1>2, <1>3, <1>7, <2>1, <2>2 DEF FailDispatch
<1>8. CASE DeliveryStep
  <2>1. PICK w \in Worker, m \in queue :
             \/ ClaimRefused(w, m) \/ ClaimDeleted(w, m) \/ ClaimDispatch(w, m)
             \/ ClaimRaises(w, m)
    BY <1>8 DEF DeliveryStep
  <2>2. m.disp \in Dispatch
    BY DEF IInv, Typed, TypeOK, Message
  <2> QED
    BY <1>2, <1>7, <2>1, <2>2
       DEF ClaimRefused, ClaimDeleted, ClaimDispatch, ClaimRaises
<1>9. ASSUME NEW w \in Worker, WorkerStep(w) \/ WorkerDies(w)
      PROVE  attempts'[i] = 0
  <2>1. worker[w].pc # "idle" => worker[w].disp \in Dispatch /\ Subject(w) \in Item
    BY DEF IInv, Typed, WorkerHolds, Subject, ItemOf, Dispatch
  <2>2. CASE \/ FetchText(w) \/ PutRawObject(w) \/ EmbedChunks(w)
             \/ DiscardRawObject(w) \/ ProcessRaises(w) \/ FinishStale(w)
             \/ FinishMismatch(w) \/ SettlementRaises(w) \/ ReleaseForRetry(w)
             \/ RetryTask(w) \/ WorkerDies(w)
    BY <1>2, <2>2 DEF FetchText, PutRawObject, EmbedChunks, DiscardRawObject,
       ProcessRaises, FinishStale, FinishMismatch, SettlementRaises,
       ReleaseForRetry, RetryTask, WorkerDies
  <2>3. CASE \/ Load(w) \/ StartFetch(w) \/ FetchNoText(w) \/ IndexSegments(w)
             \/ MarkItemDeleted(w)
    BY <1>2, <1>3, <2>1, <2>3 DEF Load, StartFetch, FetchNoText, IndexSegments,
       MarkItemDeleted, At, SetState, Textual
  <2>4. CASE CommitRawKey(w)
    BY <2>1, <2>4 DEF CommitRawKey, At, ItemRow
  <2>5. CASE FinishDeleted(w) \/ FinishCompleted(w) \/ FailRun(w) \/ OnFailure(w)
    BY <1>7, <2>1, <2>5 DEF FinishDeleted, FinishCompleted, FailRun, OnFailure, At
  <2> QED
    BY <1>9, <2>2, <2>3, <2>4, <2>5 DEF WorkerStep
<1>10. CASE UNCHANGED vars
  BY <1>2, <1>10 DEF vars
<1> QED
  BY <1>4, <1>5, <1>6, <1>8, <1>9, <1>10 DEF Next, ProducerStep, FaultStep

\* The invariant is inductive.
LEMMA InvKept == IInv /\ [Next]_vars => IInv'
  BY NextTyped, RowsInOrderKept, NewItemsUntriedKept, OutcomeHasEventKept,
     RequestAdmitsOnceKept DEF IInv

\* The inductive invariant holds in every reachable state.
THEOREM Invariance == Spec => []IInv
  BY InitInv, InvKept, PTL DEF Spec

--------------------------------------------------------------------------------
(* Who has an attempt in hand *)

Holds(w, d) == worker[w].pc # "idle" /\ worker[w].disp = d

\* An attempt whose messages were delivered once is in one hand at a time: a
\* message that waits, or the worker that took it.
CarriedOnce ==
    \A d \in Dispatch : d \notin repeated =>
        /\ \A m, n \in queue : m.disp = d /\ n.disp = d => m = n
        /\ \A v, w \in Worker : Holds(v, d) /\ Holds(w, d) => v = w
        /\ \A m \in queue, w \in Worker : m.disp = d => ~Holds(w, d)

\* Before its publication nobody has an attempt in hand.
Unsent(d) == \/ dispatch[d].state = "none"
             \/ producer[d].pc \in {"upload", "stage", "publish", "unstored"}

PublishedFirst ==
    \A d \in Dispatch : Unsent(d) =>
        /\ dispatch[d].state \in {"none", "pending"}
        /\ dispatch[d].state = "none" => producer[d] = NoProducer
        /\ \A m \in queue : m.disp # d
        /\ \A w \in Worker : ~Holds(w, d)

\* A worker keeps the dispatch it claimed until it settles or releases it.
Claimed == Processing \union {"finish", "release", "fail"}

ClaimsLast ==
    \A w \in Worker :
        worker[w].pc \in Claimed /\ worker[w].disp \notin repeated
        => dispatch[worker[w].disp].state = "running"

HandsInv == CarriedOnce /\ PublishedFirst /\ ClaimsLast

--------------------------------------------------------------------------------
(* What the row of an item says of its attempts *)

IsLatest(d) == d[2] = attempts[ItemOf(d)]

\* A settled newest attempt is what the item shows; before a worker claims it the
\* item waits.
DispatchFits(d) ==
    LET i == ItemOf(d)
    IN  /\ dispatch[d].state = "pending" => item[i].state \in {"pending", "failed"}
        /\ dispatch[d].state = "enqueued" => item[i].state # "ready"
        /\ IsLatest(d) /\ dispatch[d].state = "completed" => item[i].state = event[d].state
        /\ IsLatest(d) /\ dispatch[d].state = "failed" =>
               \/ item[i].state = "failed"
               \/ item[i].state = "pending" /\ dispatch[d].error = "queue_unavailable"

\* The raw object of a ready item is there, in the recycle bin too.
ItemStored(i) == item[i].state = "ready" => <<i, item[i].raw>> \in objects

\* A worker that processes an item finds it unfinished, has committed the name of
\* the object before it writes it, and has written it before it embeds.
WorkerFits(w) ==
    LET pc == worker[w].pc
    IN  /\ item[Subject(w)].state # "ready"
        /\ pc \in {"chunk", "put", "embed", "index"} =>
               worker[w].source \in {"connector", "capture"}
        /\ pc \in {"chunk", "put"} /\ worker[w].source = "capture"
               => RawObject(w) \in objects
        /\ pc \in {"put", "embed", "index"} => item[Subject(w)].raw = RawObject(w)[2]
        /\ pc \in {"embed", "index"} => RawObject(w) \in objects

Busy(w) == worker[w].pc \in Processing \union {"release"}

RowsFit(i)    == \A d \in Dispatch : ItemOf(d) = i => DispatchFits(d)
WorkersFit(i) == \A w \in Worker : Busy(w) /\ Subject(w) = i => WorkerFits(w)

TruthOf(i) == RowsFit(i) /\ ItemStored(i) /\ WorkersFit(i)

TruthInv == \A i \in Item : DeliveredOnce(i) => TruthOf(i)

\* Names of attempts are pairs, and a worker that is not idle has one in hand.
LEMMA Names ==
  ASSUME IInv
  PROVE  /\ \A d \in Dispatch : ItemOf(d) \in Item /\ d[2] \in Nat /\ d = <<ItemOf(d), d[2]>>
         /\ \A w \in Worker : worker[w].pc # "idle" =>
                worker[w].disp \in Dispatch /\ Subject(w) \in Item
         /\ \A m \in queue : m.disp \in Dispatch
         /\ \A d, r : Sent(d, r).disp = d
  BY BoundsAssumption
     DEF IInv, Typed, TypeOK, WorkerHolds, Message, Dispatch, Attempt, ItemOf, Subject, Sent

\* How the record of a worker changes.
LEMMA WorkerRecord ==
  ASSUME IInv, NEW w \in Worker, worker[w].pc # "idle"
  PROVE  /\ \A pc : Step(w, pc) =>
                /\ worker'[w].pc = pc /\ worker'[w].disp = worker[w].disp
                /\ worker'[w].source = worker[w].source
                /\ \A v \in Worker : v # w => worker'[v] = worker[v]
         /\ \A pc, result : Conclude(w, pc, result) =>
                /\ worker'[w].pc = pc /\ worker'[w].disp = worker[w].disp
                /\ \A v \in Worker : v # w => worker'[v] = worker[v]
         /\ GoIdle(w) =>
                /\ worker'[w].pc = "idle"
                /\ \A v \in Worker : v # w => worker'[v] = worker[v]
<1>1. worker \in [Worker -> WorkerState] /\ worker[w] \in WorkerState
  BY DEF IInv, Typed, TypeOK
<1>2. ASSUME NEW pc, Step(w, pc)
      PROVE  /\ worker'[w].pc = pc /\ worker'[w].disp = worker[w].disp
             /\ worker'[w].source = worker[w].source
             /\ \A v \in Worker : v # w => worker'[v] = worker[v]
  BY <1>1, <1>2 DEF Step, WorkerState
<1>3. ASSUME NEW pc, NEW result, Conclude(w, pc, result)
      PROVE  /\ worker'[w].pc = pc /\ worker'[w].disp = worker[w].disp
             /\ \A v \in Worker : v # w => worker'[v] = worker[v]
  BY <1>1, <1>3 DEF Conclude, WorkerState
<1>4. ASSUME GoIdle(w)
      PROVE  /\ worker'[w].pc = "idle"
             /\ \A v \in Worker : v # w => worker'[v] = worker[v]
  BY <1>1, <1>4 DEF GoIdle, IdleWorker
<1> QED
  BY <1>2, <1>3, <1>4

\* A worker that steps has one attempt in hand, writes that row alone, and stops
\* claiming it when it settles or releases it.
LEMMA WorkerHands ==
  ASSUME IInv, NEW w \in Worker, WorkerStep(w) \/ WorkerDies(w)
  PROVE  /\ worker[w].pc # "idle"
         /\ \A v \in Worker : v # w => worker'[v] = worker[v]
         /\ \A e \in Dispatch : e # worker[w].disp =>
                dispatch'[e] = dispatch[e] /\ event'[e] = event[e]
         /\ UNCHANGED <<producer, repeated, attempts>>
         /\ worker'[w].pc # "idle" => worker'[w].disp = worker[w].disp
         /\ worker'[w].pc \in Claimed =>
                worker[w].pc \in Claimed /\ UNCHANGED <<dispatch, event>>
         /\ \/ UNCHANGED queue
            \/ /\ worker'[w].pc = "idle"
               /\ \E r : queue' = queue \union {Sent(worker[w].disp, r)}
<1>1. worker[w].pc # "idle"
  BY DEF WorkerStep, WorkerDies, At, Load, StartFetch, FetchNoText, FetchText,
         CommitRawKey, PutRawObject, EmbedChunks, IndexSegments, DiscardRawObject,
         MarkItemDeleted, ProcessRaises, FinishStale, FinishDeleted,
         FinishCompleted, FinishMismatch, SettlementRaises, ReleaseForRetry,
         RetryTask, FailRun, OnFailure, Processing
<1>2. /\ worker[w].disp \in Dispatch
      /\ dispatch \in [Dispatch -> DispatchRow] /\ event \in [Dispatch -> EventRow]
      /\ worker \in [Worker -> WorkerState] /\ worker[w] \in WorkerState
  BY <1>1, Names DEF IInv, Typed, TypeOK
<1>3. CASE \/ StartFetch(w) \/ FetchText(w) \/ CommitRawKey(w) \/ PutRawObject(w)
           \/ EmbedChunks(w) \/ DiscardRawObject(w)
  <2>1. PICK pc \in Processing : Step(w, pc)
    BY <1>3 DEF StartFetch, FetchText, CommitRawKey, PutRawObject, EmbedChunks,
                DiscardRawObject, Processing
  <2>2. worker[w].pc \in Claimed
    BY <1>3 DEF StartFetch, FetchText, CommitRawKey, PutRawObject, EmbedChunks,
                DiscardRawObject, Processing, Claimed, At
  <2>3. UNCHANGED <<dispatch, event, producer, queue, repeated, attempts>>
    BY <1>3 DEF StartFetch, FetchText, CommitRawKey, PutRawObject, EmbedChunks,
                DiscardRawObject, broker
  <2> QED
    BY <1>1, <2>1, <2>2, <2>3, WorkerRecord
<1>4. CASE Load(w)
  <2>1. worker[w].pc \in Claimed
    BY <1>4 DEF Load, Processing, Claimed, At
  <2>2. UNCHANGED <<dispatch, event, producer, queue, repeated, attempts>>
    BY <1>4 DEF Load, broker
  <2>3. \/ Conclude(w, "finish", "deleted")
        \/ worker' = [worker EXCEPT ![w].pc = "meta",
                                    ![w].source = CaptureSource(Subject(w))]
    BY <1>4 DEF Load
  <2>4. /\ worker'[w].disp = worker[w].disp
        /\ \A v \in Worker : v # w => worker'[v] = worker[v]
    <3>1. CASE Conclude(w, "finish", "deleted")
      BY <1>1, <3>1, WorkerRecord
    <3>2. CASE worker' = [worker EXCEPT ![w].pc = "meta",
                                        ![w].source = CaptureSource(Subject(w))]
      BY <1>2, <3>2 DEF WorkerState
    <3> QED
      BY <2>3, <3>1, <3>2
  <2> QED
    BY <1>1, <2>1, <2>2, <2>4
<1>5. CASE FetchNoText(w) \/ IndexSegments(w) \/ MarkItemDeleted(w)
  <2>1. \E result : Conclude(w, "finish", result)
    BY <1>5 DEF FetchNoText, IndexSegments, MarkItemDeleted
  <2>2. worker[w].pc \in Claimed
    BY <1>5 DEF FetchNoText, IndexSegments, MarkItemDeleted, Processing, Claimed, At
  <2>3. UNCHANGED <<dispatch, event, producer, queue, repeated, attempts>>
    BY <1>5 DEF FetchNoText, IndexSegments, MarkItemDeleted, broker
  <2> QED
    BY <1>1, <2>1, <2>2, <2>3, WorkerRecord
<1>6. CASE ProcessRaises(w)
  <2>1. \/ Step(w, "release")
        \/ \E result : Conclude(w, "fail", result)
    BY <1>6 DEF ProcessRaises
  <2>2. worker[w].pc \in Claimed
    BY <1>6 DEF ProcessRaises, Claimed
  <2>3. UNCHANGED <<dispatch, event, producer, queue, repeated, attempts>>
    BY <1>6 DEF ProcessRaises, broker
  <2> QED
    BY <1>1, <2>1, <2>2, <2>3, WorkerRecord
<1>7. CASE FinishStale(w) \/ WorkerDies(w)
  <2>1. UNCHANGED <<dispatch, event, producer, queue, repeated, attempts>> /\ GoIdle(w)
    BY <1>7 DEF FinishStale, WorkerDies, broker
  <2> QED
    BY <1>1, <2>1, WorkerRecord DEF Claimed, Processing
<1>8. CASE FinishMismatch(w) \/ SettlementRaises(w)
  <2>1. /\ UNCHANGED <<dispatch, event, producer, queue, repeated, attempts>>
        /\ Conclude(w, "hook", "ingestion_failed")
    BY <1>8 DEF FinishMismatch, SettlementRaises, broker
  <2> QED
    BY <1>1, <2>1, WorkerRecord DEF Claimed, Processing
<1>9. CASE FinishDeleted(w) \/ FinishCompleted(w)
  <2>1. UNCHANGED <<producer, queue, repeated, attempts>> /\ GoIdle(w)
    BY <1>9 DEF FinishDeleted, FinishCompleted, broker
  <2>2. \A e \in Dispatch : e # worker[w].disp =>
            dispatch'[e] = dispatch[e] /\ event'[e] = event[e]
    BY <1>2, <1>9 DEF FinishDeleted, FinishCompleted, FailDispatch, CompleteDispatch,
                      EnsureEvent
  <2> QED
    BY <1>1, <2>1, <2>2, WorkerRecord DEF Claimed, Processing
<1>10. CASE ReleaseForRetry(w)
  <2>1. UNCHANGED <<event, producer, queue, repeated, attempts>> /\ Step(w, "again")
    BY <1>10 DEF ReleaseForRetry, broker
  <2>2. \A e \in Dispatch : e # worker[w].disp => dispatch'[e] = dispatch[e]
    BY <1>2, <1>10 DEF ReleaseForRetry
  <2> QED
    BY <1>1, <2>1, <2>2, WorkerRecord DEF Claimed, Processing
<1>11. CASE RetryTask(w)
  <2>1. UNCHANGED <<dispatch, event, producer, repeated, attempts>>
    BY <1>11 DEF RetryTask
  <2>2. \/ /\ queue' = queue \union {Sent(worker[w].disp, worker[w].retries + 1)}
           /\ GoIdle(w)
        \/ UNCHANGED queue /\ Conclude(w, "hook", "transient_fetch_failed")
    BY <1>11 DEF RetryTask
  <2> QED
    BY <1>1, <2>1, <2>2, WorkerRecord DEF Claimed, Processing
<1>12. CASE FailRun(w) \/ OnFailure(w)
  <2>1. UNCHANGED <<producer, queue, repeated, attempts>>
    BY <1>12 DEF FailRun, OnFailure, broker
  <2>2. \/ Conclude(w, "hook", "ingestion_failed") \/ GoIdle(w)
    BY <1>12 DEF FailRun, OnFailure
  <2>3. MarkDispatchFailed(worker[w].disp, worker[w].result)
    BY <1>12 DEF FailRun, OnFailure
  <2>4. \A e \in Dispatch : e # worker[w].disp =>
            dispatch'[e] = dispatch[e] /\ event'[e] = event[e]
    BY <1>2, <2>3 DEF MarkDispatchFailed, FailDispatch, CompleteDispatch, EnsureEvent
  <2> QED
    BY <1>1, <2>1, <2>2, <2>4, WorkerRecord DEF Claimed, Processing
<1> QED
  BY <1>3, <1>4, <1>5, <1>6, <1>7, <1>8, <1>9, <1>10, <1>11, <1>12 DEF WorkerStep

\* A publisher writes its own attempt, sends it once, and touches none that runs.
LEMMA ProducerHands ==
  ASSUME IInv, NEW d \in Dispatch,
         \/ UploadCapture(d) \/ UploadFails(d) \/ MarkCaptureReady(d)
         \/ Publish(d) \/ PublishRaises(d) \/ MarkEnqueued(d)
         \/ SubmitUnpublished(d) \/ RetryUnpublished(d)
         \/ WebUnpublished(d) \/ CaptureUnpublished(d) \/ ProducerDies(d)
  PROVE  /\ UNCHANGED <<worker, repeated, attempts, event>>
         /\ \A e \in Dispatch : e # d =>
                dispatch'[e] = dispatch[e] /\ producer'[e] = producer[e]
         /\ producer[d].pc # "idle"
         /\ dispatch[d].state # "pending" => dispatch'[d] = dispatch[d]
         /\ producer'[d].pc \in {"upload", "stage", "publish", "unstored"} =>
                /\ producer[d].pc \in {"upload", "stage", "publish", "unstored"}
                /\ UNCHANGED <<dispatch, queue>>
         /\ \/ UNCHANGED queue
            \/ producer[d].pc = "publish" /\ queue' = queue \union {Sent(d, 0)}
<1>1. /\ dispatch \in [Dispatch -> DispatchRow] /\ producer \in [Dispatch -> Producer]
      /\ dispatch[d] \in DispatchRow
  BY DEF IInv, Typed, TypeOK
<1>2. CASE UploadCapture(d) \/ UploadFails(d) \/ MarkCaptureReady(d)
  <2>1. PICK pc \in {"stage", "publish", "unstored"} : Proceed(d, pc)
    BY <1>2 DEF UploadCapture, UploadFails, MarkCaptureReady
  <2>2. producer[d].pc \in {"upload", "stage"}
    BY <1>2 DEF UploadCapture, UploadFails, MarkCaptureReady, Publishing
  <2>3. UNCHANGED <<dispatch, event, attempts, queue, repeated, worker>>
    BY <1>2 DEF UploadCapture, UploadFails, MarkCaptureReady, broker
  <2> QED
    BY <1>1, <2>1, <2>2, <2>3 DEF Proceed, Producer
<1>3. CASE Publish(d) \/ PublishRaises(d)
  <2>1. PICK pc \in {"accepted", "rejected"} : Proceed(d, pc)
    BY <1>3 DEF Publish, PublishRaises
  <2>2. producer[d].pc = "publish"
    BY <1>3 DEF Publish, PublishRaises, Publishing
  <2>3. /\ UNCHANGED <<dispatch, event, attempts, repeated, worker>>
        /\ UNCHANGED queue \/ queue' = queue \union {Sent(d, 0)}
    BY <1>3 DEF Publish, PublishRaises
  <2> QED
    BY <1>1, <2>1, <2>2, <2>3 DEF Proceed, Producer
<1>4. CASE MarkEnqueued(d) \/ ProducerDies(d)
  <2>1. /\ \/ dispatch' = [dispatch EXCEPT ![d].state =
                               IF @ = "pending" THEN "enqueued" ELSE @]
           \/ UNCHANGED dispatch
        /\ Return(d) /\ producer[d].pc # "idle"
    BY <1>4 DEF MarkEnqueued, ProducerDies, Publishing
  <2>2. UNCHANGED <<event, attempts, queue, repeated, worker>>
    BY <1>4 DEF MarkEnqueued, ProducerDies, broker
  <2>3. /\ \A e \in Dispatch : e # d => dispatch'[e] = dispatch[e]
        /\ dispatch[d].state # "pending" => dispatch'[d] = dispatch[d]
    BY <1>1, <2>1, RowsTyped DEF DispatchRow
  <2> QED
    BY <1>1, <2>1, <2>2, <2>3 DEF Return, NoProducer
<1>5. CASE \/ SubmitUnpublished(d) \/ RetryUnpublished(d)
           \/ WebUnpublished(d) \/ CaptureUnpublished(d)
  <2>1. /\ \E code : dispatch' = [dispatch EXCEPT ![d] = Compensated(d, code)]
        /\ Return(d) /\ producer[d].pc # "idle"
    BY <1>5 DEF SubmitUnpublished, RetryUnpublished, WebUnpublished,
                CaptureUnpublished, Publishing
  <2>2. UNCHANGED <<event, attempts, queue, repeated, worker>>
    BY <1>5 DEF SubmitUnpublished, RetryUnpublished, WebUnpublished,
                CaptureUnpublished, broker
  <2>3. /\ \A e \in Dispatch : e # d => dispatch'[e] = dispatch[e]
        /\ dispatch[d].state # "pending" => dispatch'[d] = dispatch[d]
    BY <1>1, <2>1 DEF Compensated
  <2> QED
    BY <1>1, <2>1, <2>2, <2>3 DEF Return, NoProducer
<1> QED
  BY <1>2, <1>3, <1>4, <1>5

\* A delivery passes an attempt from the broker to a worker that was idle.
LEMMA DeliveryHands ==
  ASSUME IInv, NEW w \in Worker, NEW m \in queue,
         \/ ClaimRefused(w, m) \/ ClaimDeleted(w, m) \/ ClaimDispatch(w, m)
         \/ ClaimRaises(w, m)
  PROVE  /\ worker[w].pc = "idle"
         /\ \A v \in Worker : v # w => worker'[v] = worker[v]
         /\ \A e \in Dispatch : e # m.disp =>
                dispatch'[e] = dispatch[e] /\ event'[e] = event[e]
         /\ UNCHANGED <<producer, attempts, objects>>
         /\ worker'[w].pc # "idle" => worker'[w].disp = m.disp
         /\ worker'[w].pc \in Claimed =>
                worker'[w].pc = "load" /\ dispatch'[m.disp].state = "running"
         /\ \/ queue' = queue \ {m} /\ UNCHANGED repeated
            \/ UNCHANGED queue /\ repeated' = repeated \union {m.disp}
<1>1. /\ m.disp \in Dispatch
      /\ dispatch \in [Dispatch -> DispatchRow] /\ event \in [Dispatch -> EventRow]
      /\ worker \in [Worker -> WorkerState]
  BY Names DEF IInv, Typed, TypeOK
<1>2. Take(w, m) /\ UNCHANGED <<producer, attempts, objects>>
  BY DEF ClaimRefused, ClaimDeleted, ClaimDispatch, ClaimRaises
<1>3. /\ worker[w].pc = "idle"
      /\ \/ queue' = queue \ {m} /\ UNCHANGED repeated
         \/ UNCHANGED queue /\ repeated' = repeated \union {m.disp}
  BY <1>2 DEF Take
<1>4. CASE ClaimRefused(w, m)
  <2>1. UNCHANGED <<dispatch, event, worker>>
    BY <1>4 DEF ClaimRefused
  <2> QED
    BY <1>2, <1>3, <2>1 DEF Claimed, Processing
<1>5. CASE ClaimDeleted(w, m)
  <2>1. UNCHANGED worker
    BY <1>5 DEF ClaimDeleted
  <2>2. \A e \in Dispatch : e # m.disp =>
            dispatch'[e] = dispatch[e] /\ event'[e] = event[e]
    BY <1>1, <1>5 DEF ClaimDeleted, FailDispatch, EnsureEvent
  <2> QED
    BY <1>2, <1>3, <2>1, <2>2 DEF Claimed, Processing
<1>6. ASSUME NEW pc, NEW result, Begin(w, m, pc, result)
      PROVE  /\ worker'[w].pc = pc /\ worker'[w].disp = m.disp
             /\ \A v \in Worker : v # w => worker'[v] = worker[v]
  BY <1>1, <1>6 DEF Begin
<1>7. CASE ClaimDispatch(w, m)
  <2>1. Begin(w, m, "load", "none") /\ UNCHANGED event
    BY <1>7 DEF ClaimDispatch
  <2>2. /\ dispatch'[m.disp].state = "running"
        /\ \A e \in Dispatch : e # m.disp => dispatch'[e] = dispatch[e]
    BY <1>1, <1>7 DEF ClaimDispatch, DispatchRow
  <2> QED
    BY <1>2, <1>3, <1>6, <2>1, <2>2
<1>8. CASE ClaimRaises(w, m)
  <2>1. Begin(w, m, "hook", "ingestion_failed") /\ UNCHANGED <<dispatch, event>>
    BY <1>8 DEF ClaimRaises
  <2> QED
    BY <1>2, <1>3, <1>6, <2>1 DEF Claimed, Processing
<1> QED
  BY <1>4, <1>5, <1>7, <1>8

\* A request writes the row of one item: it moves it between shelves, makes it
\* failed where it was pending, or admits an attempt that waits with it.
RowMoved(i, row) ==
    /\ item' = [item EXCEPT ![i] = row]
    /\ row.raw = item[i].raw
    /\ \/ row.state = item[i].state
       \/ item[i].state = "pending" /\ row.state = "failed"
    /\ UNCHANGED <<attempts, dispatch, event, producer>>

Admitted(i, key, row, p) ==
    /\ Admission(i, key)
    /\ item' = [item EXCEPT ![i] = row]
    /\ row.state = "pending"
    /\ producer' = [producer EXCEPT ![<<i, attempts[i] + 1>>] = p]

\* Every request does one of the two, and touches neither broker nor workers.
LEMMA RequestHands ==
  ASSUME IInv, RequestStep
  PROVE  /\ UNCHANGED <<queue, repeated, objects, worker>>
         /\ \E i \in Item :
                \/ \E row \in ItemRow : RowMoved(i, row)
                \/ \E key \in Key, row \in ItemRow, p \in Producer :
                       Admitted(i, key, row, p)
<1>1. PICK i \in Item, k \in Request :
                    \/ SubmitNew(i, <<"save", k>>)
                    \/ SubmitAgain(i, <<"save", k>>)
                    \/ SubmitRestores(i, <<"save", k>>)
                    \/ WebRetry(i, <<"save", k>>)
                    \/ RetryItem(i, <<"retry", k>>)
                    \/ RetryReplay(i, <<"retry", k>>)
                    \/ CaptureRestores(i, <<"extension", k>>)
                    \/ \E cued \in BOOLEAN : CaptureAdmit(i, <<"extension", k>>, cued)
  BY DEF RequestStep
<1> <<"save", k>> \in Key /\ <<"retry", k>> \in Key /\ <<"extension", k>> \in Key
  BY DEF Key
<1>2. item[i] \in ItemRow /\ item \in [Item -> ItemRow]
  BY DEF IInv, Typed, TypeOK
<1>3. /\ Pending(i) \in ItemRow /\ Restored(Pending(i)) \in ItemRow
      /\ Pending(i).state = "pending" /\ Restored(Pending(i)).state = "pending"
      /\ Restored(item[i]) \in ItemRow
      /\ Restored(item[i]).state = item[i].state /\ Restored(item[i]).raw = item[i].raw
  BY <1>2 DEF ItemRow, Pending, Restored
<1>4. CASE SubmitRestores(i, <<"save", k>>) \/ CaptureRestores(i, <<"extension", k>>)
  <2>1. /\ item' = [item EXCEPT ![i] = Restored(item[i])]
        /\ UNCHANGED <<attempts, dispatch, event, producer, broker, objects, worker>>
    BY <1>4 DEF SubmitRestores, CaptureRestores
  <2> QED
    BY <1>3, <2>1 DEF RowMoved, broker
<1>5. CASE RetryReplay(i, <<"retry", k>>)
  <2> DEFINE row == [item[i] EXCEPT !.state = "failed"]
  <2>1. /\ item' = [item EXCEPT ![i] = row] /\ item[i].state = "pending"
        /\ UNCHANGED <<attempts, dispatch, event, producer, broker, objects, worker>>
    BY <1>5 DEF RetryReplay, SplitState
  <2>2. row \in ItemRow /\ row.raw = item[i].raw /\ row.state = "failed"
    BY <1>2 DEF ItemRow
  <2> HIDE DEF row
  <2> QED
    BY <2>1, <2>2 DEF RowMoved, broker
<1>6. ASSUME NEW key \in Key, NEW via \in {"submit", "retry", "web", "capture"},
             NEW cued \in BOOLEAN, NEW row \in ItemRow, row.state = "pending",
             Admit(i, key, via, cued, row), ~HasActive(i), Replay(i, key) = {}
      PROVE  /\ UNCHANGED <<queue, repeated, objects, worker>>
             /\ \E p \in Producer : Admitted(i, key, row, p)
  <2>1. PICK pc \in {"publish", "upload", "stage"} :
             pc = IF via # "capture" THEN "publish"
                  ELSE IF cued THEN "upload" ELSE "stage"
    OBVIOUS
  <2> DEFINE p == [via |-> via, pc |-> pc]
  <2>2. p \in Producer
    BY DEF Producer
  <2>3. Admitted(i, key, row, p)
    BY <1>6, <2>1 DEF Admit, Admitted, Admission
  <2> HIDE DEF p
  <2> QED
    BY <1>6, <2>2, <2>3 DEF Admit, broker
<1>7. CASE SubmitNew(i, <<"save", k>>)
  <2>1. ~HasActive(i) /\ Replay(i, <<"save", k>>) = {}
    BY <1>7, UntriedItem DEF SubmitNew, IInv, NewItemsUntried
  <2> QED
    BY <1>3, <1>6, <1>7, <2>1 DEF SubmitNew
<1>8. CASE SubmitAgain(i, <<"save", k>>)
  <2>1. ~HasActive(i) /\ Replay(i, <<"save", k>>) = {}
    BY <1>8, NewestInactive DEF SubmitAgain, IInv, Active
  <2> QED
    BY <1>3, <1>6, <1>8, <2>1 DEF SubmitAgain
<1>9. CASE WebRetry(i, <<"save", k>>)
  <2>1. ~HasActive(i) /\ Replay(i, <<"save", k>>) = {}
    BY <1>9, NewestInactive DEF WebRetry, IInv
  <2> QED
    BY <1>3, <1>6, <1>9, <2>1 DEF WebRetry
<1>10. CASE RetryItem(i, <<"retry", k>>)
  <2>1. ~HasActive(i) /\ Replay(i, <<"retry", k>>) = {}
    BY <1>10, NewestInactive DEF RetryItem, IInv
  <2> QED
    BY <1>3, <1>6, <1>10, <2>1 DEF RetryItem
<1>11. ASSUME NEW cued \in BOOLEAN, CaptureAdmit(i, <<"extension", k>>, cued)
       PROVE  /\ UNCHANGED <<queue, repeated, objects, worker>>
              /\ \E key \in Key, row \in ItemRow, p \in Producer :
                     Admitted(i, key, row, p)
  <2> DEFINE row == [state |-> "pending", shelf |-> "live",
                     raw |-> IF cued THEN "capture" ELSE "none"]
  <2>1. row \in ItemRow /\ row.state = "pending"
    BY DEF ItemRow, ObjectName
  <2>2. /\ Admit(i, <<"extension", k>>, "capture", cued, row)
        /\ ~HasActive(i) /\ Replay(i, <<"extension", k>>) = {}
    BY <1>11 DEF CaptureAdmit, CaptureReplayed
  <2> HIDE DEF row
  <2> QED
    BY <1>6, <2>1, <2>2
<1> QED
  BY <1>1, <1>4, <1>5, <1>7, <1>8, <1>9, <1>10, <1>11

\* Where nobody gets an attempt in hand, no attempt gets in two hands.
LEMMA NoNewHands ==
  ASSUME CarriedOnce, queue' \subseteq queue, repeated \subseteq repeated',
         \A w \in Worker, d \in Dispatch : Holds(w, d)' => Holds(w, d)
  PROVE  CarriedOnce'
<1> SUFFICES ASSUME NEW d \in Dispatch, d \notin repeated'
             PROVE  /\ \A m, n \in queue' : m.disp = d /\ n.disp = d => m = n
                    /\ \A v, w \in Worker : Holds(v, d)' /\ Holds(w, d)' => v = w
                    /\ \A m \in queue', w \in Worker : m.disp = d => ~Holds(w, d)'
  BY DEF CarriedOnce, Holds
<1> QED
  BY DEF CarriedOnce

\* The hands pass attempts on as a request leaves them, or admits one that nobody
\* has in hand.
LEMMA RequestKeepsHands ==
  ASSUME IInv, HandsInv, RequestStep
  PROVE  HandsInv'
<1>1. UNCHANGED <<queue, repeated, worker>>
  BY RequestHands
<1>2. CarriedOnce'
  BY <1>1 DEF HandsInv, CarriedOnce, Holds
<1>3. CASE UNCHANGED <<dispatch, producer>>
  BY <1>1, <1>2, <1>3 DEF HandsInv, PublishedFirst, ClaimsLast, Unsent, Holds
<1>4. ASSUME NEW i \in Item, NEW key \in Key, NEW row \in ItemRow, NEW p \in Producer,
             Admitted(i, key, row, p)
      PROVE  HandsInv'
  <2> DEFINE new == <<i, attempts[i] + 1>>
  <2>0. Admission(i, key)
    BY <1>4 DEF Admitted
  <2>1. /\ new \in Dispatch /\ dispatch[new].state = "none"
        /\ dispatch'[new] = [state |-> "pending", error |-> "none", key |-> key]
        /\ \A d \in Dispatch : d # new => dispatch'[d] = dispatch[d]
    BY <2>0, AdmissionRows
  <2>2. \A d \in Dispatch : d # new => producer'[d] = producer[d]
    BY <1>4 DEF Admitted, IInv, Typed, TypeOK
  <2> HIDE DEF new
  <2>3. PublishedFirst'
    <3> SUFFICES ASSUME NEW d \in Dispatch, Unsent(d)'
                 PROVE  /\ dispatch'[d].state \in {"none", "pending"}
                        /\ dispatch'[d].state = "none" => producer'[d] = NoProducer
                        /\ \A m \in queue : m.disp # d
                        /\ \A w \in Worker : ~Holds(w, d)
      BY <1>1 DEF PublishedFirst, Holds
    <3>1. CASE d = new
      BY <2>1, <3>1 DEF HandsInv, PublishedFirst, Unsent
    <3>2. CASE d # new
      BY <2>1, <2>2, <3>2 DEF HandsInv, PublishedFirst, Unsent
    <3> QED
      BY <3>1, <3>2
  <2>4. ClaimsLast'
    <3> SUFFICES ASSUME NEW w \in Worker, worker[w].pc \in Claimed,
                        worker[w].disp \notin repeated
                 PROVE  dispatch'[worker[w].disp].state = "running"
      BY <1>1 DEF ClaimsLast
    <3>1. worker[w].disp \in Dispatch /\ dispatch[worker[w].disp].state = "running"
      BY Names DEF HandsInv, ClaimsLast, Claimed, Processing
    <3> QED
      BY <2>1, <3>1
  <2> QED
    BY <1>2, <2>3, <2>4 DEF HandsInv
<1> QED
  BY <1>3, <1>4, RequestHands DEF RowMoved

\* A publisher hands its attempt to the broker once.
LEMMA ProducerKeepsHands ==
  ASSUME IInv, HandsInv, NEW d \in Dispatch,
         \/ UploadCapture(d) \/ UploadFails(d) \/ MarkCaptureReady(d)
         \/ Publish(d) \/ PublishRaises(d) \/ MarkEnqueued(d)
         \/ SubmitUnpublished(d) \/ RetryUnpublished(d)
         \/ WebUnpublished(d) \/ CaptureUnpublished(d) \/ ProducerDies(d)
  PROVE  HandsInv'
<1>1. /\ UNCHANGED <<worker, repeated>>
      /\ \A e \in Dispatch : e # d =>
             dispatch'[e] = dispatch[e] /\ producer'[e] = producer[e]
      /\ producer[d].pc # "idle"
      /\ dispatch[d].state # "pending" => dispatch'[d] = dispatch[d]
      /\ producer'[d].pc \in {"upload", "stage", "publish", "unstored"} =>
             /\ producer[d].pc \in {"upload", "stage", "publish", "unstored"}
             /\ UNCHANGED <<dispatch, queue>>
      /\ \/ UNCHANGED queue
         \/ producer[d].pc = "publish" /\ queue' = queue \union {Sent(d, 0)}
  BY ProducerHands
<1>2. dispatch[d].state # "none" /\ dispatch'[d].state # "none"
  <2>1. dispatch[d].state # "none"
    BY <1>1 DEF HandsInv, PublishedFirst, Unsent, NoProducer
  <2>2. RowKept(d)
    BY ProducerRows, RowStepKeeps
  <2> QED
    BY <2>1, <2>2 DEF RowKept
<1>3. Sent(d, 0).disp = d
  BY Names
<1>4. CarriedOnce'
  <2>1. CASE UNCHANGED queue
    BY <1>1, <2>1 DEF HandsInv, CarriedOnce, Holds
  <2>2. CASE producer[d].pc = "publish" /\ queue' = queue \union {Sent(d, 0)}
    <3>1. /\ \A m \in queue : m.disp # d
          /\ \A w \in Worker : ~Holds(w, d)
      BY <2>2 DEF HandsInv, PublishedFirst, Unsent
    <3> SUFFICES ASSUME NEW e \in Dispatch, e \notin repeated
                 PROVE  /\ \A m, n \in queue' : m.disp = e /\ n.disp = e => m = n
                        /\ \A v, w \in Worker : Holds(v, e) /\ Holds(w, e) => v = w
                        /\ \A m \in queue', w \in Worker : m.disp = e => ~Holds(w, e)
      BY <1>1 DEF CarriedOnce, Holds
    <3> QED
      BY <1>3, <2>2, <3>1 DEF HandsInv, CarriedOnce
  <2> QED
    BY <1>1, <2>1, <2>2
<1>5. PublishedFirst'
  <2> SUFFICES ASSUME NEW e \in Dispatch, Unsent(e)'
               PROVE  /\ dispatch'[e].state \in {"none", "pending"}
                      /\ dispatch'[e].state = "none" => producer'[e] = NoProducer
                      /\ \A m \in queue' : m.disp # e
                      /\ \A w \in Worker : ~Holds(w, e)
    BY <1>1 DEF PublishedFirst, Holds
  <2>1. CASE e = d
    BY <1>1, <1>2, <2>1 DEF HandsInv, PublishedFirst, Unsent
  <2>2. CASE e # d
    BY <1>1, <1>3, <2>2 DEF HandsInv, PublishedFirst, Unsent
  <2> QED
    BY <2>1, <2>2
<1>6. ClaimsLast'
  <2> SUFFICES ASSUME NEW w \in Worker, worker[w].pc \in Claimed,
                      worker[w].disp \notin repeated
               PROVE  dispatch'[worker[w].disp].state = "running"
    BY <1>1 DEF ClaimsLast
  <2>1. worker[w].disp \in Dispatch /\ dispatch[worker[w].disp].state = "running"
    BY Names DEF HandsInv, ClaimsLast, Claimed, Processing
  <2> QED
    BY <1>1, <2>1
<1> QED
  BY <1>4, <1>5, <1>6 DEF HandsInv

\* A delivery takes the attempt out of the broker's hands.
LEMMA DeliveryKeepsHands ==
  ASSUME IInv, HandsInv, NEW w \in Worker, NEW m \in queue,
         \/ ClaimRefused(w, m) \/ ClaimDeleted(w, m) \/ ClaimDispatch(w, m)
         \/ ClaimRaises(w, m)
  PROVE  HandsInv'
<1> DEFINE d == m.disp
<1>1. /\ worker[w].pc = "idle"
      /\ \A v \in Worker : v # w => worker'[v] = worker[v]
      /\ \A e \in Dispatch : e # d => dispatch'[e] = dispatch[e]
      /\ UNCHANGED producer
      /\ worker'[w].pc # "idle" => worker'[w].disp = d
      /\ worker'[w].pc \in Claimed => dispatch'[d].state = "running"
      /\ \/ queue' = queue \ {m} /\ UNCHANGED repeated
         \/ UNCHANGED queue /\ repeated' = repeated \union {d}
  BY DeliveryHands
<1>2. d \in Dispatch
  BY Names
<1>3. ~Unsent(d)
  BY <1>2 DEF HandsInv, PublishedFirst
<1>4. dispatch'[d].state = "none" <=> dispatch[d].state = "none"
  BY <1>2, DeliveryRows, RowStepKeeps DEF RowKept
<1> HIDE DEF d
<1>5. \A v \in Worker, e \in Dispatch : Holds(v, e)' => (Holds(v, e) \/ (v = w /\ e = d))
  BY <1>1 DEF Holds
<1>6. CarriedOnce'
  <2> SUFFICES ASSUME NEW e \in Dispatch, e \notin repeated'
               PROVE  /\ \A n, o \in queue' : n.disp = e /\ o.disp = e => n = o
                      /\ \A u, v \in Worker : Holds(u, e)' /\ Holds(v, e)' => u = v
                      /\ \A n \in queue', v \in Worker : n.disp = e => ~Holds(v, e)'
    BY DEF CarriedOnce, Holds
  <2>1. e \notin repeated /\ queue' \subseteq queue
    BY <1>1
  <2>2. CASE e = d
    <3>1. queue' = queue \ {m}
      BY <1>1, <2>2
    <3>2. /\ \A n \in queue : n.disp = d => n = m
          /\ \A v \in Worker : ~Holds(v, d)
      BY <1>2, <2>1, <2>2 DEF HandsInv, CarriedOnce, d
    <3> QED
      BY <1>5, <2>2, <3>1, <3>2
  <2>3. CASE e # d
    BY <1>5, <2>1, <2>3 DEF HandsInv, CarriedOnce
  <2> QED
    BY <2>2, <2>3
<1>7. PublishedFirst'
  <2> SUFFICES ASSUME NEW e \in Dispatch, Unsent(e)'
               PROVE  /\ dispatch'[e].state \in {"none", "pending"}
                      /\ dispatch'[e].state = "none" => producer'[e] = NoProducer
                      /\ \A n \in queue' : n.disp # e
                      /\ \A v \in Worker : ~Holds(v, e)'
    BY DEF PublishedFirst, Holds
  <2>1. e # d
    BY <1>1, <1>3, <1>4 DEF Unsent
  <2>2. Unsent(e) /\ queue' \subseteq queue
    BY <1>1, <2>1 DEF Unsent
  <2> QED
    BY <1>1, <1>5, <2>1, <2>2 DEF HandsInv, PublishedFirst
<1>8. ClaimsLast'
  <2> SUFFICES ASSUME NEW v \in Worker, worker'[v].pc \in Claimed,
                      worker'[v].disp \notin repeated'
               PROVE  dispatch'[worker'[v].disp].state = "running"
    BY DEF ClaimsLast
  <2>1. CASE v = w
    BY <1>1, <2>1 DEF Claimed, Processing
  <2>2. CASE v # w
    <3>1. /\ worker[v].disp \in Dispatch /\ worker[v].disp \notin repeated
          /\ dispatch[worker[v].disp].state = "running"
          /\ Holds(v, worker[v].disp)
      BY <1>1, <2>2, Names DEF HandsInv, ClaimsLast, Claimed, Processing, Holds
    <3>2. worker[v].disp # d
      BY <1>2, <3>1 DEF HandsInv, CarriedOnce, d
    <3> QED
      BY <1>1, <2>2, <3>1, <3>2
  <2> QED
    BY <2>1, <2>2
<1> QED
  BY <1>6, <1>7, <1>8 DEF HandsInv

\* A worker keeps its attempt in hand, gives it back to the broker or drops it.
LEMMA WorkerKeepsHands ==
  ASSUME IInv, HandsInv, NEW w \in Worker, WorkerStep(w) \/ WorkerDies(w)
  PROVE  HandsInv'
<1>0. worker[w].pc # "idle" /\ worker[w].disp \in Dispatch
  BY WorkerHands, Names
<1> PICK d \in Dispatch : d = worker[w].disp
  BY <1>0
<1>1. /\ worker[w].pc # "idle"
      /\ \A v \in Worker : v # w => worker'[v] = worker[v]
      /\ \A e \in Dispatch : e # d => dispatch'[e] = dispatch[e]
      /\ UNCHANGED <<producer, repeated>>
      /\ worker'[w].pc # "idle" => worker'[w].disp = d
      /\ worker'[w].pc \in Claimed => worker[w].pc \in Claimed /\ UNCHANGED dispatch
      /\ \/ UNCHANGED queue
         \/ /\ worker'[w].pc = "idle"
            /\ \E r : queue' = queue \union {Sent(d, r)}
  BY WorkerHands
<1>2. Holds(w, d) /\ (\A r : Sent(d, r).disp = d)
  BY <1>1, Names DEF Holds
<1>3. ~Unsent(d)
  BY <1>2 DEF HandsInv, PublishedFirst
<1>4. dispatch'[d].state = "none" <=> dispatch[d].state = "none"
  BY <1>2, WorkerRows, RowStepKeeps DEF RowKept
<1>5. \A v \in Worker, e \in Dispatch : Holds(v, e)' => Holds(v, e)
  BY <1>1, <1>2 DEF Holds
<1>6. CarriedOnce'
  <2>1. CASE UNCHANGED queue
    BY <1>1, <1>5, <2>1, NoNewHands DEF HandsInv
  <2>2. ASSUME NEW r, worker'[w].pc = "idle", queue' = queue \union {Sent(d, r)}
        PROVE  CarriedOnce'
    <3> SUFFICES ASSUME NEW e \in Dispatch, e \notin repeated
                 PROVE  /\ \A n, o \in queue' : n.disp = e /\ o.disp = e => n = o
                        /\ \A u, v \in Worker : Holds(u, e)' /\ Holds(v, e)' => u = v
                        /\ \A n \in queue', v \in Worker : n.disp = e => ~Holds(v, e)'
      BY <1>1 DEF CarriedOnce, Holds
    <3>1. CASE e = d
      <4>1. /\ \A n \in queue : n.disp # d
            /\ \A v \in Worker : Holds(v, d) => v = w
        BY <1>2, <3>1 DEF HandsInv, CarriedOnce
      <4>2. \A v \in Worker : ~Holds(v, d)'
        <5>1. ~Holds(w, d)'
          BY <2>2 DEF Holds
        <5> QED
          BY <1>2, <1>5, <4>1, <5>1
      <4>3. \A n, o \in queue' : n.disp = d /\ o.disp = d => n = o
        BY <2>2, <4>1
      <4> QED
        BY <3>1, <4>2, <4>3
    <3>2. CASE e # d
      BY <1>2, <1>5, <2>2, <3>2 DEF HandsInv, CarriedOnce
    <3> QED
      BY <3>1, <3>2
  <2> QED
    BY <1>1, <2>1, <2>2
<1>7. PublishedFirst'
  <2> SUFFICES ASSUME NEW e \in Dispatch, Unsent(e)'
               PROVE  /\ dispatch'[e].state \in {"none", "pending"}
                      /\ dispatch'[e].state = "none" => producer'[e] = NoProducer
                      /\ \A n \in queue' : n.disp # e
                      /\ \A v \in Worker : ~Holds(v, e)'
    BY DEF PublishedFirst, Holds
  <2>1. e # d
    BY <1>1, <1>3, <1>4 DEF Unsent
  <2>2. Unsent(e) /\ (\A n \in queue' : n \in queue \/ n.disp = d)
    BY <1>1, <1>2, <2>1 DEF Unsent
  <2> QED
    BY <1>1, <1>5, <2>1, <2>2 DEF HandsInv, PublishedFirst
<1>8. ClaimsLast'
  <2> SUFFICES ASSUME NEW v \in Worker, worker'[v].pc \in Claimed,
                      worker'[v].disp \notin repeated
               PROVE  dispatch'[worker'[v].disp].state = "running"
    BY <1>1 DEF ClaimsLast
  <2>1. CASE v = w
    BY <1>1, <2>1 DEF HandsInv, ClaimsLast, Claimed, Processing
  <2>2. CASE v # w
    <3>1. /\ worker[v].disp \in Dispatch /\ worker[v].disp \notin repeated
          /\ dispatch[worker[v].disp].state = "running"
          /\ Holds(v, worker[v].disp)
      BY <1>1, <2>2, Names DEF HandsInv, ClaimsLast, Claimed, Processing, Holds
    <3>2. worker[v].disp # d
      BY <1>2, <2>2, <3>1 DEF HandsInv, CarriedOnce
    <3> QED
      BY <1>1, <2>2, <3>1, <3>2
  <2> QED
    BY <2>1, <2>2
<1> QED
  BY <1>6, <1>7, <1>8 DEF HandsInv

\* Hands stay as they are through every step.
LEMMA HandsKept == IInv /\ HandsInv /\ [Next]_vars => HandsInv'
<1> SUFFICES ASSUME IInv, HandsInv, [Next]_vars PROVE HandsInv'
  OBVIOUS
<1>1. CASE UNCHANGED vars \/ ShelfStep
  <2>1. UNCHANGED <<dispatch, producer, queue, repeated, worker>>
    BY <1>1 DEF vars, broker, ShelfStep, SoftDelete, Restore, Archive, Unarchive,
                RetentionEnds, MoveShelf
  <2> QED
    BY <2>1 DEF HandsInv, CarriedOnce, PublishedFirst, ClaimsLast, Unsent, Holds
<1> QED
  BY <1>1, RequestKeepsHands, ProducerKeepsHands, DeliveryKeepsHands, WorkerKeepsHands
     DEF Next, ProducerStep, DeliveryStep, FaultStep

\* At first there is no attempt to have in hand.
LEMMA InitHands == Init => HandsInv
  BY DEF Init, HandsInv, CarriedOnce, PublishedFirst, ClaimsLast, Unsent, Holds,
         NoDispatch, NoProducer, IdleWorker, Claimed, Processing

--------------------------------------------------------------------------------
(* One worker at a time *)

\* An active attempt is the newest of its item, and no other is active.
LEMMA OthersOver ==
  ASSUME IInv, NEW d \in Dispatch, dispatch[d].state \in Active
  PROVE  /\ IsLatest(d)
         /\ \A e \in Dispatch : ItemOf(e) = ItemOf(d) /\ e # d =>
                dispatch[e].state \notin Active /\ ~IsLatest(e)
  BY DEF IInv, RowsInOrder, IsLatest, ItemOf, Dispatch

\* Of the attempts of an item that were delivered once, at most one is claimed,
\* and by one worker, which the row knows to be running.
LEMMA ClaimedAlone ==
  ASSUME IInv, HandsInv, NEW w \in Worker, worker[w].pc \in Claimed,
         DeliveredOnce(Subject(w))
  PROVE  /\ worker[w].disp \in Dispatch
         /\ dispatch[worker[w].disp].state = "running"
         /\ \A v \in Worker : worker[v].pc \in Claimed /\ Subject(v) = Subject(w)
                => v = w
<1>1. ASSUME NEW v \in Worker, worker[v].pc \in Claimed, Subject(v) = Subject(w)
      PROVE  /\ worker[v].disp \in Dispatch /\ worker[v].disp \notin repeated
             /\ dispatch[worker[v].disp].state = "running" /\ Holds(v, worker[v].disp)
  <2>1. worker[v].pc # "idle"
    BY <1>1 DEF Claimed, Processing
  <2>2. worker[v].disp \in Dispatch /\ worker[v].disp \notin repeated
    BY <1>1, <2>1, Names DEF DeliveredOnce, Subject
  <2> QED
    BY <1>1, <2>1, <2>2 DEF HandsInv, ClaimsLast, Holds
<1>2. ASSUME NEW v \in Worker, worker[v].pc \in Claimed, Subject(v) = Subject(w)
      PROVE  v = w
  <2>1. worker[v].disp = worker[w].disp
    BY <1>1, <1>2, OthersOver DEF Active, Subject
  <2> QED
    BY <1>1, <1>2, <2>1 DEF HandsInv, CarriedOnce
<1> QED
  BY <1>1, <1>2

\* So two workers never process one item.
LEMMA ClaimsExclude == IInv /\ HandsInv => ExclusiveIngestion
  BY ClaimedAlone DEF ExclusiveIngestion, Claimed

\* While an attempt waits, no worker processes its item.
LEMMA WaitingUnclaimed ==
  ASSUME IInv, HandsInv, NEW i \in Item, DeliveredOnce(i),
         \A d \in Dispatch : ItemOf(d) = i => dispatch[d].state # "running"
  PROVE  \A w \in Worker : Busy(w) => Subject(w) # i
  BY ClaimedAlone DEF Busy, Claimed, Subject

--------------------------------------------------------------------------------
(* Steps that leave an item as it was, for all its attempts and workers know *)

\* Its rows are the same, but that it may have failed instead of waiting.
RowsCalm(i) ==
    /\ attempts'[i] = attempts[i]
    /\ \A d \in Dispatch : ItemOf(d) = i =>
           dispatch'[d] = dispatch[d] /\ event'[d] = event[d]
    /\ \/ item'[i].state = item[i].state
       \/ item[i].state = "pending" /\ item'[i].state = "failed"

\* It keeps its objects and is not ready if it was not.
Kept(i) ==
    /\ item'[i].raw = item[i].raw
    /\ item'[i].state = "ready" => item[i].state = "ready"
    /\ \A name : <<i, name>> \in objects => <<i, name>> \in objects'

\* The workers that process it stand still.
WorkersCalm(i) ==
    \A w \in Worker : Busy(w)' /\ Subject(w)' = i => worker'[w] = worker[w]

\* Calm rows go on fitting their item.
LEMMA RowsStayFit ==
  ASSUME IInv, NEW i \in Item, RowsFit(i), RowsCalm(i)
  PROVE  RowsFit(i)'
<1> SUFFICES ASSUME NEW d \in Dispatch, ItemOf(d) = i PROVE DispatchFits(d)'
  BY DEF RowsFit, ItemOf
<1>1. DispatchFits(d) /\ dispatch'[d] = dispatch[d] /\ event'[d] = event[d]
  BY DEF RowsFit, RowsCalm
<1>2. event[d].state # "pending"
  BY RowsTyped DEF EventRow, Settled, Textual
<1>3. CASE item'[i].state = item[i].state
  BY <1>1, <1>3 DEF DispatchFits, RowsCalm, IsLatest, ItemOf
<1>4. CASE item[i].state = "pending" /\ item'[i].state = "failed"
  BY <1>1, <1>2, <1>4 DEF DispatchFits, RowsCalm, IsLatest, ItemOf
<1> QED
  BY <1>3, <1>4 DEF RowsCalm

\* An item that keeps its objects keeps the one it names.
LEMMA ItemStaysStored ==
  ASSUME NEW i \in Item, ItemStored(i), Kept(i)
  PROVE  ItemStored(i)'
  BY DEF ItemStored, Kept

\* Workers that stand still go on fitting their item.
LEMMA WorkersStayFit ==
  ASSUME NEW i \in Item, WorkersFit(i), Kept(i), WorkersCalm(i)
  PROVE  WorkersFit(i)'
<1> SUFFICES ASSUME NEW w \in Worker, Busy(w)', Subject(w)' = i PROVE WorkerFits(w)'
  BY DEF WorkersFit
<1>1. worker'[w] = worker[w] /\ Busy(w) /\ Subject(w) = i
  BY DEF WorkersCalm, Busy, Subject
<1>2. WorkerFits(w)
  BY <1>1 DEF WorkersFit
<1>3. RawObject(w)' = RawObject(w) /\ RawObject(w) = <<i, RawObject(w)[2]>>
  BY <1>1 DEF RawObject, Subject
<1> QED
  BY <1>1, <1>2, <1>3 DEF WorkerFits, Kept

Calm(i) == RowsCalm(i) /\ Kept(i) /\ WorkersCalm(i)

\* A step that leaves an item calm leaves it true.
LEMMA CalmKeepsTruth ==
  ASSUME IInv, NEW i \in Item, TruthOf(i), Calm(i)
  PROVE  TruthOf(i)'
  BY RowsStayFit, ItemStaysStored, WorkersStayFit DEF TruthOf, Calm

\* Where one attempt goes on and was active, its item's others are over.
LEMMA OneRowFits ==
  ASSUME IInv, NEW d \in Dispatch, dispatch[d].state \in Active, UNCHANGED attempts,
         \A e \in Dispatch : e # d => dispatch'[e] = dispatch[e],
         DispatchFits(d)'
  PROVE  RowsFit(ItemOf(d))'
<1> SUFFICES ASSUME NEW e \in Dispatch, ItemOf(e) = ItemOf(d), e # d
             PROVE  DispatchFits(e)'
  BY DEF RowsFit, ItemOf
<1>1. dispatch[e].state \notin Active /\ ~IsLatest(e)
  BY OthersOver
<1> QED
  BY <1>1 DEF DispatchFits, IsLatest, Active, ItemOf

--------------------------------------------------------------------------------
(* Admissions, publishers and deliveries *)

\* A request leaves the items alone that it does not admit an attempt of.
LEMMA RequestKeepsTruth ==
  ASSUME IInv, HandsInv, RequestStep, NEW i \in Item, DeliveredOnce(i), TruthOf(i)
  PROVE  TruthOf(i)'
<1>1. UNCHANGED <<objects, worker>>
  BY RequestHands
<1>2. item \in [Item -> ItemRow] /\ attempts \in [Item -> 0..MaxAttempt]
  BY DEF IInv, Typed, TypeOK
<1>3. ASSUME NEW j \in Item, NEW row \in ItemRow, RowMoved(j, row)
      PROVE  TruthOf(i)'
  <2>1. RowsCalm(i) /\ Kept(i)
    BY <1>1, <1>2, <1>3 DEF RowMoved, RowsCalm, Kept
  <2>2. WorkersCalm(i)
    BY <1>1 DEF WorkersCalm
  <2> QED
    BY <2>1, <2>2, CalmKeepsTruth DEF Calm
<1>4. ASSUME NEW j \in Item, NEW key \in Key, NEW row \in ItemRow, NEW p \in Producer,
             Admitted(j, key, row, p)
      PROVE  TruthOf(i)'
  <2> DEFINE new == <<j, attempts[j] + 1>>
  <2>1. Admission(j, key) /\ item' = [item EXCEPT ![j] = row] /\ row.state = "pending"
    BY <1>4 DEF Admitted
  <2>2. /\ new \in Dispatch /\ dispatch[new].state = "none"
        /\ dispatch'[new] = [state |-> "pending", error |-> "none", key |-> key]
        /\ \A d \in Dispatch : d # new => dispatch'[d] = dispatch[d]
        /\ attempts'[j] = attempts[j] + 1
        /\ \A k \in Item : k # j => attempts'[k] = attempts[k]
    BY <2>1, AdmissionRows
  <2>3. UNCHANGED event /\ ~HasActive(j)
    BY <2>1 DEF Admission
  <2>4. CASE i # j
    <3>1. \A d \in Dispatch : ItemOf(d) = i => d # new
      BY <2>4 DEF ItemOf
    <3> HIDE DEF new
    <3>2. RowsCalm(i) /\ Kept(i)
      BY <1>1, <1>2, <2>1, <2>2, <2>3, <2>4, <3>1 DEF RowsCalm, Kept
    <3>3. WorkersCalm(i)
      BY <1>1 DEF WorkersCalm
    <3> QED
      BY <3>2, <3>3, CalmKeepsTruth DEF Calm
  <2>5. CASE i = j
    <3>1. item'[i].state = "pending"
      BY <1>2, <2>1, <2>5
    <3>2. RowsFit(i)'
      <4> SUFFICES ASSUME NEW d \in Dispatch, ItemOf(d) = i PROVE DispatchFits(d)'
        BY DEF RowsFit, ItemOf
      <4>1. CASE d = new
        BY <2>2, <3>1, <4>1 DEF DispatchFits
      <4>2. CASE d # new
        <5>1. dispatch'[d] = dispatch[d] /\ dispatch[d].state \notin Active
          BY <2>2, <2>3, <2>5, <4>2 DEF HasActive
        <5>2. dispatch[d].state # "none" => d[2] <= attempts[i]
          BY <1>2, Names DEF IInv, RowsInOrder, ItemOf
        <5>3. dispatch[d].state # "none" => ~IsLatest(d)'
          BY <1>2, <2>2, <2>5, <5>2, Names DEF IsLatest, ItemOf
        <5> QED
          BY <5>1, <5>3 DEF DispatchFits, Active
      <4> QED
        BY <4>1, <4>2
    <3>3. ItemStored(i)'
      BY <3>1 DEF ItemStored
    <3>4. WorkersFit(i)'
      <4>1. \A d \in Dispatch : ItemOf(d) = i => dispatch[d].state # "running"
        BY <2>3, <2>5 DEF HasActive, Active
      <4> QED
        BY <1>1, <4>1, WaitingUnclaimed DEF WorkersFit, Busy, Subject
    <3> QED
      BY <3>2, <3>3, <3>4 DEF TruthOf
  <2> QED
    BY <2>4, <2>5
<1> QED
  BY <1>3, <1>4, RequestHands

\* The recycle bin and the archive move an item, and change nothing it tells.
LEMMA ShelfKeepsTruth ==
  ASSUME IInv, ShelfStep, NEW i \in Item, TruthOf(i)
  PROVE  TruthOf(i)'
<1>1. item \in [Item -> ItemRow]
  BY DEF IInv, Typed, TypeOK
<1>2. PICK j \in Item, from \in {"live", "archived", "trash"},
           to \in {"live", "archived", "trash", "expired"} : MoveShelf(j, from, to)
  BY DEF ShelfStep, SoftDelete, Restore, Archive, Unarchive, RetentionEnds
<1>3. /\ item'[i].state = item[i].state /\ item'[i].raw = item[i].raw
      /\ UNCHANGED <<attempts, dispatch, event, objects, worker>>
  BY <1>1, <1>2 DEF MoveShelf, ItemRow
<1> QED
  BY <1>3, CalmKeepsTruth DEF Calm, RowsCalm, Kept, WorkersCalm

\* A publisher works on its own item.
LEMMA ProducerElsewhere ==
  ASSUME IInv, NEW d \in Dispatch,
         \/ UploadCapture(d) \/ UploadFails(d) \/ MarkCaptureReady(d)
         \/ Publish(d) \/ PublishRaises(d) \/ MarkEnqueued(d)
         \/ SubmitUnpublished(d) \/ RetryUnpublished(d)
         \/ WebUnpublished(d) \/ CaptureUnpublished(d) \/ ProducerDies(d),
         NEW i \in Item, i # ItemOf(d)
  PROVE  Calm(i)
<1>1. /\ UNCHANGED <<worker, attempts, event>>
      /\ \A e \in Dispatch : e # d => dispatch'[e] = dispatch[e]
  BY ProducerHands
<1>2. item'[i] = item[i]
  BY DEF UploadCapture, UploadFails, MarkCaptureReady, Publish, PublishRaises,
         MarkEnqueued, SubmitUnpublished, RetryUnpublished, WebUnpublished,
         CaptureUnpublished, ProducerDies, IInv, Typed, TypeOK
<1>3. \A name : <<i, name>> \in objects => <<i, name>> \in objects'
  BY DEF UploadCapture, UploadFails, MarkCaptureReady, Publish, PublishRaises,
         MarkEnqueued, SubmitUnpublished, RetryUnpublished, WebUnpublished,
         CaptureUnpublished, ProducerDies
<1> QED
  BY <1>1, <1>2, <1>3 DEF Calm, RowsCalm, Kept, WorkersCalm

\* Whatever its publisher does, an item goes on telling the truth of its attempt.
LEMMA ProducerKeepsTruth ==
  ASSUME IInv, HandsInv, NEW d \in Dispatch,
         \/ UploadCapture(d) \/ UploadFails(d) \/ MarkCaptureReady(d)
         \/ Publish(d) \/ PublishRaises(d) \/ MarkEnqueued(d)
         \/ SubmitUnpublished(d) \/ RetryUnpublished(d)
         \/ WebUnpublished(d) \/ CaptureUnpublished(d) \/ ProducerDies(d),
         NEW i \in Item, i = ItemOf(d), DeliveredOnce(i), TruthOf(i)
  PROVE  TruthOf(i)'
<1>1. /\ UNCHANGED <<worker, attempts, event>>
      /\ \A e \in Dispatch : e # d => dispatch'[e] = dispatch[e]
      /\ dispatch[d].state # "pending" => dispatch'[d] = dispatch[d]
  BY ProducerHands
<1>2. /\ item \in [Item -> ItemRow] /\ dispatch[d] \in DispatchRow
      /\ dispatch \in [Dispatch -> DispatchRow]
  BY DEF IInv, Typed, TypeOK
<1>3. WorkersCalm(i)
  BY <1>1 DEF WorkersCalm
<1>4. CASE \/ UploadCapture(d) \/ MarkCaptureReady(d) \/ Publish(d)
           \/ PublishRaises(d) \/ ProducerDies(d)
  <2>1. UNCHANGED <<item, dispatch>> /\ objects \subseteq objects'
    BY <1>4 DEF UploadCapture, MarkCaptureReady, Publish, PublishRaises, ProducerDies
  <2> QED
    BY <1>1, <1>3, <2>1, CalmKeepsTruth DEF Calm, RowsCalm, Kept
<1>5. CASE UploadFails(d)
  <2>1. UNCHANGED <<item, dispatch>>
    BY <1>5 DEF UploadFails
  <2>2. dispatch[d].state \in {"none", "pending"}
        /\ (dispatch[d].state = "none" => producer[d] = NoProducer)
    BY <1>5 DEF UploadFails, Publishing, HandsInv, PublishedFirst, Unsent
  <2>3. dispatch[d].state = "pending"
    BY <1>5, <2>2 DEF UploadFails, Publishing, NoProducer
  <2>4. item[i].state # "ready"
    BY <2>3 DEF TruthOf, RowsFit, DispatchFits
  <2>5. RowsFit(i)'
    BY <1>1, <2>1, RowsStayFit DEF RowsCalm, TruthOf
  <2>6. ItemStored(i)'
    BY <2>1, <2>4 DEF ItemStored
  <2>7. WorkersFit(i)'
    <3>1. \A e \in Dispatch : ItemOf(e) = i => dispatch[e].state # "running"
      BY <2>3, OthersOver DEF Active
    <3> QED
      BY <1>1, <3>1, WaitingUnclaimed DEF WorkersFit, Busy, Subject
  <2> QED
    BY <2>5, <2>6, <2>7 DEF TruthOf
<1>6. CASE \/ MarkEnqueued(d) \/ SubmitUnpublished(d) \/ RetryUnpublished(d)
           \/ WebUnpublished(d) \/ CaptureUnpublished(d)
  <2>1. /\ UNCHANGED objects /\ item'[i].raw = item[i].raw
        /\ \/ item'[i].state = item[i].state
           \/ item[i].state = "pending" /\ item'[i].state = "failed"
           \/ dispatch[d].state = "pending" /\ item'[i].state = "failed"
    BY <1>2, <1>6 DEF MarkEnqueued, SubmitUnpublished, RetryUnpublished,
                      WebUnpublished, CaptureUnpublished, ItemRow
  <2>2. Kept(i)
    BY <2>1 DEF Kept
  <2>3. RowsFit(i)'
    <3>1. CASE dispatch[d].state # "pending"
      BY <1>1, <2>1, <3>1, RowsStayFit DEF RowsCalm, TruthOf
    <3>2. CASE dispatch[d].state = "pending"
      <4>1. item[i].state \in {"pending", "failed"}
        BY <3>2 DEF TruthOf, RowsFit, DispatchFits
      <4>2. \/ dispatch'[d].state = "enqueued"
            \/ dispatch'[d].state = "failed" /\ dispatch'[d].error = "queue_unavailable"
            \/ dispatch'[d].state = "failed" /\ item'[i].state = "failed"
        <5>1. CASE MarkEnqueued(d)
          BY <1>2, <3>2, <5>1 DEF MarkEnqueued, DispatchRow
        <5>2. ASSUME NEW code, dispatch' = [dispatch EXCEPT ![d] = Compensated(d, code)]
              PROVE  dispatch'[d].state = "failed" /\ dispatch'[d].error = code
          BY <1>2, <3>2, <5>2 DEF Compensated, DispatchRow
        <5>3. CASE SubmitUnpublished(d) \/ RetryUnpublished(d) \/ WebUnpublished(d)
          BY <5>2, <5>3 DEF SubmitUnpublished, RetryUnpublished, WebUnpublished
        <5>4. CASE CaptureUnpublished(d)
          <6>1. item'[i].state = "failed"
            BY <1>2, <3>2, <5>4 DEF CaptureUnpublished, ItemRow
          <6> QED
            BY <5>2, <5>4, <6>1 DEF CaptureUnpublished
        <5> QED
          BY <1>6, <5>1, <5>3, <5>4
      <4>3. DispatchFits(d)'
        BY <2>1, <4>1, <4>2 DEF DispatchFits, ItemOf
      <4> QED
        BY <1>1, <3>2, <4>3, OneRowFits DEF Active
    <3> QED
      BY <3>1, <3>2
  <2> QED
    BY <1>3, <2>2, <2>3, ItemStaysStored, WorkersStayFit DEF TruthOf
<1> QED
  BY <1>4, <1>5, <1>6

\* Failing an active attempt fails its item with it.
LEMMA FailDispatchFits ==
  ASSUME IInv, NEW d \in Dispatch, dispatch[d].state \in Active, UNCHANGED attempts,
         NEW code, FailDispatch(d, code)
  PROVE  /\ RowsFit(ItemOf(d))'
         /\ item'[ItemOf(d)].state = "failed"
         /\ item'[ItemOf(d)].raw = item[ItemOf(d)].raw
         /\ \A i \in Item : i # ItemOf(d) => item'[i] = item[i]
<1>1. /\ ItemOf(d) \in Item /\ item[ItemOf(d)] \in ItemRow /\ dispatch[d] \in DispatchRow
      /\ item \in [Item -> ItemRow] /\ dispatch \in [Dispatch -> DispatchRow]
  BY Names DEF IInv, Typed, TypeOK
<1>2. /\ item'[ItemOf(d)].state = "failed"
      /\ item'[ItemOf(d)].raw = item[ItemOf(d)].raw
      /\ \A i \in Item : i # ItemOf(d) => item'[i] = item[i]
  BY <1>1 DEF FailDispatch, ItemRow
<1>3. /\ dispatch'[d].state = "failed"
      /\ \A e \in Dispatch : e # d => dispatch'[e] = dispatch[e]
  BY <1>1 DEF FailDispatch, DispatchRow
<1>4. DispatchFits(d)'
  BY <1>2, <1>3 DEF DispatchFits, ItemOf
<1> QED
  BY <1>2, <1>3, <1>4, OneRowFits

\* Completing an active attempt tells what the item shows.
LEMMA CompleteDispatchFits ==
  ASSUME IInv, NEW d \in Dispatch, dispatch[d].state \in Active, UNCHANGED attempts,
         CompleteDispatch(d, item[ItemOf(d)].state)
  PROVE  RowsFit(ItemOf(d))' /\ UNCHANGED item
<1>1. /\ event[d] = NoEvent /\ event \in [Dispatch -> EventRow]
      /\ dispatch[d] \in DispatchRow /\ dispatch \in [Dispatch -> DispatchRow]
  BY ActiveUnreported DEF IInv, Typed, TypeOK
<1>2. /\ dispatch'[d].state = "completed"
      /\ \A e \in Dispatch : e # d => dispatch'[e] = dispatch[e]
  BY <1>1 DEF CompleteDispatch, DispatchRow
<1>3. event'[d].state = item[ItemOf(d)].state
  BY <1>1 DEF CompleteDispatch, EnsureEvent
<1>4. UNCHANGED item
  BY DEF CompleteDispatch
<1>5. DispatchFits(d)'
  BY <1>2, <1>3, <1>4 DEF DispatchFits, ItemOf
<1> QED
  BY <1>2, <1>4, <1>5, OneRowFits

\* A delivery concerns the item of its message.
LEMMA DeliveryElsewhere ==
  ASSUME IInv, NEW w \in Worker, NEW m \in queue,
         \/ ClaimRefused(w, m) \/ ClaimDeleted(w, m) \/ ClaimDispatch(w, m)
         \/ ClaimRaises(w, m),
         NEW i \in Item, i # ItemOf(m.disp)
  PROVE  Calm(i)
<1>1. /\ \A v \in Worker : v # w => worker'[v] = worker[v]
      /\ \A e \in Dispatch : e # m.disp =>
             dispatch'[e] = dispatch[e] /\ event'[e] = event[e]
      /\ UNCHANGED <<attempts, objects>>
      /\ worker'[w].pc # "idle" => worker'[w].disp = m.disp
  BY DeliveryHands
<1>2. item'[i] = item[i]
  BY DEF ClaimRefused, ClaimDeleted, ClaimDispatch, ClaimRaises, FailDispatch,
         IInv, Typed, TypeOK
<1>3. WorkersCalm(i)
  BY <1>1 DEF WorkersCalm, Busy, Subject, Processing
<1> QED
  BY <1>1, <1>2, <1>3 DEF Calm, RowsCalm, Kept

\* A worker begins with an item that waits, or fails one that was deleted.
LEMMA DeliveryKeepsTruth ==
  ASSUME IInv, HandsInv, NEW w \in Worker, NEW m \in queue,
         \/ ClaimRefused(w, m) \/ ClaimDeleted(w, m) \/ ClaimDispatch(w, m)
         \/ ClaimRaises(w, m),
         NEW i \in Item, i = ItemOf(m.disp), DeliveredOnce(i), TruthOf(i)
  PROVE  TruthOf(i)'
<1> PICK d \in Dispatch : d = m.disp
  BY Names
<1>1. /\ worker[w].pc = "idle"
      /\ \A v \in Worker : v # w => worker'[v] = worker[v]
      /\ \A e \in Dispatch : e # d => dispatch'[e] = dispatch[e] /\ event'[e] = event[e]
      /\ UNCHANGED <<attempts, objects>>
  BY DeliveryHands
<1>2. worker \in [Worker -> WorkerState]
  BY DEF IInv, Typed, TypeOK
<1>3. CASE ClaimRefused(w, m) \/ ClaimRaises(w, m)
  <2>1. UNCHANGED <<item, dispatch, event>>
    BY <1>3 DEF ClaimRefused, ClaimRaises
  <2>2. UNCHANGED worker \/ worker'[w].pc = "hook"
    BY <1>2, <1>3 DEF ClaimRefused, ClaimRaises, Begin
  <2> QED
    BY <1>1, <2>1, <2>2, CalmKeepsTruth
       DEF Calm, RowsCalm, Kept, WorkersCalm, Busy, Processing
<1>4. CASE ClaimDeleted(w, m)
  <2>1. /\ dispatch[d].state \in Active /\ FailDispatch(d, "item_deleted")
        /\ UNCHANGED worker
    BY <1>4 DEF ClaimDeleted, Active
  <2>2. RowsFit(i)' /\ item'[i].state = "failed" /\ item'[i].raw = item[i].raw
    BY <1>1, <2>1, FailDispatchFits
  <2>3. Kept(i) /\ WorkersCalm(i)
    BY <1>1, <2>1, <2>2 DEF Kept, WorkersCalm
  <2> QED
    BY <2>2, <2>3, ItemStaysStored, WorkersStayFit DEF TruthOf
<1>5. CASE ClaimDispatch(w, m)
  <2>1. /\ dispatch[d].state \in {"pending", "enqueued"}
        /\ dispatch' = [dispatch EXCEPT ![d].state = "running"]
        /\ Begin(w, m, "load", "none") /\ UNCHANGED <<item, event>>
    BY <1>5 DEF ClaimDispatch
  <2>2. item[i].state # "ready"
    BY <2>1 DEF TruthOf, RowsFit, DispatchFits
  <2>3. RowsFit(i)'
    <3>1. dispatch'[d].state = "running"
      BY <2>1 DEF IInv, Typed, TypeOK, DispatchRow
    <3>2. DispatchFits(d)'
      BY <3>1 DEF DispatchFits
    <3> QED
      BY <1>1, <2>1, <3>2, OneRowFits DEF Active
  <2>4. ItemStored(i)'
    BY <2>1, <2>2 DEF ItemStored
  <2>5. WorkersFit(i)'
    <3> SUFFICES ASSUME NEW v \in Worker, Busy(v)', Subject(v)' = i PROVE WorkerFits(v)'
      BY DEF WorkersFit
    <3>1. CASE v = w
      <4>1. worker'[w].pc = "load"
        BY <1>2, <2>1 DEF Begin
      <4> QED
        BY <2>1, <2>2, <3>1, <4>1 DEF WorkerFits
    <3>2. CASE v # w
      <4>1. Busy(v) /\ Subject(v) = i /\ worker'[v] = worker[v]
        BY <1>1, <3>2 DEF Busy, Subject
      <4>2. WorkerFits(v)
        BY <4>1 DEF TruthOf, WorkersFit
      <4> QED
        BY <1>1, <2>1, <4>1, <4>2 DEF WorkerFits, RawObject, Subject
    <3> QED
      BY <3>1, <3>2
  <2> QED
    BY <2>3, <2>4, <2>5 DEF TruthOf
<1> QED
  BY <1>3, <1>4, <1>5

--------------------------------------------------------------------------------
(* Workers *)

\* A worker works on the item of its attempt.
LEMMA WorkerElsewhere ==
  ASSUME IInv, NEW w \in Worker, WorkerStep(w) \/ WorkerDies(w),
         NEW i \in Item, i # Subject(w)
  PROVE  Calm(i)
<1>1. /\ worker[w].pc # "idle"
      /\ \A v \in Worker : v # w => worker'[v] = worker[v]
      /\ \A e \in Dispatch : e # worker[w].disp =>
             dispatch'[e] = dispatch[e] /\ event'[e] = event[e]
      /\ UNCHANGED attempts
      /\ worker'[w].pc # "idle" => worker'[w].disp = worker[w].disp
  BY WorkerHands
<1>2. /\ item \in [Item -> ItemRow] /\ Subject(w) \in Item
      /\ ItemOf(worker[w].disp) = Subject(w)
  BY <1>1, Names DEF IInv, Typed, TypeOK, Subject
<1>3. item'[i] = item[i]
  <2>1. CASE \/ FetchText(w) \/ PutRawObject(w) \/ EmbedChunks(w)
             \/ DiscardRawObject(w) \/ ProcessRaises(w) \/ FinishStale(w)
             \/ FinishMismatch(w) \/ SettlementRaises(w) \/ ReleaseForRetry(w)
             \/ RetryTask(w) \/ WorkerDies(w)
    BY <2>1 DEF FetchText, PutRawObject, EmbedChunks, DiscardRawObject,
       ProcessRaises, FinishStale, FinishMismatch, SettlementRaises,
       ReleaseForRetry, RetryTask, WorkerDies
  <2>2. CASE \/ Load(w) \/ StartFetch(w) \/ FetchNoText(w) \/ IndexSegments(w)
             \/ MarkItemDeleted(w) \/ CommitRawKey(w)
    BY <1>2, <2>2 DEF Load, StartFetch, FetchNoText, IndexSegments,
       MarkItemDeleted, CommitRawKey, SetState
  <2>3. CASE FinishDeleted(w) \/ FinishCompleted(w) \/ FailRun(w) \/ OnFailure(w)
    BY <1>2, <2>3 DEF FinishDeleted, FinishCompleted, FailRun, OnFailure,
       MarkDispatchFailed, FailDispatch, CompleteDispatch
  <2> QED
    BY <2>1, <2>2, <2>3 DEF WorkerStep
<1>4. \A name : <<i, name>> \in objects => <<i, name>> \in objects'
  <2>1. CASE PutRawObject(w) \/ DiscardRawObject(w)
    <3>1. RawObject(w)[1] = Subject(w)
      BY DEF RawObject
    <3>2. objects \ {RawObject(w)} \subseteq objects'
      BY <2>1 DEF PutRawObject, DiscardRawObject
    <3> QED
      BY <3>1, <3>2
  <2>2. CASE ~(PutRawObject(w) \/ DiscardRawObject(w))
    <3>1. UNCHANGED objects
      BY <2>2 DEF WorkerStep, WorkerDies, Load, StartFetch, FetchNoText, FetchText,
         CommitRawKey, EmbedChunks, IndexSegments, MarkItemDeleted, ProcessRaises,
         FinishStale, FinishDeleted, FinishCompleted, FinishMismatch,
         SettlementRaises, ReleaseForRetry, RetryTask, FailRun, OnFailure
    <3> QED
      BY <3>1
  <2> QED
    BY <2>1, <2>2
<1>5. WorkersCalm(i)
  BY <1>1, <1>2 DEF WorkersCalm, Busy, Subject, Processing
<1>6. RowsCalm(i) /\ Kept(i)
  BY <1>1, <1>2, <1>3, <1>4 DEF RowsCalm, Kept
<1> QED
  BY <1>5, <1>6 DEF Calm

\* The steps of process_item: the attempt runs and no other worker is there.
LEMMA ProcessingFits ==
  ASSUME IInv, HandsInv, NEW w \in Worker, NEW i \in Item,
         i = Subject(w), DeliveredOnce(i), Busy(w),
         UNCHANGED <<attempts, dispatch, event>>,
         \A v \in Worker : v # w => worker'[v] = worker[v],
         Busy(w)' /\ Subject(w)' = i => WorkerFits(w)',
         ItemStored(i)'
  PROVE  TruthOf(i)'
<1> PICK d \in Dispatch : d = worker[w].disp
  BY Names DEF Busy, Processing
<1>1. /\ dispatch[d].state = "running" /\ ItemOf(d) = i
      /\ \A v \in Worker : worker[v].pc \in Claimed /\ Subject(v) = i => v = w
  BY ClaimedAlone DEF Busy, Claimed, Subject
<1>2. RowsFit(i)'
  BY <1>1, OneRowFits DEF DispatchFits, Active
<1>3. WorkersFit(i)'
  <2> SUFFICES ASSUME NEW v \in Worker, Busy(v)', Subject(v)' = i PROVE WorkerFits(v)'
    BY DEF WorkersFit
  <2>1. v = w
    BY <1>1 DEF Busy, Claimed, Subject
  <2> QED
    BY <2>1
<1> QED
  BY <1>2, <1>3 DEF TruthOf

\* process_item leaves an item its worker can account for.
LEMMA ProcessingKeepsTruth ==
  ASSUME IInv, HandsInv, NEW w \in Worker,
         \/ Load(w) \/ StartFetch(w) \/ FetchNoText(w) \/ FetchText(w)
         \/ CommitRawKey(w) \/ PutRawObject(w) \/ EmbedChunks(w) \/ IndexSegments(w)
         \/ DiscardRawObject(w) \/ MarkItemDeleted(w) \/ ProcessRaises(w),
         NEW i \in Item, i = Subject(w), DeliveredOnce(i), TruthOf(i)
  PROVE  TruthOf(i)'
<1>1. Busy(w) /\ worker[w].pc # "idle"
  BY DEF Busy, Processing, Load, StartFetch, FetchNoText, FetchText, CommitRawKey,
         PutRawObject, EmbedChunks, IndexSegments, DiscardRawObject,
         MarkItemDeleted, ProcessRaises, At
<1>2. UNCHANGED <<attempts, dispatch, event>>
  BY DEF Load, StartFetch, FetchNoText, FetchText, CommitRawKey, PutRawObject,
         EmbedChunks, IndexSegments, DiscardRawObject, MarkItemDeleted,
         ProcessRaises
<1>3. \A v \in Worker : v # w => worker'[v] = worker[v]
  BY WorkerHands DEF WorkerStep
<1>4. WorkerFits(w)
  BY <1>1 DEF TruthOf, WorkersFit
<1>5. /\ item \in [Item -> ItemRow] /\ item[i] \in ItemRow
      /\ worker \in [Worker -> WorkerState]
      /\ RawObject(w) = <<i, RawObject(w)[2]>>
  BY DEF IInv, Typed, TypeOK, RawObject
<1>6. \A pc : Step(w, pc) => /\ worker'[w].pc = pc /\ Subject(w)' = i
                             /\ worker'[w].source = worker[w].source
                             /\ RawObject(w)' = RawObject(w)
  BY <1>1, WorkerRecord DEF Subject, RawObject
<1>7. \A pc, result : Conclude(w, pc, result) => worker'[w].pc = pc
  BY <1>1, WorkerRecord
<1>8. CASE item'[i].state # "ready" /\ ~Busy(w)'
  BY <1>1, <1>2, <1>3, <1>8, ProcessingFits DEF ItemStored
<1>9. ASSUME item'[i].state # "ready", Busy(w)' /\ Subject(w)' = i => WorkerFits(w)'
      PROVE  TruthOf(i)'
  BY <1>1, <1>2, <1>3, <1>9, ProcessingFits DEF ItemStored
<1>10. CASE Load(w)
  <2>1. CASE InTrash(i)
    <3>1. SetState(i, "failed") /\ Conclude(w, "finish", "deleted")
      BY <1>10, <2>1 DEF Load
    <3>2. item'[i].state # "ready" /\ ~Busy(w)'
      BY <1>5, <1>7, <3>1 DEF SetState, ItemRow, Busy, Processing
    <3> QED
      BY <1>8, <3>2
  <2>2. CASE ~InTrash(i)
    <3>1. /\ UNCHANGED item
          /\ worker' = [worker EXCEPT ![w].pc = "meta", ![w].source = CaptureSource(i)]
      BY <1>10, <2>2 DEF Load
    <3>2. worker'[w].pc = "meta"
      BY <1>5, <3>1 DEF WorkerState
    <3>3. item'[i].state # "ready"
      BY <1>4, <3>1 DEF WorkerFits
    <3>4. Subject(w)' = i => WorkerFits(w)'
      BY <3>2, <3>3 DEF WorkerFits
    <3> QED
      BY <1>9, <3>3, <3>4
  <2> QED
    BY <2>1, <2>2
<1>11. CASE StartFetch(w)
  <2>1. item'[i].state # "ready"
    BY <1>5, <1>11 DEF StartFetch, SetState, ItemRow
  <2>2. worker'[w].pc = "fetch"
    BY <1>6, <1>11 DEF StartFetch
  <2>3. Subject(w)' = i => WorkerFits(w)'
    BY <2>1, <2>2 DEF WorkerFits
  <2> QED
    BY <1>9, <2>1, <2>3
<1>12. CASE FetchNoText(w) \/ MarkItemDeleted(w)
  <2>1. PICK state \in Textual \union {"failed"} :
             SetState(i, state) /\ \E result : Conclude(w, "finish", result)
    BY <1>12 DEF FetchNoText, MarkItemDeleted
  <2>2. item'[i].state # "ready" /\ ~Busy(w)'
    BY <1>5, <1>7, <2>1 DEF SetState, ItemRow, Textual, Busy, Processing
  <2> QED
    BY <1>8, <2>2
<1>13. CASE FetchText(w)
  <2>1. /\ worker'[w].pc \in {"void", "chunk"}
        /\ UNCHANGED <<item, objects>> /\ Subject(w)' = i
        /\ worker'[w].source = worker[w].source /\ RawObject(w)' = RawObject(w)
        /\ worker[w].source \in {"connector", "capture"}
        /\ worker[w].source = "capture" => RawObject(w) \in objects
    BY <1>6, <1>13 DEF FetchText
  <2>2. item'[i].state # "ready"
    BY <1>4, <2>1 DEF WorkerFits
  <2>3. WorkerFits(w)'
    BY <2>1, <2>2 DEF WorkerFits
  <2> QED
    BY <1>9, <2>2, <2>3
<1>14. CASE CommitRawKey(w)
  <2>1. /\ worker[w].pc = "chunk" /\ worker'[w].pc = "put"
        /\ UNCHANGED objects /\ Subject(w)' = i
        /\ worker'[w].source = worker[w].source /\ RawObject(w)' = RawObject(w)
        /\ item' = [item EXCEPT ![i].state = "chunking", ![i].raw = RawObject(w)[2]]
    BY <1>6, <1>14 DEF CommitRawKey, At
  <2>2. item'[i].state = "chunking" /\ item'[i].raw = RawObject(w)[2]
    BY <1>5, <2>1 DEF ItemRow
  <2>3. WorkerFits(w)'
    BY <1>4, <2>1, <2>2 DEF WorkerFits
  <2> QED
    BY <1>9, <2>2, <2>3
<1>15. CASE PutRawObject(w)
  <2>1. /\ worker[w].pc = "put" /\ worker'[w].pc \in {"discard", "embed"}
        /\ UNCHANGED item /\ Subject(w)' = i
        /\ worker'[w].source = worker[w].source /\ RawObject(w)' = RawObject(w)
        /\ objects' = IF worker[w].source = "connector"
                      THEN objects \union {RawObject(w)} ELSE objects
    BY <1>6, <1>15 DEF PutRawObject, At
  <2>2. item'[i].state # "ready" /\ RawObject(w) \in objects'
    BY <1>4, <2>1 DEF WorkerFits
  <2>3. WorkerFits(w)'
    BY <1>4, <2>1, <2>2 DEF WorkerFits
  <2> QED
    BY <1>9, <2>2, <2>3
<1>16. CASE EmbedChunks(w)
  <2>1. /\ worker[w].pc = "embed" /\ worker'[w].pc \in {"discard", "index"}
        /\ UNCHANGED <<item, objects>> /\ Subject(w)' = i
        /\ worker'[w].source = worker[w].source /\ RawObject(w)' = RawObject(w)
    BY <1>6, <1>16 DEF EmbedChunks, At
  <2>2. item'[i].state # "ready"
    BY <1>4, <2>1 DEF WorkerFits
  <2>3. WorkerFits(w)'
    BY <1>4, <2>1, <2>2 DEF WorkerFits
  <2> QED
    BY <1>9, <2>2, <2>3
<1>17. CASE IndexSegments(w)
  <2>1. /\ worker[w].pc = "index" /\ SetState(i, "ready")
        /\ Conclude(w, "finish", "ready") /\ UNCHANGED objects
    BY <1>17 DEF IndexSegments, At
  <2>2. item'[i].raw = item[i].raw /\ ~Busy(w)'
    BY <1>5, <1>7, <2>1 DEF SetState, ItemRow, Busy, Processing
  <2>3. item[i].raw = RawObject(w)[2] /\ RawObject(w) \in objects
    BY <1>4, <2>1 DEF WorkerFits
  <2>4. ItemStored(i)'
    BY <1>5, <2>1, <2>2, <2>3 DEF ItemStored
  <2> QED
    BY <1>1, <1>2, <1>3, <2>2, <2>4, ProcessingFits
<1>18. CASE DiscardRawObject(w)
  <2>1. UNCHANGED item /\ worker'[w].pc = "void"
    BY <1>6, <1>18 DEF DiscardRawObject
  <2>2. item'[i].state # "ready"
    BY <1>4, <2>1 DEF WorkerFits
  <2>3. Subject(w)' = i => WorkerFits(w)'
    BY <2>1, <2>2 DEF WorkerFits
  <2> QED
    BY <1>9, <2>2, <2>3
<1>19. CASE ProcessRaises(w)
  <2>1. UNCHANGED item /\ worker'[w].pc \in {"release", "fail"}
    BY <1>6, <1>7, <1>19 DEF ProcessRaises
  <2>2. item'[i].state # "ready"
    BY <1>4, <2>1 DEF WorkerFits
  <2>3. Subject(w)' = i => WorkerFits(w)'
    BY <2>1, <2>2 DEF WorkerFits
  <2> QED
    BY <1>9, <2>2, <2>3
<1> QED
  BY <1>10, <1>11, <1>12, <1>13, <1>14, <1>15, <1>16, <1>17, <1>18, <1>19

\* Where a worker is done with an item that stays as it is, or fails.
LEMMA SettlingFits ==
  ASSUME IInv, NEW w \in Worker, worker[w].pc # "idle", ~Busy(w)',
         \A v \in Worker : v # w => worker'[v] = worker[v],
         NEW i \in Item, i = Subject(w), TruthOf(i), UNCHANGED objects,
         item'[i].state \in {item[i].state, "failed"}, item'[i].raw = item[i].raw,
         RowsFit(i)'
  PROVE  TruthOf(i)'
<1>1. Kept(i)
  BY DEF Kept
<1>2. WorkersCalm(i)
  BY DEF WorkersCalm
<1> QED
  BY <1>1, <1>2, ItemStaysStored, WorkersStayFit DEF TruthOf

\* The failure hook settles an attempt as its item ended, or changes nothing an
\* item tells.
LEMMA MarkDispatchFailedFits ==
  ASSUME IInv, NEW d \in Dispatch, NEW code, MarkDispatchFailed(d, code),
         UNCHANGED attempts, RowsFit(ItemOf(d))
  PROVE  /\ RowsFit(ItemOf(d))'
         /\ item'[ItemOf(d)].state \in {item[ItemOf(d)].state, "failed"}
         /\ item'[ItemOf(d)].raw = item[ItemOf(d)].raw
<1>1. CASE /\ dispatch[d].state \in {"running", "enqueued"}
           /\ item[ItemOf(d)].state = "ready" /\ CompleteDispatch(d, "ready")
  BY <1>1, CompleteDispatchFits DEF Active
<1>2. CASE dispatch[d].state \in Active /\ FailDispatch(d, code)
  BY <1>2, FailDispatchFits
<1>3. CASE /\ dispatch[d].state \in Terminal /\ UNCHANGED <<item, dispatch>>
           /\ \/ UNCHANGED event
              \/ dispatch[d].state = "failed"
                 /\ EnsureEvent(d, "failed", dispatch[d].error)
  <2>1. \A e \in Dispatch : dispatch[e].state = "completed" => event'[e] = event[e]
    BY <1>3 DEF EnsureEvent, IInv, Typed, TypeOK
  <2>2. RowsFit(ItemOf(d))'
    <3> SUFFICES ASSUME NEW e \in Dispatch, ItemOf(e) = ItemOf(d)
                 PROVE  DispatchFits(e)'
      BY DEF RowsFit, ItemOf
    <3>1. DispatchFits(e)
      BY DEF RowsFit
    <3> QED
      BY <1>3, <2>1, <3>1 DEF DispatchFits, IsLatest, ItemOf
  <2> QED
    BY <1>3, <2>2
<1> QED
  BY <1>1, <1>2, <1>3 DEF MarkDispatchFailed, Terminal

\* A worker settles an attempt with what its item shows, or gives it back.
LEMMA SettlingKeepsTruth ==
  ASSUME IInv, HandsInv, NEW w \in Worker,
         \/ FinishStale(w) \/ FinishDeleted(w) \/ FinishCompleted(w)
         \/ FinishMismatch(w) \/ SettlementRaises(w) \/ ReleaseForRetry(w)
         \/ RetryTask(w) \/ FailRun(w) \/ OnFailure(w) \/ WorkerDies(w),
         NEW i \in Item, i = Subject(w), DeliveredOnce(i), TruthOf(i)
  PROVE  TruthOf(i)'
<1>1. /\ worker[w].pc # "idle"
      /\ \A v \in Worker : v # w => worker'[v] = worker[v]
      /\ UNCHANGED attempts
  BY WorkerHands DEF WorkerStep
<1> PICK d \in Dispatch : d = worker[w].disp /\ ItemOf(d) = i
  BY <1>1, Names DEF Subject
<1>2. UNCHANGED objects
  BY DEF FinishStale, FinishDeleted, FinishCompleted, FinishMismatch,
         SettlementRaises, ReleaseForRetry, RetryTask, FailRun, OnFailure, WorkerDies
<1>3. ~Busy(w)'
  <2>1. \/ GoIdle(w) \/ Step(w, "again") \/ \E result : Conclude(w, "hook", result)
    BY DEF FinishStale, FinishDeleted, FinishCompleted, FinishMismatch,
           SettlementRaises, ReleaseForRetry, RetryTask, FailRun, OnFailure, WorkerDies
  <2>2. worker'[w].pc \in {"idle", "again", "hook"}
    BY <1>1, <2>1, WorkerRecord
  <2> QED
    BY <2>2 DEF Busy, Processing
<1>4. RowsFit(i) /\ (dispatch[d].state = "enqueued" => item[i].state # "ready")
  BY DEF TruthOf, RowsFit, DispatchFits
<1>5. CASE \/ FinishStale(w) \/ FinishMismatch(w) \/ SettlementRaises(w)
           \/ RetryTask(w) \/ WorkerDies(w)
  <2>1. UNCHANGED <<item, dispatch, event>>
    BY <1>5 DEF FinishStale, FinishMismatch, SettlementRaises, RetryTask, WorkerDies
  <2>2. RowsFit(i)'
    BY <1>1, <1>4, <2>1, RowsStayFit DEF RowsCalm
  <2> QED
    BY <1>1, <1>2, <1>3, <2>1, <2>2, SettlingFits
<1>6. CASE FinishDeleted(w)
  <2>1. dispatch[d].state \in Active /\ FailDispatch(d, "item_deleted")
    BY <1>6 DEF FinishDeleted, Active
  <2>2. RowsFit(i)' /\ item'[i].state = "failed" /\ item'[i].raw = item[i].raw
    BY <1>1, <2>1, FailDispatchFits
  <2> QED
    BY <1>1, <1>2, <1>3, <2>2, SettlingFits
<1>7. CASE FinishCompleted(w)
  <2>1. dispatch[d].state \in Active /\ CompleteDispatch(d, item[i].state)
    BY <1>7 DEF FinishCompleted, Active
  <2>2. RowsFit(i)' /\ UNCHANGED item
    BY <1>1, <2>1, CompleteDispatchFits
  <2> QED
    BY <1>1, <1>2, <1>3, <2>2, SettlingFits
<1>8. CASE ReleaseForRetry(w)
  <2>1. /\ worker[w].pc = "release" /\ UNCHANGED <<item, event>>
        /\ dispatch' = [dispatch EXCEPT ![d].state =
                           IF @ = "running" THEN "enqueued" ELSE @]
    BY <1>8 DEF ReleaseForRetry, At
  <2>2. dispatch[d].state = "running"
    BY <2>1, ClaimedAlone DEF Claimed
  <2>3. item[i].state # "ready"
    BY <2>1 DEF TruthOf, WorkersFit, WorkerFits, Busy
  <2>4. /\ dispatch'[d].state = "enqueued"
        /\ \A e \in Dispatch : e # d => dispatch'[e] = dispatch[e]
    BY <2>1, <2>2 DEF IInv, Typed, TypeOK, DispatchRow
  <2>5. DispatchFits(d)'
    BY <2>1, <2>3, <2>4 DEF DispatchFits, ItemOf
  <2>6. RowsFit(i)'
    BY <1>1, <2>2, <2>4, <2>5, OneRowFits DEF Active
  <2> QED
    BY <1>1, <1>2, <1>3, <2>1, <2>6, SettlingFits
<1>9. CASE FailRun(w) \/ OnFailure(w)
  <2>1. MarkDispatchFailed(d, worker[w].result)
    BY <1>9 DEF FailRun, OnFailure
  <2>2. /\ RowsFit(i)' /\ item'[i].state \in {item[i].state, "failed"}
        /\ item'[i].raw = item[i].raw
    BY <1>1, <1>4, <2>1, MarkDispatchFailedFits
  <2> QED
    BY <1>1, <1>2, <1>3, <2>2, SettlingFits
<1> QED
  BY <1>5, <1>6, <1>7, <1>8, <1>9

--------------------------------------------------------------------------------
(* The invariant of the items is inductive *)

\* At first there is nothing to tell.
LEMMA InitTruth == Init => TruthInv
  BY DEF Init, TruthInv, TruthOf, RowsFit, DispatchFits, ItemStored, WorkersFit,
         Busy, NoDispatch, IdleWorker, Processing

\* No step makes an item untrue.
LEMMA TruthKept == IInv /\ HandsInv /\ TruthInv /\ [Next]_vars => TruthInv'
<1> SUFFICES ASSUME IInv, HandsInv, TruthInv, [Next]_vars,
                    NEW i \in Item, DeliveredOnce(i)'
             PROVE  TruthOf(i)'
  BY DEF TruthInv
<1>1. DeliveredOnce(i) /\ TruthOf(i)
  <2>1. repeated \subseteq repeated'
    <3>1. CASE UNCHANGED vars \/ ShelfStep
      BY <3>1 DEF vars, broker, ShelfStep, SoftDelete, Restore, Archive, Unarchive,
                  RetentionEnds, MoveShelf
    <3> QED
      BY <3>1, RequestHands, ProducerHands, DeliveryHands, WorkerHands
         DEF Next, ProducerStep, DeliveryStep, FaultStep
  <2> QED
    BY <2>1 DEF DeliveredOnce, TruthInv
<1>2. CASE UNCHANGED vars
  BY <1>1, <1>2, CalmKeepsTruth DEF vars, Calm, RowsCalm, Kept, WorkersCalm
<1>3. CASE RequestStep
  BY <1>1, <1>3, RequestKeepsTruth
<1>4. CASE ShelfStep
  BY <1>1, <1>4, ShelfKeepsTruth
<1>5. CASE ProducerStep \/ \E d \in Dispatch : ProducerDies(d)
  BY <1>1, <1>5, ProducerElsewhere, ProducerKeepsTruth, CalmKeepsTruth
     DEF ProducerStep
<1>6. CASE DeliveryStep
  BY <1>1, <1>6, DeliveryElsewhere, DeliveryKeepsTruth, CalmKeepsTruth
     DEF DeliveryStep
<1>7. CASE \E w \in Worker : WorkerStep(w) \/ WorkerDies(w)
  <2>1. PICK w \in Worker : WorkerStep(w) \/ WorkerDies(w)
    BY <1>7
  <2>2. CASE i # Subject(w)
    BY <1>1, <2>1, <2>2, WorkerElsewhere, CalmKeepsTruth
  <2>3. CASE i = Subject(w)
    BY <1>1, <2>1, <2>3, ProcessingKeepsTruth, SettlingKeepsTruth DEF WorkerStep
  <2> QED
    BY <2>2, <2>3
<1> QED
  BY <1>2, <1>3, <1>4, <1>5, <1>6, <1>7 DEF Next, FaultStep

\* An item that exists has been tried.
ItemsTried == \A i \in Item : Exists(i) => attempts[i] # 0

\* At first no item exists.
LEMMA InitTried == Init => ItemsTried
  BY DEF Init, ItemsTried, Exists

\* A row is only ever written for an item with an attempt.
LEMMA ItemsTriedKept == IInv /\ HandsInv /\ ItemsTried /\ [Next]_vars => ItemsTried'
<1> SUFFICES ASSUME IInv, HandsInv, ItemsTried, [Next]_vars,
                    NEW i \in Item, Exists(i)'
             PROVE  attempts'[i] # 0
  BY DEF ItemsTried
<1>1. /\ attempts \in [Item -> 0..MaxAttempt] /\ item \in [Item -> ItemRow]
  BY DEF IInv, Typed, TypeOK
<1>2. attempts[i] # 0 => attempts'[i] # 0
  <2>1. ASSUME NEW j \in Item, NEW key \in Key, Admission(j, key)
        PROVE  attempts[i] # 0 => attempts'[i] # 0
    BY <1>1, <2>1, BoundsAssumption DEF Admission
  <2> QED
    BY <2>1, EveryStep DEF RowStep
<1>3. Exists(i) => attempts'[i] # 0
  BY <1>2 DEF ItemsTried
<1>4. Calm(i) => attempts'[i] # 0
  BY <1>3 DEF Calm, RowsCalm, Exists
<1>5. ASSUME NEW d \in Dispatch, ItemOf(d) = i, ~Unsent(d) \/ dispatch[d].state # "none"
      PROVE  attempts'[i] # 0
  <2>1. d[1] = i /\ d[2] \in 1..MaxAttempt /\ dispatch[d].state # "none"
    BY <1>5 DEF Dispatch, Attempt, ItemOf, Unsent
  <2>2. ~(d[2] > attempts[i])
    BY <2>1 DEF IInv, RowsInOrder
  <2> QED
    BY <1>1, <1>2, <2>1, <2>2, BoundsAssumption
<1>6. CASE UNCHANGED vars \/ ShelfStep
  <2>1. item'[i].state = item[i].state
    BY <1>1, <1>6 DEF vars, ShelfStep, SoftDelete, Restore, Archive, Unarchive,
                      RetentionEnds, MoveShelf, ItemRow
  <2> QED
    BY <1>3, <2>1 DEF Exists
<1>7. CASE RequestStep
  <2>1. ASSUME NEW j \in Item, NEW row \in ItemRow, RowMoved(j, row)
        PROVE  attempts'[i] # 0
    BY <1>1, <1>3, <2>1 DEF RowMoved, Exists
  <2>2. ASSUME NEW j \in Item, NEW key \in Key, NEW row \in ItemRow,
               NEW p \in Producer, Admitted(j, key, row, p)
        PROVE  attempts'[i] # 0
    <3>1. CASE i = j
      BY <1>1, <2>2, <3>1, BoundsAssumption DEF Admitted, Admission
    <3>2. CASE i # j
      BY <1>1, <1>3, <2>2, <3>2 DEF Admitted, Exists
    <3> QED
      BY <3>1, <3>2
  <2> QED
    BY <1>7, <2>1, <2>2, RequestHands
<1>8. CASE ProducerStep \/ \E d \in Dispatch : ProducerDies(d)
  <2>1. ASSUME NEW d \in Dispatch, producer[d].pc # "idle"
        PROVE  dispatch[d].state # "none"
    BY <2>1 DEF HandsInv, PublishedFirst, Unsent, NoProducer
  <2> QED
    BY <1>4, <1>5, <1>8, <2>1, ProducerHands, ProducerElsewhere DEF ProducerStep
<1>9. CASE DeliveryStep
  <2>1. \A m \in queue : m.disp \in Dispatch /\ ~Unsent(m.disp)
    BY Names DEF HandsInv, PublishedFirst
  <2> QED
    BY <1>4, <1>5, <1>9, <2>1, DeliveryElsewhere DEF DeliveryStep
<1>10. CASE \E w \in Worker : WorkerStep(w) \/ WorkerDies(w)
  <2>1. PICK w \in Worker : WorkerStep(w) \/ WorkerDies(w)
    BY <1>10
  <2>2. worker[w].pc # "idle"
    BY <2>1, WorkerHands
  <2>3. worker[w].disp \in Dispatch /\ ~Unsent(worker[w].disp)
    BY <2>2, Names DEF HandsInv, PublishedFirst, Holds
  <2> QED
    BY <1>4, <1>5, <2>1, <2>3, WorkerElsewhere DEF Subject
<1> QED
  BY <1>6, <1>7, <1>8, <1>9, <1>10 DEF Next, FaultStep

\* What an item shows follows from what each of its attempts lets it show.
LEMMA TruthShows == IInv /\ ItemsTried /\ TruthInv => ItemStaysTrue
<1> SUFFICES ASSUME IInv, ItemsTried, TruthInv PROVE ItemStaysTrue
  OBVIOUS
<1>1. ASSUME NEW i \in Item, Exists(i), DeliveredOnce(i)
      PROVE  /\ Latest(i) \in Dispatch /\ ItemOf(Latest(i)) = i /\ IsLatest(Latest(i))
             /\ DispatchFits(Latest(i))
             /\ dispatch[Latest(i)].state \in Active \union Terminal
  <2>1. attempts[i] \in 1..MaxAttempt
    BY <1>1, BoundsAssumption DEF ItemsTried, IInv, Typed, TypeOK
  <2>2. Latest(i) \in Dispatch /\ ItemOf(Latest(i)) = i /\ IsLatest(Latest(i))
    BY <2>1 DEF Latest, Dispatch, Attempt, ItemOf, IsLatest
  <2>3. dispatch[Latest(i)].state # "none"
    BY <2>1, <2>2 DEF IInv, RowsInOrder, Latest
  <2>4. dispatch[Latest(i)] \in DispatchRow
    BY <2>2, RowsTyped
  <2> QED
    BY <1>1, <2>2, <2>3, <2>4 DEF TruthInv, TruthOf, RowsFit, DispatchRow
<1>2. ItemShowsLatestOutcome
  BY <1>1 DEF ItemShowsLatestOutcome, DispatchFits
<1>3. ReadyItemHasRawObject
  BY DEF ReadyItemHasRawObject, TruthInv, TruthOf, ItemStored
<1>4. NoDeadEnd
  <2> SUFFICES ASSUME NEW i \in Item, DeliveredOnce(i),
                      item[i].state \in {"fetching", "chunking", "pending", "failed"}
               PROVE  \/ HasActive(i)
                      \/ /\ dispatch[Latest(i)].state = "failed"
                         /\ item[i].state \in {"pending", "failed"}
    BY DEF NoDeadEnd
  <2>1. Exists(i)
    BY DEF Exists
  <2>2. dispatch[Latest(i)].state # "completed"
    <3>1. dispatch[Latest(i)].state = "completed" => event[Latest(i)].state \in Settled
      BY <1>1, <2>1 DEF IInv, OutcomeHasEvent
    <3> QED
      BY <1>1, <2>1, <3>1 DEF DispatchFits, Settled, Textual
  <2> QED
    BY <1>1, <2>1, <2>2 DEF DispatchFits, HasActive, Terminal
<1> QED
  BY <1>2, <1>3, <1>4 DEF ItemStaysTrue

\* The whole inductive invariant holds in every reachable state.
THEOREM ItemInvariance == Spec => [](IInv /\ HandsInv /\ ItemsTried /\ TruthInv)
<1> DEFINE Inv == IInv /\ HandsInv /\ ItemsTried /\ TruthInv
<1>1. Init => Inv
  BY InitInv, InitHands, InitTried, InitTruth
<1>2. Inv /\ [Next]_vars => Inv'
  BY InvKept, HandsKept, ItemsTriedKept, TruthKept
<1> QED
  BY <1>1, <1>2, PTL DEF Spec

--------------------------------------------------------------------------------
(* Theorems *)

\* However admissions interleave with workers, at most one attempt of an item is
\* active.
THEOREM OneActive == Spec => []AtMostOneActive
<1>1. IInv => AtMostOneActive
  BY DEF IInv, RowsInOrder, AtMostOneActive, ItemOf, Dispatch
<1> QED
  BY <1>1, Invariance, PTL

\* Every settled attempt has the completion event of its outcome, unless its
\* publisher refused it, and no other attempt has one.
THEOREM Outbox == Spec => []OutcomeHasEvent
<1>1. IInv => OutcomeHasEvent
  BY DEF IInv
<1> QED
  BY <1>1, Invariance, PTL

\* A request key creates at most one attempt of an item.
THEOREM AdmittedOnce == Spec => []RequestAdmitsOnce
<1>1. IInv => RequestAdmitsOnce
  BY DEF IInv
<1> QED
  BY <1>1, Invariance, PTL

\* A settled attempt and a completion event never change again.
THEOREM FinalOutcome == Spec => OutcomeIsFinal
<1>1. ASSUME IInv, [Next]_vars, NEW d \in Dispatch
      PROVE  /\ dispatch[d].state \in Terminal => dispatch'[d] = dispatch[d]
             /\ event[d] # NoEvent => event'[d] = event[d]
  <2>1. CASE RowStep
    BY <1>1, <2>1, RowStepKeeps DEF RowKept
  <2>2. ASSUME NEW i \in Item, NEW key \in Key, Admission(i, key)
        PROVE  /\ dispatch[d].state \in Terminal => dispatch'[d] = dispatch[d]
               /\ event[d] # NoEvent => event'[d] = event[d]
    <3> DEFINE new == <<i, attempts[i] + 1>>
    <3>1. /\ dispatch[new].state = "none"
          /\ d # new => dispatch'[d] = dispatch[d]
      BY <1>1, <2>2, AdmissionRows
    <3> HIDE DEF new
    <3> QED
      BY <2>2, <3>1 DEF Admission, Terminal
  <2> QED
    BY <1>1, <2>1, <2>2, EveryStep
<1>2. IInv /\ [Next]_vars =>
          [\A d \in Dispatch :
              /\ dispatch[d].state \in Terminal => dispatch'[d] = dispatch[d]
              /\ event[d] # NoEvent => event'[d] = event[d]]_vars
  BY <1>1
<1> QED
  BY <1>2, Invariance, PTL DEF Spec, OutcomeIsFinal

\* The rows of the detailed system behave as DispatchLifecycle promises: each
\* admission is one of its admissions, every other step one of its other steps or
\* a step that leaves the rows alone.
THEOREM Refinement == Spec => ImplementsLifecycle
<1>1. Init => Lifecycle!Init
  BY DEF Init, Lifecycle!Init, Dispatch, Attempt, Lifecycle!Dispatch, NoDispatch,
         NoKey, NoEvent, Lifecycle!NoEvent
<1>2. ASSUME IInv, NEW i \in Item, NEW key \in Key, Admission(i, key)
      PROVE  \E d \in Lifecycle!Dispatch : Lifecycle!Admit(d, key)
  <2> DEFINE new == <<i, attempts[i] + 1>>
  <2>1. new \in Dispatch
    BY <1>2, AdmissionRows
  <2>2. ASSUME NEW e \in Dispatch, e[1] = i
        PROVE  /\ dispatch[e].key # key
               /\ e[2] < attempts[i] + 1 => dispatch[e].state \in Terminal
               /\ e[2] >= attempts[i] + 1 => dispatch[e].state = "none"
    <3>1. dispatch[e].key # key /\ dispatch[e].state \notin Active
      BY <1>2, <2>2 DEF Admission, Replay, HasActive, ItemOf
    <3>2. dispatch[e].state = "none" <=> e[2] > attempts[i]
      BY <1>2, <2>2 DEF IInv, RowsInOrder
    <3>3. e[2] \in Nat /\ attempts[i] \in Nat /\ dispatch[e] \in DispatchRow
      BY <1>2, BoundsAssumption DEF Dispatch, Attempt, IInv, Typed, TypeOK
    <3>4. dispatch[e].state \in {"none"} \union Active \union Terminal
      BY <3>3 DEF DispatchRow
    <3> QED
      BY <3>1, <3>2, <3>3, <3>4
  <2>3. Lifecycle!Admit(new, key)
    BY <1>2, <2>2 DEF Admission, Lifecycle!Admit, Lifecycle!Dispatch, Lifecycle!Terminal,
       Dispatch, Attempt, Terminal
  <2> QED
    BY <2>1, <2>3 DEF Dispatch, Attempt, Lifecycle!Dispatch
<1>3. ASSUME NEW d \in Dispatch, LifeStep(d)
      PROVE  Lifecycle!Next
  BY <1>3 DEF LifeStep, Lifecycle!Next, Lifecycle!Dispatch, Lifecycle!Searchable,
     Lifecycle!Failure, Lifecycle!Refusal, Dispatch, Attempt, Settled, Textual,
     FailureCode
<1>4. IInv /\ [Next]_vars => [Lifecycle!Next]_<<dispatch, event>>
  BY <1>2, <1>3, EveryStep DEF RowStep, Lifecycle!Next
<1> QED
  BY <1>1, <1>4, Invariance, PTL DEF Spec, ImplementsLifecycle, Lifecycle!Spec

\* Where the broker delivers an item's messages once, two workers never process
\* the item at the same time.
THEOREM ExclusiveWork == Spec => []ExclusiveIngestion
  BY ClaimsExclude, ItemInvariance, PTL

\* Where the broker delivers an item's messages once, the item shows what its user
\* was notified of, its transcript can be read once it is ready, and it is never
\* stranded.
THEOREM TrueItems == Spec => []ItemStaysTrue
  BY TruthShows, ItemInvariance, PTL

================================================================================
