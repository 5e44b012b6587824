------------------------------ MODULE AgentTurn ------------------------------
(***************************************************************************)
(* One execution of the agent for one message: the model chooses tools and *)
(* a final text, the server executes the tools under its budgets, keeps    *)
(* what they returned, and turns whatever happened - a text, a limit, a    *)
(* timeout, an error - into one answer. Calls a model step asks for run    *)
(* one after the other. Texts, prompts and rankings are left out.          *)
(***************************************************************************)
EXTENDS Naturals, Sequences, FiniteSets

CONSTANTS
    Query,          \* searches, by their normalised arguments
    Segment,        \* segments of the library, and the calls that expand one
    ActionTool,     \* the action tools of the instance, of AllActionTools
    Pending,        \* what may wait for confirmation: None, "save", "delete"
    Todo,           \* step ids of the turn's todo
    RequestLimit,   \* agent_request_limit
    ToolLimit,      \* agent_tool_calls_limit
    MaxBatch,       \* bound: tool calls of one model step
    MaxSegments     \* COMPRESSED_EVIDENCE_LIMIT

SearchLimit == 2    \* NORMAL_SEARCH_CALLS_LIMIT
ExpandLimit == 3    \* NORMAL_EXPANSION_CALLS_LIMIT
ReadLimit == 5      \* NORMAL_RETRIEVAL_CALLS_LIMIT
RecoveryLimit == 2  \* MAX_TOTAL_RECOVERY_ACTIONS
DraftLimit == 3     \* attempts of recover_answer

VARIABLES
    message,    \* what is fixed before the run: its text, pending action, path
    run,        \* the run of the primary agent: phase, step, calls left
    reads,      \* AgentDeps: budgets, evidence, failed reads, recovery ledger
    act,        \* AgentActionRuntime: outcome, input_mismatch
    todo,       \* TurnTodoStore: status of each step
    late,       \* an action tool whose thread outlived the run
    backend,    \* reads and effects the services were asked for
    told        \* the answer
vars == <<message, run, reads, act, todo, late, backend, told>>

None == "none"
ManagementTool == {"update_saved_item", "delete_saved_items", "restore_saved_items",
                   "retry_item_ingestion"}
PendingSaveTool == {"confirm_video_save", "clarify_save_confirmation", "cancel_video_save"}
PendingDeleteTool == {"confirm_item_deletion", "clarify_item_deletion", "cancel_item_deletion"}
AllActionTools == ManagementTool \union PendingSaveTool \union PendingDeleteTool
                  \union {"save_videos"}
Read == Query \union Segment \union {"list"}
NoOutcome == [tool |-> None, ok |-> FALSE]
NoAnswer == [code |-> None, outcome |-> NoOutcome, sources |-> {}, planned |-> FALSE]

\* A message is a bare link, a question about a link without or with a command to
\* save it, or plain text. A stream without a section provider runs as a whole.
Message == [text : {"url", "link", "linksave", "plain"},
            pending : Pending,
            path : {"whole", "stream"}]

\* AgentDeps of a new run.
FreshReads == [searches |-> 0, expansions |-> 0, lastStep |-> 0, found |-> FALSE,
               cited |-> {}, failed |-> {}, retried |-> {}, recoveries |-> 0,
               lastEmpty |-> None, exhausted |-> FALSE, listed |-> FALSE]

\* What the constants must satisfy.
LimitsAssumption ==
    /\ ActionTool \subseteq AllActionTools /\ Pending \subseteq {None, "save", "delete"}
    /\ RequestLimit \in Nat \ {0} /\ ToolLimit \in Nat /\ MaxBatch \in Nat \ {0}
    /\ MaxSegments \in Nat \ {0}

Init ==
    /\ message \in Message
    /\ run = [at |-> IF message.text = "url" THEN "bare" ELSE "model", step |-> 0,
              calls |-> 0, batch |-> <<>>, retrying |-> {}, asked |-> {}, drafts |-> 0]
    /\ late = None
    /\ reads = FreshReads
    /\ act = [outcome |-> NoOutcome, mismatch |-> FALSE]
    /\ todo = [t \in Todo |-> None]
    /\ backend = [search |-> 0, expand |-> 0, effects |-> 0]
    /\ told = NoAnswer

-----------------------------------------------------------------------------
(* Answers *)

Acted == act.outcome # NoOutcome
Retrievals == reads.searches + reads.expansions
\* The status of each step of the todo after mark_blocked.
Blocked == [t \in Todo |-> IF todo[t] \in {"pending", "in_progress"} THEN "blocked" ELSE todo[t]]

Done == run' = [run EXCEPT !.at = "done", !.batch = <<>>]
Tell(code) == told' = [NoAnswer EXCEPT !.code = code] /\ Done

\* _terminal_action_execution.
TellOutcome(o) == told' = [NoAnswer EXCEPT !.code = "action", !.outcome = o] /\ Done

\* recover_answer is entered with evidence only.
Compose == run' = [run EXCEPT !.at = "compose", !.batch = <<>>] /\ UNCHANGED told

\* _search_completed_without_evidence.
CleanSearch == reads.found /\ reads.cited = {} /\ reads.failed = {} /\ ~reads.exhausted

\* _partial_read_fallback.
TellPartial == Tell("partial_read") /\ todo' = Blocked

\* The order in which every handler of _run_primary_agent looks for an answer.
\* Variant: evidence is looked at before the outcome of an action.
ResolveEvidenceFirst(code) ==
    /\ UNCHANGED <<message, reads, act, backend>>
    /\ IF reads.cited # {} THEN Compose /\ UNCHANGED todo
       ELSE IF Acted THEN TellOutcome(act.outcome) /\ UNCHANGED todo
       ELSE IF CleanSearch THEN Tell("no_evidence") /\ UNCHANGED todo
       ELSE IF reads.listed THEN TellPartial
       ELSE Tell(code) /\ UNCHANGED todo

Resolve(code) ==
    /\ UNCHANGED <<message, reads, act, backend>>
    /\ IF Acted THEN TellOutcome(act.outcome) /\ UNCHANGED todo
       ELSE IF reads.cited # {} THEN Compose /\ UNCHANGED todo
       ELSE IF CleanSearch THEN Tell("no_evidence") /\ UNCHANGED todo
       ELSE IF reads.listed THEN TellPartial
       ELSE Tell(code) /\ UNCHANGED todo

\* A tool failed its arguments twice, or the model answered nonsense. A save
\* whose links are not those of the message ends as an outcome of its own.
Unexpected ==
    IF ~Acted /\ act.mismatch
    THEN LET o == [tool |-> "save_videos", ok |-> FALSE]
         IN  act' = [act EXCEPT !.outcome = o] /\ TellOutcome(o)
             /\ UNCHANGED <<message, reads, todo, backend>>
    ELSE Resolve("runtime_error")

-----------------------------------------------------------------------------
(* A step of the model *)

\* normal_retrieval_available.
RetrievalAvailable ==
    Retrievals < ReadLimit
    /\ (reads.searches < SearchLimit
        \/ (reads.cited # {} /\ reads.expansions < ExpandLimit))

\* prepare_search: a failed search stays callable, to be refused safely.
MaySearch ==
    \/ reads.failed \intersect Query # {}
    \/ RetrievalAvailable /\ reads.searches < SearchLimit
\* prepare_expansion.
MayExpand == reads.cited # {} /\ RetrievalAvailable /\ reads.expansions < ExpandLimit
\* prepare_management, prepare_save, prepare_pending_save, prepare_pending_delete.
VisibleAction ==
    {t \in ActionTool :
        \/ t \in ManagementTool /\ message.text = "plain"
        \/ t = "save_videos" /\ message.text # "link"
        \/ t \in PendingSaveTool /\ message.text = "plain" /\ message.pending = "save"
        \/ t \in PendingDeleteTool /\ message.text = "plain" /\ message.pending = "delete"}
Visible ==
    {"todo"} \union VisibleAction
    \union (IF MaySearch THEN Query ELSE {})
    \union (IF MayExpand THEN Segment ELSE {})
    \union (IF message.text = "plain" THEN {"list"} ELSE {})

\* The model asks for tool calls: the limits are checked before any runs.
CallTools ==
    /\ run.at = "model" /\ run.step < RequestLimit /\ UNCHANGED late
    /\ \E n \in 1..MaxBatch : \E b \in [1..n -> Visible] :
        IF run.calls + n > ToolLimit THEN Resolve("limit")
        ELSE /\ run' = [run EXCEPT !.at = "tools", !.step = @ + 1, !.calls = @ + n, !.batch = b,
                                   !.retrying = run.asked, !.asked = {}]
             /\ UNCHANGED <<message, reads, act, todo, backend, told>>

\* UsageLimitExceeded before the next request.
OutOfRequests ==
    run.at = "model" /\ run.step = RequestLimit /\ Resolve("limit") /\ UNCHANGED late
\* ModelHTTPError and any other exception of the run.
ModelFails == run.at = "model" /\ Resolve("runtime_error") /\ UNCHANGED late
\* UnexpectedModelBehavior of the model itself.
ModelMisbehaves == run.at = "model" /\ Unexpected /\ UNCHANGED late

\* agent_timeout_seconds. A call that is running in its thread goes on there.
Timeout ==
    /\ run.at \in {"model", "tools"} /\ Resolve("timeout")
    /\ late' = IF run.at = "tools" /\ Head(run.batch) \in ActionTool
               THEN Head(run.batch) ELSE None

-----------------------------------------------------------------------------
(* The tools *)

NextCall == [run EXCEPT !.batch = Tail(@), !.at = IF Len(run.batch) = 1 THEN "model" ELSE "tools"]
\* ModelRetry: the model is asked again; when the tool was refused in the step
\* before too, the run fails instead.
AskAgain(t) ==
    /\ t \notin run.retrying
    /\ run' = [NextCall EXCEPT !.asked = @ \union {t}]
    /\ UNCHANGED <<message, reads, todo, backend, told>>
GiveUp(t) == t \in run.retrying /\ Unexpected

\* Calls of the tool a read belongs to.
SameTool(r) == IF r \in Query THEN Query ELSE IF r \in Segment THEN Segment ELSE {"list"}

\* can_retry_same_read, and the grant of a transient_read.
MayRetry(d, r) ==
    d.recoveries < RecoveryLimit /\ r \notin d.retried /\ d.searches + d.expansions < ReadLimit

\* _read_failure refuses a read: another one of the tool failed, or it was retried.
Refused(d, r) ==
    IF r \in d.failed THEN ~MayRetry(d, r) ELSE d.failed \intersect SameTool(r) # {}
Refuse(d, r) == [d EXCEPT !.exhausted = @ \/ r \in d.failed]
\* It runs: a retry is taken from the ledger first.
Begin(d, r) ==
    IF r \in d.failed THEN [d EXCEPT !.recoveries = @ + 1, !.retried = @ \union {r}] ELSE d
Fail(d, r) == [Begin(d, r) EXCEPT !.failed = @ \union {r}, !.exhausted = @ \/ r \in d.failed]
Succeed(d, r, segments) ==
    [Begin(d, r) EXCEPT !.failed = @ \ {r}, !.cited = @ \union segments]

\* reserve_retrieval: one retrieval in a step, within the budgets.
MayReserve(d, kind) ==
    /\ d.lastStep # run.step
    /\ d.searches + d.expansions < ReadLimit
    /\ IF kind = "search" THEN d.searches < SearchLimit ELSE d.expansions < ExpandLimit
Reserve(d, kind) ==
    [d EXCEPT !.lastStep = run.step,
              !.searches = IF kind = "search" THEN @ + 1 ELSE @,
              !.expansions = IF kind = "expand" THEN @ + 1 ELSE @]

\* A query other than the one that found nothing needs a recovery action.
Reformulates(q) == reads.lastEmpty \notin {None, q}
MayReformulate ==
    reads.recoveries < RecoveryLimit /\ reads.searches < SearchLimit /\ Retrievals < ReadLimit

\* What a search finds: the query that found nothing is remembered.
Searched(d, q, found) ==
    [Succeed(d, q, found) EXCEPT !.found = TRUE, !.lastEmpty = IF found = {} THEN q ELSE None]

\* search_segments.
Search(q) ==
    /\ run' = NextCall /\ UNCHANGED <<message, act, todo, late, told>>
    /\ LET d == IF Reformulates(q) THEN [reads EXCEPT !.recoveries = @ + 1] ELSE reads
           bound == reads.failed \intersect Query # {}
           unreserved == bound /\ (q \in reads.failed => q \in reads.retried)
           e == IF unreserved THEN d ELSE Reserve(d, "search")
       IN  \/ /\ reads.lastEmpty = q \/ (Reformulates(q) /\ ~MayReformulate)
              /\ reads' = [reads EXCEPT !.exhausted = @ \/ reads.lastEmpty # q]
              /\ UNCHANGED backend
           \/ /\ reads.lastEmpty # q /\ (Reformulates(q) => MayReformulate)
              /\ \/ ~unreserved /\ ~MayReserve(d, "search") /\ reads' = d /\ UNCHANGED backend
                 \/ /\ unreserved \/ MayReserve(d, "search")
                    /\ IF Refused(e, q) THEN reads' = Refuse(e, q) /\ UNCHANGED backend
                       ELSE /\ backend' = [backend EXCEPT !.search = @ + 1]
                            /\ \/ reads' = Fail(e, q)
                               \/ \E found \in SUBSET Segment : reads' = Searched(e, q, found)

\* get_neighbors, open_at, get_item.
Expand(s) ==
    /\ run' = NextCall /\ UNCHANGED <<message, act, todo, late, told>>
    /\ IF ~MayReserve(reads, "expand") THEN UNCHANGED <<reads, backend>>
       ELSE LET e == Reserve(reads, "expand")
            IN  IF Refused(e, s) THEN reads' = Refuse(e, s) /\ UNCHANGED backend
                ELSE /\ backend' = [backend EXCEPT !.expand = @ + 1]
                     /\ \/ reads' = Fail(e, s)
                        \/ \E near \in SUBSET Segment : reads' = Succeed(e, s, near)

\* list_saved_items, get_saved_item: an error of the request ends the turn as
\* an outcome, a failing database is a failed read.
List ==
    /\ run' = NextCall /\ UNCHANGED <<message, todo, late, backend, told>>
    /\ IF Refused(reads, "list") THEN reads' = Refuse(reads, "list") /\ UNCHANGED act
       ELSE \/ ~act.outcome.ok /\ reads' = Fail(reads, "list") /\ UNCHANGED act
            \/ Acted /\ reads' = Succeed(reads, "list", {}) /\ UNCHANGED act
            \/ /\ ~Acted /\ UNCHANGED act
               /\ reads' = [Succeed(reads, "list", {}) EXCEPT !.listed = TRUE]
            \/ /\ ~Acted /\ act' = [act EXCEPT !.outcome = [tool |-> "list", ok |-> FALSE]]
               /\ reads' = Succeed(reads, "list", {})

\* A handler ends: what the services were asked for, and the outcome it keeps.
Finish(t, asked) ==
    /\ backend' = [backend EXCEPT !.effects = @ + asked]
    /\ \E ok \in BOOLEAN : act' = [act EXCEPT !.outcome = [tool |-> t, ok |-> ok]]

\* update_saved_item, restore_saved_items, retry_item_ingestion.
ManageItem(t) == t \in ManagementTool /\ t # "delete_saved_items" /\ Finish(t, 1)
\* request_delete, confirm_delete, clarify_delete, cancel_delete: each changes
\* the pending row, the clarification by the message it expects.
DecideDelete(t) == t \in PendingDeleteTool \union {"delete_saved_items"} /\ Finish(t, 1)
\* confirm, clarify_confirmation, cancel: the clarification only speaks.
DecideSave(t) ==
    t \in PendingSaveTool /\ Finish(t, IF t = "clarify_save_confirmation" THEN 0 ELSE 1)
\* save_videos with the links of the message.
SubmitVideos(t) == t = "save_videos" /\ Finish(t, 1)

Perform(t) == ManageItem(t) \/ DecideDelete(t) \/ DecideSave(t) \/ SubmitVideos(t)

\* The action tools: at most one of a turn asks the services.
Act(t) ==
    /\ UNCHANGED late
    /\ \/ Acted /\ run' = NextCall /\ UNCHANGED <<message, reads, act, todo, backend, told>>
       \/ ~Acted /\ Perform(t) /\ run' = NextCall /\ UNCHANGED <<message, reads, todo, told>>
       \/ /\ ~Acted /\ t = "save_videos" /\ AskAgain(t)
          /\ act' = [act EXCEPT !.mismatch = TRUE]
       \/ ~Acted /\ t = "save_videos" /\ GiveUp(t)

\* The thread of an action that outlived its run ends: its outcome is lost.
LateEffect ==
    /\ late \notin {None, "over"} /\ late' = "over" /\ UNCHANGED <<message, run, reads, todo, told>>
    /\ IF Acted THEN UNCHANGED <<act, backend>> ELSE Perform(late)

\* _TODO_STATUS_TRANSITIONS; a step may always be left out of a snapshot.
MayBecome(old, new) ==
    CASE old \in {"completed", "blocked"} -> new \in {old, None}
      [] old = "in_progress" -> new # "pending"
      [] OTHER -> TRUE

\* todo_write: a complete snapshot replaces the last one.
WriteTodo ==
    /\ UNCHANGED late
    /\ \/ \E new \in [Todo -> {None, "pending", "in_progress", "completed", "blocked"}] :
            /\ Cardinality({t \in Todo : new[t] = "in_progress"}) <= 1
            /\ \A t \in Todo : MayBecome(todo[t], new[t])
            /\ todo' = new /\ run' = NextCall /\ UNCHANGED <<message, reads, act, backend, told>>
       \/ AskAgain("todo") /\ UNCHANGED act
       \/ GiveUp("todo")

CallTool ==
    /\ run.at = "tools"
    /\ LET c == Head(run.batch)
       IN  \/ c \in Query /\ Search(c)
           \/ c \in Segment /\ Expand(c)
           \/ c = "list" /\ List
           \/ c = "todo" /\ WriteTodo
           \/ c \in ActionTool /\ Act(c)

-----------------------------------------------------------------------------
(* The text of the model *)

\* TurnTodoStore.finalize: nothing unfinished, and blocked steps only when the
\* text asks for what is missing and nothing was read.
TodoFinal(clarifies) ==
    /\ \A t \in Todo : todo[t] \notin {"pending", "in_progress"}
    /\ (\E t \in Todo : todo[t] = "blocked") =>
            /\ clarifies /\ reads.searches = 0 /\ reads.cited = {} /\ ~reads.listed
            /\ message.text \notin {"link", "linksave"}

\* Some read of the turn failed for good.
Unread == reads.exhausted \/ reads.failed # {}

\* _finalize_primary_result.
Finalize(clarifies, safe) ==
    /\ UNCHANGED <<message, reads, act, late, backend>>
    /\ IF Acted THEN TellOutcome(act.outcome) /\ UNCHANGED todo
       ELSE IF Unread
       THEN IF reads.cited # {} THEN Compose /\ todo' = Blocked
            ELSE Tell(IF reads.listed THEN "partial_read" ELSE "read_unavailable")
                 /\ todo' = Blocked
       ELSE /\ UNCHANGED todo
            /\ IF reads.cited # {} THEN Compose
               ELSE IF ~TodoFinal(clarifies) THEN Tell("todo_incomplete")
               ELSE IF reads.searches = 0
               THEN Tell(IF reads.listed THEN "management_read"
                         ELSE IF safe THEN "natural" ELSE "answer_unavailable")
               ELSE Tell(IF reads.found THEN "no_evidence" ELSE "answer_unavailable")

\* stream: the answer is planned and written section by section when there is
\* evidence and the todo is final.
Streamable(clarifies) == message.path = "stream" /\ reads.cited # {} /\ TodoFinal(clarifies)

ModelAnswers ==
    /\ run.at = "model" /\ run.step < RequestLimit
    /\ \E clarifies, safe \in BOOLEAN :
        IF Streamable(clarifies)
        THEN /\ run' = [run EXCEPT !.at = "plan"]
             /\ UNCHANGED <<message, reads, act, todo, late, backend, told>>
        ELSE Finalize(clarifies, safe)

\* A draft or a plan: the segments it cites, perhaps one the turn never read,
\* whether one is cited twice, and whether its text may be shown.
Draft == [cites : SUBSET (Segment \union {"unread"}), repeats : BOOLEAN, safe : BOOLEAN]

\* _draft_failure_reason.
Valid(d) ==
    /\ d.safe /\ d.cites # {} /\ d.cites \subseteq reads.cited /\ ~d.repeats
    /\ Cardinality(d.cites) <= MaxSegments

Grounded(d, planned) ==
    /\ told' = [NoAnswer EXCEPT !.code = "grounded", !.sources = d.cites, !.planned = planned]
    /\ Done

NextDraft(n) == n + 1
LastDraft(n) == n + 1 = DraftLimit

\* recover_answer: an invalid draft or a failing provider costs an attempt.
Draw ==
    /\ run.at = "compose" /\ UNCHANGED <<message, reads, act, todo, late, backend>>
    /\ \/ \E d \in Draft : Valid(d) /\ Grounded(d, FALSE)
       \/ /\ ~LastDraft(run.drafts)
          /\ run' = [run EXCEPT !.drafts = NextDraft(@)] /\ UNCHANGED told
       \/ LastDraft(run.drafts) /\ Tell("answer_unavailable")

\* validate_stream_plan: a plan cites as a draft does; its texts come later.
ValidPlan(d) ==
    /\ d.cites # {} /\ d.cites \subseteq reads.cited /\ ~d.repeats
    /\ Cardinality(d.cites) <= MaxSegments

\* stream_answer: the sections of a valid plan are shown if their texts may be, or
\* the stream fails; before a section is shown, it may give way to the whole answer.
StreamAnswer ==
    /\ run.at = "plan"
    /\ \/ /\ UNCHANGED <<message, reads, act, todo, late, backend>>
          /\ \/ \E d \in Draft : ValidPlan(d) /\ d.safe /\ Grounded(d, TRUE)
             \/ told' = [NoAnswer EXCEPT !.code = "answer_unavailable", !.planned = TRUE] /\ Done
       \/ \E clarifies, safe \in BOOLEAN : Finalize(clarifies, safe)

\* request_confirmation: the links are those of the message.
RequestConfirmation(o) ==
    backend' = [backend EXCEPT !.effects = @ + 1] /\ act' = [act EXCEPT !.outcome = o]

\* _bare_url_action: a message of links alone never reaches the model.
BareUrl ==
    /\ run.at = "bare" /\ UNCHANGED <<message, reads, todo, late>>
    /\ \E ok \in BOOLEAN :
        LET o == [tool |-> "request_save_confirmation", ok |-> ok]
        IN  RequestConfirmation(o) /\ TellOutcome(o)

Next ==
    \/ CallTools \/ OutOfRequests \/ ModelFails \/ ModelMisbehaves \/ Timeout
    \/ CallTool \/ ModelAnswers \/ Draw \/ StreamAnswer \/ BareUrl \/ LateEffect

\* The run is awaited by its caller; the thread of a tool that outlived it is not.
Fairness == WF_vars(Next /\ ~LateEffect)
Spec == Init /\ [][Next]_vars /\ Fairness

-----------------------------------------------------------------------------
(* Properties *)

Ended == run.at = "done"
Code == {None, "action", "grounded", "no_evidence", "partial_read", "management_read",
         "natural", "read_unavailable", "answer_unavailable", "todo_incomplete",
         "timeout", "limit", "runtime_error"}

\* Types, and a turn has an answer exactly when its run is over.
TypeOK ==
    /\ run.at \in {"bare", "model", "tools", "compose", "plan", "done"}
    /\ run.step \in 0..RequestLimit /\ run.drafts \in 0..(DraftLimit - 1)
    /\ reads.cited \subseteq Segment /\ reads.failed \subseteq Read
    /\ reads.retried \subseteq Read /\ reads.recoveries \in 0..RecoveryLimit
    /\ todo \in [Todo -> {None, "pending", "in_progress", "completed", "blocked"}]
    /\ told.code \in Code /\ (Ended <=> told.code # None)
    /\ run.at = "tools" <=> run.batch # <<>>

\* Whatever the model asks for, in one step or in several, with refused
\* arguments, retries and a thread that outlived the run: at most one action of
\* a turn asks the services for a change (the first line of every action).
OneEffect == backend.effects <= 1

\* However the run ends - text, limit, timeout, error, evidence at hand - the
\* outcome of its action is what the user is told, not a failure or an answer
\* (the order of every handler of _run_primary_agent). The streamed path
\* composes over it, and a thread that outlived the run ends too late.
OutcomeIsTold ==
    Ended /\ Acted /\ ~told.planned /\ late = None => told.outcome = act.outcome

\* A read that failed and was not made good is never papered over: the user
\* is not told that nothing was found, nor given the model's own text or a
\* complete listing (_search_completed_without_evidence and the gates of
\* _finalize_primary_result).
FailedReadIsAdmitted ==
    Ended /\ Unread => told.code \notin {"no_evidence", "natural", "management_read"}

\* Repeated, reworded, batched or retried, the reads of a turn stay within the
\* budgets: a retry does not pass them by (_run_search_segments reserves
\* nothing for a call it expects to refuse).
BackendWithinBudget == backend.search <= SearchLimit /\ backend.expand <= ExpandLimit

\* An answer of facts cites evidence of this turn, and some (recover_answer,
\* _draft_failure_reason); nothing else carries sources.
CitesThisTurn ==
    /\ told.sources \subseteq reads.cited
    /\ told.code = "grounded" <=> told.sources # {}

\* The model's own text ends no turn whose todo is open, and a step given up is
\* admitted by a question only (TurnTodoStore.finalize).
TodoIsFinal ==
    told.code \in {"natural", "management_read"} =>
        /\ \A t \in Todo : todo[t] \notin {"pending", "in_progress"}
        /\ (\E t \in Todo : todo[t] = "blocked") => told.code = "natural" /\ message.text = "plain"
==============================================================================
