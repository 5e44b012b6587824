------------------------------- MODULE McpServer -------------------------------
(******************************************************************************)
(* The MCP server: processes that start behind readiness probes, requests     *)
(* that carry a token, and tools that work in the thread of their grant.      *)
(*                                                                            *)
(* An HTTP process resolves the token of every request and serves it with the *)
(* profile of its scope; a stdio process resolves one token when it starts.   *)
(* The tools are coroutines without a suspension point, except a question to  *)
(* the agent: in one process they run one at a time, and interleave with      *)
(* those of other processes at their transactions.                            *)
(*                                                                            *)
(* A deletion is one step here; its claim, lease and expiry are the subject   *)
(* of PendingDelete. The SDK keeps the context of a request to its own tasks. *)
(******************************************************************************)
EXTENDS Naturals, FiniteSets, FiniteSetsExt

CONSTANTS
    Process,      \* MCP server processes
    Http,         \* those that serve HTTP; the others talk to one client by stdio
    Grant,        \* mcp_access_grant rows
    Full,         \* those of scope full
    Call,         \* requests at a time
    NoGrant,
    MaxOperator,  \* bound: rotations and revocations
    MaxMessage    \* bound: tool calls that reach their thread

\* What the constants must satisfy.
McpBounds ==
    /\ Process # {} /\ Http \subseteq Process
    /\ Grant # {} /\ Full \subseteq Grant /\ NoGrant \notin Grant
    /\ MaxOperator \in Nat /\ MaxMessage \in Nat

VARIABLES
    grant,    \* the current token of each grant, and whether it is good
    server,   \* the processes
    thread,   \* the conversation of each grant and its pending deletion
    call,     \* the requests
    sent,     \* messages drawn so far
    shown     \* confirmation codes handed out, named by their request

vars == <<grant, server, thread, call, sent, shown>>

--------------------------------------------------------------------------------
(* Tools, profiles and state *)

ReadTools  == {"ask", "inspect"}
DeleteTools == {"request", "confirm", "cancel"}
Tool       == ReadTools \union DeleteTools \union {"change"}

Profile == {"full", "read"}

Message == 1..MaxMessage
NoMessage == 0

ServerState ==
    [pc      : {"down", "probing", "starting", "up"},
     own     : Grant \union {NoGrant},     \* the grant of a stdio process
     worker  : {"unread", "asked", "answered", "failed"},
     ready   : BOOLEAN,                    \* mutation_ready
     running : SUBSET Profile]             \* started session managers

ThreadState ==
    [latest : Message \union {NoMessage},
     turns  : SUBSET Message,
     code   : Message \union {NoMessage},  \* request of the pending deletion
     anchor : Message \union {NoMessage},
     parent : Message \union {NoMessage},
     deleted : SUBSET Message]             \* requests whose deletion ran

CallState ==
    [pc      : {"idle", "sent", "in", "refused", "asking", "open", "op", "mark"},
     at      : Process,
     token   : Grant,
     gen     : Nat,
     dead    : BOOLEAN,                    \* history: the token was no good when sent
     context : Grant \union {NoGrant},     \* _AUTH_CONTEXT
     as      : Grant \union {NoGrant},     \* the grant the tool resolved
     tool    : Tool \union {"none"},
     msg     : Message \union {NoMessage},
     seen    : Message \union {NoMessage},
     code    : Message \union {NoMessage}]

Down == [pc |-> "down", own |-> NoGrant, worker |-> "unread", ready |-> FALSE,
         running |-> {}]

IdleCall ==
    [pc |-> "idle", at |-> CHOOSE p \in Process : TRUE,
     token |-> CHOOSE g \in Grant : TRUE, gen |-> 0, dead |-> FALSE,
     context |-> NoGrant, as |-> NoGrant, tool |-> "none",
     msg |-> NoMessage, seen |-> NoMessage, code |-> NoMessage]

Init ==
    /\ grant = [g \in Grant |-> [gen |-> 0, good |-> TRUE]]
    /\ server = [p \in Process |-> Down]
    /\ thread = [g \in Grant |->
           [latest |-> NoMessage, turns |-> {}, code |-> NoMessage,
            anchor |-> NoMessage, parent |-> NoMessage, deleted |-> {}]]
    /\ call = [c \in Call |-> IdleCall]
    /\ sent = 0
    /\ shown = {}

\* Variant of Live that still accepts the token from before a rotation.
LiveRotated(g, gen) == grant[g].good

\* The row found by the hash of a token is neither revoked, disabled nor
\* expired, and its identity and user are not disabled.
Live(g, gen) == grant[g].good /\ grant[g].gen = gen

ScopeOf(g) == IF g \in Full THEN "full" ELSE "read"

--------------------------------------------------------------------------------
(* Startup *)

Go(p, to) ==
    /\ server' = [server EXCEPT ![p] = to]
    /\ UNCHANGED <<grant, thread, call, sent, shown>>

\* A stdio process resolves its token before anything else and does not start
\* without a good one; a read one needs no probes.
StartStdio(p) ==
    /\ p \notin Http /\ server[p].pc = "down"
    /\ \E g \in Grant :
           /\ grant[g].good
           /\ Go(p, IF g \in Full
                    THEN [Down EXCEPT !.pc = "probing", !.own = g, !.worker = "asked"]
                    ELSE [Down EXCEPT !.pc = "up", !.own = g])

StartHttp(p) ==
    /\ p \in Http /\ server[p].pc = "down"
    /\ Go(p, [Down EXCEPT !.pc = "probing", !.worker = "asked"])

\* The inspection of the workers ends in a thread of its own; after startup has
\* stopped waiting for it, nobody reads its result.
WorkerAnswers(p) ==
    /\ server[p].worker = "asked"
    /\ \E answer \in {"answered", "failed"} :
           Go(p, [server[p] EXCEPT !.worker = answer])

\* The worker has answered, or its deadline has passed.
Waited(p) == TRUE

\* The decision, made once: the four other checks ended with some result.
Assess(p) ==
    /\ server[p].pc = "probing"
    /\ Waited(p)
    /\ \E others \in BOOLEAN :
           Go(p, [server[p] EXCEPT
                      !.pc = IF p \in Http THEN "starting" ELSE "up",
                      !.worker = "unread",
                      !.ready = others /\ server[p].worker = "answered"])

\* The applications whose lifespan the server enters.
Apps == Profile

\* One after the other, that of the full profile first.
StartManager(p) ==
    /\ server[p].pc = "starting"
    /\ \E app \in Apps \ server[p].running :
           /\ app = "read" => "full" \in server[p].running
           /\ Go(p, [server[p] EXCEPT !.running = @ \union {app}])

Serve(p) ==
    /\ server[p].pc = "starting" /\ Apps \subseteq server[p].running
    /\ Go(p, [server[p] EXCEPT !.pc = "up"])

\* A failed startup, a shutdown or a crash; requests end with their process.
Stop(p) ==
    /\ server[p].pc # "down"
    /\ server' = [server EXCEPT ![p] = Down]
    /\ call' = [c \in Call |-> IF call[c].at = p THEN IdleCall ELSE call[c]]
    /\ UNCHANGED <<grant, thread, sent, shown>>

--------------------------------------------------------------------------------
(* Operators of the grants *)

Acts == MapThenSumSet(LAMBDA g : grant[g].gen + (IF grant[g].good THEN 0 ELSE 1),
                      Grant)

Rotate(g) ==
    /\ grant[g].good /\ Acts < MaxOperator
    /\ grant' = [grant EXCEPT ![g].gen = @ + 1]
    /\ UNCHANGED <<server, thread, call, sent, shown>>

\* Revoked, disabled or expired, or its identity or user was disabled.
Revoke(g) ==
    /\ grant[g].good /\ Acts < MaxOperator
    /\ grant' = [grant EXCEPT ![g].good = FALSE]
    /\ UNCHANGED <<server, thread, call, sent, shown>>

--------------------------------------------------------------------------------
(* Requests *)

Step(c, to) ==
    /\ call' = [call EXCEPT ![c] = to]
    /\ UNCHANGED <<grant, server, thread, sent, shown>>

Refuse(c) == Step(c, IdleCall)

SendHttp(c) ==
    /\ call[c].pc = "idle"
    /\ \E p \in Http, g \in Grant : \E gen \in 0..grant[g].gen :
           /\ server[p].pc = "up"
           /\ Step(c, [call[c] EXCEPT !.pc = "sent", !.at = p, !.token = g,
                           !.gen = gen,
                           !.dead = ~grant[g].good \/ gen # grant[g].gen])

\* On stdio there is nothing to authenticate; _AUTH_CONTEXT stays empty.
SendStdio(c) ==
    /\ call[c].pc = "idle"
    /\ \E p \in Process \ Http :
           LET g == server[p].own
           IN  /\ server[p].pc = "up"
               /\ Step(c, [call[c] EXCEPT !.pc = "in", !.at = p, !.token = g,
                               !.dead = ~grant[g].good])

\* Variant of Authenticate that keeps the grant in the facade all requests share.
AuthenticateShared(c) ==
    /\ call[c].pc = "sent" /\ Live(call[c].token, call[c].gen)
    /\ call' = [call EXCEPT ![c].pc = "in", ![c].gen = 0]
    /\ server' = [server EXCEPT ![call[c].at].own = call[c].token]
    /\ UNCHANGED <<grant, thread, sent, shown>>

\* The middleware resolves the token and passes the request on in its context.
Authenticate(c) ==
    /\ call[c].pc = "sent" /\ Live(call[c].token, call[c].gen)
    /\ Step(c, [call[c] EXCEPT !.pc = "in", !.gen = 0, !.context = call[c].token])

\* 401: no such token, or the database cannot tell.
Unauthenticated(c) == call[c].pc = "sent" /\ Refuse(c)

GrantOf(c) ==
    IF call[c].context # NoGrant THEN call[c].context ELSE server[call[c].at].own

\* The application a request is dispatched to.
ProfileOf(c) == ScopeOf(IF call[c].at \in Http THEN call[c].token
                                               ELSE server[call[c].at].own)

\* The tools of a profile: a full one without its dependencies is a read one.
Tools(p, profile) ==
    IF profile = "full" /\ server[p].ready THEN Tool ELSE ReadTools

\* One coroutine of a process at a time is between two suspension points.
Free(p) ==
    \A c \in Call : call[c].at = p => call[c].pc \notin {"open", "op", "mark"}

\* _prepare: what the facade itself asks of a tool.
Allowed(c, tool) ==
    tool \in ReadTools \/ (server[call[c].at].ready /\ GrantOf(c) \in Full)

Invoke(c) ==
    /\ call[c].pc = "in" /\ Free(call[c].at) /\ sent < MaxMessage
    /\ \E tool \in Tools(call[c].at, ProfileOf(c)) :
           LET pc == CASE ~Allowed(c, tool) -> "refused"
                       [] Allowed(c, tool) /\ tool = "ask" -> "asking"
                       [] OTHER -> "open"
           IN  call' = [call EXCEPT ![c] = [@ EXCEPT !.pc = pc, !.tool = tool,
                            !.as = GrantOf(c), !.msg = sent + 1]]
    /\ sent' = sent + 1
    /\ UNCHANGED <<grant, server, thread, shown>>

\* A client goes away before its tool runs, or while the agent thinks.
Abandon(c) == call[c].pc \in {"in", "asking", "refused"} /\ Refuse(c)

--------------------------------------------------------------------------------
(* Tools in their thread *)

ThreadOf(c) == thread[call[c].as]

\* The turn of a question or of a tool becomes the newest of its thread.
Recorded(c) ==
    [ThreadOf(c) EXCEPT !.turns = @ \union {call[c].msg}, !.latest = call[c].msg]

\* The agent answers; the conversation service records the turn.
Ask(c) ==
    /\ call[c].pc = "asking"
    /\ thread' = [thread EXCEPT ![call[c].as] = Recorded(c)]
    /\ call' = [call EXCEPT ![c] = IdleCall]
    /\ UNCHANGED <<grant, server, sent, shown>>

\* The newest turn is read in a transaction of its own, before the operation.
OpenThread(c) ==
    /\ call[c].pc = "open"
    /\ \/ Step(c, [call[c] EXCEPT !.pc = "op", !.seen = ThreadOf(c).latest])
       \/ Refuse(c)

Operate(c, tools, to, code) ==
    /\ call[c].pc = "op" /\ call[c].tool \in tools
    /\ thread' = [thread EXCEPT ![call[c].as] = to]
    /\ call' = [call EXCEPT ![c].pc = "mark", ![c].code = code]
    /\ UNCHANGED <<grant, server, sent, shown>>

\* list_saved_items and get_saved_item, and the four changes that need no
\* confirmation; an operation that raises is told as one that failed.
Inspect(c) == Operate(c, {"inspect"}, ThreadOf(c), NoMessage)
Change(c)  == Operate(c, {"change"}, ThreadOf(c), NoMessage)

NoPending(t) == [t EXCEPT !.code = NoMessage, !.anchor = NoMessage, !.parent = NoMessage]

\* request_delete has committed a new action in place of the pending one, or
\* has failed.
RequestDelete(c) ==
    \/ Operate(c, {"request"}, ThreadOf(c), NoMessage)
    \/ Operate(c, {"request"},
               [ThreadOf(c) EXCEPT !.code = call[c].msg, !.anchor = call[c].msg,
                                   !.parent = call[c].seen],
               call[c].msg)

\* A confirmation counts while the newest turn its call saw is the request or
\* one that followed up on it.
Follows(c) ==
    call[c].seen # NoMessage /\ call[c].seen \in {ThreadOf(c).anchor, ThreadOf(c).parent}

ConfirmDelete(c) ==
    \E code \in {NoMessage} \union shown :
        Operate(c, {"confirm"},
                CASE ThreadOf(c).code = NoMessage \/ ~Follows(c) -> ThreadOf(c)
                  [] Follows(c) /\ ThreadOf(c).code = code /\ code # NoMessage ->
                         [NoPending(ThreadOf(c)) EXCEPT !.deleted = @ \union {code}]
                  [] OTHER -> [ThreadOf(c) EXCEPT !.anchor = call[c].msg,
                                                  !.parent = call[c].seen],
                NoMessage)

CancelDelete(c) == Operate(c, {"cancel"}, NoPending(ThreadOf(c)), NoMessage)

\* The marker of the call is saved, and the result returned.
Mark(c) ==
    /\ call[c].pc = "mark"
    /\ thread' = [thread EXCEPT ![call[c].as] = Recorded(c)]
    /\ shown' = shown \union ({call[c].code} \ {NoMessage})
    /\ call' = [call EXCEPT ![c] = IdleCall]
    /\ UNCHANGED <<grant, server, sent>>

\* What a request without a marker tells its client: no code.
Told(c) == {}

\* The marker is lost. Whatever deletion of the thread is pending by now is
\* cancelled, as far as that succeeds.
LoseMark(c) ==
    /\ call[c].pc = "mark"
    /\ thread' \in {thread} \union
           (IF call[c].tool = "request"
            THEN {[thread EXCEPT ![call[c].as] = NoPending(@)]} ELSE {})
    /\ shown' = shown \union Told(c)
    /\ call' = [call EXCEPT ![c] = IdleCall]
    /\ UNCHANGED <<grant, server, sent>>

--------------------------------------------------------------------------------
(* The specification *)

ProcessStep(p) ==
    \/ StartStdio(p) \/ StartHttp(p) \/ WorkerAnswers(p) \/ Assess(p)
    \/ StartManager(p) \/ Serve(p) \/ Stop(p)

CallStep(c) ==
    \/ SendHttp(c) \/ SendStdio(c) \/ Authenticate(c) \/ Unauthenticated(c)
    \/ Invoke(c) \/ Abandon(c)

ToolStep(c) ==
    \/ Ask(c) \/ OpenThread(c) \/ Inspect(c) \/ Change(c)
    \/ RequestDelete(c) \/ ConfirmDelete(c) \/ CancelDelete(c)
    \/ Mark(c) \/ LoseMark(c)

Next ==
    \/ \E p \in Process : ProcessStep(p)
    \/ \E g \in Grant : Rotate(g) \/ Revoke(g)
    \/ \E c \in Call : CallStep(c) \/ ToolStep(c)

\* The startup of a process runs on; nothing obliges a worker to answer.
Spec == Init /\ [][Next]_vars /\ \A p \in Process : WF_vars(Assess(p))

--------------------------------------------------------------------------------
(* Properties *)

\* Every row, process and request has the shape the schema and the code give it;
\* a pending deletion has the anchor of its request, and nothing else has one.
TypeOK ==
    /\ grant \in [Grant -> [gen : Nat, good : BOOLEAN]]
    /\ server \in [Process -> ServerState]
    /\ thread \in [Grant -> ThreadState]
    /\ \A g \in Grant : thread[g].code = NoMessage <=> thread[g].anchor = NoMessage
    /\ call \in [Call -> CallState]
    /\ sent \in 0..MaxMessage
    /\ shown \subseteq Message

Served(c) == call[c].pc \in {"in", "asking", "open", "op", "mark"}

\* A tool works for the grant whose token its request presented, however the
\* requests of a process interleave while the agent thinks
\* (mcp_server.py 548-549, 1256-1261).
CallKeepsItsGrant ==
    \A c \in Call : call[c].as # NoGrant => call[c].as = call[c].token

\* A token that was revoked, or rotated away, before a request was sent over
\* HTTP reaches no tool, although its process has served it before
\* (mcp_server.py 1226, mcp_grants.py 296-330).
RevokedIsRefused ==
    \A c \in Call : call[c].at \in Http /\ Served(c) => ~call[c].dead

\* Discovery and invocation agree: a tool the profile advertises is refused
\* neither for the scope of the grant nor for the readiness of the process
\* (mcp_server.py 768-772, 1181-1189).
AdvertisedIsAllowed == \A c \in Call : call[c].pc # "refused"

\* A request is dispatched only to an application whose session manager runs:
\* that of read grants is another one than that of the process
\* (mcp_server.py 1263-1295).
ManagerIsRunning ==
    \A c \in Call :
        call[c].at \in Http /\ call[c].pc = "in"
        => ProfileOf(c) \in server[call[c].at].running

\* Every code a client was given has its durable marker, and the deletion a
\* code confirmed was one its client had been shown
\* (mcp_server.py 930-944).
CodeIsAnchored ==
    /\ \A m \in shown : \E g \in Grant : m \in thread[g].turns
    /\ \A g \in Grant : thread[g].deleted \subseteq shown

\* A message is served for the grant and the tools it was let in with, by an
\* application whose session manager runs, and a code that was shown has its
\* marker (mcp_server.py 548-620, 930-944, 1263-1295).
ServedAsAdmitted ==
    CallKeepsItsGrant /\ AdvertisedIsAllowed /\ ManagerIsRunning /\ CodeIsAnchored

\* Startup ends although a worker never answers its inspection
\* (mcp_readiness.py 189-221).
StartupEnds ==
    \A p \in Process : server[p].pc = "probing" ~> server[p].pc # "probing"

================================================================================
