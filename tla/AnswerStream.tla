----------------------------- MODULE AnswerStream -----------------------------
(***************************************************************************)
(* One question asked on the chat page with a streamed answer: the agent   *)
(* that composes sections, the channel service that stores the turn, the   *)
(* route that turns private events into the public stream, the reader in   *)
(* the browser and the page. Generators are pulled: an event of the agent  *)
(* passes the service and the route in one step, and the agent goes on     *)
(* when the route has written what came of it.                             *)
(***************************************************************************)
EXTENDS Naturals, Sequences, FiniteSets

CONSTANTS
    MaxSection,     \* bound: sections of a plan
    MaxDelta        \* bound: text deltas of a section

\* What the constants must satisfy.
BoundsAssumption == MaxSection \in Nat \ {0} /\ MaxDelta \in Nat \ {0}

VARIABLES
    mode,      \* agent_streaming_enabled, and what the message is
    agent,     \* the execution: where it stands, its plan, section and code
    runs,      \* executions the server started for the message
    thread,    \* the conversation thread exists
    turn,      \* the durable turn of the message: None, its answer, "deleted"
    route,     \* events(): open section, sections so far, flags
    out,       \* public events the route has yet to write
    sent,      \* public events written to the response
    link,      \* the response: "up", "closed" at its end, "cut"
    reader,    \* the stream reader in the browser
    page       \* the chat page

server == <<agent, runs, turn, route, out>>
browser == <<reader, page>>
vars == <<mode, agent, runs, thread, turn, route, out, sent, link, reader, page>>

None == "none"
Section == 1..MaxSection
Plan == {p \in UNION {[1..n -> {"grounded", "unsupported"}] : n \in Section} :
            \E j \in DOMAIN p : p[j] = "grounded"}
\* Answers of an execution: "action" is a failed one with action results.
Answer == {"ok", "action", "unavailable", "timeout", "cancelled", "thread_missing"}
Failed(a) == a # "ok"
Terminal == {"completed", "error", "cancelled"}

Event(type, sec) == [type |-> type, sec |-> sec]
NoSection == 0

Init ==
    /\ mode \in [streaming : BOOLEAN, text : {"question", "command"}]
    /\ agent = [at |-> "idle", plan |-> <<>>, i |-> 0, deltas |-> 0, code |-> None]
    /\ runs = 0
    /\ thread = TRUE
    /\ turn = None
    /\ route = [open |-> NoSection, ids |-> {}, aborted |-> FALSE, visible |-> FALSE,
                ended |-> FALSE]
    /\ out = <<>>
    /\ sent = <<>>
    /\ link = "down"
    /\ reader = [read |-> 0, open |-> NoSection, ids |-> {}, aborted |-> FALSE,
                 result |-> None]
    /\ page = [state |-> "idle", sections |-> {}, answer |-> None]

-----------------------------------------------------------------------------
(* The route: events() *)

\* The terminal event a failed answer becomes.
EndOf(a) == Event(IF a = "cancelled" THEN "cancelled" ELSE "error", NoSection)

\* abort_open_section.
AbortOpen(r) == IF r.open = NoSection THEN <<>> ELSE <<Event("section_aborted", r.open)>>

\* An exception reached the route: the open section is withdrawn first.
Raise(a) ==
    /\ out' = AbortOpen(route) \o <<EndOf(a)>>
    /\ route' = [route EXCEPT !.open = NoSection, !.ended = TRUE,
                              !.aborted = @ \/ route.open # NoSection]

\* The route's checks on a private event.
Accepts(e) ==
    CASE e.type = "section_started" -> route.open = NoSection /\ e.sec \notin route.ids
      [] e.type = "text_delta" ->
            IF route.ids # {} THEN e.sec = route.open ELSE e.sec = NoSection
      [] e.type \in {"section_completed", "section_aborted"} ->
            e.sec # NoSection /\ e.sec = route.open
      [] e.type = "final" ->
            route.open = NoSection /\ (route.aborted => Failed(e.answer))
      [] OTHER -> TRUE

\* The public events a private one becomes.
Public(e) ==
    IF e.type # "final" THEN <<Event(e.type, e.sec)>>
    ELSE IF Failed(e.answer) THEN <<EndOf(e.answer)>>
    ELSE (IF route.ids = {} /\ ~route.visible
          THEN <<Event("text_delta", NoSection)>> ELSE <<>>)
         \o <<Event("completed", NoSection)>>

RouteAfter(e) ==
    [open    |-> CASE e.type = "section_started" -> e.sec
                   [] e.type \in {"section_completed", "section_aborted"} -> NoSection
                   [] OTHER -> route.open,
     ids     |-> IF e.type = "section_started" THEN route.ids \union {e.sec} ELSE route.ids,
     aborted |-> route.aborted \/ e.type = "section_aborted",
     visible |-> route.visible \/ e.type = "text_delta",
     ended   |-> e.type = "final"]

Receive(e) ==
    IF Accepts(e) THEN out' = Public(e) /\ route' = RouteAfter(e)
    ELSE Raise("unavailable")

-----------------------------------------------------------------------------
(* The channel service *)

\* A failed answer is stored only for the action results it carries.
Persistent(a) == ~Failed(a) \/ a = "action"

\* Variant of Conclude: the thread is not looked up again.
ConcludeBlindly(a) ==
    /\ Receive([type |-> "final", sec |-> NoSection, answer |-> a])
    /\ turn' = IF Persistent(a) /\ thread THEN a ELSE turn

\* The final event of an execution: the turn is stored before it is told.
Conclude(a) ==
    IF Persistent(a)
    THEN IF thread
         THEN turn' = a /\ Receive([type |-> "final", sec |-> NoSection, answer |-> a])
         ELSE /\ Receive([type |-> "final", sec |-> NoSection, answer |-> "thread_missing"])
              /\ UNCHANGED turn
    ELSE /\ Receive([type |-> "final", sec |-> NoSection, answer |-> a])
         /\ UNCHANGED turn

-----------------------------------------------------------------------------
(* The agent: KnowledgeAgent.stream and AnswerPipeline.stream_answer *)

Pulled == link = "up" /\ out = <<>> /\ ~route.ended

\* The execution goes on to agent state a and yields a private event.
Yield(a, type, sec) ==
    /\ Pulled
    /\ agent' = a
    /\ Receive([type |-> type, sec |-> sec, answer |-> None])
    /\ UNCHANGED <<mode, runs, thread, turn, sent, link, browser>>

\* It goes on without an event.
Silently(a) ==
    /\ Pulled
    /\ agent' = a
    /\ UNCHANGED <<mode, runs, thread, turn, route, out, sent, link, browser>>

\* The lock is taken and the thread resolved; a command is answered at once.
Lookup ==
    /\ Pulled /\ agent.at = "lookup"
    /\ IF mode.text = "command"
       THEN /\ agent' = [agent EXCEPT !.at = "done"]
            /\ Receive([type |-> "final", sec |-> NoSection, answer |-> "ok"])
            /\ UNCHANGED <<mode, runs, thread, turn, sent, link, browser>>
       ELSE /\ agent' = [agent EXCEPT !.at = "retrieve"]
            /\ runs' = runs + 1
            /\ thread' = TRUE
            /\ UNCHANGED <<mode, turn, route, out, sent, link, browser>>

\* The primary agent ended without evidence to stream: its whole answer.
Retrieved ==
    /\ agent.at = "retrieve"
    /\ \E a \in {"ok", "action", "unavailable", "timeout"} :
          Silently([agent EXCEPT !.at = "whole", !.code = a])

\* It collected evidence: an answer is planned.
Streamable ==
    agent.at = "retrieve" /\ Yield([agent EXCEPT !.at = "plan"], "activity", NoSection)

\* The plan is made, or rejected, or the provider cannot make one.
Planned ==
    /\ agent.at = "plan"
    /\ \/ \E p \in Plan : Silently([agent EXCEPT !.at = "section", !.plan = p, !.i = 1])
       \/ Silently([agent EXCEPT !.at = "stop", !.code = "unavailable"])
       \/ Silently([agent EXCEPT !.at = "finalize"])

\* No section streamed: the whole answer of the compatibility path.
Finalize ==
    /\ agent.at = "finalize"
    /\ \E a \in {"ok", "unavailable"} :
          Silently([agent EXCEPT !.at = "whole", !.code = a])

WholeText ==
    agent.at = "whole" /\ Yield([agent EXCEPT !.at = "final"], "text_delta", NoSection)

\* A section opens with its fixed text or its first safe delta.
SectionStarts ==
    /\ agent.at = "section" /\ agent.i <= Len(agent.plan)
    /\ Yield([agent EXCEPT !.at = "text", !.deltas = 0], "section_started", agent.i)

\* Variant of MayFallBack: also after a section was shown.
MayFallBackAlways(a) == TRUE

\* A provider without a stream is given up only before a section was shown.
MayFallBack(a) == a.i = 1

\* The provider streams nothing safe for the section.
NoFirstDelta ==
    /\ agent.at = "section" /\ agent.i <= Len(agent.plan)
    /\ agent.plan[agent.i] = "grounded"
    /\ IF MayFallBack(agent) THEN Silently([agent EXCEPT !.at = "finalize"])
       ELSE Silently([agent EXCEPT !.at = "stop", !.code = "unavailable"])

\* An unsupported section has one fixed text.
MayExtend(a) == a.deltas < (IF a.plan[a.i] = "grounded" THEN MaxDelta ELSE 1)

SectionText ==
    /\ agent.at = "text" /\ MayExtend(agent)
    /\ Yield([agent EXCEPT !.deltas = @ + 1], "text_delta", agent.i)

SectionEnds ==
    /\ agent.at = "text" /\ agent.deltas > 0
    /\ Yield([agent EXCEPT !.at = "section", !.i = @ + 1], "section_completed", agent.i)

AllSections ==
    /\ agent.at = "section" /\ agent.i > Len(agent.plan)
    /\ Silently([agent EXCEPT !.at = "final", !.code = "ok"])

\* The provider fails or times out, or its text is unsafe, inside a section.
SectionFails ==
    /\ \/ agent.at = "text" /\ agent.plan[agent.i] = "grounded"
       \/ agent.at = "section" /\ agent.i <= Len(agent.plan)
          /\ agent.plan[agent.i] = "grounded"
    /\ \E a \in {"unavailable", "timeout"} :
          Silently([agent EXCEPT !.at = IF @ = "text" THEN "abort" ELSE "stop", !.code = a])

\* stream_answer withdraws the section it had open.
Withdraw ==
    agent.at = "abort" /\ Yield([agent EXCEPT !.at = "stop"], "section_aborted", agent.i)

Final ==
    /\ Pulled /\ agent.at \in {"final", "stop"}
    /\ agent' = [agent EXCEPT !.at = "done"]
    /\ Conclude(agent.code)
    /\ UNCHANGED <<mode, runs, thread, sent, link, browser>>

\* The database fails the service, before the agent runs or after it.
StoreFails ==
    /\ Pulled /\ agent.at \in {"lookup", "final", "stop"}
    /\ agent.at # "lookup" => Persistent(agent.code)
    /\ agent' = [agent EXCEPT !.at = "done"]
    /\ Raise("unavailable")
    /\ UNCHANGED <<mode, runs, thread, turn, sent, link, browser>>

AgentStep ==
    \/ Lookup \/ Retrieved \/ Streamable \/ Planned \/ Finalize \/ WholeText
    \/ SectionStarts \/ NoFirstDelta \/ SectionText \/ SectionEnds \/ AllSections
    \/ SectionFails \/ Withdraw \/ Final \/ StoreFails

-----------------------------------------------------------------------------
(* The response and its interruptions *)

\* The page asked for a stream and the server offers one.
Open ==
    /\ page.state = "pending" /\ link = "down" /\ mode.streaming
    /\ link' = "up"
    /\ agent' = [agent EXCEPT !.at = "lookup"]
    /\ out' = <<Event("started", NoSection), Event("activity", NoSection)>>
    /\ UNCHANGED <<mode, runs, thread, turn, route, sent, browser>>

Write ==
    /\ link = "up" /\ out # <<>>
    /\ sent' = Append(sent, Head(out))
    /\ out' = Tail(out)
    /\ UNCHANGED <<mode, agent, runs, thread, turn, route, link, browser>>

Close ==
    /\ link = "up" /\ out = <<>> /\ route.ended
    /\ link' = "closed"
    /\ UNCHANGED <<mode, agent, runs, thread, turn, route, out, sent, browser>>

\* The transport budget is spent while the execution waits. A plan or a section
\* takes the cancellation for its own and ends as cancelled; elsewhere it
\* reaches the route as a timeout.
TransportTimeout ==
    /\ Pulled
    /\ \/ /\ agent.at \in {"plan", "section", "text"}
          /\ agent' = [agent EXCEPT !.at = IF @ = "text" THEN "abort" ELSE "stop",
                                    !.code = "cancelled"]
          /\ UNCHANGED <<route, out>>
       \/ /\ agent.at \in {"lookup", "retrieve", "finalize"}
          /\ agent' = [agent EXCEPT !.at = "done"]
          /\ Raise("timeout")
    /\ UNCHANGED <<mode, runs, thread, turn, sent, link, browser>>

\* The connection goes: what was not written is never told, and an execution
\* that still runs is cancelled with its generator.
Disconnect ==
    /\ link = "up"
    /\ link' = "cut"
    /\ agent' = [agent EXCEPT !.at = "done"]
    /\ out' = <<>>
    /\ UNCHANGED <<mode, runs, thread, turn, route, sent, browser>>

\* The thread is deleted meanwhile, with its turns.
DeleteThread ==
    /\ thread /\ agent.at # "idle"
    /\ thread' = FALSE
    /\ turn' = IF turn = None THEN None ELSE "deleted"
    /\ UNCHANGED <<mode, agent, runs, route, out, sent, link, browser>>

-----------------------------------------------------------------------------
(* The reader: streamConversationMessage *)

Expects(e) ==
    /\ (e.type = "started") <=> (reader.read = 0)
    /\ e.type = "section_started" => reader.open = NoSection /\ e.sec \notin reader.ids
    /\ e.type = "text_delta" =>
          IF reader.ids # {} THEN e.sec # NoSection /\ e.sec = reader.open
          ELSE e.sec = NoSection
    /\ e.type \in {"section_completed", "section_aborted"} =>
          e.sec # NoSection /\ e.sec = reader.open
    /\ e.type \in Terminal => reader.open = NoSection
    /\ e.type = "completed" => ~reader.aborted

ReaderAfter(e) ==
    [read    |-> reader.read + 1,
     open    |-> CASE e.type = "section_started" -> e.sec
                   [] e.type \in {"section_completed", "section_aborted"} -> NoSection
                   [] OTHER -> reader.open,
     ids     |-> IF e.type = "section_started" THEN reader.ids \union {e.sec}
                 ELSE reader.ids,
     aborted |-> reader.aborted \/ e.type = "section_aborted",
     result  |-> CASE e.type = "completed" -> "completed"
                   [] e.type \in {"error", "cancelled"} -> "failed"
                   [] OTHER -> None]

\* The page's handler of an accepted event.
PageAfter(e) ==
    CASE e.type = "section_started" -> [page EXCEPT !.sections = @ \union {e.sec}]
      [] e.type = "text_delta" ->
            IF e.sec # NoSection THEN page ELSE [page EXCEPT !.answer = "partial"]
      [] e.type = "section_aborted" -> [page EXCEPT !.sections = @ \ {e.sec}]
      [] e.type = "completed" -> [page EXCEPT !.sections = {}, !.answer = "final"]
      [] e.type \in {"error", "cancelled"} ->
            [page EXCEPT !.state = "failed", !.answer = "failure", !.sections = {}]
      [] OTHER -> page

Read ==
    /\ page.state = "pending" /\ reader.result = None /\ reader.read < Len(sent)
    /\ LET e == sent[reader.read + 1] IN
          IF Expects(e) THEN reader' = ReaderAfter(e) /\ page' = PageAfter(e)
          ELSE reader' = [reader EXCEPT !.result = "protocol"] /\ UNCHANGED page
    /\ UNCHANGED <<mode, server, thread, sent, link>>

\* Variant of Over: a broken connection is waited for.
OverAtEnd(l) == l = "closed"

\* Nothing more can arrive.
Over(l) == l \in {"closed", "cut"}

\* The response ended, or broke, before a terminal event.
Truncated ==
    /\ reader.result = None /\ reader.read = Len(sent)
    /\ Over(link)
    /\ reader' = [reader EXCEPT !.result = "truncated"]
    /\ UNCHANGED <<mode, server, thread, sent, link, page>>

-----------------------------------------------------------------------------
(* The page: ChatPage *)

Submit ==
    /\ page.state = "idle"
    /\ page' = [page EXCEPT !.state = "pending"]
    /\ UNCHANGED <<mode, server, thread, sent, link, reader>>

\* Only a server that offers no stream is asked again, without one.
FallsBack(r) == r = "unavailable"

\* The mutation's outcome: a success clears the question for the transcript, a
\* failed stream stays visible without its sections.
Settle ==
    /\ page.state \in {"pending", "failed"}
    /\ reader.result # None /\ ~FallsBack(reader.result)
    /\ page' = IF reader.result = "completed"
               THEN [state |-> "cleared", sections |-> {}, answer |-> None]
               ELSE [state |-> "refused", sections |-> {}, answer |-> page.answer]
    /\ UNCHANGED <<mode, server, thread, sent, link, reader>>

\* 406 streaming_disabled: nothing was executed.
StreamRefused ==
    /\ page.state = "pending" /\ link = "down" /\ ~mode.streaming
    /\ reader.result = None
    /\ reader' = [reader EXCEPT !.result = "unavailable"]
    /\ UNCHANGED <<mode, server, thread, sent, link, page>>

\* The same message over the JSON route: any answer is a success of the request,
\* and an execution over the transport budget is cancelled with 504.
Fallback ==
    /\ page.state \in {"pending", "failed"} /\ FallsBack(reader.result)
    /\ \/ /\ mode.text = "command"
          /\ page' = [state |-> "cleared", sections |-> {}, answer |-> None]
          /\ UNCHANGED <<runs, turn>>
       \/ /\ mode.text = "question"
          /\ runs' = runs + 1
          /\ \E a \in {"ok", "action", "unavailable", "timeout"} :
                turn' = IF Persistent(a) THEN a ELSE turn
          /\ page' = [state |-> "cleared", sections |-> {}, answer |-> None]
       \/ /\ mode.text = "question"
          /\ runs' = runs + 1
          /\ page' = [state |-> "refused", sections |-> {}, answer |-> None]
          /\ UNCHANGED turn
    /\ UNCHANGED <<mode, agent, thread, route, out, sent, link, reader>>

PageStep == Submit \/ StreamRefused \/ Fallback \/ Read \/ Truncated \/ Settle

Next == AgentStep \/ Open \/ Write \/ Close \/ TransportTimeout \/ Disconnect
          \/ DeleteThread \/ PageStep

\* The transport budget ends every wait of the execution, the event loop writes
\* what was yielded, and the browser reads what arrives.
Fairness ==
    /\ WF_vars(AgentStep \/ TransportTimeout)
    /\ WF_vars(Open) /\ WF_vars(Write) /\ WF_vars(Close)
    /\ WF_vars(StreamRefused \/ Fallback \/ Read \/ Truncated \/ Settle)

Spec == Init /\ [][Next]_vars /\ Fairness
-----------------------------------------------------------------------------
(* Properties *)

TypeOK ==
    /\ mode \in [streaming : BOOLEAN, text : {"question", "command"}]
    /\ agent.at \in {"idle", "lookup", "retrieve", "plan", "section", "text", "abort",
                     "stop", "finalize", "whole", "final", "done"}
    /\ agent.plan \in Plan \union {<<>>} /\ agent.i \in 0..(MaxSection + 1)
    /\ agent.deltas \in 0..MaxDelta /\ agent.code \in Answer \union {None}
    /\ runs \in Nat /\ thread \in BOOLEAN
    /\ turn \in Answer \union {None, "deleted"}
    /\ route.open \in Section \union {NoSection} /\ route.ids \subseteq Section
    /\ Len(out) <= 2 /\ link \in {"down", "up", "closed", "cut"}
    /\ reader.read \in 0..Len(sent)
    /\ reader.result \in {None, "completed", "failed", "protocol", "truncated", "unavailable"}
    /\ page.state \in {"idle", "pending", "failed", "cleared", "refused"}
    /\ page.sections \subseteq Section
    /\ page.answer \in {None, "partial", "final", "failure"}

\* The agent, the service, the route and the reader each keep their own idea of
\* the open section; whatever the provider does and whenever the execution is
\* cancelled, nothing the route writes is refused by the reader
\* (conversation_routes.py 971-1136 against client.ts 452-558).
ReaderAcceptsAll == reader.result # "protocol"

\* An answer the page was told is complete is a turn of the conversation: it was
\* stored before the event was written, and a thread that is gone tells a
\* failure instead (service.py 275-314, state-management.md 57).
ToldIsStored ==
    reader.result = "completed" /\ mode.text = "question" => turn # None

\* A stream that withdrew a section, or still has one open, leaves no turn
\* (web-browser-runtime.md 54-55).
PartialIsNotStored ==
    turn # None => ~route.aborted /\ route.open = NoSection

\* Text of a section the server withdrew is no longer on the page, and a failed
\* turn shows no section at all (ChatPage.tsx 240-257, 285-305).
WithdrawnIsGone ==
    /\ \A i \in 1..reader.read :
          sent[i].type = "section_aborted" => sent[i].sec \notin page.sections
    /\ page.state \in {"failed", "refused", "cleared"} => page.sections = {}

\* One message is executed once, however its stream ends: the page asks again
\* only when nothing was started (ChatPage.tsx 260-270).
ExecutedOnce == runs <= 1

\* What is written to the response follows the contract of the event stream.
Contract == INSTANCE StreamContract WITH log <- sent
FollowsContract == Contract!Spec

=============================================================================
