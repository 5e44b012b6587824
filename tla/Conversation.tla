------------------------------ MODULE Conversation ------------------------------
(******************************************************************************)
(* A question from the message to its answer, in three parts: the turns of a  *)
(* conversation (ConversationTurns), the stream of one answer (AnswerStream)  *)
(* and the run of the agent (AgentTurn). They share no state: a run of the    *)
(* agent is one execution of the stream, and a stream one request of a turn.  *)
(******************************************************************************)
EXTENDS ConversationTurns

CONSTANTS
    MaxSection, MaxDelta,                                  \* of AnswerStream
    Query, Segment, ActionTool, Pending, Todo,             \* of AgentTurn
    RequestLimit, ToolLimit, MaxBatch, MaxSegments

VARIABLES
    mode, agent, runs, thread, turn, route, out, sent, link, reader, page,
    message, run, reads, act, todo, late, backend, told

answer   == <<mode, agent, runs, thread, turn, route, out, sent, link, reader, page>>
thinking == <<message, run, reads, act, todo, late, backend, told>>

Answer == INSTANCE AnswerStream
Agent  == INSTANCE AgentTurn

--------------------------------------------------------------------------------
(* Properties of the parts *)

\* An answer the page was told is complete is a turn of the conversation; a stream
\* that withdrew a section leaves neither a turn nor its text; and one message is
\* executed once; nothing the route writes is refused by the reader
\* (service.py 275-314, ChatPage.tsx 240-305, client.ts 452-558).
AnswerIsWhole ==
    /\ Answer!ReaderAcceptsAll
    /\ Answer!ToldIsStored
    /\ Answer!PartialIsNotStored
    /\ Answer!WithdrawnIsGone
    /\ Answer!ExecutedOnce

\* What is written to the response follows StreamContract
\* (conversation_routes.py 971-1136).
FollowsContract == Answer!FollowsContract

\* The agent tells the outcome of the one action a turn may have, however the run
\* ends, and no failed read is papered over; its reads stay within their budgets,
\* an answer of facts cites evidence of this turn, and no turn ends with an open
\* todo (orchestrator.py 318-412, actions.py 673-700, retrieval.py 117-190,
\* answer_pipeline.py 836-900).
AgentKeepsItsWord ==
    /\ Agent!OneEffect
    /\ Agent!OutcomeIsTold
    /\ Agent!FailedReadIsAdmitted
    /\ Agent!BackendWithinBudget
    /\ Agent!CitesThisTurn
    /\ Agent!TodoIsFinal

================================================================================
