---------------------------- MODULE MCConversation ----------------------------
(******************************************************************************)
(* A question from the message to its answer, on small instances: a behaviour *)
(* belongs to one of the three parts.                                         *)
(******************************************************************************)
EXTENDS Conversation

VARIABLE part

ASSUME ConversationBounds == Answer!BoundsAssumption /\ Agent!LimitsAssumption

\* Three requests and no loss, or two and one.
Bounded == losses' = 0 \/ \E r \in Req : req'[r].pc = "unsent"

MCInit ==
    /\ part \in {"turns", "answer", "agent"}
    /\ Init /\ Answer!Init /\ Agent!Init
    /\ part # "turns" => channel = "web"
    /\ part # "answer" => mode = [streaming |-> TRUE, text |-> "question"]
    /\ part # "agent" => message = [text |-> "plain", pending |-> "delete", path |-> "whole"]

MCNext ==
    /\ \/ part = "turns" /\ Next /\ Bounded /\ UNCHANGED <<answer, thinking>>
       \/ part = "answer" /\ Answer!Next /\ UNCHANGED <<vars, thinking>>
       \/ part = "agent" /\ Agent!Next /\ UNCHANGED <<vars, answer>>
    /\ UNCHANGED part

\* The fairness of each part, in the behaviours that belong to it.
MCFairness ==
    /\ WF_vars(part = "turns" /\ \E r \in Req : Enter(r) \/ Handle(r))
    /\ WF_answer(part = "answer" /\ (Answer!AgentStep \/ Answer!TransportTimeout))
    /\ WF_answer(part = "answer" /\ Answer!Open)
    /\ WF_answer(part = "answer" /\ Answer!Write)
    /\ WF_answer(part = "answer" /\ Answer!Close)
    /\ WF_answer(/\ part = "answer"
                 /\ \/ Answer!StreamRefused \/ Answer!Fallback \/ Answer!Read
                    \/ Answer!Truncated \/ Answer!Settle)
    /\ WF_thinking(part = "agent" /\ Agent!Next /\ ~Agent!LateEffect)

MCSpec == MCInit /\ [][MCNext]_<<part, vars, answer, thinking>> /\ MCFairness

--------------------------------------------------------------------------------
\* Every request is answered, every submitted question settles and every run of
\* the agent ends (conversation_routes.py 971-973, answer_pipeline.py 836-900).
EverythingEnds ==
    []<>(/\ part = "turns" => \A r \in Req : req[r].pc \in {"unsent", "done"}
         /\ part = "answer" => page.state \in {"idle", "cleared", "refused"}
         /\ part = "agent" => Agent!Ended)

================================================================================
