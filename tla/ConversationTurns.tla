--------------------------- MODULE ConversationTurns ---------------------------
(***************************************************************************)
(* The turns of one conversation: requests of the browser or of the chat   *)
(* platform enter ChannelService, are serialised by the lock their process *)
(* keeps for the conversation, read the thread in one transaction, run the *)
(* agent without any, and store the turn in another. Requests are          *)
(* redelivered, given up, cancelled and lost with their process; the       *)
(* thread is renewed by /new and deleted from the browser.                 *)
(***************************************************************************)
EXTENDS Naturals, FiniteSets

CONSTANTS
    Req,            \* requests, each delivered once
    Msg,            \* message ids of questions
    Proc,           \* processes that serve the browser; the gateway is one of them
    MaxThread,      \* bound: threads of the conversation
    MaxLoss         \* bound: process restarts and lapsed reply claims

ASSUME BoundsAssumption ==
    /\ MaxThread \in Nat \ {0} /\ MaxLoss \in Nat /\ IsFiniteSet(Req) /\ Proc # {}
    /\ {"none", "failed", "command"} \intersect Req = {}
    /\ "none" \notin Proc /\ {"none", "/new"} \intersect Msg = {}

VARIABLES
    channel,    \* whose conversation it is: "web" or "platform"
    threads,    \* conversation_thread rows, and who closed a closed one
    turns,      \* conversation_turn rows
    req,        \* the requests and their handlers
    lock,       \* the holder of each process's lock for the conversation
    claimed,    \* messages the platform plug-in has claimed a reply for
    losses

vars == <<channel, threads, turns, req, lock, claimed, losses>>

None == "none"
New == "/new"
Thread == 1..MaxThread
NoThread == 0

ThreadRow == [state : {"absent", "open", "closed", "deleted"}, by : Proc \union {None}]
TurnRow == [thread : Thread, msg : Msg, run : Req, by : Proc, seen : SUBSET Msg]
Handler == [pc : {"unsent", "waiting", "resolve", "create", "run", "save", "insert", "done"},
            msg : Msg \union {New, None}, proc : Proc \union {None},
            thread : Thread \union {NoThread}, seen : SUBSET Msg,
            caller : {"there", "gone"}, told : Req \union {None, "failed", "command"}]

Init ==
    /\ channel \in {"web", "platform"}
    /\ threads = [t \in Thread |-> [state |-> "absent", by |-> None]]
    /\ turns = {}
    /\ req = [r \in Req |-> [pc |-> "unsent", msg |-> None, proc |-> None,
                             thread |-> NoThread, seen |-> {}, caller |-> "there",
                             told |-> None]]
    /\ lock = [p \in Proc |-> None]
    /\ claimed = {}
    /\ losses = 0

-----------------------------------------------------------------------------
(* Threads and turns *)

OpenThread == {t \in Thread : threads[t].state = "open"}
FreshThread == {t \in Thread : threads[t].state = "absent"
                                 /\ \A u \in 1..(t - 1) : threads[u].state # "absent"}

\* find_turn.
TurnsOf(t, m) == {x \in turns : x.thread = t /\ x.msg = m}
History(t) == {x.msg : x \in {y \in turns : y.thread = t}}

\* The handler of r ends: its caller, if still there, is told, and the lock freed.
Reply(r, told) ==
    /\ req' = [req EXCEPT ![r].pc = "done",
                          ![r].told = IF req[r].caller = "there" THEN told ELSE @]
    /\ lock' = [lock EXCEPT ![req[r].proc] = None]

\* A stored turn answers with the execution that made it.
ReplyStored(r, t) ==
    \E x \in TurnsOf(t, req[r].msg) :
        /\ req' = [req EXCEPT ![r].pc = "done", ![r].thread = t,
                              ![r].told = IF req[r].caller = "there" THEN x.run ELSE @]
        /\ lock' = [lock EXCEPT ![req[r].proc] = None]

-----------------------------------------------------------------------------
(* Requests *)

\* The browser sends a message, or sends it again under the same id.
Send(r, m, p) ==
    /\ channel = "web" /\ req[r].pc = "unsent"
    /\ req' = [req EXCEPT ![r].pc = "waiting", ![r].msg = m, ![r].proc = p]
    /\ UNCHANGED <<channel, threads, turns, lock, claimed, losses>>

\* The platform delivers a message, perhaps again; the plug-in posts the one it
\* has claimed the reply for to the only gateway.
Deliver(r, m, p) ==
    /\ channel = "platform" /\ req[r].pc = "unsent" /\ m \notin claimed
    /\ p = CHOOSE q \in Proc : TRUE
    /\ claimed' = claimed \union {m}
    /\ req' = [req EXCEPT ![r].pc = "waiting", ![r].msg = m, ![r].proc = p]
    /\ UNCHANGED <<channel, threads, turns, lock, losses>>

\* The claim expires, is evicted, or is lost with the plug-in.
ClaimLapses(m) ==
    /\ m \in claimed /\ losses < MaxLoss
    /\ claimed' = claimed \ {m}
    /\ losses' = losses + 1
    /\ UNCHANGED <<channel, threads, turns, req, lock>>

\* Variant of Enters: the handler does not wait for the lock.
EntersAny(r) == TRUE

Enters(r) == lock[req[r].proc] = None

Enter(r) ==
    /\ req[r].pc = "waiting" /\ Enters(r)
    /\ lock' = [lock EXCEPT ![req[r].proc] = r]
    /\ req' = [req EXCEPT ![r].pc = "resolve"]
    /\ UNCHANGED <<channel, threads, turns, claimed, losses>>

\* The lock without the handler r.
Unlocked(r) == [p \in Proc |-> IF lock[p] = r THEN None ELSE lock[p]]

\* The caller's timeout: the browser route cancels its handler where it waits,
\* the gateway answers 503 and lets it run on.
GiveUp(r) ==
    /\ req[r].pc \notin {"unsent", "done"} /\ req[r].caller = "there"
    /\ \/ /\ channel = "web" /\ req[r].pc \in {"waiting", "run"}
          /\ req' = [req EXCEPT ![r].pc = "done", ![r].told = "failed"]
          /\ lock' = Unlocked(r)
       \/ /\ channel = "platform"
          /\ req' = [req EXCEPT ![r].caller = "gone", ![r].told = "failed"]
          /\ UNCHANGED lock
    /\ UNCHANGED <<channel, threads, turns, claimed, losses>>

\* A process dies with its handlers and its lock.
Restart(p) ==
    /\ losses < MaxLoss
    /\ losses' = losses + 1
    /\ req' = [r \in Req |-> IF req[r].proc = p /\ req[r].pc # "done"
                              THEN [req[r] EXCEPT !.pc = "done", !.told =
                                      IF @ = None THEN "failed" ELSE @]
                              ELSE req[r]]
    /\ lock' = [lock EXCEPT ![p] = None]
    /\ UNCHANGED <<channel, threads, turns, claimed>>

-----------------------------------------------------------------------------
(* The first transaction *)

\* A stored message is answered from its turn; otherwise the history is read.
Resolve(r) ==
    /\ req[r].pc = "resolve" /\ req[r].msg # New
    /\ IF OpenThread = {}
       THEN req' = [req EXCEPT ![r].pc = "create"] /\ UNCHANGED lock
       ELSE \E t \in OpenThread :
              IF TurnsOf(t, req[r].msg) # {} THEN ReplyStored(r, t)
              ELSE /\ req' = [req EXCEPT ![r].pc = "run", ![r].thread = t,
                                         ![r].seen = History(t)]
                   /\ UNCHANGED lock
    /\ UNCHANGED <<channel, threads, turns, claimed, losses>>

\* get_or_create_thread inserts; another process may have been faster, which the
\* unique index of open threads turns into an error.
CreateThread(r) ==
    /\ req[r].pc = "create"
    /\ IF OpenThread # {} THEN Reply(r, "failed") /\ UNCHANGED threads
       ELSE \E t \in FreshThread :
              /\ threads' = [threads EXCEPT ![t].state = "open"]
              /\ req' = [req EXCEPT ![r].pc = "run", ![r].thread = t]
              /\ UNCHANGED lock
    /\ UNCHANGED <<channel, turns, claimed, losses>>

\* /new: reset_thread closes the open thread, unless a deletion is applying in
\* it, and opens another.
Reset(r) ==
    /\ req[r].pc = "resolve" /\ req[r].msg = New
    /\ \/ \E t \in FreshThread :
            /\ threads' = [u \in Thread |->
                             IF u = t THEN [state |-> "open", by |-> None]
                             ELSE IF u \in OpenThread
                                  THEN [state |-> "closed", by |-> req[r].proc]
                                  ELSE threads[u]]
            /\ Reply(r, "command")
       \/ /\ OpenThread # {}
          /\ Reply(r, "failed")
          /\ UNCHANGED threads
    /\ UNCHANGED <<channel, turns, claimed, losses>>

\* DELETE /conversations/{thread_id}: the thread goes with its turns.
DeleteThread(t) ==
    /\ channel = "web" /\ threads[t].state \in {"open", "closed"}
    /\ threads' = [threads EXCEPT ![t].state = "deleted"]
    /\ turns' = {x \in turns : x.thread # t}
    /\ UNCHANGED <<channel, req, lock, claimed, losses>>

-----------------------------------------------------------------------------
(* The agent and the second transaction *)

\* A failed answer without action results is told and not stored.
AgentEnds(r) ==
    /\ req[r].pc = "run"
    /\ \/ Reply(r, "failed")
       \/ req' = [req EXCEPT ![r].pc = "save"] /\ UNCHANGED lock
    /\ UNCHANGED <<channel, threads, turns, claimed, losses>>

AlreadyStored(r) == TurnsOf(req[r].thread, req[r].msg) # {}

\* The thread and the message are looked up again.
Save(r) ==
    /\ req[r].pc = "save"
    /\ IF threads[req[r].thread].state = "deleted" THEN Reply(r, "failed")
       ELSE IF AlreadyStored(r) THEN ReplyStored(r, req[r].thread)
       ELSE req' = [req EXCEPT ![r].pc = "insert"] /\ UNCHANGED lock
    /\ UNCHANGED <<channel, threads, turns, claimed, losses>>

\* Variant of Conflicts: no unique index on thread and message.
ConflictsNever(r) == threads[req[r].thread].state = "deleted"

\* The insert meets uq_conversation_turn_message or a thread that is gone.
Conflicts(r) ==
    \/ TurnsOf(req[r].thread, req[r].msg) # {}
    \/ threads[req[r].thread].state = "deleted"

Insert(r) ==
    /\ req[r].pc = "insert"
    /\ IF Conflicts(r) THEN Reply(r, "failed") /\ UNCHANGED turns
       ELSE /\ turns' = turns \union
                  {[thread |-> req[r].thread, msg |-> req[r].msg, run |-> r,
                    by |-> req[r].proc, seen |-> req[r].seen]}
            /\ Reply(r, r)
    /\ UNCHANGED <<channel, threads, claimed, losses>>

Handle(r) ==
    Resolve(r) \/ CreateThread(r) \/ Reset(r) \/ AgentEnds(r) \/ Save(r) \/ Insert(r)

Next ==
    \/ \E r \in Req, m \in Msg \union {New}, p \in Proc : Send(r, m, p) \/ Deliver(r, m, p)
    \/ \E m \in Msg \union {New} : ClaimLapses(m)
    \/ \E r \in Req : Enter(r) \/ GiveUp(r) \/ Handle(r)
    \/ \E p \in Proc : Restart(p)
    \/ \E t \in Thread : DeleteThread(t)

\* Handlers go on while one can: the agent has its own timeouts, and a released
\* lock wakes a waiter.
Fairness == WF_vars(\E r \in Req : Enter(r) \/ Handle(r))

Spec == Init /\ [][Next]_vars /\ Fairness

-----------------------------------------------------------------------------
(* Properties *)

TypeOK ==
    /\ channel \in {"web", "platform"}
    /\ threads \in [Thread -> ThreadRow]
    /\ turns \subseteq TurnRow
    /\ req \in [Req -> Handler]
    /\ \A p \in Proc : lock[p] # None =>
          req[lock[p]].proc = p /\ req[lock[p]].pc \notin {"unsent", "waiting", "done"}
    /\ claimed \subseteq Msg \union {New}
    /\ losses \in 0..MaxLoss

Told(r) == req[r].told \in Req

\* A message that is delivered again, retried or handled by two processes at once
\* is answered with one execution's answer for as long as its thread lives
\* (service.py 243-249, 304-308).
AnswersAgree ==
    \A r, s \in Req :
        Told(r) /\ Told(s) /\ req[r].msg = req[s].msg /\ req[r].thread = req[s].thread
            => req[r].told = req[s].told

\* Turns one process stores in a thread are serialised: the later one's agent
\* was given the earlier one as history, although no transaction is open while
\* an agent runs (service.py 75-87, 288).
TurnsSerialised ==
    \A x, y \in turns :
        x.thread = y.thread /\ x.by = y.by => x = y \/ x.msg \in y.seen \/ y.msg \in x.seen

\* However often a message is delivered, what was answered to it is what is stored,
\* and no two turns of a conversation run at a time in one process (service.py
\* 87-101, 275-314, http_gateway.py 146-170).
TurnsStayInOrder == AnswersAgree /\ TurnsSerialised

\* After /new the old thread takes no more turns from the process that closed it:
\* an answer under way is in the old context or asked in the new one
\* (conversations.py 51-90).
ClosedThreadIsQuiet ==
    [][\A x \in turns' \ turns :
          threads[x.thread].state = "closed" => threads[x.thread].by # x.by]_vars

=============================================================================
