--------------------------- MODULE ConversationProofs ---------------------------
(******************************************************************************)
(* Theorems about ConversationTurns, for every set of requests, messages and  *)
(* processes and every number of threads and losses; the second part of the   *)
(* module has those about AgentTurn, the third those about AnswerStream.      *)
(*                                                                            *)
(* The argument: a handler that has entered holds the lock of its process     *)
(* until it ends (LockHeld), so the turns its process has stored in its       *)
(* thread are those it has read (SeenAll), and a thread its process closed is *)
(* not its own (QuietHandlers). What a caller was told is the run of the one  *)
(* turn stored for its message (TurnsUnique, ToldStored), and a thread that   *)
(* is deleted with its turns never comes back (TurnsLive).                    *)
(******************************************************************************)
EXTENDS Conversation, SequenceTheorems, TLAPS

--------------------------------------------------------------------------------
(* The inductive invariant *)

Running(r) == req[r].pc \in {"resolve", "create", "run", "save", "insert"}

\* A handler that has found its thread and not yet stored its turn.
Answering(r) == req[r].pc \in {"run", "save", "insert"}

\* The lock of a process is free or held by a request, and every handler that
\* has entered holds it.
LockHeld ==
    /\ lock \in [Proc -> Req \union {None}]
    /\ \A r \in Req : Running(r) => lock[req[r].proc] = r

\* What a handler works on: a question once it looks for a thread, and a thread
\* that was there.
HandlersHold ==
    \A r \in Req :
        /\ req[r].pc = "waiting" \/ Running(r) =>
              req[r].proc \in Proc /\ req[r].msg \in Msg \union {New}
        /\ req[r].pc = "create" \/ Answering(r) => req[r].msg \in Msg
        /\ Answering(r) => req[r].thread \in Thread /\ threads[req[r].thread].state # "absent"

\* A turn is stored in a thread that lives.
TurnsLive == \A x \in turns : threads[x.thread].state \in {"open", "closed"}

\* One turn per thread and message: uq_conversation_turn_message.
TurnsUnique == \A x, y \in turns : x.thread = y.thread /\ x.msg = y.msg => x = y

\* A handler has read what its own process stored in its thread.
SeenAll ==
    \A r \in Req, x \in turns :
        Answering(r) /\ x.thread = req[r].thread /\ x.by = req[r].proc
            => x.msg \in req[r].seen

\* Who was told an answer is done, and the answer is stored as long as the thread.
ToldStored ==
    \A r \in Req : Told(r) =>
        /\ req[r].pc = "done"
        /\ req[r].thread \in Thread
        /\ \/ threads[req[r].thread].state = "deleted"
           \/ \E x \in TurnsOf(req[r].thread, req[r].msg) : x.run = req[r].told

\* No handler works in a thread its own process has closed.
QuietHandlers ==
    \A r \in Req :
        Answering(r) /\ threads[req[r].thread].state = "closed"
            => threads[req[r].thread].by # req[r].proc

IInv ==
    /\ TypeOK
    /\ LockHeld
    /\ HandlersHold
    /\ TurnsLive
    /\ TurnsUnique
    /\ SeenAll
    /\ ToldStored
    /\ QuietHandlers
    /\ AnswersAgree
    /\ TurnsSerialised

--------------------------------------------------------------------------------
(* Initial states and what the invariant says of one request *)

\* The initial states satisfy the invariant.
LEMMA InitInv == Init => IInv
<1> SUFFICES ASSUME Init PROVE IInv
  OBVIOUS
<1>1. None \notin Req /\ MaxLoss \in Nat
  BY BoundsAssumption DEF None
<1>2. TypeOK
  BY <1>1 DEF Init, TypeOK, ThreadRow, TurnRow, Handler, None
<1>3. LockHeld /\ HandlersHold /\ SeenAll /\ QuietHandlers
  BY DEF Init, LockHeld, HandlersHold, SeenAll, QuietHandlers, Running, Answering
<1>4. TurnsLive /\ TurnsUnique /\ TurnsSerialised
  BY DEF Init, TurnsLive, TurnsUnique, TurnsSerialised
<1>5. ToldStored /\ AnswersAgree
  BY <1>1 DEF Init, ToldStored, AnswersAgree, Told
<1>6. QED
  BY <1>2, <1>3, <1>4, <1>5 DEF IInv

\* The parts of a handler, of a row and of a turn.
LEMMA Parts ==
  ASSUME TypeOK
  PROVE  /\ \A r \in Req : /\ req[r] \in Handler
                           /\ req[r].pc \in {"unsent", "waiting", "resolve", "create", "run",
                                             "save", "insert", "done"}
                           /\ req[r].msg \in Msg \union {New, None}
                           /\ req[r].proc \in Proc \union {None}
                           /\ req[r].thread \in Thread \union {NoThread}
                           /\ req[r].seen \subseteq Msg
                           /\ req[r].told \in Req \union {None, "failed", "command"}
         /\ \A t \in Thread : threads[t] \in ThreadRow
         /\ \A x \in turns : /\ x \in TurnRow /\ x.thread \in Thread /\ x.msg \in Msg
                             /\ x.run \in Req /\ x.by \in Proc /\ x.seen \subseteq Msg
  BY DEF TypeOK, Handler, ThreadRow, TurnRow

\* What a caller may be told that is not an answer.
LEMMA Replies == {None, "failed", "command"} \intersect Req = {}
  BY BoundsAssumption DEF None

--------------------------------------------------------------------------------
(* Handlers that change nothing but themselves *)

\* The rules about turns and threads, without the locks and the types.
Stored ==
    /\ HandlersHold /\ TurnsLive /\ TurnsUnique /\ SeenAll /\ ToldStored
    /\ QuietHandlers /\ AnswersAgree /\ TurnsSerialised

\* No handler finds a thread or answers anybody in this step.
HandlersOnly ==
    \A r \in Req :
        /\ Told(r)' => req'[r] = req[r]
        /\ Answering(r)' => /\ Answering(r)
                            /\ req'[r].thread = req[r].thread
                            /\ req'[r].msg = req[r].msg
                            /\ req'[r].proc = req[r].proc
                            /\ req'[r].seen = req[r].seen
        /\ req'[r].pc = "waiting" \/ Running(r)' =>
              req'[r].proc \in Proc /\ req'[r].msg \in Msg \union {New}
        /\ req'[r].pc = "create" => req'[r].msg \in Msg

LEMMA HandlersKeep ==
  ASSUME IInv, HandlersOnly, UNCHANGED <<threads, turns>>
  PROVE  Stored'
<1>1. HandlersHold' /\ QuietHandlers'
  BY DEF IInv, HandlersOnly, HandlersHold, QuietHandlers, Answering
<1>2. TurnsLive' /\ TurnsUnique' /\ TurnsSerialised'
  BY DEF IInv, TurnsLive, TurnsUnique, TurnsSerialised
<1>3. SeenAll'
  BY DEF IInv, HandlersOnly, SeenAll
<1>4. ToldStored' /\ AnswersAgree'
  BY DEF IInv, HandlersOnly, ToldStored, AnswersAgree, Told, TurnsOf
<1>5. QED
  BY <1>1, <1>2, <1>3, <1>4 DEF Stored

\* One handler moves on and takes nobody's lock.
LEMMA LockKept ==
  ASSUME IInv, NEW r \in Req, Running(r), Running(r)',
         req'[r].proc = req[r].proc,
         \A s \in Req : s # r => req'[s] = req[s],
         UNCHANGED lock
  PROVE  /\ LockHeld'
         /\ \A p \in Proc : lock'[p] # None =>
               req'[lock'[p]].proc = p /\ req'[lock'[p]].pc \notin {"unsent", "waiting", "done"}
<1>1. LockHeld'
  BY DEF IInv, LockHeld, Running
<1>2. \A p \in Proc : lock[p] # None =>
         req[lock[p]].proc = p /\ req[lock[p]].pc \notin {"unsent", "waiting", "done"}
  BY DEF IInv, TypeOK
<1>3. \A p \in Proc : lock[p] # None => lock[p] \in Req
  BY DEF IInv, LockHeld
<1>4. req'[r].pc \notin {"unsent", "waiting", "done"}
  BY DEF Running
<1>5. QED
  BY <1>1, <1>2, <1>3, <1>4

\* One handler ends and frees the lock of its process.
LEMMA LockFreed ==
  ASSUME IInv, NEW r \in Req, Running(r), req'[r].pc = "done",
         \A s \in Req : s # r => req'[s] = req[s],
         lock' = [lock EXCEPT ![req[r].proc] = None]
  PROVE  /\ LockHeld'
         /\ \A p \in Proc : lock'[p] # None =>
               req'[lock'[p]].proc = p /\ req'[lock'[p]].pc \notin {"unsent", "waiting", "done"}
<1>1. /\ lock \in [Proc -> Req \union {None}]
      /\ \A s \in Req : Running(s) => lock[req[s].proc] = s
      /\ \A p \in Proc : lock[p] # None =>
            req[lock[p]].proc = p /\ req[lock[p]].pc \notin {"unsent", "waiting", "done"}
  BY DEF IInv, TypeOK, LockHeld
<1>2. ~Running(r)' /\ \A s \in Req : s # r /\ Running(s)' => Running(s)
  BY DEF Running
<1>3. \A s \in Req : s # r /\ Running(s) => req[s].proc # req[r].proc
  BY <1>1
<1>4. LockHeld'
  <2>1. lock' \in [Proc -> Req \union {None}]
    BY <1>1
  <2>2. ASSUME NEW s \in Req, Running(s)' PROVE lock'[req'[s].proc] = s
    <3>1. s # r /\ Running(s) /\ req'[s].proc = req[s].proc
      BY <1>2, <2>2
    <3>2. req[s].proc \in Proc /\ req[s].proc # req[r].proc
      BY <1>3, <3>1 DEF IInv, HandlersHold
    <3>3. QED
      BY <1>1, <3>1, <3>2
  <2>3. QED
    BY <2>1, <2>2 DEF LockHeld
<1>5. \A p \in Proc : lock'[p] # None =>
         req'[lock'[p]].proc = p /\ req'[lock'[p]].pc \notin {"unsent", "waiting", "done"}
  BY <1>1
<1>6. QED
  BY <1>4, <1>5

\* How the handler of r replies.
LEMMA ReplyEnds ==
  ASSUME IInv, NEW r \in Req, Running(r), NEW what \in {"failed", "command"}, Reply(r, what)
  PROVE  /\ req'[r].pc = "done" /\ ~Told(r)' /\ req' \in [Req -> Handler]
         /\ \A s \in Req : s # r => req'[s] = req[s]
         /\ lock' = [lock EXCEPT ![req[r].proc] = None]
<1>1. ~Told(r)
  BY DEF IInv, ToldStored, Running
<1>2. /\ req'[r] = [req[r] EXCEPT !.pc = "done",
                                  !.told = IF req[r].caller = "there" THEN what ELSE @]
      /\ \A s \in Req : s # r => req'[s] = req[s]
      /\ DOMAIN req' = Req
  BY DEF Reply, IInv, TypeOK
<1>3. /\ req'[r].pc = "done" /\ req'[r].told \in {req[r].told, what}
      /\ req'[r] \in Handler
  BY <1>2, Parts DEF IInv, Handler
<1>4. ~Told(r)'
  BY <1>1, <1>3, Replies DEF Told
<1>5. req' \in [Req -> Handler]
  BY <1>2, <1>3 DEF Reply, IInv, TypeOK
<1>6. QED
  BY <1>2, <1>3, <1>4, <1>5 DEF Reply

\* A handler whose caller gets no answer from it keeps the invariant.
LEMMA ReplyKeeps ==
  ASSUME IInv, NEW r \in Req, Running(r), NEW what \in {"failed", "command"}, Reply(r, what),
         UNCHANGED <<channel, threads, turns, claimed, losses>>
  PROVE  IInv'
<1>1. TypeOK' /\ LockHeld'
  BY ReplyEnds, LockFreed DEF IInv, TypeOK
<1>2. HandlersOnly
  BY ReplyEnds DEF HandlersOnly, Answering, Running, IInv, HandlersHold
<1>3. QED
  BY <1>1, <1>2, HandlersKeep DEF IInv, Stored

--------------------------------------------------------------------------------
(* Requests come and go *)

\* A request arrives, in the browser or from the platform.
LEMMA ArriveKeeps ==
  ASSUME IInv, NEW r \in Req, NEW m \in Msg \union {New}, NEW p \in Proc,
         Send(r, m, p) \/ Deliver(r, m, p)
  PROVE  IInv'
<1>1. /\ req[r].pc = "unsent"
      /\ req'[r] = [req[r] EXCEPT !.pc = "waiting", !.msg = m, !.proc = p]
      /\ \A s \in Req : s # r => req'[s] = req[s]
      /\ DOMAIN req' = Req
      /\ UNCHANGED <<channel, threads, turns, lock, losses>>
      /\ claimed' \subseteq Msg \union {New}
  BY DEF Send, Deliver, IInv, TypeOK
<1>2. /\ req'[r].pc = "waiting" /\ req'[r].msg = m /\ req'[r].proc = p
      /\ req'[r].told = req[r].told /\ req'[r] \in Handler
  BY <1>1, Parts DEF IInv, Handler
<1>3. req' \in [Req -> Handler]
  BY <1>1, <1>2, Parts DEF Send, Deliver, IInv, TypeOK
<1>4. \A s \in Req : Running(s)' => Running(s) /\ req'[s] = req[s]
  BY <1>1, <1>2 DEF Running
<1>5. LockHeld'
  BY <1>1, <1>4 DEF IInv, LockHeld
<1>6. \A q \in Proc : lock'[q] # None =>
         req'[lock'[q]].proc = q /\ req'[lock'[q]].pc \notin {"unsent", "waiting", "done"}
  <2> SUFFICES ASSUME NEW q \in Proc, lock[q] # None
               PROVE  req'[lock[q]].proc = q /\ req'[lock[q]].pc \notin {"unsent", "waiting", "done"}
    BY <1>1
  <2>1. lock[q] \in Req /\ lock[q] # r
    BY <1>1 DEF IInv, TypeOK, LockHeld
  <2>2. QED
    BY <1>1, <2>1 DEF IInv, TypeOK
<1>7. TypeOK'
  BY <1>1, <1>3, <1>6 DEF IInv, TypeOK
<1>8. HandlersOnly
  <2>1. ~Told(r)' /\ ~Answering(r)'
    BY <1>1, <1>2 DEF IInv, ToldStored, Told, Answering
  <2>2. QED
    BY <1>1, <1>2, <1>4, <2>1 DEF HandlersOnly, IInv, HandlersHold, Answering, Running
<1>9. QED
  BY <1>1, <1>5, <1>7, <1>8, HandlersKeep DEF IInv, Stored

\* A request enters when the lock of its process is free.
LEMMA EnterKeeps ==
  ASSUME IInv, NEW r \in Req, Enter(r)
  PROVE  IInv'
<1> DEFINE p == req[r].proc
<1>1. /\ req[r].pc = "waiting" /\ lock[p] = None /\ p \in Proc
      /\ req'[r] = [req[r] EXCEPT !.pc = "resolve"]
      /\ \A s \in Req : s # r => req'[s] = req[s]
      /\ DOMAIN req' = Req
      /\ lock' = [lock EXCEPT ![p] = r]
      /\ lock'[p] = r /\ \A q \in Proc : q # p => lock'[q] = lock[q]
      /\ UNCHANGED <<channel, threads, turns, claimed, losses>>
  BY DEF Enter, Enters, IInv, TypeOK, LockHeld, HandlersHold
<1>2. /\ req'[r].pc = "resolve" /\ req'[r].msg = req[r].msg /\ req'[r].proc = p
      /\ req'[r].told = req[r].told /\ req'[r] \in Handler
  BY <1>1, Parts DEF IInv, Handler
<1>3. req' \in [Req -> Handler]
  BY <1>1, <1>2, Parts DEF Enter, IInv, TypeOK
<1>4. \A s \in Req : s # r /\ Running(s) => req[s].proc # p
  <2>1. None \notin Req
    BY Replies
  <2>2. QED
    BY <1>1, <2>1 DEF IInv, LockHeld
<1>5. LockHeld'
  <2>1. lock' \in [Proc -> Req \union {None}]
    BY <1>1 DEF IInv, LockHeld
  <2>2. ASSUME NEW s \in Req, Running(s)' PROVE lock'[req'[s].proc] = s
    <3>1. CASE s = r
      BY <1>1, <1>2, <3>1
    <3>2. CASE s # r
      BY <1>1, <1>4, <2>2, <3>2 DEF IInv, LockHeld, HandlersHold, Running
    <3>3. QED
      BY <3>1, <3>2
  <2>3. QED
    BY <2>1, <2>2 DEF LockHeld
<1>6. \A q \in Proc : lock'[q] # None =>
         req'[lock'[q]].proc = q /\ req'[lock'[q]].pc \notin {"unsent", "waiting", "done"}
  <2> SUFFICES ASSUME NEW q \in Proc, lock'[q] # None
               PROVE  req'[lock'[q]].proc = q /\ req'[lock'[q]].pc \notin {"unsent", "waiting", "done"}
    OBVIOUS
  <2>1. CASE q = p
    BY <1>1, <1>2, <2>1
  <2>2. CASE q # p
    <3>1. lock'[q] = lock[q] /\ lock[q] \in Req /\ lock[q] # r
      BY <1>1, <2>2 DEF IInv, TypeOK, LockHeld
    <3>2. QED
      BY <1>1, <3>1 DEF IInv, TypeOK
  <2>3. QED
    BY <2>1, <2>2
<1>7. TypeOK'
  BY <1>1, <1>3, <1>6 DEF IInv, TypeOK
<1>8. HandlersOnly
  <2>1. ~Told(r)' /\ ~Answering(r)'
    BY <1>1, <1>2 DEF IInv, ToldStored, Told, Answering
  <2>2. QED
    BY ZenonT(30), <1>1, <1>2, <2>1 DEF HandlersOnly, IInv, HandlersHold, Answering, Running
<1>9. QED
  BY <1>1, <1>5, <1>7, <1>8, HandlersKeep DEF IInv, Stored

\* A caller gives up: its handler is cancelled where it waits, or runs on.
LEMMA GiveUpKeeps ==
  ASSUME IInv, NEW r \in Req, GiveUp(r)
  PROVE  IInv'
<1>1. /\ req[r].pc \notin {"unsent", "done"}
      /\ \A s \in Req : s # r => req'[s] = req[s]
      /\ DOMAIN req' = Req
      /\ UNCHANGED <<channel, threads, turns, claimed, losses>>
  BY DEF GiveUp, IInv, TypeOK
<1>2. CASE channel = "web" /\ req'[r] = [req[r] EXCEPT !.pc = "done", !.told = "failed"]
           /\ lock' = Unlocked(r)
  <2>1. req'[r].pc = "done" /\ req'[r].told = "failed" /\ req'[r] \in Handler
    BY <1>2, Parts DEF IInv, Handler
  <2>2. req' \in [Req -> Handler]
    BY <1>1, <2>1, Parts DEF GiveUp, IInv, TypeOK
  <2>3. /\ lock' \in [Proc -> Req \union {None}]
        /\ \A q \in Proc : lock'[q] # None => lock'[q] = lock[q] /\ lock[q] # r
        /\ \A q \in Proc : lock[q] # r => lock'[q] = lock[q]
    BY <1>2 DEF Unlocked, IInv, LockHeld
  <2>4. LockHeld'
    BY <1>1, <2>1, <2>3 DEF IInv, LockHeld, HandlersHold, Running
  <2>5. \A q \in Proc : lock'[q] # None =>
           req'[lock'[q]].proc = q /\ req'[lock'[q]].pc \notin {"unsent", "waiting", "done"}
    BY <1>1, <2>3 DEF IInv, TypeOK, LockHeld
  <2>6. TypeOK'
    BY <1>1, <2>2, <2>5 DEF IInv, TypeOK
  <2>7. HandlersOnly
    BY <1>1, <2>1, Replies DEF HandlersOnly, IInv, HandlersHold, Answering, Running, Told
  <2>8. QED
    BY <1>1, <2>4, <2>6, <2>7, HandlersKeep DEF IInv, Stored
<1>3. CASE channel = "platform" /\ req'[r] = [req[r] EXCEPT !.caller = "gone", !.told = "failed"]
           /\ UNCHANGED lock
  <2>1. /\ req'[r].pc = req[r].pc /\ req'[r].told = "failed" /\ req'[r] \in Handler
        /\ req'[r].msg = req[r].msg /\ req'[r].proc = req[r].proc
        /\ req'[r].thread = req[r].thread /\ req'[r].seen = req[r].seen
    BY <1>3, Parts DEF IInv, Handler
  <2>2. req' \in [Req -> Handler]
    BY <1>1, <2>1, Parts DEF GiveUp, IInv, TypeOK
  <2>3. \A s \in Req : req'[s].pc = req[s].pc /\ req'[s].proc = req[s].proc
    BY <1>1, <2>1
  <2>4. LockHeld'
    BY <1>3, <2>3 DEF IInv, LockHeld, Running
  <2>5. \A q \in Proc : lock'[q] # None =>
           req'[lock'[q]].proc = q /\ req'[lock'[q]].pc \notin {"unsent", "waiting", "done"}
    BY <1>3, <2>3 DEF IInv, TypeOK, LockHeld
  <2>6. TypeOK'
    BY <1>1, <2>2, <2>5 DEF IInv, TypeOK
  <2>7. HandlersOnly
    BY <1>1, <2>1, Replies DEF HandlersOnly, IInv, HandlersHold, Answering, Running, Told
  <2>8. QED
    BY <1>1, <2>4, <2>6, <2>7, HandlersKeep DEF IInv, Stored
<1>4. QED
  BY <1>2, <1>3 DEF GiveUp, IInv, TypeOK

\* A process dies with its handlers.
LEMMA RestartKeeps ==
  ASSUME IInv, NEW p \in Proc, Restart(p)
  PROVE  IInv'
<1>1. /\ UNCHANGED <<channel, threads, turns, claimed>>
      /\ losses' \in 0..MaxLoss
  <2>1. UNCHANGED <<channel, threads, turns, claimed>> /\ losses < MaxLoss /\ losses' = losses + 1
    BY DEF Restart
  <2>2. losses \in 0..MaxLoss /\ MaxLoss \in Nat
    BY BoundsAssumption DEF IInv, TypeOK
  <2>3. QED
    BY <2>1, <2>2
<1>2. /\ req' \in [Req -> Handler]
      /\ \A r \in Req : \/ req'[r] = req[r] /\ (req[r].proc = p => req[r].pc = "done")
                        \/ /\ req[r].pc # "done" /\ req'[r].pc = "done"
                           /\ req'[r].told \in {req[r].told, "failed"} /\ req[r].proc = p
  <2> DEFINE Over(r) == [req[r] EXCEPT !.pc = "done", !.told = IF @ = None THEN "failed" ELSE @]
  <2>1. req' = [r \in Req |-> IF req[r].proc = p /\ req[r].pc # "done" THEN Over(r) ELSE req[r]]
    BY DEF Restart
  <2>2. ASSUME NEW r \in Req
        PROVE  /\ Over(r) \in Handler /\ Over(r).pc = "done"
               /\ Over(r).told \in {req[r].told, "failed"} /\ req[r] \in Handler
    <3>1. req[r] \in Handler
      BY Parts DEF IInv
    <3>2. CASE req[r].told = None
      BY ZenonT(30), <3>1, <3>2 DEF Handler
    <3>3. CASE req[r].told # None
      BY <3>1, <3>3 DEF Handler
    <3>4. QED
      BY <3>2, <3>3
  <2> HIDE DEF Over
  <2>3. QED
    BY <2>1, <2>2
<1>3. /\ lock' \in [Proc -> Req \union {None}] /\ lock'[p] = None
      /\ \A q \in Proc : q # p => lock'[q] = lock[q]
  BY DEF Restart, IInv, LockHeld
<1>4. LockHeld'
  BY <1>2, <1>3 DEF IInv, LockHeld, HandlersHold, Running
<1>5. \A q \in Proc : lock'[q] # None =>
         req'[lock'[q]].proc = q /\ req'[lock'[q]].pc \notin {"unsent", "waiting", "done"}
  BY <1>2, <1>3 DEF IInv, TypeOK, LockHeld
<1>6. TypeOK'
  BY <1>1, <1>2, <1>5 DEF IInv, TypeOK
<1>7. HandlersOnly
  BY <1>2, Replies DEF HandlersOnly, IInv, HandlersHold, ToldStored, Answering, Running, Told
<1>8. QED
  BY <1>1, <1>4, <1>6, <1>7, HandlersKeep DEF IInv, Stored

--------------------------------------------------------------------------------
(* Answers that are stored already *)

\* A stored turn is the only one of its message, and answers with its run.
LEMMA StoredKeeps ==
  ASSUME IInv, NEW r \in Req, Running(r), req[r].msg \in Msg, NEW t \in Thread,
         threads[t].state # "absent", ReplyStored(r, t),
         UNCHANGED <<channel, threads, turns, claimed, losses>>
  PROVE  IInv'
<1>1. PICK x \in TurnsOf(t, req[r].msg) :
        /\ req' = [req EXCEPT ![r].pc = "done", ![r].thread = t,
                              ![r].told = IF req[r].caller = "there" THEN x.run ELSE @]
        /\ lock' = [lock EXCEPT ![req[r].proc] = None]
  BY DEF ReplyStored
<1>2. /\ req'[r] = [req[r] EXCEPT !.pc = "done", !.thread = t,
                                  !.told = IF req[r].caller = "there" THEN x.run ELSE @]
      /\ \A s \in Req : s # r => req'[s] = req[s]
      /\ DOMAIN req' = Req
  BY <1>1 DEF IInv, TypeOK
<1>3. x \in turns /\ x.thread = t /\ x.msg = req[r].msg /\ x.run \in Req
  BY Parts DEF TurnsOf, IInv
<1>4. /\ req'[r].pc = "done" /\ req'[r].thread = t /\ req'[r].msg = req[r].msg
      /\ req'[r].told \in {req[r].told, x.run} /\ req'[r] \in Handler
  <2>1. req[r] \in Handler
    BY Parts DEF IInv
  <2>2. QED
    BY <1>2, <1>3, <2>1 DEF Handler
<1>5. req' \in [Req -> Handler]
  BY <1>1, <1>4, <1>2 DEF IInv, TypeOK
<1>6. TypeOK' /\ LockHeld'
  BY <1>1, <1>2, <1>4, <1>5, LockFreed DEF IInv, TypeOK
<1>7. ~Told(r) /\ ~Answering(r)'
  BY <1>4 DEF IInv, ToldStored, Running, Answering
<1>8. HandlersHold' /\ SeenAll' /\ QuietHandlers'
  <2>1. \A s \in Req : s # r \/ ~(req'[s].pc = "waiting" \/ Running(s)' \/ Answering(s)'
                                  \/ req'[s].pc = "create")
    BY <1>4, <1>7 DEF Running
  <2>2. \A s \in Req : s # r => /\ (Running(s)' <=> Running(s))
                                /\ (Answering(s)' <=> Answering(s))
    BY <1>2 DEF Running, Answering
  <2>3. HandlersHold'
    BY <1>2, <2>1, <2>2 DEF IInv, HandlersHold
  <2>4. SeenAll'
    BY <1>2, <2>1, <2>2 DEF IInv, SeenAll
  <2>5. QuietHandlers'
    BY <1>2, <2>1, <2>2 DEF IInv, QuietHandlers
  <2>6. QED
    BY <2>3, <2>4, <2>5
<1>9. TurnsLive' /\ TurnsUnique' /\ TurnsSerialised'
  BY DEF IInv, TurnsLive, TurnsUnique, TurnsSerialised
<1>10. Told(r)' => req'[r].told = x.run
  BY <1>4, <1>7 DEF Told
<1>11. ToldStored'
  <2>1. Told(r)' => \E y \in turns : /\ y.thread = t /\ y.msg = req[r].msg
                                     /\ y.run = req'[r].told
    BY <1>3, <1>10
  <2>2. \A s \in Req : s # r /\ Told(s)' => Told(s) /\ req'[s] = req[s]
    BY <1>2 DEF Told
  <2>3. ASSUME NEW s \in Req, Told(s)'
        PROVE  /\ req'[s].pc = "done"
               /\ req'[s].thread \in Thread
               /\ \/ threads[req'[s].thread].state = "deleted"
                  \/ \E y \in turns : /\ y.thread = req'[s].thread /\ y.msg = req'[s].msg
                                      /\ y.run = req'[s].told
    <3>1. CASE s = r
      BY <1>4, <2>1, <2>3, <3>1
    <3>2. CASE s # r
      BY <2>2, <2>3, <3>2 DEF IInv, ToldStored, TurnsOf
    <3>3. QED
      BY <3>1, <3>2
  <2>4. QED
    BY <2>3 DEF ToldStored, TurnsOf
<1>12. ASSUME NEW s \in Req, s # r, Told(s), Told(r)', req[s].msg = req[r].msg,
              req[s].thread = t
       PROVE  req[s].told = x.run
  <2>1. threads[t].state # "deleted"
    BY <1>3 DEF IInv, TurnsLive
  <2>2. PICK y \in turns : y.thread = t /\ y.msg = req[r].msg /\ y.run = req[s].told
    BY <1>12, <2>1 DEF IInv, ToldStored, TurnsOf
  <2>3. QED
    BY <1>3, <2>2 DEF IInv, TurnsUnique
<1>13. AnswersAgree'
  <2> SUFFICES ASSUME NEW a \in Req, NEW b \in Req, Told(a)', Told(b)',
                      req'[a].msg = req'[b].msg, req'[a].thread = req'[b].thread
               PROVE  req'[a].told = req'[b].told
    BY DEF AnswersAgree
  <2>1. CASE a # r /\ b # r
    BY <1>2, <2>1 DEF IInv, AnswersAgree, Told
  <2>2. CASE a = r /\ b # r
    BY ZenonT(30), <1>2, <1>4, <1>10, <1>12, <2>2 DEF Told
  <2>3. CASE a # r /\ b = r
    BY ZenonT(30), <1>2, <1>4, <1>10, <1>12, <2>3 DEF Told
  <2>4. QED
    BY <2>1, <2>2, <2>3
<1>14. QED
  BY <1>6, <1>8, <1>9, <1>11, <1>13 DEF IInv

--------------------------------------------------------------------------------
(* Threads are found, opened, closed and deleted *)

\* The handler that holds the lock is the only one of its process that answers.
LEMMA Alone ==
  ASSUME IInv, NEW r \in Req, Running(r), NEW s \in Req, Running(s),
         req[s].proc = req[r].proc
  PROVE  s = r
  BY DEF IInv, LockHeld

\* The thread is looked up; its history is what has been stored in it.
LEMMA ResolveKeeps ==
  ASSUME IInv, NEW r \in Req, Resolve(r)
  PROVE  IInv'
<1>1. /\ req[r].pc = "resolve" /\ Running(r) /\ req[r].msg \in Msg
      /\ UNCHANGED <<channel, threads, turns, claimed, losses>>
  BY DEF Resolve, Running, IInv, HandlersHold
<1>2. CASE req' = [req EXCEPT ![r].pc = "create"] /\ UNCHANGED lock
  <2>1. /\ req'[r] = [req[r] EXCEPT !.pc = "create"]
        /\ \A s \in Req : s # r => req'[s] = req[s]
    BY <1>2 DEF IInv, TypeOK
  <2>2. /\ req'[r].pc = "create" /\ req'[r].msg = req[r].msg /\ req'[r].proc = req[r].proc
        /\ req'[r].told = req[r].told /\ req'[r] \in Handler
    BY <2>1, Parts DEF IInv, Handler
  <2>3. req' \in [Req -> Handler]
    BY <1>2, <2>2 DEF IInv, TypeOK
  <2>4. TypeOK' /\ LockHeld'
    BY <1>1, <1>2, <2>1, <2>2, <2>3, LockKept DEF IInv, TypeOK, Running
  <2>5. HandlersOnly
    <3>1. ~Told(r)' /\ ~Answering(r)'
      BY <1>1, <2>2 DEF IInv, ToldStored, Told, Answering
    <3>2. QED
      BY <1>1, <2>1, <2>2, <3>1 DEF HandlersOnly, IInv, HandlersHold, Answering, Running
  <2>6. QED
    BY <1>1, <2>4, <2>5, HandlersKeep DEF IInv, Stored
<1>3. ASSUME NEW t \in OpenThread, ReplyStored(r, t) PROVE IInv'
  BY <1>1, <1>3, StoredKeeps DEF OpenThread
<1>4. ASSUME NEW t \in OpenThread,
             req' = [req EXCEPT ![r].pc = "run", ![r].thread = t, ![r].seen = History(t)],
             UNCHANGED lock
      PROVE  IInv'
  <2>1. /\ req'[r] = [req[r] EXCEPT !.pc = "run", !.thread = t, !.seen = History(t)]
        /\ \A s \in Req : s # r => req'[s] = req[s]
        /\ t \in Thread /\ threads[t].state = "open" /\ History(t) \subseteq Msg
    BY <1>4, Parts DEF IInv, TypeOK, OpenThread, History
  <2>2. /\ req'[r].pc = "run" /\ req'[r].msg = req[r].msg /\ req'[r].proc = req[r].proc
        /\ req'[r].told = req[r].told /\ req'[r].thread = t /\ req'[r].seen = History(t)
        /\ req'[r] \in Handler
    <3>1. req[r] \in Handler
      BY Parts DEF IInv
    <3>2. QED
      BY <2>1, <3>1 DEF Handler
  <2>3. req' \in [Req -> Handler]
    BY <1>4, <2>2 DEF IInv, TypeOK
  <2>4. TypeOK' /\ LockHeld'
    BY <1>1, <1>4, <2>1, <2>2, <2>3, LockKept DEF IInv, TypeOK, Running
  <2>5. ~Told(r) /\ ~Told(r)'
    BY <1>1, <2>2 DEF IInv, ToldStored, Told
  <2>6. \A s \in Req : s # r => /\ (Running(s)' <=> Running(s))
                                /\ (Answering(s)' <=> Answering(s))
                                /\ (Told(s)' <=> Told(s))
    BY <2>1 DEF Running, Answering, Told
  <2>7. HandlersHold' /\ QuietHandlers'
    <3>1. HandlersHold'
      <4> SUFFICES ASSUME NEW s \in Req
                   PROVE  /\ req'[s].pc = "waiting" \/ Running(s)' =>
                                req'[s].proc \in Proc /\ req'[s].msg \in Msg \union {New}
                          /\ req'[s].pc = "create" \/ Answering(s)' => req'[s].msg \in Msg
                          /\ Answering(s)' => /\ req'[s].thread \in Thread
                                              /\ threads'[req'[s].thread].state # "absent"
        BY DEF HandlersHold
      <4>1. CASE s = r
        BY <1>1, <2>1, <2>2, <4>1 DEF IInv, HandlersHold
      <4>2. CASE s # r
        BY <1>1, <2>1, <2>6, <4>2 DEF IInv, HandlersHold
      <4>3. QED
        BY <4>1, <4>2
    <3>2. QuietHandlers'
      BY ZenonT(30), <1>1, <2>1, <2>2, <2>6 DEF IInv, QuietHandlers
    <3>3. QED
      BY <3>1, <3>2
  <2>8. SeenAll' /\ ToldStored' /\ AnswersAgree'
    <3>1. \A x \in turns : x.thread = t => x.msg \in History(t)
      BY DEF History
    <3>2. SeenAll'
      <4> SUFFICES ASSUME NEW s \in Req, NEW x \in turns, Answering(s)',
                          x.thread = req'[s].thread, x.by = req'[s].proc
                   PROVE  x.msg \in req'[s].seen
        BY <1>1 DEF SeenAll
      <4>1. CASE s = r
        BY <2>2, <3>1, <4>1
      <4>2. CASE s # r
        BY <2>1, <2>6, <4>2 DEF IInv, SeenAll
      <4>3. QED
        BY <4>1, <4>2
    <3>3. \A s \in Req : Told(s)' => s # r /\ Told(s) /\ req'[s] = req[s]
      BY <2>1, <2>5, <2>6
    <3>4. ToldStored'
      BY <1>1, <3>3 DEF IInv, ToldStored, TurnsOf
    <3>5. AnswersAgree'
      BY <3>3 DEF IInv, AnswersAgree
    <3>6. QED
      BY <3>2, <3>4, <3>5
  <2>9. TurnsLive' /\ TurnsUnique' /\ TurnsSerialised'
    BY <1>1 DEF IInv, TurnsLive, TurnsUnique, TurnsSerialised
  <2>10. QED
    BY <2>4, <2>6, <2>7, <2>8, <2>9 DEF IInv
<1>5. QED
  BY <1>2, <1>3, <1>4 DEF Resolve

\* A handler opens a thread that never was, and so holds no turn.
LEMMA CreateKeeps ==
  ASSUME IInv, NEW r \in Req, CreateThread(r)
  PROVE  IInv'
<1>1. /\ req[r].pc = "create" /\ Running(r) /\ req[r].msg \in Msg
      /\ UNCHANGED <<channel, turns, claimed, losses>>
  BY DEF CreateThread, Running, IInv, HandlersHold
<1>2. CASE Reply(r, "failed") /\ UNCHANGED threads
  BY <1>1, <1>2, ReplyKeeps
<1>3. ASSUME NEW t \in FreshThread, threads' = [threads EXCEPT ![t].state = "open"],
             req' = [req EXCEPT ![r].pc = "run", ![r].thread = t], UNCHANGED lock
      PROVE  IInv'
  <2>1. /\ req'[r] = [req[r] EXCEPT !.pc = "run", !.thread = t]
        /\ \A s \in Req : s # r => req'[s] = req[s]
        /\ t \in Thread /\ threads[t].state = "absent"
    BY <1>3 DEF IInv, TypeOK, FreshThread
  <2>2. /\ req'[r].pc = "run" /\ req'[r].msg = req[r].msg /\ req'[r].proc = req[r].proc
        /\ req'[r].told = req[r].told /\ req'[r].thread = t /\ req'[r] \in Handler
    <3>1. req[r] \in Handler
      BY Parts DEF IInv
    <3>2. QED
      BY <2>1, <3>1 DEF Handler
  <2>3. req' \in [Req -> Handler]
    BY <1>3, <2>2 DEF IInv, TypeOK
  <2>4. /\ threads' \in [Thread -> ThreadRow] /\ threads'[t].state = "open"
        /\ \A u \in Thread : u # t => threads'[u] = threads[u]
    <3>1. threads[t] \in ThreadRow
      BY <2>1 DEF IInv, TypeOK
    <3>2. [threads[t] EXCEPT !.state = "open"] \in ThreadRow
          /\ [threads[t] EXCEPT !.state = "open"].state = "open"
      BY <3>1 DEF ThreadRow
    <3>3. QED
      BY <1>3, <2>1, <3>2 DEF IInv, TypeOK
  <2>5. TypeOK' /\ LockHeld'
    BY <1>1, <1>3, <2>1, <2>2, <2>3, <2>4, LockKept DEF IInv, TypeOK, Running
  <2>6. /\ \A s \in Req : s # r => /\ (Running(s)' <=> Running(s))
                                   /\ (Answering(s)' <=> Answering(s))
                                   /\ (Told(s)' <=> Told(s))
        /\ ~Told(r) /\ ~Told(r)'
    BY <1>1, <2>1, <2>2 DEF Running, Answering, Told, IInv, ToldStored
  <2>7. /\ \A x \in turns : x.thread # t
        /\ \A s \in Req : s # r /\ Answering(s) => req[s].thread # t
    BY <2>1 DEF IInv, TurnsLive, HandlersHold
  <2>8. HandlersHold'
    <3> SUFFICES ASSUME NEW s \in Req
                 PROVE  /\ req'[s].pc = "waiting" \/ Running(s)' =>
                              req'[s].proc \in Proc /\ req'[s].msg \in Msg \union {New}
                        /\ req'[s].pc = "create" \/ Answering(s)' => req'[s].msg \in Msg
                        /\ Answering(s)' => /\ req'[s].thread \in Thread
                                            /\ threads'[req'[s].thread].state # "absent"
      BY DEF HandlersHold
    <3>1. CASE s = r
      BY <1>1, <2>1, <2>2, <2>4, <3>1 DEF IInv, HandlersHold
    <3>2. CASE s # r
      BY <2>1, <2>4, <2>6, <2>7, <3>2 DEF IInv, HandlersHold
    <3>3. QED
      BY <3>1, <3>2
  <2>9. SeenAll'
    <3> SUFFICES ASSUME NEW s \in Req, NEW x \in turns, Answering(s)',
                        x.thread = req'[s].thread, x.by = req'[s].proc
                 PROVE  x.msg \in req'[s].seen
      BY <1>1 DEF SeenAll
    <3>1. s # r
      BY <2>2, <2>7
    <3>2. QED
      BY <2>1, <2>6, <3>1 DEF IInv, SeenAll
  <2>10. QuietHandlers'
    <3> SUFFICES ASSUME NEW s \in Req, Answering(s)', threads'[req'[s].thread].state = "closed"
                 PROVE  threads'[req'[s].thread].by # req'[s].proc
      BY DEF QuietHandlers
    <3>1. s # r
      BY <2>2, <2>4
    <3>2. req'[s] = req[s] /\ Answering(s) /\ req[s].thread \in Thread /\ req[s].thread # t
      BY <2>1, <2>6, <2>7, <3>1 DEF IInv, HandlersHold
    <3>3. QED
      BY <2>4, <3>2 DEF IInv, QuietHandlers
  <2>11. \A s \in Req : Told(s)' => s # r /\ Told(s) /\ req'[s] = req[s]
    BY <2>1, <2>6
  <2>12. ToldStored'
    <3> SUFFICES ASSUME NEW s \in Req, Told(s)'
                 PROVE  /\ req'[s].pc = "done"
                        /\ req'[s].thread \in Thread
                        /\ \/ threads'[req'[s].thread].state = "deleted"
                           \/ \E y \in TurnsOf(req'[s].thread, req'[s].msg) :
                                  y.run = req'[s].told
      BY <1>1 DEF ToldStored, TurnsOf
    <3>1. /\ req[s].pc = "done" /\ req[s].thread \in Thread
          /\ \/ threads[req[s].thread].state = "deleted"
             \/ \E y \in TurnsOf(req[s].thread, req[s].msg) : y.run = req[s].told
      BY <2>11 DEF IInv, ToldStored
    <3>2. threads[req[s].thread].state = "deleted" => req[s].thread # t
      BY <2>1
    <3>3. QED
      BY <2>4, <2>11, <3>1, <3>2
  <2>13. AnswersAgree'
    BY <2>11 DEF IInv, AnswersAgree
  <2>14. TurnsLive' /\ TurnsUnique' /\ TurnsSerialised'
    <3>1. TurnsLive'
      BY <1>1, <2>4, <2>7, Parts DEF IInv, TurnsLive
    <3>2. QED
      BY <1>1, <3>1 DEF IInv, TurnsUnique, TurnsSerialised
  <2>15. QED
    BY <2>5, <2>8, <2>9, <2>10, <2>12, <2>13, <2>14 DEF IInv
<1>4. QED
  BY <1>2, <1>3 DEF CreateThread

\* /new closes the open thread: no handler of its process is working in it.
LEMMA ResetKeeps ==
  ASSUME IInv, NEW r \in Req, Reset(r)
  PROVE  IInv'
<1>1. /\ req[r].pc = "resolve" /\ Running(r) /\ req[r].proc \in Proc
      /\ UNCHANGED <<channel, turns, claimed, losses>>
  BY DEF Reset, Running, IInv, HandlersHold
<1>2. CASE Reply(r, "failed") /\ UNCHANGED threads
  BY <1>1, <1>2, ReplyKeeps
<1>3. ASSUME NEW t \in FreshThread,
             threads' = [u \in Thread |->
                           IF u = t THEN [state |-> "open", by |-> None]
                           ELSE IF u \in OpenThread
                                THEN [state |-> "closed", by |-> req[r].proc]
                                ELSE threads[u]],
             Reply(r, "command")
      PROVE  IInv'
  <2>1. /\ req'[r].pc = "done" /\ ~Told(r)' /\ req' \in [Req -> Handler]
        /\ \A s \in Req : s # r => req'[s] = req[s]
        /\ lock' = [lock EXCEPT ![req[r].proc] = None]
    BY <1>1, <1>3, ReplyEnds
  <2>2. /\ threads' \in [Thread -> ThreadRow]
        /\ t \in Thread /\ threads[t].state = "absent" /\ threads'[t].state = "open"
        /\ \A u \in Thread : u # t => \/ threads'[u] = threads[u]
                                      \/ /\ threads[u].state = "open"
                                         /\ threads'[u].state = "closed"
                                         /\ threads'[u].by = req[r].proc
    <3>1. \A p \in Proc : [state |-> "closed", by |-> p] \in ThreadRow
      BY DEF ThreadRow
    <3>2. [state |-> "open", by |-> None] \in ThreadRow
      BY DEF ThreadRow
    <3>3. QED
      BY <1>1, <1>3, <3>1, <3>2 DEF FreshThread, OpenThread, IInv, TypeOK
  <2>3. TypeOK' /\ LockHeld'
    BY <1>1, <2>1, <2>2, LockFreed DEF IInv, TypeOK
  <2>4. /\ \A s \in Req : s # r => /\ (Running(s)' <=> Running(s))
                                   /\ (Answering(s)' <=> Answering(s))
        /\ ~Running(r)' /\ ~Answering(r)'
        /\ \A s \in Req : Told(s)' => Told(s) /\ req'[s] = req[s]
    BY <2>1 DEF Running, Answering, Told
  <2>5. /\ \A x \in turns : x.thread \in Thread /\ x.thread # t
        /\ \A s \in Req : Answering(s) => req[s].thread \in Thread \ {t}
    BY <2>2, Parts DEF IInv, TurnsLive, HandlersHold
  <2>6. HandlersHold'
    <3> SUFFICES ASSUME NEW s \in Req
                 PROVE  /\ req'[s].pc = "waiting" \/ Running(s)' =>
                              req'[s].proc \in Proc /\ req'[s].msg \in Msg \union {New}
                        /\ req'[s].pc = "create" \/ Answering(s)' => req'[s].msg \in Msg
                        /\ Answering(s)' => /\ req'[s].thread \in Thread
                                            /\ threads'[req'[s].thread].state # "absent"
      BY DEF HandlersHold
    <3>1. CASE s = r
      BY <2>1, <2>4, <3>1
    <3>2. CASE s # r
      BY <2>1, <2>2, <2>4, <2>5, <3>2 DEF IInv, HandlersHold
    <3>3. QED
      BY <3>1, <3>2
  <2>7. SeenAll'
    BY <1>1, <2>1, <2>4 DEF IInv, SeenAll
  <2>8. QuietHandlers'
    <3> SUFFICES ASSUME NEW s \in Req, Answering(s)', threads'[req'[s].thread].state = "closed"
                 PROVE  threads'[req'[s].thread].by # req'[s].proc
      BY DEF QuietHandlers
    <3>1. s # r /\ Answering(s) /\ Running(s) /\ req'[s] = req[s]
      BY <2>1, <2>4 DEF Answering, Running
    <3>2. req[s].proc # req[r].proc
      BY <1>1, <3>1, Alone
    <3>3. QED
      BY <2>2, <2>5, <3>1, <3>2 DEF IInv, QuietHandlers
  <2>9. ToldStored'
    <3> SUFFICES ASSUME NEW s \in Req, Told(s)'
                 PROVE  /\ req'[s].pc = "done"
                        /\ req'[s].thread \in Thread
                        /\ \/ threads'[req'[s].thread].state = "deleted"
                           \/ \E y \in TurnsOf(req'[s].thread, req'[s].msg) :
                                  y.run = req'[s].told
      BY <1>1 DEF ToldStored, TurnsOf
    <3>1. /\ req[s].pc = "done" /\ req[s].thread \in Thread
          /\ \/ threads[req[s].thread].state = "deleted"
             \/ \E y \in TurnsOf(req[s].thread, req[s].msg) : y.run = req[s].told
      BY <2>4 DEF IInv, ToldStored
    <3>2. threads[req[s].thread].state = "deleted"
            => threads'[req[s].thread].state = "deleted"
      BY <2>2, <3>1
    <3>3. QED
      BY <2>4, <3>1, <3>2
  <2>10. AnswersAgree'
    BY <2>4 DEF IInv, AnswersAgree
  <2>11. TurnsLive'
    BY <1>1, <2>2, <2>5 DEF IInv, TurnsLive
  <2>12. TurnsUnique' /\ TurnsSerialised'
    BY <1>1 DEF IInv, TurnsUnique, TurnsSerialised
  <2>13. QED
    BY <2>3, <2>6, <2>7, <2>8, <2>9, <2>10, <2>11, <2>12 DEF IInv
<1>4. QED
  BY <1>2, <1>3 DEF Reset

\* A thread is deleted with its turns.
LEMMA DeleteKeeps ==
  ASSUME IInv, NEW t \in Thread, DeleteThread(t)
  PROVE  IInv'
<1>1. /\ turns' = {x \in turns : x.thread # t}
      /\ threads[t].state # "absent"
      /\ UNCHANGED <<channel, req, lock, claimed, losses>>
  BY DEF DeleteThread
<1>2. /\ threads' \in [Thread -> ThreadRow] /\ threads'[t].state = "deleted"
      /\ \A u \in Thread : u # t => threads'[u] = threads[u]
  <2>1. threads[t] \in ThreadRow
    BY DEF IInv, TypeOK
  <2>2. [threads[t] EXCEPT !.state = "deleted"] \in ThreadRow
        /\ [threads[t] EXCEPT !.state = "deleted"].state = "deleted"
    BY <2>1 DEF ThreadRow
  <2>3. QED
    BY <2>2 DEF DeleteThread, IInv, TypeOK
<1>3. TypeOK' /\ LockHeld'
  BY <1>1, <1>2 DEF IInv, TypeOK, LockHeld, Running
<1>4. HandlersHold' /\ QuietHandlers'
  BY <1>1, <1>2 DEF IInv, HandlersHold, QuietHandlers, Running, Answering
<1>5. TurnsLive' /\ TurnsUnique' /\ TurnsSerialised' /\ SeenAll'
  BY <1>1, <1>2, Parts DEF IInv, TurnsLive, TurnsUnique, TurnsSerialised, SeenAll, Answering
<1>6. ToldStored'
  BY <1>1, <1>2 DEF IInv, ToldStored, Told, TurnsOf
<1>7. AnswersAgree'
  BY <1>1 DEF IInv, AnswersAgree, Told
<1>8. QED
  BY <1>3, <1>4, <1>5, <1>6, <1>7 DEF IInv

--------------------------------------------------------------------------------
(* The agent and the turn *)

\* A handler that answers goes on with its answer.
LEMMA AnswerGoesOn ==
  ASSUME IInv, NEW r \in Req, Answering(r), NEW pc \in {"save", "insert"},
         req' = [req EXCEPT ![r].pc = pc],
         UNCHANGED <<channel, threads, turns, lock, claimed, losses>>
  PROVE  IInv'
<1>1. /\ req'[r] = [req[r] EXCEPT !.pc = pc]
      /\ \A s \in Req : s # r => req'[s] = req[s]
  BY DEF IInv, TypeOK
<1>2. /\ req'[r].pc = pc /\ req'[r].msg = req[r].msg /\ req'[r].proc = req[r].proc
      /\ req'[r].told = req[r].told /\ req'[r].thread = req[r].thread
      /\ req'[r].seen = req[r].seen /\ req'[r] \in Handler
  <2>1. req[r] \in Handler
    BY Parts DEF IInv
  <2>2. QED
    BY <1>1, <2>1 DEF Handler
<1>3. req' \in [Req -> Handler]
  BY <1>2 DEF IInv, TypeOK
<1>4. TypeOK' /\ LockHeld'
  BY <1>1, <1>2, <1>3, LockKept DEF IInv, TypeOK, Running, Answering
<1>5. HandlersOnly
  <2>1. ~Told(r)'
    BY <1>2 DEF IInv, ToldStored, Told, Answering
  <2>2. QED
    BY <1>1, <1>2, <2>1 DEF HandlersOnly, IInv, HandlersHold, Answering, Running
<1>6. QED
  BY <1>4, <1>5, HandlersKeep DEF IInv, Stored

LEMMA AgentKeeps ==
  ASSUME IInv, NEW r \in Req, AgentEnds(r) \/ Save(r)
  PROVE  IInv'
<1>1. /\ Answering(r) /\ Running(r)
      /\ req[r].msg \in Msg /\ req[r].thread \in Thread
      /\ threads[req[r].thread].state # "absent"
      /\ UNCHANGED <<channel, threads, turns, claimed, losses>>
  BY DEF AgentEnds, Save, Answering, Running, IInv, HandlersHold
<1>2. CASE Reply(r, "failed")
  BY <1>1, <1>2, ReplyKeeps
<1>3. CASE ReplyStored(r, req[r].thread)
  BY <1>1, <1>3, StoredKeeps
<1>4. ASSUME NEW pc \in {"save", "insert"}, req' = [req EXCEPT ![r].pc = pc], UNCHANGED lock
      PROVE  IInv'
  BY <1>1, <1>4, AnswerGoesOn
<1>5. QED
  BY <1>2, <1>3, <1>4 DEF AgentEnds, Save

\* The turn of r, once it is stored.
TurnOf(r) == [thread |-> req[r].thread, msg |-> req[r].msg, run |-> r,
              by |-> req[r].proc, seen |-> req[r].seen]

\* The only handler of its process stores a turn that no other has the message of.
LEMMA InsertKeeps ==
  ASSUME IInv, NEW r \in Req, Insert(r)
  PROVE  IInv'
<1>1. /\ Answering(r) /\ Running(r)
      /\ req[r].msg \in Msg /\ req[r].thread \in Thread /\ req[r].proc \in Proc
      /\ req[r].seen \subseteq Msg
      /\ threads[req[r].thread].state # "absent"
      /\ UNCHANGED <<channel, threads, claimed, losses>>
  BY Parts DEF Insert, Answering, Running, IInv, HandlersHold
<1>2. CASE Reply(r, "failed") /\ UNCHANGED turns
  BY <1>1, <1>2, ReplyKeeps
<1>3. CASE ~Conflicts(r) /\ turns' = turns \union {TurnOf(r)} /\ Reply(r, r)
  <2>1. /\ req'[r] = [req[r] EXCEPT !.pc = "done",
                                    !.told = IF req[r].caller = "there" THEN r ELSE @]
        /\ \A s \in Req : s # r => req'[s] = req[s]
        /\ lock' = [lock EXCEPT ![req[r].proc] = None]
    BY <1>3 DEF Reply, IInv, TypeOK
  <2>2. /\ req'[r].pc = "done" /\ req'[r].msg = req[r].msg /\ req'[r].thread = req[r].thread
        /\ req'[r].told \in {req[r].told, r} /\ req'[r] \in Handler
    <3>1. req[r] \in Handler
      BY Parts DEF IInv
    <3>2. QED
      BY <2>1, <3>1 DEF Handler
  <2>3. req' \in [Req -> Handler]
    BY <1>3, <2>2, <2>1 DEF Reply, IInv, TypeOK
  <2>4. /\ TurnOf(r) \in TurnRow
        /\ TurnOf(r).thread = req[r].thread /\ TurnOf(r).msg = req[r].msg
        /\ TurnOf(r).run = r /\ TurnOf(r).by = req[r].proc /\ TurnOf(r).seen = req[r].seen
    BY <1>1 DEF TurnOf, TurnRow
  <2>5. TypeOK' /\ LockHeld'
    BY <1>1, <1>3, <2>1, <2>2, <2>3, <2>4, LockFreed DEF IInv, TypeOK
  <2>6. /\ \A s \in Req : s # r => /\ (Running(s)' <=> Running(s))
                                   /\ (Answering(s)' <=> Answering(s))
                                   /\ (Told(s)' <=> Told(s))
        /\ ~Running(r)' /\ ~Answering(r)' /\ ~Told(r)
    BY <1>1, <2>1, <2>2 DEF Running, Answering, Told, IInv, ToldStored
  <2>7. /\ \A x \in turns : x.thread = req[r].thread => x.msg # req[r].msg
        /\ threads[req[r].thread].state \in {"open", "closed"}
    <3>1. threads[req[r].thread] \in ThreadRow
      BY <1>1, Parts DEF IInv
    <3>2. QED
      BY <1>1, <1>3, <3>1 DEF Conflicts, TurnsOf, ThreadRow
  <2> HIDE DEF TurnOf
  <2>8. HandlersHold' /\ QuietHandlers'
    <3>1. HandlersHold'
      <4> SUFFICES ASSUME NEW s \in Req
                   PROVE  /\ req'[s].pc = "waiting" \/ Running(s)' =>
                                req'[s].proc \in Proc /\ req'[s].msg \in Msg \union {New}
                          /\ req'[s].pc = "create" \/ Answering(s)' => req'[s].msg \in Msg
                          /\ Answering(s)' => /\ req'[s].thread \in Thread
                                              /\ threads'[req'[s].thread].state # "absent"
        BY DEF HandlersHold
      <4>1. CASE s = r
        BY <2>2, <2>6, <4>1
      <4>2. CASE s # r
        BY <1>1, <2>1, <2>6, <4>2 DEF IInv, HandlersHold
      <4>3. QED
        BY <4>1, <4>2
    <3>2. QuietHandlers'
      BY <1>1, <2>1, <2>6 DEF IInv, QuietHandlers
    <3>3. QED
      BY <3>1, <3>2
  <2>9. SeenAll'
    <3> SUFFICES ASSUME NEW s \in Req, NEW x \in turns', Answering(s)',
                        x.thread = req'[s].thread, x.by = req'[s].proc
                 PROVE  x.msg \in req'[s].seen
      BY DEF SeenAll
    <3>1. s # r /\ Answering(s) /\ Running(s) /\ req'[s] = req[s]
      BY <2>1, <2>6 DEF Answering, Running
    <3>2. req[s].proc # req[r].proc
      BY <1>1, <3>1, Alone
    <3>3. x \in turns
      BY <1>3, <2>4, <3>1, <3>2
    <3>4. QED
      BY <3>1, <3>3 DEF IInv, SeenAll
  <2>10. TurnsLive' /\ TurnsUnique'
    BY <1>1, <1>3, <2>4, <2>7 DEF IInv, TurnsLive, TurnsUnique
  <2>11. TurnsSerialised'
    <3>1. \A x \in turns : x.thread = req[r].thread /\ x.by = req[r].proc => x.msg \in req[r].seen
      BY <1>1 DEF IInv, SeenAll
    <3>2. QED
      BY <1>3, <2>4, <3>1 DEF IInv, TurnsSerialised
  <2>12. ToldStored'
    <3> SUFFICES ASSUME NEW s \in Req, Told(s)'
                 PROVE  /\ req'[s].pc = "done"
                        /\ req'[s].thread \in Thread
                        /\ \/ threads[req'[s].thread].state = "deleted"
                           \/ \E y \in turns' : /\ y.thread = req'[s].thread
                                                /\ y.msg = req'[s].msg
                                                /\ y.run = req'[s].told
      BY <1>1 DEF ToldStored, TurnsOf
    <3>1. CASE s = r
      <4>1. req'[r].told = r
        BY <2>2, <2>6, <3>1 DEF Told
      <4>2. TurnOf(r) \in turns'
        BY <1>3
      <4>3. QED
        BY <1>1, <2>2, <2>4, <3>1, <4>1, <4>2
    <3>2. CASE s # r
      BY <1>3, <2>1, <2>6, <3>2 DEF IInv, ToldStored, TurnsOf
    <3>3. QED
      BY <3>1, <3>2
  <2>13. AnswersAgree'
    <3>1. ASSUME NEW s \in Req, s # r, Told(s) PROVE ~(req[s].msg = req[r].msg
                                                      /\ req[s].thread = req[r].thread)
      BY <2>7, <3>1 DEF IInv, ToldStored, TurnsOf
    <3>2. QED
      <4> SUFFICES ASSUME NEW a \in Req, NEW b \in Req, Told(a)', Told(b)',
                          req'[a].msg = req'[b].msg, req'[a].thread = req'[b].thread
                   PROVE  req'[a].told = req'[b].told
        BY DEF AnswersAgree
      <4>1. CASE a # r /\ b # r
        BY <2>1, <2>6, <4>1 DEF IInv, AnswersAgree
      <4>2. CASE a = r /\ b # r
        BY <2>1, <2>2, <2>6, <3>1, <4>2
      <4>3. CASE a # r /\ b = r
        BY <2>1, <2>2, <2>6, <3>1, <4>3
      <4>4. QED
        BY <4>1, <4>2, <4>3
  <2>14. QED
    BY <2>5, <2>8, <2>9, <2>10, <2>11, <2>12, <2>13 DEF IInv
<1>4. QED
  BY <1>2, <1>3 DEF Insert, TurnOf

--------------------------------------------------------------------------------
(* The invariant and what follows from it *)

\* Every step keeps the invariant.
LEMMA StepInv == IInv /\ [Next]_vars => IInv'
<1> SUFFICES ASSUME IInv, [Next]_vars PROVE IInv'
  OBVIOUS
<1>1. ASSUME UNCHANGED vars PROVE IInv'
  <2>1. TypeOK' /\ LockHeld'
    BY <1>1 DEF vars, IInv, TypeOK, LockHeld, Running
  <2>2. HandlersOnly
    BY <1>1 DEF vars, HandlersOnly, IInv, HandlersHold, Answering, Running
  <2>3. QED
    BY <1>1, <2>1, <2>2, HandlersKeep DEF vars, IInv, Stored
<1>2. ASSUME NEW m \in Msg \union {New}, ClaimLapses(m) PROVE IInv'
  <2>1. /\ UNCHANGED <<channel, threads, turns, req, lock>>
        /\ claimed' \subseteq claimed /\ losses' = losses + 1 /\ losses < MaxLoss
    BY <1>2 DEF ClaimLapses
  <2>2. losses' \in 0..MaxLoss
    BY <2>1, BoundsAssumption DEF IInv, TypeOK
  <2>3. TypeOK' /\ LockHeld'
    BY <2>1, <2>2 DEF IInv, TypeOK, LockHeld, Running
  <2>4. HandlersOnly
    BY <2>1 DEF HandlersOnly, IInv, HandlersHold, Answering, Running
  <2>5. QED
    BY <2>1, <2>3, <2>4, HandlersKeep DEF IInv, Stored
<1>3. QED
  BY <1>1, <1>2, ArriveKeeps, EnterKeeps, GiveUpKeeps, RestartKeeps, ResolveKeeps,
     CreateKeeps, ResetKeeps, AgentKeeps, InsertKeeps, DeleteKeeps
  DEF Next, Handle

\* The invariant holds in every reachable state.
THEOREM ConversationInvariance == Spec => []IInv
<1>1. Init => IInv
  BY InitInv
<1>2. IInv /\ [Next]_vars => IInv'
  BY StepInv
<1>3. QED
  BY <1>1, <1>2, PTL DEF Spec

\* The lock of a process marks exactly one handler, which has entered, and rows
\* and handlers keep their shape.
THEOREM ConversationTypes == Spec => []TypeOK
<1>1. IInv => TypeOK
  BY DEF IInv
<1>2. QED
  BY <1>1, ConversationInvariance, PTL

\* Repeated messages are answered with one execution's answer, and one process
\* stores its turns of a thread one after the other (service.py 75-101, 275-314).
THEOREM InOrder == Spec => []TurnsStayInOrder
<1>1. IInv => TurnsStayInOrder
  BY DEF IInv, TurnsStayInOrder
<1>2. QED
  BY <1>1, ConversationInvariance, PTL

\* A message is stored once per thread, whoever handles it.
THEOREM StoredOnce == Spec => []TurnsUnique
<1>1. IInv => TurnsUnique
  BY DEF IInv
<1>2. QED
  BY <1>1, ConversationInvariance, PTL

\* Only the insert of a handler stores a turn.
LEMMA OnlyInsertStores ==
  ASSUME IInv, [Next]_vars, NEW x \in turns' \ turns
  PROVE  \E r \in Req : Answering(r) /\ x = TurnOf(r) /\ UNCHANGED threads
<1>1. CASE \E r \in Req : Insert(r)
  <2>1. PICK r \in Req : Insert(r)
    BY <1>1
  <2>2. QED
    BY <2>1 DEF Insert, TurnOf, Answering
<1>2. CASE \E t \in Thread : DeleteThread(t)
  BY <1>2 DEF DeleteThread
<1>3. CASE UNCHANGED turns
  BY <1>3
<1>4. QED
  BY <1>1, <1>2, <1>3
  DEF Next, vars, Handle, Send, Deliver, ClaimLapses, Enter, GiveUp, Restart, Resolve,
      CreateThread, Reset, AgentEnds, Save

\* After /new the old thread takes no more turns from the process that closed it
\* (conversations.py 51-90).
THEOREM ClosedIsQuiet == Spec => ClosedThreadIsQuiet
<1>1. ASSUME IInv, [Next]_vars, NEW x \in turns' \ turns, threads[x.thread].state = "closed"
      PROVE  threads[x.thread].by # x.by
  <2>1. PICK r \in Req : Answering(r) /\ x = TurnOf(r)
    BY <1>1, OnlyInsertStores
  <2>2. x.thread = req[r].thread /\ x.by = req[r].proc
    BY <2>1 DEF TurnOf
  <2>3. QED
    BY <1>1, <2>1, <2>2 DEF IInv, QuietHandlers
<1>2. IInv /\ [Next]_vars =>
        [\A x \in turns' \ turns :
            threads[x.thread].state = "closed" => threads[x.thread].by # x.by]_vars
  BY <1>1
<1>3. QED
  BY <1>2, ConversationInvariance, PTL DEF Spec, ClosedThreadIsQuiet

--------------------------------------------------------------------------------
(******************************************************************************)
(* The run of the agent, for every set of queries, segments, tools and todo   *)
(* steps and every limit.                                                     *)
(*                                                                            *)
(* The argument: until a run has an answer nothing is told (AgentPhases), and *)
(* a run without an outcome has asked for no effect (AgentEffects), so the    *)
(* first action is the only one. A run that composes has no outcome unless a  *)
(* thread outlived it. Every read the backend saw was reserved, although a    *)
(* search the policy is about to refuse is not (AgentBudgets). What ends a    *)
(* run does so in one of three ways (AgentTells, AgentTellsOutcome,           *)
(* AgentGrounds), and nothing a finished run kept changes any more.           *)
(******************************************************************************)

AgentCall == {"todo", "list"} \union ActionTool \union Query \union Segment
AgentOutcome ==
    [tool : Agent!AllActionTools \union {Agent!None, "list", "request_save_confirmation"},
     ok : BOOLEAN]
TodoStatus == {Agent!None, "pending", "in_progress", "completed", "blocked"}

AgentRun ==
    [at : {"bare", "model", "tools", "compose", "plan", "done"},
     step : 0..RequestLimit, calls : Nat, batch : Seq(AgentCall),
     retrying : SUBSET AgentCall, asked : SUBSET AgentCall,
     drafts : 0..(Agent!DraftLimit - 1)]
AgentReads ==
    [searches : 0..Agent!SearchLimit, expansions : 0..Agent!ExpandLimit, lastStep : Nat,
     found : BOOLEAN, cited : SUBSET Segment, failed : SUBSET Agent!Read,
     retried : SUBSET Agent!Read, recoveries : 0..Agent!RecoveryLimit,
     lastEmpty : Query \union {Agent!None}, exhausted : BOOLEAN, listed : BOOLEAN]
AgentActs    == [outcome : AgentOutcome, mismatch : BOOLEAN]
AgentBackend == [search : Nat, expand : Nat, effects : 0..1]
AgentAnswer ==
    [code : Agent!Code, outcome : AgentOutcome, sources : SUBSET Segment, planned : BOOLEAN]

AgentTypes ==
    /\ message \in Agent!Message
    /\ run \in AgentRun
    /\ reads \in AgentReads
    /\ act \in AgentActs
    /\ todo \in [Todo -> TodoStatus]
    /\ backend \in AgentBackend
    /\ told \in AgentAnswer

\* A run is over when something was told; a call outlives it only past its limit; a
\* bare link never reaches the model.
AgentPhases ==
    /\ run.at = "tools" <=> run.batch # <<>>
    /\ run.at # "done" => told = Agent!NoAnswer
    /\ run.at = "done" => told.code # Agent!None
    /\ late # Agent!None => run.at \in {"compose", "done"}
    /\ run.at \in {"model", "tools", "compose", "plan"} => message.text # "url"

\* An effect leaves an outcome, and a run with an outcome has nothing to compose.
AgentEffects ==
    /\ ~Agent!Acted => backend.effects = 0
    /\ run.at = "bare" => ~Agent!Acted
    /\ run.at = "compose" /\ late = Agent!None => ~Agent!Acted

\* Every read the backend saw was reserved.
AgentBudgets == backend.search <= reads.searches /\ backend.expand <= reads.expansions

\* What is told is true to the run.
AgentTold ==
    /\ Agent!OutcomeIsTold
    /\ Agent!FailedReadIsAdmitted
    /\ Agent!CitesThisTurn
    /\ Agent!TodoIsFinal

\* The inductive invariant.
AgentInv == AgentTypes /\ AgentPhases /\ AgentEffects /\ AgentBudgets /\ AgentTold

--------------------------------------------------------------------------------
(* The initial states, and the ways a run ends *)

LEMMA AgentStarts == ASSUME Agent!LimitsAssumption, Agent!Init PROVE AgentInv
<1> USE DEF Agent!Init, Agent!None, Agent!NoOutcome, Agent!NoAnswer
<1>1. AgentTypes
  BY DEF AgentTypes, Agent!LimitsAssumption, Agent!Message, Agent!FreshReads, AgentOutcome,
         TodoStatus, Agent!Code, Agent!DraftLimit, Agent!SearchLimit, Agent!ExpandLimit,
         Agent!RecoveryLimit, AgentRun, AgentReads, AgentActs, AgentBackend, AgentAnswer
<1>2. AgentPhases
  BY DEF AgentPhases
<1>3. AgentEffects
  BY DEF AgentEffects, Agent!Acted
<1>4. AgentBudgets
  BY DEF AgentBudgets, Agent!FreshReads
<1>5. AgentTold
  BY DEF AgentTold, Agent!OutcomeIsTold, Agent!FailedReadIsAdmitted, Agent!CitesThisTurn,
         Agent!TodoIsFinal, Agent!Ended
<1> QED
  BY <1>1, <1>2, <1>3, <1>4, <1>5 DEF AgentInv

\* A run that goes to an end, or to the composer, keeps what it has of its record.
LEMMA AgentStops ==
    ASSUME run \in AgentRun, NEW at \in {"compose", "done", "plan"},
           run' = [run EXCEPT !.at = at, !.batch = <<>>]
    PROVE  run' \in AgentRun /\ run'.at = at /\ run'.batch = <<>>
<1>1. <<>> \in Seq(AgentCall)
  OBVIOUS
<1> QED
  BY <1>1 DEF AgentRun

LEMMA AnswerOfCode ==
    ASSUME NEW code \in Agent!Code
    PROVE  LET a == [Agent!NoAnswer EXCEPT !.code = code]
           IN  /\ a \in AgentAnswer
               /\ a.code = code
               /\ a.outcome = Agent!NoOutcome
               /\ a.sources = {}
               /\ a.planned = FALSE
  BY DEF Agent!NoAnswer, AgentAnswer, AgentOutcome, Agent!NoOutcome, Agent!None

\* A step that ends the run with an answer that is true to it.
LEMMA AgentRunEnds ==
    ASSUME AgentInv, Agent!Done, UNCHANGED <<message, reads>>,
           act' \in AgentActs, backend' \in AgentBackend, todo' \in [Todo -> TodoStatus],
           told' \in AgentAnswer, told'.code # Agent!None,
           ~Agent!Acted' => backend'.effects = 0,
           backend'.search = backend.search, backend'.expand = backend.expand,
           Agent!Acted' /\ ~told'.planned /\ late' = Agent!None => told'.outcome = act'.outcome,
           Agent!Unread => told'.code \notin {"no_evidence", "natural", "management_read"},
           told'.sources \subseteq reads.cited,
           told'.code = "grounded" <=> told'.sources # {},
           Agent!TodoIsFinal'
    PROVE  AgentInv'
<1>1. run' \in AgentRun /\ run'.at = "done" /\ run'.batch = <<>>
  BY AgentStops DEF Agent!Done, AgentInv, AgentTypes
<1>2. AgentTypes'
  BY <1>1 DEF AgentInv, AgentTypes
<1>3. AgentPhases'
  BY <1>1 DEF AgentPhases
<1>4. AgentEffects'
  BY <1>1 DEF AgentEffects
<1>5. AgentBudgets'
  BY DEF AgentInv, AgentBudgets
<1>6. Agent!OutcomeIsTold'
  BY DEF Agent!OutcomeIsTold
<1>7. Agent!FailedReadIsAdmitted'
  BY DEF Agent!FailedReadIsAdmitted, Agent!Unread
<1>8. Agent!CitesThisTurn'
  BY DEF Agent!CitesThisTurn
<1> QED
  BY <1>2, <1>3, <1>4, <1>5, <1>6, <1>7, <1>8 DEF AgentInv, AgentTold

\* The special case: it tells a code alone.
LEMMA AgentTells ==
    ASSUME AgentInv, NEW code \in Agent!Code \ {Agent!None, "grounded"}, Agent!Tell(code),
           UNCHANGED <<message, reads, act, backend>>, todo' \in [Todo -> TodoStatus],
           Agent!Acted => late' # Agent!None,
           Agent!Unread => code \notin {"no_evidence", "natural", "management_read"},
           code \in {"natural", "management_read"} =>
               /\ \A t \in Todo : todo'[t] \notin {"pending", "in_progress"}
               /\ (\E t \in Todo : todo'[t] = "blocked") =>
                      code = "natural" /\ message.text = "plain"
    PROVE  AgentInv'
<1>1. /\ told' \in AgentAnswer /\ told'.code = code /\ told'.sources = {}
      /\ told'.planned = FALSE
  BY AnswerOfCode DEF Agent!Tell
<1>2. Agent!TodoIsFinal'
  BY <1>1 DEF Agent!TodoIsFinal
<1>3. ~Agent!Acted' => backend'.effects = 0
  BY DEF Agent!Acted, AgentInv, AgentEffects
<1>4. Agent!Acted' => late' # Agent!None
  BY DEF Agent!Acted
<1>5. act' \in AgentActs /\ backend' \in AgentBackend
  BY DEF AgentInv, AgentTypes
<1>6. Agent!Done
  BY DEF Agent!Tell
<1>7. told'.sources \subseteq reads.cited /\ (told'.code = "grounded" <=> told'.sources # {})
  BY <1>1
<1>8. backend'.search = backend.search /\ backend'.expand = backend.expand
  OBVIOUS
<1> QED
  BY <1>1, <1>2, <1>3, <1>4, <1>5, <1>6, <1>7, <1>8, AgentRunEnds

\* It tells the outcome of its action.
LEMMA AgentTellsOutcome ==
    ASSUME AgentInv, Agent!TellOutcome(act'.outcome), act' \in AgentActs, Agent!Acted',
           UNCHANGED <<message, reads, todo>>, backend' \in AgentBackend,
           backend'.search = backend.search, backend'.expand = backend.expand
    PROVE  AgentInv'
<1> DEFINE a == [Agent!NoAnswer EXCEPT !.code = "action", !.outcome = act'.outcome]
<1>1. act'.outcome \in AgentOutcome
  BY DEF AgentActs
<1>2. /\ told' \in AgentAnswer /\ told'.code = "action" /\ told'.sources = {}
      /\ told'.outcome = act'.outcome
  <2>1. told' = a
    BY DEF Agent!TellOutcome
  <2>2. "action" \in Agent!Code
    BY DEF Agent!Code
  <2>3. /\ a \in AgentAnswer /\ a.code = "action" /\ a.sources = {}
        /\ a.outcome = act'.outcome
    BY <1>1, <2>2 DEF Agent!NoAnswer, AgentAnswer
  <2> HIDE DEF a
  <2> QED
    BY <2>1, <2>3
<1>3. Agent!TodoIsFinal'
  BY <1>2 DEF Agent!TodoIsFinal
<1>4. todo' \in [Todo -> TodoStatus]
  BY DEF AgentInv, AgentTypes
<1>5. Agent!Done
  BY DEF Agent!TellOutcome
<1>6. told'.code # Agent!None /\ told'.code \notin {"no_evidence", "natural", "management_read"}
  BY <1>2 DEF Agent!None
<1>7. told'.sources \subseteq reads.cited /\ (told'.code = "grounded" <=> told'.sources # {})
  BY <1>2
<1> QED
  BY <1>2, <1>3, <1>4, <1>5, <1>6, <1>7, AgentRunEnds

\* A run without an outcome hands its evidence to the composer.
LEMMA AgentComposes ==
    ASSUME AgentInv, run.at \in {"model", "tools", "plan"}, ~Agent!Acted, Agent!Compose,
           UNCHANGED <<message, reads, act, backend>>, todo' \in [Todo -> TodoStatus]
    PROVE  AgentInv'
<1>1. run' \in AgentRun /\ run'.at = "compose" /\ run'.batch = <<>> /\ UNCHANGED told
  BY AgentStops DEF Agent!Compose, AgentInv, AgentTypes
<1>2. told' = Agent!NoAnswer /\ message'.text # "url"
  BY <1>1 DEF AgentInv, AgentPhases
<1>3. AgentTypes'
  BY <1>1 DEF AgentInv, AgentTypes
<1>4. AgentPhases'
  BY <1>1, <1>2 DEF AgentPhases
<1>5. AgentEffects'
  BY <1>1 DEF AgentInv, AgentEffects, Agent!Acted
<1>6. AgentBudgets'
  BY DEF AgentInv, AgentBudgets
<1>7. AgentTold'
  BY <1>1, <1>2 DEF AgentTold, Agent!OutcomeIsTold, Agent!FailedReadIsAdmitted,
     Agent!CitesThisTurn, Agent!TodoIsFinal, Agent!Ended, Agent!NoAnswer, Agent!None
<1> QED
  BY <1>3, <1>4, <1>5, <1>6, <1>7 DEF AgentInv

LEMMA BlockedTodo == AgentInv => Agent!Blocked \in [Todo -> TodoStatus]
  BY DEF AgentInv, AgentTypes, Agent!Blocked, TodoStatus

\* Whatever ends the run, the order in which an answer is looked for is kept.
LEMMA AgentResolves ==
    ASSUME AgentInv, run.at \in {"model", "tools"},
           NEW code \in {"limit", "timeout", "runtime_error"}, Agent!Resolve(code)
    PROVE  AgentInv'
<1>1. UNCHANGED <<message, reads, act, backend>>
  BY DEF Agent!Resolve
<1>2. act' \in AgentActs /\ backend' \in AgentBackend /\ todo \in [Todo -> TodoStatus]
  BY <1>1 DEF AgentInv, AgentTypes
<1>3. /\ code \in Agent!Code \ {Agent!None, "grounded"}
      /\ {"no_evidence", "partial_read"} \subseteq Agent!Code \ {Agent!None, "grounded"}
  BY DEF Agent!Code, Agent!None
<1>4. CASE Agent!Acted
  <2>1. Agent!TellOutcome(act.outcome) /\ UNCHANGED todo
    BY <1>4 DEF Agent!Resolve
  <2>2. Agent!TellOutcome(act'.outcome) /\ Agent!Acted'
    BY <1>1, <1>4, <2>1 DEF Agent!Acted
  <2> QED
    BY <1>1, <1>2, <2>1, <2>2, AgentTellsOutcome
<1>5. CASE ~Agent!Acted /\ reads.cited # {}
  <2>1. Agent!Compose /\ UNCHANGED todo
    BY <1>5 DEF Agent!Resolve
  <2> QED
    BY <1>1, <1>2, <1>5, <2>1, AgentComposes
<1>6. CASE ~Agent!Acted /\ reads.cited = {} /\ Agent!CleanSearch
  <2>1. Agent!Tell("no_evidence") /\ UNCHANGED todo
    BY <1>6 DEF Agent!Resolve
  <2>2. ~Agent!Unread
    BY <1>6 DEF Agent!CleanSearch, Agent!Unread
  <2> QED
    BY <1>1, <1>2, <1>3, <1>6, <2>1, <2>2, AgentTells
<1>7. CASE ~Agent!Acted /\ reads.cited = {} /\ ~Agent!CleanSearch /\ reads.listed
  <2>1. Agent!Tell("partial_read") /\ todo' = Agent!Blocked
    BY <1>7 DEF Agent!Resolve, Agent!TellPartial
  <2> QED
    BY <1>1, <1>3, <1>7, <2>1, AgentTells, BlockedTodo
<1>8. CASE ~Agent!Acted /\ reads.cited = {} /\ ~Agent!CleanSearch /\ ~reads.listed
  <2>1. Agent!Tell(code) /\ UNCHANGED todo
    BY <1>8 DEF Agent!Resolve
  <2> QED
    BY <1>1, <1>2, <1>3, <1>8, <2>1, AgentTells
<1> QED
  BY <1>4, <1>5, <1>6, <1>7, <1>8

LEMMA AgentUnexpected ==
    ASSUME AgentInv, run.at \in {"model", "tools"}, Agent!Unexpected
    PROVE  AgentInv'
<1>1. CASE ~Agent!Acted /\ act.mismatch
  <2> DEFINE o == [tool |-> "save_videos", ok |-> FALSE]
  <2>1. /\ act' = [act EXCEPT !.outcome = o] /\ Agent!TellOutcome(o)
        /\ UNCHANGED <<message, reads, todo, backend>>
    BY <1>1 DEF Agent!Unexpected
  <2>2. o \in AgentOutcome /\ o # Agent!NoOutcome
    BY DEF AgentOutcome, Agent!AllActionTools, Agent!NoOutcome, Agent!None
  <2>3. act' \in AgentActs /\ act'.outcome = o
    BY <2>1, <2>2 DEF AgentInv, AgentTypes, AgentActs
  <2>4. Agent!Acted' /\ Agent!TellOutcome(act'.outcome) /\ backend' \in AgentBackend
    BY <2>1, <2>2, <2>3 DEF Agent!Acted, AgentInv, AgentTypes
  <2> QED
    BY <2>1, <2>3, <2>4, AgentTellsOutcome
<1>2. CASE ~(~Agent!Acted /\ act.mismatch)
  BY <1>2, AgentResolves DEF Agent!Unexpected
<1> QED
  BY <1>1, <1>2

LEMMA AgentFinalizes ==
    ASSUME AgentInv, run.at \in {"model", "plan"}, NEW clarifies \in BOOLEAN,
           NEW safe \in BOOLEAN, Agent!Finalize(clarifies, safe)
    PROVE  AgentInv'
<1>1. UNCHANGED <<message, reads, act, late, backend>>
  BY DEF Agent!Finalize
<1>2. act' \in AgentActs /\ backend' \in AgentBackend /\ todo \in [Todo -> TodoStatus]
  BY <1>1 DEF AgentInv, AgentTypes
<1>3. {"partial_read", "read_unavailable", "todo_incomplete", "management_read", "natural",
       "answer_unavailable", "no_evidence"} \subseteq Agent!Code \ {Agent!None, "grounded"}
  BY DEF Agent!Code, Agent!None
<1>4. CASE Agent!Acted
  <2>1. Agent!TellOutcome(act.outcome) /\ UNCHANGED todo
    BY <1>4 DEF Agent!Finalize
  <2>2. Agent!TellOutcome(act'.outcome) /\ Agent!Acted'
    BY <1>1, <1>4, <2>1 DEF Agent!Acted
  <2> QED
    BY <1>1, <1>2, <2>1, <2>2, AgentTellsOutcome
<1>5. CASE ~Agent!Acted /\ Agent!Unread
  <2>1. todo' \in [Todo -> TodoStatus]
    BY <1>5, BlockedTodo DEF Agent!Finalize
  <2>2. CASE reads.cited # {}
    <3>1. Agent!Compose
      BY <1>5, <2>2 DEF Agent!Finalize
    <3> QED
      BY <1>1, <1>5, <2>1, <3>1, AgentComposes
  <2>3. CASE reads.cited = {}
    <3> DEFINE code == IF reads.listed THEN "partial_read" ELSE "read_unavailable"
    <3>1. Agent!Tell(code)
      BY <1>5, <2>3 DEF Agent!Finalize
    <3>2. code \in {"partial_read", "read_unavailable"}
      OBVIOUS
    <3> HIDE DEF code
    <3> QED
      BY <1>1, <1>3, <1>5, <2>1, <3>1, <3>2, AgentTells
  <2> QED
    BY <2>2, <2>3
<1>6. CASE ~Agent!Acted /\ ~Agent!Unread
  <2>1. UNCHANGED todo
    BY <1>6 DEF Agent!Finalize
  <2>2. CASE reads.cited # {}
    <3>1. Agent!Compose
      BY <1>6, <2>2 DEF Agent!Finalize
    <3> QED
      BY <1>1, <1>2, <1>6, <2>1, <3>1, AgentComposes
  <2>3. CASE reads.cited = {} /\ ~Agent!TodoFinal(clarifies)
    <3>1. Agent!Tell("todo_incomplete")
      BY <1>6, <2>3 DEF Agent!Finalize
    <3> QED
      BY <1>1, <1>2, <1>3, <1>6, <2>1, <3>1, AgentTells
  <2>4. CASE reads.cited = {} /\ Agent!TodoFinal(clarifies) /\ reads.searches = 0
    <3> DEFINE code == IF reads.listed THEN "management_read"
                       ELSE IF safe THEN "natural" ELSE "answer_unavailable"
    <3>1. Agent!Tell(code)
      BY <1>6, <2>4 DEF Agent!Finalize
    <3>2. /\ code \in {"management_read", "natural", "answer_unavailable"}
          /\ reads.listed <=> code = "management_read"
      OBVIOUS
    <3>3. /\ \A t \in Todo : todo'[t] \notin {"pending", "in_progress"}
          /\ (\E t \in Todo : todo'[t] = "blocked") =>
                 ~reads.listed /\ message.text \notin {"link", "linksave"}
      BY <2>1, <2>4 DEF Agent!TodoFinal
    <3>4. message.text \in {"link", "linksave", "plain"}
      BY DEF AgentInv, AgentTypes, AgentPhases, Agent!Message
    <3> HIDE DEF code
    <3>5. code \in {"natural", "management_read"} =>
               /\ \A t \in Todo : todo'[t] \notin {"pending", "in_progress"}
               /\ (\E t \in Todo : todo'[t] = "blocked") =>
                      code = "natural" /\ message.text = "plain"
      BY <3>2, <3>3, <3>4
    <3>6. code \in Agent!Code \ {Agent!None, "grounded"}
      BY <1>3, <3>2
    <3> QED
      BY <1>1, <1>2, <1>6, <2>1, <3>1, <3>5, <3>6, AgentTells
  <2>5. CASE reads.cited = {} /\ Agent!TodoFinal(clarifies) /\ reads.searches # 0
    <3> DEFINE code == IF reads.found THEN "no_evidence" ELSE "answer_unavailable"
    <3>1. Agent!Tell(code)
      BY <1>6, <2>5 DEF Agent!Finalize
    <3>2. code \in {"no_evidence", "answer_unavailable"}
      OBVIOUS
    <3> HIDE DEF code
    <3>3. code \in Agent!Code \ {Agent!None, "grounded"}
      BY <1>3, <3>2
    <3> QED
      BY <1>1, <1>2, <1>6, <2>1, <3>1, <3>2, <3>3, AgentTells
  <2> QED
    BY <2>2, <2>3, <2>4, <2>5
<1> QED
  BY <1>4, <1>5, <1>6

--------------------------------------------------------------------------------
(* The tools *)

\* What a tool does to the record of the reads.

LEMMA LastCall ==
    ASSUME NEW S, NEW b \in Seq(S), b # <<>>
    PROVE  Tail(b) \in Seq(S) /\ (Len(b) = 1 <=> Tail(b) = <<>>)
<1>1. Tail(b) \in Seq(S) /\ Len(Tail(b)) = Len(b) - 1 /\ Len(b) \in Nat \ {0}
  BY HeadTailProperties, EmptySeq
<1>2. Tail(b) # <<>> => Len(Tail(b)) \in Nat \ {0}
  BY <1>1, EmptySeq
<1>3. Tail(b) = <<>> => Len(Tail(b)) = 0
  BY EmptySeq
<1> QED
  BY <1>1, <1>2, <1>3

LEMMA RunAfterCall ==
    ASSUME run \in AgentRun, run.batch # <<>>
    PROVE  /\ Agent!NextCall \in AgentRun
           /\ Agent!NextCall.at \in {"model", "tools"}
           /\ Agent!NextCall.at = "tools" <=> Agent!NextCall.batch # <<>>
<1> DEFINE t == Tail(run.batch)
           n == [run EXCEPT !.batch = t, !.at = IF t = <<>> THEN "model" ELSE "tools"]
<1>1. t \in Seq(AgentCall) /\ (Len(run.batch) = 1 <=> t = <<>>)
  BY LastCall DEF AgentRun
<1>2. n = Agent!NextCall
  BY <1>1 DEF Agent!NextCall
<1> HIDE DEF t
<1> QED
  BY <1>1, <1>2 DEF AgentRun

LEMMA ReserveKeeps ==
    ASSUME NEW d \in AgentReads, NEW kind \in {"search", "expand"}, run \in AgentRun,
           Agent!MayReserve(d, kind)
    PROVE  LET e == Agent!Reserve(d, kind)
           IN  /\ e \in AgentReads
               /\ e.searches = IF kind = "search" THEN d.searches + 1 ELSE d.searches
               /\ e.expansions = IF kind = "expand" THEN d.expansions + 1 ELSE d.expansions
               /\ e.failed = d.failed /\ e.retried = d.retried
<1>1. /\ kind = "search" => d.searches + 1 \in 0..Agent!SearchLimit
      /\ kind = "expand" => d.expansions + 1 \in 0..Agent!ExpandLimit
  BY DEF AgentReads, Agent!MayReserve, Agent!SearchLimit, Agent!ExpandLimit
<1>2. run.step \in Nat
  BY DEF AgentRun
<1>3. CASE kind = "search"
  <2>1. Agent!Reserve(d, kind) = [d EXCEPT !.lastStep = run.step, !.searches = @ + 1,
                                           !.expansions = @]
    BY <1>3 DEF Agent!Reserve
  <2> QED
    BY <1>1, <1>2, <1>3, <2>1 DEF AgentReads
<1>4. CASE kind = "expand"
  <2>1. Agent!Reserve(d, kind) = [d EXCEPT !.lastStep = run.step, !.searches = @,
                                           !.expansions = @ + 1]
    BY <1>4 DEF Agent!Reserve
  <2> QED
    BY <1>1, <1>2, <1>4, <2>1 DEF AgentReads
<1> QED
  BY <1>3, <1>4

LEMMA BeginKeeps ==
    ASSUME NEW d \in AgentReads, NEW r \in Agent!Read, ~Agent!Refused(d, r)
    PROVE  LET e == Agent!Begin(d, r)
           IN  /\ e \in AgentReads
               /\ e.searches = d.searches /\ e.expansions = d.expansions
<1>1. CASE r \in d.failed
  <2>1. d.recoveries + 1 \in 0..Agent!RecoveryLimit
    BY <1>1 DEF AgentReads, Agent!Refused, Agent!MayRetry, Agent!RecoveryLimit
  <2>2. Agent!Begin(d, r) = [d EXCEPT !.recoveries = @ + 1, !.retried = @ \union {r}]
    BY <1>1 DEF Agent!Begin
  <2> DEFINE n == d.recoveries + 1
             s == d.retried \union {r}
  <2>3. s \in SUBSET Agent!Read
    BY DEF AgentReads
  <2>4. n \in 0..Agent!RecoveryLimit /\ Agent!Begin(d, r) = [d EXCEPT !.recoveries = n, !.retried = s]
    BY <2>1, <2>2
  <2> HIDE DEF n, s
  <2> QED
    BY <2>3, <2>4 DEF AgentReads
<1>2. CASE r \notin d.failed
  BY <1>2 DEF Agent!Begin
<1> QED
  BY <1>1, <1>2

LEMMA FailKeeps ==
    ASSUME NEW d \in AgentReads, NEW r \in Agent!Read, ~Agent!Refused(d, r)
    PROVE  LET e == Agent!Fail(d, r)
           IN  /\ e \in AgentReads
               /\ e.searches = d.searches /\ e.expansions = d.expansions
<1> DEFINE b == Agent!Begin(d, r)
<1>1. b \in AgentReads /\ b.searches = d.searches /\ b.expansions = d.expansions
  BY BeginKeeps
<1> DEFINE x == b.exhausted \/ r \in d.failed
       s == b.failed \union {r}
<1>2. Agent!Fail(d, r) = [b EXCEPT !.failed = s, !.exhausted = x]
  BY DEF Agent!Fail
<1>3. x \in BOOLEAN /\ s \in SUBSET Agent!Read
  BY <1>1 DEF AgentReads
<1> HIDE DEF b, x, s
<1> QED
  BY <1>1, <1>2, <1>3 DEF AgentReads

LEMMA SucceedKeeps ==
    ASSUME NEW d \in AgentReads, NEW r \in Agent!Read, ~Agent!Refused(d, r),
           NEW found \in SUBSET Segment
    PROVE  LET e == Agent!Succeed(d, r, found)
           IN  /\ e \in AgentReads
               /\ e.searches = d.searches /\ e.expansions = d.expansions
<1> DEFINE b == Agent!Begin(d, r)
<1>1. b \in AgentReads /\ b.searches = d.searches /\ b.expansions = d.expansions
  BY BeginKeeps
<1>2. Agent!Succeed(d, r, found) =
          [b EXCEPT !.failed = @ \ {r}, !.cited = @ \union found]
  BY DEF Agent!Succeed
<1> HIDE DEF b
<1> QED
  BY <1>1, <1>2 DEF AgentReads

LEMMA SearchedKeeps ==
    ASSUME NEW d \in AgentReads, NEW q \in Query, ~Agent!Refused(d, q),
           NEW found \in SUBSET Segment
    PROVE  LET e == Agent!Searched(d, q, found)
           IN  /\ e \in AgentReads
               /\ e.searches = d.searches /\ e.expansions = d.expansions
<1> DEFINE b == Agent!Succeed(d, q, found)
<1>1. b \in AgentReads /\ b.searches = d.searches /\ b.expansions = d.expansions
  BY SucceedKeeps DEF Agent!Read
<1>2. Agent!Searched(d, q, found) =
          [b EXCEPT !.found = TRUE, !.lastEmpty = IF found = {} THEN q ELSE Agent!None]
  BY DEF Agent!Searched
<1> HIDE DEF b
<1> QED
  BY <1>1, <1>2 DEF AgentReads

LEMMA RefuseKeeps ==
    ASSUME NEW d \in AgentReads, NEW r
    PROVE  LET e == Agent!Refuse(d, r)
           IN  /\ e \in AgentReads
               /\ e.searches = d.searches /\ e.expansions = d.expansions
  BY DEF AgentReads, Agent!Refuse

\* A call of a tool that does not end the run.
LEMMA AgentCalls ==
    ASSUME AgentInv, run.at = "tools", run' \in AgentRun, run'.at \in {"model", "tools"},
           run'.at = "tools" <=> run'.batch # <<>>,
           UNCHANGED <<message, late, told>>,
           reads' \in AgentReads, act' \in AgentActs, backend' \in AgentBackend,
           todo' \in [Todo -> TodoStatus],
           ~Agent!Acted' => backend'.effects = 0,
           backend'.search <= reads'.searches, backend'.expand <= reads'.expansions
    PROVE  AgentInv'
<1>1. /\ told' = Agent!NoAnswer /\ message'.text # "url" /\ late' = Agent!None
  BY DEF AgentInv, AgentPhases
<1>2. AgentTypes'
  BY DEF AgentInv, AgentTypes
<1>3. AgentPhases'
  BY <1>1 DEF AgentPhases
<1>4. AgentEffects'
  BY DEF AgentEffects
<1>5. AgentBudgets'
  BY DEF AgentBudgets
<1>6. AgentTold'
  BY <1>1 DEF AgentTold, Agent!OutcomeIsTold, Agent!FailedReadIsAdmitted,
     Agent!CitesThisTurn, Agent!TodoIsFinal, Agent!Ended, Agent!NoAnswer, Agent!None
<1> QED
  BY <1>2, <1>3, <1>4, <1>5, <1>6 DEF AgentInv

\* The special case of the next call in turn.
LEMMA AgentReadsOn ==
    ASSUME AgentInv, run.at = "tools", run' = Agent!NextCall,
           UNCHANGED <<message, act, todo, late, told>>,
           reads' \in AgentReads, backend' \in AgentBackend,
           backend'.effects = backend.effects,
           backend'.search <= reads'.searches, backend'.expand <= reads'.expansions
    PROVE  AgentInv'
<1>1. run \in AgentRun /\ run.batch # <<>>
  BY DEF AgentInv, AgentTypes, AgentPhases
<1>2. act' \in AgentActs /\ todo' \in [Todo -> TodoStatus]
  BY DEF AgentInv, AgentTypes
<1>3. ~Agent!Acted' => backend'.effects = 0
  BY DEF AgentInv, AgentEffects, Agent!Acted
<1> QED
  BY <1>1, <1>2, <1>3, RunAfterCall, AgentCalls

\* A search that is not reserved is refused: it never asks the backend.
LEMMA AgentSearches ==
    ASSUME AgentInv, run.at = "tools", NEW q \in Query, Agent!Search(q)
    PROVE  AgentInv'
<1> DEFINE d == IF Agent!Reformulates(q) THEN [reads EXCEPT !.recoveries = @ + 1] ELSE reads
           bound == reads.failed \intersect Query # {}
           unreserved == bound /\ (q \in reads.failed => q \in reads.retried)
           e == IF unreserved THEN d ELSE Agent!Reserve(d, "search")
<1>1. /\ run' = Agent!NextCall /\ UNCHANGED <<message, act, todo, late, told>>
      /\ \/ /\ reads' = [reads EXCEPT !.exhausted = @ \/ reads.lastEmpty # q]
            /\ UNCHANGED backend
         \/ /\ Agent!Reformulates(q) => Agent!MayReformulate
            /\ \/ reads' = d /\ UNCHANGED backend
               \/ /\ unreserved \/ Agent!MayReserve(d, "search")
                  /\ IF Agent!Refused(e, q) THEN reads' = Agent!Refuse(e, q) /\ UNCHANGED backend
                     ELSE /\ backend' = [backend EXCEPT !.search = @ + 1]
                          /\ \/ reads' = Agent!Fail(e, q)
                             \/ \E found \in SUBSET Segment :
                                    reads' = Agent!Searched(e, q, found)
  BY DEF Agent!Search
<1>2. /\ run \in AgentRun /\ reads \in AgentReads /\ backend \in AgentBackend
      /\ backend.search <= reads.searches /\ backend.expand <= reads.expansions
      /\ q \in Agent!Read
  BY DEF AgentInv, AgentTypes, AgentBudgets, Agent!Read
<1>3. CASE /\ reads' = [reads EXCEPT !.exhausted = @ \/ reads.lastEmpty # q]
           /\ UNCHANGED backend
  <2>1. /\ reads' \in AgentReads /\ reads'.searches = reads.searches
        /\ reads'.expansions = reads.expansions
    BY <1>2, <1>3 DEF AgentReads
  <2> QED
    BY <1>1, <1>2, <1>3, <2>1, AgentReadsOn
<1>4. CASE Agent!Reformulates(q) => Agent!MayReformulate
  <2>1. /\ d \in AgentReads /\ d.searches = reads.searches
        /\ d.expansions = reads.expansions
        /\ d.failed = reads.failed /\ d.retried = reads.retried
    BY <1>2, <1>4 DEF AgentReads, Agent!MayReformulate, Agent!RecoveryLimit
  <2> HIDE DEF d
  <2>2. CASE reads' = d /\ UNCHANGED backend
    BY <1>1, <1>2, <2>1, <2>2, AgentReadsOn
  <2>3. CASE unreserved /\ reads' = Agent!Refuse(d, q) /\ UNCHANGED backend
    BY <1>1, <1>2, <2>1, <2>3, RefuseKeeps, AgentReadsOn
  <2>4. ASSUME unreserved PROVE e = d /\ Agent!Refused(e, q)
    BY <2>1, <2>4 DEF Agent!Refused, Agent!MayRetry, Agent!SameTool
  <2>5. CASE ~unreserved /\ Agent!MayReserve(d, "search")
             /\ reads' = Agent!Refuse(Agent!Reserve(d, "search"), q) /\ UNCHANGED backend
    <3> DEFINE f == Agent!Reserve(d, "search")
    <3>1. /\ f \in AgentReads /\ f.searches = reads.searches + 1
          /\ f.expansions = reads.expansions
      BY <1>2, <2>1, <2>5, ReserveKeeps
    <3> HIDE DEF f
    <3>2. /\ reads' \in AgentReads /\ reads'.searches = reads.searches + 1
          /\ reads'.expansions = reads.expansions
      BY <2>5, <3>1, RefuseKeeps DEF f
    <3>3. backend'.search <= reads'.searches /\ backend'.expand <= reads'.expansions
      BY <1>2, <2>5, <3>2 DEF AgentReads, AgentBackend
    <3> QED
      BY <1>1, <1>2, <2>5, <3>2, <3>3, AgentReadsOn
  <2>6. CASE /\ ~unreserved /\ Agent!MayReserve(d, "search")
             /\ ~Agent!Refused(Agent!Reserve(d, "search"), q)
             /\ backend' = [backend EXCEPT !.search = @ + 1]
             /\ \/ reads' = Agent!Fail(Agent!Reserve(d, "search"), q)
                \/ \E found \in SUBSET Segment :
                       reads' = Agent!Searched(Agent!Reserve(d, "search"), q, found)
    <3> DEFINE f == Agent!Reserve(d, "search")
    <3>1. /\ f \in AgentReads /\ f.searches = reads.searches + 1
          /\ f.expansions = reads.expansions
      BY <1>2, <2>1, <2>6, ReserveKeeps
    <3>2. ~Agent!Refused(f, q)
      BY <2>6
    <3>3. reads' = Agent!Fail(f, q)
          \/ \E found \in SUBSET Segment : reads' = Agent!Searched(f, q, found)
      BY <2>6
    <3> HIDE DEF f
    <3>4. /\ reads' \in AgentReads /\ reads'.searches = reads.searches + 1
          /\ reads'.expansions = reads.expansions
      BY <1>2, <3>1, <3>2, <3>3, FailKeeps, SearchedKeeps
    <3>5. /\ backend' \in AgentBackend /\ backend'.effects = backend.effects
          /\ backend'.search = backend.search + 1 /\ backend'.expand = backend.expand
      BY <1>2, <2>6 DEF AgentBackend
    <3>6. backend'.search <= reads'.searches /\ backend'.expand <= reads'.expansions
      BY <1>2, <3>4, <3>5 DEF AgentReads, AgentBackend
    <3> QED
      BY <1>1, <3>4, <3>5, <3>6, AgentReadsOn
  <2> HIDE DEF unreserved
  <2> QED
    BY <1>1, <1>3, <2>2, <2>3, <2>4, <2>5, <2>6
<1> QED
  BY <1>1, <1>3, <1>4

LEMMA AgentExpands ==
    ASSUME AgentInv, run.at = "tools", NEW s \in Segment, Agent!Expand(s)
    PROVE  AgentInv'
<1>1. /\ run \in AgentRun /\ reads \in AgentReads /\ backend \in AgentBackend
      /\ backend.search <= reads.searches /\ backend.expand <= reads.expansions
      /\ s \in Agent!Read
  BY DEF AgentInv, AgentTypes, AgentBudgets, Agent!Read
<1>2. run' = Agent!NextCall /\ UNCHANGED <<message, act, todo, late, told>>
  BY DEF Agent!Expand
<1>3. CASE ~Agent!MayReserve(reads, "expand")
  <2>1. UNCHANGED <<reads, backend>>
    BY <1>3 DEF Agent!Expand
  <2> QED
    BY <1>1, <1>2, <2>1, AgentReadsOn
<1>4. CASE Agent!MayReserve(reads, "expand")
  <2> DEFINE e == Agent!Reserve(reads, "expand")
  <2>1. /\ e \in AgentReads /\ e.expansions = reads.expansions + 1
        /\ e.searches = reads.searches
    BY <1>1, <1>4, ReserveKeeps
  <2>2. IF Agent!Refused(e, s) THEN reads' = Agent!Refuse(e, s) /\ UNCHANGED backend
        ELSE /\ backend' = [backend EXCEPT !.expand = @ + 1]
             /\ \/ reads' = Agent!Fail(e, s)
                \/ \E near \in SUBSET Segment : reads' = Agent!Succeed(e, s, near)
    BY <1>4 DEF Agent!Expand
  <2> HIDE DEF e
  <2>3. /\ reads' \in AgentReads /\ reads'.expansions = reads.expansions + 1
        /\ reads'.searches = reads.searches
    BY <1>1, <2>1, <2>2, RefuseKeeps, FailKeeps, SucceedKeeps
  <2>4. /\ backend' \in AgentBackend /\ backend'.effects = backend.effects
        /\ backend'.search = backend.search
        /\ backend'.expand \in {backend.expand, backend.expand + 1}
    BY <1>1, <2>2 DEF AgentBackend
  <2>5. backend'.search <= reads'.searches /\ backend'.expand <= reads'.expansions
    BY <1>1, <2>3, <2>4 DEF AgentReads, AgentBackend
  <2> QED
    BY <1>2, <2>3, <2>4, <2>5, AgentReadsOn
<1> QED
  BY <1>3, <1>4

LEMMA AgentLists ==
    ASSUME AgentInv, run.at = "tools", Agent!List
    PROVE  AgentInv'
<1>1. /\ run \in AgentRun /\ run.batch # <<>> /\ reads \in AgentReads /\ act \in AgentActs
      /\ backend \in AgentBackend /\ todo \in [Todo -> TodoStatus]
      /\ backend.search <= reads.searches /\ backend.expand <= reads.expansions
      /\ "list" \in Agent!Read
  BY DEF AgentInv, AgentTypes, AgentPhases, AgentBudgets, Agent!Read
<1>2. run' = Agent!NextCall /\ UNCHANGED <<message, todo, late, backend, told>>
  BY DEF Agent!List
<1> DEFINE o == [tool |-> "list", ok |-> FALSE]
           seen == Agent!Succeed(reads, "list", {})
<1>3. IF Agent!Refused(reads, "list") THEN reads' = Agent!Refuse(reads, "list") /\ UNCHANGED act
      ELSE /\ \/ reads' = Agent!Fail(reads, "list")
              \/ reads' = seen
              \/ reads' = [seen EXCEPT !.listed = TRUE]
           /\ UNCHANGED act \/ act' = [act EXCEPT !.outcome = o]
  BY DEF Agent!List
<1>4. ~Agent!Refused(reads, "list") =>
         /\ seen \in AgentReads /\ seen.searches = reads.searches
         /\ seen.expansions = reads.expansions
  <2>1. {} \in SUBSET Segment
    OBVIOUS
  <2> QED
    BY <1>1, <2>1, SucceedKeeps
<1> HIDE DEF seen
<1> DEFINE l == [seen EXCEPT !.listed = TRUE]
<1>5. seen \in AgentReads =>
         /\ l \in AgentReads /\ l.searches = seen.searches /\ l.expansions = seen.expansions
  BY DEF AgentReads
<1> HIDE DEF l
<1>6. /\ reads' \in AgentReads /\ reads'.searches = reads.searches
      /\ reads'.expansions = reads.expansions
  <2>1. CASE Agent!Refused(reads, "list")
    BY <1>1, <1>3, <2>1, RefuseKeeps
  <2>2. CASE ~Agent!Refused(reads, "list") /\ reads' = Agent!Fail(reads, "list")
    BY <1>1, <2>2, FailKeeps
  <2>3. CASE ~Agent!Refused(reads, "list") /\ reads' \in {seen, l}
    BY <1>4, <1>5, <2>3
  <2> QED
    BY <1>3, <2>1, <2>2, <2>3 DEF l
<1>7. o \in AgentOutcome /\ o # Agent!NoOutcome
  BY DEF AgentOutcome, Agent!NoOutcome, Agent!None
<1> HIDE DEF o
<1>8. act' \in AgentActs /\ (act' = act \/ act'.outcome = o)
  BY <1>1, <1>3, <1>7 DEF AgentActs
<1>9. ~Agent!Acted' => backend'.effects = 0
  BY <1>2, <1>7, <1>8 DEF Agent!Acted, AgentInv, AgentEffects
<1>10. backend'.search <= reads'.searches /\ backend'.expand <= reads'.expansions
  BY <1>1, <1>2, <1>6
<1> QED
  BY <1>1, <1>2, <1>6, <1>8, <1>9, <1>10, RunAfterCall, AgentCalls

\* An action asks the services once, and leaves its outcome.
LEMMA PerformKeeps ==
    ASSUME AgentInv, ~Agent!Acted, NEW t, Agent!Perform(t)
    PROVE  /\ act' \in AgentActs /\ Agent!Acted' /\ backend' \in AgentBackend
           /\ backend'.search = backend.search /\ backend'.expand = backend.expand
<1>1. /\ act \in AgentActs /\ backend \in AgentBackend /\ backend.effects = 0
  BY DEF AgentInv, AgentTypes, AgentEffects
<1>2. /\ t \in Agent!AllActionTools
      /\ \E asked \in 0..1 : Agent!Finish(t, asked)
  BY DEF Agent!Perform, Agent!ManageItem, Agent!DecideDelete, Agent!DecideSave,
         Agent!SubmitVideos, Agent!AllActionTools, Agent!ManagementTool,
         Agent!PendingDeleteTool, Agent!PendingSaveTool
<1>3. PICK asked \in 0..1, ok \in BOOLEAN :
         /\ backend' = [backend EXCEPT !.effects = @ + asked]
         /\ act' = [act EXCEPT !.outcome = [tool |-> t, ok |-> ok]]
  BY <1>2 DEF Agent!Finish
<1> DEFINE o == [tool |-> t, ok |-> ok]
<1>4. o \in AgentOutcome
  BY <1>2 DEF AgentOutcome
<1>5. o # Agent!NoOutcome
  BY <1>2 DEF Agent!NoOutcome, Agent!None, Agent!AllActionTools, Agent!ManagementTool,
     Agent!PendingDeleteTool, Agent!PendingSaveTool
<1> HIDE DEF o
<1>6. act' \in AgentActs /\ act'.outcome = o
  BY <1>1, <1>3, <1>4 DEF AgentActs, o
<1>7. Agent!Acted'
  BY <1>5, <1>6 DEF Agent!Acted
<1>8. /\ backend' \in AgentBackend
      /\ backend'.search = backend.search /\ backend'.expand = backend.expand
  BY <1>1, <1>3 DEF AgentBackend
<1> QED
  BY <1>6, <1>7, <1>8

LEMMA AgentAsksAgain ==
    ASSUME AgentInv, run.at = "tools", NEW t \in AgentCall, Agent!AskAgain(t),
           UNCHANGED late, act' \in AgentActs, act'.outcome = act.outcome
    PROVE  AgentInv'
<1>1. /\ run \in AgentRun /\ run.batch # <<>> /\ reads \in AgentReads
      /\ backend \in AgentBackend /\ todo \in [Todo -> TodoStatus]
      /\ backend.search <= reads.searches /\ backend.expand <= reads.expansions
  BY DEF AgentInv, AgentTypes, AgentPhases, AgentBudgets
<1> DEFINE n == Agent!NextCall
<1>2. /\ run' = [n EXCEPT !.asked = @ \union {t}]
      /\ UNCHANGED <<message, reads, todo, backend, told>>
  BY DEF Agent!AskAgain
<1>3. n \in AgentRun /\ n.at \in {"model", "tools"} /\ (n.at = "tools" <=> n.batch # <<>>)
  BY <1>1, RunAfterCall
<1> HIDE DEF n
<1>4. /\ run' \in AgentRun /\ run'.at \in {"model", "tools"}
      /\ run'.at = "tools" <=> run'.batch # <<>>
  <2> DEFINE a == n.asked \union {t}
  <2>1. a \in SUBSET AgentCall /\ run' = [n EXCEPT !.asked = a]
    BY <1>2, <1>3 DEF AgentRun
  <2> HIDE DEF a
  <2> QED
    BY <1>3, <2>1 DEF AgentRun
<1>5. ~Agent!Acted' => backend'.effects = 0
  BY <1>2 DEF Agent!Acted, AgentInv, AgentEffects
<1> QED
  BY <1>1, <1>2, <1>4, <1>5, AgentCalls

LEMMA AgentPerforms ==
    ASSUME AgentInv, run.at = "tools", NEW t \in ActionTool, Agent!Act(t)
    PROVE  AgentInv'
<1>1. /\ run \in AgentRun /\ run.batch # <<>> /\ reads \in AgentReads /\ act \in AgentActs
      /\ backend \in AgentBackend /\ todo \in [Todo -> TodoStatus]
      /\ backend.search <= reads.searches /\ backend.expand <= reads.expansions
  BY DEF AgentInv, AgentTypes, AgentPhases, AgentBudgets
<1>2. CASE /\ run' = Agent!NextCall
           /\ UNCHANGED <<message, reads, act, todo, late, backend, told>>
  BY <1>1, <1>2, AgentReadsOn
<1>3. CASE /\ ~Agent!Acted /\ Agent!Perform(t) /\ run' = Agent!NextCall
           /\ UNCHANGED <<message, reads, todo, late, told>>
  <2>1. /\ act' \in AgentActs /\ Agent!Acted' /\ backend' \in AgentBackend
        /\ backend'.search = backend.search /\ backend'.expand = backend.expand
    BY <1>3, PerformKeeps
  <2> QED
    BY <1>1, <1>3, <2>1, RunAfterCall, AgentCalls
<1>4. CASE Agent!AskAgain(t) /\ act' = [act EXCEPT !.mismatch = TRUE] /\ UNCHANGED late
  <2>1. act' \in AgentActs /\ act'.outcome = act.outcome /\ t \in AgentCall
    BY <1>1, <1>4 DEF AgentActs, AgentCall
  <2> QED
    BY <1>4, <2>1, AgentAsksAgain
<1>5. CASE Agent!GiveUp(t) /\ UNCHANGED late
  BY <1>5, AgentUnexpected DEF Agent!GiveUp
<1> QED
  BY <1>2, <1>3, <1>4, <1>5 DEF Agent!Act

LEMMA AgentWrites ==
    ASSUME AgentInv, run.at = "tools", Agent!WriteTodo
    PROVE  AgentInv'
<1>1. /\ run \in AgentRun /\ run.batch # <<>> /\ reads \in AgentReads /\ act \in AgentActs
      /\ backend \in AgentBackend
      /\ backend.search <= reads.searches /\ backend.expand <= reads.expansions
  BY DEF AgentInv, AgentTypes, AgentPhases, AgentBudgets
<1>2. CASE /\ todo' \in [Todo -> TodoStatus] /\ run' = Agent!NextCall
           /\ UNCHANGED <<message, reads, act, late, backend, told>>
  <2>1. ~Agent!Acted' => backend'.effects = 0
    BY <1>2 DEF Agent!Acted, AgentInv, AgentEffects
  <2> QED
    BY <1>1, <1>2, <2>1, RunAfterCall, AgentCalls
<1>3. CASE Agent!AskAgain("todo") /\ UNCHANGED <<act, late>>
  BY <1>1, <1>3, AgentAsksAgain DEF AgentCall
<1>4. CASE Agent!GiveUp("todo") /\ UNCHANGED late
  BY <1>4, AgentUnexpected DEF Agent!GiveUp
<1> QED
  BY <1>2, <1>3, <1>4 DEF Agent!WriteTodo, TodoStatus

LEMMA AgentCallsTool ==
    ASSUME AgentInv, Agent!CallTool
    PROVE  AgentInv'
<1> DEFINE c == Head(run.batch)
<1>1. /\ run.at = "tools"
      /\ \/ c \in Query /\ Agent!Search(c)
         \/ c \in Segment /\ Agent!Expand(c)
         \/ Agent!List
         \/ Agent!WriteTodo
         \/ c \in ActionTool /\ Agent!Act(c)
  BY DEF Agent!CallTool
<1> HIDE DEF c
<1> QED
  BY <1>1, AgentSearches, AgentExpands, AgentLists, AgentWrites, AgentPerforms

--------------------------------------------------------------------------------
(* The steps of the model, and the end of the run *)

\* A run that goes on elsewhere, with the rest as it was.
LEMMA AgentTurns ==
    ASSUME AgentInv, run.at \in {"model", "compose"}, run' \in AgentRun,
           run'.at \in {"tools", "compose", "plan"},
           run'.at = "compose" => run.at = "compose",
           run'.at = "tools" <=> run'.batch # <<>>,
           late' # Agent!None => run'.at = "compose",
           UNCHANGED <<message, reads, act, todo, late, backend, told>>
    PROVE  AgentInv'
<1>1. told' = Agent!NoAnswer /\ message'.text # "url"
  BY DEF AgentInv, AgentPhases
<1>2. AgentTypes'
  BY DEF AgentInv, AgentTypes
<1>3. AgentPhases'
  BY <1>1 DEF AgentInv, AgentPhases
<1>4. AgentEffects'
  BY DEF AgentInv, AgentEffects, Agent!Acted
<1>5. AgentBudgets'
  BY DEF AgentInv, AgentBudgets
<1>6. AgentTold'
  BY <1>1 DEF AgentTold, Agent!OutcomeIsTold, Agent!FailedReadIsAdmitted,
     Agent!CitesThisTurn, Agent!TodoIsFinal, Agent!Ended, Agent!NoAnswer, Agent!None
<1> QED
  BY <1>2, <1>3, <1>4, <1>5, <1>6 DEF AgentInv

LEMMA AgentAsks ==
    ASSUME Agent!LimitsAssumption, AgentInv, Agent!CallTools
    PROVE  AgentInv'
<1>1. PICK n \in 1..MaxBatch : \E b \in [1..n -> Agent!Visible] :
         IF run.calls + n > ToolLimit THEN Agent!Resolve("limit")
         ELSE /\ run' = [run EXCEPT !.at = "tools", !.step = @ + 1, !.calls = @ + n,
                                    !.batch = b, !.retrying = run.asked, !.asked = {}]
              /\ UNCHANGED <<message, reads, act, todo, backend, told>>
  BY DEF Agent!CallTools
<1>2. PICK b \in [1..n -> Agent!Visible] :
         IF run.calls + n > ToolLimit THEN Agent!Resolve("limit")
         ELSE /\ run' = [run EXCEPT !.at = "tools", !.step = @ + 1, !.calls = @ + n,
                                    !.batch = b, !.retrying = run.asked, !.asked = {}]
              /\ UNCHANGED <<message, reads, act, todo, backend, told>>
  BY <1>1
<1>3. run.at = "model" /\ run.step < RequestLimit /\ UNCHANGED late
  BY DEF Agent!CallTools
<1>4. CASE Agent!Resolve("limit")
  BY <1>3, <1>4, AgentResolves
<1>5. CASE /\ run' = [run EXCEPT !.at = "tools", !.step = @ + 1, !.calls = @ + n,
                                 !.batch = b, !.retrying = run.asked, !.asked = {}]
           /\ UNCHANGED <<message, reads, act, todo, backend, told>>
  <2>1. run \in AgentRun /\ late = Agent!None
    BY <1>3 DEF AgentInv, AgentTypes, AgentPhases
  <2>2. n \in Nat /\ n >= 1 /\ RequestLimit \in Nat
    BY DEF Agent!LimitsAssumption
  <2>3. Agent!Visible \subseteq AgentCall
    BY DEF Agent!Visible, Agent!VisibleAction, AgentCall
  <2>4. b \in Seq(AgentCall) /\ b # <<>>
    <3>1. b \in [1..n -> AgentCall]
      BY <2>3
    <3>2. b \in Seq(AgentCall) /\ Len(b) = n
      BY <2>2, <3>1
    <3>3. Len(<<>>) = 0
      BY EmptySeq
    <3> QED
      BY <2>2, <3>2, <3>3
  <2> DEFINE st == run.step + 1
             ca == run.calls + n
             re == run.asked
  <2>5. st \in 0..RequestLimit /\ ca \in Nat /\ re \in SUBSET AgentCall
    BY <1>3, <2>1, <2>2 DEF AgentRun
  <2>6. run' = [run EXCEPT !.at = "tools", !.step = st, !.calls = ca, !.batch = b,
                           !.retrying = re, !.asked = {}]
    BY <1>5
  <2> HIDE DEF st, ca, re
  <2>7. run' \in AgentRun /\ run'.at = "tools" /\ run'.batch # <<>>
    BY <2>1, <2>4, <2>5, <2>6 DEF AgentRun
  <2> QED
    BY <1>3, <1>5, <2>1, <2>7, AgentTurns
<1> QED
  BY <1>2, <1>4, <1>5

\* A grounded answer cites evidence of this turn.
LEMMA AgentGrounds ==
    ASSUME AgentInv, NEW d \in Agent!Draft, d.cites # {}, d.cites \subseteq reads.cited,
           NEW planned \in BOOLEAN, Agent!Grounded(d, planned),
           planned \/ (Agent!Acted => late # Agent!None),
           UNCHANGED <<message, reads, act, todo, late, backend>>
    PROVE  AgentInv'
<1> DEFINE a == [Agent!NoAnswer EXCEPT !.code = "grounded", !.sources = d.cites,
                                       !.planned = planned]
           cites == d.cites
<1>1. /\ act \in AgentActs /\ backend \in AgentBackend /\ todo \in [Todo -> TodoStatus]
      /\ cites \in SUBSET Segment
  BY DEF AgentInv, AgentTypes, AgentReads
<1>2. Agent!NoOutcome \in AgentOutcome /\ "grounded" \in Agent!Code
  BY DEF Agent!NoOutcome, AgentOutcome, Agent!Code, Agent!None
<1>3. a = [Agent!NoAnswer EXCEPT !.code = "grounded", !.sources = cites, !.planned = planned]
  OBVIOUS
<1>4. told' = a /\ Agent!Done
  BY DEF Agent!Grounded
<1> HIDE DEF a, cites
<1>5. /\ a \in AgentAnswer /\ a.code = "grounded" /\ a.sources = cites
      /\ a.planned = planned
  BY <1>1, <1>2, <1>3 DEF AgentAnswer, Agent!NoAnswer
<1>6. told' \in AgentAnswer /\ told'.code = "grounded" /\ told'.sources = d.cites
      /\ told'.planned = planned
  BY <1>4, <1>5 DEF cites
<1>7. ~Agent!Acted' => backend'.effects = 0
  BY DEF AgentInv, AgentEffects, Agent!Acted
<1>8. Agent!Acted' /\ ~told'.planned /\ late' = Agent!None => told'.outcome = act'.outcome
  BY <1>6 DEF Agent!Acted
<1>9. Agent!TodoIsFinal'
  BY <1>6 DEF Agent!TodoIsFinal
<1>10. told'.code # Agent!None /\ told'.code \notin {"no_evidence", "natural", "management_read"}
  BY <1>6 DEF Agent!None
<1> QED
  BY <1>1, <1>4, <1>6, <1>7, <1>8, <1>9, <1>10, AgentRunEnds

LEMMA AgentDraws ==
    ASSUME AgentInv, Agent!Draw
    PROVE  AgentInv'
<1>1. run.at = "compose" /\ UNCHANGED <<message, reads, act, todo, late, backend>>
  BY DEF Agent!Draw
<1>2. Agent!Acted => late # Agent!None
  BY <1>1 DEF AgentInv, AgentEffects
<1>3. CASE \E d \in Agent!Draft : Agent!Valid(d) /\ Agent!Grounded(d, FALSE)
  BY <1>1, <1>2, <1>3, AgentGrounds DEF Agent!Valid
<1>4. CASE /\ ~Agent!LastDraft(run.drafts)
           /\ run' = [run EXCEPT !.drafts = Agent!NextDraft(@)] /\ UNCHANGED told
  <2>1. run \in AgentRun /\ run.batch = <<>>
    BY <1>1 DEF AgentInv, AgentTypes, AgentPhases
  <2>2. run.drafts + 1 \in 0..(Agent!DraftLimit - 1)
    BY <1>4, <2>1 DEF AgentRun, Agent!LastDraft, Agent!DraftLimit
  <2>3. run' \in AgentRun /\ run'.at = "compose" /\ run'.batch = <<>>
    BY <1>1, <1>4, <2>1, <2>2 DEF AgentRun, Agent!NextDraft
  <2> QED
    BY <1>1, <1>4, <2>3, AgentTurns
<1>5. CASE Agent!Tell("answer_unavailable")
  <2>1. "answer_unavailable" \in Agent!Code \ {Agent!None, "grounded"}
    BY DEF Agent!Code, Agent!None
  <2>2. todo' \in [Todo -> TodoStatus]
    BY <1>1 DEF AgentInv, AgentTypes
  <2> QED
    BY <1>1, <1>2, <1>5, <2>1, <2>2, AgentTells
<1> QED
  BY <1>3, <1>4, <1>5 DEF Agent!Draw

LEMMA AgentStreams ==
    ASSUME AgentInv, Agent!StreamAnswer
    PROVE  AgentInv'
<1>1. run.at = "plan"
  BY DEF Agent!StreamAnswer
<1>2. CASE /\ \E d \in Agent!Draft : Agent!ValidPlan(d) /\ Agent!Grounded(d, TRUE)
           /\ UNCHANGED <<message, reads, act, todo, late, backend>>
  BY <1>2, AgentGrounds DEF Agent!ValidPlan
<1>3. CASE /\ told' = [Agent!NoAnswer EXCEPT !.code = "answer_unavailable", !.planned = TRUE]
           /\ Agent!Done /\ UNCHANGED <<message, reads, act, todo, late, backend>>
  <2>1. Agent!NoOutcome \in AgentOutcome /\ "answer_unavailable" \in Agent!Code
    BY DEF Agent!NoOutcome, AgentOutcome, Agent!Code, Agent!None
  <2>2. /\ told' \in AgentAnswer /\ told'.code = "answer_unavailable"
        /\ told'.sources = {} /\ told'.planned
    BY <1>3, <2>1 DEF AgentAnswer, Agent!NoAnswer
  <2>3. act' \in AgentActs /\ backend' \in AgentBackend /\ todo' \in [Todo -> TodoStatus]
    BY <1>3 DEF AgentInv, AgentTypes
  <2>4. ~Agent!Acted' => backend'.effects = 0
    BY <1>3 DEF AgentInv, AgentEffects, Agent!Acted
  <2>5. Agent!TodoIsFinal'
    BY <2>2 DEF Agent!TodoIsFinal
  <2>6. told'.code # Agent!None /\ told'.code \notin {"no_evidence", "natural", "management_read"}
    BY <2>2 DEF Agent!None
  <2>7. told'.sources \subseteq reads.cited /\ (told'.code = "grounded" <=> told'.sources # {})
    BY <2>2
  <2> QED
    BY <1>3, <2>2, <2>3, <2>4, <2>5, <2>6, <2>7, AgentRunEnds
<1>4. CASE \E clarifies, safe \in BOOLEAN : Agent!Finalize(clarifies, safe)
  BY <1>1, <1>4, AgentFinalizes
<1> QED
  BY <1>2, <1>3, <1>4 DEF Agent!StreamAnswer

LEMMA AgentAnswers ==
    ASSUME AgentInv, Agent!ModelAnswers
    PROVE  AgentInv'
<1>1. run.at = "model"
  BY DEF Agent!ModelAnswers
<1>2. CASE \E clarifies, safe \in BOOLEAN : Agent!Finalize(clarifies, safe)
  BY <1>1, <1>2, AgentFinalizes
<1>3. CASE /\ run' = [run EXCEPT !.at = "plan"]
           /\ UNCHANGED <<message, reads, act, todo, late, backend, told>>
  <2>1. run \in AgentRun /\ run.batch = <<>> /\ late = Agent!None
    BY <1>1 DEF AgentInv, AgentTypes, AgentPhases
  <2>2. run' \in AgentRun /\ run'.at = "plan" /\ run'.batch = <<>>
    BY <1>3, <2>1 DEF AgentRun
  <2> QED
    BY <1>1, <1>3, <2>1, <2>2, AgentTurns
<1> QED
  BY <1>2, <1>3 DEF Agent!ModelAnswers

LEMMA AgentAsksForLinks ==
    ASSUME AgentInv, Agent!BareUrl
    PROVE  AgentInv'
<1>1. run.at = "bare" /\ UNCHANGED <<message, reads, todo, late>>
  BY DEF Agent!BareUrl
<1>2. PICK ok \in BOOLEAN :
         LET o == [tool |-> "request_save_confirmation", ok |-> ok]
         IN  Agent!RequestConfirmation(o) /\ Agent!TellOutcome(o)
  BY DEF Agent!BareUrl
<1> DEFINE o == [tool |-> "request_save_confirmation", ok |-> ok]
<1>3. o \in AgentOutcome /\ o # Agent!NoOutcome
  BY DEF AgentOutcome, Agent!NoOutcome, Agent!None
<1>4. /\ act' = [act EXCEPT !.outcome = o] /\ backend' = [backend EXCEPT !.effects = @ + 1]
      /\ Agent!TellOutcome(o)
  BY <1>2 DEF Agent!RequestConfirmation
<1> HIDE DEF o
<1>5. act \in AgentActs /\ backend \in AgentBackend /\ backend.effects = 0
  BY <1>1 DEF AgentInv, AgentTypes, AgentEffects
<1>6. act' \in AgentActs /\ act'.outcome = o /\ Agent!Acted'
  BY <1>3, <1>4, <1>5 DEF AgentActs, Agent!Acted
<1>7. /\ backend' \in AgentBackend
      /\ backend'.search = backend.search /\ backend'.expand = backend.expand
  BY <1>4, <1>5 DEF AgentBackend
<1> QED
  BY <1>1, <1>4, <1>6, <1>7, AgentTellsOutcome

\* The effect of a thread that outlived its run is one, and changes no answer.
LEMMA AgentActsLate ==
    ASSUME AgentInv, Agent!LateEffect
    PROVE  AgentInv'
<1>1. /\ late # Agent!None /\ late' # Agent!None
      /\ UNCHANGED <<message, run, reads, todo, told>>
  BY DEF Agent!LateEffect, Agent!None
<1>2. /\ act' \in AgentActs /\ backend' \in AgentBackend
      /\ backend'.search = backend.search /\ backend'.expand = backend.expand
      /\ ~Agent!Acted' => backend'.effects = 0
  <2>1. CASE Agent!Acted
    <3>1. UNCHANGED <<act, backend>>
      BY <2>1 DEF Agent!LateEffect
    <3> QED
      BY <3>1 DEF AgentInv, AgentTypes, AgentEffects, Agent!Acted
  <2>2. CASE ~Agent!Acted
    <3>1. Agent!Perform(late)
      BY <2>2 DEF Agent!LateEffect
    <3> QED
      BY <2>2, <3>1, PerformKeeps
  <2> QED
    BY <2>1, <2>2
<1>3. AgentTypes'
  BY <1>1, <1>2 DEF AgentInv, AgentTypes
<1>4. AgentPhases'
  BY <1>1 DEF AgentInv, AgentPhases
<1>5. AgentEffects'
  BY <1>1, <1>2 DEF AgentInv, AgentPhases, AgentEffects
<1>6. AgentBudgets'
  BY <1>1, <1>2 DEF AgentInv, AgentBudgets
<1>7. Agent!OutcomeIsTold'
  BY <1>1 DEF Agent!OutcomeIsTold
<1>8. Agent!FailedReadIsAdmitted' /\ Agent!CitesThisTurn' /\ Agent!TodoIsFinal'
  BY <1>1 DEF AgentInv, AgentTold, Agent!FailedReadIsAdmitted, Agent!CitesThisTurn,
     Agent!TodoIsFinal, Agent!Unread, Agent!Ended
<1> QED
  BY <1>3, <1>4, <1>5, <1>6, <1>7, <1>8 DEF AgentInv, AgentTold

LEMMA AgentStutters == AgentInv /\ UNCHANGED Agent!vars => AgentInv'
<1> SUFFICES ASSUME AgentInv, UNCHANGED Agent!vars PROVE AgentInv'
  OBVIOUS
<1>1. UNCHANGED <<message, run, reads, act, todo, late, backend, told>>
  BY DEF Agent!vars
<1> QED
  BY <1>1 DEF AgentInv, AgentTypes, AgentPhases, AgentEffects, AgentBudgets, AgentTold,
     Agent!OutcomeIsTold, Agent!FailedReadIsAdmitted, Agent!CitesThisTurn,
     Agent!TodoIsFinal, Agent!Unread, Agent!Ended, Agent!Acted

\* What holds of a run holds after every step of it.
LEMMA AgentInvStep ==
    ASSUME Agent!LimitsAssumption, AgentInv, [Agent!Next]_Agent!vars
    PROVE  AgentInv'
<1>1. CASE Agent!CallTools
  BY <1>1, AgentAsks
<1>2. CASE Agent!OutOfRequests
  BY <1>2, AgentResolves DEF Agent!OutOfRequests
<1>3. CASE Agent!ModelFails
  BY <1>3, AgentResolves DEF Agent!ModelFails
<1>4. CASE Agent!ModelMisbehaves
  BY <1>4, AgentUnexpected DEF Agent!ModelMisbehaves
<1>5. CASE Agent!Timeout
  BY <1>5, AgentResolves DEF Agent!Timeout
<1>6. CASE Agent!CallTool
  BY <1>6, AgentCallsTool
<1>7. CASE Agent!ModelAnswers
  BY <1>7, AgentAnswers
<1>8. CASE Agent!Draw
  BY <1>8, AgentDraws
<1>9. CASE Agent!StreamAnswer
  BY <1>9, AgentStreams
<1>10. CASE Agent!BareUrl
  BY <1>10, AgentAsksForLinks
<1>11. CASE Agent!LateEffect
  BY <1>11, AgentActsLate
<1>12. CASE UNCHANGED Agent!vars
  BY <1>12, AgentStutters
<1> QED
  BY <1>1, <1>2, <1>3, <1>4, <1>5, <1>6, <1>7, <1>8, <1>9, <1>10, <1>11, <1>12
     DEF Agent!Next

LEMMA AgentInvMeans == AgentInv => Agent!TypeOK /\ AgentKeepsItsWord
<1> SUFFICES ASSUME AgentInv PROVE Agent!TypeOK /\ AgentKeepsItsWord
  OBVIOUS
<1>1. Agent!TypeOK
  BY DEF AgentInv, AgentTypes, AgentRun, AgentReads, AgentAnswer, AgentPhases, TodoStatus,
     Agent!TypeOK, Agent!Ended, Agent!NoAnswer, Agent!None
<1>2. Agent!OneEffect
  BY DEF AgentInv, AgentTypes, AgentBackend, Agent!OneEffect
<1>3. Agent!BackendWithinBudget
  BY DEF AgentInv, AgentTypes, AgentBackend, AgentReads, AgentBudgets,
     Agent!BackendWithinBudget, Agent!SearchLimit, Agent!ExpandLimit
<1> QED
  BY <1>1, <1>2, <1>3 DEF AgentInv, AgentTold, AgentKeepsItsWord

\* The state has its types, and a run has an answer exactly when it is over.
THEOREM AgentTypesHold ==
    ASSUME Agent!LimitsAssumption PROVE Agent!Spec => []Agent!TypeOK
<1>1. Agent!Init => AgentInv
  BY AgentStarts
<1>2. AgentInv /\ [Agent!Next]_Agent!vars => AgentInv'
  BY AgentInvStep
<1>3. AgentInv => Agent!TypeOK
  BY AgentInvMeans
<1> QED
  BY <1>1, <1>2, <1>3, PTL DEF Agent!Spec

\* Whatever the model asks for and however the run ends, the agent tells the outcome
\* of its one action, papers over no failed read, cites what it read, keeps to the
\* budgets of its reads and leaves no todo open (orchestrator.py 318-412, actions.py
\* 673-700, retrieval.py 117-190, answer_pipeline.py 836-900).
THEOREM AgentWordIsKept ==
    ASSUME Agent!LimitsAssumption PROVE Agent!Spec => []AgentKeepsItsWord
<1>1. Agent!Init => AgentInv
  BY AgentStarts
<1>2. AgentInv /\ [Agent!Next]_Agent!vars => AgentInv'
  BY AgentInvStep
<1>3. AgentInv => AgentKeepsItsWord
  BY AgentInvMeans
<1> QED
  BY <1>1, <1>2, <1>3, PTL DEF Agent!Spec

--------------------------------------------------------------------------------
(******************************************************************************)
(* The stream of one answer, for every number of sections and of deltas.      *)
(*                                                                            *)
(* The argument is about the log of public events, those written and those    *)
(* still to be. The route is up to date with the log (LogKept), so what it    *)
(* accepts may come next; the agent and the route agree on the open section   *)
(* (AgentAgrees), so what the agent yields is accepted until a section is     *)
(* withdrawn; and the reader is up to date with the events it has read        *)
(* (ReaderKeepsUp), so it expects each event that may come. A turn is stored  *)
(* when its execution is over, with no section open or withdrawn, and before  *)
(* the event that tells it (TurnKept).                                        *)
(******************************************************************************)

(* A log of public events *)

PublicEvent == [type : Answer!Contract!Kind, sec : Answer!Section \union {Answer!NoSection}]

Closes == {"section_completed", "section_aborted"}

\* What the first n events of a log amount to.
Begun(l, n)   == {l[i].sec : i \in {j \in 1..n : l[j].type = "section_started"}}
Shut(l, n)    == {l[i].sec : i \in {j \in 1..n : l[j].type \in Closes}}
Dropped(l, n) == {l[i].sec : i \in {j \in 1..n : l[j].type = "section_aborted"}}
Ended(l, n)    == \E i \in 1..n : l[i].type \in Answer!Terminal

\* Somebody who keeps the open section, the sections so far and whether one was
\* withdrawn is up to date with the first n events.
UpToDate(s, l, n) ==
    /\ s.ids = Begun(l, n) /\ Answer!NoSection \notin s.ids
    /\ Begun(l, n) \ Shut(l, n) = IF s.open = Answer!NoSection THEN {} ELSE {s.open}
    /\ Shut(l, n) \subseteq Begun(l, n)
    /\ Dropped(l, n) \subseteq Shut(l, n)
    /\ s.aborted <=> Dropped(l, n) # {}

\* The event e may come after the first n of l.
MayCome(l, n, e) ==
    /\ ~Ended(l, n)
    /\ (e.type = "started") <=> (n = 0)
    /\ e.type = "section_started" =>
          /\ Begun(l, n) \ Shut(l, n) = {}
          /\ e.sec \notin Begun(l, n) \union {Answer!NoSection}
    /\ e.type = "text_delta" =>
          IF Begun(l, n) # {} THEN e.sec \in Begun(l, n) \ Shut(l, n) ELSE e.sec = Answer!NoSection
    /\ e.type \in Closes => e.sec \in Begun(l, n) \ Shut(l, n)
    /\ e.type \in Answer!Terminal => Begun(l, n) \ Shut(l, n) = {}
    /\ e.type = "completed" => Dropped(l, n) = {}

Legal(l) == \A k \in 1..Len(l) : MayCome(l, k - 1, l[k])

\* s after the event e.
After(s, t, e) ==
    /\ t.open = CASE e.type = "section_started" -> e.sec
                  [] e.type \in Closes -> Answer!NoSection
                  [] OTHER -> s.open
    /\ t.ids = IF e.type = "section_started" THEN s.ids \union {e.sec} ELSE s.ids
    /\ t.aborted <=> (s.aborted \/ e.type = "section_aborted")

\* The event as one sees it who is up to date.
Expected(s, e) ==
    /\ e.type = "section_started" => s.open = Answer!NoSection
         /\ e.sec \notin s.ids \union {Answer!NoSection}
    /\ e.type = "text_delta" =>
          IF s.ids # {} THEN e.sec # Answer!NoSection /\ e.sec = s.open
            ELSE e.sec = Answer!NoSection
    /\ e.type \in Closes => e.sec # Answer!NoSection /\ e.sec = s.open
    /\ e.type \in Answer!Terminal => s.open = Answer!NoSection
    /\ e.type = "completed" => ~s.aborted

--------------------------------------------------------------------------------
(* Logs *)

\* What holds of the first events does not depend on the later ones.
LEMMA SameBeginning ==
  ASSUME NEW l, NEW m, NEW n \in Nat, \A i \in 1..n : l[i] = m[i]
  PROVE  /\ Begun(l, n) = Begun(m, n) /\ Shut(l, n) = Shut(m, n)
         /\ Dropped(l, n) = Dropped(m, n) /\ (Ended(l, n) <=> Ended(m, n))
<1>1. {j \in 1..n : l[j].type = "section_started"} = {j \in 1..n : m[j].type = "section_started"}
  OBVIOUS
<1>2. {j \in 1..n : l[j].type \in Closes} = {j \in 1..n : m[j].type \in Closes}
  OBVIOUS
<1>3. {j \in 1..n : l[j].type = "section_aborted"} = {j \in 1..n : m[j].type = "section_aborted"}
  OBVIOUS
<1>4. QED
  BY <1>1, <1>2, <1>3 DEF Begun, Shut, Dropped, Ended

\* What the next event adds.
LEMMA OneMore ==
  ASSUME NEW l, NEW n \in Nat
  PROVE  /\ Begun(l, n + 1) = Begun(l, n) \union
                (IF l[n + 1].type = "section_started" THEN {l[n + 1].sec} ELSE {})
         /\ Shut(l, n + 1) = Shut(l, n) \union
                (IF l[n + 1].type \in Closes THEN {l[n + 1].sec} ELSE {})
         /\ Dropped(l, n + 1) = Dropped(l, n) \union
                (IF l[n + 1].type = "section_aborted" THEN {l[n + 1].sec} ELSE {})
         /\ Ended(l, n + 1) <=> Ended(l, n) \/ l[n + 1].type \in Answer!Terminal
<1>1. \A i : i \in 1..(n + 1) <=> i \in 1..n \/ i = n + 1
  OBVIOUS
<1>2. QED
  BY <1>1 DEF Begun, Shut, Dropped, Ended

\* Nothing has happened in an empty log.
LEMMA EmptyLog ==
  ASSUME NEW l
  PROVE  Begun(l, 0) = {} /\ Shut(l, 0) = {} /\ Dropped(l, 0) = {} /\ ~Ended(l, 0)
  BY DEF Begun, Shut, Dropped, Ended

\* An event that may come keeps who takes note of it up to date.
LEMMA NoteTaken ==
  ASSUME NEW l, NEW n \in Nat, NEW s, NEW t, UpToDate(s, l, n), MayCome(l, n, l[n + 1]),
         After(s, t, l[n + 1])
  PROVE  UpToDate(t, l, n + 1)
<1> DEFINE e == l[n + 1]
<1> HIDE DEF e
<1>0. /\ Begun(l, n + 1) = Begun(l, n) \union (IF e.type = "section_started" THEN {e.sec} ELSE {})
      /\ Shut(l, n + 1) = Shut(l, n) \union (IF e.type \in Closes THEN {e.sec} ELSE {})
      /\ Dropped(l, n + 1) = Dropped(l, n) \union (IF e.type = "section_aborted" THEN {e.sec}
           ELSE {})
  BY OneMore DEF e
<1>1. UpToDate(s, l, n) /\ MayCome(l, n, e) /\ After(s, t, e)
  BY DEF e
<1>2. CASE e.type = "section_started"
  <2>1. /\ Begun(l, n + 1) = Begun(l, n) \union {e.sec} /\ Shut(l, n + 1) = Shut(l, n)
        /\ Dropped(l, n + 1) = Dropped(l, n)
    BY <1>0, <1>2 DEF Closes
  <2>2. t.open = e.sec /\ t.ids = s.ids \union {e.sec} /\ (t.aborted <=> s.aborted)
    BY <1>1, <1>2 DEF After, Closes
  <2>3. Begun(l, n) \ Shut(l, n) = {} /\ e.sec \notin Begun(l, n) /\ e.sec # Answer!NoSection
    BY <1>1, <1>2 DEF MayCome
  <2>4. Begun(l, n + 1) \ Shut(l, n + 1) = {t.open} /\ t.open # Answer!NoSection
    BY <1>1, <2>1, <2>2, <2>3 DEF UpToDate
  <2>5. QED
    BY <1>1, <2>1, <2>2, <2>3, <2>4 DEF UpToDate
<1>3. CASE e.type \in Closes
  <2>1. /\ Begun(l, n + 1) = Begun(l, n) /\ Shut(l, n + 1) = Shut(l, n) \union {e.sec}
        /\ Dropped(l, n) \subseteq Dropped(l, n + 1)
        /\ Dropped(l, n + 1) = IF e.type = "section_aborted" THEN Dropped(l, n) \union {e.sec}
                               ELSE Dropped(l, n)
    BY <1>0, <1>3 DEF Closes
  <2>2. /\ t.open = Answer!NoSection /\ t.ids = s.ids
        /\ t.aborted <=> (s.aborted \/ e.type = "section_aborted")
    BY <1>1, <1>3 DEF After, Closes
  <2>3. e.sec \in Begun(l, n) \ Shut(l, n)
    BY <1>1, <1>3 DEF MayCome
  <2>4. Begun(l, n) \ Shut(l, n) = {e.sec}
    BY <1>1, <2>3 DEF UpToDate
  <2>5. Begun(l, n + 1) \ Shut(l, n + 1) = {}
    BY <2>1, <2>4
  <2>6. QED
    BY <1>1, <2>1, <2>2, <2>3, <2>5 DEF UpToDate
<1>4. CASE e.type # "section_started" /\ e.type \notin Closes
  <2>1. /\ Begun(l, n + 1) = Begun(l, n) /\ Shut(l, n + 1) = Shut(l, n)
        /\ Dropped(l, n + 1) = Dropped(l, n)
    BY <1>0, <1>4 DEF Closes
  <2>2. t.open = s.open /\ t.ids = s.ids /\ (t.aborted <=> s.aborted)
    BY <1>1, <1>4 DEF After, Closes
  <2>3. QED
    BY <1>1, <2>1, <2>2 DEF UpToDate
<1>5. QED
  BY <1>2, <1>3, <1>4

\* One who is up to date expects an event exactly if it may come.
LEMMA ExpectedMayCome ==
  ASSUME NEW l, NEW n \in Nat, NEW s, UpToDate(s, l, n), NEW e \in PublicEvent,
         ~Ended(l, n), (e.type = "started") <=> (n = 0)
  PROVE  MayCome(l, n, e) <=> Expected(s, e)
  BY DEF UpToDate, MayCome, Expected

\* A log goes on with an event its keeper expects.
LEMMA LogGoesOn ==
  ASSUME NEW l \in Seq(PublicEvent), NEW s, NEW t, NEW e \in PublicEvent,
         Legal(l), UpToDate(s, l, Len(l)), ~Ended(l, Len(l)),
         (e.type = "started") <=> (l = <<>>), Expected(s, e), After(s, t, e)
  PROVE  /\ Append(l, e) \in Seq(PublicEvent) /\ Len(Append(l, e)) = Len(l) + 1
         /\ Legal(Append(l, e)) /\ UpToDate(t, Append(l, e), Len(l) + 1)
         /\ Ended(Append(l, e), Len(l) + 1) <=> e.type \in Answer!Terminal
<1> DEFINE m == Append(l, e)
           n == Len(l)
<1>1. m \in Seq(PublicEvent) /\ Len(m) = n + 1 /\ m[n + 1] = e /\ n \in Nat
      /\ \A i \in 1..n : m[i] = l[i]
  BY AppendProperties
<1>2. l = <<>> <=> n = 0
  BY EmptySeq
<1> HIDE DEF m, n
<1>3. /\ Begun(m, n) = Begun(l, n) /\ Shut(m, n) = Shut(l, n)
      /\ Dropped(m, n) = Dropped(l, n) /\ (Ended(m, n) <=> Ended(l, n))
  BY <1>1, SameBeginning
<1>4. UpToDate(s, m, n) /\ ~Ended(m, n)
  BY <1>3 DEF UpToDate, n
<1>5. MayCome(m, n, e)
  BY <1>1, <1>2, <1>4, ExpectedMayCome
<1>6. UpToDate(t, m, n + 1)
  BY <1>1, <1>4, <1>5, NoteTaken
<1>7. Ended(m, n + 1) <=> e.type \in Answer!Terminal
  BY <1>1, <1>4, OneMore
<1>8. ASSUME NEW k \in 1..(n + 1) PROVE MayCome(m, k - 1, m[k])
  <2>1. CASE k = n + 1
    BY <1>1, <1>5, <2>1
  <2>2. CASE k \in 1..n
    <3>1. k - 1 \in Nat /\ \A i \in 1..(k - 1) : m[i] = l[i]
      BY <1>1, <2>2
    <3>2. MayCome(l, k - 1, l[k]) /\ m[k] = l[k]
      BY <1>1, <2>2 DEF Legal, n
    <3>3. /\ Begun(m, k - 1) = Begun(l, k - 1) /\ Shut(m, k - 1) = Shut(l, k - 1)
          /\ Dropped(m, k - 1) = Dropped(l, k - 1) /\ (Ended(m, k - 1) <=> Ended(l, k - 1))
      BY <3>1, SameBeginning
    <3>4. QED
      BY <3>2, <3>3 DEF MayCome
  <2>3. QED
    BY <1>1, <2>1, <2>2
<1>9. Legal(m)
  BY <1>1, <1>8 DEF Legal
<1>10. QED
  BY <1>1, <1>6, <1>7, <1>9 DEF m, n

\* The beginning of a legal log is legal.
LEMMA LegalBeginning ==
  ASSUME NEW l, NEW m, Len(l) \in Nat, Len(m) \in Nat, Len(m) <= Len(l),
         \A i \in 1..Len(m) : m[i] = l[i], Legal(l)
  PROVE  Legal(m)
<1>1. SUFFICES ASSUME NEW k \in 1..Len(m) PROVE MayCome(m, k - 1, m[k])
  BY DEF Legal
<1>2. k - 1 \in Nat /\ (\A i \in 1..(k - 1) : m[i] = l[i]) /\ m[k] = l[k]
  OBVIOUS
<1>3. MayCome(l, k - 1, l[k])
  BY DEF Legal
<1>4. QED
  BY <1>2, <1>3, SameBeginning DEF MayCome

--------------------------------------------------------------------------------
(* The inductive invariant *)

Places == {"idle", "lookup", "retrieve", "plan", "section", "text", "abort", "stop",
           "finalize", "whole", "final", "done"}
ExecutionState ==
    [at : Places, plan : Answer!Plan \union {<<>>}, i : 0..(MaxSection + 1), deltas : 0..MaxDelta,
     code : Answer!Answer \union {Answer!None}]
RouteState ==
    [open : Answer!Section \union {Answer!NoSection}, ids : SUBSET Answer!Section,
     aborted : BOOLEAN, visible : BOOLEAN, ended : BOOLEAN]
ReaderState ==
    [read : Nat, open : Answer!Section \union {Answer!NoSection}, ids : SUBSET Answer!Section,
     aborted : BOOLEAN,
     result : {Answer!None, "completed", "failed", "truncated", "unavailable"}]
PageState ==
    [state : {"idle", "pending", "failed", "cleared", "refused"},
     sections : SUBSET Answer!Section,
     answer : {Answer!None, "partial", "final", "failure"}]

StreamTypes ==
    /\ mode \in [streaming : BOOLEAN, text : {"question", "command"}]
    /\ agent \in ExecutionState
    /\ runs \in Nat /\ thread \in BOOLEAN
    /\ turn \in Answer!Answer \union {Answer!None, "deleted"}
    /\ route \in RouteState
    /\ out \in Seq(PublicEvent) /\ Len(out) <= 2
    /\ sent \in Seq(PublicEvent)
    /\ link \in {"down", "up", "closed", "cut"}
    /\ reader \in ReaderState
    /\ page \in PageState

\* Everything the route has decided to tell.
Log == sent \o out

Completed == \E i \in 1..Len(Log) : Log[i].type = "completed"

\* The route is up to date with what it has told, and tells nothing before the
\* response is opened or after it is gone.
LogKept ==
    /\ Legal(Log)
    /\ link = "up" => /\ UpToDate(route, Log, Len(Log))
                      /\ route.ended <=> Ended(Log, Len(Log))
    /\ link = "down" => /\ sent = <<>> /\ agent.at = "idle"
                        /\ route.open = Answer!NoSection /\ route.ids = {} /\ ~route.aborted
                        /\ ~route.ended
    /\ link # "up" => out = <<>>
    /\ link = "up" => Log # <<>>

\* Where the agent stands, the route agrees on the open section and on those before.
AgentAgrees ==
    link = "up" /\ ~route.ended =>
        /\ agent.at \notin {"idle", "done"}
        /\ agent.at # "stop" => ~route.aborted
        /\ agent.at \notin {"text", "abort"} => route.open = Answer!NoSection
        /\ agent.at \in {"lookup", "retrieve", "plan", "finalize", "whole"} => route.ids = {}
        /\ agent.at \in {"section", "text"} => agent.plan \in Answer!Plan
        /\ agent.at = "section" =>
              agent.i \in 1..(Len(agent.plan) + 1) /\ route.ids \subseteq 1..(agent.i - 1)
        /\ agent.at \in {"text", "abort"} =>
              agent.i \in Answer!Section /\ route.open = agent.i /\ agent.i \in route.ids
        /\ agent.at = "text" => agent.i <= Len(agent.plan) /\ route.ids \subseteq 1..agent.i
        /\ agent.at \in {"whole", "final"} =>
              agent.code \in {"ok", "action", "unavailable", "timeout"}
        /\ agent.at \in {"abort", "stop"} =>
              agent.code \in {"unavailable", "timeout", "cancelled"}
        /\ mode.text = "command" => agent.at = "lookup"

\* The reader is up to date with what it has read.
ReaderKeepsUp ==
    /\ reader.read <= Len(sent)
    /\ UpToDate(reader, sent, reader.read)
    /\ reader.result = "completed" => \E i \in 1..Len(sent) : sent[i].type = "completed"
    /\ reader.result = "unavailable" => link = "down" /\ ~mode.streaming

\* The page shows what the reader has not seen withdrawn.
PageShows ==
    /\ page.sections \subseteq reader.ids
    /\ page.sections \intersect Dropped(sent, reader.read) = {}
    /\ page.state \in {"failed", "refused", "cleared"} => page.sections = {}
    /\ page.state = "failed" => reader.result = "failed"
    /\ page.state = "idle" => link = "down"
    /\ link # "down" => mode.streaming

\* The message was executed at most once, and not yet while it may be.
Executions ==
    /\ runs <= 1
    /\ link = "down" /\ page.state \in {"idle", "pending"} => runs = 0 /\ turn = Answer!None
    /\ link = "up" /\ agent.at = "lookup" => runs = 0

\* A turn is stored when the execution is over, before it is told as complete.
TurnKept ==
    /\ turn # Answer!None => route.open = Answer!NoSection /\ ~route.aborted
    /\ turn # Answer!None /\ link = "up" => route.ended
    /\ mode.text = "question" /\ Completed => turn # Answer!None

StreamInv ==
    StreamTypes /\ LogKept /\ AgentAgrees /\ ReaderKeepsUp /\ PageShows /\ Executions /\ TurnKept

--------------------------------------------------------------------------------
(* Initial states *)

LEMMA StreamStarts == ASSUME Answer!BoundsAssumption, Answer!Init PROVE StreamInv
<1>1. StreamTypes
  BY EmptySeq DEF Answer!Init, StreamTypes, ExecutionState, RouteState, ReaderState, PageState,
     Places,
         Answer!Section, Answer!NoSection, Answer!BoundsAssumption
<1>2. Log = <<>> /\ Len(Log) = 0 /\ Len(sent) = 0
  BY EmptySeq, ConcatEmptySeq DEF Answer!Init, Log
<1>3. LogKept
  BY <1>2 DEF Answer!Init, LogKept, Legal
<1>4. UpToDate(reader, sent, 0)
  BY EmptyLog DEF Answer!Init, UpToDate, Answer!NoSection
<1>5. AgentAgrees /\ ReaderKeepsUp /\ PageShows /\ Executions /\ TurnKept
  BY <1>2, <1>4, EmptyLog DEF Answer!Init, AgentAgrees, ReaderKeepsUp, PageShows, Executions,
     TurnKept,
     Answer!NoSection, Answer!None, Completed
<1>6. QED
  BY <1>1, <1>3, <1>5 DEF StreamInv

--------------------------------------------------------------------------------
(* The route tells something *)

LEMMA EventAppended ==
  ASSUME NEW l \in Seq(PublicEvent), NEW e \in PublicEvent, NEW m, m = Append(l, e)
  PROVE  /\ m # <<>> /\ Len(m) = Len(l) + 1 /\ m[Len(l) + 1] = e
         /\ \A i \in 1..Len(l) : m[i] = l[i]
<1>1. Append(l, e) # <<>> /\ Len(Append(l, e)) = Len(l) + 1
      /\ (\A i \in 1..Len(l) : Append(l, e)[i] = l[i]) /\ Append(l, e)[Len(l) + 1] = e
  BY AppendProperties
<1>2. QED
  BY <1>1

\* One event is told.
LEMMA TellsOne ==
  ASSUME StreamTypes, LogKept, Answer!Pulled, NEW e \in PublicEvent, e.type # "started",
         Expected(route, e), After(route, route', e), route'.ended <=> e.type \in Answer!Terminal,
         out' = <<e>>, UNCHANGED <<sent, link>>
  PROVE  /\ LogKept' /\ out' \in Seq(PublicEvent) /\ Len(out') <= 2
         /\ Completed' => Completed \/ e.type = "completed"
<1>1. Log = sent /\ Log' = Append(sent, e) /\ Log \in Seq(PublicEvent) /\ link = "up"
  BY ConcatEmptySeq, AppendIsConcat DEF Log, Answer!Pulled, StreamTypes
<1>2. Log # <<>>
  BY <1>1 DEF LogKept
<1>3. UpToDate(route, Log, Len(Log)) /\ ~Ended(Log, Len(Log)) /\ Legal(Log)
  BY <1>1 DEF LogKept, Answer!Pulled
<1>4. /\ Log' = Append(Log, e) /\ Len(Log') = Len(Log) + 1
      /\ Legal(Log') /\ UpToDate(route', Log', Len(Log'))
      /\ Ended(Log', Len(Log')) <=> e.type \in Answer!Terminal
  BY <1>1, <1>2, <1>3, LogGoesOn
<1>5. Log' # <<>> /\ (\A i \in 1..Len(Log) : Log'[i] = Log[i]) /\ Log'[Len(Log) + 1] = e
  BY <1>1, <1>4, EventAppended
<1>6. LogKept'
  BY <1>1, <1>4, <1>5 DEF LogKept
<1>7. out' \in Seq(PublicEvent) /\ Len(out') = 1
  OBVIOUS
<1>8. \A i \in 1..Len(Log') : i \in 1..Len(Log) \/ i = Len(Log) + 1
  BY <1>1, <1>4, LenProperties
<1>9. ASSUME NEW i \in 1..Len(Log'), Log'[i].type = "completed"
      PROVE  Completed \/ e.type = "completed"
  <2>1. CASE i \in 1..Len(Log)
    BY <1>5, <1>9, <2>1 DEF Completed
  <2>2. CASE i = Len(Log) + 1
    BY <1>5, <1>9, <2>2
  <2>3. QED
    BY <1>8, <2>1, <2>2
<1>10. QED
  BY <1>6, <1>7, <1>9 DEF Completed

\* Two events are told, t being the route between them.
LEMMA TellsTwo ==
  ASSUME StreamTypes, LogKept, Answer!Pulled, NEW d \in PublicEvent, NEW e \in PublicEvent, NEW t,
         d.type # "started", e.type # "started", d.type \notin Answer!Terminal,
         Expected(route, d), After(route, t, d), Expected(t, e), After(t, route', e),
         route'.ended <=> e.type \in Answer!Terminal,
         out' = <<d, e>>, UNCHANGED <<sent, link>>
  PROVE  /\ LogKept' /\ out' \in Seq(PublicEvent) /\ Len(out') <= 2
         /\ Completed' => Completed \/ e.type = "completed"
<1>1. Log = sent /\ Log \in Seq(PublicEvent) /\ link = "up" /\ Log' = sent \o <<d, e>>
  BY ConcatEmptySeq DEF Log, Answer!Pulled, StreamTypes
<1>2. Log # <<>>
  BY <1>1 DEF LogKept
<1>3. UpToDate(route, Log, Len(Log)) /\ ~Ended(Log, Len(Log)) /\ Legal(Log)
  BY <1>1 DEF LogKept, Answer!Pulled
<1> DEFINE m == Append(Log, d)
<1>4. /\ m \in Seq(PublicEvent) /\ Len(m) = Len(Log) + 1
      /\ Legal(m) /\ UpToDate(t, m, Len(m)) /\ ~Ended(m, Len(m))
  BY <1>1, <1>2, <1>3, LogGoesOn
<1>5. m # <<>>
  BY <1>1, EventAppended
<1>6. Log' = Append(m, e)
  BY <1>1
<1> HIDE DEF m
<1>7. /\ Len(Log') = Len(m) + 1
      /\ Legal(Log') /\ UpToDate(route', Log', Len(Log'))
      /\ Ended(Log', Len(Log')) <=> e.type \in Answer!Terminal
  BY <1>4, <1>5, <1>6, LogGoesOn
<1>8. Log' # <<>> /\ (\A i \in 1..Len(m) : Log'[i] = m[i]) /\ Log'[Len(m) + 1] = e
  BY <1>4, <1>6, EventAppended
<1>9. (\A i \in 1..Len(Log) : m[i] = Log[i]) /\ m[Len(Log) + 1] = d
  BY <1>1, AppendProperties DEF m
<1>10. LogKept'
  BY <1>1, <1>7, <1>8 DEF LogKept
<1>11. out' \in Seq(PublicEvent) /\ Len(out') = 2
  OBVIOUS
<1>12. \A i \in 1..Len(Log') : i \in 1..Len(Log) \/ i = Len(Log) + 1 \/ i = Len(m) + 1
  BY <1>1, <1>4, <1>7, LenProperties
<1>13. ASSUME NEW i \in 1..Len(Log'), Log'[i].type = "completed"
       PROVE  Completed \/ e.type = "completed"
  <2>1. CASE i \in 1..Len(Log)
    <3>1. Log'[i] = Log[i]
      BY <1>1, <1>4, <1>8, <1>9, <2>1, LenProperties
    <3>2. QED
      BY <1>13, <2>1, <3>1 DEF Completed
  <2>2. CASE i = Len(Log) + 1
    <3>1. Log'[i] = d
      BY <1>1, <1>4, <1>8, <1>9, <2>2, LenProperties
    <3>2. QED
      BY <1>13, <3>1 DEF Answer!Terminal
  <2>3. CASE i = Len(m) + 1
    BY <1>8, <1>13, <2>3
  <2>4. QED
    BY <1>12, <2>1, <2>2, <2>3
<1>14. QED
  BY <1>10, <1>11, <1>13 DEF Completed

PrivateEvent ==
    [type : {"activity", "section_started", "text_delta", "section_completed",
             "section_aborted", "final"},
     sec : Answer!Section \union {Answer!NoSection}, answer : Answer!Answer \union {Answer!None}]

LEMMA Kinds ==
  /\ Answer!Contract!Kind = {"started", "activity", "section_started", "text_delta",
                      "section_completed", "section_aborted", "completed", "error", "cancelled"}
  /\ Answer!Terminal = {"completed", "error", "cancelled"}
       /\ Answer!Contract!Terminal = Answer!Terminal
  /\ Answer!Contract!Closing = Closes
  BY DEF Answer!Contract!Kind, Answer!Contract!Closing, Answer!Contract!Terminal, Answer!Terminal,
     Closes

\* A private event that passes the checks of the route is told as the public
\* events it becomes.
LEMMA ReceiveTells ==
  ASSUME StreamTypes, LogKept, Answer!Pulled, NEW e \in PrivateEvent, Answer!Receive(e),
           Answer!Accepts(e),
         e.type = "section_started" => e.sec # Answer!NoSection,
         e.type = "text_delta" /\ route.ids # {} => e.sec # Answer!NoSection,
         e.type = "final" => e.answer # Answer!None,
         UNCHANGED <<sent, link>>
  PROVE  /\ LogKept' /\ out' \in Seq(PublicEvent) /\ Len(out') <= 2
         /\ route' = Answer!RouteAfter(e) /\ route' \in RouteState
         /\ Completed' => Completed \/ (e.type = "final" /\ e.answer = "ok")
<1>1. out' = Answer!Public(e) /\ route' = Answer!RouteAfter(e)
  BY DEF Answer!Receive
<1>2. route \in RouteState /\ ~route.ended
  BY DEF StreamTypes, Answer!Pulled
<1>3. route' \in RouteState
  BY <1>1, <1>2 DEF Answer!RouteAfter, RouteState, PrivateEvent, Answer!NoSection
<1>4. CASE e.type # "final"
  <2> DEFINE p == Answer!Event(e.type, e.sec)
  <2>1. p \in PublicEvent /\ p.type = e.type /\ p.sec = e.sec
    BY <1>4, Kinds DEF PublicEvent, PrivateEvent, Answer!Event
  <2>2. out' = <<p>>
    BY <1>1, <1>4 DEF Answer!Public
  <2>3. p.type # "started" /\ p.type \notin Answer!Terminal
    BY <1>4, <2>1 DEF PrivateEvent, Answer!Terminal
  <2> HIDE DEF p
  <2>4. Expected(route, p)
    BY <1>4, <2>1, <2>3 DEF Expected, Answer!Accepts, PrivateEvent, Answer!Terminal, Closes
  <2>5. After(route, route', p) /\ route'.ended = FALSE
    BY <1>1, <1>2, <1>4, <2>1 DEF After, Answer!RouteAfter, RouteState, Closes
  <2>6. QED
    BY <1>1, <1>3, <2>1, <2>2, <2>3, <2>4, <2>5, TellsOne DEF Answer!Terminal
<1>5. CASE e.type = "final" /\ Answer!Failed(e.answer)
  <2> DEFINE p == Answer!EndOf(e.answer)
  <2>1. p \in PublicEvent /\ p.type \in {"cancelled", "error"}
    BY Kinds DEF PublicEvent, Answer!EndOf, Answer!Event
  <2>2. out' = <<p>>
    BY <1>1, <1>5 DEF Answer!Public
  <2> HIDE DEF p
  <2>3. p.type # "started" /\ p.type \in Answer!Terminal /\ p.type # "completed"
    BY <2>1 DEF Answer!Terminal
  <2>4. Expected(route, p)
    BY <1>5, <2>1 DEF Expected, Answer!Accepts, Closes
  <2>5. After(route, route', p) /\ route'.ended = TRUE
    BY <1>1, <1>2, <1>5, <2>1 DEF After, Answer!RouteAfter, RouteState, Closes
  <2>6. QED
    BY <1>1, <1>3, <2>1, <2>2, <2>3, <2>4, <2>5, TellsOne
<1>6. CASE e.type = "final" /\ ~Answer!Failed(e.answer)
  <2> DEFINE d == Answer!Event("text_delta", Answer!NoSection)
             p == Answer!Event("completed", Answer!NoSection)
  <2>1. /\ d \in PublicEvent /\ d.type = "text_delta" /\ d.sec = Answer!NoSection
        /\ p \in PublicEvent /\ p.type = "completed"
    BY Kinds DEF PublicEvent, Answer!Event
  <2>2. out' = IF route.ids = {} /\ ~route.visible THEN <<d, p>> ELSE <<p>>
    BY <1>1, <1>6 DEF Answer!Public
  <2> HIDE DEF d, p
  <2>3. route.open = Answer!NoSection /\ ~route.aborted /\ e.answer = "ok"
    BY <1>6 DEF Answer!Accepts, Answer!Failed
  <2>4. After(route, route', p) /\ route'.ended = TRUE
    BY <1>1, <1>2, <1>6, <2>1 DEF After, Answer!RouteAfter, RouteState, Closes
  <2>5. Expected(route, p) /\ p.type # "started" /\ p.type \in Answer!Terminal
    BY <2>1, <2>3 DEF Expected, Closes, Answer!Terminal
  <2>6. CASE route.ids = {} /\ ~route.visible
    <3>1. Expected(route, d) /\ After(route, route, d) /\ d.type # "started"
            /\ d.type \notin Answer!Terminal
      BY <1>2, <2>1, <2>6 DEF Expected, Closes, Answer!Terminal, After
    <3>2. QED
      BY <1>1, <1>3, <1>6, <2>1, <2>2, <2>3, <2>4, <2>5, <2>6, <3>1, TellsTwo
  <2>7. CASE ~(route.ids = {} /\ ~route.visible)
    BY <1>1, <1>3, <1>6, <2>1, <2>2, <2>3, <2>4, <2>5, <2>7, TellsOne
  <2>8. QED
    BY <2>6, <2>7
<1>7. QED
  BY <1>4, <1>5, <1>6

LEMMA EventsJoined ==
  ASSUME NEW S, NEW d \in S, NEW p \in S PROVE <<d>> \o <<p>> = <<d, p>>
<1> DEFINE x == <<d>> \o <<p>>
           y == <<d, p>>
<1>1. <<d>> \in Seq(S) /\ <<p>> \in Seq(S) /\ y \in Seq(S)
  OBVIOUS
<1>2. /\ Len(<<d>>) = 1 /\ Len(<<p>>) = 1 /\ Len(y) = 2 /\ y[1] = d /\ y[2] = p
      /\ <<d>>[1] = d /\ <<p>>[1] = p
  OBVIOUS
<1>3. x \in Seq(S) /\ Len(x) = 2 /\ x[1] = d /\ x[2] = p
  BY <1>1, <1>2, ConcatProperties
<1> HIDE DEF x, y
<1>4. \A i \in 1..Len(x) : x[i] = y[i]
  BY <1>1, <1>2, <1>3
<1>5. x = y
  BY <1>1, <1>2, <1>3, <1>4, SeqEqual
<1> QED
  BY <1>5 DEF x, y

\* An exception ends the log, after the open section was withdrawn.
LEMMA RaiseTells ==
  ASSUME StreamTypes, LogKept, Answer!Pulled, NEW a, Answer!Raise(a), UNCHANGED <<sent, link>>
  PROVE  /\ LogKept' /\ out' \in Seq(PublicEvent) /\ Len(out') <= 2
         /\ route' \in RouteState /\ route'.ended /\ route'.open = Answer!NoSection
         /\ Completed' => Completed
<1>1. route \in RouteState /\ ~route.ended /\ link = "up"
  BY DEF StreamTypes, Answer!Pulled
<1>2. UpToDate(route, Log, Len(Log))
  BY <1>1 DEF LogKept
<1> DEFINE p == Answer!EndOf(a)
           d == Answer!Event("section_aborted", route.open)
<1>3. /\ p \in PublicEvent /\ p.type \in {"cancelled", "error"}
      /\ d \in PublicEvent /\ d.type = "section_aborted" /\ d.sec = route.open
  BY <1>1, Kinds DEF PublicEvent, Answer!EndOf, Answer!Event, RouteState
<1>4. /\ route' \in RouteState /\ route'.ended = TRUE /\ route'.open = Answer!NoSection
      /\ route'.ids = route.ids
      /\ route'.aborted <=> (route.aborted \/ route.open # Answer!NoSection)
  BY <1>1 DEF Answer!Raise, RouteState, Answer!NoSection
<1>5. out' = IF route.open = Answer!NoSection THEN <<p>> ELSE <<d, p>>
  <2>1. out' = Answer!AbortOpen(route) \o <<p>>
    BY DEF Answer!Raise
  <2>2. <<>> \o <<p>> = <<p>>
    BY ConcatEmptySeq
  <2>3. <<d>> \o <<p>> = <<d, p>>
    BY <1>3, EventsJoined
  <2>4. QED
    BY <2>1, <2>2, <2>3 DEF Answer!AbortOpen
<1> HIDE DEF p, d
<1>6. p.type # "started" /\ p.type \in Answer!Terminal /\ p.type # "completed"
        /\ p.type \notin Closes
  BY <1>3 DEF Answer!Terminal, Closes
<1>7. CASE route.open = Answer!NoSection
  <2>1. Expected(route, p) /\ After(route, route', p)
    BY <1>3, <1>4, <1>6, <1>7 DEF Expected, After
  <2>2. QED
    BY <1>3, <1>4, <1>5, <1>6, <1>7, <2>1, TellsOne
<1>8. CASE route.open # Answer!NoSection
  <2> DEFINE t == [route EXCEPT !.open = Answer!NoSection, !.aborted = TRUE]
  <2>1. t.open = Answer!NoSection /\ t.ids = route.ids /\ t.aborted = TRUE
    BY <1>1 DEF RouteState
  <2> HIDE DEF t
  <2>2. Expected(route, d) /\ After(route, t, d) /\ d.type # "started"
          /\ d.type \notin Answer!Terminal
    BY <1>3, <1>8, <2>1 DEF Expected, After, Closes, Answer!Terminal
  <2>3. Expected(t, p) /\ After(t, route', p)
    BY <1>3, <1>4, <1>6, <1>8, <2>1 DEF Expected, After
  <2>4. QED
    BY <1>3, <1>4, <1>5, <1>6, <1>8, <2>2, <2>3, TellsTwo
<1>9. QED
  BY <1>7, <1>8

--------------------------------------------------------------------------------
(* The agent goes on *)

LEMMA LogSame ==
  ASSUME LogKept, UNCHANGED <<route, out, sent, link>>, link # "down"
  PROVE  LogKept' /\ (Completed' <=> Completed)
  BY DEF LogKept, Log, Completed

LEMMA BrowserSame ==
  ASSUME ReaderKeepsUp, PageShows, UNCHANGED <<sent, reader, page, mode>>,
         link # "down", link' # "down"
  PROVE  ReaderKeepsUp' /\ PageShows'
  BY DEF ReaderKeepsUp, PageShows

\* A step of an execution that is not over leaves to show where the agent stands.
LEMMA StreamRunning ==
  ASSUME StreamInv, Answer!Pulled
  PROVE  /\ turn = Answer!None /\ link = "up" /\ ~route.ended /\ route \in RouteState
         /\ agent \in ExecutionState /\ (mode.text = "question" => ~Completed)
  BY DEF StreamInv, TurnKept, Answer!Pulled, StreamTypes

LEMMA AgentIsSilent ==
  ASSUME StreamInv, NEW a \in ExecutionState, Answer!Silently(a), a.at # "lookup"
  PROVE  AgentAgrees' => StreamInv'
<1>1. /\ Answer!Pulled /\ agent' = a /\ UNCHANGED <<mode, runs, thread, turn, route, out, sent,
           link>>
      /\ UNCHANGED <<reader, page>>
  BY DEF Answer!Silently, Answer!browser
<1>2. link = "up"
  BY <1>1 DEF Answer!Pulled
<1>3. StreamTypes'
  BY <1>1 DEF StreamInv, StreamTypes
<1>4. LogKept' /\ (Completed' <=> Completed) /\ ReaderKeepsUp' /\ PageShows'
  BY <1>1, <1>2, LogSame, BrowserSame DEF StreamInv
<1>5. Executions' /\ TurnKept'
  BY <1>1, <1>2, <1>4 DEF StreamInv, Executions, TurnKept
<1>6. QED
  BY <1>3, <1>4, <1>5 DEF StreamInv

LEMMA AgentYields ==
  ASSUME StreamInv, NEW a \in ExecutionState,
         NEW type \in {"activity", "section_started", "text_delta", "section_completed",
                       "section_aborted"},
         NEW sec \in Answer!Section \union {Answer!NoSection}, Answer!Yield(a, type, sec),
           a.at # "lookup",
         Answer!Accepts([type |-> type, sec |-> sec, answer |-> Answer!None]),
         type = "section_started" => sec # Answer!NoSection,
         type = "text_delta" /\ route.ids # {} => sec # Answer!NoSection
  PROVE  /\ agent' = a /\ UNCHANGED <<mode, link>>
         /\ route'.open = CASE type = "section_started" -> sec
                            [] type \in Closes -> Answer!NoSection
                            [] OTHER -> route.open
         /\ route'.ids = IF type = "section_started" THEN route.ids \union {sec} ELSE route.ids
         /\ route'.aborted <=> (route.aborted \/ type = "section_aborted")
         /\ ~route'.ended
         /\ AgentAgrees' => StreamInv'
<1> DEFINE e == [type |-> type, sec |-> sec, answer |-> Answer!None]
<1>1. /\ Answer!Pulled /\ agent' = a /\ Answer!Receive(e)
      /\ UNCHANGED <<mode, runs, thread, turn, sent, link, reader, page>>
  BY DEF Answer!Yield, Answer!browser
<1>2. /\ e \in PrivateEvent /\ e.type = type /\ e.sec = sec /\ e.type # "final"
      /\ Answer!Accepts(e)
  BY DEF PrivateEvent
<1> HIDE DEF e
<1>3. /\ LogKept' /\ out' \in Seq(PublicEvent) /\ Len(out') <= 2
      /\ route' = Answer!RouteAfter(e) /\ route' \in RouteState /\ (Completed' => Completed)
  BY <1>1, <1>2, ReceiveTells DEF StreamInv
<1>4. /\ turn = Answer!None /\ link = "up" /\ ~route.ended /\ route \in RouteState
      /\ (mode.text = "question" => ~Completed)
  BY <1>1, StreamRunning
<1>5. /\ route'.open = CASE type = "section_started" -> sec
                         [] type \in Closes -> Answer!NoSection
                         [] OTHER -> route.open
      /\ route'.ids = IF type = "section_started" THEN route.ids \union {sec} ELSE route.ids
      /\ route'.aborted <=> (route.aborted \/ type = "section_aborted")
      /\ ~route'.ended
  BY <1>2, <1>3, <1>4 DEF Answer!RouteAfter, RouteState, Closes
<1>6. StreamTypes'
  BY <1>1, <1>3 DEF StreamInv, StreamTypes
<1>7. ReaderKeepsUp' /\ PageShows'
  BY <1>1, <1>4, BrowserSame DEF StreamInv
<1>8. Executions' /\ TurnKept'
  BY <1>1, <1>3, <1>4 DEF StreamInv, Executions, TurnKept
<1>9. AgentAgrees' => StreamInv'
  BY <1>3, <1>6, <1>7, <1>8 DEF StreamInv
<1>10. QED
  BY <1>1, <1>5, <1>9

\* A plan that is composed has a section.
LEMMA PlanShape ==
  ASSUME NEW p \in Answer!Plan, Answer!BoundsAssumption
  PROVE  /\ p \in Seq({"grounded", "unsupported"}) /\ Len(p) \in Answer!Section
         /\ \A i \in 1..Len(p) : i \in Answer!Section /\ p[i] \in {"grounded", "unsupported"}
<1>1. PICK n \in Answer!Section : p \in [1..n -> {"grounded", "unsupported"}]
  BY DEF Answer!Plan
<1>2. n \in Nat /\ Len(p) = n /\ DOMAIN p = 1..n /\ p \in Seq({"grounded", "unsupported"})
  BY <1>1 DEF Answer!Section, Answer!BoundsAssumption
<1>3. QED
  BY <1>1, <1>2 DEF Answer!Section, Answer!BoundsAssumption

LEMMA ComposingSteps ==
  ASSUME Answer!BoundsAssumption, StreamInv,
         \/ Answer!Retrieved \/ Answer!Streamable \/ Answer!Planned \/ Answer!Finalize
              \/ Answer!WholeText \/ Answer!AllSections
  PROVE  StreamInv'
<1>0. Answer!Pulled
  BY DEF Answer!Retrieved, Answer!Streamable, Answer!Planned, Answer!Finalize, Answer!WholeText,
     Answer!AllSections, Answer!Silently, Answer!Yield
<1>1. /\ link = "up" /\ ~route.ended /\ route \in RouteState /\ agent \in ExecutionState
      /\ AgentAgrees /\ mode.text \in {"question", "command"}
  BY <1>0, StreamRunning DEF StreamInv, StreamTypes
<1> USE DEF ExecutionState, Places
<1>2. CASE Answer!Retrieved
  <2>1. PICK c \in {"ok", "action", "unavailable", "timeout"} :
            Answer!Silently([agent EXCEPT !.at = "whole", !.code = c])
    BY <1>2 DEF Answer!Retrieved
  <2> DEFINE a == [agent EXCEPT !.at = "whole", !.code = c]
  <2>2. a \in ExecutionState /\ a.at = "whole" /\ a.code = c
    BY <1>1 DEF Answer!Answer
  <2> HIDE DEF a
  <2>3. Answer!Silently(a) /\ agent.at = "retrieve"
    BY <1>2, <2>1 DEF a, Answer!Retrieved
  <2>4. AgentAgrees'
    BY <1>1, <2>2, <2>3 DEF AgentAgrees, Answer!Silently
  <2>5. QED
    BY <2>2, <2>3, <2>4, AgentIsSilent
<1>3. CASE Answer!Streamable
  <2> DEFINE a == [agent EXCEPT !.at = "plan"]
  <2>1. a \in ExecutionState /\ a.at = "plan"
    BY <1>1
  <2>2. Answer!Yield(a, "activity", Answer!NoSection) /\ agent.at = "retrieve"
    BY <1>3 DEF Answer!Streamable
  <2> HIDE DEF a
  <2>3. Answer!Accepts([type |-> "activity", sec |-> Answer!NoSection, answer |-> Answer!None])
    BY DEF Answer!Accepts
  <2>4. /\ agent' = a /\ UNCHANGED <<mode, link>> /\ route'.open = route.open
        /\ route'.ids = route.ids /\ (route'.aborted <=> route.aborted)
        /\ AgentAgrees' => StreamInv'
    BY <2>1, <2>2, <2>3, AgentYields DEF Closes
  <2>5. AgentAgrees'
    BY <1>1, <2>1, <2>2, <2>4 DEF AgentAgrees
  <2>6. QED
    BY <2>4, <2>5
<1>4. CASE Answer!Planned
  <2>1. agent.at = "plan"
    BY <1>4 DEF Answer!Planned
  <2>2. ASSUME NEW p \in Answer!Plan, Answer!Silently([agent EXCEPT !.at = "section", !.plan = p,
                 !.i = 1])
        PROVE  StreamInv'
    <3> DEFINE a == [agent EXCEPT !.at = "section", !.plan = p, !.i = 1]
    <3>1. a \in ExecutionState /\ a.at = "section" /\ a.plan = p /\ a.i = 1
      BY <1>1, 1 \in 0..(MaxSection + 1) DEF Answer!BoundsAssumption
    <3>2. Answer!Silently(a)
      BY <2>2
    <3> HIDE DEF a
    <3>3. 1 \in 1..(Len(p) + 1)
      BY PlanShape DEF Answer!Section
    <3>4. AgentAgrees'
      BY <1>1, <2>1, <3>1, <3>2, <3>3 DEF AgentAgrees, Answer!Silently
    <3>5. QED
      BY <3>1, <3>2, <3>4, AgentIsSilent
  <2>3. CASE Answer!Silently([agent EXCEPT !.at = "stop", !.code = "unavailable"])
    <3> DEFINE a == [agent EXCEPT !.at = "stop", !.code = "unavailable"]
    <3>1. a \in ExecutionState /\ a.at = "stop" /\ a.code = "unavailable" /\ Answer!Silently(a)
      BY <1>1, <2>3 DEF Answer!Answer
    <3> HIDE DEF a
    <3>2. AgentAgrees'
      BY <1>1, <2>1, <3>1 DEF AgentAgrees, Answer!Silently
    <3>3. QED
      BY <3>1, <3>2, AgentIsSilent
  <2>4. CASE Answer!Silently([agent EXCEPT !.at = "finalize"])
    <3> DEFINE a == [agent EXCEPT !.at = "finalize"]
    <3>1. a \in ExecutionState /\ a.at = "finalize" /\ Answer!Silently(a)
      BY <1>1, <2>4
    <3> HIDE DEF a
    <3>2. AgentAgrees'
      BY <1>1, <2>1, <3>1 DEF AgentAgrees, Answer!Silently
    <3>3. QED
      BY <3>1, <3>2, AgentIsSilent
  <2>5. QED
    BY <1>4, <2>2, <2>3, <2>4 DEF Answer!Planned
<1>5. CASE Answer!Finalize
  <2>1. PICK c \in {"ok", "unavailable"} :
            Answer!Silently([agent EXCEPT !.at = "whole", !.code = c])
    BY <1>5 DEF Answer!Finalize
  <2> DEFINE a == [agent EXCEPT !.at = "whole", !.code = c]
  <2>2. a \in ExecutionState /\ a.at = "whole" /\ a.code = c
    BY <1>1 DEF Answer!Answer
  <2> HIDE DEF a
  <2>3. Answer!Silently(a) /\ agent.at = "finalize"
    BY <1>5, <2>1 DEF a, Answer!Finalize
  <2>4. AgentAgrees'
    BY <1>1, <2>2, <2>3 DEF AgentAgrees, Answer!Silently
  <2>5. QED
    BY <2>2, <2>3, <2>4, AgentIsSilent
<1>6. CASE Answer!WholeText
  <2> DEFINE a == [agent EXCEPT !.at = "final"]
  <2>1. a \in ExecutionState /\ a.at = "final" /\ a.code = agent.code
    BY <1>1
  <2>2. Answer!Yield(a, "text_delta", Answer!NoSection) /\ agent.at = "whole"
    BY <1>6 DEF Answer!WholeText
  <2> HIDE DEF a
  <2>3. route.ids = {} /\ Answer!Accepts([type |-> "text_delta", sec |-> Answer!NoSection,
          answer |-> Answer!None])
    BY <1>1, <2>2 DEF Answer!Accepts, AgentAgrees
  <2>4. /\ agent' = a /\ UNCHANGED <<mode, link>> /\ route'.open = route.open
        /\ route'.ids = route.ids /\ (route'.aborted <=> route.aborted)
        /\ AgentAgrees' => StreamInv'
    BY <2>1, <2>2, <2>3, AgentYields DEF Closes
  <2>5. AgentAgrees'
    BY <1>1, <2>1, <2>2, <2>4 DEF AgentAgrees
  <2>6. QED
    BY <2>4, <2>5
<1>7. CASE Answer!AllSections
  <2> DEFINE a == [agent EXCEPT !.at = "final", !.code = "ok"]
  <2>1. a \in ExecutionState /\ a.at = "final" /\ a.code = "ok"
    BY <1>1 DEF Answer!Answer
  <2>2. Answer!Silently(a) /\ agent.at = "section"
    BY <1>7 DEF Answer!AllSections
  <2> HIDE DEF a
  <2>3. AgentAgrees'
    BY <1>1, <2>1, <2>2 DEF AgentAgrees, Answer!Silently
  <2>4. QED
    BY <2>1, <2>2, <2>3, AgentIsSilent
<1>8. QED
  BY <1>2, <1>3, <1>4, <1>5, <1>6, <1>7

LEMMA SectionSteps ==
  ASSUME Answer!BoundsAssumption, StreamInv,
         \/ Answer!SectionStarts \/ Answer!NoFirstDelta \/ Answer!SectionText
              \/ Answer!SectionEnds \/ Answer!SectionFails
         \/ Answer!Withdraw
  PROVE  StreamInv'
<1>0. Answer!Pulled
  BY DEF Answer!SectionStarts, Answer!NoFirstDelta, Answer!SectionText, Answer!SectionEnds,
     Answer!SectionFails, Answer!Withdraw,
     Answer!Silently, Answer!Yield
<1>1. /\ link = "up" /\ ~route.ended /\ route \in RouteState /\ agent \in ExecutionState
      /\ AgentAgrees /\ mode.text \in {"question", "command"}
  BY <1>0, StreamRunning DEF StreamInv, StreamTypes
<1>2. MaxSection \in Nat /\ MaxDelta \in Nat /\ agent.i \in Nat /\ agent.deltas \in 0..MaxDelta
  BY <1>1 DEF Answer!BoundsAssumption, ExecutionState
<1>3. /\ agent.at \in {"section", "text"} => agent.plan \in Answer!Plan
           /\ Len(agent.plan) \in Answer!Section
      /\ \A j \in Answer!Section : j \in 1..MaxSection /\ j # Answer!NoSection
  BY <1>1, PlanShape DEF AgentAgrees, Answer!Section, Answer!NoSection
<1> USE DEF ExecutionState, Places
<1>4. CASE Answer!SectionStarts
  <2> DEFINE a == [agent EXCEPT !.at = "text", !.deltas = 0]
  <2>1. a \in ExecutionState /\ a.at = "text" /\ a.i = agent.i /\ a.plan = agent.plan
    BY <1>1, <1>2, 0 \in 0..MaxDelta
  <2>2. Answer!Yield(a, "section_started", agent.i) /\ agent.at = "section"
          /\ agent.i <= Len(agent.plan)
    BY <1>4 DEF Answer!SectionStarts
  <2> HIDE DEF a
  <2>3. /\ agent.i \in Answer!Section /\ agent.i \notin route.ids /\ agent.i # Answer!NoSection
        /\ route.open = Answer!NoSection /\ ~route.aborted /\ route.ids \subseteq 1..(agent.i - 1)
    BY <1>1, <1>2, <1>3, <2>2 DEF AgentAgrees, Answer!Section
  <2>4. Answer!Accepts([type |-> "section_started", sec |-> agent.i, answer |-> Answer!None])
    BY <2>3 DEF Answer!Accepts
  <2>5. /\ agent' = a /\ UNCHANGED <<mode, link>> /\ route'.open = agent.i
        /\ route'.ids = route.ids \union {agent.i} /\ ~route'.aborted
        /\ AgentAgrees' => StreamInv'
    BY <2>1, <2>2, <2>3, <2>4, AgentYields DEF Closes
  <2>6. route'.ids \subseteq 1..agent.i
    BY <1>2, <2>3, <2>5 DEF Answer!Section
  <2>7. AgentAgrees'
    BY <1>1, <1>3, <2>1, <2>2, <2>3, <2>5, <2>6 DEF AgentAgrees
  <2>8. QED
    BY <2>5, <2>7
<1>5. CASE Answer!NoFirstDelta
  <2>1. agent.at = "section" /\ (Answer!MayFallBack(agent) => agent.i = 1)
    BY <1>5 DEF Answer!NoFirstDelta, Answer!MayFallBack
  <2>2. CASE Answer!MayFallBack(agent)
    <3> DEFINE a == [agent EXCEPT !.at = "finalize"]
    <3>1. a \in ExecutionState /\ a.at = "finalize" /\ Answer!Silently(a)
      BY <1>1, <1>5, <2>2 DEF Answer!NoFirstDelta
    <3> HIDE DEF a
    <3>2. route.ids = {} /\ route.open = Answer!NoSection /\ ~route.aborted
      BY <1>1, <2>1, <2>2 DEF AgentAgrees
    <3>3. AgentAgrees'
      BY <1>1, <2>1, <3>1, <3>2 DEF AgentAgrees, Answer!Silently
    <3>4. QED
      BY <3>1, <3>3, AgentIsSilent
  <2>3. CASE ~Answer!MayFallBack(agent)
    <3> DEFINE a == [agent EXCEPT !.at = "stop", !.code = "unavailable"]
    <3>1. a \in ExecutionState /\ a.at = "stop" /\ a.code = "unavailable" /\ Answer!Silently(a)
      BY <1>1, <1>5, <2>3 DEF Answer!Answer, Answer!NoFirstDelta
    <3> HIDE DEF a
    <3>2. AgentAgrees'
      BY <1>1, <2>1, <3>1 DEF AgentAgrees, Answer!Silently
    <3>3. QED
      BY <3>1, <3>2, AgentIsSilent
  <2>4. QED
    BY <2>2, <2>3
<1>6. CASE Answer!SectionText
  <2> DEFINE a == [agent EXCEPT !.deltas = @ + 1]
  <2>1. agent.at = "text" /\ Answer!MayExtend(agent) /\ Answer!Yield(a, "text_delta", agent.i)
    BY <1>6 DEF Answer!SectionText
  <2>2. agent.deltas + 1 \in 0..MaxDelta
    BY <1>2, <2>1 DEF Answer!MayExtend, Answer!BoundsAssumption
  <2>3. a \in ExecutionState /\ a.at = "text" /\ a.i = agent.i /\ a.plan = agent.plan
    BY <1>1, <2>1, <2>2
  <2> HIDE DEF a
  <2>4. /\ agent.i \in Answer!Section /\ agent.i \in route.ids /\ agent.i # Answer!NoSection
        /\ route.open = agent.i /\ ~route.aborted
    BY <1>1, <1>3, <2>1 DEF AgentAgrees
  <2>5. Answer!Accepts([type |-> "text_delta", sec |-> agent.i, answer |-> Answer!None])
    BY <2>4 DEF Answer!Accepts
  <2>6. /\ agent' = a /\ UNCHANGED <<mode, link>> /\ route'.open = route.open
        /\ route'.ids = route.ids /\ ~route'.aborted
        /\ AgentAgrees' => StreamInv'
    BY <2>1, <2>3, <2>4, <2>5, AgentYields DEF Closes
  <2>7. AgentAgrees'
    BY <1>1, <1>3, <2>1, <2>3, <2>4, <2>6 DEF AgentAgrees
  <2>8. QED
    BY <2>6, <2>7
<1>7. CASE Answer!SectionEnds
  <2> DEFINE a == [agent EXCEPT !.at = "section", !.i = @ + 1]
  <2>1. agent.at = "text" /\ Answer!Yield(a, "section_completed", agent.i)
    BY <1>7 DEF Answer!SectionEnds
  <2>2. /\ agent.i \in Answer!Section /\ agent.i \in route.ids /\ agent.i # Answer!NoSection
        /\ route.open = agent.i /\ ~route.aborted /\ agent.i <= Len(agent.plan)
        /\ route.ids \subseteq 1..agent.i
    BY <1>1, <1>3, <2>1 DEF AgentAgrees
  <2>3. agent.i + 1 \in 0..(MaxSection + 1) /\ agent.i + 1 \in 1..(Len(agent.plan) + 1)
        /\ agent.i + 1 - 1 = agent.i
    BY <1>2, <1>3, <2>1, <2>2 DEF Answer!Section
  <2>4. a \in ExecutionState /\ a.at = "section" /\ a.i = agent.i + 1 /\ a.plan = agent.plan
    BY <1>1, <2>1, <2>3
  <2> HIDE DEF a
  <2>5. Answer!Accepts([type |-> "section_completed", sec |-> agent.i, answer |-> Answer!None])
    BY <2>2 DEF Answer!Accepts
  <2>6. /\ agent' = a /\ UNCHANGED <<mode, link>> /\ route'.open = Answer!NoSection
        /\ route'.ids = route.ids /\ ~route'.aborted
        /\ AgentAgrees' => StreamInv'
    BY <2>1, <2>2, <2>4, <2>5, AgentYields DEF Closes
  <2>7. AgentAgrees'
    BY <1>1, <1>3, <2>1, <2>2, <2>3, <2>4, <2>6 DEF AgentAgrees
  <2>8. QED
    BY <2>6, <2>7
<1>8. CASE Answer!SectionFails
  <2>1. PICK c \in {"unavailable", "timeout"} :
            Answer!Silently([agent EXCEPT !.at = IF @ = "text" THEN "abort" ELSE "stop",
              !.code = c])
    BY <1>8 DEF Answer!SectionFails
  <2> DEFINE a == [agent EXCEPT !.at = IF @ = "text" THEN "abort" ELSE "stop", !.code = c]
  <2>2. /\ a \in ExecutionState /\ a.code = c /\ a.i = agent.i
        /\ a.at = IF agent.at = "text" THEN "abort" ELSE "stop"
    BY <1>1 DEF Answer!Answer
  <2>3. Answer!Silently(a) /\ agent.at \in {"text", "section"}
    BY <1>8, <2>1 DEF Answer!SectionFails
  <2> HIDE DEF a
  <2>4. AgentAgrees'
    BY <1>1, <1>3, <2>2, <2>3 DEF AgentAgrees, Answer!Silently
  <2>5. QED
    BY <2>2, <2>3, <2>4, AgentIsSilent
<1>9. CASE Answer!Withdraw
  <2> DEFINE a == [agent EXCEPT !.at = "stop"]
  <2>1. a \in ExecutionState /\ a.at = "stop" /\ a.code = agent.code
    BY <1>1
  <2>2. Answer!Yield(a, "section_aborted", agent.i) /\ agent.at = "abort"
    BY <1>9 DEF Answer!Withdraw
  <2> HIDE DEF a
  <2>3. /\ agent.i \in Answer!Section /\ agent.i # Answer!NoSection /\ route.open = agent.i
    BY <1>1, <1>3, <2>2 DEF AgentAgrees
  <2>4. Answer!Accepts([type |-> "section_aborted", sec |-> agent.i, answer |-> Answer!None])
    BY <2>3 DEF Answer!Accepts
  <2>5. /\ agent' = a /\ UNCHANGED <<mode, link>> /\ route'.open = Answer!NoSection
        /\ AgentAgrees' => StreamInv'
    BY <2>1, <2>2, <2>3, <2>4, AgentYields DEF Closes
  <2>6. AgentAgrees'
    BY <1>1, <2>1, <2>2, <2>5 DEF AgentAgrees
  <2>7. QED
    BY <2>5, <2>6
<1>10. QED
  BY <1>4, <1>5, <1>6, <1>7, <1>8, <1>9

\* The execution is over: what it ends with is told, and stored before if it is to
\* be kept.
LEMMA ExecutionEnds ==
  ASSUME StreamInv, Answer!Pulled, agent' \in ExecutionState, agent'.at = "done",
         UNCHANGED <<mode, runs, thread, sent, link, reader, page>>,
         LogKept', out' \in Seq(PublicEvent), Len(out') <= 2, route' \in RouteState,
         route'.ended, route'.open = Answer!NoSection, turn' \in Answer!Answer
           \union {Answer!None},
         turn' # Answer!None => ~route'.aborted,
         mode.text = "question" /\ Completed' => turn' # Answer!None
  PROVE  StreamInv'
<1>1. link = "up" /\ link' = "up"
  BY DEF Answer!Pulled
<1>2. StreamTypes'
  BY DEF StreamInv, StreamTypes
<1>3. ReaderKeepsUp' /\ PageShows'
  BY <1>1, BrowserSame DEF StreamInv
<1>4. AgentAgrees' /\ Executions' /\ TurnKept'
  BY <1>1 DEF StreamInv, AgentAgrees, Executions, TurnKept
<1>5. QED
  BY <1>2, <1>3, <1>4 DEF StreamInv

LEMMA EndingSteps ==
  ASSUME StreamInv, \/ Answer!Final \/ Answer!StoreFails
                    \/ Answer!TransportTimeout /\ agent.at \notin {"plan", "section", "text"}
  PROVE  StreamInv'
<1>0. Answer!Pulled
  BY DEF Answer!Final, Answer!StoreFails, Answer!TransportTimeout
<1>1. /\ link = "up" /\ ~route.ended /\ route \in RouteState /\ agent \in ExecutionState
      /\ AgentAgrees /\ mode.text \in {"question", "command"} /\ turn = Answer!None
      /\ (mode.text = "question" => ~Completed) /\ StreamTypes /\ LogKept
  BY <1>0, StreamRunning DEF StreamInv, StreamTypes
<1>2. CASE Answer!Final
  <2>1. /\ agent' = [agent EXCEPT !.at = "done"] /\ Answer!Conclude(agent.code)
        /\ UNCHANGED <<mode, runs, thread, sent, link, reader, page>>
        /\ agent.at \in {"final", "stop"}
    BY <1>2 DEF Answer!Final, Answer!browser
  <2>2. agent' \in ExecutionState /\ agent'.at = "done"
    BY <1>1, <2>1 DEF ExecutionState, Places
  <2>3. /\ route.open = Answer!NoSection /\ mode.text = "question"
        /\ agent.code \in {"ok", "action", "unavailable", "timeout", "cancelled"}
        /\ agent.at = "final" => ~route.aborted
        /\ agent.at = "stop" => agent.code \notin {"ok", "action"}
    BY <1>1, <2>1 DEF AgentAgrees
  <2>4. PICK said \in Answer!Answer :
            /\ Answer!Receive([type |-> "final", sec |-> Answer!NoSection, answer |-> said])
            /\ turn' \in {said, Answer!None} /\ (said = "ok" => turn' = said)
            /\ said = "ok" => agent.code = "ok"
            /\ turn' # Answer!None => said \in {"ok", "action"} /\ agent.at = "final"
    BY <1>1, <2>1, <2>3 DEF Answer!Conclude, Answer!Persistent, Answer!Failed, Answer!Answer,
       Answer!None
  <2> DEFINE e == [type |-> "final", sec |-> Answer!NoSection, answer |-> said]
  <2>5. e \in PrivateEvent /\ e.type = "final" /\ e.answer = said /\ said # Answer!None
    BY DEF PrivateEvent, Answer!Answer, Answer!None
  <2>6. Answer!Receive(e)
    BY <2>4
  <2> HIDE DEF e
  <2>7. Answer!Accepts(e)
    BY <2>3, <2>4, <2>5 DEF Answer!Accepts, Answer!Failed
  <2>8. /\ LogKept' /\ out' \in Seq(PublicEvent) /\ Len(out') <= 2
        /\ route' = Answer!RouteAfter(e) /\ route' \in RouteState
        /\ Completed' => Completed \/ said = "ok"
    BY <1>0, <1>1, <2>1, <2>5, <2>6, <2>7, ReceiveTells
  <2>9. route'.ended /\ route'.open = Answer!NoSection /\ (route'.aborted <=> route.aborted)
    BY <1>1, <2>3, <2>5, <2>8 DEF Answer!RouteAfter, RouteState
  <2>10. QED
    BY <1>0, <1>1, <2>1, <2>2, <2>3, <2>4, <2>8, <2>9, ExecutionEnds DEF Answer!Answer,
       Answer!None
<1>3. CASE Answer!StoreFails \/ (Answer!TransportTimeout /\ agent.at \notin {"plan", "section",
        "text"})
  <2>1. PICK a : /\ agent' = [agent EXCEPT !.at = "done"] /\ Answer!Raise(a)
                 /\ UNCHANGED <<mode, runs, thread, turn, sent, link, reader, page>>
    BY <1>3 DEF Answer!StoreFails, Answer!TransportTimeout, Answer!browser
  <2>2. agent' \in ExecutionState /\ agent'.at = "done"
    BY <1>1, <2>1 DEF ExecutionState, Places
  <2>3. /\ LogKept' /\ out' \in Seq(PublicEvent) /\ Len(out') <= 2
        /\ route' \in RouteState /\ route'.ended /\ route'.open = Answer!NoSection
        /\ Completed' => Completed
    BY <1>0, <1>1, <2>1, RaiseTells
  <2>4. QED
    BY <1>0, <1>1, <2>1, <2>2, <2>3, ExecutionEnds
<1>4. QED
  BY <1>2, <1>3

\* A plan or a section takes the timeout for its own.
LEMMA ComposingTimesOut ==
  ASSUME Answer!BoundsAssumption, StreamInv, Answer!TransportTimeout, agent.at \in {"plan",
           "section", "text"}
  PROVE  StreamInv'
<1>1. /\ Answer!Pulled
      /\ Answer!Silently([agent EXCEPT !.at = IF @ = "text" THEN "abort" ELSE "stop",
                                !.code = "cancelled"])
  BY DEF Answer!TransportTimeout, Answer!Silently
<1>2. /\ link = "up" /\ ~route.ended /\ route \in RouteState /\ agent \in ExecutionState
      /\ AgentAgrees /\ mode.text \in {"question", "command"}
  BY <1>1, StreamRunning DEF StreamInv, StreamTypes
<1> DEFINE a == [agent EXCEPT !.at = IF @ = "text" THEN "abort" ELSE "stop",
                              !.code = "cancelled"]
<1>3. /\ a \in ExecutionState /\ a.code = "cancelled" /\ a.i = agent.i
      /\ a.at = IF agent.at = "text" THEN "abort" ELSE "stop"
  BY <1>2 DEF ExecutionState, Places, Answer!Answer
<1>4. Answer!Silently(a)
  BY <1>1
<1> HIDE DEF a
<1>5. AgentAgrees'
  BY <1>2, <1>3, <1>4 DEF AgentAgrees, Answer!Silently
<1>6. QED
  BY <1>3, <1>4, <1>5, AgentIsSilent

\* The thread is resolved and the agent runs, or a command is answered at once.
LEMMA LookupSteps == ASSUME Answer!BoundsAssumption, StreamInv, Answer!Lookup PROVE StreamInv'
<1>0. Answer!Pulled /\ agent.at = "lookup"
  BY DEF Answer!Lookup
<1>1. /\ link = "up" /\ ~route.ended /\ route \in RouteState /\ agent \in ExecutionState
      /\ AgentAgrees /\ mode.text \in {"question", "command"} /\ turn = Answer!None
      /\ (mode.text = "question" => ~Completed) /\ StreamTypes /\ LogKept /\ runs = 0
  BY <1>0, StreamRunning DEF StreamInv, StreamTypes, Executions
<1>2. CASE mode.text = "command"
  <2> DEFINE e == [type |-> "final", sec |-> Answer!NoSection, answer |-> "ok"]
  <2>1. /\ agent' = [agent EXCEPT !.at = "done"] /\ Answer!Receive(e)
        /\ UNCHANGED <<mode, runs, thread, turn, sent, link, reader, page>>
    BY <1>2 DEF Answer!Lookup, Answer!browser
  <2>2. agent' \in ExecutionState /\ agent'.at = "done"
    BY <1>1, <2>1 DEF ExecutionState, Places
  <2>3. e \in PrivateEvent /\ e.type = "final" /\ e.answer = "ok" /\ e.answer # Answer!None
    BY DEF PrivateEvent, Answer!Answer, Answer!None
  <2> HIDE DEF e
  <2>4. Answer!Accepts(e) /\ route.open = Answer!NoSection
    BY <1>0, <1>1, <2>3 DEF Answer!Accepts, AgentAgrees
  <2>5. /\ LogKept' /\ out' \in Seq(PublicEvent) /\ Len(out') <= 2
        /\ route' = Answer!RouteAfter(e) /\ route' \in RouteState
    BY <1>0, <1>1, <2>1, <2>3, <2>4, ReceiveTells
  <2>6. route'.ended /\ route'.open = Answer!NoSection
    BY <1>1, <2>3, <2>4, <2>5 DEF Answer!RouteAfter, RouteState
  <2>7. QED
    BY <1>0, <1>1, <1>2, <2>1, <2>2, <2>5, <2>6, ExecutionEnds
<1>3. CASE mode.text # "command"
  <2>1. /\ agent' = [agent EXCEPT !.at = "retrieve"] /\ runs' = runs + 1 /\ thread' = TRUE
        /\ UNCHANGED <<mode, turn, route, out, sent, link, reader, page>>
    BY <1>3 DEF Answer!Lookup, Answer!browser
  <2>2. agent' \in ExecutionState /\ agent'.at = "retrieve"
    BY <1>1, <2>1 DEF ExecutionState, Places
  <2>3. StreamTypes'
    BY <1>1, <2>1, <2>2 DEF StreamTypes
  <2>4. LogKept' /\ (Completed' <=> Completed) /\ ReaderKeepsUp' /\ PageShows'
    BY <1>1, <2>1, LogSame, BrowserSame DEF StreamInv
  <2>5. AgentAgrees' /\ Executions' /\ TurnKept'
    BY <1>0, <1>1, <1>3, <2>1, <2>2, <2>4 DEF AgentAgrees, Executions, TurnKept
  <2>6. QED
    BY <2>3, <2>4, <2>5 DEF StreamInv
<1>4. QED
  BY <1>2, <1>3

--------------------------------------------------------------------------------
(* The response *)

LEMMA OpenStep == ASSUME StreamInv, Answer!Open PROVE StreamInv'
<1>1. /\ link = "down" /\ link' = "up" /\ sent = <<>> /\ sent' = <<>> /\ mode.streaming
      /\ page.state = "pending" /\ route \in RouteState /\ agent \in ExecutionState
      /\ route.open = Answer!NoSection /\ route.ids = {} /\ ~route.aborted /\ ~route.ended
      /\ runs = 0 /\ turn = Answer!None /\ out = <<>>
      /\ UNCHANGED <<mode, runs, thread, turn, route, reader, page>>
      /\ agent' = [agent EXCEPT !.at = "lookup"]
  BY DEF Answer!Open, StreamInv, StreamTypes, LogKept, Executions, Answer!browser
<1> DEFINE d == Answer!Event("started", Answer!NoSection)
           e == Answer!Event("activity", Answer!NoSection)
<1>2. /\ d \in PublicEvent /\ d.type = "started" /\ e \in PublicEvent /\ e.type = "activity"
  BY Kinds DEF PublicEvent, Answer!Event
<1>3. out' = <<d, e>>
  BY DEF Answer!Open
<1> HIDE DEF d, e
<1>4. sent \in Seq(PublicEvent) /\ Len(sent) = 0 /\ Legal(sent)
      /\ UpToDate(route, sent, Len(sent)) /\ ~Ended(sent, Len(sent))
  <2>1. sent \in Seq(PublicEvent) /\ Len(sent) = 0
    BY <1>1, EmptySeq
  <2>2. UpToDate(route, sent, 0) /\ ~Ended(sent, 0) /\ Legal(sent)
    BY <1>1, <2>1, EmptyLog DEF Legal, UpToDate
  <2>3. QED
    BY <2>1, <2>2
<1> DEFINE m == Append(sent, d)
<1>5. Expected(route, d) /\ After(route, route, d) /\ d.type \notin Answer!Terminal
  BY <1>1, <1>2 DEF Expected, After, Closes, Answer!Terminal, RouteState
<1>6. /\ m \in Seq(PublicEvent) /\ Len(m) = Len(sent) + 1 /\ Legal(m)
      /\ UpToDate(route, m, Len(sent) + 1) /\ ~Ended(m, Len(sent) + 1)
  BY <1>1, <1>2, <1>4, <1>5, LogGoesOn
<1>7. m # <<>> /\ m[1] = d /\ Len(m) = 1 /\ UpToDate(route, m, Len(m)) /\ ~Ended(m, Len(m))
  <2>0. m = Append(sent, d)
    OBVIOUS
  <2> HIDE DEF m
  <2>1. m # <<>> /\ m[Len(sent) + 1] = d
    BY <1>2, <1>4, <2>0, EventAppended
  <2>2. Len(sent) + 1 = 1 /\ Len(m) = Len(sent) + 1
    BY <1>4, <1>6
  <2>3. QED
    BY <1>6, <2>1, <2>2
<1>8. Expected(route, e) /\ After(route, route, e) /\ e.type \notin Answer!Terminal
        /\ e.type # "started"
  BY <1>1, <1>2 DEF Expected, After, Closes, Answer!Terminal, RouteState
<1>9. m = <<d>>
  BY <1>1, <1>2
<1>10. Log' = Append(m, e)
  <2>1. Log' = <<d, e>>
    BY <1>1, <1>2, <1>3, ConcatEmptySeq DEF Log
  <2>2. <<d>> \o <<e>> = <<d, e>>
    BY <1>2, EventsJoined
  <2>3. Append(m, e) = m \o <<e>>
    BY <1>2, <1>6, AppendIsConcat
  <2>4. QED
    BY <1>9, <2>1, <2>2, <2>3
<1> HIDE DEF m
<1>11. /\ Log' \in Seq(PublicEvent) /\ Len(Log') = Len(m) + 1 /\ Legal(Log')
       /\ UpToDate(route, Log', Len(m) + 1) /\ ~Ended(Log', Len(m) + 1)
  BY <1>2, <1>6, <1>7, <1>8, <1>10, LogGoesOn
<1>12. Log' # <<>> /\ Log'[1] = d /\ Log'[2] = e /\ Len(Log') = 2
  <2>1. Log'[Len(m) + 1] = e /\ (\A i \in 1..Len(m) : Log'[i] = m[i]) /\ Log' # <<>>
    BY <1>2, <1>6, <1>10, EventAppended
  <2>2. QED
    BY <1>7, <1>11, <2>1
<1>13. LogKept' /\ ~Completed'
  BY <1>1, <1>2, <1>7, <1>11, <1>12 DEF LogKept, Completed
<1>14. agent' \in ExecutionState /\ agent'.at = "lookup"
  BY <1>1 DEF ExecutionState, Places
<1>15. out' \in Seq(PublicEvent) /\ Len(out') = 2
  BY <1>2, <1>3
<1>16. StreamTypes'
  BY <1>1, <1>14, <1>15 DEF StreamInv, StreamTypes
<1>17. AgentAgrees' /\ Executions' /\ TurnKept'
  BY <1>1, <1>13, <1>14 DEF AgentAgrees, Executions, TurnKept
<1>18. ReaderKeepsUp' /\ PageShows'
  BY <1>1 DEF StreamInv, ReaderKeepsUp, PageShows
<1>19. QED
  BY <1>13, <1>16, <1>17, <1>18 DEF StreamInv

\* Writing an event does not change what the route has decided to tell.
LEMMA WriteMoves ==
  ASSUME NEW S, NEW s \in Seq(S), NEW o \in Seq(S), o # <<>>
  PROVE  /\ Append(s, Head(o)) \o Tail(o) = s \o o
         /\ Append(s, Head(o)) \in Seq(S) /\ Tail(o) \in Seq(S)
         /\ Len(Append(s, Head(o))) = Len(s) + 1 /\ Len(Tail(o)) = Len(o) - 1
         /\ (s \o o)[Len(s) + 1] = Head(o) /\ Len(s) + 1 <= Len(s \o o)
         /\ \A i \in 1..Len(s) : Append(s, Head(o))[i] = s[i] /\ (s \o o)[i] = s[i]
<1> DEFINE h == Head(o)
           t == Tail(o)
           a == Append(s, h)
           x == a \o t
           y == s \o o
<1>1. /\ h \in S /\ t \in Seq(S) /\ Len(t) = Len(o) - 1 /\ Len(o) \in Nat \ {0}
      /\ \A i \in 1..Len(t) : t[i] = o[i + 1]
  BY HeadTailProperties, EmptySeq
<1>2. h = o[1]
  OBVIOUS
<1> HIDE DEF h, t
<1>3. a \in Seq(S) /\ Len(a) = Len(s) + 1 /\ (\A i \in 1..Len(s) : a[i] = s[i])
      /\ a[Len(s) + 1] = h /\ Len(s) \in Nat
  BY <1>1, AppendProperties, LenProperties
<1> HIDE DEF a
<1>4. /\ x \in Seq(S) /\ Len(x) = Len(a) + Len(t)
      /\ \A i \in 1..(Len(a) + Len(t)) : x[i] = IF i <= Len(a) THEN a[i] ELSE t[i - Len(a)]
  BY <1>1, <1>3, ConcatProperties
<1>5. /\ y \in Seq(S) /\ Len(y) = Len(s) + Len(o)
      /\ \A i \in 1..(Len(s) + Len(o)) : y[i] = IF i <= Len(s) THEN s[i] ELSE o[i - Len(s)]
  BY ConcatProperties
<1> HIDE DEF x, y
<1>6. ASSUME NEW i \in 1..Len(x) PROVE x[i] = y[i]
  <2>1. CASE i <= Len(s)
    <3>1. i \in 1..Len(s) /\ i <= Len(a) /\ i \in 1..(Len(a) + Len(t))
            /\ i \in 1..(Len(s) + Len(o))
      BY <1>1, <1>3, <1>4, <2>1
    <3>2. x[i] = a[i]
      BY <1>4, <3>1
    <3>3. y[i] = s[i]
      BY <1>5, <2>1, <3>1
    <3>4. QED
      BY <1>3, <3>1, <3>2, <3>3
  <2>2. CASE i = Len(s) + 1
    <3>1. x[i] = h
      BY <1>1, <1>3, <1>4, <2>2
    <3>2. y[i] = o[1]
      BY <1>1, <1>3, <1>4, <1>5, <2>2
    <3>3. QED
      BY <1>2, <3>1, <3>2
  <2>3. CASE i > Len(s) + 1
    <3> DEFINE k == i - Len(a)
    <3>1. k \in 1..Len(t) /\ i - Len(s) = k + 1 /\ i > Len(a) /\ i \in 1..(Len(s) + Len(o))
          /\ i > Len(s)
      BY <1>1, <1>3, <1>4, <2>3
    <3>2. x[i] = t[k]
      BY <1>1, <1>3, <1>4, <3>1
    <3>3. y[i] = o[k + 1]
      BY <1>3, <1>5, <3>1
    <3>4. QED
      BY <1>1, <3>1, <3>2, <3>3
  <2>4. QED
    BY <1>3, <1>4, <2>1, <2>2, <2>3
<1>7. x = y
  <2>1. Len(x) = Len(y)
    BY <1>1, <1>3, <1>4, <1>5
  <2>2. QED
    BY <1>4, <1>5, <1>6, <2>1, SeqEqual
<1>8. y[Len(s) + 1] = h /\ Len(s) + 1 <= Len(y) /\ \A i \in 1..Len(s) : y[i] = s[i]
  BY <1>1, <1>2, <1>3, <1>5
<1>9. QED
  BY <1>1, <1>3, <1>7, <1>8 DEF x, y, a, h, t

\* The reader stays where it is when more is written.
LEMMA ReaderStays ==
  ASSUME ReaderKeepsUp, PageShows, UNCHANGED <<reader, page, mode>>, Len(sent) <= Len(sent'),
         Len(sent) \in Nat, Len(sent') \in Nat, reader.read \in Nat,
         \A i \in 1..Len(sent) : sent'[i] = sent[i], link # "down", link' # "down"
  PROVE  ReaderKeepsUp' /\ PageShows'
<1>1. \A i \in 1..reader.read : sent'[i] = sent[i]
  BY DEF ReaderKeepsUp
<1>2. /\ Begun(sent', reader.read) = Begun(sent, reader.read)
      /\ Shut(sent', reader.read) = Shut(sent, reader.read)
      /\ Dropped(sent', reader.read) = Dropped(sent, reader.read)
  BY <1>1, SameBeginning
<1>3. UpToDate(reader, sent', reader.read)
  BY <1>2 DEF ReaderKeepsUp, UpToDate
<1>4. ReaderKeepsUp'
  BY <1>3 DEF ReaderKeepsUp
<1>5. PageShows'
  BY <1>2 DEF PageShows
<1>6. QED
  BY <1>4, <1>5

LEMMA WriteStep == ASSUME StreamInv, Answer!Write PROVE StreamInv'
<1>1. /\ link = "up" /\ link' = "up" /\ out # <<>> /\ sent' = Append(sent, Head(out))
      /\ out' = Tail(out) /\ sent \in Seq(PublicEvent) /\ out \in Seq(PublicEvent)
      /\ Len(out) <= 2 /\ Len(out) \in Nat
      /\ UNCHANGED <<mode, agent, runs, thread, turn, route, reader, page>>
  BY DEF Answer!Write, StreamInv, StreamTypes, Answer!browser
<1>2. /\ Log' = Log /\ sent' \in Seq(PublicEvent) /\ out' \in Seq(PublicEvent)
      /\ Len(sent') = Len(sent) + 1 /\ Len(out') = Len(out) - 1 /\ Len(sent) \in Nat
      /\ \A i \in 1..Len(sent) : sent'[i] = sent[i]
  BY <1>1, WriteMoves, LenProperties DEF Log
<1>3. StreamTypes'
  BY <1>1, <1>2 DEF StreamInv, StreamTypes
<1>4. LogKept' /\ (Completed' <=> Completed)
  BY <1>1, <1>2 DEF StreamInv, LogKept, Completed
<1>5. ReaderKeepsUp' /\ PageShows'
  BY <1>1, <1>2, ReaderStays DEF StreamInv, StreamTypes, ReaderState
<1>6. AgentAgrees' /\ Executions' /\ TurnKept'
  BY <1>1, <1>4 DEF StreamInv, AgentAgrees, Executions, TurnKept
<1>7. QED
  BY <1>3, <1>4, <1>5, <1>6 DEF StreamInv

LEMMA CloseStep == ASSUME StreamInv, Answer!Close PROVE StreamInv'
<1>1. /\ link = "up" /\ link' = "closed" /\ out = <<>>
      /\ UNCHANGED <<mode, agent, runs, thread, turn, route, out, sent, reader, page>>
  BY DEF Answer!Close, Answer!browser
<1>2. StreamTypes'
  BY <1>1 DEF StreamInv, StreamTypes
<1>3. LogKept' /\ (Completed' <=> Completed) /\ ReaderKeepsUp' /\ PageShows'
  BY <1>1, BrowserSame DEF StreamInv, LogKept, Log, Completed
<1>4. AgentAgrees' /\ Executions' /\ TurnKept'
  BY <1>1, <1>3 DEF StreamInv, AgentAgrees, Executions, TurnKept
<1>5. QED
  BY <1>2, <1>3, <1>4 DEF StreamInv

\* What was not written is never told.
LEMMA DisconnectStep == ASSUME StreamInv, Answer!Disconnect PROVE StreamInv'
<1>1. /\ link = "up" /\ link' = "cut" /\ out' = <<>> /\ agent' = [agent EXCEPT !.at = "done"]
      /\ UNCHANGED <<mode, runs, thread, turn, route, sent, reader, page>>
      /\ sent \in Seq(PublicEvent) /\ out \in Seq(PublicEvent) /\ agent \in ExecutionState
  BY DEF Answer!Disconnect, StreamInv, StreamTypes, Answer!browser
<1>2. agent' \in ExecutionState /\ out' \in Seq(PublicEvent) /\ Len(out') <= 2
  BY <1>1, EmptySeq DEF ExecutionState, Places
<1>3. StreamTypes'
  BY <1>1, <1>2 DEF StreamInv, StreamTypes
<1>4. /\ Log' = sent /\ Len(Log) = Len(sent) + Len(out) /\ Len(sent) \in Nat /\ Len(out) \in Nat
      /\ \A i \in 1..Len(sent) : Log[i] = sent[i]
  BY <1>1, ConcatEmptySeq, ConcatProperties, LenProperties DEF Log
<1>5. Legal(Log')
  BY <1>4, LegalBeginning DEF StreamInv, LogKept
<1>6. Completed' => Completed
  BY <1>4 DEF Completed
<1>7. LogKept'
  BY <1>1, <1>5 DEF LogKept
<1>8. ReaderKeepsUp' /\ PageShows'
  BY <1>1, BrowserSame DEF StreamInv
<1>9. AgentAgrees' /\ Executions' /\ TurnKept'
  BY <1>1, <1>6 DEF StreamInv, AgentAgrees, Executions, TurnKept
<1>10. QED
  BY <1>3, <1>7, <1>8, <1>9 DEF StreamInv

LEMMA DeleteThreadStep == ASSUME StreamInv, Answer!DeleteThread PROVE StreamInv'
<1>1. /\ agent.at # "idle" /\ thread' = FALSE
      /\ turn' = IF turn = Answer!None THEN Answer!None ELSE "deleted"
      /\ UNCHANGED <<mode, agent, runs, route, out, sent, link, reader, page>>
  BY DEF Answer!DeleteThread, Answer!browser
<1>2. link # "down" /\ (turn' # Answer!None <=> turn # Answer!None)
  BY <1>1 DEF StreamInv, LogKept, Answer!None
<1>3. StreamTypes'
  BY <1>1 DEF StreamInv, StreamTypes, Answer!None
<1>4. LogKept' /\ (Completed' <=> Completed) /\ ReaderKeepsUp' /\ PageShows'
  BY <1>1, <1>2, LogSame, BrowserSame DEF StreamInv
<1>5. AgentAgrees' /\ Executions' /\ TurnKept'
  BY <1>1, <1>2, <1>4 DEF StreamInv, AgentAgrees, Executions, TurnKept
<1>6. QED
  BY <1>3, <1>4, <1>5 DEF StreamInv

--------------------------------------------------------------------------------
(* The browser *)

\* The next event of the response is one the reader expects.
LEMMA NextIsExpected ==
  ASSUME StreamInv, reader.read < Len(sent)
  PROVE  LET e == sent[reader.read + 1]
         IN  /\ e \in PublicEvent /\ reader.read \in Nat /\ Len(sent) \in Nat
             /\ MayCome(sent, reader.read, e) /\ Expected(reader, e) /\ Answer!Expects(e)
<1> DEFINE n == reader.read
           e == sent[n + 1]
<1>1. /\ sent \in Seq(PublicEvent) /\ out \in Seq(PublicEvent) /\ n \in Nat
      /\ Len(sent) \in Nat /\ Len(out) \in Nat
  BY LenProperties DEF StreamInv, StreamTypes, ReaderState
<1>2. n + 1 \in 1..Len(sent)
  BY <1>1
<1>3. e \in PublicEvent
  BY <1>1, <1>2
<1>4. /\ Len(Log) = Len(sent) + Len(out) /\ \A i \in 1..Len(sent) : Log[i] = sent[i]
  BY <1>1, ConcatProperties DEF Log
<1>5. Legal(sent)
  BY <1>1, <1>4, LegalBeginning DEF StreamInv, LogKept
<1> HIDE DEF e
<1>6. MayCome(sent, n, e)
  <2> DEFINE k == n + 1
  <2>1. k \in 1..Len(sent) /\ k - 1 = n /\ sent[k] = e
    BY <1>1, <1>2 DEF e
  <2> HIDE DEF k, n
  <2>2. MayCome(sent, k - 1, sent[k])
    BY <1>5, <2>1 DEF Legal
  <2>3. QED
    BY <2>1, <2>2
<1>7. UpToDate(reader, sent, n)
  BY DEF StreamInv, ReaderKeepsUp
<1>8. ~Ended(sent, n) /\ ((e.type = "started") <=> (n = 0))
  BY <1>6 DEF MayCome
<1>9. Expected(reader, e)
  BY <1>1, <1>3, <1>6, <1>7, <1>8, ExpectedMayCome
<1>10. Answer!Expects(e)
  BY <1>8, <1>9 DEF Answer!Expects, Expected, Closes
<1>11. QED
  BY <1>1, <1>3, <1>6, <1>9, <1>10 DEF e

LEMMA ReadStep == ASSUME StreamInv, Answer!Read PROVE StreamInv'
<1> DEFINE n == reader.read
           e == sent[n + 1]
<1>1. /\ e \in PublicEvent /\ n \in Nat /\ Len(sent) \in Nat /\ n < Len(sent)
      /\ MayCome(sent, n, e) /\ Expected(reader, e) /\ Answer!Expects(e)
  BY NextIsExpected DEF Answer!Read
<1>2. /\ reader' = Answer!ReaderAfter(e) /\ page' = Answer!PageAfter(e) /\ page.state = "pending"
      /\ reader.result = Answer!None
      /\ UNCHANGED <<mode, agent, runs, thread, turn, route, out, sent, link>>
  BY <1>1 DEF Answer!Read, Answer!server
<1>3. /\ reader \in ReaderState /\ page \in PageState /\ sent \in Seq(PublicEvent)
      /\ UpToDate(reader, sent, n)
  BY DEF StreamInv, StreamTypes, ReaderKeepsUp
<1>4. n + 1 \in 1..Len(sent) /\ sent[n + 1] = e
  BY <1>1
<1> HIDE DEF e
<1>5. link # "down"
  <2>1. Len(sent) # 0
    BY <1>1
  <2>2. QED
    BY <2>1, EmptySeq DEF StreamInv, LogKept
<1>6. e.type \in Answer!Contract!Kind /\ e.sec \in Answer!Section \union {Answer!NoSection}
  BY <1>1 DEF PublicEvent
<1>7. /\ reader'.read = n + 1
      /\ reader'.open = CASE e.type = "section_started" -> e.sec
                          [] e.type \in Closes -> Answer!NoSection
                          [] OTHER -> reader.open
      /\ reader'.ids = IF e.type = "section_started" THEN reader.ids \union {e.sec}
                       ELSE reader.ids
      /\ reader'.aborted = (reader.aborted \/ e.type = "section_aborted")
      /\ reader'.result = CASE e.type = "completed" -> "completed"
                            [] e.type \in {"error", "cancelled"} -> "failed"
                            [] OTHER -> Answer!None
  BY <1>2 DEF Answer!ReaderAfter, Closes
<1>8. e.type = "section_started" => e.sec \in Answer!Section
  BY <1>1, <1>6 DEF Expected
<1>9. reader' \in ReaderState
  <2>1. DOMAIN reader' = {"read", "open", "ids", "aborted", "result"}
        /\ reader' = [read |-> reader'.read, open |-> reader'.open, ids |-> reader'.ids,
                      aborted |-> reader'.aborted, result |-> reader'.result]
    BY <1>2 DEF Answer!ReaderAfter
  <2>2. reader'.read \in Nat /\ reader'.open \in Answer!Section \union {Answer!NoSection}
    BY <1>1, <1>3, <1>6, <1>7 DEF ReaderState
  <2>3. reader'.ids \in SUBSET Answer!Section /\ reader'.aborted \in BOOLEAN
    BY <1>3, <1>7, <1>8 DEF ReaderState
  <2>4. reader'.result \in {Answer!None, "completed", "failed"}
    BY <1>7
  <2>5. QED
    BY <2>1, <2>2, <2>3, <2>4 DEF ReaderState
<1>10. UpToDate(reader', sent, n + 1)
  <2>1. After(reader, reader', e)
    BY <1>7 DEF After
  <2>2. QED
    BY <1>1, <1>3, <1>4, <2>1, NoteTaken
<1>11. ReaderKeepsUp'
  BY <1>1, <1>2, <1>4, <1>7, <1>10 DEF ReaderKeepsUp, Answer!None
<1>12. /\ page' \in PageState /\ page'.state \in {"pending", "failed"}
       /\ page'.state = "failed" => page'.sections = {} /\ e.type \in {"error", "cancelled"}
       /\ \/ page'.sections \subseteq page.sections \ (IF e.type = "section_aborted" THEN {e.sec}
               ELSE {})
          \/ e.type = "section_started" /\ page'.sections = page.sections \union {e.sec}
  BY <1>2, <1>3, <1>8 DEF Answer!PageAfter, PageState
<1>13. /\ Dropped(sent, n + 1) = Dropped(sent, n) \union
              (IF e.type = "section_aborted" THEN {e.sec} ELSE {})
  BY <1>1, <1>4, OneMore
<1>14. page.sections \subseteq reader.ids /\ page.sections \intersect Dropped(sent, n) = {}
       /\ mode.streaming
  BY <1>5 DEF StreamInv, PageShows
<1>15. Dropped(sent, n) \subseteq reader.ids /\ (e.type = "section_started"
         => e.sec \notin reader.ids)
  BY <1>1, <1>3 DEF UpToDate, Expected
<1>16. page'.sections \subseteq reader'.ids /\ page'.sections \intersect Dropped(sent, n + 1) = {}
  <2>1. CASE e.type = "section_started" /\ page'.sections = page.sections \union {e.sec}
    BY <1>7, <1>13, <1>14, <1>15, <2>1
  <2>2. CASE page'.sections \subseteq page.sections \ (IF e.type = "section_aborted" THEN {e.sec}
          ELSE {})
    <3>1. reader.ids \subseteq reader'.ids
      BY <1>7
    <3>2. QED
      BY <1>13, <1>14, <2>2, <3>1
  <2>3. QED
    BY <1>12, <2>1, <2>2
<1>17. PageShows'
  BY <1>2, <1>5, <1>7, <1>12, <1>14, <1>16 DEF PageShows
<1>18. StreamTypes'
  BY <1>2, <1>9, <1>12 DEF StreamInv, StreamTypes
<1>19. LogKept' /\ (Completed' <=> Completed)
  BY <1>2, <1>5, LogSame DEF StreamInv
<1>20. AgentAgrees' /\ Executions' /\ TurnKept'
  BY <1>2, <1>5, <1>19 DEF StreamInv, AgentAgrees, Executions, TurnKept
<1>21. QED
  BY <1>11, <1>17, <1>18, <1>19, <1>20 DEF StreamInv

\* Only the reader's result or the page changes.
LEMMA OtherPageSteps ==
  ASSUME StreamInv, Answer!Submit \/ Answer!StreamRefused \/ Answer!Fallback \/ Answer!Truncated
           \/ Answer!Settle
  PROVE  StreamInv'
<1>1. /\ UNCHANGED <<mode, agent, route, out, sent, link>>
      /\ StreamTypes /\ LogKept /\ ReaderKeepsUp /\ PageShows /\ Executions /\ TurnKept
      /\ AgentAgrees
      /\ reader \in ReaderState /\ page \in PageState
  BY DEF Answer!Submit, Answer!StreamRefused, Answer!Fallback, Answer!Truncated, Answer!Settle,
     StreamInv, StreamTypes, Answer!server, Answer!browser
<1>2. LogKept' /\ (Completed' <=> Completed)
  BY <1>1 DEF LogKept, Log, Completed
<1>3. AgentAgrees'
  BY <1>1 DEF AgentAgrees
<1>4. CASE Answer!Submit
  <2>1. /\ page' = [page EXCEPT !.state = "pending"] /\ page.state = "idle"
        /\ UNCHANGED <<reader, runs, thread, turn>>
    BY <1>4 DEF Answer!Submit, Answer!server
  <2>2. page' \in PageState /\ page'.state = "pending" /\ page'.sections = page.sections
    BY <1>1, <2>1 DEF PageState
  <2>3. StreamTypes' /\ ReaderKeepsUp'
    BY <1>1, <2>1, <2>2 DEF StreamTypes, ReaderKeepsUp
  <2>4. PageShows' /\ Executions' /\ TurnKept'
    BY <1>1, <1>2, <2>1, <2>2 DEF PageShows, Executions, TurnKept
  <2>5. QED
    BY <1>2, <1>3, <2>3, <2>4 DEF StreamInv
<1>5. CASE Answer!StreamRefused \/ Answer!Truncated
  <2>1. PICK x \in {"truncated", "unavailable"} :
            /\ reader' = [reader EXCEPT !.result = x] /\ reader.result = Answer!None
            /\ x = "unavailable" => link = "down" /\ ~mode.streaming
            /\ UNCHANGED <<page, runs, thread, turn>>
    BY <1>5 DEF Answer!StreamRefused, Answer!Truncated, Answer!server
  <2>2. /\ reader' \in ReaderState /\ reader'.result = x /\ reader'.read = reader.read
        /\ reader'.open = reader.open /\ reader'.ids = reader.ids
        /\ reader'.aborted = reader.aborted
    BY <1>1, <2>1 DEF ReaderState
  <2>3. StreamTypes'
    BY <1>1, <2>1, <2>2 DEF StreamTypes
  <2>4. ReaderKeepsUp'
    BY <1>1, <2>1, <2>2 DEF ReaderKeepsUp, UpToDate
  <2>5. PageShows' /\ Executions' /\ TurnKept'
    BY <1>1, <1>2, <2>1, <2>2 DEF PageShows, Executions, TurnKept, Answer!None
  <2>6. QED
    BY <1>2, <1>3, <2>3, <2>4, <2>5 DEF StreamInv
<1>6. CASE Answer!Settle
  <2>1. /\ page'.state \in {"cleared", "refused"} /\ page'.sections = {} /\ page' \in PageState
        /\ UNCHANGED <<reader, runs, thread, turn>> /\ page.state \in {"pending", "failed"}
    BY <1>1, <1>6 DEF Answer!Settle, Answer!server, PageState
  <2>2. StreamTypes' /\ ReaderKeepsUp'
    BY <1>1, <2>1 DEF StreamTypes, ReaderKeepsUp
  <2>3. PageShows' /\ Executions' /\ TurnKept'
    BY <1>1, <1>2, <2>1 DEF PageShows, Executions, TurnKept
  <2>4. QED
    BY <1>2, <1>3, <2>2, <2>3 DEF StreamInv
<1>7. CASE Answer!Fallback
  <2>1. /\ page'.state \in {"cleared", "refused"} /\ page'.sections = {} /\ page' \in PageState
        /\ UNCHANGED <<reader, thread>> /\ page.state \in {"pending", "failed"}
        /\ runs' \in {runs, runs + 1} /\ turn' \in Answer!Answer \union {turn}
        /\ reader.result = "unavailable"
    BY <1>7 DEF Answer!Fallback, Answer!FallsBack, PageState, Answer!Answer
  <2>2. link = "down" /\ page.state = "pending" /\ runs = 0 /\ turn = Answer!None
    BY <1>1, <2>1 DEF ReaderKeepsUp, PageShows, Executions
  <2>3. StreamTypes' /\ ReaderKeepsUp'
    BY <1>1, <2>1, <2>2 DEF StreamTypes, ReaderKeepsUp
  <2>4. PageShows' /\ Executions'
    BY <1>1, <2>1, <2>2 DEF PageShows, Executions
  <2>5. ~Completed
    <3>1. sent = <<>> /\ out = <<>>
      BY <1>1, <2>2 DEF LogKept
    <3>2. Log = <<>>
      BY <3>1, ConcatEmptySeq DEF Log
    <3>3. QED
      BY <3>2, EmptySeq DEF Completed
  <2>6. TurnKept'
    BY <1>1, <1>2, <2>2, <2>5 DEF TurnKept, LogKept
  <2>7. QED
    BY <1>2, <1>3, <2>3, <2>4, <2>6 DEF StreamInv
<1>8. QED
  BY <1>4, <1>5, <1>6, <1>7

--------------------------------------------------------------------------------
(* Theorems *)

LEMMA StreamInvStep ==
  ASSUME Answer!BoundsAssumption, StreamInv, [Answer!Next]_(Answer!vars)
  PROVE  StreamInv'
<1>1. CASE Answer!AgentStep
  BY <1>1, LookupSteps, ComposingSteps, SectionSteps, EndingSteps DEF Answer!AgentStep
<1>2. CASE Answer!Open
  BY <1>2, OpenStep
<1>3. CASE Answer!Write
  BY <1>3, WriteStep
<1>4. CASE Answer!Close
  BY <1>4, CloseStep
<1>5. CASE Answer!TransportTimeout
  BY <1>5, EndingSteps, ComposingTimesOut
<1>6. CASE Answer!Disconnect
  BY <1>6, DisconnectStep
<1>7. CASE Answer!DeleteThread
  BY <1>7, DeleteThreadStep
<1>8. CASE Answer!PageStep
  BY <1>8, ReadStep, OtherPageSteps DEF Answer!PageStep
<1>9. CASE UNCHANGED Answer!vars
  <2>1. UNCHANGED <<mode, agent, runs, thread, turn, route, out, sent, link, reader, page>>
    BY <1>9 DEF Answer!vars
  <2>2. Log' = Log /\ Completed' = Completed
    BY <2>1 DEF Log, Completed
  <2>3. StreamTypes' /\ LogKept' /\ AgentAgrees' /\ ReaderKeepsUp'
    BY <2>1, <2>2 DEF StreamInv, StreamTypes, LogKept, AgentAgrees, ReaderKeepsUp
  <2>4. PageShows' /\ Executions' /\ TurnKept'
    BY <2>1, <2>2 DEF StreamInv, PageShows, Executions, TurnKept
  <2>5. QED
    BY <2>3, <2>4 DEF StreamInv
<1>10. QED
  BY <1>1, <1>2, <1>3, <1>4, <1>5, <1>6, <1>7, <1>8, <1>9 DEF Answer!Next

LEMMA StreamInvMeans ==
  ASSUME StreamInv
  PROVE  Answer!ReaderAcceptsAll /\ Answer!ToldIsStored /\ Answer!PartialIsNotStored
           /\ Answer!WithdrawnIsGone /\ Answer!ExecutedOnce
<1>1. Answer!ReaderAcceptsAll
  BY DEF StreamInv, StreamTypes, ReaderState, Answer!ReaderAcceptsAll, Answer!None
<1>2. Answer!PartialIsNotStored
  BY DEF StreamInv, TurnKept, Answer!PartialIsNotStored
<1>3. Answer!ToldIsStored
  <2>1. sent \in Seq(PublicEvent) /\ out \in Seq(PublicEvent)
    BY DEF StreamInv, StreamTypes
  <2>2. /\ Len(Log) = Len(sent) + Len(out) /\ Len(sent) \in Nat /\ Len(out) \in Nat
        /\ \A i \in 1..Len(sent) : Log[i] = sent[i]
    BY <2>1, ConcatProperties, LenProperties DEF Log
  <2>3. reader.result = "completed" => Completed
    BY <2>2 DEF StreamInv, ReaderKeepsUp, Completed
  <2>4. QED
    BY <2>3 DEF StreamInv, TurnKept, Answer!ToldIsStored
<1>4. Answer!WithdrawnIsGone
  <2>1. \A i \in 1..reader.read : sent[i].type = "section_aborted"
            => sent[i].sec \in Dropped(sent, reader.read)
    BY DEF Dropped
  <2>2. QED
    BY <2>1 DEF StreamInv, PageShows, Answer!WithdrawnIsGone
<1>5. Answer!ExecutedOnce
  BY DEF StreamInv, Executions, Answer!ExecutedOnce
<1>6. QED
  BY <1>1, <1>2, <1>3, <1>4, <1>5

\* Mode, execution, route, reader and page keep their shape.
LEMMA StreamTypesMean == ASSUME StreamInv PROVE Answer!TypeOK
<1>1. Len(sent) \in Nat
  BY LenProperties DEF StreamInv, StreamTypes
<1>2. QED
  BY <1>1 DEF StreamInv, StreamTypes, ReaderKeepsUp, Answer!TypeOK, ExecutionState, Places,
     RouteState,
     ReaderState, PageState

\* A step writes nothing, or the next event the route has decided to tell.
LEMMA StepFollowsContract ==
  ASSUME StreamInv, [Answer!Next]_(Answer!vars)
  PROVE  [Answer!Contract!Next]_sent
<1>1. CASE Answer!Write
  <2> DEFINE e == Head(out)
             n == Len(sent)
  <2>1. /\ link = "up" /\ out # <<>> /\ sent' = Append(sent, e)
        /\ sent \in Seq(PublicEvent) /\ out \in Seq(PublicEvent)
    BY <1>1 DEF Answer!Write, StreamInv, StreamTypes
  <2>2. e \in PublicEvent
    BY <2>1, HeadTailProperties
  <2>3. /\ Log[n + 1] = e /\ n + 1 <= Len(Log) /\ n \in Nat /\ Len(Log) \in Nat
        /\ \A i \in 1..n : Log[i] = sent[i]
    <3>1. /\ (sent \o out)[Len(sent) + 1] = Head(out) /\ Len(sent) + 1 <= Len(sent \o out)
          /\ \A i \in 1..Len(sent) : (sent \o out)[i] = sent[i]
      BY <2>1, WriteMoves
    <3>2. Len(sent) \in Nat /\ Len(sent \o out) \in Nat
      BY <2>1, ConcatProperties, LenProperties
    <3>3. QED
      BY <3>1, <3>2 DEF Log
  <2>4. DOMAIN sent = 1..n /\ (sent = <<>> <=> n = 0)
    BY <2>1, LenProperties, EmptySeq
  <2> HIDE DEF e, n
  <2>5. MayCome(sent, n, e)
    <3> DEFINE k == n + 1
    <3>1. k \in 1..Len(Log) /\ k - 1 = n /\ Log[k] = e
      BY <2>3
    <3> HIDE DEF k
    <3>2. MayCome(Log, k - 1, Log[k])
      BY <3>1 DEF StreamInv, LogKept, Legal
    <3>3. MayCome(Log, n, e)
      BY <3>1, <3>2
    <3>4. /\ Begun(Log, n) = Begun(sent, n) /\ Shut(Log, n) = Shut(sent, n)
          /\ Dropped(Log, n) = Dropped(sent, n) /\ (Ended(Log, n) <=> Ended(sent, n))
      BY <2>3, SameBeginning
    <3>5. QED
      BY <3>3, <3>4 DEF MayCome
  <2>6. /\ Answer!Contract!Sections({"section_started"}) = Begun(sent, n)
        /\ Answer!Contract!OpenSections = Begun(sent, n) \ Shut(sent, n)
    BY <2>4, Kinds DEF Answer!Contract!Sections, Answer!Contract!OpenSections, Begun, Shut, Closes
  <2>7. /\ Answer!Contract!Seen(Answer!Contract!Terminal) <=> Ended(sent, n)
        /\ Answer!Contract!Seen({"section_started"}) <=> Begun(sent, n) # {}
        /\ Answer!Contract!Seen({"section_aborted"}) <=> Dropped(sent, n) # {}
    BY <2>4, Kinds DEF Answer!Contract!Seen, Begun, Ended, Dropped
  <2>8. Answer!Contract!May(e)
    BY <2>4, <2>5, <2>6, <2>7, Kinds DEF Answer!Contract!May, MayCome, Answer!NoSection
  <2>9. e \in Answer!Contract!Event
    BY <2>2 DEF PublicEvent, Answer!Contract!Event, Answer!NoSection
  <2>10. QED
    BY <2>1, <2>8, <2>9 DEF Answer!Contract!Next
<1>2. CASE ~Answer!Write
  <2>1. UNCHANGED sent
    BY <1>2 DEF Answer!Next, Answer!vars, Answer!AgentStep, Answer!Lookup, Answer!Retrieved,
       Answer!Streamable, Answer!Planned, Answer!Finalize, Answer!WholeText,
       Answer!SectionStarts, Answer!NoFirstDelta, Answer!SectionText, Answer!SectionEnds,
         Answer!AllSections, Answer!SectionFails, Answer!Withdraw,
       Answer!Final, Answer!StoreFails, Answer!Silently, Answer!Yield, Answer!Open, Answer!Close,
         Answer!TransportTimeout, Answer!Disconnect,
       Answer!DeleteThread, Answer!PageStep, Answer!Submit, Answer!StreamRefused, Answer!Fallback,
         Answer!Read, Answer!Truncated, Answer!Settle
  <2>2. QED
    BY <2>1
<1>3. QED
  BY <1>1, <1>2

\* The execution, the route, the reader and the page keep their shape, and the agent
\* its place in its plan (AnswerStream).
THEOREM StreamTypesHold == ASSUME Answer!BoundsAssumption PROVE Answer!Spec => []Answer!TypeOK
<1>1. Answer!Init => StreamInv
  BY StreamStarts
<1>2. StreamInv /\ [Answer!Next]_(Answer!vars) => StreamInv'
  BY StreamInvStep
<1>3. StreamInv => Answer!TypeOK
  BY StreamTypesMean
<1>4. QED
  BY <1>1, <1>2, <1>3, PTL DEF Answer!Spec

\* What the route writes to the response is a behaviour of StreamContract: one
\* section at a time, none twice, none open at the end, no success after a section
\* was withdrawn, and nothing after the end (conversation_routes.py 971-1136).
THEOREM StreamFollowsContract == ASSUME Answer!BoundsAssumption PROVE Answer!Spec
  => FollowsContract
<1>1. Answer!Init => StreamInv
  BY StreamStarts
<1>2. StreamInv /\ [Answer!Next]_(Answer!vars) => StreamInv'
  BY StreamInvStep
<1>3. Answer!Init => Answer!Contract!Init
  BY DEF Answer!Init, Answer!Contract!Init
<1>4. StreamInv /\ [Answer!Next]_(Answer!vars) => [Answer!Contract!Next]_sent
  BY StepFollowsContract
<1>5. QED
  BY <1>1, <1>2, <1>3, <1>4, PTL DEF Answer!Spec, FollowsContract, Answer!FollowsContract,
         Answer!Contract!Spec

\* An answer the page was told is complete is stored, a stream that withdrew a
\* section leaves neither a turn nor its text, the reader accepts all that is
\* written, and one message is executed once (service.py 275-314, ChatPage.tsx
\* 240-305, client.ts 452-558).
THEOREM AnswersAreWhole ==
  ASSUME Answer!BoundsAssumption PROVE Answer!Spec => []AnswerIsWhole
<1>1. Answer!Init => StreamInv
  BY StreamStarts
<1>2. StreamInv /\ [Answer!Next]_(Answer!vars) => StreamInv'
  BY StreamInvStep
<1>3. StreamInv => AnswerIsWhole
  BY StreamInvMeans DEF AnswerIsWhole
<1>4. QED
  BY <1>1, <1>2, <1>3, PTL DEF Answer!Spec

================================================================================
