----------------------------- MODULE PendingProofs -----------------------------
(******************************************************************************)
(* Theorems about PendingDelete, for every set of items and handlers and      *)
(* every number of messages, actions and tokens.                              *)
(*                                                                            *)
(* The argument: a handler in the middle of a deletion holds a token of its   *)
(* own and the message whose code names its action (CallersHold,              *)
(* ClaimsDiffer). Every operation that writes a row writes the one unresolved *)
(* action of the thread (WriteKeeps), so rows resolve once. Tokens and fences *)
(* are drawn from one counter, so a fence is never the token of a claim       *)
(* (FencesInOrder), and what a deletion saw of its targets stays true or is   *)
(* overruled by a later restore (ResultsHold).                                *)
(******************************************************************************)
EXTENDS PendingDelete, TLAPS

--------------------------------------------------------------------------------
(* The inductive invariant *)

\* A handler works on a message that was sent; one that deletes holds an action
\* of kind delete, a token that was drawn, and the code of its action.
CallersHold ==
    \A c \in Caller :
        /\ caller[c].pc # "idle" => caller[c].msg \in 1..sent
        /\ Deleting(c) => /\ caller[c].act \in 1..actions
                          /\ action[caller[c].act].kind = "delete"
                          /\ caller[c].token \in 1..tokens
                          /\ code[caller[c].msg] = caller[c].act

\* No two handlers hold the same token.
ClaimsDiffer ==
    \A c, d \in Caller :
        Deleting(c) /\ Deleting(d) /\ caller[c].token = caller[d].token => c = d

\* Rows are made in order, and only deletions are applied.
RowsInOrder ==
    \A a \in ActionId :
        /\ a > actions => action[a] = NoAction
        /\ action[a].state = "applying" => action[a].kind = "delete"

\* A deletion is consumed by a message that shows its code.
ConsumedByCode ==
    \A a \in ActionId :
        action[a].state = "consumed" /\ action[a].kind = "delete"
        => action[a].by \in 1..sent /\ code[action[a].by] = a

\* The fence of an item outside the recycle bin is its last restore, and no
\* deletion that is under way claimed its token by restoring.
FencesInOrder ==
    \A i \in Item :
        /\ restored[i] <= tokens
        /\ ~item[i].deleted => item[i].fence = restored[i]
        /\ \A c \in Caller : Deleting(c) => restored[i] # caller[c].token

\* What a deletion is about to report of a target is so, unless the target was
\* restored since.
ResultsHold ==
    \A c \in Caller :
        caller[c].pc = "settle" =>
            \A i \in action[caller[c].act].targets :
                /\ caller[c].result[i] \in Outcome
                /\ caller[c].result[i] \in {"deleted", "already_deleted"}
                   => item[i].deleted \/ restored[i] > caller[c].token
                /\ caller[c].result[i] = "already_restored" => restored[i] > 0

IInv ==
    /\ TypeOK
    /\ CallersHold
    /\ ClaimsDiffer
    /\ RowsInOrder
    /\ OneActiveAction
    /\ ConsumedByCode
    /\ MessageConsumesOnce
    /\ FencesInOrder
    /\ ResultsHold

--------------------------------------------------------------------------------
(* Initial states, rows and tokens *)

\* The initial states satisfy the invariant.
LEMMA InitInv == Init => IInv
<1> SUFFICES ASSUME Init PROVE IInv
  OBVIOUS
<1> USE PendingBounds DEF Init
<1>1. TypeOK
  BY DEF TypeOK, None, Code, Message, ActionId, Token, ActionRow, NoAction, Active,
         Resolved, Outcome, NoResult, CallerState, IdleCaller
<1>2. CallersHold /\ ClaimsDiffer /\ FencesInOrder /\ ResultsHold
  BY DEF CallersHold, ClaimsDiffer, FencesInOrder, ResultsHold, Deleting, IdleCaller, None
<1>3. RowsInOrder /\ OneActiveAction /\ ConsumedByCode /\ MessageConsumesOnce
  BY DEF RowsInOrder, OneActiveAction, ConsumedByCode, MessageConsumesOnce, NoAction,
         Active
<1>4. QED
  BY <1>1, <1>2, <1>3 DEF IInv

\* A step that changes nothing keeps the invariant.
LEMMA StutterInv == IInv /\ UNCHANGED vars => IInv'
  BY DEF IInv, vars, TypeOK, CallersHold, ClaimsDiffer, RowsInOrder, OneActiveAction,
         ConsumedByCode, MessageConsumesOnce, FencesInOrder, ResultsHold, Deleting

\* The unresolved action is a row that was made, and the only unresolved one; it
\* is the current one.
LEMMA ActiveRow ==
  ASSUME IInv, NEW a \in ActionId, action[a].state \in Active
  PROVE  /\ a \in 1..actions
         /\ IsCurrent(a)
         /\ \A b \in ActionId : b # a => action[b].state \notin Active
<1>1. a <= actions
  BY DEF IInv, RowsInOrder, NoAction, Active, ActionId, TypeOK
<1>2. \A b \in ActionId : b # a => action[b].state \notin Active
  BY DEF IInv, OneActiveAction
<1>3. QED
  BY <1>1, <1>2 DEF IsCurrent, ActionId, IInv, TypeOK

\* While a deletion is running it is the current action.
LEMMA RunningIsCurrent ==
  ASSUME IInv, NEW a \in ActionId, action[a].state = "applying"
  PROVE  InProgress
<1>1. IsCurrent(a)
  BY ActiveRow DEF Active
<1>2. QED
  BY <1>1 DEF IInv, RowsInOrder, InProgress, DeleteAction

\* A fence is a token that was drawn, or none.
LEMMA FenceDrawn ==
  ASSUME IInv, NEW i \in Item
  PROVE  restored[i] \in 0..tokens /\ tokens \in Nat
  BY DEF IInv, TypeOK, FencesInOrder

--------------------------------------------------------------------------------
(* Writing the unresolved action *)

\* An operation that writes the unresolved action and returns keeps the invariant,
\* if the row it writes keeps the kind and the targets and is consumed only by a
\* message that shows its code, or, for a save, has consumed none before.
LEMMA WriteKeeps ==
  ASSUME IInv,
         NEW c \in Caller, caller[c].pc # "idle",
         NEW a \in ActionId, action[a].state \in Active,
         NEW row \in ActionRow,
         Write(c, a, row),
         row.kind = action[a].kind, row.targets = action[a].targets,
         row.token # None <=> row.state = "applying",
         row.state = "applying" => row.kind = "delete",
         row.state # "none",
         row.state = "consumed" =>
             /\ row.by = caller[c].msg
             /\ row.kind = "delete" => code[caller[c].msg] = a
             /\ row.kind = "save" => ~ConsumedBy("save", caller[c].msg)
  PROVE  IInv'
<1> DEFINE idle == [IdleCaller EXCEPT !.pc = "answer", !.msg = caller[c].msg]
<1>0. /\ TypeOK
      /\ action' = [action EXCEPT ![a] = row]
      /\ caller' = [caller EXCEPT ![c] = idle]
      /\ UNCHANGED <<thread, turns, sent, code, actions, item, tokens, restored>>
  BY DEF Write, Answer, IInv
<1>1. a \in 1..actions /\ \A b \in ActionId : b # a => action[b].state \notin Active
  BY ActiveRow
<1>2. caller[c].msg \in 1..sent /\ caller[c].msg \in Message
  BY PendingBounds DEF IInv, CallersHold, TypeOK, Message
<1>3. /\ idle \in CallerState
      /\ idle.pc = "answer" /\ idle.msg = caller[c].msg
  BY <1>2 DEF IdleCaller, CallerState, NoResult
<1>4. TypeOK'
  BY <1>0, <1>3, PendingBounds DEF TypeOK
<1>5. /\ \A b \in ActionId : b # a => action'[b] = action[b]
      /\ action'[a] = row
      /\ \A b \in ActionId : /\ action'[b].kind = action[b].kind
                             /\ action'[b].targets = action[b].targets
  BY <1>0 DEF TypeOK
<1>6. /\ \A d \in Caller : d # c => caller'[d] = caller[d]
      /\ caller'[c] = idle /\ ~Deleting(c)'
      /\ \A d \in Caller : Deleting(d)' => d # c /\ Deleting(d)
  BY <1>0, <1>3 DEF TypeOK, Deleting
<1>7. CallersHold'
  <2> SUFFICES ASSUME NEW d \in Caller
               PROVE  /\ caller'[d].pc # "idle" => caller'[d].msg \in 1..sent
                      /\ Deleting(d)' => /\ caller'[d].act \in 1..actions
                                         /\ action'[caller'[d].act].kind = "delete"
                                         /\ caller'[d].token \in 1..tokens
                                         /\ code[caller'[d].msg] = caller'[d].act
    BY <1>0 DEF CallersHold
  <2>1. CASE d = c
    BY <2>1, <1>6, <1>3, <1>2
  <2>2. CASE d # c
    BY <2>2, <1>6, <1>5, <1>0 DEF IInv, CallersHold, Deleting, TypeOK, ActionId
  <2>3. QED
    BY <2>1, <2>2
<1>8. ClaimsDiffer'
  BY <1>6 DEF IInv, ClaimsDiffer
<1>9. RowsInOrder'
  <2>1. ASSUME NEW b \in ActionId, b > actions PROVE b # a
    BY <1>0, <1>1, <2>1, PendingBounds DEF TypeOK, ActionId
  <2>2. QED
    BY <1>5, <1>0, <2>1 DEF IInv, RowsInOrder
<1>10. OneActiveAction'
  BY <1>5, <1>1 DEF IInv, OneActiveAction
<1>11. ConsumedByCode'
  BY <1>5, <1>2, <1>0 DEF IInv, ConsumedByCode
<1>12. MessageConsumesOnce'
  <2>1. ASSUME NEW x \in ActionId, NEW y \in ActionId, x # y,
               action'[x].state = "consumed", action'[y].state = "consumed",
               action'[x].by = action'[y].by, action'[x].kind = action'[y].kind
        PROVE  FALSE
    <3>1. PICK z \in {x, y} : z = a
      BY <2>1, <1>5 DEF IInv, MessageConsumesOnce
    <3>2. PICK o \in {x, y} : o # a
      BY <2>1
    <3>3. /\ row.state = "consumed"
          /\ action[o].state = "consumed" /\ action[o].by = caller[c].msg
          /\ action[o].kind = row.kind
      BY <2>1, <3>1, <3>2, <1>5
    <3>4. CASE row.kind = "delete"
      BY <3>2, <3>3, <3>4, <2>1 DEF IInv, ConsumedByCode
    <3>5. CASE row.kind = "save"
      BY <3>2, <3>3, <3>5, <2>1 DEF ConsumedBy
    <3>6. QED
      BY <3>4, <3>5 DEF ActionRow
  <2>2. QED
    BY <2>1 DEF MessageConsumesOnce
<1>13. FencesInOrder'
  BY <1>6, <1>0 DEF IInv, FencesInOrder
<1>14. ResultsHold'
  <2> SUFFICES ASSUME NEW d \in Caller, caller'[d].pc = "settle",
                      NEW i \in action'[caller'[d].act].targets
               PROVE  /\ caller'[d].result[i] \in Outcome
                      /\ caller'[d].result[i] \in {"deleted", "already_deleted"}
                         => item[i].deleted \/ restored[i] > caller'[d].token
                      /\ caller'[d].result[i] = "already_restored" => restored[i] > 0
    BY <1>0 DEF ResultsHold
  <2>1. d # c
    BY <1>6, <1>3
  <2>2. caller[d].act \in ActionId
    <3>1. Deleting(d)
      BY <2>1, <1>6 DEF Deleting
    <3>2. QED
      BY <3>1, PendingBounds DEF IInv, CallersHold, TypeOK, ActionId
  <2>3. QED
    BY <2>1, <2>2, <1>5, <1>6 DEF IInv, ResultsHold
<1>15. QED
  BY <1>4, <1>7, <1>8, <1>9, <1>10, <1>11, <1>12, <1>13, <1>14 DEF IInv

\* Moving the anchor of a row leaves the rest of it as it is.
LEMMA ReanchoredRow ==
  ASSUME NEW row \in ActionRow, NEW msg \in Message, NEW seen \in Message \union {None}
  PROVE  /\ Reanchored(row, msg, seen) \in ActionRow
         /\ \A f \in {"state", "kind", "targets", "token", "by", "result",
                      "expired", "stale"} :
                Reanchored(row, msg, seen)[f] = row[f]
  BY DEF Reanchored, ActionRow

\* The parts of a handler that its operations read.
LEMMA HandlerParts ==
  ASSUME IInv, NEW c \in Caller, caller[c].pc # "idle"
  PROVE  /\ caller[c].msg \in Message /\ caller[c].msg \in 1..sent
         /\ caller[c].seen \in Message \union {None}
         /\ Deleting(c) => /\ caller[c].act \in ActionId /\ caller[c].token \in Token
                           /\ code[caller[c].msg] = caller[c].act
                           /\ action[caller[c].act].kind = "delete"
                           /\ caller[c].token # None
                           /\ caller[c].result \in [Item -> Outcome \union {"none"}]
  BY PendingBounds DEF IInv, TypeOK, CallersHold, CallerState, Message, ActionId, Token,
                       None, Deleting

\* Every operation that writes the unresolved action keeps the invariant.
LEMMA WriteInv ==
  ASSUME IInv, NEW c \in Caller,
         \/ ConfirmSave(c) \/ CancelSave(c) \/ ConfirmInVain(c) \/ ExpireDelete(c)
         \/ ClarifyDelete(c) \/ CancelDelete(c) \/ FinishDelete(c) \/ RecordFailure(c)
  PROVE  IInv'
<1> USE DEF Active, Resolved
<1>0. \A a \in ActionId : /\ action[a] \in ActionRow
                          /\ action[a].token # None <=> action[a].state = "applying"
                          /\ action[a].state = "applying" => action[a].kind = "delete"
  BY DEF IInv, TypeOK, RowsInOrder
<1>1. CASE ConfirmSave(c)
  <2>1. PICK a \in ActionId :
            /\ SaveAction(a)
            /\ Write(c, a, [action[a] EXCEPT !.state = "consumed", !.by = caller[c].msg])
    BY <1>1 DEF ConfirmSave
  <2>2. caller[c].pc # "idle" /\ ~ConsumedBy("save", caller[c].msg)
    BY <1>1 DEF ConfirmSave, Acting
  <2> DEFINE row == [action[a] EXCEPT !.state = "consumed", !.by = caller[c].msg]
  <2>3. /\ action[a].state \in Active /\ action[a].kind = "save"
        /\ action[a].token = None /\ caller[c].msg \in Message
        /\ action[a] \in ActionRow
    BY <1>0, <2>1, <2>2, HandlerParts DEF SaveAction, IsCurrent
  <2>4. /\ row \in ActionRow /\ row.kind = "save" /\ row.targets = action[a].targets
        /\ row.state = "consumed" /\ row.by = caller[c].msg /\ row.token = None
    BY <2>3 DEF ActionRow
  <2>5. QED
    BY <2>1, <2>2, <2>3, <2>4, WriteKeeps
<1>2. CASE CancelSave(c) \/ ExpireDelete(c) \/ CancelDelete(c)
  <2>1. PICK a \in ActionId :
            /\ IsCurrent(a)
            /\ action[a].state # "applying"
            /\ Write(c, a, [action[a] EXCEPT !.state = "cancelled"])
    <3>1. CASE CancelSave(c)
      BY <3>1, <1>0 DEF CancelSave, SaveAction
    <3>2. CASE ExpireDelete(c)
      BY <3>2 DEF ExpireDelete, DeleteAction, Expired
    <3>3. CASE CancelDelete(c)
      BY <3>3, RunningIsCurrent DEF CancelDelete, DeleteAction
    <3>4. QED
      BY <1>2, <3>1, <3>2, <3>3
  <2>2. caller[c].pc # "idle"
    BY <1>2 DEF CancelSave, ExpireDelete, CancelDelete, Acting
  <2> DEFINE row == [action[a] EXCEPT !.state = "cancelled"]
  <2>3. /\ row \in ActionRow /\ row.kind = action[a].kind /\ row.targets = action[a].targets
        /\ row.state = "cancelled" /\ row.token = None
        /\ action[a].state \in Active
    BY <1>0, <2>1 DEF ActionRow, IsCurrent
  <2>4. QED
    BY <2>1, <2>2, <2>3, WriteKeeps
<1>3. CASE ConfirmInVain(c) \/ ClarifyDelete(c)
  <2> DEFINE row(a) == Reanchored(action[a], caller[c].msg, caller[c].seen)
  <2>1. PICK a \in ActionId : IsCurrent(a) /\ Write(c, a, row(a))
    BY <1>3 DEF ConfirmInVain, Confirming, ClarifyDelete, DeleteAction
  <2>2. caller[c].pc # "idle"
    BY <1>3 DEF ConfirmInVain, Confirming, ClarifyDelete, Acting
  <2>3. /\ row(a) \in ActionRow /\ row(a).kind = action[a].kind
        /\ row(a).targets = action[a].targets /\ row(a).state = action[a].state
        /\ row(a).token = action[a].token
    BY <1>0, <2>2, HandlerParts, ReanchoredRow
  <2>4. action[a].state \in Active
    BY <2>1 DEF IsCurrent
  <2> HIDE DEF row
  <2>5. QED
    BY <2>1, <2>2, <2>3, <2>4, <1>0, WriteKeeps
<1>4. CASE FinishDelete(c)
  <2> DEFINE a == caller[c].act
             row == [action[a] EXCEPT !.state = "consumed", !.by = caller[c].msg,
                                      !.token = None, !.stale = FALSE,
                                      !.result = caller[c].result]
  <2>1. /\ caller[c].pc # "idle" /\ Deleting(c) /\ action[a].state = "applying"
        /\ Write(c, a, row)
    BY <1>4 DEF FinishDelete, Deleting
  <2>2. /\ a \in ActionId /\ caller[c].msg \in Message /\ code[caller[c].msg] = a
        /\ caller[c].result \in [Item -> Outcome \union {"none"}]
    BY <2>1, HandlerParts
  <2> HIDE DEF a
  <2>3. /\ row \in ActionRow /\ row.kind = "delete" /\ row.targets = action[a].targets
        /\ row.state = "consumed" /\ row.by = caller[c].msg /\ row.token = None
        /\ action[a].kind = "delete"
    <3>1. action[a] \in ActionRow /\ action[a].kind = "delete"
      BY <1>0, <2>1, <2>2
    <3>2. QED
      BY <3>1, <2>2 DEF ActionRow, None
  <2>4. QED
    BY <2>1, <2>2, <2>3, WriteKeeps
<1>5. CASE RecordFailure(c)
  <2> DEFINE a == caller[c].act
             was == Reanchored(action[a], caller[c].msg, caller[c].seen)
             row == [was EXCEPT !.state = "failed", !.token = None, !.stale = FALSE,
                                !.expired = FALSE]
  <2>1. /\ caller[c].pc # "idle" /\ Deleting(c) /\ action[a].token = caller[c].token
        /\ Write(c, a, row)
    BY <1>5 DEF RecordFailure, Deleting, Owns
  <2>2. a \in ActionId /\ action[a].state = "applying"
    BY <1>0, <2>1, HandlerParts
  <2> HIDE DEF a
  <2>3. was \in ActionRow /\ was.kind = action[a].kind /\ was.targets = action[a].targets
    BY <1>0, <2>1, <2>2, HandlerParts, ReanchoredRow
  <2> HIDE DEF was
  <2>4. /\ row \in ActionRow /\ row.kind = action[a].kind /\ row.targets = action[a].targets
        /\ row.state = "failed" /\ row.token = None
    BY <2>3 DEF ActionRow
  <2>5. QED
    BY <2>1, <2>2, <2>4, WriteKeeps
<1>6. QED
  BY <1>1, <1>2, <1>3, <1>4, <1>5

--------------------------------------------------------------------------------
(* The other operations *)

\* The parts of the invariant that only talk of rows survive a step that leaves
\* the rows, the codes and the messages alone.
LEMMA RowsUntouched ==
  ASSUME IInv, UNCHANGED <<action, actions, sent, code>>
  PROVE  RowsInOrder' /\ OneActiveAction' /\ ConsumedByCode' /\ MessageConsumesOnce'
  BY DEF IInv, RowsInOrder, OneActiveAction, ConsumedByCode, MessageConsumesOnce

\* A step in which a handler stops deleting, or never was, keeps what the others
\* hold, if it leaves rows, items and tokens alone.
LEMMA HandlerIdles ==
  ASSUME IInv, NEW c \in Caller, NEW state \in CallerState,
         caller' = [caller EXCEPT ![c] = state],
         state.pc \in {"idle", "act", "answer"},
         sent' \in Nat, sent <= sent', code' \in [Message -> Code],
         \A m \in 1..sent : code'[m] = code[m],
         state.pc # "idle" => state.msg \in 1..sent',
         UNCHANGED <<action, actions, item, tokens, restored>>
  PROVE  /\ CallersHold' /\ ClaimsDiffer' /\ FencesInOrder' /\ ResultsHold'
         /\ RowsInOrder' /\ OneActiveAction' /\ ConsumedByCode' /\ MessageConsumesOnce'
<1>1. caller \in [Caller -> CallerState] /\ sent \in Nat
  BY DEF IInv, TypeOK
<1>2. /\ \A d \in Caller : d # c => caller'[d] = caller[d]
      /\ caller'[c] = state /\ ~Deleting(c)'
      /\ \A d \in Caller : Deleting(d)' => d # c /\ Deleting(d)
  BY <1>1 DEF Deleting
<1>3. CallersHold'
  <2> SUFFICES ASSUME NEW d \in Caller
               PROVE  /\ caller'[d].pc # "idle" => caller'[d].msg \in 1..sent'
                      /\ Deleting(d)' => /\ caller'[d].act \in 1..actions
                                         /\ action[caller'[d].act].kind = "delete"
                                         /\ caller'[d].token \in 1..tokens
                                         /\ code'[caller'[d].msg] = caller'[d].act
    BY DEF CallersHold
  <2>1. CASE d = c
    BY <2>1, <1>2
  <2>2. CASE d # c
    <3>1. caller'[d] = caller[d] /\ (Deleting(d)' => Deleting(d))
      BY <2>2, <1>2
    <3>2. caller[d].pc # "idle" => caller[d].msg \in 1..sent
      BY DEF IInv, CallersHold
    <3>3. caller'[d].pc # "idle" => caller'[d].msg \in 1..sent'
      BY <3>1, <3>2, <1>1
    <3>4. Deleting(d) => /\ code'[caller[d].msg] = code[caller[d].msg]
                         /\ caller[d].act \in 1..actions
                         /\ action[caller[d].act].kind = "delete"
                         /\ caller[d].token \in 1..tokens
                         /\ code[caller[d].msg] = caller[d].act
      BY <3>2 DEF IInv, CallersHold, Deleting
    <3>5. QED
      BY <3>1, <3>3, <3>4
  <2>3. QED
    BY <2>1, <2>2
<1>4. ClaimsDiffer'
  BY <1>2 DEF IInv, ClaimsDiffer
<1>5. FencesInOrder'
  BY <1>2 DEF IInv, FencesInOrder
<1>6. ResultsHold'
  BY <1>2 DEF IInv, ResultsHold
<1>7. RowsInOrder' /\ OneActiveAction' /\ MessageConsumesOnce'
  BY DEF IInv, RowsInOrder, OneActiveAction, MessageConsumesOnce
<1>8. ConsumedByCode'
  <2> SUFFICES ASSUME NEW a \in ActionId,
                      action[a].state = "consumed", action[a].kind = "delete"
               PROVE  action[a].by \in 1..sent' /\ code'[action[a].by] = a
    BY DEF ConsumedByCode
  <2>1. action[a].by \in 1..sent /\ code[action[a].by] = a
    BY DEF IInv, ConsumedByCode
  <2>2. QED
    BY <1>1, <2>1
<1>9. QED
  BY <1>3, <1>4, <1>5, <1>6, <1>7, <1>8

\* The handlers that begin, record or lose a turn keep the invariant.
LEMMA TurnInv ==
  ASSUME IInv, NEW c \in Caller,
         \/ BeginTurn(c) \/ RecordTurn(c) \/ LoseTurn(c) \/ LeaveEffect(c)
  PROVE  IInv'
<1>0. /\ TypeOK /\ caller[c] \in CallerState /\ sent \in 0..MaxMessage
      /\ sent \in Nat /\ sent <= sent
  BY PendingBounds DEF IInv, TypeOK
<1>1. CASE BeginTurn(c)
  <2> DEFINE state(m) == [IdleCaller EXCEPT !.pc = "act", !.msg = m, !.seen = thread.latest]
  <2>1. PICK m \in Message :
            /\ m <= sent + 1
            /\ caller' = [caller EXCEPT ![c] = state(m)]
            /\ IF m <= sent
               THEN UNCHANGED <<sent, code>>
               ELSE /\ sent' = m
                    /\ code' \in {[code EXCEPT ![m] = shown] :
                           shown \in {None} \union {a \in ActionId : DeleteAction(a)}}
    BY <1>1 DEF BeginTurn
  <2>2. /\ state(m) \in CallerState /\ state(m).pc = "act" /\ state(m).msg = m
        /\ UNCHANGED <<thread, turns, action, actions, item, tokens, restored>>
    BY <1>0, <1>1, <2>1 DEF BeginTurn, IdleCaller, CallerState, NoResult, TypeOK, None
  <2>3. /\ sent <= sent' /\ sent' \in 0..MaxMessage /\ sent' \in Nat /\ m \in 1..sent'
        /\ code' \in [Message -> Code]
        /\ \A n \in 1..sent : code'[n] = code[n]
    <3>1. CASE m <= sent
      BY <1>0, <2>1, <3>1 DEF Message, TypeOK
    <3>2. CASE ~(m <= sent)
      <4>1. m = sent + 1 /\ sent' = m
        BY <1>0, <2>1, <3>2 DEF Message
      <4>2. PICK shown \in {None} \union ActionId : code' = [code EXCEPT ![m] = shown]
        BY <2>1, <3>2
      <4>3. code' \in [Message -> Code] /\ \A n \in Message : n # m => code'[n] = code[n]
        BY <1>0, <4>2 DEF TypeOK, Code
      <4>4. QED
        BY <4>1, <4>3, <1>0, PendingBounds DEF Message
    <3>3. QED
      BY <3>1, <3>2
  <2> HIDE DEF state
  <2>4. TypeOK'
    BY <1>0, <2>1, <2>2, <2>3 DEF TypeOK
  <2>5. QED
    BY <2>1, <2>2, <2>3, <2>4, HandlerIdles DEF IInv
<1>2. CASE RecordTurn(c)
  <2>1. caller[c].msg \in Message
    BY <1>2, HandlerParts DEF RecordTurn
  <2>2. IdleCaller \in CallerState /\ IdleCaller.pc = "idle"
    BY DEF IdleCaller, CallerState, NoResult
  <2>3. TypeOK'
    BY <1>0, <1>2, <2>1, <2>2 DEF RecordTurn, TypeOK
  <2>4. code \in [Message -> Code]
    BY <1>0 DEF TypeOK
  <2>5. /\ CallersHold' /\ ClaimsDiffer' /\ FencesInOrder' /\ ResultsHold'
        /\ RowsInOrder' /\ OneActiveAction' /\ ConsumedByCode' /\ MessageConsumesOnce'
    BY <1>0, <1>2, <2>2, <2>4, HandlerIdles DEF RecordTurn
  <2>6. QED
    BY <2>3, <2>5 DEF IInv
<1>3. CASE LoseTurn(c)
  <2>1. IdleCaller \in CallerState /\ IdleCaller.pc = "idle"
    BY DEF IdleCaller, CallerState, NoResult
  <2>2. TypeOK'
    BY <1>0, <1>3, <2>1 DEF LoseTurn, TypeOK
  <2>3. code \in [Message -> Code]
    BY <1>0 DEF TypeOK
  <2>4. /\ CallersHold' /\ ClaimsDiffer' /\ FencesInOrder' /\ ResultsHold'
        /\ RowsInOrder' /\ OneActiveAction' /\ ConsumedByCode' /\ MessageConsumesOnce'
    BY <1>0, <1>3, <2>1, <2>3, HandlerIdles DEF LoseTurn
  <2>5. QED
    BY <2>2, <2>4 DEF IInv
<1>4. CASE LeaveEffect(c)
  <2> DEFINE state == [IdleCaller EXCEPT !.pc = "answer", !.msg = caller[c].msg]
  <2>1. caller[c].msg \in Message /\ caller[c].msg \in 1..sent
    BY <1>4, HandlerParts DEF LeaveEffect
  <2>2. state \in CallerState /\ state.pc = "answer" /\ state.msg = caller[c].msg
    BY <2>1 DEF IdleCaller, CallerState, NoResult
  <2>3. /\ caller' = [caller EXCEPT ![c] = state]
        /\ UNCHANGED <<thread, turns, sent, code, action, actions, item, tokens, restored>>
    BY <1>4 DEF LeaveEffect, Answer
  <2> HIDE DEF state
  <2>4. TypeOK'
    BY <1>0, <2>2, <2>3 DEF TypeOK
  <2>5. code \in [Message -> Code]
    BY <1>0 DEF TypeOK
  <2>6. /\ CallersHold' /\ ClaimsDiffer' /\ FencesInOrder' /\ ResultsHold'
        /\ RowsInOrder' /\ OneActiveAction' /\ ConsumedByCode' /\ MessageConsumesOnce'
    BY <1>0, <2>1, <2>2, <2>3, <2>5, HandlerIdles
  <2>7. QED
    BY <2>4, <2>6 DEF IInv
<1>5. QED
  BY <1>1, <1>2, <1>3, <1>4

\* Rows that change nothing a deletion relies on, and are never newly consumed or
\* active, keep the invariant.
LEMMA RowsChange ==
  ASSUME IInv,
         action' \in [ActionId -> ActionRow],
         \A a \in ActionId :
             /\ action'[a].token # None <=> action'[a].state = "applying"
             /\ action'[a].kind = action[a].kind
             /\ action'[a].targets = action[a].targets
             /\ action'[a].by = action[a].by
             /\ action'[a].state = action[a].state
                \/ (action[a].state \in Active /\ action'[a].state = "cancelled")
             /\ a > actions => action'[a] = action[a],
         thread' \in [open : BOOLEAN, latest : Message \union {None}],
         UNCHANGED <<turns, sent, code, actions, item, tokens, restored, caller>>
  PROVE  IInv'
<1>1. TypeOK'
  BY DEF IInv, TypeOK
<1>2. CallersHold'
  <2>1. \A c \in Caller : Deleting(c) => caller[c].act \in ActionId
    BY PendingBounds DEF IInv, CallersHold, TypeOK, ActionId
  <2>2. QED
    BY <2>1 DEF IInv, CallersHold, Deleting
<1>3. ClaimsDiffer' /\ FencesInOrder'
  BY DEF IInv, ClaimsDiffer, FencesInOrder, Deleting
<1>4. RowsInOrder'
  BY DEF IInv, RowsInOrder, Active
<1>5. OneActiveAction'
  BY DEF IInv, OneActiveAction, Active
<1>6. ConsumedByCode' /\ MessageConsumesOnce'
  BY DEF IInv, ConsumedByCode, MessageConsumesOnce
<1>7. ResultsHold'
  <2>1. \A c \in Caller : caller[c].pc = "settle" => caller[c].act \in ActionId
    BY PendingBounds DEF IInv, CallersHold, Deleting, TypeOK, ActionId
  <2>2. QED
    BY <2>1 DEF IInv, ResultsHold
<1>8. QED
  BY <1>1, <1>2, <1>3, <1>4, <1>5, <1>6, <1>7 DEF IInv

\* Closing the thread keeps the invariant.
LEMMA ResetInv == IInv /\ ResetThread => IInv'
<1> SUFFICES ASSUME IInv, ResetThread PROVE IInv'
  OBVIOUS
<1>1. action \in [ActionId -> ActionRow]
  BY DEF IInv, TypeOK
<1>2. ASSUME NEW a \in ActionId
      PROVE  /\ action'[a] \in ActionRow
             /\ action'[a].token # None <=> action'[a].state = "applying"
             /\ action'[a].kind = action[a].kind
             /\ action'[a].targets = action[a].targets
             /\ action'[a].by = action[a].by
             /\ action'[a].state = action[a].state
                \/ (action[a].state \in Active /\ action'[a].state = "cancelled")
             /\ a > actions => action'[a] = action[a]
  <2>1. /\ action[a].state # "applying"
        /\ action[a].token # None <=> action[a].state = "applying"
        /\ a > actions => action[a].state = "none"
    BY RunningIsCurrent DEF ResetThread, IInv, TypeOK, RowsInOrder, NoAction
  <2>2. action'[a] = IF action[a].state \in Active
                     THEN [action[a] EXCEPT !.state = "cancelled"] ELSE action[a]
    BY DEF ResetThread
  <2>3. action[a] \in ActionRow
    BY <1>1
  <2>4. CASE action[a].state \in Active
    <3>1. action'[a] = [action[a] EXCEPT !.state = "cancelled"]
      BY <2>2, <2>4
    <3>2. /\ action'[a] \in ActionRow /\ action'[a].state = "cancelled"
          /\ action'[a].token = action[a].token /\ action'[a].kind = action[a].kind
          /\ action'[a].targets = action[a].targets /\ action'[a].by = action[a].by
      BY <2>3, <3>1 DEF ActionRow, Resolved
    <3>3. QED
      BY <2>1, <2>4, <3>2 DEF Active
  <2>5. CASE action[a].state \notin Active
    <3>1. action'[a] = action[a]
      BY <2>2, <2>5
    <3>2. QED
      BY <2>1, <2>3, <3>1
  <2>6. QED
    BY <2>4, <2>5
<1>3. action' \in [ActionId -> ActionRow]
  <2>1. action' = [a \in ActionId |-> action'[a]]
    BY DEF ResetThread
  <2>2. QED
    BY <2>1, <1>2
<1>4. /\ thread' \in [open : BOOLEAN, latest : Message \union {None}]
      /\ UNCHANGED <<turns, sent, code, actions, item, tokens, restored, caller>>
  BY DEF ResetThread, IInv, TypeOK
<1>5. QED
  BY <1>2, <1>3, <1>4, RowsChange

\* Time passing keeps the invariant.
LEMMA TimeInv == IInv /\ TimeStep => IInv'
<1> SUFFICES ASSUME IInv, NEW b \in ActionId, ExpiryPasses(b) \/ LeasePasses(b)
             PROVE  IInv'
  BY DEF TimeStep
<1>1. /\ action \in [ActionId -> ActionRow]
      /\ \A a \in ActionId : /\ action[a].token # None <=> action[a].state = "applying"
                             /\ a > actions => action[a] = NoAction
  BY DEF IInv, TypeOK, RowsInOrder
<1>2. /\ action[b].state \in Active
      /\ action' = [action EXCEPT ![b].expired = TRUE]
         \/ action' = [action EXCEPT ![b].stale = TRUE]
      /\ UNCHANGED <<thread, turns, sent, code, actions, item, tokens, restored, caller>>
  BY DEF ExpiryPasses, LeasePasses, Leased, Active
<1>3. action' \in [ActionId -> ActionRow]
  <2>1. [action[b] EXCEPT !.expired = TRUE] \in ActionRow
        /\ [action[b] EXCEPT !.stale = TRUE] \in ActionRow
    <3>1. action[b] \in ActionRow
      BY <1>1
    <3>2. QED
      BY <3>1 DEF ActionRow
  <2>2. QED
    BY <1>1, <1>2, <2>1
<1>4. ASSUME NEW a \in ActionId
      PROVE  /\ action'[a].token # None <=> action'[a].state = "applying"
             /\ action'[a].kind = action[a].kind
             /\ action'[a].targets = action[a].targets
             /\ action'[a].by = action[a].by
             /\ action'[a].state = action[a].state
                \/ (action[a].state \in Active /\ action'[a].state = "cancelled")
             /\ a > actions => action'[a] = action[a]
  <2>1. CASE a = b
    <3>1. /\ action'[a] \in {[action[a] EXCEPT !.expired = TRUE],
                             [action[a] EXCEPT !.stale = TRUE]}
          /\ action[a] \in ActionRow
          /\ ~(a > actions)
      BY <1>1, <1>2, <2>1 DEF Active, NoAction
    <3>2. /\ action'[a].token = action[a].token /\ action'[a].kind = action[a].kind
          /\ action'[a].targets = action[a].targets /\ action'[a].by = action[a].by
          /\ action'[a].state = action[a].state
      BY <3>1 DEF ActionRow
    <3>3. QED
      BY <1>1, <3>1, <3>2
  <2>2. CASE a # b
    <3>1. action'[a] = action[a]
      BY <1>1, <1>2, <2>2
    <3>2. QED
      BY <1>1, <3>1
  <2>3. QED
    BY <2>1, <2>2
<1>5. thread' \in [open : BOOLEAN, latest : Message \union {None}]
  BY <1>2 DEF IInv, TypeOK
<1>6. QED
  BY <1>2, <1>3, <1>4, <1>5, RowsChange

\* A deletion from the Web library keeps the invariant.
LEMMA WebDeleteInv ==
  ASSUME IInv, NEW i \in Item, WebDelete(i)
  PROVE  IInv'
<1>1. /\ item \in [Item -> [deleted : BOOLEAN, fence : Token \union {None}]]
      /\ item' = [item EXCEPT ![i] = [deleted |-> TRUE, fence |-> None]]
      /\ UNCHANGED <<thread, turns, sent, code, action, actions, tokens, restored, caller>>
  BY DEF IInv, TypeOK, WebDelete
<1>2. TypeOK'
  BY <1>1 DEF IInv, TypeOK
<1>3. CallersHold' /\ ClaimsDiffer'
  BY <1>1 DEF IInv, CallersHold, ClaimsDiffer, Deleting
<1>4. FencesInOrder'
  BY <1>1 DEF IInv, FencesInOrder, Deleting
<1>5. ResultsHold'
  <2> SUFFICES ASSUME NEW c \in Caller, caller[c].pc = "settle",
                      NEW j \in action[caller[c].act].targets
               PROVE  /\ caller[c].result[j] \in Outcome
                      /\ caller[c].result[j] \in {"deleted", "already_deleted"}
                         => item'[j].deleted \/ restored[j] > caller[c].token
                      /\ caller[c].result[j] = "already_restored" => restored[j] > 0
    BY <1>1 DEF ResultsHold
  <2>1. j \in Item
    BY PendingBounds DEF IInv, TypeOK, CallersHold, Deleting, ActionId, ActionRow
  <2>2. item[j].deleted => item'[j].deleted
    BY <1>1, <2>1
  <2>3. QED
    BY <2>2 DEF IInv, ResultsHold
<1>6. QED
  BY <1>1, <1>2, <1>3, <1>4, <1>5, RowsUntouched DEF IInv

\* A restore keeps the invariant: its fence is newer than every claim.
LEMMA RestoreInv ==
  ASSUME IInv, NEW i \in Item, Restore(i)
  PROVE  IInv'
<1>1. /\ item \in [Item -> [deleted : BOOLEAN, fence : Token \union {None}]]
      /\ restored \in [Item -> 0..MaxToken] /\ tokens \in 0..MaxToken
      /\ tokens < MaxToken /\ tokens' = tokens + 1
      /\ item' = [item EXCEPT ![i] = [deleted |-> FALSE, fence |-> tokens + 1]]
      /\ restored' = [restored EXCEPT ![i] = tokens + 1]
      /\ UNCHANGED <<thread, turns, sent, code, action, actions, caller>>
  BY DEF IInv, TypeOK, Restore
<1>2. tokens' \in Token /\ tokens' \in 0..MaxToken
  BY <1>1, PendingBounds DEF Token
<1>3. TypeOK'
  BY <1>1, <1>2 DEF IInv, TypeOK
<1>4. CallersHold'
  BY <1>1 DEF IInv, CallersHold, Deleting
<1>5. ClaimsDiffer'
  BY <1>1 DEF IInv, ClaimsDiffer, Deleting
<1>6. \A c \in Caller : Deleting(c) => caller[c].token \in 1..tokens
  BY DEF IInv, CallersHold
<1>7. FencesInOrder'
  <2> SUFFICES ASSUME NEW j \in Item
               PROVE  /\ restored'[j] <= tokens'
                      /\ ~item'[j].deleted => item'[j].fence = restored'[j]
                      /\ \A c \in Caller : Deleting(c) => restored'[j] # caller[c].token
    BY <1>1 DEF FencesInOrder, Deleting
  <2>1. CASE j = i
    BY <1>1, <1>6, <2>1
  <2>2. CASE j # i
    BY <1>1, <2>2 DEF IInv, FencesInOrder
  <2>3. QED
    BY <2>1, <2>2
<1>8. ResultsHold'
  <2> SUFFICES ASSUME NEW c \in Caller, caller[c].pc = "settle",
                      NEW j \in action[caller[c].act].targets
               PROVE  /\ caller[c].result[j] \in Outcome
                      /\ caller[c].result[j] \in {"deleted", "already_deleted"}
                         => item'[j].deleted \/ restored'[j] > caller[c].token
                      /\ caller[c].result[j] = "already_restored" => restored'[j] > 0
    BY <1>1 DEF ResultsHold
  <2>1. j \in Item
    BY PendingBounds DEF IInv, TypeOK, CallersHold, Deleting, ActionId, ActionRow
  <2>2. /\ caller[c].result[j] \in Outcome
        /\ caller[c].result[j] \in {"deleted", "already_deleted"}
           => item[j].deleted \/ restored[j] > caller[c].token
        /\ caller[c].result[j] = "already_restored" => restored[j] > 0
    BY DEF IInv, ResultsHold
  <2>3. CASE j = i
    BY <1>1, <1>6, <2>2, <2>3 DEF Deleting
  <2>4. CASE j # i
    BY <1>1, <2>1, <2>2, <2>4
  <2>5. QED
    BY <2>3, <2>4
<1>9. QED
  BY <1>1, <1>3, <1>4, <1>5, <1>7, <1>8, RowsUntouched DEF IInv

--------------------------------------------------------------------------------
(* Requests and the deletion itself *)

\* A request keeps the invariant: it takes the row after the last, and no other
\* row stays unresolved.
LEMMA RequestInv ==
  ASSUME IInv, NEW c \in Caller, NEW row \in ActionRow, Request(c, row),
         row.state = "pending", row.token = None
  PROVE  IInv'
<1> DEFINE new == actions + 1
           idle == [IdleCaller EXCEPT !.pc = "answer", !.msg = caller[c].msg]
<1>1. /\ action \in [ActionId -> ActionRow] /\ actions \in 0..MaxAction
      /\ caller \in [Caller -> CallerState] /\ sent \in Nat
      /\ code \in [Message -> Code]
      /\ \A a \in ActionId : /\ action[a].token # None <=> action[a].state = "applying"
                             /\ a > actions => action[a] = NoAction
                             /\ action[a].state = "applying" => action[a].kind = "delete"
  BY DEF IInv, TypeOK, RowsInOrder
<1>2. new \in ActionId /\ new \in Nat /\ action[new] = NoAction
  BY <1>1, PendingBounds DEF Request, ActionId
<1>3. ASSUME NEW a \in ActionId
      PROVE  /\ Replaced[a] \in ActionRow
             /\ action[a].state # "applying"
             /\ Replaced[a].state \in {action[a].state, "cancelled"}
             /\ Replaced[a].state \notin Active
             /\ Replaced[a].token = None
             /\ Replaced[a].kind = action[a].kind
             /\ Replaced[a].targets = action[a].targets
             /\ Replaced[a].by = action[a].by
             /\ ~IsCurrent(a) => Replaced[a] = action[a]
  <2>1. action[a] \in ActionRow /\ action[a].state # "applying" /\ action[a].token = None
    BY <1>1, RunningIsCurrent DEF Request
  <2>2. CASE IsCurrent(a)
    <3>1. Replaced[a] = [action[a] EXCEPT !.state = "cancelled"]
      BY <2>2 DEF Replaced
    <3>2. QED
      BY <2>1, <2>2, <3>1 DEF ActionRow, Resolved, Active
  <2>3. CASE ~IsCurrent(a)
    <3>1. Replaced[a] = action[a] /\ action[a].state \notin Active
      BY <2>3, ActiveRow DEF Replaced
    <3>2. QED
      BY <2>1, <2>3, <3>1
  <2>4. QED
    BY <2>2, <2>3
<1>4. /\ action' = [Replaced EXCEPT ![new] = row] /\ actions' = new
      /\ action' = [a \in ActionId |-> IF a = new THEN row ELSE Replaced[a]]
      /\ caller' = [caller EXCEPT ![c] = idle]
      /\ UNCHANGED <<thread, turns, sent, code, item, tokens, restored>>
  BY DEF Request, Answer, Replaced
<1>5. /\ action' \in [ActionId -> ActionRow] /\ action'[new] = row
      /\ \A a \in ActionId : a # new => action'[a] = Replaced[a]
  BY <1>2, <1>3, <1>4
<1>6. caller[c].pc # "idle"
  BY DEF Request, Acting
<1>7. caller[c].msg \in Message /\ caller[c].msg \in 1..sent
  BY <1>6, HandlerParts
<1>8. idle \in CallerState /\ idle.pc = "answer" /\ idle.msg = caller[c].msg
  BY <1>7 DEF IdleCaller, CallerState, NoResult
<1>9. /\ \A d \in Caller : d # c => caller'[d] = caller[d]
      /\ caller'[c] = idle /\ ~Deleting(c)'
      /\ \A d \in Caller : Deleting(d)' => d # c /\ Deleting(d)
  BY <1>1, <1>4, <1>8 DEF Deleting
<1>10. \A d \in Caller : Deleting(d) =>
          /\ caller[d].act \in ActionId /\ caller[d].act # new
          /\ caller[d].act \in 1..actions'
  BY <1>1, <1>2, <1>4, PendingBounds DEF IInv, CallersHold, ActionId
<1>11. TypeOK'
  <2>1. \A a \in ActionId : action'[a].token # None <=> action'[a].state = "applying"
    BY <1>1, <1>3, <1>5 DEF Active
  <2>2. actions' \in 0..MaxAction
    BY <1>1, <1>2, <1>4, PendingBounds DEF ActionId
  <2>3. QED
    BY <1>4, <1>5, <1>8, <2>1, <2>2 DEF IInv, TypeOK
<1>12. CallersHold'
  <2> SUFFICES ASSUME NEW d \in Caller
               PROVE  /\ caller'[d].pc # "idle" => caller'[d].msg \in 1..sent
                      /\ Deleting(d)' => /\ caller'[d].act \in 1..actions'
                                         /\ action'[caller'[d].act].kind = "delete"
                                         /\ caller'[d].token \in 1..tokens
                                         /\ code[caller'[d].msg] = caller'[d].act
    BY <1>4 DEF CallersHold
  <2>1. CASE d = c
    BY <2>1, <1>7, <1>8, <1>9
  <2>2. CASE d # c
    <3>1. caller'[d] = caller[d] /\ (Deleting(d)' => Deleting(d))
      BY <2>2, <1>9
    <3>2. Deleting(d) => action'[caller[d].act].kind = action[caller[d].act].kind
      BY <1>3, <1>5, <1>10
    <3>3. QED
      BY <3>1, <3>2, <1>10 DEF IInv, CallersHold
  <2>3. QED
    BY <2>1, <2>2
<1>13. ClaimsDiffer'
  BY <1>9 DEF IInv, ClaimsDiffer
<1>14. RowsInOrder'
  <2> SUFFICES ASSUME NEW a \in ActionId
               PROVE  /\ a > actions' => action'[a] = NoAction
                      /\ action'[a].state = "applying" => action'[a].kind = "delete"
    BY DEF RowsInOrder
  <2>1. CASE a = new
    BY <2>1, <1>2, <1>4, <1>5
  <2>2. CASE a # new
    <3>1. action'[a] = Replaced[a] /\ Replaced[a].state # "applying"
      BY <2>2, <1>3, <1>5 DEF Active
    <3>2. ASSUME a > actions' PROVE action'[a] = NoAction
      <4>1. a > actions
        BY <3>2, <1>1, <1>2, <1>4, PendingBounds DEF ActionId
      <4>2. action[a] = NoAction /\ ~IsCurrent(a)
        BY <4>1, <1>1 DEF IsCurrent, NoAction, Active
      <4>3. QED
        BY <4>2, <3>1, <1>3
    <3>3. QED
      BY <3>1, <3>2
  <2>3. QED
    BY <2>1, <2>2
<1>15. OneActiveAction'
  BY <1>3, <1>5 DEF OneActiveAction
<1>16. \A a \in ActionId : action'[a].state = "consumed" =>
           /\ a # new /\ action[a].state = "consumed"
           /\ action'[a].kind = action[a].kind /\ action'[a].by = action[a].by
  BY <1>3, <1>5
<1>17. ConsumedByCode' /\ MessageConsumesOnce'
  BY <1>4, <1>16 DEF IInv, ConsumedByCode, MessageConsumesOnce
<1>18. FencesInOrder'
  BY <1>4, <1>9 DEF IInv, FencesInOrder
<1>19. ResultsHold'
  <2> SUFFICES ASSUME NEW d \in Caller, caller'[d].pc = "settle",
                      NEW i \in action'[caller'[d].act].targets
               PROVE  /\ caller'[d].result[i] \in Outcome
                      /\ caller'[d].result[i] \in {"deleted", "already_deleted"}
                         => item[i].deleted \/ restored[i] > caller'[d].token
                      /\ caller'[d].result[i] = "already_restored" => restored[i] > 0
    BY <1>4 DEF ResultsHold
  <2>1. d # c /\ caller'[d] = caller[d] /\ Deleting(d)
    BY <1>8, <1>9 DEF Deleting
  <2>2. action'[caller[d].act].targets = action[caller[d].act].targets
    BY <2>1, <1>3, <1>5, <1>10
  <2>3. QED
    BY <2>1, <2>2 DEF IInv, ResultsHold
<1>20. QED
  BY <1>11, <1>12, <1>13, <1>14, <1>15, <1>17, <1>18, <1>19 DEF IInv

\* The deletion or the failure of a handler changes items and what it is about to
\* say, nothing else; both keep the invariant.
LEMMA EffectInv ==
  ASSUME IInv, NEW c \in Caller, RunEffect(c) \/ EffectRaises(c)
  PROVE  IInv'
<1> DEFINE a == caller[c].act
           token == caller[c].token
           result == [i \in Item |-> IF i \in action[a].targets THEN OutcomeOf(i, token)
                                     ELSE "none"]
<1>1. caller[c].pc = "effect" /\ Deleting(c) /\ caller[c].pc # "idle"
  BY DEF RunEffect, EffectRaises, Deleting
<1>2. /\ a \in ActionId /\ token \in Token /\ token # None
      /\ action[a] \in ActionRow /\ action[a].targets \subseteq Item
  <2>1. a \in ActionId /\ token \in Token /\ token # None
    BY <1>1, HandlerParts
  <2>2. action[a] \in ActionRow
    BY <2>1 DEF IInv, TypeOK
  <2>3. QED
    BY <2>1, <2>2 DEF ActionRow
<1>3. /\ caller \in [Caller -> CallerState]
      /\ item \in [Item -> [deleted : BOOLEAN, fence : Token \union {None}]]
      /\ restored \in [Item -> 0..MaxToken] /\ tokens \in Nat
      /\ token \in 1..tokens
  BY <1>1, PendingBounds DEF IInv, TypeOK, CallersHold
<1>4. /\ caller' = [caller EXCEPT ![c].pc = "settle", ![c].result = result]
         \/ caller' = [caller EXCEPT ![c].pc = "raised"]
      /\ item' \in {item, Deletion(action[a].targets, token)}
      /\ caller'[c].pc = "settle" => /\ item' = Deletion(action[a].targets, token)
                                     /\ caller'[c].result = result
      /\ UNCHANGED <<thread, turns, sent, code, action, actions, tokens, restored>>
  BY <1>3 DEF RunEffect, EffectRaises, CallerState
<1>5. result \in [Item -> Outcome \union {"none"}]
  BY DEF OutcomeOf, Outcome
<1>6. /\ caller' \in [Caller -> CallerState]
      /\ \A d \in Caller : d # c => caller'[d] = caller[d]
      /\ caller'[c].msg = caller[c].msg /\ caller'[c].act = a /\ caller'[c].token = token
      /\ caller'[c].pc \in {"settle", "raised"}
  <2> HIDE DEF result
  <2>1. caller[c] \in CallerState
    BY <1>3
  <2>2. /\ [caller[c] EXCEPT !.pc = "settle", !.result = result] \in CallerState
        /\ [caller[c] EXCEPT !.pc = "raised"] \in CallerState
    BY <2>1, <1>5 DEF CallerState
  <2>3. caller'[c] \in {[caller[c] EXCEPT !.pc = "settle", !.result = result],
                        [caller[c] EXCEPT !.pc = "raised"]}
    BY <1>3, <1>4
  <2>4. /\ caller'[c] \in CallerState
        /\ caller'[c].msg = caller[c].msg /\ caller'[c].act = caller[c].act
        /\ caller'[c].token = caller[c].token
        /\ caller'[c].pc \in {"settle", "raised"}
    BY ZenonT(30), <2>1, <2>2, <2>3 DEF CallerState
  <2>5. /\ caller' \in [Caller -> CallerState]
        /\ \A d \in Caller : d # c => caller'[d] = caller[d]
    BY <1>3, <1>4, <2>2
  <2>6. QED
    BY <2>4, <2>5
<1>7. \A d \in Caller : /\ Deleting(d)' <=> Deleting(d)
                        /\ caller'[d].token = caller[d].token
                        /\ caller'[d].act = caller[d].act
                        /\ caller'[d].msg = caller[d].msg
                        /\ caller'[d].pc = "idle" <=> caller[d].pc = "idle"
  BY <1>1, <1>6 DEF Deleting
<1>8. ASSUME NEW i \in Item
      PROVE  /\ item'[i] \in [deleted : BOOLEAN, fence : Token \union {None}]
             /\ item[i].deleted => item'[i] = item[i]
             /\ ~item'[i].deleted => item'[i] = item[i]
             /\ item' = Deletion(action[a].targets, token) /\ i \in action[a].targets =>
                    /\ result[i] \in Outcome
                    /\ result[i] \in {"deleted", "already_deleted"} => item'[i].deleted
                    /\ result[i] = "already_restored" => restored[i] > 0
  <2>1. ~item[i].deleted => item[i].fence = restored[i]
    BY DEF IInv, FencesInOrder
  <2>2. restored[i] \in Nat /\ item[i] \in [deleted : BOOLEAN, fence : Token \union {None}]
    BY <1>3, PendingBounds
  <2>3. item' = Deletion(action[a].targets, token) =>
            item'[i] = IF i \in action[a].targets /\ OutcomeOf(i, token) = "deleted"
                       THEN [deleted |-> TRUE, fence |-> token] ELSE item[i]
    BY DEF Deletion
  <2>4. OutcomeOf(i, token) = IF item[i].deleted THEN "already_deleted"
                              ELSE IF Fenced(i, token) THEN "already_restored"
                              ELSE "deleted"
    BY DEF OutcomeOf
  <2>5. i \in action[a].targets => result[i] = OutcomeOf(i, token)
    OBVIOUS
  <2>6. item' = item \/ item' = Deletion(action[a].targets, token)
    BY <1>4
  <2> HIDE DEF a, token, result
  <2>7. Fenced(i, token) /\ ~item[i].deleted => restored[i] > 0
    BY <2>1, <2>2 DEF Fenced, None
  <2>8. /\ item'[i] \in [deleted : BOOLEAN, fence : Token \union {None}]
        /\ item[i].deleted => item'[i] = item[i]
        /\ ~item'[i].deleted => item'[i] = item[i]
    <3>1. CASE item'[i] = item[i]
      BY <2>2, <3>1
    <3>2. CASE item'[i] = [deleted |-> TRUE, fence |-> token] /\ ~item[i].deleted
      BY <1>2, <3>2
    <3>3. QED
      BY <2>3, <2>4, <2>6, <3>1, <3>2
  <2>9. ASSUME item' = Deletion(action[a].targets, token), i \in action[a].targets
        PROVE  /\ result[i] \in Outcome
               /\ result[i] \in {"deleted", "already_deleted"} => item'[i].deleted
               /\ result[i] = "already_restored" => restored[i] > 0
    <3>1. result[i] = OutcomeOf(i, token)
      BY <2>5, <2>9
    <3>2. CASE item[i].deleted
      BY <2>4, <2>8, <2>9, <3>1, <3>2 DEF Outcome
    <3>3. CASE ~item[i].deleted /\ Fenced(i, token)
      BY <2>4, <2>7, <3>1, <3>3 DEF Outcome
    <3>4. CASE ~item[i].deleted /\ ~Fenced(i, token)
      BY <2>3, <2>4, <2>9, <3>1, <3>4 DEF Outcome
    <3>5. QED
      BY <3>2, <3>3, <3>4
  <2>10. QED
    BY <2>8, <2>9
<1> HIDE DEF a, token, result
<1>9. item' \in [Item -> [deleted : BOOLEAN, fence : Token \union {None}]]
  <2>1. item' = [i \in Item |-> item'[i]]
    BY <1>3, <1>4 DEF Deletion
  <2>2. QED
    BY <1>8, <2>1
<1>10. TypeOK'
  BY <1>4, <1>6, <1>9 DEF IInv, TypeOK
<1>11. CallersHold' /\ ClaimsDiffer'
  BY <1>4, <1>7 DEF IInv, CallersHold, ClaimsDiffer
<1>12. FencesInOrder'
  BY <1>4, <1>7, <1>8 DEF IInv, FencesInOrder
<1>13. ResultsHold'
  <2> SUFFICES ASSUME NEW d \in Caller, caller'[d].pc = "settle",
                      NEW i \in action[caller'[d].act].targets
               PROVE  /\ caller'[d].result[i] \in Outcome
                      /\ caller'[d].result[i] \in {"deleted", "already_deleted"}
                         => item'[i].deleted \/ restored[i] > caller'[d].token
                      /\ caller'[d].result[i] = "already_restored" => restored[i] > 0
    BY <1>4 DEF ResultsHold
  <2>1. CASE d = c
    BY <2>1, <1>2, <1>4, <1>6, <1>8
  <2>2. CASE d # c
    <3>1. caller'[d] = caller[d] /\ Deleting(d)
      BY <2>2, <1>6 DEF Deleting
    <3>2. i \in Item
      <4>1. caller[d].act \in ActionId
        BY <3>1, HandlerParts DEF Deleting
      <4>2. QED
        BY <4>1, <3>1 DEF IInv, TypeOK, ActionRow
    <3>3. QED
      BY <3>1, <3>2, <1>8 DEF IInv, ResultsHold
  <2>3. QED
    BY <2>1, <2>2
<1>14. QED
  BY <1>4, <1>10, <1>11, <1>12, <1>13, RowsUntouched DEF IInv

\* A claim keeps the invariant: it takes a token of its own, and the action that
\* the message shows.
LEMMA ClaimInv ==
  ASSUME IInv, NEW c \in Caller, ClaimDelete(c)
  PROVE  IInv'
<1> DEFINE token == tokens + 1
           was(a) == Reanchored(action[a], caller[c].msg, caller[c].seen)
           row(a) == [was(a) EXCEPT !.state = "applying", !.token = token,
                                    !.stale = FALSE, !.expired = FALSE]
           claims(a) == [caller[c] EXCEPT !.pc = "effect", !.act = a, !.token = token]
<1>1. PICK a \in ActionId :
          /\ Confirming(c, a)
          /\ code[caller[c].msg] = a
          /\ tokens < MaxToken
          /\ tokens' = token
          /\ action' = [action EXCEPT ![a] = row(a)]
          /\ caller' = [caller EXCEPT ![c].pc = "effect", ![c].act = a,
                                      ![c].token = token]
          /\ UNCHANGED <<thread, turns, sent, code, actions, item, restored>>
  <2> HIDE DEF row, was, token
  <2>1. PICK a \in ActionId :
            /\ Confirming(c, a)
            /\ code[caller[c].msg] = a
            /\ tokens < MaxToken
            /\ tokens' = tokens + 1
            /\ action' = [action EXCEPT ![a] =
                   [Reanchored(@, caller[c].msg, caller[c].seen)
                       EXCEPT !.state = "applying", !.token = tokens + 1,
                              !.stale = FALSE, !.expired = FALSE]]
            /\ caller' = [caller EXCEPT ![c].pc = "effect", ![c].act = a,
                                        ![c].token = tokens + 1]
            /\ UNCHANGED <<thread, turns, sent, code, actions, item, restored>>
    BY DEF ClaimDelete
  <2>2. QED
    BY <2>1 DEF row, was, token
<1>2. /\ caller \in [Caller -> CallerState] /\ action \in [ActionId -> ActionRow]
      /\ tokens \in 0..MaxToken /\ token \in Token /\ token \in 0..MaxToken
      /\ token # None /\ tokens \in Nat
  BY <1>1, PendingBounds DEF IInv, TypeOK, Token, None
<1>3. /\ caller[c].pc = "act" /\ caller[c].pc # "idle" /\ ~Deleting(c)
      /\ IsCurrent(a) /\ action[a].kind = "delete" /\ action[a].state \in Active
  BY <1>1 DEF Confirming, Acting, DeleteAction, IsCurrent, Deleting
<1>4. /\ caller[c].msg \in Message /\ caller[c].msg \in 1..sent
      /\ caller[c].seen \in Message \union {None}
  BY <1>3, HandlerParts
<1>5. /\ was(a) \in ActionRow /\ was(a).kind = "delete"
      /\ was(a).targets = action[a].targets /\ was(a).by = action[a].by
  <2>1. action[a] \in ActionRow
    BY <1>2
  <2>2. QED
    BY <1>3, <1>4, <2>1, ReanchoredRow
<1> HIDE DEF was
<1>6. /\ row(a) \in ActionRow /\ row(a).kind = "delete"
      /\ row(a).targets = action[a].targets /\ row(a).by = action[a].by
      /\ row(a).state = "applying" /\ row(a).token = token
  <2> HIDE DEF token
  <2>1. QED
    BY <1>2, <1>5 DEF ActionRow, Active
<1> HIDE DEF row
<1>7. /\ action' \in [ActionId -> ActionRow] /\ action'[a] = row(a)
      /\ \A b \in ActionId : b # a => action'[b] = action[b]
  BY <1>1, <1>2, <1>6
<1>8. /\ claims(a) \in CallerState /\ claims(a).pc = "effect" /\ claims(a).act = a
      /\ claims(a).token = token /\ claims(a).msg = caller[c].msg
  <2> HIDE DEF token
  <2>1. caller[c] \in CallerState
    BY <1>2
  <2>2. QED
    BY <1>2, <2>1 DEF CallerState
<1>9. /\ caller' \in [Caller -> CallerState] /\ caller'[c] = claims(a)
      /\ \A d \in Caller : d # c => caller'[d] = caller[d]
  BY <1>1, <1>2, <1>8
<1> HIDE DEF claims
<1>10. a \in 1..actions /\ \A b \in ActionId : b # a => action[b].state \notin Active
  BY <1>3, ActiveRow
<1>11. \A d \in Caller : Deleting(d) => caller[d].token \in 1..tokens
                                        /\ caller[d].act \in ActionId
  BY HandlerParts DEF IInv, CallersHold, Deleting
<1>12. TypeOK'
  <2>1. \A b \in ActionId : action'[b].token # None <=> action'[b].state = "applying"
    BY <1>2, <1>6, <1>7 DEF IInv, TypeOK
  <2>2. QED
    BY <1>1, <1>2, <1>7, <1>9, <2>1 DEF IInv, TypeOK
<1>13. \A b \in ActionId : /\ action'[b].kind = action[b].kind
                           /\ action'[b].targets = action[b].targets
                           /\ action'[b].by = action[b].by
  BY <1>3, <1>6, <1>7
<1>14. CallersHold'
  <2> SUFFICES ASSUME NEW d \in Caller
               PROVE  /\ caller'[d].pc # "idle" => caller'[d].msg \in 1..sent
                      /\ Deleting(d)' => /\ caller'[d].act \in 1..actions
                                         /\ action'[caller'[d].act].kind = "delete"
                                         /\ caller'[d].token \in 1..tokens'
                                         /\ code[caller'[d].msg] = caller'[d].act
    BY <1>1 DEF CallersHold
  <2>1. CASE d = c
    <3>1. token \in 1..tokens'
      BY <1>1, <1>2
    <3>2. QED
      BY <2>1, <3>1, <1>1, <1>3, <1>4, <1>8, <1>9, <1>10, <1>13
  <2>2. CASE d # c
    <3>1. caller'[d] = caller[d] /\ (Deleting(d)' => Deleting(d))
      BY <2>2, <1>9 DEF Deleting
    <3>2. Deleting(d) => caller[d].token \in 1..tokens'
      BY <1>1, <1>2, <1>11
    <3>3. QED
      BY <3>1, <3>2, <1>11, <1>13 DEF IInv, CallersHold
  <2>3. QED
    BY <2>1, <2>2
<1>15. ClaimsDiffer'
  <2> SUFFICES ASSUME NEW d \in Caller, NEW e \in Caller, Deleting(d)', Deleting(e)',
                      caller'[d].token = caller'[e].token, d # e
               PROVE  FALSE
    BY DEF ClaimsDiffer
  <2>1. \A f \in {d, e} : f # c => Deleting(f) /\ caller'[f].token = caller[f].token
    BY <1>9 DEF Deleting
  <2>2. \A f \in {d, e} : f # c => caller'[f].token # token
    BY <2>1, <1>2, <1>11
  <2>3. QED
    BY <2>1, <2>2, <1>8, <1>9 DEF IInv, ClaimsDiffer
<1>16. RowsInOrder'
  <2>1. \A b \in ActionId : b > actions => b # a
    BY <1>10, PendingBounds DEF IInv, TypeOK, ActionId
  <2>2. QED
    BY <2>1, <1>1, <1>6, <1>7 DEF IInv, RowsInOrder
<1>17. OneActiveAction'
  BY <1>7, <1>10 DEF OneActiveAction
<1>18. \A b \in ActionId : action'[b].state = "consumed" => action[b].state = "consumed"
  BY <1>6, <1>7
<1>19. ConsumedByCode' /\ MessageConsumesOnce'
  BY <1>1, <1>13, <1>18 DEF IInv, ConsumedByCode, MessageConsumesOnce
<1>20. FencesInOrder'
  <2> SUFFICES ASSUME NEW i \in Item
               PROVE  /\ restored[i] <= tokens'
                      /\ ~item[i].deleted => item[i].fence = restored[i]
                      /\ \A d \in Caller : Deleting(d)' => restored[i] # caller'[d].token
    BY <1>1 DEF FencesInOrder
  <2>1. restored[i] \in 0..tokens
    BY FenceDrawn
  <2>2. restored[i] <= tokens' /\ restored[i] # token
    BY <2>1, <1>1, <1>2
  <2>3. \A d \in Caller : d # c /\ Deleting(d)' =>
            Deleting(d) /\ caller'[d].token = caller[d].token
    BY <1>9 DEF Deleting
  <2>4. QED
    BY <2>2, <2>3, <1>8, <1>9 DEF IInv, FencesInOrder
<1>21. ResultsHold'
  <2> SUFFICES ASSUME NEW d \in Caller, caller'[d].pc = "settle",
                      NEW i \in action'[caller'[d].act].targets
               PROVE  /\ caller'[d].result[i] \in Outcome
                      /\ caller'[d].result[i] \in {"deleted", "already_deleted"}
                         => item[i].deleted \/ restored[i] > caller'[d].token
                      /\ caller'[d].result[i] = "already_restored" => restored[i] > 0
    BY <1>1 DEF ResultsHold
  <2>1. d # c /\ caller'[d] = caller[d] /\ Deleting(d)
    BY <1>8, <1>9 DEF Deleting
  <2>2. QED
    BY <2>1, <1>11, <1>13 DEF IInv, ResultsHold
<1>22. QED
  BY <1>12, <1>14, <1>15, <1>16, <1>17, <1>19, <1>20, <1>21 DEF IInv

--------------------------------------------------------------------------------
(* The invariant *)

\* Requests insert rows that are pending and claimed by nobody.
LEMMA RequestsInv ==
  ASSUME IInv, NEW c \in Caller, RequestSave(c) \/ RequestDelete(c)
  PROVE  IInv'
<1>1. CASE RequestSave(c)
  <2> DEFINE row == [NoAction EXCEPT !.state = "pending"]
  <2>1. row \in ActionRow /\ row.state = "pending" /\ row.token = None
    BY DEF NoAction, ActionRow, Active, NoResult
  <2>2. Request(c, row)
    BY <1>1 DEF RequestSave
  <2>3. QED
    BY <2>1, <2>2, RequestInv
<1>2. CASE RequestDelete(c)
  <2> DEFINE row(targets) == [NoAction EXCEPT !.state = "pending", !.kind = "delete",
                                              !.targets = targets,
                                              !.anchor = caller[c].msg,
                                              !.parent = caller[c].seen]
  <2>1. PICK targets \in SUBSET Item : Request(c, row(targets))
    BY <1>2 DEF RequestDelete
  <2>2. caller[c].msg \in Message /\ caller[c].seen \in Message \union {None}
    BY <2>1, HandlerParts DEF Request, Acting
  <2>3. /\ row(targets) \in ActionRow /\ row(targets).state = "pending"
        /\ row(targets).token = None
    BY <2>2 DEF NoAction, ActionRow, Active, NoResult
  <2>4. QED
    BY <2>1, <2>3, RequestInv
<1>3. QED
  BY <1>1, <1>2

\* Every step keeps the invariant.
LEMMA NextInv == IInv /\ [Next]_vars => IInv'
<1> SUFFICES ASSUME IInv, [Next]_vars PROVE IInv'
  OBVIOUS
<1>1. CASE TurnStep
  <2>1. PICK c \in Caller :
            \/ BeginTurn(c) \/ RecordTurn(c) \/ LoseTurn(c)
            \/ RequestSave(c) \/ ConfirmSave(c) \/ CancelSave(c)
            \/ RequestDelete(c) \/ ConfirmInVain(c) \/ ClaimDelete(c)
            \/ ExpireDelete(c) \/ ClarifyDelete(c) \/ CancelDelete(c)
    BY <1>1 DEF TurnStep
  <2>2. QED
    BY <2>1, TurnInv, RequestsInv, WriteInv, ClaimInv
<1>2. CASE ResetThread
  BY <1>2, ResetInv
<1>3. CASE EffectStep
  <2>1. PICK c \in Caller :
            \/ RunEffect(c) \/ EffectRaises(c)
            \/ FinishDelete(c) \/ RecordFailure(c) \/ LeaveEffect(c)
    BY <1>3 DEF EffectStep
  <2>2. QED
    BY <2>1, EffectInv, WriteInv, TurnInv
<1>4. CASE TimeStep
  BY <1>4, TimeInv
<1>5. CASE ItemStep
  BY <1>5, WebDeleteInv, RestoreInv DEF ItemStep
<1>6. CASE UNCHANGED vars
  BY <1>6, StutterInv
<1>7. QED
  BY <1>1, <1>2, <1>3, <1>4, <1>5, <1>6 DEF Next

\* The invariant holds in every reachable state.
THEOREM PendingInvariance == Spec => []IInv
<1>1. Init => IInv
  BY InitInv
<1>2. IInv /\ [Next]_vars => IInv'
  BY NextInv
<1>3. QED
  BY <1>1, <1>2, PTL DEF Spec

\* Rows, messages and handlers keep their shape, and a claim token marks exactly
\* the deletions that are being applied (pending_actions.py 380-420).
THEOREM PendingTypes == Spec => []TypeOK
<1>1. IInv => TypeOK
  BY DEF IInv
<1>2. QED
  BY <1>1, PendingInvariance, PTL

\* A thread never has two unresolved actions: the operations alone keep what the
\* partial unique index uq_pending_channel_action_thread_active enforces.
THEOREM OneUnresolved == Spec => []OneActiveAction
<1>1. IInv => OneActiveAction
  BY DEF IInv
<1>2. QED
  BY <1>1, PendingInvariance, PTL

\* A message consumes one action of a kind, however often it is delivered and
\* whatever request has replaced the one it answered.
THEOREM ConsumedOnce == Spec => []MessageConsumesOnce
<1>1. IInv => MessageConsumesOnce
  BY DEF IInv
<1>2. QED
  BY <1>1, PendingInvariance, PTL

--------------------------------------------------------------------------------
(* What a step may do to a row *)

Applying(b) == action[b].state = "applying"

\* The row is left alone.
Untouched(b) == action'[b] = action[b]

\* Nothing is decided about a row that is neither resolved nor being applied.
Open(b) == action[b].state \notin Resolved /\ ~Applying(b)

\* A running deletion goes on under its claim.
GoesOn(b) == Applying(b) /\ Applying(b)' /\ action'[b].token = action[b].token

\* A running deletion whose lease has passed is claimed again.
Reclaimed(b) == Applying(b) /\ ~Leased(b) /\ Applying(b)'

\* The handler with the claim finishes the deletion, or records its failure.
Settled(b) ==
    \E c \in Caller :
        /\ Deleting(c) /\ caller[c].act = b /\ caller'[c] # caller[c]
        /\ Applying(b) /\ action[b].token = caller[c].token
        /\ FinishDelete(c) \/ action'[b].state = "failed"

RowMove(b) == Untouched(b) \/ Open(b) \/ GoesOn(b) \/ Reclaimed(b) \/ Settled(b)

\* An operation that writes the unresolved action moves no other row.
LEMMA WriteMoves ==
  ASSUME IInv, NEW c \in Caller, NEW a \in ActionId, NEW row,
         Write(c, a, row), action[a].state \in Active,
         \/ ~Applying(a)
         \/ row.state = action[a].state /\ row.token = action[a].token
         \/ /\ Deleting(c) /\ caller[c].act = a /\ action[a].token = caller[c].token
            /\ FinishDelete(c) \/ row.state = "failed",
         NEW b \in ActionId
  PROVE  RowMove(b)
<1>1. /\ action \in [ActionId -> ActionRow] /\ caller \in [Caller -> CallerState]
      /\ \A x \in ActionId : action[x].token # None <=> action[x].state = "applying"
  BY DEF IInv, TypeOK
<1>2. action'[a] = row /\ \A x \in ActionId : x # a => action'[x] = action[x]
  BY <1>1 DEF Write
<1>3. Deleting(c) => caller'[c] # caller[c]
  BY <1>1 DEF Write, Answer, Deleting, IdleCaller
<1>4. CASE b # a
  BY <1>2, <1>4 DEF RowMove, Untouched
<1>5. CASE b = a /\ ~Applying(a)
  BY <1>5 DEF RowMove, Open, Active, Resolved
<1>6. CASE b = a /\ Applying(a) /\ row.state = action[a].state /\ row.token = action[a].token
  BY <1>2, <1>6 DEF RowMove, GoesOn, Applying
<1>7. CASE /\ b = a /\ Applying(a) /\ Deleting(c) /\ caller[c].act = a
           /\ action[a].token = caller[c].token
           /\ FinishDelete(c) \/ row.state = "failed"
  BY <1>2, <1>3, <1>7 DEF RowMove, Settled
<1>8. QED
  BY <1>4, <1>5, <1>6, <1>7

\* Every step moves every row in one of these ways.
LEMMA RowMoves ==
  ASSUME IInv, [Next]_vars, NEW b \in ActionId
  PROVE  RowMove(b)
<1>0. /\ action \in [ActionId -> ActionRow]
      /\ \A a \in ActionId : /\ action[a].token # None <=> action[a].state = "applying"
                             /\ action[a].state = "applying" => action[a].kind = "delete"
  BY DEF IInv, TypeOK, RowsInOrder
<1>1. ASSUME UNCHANGED action PROVE RowMove(b)
  BY <1>1 DEF RowMove, Untouched
<1>2. ASSUME NEW c \in Caller,
             \/ ConfirmSave(c) \/ CancelSave(c) \/ ExpireDelete(c) \/ CancelDelete(c)
      PROVE  RowMove(b)
  <2>1. PICK a \in ActionId : IsCurrent(a) /\ ~Applying(a) /\ \E row : Write(c, a, row)
    <3>1. CASE ConfirmSave(c) \/ CancelSave(c)
      BY <3>1, <1>0 DEF ConfirmSave, CancelSave, SaveAction, Applying
    <3>2. CASE ExpireDelete(c)
      BY <3>2 DEF ExpireDelete, DeleteAction, Expired, Applying
    <3>3. CASE CancelDelete(c)
      BY <3>3, RunningIsCurrent DEF CancelDelete, DeleteAction, Applying
    <3>4. QED
      BY <1>2, <3>1, <3>2, <3>3
  <2>2. QED
    BY <2>1, WriteMoves DEF IsCurrent
<1>3. ASSUME NEW c \in Caller, ConfirmInVain(c) \/ ClarifyDelete(c)
      PROVE  RowMove(b)
  <2> DEFINE row(a) == Reanchored(action[a], caller[c].msg, caller[c].seen)
  <2>1. PICK a \in ActionId : IsCurrent(a) /\ Write(c, a, row(a))
    BY <1>3 DEF ConfirmInVain, Confirming, ClarifyDelete, DeleteAction
  <2>2. caller[c].pc # "idle"
    BY <1>3 DEF ConfirmInVain, Confirming, ClarifyDelete, Acting
  <2>3. row(a).state = action[a].state /\ row(a).token = action[a].token
    BY <1>0, <2>2, HandlerParts, ReanchoredRow
  <2> HIDE DEF row
  <2>4. QED
    BY <2>1, <2>3, WriteMoves DEF IsCurrent
<1>4. ASSUME NEW c \in Caller, FinishDelete(c) \/ RecordFailure(c)
      PROVE  RowMove(b)
  <2> DEFINE a == caller[c].act
             was == Reanchored(action[a], caller[c].msg, caller[c].seen)
  <2>1. /\ Deleting(c) /\ action[a].token = caller[c].token
        /\ \E row : /\ Write(c, a, row)
                    /\ FinishDelete(c) \/ row.state = "failed"
    <3>1. Deleting(c) /\ action[a].token = caller[c].token /\ caller[c].pc # "idle"
      BY <1>4 DEF FinishDelete, RecordFailure, Deleting, Owns
    <3>2. CASE FinishDelete(c)
      BY <3>1, <3>2 DEF FinishDelete
    <3>3. CASE RecordFailure(c)
      <4>1. was \in ActionRow
        BY <1>0, <3>1, HandlerParts, ReanchoredRow
      <4> DEFINE row == [was EXCEPT !.state = "failed", !.token = None, !.stale = FALSE,
                                    !.expired = FALSE]
      <4>2. Write(c, a, row)
        BY <3>3 DEF RecordFailure
      <4> HIDE DEF was
      <4>3. row.state = "failed"
        BY <4>1 DEF ActionRow
      <4>4. QED
        BY <3>1, <4>2, <4>3
    <3>4. QED
      BY <1>4, <3>2, <3>3
  <2>2. a \in ActionId /\ action[a].state = "applying"
    BY <1>0, <2>1, HandlerParts DEF Deleting
  <2>3. QED
    BY <2>1, <2>2, WriteMoves DEF Active
<1>5. ASSUME NEW c \in Caller, ClaimDelete(c) PROVE RowMove(b)
  <2>1. PICK a \in ActionId :
            /\ IsCurrent(a) /\ ~Leased(a)
            /\ \A x \in ActionId : x # a => action'[x] = action[x]
            /\ action'[a].state = "applying"
    <3>1. PICK a \in ActionId :
              /\ IsCurrent(a) /\ ~Leased(a) /\ caller[c].pc # "idle"
              /\ action' = [action EXCEPT ![a] =
                     [Reanchored(@, caller[c].msg, caller[c].seen)
                         EXCEPT !.state = "applying", !.token = tokens + 1,
                                !.stale = FALSE, !.expired = FALSE]]
      BY <1>5 DEF ClaimDelete, Confirming, DeleteAction, Acting
    <3>2. Reanchored(action[a], caller[c].msg, caller[c].seen) \in ActionRow
      BY <1>0, <3>1, HandlerParts, ReanchoredRow
    <3>3. action'[a].state = "applying"
      BY <1>0, <3>1, <3>2 DEF ActionRow
    <3>4. QED
      BY <1>0, <3>1, <3>3
  <2>2. CASE b # a
    BY <2>1, <2>2 DEF RowMove, Untouched
  <2>3. CASE b = a /\ Applying(a)
    BY <2>1, <2>3 DEF RowMove, Reclaimed, Applying
  <2>4. CASE b = a /\ ~Applying(a)
    BY <2>1, <2>4 DEF RowMove, Open, IsCurrent, Active, Resolved
  <2>5. QED
    BY <2>2, <2>3, <2>4
<1>6. ASSUME ResetThread PROVE RowMove(b)
  <2>1. ~Applying(b)
    BY <1>6, RunningIsCurrent DEF ResetThread, Applying
  <2>2. CASE action[b].state \in Active
    BY <2>1, <2>2 DEF RowMove, Open, Active, Resolved
  <2>3. CASE action[b].state \notin Active
    BY <1>6, <2>3 DEF ResetThread, RowMove, Untouched
  <2>4. QED
    BY <2>2, <2>3
<1>7. ASSUME NEW c \in Caller, RequestSave(c) \/ RequestDelete(c) PROVE RowMove(b)
  <2>1. \E row : Request(c, row)
    BY <1>7 DEF RequestSave, RequestDelete
  <2>2. /\ ~Applying(b)
        /\ \A a \in ActionId : a # actions + 1 => action'[a] = Replaced[a]
    BY <2>1, RunningIsCurrent DEF Request, Replaced, Applying
  <2>3. CASE action[b].state \notin Resolved
    BY <2>2, <2>3 DEF RowMove, Open
  <2>4. CASE action[b].state \in Resolved
    <3>1. b # actions + 1
      BY <2>4, PendingBounds DEF IInv, TypeOK, RowsInOrder, NoAction, Resolved, ActionId
    <3>2. ~IsCurrent(b)
      BY <2>4 DEF IsCurrent, Active, Resolved
    <3>3. QED
      BY <2>2, <3>1, <3>2 DEF Replaced, RowMove, Untouched
  <2>5. QED
    BY <2>3, <2>4
<1>8. ASSUME TimeStep PROVE RowMove(b)
  <2>1. PICK a \in ActionId : ExpiryPasses(a) \/ LeasePasses(a)
    BY <1>8 DEF TimeStep
  <2>2. /\ action[a].state \in Active
        /\ \A x \in ActionId : x # a => action'[x] = action[x]
        /\ action'[a].state = action[a].state /\ action'[a].token = action[a].token
    BY <2>1, <1>0 DEF ExpiryPasses, LeasePasses, Leased, Active, ActionRow
  <2>3. CASE b # a
    BY <2>2, <2>3 DEF RowMove, Untouched
  <2>4. CASE b = a
    BY <2>2, <2>4 DEF RowMove, GoesOn, Open, Applying, Active, Resolved
  <2>5. QED
    BY <2>3, <2>4
<1>9. ASSUME TurnStep PROVE RowMove(b)
  <2>1. PICK c \in Caller :
            \/ BeginTurn(c) \/ RecordTurn(c) \/ LoseTurn(c)
            \/ RequestSave(c) \/ ConfirmSave(c) \/ CancelSave(c)
            \/ RequestDelete(c) \/ ConfirmInVain(c) \/ ClaimDelete(c)
            \/ ExpireDelete(c) \/ ClarifyDelete(c) \/ CancelDelete(c)
    BY <1>9 DEF TurnStep
  <2>2. BeginTurn(c) \/ RecordTurn(c) \/ LoseTurn(c) => UNCHANGED action
    BY DEF BeginTurn, RecordTurn, LoseTurn
  <2>3. QED
    BY <2>1, <2>2, <1>1, <1>2, <1>3, <1>5, <1>7
<1>10. ASSUME EffectStep PROVE RowMove(b)
  <2>1. PICK c \in Caller :
            \/ RunEffect(c) \/ EffectRaises(c)
            \/ FinishDelete(c) \/ RecordFailure(c) \/ LeaveEffect(c)
    BY <1>10 DEF EffectStep
  <2>2. RunEffect(c) \/ EffectRaises(c) \/ LeaveEffect(c) => UNCHANGED action
    BY DEF RunEffect, EffectRaises, LeaveEffect
  <2>3. QED
    BY <2>1, <2>2, <1>1, <1>4
<1>11. ASSUME ItemStep \/ UNCHANGED vars PROVE RowMove(b)
  BY <1>11, <1>1 DEF ItemStep, WebDelete, Restore, vars
<1>12. QED
  BY <1>6, <1>8, <1>9, <1>10, <1>11 DEF Next

\* Consumed and cancelled actions keep everything they recorded, whatever late
\* deletion, failure or expiry comes after.
THEOREM ResolvedStays == Spec => ResolvedIsFinal
<1>1. IInv /\ [Next]_vars =>
          [\A a \in ActionId :
              action[a].state \in Resolved => action'[a] = action[a]]_vars
  <2> SUFFICES ASSUME IInv, [Next]_vars, NEW a \in ActionId, action[a].state \in Resolved
               PROVE  action'[a] = action[a]
    OBVIOUS
  <2>1. RowMove(a)
    BY RowMoves
  <2>2. QED
    BY <2>1 DEF RowMove, Untouched, Open, GoesOn, Reclaimed, Settled, Applying, Resolved
<1>2. QED
  BY <1>1, PendingInvariance, PTL DEF Spec, ResolvedIsFinal

\* While its lease lasts, nobody takes a deletion away from the handler that claimed
\* it: not another confirmation, nor a request, a cancellation, an expiry or /new.
THEOREM ClaimKept == Spec => ClaimIsKept
<1>1. IInv /\ [Next]_vars =>
          [\A c \in Caller :
              /\ HoldsClaim(c) /\ caller'[c] = caller[c]
              /\ Leased(caller[c].act)
              => /\ action'[caller[c].act].state = "applying"
                 /\ action'[caller[c].act].token = caller[c].token]_vars
  <2> SUFFICES ASSUME IInv, [Next]_vars, NEW c \in Caller,
                      HoldsClaim(c), caller'[c] = caller[c], Leased(caller[c].act)
               PROVE  /\ action'[caller[c].act].state = "applying"
                      /\ action'[caller[c].act].token = caller[c].token
    OBVIOUS
  <2> DEFINE a == caller[c].act
  <2>1. /\ a \in ActionId /\ Deleting(c) /\ action[a].token = caller[c].token
        /\ Applying(a)
    BY HandlerParts DEF HoldsClaim, Deleting, Leased, Applying
  <2>2. RowMove(a)
    BY <2>1, RowMoves
  <2>3. ~Settled(a)
    BY <2>1 DEF Settled, IInv, ClaimsDiffer
  <2>4. QED
    BY <2>1, <2>2, <2>3 DEF RowMove, Untouched, Open, GoesOn, Reclaimed, Applying
<1>2. QED
  BY <1>1, PendingInvariance, PTL DEF Spec, ClaimIsKept

\* A deletion that was claimed before an item was restored or saved again does not
\* delete the item, however late it runs.
THEOREM RestoredIsSpared == Spec => LateDeletionSparesRestored
<1>1. IInv /\ [Next]_vars =>
          [\A c \in Caller, i \in Item :
              /\ caller[c].pc = "effect" /\ caller'[c] # caller[c]
              /\ ~item[i].deleted /\ item'[i].deleted
              => restored[i] < caller[c].token]_vars
  <2> SUFFICES ASSUME IInv, Next, NEW c \in Caller, NEW i \in Item,
                      caller[c].pc = "effect", caller'[c] # caller[c],
                      ~item[i].deleted, item'[i].deleted
               PROVE  restored[i] < caller[c].token
    BY DEF vars
  <2>1. caller \in [Caller -> CallerState] /\ item' # item
    BY DEF IInv, TypeOK
  <2>2. RunEffect(c) \/ EffectRaises(c)
    <3>1. PICK d \in Caller : RunEffect(d) \/ EffectRaises(d)
      BY <2>1 DEF Next, TurnStep, ResetThread, EffectStep, TimeStep, ItemStep, BeginTurn,
                  RecordTurn, LoseTurn, RequestSave, RequestDelete, Request, ConfirmSave,
                  CancelSave, ConfirmInVain, ClaimDelete, ExpireDelete, ClarifyDelete,
                  CancelDelete, Write, FinishDelete, RecordFailure, LeaveEffect,
                  ExpiryPasses, LeasePasses, WebDelete, Restore
    <3>2. d = c
      BY <2>1, <3>1 DEF RunEffect, EffectRaises
    <3>3. QED
      BY <3>1, <3>2
  <2>3. item' = Deletion(action[caller[c].act].targets, caller[c].token)
    BY <2>1, <2>2 DEF RunEffect, EffectRaises
  <2>4. ~Fenced(i, caller[c].token)
    BY <2>3 DEF Deletion, OutcomeOf
  <2>5. /\ item[i].fence = restored[i] /\ restored[i] # caller[c].token
        /\ restored[i] \in Nat /\ caller[c].token \in 1..tokens /\ tokens \in Nat
    BY FenceDrawn DEF IInv, FencesInOrder, CallersHold, Deleting
  <2>6. restored[i] = None
    BY <2>4, <2>5 DEF Fenced
  <2>7. QED
    BY <2>5, <2>6 DEF None
<1>2. QED
  BY <1>1, PendingInvariance, PTL DEF Spec, LateDeletionSparesRestored

\* What a consumed deletion reports of its targets is so when it is recorded.
THEOREM ReportIsAccurate == Spec => ResultsAreAccurate
<1>1. IInv /\ [Next]_vars =>
          [\A a \in ActionId, i \in Item :
              /\ action[a].state = "applying" /\ action'[a].state = "consumed"
              /\ i \in action[a].targets
              => IF action'[a].result[i] \in {"deleted", "already_deleted"}
                 THEN item[i].deleted \/ restored[i] > action[a].token
                 ELSE restored[i] > 0]_vars
  <2> SUFFICES ASSUME IInv, [Next]_vars, NEW a \in ActionId, NEW i \in Item,
                      action[a].state = "applying", action'[a].state = "consumed",
                      i \in action[a].targets
               PROVE  IF action'[a].result[i] \in {"deleted", "already_deleted"}
                      THEN item[i].deleted \/ restored[i] > action[a].token
                      ELSE restored[i] > 0
    OBVIOUS
  <2>1. RowMove(a)
    BY RowMoves
  <2>2. Settled(a)
    BY <2>1 DEF RowMove, Untouched, Open, GoesOn, Reclaimed, Applying
  <2>3. PICK c \in Caller : /\ caller[c].act = a /\ action[a].token = caller[c].token
                            /\ FinishDelete(c)
    BY <2>2 DEF Settled
  <2>4. caller[c].pc = "settle" /\ action'[a].result = caller[c].result
    <3>1. /\ caller[c].pc = "settle"
          /\ action' = [action EXCEPT ![a] =
                 [action[a] EXCEPT !.state = "consumed", !.by = caller[c].msg,
                                   !.token = None, !.stale = FALSE,
                                   !.result = caller[c].result]]
      BY <2>3 DEF FinishDelete, Write
    <3>2. action[a] \in ActionRow /\ action \in [ActionId -> ActionRow]
      BY DEF IInv, TypeOK
    <3>3. QED
      BY <3>1, <3>2 DEF ActionRow
  <2>5. /\ caller[c].result[i] \in Outcome
        /\ caller[c].result[i] \in {"deleted", "already_deleted"}
           => item[i].deleted \/ restored[i] > caller[c].token
        /\ caller[c].result[i] = "already_restored" => restored[i] > 0
    BY <2>3, <2>4 DEF IInv, ResultsHold
  <2>6. QED
    BY <2>3, <2>4, <2>5 DEF Outcome
<1>2. QED
  BY <1>1, PendingInvariance, PTL DEF Spec, ResultsAreAccurate

================================================================================
