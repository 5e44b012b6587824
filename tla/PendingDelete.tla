---------------------------- MODULE PendingDelete -----------------------------
(******************************************************************************)
(* Deletions confirmed in a conversation: the pending action of one           *)
(* conversation thread, the turns that request, confirm, clarify and cancel   *)
(* it, and the deletion a confirmation runs between two transactions.         *)
(*                                                                            *)
(* Each turn is handled by a caller: it reads the newest completed turn, the  *)
(* agent thinks, one operation runs, and the turn is recorded. Turns of one   *)
(* thread overlap: the tools run in threads that outlive a cancelled turn,    *)
(* MCP calls take no lock at all, and a gateway may be restarted.             *)
(*                                                                            *)
(* /new closes the thread; the thread after it is another instance, whose     *)
(* effects on the items of this one are WebDelete and Restore. Agents, texts  *)
(* and identifiers are abstracted: a confirmation code is the action it was   *)
(* shown for, a claim token a number, and payload validation always passes.   *)
(******************************************************************************)
EXTENDS Naturals, FiniteSets

CONSTANTS
    Item,          \* content_item rows of the user, none of them archived
    Caller,        \* concurrent handlers of turns
    MaxMessage,    \* bound: messages of the conversation
    MaxAction,     \* bound: pending_channel_action rows of the thread
    MaxToken       \* bound: claim tokens and restore fences drawn

ASSUME PendingBounds ==
    /\ MaxMessage \in Nat \ {0} /\ MaxAction \in Nat \ {0} /\ MaxToken \in Nat
    /\ IsFiniteSet(Item)

VARIABLES
    thread,      \* the open conversation: its newest completed turn
    turns,       \* messages whose turn was recorded
    sent,        \* messages sent so far
    code,        \* the confirmation code in the text of a message
    action,      \* pending_channel_action rows of the thread
    actions,     \* number of those rows = the newest one
    item,        \* content_item: recycle bin and delete_claim_token
    tokens,      \* claim tokens and fences drawn so far
    restored,    \* history: the number of tokens drawn before an item's last restore
    caller       \* what each handler is doing

vars == <<thread, turns, sent, code, action, actions, item, tokens, restored,
          caller>>

--------------------------------------------------------------------------------
(* Rows and handlers *)

Message  == 1..MaxMessage
ActionId == 1..MaxAction
Token    == 1..MaxToken

\* No message, no token (NULL).
None == 0

\* Codes a user may type: the one shown for an action, or one of no use.
Code  == ActionId \union {None}

Active   == {"pending", "applying", "failed"}
Resolved == {"consumed", "cancelled"}

Outcome == {"deleted", "already_deleted", "already_restored"}

ActionRow ==
    [state   : {"none"} \union Active \union Resolved,
     kind    : {"save", "delete"},
     targets : SUBSET Item,
     anchor  : Message \union {None},
     parent  : Message \union {None},
     expired : BOOLEAN,                  \* expires_at has passed
     stale   : BOOLEAN,                  \* the lease of the claim has passed
     token   : Token \union {None},
     by      : Message \union {None},    \* consumed_message_id
     result  : [Item -> Outcome \union {"none"}]]

CallerState ==
    [pc     : {"idle", "act", "effect", "settle", "raised", "answer"},
     msg    : Message \union {None},
     seen   : Message \union {None},
     act    : ActionId \union {None},
     token  : Token \union {None},
     result : [Item -> Outcome \union {"none"}]]

NoResult == [i \in Item |-> "none"]

NoAction == [state |-> "none", kind |-> "save", targets |-> {}, anchor |-> None,
             parent |-> None, expired |-> FALSE, stale |-> FALSE, token |-> None,
             by |-> None, result |-> NoResult]

IdleCaller == [pc |-> "idle", msg |-> None, seen |-> None, act |-> None,
               token |-> None, result |-> NoResult]

Init ==
    /\ thread = [open |-> TRUE, latest |-> None]
    /\ turns = {}
    /\ sent = 0
    /\ code = [m \in Message |-> None]
    /\ action = [a \in ActionId |-> NoAction]
    /\ actions = 0
    /\ item = [i \in Item |-> [deleted |-> FALSE, fence |-> None]]
    /\ tokens = 0
    /\ restored = [i \in Item |-> 0]
    /\ caller = [c \in Caller |-> IdleCaller]

--------------------------------------------------------------------------------
(* Reading the thread *)

\* The newest unresolved action.
IsCurrent(a) ==
    /\ action[a].state \in Active
    /\ \A b \in ActionId : action[b].state \in Active => b <= a

SaveAction(a)   == IsCurrent(a) /\ action[a].kind = "save"
DeleteAction(a) == IsCurrent(a) /\ action[a].kind = "delete"

\* A confirmed deletion is running: it can be neither replaced nor cancelled.
InProgress ==
    \E a \in ActionId : DeleteAction(a) /\ action[a].state = "applying"

\* A confirmation or clarification counts only while the newest completed turn
\* that its handler saw is the request or a turn that followed up on it.
IsCurrentRequest(a, seen) == seen # None /\ seen \in {action[a].anchor, action[a].parent}

Reanchored(row, msg, seen) ==
    IF seen # None /\ seen \in {row.anchor, row.parent}
    THEN [row EXCEPT !.anchor = msg, !.parent = seen]
    ELSE row

Acting(c) == caller[c].pc = "act" /\ thread.open

\* The operation has returned; only the turn is left to record.
Answer(c) == caller' = [caller EXCEPT ![c] = [IdleCaller EXCEPT !.pc = "answer",
                                                                !.msg = caller[c].msg]]

\* The operation writes the row of one action and is done.
Write(c, a, row) ==
    /\ action' = [action EXCEPT ![a] = row]
    /\ Answer(c)
    /\ UNCHANGED <<thread, turns, sent, code, actions, item, tokens, restored>>

--------------------------------------------------------------------------------
(* Turns *)

\* A message arrives, for the first time or again after its turn was lost. Its
\* text has the code of the current deletion, or none that will ever be right.
BeginTurn(c) ==
    /\ thread.open
    /\ caller[c].pc = "idle"
    /\ \E m \in Message :
           /\ m \notin turns
           /\ m <= sent + 1
           /\ IF m <= sent
              THEN UNCHANGED <<sent, code>>
              ELSE /\ sent' = m
                   /\ code' \in {[code EXCEPT ![m] = shown] :
                                     shown \in {None} \union {a \in ActionId : DeleteAction(a)}}
           /\ caller' = [caller EXCEPT ![c] =
                             [IdleCaller EXCEPT !.pc = "act", !.msg = m,
                                                !.seen = thread.latest]]
    /\ UNCHANGED <<thread, turns, action, actions, item, tokens, restored>>

\* The turn is recorded. One that was refused, or only talked, changed no action.
RecordTurn(c) ==
    /\ caller[c].pc \in {"act", "answer"}
    /\ IF caller[c].msg \in turns
       THEN UNCHANGED <<thread, turns>>
       ELSE /\ turns' = turns \union {caller[c].msg}
            /\ thread' = [thread EXCEPT !.latest = caller[c].msg]
    /\ caller' = [caller EXCEPT ![c] = IdleCaller]
    /\ UNCHANGED <<sent, code, action, actions, item, tokens, restored>>

\* A turn ends unrecorded: it failed without an action, or its process died.
LoseTurn(c) ==
    /\ caller[c].pc # "idle"
    /\ caller' = [caller EXCEPT ![c] = IdleCaller]
    /\ UNCHANGED <<thread, turns, sent, code, action, actions, item, tokens, restored>>

\* /new closes the thread and cancels its action.
ResetThread ==
    /\ thread.open
    /\ ~InProgress
    /\ thread' = [thread EXCEPT !.open = FALSE]
    /\ action' = [a \in ActionId |->
                      IF action[a].state \in Active
                      THEN [action[a] EXCEPT !.state = "cancelled"] ELSE action[a]]
    /\ UNCHANGED <<turns, sent, code, actions, item, tokens, restored, caller>>

--------------------------------------------------------------------------------
(* Requests *)

\* A new request replaces the current action, whatever its kind.
Replaced ==
    [a \in ActionId |-> IF IsCurrent(a)
                        THEN [action[a] EXCEPT !.state = "cancelled"]
                        ELSE action[a]]

Request(c, row) ==
    /\ Acting(c)
    /\ ~InProgress
    /\ actions < MaxAction
    /\ action' = [Replaced EXCEPT ![actions + 1] = row]
    /\ actions' = actions + 1
    /\ Answer(c)
    /\ UNCHANGED <<thread, turns, sent, code, item, tokens, restored>>

RequestSave(c) ==
    Request(c, [NoAction EXCEPT !.state = "pending"])

\* The targets are validated in a transaction before the one that inserts the
\* action; nothing depends on what happens to them in between.
RequestDelete(c) ==
    \E targets \in SUBSET {i \in Item : ~item[i].deleted} :
        /\ targets # {}
        /\ Request(c, [NoAction EXCEPT !.state = "pending", !.kind = "delete",
                                       !.targets = targets,
                                       !.anchor = caller[c].msg,
                                       !.parent = caller[c].seen])

--------------------------------------------------------------------------------
(* Pending saves *)

\* Variant of ConsumedBy that keeps no record of it.
ConsumedByNone(kind, m) == FALSE

ConsumedBy(kind, m) ==
    \E a \in ActionId : action[a].kind = kind /\ action[a].state = "consumed"
                                              /\ action[a].by = m

ConfirmSave(c) ==
    /\ Acting(c)
    /\ ~ConsumedBy("save", caller[c].msg)
    /\ \E a \in ActionId :
           /\ SaveAction(a)
           /\ ~action[a].expired
           /\ Write(c, a, [action[a] EXCEPT !.state = "consumed",
                                            !.by = caller[c].msg])

\* A cancelled save, or a confirmation that came too late.
CancelSave(c) ==
    /\ Acting(c)
    /\ \E a \in ActionId :
           /\ SaveAction(a)
           /\ Write(c, a, [action[a] EXCEPT !.state = "cancelled"])

--------------------------------------------------------------------------------
(* Pending deletes *)

Expired(a) == action[a].state # "applying" /\ action[a].expired

\* A fresh claim is never executed twice.
Leased(a) == action[a].state = "applying" /\ ~action[a].stale

\* The guards a confirmation passes before its code is compared.
Confirming(c, a) ==
    /\ Acting(c)
    /\ ~ConsumedBy("delete", caller[c].msg)
    /\ DeleteAction(a)
    /\ ~Expired(a)
    /\ IsCurrentRequest(a, caller[c].seen)

\* A wrong or missing code, or the right one while the deletion runs: the
\* conversation may go on from this turn.
ConfirmInVain(c) ==
    \E a \in ActionId :
        /\ Confirming(c, a)
        /\ code[caller[c].msg] # a \/ Leased(a)
        /\ Write(c, a, Reanchored(action[a], caller[c].msg, caller[c].seen))

\* Variant of ClaimDelete that forgets the lease of a running deletion.
ClaimDeleteUnleased(c) ==
    \E a \in ActionId :
        /\ Confirming(c, a)
        /\ code[caller[c].msg] = a
        /\ tokens < MaxToken
        /\ tokens' = tokens + 1
        /\ action' = [action EXCEPT ![a] =
               [Reanchored(@, caller[c].msg, caller[c].seen)
                   EXCEPT !.state = "applying", !.token = tokens + 1,
                          !.stale = FALSE, !.expired = FALSE]]
        /\ caller' = [caller EXCEPT ![c].pc = "effect", ![c].act = a,
                                    ![c].token = tokens + 1]
        /\ UNCHANGED <<thread, turns, sent, code, actions, item, restored>>

\* The right code claims the deletion, again when the lease of an earlier claim
\* has passed.
ClaimDelete(c) ==
    \E a \in ActionId :
        /\ Confirming(c, a)
        /\ code[caller[c].msg] = a
        /\ ~Leased(a)
        /\ tokens < MaxToken
        /\ tokens' = tokens + 1
        /\ action' = [action EXCEPT ![a] =
               [Reanchored(@, caller[c].msg, caller[c].seen)
                   EXCEPT !.state = "applying", !.token = tokens + 1,
                          !.stale = FALSE, !.expired = FALSE]]
        /\ caller' = [caller EXCEPT ![c].pc = "effect", ![c].act = a,
                                    ![c].token = tokens + 1]
        /\ UNCHANGED <<thread, turns, sent, code, actions, item, restored>>

\* A confirmation or a clarification of an action that expired.
ExpireDelete(c) ==
    /\ Acting(c)
    /\ \E a \in ActionId :
           /\ DeleteAction(a)
           /\ Expired(a)
           /\ Write(c, a, [action[a] EXCEPT !.state = "cancelled"])

ClarifyDelete(c) ==
    /\ Acting(c)
    /\ \E a \in ActionId :
           /\ DeleteAction(a)
           /\ ~Expired(a)
           /\ ~Leased(a)
           /\ IsCurrentRequest(a, caller[c].seen)
           /\ Write(c, a, Reanchored(action[a], caller[c].msg, caller[c].seen))

CancelDelete(c) ==
    /\ Acting(c)
    /\ ~InProgress
    /\ \E a \in ActionId :
           /\ DeleteAction(a)
           /\ Write(c, a, [action[a] EXCEPT !.state = "cancelled"])

--------------------------------------------------------------------------------
(* The deletion between the transactions of a confirmation *)

\* The item has been restored or re-saved, or was deleted, under another token.
Fenced(i, token) == item[i].fence # None /\ item[i].fence # token

OutcomeOf(i, token) ==
    IF item[i].deleted THEN "already_deleted"
    ELSE IF Fenced(i, token) THEN "already_restored"
    ELSE "deleted"

\* soft_delete of the targets, in one transaction.
Deletion(targets, token) ==
    [i \in Item |-> IF i \in targets /\ OutcomeOf(i, token) = "deleted"
                    THEN [deleted |-> TRUE, fence |-> token] ELSE item[i]]

RunEffect(c) ==
    LET targets == action[caller[c].act].targets
    IN  /\ caller[c].pc = "effect"
        /\ item' = Deletion(targets, caller[c].token)
        /\ caller' = [caller EXCEPT ![c].pc = "settle", ![c].result =
               [i \in Item |-> IF i \in targets THEN OutcomeOf(i, caller[c].token)
                               ELSE "none"]]
        /\ UNCHANGED <<thread, turns, sent, code, action, actions, tokens, restored>>

\* The deletion raised, before its commit or when the answer to it was lost.
EffectRaises(c) ==
    /\ caller[c].pc = "effect"
    /\ item' \in {item, Deletion(action[caller[c].act].targets, caller[c].token)}
    /\ caller' = [caller EXCEPT ![c].pc = "raised"]
    /\ UNCHANGED <<thread, turns, sent, code, action, actions, tokens, restored>>

\* Variant of Owns that forgets which claim is being finished.
OwnsAny(c) == action[caller[c].act].state # "none"

\* The claim of this handler is still the one of its action.
Owns(c) == action[caller[c].act].token = caller[c].token

FinishDelete(c) ==
    LET a == caller[c].act
    IN  /\ caller[c].pc = "settle"
        /\ action[a].state = "applying"
        /\ Owns(c)
        /\ Write(c, a, [action[a] EXCEPT !.state = "consumed", !.by = caller[c].msg,
                                         !.token = None, !.stale = FALSE,
                                         !.result = caller[c].result])

\* The action stays open to another confirmation, with a new expiry.
RecordFailure(c) ==
    LET a == caller[c].act
    IN  /\ caller[c].pc = "raised"
        /\ Owns(c)
        /\ Write(c, a, [Reanchored(action[a], caller[c].msg, caller[c].seen)
                            EXCEPT !.state = "failed", !.token = None,
                                   !.stale = FALSE, !.expired = FALSE])

\* The claim has another owner by now, or the transaction itself fails.
LeaveEffect(c) ==
    /\ caller[c].pc \in {"settle", "raised"}
    /\ Answer(c)
    /\ UNCHANGED <<thread, turns, sent, code, action, actions, item, tokens, restored>>

--------------------------------------------------------------------------------
(* Time and other users of the items *)

ExpiryPasses(a) ==
    /\ action[a].state \in {"pending", "failed"}
    /\ ~action[a].expired
    /\ action' = [action EXCEPT ![a].expired = TRUE]
    /\ UNCHANGED <<thread, turns, sent, code, actions, item, tokens, restored, caller>>

LeasePasses(a) ==
    /\ Leased(a)
    /\ action' = [action EXCEPT ![a].stale = TRUE]
    /\ UNCHANGED <<thread, turns, sent, code, actions, item, tokens, restored, caller>>

\* A deletion without confirmation, from the Web library: it leaves no token.
WebDelete(i) ==
    /\ ~item[i].deleted
    /\ item' = [item EXCEPT ![i] = [deleted |-> TRUE, fence |-> None]]
    /\ UNCHANGED <<thread, turns, sent, code, action, actions, tokens, restored, caller>>

\* Variant of Restore that clears the token instead of replacing it.
RestoreUnfenced(i) ==
    /\ item[i].deleted
    /\ tokens < MaxToken
    /\ tokens' = tokens + 1
    /\ item' = [item EXCEPT ![i] = [deleted |-> FALSE, fence |-> None]]
    /\ restored' = [restored EXCEPT ![i] = tokens + 1]
    /\ UNCHANGED <<thread, turns, sent, code, action, actions, caller>>

\* A restore, a save or a capture of a deleted item draws a fresh token.
Restore(i) ==
    /\ item[i].deleted
    /\ tokens < MaxToken
    /\ tokens' = tokens + 1
    /\ item' = [item EXCEPT ![i] = [deleted |-> FALSE, fence |-> tokens + 1]]
    /\ restored' = [restored EXCEPT ![i] = tokens + 1]
    /\ UNCHANGED <<thread, turns, sent, code, action, actions, caller>>

--------------------------------------------------------------------------------
(* The specification *)

TurnStep ==
    \E c \in Caller :
        \/ BeginTurn(c) \/ RecordTurn(c) \/ LoseTurn(c)
        \/ RequestSave(c) \/ ConfirmSave(c) \/ CancelSave(c)
        \/ RequestDelete(c) \/ ConfirmInVain(c) \/ ClaimDelete(c)
        \/ ExpireDelete(c) \/ ClarifyDelete(c) \/ CancelDelete(c)

EffectStep ==
    \E c \in Caller :
        \/ RunEffect(c) \/ EffectRaises(c)
        \/ FinishDelete(c) \/ RecordFailure(c) \/ LeaveEffect(c)

TimeStep == \E a \in ActionId : ExpiryPasses(a) \/ LeasePasses(a)

ItemStep == \E i \in Item : WebDelete(i) \/ Restore(i)

Next == TurnStep \/ ResetThread \/ EffectStep \/ TimeStep \/ ItemStep

Spec == Init /\ [][Next]_vars

--------------------------------------------------------------------------------
(* Properties *)

\* Every row, message and handler has the shape the schema and the code give it;
\* an action has a claim token exactly while its deletion is applying.
TypeOK ==
    /\ thread \in [open : BOOLEAN, latest : Message \union {None}]
    /\ turns \subseteq Message
    /\ sent \in 0..MaxMessage
    /\ code \in [Message -> Code]
    /\ action \in [ActionId -> ActionRow]
    /\ \A a \in ActionId : action[a].token # None <=> action[a].state = "applying"
    /\ actions \in 0..MaxAction
    /\ item \in [Item -> [deleted : BOOLEAN, fence : Token \union {None}]]
    /\ tokens \in 0..MaxToken
    /\ restored \in [Item -> 0..MaxToken]
    /\ caller \in [Caller -> CallerState]

\* Whatever turns overlap, a thread has at most one unresolved action, save or
\* delete: the operations alone guarantee what the partial unique index
\* uq_pending_channel_action_thread_active enforces, so that none trips over it.
OneActiveAction ==
    \A a, b \in ActionId :
        action[a].state \in Active /\ action[b].state \in Active => a = b

\* A consumed action keeps its message and its results, a cancelled one stays
\* cancelled, whatever late deletion, failure or expiry is recorded after it.
ResolvedIsFinal ==
    [][\A a \in ActionId :
          action[a].state \in Resolved => action'[a] = action[a]]_vars

Deleting(c) == caller[c].pc \in {"effect", "settle", "raised"}

HoldsClaim(c) == Deleting(c) /\ action[caller[c].act].token = caller[c].token

\* Until its lease has passed, a claim is kept: no confirmation runs the same
\* deletion a second time, no request, save, cancellation, expiry or /new takes
\* the action away from the handler that is deleting its targets.
ClaimIsKept ==
    [][\A c \in Caller :
          /\ HoldsClaim(c) /\ caller'[c] = caller[c]
          /\ Leased(caller[c].act)
          => /\ action'[caller[c].act].state = "applying"
             /\ action'[caller[c].act].token = caller[c].token]_vars

\* Restoring or re-saving an item is a boundary: a deletion that was claimed
\* before it, however late it runs, does not delete the item again.
LateDeletionSparesRestored ==
    [][\A c \in Caller, i \in Item :
          /\ caller[c].pc = "effect" /\ caller'[c] # caller[c]
          /\ ~item[i].deleted /\ item'[i].deleted
          => restored[i] < caller[c].token]_vars

\* What a consumed deletion tells the user is true when it is recorded: targets
\* said to be deleted are in the recycle bin, or were restored after the claim
\* that deleted them; targets said to be restored were restored.
ResultsAreAccurate ==
    [][\A a \in ActionId, i \in Item :
          /\ action[a].state = "applying" /\ action'[a].state = "consumed"
          /\ i \in action[a].targets
          => IF action'[a].result[i] \in {"deleted", "already_deleted"}
             THEN item[i].deleted \/ restored[i] > action[a].token
             ELSE restored[i] > 0]_vars

\* A message consumes one action: delivered again after its turn was lost, it
\* does not consume the request that has replaced the one it answered.
MessageConsumesOnce ==
    \A a, b \in ActionId :
        /\ action[a].state = "consumed" /\ action[b].state = "consumed"
        /\ action[a].by = action[b].by /\ action[a].kind = action[b].kind
        => a = b

--------------------------------------------------------------------------------
(* What the documentation says and the code does not do *)

\* "restored/re-saved after this effect was claimed": only such a restore makes
\* a confirmed deletion a no-op.
OnlyLaterRestoresFence ==
    [][\A c \in Caller, i \in Item :
          /\ caller[c].pc = "effect" /\ caller'[c].pc = "settle"
          /\ caller'[c].result[i] = "already_restored"
          => restored[i] > caller[c].token]_vars

================================================================================
