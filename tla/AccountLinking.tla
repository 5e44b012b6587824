----------------------------- MODULE AccountLinking -----------------------------
(******************************************************************************)
(* Accounts and their channel identities. A link token made in one channel    *)
(* and presented in another merges the presenting account into the account    *)
(* of the token: rows, threads, tokens and identities move, duplicate rows    *)
(* are reconciled and the absorbed account is deleted. Links run while turns  *)
(* of both accounts hold a tenant they resolved before, while workers run     *)
(* attempts, and while an operator disables accounts or rebinds identities.   *)
(*                                                                            *)
(* A link locks every row it reads until it commits, so that it is one step;  *)
(* one that is aborted, by a deadlock of two links that cross or because the  *)
(* merged notes are too long to be kept, changes nothing.                     *)
(*                                                                            *)
(* An account is named by the identity whose first message created it.        *)
(******************************************************************************)
EXTENDS Naturals, FiniteSets

CONSTANTS
    Identity,          \* channel identities, each the name of its first account
    Channel,           \* LINKABLE_CHANNELS
    ChannelOf,         \* [Identity -> Channel]
    Video,
    Extension,         \* accounts whose browser has the extension
    MaxToken,          \* bound: link tokens
    MaxAttempt,        \* bound: attempts of one row
    MaxActs            \* bound: link tokens and acts of the operator

\* What the constants must satisfy.
ConstantsAssumption ==
    /\ ChannelOf \in [Identity -> Channel]
    /\ Extension \subseteq Identity
    /\ MaxToken \in Nat /\ MaxAttempt \in Nat
    /\ MaxActs \in Nat
    /\ "none" \notin Identity \union Channel

VARIABLES
    user,      \* AppUser of each account
    owner,     \* ChannelIdentity.app_user_id, "none" before the first message
    rebound,   \* identities an operator has bound to another account
    item,      \* content_item of an account and a video
    token,     \* channel_link_token
    thread,    \* the open conversation thread of an identity
    turn,      \* the turn an identity's conversation is in
    operator   \* acts of the operator so far

vars == <<user, owner, rebound, item, token, thread, turn, operator>>

Token == 1..MaxToken

--------------------------------------------------------------------------------
(* Rows *)

\* notes: whose texts why_saved holds. filled: the metadata columns are set.
\* captured: the latest attempt was admitted for a browser capture. snapshot:
\* the item has a ready browser_capture row, of the account snapshotOf. from:
\* what the text of a ready row was made of.
Item ==
    [state    : {"none", "pending", "ready", "failed"},
     work     : {"none", "queued", "running"},
     trashed  : BOOLEAN,
     notes    : SUBSET Identity,
     filled   : BOOLEAN,
     captured : BOOLEAN,
     snapshot : BOOLEAN,
     from     : {"none", "connector", "snapshot"},
     attempt  : 0..MaxAttempt]

NoItem == [state |-> "none", work |-> "none", trashed |-> FALSE, notes |-> {},
           filled |-> FALSE, captured |-> FALSE, snapshot |-> FALSE,
           from |-> "none", attempt |-> 0]

Saved(r)   == r.state # "none"
Queued(r)  == r.work = "queued"
Running(r) == r.work = "running"

TokenRow == [state : {"none", "open", "expired", "consumed"},
             user : Identity \union {"none"}, target : Channel \union {"none"}]

\* answers: for which accounts the turns of the thread were answered.
Thread == [user : Identity \union {"none"}, answers : SUBSET Identity]

NoThread == [user |-> "none", answers |-> {}]

Turn == [pc : {"idle", "agent"}, tenant : Identity \union {"none"}]

Init ==
    /\ user = [a \in Identity |-> "none"]
    /\ owner = [i \in Identity |-> "none"]
    /\ rebound = {}
    /\ item = [a \in Identity |-> [v \in Video |-> NoItem]]
    /\ token = [t \in Token |-> [state |-> "none", user |-> "none", target |-> "none"]]
    /\ thread = [i \in Identity |-> NoThread]
    /\ turn = [i \in Identity |-> [pc |-> "idle", tenant |-> "none"]]
    /\ operator = 0

Acts == operator + Cardinality({t \in Token : token[t].state # "none"})

Exists(a) == user[a] \in {"live", "disabled"}

--------------------------------------------------------------------------------
(* Registration and turns *)

\* resolve_or_register: two first messages of one identity race on a unique
\* row, and the one that loses deletes the account it made.
Register(i) ==
    /\ owner[i] = "none"
    /\ user[i] = "none"
    /\ user' = [user EXCEPT ![i] = "live"]
    /\ owner' = [owner EXCEPT ![i] = i]
    /\ UNCHANGED <<rebound, item, token, thread, turn, operator>>

Enabled(i) == owner[i] # "none" /\ user[owner[i]] = "live"

\* The thread is looked up by identity and not by account.
OpenThread(i) ==
    IF thread[i].user = "none"
    THEN [user |-> owner[i], answers |-> {}]
    ELSE thread[i]

\* The tenant is resolved here and used until the turn is over; the
\* conversation's lock keeps its turns apart.
TurnBegins(i) ==
    /\ turn[i].pc = "idle"
    /\ Enabled(i)
    /\ thread' = [thread EXCEPT ![i] = OpenThread(i)]
    /\ turn' = [turn EXCEPT ![i] = [pc |-> "agent", tenant |-> owner[i]]]
    /\ UNCHANGED <<user, owner, rebound, item, token, operator>>

\* A turn is saved unless its thread is no longer the tenant's: thread_missing.
MayRecord(i) == thread[i].user = turn[i].tenant

TurnEnds(i) ==
    /\ turn[i].pc = "agent"
    /\ thread' = IF MayRecord(i)
                 THEN [thread EXCEPT ![i].answers = @ \union {turn[i].tenant}]
                 ELSE thread
    /\ turn' = [turn EXCEPT ![i] = [pc |-> "idle", tenant |-> "none"]]
    /\ UNCHANGED <<user, owner, rebound, item, token, operator>>

\* /new closes the thread and opens one for the account of the identity.
ResetThread(i) ==
    /\ turn[i].pc = "idle"
    /\ Enabled(i)
    /\ thread' = [thread EXCEPT ![i] = [user |-> owner[i], answers |-> {}]]
    /\ UNCHANGED <<user, owner, rebound, item, token, turn, operator>>

--------------------------------------------------------------------------------
(* The library *)

Queue(r, captured) ==
    [r EXCEPT !.state = "pending", !.work = "queued", !.from = "none",
              !.captured = captured, !.attempt = @ + 1]

MayQueue(r) ==
    /\ r.work = "none"
    /\ r.state \in {"none", "failed"}
    /\ r.attempt < MaxAttempt

\* _submit_reference: a tenant whose account a link has deleted is refused.
Save(i, v) ==
    LET a == turn[i].tenant
        r == item[a][v]
    IN  /\ turn[i].pc = "agent"
        /\ Exists(a)
        /\ MayQueue(r)
        /\ \E note \in {r.notes, IF Saved(r) /\ ~r.trashed THEN r.notes ELSE {i}} :
              item' = [item EXCEPT ![a][v] =
                        [Queue(r, FALSE) EXCEPT !.trashed = FALSE, !.notes = note]]
        /\ UNCHANGED <<user, owner, rebound, token, thread, turn, operator>>

\* A browser capture of a device of the account: the snapshot is stored and the
\* attempt is admitted for it.
Capture(a, v) ==
    LET r == item[a][v]
    IN  /\ a \in Extension
        /\ user[a] = "live"
        /\ MayQueue(r)
        /\ item' = [item EXCEPT ![a][v] =
                     [Queue(r, TRUE) EXCEPT !.trashed = FALSE, !.snapshot = TRUE,
                                           !.filled = TRUE]]
        /\ UNCHANGED <<user, owner, rebound, token, thread, turn, operator>>

Trash(a, v) ==
    LET r == item[a][v]
    IN  /\ Exists(a)
        /\ Saved(r) /\ ~r.trashed
        /\ item' = [item EXCEPT ![a][v] = [r EXCEPT !.trashed = TRUE]]
        /\ UNCHANGED <<user, owner, rebound, token, thread, turn, operator>>

WorkerClaims(a, v) ==
    LET r == item[a][v]
    IN  /\ Queued(r)
        /\ item' = [item EXCEPT ![a][v] = [r EXCEPT !.work = "running"]]
        /\ UNCHANGED <<user, owner, rebound, token, thread, turn, operator>>

\* The worker reads the latest ready capture of the item and its account, and
\* fetches with the connector when there is none.
WorkerEnds(a, v) ==
    LET r == item[a][v]
    IN  /\ Running(r)
        /\ \/ item' = [item EXCEPT ![a][v] =
                [r EXCEPT !.work = "none",
                          !.state = IF r.trashed THEN "failed" ELSE "ready",
                          !.filled = r.filled \/ ~r.trashed,
                          !.from = IF r.trashed THEN "none"
                                   ELSE IF r.snapshot THEN "snapshot" ELSE "connector"]]
           \/ \E filled \in {r.filled, TRUE} :
                item' = [item EXCEPT ![a][v] =
                [r EXCEPT !.work = "none", !.state = "failed", !.filled = filled]]
        /\ UNCHANGED <<user, owner, rebound, token, thread, turn, operator>>

--------------------------------------------------------------------------------
(* Link tokens *)

CreateLinkToken(i, t, target) ==
    /\ token[t].state = "none"
    /\ \A s \in Token : s < t => token[s].state # "none"
    /\ Acts < MaxActs
    /\ Enabled(i)
    /\ target # ChannelOf[i]
    /\ token' = [token EXCEPT ![t] =
                   [state |-> "open", user |-> owner[i], target |-> target]]
    /\ UNCHANGED <<user, owner, rebound, item, thread, turn, operator>>

TokenExpires(t) ==
    /\ token[t].state = "open"
    /\ token' = [token EXCEPT ![t].state = "expired"]
    /\ UNCHANGED <<user, owner, rebound, item, thread, turn, operator>>

\* _survivor_rank: ready, then filled in, then with work queued, then the row
\* of the token's account. Neither row's shelf counts.
TargetOutranks(source, target) ==
    LET Rank(r) == (IF r.state = "ready" THEN 4 ELSE 0)
                 + (IF r.filled THEN 2 ELSE 0)
                 + (IF Queued(r) THEN 1 ELSE 0)
    IN  Rank(target) > Rank(source)

\* _reconcile_content. A snapshot of the row that stays is the other account's
\* when that row was the target's, and goes with that account.
Reconciled(source, target) ==
    LET keepTarget == TargetOutranks(source, target)
        survivor   == IF keepTarget THEN target ELSE source
    IN  [survivor EXCEPT !.notes = source.notes \union target.notes,
                         !.filled = source.filled \/ target.filled,
                         !.snapshot = ~keepTarget /\ source.snapshot]

\* The rows of the token's account after the link: browser_capture rows are
\* the target account's, and no row of that account survives it.
MergedItem(source, target) ==
    CASE ~Saved(target) -> source
      [] Saved(target) /\ ~Saved(source) -> [target EXCEPT !.snapshot = FALSE]
      [] OTHER -> Reconciled(source, target)

Duplicate(a, b, v) == Saved(item[a][v]) /\ Saved(item[b][v])

\* Variant of Busy: only the presenting account's attempts are looked at.
BusyTarget(a, b) == \E v \in Video : Running(item[b][v])

\* link_merge_busy: an attempt of the presenting account, or of a row that is
\* to go, is running.
Busy(a, b) ==
    \E v \in Video :
        \/ Running(item[b][v])
        \/ /\ Duplicate(a, b, v)
           /\ TargetOutranks(item[a][v], item[b][v])
           /\ Running(item[a][v])

Presentable(t, i) ==
    /\ token[t].state = "open"
    /\ token[t].target = ChannelOf[i]

Both(a, b) == user[a] = "live" /\ user[b] = "live"

Consumed(t) == [token EXCEPT ![t].state = "consumed"]

\* A token presented by an identity of its own account is used up and does
\* nothing else.
LinkOwn(t, i) ==
    /\ Presentable(t, i)
    /\ owner[i] = token[t].user
    /\ user[owner[i]] = "live"
    /\ token' = Consumed(t)
    /\ UNCHANGED <<user, owner, rebound, item, thread, turn, operator>>

\* _merge_tenants: account b, which presents the token, goes into account a.
Absorb(a, b) ==
    /\ item' = [item EXCEPT
                  ![a] = [v \in Video |-> MergedItem(item[a][v], item[b][v])],
                  ![b] = [v \in Video |-> NoItem]]
    /\ owner' = [i \in Identity |-> IF owner[i] = b THEN a ELSE owner[i]]
    /\ thread' = [i \in Identity |->
                    IF thread[i].user = b
                    THEN [user |-> a,
                          answers |-> {IF x = b THEN a ELSE x : x \in thread[i].answers}]
                    ELSE thread[i]]
    /\ user' = [user EXCEPT ![b] = "gone"]

\* The tokens of the absorbed account become the other account's; the one that
\* was presented is used up.
TokensAfter(t, a, b) ==
    [s \in Token |-> [Consumed(t)[s] EXCEPT !.user = IF @ = b THEN a ELSE @]]

\* An identity that was never seen registers in the transaction of its link.
Link(t, i) ==
    LET a == token[t].user
        b == IF owner[i] = "none" THEN i ELSE owner[i]
    IN  /\ Presentable(t, i)
        /\ b # a
        /\ IF owner[i] = "none" THEN user[i] = "none" /\ user[a] = "live" ELSE Both(a, b)
        /\ ~Busy(a, b)
        /\ IF owner[i] = "none"
           THEN /\ owner' = [owner EXCEPT ![i] = a]
                /\ user' = [user EXCEPT ![i] = "gone"]
                /\ UNCHANGED <<item, thread>>
           ELSE Absorb(a, b)
        /\ token' = TokensAfter(t, a, b)
        /\ UNCHANGED <<rebound, turn, operator>>

--------------------------------------------------------------------------------
(* Operators *)

Operate == Acts < MaxActs /\ operator' = operator + 1

SetDisabled(a) ==
    /\ Exists(a)
    /\ user' = [user EXCEPT ![a] = IF user[a] = "live" THEN "disabled" ELSE "live"]
    /\ Operate
    /\ UNCHANGED <<owner, rebound, item, token, thread, turn>>

\* rebind-identity moves the identity and nothing else.
RebindIdentity(i, a) ==
    /\ owner[i] \notin {"none", a}
    /\ Exists(a)
    /\ owner' = [owner EXCEPT ![i] = a]
    /\ rebound' = rebound \union {i}
    /\ Operate
    /\ UNCHANGED <<user, item, token, thread, turn>>

--------------------------------------------------------------------------------

Next ==
    \/ \E i \in Identity :
          \/ Register(i)
          \/ TurnBegins(i)
          \/ TurnEnds(i)
          \/ ResetThread(i)
          \/ SetDisabled(i)
          \/ \E v \in Video :
                \/ Save(i, v)
                \/ Capture(i, v)
                \/ Trash(i, v)
                \/ WorkerClaims(i, v)
                \/ WorkerEnds(i, v)
          \/ \E a \in Identity : RebindIdentity(i, a)
          \/ \E t \in Token :
                \/ \E target \in Channel : CreateLinkToken(i, t, target)
                \/ LinkOwn(t, i)
                \/ Link(t, i)
    \/ \E t \in Token : TokenExpires(t)

Spec == Init /\ [][Next]_vars

--------------------------------------------------------------------------------
(* Properties *)

\* Identities, rows and open tokens belong to accounts that exist.
TypeOK ==
    /\ user \in [Identity -> {"none", "live", "disabled", "gone"}]
    /\ owner \in [Identity -> Identity \union {"none"}]
    /\ rebound \subseteq Identity
    /\ item \in [Identity -> [Video -> Item]]
    /\ token \in [Token -> TokenRow]
    /\ thread \in [Identity -> Thread]
    /\ turn \in [Identity -> Turn]
    /\ operator \in 0..MaxActs
    /\ \A i \in Identity :
          /\ owner[i] # "none" => Exists(owner[i])
          /\ \A v \in Video : Saved(item[i][v]) => Exists(i)
    /\ \A t \in Token : token[t].state = "open" => Exists(token[t].user)

\* What was answered for one account never stands in a thread of another: a
\* turn that resolved its tenant before its account was absorbed, or its
\* identity rebound, is not recorded (channels/service.py 482-491).
AnswersStayInAccount ==
    \A i \in Identity : thread[i].answers \subseteq {thread[i].user}

\* The open thread of an identity follows it into the account a link moves it
\* to (identity.py 437-446), so that its conversation goes on; only an
\* operator's rebind leaves it behind (cli.py 153-164).
ThreadFollowsIdentity ==
    \A i \in Identity :
        i \notin rebound /\ thread[i].user # "none" => thread[i].user = owner[i]

\* The account that takes over account b in a step.
Absorbs(a, b) ==
    /\ user[b] # "gone" /\ user'[b] = "gone"
    /\ \E i \in Identity : owner'[i] = a /\ owner[i] = b

\* Linking loses no video of either account, no text that was ready and no note
\* on why it was saved (identity.py 395-436, 496-551).
LinkKeepsLibrary ==
    [][\A a, b \in Identity : Absorbs(a, b) =>
         \A v \in Video :
            LET source == item[a][v]
                target == item[b][v]
                merged == item'[a][v]
            IN  /\ Saved(source) \/ Saved(target) => Saved(merged)
                /\ source.state = "ready" \/ target.state = "ready"
                     => merged.state = "ready"
                /\ source.notes \union target.notes \subseteq merged.notes]_vars

\* No link takes the row away under an attempt that is running
\* (identity.py 386-393, 415-417): only the worker ends it.
RunningAttemptSurvives ==
    [][\A a \in Identity, v \in Video :
         Running(item[a][v]) => Running(item'[a][v]) \/ WorkerEnds(a, v) \/ Trash(a, v)]_vars

\* An account is absorbed only by a token of another account that was open and
\* is used up by it, and neither of the two is disabled (identity.py 270-314).
TokenLinksOnce ==
    [][\A b \in Identity : Exists(b) /\ user'[b] = "gone" =>
         /\ user[b] = "live"
         /\ \E t \in Token :
               /\ token[t].state = "open" /\ token'[t].state = "consumed"
               /\ token[t].user # b
               /\ user[token[t].user] = "live"]_vars

================================================================================
