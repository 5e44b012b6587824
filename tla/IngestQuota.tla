------------------------------ MODULE IngestQuota ------------------------------
(******************************************************************************)
(* The limits of the ingestion pipeline: how saves and retries of many        *)
(* clients take the admission locks, count and insert, while attempts settle, *)
(* items go through the recycle bin, accounts are linked and days pass.       *)
(*                                                                            *)
(* A transaction dates the rows it writes when it begins (func.now() of       *)
(* PostgreSQL), and the limits count from the midnight before the count       *)
(* (datetime.now of the service): the two are days of one clock here.         *)
(******************************************************************************)
EXTENDS Naturals, FiniteSets, Sequences

CONSTANTS
    User,       \* app_user ids: numbers, because linking locks in their order
    Video,      \* what can be saved
    Client,     \* requests in flight
    Policy,     \* the limit settings to explore; 0 stands for no limit
    MaxTries,   \* bound: dispatches, those still to be inserted included
    MaxDay      \* bound: days that pass

VARIABLES
    policy,     \* IngestQuotaPolicy of the deployment
    users,      \* app_user rows
    item,       \* content_item rows with their ingest_dispatch rows
    tx,         \* the transaction of a client
    day

vars == <<policy, users, item, tx, day>>

Limit == {"active", "activeAll", "items", "itemsAll", "total", "sends", "sendsAll"}
Day   == 0..MaxDay

ASSUME NumbersAssumption ==
    /\ User \subseteq Nat /\ MaxTries \in Nat /\ MaxDay \in Nat
    /\ IsFiniteSet(User) /\ IsFiniteSet(Video) /\ IsFiniteSet(Client)
    /\ Policy \subseteq [Limit -> Nat]

Try == [state : {"active", "failed", "completed"}, day : Day]
Row == [state : {"absent", "pending", "failed", "ready"}, trash : BOOLEAN,
        saved : Day, tries : Seq(Try)]

Absent == [state |-> "absent", trash |-> FALSE, saved |-> 0, tries |-> <<>>]

\* Valid URLs of one save; the others have their result before anything begins.
Batch == {<<v>> : v \in Video} \union (Video \X Video)

\* A save or a retry is about items of a user, one transaction for each; a linking
\* makes the items of one user those of another.
AdmitOp == [kind : {"save"}, user : User, batch : Batch]
               \union [kind : {"retry"}, user : User, batch : {<<v>> : v \in Video}]
LinkOp  == {op \in [kind : {"link"}, user : User, from : User] : op.from # op.user}
Op      == AdmitOp \union LinkOp

Idle == [pc |-> "idle", op |-> [kind |-> "none"], began |-> 0]

Tx == {Idle}
          \union [pc : {"global", "user", "check", "insert"}, op : AdmitOp, began : Day]
          \union [pc : {"low", "high", "merge"}, op : LinkOp, began : Day]

Init ==
    /\ policy \in Policy
    /\ users = User
    /\ item = [u \in User |-> [v \in Video |-> Absent]]
    /\ tx = [c \in Client |-> Idle]
    /\ day = 0

--------------------------------------------------------------------------------
(* What the limits count, for the users of a set *)

Items(us)         == {i \in us \X Video : item[i[1]][i[2]].state # "absent"}
SavedSince(us, d) == {i \in Items(us) : item[i[1]][i[2]].saved >= d}

Tries(us) == {t \in us \X Video \X (1..MaxTries) : t[3] <= Len(item[t[1]][t[2]].tries)}
TryOf(t)  == item[t[1]][t[2]].tries[t[3]]

Active(us) == {t \in Tries(us) : TryOf(t).state = "active"}

SentSince(us, d) == {t \in Tries(us) : TryOf(t).day >= d}

Reached(limit, counted) == policy[limit] # 0 /\ Cardinality(counted) >= policy[limit]

\* enforce: an admission for u must leave room below every limit that is set;
\* only new items count as items.
Admissible(u, new) ==
    /\ ~Reached("activeAll", Active(users))
    /\ ~Reached("active", Active({u}))
    /\ ~Reached("sendsAll", SentSince(users, day))
    /\ ~Reached("sends", SentSince({u}, day))
    /\ new => /\ ~Reached("itemsAll", SavedSince(users, day))
              /\ ~Reached("items", SavedSince({u}, day))
              /\ ~Reached("total", Items({u}))

--------------------------------------------------------------------------------
(* Locks *)

Enabled      == \E l \in Limit : policy[l] # 0
GlobalLimits == \E l \in {"activeAll", "itemsAll", "sendsAll"} : policy[l] # 0

Admitting(c) == tx[c].op.kind \in {"save", "retry"}

HoldsGlobal(c) ==
    GlobalLimits /\ Admitting(c) /\ tx[c].pc \in {"user", "check", "insert"}

\* Variant of LinkOrder that locks the surviving user first.
LinkOrderOwn(op) == <<op.user, op.from>>

LinkOrder(op) == IF op.user < op.from THEN <<op.user, op.from>> ELSE <<op.from, op.user>>

\* The app_user rows a transaction has locked.
HoldsUser(c) ==
    IF Admitting(c)
    THEN IF Enabled /\ tx[c].pc \in {"check", "insert"} THEN {tx[c].op.user} ELSE {}
    ELSE CASE tx[c].pc = "high"  -> {LinkOrder(tx[c].op)[1]}
           [] tx[c].pc = "merge" -> {tx[c].op.user, tx[c].op.from}
           [] OTHER              -> {}

\* Variant of UserFree that reads the app_user row without FOR UPDATE.
UserRead(c, u) == TRUE

UserFree(c, u) == \A o \in Client \ {c} : u \notin HoldsUser(o)

GlobalFree(c) == \A o \in Client \ {c} : ~HoldsGlobal(o)

\* An existing item row is locked from the check to the commit.
HoldsItem(o, u, v) ==
    /\ tx[o].pc = "insert" /\ tx[o].op.user = u /\ Head(tx[o].op.batch) = v
    /\ item[u][v].state # "absent"

ItemFree(c, u, v) == \A o \in Client \ {c} : ~HoldsItem(o, u, v)

\* For a worker, the purge or the recycle bin, which are no transaction of a client.
ItemUnlocked(u, v) == \A o \in Client : ~HoldsItem(o, u, v)

At(c, pc) == tx[c].pc = pc

Goto(c, pc) == tx' = [tx EXCEPT ![c].pc = pc]

--------------------------------------------------------------------------------
(* Saves and retries *)

\* acquire_locks takes the global lock when some limit is global, then the user.
FirstLock == IF ~Enabled THEN "check" ELSE IF GlobalLimits THEN "global" ELSE "user"

\* The transaction ends, and the next URL of a batch has its own.
End(c) ==
    tx' = [tx EXCEPT ![c] =
              IF Admitting(c) /\ Len(tx[c].op.batch) > 1
              THEN [pc |-> FirstLock, op |-> [tx[c].op EXCEPT !.batch = Tail(@)],
                    began |-> day]
              ELSE Idle]

\* URLs the requests under way still have before them.
Before ==
    {b \in Client \X (1..2) : Admitting(b[1]) /\ b[2] <= Len(tx[b[1]].op.batch)}

Begin(c, op) ==
    /\ At(c, "idle")
    /\ op.kind # "link" =>
           Cardinality(Tries(User)) + Cardinality(Before) + Len(op.batch) <= MaxTries
    /\ tx' = [tx EXCEPT ![c] = [pc |-> IF op.kind = "link" THEN "low" ELSE FirstLock,
                                op |-> op, began |-> day]]
    /\ UNCHANGED <<policy, users, item, day>>

LockGlobal(c) ==
    /\ At(c, "global")
    /\ GlobalFree(c)
    /\ Goto(c, "user")
    /\ UNCHANGED <<policy, users, item, day>>

\* The account may have been linked away in the meantime: no row, no admission.
LockUser(c) ==
    /\ At(c, "user")
    /\ UserFree(c, tx[c].op.user)
    /\ IF tx[c].op.user \in users THEN Goto(c, "check") ELSE End(c)
    /\ UNCHANGED <<policy, users, item, day>>

Latest(row) == row.tries[Len(row.tries)]

\* What asks for a new attempt: a save of something new or of an item whose last
\* attempt failed, also out of the recycle bin, and a retry of a failed item.
MayTry(op, row) ==
    \/ op.kind = "save" /\ row.state = "absent"
    \/ /\ row.state \in {"pending", "failed"}
       /\ Latest(row).state = "failed"
       /\ op.kind = "retry" => ~row.trash

\* The save of an item that needs no attempt takes it out of the recycle bin.
\* What the limits refuse is rolled back, the recycle bin included.
Check(c) ==
    LET op  == tx[c].op
        row == item[op.user][Head(op.batch)]
    IN  /\ At(c, "check")
        /\ ItemFree(c, op.user, Head(op.batch))
        /\ IF MayTry(op, row)
           THEN /\ UNCHANGED item
                /\ IF Admissible(op.user, row.state = "absent")
                   THEN Goto(c, "insert") ELSE End(c)
           ELSE /\ item' = IF op.kind = "save"
                           THEN [item EXCEPT ![op.user][Head(op.batch)].trash = FALSE]
                           ELSE item
                /\ End(c)
        /\ UNCHANGED <<policy, users, day>>

\* Another request has inserted the item or an attempt, or a linking has removed
\* the user, since the check: without limits nothing serializes them.
Conflicts(op, row) ==
    \/ op.user \notin users
    \/ row.tries # <<>> /\ Latest(row).state # "failed"

\* The item and its dispatch are inserted and committed; an IntegrityError rolls
\* both back.
Insert(c) ==
    LET op  == tx[c].op
        row == item[op.user][Head(op.batch)]
        new == [state |-> "active", day |-> tx[c].began]
    IN  /\ At(c, "insert")
        /\ item' = IF Conflicts(op, row) THEN item
                   ELSE [item EXCEPT ![op.user][Head(op.batch)] =
                            [state |-> "pending", trash |-> FALSE,
                             saved |-> IF row.state = "absent" THEN tx[c].began
                                       ELSE row.saved,
                             tries |-> Append(row.tries, new)]]
        /\ End(c)
        /\ UNCHANGED <<policy, users, day>>

--------------------------------------------------------------------------------
(* Linking two accounts *)

\* Both users are locked in the order of their ids; a missing one ends it.
LockLow(c) ==
    /\ At(c, "low")
    /\ UserFree(c, LinkOrder(tx[c].op)[1])
    /\ Goto(c, "high")
    /\ UNCHANGED <<policy, users, item, day>>

LockHigh(c) ==
    /\ At(c, "high")
    /\ UserFree(c, LinkOrder(tx[c].op)[2])
    /\ IF {tx[c].op.user, tx[c].op.from} \subseteq users
       THEN Goto(c, "merge") ELSE End(c)
    /\ UNCHANGED <<policy, users, item, day>>

\* Of two rows of one video, one survives with the earlier date.
Merged(kept, lost) ==
    IF kept.state = "absent" THEN lost
    ELSE IF lost.state = "absent" THEN kept
    ELSE [kept EXCEPT !.saved = IF lost.saved < @ THEN lost.saved ELSE @]

\* The items of the other account become this user's, whatever his limits say.
\* A worker that is processing one of them makes the linking fail instead.
Merge(c) ==
    LET op == tx[c].op
    IN  /\ At(c, "merge")
        /\ \A v \in Video : ItemFree(c, op.user, v) /\ ItemFree(c, op.from, v)
        /\ \/ \E mine \in SUBSET Video :
                  /\ item' = [item EXCEPT
                         ![op.user] = [v \in Video |->
                             IF v \in mine THEN Merged(item[op.user][v], item[op.from][v])
                             ELSE Merged(item[op.from][v], item[op.user][v])],
                         ![op.from] = [v \in Video |-> Absent]]
                  /\ users' = users \ {op.from}
           \/ /\ \E t \in Active({op.user, op.from}) : t[1] \in {op.user, op.from}
              /\ UNCHANGED <<item, users>>
        /\ End(c)
        /\ UNCHANGED <<policy, day>>

--------------------------------------------------------------------------------
(* Everything else that changes what is counted *)

\* The publisher or a worker settles the active attempt of an item.
Settle(u, v, outcome) ==
    LET row == item[u][v]
    IN  /\ row.tries # <<>> /\ Latest(row).state = "active"
        /\ ItemUnlocked(u, v)
        /\ \E s \in (IF outcome = "completed" THEN {"ready"} ELSE {"pending", "failed"}) :
               item' = [item EXCEPT ![u][v].state = s,
                                    ![u][v].tries[Len(row.tries)].state = outcome]
        /\ UNCHANGED <<policy, users, tx, day>>

Trash(u, v) ==
    /\ item[u][v].state # "absent" /\ ~item[u][v].trash
    /\ ItemUnlocked(u, v)
    /\ item' = [item EXCEPT ![u][v].trash = TRUE]
    /\ UNCHANGED <<policy, users, tx, day>>

\* The purge removes an item without active attempts, days after it was deleted.
Purge(u, v) ==
    /\ item[u][v].trash
    /\ Latest(item[u][v]).state # "active"
    /\ item[u][v].saved < day /\ Latest(item[u][v]).day < day
    /\ ItemUnlocked(u, v)
    /\ item' = [item EXCEPT ![u][v] = Absent]
    /\ UNCHANGED <<policy, users, tx, day>>

NextDay ==
    /\ day < MaxDay
    /\ day' = day + 1
    /\ UNCHANGED <<policy, users, item, tx>>

--------------------------------------------------------------------------------
Progress(c) ==
    \/ LockGlobal(c) \/ LockUser(c) \/ Check(c) \/ Insert(c)
    \/ LockLow(c) \/ LockHigh(c) \/ Merge(c)

Next ==
    \/ \E c \in Client :
           \/ \E op \in Op :
                  /\ op.user \in users
                  /\ op.kind = "link" => op.from \in users
                  /\ Begin(c, op)
           \/ Progress(c)
    \/ \E u \in users, v \in Video :
           \/ \E o \in {"completed", "failed"} : Settle(u, v, o)
           \/ Trash(u, v)
           \/ Purge(u, v)
    \/ NextDay

Spec == Init /\ [][Next]_vars

--------------------------------------------------------------------------------
(* Properties *)

\* The rows stay well formed: an item that exists has an attempt, only its last
\* one can be active, and the active one is of an item that waits for it.
TypeOK ==
    /\ policy \in Policy
    /\ users \subseteq User
    /\ item \in [User -> [Video -> Row]]
    /\ tx \in [Client -> Tx]
    /\ day \in Day
    /\ \A u \in User, v \in Video : Len(item[u][v].tries) <= MaxTries
    /\ \A t \in Active(User) : t[3] = Len(item[t[1]][t[2]].tries)

\* Whatever the clients of all users do at once, the attempts in flight never
\* exceed the global limit and today's attempts and items never exceed the
\* global daily ones (submission.py 274-375: count and insert under one lock).
GlobalLimitsHold ==
    /\ policy.activeAll # 0 => Cardinality(Active(users)) <= policy.activeAll
    /\ policy.sendsAll # 0 => Cardinality(SentSince(users, day)) <= policy.sendsAll
    /\ policy.itemsAll # 0 => Cardinality(SavedSince(users, day)) <= policy.itemsAll

Within(limit, counted) == policy[limit] # 0 => Cardinality(counted) <= policy[limit]

\* No admission takes its user past a limit of his own. Linking an account may:
\* it moves rows and admits nothing (submission.py 311-394, identity.py 316-455).
AdmissionsStayWithin ==
    [][ Cardinality(Tries(users))' > Cardinality(Tries(users)) =>
            \A u \in users :
                /\ Cardinality(Tries({u}))' > Cardinality(Tries({u})) =>
                       Within("active", Active({u}))' /\ Within("sends", SentSince({u}, day))'
                /\ Cardinality(Items({u}))' > Cardinality(Items({u})) =>
                       Within("items", SavedSince({u}, day))' /\ Within("total", Items({u}))'
      ]_vars

\* No interleaving of counts and admissions gets past a limit: not past one for
\* everybody, nor by an admission past one of its user, although linking may
\* leave a user above it (submission.py 294-394, identity.py 420-436).
LimitsHold == []GlobalLimitsHold /\ AdmissionsStayWithin

\* The transaction has its next lock, or can take it now.
Unblocked(c) ==
    CASE tx[c].pc = "global" -> GlobalFree(c)
      [] tx[c].pc = "user"   -> UserFree(c, tx[c].op.user)
      [] tx[c].pc = "low"    -> UserFree(c, LinkOrder(tx[c].op)[1])
      [] tx[c].pc = "high"   -> UserFree(c, LinkOrder(tx[c].op)[2])
      [] tx[c].pc = "check"  -> ItemFree(c, tx[c].op.user, Head(tx[c].op.batch))
      [] tx[c].pc = "merge"  -> \A v \in Video : /\ ItemFree(c, tx[c].op.user, v)
                                                 /\ ItemFree(c, tx[c].op.from, v)
      [] OTHER               -> TRUE

\* Saves, retries and linkings never wait for each other in a circle: of those
\* under way, one can always go on (submission.py 283-297 "one stable
\* deadlock-free order", identity.py 286-294 users by id).
NoLockCycle ==
    (\E c \in Client : ~At(c, "idle")) => \E c \in Client : ~At(c, "idle") /\ Unblocked(c)

================================================================================
