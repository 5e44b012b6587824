----------------------------- MODULE TenantsProofs -----------------------------
(******************************************************************************)
(* Theorems about IngestQuota, AccountLinking and CompletionPublisher, for    *)
(* every finite set of users, videos, clients and events, every limit setting *)
(* and every number of attempts, days and faults.                             *)
(*                                                                            *)
(* Quotas: whoever counts holds the lock of the user, and the global one when *)
(* some limit is global, until the insert (UsersLocked, GlobalLocked), so the *)
(* room a check found is still there at the insert (Room): no other step lets *)
(* a count grow. A linking moves attempts, which maps the counted ones of the *)
(* new rows injectively to those of the old (MergeCounts).                    *)
(*                                                                            *)
(* Links: a row of the merged library is one of the two rows of its video or  *)
(* their fusion, which keeps the better state, the text and the notes         *)
(* (MergedRow, ReadyOutranks), and a link finds the account of the token      *)
(* there because open tokens of a merged account move with it.                *)
(*                                                                            *)
(* Outbox: no claim is in two hands (ClaimsDiffer), so the messages accepted  *)
(* of an event, the claims that may still become one and a row open to        *)
(* another claim together are at most one more than the faults (FaultsPaid).  *)
(******************************************************************************)
EXTENDS Tenants, FiniteSetTheorems, SequenceTheorems, WellFoundedInduction, TLAPS

--------------------------------------------------------------------------------
(* The inductive invariant of the quotas *)

\* No app_user row is locked twice.
UsersLocked ==
    \A c, d \in Client : c # d => HoldsUser(c) \intersect HoldsUser(d) = {}

\* Nor is the global lock.
GlobalLocked == \A c, d \in Client : c # d => ~(HoldsGlobal(c) /\ HoldsGlobal(d))

\* Both accounts a linking is about to merge are there, under its locks.
MergersExist ==
    \A c \in Client : At(c, "merge") => {tx[c].op.user, tx[c].op.from} \subseteq users

\* An account that was merged into another has no rows.
GoneHaveNothing == \A u \in User \ users, v \in Video : item[u][v] = Absent

\* An item without a row has no attempts.
TriedExist ==
    \A u \in User, v \in Video : item[u][v].tries # <<>> => item[u][v].state # "absent"

\* What a check found admissible is so until the insert.
Room ==
    \A c \in Client : At(c, "insert") =>
        Admissible(tx[c].op.user,
                   item[tx[c].op.user][Head(tx[c].op.batch)].state = "absent")

\* The attempts made and those still to be inserted are within the bound.
Accounted == Cardinality(Tries(User)) + Cardinality(Before) <= MaxTries

IInv ==
    /\ TypeOK
    /\ UsersLocked
    /\ GlobalLocked
    /\ MergersExist
    /\ GoneHaveNothing
    /\ TriedExist
    /\ Room
    /\ Accounted
    /\ GlobalLimitsHold

--------------------------------------------------------------------------------
(* Shapes *)

\* A batch has one or two videos, and what is left after the first is a batch.
LEMMA BatchFacts ==
  ASSUME NEW b \in Batch
  PROVE  /\ b \in Seq(Video) /\ Len(b) \in 1..2 /\ Head(b) \in Video
         /\ Len(b) > 1 => /\ Tail(b) \in {<<v>> : v \in Video} /\ Tail(b) \in Batch
                          /\ Len(Tail(b)) = Len(b) - 1
<1>1. CASE b \in {<<v>> : v \in Video}
  <2>1. PICK v \in Video : b = <<v>>
    BY <1>1
  <2>2. b \in Seq(Video) /\ Len(b) = 1 /\ Head(b) = v
    BY <2>1
  <2> QED
    BY <2>2
<1>2. CASE b \in Video \X Video
  <2>1. PICK v \in Video, w \in Video : b = <<v, w>>
    BY <1>2
  <2>2. b \in Seq(Video) /\ Len(b) = 2 /\ Head(b) = v /\ Tail(b) = <<w>> /\ Len(<<w>>) = 1
    BY <2>1
  <2> QED
    BY <2>2 DEF Batch
<1> QED
  BY <1>1, <1>2 DEF Batch

\* What a transaction may be, by its program counter.
LEMMA TxFacts ==
  ASSUME NEW t \in Tx
  PROVE  /\ t.pc \in {"idle", "global", "user", "check", "insert", "low", "high", "merge"}
         /\ t.pc = "idle" <=> t = Idle
         /\ t.pc = "idle" => t.op.kind = "none"
         /\ t.pc \in {"global", "user", "check", "insert"}
              => /\ t.op \in AdmitOp /\ t.op.user \in User
                 /\ t.op.kind \in {"save", "retry"}
                 /\ t.op.batch \in Batch
                 /\ t.op.kind = "retry" => t.op.batch \in {<<v>> : v \in Video}
                 /\ t.began \in Day
         /\ t.pc \in {"low", "high", "merge"}
              => /\ t.op \in LinkOp /\ t.op.user \in User
                 /\ t.op.kind = "link"
                 /\ t.op.from \in User /\ t.op.from # t.op.user
                 /\ t.began \in Day
<1>1. CASE t = Idle
  BY <1>1 DEF Idle
<1>2. CASE t \in [pc : {"global", "user", "check", "insert"}, op : AdmitOp, began : Day]
  <2>1. /\ t.pc \in {"global", "user", "check", "insert"}
        /\ t.op \in AdmitOp /\ t.began \in Day
    BY <1>2
  <2>2. /\ t.op.kind \in {"save", "retry"} /\ t.op.user \in User
        /\ t.op.batch \in Batch
        /\ t.op.kind = "retry" => t.op.batch \in {<<v>> : v \in Video}
    BY <2>1 DEF AdmitOp, Batch
  <2> QED
    BY <2>1, <2>2 DEF Idle
<1>3. CASE t \in [pc : {"low", "high", "merge"}, op : LinkOp, began : Day]
  <2>1. t.pc \in {"low", "high", "merge"} /\ t.op \in LinkOp /\ t.began \in Day
    BY <1>3
  <2>2. /\ t.op.kind = "link" /\ t.op.user \in User
        /\ t.op.from \in User /\ t.op.from # t.op.user
    BY <2>1 DEF LinkOp
  <2> QED
    BY <2>1, <2>2 DEF Idle
<1> QED
  BY <1>1, <1>2, <1>3 DEF Tx

\* The rows of a linking, in the order it locks them.
LEMMA OrderFacts ==
  ASSUME NEW op \in LinkOp
  PROVE  /\ LinkOrder(op)[1] \in User /\ LinkOrder(op)[2] \in User
         /\ LinkOrder(op)[1] < LinkOrder(op)[2]
         /\ {LinkOrder(op)[1], LinkOrder(op)[2]} = {op.user, op.from}
<1>1. op.user \in User /\ op.from \in User /\ op.from # op.user
  BY DEF LinkOp
<1>2. op.user \in Nat /\ op.from \in Nat
  BY <1>1, NumbersAssumption
<1>3. CASE op.user < op.from
  BY <1>1, <1>3 DEF LinkOrder
<1>4. CASE ~(op.user < op.from)
  <2>1. op.from < op.user
    BY <1>1, <1>2, <1>4
  <2> QED
    BY <1>1, <1>4, <2>1 DEF LinkOrder
<1> QED
  BY <1>3, <1>4

\* Which app_user rows a transaction has locked, by its program counter.
LEMMA HeldFacts ==
  ASSUME NEW c \in Client, tx[c] \in Tx
  PROVE  /\ tx[c].pc \in {"check", "insert"} =>
                HoldsUser(c) = IF Enabled THEN {tx[c].op.user} ELSE {}
         /\ tx[c].pc = "high" => HoldsUser(c) = {LinkOrder(tx[c].op)[1]}
         /\ tx[c].pc = "merge" => HoldsUser(c) = {tx[c].op.user, tx[c].op.from}
         /\ tx[c].pc \in {"idle", "global", "user", "low"} => HoldsUser(c) = {}
         /\ HoldsGlobal(c) <=> GlobalLimits /\ tx[c].pc \in {"user", "check", "insert"}
         /\ Admitting(c) <=> tx[c].pc \in {"global", "user", "check", "insert"}
<1>1. CASE tx[c].pc = "idle"
  BY <1>1, TxFacts DEF HoldsUser, HoldsGlobal, Admitting
<1>2. CASE tx[c].pc \in {"global", "user", "check", "insert"}
  BY <1>2, TxFacts DEF HoldsUser, HoldsGlobal, Admitting
<1>3. CASE tx[c].pc \in {"low", "high", "merge"}
  BY <1>3, TxFacts DEF HoldsUser, HoldsGlobal, Admitting
<1> QED
  BY <1>1, <1>2, <1>3, TxFacts

\* The same after a step.
LEMMA HeldNext ==
  ASSUME NEW c \in Client, tx'[c] \in Tx, policy' = policy
  PROVE  /\ tx'[c].pc \in {"check", "insert"} =>
                HoldsUser(c)' = IF Enabled THEN {tx'[c].op.user} ELSE {}
         /\ tx'[c].pc = "high" => HoldsUser(c)' = {LinkOrder(tx'[c].op)[1]}
         /\ tx'[c].pc = "merge" => HoldsUser(c)' = {tx'[c].op.user, tx'[c].op.from}
         /\ tx'[c].pc \in {"idle", "global", "user", "low"} => HoldsUser(c)' = {}
         /\ HoldsGlobal(c)' <=> GlobalLimits /\ tx'[c].pc \in {"user", "check", "insert"}
<1>0. (Enabled' <=> Enabled) /\ (GlobalLimits' <=> GlobalLimits)
  BY DEF Enabled, GlobalLimits
<1>1. CASE tx'[c].pc = "idle"
  BY <1>0, <1>1, TxFacts DEF HoldsUser, HoldsGlobal, Admitting
<1>2. CASE tx'[c].pc \in {"global", "user", "check", "insert"}
  BY <1>0, <1>2, TxFacts DEF HoldsUser, HoldsGlobal, Admitting
<1>3. CASE tx'[c].pc \in {"low", "high", "merge"}
  BY <1>0, <1>3, TxFacts DEF HoldsUser, HoldsGlobal, Admitting, LinkOrder
<1> QED
  BY <1>1, <1>2, <1>3, TxFacts

--------------------------------------------------------------------------------
(* Steps of a transaction *)

\* Only c moves, and it takes only locks that are free.
MovesAlone(c) ==
    /\ tx' \in [Client -> Tx]
    /\ \A d \in Client \ {c} : tx'[d] = tx[d]
    /\ \A u \in HoldsUser(c)' \ HoldsUser(c) : UserFree(c, u)
    /\ HoldsGlobal(c)' /\ ~HoldsGlobal(c) => GlobalFree(c)

\* The end of one transaction of a request.
LEMMA EndFacts ==
  ASSUME TypeOK, NEW c \in Client, ~At(c, "idle"), End(c), policy' = policy
  PROVE  /\ MovesAlone(c)
         /\ HoldsUser(c)' = {} /\ ~HoldsGlobal(c)'
         /\ tx'[c].pc \in {"idle", "global", "user", "check"}
         /\ \/ tx'[c] = Idle /\ (Admitting(c) => Len(tx[c].op.batch) = 1)
            \/ /\ Admitting(c) /\ Len(tx[c].op.batch) = 2
               /\ tx'[c].op.kind \in {"save", "retry"}
               /\ Len(tx'[c].op.batch) = 1
<1>0. tx[c] \in Tx /\ tx \in [Client -> Tx] /\ day \in Day
  BY DEF TypeOK
<1>1. /\ tx' \in [Client -> Tx]
      /\ \A d \in Client \ {c} : tx'[d] = tx[d]
      /\ \/ tx'[c] = Idle /\ (Admitting(c) => Len(tx[c].op.batch) = 1)
         \/ /\ Admitting(c) /\ Len(tx[c].op.batch) = 2
            /\ tx'[c].op.kind \in {"save", "retry"}
            /\ Len(tx'[c].op.batch) = 1
            /\ tx'[c].pc = FirstLock
  <2>1. CASE ~(Admitting(c) /\ Len(tx[c].op.batch) > 1)
    <3>1. tx' = [tx EXCEPT ![c] = Idle] /\ Idle \in Tx
      BY <2>1 DEF End, Tx
    <3>2. Admitting(c) => Len(tx[c].op.batch) = 1
      <4> SUFFICES ASSUME Admitting(c) PROVE Len(tx[c].op.batch) = 1
        OBVIOUS
      <4>1. tx[c].op.batch \in Batch
        BY <1>0, HeldFacts, TxFacts
      <4> QED
        BY <2>1, <4>1, BatchFacts
    <3> QED
      BY <1>0, <3>1, <3>2
  <2>2. CASE Admitting(c) /\ Len(tx[c].op.batch) > 1
    <3> DEFINE op == [tx[c].op EXCEPT !.batch = Tail(@)]
               t  == [pc |-> FirstLock, op |-> op, began |-> day]
    <3>1. tx' = [tx EXCEPT ![c] = t]
      BY <1>0, <2>2 DEF End
    <3>2. tx[c].op \in AdmitOp /\ tx[c].op.batch \in Batch
          /\ tx[c].op.kind \in {"save", "retry"}
          /\ (tx[c].op.kind = "retry" => tx[c].op.batch \in {<<v>> : v \in Video})
      BY <1>0, <2>2, HeldFacts, TxFacts
    <3>3. /\ Len(tx[c].op.batch) = 2 /\ Tail(tx[c].op.batch) \in Batch
          /\ Len(Tail(tx[c].op.batch)) = 1
      <4>1. PICK b \in Batch : b = tx[c].op.batch
        BY <3>2
      <4>2. Len(b) \in 1..2 /\ (Len(b) > 1 => Tail(b) \in Batch /\ Len(Tail(b)) = Len(b) - 1)
        BY BatchFacts
      <4> QED
        <5>1. Len(b) > 1 /\ Len(b) \in 1..2
          BY <2>2, <4>1, <4>2
        <5>2. Len(b) = 2 /\ Tail(b) \in Batch /\ Len(Tail(b)) = 1
          BY <4>2, <5>1
        <5> QED
          BY <4>1, <5>2
    <3>4. tx[c].op.kind = "save"
      <4> SUFFICES ASSUME tx[c].op.kind = "retry" PROVE FALSE
        BY <3>2
      <4>1. PICK v \in Video : tx[c].op.batch = <<v>>
        BY <3>2
      <4> QED
        BY <3>3, <4>1
    <3>5. tx[c].op \in [kind : {"save"}, user : User, batch : Batch]
      BY <3>2, <3>4 DEF AdmitOp
    <3>6. op \in [kind : {"save"}, user : User, batch : Batch] /\ op.batch = Tail(tx[c].op.batch)
      BY <3>3, <3>5
    <3>7. op \in AdmitOp /\ op.kind = "save" /\ Len(op.batch) = 1
      BY <3>3, <3>6 DEF AdmitOp
    <3> HIDE DEF op
    <3>8. t \in Tx /\ t.pc = FirstLock /\ t.op = op
      BY <1>0, <3>7 DEF Tx, FirstLock
    <3> HIDE DEF t
    <3>9. tx' \in [Client -> Tx] /\ tx'[c] = t /\ \A d \in Client \ {c} : tx'[d] = tx[d]
      BY <1>0, <3>1, <3>8
    <3> QED
      BY <2>2, <3>3, <3>7, <3>8, <3>9
  <2> QED
    BY <2>1, <2>2
<1>2. tx'[c] \in Tx
  BY <1>1
<1>3. /\ tx'[c].pc \in {"idle", "global", "user", "check"}
      /\ tx'[c].pc = "check" => ~Enabled
      /\ tx'[c].pc \in {"user", "check"} => ~GlobalLimits
  <2>1. GlobalLimits => Enabled
    BY DEF Enabled, GlobalLimits, Limit
  <2>2. Idle.pc = "idle"
    BY DEF Idle
  <2>3. /\ FirstLock \in {"global", "user", "check"}
        /\ FirstLock = "check" => ~Enabled
        /\ FirstLock = "user" => ~GlobalLimits
    BY DEF FirstLock
  <2>4. tx'[c].pc = "idle" \/ tx'[c].pc = FirstLock
    BY <1>1, <2>2
  <2> QED
    BY <2>1, <2>3, <2>4, Zenon
<1>4. HoldsUser(c)' = {} /\ ~HoldsGlobal(c)'
  BY <1>2, <1>3, HeldNext
<1>5. MovesAlone(c)
  BY <1>1, <1>4, Zenon DEF MovesAlone
<1> QED
  BY <1>1, <1>3, <1>4, <1>5, Zenon

\* Within a transaction only the program counter moves.
LEMMA GotoFacts ==
  ASSUME TypeOK, NEW c \in Client, NEW pc, Goto(c, pc),
         \/ /\ tx[c].pc \in {"global", "user", "check", "insert"}
            /\ pc \in {"global", "user", "check", "insert"}
         \/ tx[c].pc \in {"low", "high", "merge"} /\ pc \in {"low", "high", "merge"}
  PROVE  /\ tx' \in [Client -> Tx]
         /\ \A d \in Client \ {c} : tx'[d] = tx[d]
         /\ tx'[c].pc = pc /\ tx'[c].op = tx[c].op /\ tx'[c].began = tx[c].began
<1>0. tx[c] \in Tx /\ tx \in [Client -> Tx]
  BY DEF TypeOK
<1> DEFINE t == [tx[c] EXCEPT !.pc = pc]
<1>1. tx' = [tx EXCEPT ![c] = t]
  BY <1>0 DEF Goto
<1>2. t \in Tx /\ t.pc = pc /\ t.op = tx[c].op /\ t.began = tx[c].began
  <2>1. CASE tx[c].pc \in {"global", "user", "check", "insert"}
    <3>1. tx[c] \in [pc : {"global", "user", "check", "insert"}, op : AdmitOp, began : Day]
      BY <1>0, <2>1 DEF Tx, Idle
    <3>2. pc \in {"global", "user", "check", "insert"}
      BY <2>1
    <3> QED
      BY <3>1, <3>2 DEF Tx
  <2>2. CASE tx[c].pc \in {"low", "high", "merge"}
    <3>1. tx[c] \in [pc : {"low", "high", "merge"}, op : LinkOp, began : Day]
      BY <1>0, <2>2 DEF Tx, Idle
    <3>2. pc \in {"low", "high", "merge"}
      BY <2>2
    <3> QED
      BY <3>1, <3>2 DEF Tx
  <2> QED
    BY <2>1, <2>2
<1> HIDE DEF t
<1> QED
  BY <1>0, <1>1, <1>2

\* Locks are taken when they are free, so nobody holds one twice.
LEMMA LocksKept ==
  ASSUME TypeOK, UsersLocked, GlobalLocked, policy' = policy, NEW c \in Client, MovesAlone(c)
  PROVE  UsersLocked' /\ GlobalLocked'
<1>1. \A d \in Client \ {c} : HoldsUser(d)' = HoldsUser(d) /\ (HoldsGlobal(d)' <=> HoldsGlobal(d))
  BY DEF MovesAlone, HoldsUser, HoldsGlobal, Admitting, Enabled, GlobalLimits, LinkOrder
<1>2. UsersLocked'
  BY <1>1 DEF UsersLocked, MovesAlone, UserFree
<1>3. GlobalLocked'
  BY <1>1 DEF GlobalLocked, MovesAlone, GlobalFree
<1> QED
  BY <1>2, <1>3

--------------------------------------------------------------------------------
(* Counts *)

Shelves == [User -> [Video -> Row]]

\* The counted sets, of given rows.
TriesOf(it, us)    == {t \in us \X Video \X (1..MaxTries) : t[3] <= Len(it[t[1]][t[2]].tries)}
ActiveOf(it, us)   == {t \in TriesOf(it, us) : it[t[1]][t[2]].tries[t[3]].state = "active"}
SentOf(it, us, d)  == {t \in TriesOf(it, us) : it[t[1]][t[2]].tries[t[3]].day >= d}
ItemsOf(it, us)    == {i \in us \X Video : it[i[1]][i[2]].state # "absent"}
SavedOf(it, us, d) == {i \in ItemsOf(it, us) : it[i[1]][i[2]].saved >= d}

LEMMA CountedNow ==
  ASSUME NEW us, NEW d
  PROVE  /\ Tries(us) = TriesOf(item, us) /\ Active(us) = ActiveOf(item, us)
         /\ SentSince(us, d) = SentOf(item, us, d)
         /\ Items(us) = ItemsOf(item, us)
         /\ SavedSince(us, d) = SavedOf(item, us, d)
  BY DEF Tries, TriesOf, Active, ActiveOf, SentSince, SentOf, Items, ItemsOf, SavedSince,
         SavedOf, TryOf

\* All of them are finite.
LEMMA CountedFinite ==
  ASSUME NEW it, NEW us \in SUBSET User, NEW d
  PROVE  /\ IsFiniteSet(TriesOf(it, us)) /\ IsFiniteSet(ActiveOf(it, us))
         /\ IsFiniteSet(SentOf(it, us, d)) /\ IsFiniteSet(ItemsOf(it, us))
         /\ IsFiniteSet(SavedOf(it, us, d))
<1>1. IsFiniteSet(us) /\ IsFiniteSet(Video)
  BY NumbersAssumption, FS_Subset
<1>2. IsFiniteSet(us \X Video)
  BY <1>1, FS_Product
<1>3. IsFiniteSet((us \X Video) \X (1..MaxTries))
  <2>1. IsFiniteSet(1..MaxTries)
    BY NumbersAssumption, FS_Interval
  <2> QED
    BY <1>2, <2>1, FS_Product
<1>4. IsFiniteSet(us \X Video \X (1..MaxTries))
  <2> DEFINE S == (us \X Video) \X (1..MaxTries)
             T == us \X Video \X (1..MaxTries)
             f == [s \in S |-> <<s[1][1], s[1][2], s[2]>>]
  <2>1. f \in [S -> T]
    OBVIOUS
  <2>2. \A t \in T : \E s \in S : f[s] = t
    <3> SUFFICES ASSUME NEW t \in T PROVE \E s \in S : f[s] = t
      OBVIOUS
    <3>1. PICK a \in us, b \in Video, n \in 1..MaxTries : t = <<a, b, n>>
      OBVIOUS
    <3>2. <<<<a, b>>, n>> \in S /\ f[<<<<a, b>>, n>>] = t
      BY <3>1
    <3> QED
      BY <3>2
  <2>3. f \in Surjection(S, T)
    BY <2>1, <2>2 DEF Surjection
  <2> HIDE DEF f, T, S
  <2>4. IsFiniteSet(T)
    BY <1>3, <2>3, FS_Surjection DEF S
  <2> QED
    BY <2>4 DEF T
<1>5. /\ TriesOf(it, us) \in SUBSET (us \X Video \X (1..MaxTries))
      /\ ActiveOf(it, us) \in SUBSET TriesOf(it, us)
      /\ SentOf(it, us, d) \in SUBSET TriesOf(it, us)
      /\ ItemsOf(it, us) \in SUBSET (us \X Video)
      /\ SavedOf(it, us, d) \in SUBSET ItemsOf(it, us)
  BY DEF TriesOf, ActiveOf, SentOf, ItemsOf, SavedOf
<1>6. IsFiniteSet(TriesOf(it, us)) /\ IsFiniteSet(ItemsOf(it, us))
  BY <1>2, <1>4, <1>5, FS_Subset
<1> QED
  BY <1>5, <1>6, FS_Subset

\* The numbers in a row.
LEMMA RowFacts ==
  ASSUME NEW entry \in Row
  PROVE  /\ entry.saved \in Nat
         /\ entry.tries \in Seq(Try) /\ Len(entry.tries) \in Nat
         /\ \A k \in 1..Len(entry.tries) : entry.tries[k] \in Try /\ entry.tries[k].day \in Nat
<1>1. entry.saved \in Day /\ entry.tries \in Seq(Try)
  BY DEF Row
<1>2. \A try \in Try : try.day \in Nat
  BY NumbersAssumption DEF Try, Day
<1> QED
  BY <1>1, <1>2, NumbersAssumption DEF Day

\* A row that counts for no more than another one.
NoMore(new, old) ==
    /\ new.state # "absent" => old.state # "absent" /\ new.saved <= old.saved
    /\ Len(new.tries) <= Len(old.tries)
    /\ \A k \in 1..Len(new.tries) :
           /\ new.tries[k].day = old.tries[k].day
           /\ new.tries[k].state = "active" => old.tries[k].state = "active"

LEMMA SameIsNoMore ==
  ASSUME NEW entry \in Row
  PROVE  NoMore(entry, entry)
  BY RowFacts DEF NoMore

LEMMA AbsentIsNoMore ==
  ASSUME NEW entry \in Row
  PROVE  NoMore(Absent, entry)
  BY RowFacts DEF NoMore, Absent

\* Where no row counts for more, no counted set grows.
LEMMA Shrink ==
  ASSUME NEW it \in Shelves, NEW jt \in Shelves, NEW us \in SUBSET User,
         NEW d \in Nat, NEW e \in Nat, d <= e,
         \A u \in us, v \in Video : NoMore(jt[u][v], it[u][v])
  PROVE  /\ TriesOf(jt, us) \subseteq TriesOf(it, us)
         /\ ActiveOf(jt, us) \subseteq ActiveOf(it, us)
         /\ SentOf(jt, us, e) \subseteq SentOf(it, us, d)
         /\ ItemsOf(jt, us) \subseteq ItemsOf(it, us)
         /\ SavedOf(jt, us, e) \subseteq SavedOf(it, us, d)
<1>0. \A u \in us, v \in Video :
        /\ it[u][v] \in Row /\ jt[u][v] \in Row
        /\ it[u][v].saved \in Nat /\ jt[u][v].saved \in Nat
        /\ it[u][v].tries \in Seq(Try) /\ jt[u][v].tries \in Seq(Try)
        /\ Len(it[u][v].tries) \in Nat /\ Len(jt[u][v].tries) \in Nat
  <2> SUFFICES ASSUME NEW u \in us, NEW v \in Video
               PROVE  it[u][v] \in Row /\ jt[u][v] \in Row
    BY RowFacts
  <2> QED
    BY DEF Shelves
<1>1. ASSUME NEW t \in TriesOf(jt, us)
      PROVE  /\ t \in TriesOf(it, us)
             /\ jt[t[1]][t[2]].tries[t[3]].day = it[t[1]][t[2]].tries[t[3]].day
             /\ jt[t[1]][t[2]].tries[t[3]].state = "active"
                  => it[t[1]][t[2]].tries[t[3]].state = "active"
             /\ it[t[1]][t[2]].tries[t[3]].day \in Nat
  <2>1. PICK u \in us, v \in Video, k \in 1..MaxTries :
           t = <<u, v, k>> /\ k <= Len(jt[u][v].tries)
    BY <1>1 DEF TriesOf
  <2>2. k \in 1..Len(jt[u][v].tries) /\ NoMore(jt[u][v], it[u][v])
    BY <1>0, <2>1, NumbersAssumption
  <2>3. /\ k <= Len(it[u][v].tries)
        /\ jt[u][v].tries[k].day = it[u][v].tries[k].day
        /\ jt[u][v].tries[k].state = "active" => it[u][v].tries[k].state = "active"
    BY <1>0, <2>2 DEF NoMore
  <2>4. it[u][v].tries[k].day \in Nat
    <3>1. k \in 1..Len(it[u][v].tries)
      BY <1>0, <2>2, <2>3
    <3>2. it[u][v].tries[k] \in Try
      BY <1>0, <3>1
    <3> QED
      BY <3>2, NumbersAssumption DEF Try, Day
  <2> QED
    BY <2>1, <2>3, <2>4 DEF TriesOf
<1>2. ASSUME NEW i \in ItemsOf(jt, us)
      PROVE  /\ i \in ItemsOf(it, us)
             /\ jt[i[1]][i[2]].saved <= it[i[1]][i[2]].saved
             /\ jt[i[1]][i[2]].saved \in Nat /\ it[i[1]][i[2]].saved \in Nat
  <2>1. PICK u \in us, v \in Video : i = <<u, v>> /\ jt[u][v].state # "absent"
    BY <1>2 DEF ItemsOf
  <2>2. it[u][v].state # "absent" /\ jt[u][v].saved <= it[u][v].saved
    BY <2>1 DEF NoMore
  <2> QED
    BY <1>0, <2>1, <2>2 DEF ItemsOf
<1>3. ActiveOf(jt, us) \subseteq ActiveOf(it, us)
  BY <1>1 DEF ActiveOf
<1>4. SentOf(jt, us, e) \subseteq SentOf(it, us, d)
  <2> SUFFICES ASSUME NEW t \in SentOf(jt, us, e) PROVE t \in SentOf(it, us, d)
    OBVIOUS
  <2>1. t \in TriesOf(jt, us) /\ jt[t[1]][t[2]].tries[t[3]].day >= e
    BY DEF SentOf
  <2> QED
    BY <1>1, <2>1, SMTT(30) DEF SentOf
<1>5. SavedOf(jt, us, e) \subseteq SavedOf(it, us, d)
  <2> SUFFICES ASSUME NEW i \in SavedOf(jt, us, e) PROVE i \in SavedOf(it, us, d)
    OBVIOUS
  <2>1. i \in ItemsOf(jt, us) /\ jt[i[1]][i[2]].saved >= e
    BY DEF SavedOf
  <2> QED
    BY <1>2, <2>1 DEF SavedOf
<1> QED
  BY <1>1, <1>2, <1>3, <1>4, <1>5

\* A set that is mapped into a finite one without collisions is no larger.
LEMMA Pushed ==
  ASSUME NEW X, NEW Y, IsFiniteSet(Y), NEW h,
         \A x \in X : h[x] \in Y,
         \A x, y \in X : h[x] = h[y] => x = y
  PROVE  Cardinality(X) <= Cardinality(Y)
<1> DEFINE g == [x \in X |-> h[x]]
<1>1. g \in [X -> Y] /\ \A x, y \in X : g[x] = g[y] => x = y
  OBVIOUS
<1> HIDE DEF g
<1>2. g \in Injection(X, Y)
  BY <1>1 DEF Injection, IsInjective
<1> QED
  BY <1>2, FS_Injection

LEMMA AddedOne ==
  ASSUME NEW X, NEW Y, IsFiniteSet(Y), NEW e, X \subseteq Y \union {e}
  PROVE  Cardinality(X) <= Cardinality(Y) + 1
<1>1. /\ IsFiniteSet(Y \union {e})
      /\ Cardinality(Y \union {e}) \in {Cardinality(Y), Cardinality(Y) + 1}
  BY FS_AddElement
<1>2. X \in SUBSET (Y \union {e})
  OBVIOUS
<1>3. Cardinality(X) <= Cardinality(Y \union {e}) /\ IsFiniteSet(X)
  BY <1>1, <1>2, FS_Subset
<1>4. Cardinality(X) \in Nat /\ Cardinality(Y) \in Nat
  BY <1>3, FS_CardinalityType
<1> QED
  BY <1>1, <1>3, <1>4

\* A linking counts for no more than before: what the surviving row of a video
\* counts was counted for one of the two users.
LEMMA MergeCounts ==
  ASSUME NEW it \in Shelves, NEW jt \in Shelves, NEW us \in SUBSET User,
         NEW a \in us, NEW b \in us, a # b, NEW d \in Nat,
         \A v \in Video : NoMore(jt[a][v], it[a][v]) \/ NoMore(jt[a][v], it[b][v]),
         \A v \in Video : jt[b][v] = Absent,
         \A u \in us \ {a, b}, v \in Video : jt[u][v] = it[u][v]
  PROVE  /\ Cardinality(TriesOf(jt, us)) <= Cardinality(TriesOf(it, us))
         /\ Cardinality(ActiveOf(jt, us)) <= Cardinality(ActiveOf(it, us))
         /\ Cardinality(SentOf(jt, us, d)) <= Cardinality(SentOf(it, us, d))
         /\ Cardinality(SavedOf(jt, us, d)) <= Cardinality(SavedOf(it, us, d))
<1> DEFINE o == [v \in Video |-> IF NoMore(jt[a][v], it[a][v]) THEN a ELSE b]
           w == [u \in us |-> [v \in Video |-> IF u = a THEN o[v] ELSE u]]
           h == [t \in us \X Video \X (1..MaxTries) |-> <<w[t[1]][t[2]], t[2], t[3]>>]
           g == [i \in us \X Video |-> <<w[i[1]][i[2]], i[2]>>]
<1>1. \A v \in Video : o[v] \in {a, b} /\ NoMore(jt[a][v], it[o[v]][v])
  OBVIOUS
<1>2. \A u \in us, v \in Video : w[u][v] = IF u = a THEN o[v] ELSE u
  OBVIOUS
<1> HIDE DEF o
<1>3. \A u \in us \ {b}, v \in Video :
         /\ w[u][v] \in us
         /\ it[w[u][v]][v] \in Row /\ jt[u][v] \in Row
         /\ NoMore(jt[u][v], it[w[u][v]][v])
  <2> SUFFICES ASSUME NEW u \in us \ {b}, NEW v \in Video
               PROVE  /\ w[u][v] \in us
                      /\ it[w[u][v]][v] \in Row /\ jt[u][v] \in Row
                      /\ NoMore(jt[u][v], it[w[u][v]][v])
    OBVIOUS
  <2>1. w[u][v] \in us
    BY <1>1, <1>2
  <2>2. it[w[u][v]][v] \in Row /\ jt[u][v] \in Row
    BY <2>1 DEF Shelves
  <2>3. CASE u = a
    BY <1>1, <1>2, <2>1, <2>2, <2>3
  <2>4. CASE u # a
    BY <1>2, <2>1, <2>2, <2>4, SameIsNoMore
  <2> QED
    BY <2>3, <2>4
<1>4. \A u1, u2 \in us \ {b}, v \in Video : w[u1][v] = w[u2][v] => u1 = u2
  BY <1>1, <1>2
<1> HIDE DEF w
<1>5. \A t \in us \X Video \X (1..MaxTries) : h[t] = <<w[t[1]][t[2]], t[2], t[3]>>
  OBVIOUS
<1>6. \A i \in us \X Video : g[i] = <<w[i[1]][i[2]], i[2]>>
  OBVIOUS
<1> HIDE DEF h, g
<1>7. ASSUME NEW t \in TriesOf(jt, us)
      PROVE  /\ t \in (us \ {b}) \X Video \X (1..MaxTries)
             /\ h[t] \in TriesOf(it, us)
             /\ h[t] = <<w[t[1]][t[2]], t[2], t[3]>>
             /\ jt[t[1]][t[2]].tries[t[3]].day = it[h[t][1]][h[t][2]].tries[h[t][3]].day
             /\ jt[t[1]][t[2]].tries[t[3]].state = "active"
                  => it[h[t][1]][h[t][2]].tries[h[t][3]].state = "active"
  <2>1. PICK u \in us, v \in Video, k \in 1..MaxTries :
           t = <<u, v, k>> /\ k <= Len(jt[u][v].tries)
    BY <1>7 DEF TriesOf
  <2>2. u # b
    <3> SUFFICES ASSUME u = b PROVE FALSE
      OBVIOUS
    <3>1. Len(jt[u][v].tries) = 0
      BY DEF Absent
    <3> QED
      BY <2>1, <3>1, NumbersAssumption
  <2>3. /\ w[u][v] \in us /\ NoMore(jt[u][v], it[w[u][v]][v])
        /\ Len(jt[u][v].tries) \in Nat /\ Len(it[w[u][v]][v].tries) \in Nat
    BY <1>3, <2>2, RowFacts
  <2>4. k \in 1..Len(jt[u][v].tries)
    BY <2>1, <2>3, NumbersAssumption
  <2>5. /\ k <= Len(it[w[u][v]][v].tries)
        /\ jt[u][v].tries[k].day = it[w[u][v]][v].tries[k].day
        /\ jt[u][v].tries[k].state = "active" => it[w[u][v]][v].tries[k].state = "active"
    <3>1. /\ Len(jt[u][v].tries) <= Len(it[w[u][v]][v].tries)
          /\ jt[u][v].tries[k].day = it[w[u][v]][v].tries[k].day
          /\ jt[u][v].tries[k].state = "active" => it[w[u][v]][v].tries[k].state = "active"
      BY <2>3, <2>4 DEF NoMore
    <3> QED
      BY <2>3, <2>4, <3>1
  <2>6. h[t] = <<w[u][v], v, k>>
    BY <1>5, <2>1
  <2> QED
    BY <2>1, <2>2, <2>3, <2>5, <2>6 DEF TriesOf
<1>8. ASSUME NEW i \in ItemsOf(jt, us)
      PROVE  /\ i \in (us \ {b}) \X Video
             /\ g[i] \in ItemsOf(it, us)
             /\ g[i] = <<w[i[1]][i[2]], i[2]>>
             /\ jt[i[1]][i[2]].saved <= it[g[i][1]][g[i][2]].saved
             /\ jt[i[1]][i[2]].saved \in Nat /\ it[g[i][1]][g[i][2]].saved \in Nat
  <2>1. PICK u \in us, v \in Video : i = <<u, v>> /\ jt[u][v].state # "absent"
    BY <1>8 DEF ItemsOf
  <2>2. u # b
    BY <2>1 DEF Absent
  <2>3. /\ w[u][v] \in us /\ NoMore(jt[u][v], it[w[u][v]][v])
        /\ jt[u][v].saved \in Nat /\ it[w[u][v]][v].saved \in Nat
    BY <1>3, <2>2, RowFacts
  <2>4. it[w[u][v]][v].state # "absent" /\ jt[u][v].saved <= it[w[u][v]][v].saved
    BY <2>1, <2>3, Zenon DEF NoMore
  <2>5. g[i] = <<w[u][v], v>>
    BY <1>6, <2>1
  <2> QED
    BY <2>1, <2>2, <2>3, <2>4, <2>5 DEF ItemsOf
<1>9. \A s, t \in TriesOf(jt, us) : h[s] = h[t] => s = t
  <2> SUFFICES ASSUME NEW s \in TriesOf(jt, us), NEW t \in TriesOf(jt, us), h[s] = h[t]
               PROVE  s = t
    BY SMTT(30)
  <2>1. /\ s \in (us \ {b}) \X Video \X (1..MaxTries)
        /\ t \in (us \ {b}) \X Video \X (1..MaxTries)
        /\ <<w[s[1]][s[2]], s[2], s[3]>> = <<w[t[1]][t[2]], t[2], t[3]>>
    BY <1>7
  <2>2. s[2] = t[2] /\ s[3] = t[3] /\ w[s[1]][s[2]] = w[t[1]][s[2]]
    BY <2>1
  <2>3. s[1] = t[1]
    BY <1>4, <2>1, <2>2
  <2> QED
    BY <2>1, <2>2, <2>3
<1>10. \A i, j \in ItemsOf(jt, us) : g[i] = g[j] => i = j
  <2> SUFFICES ASSUME NEW i \in ItemsOf(jt, us), NEW j \in ItemsOf(jt, us), g[i] = g[j]
               PROVE  i = j
    OBVIOUS
  <2>1. /\ i \in (us \ {b}) \X Video /\ j \in (us \ {b}) \X Video
        /\ <<w[i[1]][i[2]], i[2]>> = <<w[j[1]][j[2]], j[2]>>
    BY <1>8
  <2>2. i[2] = j[2] /\ w[i[1]][i[2]] = w[j[1]][i[2]]
    BY <2>1
  <2>3. i[1] = j[1]
    BY <1>4, <2>1, <2>2, SMTT(30)
  <2> QED
    BY <2>1, <2>2, <2>3
<1>11. Cardinality(TriesOf(jt, us)) <= Cardinality(TriesOf(it, us))
  BY <1>7, <1>9, Pushed, CountedFinite, SMTT(30)
<1>12. Cardinality(ActiveOf(jt, us)) <= Cardinality(ActiveOf(it, us))
  <2>1. \A t \in ActiveOf(jt, us) : h[t] \in ActiveOf(it, us)
    BY <1>7 DEF ActiveOf
  <2>2. \A s, t \in ActiveOf(jt, us) : h[s] = h[t] => s = t
    BY <1>9 DEF ActiveOf
  <2> QED
    BY <2>1, <2>2, Pushed, CountedFinite
<1>13. Cardinality(SentOf(jt, us, d)) <= Cardinality(SentOf(it, us, d))
  <2>1. \A t \in SentOf(jt, us, d) : h[t] \in SentOf(it, us, d)
    BY <1>7 DEF SentOf
  <2>2. \A s, t \in SentOf(jt, us, d) : h[s] = h[t] => s = t
    BY <1>9 DEF SentOf
  <2> QED
    BY <2>1, <2>2, Pushed, CountedFinite, SMTT(30)
<1>14. Cardinality(SavedOf(jt, us, d)) <= Cardinality(SavedOf(it, us, d))
  <2>1. \A i \in SavedOf(jt, us, d) : g[i] \in SavedOf(it, us, d)
    <3> SUFFICES ASSUME NEW i \in SavedOf(jt, us, d) PROVE g[i] \in SavedOf(it, us, d)
      OBVIOUS
    <3>1. i \in ItemsOf(jt, us) /\ jt[i[1]][i[2]].saved >= d
      BY DEF SavedOf
    <3> QED
      BY <1>8, <3>1 DEF SavedOf
  <2>2. \A i, j \in SavedOf(jt, us, d) : g[i] = g[j] => i = j
    BY <1>10 DEF SavedOf
  <2> QED
    BY <2>1, <2>2, Pushed, CountedFinite
<1> QED
  BY <1>11, <1>12, <1>13, <1>14

\* An admission adds one attempt, and one item if there was none.
LEMMA InsertCounts ==
  ASSUME NEW it \in Shelves, NEW jt \in Shelves, NEW us \in SUBSET User,
         NEW u \in us, NEW v \in Video, NEW new \in Try, NEW d \in Nat,
         \A a \in User, b \in Video : <<a, b>> # <<u, v>> => jt[a][b] = it[a][b],
         jt[u][v].tries = Append(it[u][v].tries, new),
         it[u][v].state # "absent" => jt[u][v].saved = it[u][v].saved
  PROVE  /\ Cardinality(TriesOf(jt, us)) <= Cardinality(TriesOf(it, us)) + 1
         /\ Cardinality(ActiveOf(jt, us)) <= Cardinality(ActiveOf(it, us)) + 1
         /\ Cardinality(SentOf(jt, us, d)) <= Cardinality(SentOf(it, us, d)) + 1
         /\ Cardinality(ItemsOf(jt, us)) <= Cardinality(ItemsOf(it, us))
               + (IF it[u][v].state = "absent" THEN 1 ELSE 0)
         /\ Cardinality(SavedOf(jt, us, d)) <= Cardinality(SavedOf(it, us, d))
               + (IF it[u][v].state = "absent" THEN 1 ELSE 0)
<1> DEFINE n == Len(it[u][v].tries)
           e == <<u, v, n + 1>>
<1>0. u \in User /\ it[u][v] \in Row /\ it[u][v].tries \in Seq(Try) /\ n \in Nat
  BY RowFacts DEF Shelves
<1>1. /\ Len(jt[u][v].tries) = n + 1
      /\ \A k \in 1..n : jt[u][v].tries[k] = it[u][v].tries[k]
  BY <1>0
<1>2. ASSUME NEW t \in TriesOf(jt, us), t # e
      PROVE  t \in TriesOf(it, us)
             /\ jt[t[1]][t[2]].tries[t[3]] = it[t[1]][t[2]].tries[t[3]]
  <2>1. PICK a \in us, b \in Video, k \in 1..MaxTries :
           t = <<a, b, k>> /\ k <= Len(jt[a][b].tries)
    BY <1>2 DEF TriesOf
  <2>2. CASE <<a, b>> = <<u, v>>
    <3>1. a = u /\ b = v /\ k # n + 1 /\ k \in Nat /\ k >= 1
      BY <1>2, <2>1, <2>2, NumbersAssumption
    <3>2. k \in 1..n
      <4>1. k <= n + 1
        BY <1>1, <2>1, <3>1
      <4> HIDE DEF n
      <4> QED
        BY <1>0, <3>1, <4>1
    <3> QED
      BY <1>0, <1>1, <2>1, <3>1, <3>2 DEF TriesOf
  <2>3. CASE <<a, b>> # <<u, v>>
    <3>1. jt[a][b] = it[a][b]
      BY <2>3
    <3> QED
      BY <2>1, <3>1 DEF TriesOf
  <2> QED
    BY <2>2, <2>3
<1>3. ASSUME NEW i \in ItemsOf(jt, us), i # <<u, v>> \/ it[u][v].state # "absent"
      PROVE  i \in ItemsOf(it, us) /\ jt[i[1]][i[2]].saved = it[i[1]][i[2]].saved
  <2>1. PICK a \in us, b \in Video : i = <<a, b>> /\ jt[a][b].state # "absent"
    BY <1>3 DEF ItemsOf
  <2>2. CASE <<a, b>> = <<u, v>>
    BY <1>3, <2>1, <2>2 DEF ItemsOf
  <2>3. CASE <<a, b>> # <<u, v>>
    <3>1. jt[a][b] = it[a][b]
      BY <2>3, SMTT(30)
    <3> QED
      BY <2>1, <3>1 DEF ItemsOf
  <2> QED
    BY <2>2, <2>3
<1> HIDE DEF e
<1>4. /\ TriesOf(jt, us) \subseteq TriesOf(it, us) \union {e}
      /\ ActiveOf(jt, us) \subseteq ActiveOf(it, us) \union {e}
      /\ SentOf(jt, us, d) \subseteq SentOf(it, us, d) \union {e}
  BY <1>2 DEF ActiveOf, SentOf
<1>5. CASE it[u][v].state = "absent"
  <2>1. /\ ItemsOf(jt, us) \subseteq ItemsOf(it, us) \union {<<u, v>>}
        /\ SavedOf(jt, us, d) \subseteq SavedOf(it, us, d) \union {<<u, v>>}
    BY <1>3 DEF SavedOf
  <2> QED
    BY <1>4, <1>5, <2>1, AddedOne, CountedFinite
<1>6. CASE it[u][v].state # "absent"
  <2>1. /\ ItemsOf(jt, us) \in SUBSET ItemsOf(it, us)
        /\ SavedOf(jt, us, d) \in SUBSET SavedOf(it, us, d)
    BY <1>3, <1>6 DEF SavedOf
  <2>2. /\ Cardinality(ItemsOf(jt, us)) <= Cardinality(ItemsOf(it, us))
        /\ Cardinality(SavedOf(jt, us, d)) <= Cardinality(SavedOf(it, us, d))
        /\ Cardinality(ItemsOf(it, us)) \in Nat /\ Cardinality(SavedOf(it, us, d)) \in Nat
        /\ Cardinality(ItemsOf(jt, us)) \in Nat /\ Cardinality(SavedOf(jt, us, d)) \in Nat
    BY <2>1, FS_Subset, CountedFinite, FS_CardinalityType
  <2>3. /\ Cardinality(TriesOf(jt, us)) <= Cardinality(TriesOf(it, us)) + 1
        /\ Cardinality(ActiveOf(jt, us)) <= Cardinality(ActiveOf(it, us)) + 1
        /\ Cardinality(SentOf(jt, us, d)) <= Cardinality(SentOf(it, us, d)) + 1
    BY <1>4, AddedOne, CountedFinite
  <2> QED
    BY <1>6, <2>2, <2>3
<1> QED
  BY <1>5, <1>6

--------------------------------------------------------------------------------
(* Deadlock freedom *)

\* Of finitely many locked rows one has the greatest id.
LEMMA Greatest ==
  ASSUME NEW S \in SUBSET User, S # {}
  PROVE  \E k \in S : \A j \in S : j <= k
<1> DEFINE Up(k) == {j \in User : j >= k}
           Sizes == {Cardinality(Up(k)) : k \in S}
<1>1. \A k \in S : k \in Nat /\ IsFiniteSet(Up(k)) /\ Cardinality(Up(k)) \in Nat
  BY NumbersAssumption, FS_Subset, FS_CardinalityType
<1>2. \E n \in Sizes : \A m \in Sizes : n <= m
  <2> DEFINE Less == {p \in Nat \X Nat : p[1] < p[2]}
  <2>1. IsWellFoundedOn(Less, Nat)
    BY NatLessThanWellFounded DEF OpToRel
  <2>2. Sizes \in SUBSET Nat /\ Sizes # {}
    BY <1>1
  <2> HIDE DEF Sizes
  <2>3. PICK n \in Sizes : \A m \in Sizes : ~(<<m, n>> \in Less)
    BY <2>1, <2>2, WFMin
  <2>4. ASSUME NEW m \in Sizes PROVE n <= m
    <3>1. m \in Nat /\ n \in Nat /\ <<m, n>> \in Nat \X Nat
      BY <2>2
    <3>2. ~(m < n)
      BY <2>3, <3>1
    <3> QED
      BY <3>1, <3>2
  <2> QED
    BY <2>4
<1>3. PICK k \in S : \A j \in S : Cardinality(Up(k)) <= Cardinality(Up(j))
  BY <1>2
<1>4. ASSUME NEW j \in S, j > k PROVE FALSE
  <2>1. Up(j) \in SUBSET Up(k) /\ k \in Up(k) /\ k \notin Up(j)
    <3>1. k \in User /\ k \in Nat /\ j \in Nat /\ \A i \in User : i \in Nat
      BY <1>1, NumbersAssumption
    <3>2. \A i \in User : i >= j => i >= k
      BY <1>4, <3>1
    <3>3. k >= k /\ ~(k >= j)
      BY <1>4, <3>1
    <3> QED
      BY <3>1, <3>2, <3>3
  <2>2. Cardinality(Up(j)) < Cardinality(Up(k))
    BY <1>1, <2>1, FS_Subset
  <2> QED
    BY <1>1, <1>3, <2>2
<1>5. \A j \in S : j <= k
  <2> HIDE DEF Up, Sizes
  <2> QED
    BY <1>1, <1>4
<1> QED
  BY <1>5

\* Of the transactions under way one is not blocked: one that inserts waits for
\* nothing; without it the item rows are free; of those that hold one user and
\* want another the one with the greatest; without them the users are free; and
\* without those that hold the global lock it is free.
LEMMA SomebodyGoesOn ==
  ASSUME TypeOK
  PROVE  NoLockCycle
<1> SUFFICES ASSUME \E c \in Client : ~At(c, "idle")
             PROVE  \E c \in Client : ~At(c, "idle") /\ Unblocked(c)
  BY DEF NoLockCycle
<1>0. \A c \in Client : tx[c] \in Tx
  BY DEF TypeOK
<1>1. \A c \in Client : tx[c].pc \in {"idle", "global", "user", "check", "insert",
                                      "low", "high", "merge"}
  BY <1>0, TxFacts
<1>2. CASE \E c \in Client : tx[c].pc = "insert"
  BY <1>2, SMTT(30) DEF Unblocked, At
<1>3. CASE /\ \A c \in Client : tx[c].pc # "insert"
           /\ \E c \in Client : tx[c].pc \in {"check", "merge"}
  BY <1>3 DEF Unblocked, ItemFree, HoldsItem, At
<1>4. CASE /\ \A c \in Client : tx[c].pc \notin {"insert", "check", "merge"}
           /\ \E c \in Client : tx[c].pc = "high"
  <2> DEFINE First(c) == LinkOrder(tx[c].op)[1]
             S == {First(c) : c \in {d \in Client : tx[d].pc = "high"}}
  <2>1. \A c \in Client : tx[c].pc = "high" =>
            /\ First(c) \in User /\ LinkOrder(tx[c].op)[2] \in User
            /\ First(c) < LinkOrder(tx[c].op)[2]
    BY <1>0, TxFacts, OrderFacts
  <2>2. S \in SUBSET User /\ S # {}
    BY <1>4, <2>1
  <2> HIDE DEF First
  <2>3. PICK k \in S : \A j \in S : j <= k
    <3> HIDE DEF S
    <3> QED
      BY <2>2, Greatest
  <2>4. PICK c \in Client : tx[c].pc = "high" /\ First(c) = k
    OBVIOUS
  <2>5. UserFree(c, LinkOrder(tx[c].op)[2])
    <3> SUFFICES ASSUME NEW o \in Client \ {c}, LinkOrder(tx[c].op)[2] \in HoldsUser(o)
                 PROVE  FALSE
      BY DEF UserFree
    <3>1. tx[o].pc = "high" /\ LinkOrder(tx[c].op)[2] = First(o)
      BY <1>0, <1>1, <1>4, HeldFacts DEF First
    <3>2. First(o) \in S /\ First(o) \in User
      BY <2>1, <3>1
    <3>3. First(o) <= First(c)
      BY <2>3, <2>4, <3>2
    <3> QED
      BY <2>1, <2>4, <3>1, <3>2, <3>3, NumbersAssumption
  <2> QED
    BY <2>4, <2>5 DEF Unblocked, At
<1>5. CASE /\ \A c \in Client : tx[c].pc \notin {"insert", "check", "merge", "high"}
           /\ \E c \in Client : tx[c].pc \in {"user", "low"}
  <2>1. \A c \in Client : HoldsUser(c) = {}
    BY <1>0, <1>1, <1>5, HeldFacts
  <2> QED
    BY <1>5, <2>1 DEF Unblocked, UserFree, At
<1>6. CASE \A c \in Client : tx[c].pc \in {"idle", "global"}
  <2>1. \A c \in Client : ~HoldsGlobal(c)
    BY <1>0, <1>6, HeldFacts
  <2> QED
    BY <1>6, <2>1 DEF Unblocked, GlobalFree, At
<1> QED
  BY <1>1, <1>2, <1>3, <1>4, <1>5, <1>6

--------------------------------------------------------------------------------
(* Rows *)

\* What TypeOK and TriedExist say of one row.
GoodRow(entry) ==
    /\ entry \in Row
    /\ Len(entry.tries) <= MaxTries
    /\ \A k \in 1..Len(entry.tries) : entry.tries[k].state = "active" => k = Len(entry.tries)
    /\ entry.tries # <<>> => entry.state # "absent"

GoodShelves(it) == it \in Shelves /\ \A u \in User, v \in Video : GoodRow(it[u][v])

LEMMA GoodNow ==
  ASSUME TypeOK, TriedExist
  PROVE  GoodShelves(item)
<1>1. item \in Shelves
  BY DEF TypeOK, Shelves
<1>2. ASSUME NEW u \in User, NEW v \in Video PROVE GoodRow(item[u][v])
  <2>1. /\ item[u][v] \in Row /\ Len(item[u][v].tries) <= MaxTries
        /\ item[u][v].tries # <<>> => item[u][v].state # "absent"
    BY <1>1 DEF TypeOK, Shelves, TriedExist
  <2>2. ASSUME NEW k \in 1..Len(item[u][v].tries), item[u][v].tries[k].state = "active"
        PROVE  k = Len(item[u][v].tries)
    <3>1. k \in 1..MaxTries /\ k <= Len(item[u][v].tries)
      BY <2>1, RowFacts, NumbersAssumption
    <3>2. <<u, v, k>> \in Active(User)
      BY <2>2, <3>1 DEF Active, Tries, TryOf
    <3> QED
      BY <3>2 DEF TypeOK
  <2> QED
    BY <2>1, <2>2 DEF GoodRow
<1> QED
  BY <1>1, <1>2 DEF GoodShelves

LEMMA GoodNext ==
  ASSUME GoodShelves(item')
  PROVE  /\ item' \in [User -> [Video -> Row]]
         /\ \A u \in User, v \in Video : Len(item'[u][v].tries) <= MaxTries
         /\ \A t \in Active(User)' : t[3] = Len(item'[t[1]][t[2]].tries)
         /\ TriedExist'
<1>1. item' \in Shelves /\ \A u \in User, v \in Video : GoodRow(item'[u][v])
  BY DEF GoodShelves
<1>2. ASSUME NEW t \in Active(User)' PROVE t[3] = Len(item'[t[1]][t[2]].tries)
  <2>1. /\ t \in User \X Video \X (1..MaxTries) /\ t[3] <= Len(item'[t[1]][t[2]].tries)
        /\ item'[t[1]][t[2]].tries[t[3]].state = "active"
    BY DEF Active, Tries, TryOf
  <2>2. PICK u \in User, v \in Video, k \in 1..MaxTries : t = <<u, v, k>>
    BY <2>1
  <2>3. Len(item'[u][v].tries) \in Nat
    BY <1>1, RowFacts DEF GoodRow
  <2>4. k \in 1..Len(item'[u][v].tries) /\ item'[u][v].tries[k].state = "active"
    BY <2>1, <2>2, <2>3, NumbersAssumption
  <2> QED
    BY <1>1, <2>2, <2>4 DEF GoodRow
<1> QED
  BY <1>1, <1>2 DEF Shelves, GoodRow, TriedExist

LEMMA AbsentIsGood == GoodRow(Absent)
<1>1. Absent \in Row
  BY NumbersAssumption DEF Absent, Row, Day
<1> QED
  BY <1>1, NumbersAssumption DEF GoodRow, Absent

\* The recycle bin changes nothing that counts.
LEMMA TrashedIsGood ==
  ASSUME NEW entry, GoodRow(entry), NEW b \in BOOLEAN
  PROVE  /\ GoodRow([entry EXCEPT !.trash = b]) /\ NoMore([entry EXCEPT !.trash = b], entry)
         /\ [entry EXCEPT !.trash = b].state = entry.state
<1> DEFINE new == [entry EXCEPT !.trash = b]
<1>1. entry \in Row
  BY DEF GoodRow
<1>2. new \in Row
  BY <1>1 DEF Row
<1>3. /\ new.state = entry.state /\ new.saved = entry.saved /\ new.tries = entry.tries
  BY <1>1 DEF Row
<1> HIDE DEF new
<1>4. GoodRow(new)
  BY <1>2, <1>3 DEF GoodRow
<1>5. NoMore(new, entry)
  <2>1. NoMore(entry, entry)
    BY <1>1, SameIsNoMore
  <2> QED
    BY <2>1, <1>3 DEF NoMore
<1>6. GoodRow(new) /\ NoMore(new, entry) /\ new.state = entry.state
  BY <1>3, <1>4, <1>5
<1> QED
  BY <1>6 DEF new

\* An attempt is settled.
LEMMA SettledIsGood ==
  ASSUME NEW entry, GoodRow(entry), entry.tries # <<>>,
         NEW s \in {"ready", "pending", "failed"}, NEW o \in {"completed", "failed"},
         NEW new, new = [entry EXCEPT !.state = s, !.tries[Len(entry.tries)].state = o]
  PROVE  GoodRow(new) /\ NoMore(new, entry) /\ new.state # "absent"
<1> DEFINE n == Len(entry.tries)
           last == [entry.tries[n] EXCEPT !.state = o]
           ts == [entry.tries EXCEPT ![n] = last]
<1>1. entry \in Row /\ entry.tries \in Seq(Try) /\ n \in Nat /\ n \in 1..n /\ n <= MaxTries
      /\ entry.state # "absent" /\ entry.saved \in Nat
  <2>1. entry \in Row /\ entry.tries \in Seq(Try) /\ n \in Nat /\ entry.saved \in Nat
        /\ n <= MaxTries /\ entry.state # "absent"
    BY RowFacts DEF GoodRow
  <2>2. n # 0
    BY <2>1
  <2> QED
    BY <2>1, <2>2
<1>2. entry.tries[n] \in Try
  BY <1>1
<1>3. last \in Try /\ last.state = o /\ last.day = entry.tries[n].day
  BY <1>2 DEF Try
<1>4. ts \in Seq(Try) /\ Len(ts) = n /\ ts[n] = last
      /\ \A k \in 1..n : k # n => ts[k] = entry.tries[k]
  <2> HIDE DEF last
  <2> QED
    BY <1>1, <1>3
<1>5. /\ new = [[entry EXCEPT !.state = s] EXCEPT !.tries = ts]
  BY <1>1 DEF Row
<1> HIDE DEF ts, last
<1>6. /\ new \in Row /\ new.state = s /\ new.tries = ts /\ new.saved = entry.saved
  BY <1>1, <1>4, <1>5 DEF Row
<1>7. \A k \in 1..n : /\ new.tries[k].day = entry.tries[k].day
                      /\ new.tries[k].state = "active" => entry.tries[k].state = "active"
                      /\ new.tries[k].state # "active" \/ k # n
  BY <1>3, <1>4, <1>6
<1>8. \A k \in 1..n : entry.tries[k].state = "active" => k = n
  BY DEF GoodRow
<1> HIDE DEF n
<1>9. Len(new.tries) = n
  BY <1>4, <1>6
<1>10. GoodRow(new)
  BY <1>1, <1>6, <1>7, <1>8, <1>9 DEF GoodRow
<1>11. NoMore(new, entry)
  BY <1>1, <1>6, <1>7, <1>9 DEF NoMore, n
<1> QED
  BY <1>6, <1>10, <1>11

\* An attempt is added to a row that has none active.
LEMMA AddedIsGood ==
  ASSUME NEW entry, GoodRow(entry), entry.tries # <<>> => Latest(entry).state = "failed",
         Len(entry.tries) + 1 <= MaxTries, NEW new \in Try, NEW d \in Day,
         NEW added, added = [state |-> "pending", trash |-> FALSE, saved |-> d,
                             tries |-> Append(entry.tries, new)]
  PROVE  GoodRow(added)
<1> DEFINE n == Len(entry.tries)
<1>1. entry \in Row /\ entry.tries \in Seq(Try) /\ n \in Nat
  BY RowFacts DEF GoodRow
<1>2. added \in Row
  BY <1>1 DEF Row
<1>3. Len(added.tries) = n + 1 /\ \A k \in 1..n : added.tries[k] = entry.tries[k]
  BY <1>1
<1>4. \A k \in 1..n : entry.tries[k].state # "active"
  <2> SUFFICES ASSUME NEW k \in 1..n, entry.tries[k].state = "active" PROVE FALSE
    OBVIOUS
  <2>1. k = n
    BY DEF GoodRow
  <2>2. entry.tries # <<>>
    BY <1>1
  <2> QED
    BY <2>1, <2>2 DEF Latest
<1>5. \A k \in 1..(n + 1) : added.tries[k].state = "active" => k = n + 1
  <2> SUFFICES ASSUME NEW k \in 1..(n + 1), k # n + 1 PROVE added.tries[k].state # "active"
    OBVIOUS
  <2>1. k \in 1..n
    <3> HIDE DEF n
    <3> QED
      BY <1>1
  <2> QED
    BY <1>3, <1>4, <2>1
<1>6. added.state = "pending"
  OBVIOUS
<1> QED
  BY <1>2, <1>3, <1>5, <1>6 DEF GoodRow

\* The row that survives a linking is one of the two, but for its date.
LEMMA MergedIsGood ==
  ASSUME NEW kept, NEW lost, GoodRow(kept), GoodRow(lost)
  PROVE  /\ GoodRow(Merged(kept, lost))
         /\ NoMore(Merged(kept, lost), kept) \/ NoMore(Merged(kept, lost), lost)
<1>0. kept \in Row /\ lost \in Row
  BY DEF GoodRow
<1>1. CASE kept.state = "absent"
  BY <1>0, <1>1, SameIsNoMore DEF Merged
<1>2. CASE kept.state # "absent" /\ lost.state = "absent"
  BY <1>0, <1>2, SameIsNoMore DEF Merged
<1>3. CASE kept.state # "absent" /\ lost.state # "absent"
  <2> DEFINE d == IF lost.saved < kept.saved THEN lost.saved ELSE kept.saved
             new == [kept EXCEPT !.saved = d]
  <2>1. Merged(kept, lost) = new
    BY <1>0, <1>3 DEF Merged, Row
  <2>2. /\ kept.saved \in Day /\ lost.saved \in Day
        /\ kept.saved \in Nat /\ lost.saved \in Nat
    BY <1>0, RowFacts DEF Row
  <2>3. d \in Day /\ d <= kept.saved
    BY <2>2
  <2> HIDE DEF d
  <2>4. new \in Row /\ new.state = kept.state /\ new.tries = kept.tries /\ new.saved = d
    BY <1>0, <2>3 DEF Row
  <2> HIDE DEF new
  <2>5. GoodRow(new)
    BY <2>4 DEF GoodRow
  <2>6. NoMore(kept, kept)
    BY <1>0, SameIsNoMore
  <2>7. NoMore(new, kept)
    BY <2>3, <2>4, <2>6 DEF NoMore
  <2> QED
    BY <2>1, <2>5, <2>7
<1> QED
  BY <1>1, <1>2, <1>3

--------------------------------------------------------------------------------
(* Admissions ahead *)

BeforeOf(t) ==
    {b \in Client \X (1..2) : /\ t[b[1]].op.kind \in {"save", "retry"}
                              /\ b[2] <= Len(t[b[1]].op.batch)}

LEMMA BeforeNow ==
  /\ Before = BeforeOf(tx)
  /\ Before' = BeforeOf(tx')
  BY DEF Before, BeforeOf, Admitting

LEMMA BeforeFinite ==
  ASSUME NEW t
  PROVE  IsFiniteSet(BeforeOf(t)) /\ Cardinality(BeforeOf(t)) \in Nat
<1>1. IsFiniteSet(Client \X (1..2))
  <2>1. 1 \in Int /\ 2 \in Int
    OBVIOUS
  <2>2. IsFiniteSet(1..2)
    BY <2>1, FS_Interval, Zenon
  <2> QED
    BY <2>2, NumbersAssumption, FS_Product
<1>2. BeforeOf(t) \in SUBSET (Client \X (1..2))
  BY DEF BeforeOf
<1> QED
  BY <1>1, <1>2, FS_Subset, FS_CardinalityType

\* What c has ahead of it is all that can change when it moves.
LEMMA BeforeSame ==
  ASSUME NEW s, NEW t, NEW c \in Client,
         \A d \in Client \ {c} : t[d] = s[d],
         \/ t[c].op = s[c].op
         \/ t[c].op.kind \notin {"save", "retry"} /\ s[c].op.kind \notin {"save", "retry"}
  PROVE  BeforeOf(t) = BeforeOf(s)
<1> SUFFICES ASSUME NEW d \in Client, NEW k \in 1..2
             PROVE  <<d, k>> \in BeforeOf(t) <=> <<d, k>> \in BeforeOf(s)
  BY DEF BeforeOf
<1>1. CASE d = c
  BY <1>1 DEF BeforeOf
<1>2. CASE d # c
  BY <1>2 DEF BeforeOf
<1> QED
  BY <1>1, <1>2

\* A request that begins brings the length of its batch.
LEMMA BeforeMore ==
  ASSUME NEW s, NEW t, NEW c \in Client,
         \A d \in Client \ {c} : t[d] = s[d],
         t[c].op.batch \in Batch
  PROVE  Cardinality(BeforeOf(t)) <= Cardinality(BeforeOf(s)) + Len(t[c].op.batch)
<1>0. Len(t[c].op.batch) \in 1..2
  BY BatchFacts
<1>1. /\ IsFiniteSet(BeforeOf(s)) /\ Cardinality(BeforeOf(s)) \in Nat
      /\ Cardinality(BeforeOf(t)) \in Nat
  BY BeforeFinite
<1>2. ASSUME NEW d \in Client, NEW k \in 1..2, <<d, k>> \in BeforeOf(t)
      PROVE  <<d, k>> \in BeforeOf(s) \/ (d = c /\ k <= Len(t[c].op.batch))
  <2>1. CASE d = c
    BY <1>2, <2>1 DEF BeforeOf
  <2>2. CASE d # c
    <3>1. t[d] = s[d]
      BY <2>2
    <3>2. t[d].op.kind \in {"save", "retry"} /\ k <= Len(t[d].op.batch)
      BY <1>2 DEF BeforeOf
    <3> QED
      BY <3>1, <3>2 DEF BeforeOf
  <2> QED
    BY <2>1, <2>2
<1> DEFINE X == BeforeOf(s) \union {<<c, 1>>}
<1>3. /\ IsFiniteSet(X) /\ Cardinality(X) \in Nat
      /\ Cardinality(X) <= Cardinality(BeforeOf(s)) + 1
  <2>1. /\ IsFiniteSet(X)
        /\ Cardinality(X) = Cardinality(BeforeOf(s))
           \/ Cardinality(X) = Cardinality(BeforeOf(s)) + 1
    BY <1>1, FS_AddElement
  <2> HIDE DEF X
  <2> QED
    BY <1>1, <2>1, FS_CardinalityType
<1>4. CASE Len(t[c].op.batch) = 1
  <2>1. BeforeOf(t) \subseteq BeforeOf(s) \union {<<c, 1>>}
    <3> SUFFICES ASSUME NEW b \in BeforeOf(t) PROVE b \in BeforeOf(s) \union {<<c, 1>>}
      OBVIOUS
    <3>1. PICK d \in Client, k \in 1..2 : b = <<d, k>>
      BY DEF BeforeOf
    <3>2. k <= 1 => k = 1
      OBVIOUS
    <3> QED
      BY <1>2, <1>4, <3>1, <3>2
  <2> QED
    BY <1>1, <1>4, <2>1, AddedOne
<1>5. CASE Len(t[c].op.batch) = 2
  <2>1. BeforeOf(t) \subseteq X \union {<<c, 2>>}
    <3> SUFFICES ASSUME NEW b \in BeforeOf(t) PROVE b \in X \union {<<c, 2>>}
      OBVIOUS
    <3>1. PICK d \in Client, k \in 1..2 : b = <<d, k>>
      BY DEF BeforeOf
    <3>2. k = 1 \/ k = 2
      OBVIOUS
    <3> QED
      BY <1>2, <3>1, <3>2
  <2> HIDE DEF X
  <2>2. Cardinality(BeforeOf(t)) <= Cardinality(X) + 1
    BY <1>3, <2>1, AddedOne
  <2> QED
    BY <1>1, <1>3, <1>5, <2>2
<1> QED
  BY <1>0, <1>4, <1>5

\* A transaction that ends leaves one admission less.
LEMMA BeforeLess ==
  ASSUME NEW s, NEW t, NEW c \in Client,
         \A d \in Client \ {c} : t[d] = s[d],
         s[c].op.kind \in {"save", "retry"}, NEW n \in 1..2, Len(s[c].op.batch) = n,
         \/ t[c].op.kind \notin {"save", "retry"} /\ n = 1
         \/ n = 2 /\ Len(t[c].op.batch) = 1
  PROVE  Cardinality(BeforeOf(t)) + 1 <= Cardinality(BeforeOf(s))
<1>1. /\ IsFiniteSet(BeforeOf(s)) /\ Cardinality(BeforeOf(s)) \in Nat
      /\ Cardinality(BeforeOf(t)) \in Nat
  BY BeforeFinite
<1>2. <<c, n>> \in BeforeOf(s) /\ <<c, n>> \notin BeforeOf(t)
  <2>1. n <= Len(s[c].op.batch) /\ n <= 2 /\ ~(2 <= 1)
    OBVIOUS
  <2>2. <<c, n>> \in BeforeOf(s)
    BY <2>1 DEF BeforeOf
  <2>3. ~(t[c].op.kind \in {"save", "retry"} /\ n <= Len(t[c].op.batch))
    BY <2>1
  <2> QED
    BY <2>2, <2>3 DEF BeforeOf
<1>3. BeforeOf(t) \in SUBSET BeforeOf(s)
  <2> SUFFICES ASSUME NEW b \in BeforeOf(t) PROVE b \in BeforeOf(s)
    OBVIOUS
  <2>1. PICK d \in Client, k \in 1..2 : b = <<d, k>>
    BY DEF BeforeOf
  <2>2. CASE d = c
    BY <2>1, <2>2 DEF BeforeOf
  <2>3. CASE d # c
    BY <2>1, <2>3 DEF BeforeOf
  <2> QED
    BY <2>2, <2>3
<1>4. Cardinality(BeforeOf(t)) < Cardinality(BeforeOf(s))
  BY <1>1, <1>2, <1>3, FS_Subset
<1> QED
  BY <1>1, <1>4

\* The end of a transaction, of a linking included.
LEMMA EndBefore ==
  ASSUME TypeOK, NEW c \in Client, ~At(c, "idle"), End(c), policy' = policy
  PROVE  /\ Cardinality(Before') <= Cardinality(Before)
         /\ Admitting(c) => Cardinality(Before') + 1 <= Cardinality(Before)
<1>0. tx[c] \in Tx
  BY DEF TypeOK
<1>1. /\ \A d \in Client \ {c} : tx'[d] = tx[d]
      /\ \/ tx'[c] = Idle /\ (Admitting(c) => Len(tx[c].op.batch) = 1)
         \/ /\ Admitting(c) /\ Len(tx[c].op.batch) = 2
            /\ Len(tx'[c].op.batch) = 1
  BY EndFacts DEF MovesAlone
<1>2. Idle.op.kind \notin {"save", "retry"}
  BY DEF Idle
<1>3. Cardinality(BeforeOf(tx')) \in Nat /\ Cardinality(BeforeOf(tx)) \in Nat
  BY BeforeFinite
<1>4. CASE Admitting(c)
  <2>1. tx[c].op.kind \in {"save", "retry"}
    BY <1>4 DEF Admitting
  <2>2. Cardinality(BeforeOf(tx')) + 1 <= Cardinality(BeforeOf(tx))
    <3>1. CASE tx'[c] = Idle /\ Len(tx[c].op.batch) = 1
      <4>1. tx'[c].op.kind \notin {"save", "retry"} /\ 1 \in 1..2
        BY <1>2, <3>1
      <4> QED
        BY <1>1, <2>1, <3>1, <4>1, BeforeLess
    <3>2. CASE Len(tx[c].op.batch) = 2 /\ Len(tx'[c].op.batch) = 1
      <4>1. 2 \in 1..2
        OBVIOUS
      <4> QED
        BY <1>1, <2>1, <3>2, <4>1, BeforeLess
    <3> QED
      BY <1>1, <1>4, <3>1, <3>2
  <2> QED
    BY <1>3, <2>2, BeforeNow
<1>5. CASE ~Admitting(c)
  <2>1. tx[c].op.kind \notin {"save", "retry"} /\ tx'[c].op.kind \notin {"save", "retry"}
    BY <1>1, <1>2, <1>5 DEF Admitting
  <2>2. BeforeOf(tx') = BeforeOf(tx)
    BY <1>1, <2>1, BeforeSame
  <2> QED
    BY <1>3, <1>5, <2>2, BeforeNow
<1> QED
  BY <1>4, <1>5

--------------------------------------------------------------------------------
(* Limits *)

Full(p, limit, n) == p[limit] # 0 /\ n >= p[limit]

\* Admissible, of given rows.
AdmissibleIn(p, us, it, d, u, new) ==
    /\ ~Full(p, "activeAll", Cardinality(ActiveOf(it, us)))
    /\ ~Full(p, "active", Cardinality(ActiveOf(it, {u})))
    /\ ~Full(p, "sendsAll", Cardinality(SentOf(it, us, d)))
    /\ ~Full(p, "sends", Cardinality(SentOf(it, {u}, d)))
    /\ new => /\ ~Full(p, "itemsAll", Cardinality(SavedOf(it, us, d)))
              /\ ~Full(p, "items", Cardinality(SavedOf(it, {u}, d)))
              /\ ~Full(p, "total", Cardinality(ItemsOf(it, {u})))

LEMMA RoomNow ==
  /\ Room <=> \A c \in Client : tx[c].pc = "insert" =>
                  AdmissibleIn(policy, users, item, day, tx[c].op.user,
                      item[tx[c].op.user][Head(tx[c].op.batch)].state = "absent")
  /\ Room' <=> \A c \in Client : tx'[c].pc = "insert" =>
                  AdmissibleIn(policy', users', item', day', tx'[c].op.user,
                      item'[tx'[c].op.user][Head(tx'[c].op.batch)].state = "absent")
  BY DEF Room, At, Admissible, Reached, AdmissibleIn, Full, Active, ActiveOf, Tries, TriesOf,
         TryOf, SentSince, SentOf, Items, ItemsOf, SavedSince, SavedOf

\* GlobalLimitsHold, of given rows.
GlobalIn(p, us, it, d) ==
    /\ p["activeAll"] # 0 => Cardinality(ActiveOf(it, us)) <= p["activeAll"]
    /\ p["sendsAll"] # 0 => Cardinality(SentOf(it, us, d)) <= p["sendsAll"]
    /\ p["itemsAll"] # 0 => Cardinality(SavedOf(it, us, d)) <= p["itemsAll"]

LEMMA GlobalNow ==
  /\ GlobalLimitsHold <=> GlobalIn(policy, users, item, day)
  /\ GlobalLimitsHold' <=> GlobalIn(policy', users', item', day')
  BY DEF GlobalLimitsHold, GlobalIn, Active, ActiveOf, Tries, TriesOf, TryOf, SentSince,
         SentOf, Items, ItemsOf, SavedSince, SavedOf

\* What the global limits count has not grown.
NoMoreForAll(jt, ut, e, it, us, d) ==
    /\ Cardinality(ActiveOf(jt, ut)) <= Cardinality(ActiveOf(it, us))
    /\ Cardinality(SentOf(jt, ut, e)) <= Cardinality(SentOf(it, us, d))
    /\ Cardinality(SavedOf(jt, ut, e)) <= Cardinality(SavedOf(it, us, d))

LEMMA CountedNat ==
  ASSUME NEW it, NEW us \in SUBSET User, NEW d
  PROVE  /\ Cardinality(TriesOf(it, us)) \in Nat /\ Cardinality(ActiveOf(it, us)) \in Nat
         /\ Cardinality(SentOf(it, us, d)) \in Nat /\ Cardinality(ItemsOf(it, us)) \in Nat
         /\ Cardinality(SavedOf(it, us, d)) \in Nat
  BY CountedFinite, FS_CardinalityType

\* Shrink, in numbers.
LEMMA NoMoreCounted ==
  ASSUME NEW it \in Shelves, NEW jt \in Shelves, NEW us \in SUBSET User,
         NEW d \in Nat, NEW e \in Nat, d <= e,
         \A u \in us, v \in Video : NoMore(jt[u][v], it[u][v])
  PROVE  /\ Cardinality(TriesOf(jt, us)) <= Cardinality(TriesOf(it, us))
         /\ Cardinality(ItemsOf(jt, us)) <= Cardinality(ItemsOf(it, us))
         /\ NoMoreForAll(jt, us, e, it, us, d)
<1>1. /\ TriesOf(jt, us) \in SUBSET TriesOf(it, us)
      /\ ActiveOf(jt, us) \in SUBSET ActiveOf(it, us)
      /\ SentOf(jt, us, e) \in SUBSET SentOf(it, us, d)
      /\ ItemsOf(jt, us) \in SUBSET ItemsOf(it, us)
      /\ SavedOf(jt, us, e) \in SUBSET SavedOf(it, us, d)
  BY Shrink
<1> QED
  BY <1>1, CountedFinite, FS_Subset DEF NoMoreForAll

LEMMA GlobalKept ==
  ASSUME NEW p \in [Limit -> Nat], NEW us \in SUBSET User, NEW ut \in SUBSET User,
         NEW it, NEW jt, NEW d, NEW e,
         GlobalIn(p, us, it, d), NoMoreForAll(jt, ut, e, it, us, d)
  PROVE  GlobalIn(p, ut, jt, e)
<1>1. /\ p["activeAll"] \in Nat /\ p["sendsAll"] \in Nat /\ p["itemsAll"] \in Nat
  BY DEF Limit
<1> QED
  BY <1>1, CountedNat DEF GlobalIn, NoMoreForAll

\* An admission that was possible still is, where neither the user's rows nor,
\* if some limit is global, all rows count for more.
LEMMA AdmissibleKept ==
  ASSUME NEW p \in [Limit -> Nat], NEW us \in SUBSET User, NEW ut \in SUBSET User,
         NEW it \in Shelves, NEW jt \in Shelves, NEW d \in Nat, NEW e \in Nat, d <= e,
         NEW u \in User, NEW new, NEW still,
         AdmissibleIn(p, us, it, d, u, new),
         (\E l \in Limit : p[l] # 0) =>
             /\ \A v \in Video : NoMore(jt[u][v], it[u][v])
             /\ still => new,
         (\E l \in {"activeAll", "itemsAll", "sendsAll"} : p[l] # 0) =>
             NoMoreForAll(jt, ut, e, it, us, d)
  PROVE  AdmissibleIn(p, ut, jt, e, u, still)
<1>0. {u} \in SUBSET User
  OBVIOUS
<1>1. \A l \in Limit : p[l] \in Nat
  OBVIOUS
<1>2. CASE \A l \in Limit : p[l] = 0
  BY <1>2 DEF AdmissibleIn, Full, Limit
<1>3. CASE \E l \in Limit : p[l] # 0
  <2>1. /\ Cardinality(ActiveOf(jt, {u})) <= Cardinality(ActiveOf(it, {u}))
        /\ Cardinality(SentOf(jt, {u}, e)) <= Cardinality(SentOf(it, {u}, d))
        /\ Cardinality(SavedOf(jt, {u}, e)) <= Cardinality(SavedOf(it, {u}, d))
        /\ Cardinality(ItemsOf(jt, {u})) <= Cardinality(ItemsOf(it, {u}))
    <3>1. \A a \in {u}, v \in Video : NoMore(jt[a][v], it[a][v])
      BY <1>3
    <3> QED
      BY <1>0, <3>1, NoMoreCounted DEF NoMoreForAll
  <2>2. \A l \in Limit, m, n \in Nat : ~Full(p, l, n) /\ m <= n => ~Full(p, l, m)
    BY <1>1 DEF Full
  <2>3. /\ Cardinality(ActiveOf(jt, {u})) \in Nat /\ Cardinality(ActiveOf(it, {u})) \in Nat
        /\ Cardinality(SentOf(jt, {u}, e)) \in Nat /\ Cardinality(SentOf(it, {u}, d)) \in Nat
        /\ Cardinality(SavedOf(jt, {u}, e)) \in Nat
        /\ Cardinality(SavedOf(it, {u}, d)) \in Nat
        /\ Cardinality(ItemsOf(jt, {u})) \in Nat /\ Cardinality(ItemsOf(it, {u})) \in Nat
    BY <1>0, CountedNat
  <2>4. /\ Cardinality(ActiveOf(jt, ut)) \in Nat /\ Cardinality(ActiveOf(it, us)) \in Nat
        /\ Cardinality(SentOf(jt, ut, e)) \in Nat /\ Cardinality(SentOf(it, us, d)) \in Nat
        /\ Cardinality(SavedOf(jt, ut, e)) \in Nat
        /\ Cardinality(SavedOf(it, us, d)) \in Nat
    BY CountedNat
  <2>5. still => new
    BY <1>3
  <2>6. /\ ~Full(p, "active", Cardinality(ActiveOf(jt, {u})))
        /\ ~Full(p, "sends", Cardinality(SentOf(jt, {u}, e)))
        /\ still => /\ ~Full(p, "items", Cardinality(SavedOf(jt, {u}, e)))
                    /\ ~Full(p, "total", Cardinality(ItemsOf(jt, {u})))
    BY <2>1, <2>2, <2>3, <2>5 DEF AdmissibleIn, Limit
  <2>7. /\ ~Full(p, "activeAll", Cardinality(ActiveOf(jt, ut)))
        /\ ~Full(p, "sendsAll", Cardinality(SentOf(jt, ut, e)))
        /\ still => ~Full(p, "itemsAll", Cardinality(SavedOf(jt, ut, e)))
    <3>1. CASE \E l \in {"activeAll", "itemsAll", "sendsAll"} : p[l] # 0
      BY <2>2, <2>4, <2>5, <3>1 DEF AdmissibleIn, Limit, NoMoreForAll
    <3>2. CASE ~\E l \in {"activeAll", "itemsAll", "sendsAll"} : p[l] # 0
      BY <3>2 DEF Full
    <3> QED
      BY <3>1, <3>2
  <2> QED
    BY <2>6, <2>7 DEF AdmissibleIn
<1> QED
  BY <1>2, <1>3

--------------------------------------------------------------------------------
(* Steps that let no count grow *)

LEMMA PolicyFacts ==
  ASSUME TypeOK
  PROVE  policy \in [Limit -> Nat] /\ users \in SUBSET User /\ day \in Nat
         /\ item \in Shelves /\ tx \in [Client -> Tx]
  BY NumbersAssumption, SMTT(30) DEF TypeOK, Shelves, Day

\* Where rows count for no more, those who checked stay where they are or have
\* just checked, and the locks are well kept, everything is.
LEMMA QuietStep ==
  ASSUME IInv, GoodShelves(item'), users' = users, policy' = policy,
         day' \in Day, day <= day', tx' \in [Client -> Tx],
         \A u \in User, v \in Video : NoMore(item'[u][v], item[u][v]),
         GoneHaveNothing', UsersLocked', GlobalLocked', MergersExist',
         Cardinality(Tries(User)) + Cardinality(Before') <= MaxTries,
         \A c \in Client : tx'[c].pc = "insert" =>
             \/ /\ tx'[c] = tx[c]
                /\ item[tx[c].op.user][Head(tx[c].op.batch)].state # "absent" =>
                       item'[tx[c].op.user][Head(tx[c].op.batch)].state # "absent"
             \/ AdmissibleIn(policy, users, item, day, tx'[c].op.user,
                    item'[tx'[c].op.user][Head(tx'[c].op.batch)].state = "absent")
  PROVE  IInv'
<1>0. /\ policy \in [Limit -> Nat] /\ users \in SUBSET User /\ day \in Nat /\ day' \in Nat
      /\ item \in Shelves /\ item' \in Shelves /\ tx \in [Client -> Tx]
  BY PolicyFacts, NumbersAssumption DEF IInv, GoodShelves, Day
<1>1. TypeOK' /\ TriedExist'
  <2>1. policy' \in Policy /\ users' \subseteq User
    BY SMTT(30) DEF IInv, TypeOK
  <2>2. /\ item' \in [User -> [Video -> Row]]
        /\ \A u \in User, v \in Video : Len(item'[u][v].tries) <= MaxTries
        /\ \A t \in Active(User)' : t[3] = Len(item'[t[1]][t[2]].tries)
        /\ TriedExist'
    BY GoodNext
  <2> QED
    BY <2>1, <2>2 DEF TypeOK
<1>2. NoMoreForAll(item', users, day', item, users, day)
  BY <1>0, NoMoreCounted
<1>3. GlobalLimitsHold'
  <2>1. GlobalIn(policy, users, item, day)
    BY GlobalNow DEF IInv
  <2>2. GlobalIn(policy, users, item', day')
    BY <1>0, <1>2, <2>1, GlobalKept
  <2> QED
    BY <2>2, GlobalNow, SMTT(30)
<1>4. Room'
  <2> SUFFICES ASSUME NEW c \in Client, tx'[c].pc = "insert"
               PROVE  AdmissibleIn(policy, users, item', day', tx'[c].op.user,
                          item'[tx'[c].op.user][Head(tx'[c].op.batch)].state = "absent")
    BY RoomNow, Zenon
  <2> DEFINE u == tx'[c].op.user
             new == item[u][Head(tx'[c].op.batch)].state = "absent"
             still == item'[u][Head(tx'[c].op.batch)].state = "absent"
  <2>1. u \in User
    BY TxFacts
  <2>2. \A v \in Video : NoMore(item'[u][v], item[u][v])
    BY <2>1
  <2>3. CASE AdmissibleIn(policy, users, item, day, u, still)
    <3> HIDE DEF u, still
    <3>1. AdmissibleIn(policy, users, item', day', u, still)
      BY <1>0, <1>2, <2>1, <2>2, <2>3, AdmissibleKept
    <3> QED
      BY <3>1, Zenon DEF u, still
  <2>4. CASE tx'[c] = tx[c] /\ (still => new)
    <3>1. AdmissibleIn(policy, users, item, day, u, new)
      BY <2>4, RoomNow, Zenon DEF IInv
    <3> HIDE DEF u, still, new
    <3>2. AdmissibleIn(policy, users, item', day', u, still)
      BY <1>0, <1>2, <2>1, <2>2, <2>4, <3>1, AdmissibleKept, SMTT(30)
    <3> QED
      BY <3>2 DEF u, still
  <2> QED
    BY <2>3, <2>4, Zenon
<1>5. Accounted'
  <2>1. Cardinality(TriesOf(item', User)) <= Cardinality(TriesOf(item, User))
    BY <1>0, NoMoreCounted
  <2>2. Tries(User)' = TriesOf(item', User) /\ Tries(User) = TriesOf(item, User)
    BY Zenon DEF Tries, TriesOf
  <2>3. /\ Cardinality(TriesOf(item', User)) \in Nat
        /\ Cardinality(TriesOf(item, User)) \in Nat
        /\ Cardinality(Before') \in Nat /\ MaxTries \in Nat
    BY CountedNat, BeforeNow, BeforeFinite, NumbersAssumption, Zenon
  <2> QED
    BY <2>1, <2>2, <2>3 DEF Accounted
<1> QED
  BY <1>1, <1>3, <1>4, <1>5 DEF IInv

\* The step of one transaction, without an admission or a merge.
LEMMA MoveStep ==
  ASSUME IInv, NEW c \in Client, MovesAlone(c), GoodShelves(item'),
         users' = users, policy' = policy, day' = day,
         \A u \in User, v \in Video : NoMore(item'[u][v], item[u][v]),
         GoneHaveNothing',
         tx'[c].pc = "merge" => {tx'[c].op.user, tx'[c].op.from} \subseteq users,
         Cardinality(Tries(User)) + Cardinality(Before') <= MaxTries,
         \A u \in User, v \in Video :
             item[u][v].state # "absent" => item'[u][v].state # "absent",
         tx'[c].pc = "insert" =>
             AdmissibleIn(policy, users, item, day, tx'[c].op.user,
                 item'[tx'[c].op.user][Head(tx'[c].op.batch)].state = "absent")
  PROVE  IInv'
<1>0. day \in Day /\ day <= day' /\ tx' \in [Client -> Tx] /\ \A d \in Client : tx'[d] \in Tx
  BY NumbersAssumption DEF IInv, TypeOK, Day, MovesAlone
<1>1. UsersLocked' /\ GlobalLocked'
  BY LocksKept DEF IInv
<1>2. MergersExist'
  <2> SUFFICES ASSUME NEW d \in Client, tx'[d].pc = "merge"
               PROVE  {tx'[d].op.user, tx'[d].op.from} \subseteq users
    BY DEF MergersExist, At
  <2>1. CASE d = c
    BY <2>1
  <2>2. CASE d # c
    <3>1. tx'[d] = tx[d]
      BY <2>2 DEF MovesAlone
    <3> QED
      BY <3>1 DEF IInv, MergersExist, At
  <2> QED
    BY <2>1, <2>2
<1>3. ASSUME NEW d \in Client, tx'[d].pc = "insert"
      PROVE  \/ /\ tx'[d] = tx[d]
                /\ item[tx[d].op.user][Head(tx[d].op.batch)].state # "absent" =>
                       item'[tx[d].op.user][Head(tx[d].op.batch)].state # "absent"
             \/ AdmissibleIn(policy, users, item, day, tx'[d].op.user,
                    item'[tx'[d].op.user][Head(tx'[d].op.batch)].state = "absent")
  <2>1. CASE d = c
    BY <1>3, <2>1
  <2>2. CASE d # c
    <3>1. tx'[d] = tx[d]
      BY <2>2 DEF MovesAlone
    <3>2. tx[d].op.user \in User /\ Head(tx[d].op.batch) \in Video
      BY <1>0, <1>3, <3>1, TxFacts, BatchFacts
    <3> QED
      BY <3>1, <3>2
  <2> QED
    BY <2>1, <2>2, Zenon
<1> QED
  BY <1>0, <1>1, <1>2, <1>3, QuietStep, Zenon

\* The same where no row changes.
LEMMA MoveOnly ==
  ASSUME IInv, NEW c \in Client, MovesAlone(c), item' = item,
         users' = users, policy' = policy, day' = day,
         tx'[c].pc = "merge" => {tx'[c].op.user, tx'[c].op.from} \subseteq users,
         Cardinality(Tries(User)) + Cardinality(Before') <= MaxTries,
         tx'[c].pc = "insert" =>
             AdmissibleIn(policy, users, item, day, tx'[c].op.user,
                 item[tx'[c].op.user][Head(tx'[c].op.batch)].state = "absent")
  PROVE  IInv'
<1>1. GoodShelves(item)
  BY GoodNow DEF IInv
<1>2. \A u \in User, v \in Video : NoMore(item[u][v], item[u][v])
  BY <1>1, SameIsNoMore DEF GoodShelves, GoodRow
<1>3. GoneHaveNothing'
  BY DEF IInv, GoneHaveNothing
<1> QED
  BY <1>1, <1>2, <1>3, MoveStep

LEMMA BoundFacts ==
  ASSUME IInv
  PROVE  /\ Cardinality(Tries(User)) \in Nat /\ Cardinality(Before) \in Nat
         /\ Cardinality(Before') \in Nat /\ MaxTries \in Nat
         /\ Cardinality(Tries(User)) + Cardinality(Before) <= MaxTries
  BY CountedNow, CountedNat, BeforeNow, BeforeFinite, NumbersAssumption DEF IInv, Accounted

\* A transaction takes its next lock or goes on to insert.
LEMMA GotoStep ==
  ASSUME IInv, NEW c \in Client, NEW pc, Goto(c, pc),
         \/ /\ tx[c].pc \in {"global", "user", "check", "insert"}
            /\ pc \in {"global", "user", "check", "insert"}
         \/ tx[c].pc \in {"low", "high", "merge"} /\ pc \in {"low", "high", "merge"},
         UNCHANGED <<policy, users, item, day>>,
         \A u \in HoldsUser(c)' \ HoldsUser(c) : UserFree(c, u),
         HoldsGlobal(c)' /\ ~HoldsGlobal(c) => GlobalFree(c),
         pc = "merge" => {tx[c].op.user, tx[c].op.from} \subseteq users,
         pc = "insert" =>
             AdmissibleIn(policy, users, item, day, tx[c].op.user,
                 item[tx[c].op.user][Head(tx[c].op.batch)].state = "absent")
  PROVE  IInv'
<1>1. /\ tx' \in [Client -> Tx]
      /\ \A d \in Client \ {c} : tx'[d] = tx[d]
      /\ tx'[c].pc = pc /\ tx'[c].op = tx[c].op
  BY GotoFacts DEF IInv
<1>2. MovesAlone(c)
  BY <1>1 DEF MovesAlone
<1>3. BeforeOf(tx') = BeforeOf(tx)
  BY <1>1, BeforeSame
<1>4. Cardinality(Tries(User)) + Cardinality(Before') <= MaxTries
  BY <1>3, BeforeNow, BoundFacts
<1> QED
  BY <1>1, <1>2, <1>4, MoveOnly

\* A transaction ends without an effect on the rows.
LEMMA EndStep ==
  ASSUME IInv, NEW c \in Client, ~At(c, "idle"), End(c),
         UNCHANGED <<policy, users, item, day>>
  PROVE  IInv'
<1>1. MovesAlone(c) /\ tx'[c].pc \in {"idle", "global", "user", "check"}
  BY EndFacts DEF IInv
<1>2. Cardinality(Before') <= Cardinality(Before)
  BY EndBefore DEF IInv
<1>3. Cardinality(Tries(User)) + Cardinality(Before') <= MaxTries
  BY <1>2, BoundFacts
<1> QED
  BY <1>1, <1>3, MoveOnly

LEMMA BeginKeeps ==
  ASSUME IInv, NEW c \in Client, NEW op \in Op, Begin(c, op)
  PROVE  IInv'
<1> DEFINE t == [pc |-> IF op.kind = "link" THEN "low" ELSE FirstLock,
                 op |-> op, began |-> day]
<1>0. /\ tx \in [Client -> Tx] /\ tx[c] \in Tx /\ day \in Day /\ tx[c].pc = "idle"
      /\ tx' = [tx EXCEPT ![c] = t]
  BY DEF IInv, TypeOK, Begin, At
<1>1. GlobalLimits => Enabled
  BY DEF Enabled, GlobalLimits, Limit
<1>2. /\ FirstLock \in {"global", "user", "check"}
      /\ FirstLock = "check" => ~Enabled
      /\ FirstLock = "user" => ~GlobalLimits
  BY DEF FirstLock
<1>3. /\ op \in AdmitOp => op.kind \in {"save", "retry"} /\ op.batch \in Batch
      /\ op \in LinkOp => op.kind = "link"
  BY DEF AdmitOp, LinkOp, Batch
<1>4. /\ t \in Tx /\ t.op = op
      /\ \/ op \in LinkOp /\ t.pc = "low"
         \/ op \in AdmitOp /\ t.pc = FirstLock
  <2>1. CASE op \in LinkOp
    <3>1. t.pc = "low" /\ t.op = op
      BY <1>3, <2>1
    <3>2. t \in [pc : {"low", "high", "merge"}, op : LinkOp, began : Day]
      BY <1>0, <1>3, <2>1
    <3> QED
      BY <2>1, <3>1, <3>2 DEF Tx
  <2>2. CASE op \in AdmitOp
    <3>1. t.pc = FirstLock /\ t.op = op
      BY <1>3, <2>2
    <3>2. t \in [pc : {"global", "user", "check", "insert"}, op : AdmitOp, began : Day]
      BY <1>0, <1>2, <1>3, <2>2
    <3> QED
      BY <2>2, <3>1, <3>2 DEF Tx
  <2> QED
    BY <2>1, <2>2 DEF Op
<1> HIDE DEF t
<1>5. tx' \in [Client -> Tx] /\ tx'[c] = t /\ \A d \in Client \ {c} : tx'[d] = tx[d]
  BY <1>0, <1>4
<1>6. tx'[c] \in Tx /\ policy' = policy
  BY <1>4, <1>5 DEF Begin
<1>7. HoldsUser(c)' = {} /\ ~HoldsGlobal(c)'
  <2>1. /\ tx'[c].pc \in {"low", "global", "user", "check"}
        /\ tx'[c].pc = "check" => ~Enabled
        /\ tx'[c].pc = "user" => ~GlobalLimits
    BY <1>1, <1>2, <1>4, <1>5
  <2>2. tx'[c].pc = "check" => ~GlobalLimits
    BY <1>1, <2>1
  <2> QED
    BY <1>6, <2>1, <2>2, HeldNext
<1>8. MovesAlone(c)
  BY <1>5, <1>7 DEF MovesAlone
<1>9. Cardinality(Tries(User)) + Cardinality(Before') <= MaxTries
  <2>1. CASE op \in LinkOp
    <3>1. tx'[c].op.kind \notin {"save", "retry"} /\ tx[c].op.kind \notin {"save", "retry"}
      BY <1>0, <1>3, <1>4, <1>5, <2>1, TxFacts
    <3>2. BeforeOf(tx') = BeforeOf(tx)
      BY <1>5, <3>1, BeforeSame
    <3> QED
      BY <3>2, BeforeNow, BoundFacts
  <2>2. CASE op \in AdmitOp
    <3>1. tx'[c].op.batch \in Batch /\ tx'[c].op.batch = op.batch
      BY <1>3, <1>4, <1>5, <2>2
    <3>2. Cardinality(BeforeOf(tx')) <= Cardinality(BeforeOf(tx)) + Len(op.batch)
      BY <1>5, <3>1, BeforeMore
    <3>3. Cardinality(Tries(User)) + Cardinality(Before) + Len(op.batch) <= MaxTries
      BY <1>3, <2>2 DEF Begin
    <3>4. Len(op.batch) \in Nat
      BY <3>1, BatchFacts
    <3> QED
      BY <3>2, <3>3, <3>4, BeforeNow, BoundFacts
  <2> QED
    BY <2>1, <2>2 DEF Op
<1>10. tx'[c].pc \notin {"merge", "insert"}
  BY <1>2, <1>4, <1>5
<1>11. item' = item /\ users' = users /\ day' = day
  BY DEF Begin
<1> QED
  BY <1>6, <1>8, <1>9, <1>10, <1>11, MoveOnly

LEMMA LockGlobalKeeps ==
  ASSUME IInv, NEW c \in Client, LockGlobal(c)
  PROVE  IInv'
<1>1. tx[c].pc = "global" /\ GlobalFree(c) /\ Goto(c, "user")
      /\ UNCHANGED <<policy, users, item, day>>
  BY DEF LockGlobal, At
<1>2. tx'[c].pc = "user" /\ tx'[c] \in Tx
  BY <1>1, GotoFacts DEF IInv
<1>3. HoldsUser(c)' = {}
  BY <1>1, <1>2, HeldNext
<1> QED
  BY <1>1, <1>3, GotoStep

LEMMA LockUserKeeps ==
  ASSUME IInv, NEW c \in Client, LockUser(c)
  PROVE  IInv'
<1>1. /\ tx[c].pc = "user" /\ UserFree(c, tx[c].op.user) /\ tx[c] \in Tx
      /\ UNCHANGED <<policy, users, item, day>>
      /\ Goto(c, "check") \/ End(c)
  BY DEF LockUser, At, IInv, TypeOK
<1>2. CASE Goto(c, "check")
  <2>1. tx'[c].pc = "check" /\ tx'[c].op = tx[c].op /\ tx'[c] \in Tx
    BY <1>1, <1>2, GotoFacts DEF IInv
  <2>2. HoldsUser(c)' \subseteq {tx[c].op.user}
    BY <1>1, <2>1, HeldNext
  <2>3. HoldsGlobal(c)' => HoldsGlobal(c)
    BY <1>1, <2>1, HeldNext, HeldFacts
  <2> QED
    BY <1>1, <1>2, <2>2, <2>3, GotoStep
<1>3. CASE End(c)
  BY <1>1, <1>3, EndStep DEF At
<1> QED
  BY <1>1, <1>2, <1>3

LEMMA LockLowKeeps ==
  ASSUME IInv, NEW c \in Client, LockLow(c)
  PROVE  IInv'
<1>1. /\ tx[c].pc = "low" /\ UserFree(c, LinkOrder(tx[c].op)[1]) /\ Goto(c, "high")
      /\ UNCHANGED <<policy, users, item, day>>
  BY DEF LockLow, At
<1>2. tx'[c].pc = "high" /\ tx'[c].op = tx[c].op /\ tx'[c] \in Tx
  BY <1>1, GotoFacts DEF IInv
<1>3. HoldsUser(c)' = {LinkOrder(tx[c].op)[1]} /\ ~HoldsGlobal(c)'
  BY <1>1, <1>2, HeldNext
<1> QED
  BY <1>1, <1>3, GotoStep

LEMMA LockHighKeeps ==
  ASSUME IInv, NEW c \in Client, LockHigh(c)
  PROVE  IInv'
<1>1. /\ tx[c].pc = "high" /\ UserFree(c, LinkOrder(tx[c].op)[2]) /\ tx[c] \in Tx
      /\ UNCHANGED <<policy, users, item, day>>
      /\ \/ {tx[c].op.user, tx[c].op.from} \subseteq users /\ Goto(c, "merge")
         \/ End(c)
  BY DEF LockHigh, At, IInv, TypeOK
<1>2. CASE {tx[c].op.user, tx[c].op.from} \subseteq users /\ Goto(c, "merge")
  <2>1. tx'[c].pc = "merge" /\ tx'[c].op = tx[c].op /\ tx'[c] \in Tx
    BY <1>1, <1>2, GotoFacts DEF IInv
  <2>2. HoldsUser(c)' = {tx[c].op.user, tx[c].op.from} /\ ~HoldsGlobal(c)'
    BY <1>1, <2>1, HeldNext
  <2>3. HoldsUser(c) = {LinkOrder(tx[c].op)[1]}
    BY <1>1, HeldFacts
  <2>4. {LinkOrder(tx[c].op)[1], LinkOrder(tx[c].op)[2]} = {tx[c].op.user, tx[c].op.from}
    BY <1>1, TxFacts, OrderFacts
  <2>5. \A u \in HoldsUser(c)' \ HoldsUser(c) : UserFree(c, u)
    BY <1>1, <2>2, <2>3, <2>4
  <2> QED
    BY <1>1, <1>2, <2>2, <2>5, GotoStep
<1>3. CASE End(c)
  BY <1>1, <1>3, EndStep DEF At
<1> QED
  BY <1>1, <1>2, <1>3

\* One row is replaced by another of no greater count.
Replaces(u, v, entry) ==
    /\ item' \in Shelves /\ item'[u][v] = entry
    /\ \A a \in User, b \in Video : <<a, b>> # <<u, v>> => item'[a][b] = item[a][b]
    /\ GoodRow(entry) /\ NoMore(entry, item[u][v])

LEMMA OneRow ==
  ASSUME IInv, NEW u \in User, NEW v \in Video, NEW entry, Replaces(u, v, entry)
  PROVE  /\ GoodShelves(item')
         /\ \A a \in User, b \in Video : NoMore(item'[a][b], item[a][b])
<1>1. GoodShelves(item) /\ item \in Shelves
  BY GoodNow DEF IInv, GoodShelves
<1>2. ASSUME NEW a \in User, NEW b \in Video
      PROVE  GoodRow(item'[a][b]) /\ NoMore(item'[a][b], item[a][b])
  <2>1. CASE <<a, b>> = <<u, v>>
    BY <2>1 DEF Replaces
  <2>2. CASE <<a, b>> # <<u, v>>
    <3>1. item'[a][b] = item[a][b] /\ GoodRow(item[a][b])
      BY <1>1, <2>2 DEF GoodShelves, Replaces
    <3> QED
      BY <3>1, SameIsNoMore DEF GoodRow
  <2> QED
    BY <2>1, <2>2
<1> QED
  BY <1>2 DEF GoodShelves, Replaces

\* What a check makes of the row: it leaves the recycle bin or stays as it is.
LEMMA CheckRow ==
  ASSUME IInv, NEW c \in Client, Check(c), ~(item' = item)
  PROVE  \E u \in User, v \in Video, entry \in Row :
             /\ Replaces(u, v, entry)
             /\ entry.state = item[u][v].state
             /\ item[u][v] = Absent => entry = Absent
<1> DEFINE u == tx[c].op.user
           v == Head(tx[c].op.batch)
           old == item[u][v]
           entry == [old EXCEPT !.trash = FALSE]
<1>0. item \in [User -> [Video -> Row]] /\ tx[c] \in Tx /\ tx[c].pc = "check"
  BY DEF IInv, TypeOK, Check, At
<1>1. u \in User /\ v \in Video
  BY <1>0, TxFacts, BatchFacts
<1> HIDE DEF u, v
<1>2. GoodRow(old)
  BY <1>1, GoodNow DEF IInv, GoodShelves
<1>3. GoodRow(entry) /\ NoMore(entry, old) /\ entry.state = old.state
  BY <1>2, TrashedIsGood
<1>4. entry \in Row
  BY <1>3 DEF GoodRow
<1>5. old = Absent => entry = Absent
  <2>1. \A x \in Row : x.trash = FALSE => [x EXCEPT !.trash = FALSE] = x
    BY DEF Row
  <2>2. Absent \in Row /\ Absent.trash = FALSE
    BY AbsentIsGood DEF GoodRow, Absent
  <2> QED
    BY <2>1, <2>2
<1>6. item' = [item EXCEPT ![u][v] = entry]
  <2>1. item' = [item EXCEPT ![u][v].trash = FALSE]
    BY Zenon DEF Check, u, v
  <2> QED
    BY <1>0, <1>1, <2>1
<1> HIDE DEF entry, old
<1>7. /\ item' \in Shelves /\ item'[u][v] = entry
      /\ \A a \in User, b \in Video : <<a, b>> # <<u, v>> => item'[a][b] = item[a][b]
  <2>1. item \in [User -> [Video -> Row]]
    BY <1>0
  <2> QED
    BY <1>1, <1>4, <1>6, <2>1 DEF Shelves
<1>8. Replaces(u, v, entry)
  BY <1>3, <1>7 DEF Replaces, old
<1> QED
  BY <1>1, <1>3, <1>4, <1>5, <1>8, SMTT(30) DEF old

LEMMA CheckKeeps ==
  ASSUME IInv, NEW c \in Client, Check(c)
  PROVE  IInv'
<1> DEFINE op == tx[c].op
           fresh == item[op.user][Head(op.batch)].state = "absent"
<1>1. /\ tx[c].pc = "check" /\ tx[c] \in Tx
      /\ UNCHANGED <<policy, users, day>>
      /\ \/ item' = item /\ Admissible(op.user, fresh) /\ Goto(c, "insert")
         \/ item' = item /\ End(c)
         \/ ~(item' = item) /\ End(c)
  BY Zenon DEF Check, At, IInv, TypeOK
<1>2. CASE item' = item /\ Admissible(op.user, fresh) /\ Goto(c, "insert")
  <2>1. tx'[c].pc = "insert" /\ tx'[c].op = op /\ tx'[c] \in Tx
    BY <1>1, <1>2, GotoFacts, Zenon DEF IInv
  <2>2. HoldsUser(c)' = HoldsUser(c) /\ (HoldsGlobal(c)' => HoldsGlobal(c))
    <3>1. /\ HoldsUser(c)' = IF Enabled THEN {tx'[c].op.user} ELSE {}
          /\ HoldsGlobal(c)' => GlobalLimits
      BY <1>1, <2>1, HeldNext
    <3>2. /\ HoldsUser(c) = IF Enabled THEN {tx[c].op.user} ELSE {}
          /\ GlobalLimits => HoldsGlobal(c)
      BY <1>1, HeldFacts
    <3> QED
      BY <2>1, <3>1, <3>2
  <2>3. AdmissibleIn(policy, users, item, day, tx[c].op.user,
                 item[tx[c].op.user][Head(tx[c].op.batch)].state = "absent")
    BY <1>2, Zenon DEF Admissible, Reached, AdmissibleIn, Full, Active, ActiveOf, Tries, TriesOf,
         TryOf, SentSince, SentOf, Items, ItemsOf, SavedSince, SavedOf
  <2> HIDE DEF op, fresh
  <2> QED
    BY <1>1, <1>2, <2>2, <2>3, GotoStep, Zenon
<1>3. CASE item' = item /\ End(c)
  BY <1>1, <1>3, EndStep DEF At
<1>4. CASE ~(item' = item) /\ End(c)
  <2>1. PICK u \in User, v \in Video, entry \in Row :
            /\ Replaces(u, v, entry)
            /\ entry.state = item[u][v].state
            /\ item[u][v] = Absent => entry = Absent
    BY <1>4, CheckRow
  <2>2. /\ GoodShelves(item')
        /\ \A a \in User, b \in Video : NoMore(item'[a][b], item[a][b])
    BY <2>1, OneRow
  <2>3. GoneHaveNothing'
    <3> SUFFICES ASSUME NEW a \in User \ users, NEW b \in Video PROVE item'[a][b] = Absent
      BY <1>1 DEF GoneHaveNothing
    <3>1. item[a][b] = Absent
      BY DEF IInv, GoneHaveNothing
    <3> QED
      BY <2>1, <3>1 DEF Replaces
  <2>4. \A a \in User, b \in Video : item[a][b].state # "absent" => item'[a][b].state # "absent"
    BY <2>1 DEF Replaces
  <2>5. MovesAlone(c) /\ tx'[c].pc \notin {"merge", "insert"}
    BY <1>1, <1>4, EndFacts DEF At, IInv
  <2>6. Cardinality(Tries(User)) + Cardinality(Before') <= MaxTries
    <3>1. Cardinality(Before') <= Cardinality(Before)
      BY <1>1, <1>4, EndBefore DEF At, IInv
    <3> QED
      BY <3>1, BoundFacts
  <2> HIDE DEF op, fresh
  <2> QED
    BY <1>1, <2>2, <2>3, <2>4, <2>5, <2>6, MoveStep
<1> QED
  BY <1>1, <1>2, <1>3, <1>4

\* While nobody moves the locks stay.
LEMMA LocksStay ==
  ASSUME IInv, UNCHANGED <<policy, users, tx>>
  PROVE  UsersLocked' /\ GlobalLocked' /\ MergersExist'
<1>1. \A c \in Client : HoldsUser(c)' = HoldsUser(c) /\ (HoldsGlobal(c)' <=> HoldsGlobal(c))
  BY DEF HoldsUser, HoldsGlobal, Admitting, Enabled, GlobalLimits, LinkOrder
<1>2. UsersLocked'
  BY <1>1 DEF IInv, UsersLocked
<1>3. GlobalLocked'
  BY <1>1 DEF IInv, GlobalLocked
<1>4. MergersExist'
  BY DEF IInv, MergersExist, At
<1> QED
  BY <1>2, <1>3, <1>4

\* A worker, the recycle bin or the purge changes one row.
LEMMA ShelfStep ==
  ASSUME IInv, NEW u \in users, NEW v \in Video, NEW entry \in Row, Replaces(u, v, entry),
         entry.state # "absent" \/ ItemUnlocked(u, v),
         UNCHANGED <<policy, users, tx, day>>
  PROVE  IInv'
<1>0. u \in User /\ users \subseteq User
  BY DEF IInv, TypeOK
<1>1. /\ GoodShelves(item')
      /\ \A a \in User, b \in Video : NoMore(item'[a][b], item[a][b])
  BY <1>0, OneRow
<1>2. GoneHaveNothing'
  BY DEF IInv, GoneHaveNothing, Replaces
<1>3. UsersLocked' /\ GlobalLocked' /\ MergersExist'
  BY LocksStay
<1>4. ASSUME NEW c \in Client, tx'[c].pc = "insert",
             item[tx[c].op.user][Head(tx[c].op.batch)].state # "absent"
      PROVE  item'[tx[c].op.user][Head(tx[c].op.batch)].state # "absent"
  <2>1. tx[c].op.user \in User /\ Head(tx[c].op.batch) \in Video
    BY <1>4, TxFacts, BatchFacts DEF IInv, TypeOK
  <2>2. CASE tx[c].op.user = u /\ Head(tx[c].op.batch) = v
    <3>1. HoldsItem(c, u, v)
      BY <1>4, <2>2 DEF HoldsItem
    <3>2. entry.state # "absent"
      BY <3>1 DEF ItemUnlocked
    <3> QED
      BY <2>2, <3>2 DEF Replaces
  <2>3. CASE ~(tx[c].op.user = u /\ Head(tx[c].op.batch) = v)
    <3>1. item'[tx[c].op.user][Head(tx[c].op.batch)] = item[tx[c].op.user][Head(tx[c].op.batch)]
      BY <2>1, <2>3 DEF Replaces
    <3> QED
      BY <1>4, <3>1
  <2> QED
    BY <2>2, <2>3
<1>5. Cardinality(Tries(User)) + Cardinality(Before') <= MaxTries
  <2>1. Before' = Before
    BY BeforeNow
  <2> QED
    BY <2>1, BoundFacts
<1>6. day' \in Day /\ day <= day' /\ tx' \in [Client -> Tx]
  BY NumbersAssumption DEF IInv, TypeOK, Day
<1> QED
  BY <1>1, <1>2, <1>3, <1>4, <1>5, <1>6, QuietStep, Zenon

\* What each of them makes of the row.
LEMMA SettleRow ==
  ASSUME IInv, NEW u \in users, NEW v \in Video, NEW o \in {"completed", "failed"},
         Settle(u, v, o)
  PROVE  \E entry \in Row : Replaces(u, v, entry) /\ entry.state # "absent"
<1> DEFINE old == item[u][v]
<1>0. u \in User /\ item \in [User -> [Video -> Row]]
  BY SMTT(30) DEF IInv, TypeOK
<1>1. PICK s \in {"ready", "pending", "failed"} :
         item' = [item EXCEPT ![u][v].state = s, ![u][v].tries[Len(old.tries)].state = o]
  BY DEF Settle
<1>2. GoodRow(old) /\ old.tries # <<>>
  BY <1>0, GoodNow DEF IInv, GoodShelves, Settle
<1> DEFINE entry == [old EXCEPT !.state = s, !.tries[Len(old.tries)].state = o]
<1>3. item' = [item EXCEPT ![u][v] = entry]
  BY <1>0, <1>1, Zenon
<1>4. GoodRow(entry) /\ NoMore(entry, old) /\ entry.state # "absent"
  <2> HIDE DEF old
  <2> QED
    BY <1>2, SettledIsGood, Zenon
<1>5. entry \in Row
  BY <1>4 DEF GoodRow
<1> HIDE DEF entry
<1>6. /\ item' \in Shelves /\ item'[u][v] = entry
      /\ \A a \in User, b \in Video : <<a, b>> # <<u, v>> => item'[a][b] = item[a][b]
  BY <1>0, <1>3, <1>5 DEF Shelves
<1> QED
  BY <1>4, <1>5, <1>6 DEF Replaces

LEMMA TrashRow ==
  ASSUME IInv, NEW u \in users, NEW v \in Video, Trash(u, v)
  PROVE  \E entry \in Row : Replaces(u, v, entry) /\ entry.state # "absent"
<1> DEFINE old == item[u][v]
           entry == [old EXCEPT !.trash = TRUE]
<1>0. u \in User /\ item \in [User -> [Video -> Row]]
  BY DEF IInv, TypeOK
<1>1. GoodRow(old) /\ old.state # "absent"
  BY <1>0, GoodNow DEF IInv, GoodShelves, Trash
<1>2. item' = [item EXCEPT ![u][v] = entry]
  BY <1>0 DEF Trash
<1>3. GoodRow(entry) /\ NoMore(entry, old) /\ entry.state # "absent"
  <2> HIDE DEF old
  <2> QED
    BY <1>1, TrashedIsGood
<1>4. entry \in Row
  BY <1>3 DEF GoodRow
<1> HIDE DEF entry
<1>5. /\ item' \in Shelves /\ item'[u][v] = entry
      /\ \A a \in User, b \in Video : <<a, b>> # <<u, v>> => item'[a][b] = item[a][b]
  BY <1>0, <1>2, <1>4 DEF Shelves
<1> QED
  BY <1>3, <1>4, <1>5 DEF Replaces

LEMMA PurgeRow ==
  ASSUME IInv, NEW u \in users, NEW v \in Video, Purge(u, v)
  PROVE  Replaces(u, v, Absent)
<1>0. u \in User /\ item \in [User -> [Video -> Row]]
  BY DEF IInv, TypeOK
<1>1. GoodRow(item[u][v])
  BY <1>0, GoodNow DEF IInv, GoodShelves
<1>2. GoodRow(Absent) /\ NoMore(Absent, item[u][v]) /\ Absent \in Row
  BY <1>1, AbsentIsGood, AbsentIsNoMore DEF GoodRow
<1>3. item' = [item EXCEPT ![u][v] = Absent]
  BY DEF Purge
<1>4. /\ item' \in Shelves /\ item'[u][v] = Absent
      /\ \A a \in User, b \in Video : <<a, b>> # <<u, v>> => item'[a][b] = item[a][b]
  BY <1>0, <1>2, <1>3 DEF Shelves
<1> QED
  BY <1>2, <1>4 DEF Replaces

LEMMA SettleKeeps ==
  ASSUME IInv, NEW u \in users, NEW v \in Video, NEW o \in {"completed", "failed"},
         Settle(u, v, o)
  PROVE  IInv'
<1>1. UNCHANGED <<policy, users, tx, day>>
  BY DEF Settle
<1> QED
  BY <1>1, SettleRow, ShelfStep

LEMMA TrashKeeps ==
  ASSUME IInv, NEW u \in users, NEW v \in Video, Trash(u, v)
  PROVE  IInv'
<1>1. UNCHANGED <<policy, users, tx, day>>
  BY DEF Trash
<1> QED
  BY <1>1, TrashRow, ShelfStep

LEMMA PurgeKeeps ==
  ASSUME IInv, NEW u \in users, NEW v \in Video, Purge(u, v)
  PROVE  IInv'
<1>1. ItemUnlocked(u, v) /\ UNCHANGED <<policy, users, tx, day>>
  BY DEF Purge
<1>2. Absent \in Row
  BY AbsentIsGood DEF GoodRow
<1> QED
  BY <1>1, <1>2, PurgeRow, ShelfStep

LEMMA NextDayKeeps ==
  ASSUME IInv, NextDay
  PROVE  IInv'
<1>0. day \in Nat /\ day' = day + 1 /\ day' \in Day /\ day <= day'
      /\ UNCHANGED <<policy, users, item, tx>>
  BY NumbersAssumption DEF IInv, TypeOK, Day, NextDay
<1>1. GoodShelves(item)
  BY GoodNow DEF IInv
<1>2. \A u \in User, v \in Video : NoMore(item[u][v], item[u][v])
  BY <1>1, SameIsNoMore DEF GoodShelves, GoodRow
<1>3. GoneHaveNothing' /\ UsersLocked' /\ GlobalLocked' /\ MergersExist'
  BY <1>0, LocksStay DEF IInv, GoneHaveNothing
<1>4. Cardinality(Tries(User)) + Cardinality(Before') <= MaxTries
  <2>1. Before' = Before
    BY <1>0, BeforeNow
  <2> QED
    BY <2>1, BoundFacts
<1>5. tx' \in [Client -> Tx]
  BY <1>0 DEF IInv, TypeOK
<1> QED
  BY <1>0, <1>1, <1>2, <1>3, <1>4, <1>5, QuietStep

--------------------------------------------------------------------------------
(* An admission and a merge *)

\* The others who have checked keep their room: the rows of their users do not
\* change, and if some limit is global then nothing it counts grows.
LEMMA OthersRoom ==
  ASSUME IInv, NEW c \in Client, MovesAlone(c), tx'[c].pc # "insert",
         policy' = policy, day' = day, item' \in Shelves, users' \in SUBSET User,
         \A d \in Client \ {c} : tx[d].pc = "insert" /\ Enabled =>
             \A v \in Video : item'[tx[d].op.user][v] = item[tx[d].op.user][v],
         \A d \in Client \ {c} : tx[d].pc = "insert" /\ GlobalLimits =>
             NoMoreForAll(item', users', day, item, users, day)
  PROVE  Room'
<1>0. /\ policy \in [Limit -> Nat] /\ users \in SUBSET User /\ day \in Nat /\ day <= day
      /\ item \in Shelves /\ tx \in [Client -> Tx]
  BY PolicyFacts DEF IInv
<1> SUFFICES ASSUME NEW d \in Client, tx'[d].pc = "insert"
             PROVE  AdmissibleIn(policy, users', item', day, tx'[d].op.user,
                        item'[tx'[d].op.user][Head(tx'[d].op.batch)].state = "absent")
  BY RoomNow
<1>1. d \in Client \ {c} /\ tx'[d] = tx[d] /\ tx[d].pc = "insert"
  BY DEF MovesAlone
<1> DEFINE u == tx[d].op.user
           v == Head(tx[d].op.batch)
<1>2. u \in User /\ v \in Video
  BY <1>0, <1>1, TxFacts, BatchFacts
<1>3. AdmissibleIn(policy, users, item, day, u, item[u][v].state = "absent")
  BY <1>1, RoomNow DEF IInv
<1>4. Enabled => \A w \in Video : item'[u][w] = item[u][w]
  BY <1>1
<1>5. GlobalLimits => NoMoreForAll(item', users', day, item, users, day)
  BY <1>1
<1> HIDE DEF u, v
<1>6. Enabled => /\ \A w \in Video : NoMore(item'[u][w], item[u][w])
                 /\ item'[u][v].state = "absent" => item[u][v].state = "absent"
  <2>1. \A w \in Video : item[u][w] \in Row
    BY <1>0, <1>2 DEF Shelves
  <2> QED
    BY <1>2, <1>4, <2>1, SameIsNoMore
<1> DEFINE new == item[u][v].state = "absent"
           still == item'[u][v].state = "absent"
<1>7. /\ AdmissibleIn(policy, users, item, day, u, new)
      /\ (\E l \in Limit : policy[l] # 0) =>
             /\ \A w \in Video : NoMore(item'[u][w], item[u][w])
             /\ still => new
  BY <1>3, <1>6 DEF Enabled
<1>8. (\E l \in {"activeAll", "itemsAll", "sendsAll"} : policy[l] # 0) =>
          NoMoreForAll(item', users', day, item, users, day)
  BY <1>5 DEF GlobalLimits
<1> HIDE DEF new, still
<1>9. AdmissibleIn(policy, users', item', day, u, still)
  BY <1>0, <1>2, <1>7, <1>8, AdmissibleKept
<1> QED
  BY <1>1, <1>9, Zenon DEF u, v, still

\* The attempts of one item are among those of all.
LEMMA TriesOfOne ==
  ASSUME NEW it \in Shelves, NEW u \in User, NEW v \in Video, Len(it[u][v].tries) <= MaxTries
  PROVE  Len(it[u][v].tries) <= Cardinality(TriesOf(it, User))
<1> DEFINE n == Len(it[u][v].tries)
           h == [k \in 1..n |-> <<u, v, k>>]
<1>0. n \in Nat
  BY RowFacts DEF Shelves
<1>1. \A k \in 1..n : h[k] \in TriesOf(it, User)
  <2> SUFFICES ASSUME NEW k \in 1..n PROVE <<u, v, k>> \in TriesOf(it, User)
    OBVIOUS
  <2>1. k \in 1..MaxTries /\ k <= n
    BY <1>0, NumbersAssumption
  <2> QED
    BY <2>1 DEF TriesOf
<1>2. \A j, k \in 1..n : h[j] = h[k] => j = k
  OBVIOUS
<1> HIDE DEF h
<1>3. Cardinality(1..n) <= Cardinality(TriesOf(it, User))
  <2> HIDE DEF n
  <2> QED
    BY <1>1, <1>2, Pushed, CountedFinite, Zenon
<1>4. Cardinality(1..n) = n
  <2> HIDE DEF n
  <2>1. 1 \in Int /\ n \in Int
    BY <1>0
  <2>2. Cardinality(1..n) = IF 1 > n THEN 0 ELSE n - 1 + 1
    BY <2>1, FS_Interval, Zenon
  <2> QED
    BY <1>0, <2>2
<1> QED
  BY <1>3, <1>4

\* What an admission is: the rows before and after, and the room there was.
LEMMA Admission ==
  ASSUME IInv, NEW c \in Client, Insert(c), ~(item' = item)
  PROVE  LET u == tx[c].op.user
             v == Head(tx[c].op.batch)
             d == IF item[u][v].state = "absent" THEN tx[c].began ELSE item[u][v].saved
             new == [state |-> "active", day |-> tx[c].began]
             entry == [state |-> "pending", trash |-> FALSE, saved |-> d,
                       tries |-> Append(item[u][v].tries, new)]
         IN  /\ tx[c].pc = "insert" /\ u \in users /\ u \in User /\ v \in Video
             /\ End(c) /\ UNCHANGED <<policy, users, day>>
             /\ new \in Try /\ GoodRow(entry)
             /\ item' \in Shelves /\ item'[u][v] = entry
             /\ \A a \in User, b \in Video : <<a, b>> # <<u, v>> => item'[a][b] = item[a][b]
             /\ AdmissibleIn(policy, users, item, day, u, item[u][v].state = "absent")
<1> DEFINE u == tx[c].op.user
           v == Head(tx[c].op.batch)
           old == item[u][v]
           d == IF old.state = "absent" THEN tx[c].began ELSE old.saved
           new == [state |-> "active", day |-> tx[c].began]
           entry == [state |-> "pending", trash |-> FALSE, saved |-> d,
                     tries |-> Append(old.tries, new)]
<1>0. tx[c] \in Tx /\ item \in [User -> [Video -> Row]] /\ item \in Shelves
  BY DEF IInv, TypeOK, Shelves
<1>1. /\ tx[c].pc = "insert" /\ End(c) /\ UNCHANGED <<policy, users, day>>
      /\ item' = IF Conflicts(tx[c].op, old) THEN item
                 ELSE [item EXCEPT ![u][v] =
                          [state |-> "pending", trash |-> FALSE,
                           saved |-> IF old.state = "absent" THEN tx[c].began ELSE old.saved,
                           tries |-> Append(old.tries, new)]]
  BY Zenon DEF Insert, At
<1>2. /\ item' = [item EXCEPT ![u][v] = entry]
      /\ u \in users /\ (old.tries # <<>> => Latest(old).state = "failed")
  BY <1>1, Zenon DEF Conflicts
<1>3. /\ u \in User /\ v \in Video /\ tx[c].began \in Day
      /\ tx[c].op.kind \in {"save", "retry"} /\ tx[c].op.batch \in Batch
  BY <1>0, <1>1, TxFacts, BatchFacts, Zenon
<1>4. GoodRow(old) /\ old \in Row /\ Len(old.tries) \in Nat
  BY <1>3, GoodNow, RowFacts, Zenon DEF IInv, GoodShelves, GoodRow
<1>5. Len(old.tries) + 1 <= MaxTries
  <2>1. Len(old.tries) <= Cardinality(TriesOf(item, User))
    BY <1>0, <1>3, <1>4, TriesOfOne, Zenon DEF GoodRow
  <2>2. Tries(User) = TriesOf(item, User)
    BY DEF Tries, TriesOf
  <2>3. Cardinality(Before') + 1 <= Cardinality(Before)
    BY <1>1, <1>3, EndBefore, Zenon DEF IInv, At, Admitting
  <2> HIDE DEF old
  <2> QED
    BY <1>4, <2>1, <2>2, <2>3, BoundFacts
<1>6. new \in Try /\ d \in Day
  BY <1>3, <1>4, Zenon DEF Try, Row
<1>7. GoodRow(entry)
  <2> HIDE DEF old, d, new
  <2> QED
    BY <1>2, <1>4, <1>5, <1>6, AddedIsGood
<1>8. /\ item' \in Shelves /\ item'[u][v] = entry
      /\ \A a \in User, b \in Video : <<a, b>> # <<u, v>> => item'[a][b] = item[a][b]
  <2>1. entry \in Row
    BY <1>7, Zenon DEF GoodRow
  <2> HIDE DEF entry, u, v, old
  <2> QED
    BY <1>0, <1>2, <1>3, <2>1 DEF Shelves
<1>9. AdmissibleIn(policy, users, item, day, u, old.state = "absent")
  BY <1>1, RoomNow, Zenon DEF IInv
<1> QED
  BY <1>1, <1>2, <1>3, <1>6, <1>7, <1>8, <1>9, Zenon

LEMMA InsertKeeps ==
  ASSUME IInv, NEW c \in Client, Insert(c)
  PROVE  IInv'
<1>1. CASE item' = item
  <2>1. ~At(c, "idle") /\ End(c) /\ UNCHANGED <<policy, users, item, day>>
    BY <1>1, Zenon DEF Insert, At
  <2> QED
    BY <2>1, EndStep
<1>2. CASE ~(item' = item)
  <2> DEFINE u == tx[c].op.user
             v == Head(tx[c].op.batch)
             old == item[u][v]
             d == IF old.state = "absent" THEN tx[c].began ELSE old.saved
             new == [state |-> "active", day |-> tx[c].began]
             entry == [state |-> "pending", trash |-> FALSE, saved |-> d,
                       tries |-> Append(old.tries, new)]
  <2>1. /\ tx[c].pc = "insert" /\ u \in users /\ u \in User /\ v \in Video
        /\ End(c) /\ UNCHANGED <<policy, users, day>>
        /\ new \in Try /\ GoodRow(entry)
        /\ item' \in Shelves /\ item'[u][v] = entry
        /\ \A a \in User, b \in Video : <<a, b>> # <<u, v>> => item'[a][b] = item[a][b]
        /\ AdmissibleIn(policy, users, item, day, u, old.state = "absent")
    BY <1>2, Admission, Zenon
  <2>2. /\ entry.tries = Append(old.tries, new)
        /\ old.state # "absent" => entry.saved = old.saved
    BY Zenon
  <2> DEFINE more == IF old.state = "absent" THEN 1 ELSE 0
  <2>3. /\ policy \in [Limit -> Nat] /\ users \in SUBSET User /\ day \in Nat
        /\ item \in Shelves /\ tx \in [Client -> Tx] /\ tx[c] \in Tx
    BY PolicyFacts DEF IInv
  <2>4. MovesAlone(c) /\ tx'[c].pc \in {"idle", "global", "user", "check"}
    BY <2>1, EndFacts, Zenon DEF At, IInv
  <2> HIDE DEF u, v, new, entry, old
  <2>5. /\ Cardinality(TriesOf(item', User)) <= Cardinality(TriesOf(item, User)) + 1
        /\ Cardinality(ActiveOf(item', users)) <= Cardinality(ActiveOf(item, users)) + 1
        /\ Cardinality(SentOf(item', users, day)) <= Cardinality(SentOf(item, users, day)) + 1
        /\ Cardinality(SavedOf(item', users, day))
               <= Cardinality(SavedOf(item, users, day)) + more
    <3>1. /\ item'[u][v].tries = Append(item[u][v].tries, new)
          /\ item[u][v].state # "absent" => item'[u][v].saved = item[u][v].saved
      BY <2>1, <2>2 DEF old
    <3>2. User \in SUBSET User
      OBVIOUS
    <3>3. Cardinality(TriesOf(item', User)) <= Cardinality(TriesOf(item, User)) + 1
      BY <2>1, <2>3, <3>1, <3>2, InsertCounts
    <3>4. /\ Cardinality(ActiveOf(item', users)) <= Cardinality(ActiveOf(item, users)) + 1
          /\ Cardinality(SentOf(item', users, day))
                 <= Cardinality(SentOf(item, users, day)) + 1
          /\ Cardinality(SavedOf(item', users, day)) <= Cardinality(SavedOf(item, users, day))
                 + (IF item[u][v].state = "absent" THEN 1 ELSE 0)
      BY <2>1, <2>3, <3>1, InsertCounts, Zenon
    <3> QED
      BY <3>3, <3>4 DEF old
  <2>6. GoodShelves(item')
    <3> SUFFICES ASSUME NEW a \in User, NEW b \in Video PROVE GoodRow(item'[a][b])
      BY <2>1 DEF GoodShelves
    <3>1. GoodRow(item[a][b])
      BY GoodNow DEF IInv, GoodShelves
    <3>2. CASE <<a, b>> = <<u, v>>
      BY <2>1, <3>2
    <3>3. CASE <<a, b>> # <<u, v>>
      BY <2>1, <3>1, <3>3
    <3> QED
      BY <3>2, <3>3
  <2>7. TypeOK' /\ TriedExist'
    <3>1. policy' \in Policy /\ users' \subseteq User /\ day' \in Day /\ tx' \in [Client -> Tx]
      BY <2>1, <2>4 DEF IInv, TypeOK, MovesAlone
    <3> QED
      BY <2>6, <3>1, GoodNext DEF TypeOK
  <2>8. UsersLocked' /\ GlobalLocked'
    BY <2>1, <2>4, LocksKept DEF IInv
  <2>9. MergersExist'
    BY <2>1, <2>4 DEF IInv, MergersExist, MovesAlone, At
  <2>10. GoneHaveNothing'
    <3> SUFFICES ASSUME NEW a \in User \ users, NEW b \in Video PROVE item'[a][b] = Absent
      BY <2>1 DEF GoneHaveNothing
    <3>1. <<a, b>> # <<u, v>> /\ item[a][b] = Absent
      BY <2>1 DEF IInv, GoneHaveNothing
    <3> QED
      BY <2>1, <3>1
  <2>11. Room'
    <3>1. \A o \in Client \ {c} : tx[o].pc = "insert" /\ Enabled =>
              \A w \in Video : item'[tx[o].op.user][w] = item[tx[o].op.user][w]
      <4> SUFFICES ASSUME NEW o \in Client \ {c}, tx[o].pc = "insert", Enabled,
                          NEW w \in Video
                   PROVE  item'[tx[o].op.user][w] = item[tx[o].op.user][w]
        OBVIOUS
      <4>1. tx[o] \in Tx
        BY <2>3
      <4>2. HoldsUser(o) = {tx[o].op.user} /\ HoldsUser(c) = {u}
        BY <2>1, <2>3, <4>1, HeldFacts DEF u
      <4>3. tx[o].op.user # u
        BY <4>2 DEF IInv, UsersLocked
      <4>4. tx[o].op.user \in User
        BY <4>1, TxFacts
      <4> QED
        BY <2>1, <4>3, <4>4
    <3>2. \A o \in Client \ {c} : tx[o].pc = "insert" => ~GlobalLimits
      BY <2>1, <2>3, HeldFacts DEF IInv, GlobalLocked
    <3>3. users' \in SUBSET User /\ tx'[c].pc # "insert" /\ policy' = policy /\ day' = day
      BY <2>1, <2>3, <2>4
    <3> QED
      BY <2>1, <2>4, <3>1, <3>2, <3>3, OthersRoom
  <2>12. Accounted'
    <3>1. Tries(User)' = TriesOf(item', User) /\ Tries(User) = TriesOf(item, User)
      BY DEF Tries, TriesOf
    <3>2. Cardinality(Before') + 1 <= Cardinality(Before)
      BY <2>1, <2>3, EndBefore, HeldFacts DEF IInv, At
    <3>3. Cardinality(TriesOf(item', User)) \in Nat
      BY CountedNat
    <3> QED
      BY <2>5, <3>1, <3>2, <3>3, BoundFacts DEF Accounted
  <2>13. GlobalLimitsHold'
    <3>1. policy["activeAll"] \in Nat /\ policy["sendsAll"] \in Nat /\ policy["itemsAll"] \in Nat
      BY <2>3 DEF Limit
    <3>2. GlobalIn(policy, users, item, day)
      BY GlobalNow DEF IInv
    <3>3. /\ Cardinality(ActiveOf(item', users)) \in Nat
          /\ Cardinality(ActiveOf(item, users)) \in Nat
          /\ Cardinality(SentOf(item', users, day)) \in Nat
          /\ Cardinality(SentOf(item, users, day)) \in Nat
          /\ Cardinality(SavedOf(item', users, day)) \in Nat
          /\ Cardinality(SavedOf(item, users, day)) \in Nat
      BY <2>3, CountedNat
    <3>4. /\ policy["activeAll"] # 0 => Cardinality(ActiveOf(item', users)) <= policy["activeAll"]
          /\ policy["sendsAll"] # 0 =>
                 Cardinality(SentOf(item', users, day)) <= policy["sendsAll"]
      BY <2>1, <2>5, <3>1, <3>3 DEF AdmissibleIn, Full
    <3>5. policy["itemsAll"] # 0 => Cardinality(SavedOf(item', users, day)) <= policy["itemsAll"]
      <4>1. CASE old.state = "absent"
        BY <2>1, <2>5, <3>1, <3>3, <4>1 DEF AdmissibleIn, Full
      <4>2. CASE old.state # "absent"
        BY <2>5, <3>1, <3>2, <3>3, <4>2 DEF GlobalIn
      <4> QED
        BY <4>1, <4>2
    <3>6. GlobalIn(policy, users, item', day)
      BY <3>4, <3>5 DEF GlobalIn
    <3> QED
      BY <2>1, <3>6, GlobalNow
  <2> QED
    BY <2>7, <2>8, <2>9, <2>10, <2>11, <2>12, <2>13 DEF IInv
<1> QED
  BY <1>1, <1>2

\* What a merge does: the survivor's rows are of the two accounts, the other
\* account is gone with everything it had.
LEMMA Merging ==
  ASSUME IInv, NEW c \in Client, Merge(c), ~(UNCHANGED <<item, users>>)
  PROVE  LET a == tx[c].op.user
             b == tx[c].op.from
         IN  /\ tx[c].pc = "merge" /\ a \in users /\ b \in users /\ a # b
             /\ a \in User /\ b \in User
             /\ End(c) /\ UNCHANGED <<policy, day>> /\ users' = users \ {b}
             /\ GoodShelves(item')
             /\ \A v \in Video :
                    NoMore(item'[a][v], item[a][v]) \/ NoMore(item'[a][v], item[b][v])
             /\ \A v \in Video : item'[b][v] = Absent
             /\ \A u \in User \ {a, b}, v \in Video : item'[u][v] = item[u][v]
<1> DEFINE a == tx[c].op.user
           b == tx[c].op.from
<1>0. tx[c] \in Tx /\ item \in [User -> [Video -> Row]] /\ GoodShelves(item)
  BY GoodNow DEF IInv, TypeOK
<1>1. /\ tx[c].pc = "merge" /\ End(c) /\ UNCHANGED <<policy, day>>
  BY DEF Merge, At
<1>2. PICK mine \in SUBSET Video :
          /\ item' = [item EXCEPT
                 ![a] = [v \in Video |->
                     IF v \in mine THEN Merged(item[a][v], item[b][v])
                     ELSE Merged(item[b][v], item[a][v])],
                 ![b] = [v \in Video |-> Absent]]
          /\ users' = users \ {b}
  BY Zenon DEF Merge
<1>3. a \in User /\ b \in User /\ a # b /\ a \in users /\ b \in users
  BY <1>0, <1>1, TxFacts DEF IInv, MergersExist, At
<1> HIDE DEF a, b
<1> DEFINE M == [v \in Video |-> IF v \in mine THEN Merged(item[a][v], item[b][v])
                                 ELSE Merged(item[b][v], item[a][v])]
           N == [v \in Video |-> Absent]
<1>4. \A v \in Video : /\ GoodRow(M[v])
                       /\ NoMore(M[v], item[a][v]) \/ NoMore(M[v], item[b][v])
  <2> SUFFICES ASSUME NEW v \in Video
               PROVE  /\ GoodRow(M[v])
                      /\ NoMore(M[v], item[a][v]) \/ NoMore(M[v], item[b][v])
    OBVIOUS
  <2>1. GoodRow(item[a][v]) /\ GoodRow(item[b][v])
    BY <1>0, <1>3 DEF GoodShelves
  <2>2. CASE v \in mine
    <3>1. M[v] = Merged(item[a][v], item[b][v])
      BY <2>2
    <3> QED
      BY <2>1, <3>1, MergedIsGood
  <2>3. CASE v \notin mine
    <3>1. M[v] = Merged(item[b][v], item[a][v])
      BY <2>3
    <3> QED
      BY <2>1, <3>1, MergedIsGood
  <2> QED
    BY <2>2, <2>3
<1>5. \A v \in Video : N[v] = Absent /\ GoodRow(N[v])
  BY AbsentIsGood
<1>6. M \in [Video -> Row] /\ N \in [Video -> Row]
  <2>1. \A v \in Video : M[v] \in Row /\ N[v] \in Row
    BY <1>4, <1>5 DEF GoodRow
  <2> QED
    BY <2>1
<1>7. item' = [item EXCEPT ![a] = M, ![b] = N]
  BY <1>2
<1> HIDE DEF M, N
<1>8. /\ item' \in [User -> [Video -> Row]]
      /\ item'[a] = M /\ item'[b] = N
      /\ \A u \in User \ {a, b} : item'[u] = item[u]
  BY <1>0, <1>3, <1>6, <1>7
<1>9. GoodShelves(item')
  <2> SUFFICES ASSUME NEW u \in User, NEW v \in Video PROVE GoodRow(item'[u][v])
    BY <1>8 DEF GoodShelves, Shelves
  <2>1. CASE u \in {a, b}
    BY <1>4, <1>5, <1>8, <2>1
  <2>2. CASE u \notin {a, b}
    <3>1. item'[u] = item[u]
      BY <1>8, <2>2
    <3> QED
      BY <1>0, <3>1 DEF GoodShelves
  <2> QED
    BY <2>1, <2>2
<1>10. /\ \A v \in Video : NoMore(item'[a][v], item[a][v]) \/ NoMore(item'[a][v], item[b][v])
       /\ \A v \in Video : item'[b][v] = Absent
       /\ \A u \in User \ {a, b}, v \in Video : item'[u][v] = item[u][v]
  BY <1>4, <1>5, <1>8
<1> QED
  BY <1>1, <1>2, <1>3, <1>9, <1>10, Zenon DEF a, b

LEMMA MergeKeeps ==
  ASSUME IInv, NEW c \in Client, Merge(c)
  PROVE  IInv'
<1>1. CASE UNCHANGED <<item, users>>
  <2>1. ~At(c, "idle") /\ End(c) /\ UNCHANGED <<policy, users, item, day>>
    BY <1>1 DEF Merge, At
  <2> QED
    BY <2>1, EndStep
<1>2. CASE ~(UNCHANGED <<item, users>>)
  <2> DEFINE a == tx[c].op.user
             b == tx[c].op.from
  <2>1. /\ tx[c].pc = "merge" /\ a \in users /\ b \in users /\ a # b
        /\ a \in User /\ b \in User
        /\ End(c) /\ UNCHANGED <<policy, day>> /\ users' = users \ {b}
        /\ GoodShelves(item')
        /\ \A v \in Video : NoMore(item'[a][v], item[a][v]) \/ NoMore(item'[a][v], item[b][v])
        /\ \A v \in Video : item'[b][v] = Absent
        /\ \A u \in User \ {a, b}, v \in Video : item'[u][v] = item[u][v]
    BY <1>2, Merging
  <2>2. /\ policy \in [Limit -> Nat] /\ users \in SUBSET User /\ day \in Nat
        /\ item \in Shelves /\ item' \in Shelves /\ tx \in [Client -> Tx] /\ tx[c] \in Tx
        /\ users' \in SUBSET users /\ users' \in SUBSET User
    BY <2>1, PolicyFacts DEF IInv, GoodShelves
  <2>3. MovesAlone(c) /\ tx'[c].pc \in {"idle", "global", "user", "check"}
    BY <2>1, EndFacts DEF At, IInv
  <2>4. HoldsUser(c) = {a, b}
    BY <2>1, <2>2, HeldFacts
  <2> HIDE DEF a, b
  <2>5. NoMoreForAll(item', users', day, item, users, day)
    <3>1. \A u \in users \ {a, b}, v \in Video : item'[u][v] = item[u][v]
      BY <2>1, <2>2
    <3>2. /\ Cardinality(ActiveOf(item', users)) <= Cardinality(ActiveOf(item, users))
          /\ Cardinality(SentOf(item', users, day)) <= Cardinality(SentOf(item, users, day))
          /\ Cardinality(SavedOf(item', users, day)) <= Cardinality(SavedOf(item, users, day))
      BY <2>1, <2>2, <3>1, MergeCounts, SMTT(30)
    <3>3. /\ ActiveOf(item', users') \in SUBSET ActiveOf(item', users)
          /\ SentOf(item', users', day) \in SUBSET SentOf(item', users, day)
          /\ SavedOf(item', users', day) \in SUBSET SavedOf(item', users, day)
      BY <2>2 DEF ActiveOf, SentOf, SavedOf, TriesOf, ItemsOf
    <3>4. /\ Cardinality(ActiveOf(item', users')) <= Cardinality(ActiveOf(item', users))
          /\ Cardinality(SentOf(item', users', day)) <= Cardinality(SentOf(item', users, day))
          /\ Cardinality(SavedOf(item', users', day))
                 <= Cardinality(SavedOf(item', users, day))
      BY <2>2, <3>3, CountedFinite, FS_Subset
    <3>5. /\ Cardinality(ActiveOf(item', users')) \in Nat
          /\ Cardinality(ActiveOf(item', users)) \in Nat
          /\ Cardinality(ActiveOf(item, users)) \in Nat
          /\ Cardinality(SentOf(item', users', day)) \in Nat
          /\ Cardinality(SentOf(item', users, day)) \in Nat
          /\ Cardinality(SentOf(item, users, day)) \in Nat
          /\ Cardinality(SavedOf(item', users', day)) \in Nat
          /\ Cardinality(SavedOf(item', users, day)) \in Nat
          /\ Cardinality(SavedOf(item, users, day)) \in Nat
      BY <2>2, CountedNat
    <3> QED
      BY <3>2, <3>4, <3>5 DEF NoMoreForAll
  <2>6. GlobalLimitsHold'
    <3>1. GlobalIn(policy, users, item, day)
      BY GlobalNow DEF IInv
    <3>2. GlobalIn(policy, users', item', day)
      BY <2>2, <2>5, <3>1, GlobalKept
    <3> QED
      BY <2>1, <3>2, GlobalNow
  <2>7. TypeOK' /\ TriedExist'
    <3>1. policy' \in Policy /\ users' \subseteq User /\ day' \in Day /\ tx' \in [Client -> Tx]
      BY <2>1, <2>2, <2>3 DEF IInv, TypeOK, MovesAlone
    <3> QED
      BY <2>1, <3>1, GoodNext DEF TypeOK
  <2>8. UsersLocked' /\ GlobalLocked'
    BY <2>1, <2>3, LocksKept DEF IInv
  <2>9. MergersExist'
    <3> SUFFICES ASSUME NEW d \in Client, tx'[d].pc = "merge"
                 PROVE  {tx'[d].op.user, tx'[d].op.from} \subseteq users'
      BY DEF MergersExist, At
    <3>1. d # c
      BY <2>3
    <3>2. tx'[d] = tx[d] /\ tx[d] \in Tx /\ tx[d].pc = "merge"
      BY <2>2, <2>3, <3>1 DEF MovesAlone
    <3>3. HoldsUser(d) = {tx[d].op.user, tx[d].op.from}
      BY <3>2, HeldFacts
    <3>4. b \notin {tx[d].op.user, tx[d].op.from}
      BY <2>4, <3>1, <3>3 DEF IInv, UsersLocked
    <3>5. {tx[d].op.user, tx[d].op.from} \subseteq users
      BY <3>2 DEF IInv, MergersExist, At
    <3> QED
      BY <2>1, <3>2, <3>4, <3>5
  <2>10. GoneHaveNothing'
    <3> SUFFICES ASSUME NEW u \in User, u \notin users', NEW v \in Video
                 PROVE  item'[u][v] = Absent
      BY DEF GoneHaveNothing
    <3>1. CASE u = b
      BY <2>1, <3>1
    <3>2. CASE u # b
      <4>1. u \notin users /\ u \notin {a, b}
        BY <2>1, <3>2
      <4>2. item[u][v] = Absent
        BY <4>1 DEF IInv, GoneHaveNothing
      <4> QED
        BY <2>1, <4>1, <4>2
    <3> QED
      BY <3>1, <3>2
  <2>11. Room'
    <3>1. \A o \in Client \ {c} : tx[o].pc = "insert" /\ Enabled =>
              \A w \in Video : item'[tx[o].op.user][w] = item[tx[o].op.user][w]
      <4> SUFFICES ASSUME NEW o \in Client \ {c}, tx[o].pc = "insert", Enabled,
                          NEW w \in Video
                   PROVE  item'[tx[o].op.user][w] = item[tx[o].op.user][w]
        OBVIOUS
      <4>1. tx[o] \in Tx
        BY <2>2
      <4>2. HoldsUser(o) = {tx[o].op.user}
        BY <4>1, HeldFacts
      <4>3. tx[o].op.user \notin {a, b}
        BY <2>4, <4>2 DEF IInv, UsersLocked
      <4>4. tx[o].op.user \in User
        BY <4>1, TxFacts
      <4> QED
        BY <2>1, <4>3, <4>4
    <3>2. policy' = policy /\ day' = day /\ tx'[c].pc # "insert"
      BY <2>1, <2>3
    <3> QED
      BY <2>2, <2>3, <2>5, <3>1, <3>2, OthersRoom
  <2>12. Accounted'
    <3>1. Tries(User)' = TriesOf(item', User) /\ Tries(User) = TriesOf(item, User)
      BY DEF Tries, TriesOf
    <3>2. Cardinality(Before') <= Cardinality(Before)
      BY <2>1, EndBefore DEF IInv, At
    <3>3. Cardinality(TriesOf(item', User)) <= Cardinality(TriesOf(item, User))
      <4>1. User \in SUBSET User
        OBVIOUS
      <4> QED
        BY <2>1, <2>2, <4>1, MergeCounts
    <3>4. Cardinality(TriesOf(item', User)) \in Nat
      BY CountedNat
    <3> QED
      BY <3>1, <3>2, <3>3, <3>4, BoundFacts DEF Accounted
  <2> QED
    BY <2>6, <2>7, <2>8, <2>9, <2>10, <2>11, <2>12 DEF IInv
<1> QED
  BY <1>1, <1>2

--------------------------------------------------------------------------------
(* Theorems *)

LEMMA InitGood ==
  ASSUME Init
  PROVE  IInv
<1>1. /\ users = User /\ day = 0 /\ policy \in Policy
      /\ item = [u \in User |-> [v \in Video |-> Absent]]
      /\ tx = [c \in Client |-> Idle]
  BY DEF Init
<1>2. Absent \in Row /\ Absent.state = "absent" /\ Absent.tries = <<>> /\ Len(Absent.tries) = 0
  BY AbsentIsGood DEF GoodRow, Absent
<1>3. /\ item \in [User -> [Video -> Row]]
      /\ \A u \in User, v \in Video : item[u][v] = Absent
  BY <1>1, <1>2
<1>4. Idle \in Tx /\ Idle.pc = "idle" /\ Idle.op.kind = "none"
  BY DEF Tx, Idle
<1>5. tx \in [Client -> Tx] /\ \A c \in Client : tx[c] = Idle
  BY <1>1, <1>4
<1>6. TriesOf(item, User) = {} /\ ItemsOf(item, User) = {}
  <2>1. ASSUME NEW t \in TriesOf(item, User) PROVE FALSE
    <3>1. PICK u \in User, v \in Video, k \in 1..MaxTries :
             t = <<u, v, k>> /\ k <= Len(item[u][v].tries)
      BY <2>1 DEF TriesOf
    <3> QED
      BY <1>2, <1>3, <3>1, NumbersAssumption
  <2>2. ASSUME NEW i \in ItemsOf(item, User) PROVE FALSE
    BY <1>2, <1>3 DEF ItemsOf
  <2> QED
    BY <2>1, <2>2
<1>7. TypeOK
  <2>1. day \in Day
    BY <1>1, NumbersAssumption DEF Day
  <2>2. \A u \in User, v \in Video : Len(item[u][v].tries) <= MaxTries
    BY <1>2, <1>3, NumbersAssumption
  <2>3. Active(User) = {}
    BY <1>6 DEF Active, Tries, TriesOf
  <2> QED
    BY <1>1, <1>3, <1>5, <2>1, <2>2, <2>3 DEF TypeOK
<1>8. \A c \in Client : HoldsUser(c) = {} /\ ~HoldsGlobal(c)
  BY <1>4, <1>5, HeldFacts
<1>9. UsersLocked /\ GlobalLocked
  BY <1>8 DEF UsersLocked, GlobalLocked
<1>10. MergersExist /\ Room
  BY <1>4, <1>5 DEF MergersExist, Room, At
<1>11. GoneHaveNothing /\ TriedExist
  BY <1>1, <1>2, <1>3 DEF GoneHaveNothing, TriedExist
<1>12. Cardinality({}) = 0
  BY FS_EmptySet
<1>13. Accounted
  <2>1. Tries(User) = {}
    BY <1>6 DEF Tries, TriesOf
  <2>2. Before = {}
    BY <1>4, <1>5 DEF Before, Admitting
  <2> QED
    BY <1>12, <2>1, <2>2, NumbersAssumption DEF Accounted
<1>14. GlobalLimitsHold
  <2>1. policy \in [Limit -> Nat]
    BY <1>1, NumbersAssumption
  <2>2. /\ ActiveOf(item, users) = {} /\ SentOf(item, users, day) = {}
        /\ SavedOf(item, users, day) = {}
    BY <1>1, <1>6 DEF ActiveOf, SentOf, SavedOf
  <2>3. GlobalIn(policy, users, item, day)
    <3>1. \A l \in Limit : policy[l] >= 0
      BY <2>1
    <3> QED
      BY <1>12, <2>2, <3>1 DEF GlobalIn, Limit
  <2> QED
    BY <2>3, GlobalNow
<1> QED
  BY <1>7, <1>9, <1>10, <1>11, <1>13, <1>14 DEF IInv

LEMMA StutterKeeps ==
  ASSUME IInv, UNCHANGED vars
  PROVE  IInv'
<1>1. UNCHANGED <<policy, users, item, tx, day>>
  BY DEF vars
<1>2. /\ TypeOK' /\ MergersExist' /\ GoneHaveNothing' /\ TriedExist'
  BY <1>1 DEF IInv, TypeOK, MergersExist, GoneHaveNothing, TriedExist, At, Active, Tries, TryOf
<1>3. UsersLocked' /\ GlobalLocked'
  BY <1>1, LocksStay
<1>4. Room' /\ GlobalLimitsHold'
  BY <1>1, RoomNow, GlobalNow DEF IInv
<1>5. Accounted'
  BY <1>1, BeforeNow DEF IInv, Accounted, Tries
<1> QED
  BY <1>2, <1>3, <1>4, <1>5 DEF IInv

LEMMA NextKeeps ==
  ASSUME IInv, [Next]_vars
  PROVE  IInv'
<1>1. ASSUME NEW c \in Client, NEW op \in Op, Begin(c, op) PROVE IInv'
  BY <1>1, BeginKeeps
<1>2. ASSUME NEW c \in Client, Progress(c) PROVE IInv'
  BY <1>2, LockGlobalKeeps, LockUserKeeps, CheckKeeps, InsertKeeps, LockLowKeeps,
     LockHighKeeps, MergeKeeps DEF Progress
<1>3. ASSUME NEW u \in users, NEW v \in Video, NEW o \in {"completed", "failed"},
             Settle(u, v, o)
      PROVE  IInv'
  BY <1>3, SettleKeeps
<1>4. ASSUME NEW u \in users, NEW v \in Video, Trash(u, v) \/ Purge(u, v) PROVE IInv'
  BY <1>4, TrashKeeps, PurgeKeeps
<1>5. CASE NextDay
  BY <1>5, NextDayKeeps
<1>6. CASE UNCHANGED vars
  BY <1>6, StutterKeeps
<1> QED
  BY <1>1, <1>2, <1>3, <1>4, <1>5, <1>6 DEF Next

\* No step but an admission leaves the users with more attempts.
LEMMA OnlyAdmissionsAdd ==
  ASSUME IInv, [Next]_vars,
         ~\E c \in Client : Insert(c) /\ ~(item' = item)
  PROVE  Cardinality(Tries(users)') <= Cardinality(Tries(users))
<1>0. /\ users \in SUBSET User /\ day \in Nat /\ item \in Shelves
      /\ IInv' /\ item' \in Shelves /\ users' \in SUBSET User
  <2>1. IInv'
    BY NextKeeps
  <2> QED
    BY <2>1, PolicyFacts DEF IInv, TypeOK, Shelves
<1>1. Tries(users)' = TriesOf(item', users') /\ Tries(users) = TriesOf(item, users)
  BY DEF Tries, TriesOf
<1> SUFFICES Cardinality(TriesOf(item', users')) <= Cardinality(TriesOf(item, users))
  BY <1>1
<1>2. ASSUME users' = users, item' = item
      PROVE  Cardinality(TriesOf(item', users')) <= Cardinality(TriesOf(item, users))
  BY <1>0, <1>2, CountedNat
<1>3. ASSUME users' = users, NEW u \in User, NEW v \in Video, NEW entry \in Row,
             Replaces(u, v, entry)
      PROVE  Cardinality(TriesOf(item', users')) <= Cardinality(TriesOf(item, users))
  <2>1. \A a \in users, b \in Video : NoMore(item'[a][b], item[a][b])
    BY <1>0, <1>3, OneRow
  <2>2. day <= day
    BY <1>0
  <2> QED
    BY <1>0, <1>3, <2>1, <2>2, NoMoreCounted
<1>4. ASSUME NEW c \in Client, Check(c)
      PROVE  Cardinality(TriesOf(item', users')) <= Cardinality(TriesOf(item, users))
  <2>1. users' = users
    BY <1>4, Zenon DEF Check
  <2> QED
    BY <1>2, <1>3, <1>4, <2>1, CheckRow
<1>5. ASSUME NEW c \in Client, Merge(c)
      PROVE  Cardinality(TriesOf(item', users')) <= Cardinality(TriesOf(item, users))
  <2>1. CASE UNCHANGED <<item, users>>
    BY <1>2, <2>1
  <2>2. CASE ~(UNCHANGED <<item, users>>)
    <3> DEFINE a == tx[c].op.user
               b == tx[c].op.from
    <3>1. /\ a \in users /\ b \in users /\ a # b /\ users' = users \ {b}
          /\ \A v \in Video : NoMore(item'[a][v], item[a][v]) \/ NoMore(item'[a][v], item[b][v])
          /\ \A v \in Video : item'[b][v] = Absent
          /\ \A u \in User \ {a, b}, v \in Video : item'[u][v] = item[u][v]
      BY <1>5, <2>2, Merging
    <3> HIDE DEF a, b
    <3>2. \A u \in users \ {a, b}, v \in Video : item'[u][v] = item[u][v]
      BY <1>0, <3>1
    <3>3. Cardinality(TriesOf(item', users)) <= Cardinality(TriesOf(item, users))
      BY <1>0, <3>1, <3>2, MergeCounts
    <3>4. TriesOf(item', users') \in SUBSET TriesOf(item', users)
      BY <3>1 DEF TriesOf
    <3>5. Cardinality(TriesOf(item', users')) <= Cardinality(TriesOf(item', users))
      BY <1>0, <3>4, CountedFinite, FS_Subset
    <3>6. /\ Cardinality(TriesOf(item', users')) \in Nat
          /\ Cardinality(TriesOf(item', users)) \in Nat
          /\ Cardinality(TriesOf(item, users)) \in Nat
      BY <1>0, CountedNat
    <3> QED
      BY <3>3, <3>5, <3>6
  <2> QED
    BY <2>1, <2>2
<1>6. ASSUME NEW c \in Client, Progress(c)
      PROVE  Cardinality(TriesOf(item', users')) <= Cardinality(TriesOf(item, users))
  <2>1. CASE LockGlobal(c) \/ LockUser(c) \/ LockLow(c) \/ LockHigh(c)
    BY <1>2, <2>1 DEF LockGlobal, LockUser, LockLow, LockHigh
  <2>2. CASE Insert(c)
    <3>1. item' = item /\ users' = users
      BY <2>2, Zenon DEF Insert
    <3> QED
      BY <1>2, <3>1
  <2> QED
    BY <1>4, <1>5, <1>6, <2>1, <2>2 DEF Progress
<1>7. ASSUME NEW u \in users, NEW v \in Video, NEW o \in {"completed", "failed"},
             Settle(u, v, o) \/ Trash(u, v) \/ Purge(u, v)
      PROVE  Cardinality(TriesOf(item', users')) <= Cardinality(TriesOf(item, users))
  <2>1. users' = users
    BY <1>7 DEF Settle, Trash, Purge
  <2>2. u \in User /\ Absent \in Row
    BY <1>0, AbsentIsGood DEF GoodRow
  <2> QED
    BY <1>3, <1>7, <2>1, <2>2, SettleRow, TrashRow, PurgeRow
<1>8. CASE NextDay \/ UNCHANGED vars
  BY <1>2, <1>8 DEF NextDay, vars
<1>9. ASSUME NEW c \in Client, NEW op \in Op, Begin(c, op)
      PROVE  Cardinality(TriesOf(item', users')) <= Cardinality(TriesOf(item, users))
  BY <1>2, <1>9 DEF Begin
<1>10. "completed" \in {"completed", "failed"}
  OBVIOUS
<1> QED
  BY <1>6, <1>7, <1>8, <1>9, <1>10 DEF Next

\* What an admission leaves of the limits of a user.
StaysWithin(u) ==
    /\ Cardinality(Tries({u}))' > Cardinality(Tries({u})) =>
           Within("active", Active({u}))' /\ Within("sends", SentSince({u}, day))'
    /\ Cardinality(Items({u}))' > Cardinality(Items({u})) =>
           Within("items", SavedSince({u}, day))' /\ Within("total", Items({u}))'

LEMMA AdmissionWithin ==
  ASSUME IInv, NEW c \in Client, Insert(c), ~(item' = item), NEW w \in users
  PROVE  StaysWithin(w)
<1> DEFINE u == tx[c].op.user
           v == Head(tx[c].op.batch)
           old == item[u][v]
           d == IF old.state = "absent" THEN tx[c].began ELSE old.saved
           new == [state |-> "active", day |-> tx[c].began]
           entry == [state |-> "pending", trash |-> FALSE, saved |-> d,
                     tries |-> Append(old.tries, new)]
<1>1. /\ u \in User /\ v \in Video /\ UNCHANGED <<policy, users, day>>
      /\ new \in Try
      /\ item' \in Shelves /\ item'[u][v] = entry
      /\ \A a \in User, b \in Video : <<a, b>> # <<u, v>> => item'[a][b] = item[a][b]
      /\ AdmissibleIn(policy, users, item, day, u, item[u][v].state = "absent")
  BY Admission, Zenon
<1>2. /\ entry.tries = Append(old.tries, new)
      /\ old.state # "absent" => entry.saved = old.saved
  BY Zenon
<1> HIDE DEF u, v, new, entry
<1>3. /\ item'[u][v].tries = Append(item[u][v].tries, new)
      /\ item[u][v].state # "absent" => item'[u][v].saved = item[u][v].saved
  BY <1>1, <1>2
<1>4. /\ policy \in [Limit -> Nat] /\ day \in Nat /\ item \in Shelves /\ w \in User
      /\ {w} \in SUBSET User
  BY PolicyFacts DEF IInv
<1>5. /\ Tries({w})' = TriesOf(item', {w}) /\ Tries({w}) = TriesOf(item, {w})
      /\ Items({w})' = ItemsOf(item', {w}) /\ Items({w}) = ItemsOf(item, {w})
      /\ Active({w})' = ActiveOf(item', {w})
      /\ SentSince({w}, day)' = SentOf(item', {w}, day)
      /\ SavedSince({w}, day)' = SavedOf(item', {w}, day)
  BY <1>1 DEF Tries, TriesOf, Items, ItemsOf, Active, ActiveOf, TryOf, SentSince, SentOf,
              SavedSince, SavedOf
<1>6. /\ Cardinality(TriesOf(item', {w})) \in Nat /\ Cardinality(TriesOf(item, {w})) \in Nat
      /\ Cardinality(ItemsOf(item', {w})) \in Nat /\ Cardinality(ItemsOf(item, {w})) \in Nat
      /\ Cardinality(ActiveOf(item', {w})) \in Nat /\ Cardinality(ActiveOf(item, {w})) \in Nat
      /\ Cardinality(SentOf(item', {w}, day)) \in Nat
      /\ Cardinality(SentOf(item, {w}, day)) \in Nat
      /\ Cardinality(SavedOf(item', {w}, day)) \in Nat
      /\ Cardinality(SavedOf(item, {w}, day)) \in Nat
  BY <1>4, CountedNat
<1>7. CASE w # u
  <2>1. \A a \in {w}, b \in Video : item'[a][b] = item[a][b]
    BY <1>1, <1>4, <1>7
  <2>2. TriesOf(item', {w}) = TriesOf(item, {w}) /\ ItemsOf(item', {w}) = ItemsOf(item, {w})
    BY <2>1 DEF TriesOf, ItemsOf
  <2> QED
    BY <1>5, <1>6, <2>2 DEF StaysWithin
<1>8. CASE w = u
  <2>1. /\ Cardinality(ActiveOf(item', {w})) <= Cardinality(ActiveOf(item, {w})) + 1
        /\ Cardinality(SentOf(item', {w}, day)) <= Cardinality(SentOf(item, {w}, day)) + 1
        /\ Cardinality(ItemsOf(item', {w})) <= Cardinality(ItemsOf(item, {w}))
               + (IF item[u][v].state = "absent" THEN 1 ELSE 0)
        /\ Cardinality(SavedOf(item', {w}, day)) <= Cardinality(SavedOf(item, {w}, day))
               + (IF item[u][v].state = "absent" THEN 1 ELSE 0)
    <3>1. PICK us \in SUBSET User : us = {w}
      BY <1>4
    <3>2. u \in us
      BY <1>8, <3>1
    <3>3. /\ Cardinality(ActiveOf(item', us)) <= Cardinality(ActiveOf(item, us)) + 1
          /\ Cardinality(SentOf(item', us, day)) <= Cardinality(SentOf(item, us, day)) + 1
          /\ Cardinality(ItemsOf(item', us)) <= Cardinality(ItemsOf(item, us))
                 + (IF item[u][v].state = "absent" THEN 1 ELSE 0)
          /\ Cardinality(SavedOf(item', us, day)) <= Cardinality(SavedOf(item, us, day))
                 + (IF item[u][v].state = "absent" THEN 1 ELSE 0)
      <4>1. /\ item \in Shelves /\ item' \in Shelves /\ u \in us /\ v \in Video
            /\ new \in Try /\ day \in Nat
            /\ \A a \in User, b \in Video : <<a, b>> # <<u, v>> => item'[a][b] = item[a][b]
        BY <1>1, <1>4, <3>2
      <4> HIDE DEF old, d
      <4> QED
        BY <1>3, <4>1, InsertCounts
    <3> QED
      BY <3>1, <3>3
  <2>2. \A l \in Limit : policy[l] \in Nat
    BY <1>4
  <2>3. /\ ~Full(policy, "active", Cardinality(ActiveOf(item, {w})))
        /\ ~Full(policy, "sends", Cardinality(SentOf(item, {w}, day)))
        /\ item[u][v].state = "absent" =>
               /\ ~Full(policy, "items", Cardinality(SavedOf(item, {w}, day)))
               /\ ~Full(policy, "total", Cardinality(ItemsOf(item, {w})))
    BY <1>1, <1>8 DEF AdmissibleIn
  <2>4. /\ policy["active"] # 0 => Cardinality(ActiveOf(item', {w})) <= policy["active"]
        /\ policy["sends"] # 0 => Cardinality(SentOf(item', {w}, day)) <= policy["sends"]
    BY <1>6, <2>1, <2>2, <2>3 DEF Full, Limit
  <2>5. ASSUME Cardinality(ItemsOf(item', {w})) > Cardinality(ItemsOf(item, {w}))
        PROVE  /\ policy["items"] # 0 => Cardinality(SavedOf(item', {w}, day)) <= policy["items"]
               /\ policy["total"] # 0 => Cardinality(ItemsOf(item', {w})) <= policy["total"]
    <3>1. item[u][v].state = "absent"
      BY <1>6, <2>1, <2>5
    <3> QED
      BY <1>6, <2>1, <2>2, <2>3, <3>1 DEF Full, Limit
  <2>6. policy' = policy
    BY <1>1
  <2> QED
    BY <1>5, <2>4, <2>5, <2>6 DEF StaysWithin, Within
<1> QED
  BY <1>7, <1>8

LEMMA StepWithin ==
  ASSUME IInv, [Next]_vars, Cardinality(Tries(users))' > Cardinality(Tries(users)),
         NEW w \in users
  PROVE  StaysWithin(w)
<1>1. /\ Cardinality(Tries(users))' \in Nat /\ Cardinality(Tries(users)) \in Nat
  <2>1. IInv'
    BY NextKeeps
  <2>2. users \in SUBSET User /\ users' \in SUBSET User
    BY <2>1 DEF IInv, TypeOK
  <2>3. Tries(users)' = TriesOf(item', users') /\ Tries(users) = TriesOf(item, users)
    BY DEF Tries, TriesOf
  <2> QED
    BY <2>2, <2>3, CountedNat
<1>2. PICK c \in Client : Insert(c) /\ ~(item' = item)
  BY <1>1, OnlyAdmissionsAdd
<1> QED
  BY <1>2, AdmissionWithin

\* The invariant holds of every behaviour, for any number of clients, users,
\* videos and days (submission.py 274-394, identity.py 286-455).
THEOREM QuotaInvariance == Spec => []IInv
<1>1. Init => IInv
  BY InitGood
<1>2. IInv /\ [Next]_vars => IInv'
  BY NextKeeps
<1> QED
  BY <1>1, <1>2, PTL DEF Spec

\* The rows stay well formed: no attempt before the last one is active, and no
\* item has more attempts than are allowed for.
THEOREM QuotaTypes == Spec => []TypeOK
<1>1. IInv => TypeOK
  BY DEF IInv
<1> QED
  BY <1>1, QuotaInvariance, PTL

\* Saves, retries and linkings never wait for each other in a circle
\* (submission.py 283-297, identity.py 286-294).
THEOREM AlwaysSomebodyGoesOn == Spec => []NoLockCycle
<1>1. IInv => NoLockCycle
  BY SomebodyGoesOn DEF IInv
<1> QED
  BY <1>1, QuotaInvariance, PTL

\* The global limits hold whatever the clients of all users do at once
\* (submission.py 274-375: count and insert under one lock).
THEOREM GlobalLimitsAlwaysHold == Spec => []GlobalLimitsHold
<1>1. IInv => GlobalLimitsHold
  BY DEF IInv
<1> QED
  BY <1>1, QuotaInvariance, PTL

\* No admission takes its user past a limit of his own (submission.py 311-394).
THEOREM AdmissionsAlwaysStayWithin == Spec => AdmissionsStayWithin
<1>1. IInv /\ [Next]_vars =>
          [ Cardinality(Tries(users))' > Cardinality(Tries(users)) =>
                \A u \in users :
                    /\ Cardinality(Tries({u}))' > Cardinality(Tries({u})) =>
                           Within("active", Active({u}))' /\ Within("sends", SentSince({u}, day))'
                    /\ Cardinality(Items({u}))' > Cardinality(Items({u})) =>
                           Within("items", SavedSince({u}, day))' /\ Within("total", Items({u}))'
          ]_vars
  <2> SUFFICES ASSUME IInv, [Next]_vars,
                      Cardinality(Tries(users))' > Cardinality(Tries(users)),
                      NEW u \in users
               PROVE  StaysWithin(u)
    BY DEF StaysWithin
  <2> QED
    BY StepWithin
<1> QED
  BY <1>1, QuotaInvariance, PTL DEF Spec, AdmissionsStayWithin

\* No interleaving of counts, admissions and linkings gets past a limit
\* (submission.py 294-394, identity.py 420-436).
THEOREM LimitsAlwaysHold == Spec => LimitsHold
<1> QED
  BY GlobalLimitsAlwaysHold, AdmissionsAlwaysStayWithin, PTL DEF LimitsHold

--------------------------------------------------------------------------------
(* The inductive invariant of the links *)

\* The states of an account that has not been merged away.
Present == {"live", "disabled"}

\* A row that is not saved is empty.
UnsavedIsEmpty == \A a \in Identity, v \in Linkable : ~Linking!Saved(saved[a][v])
  => saved[a][v] = Linking!NoItem

\* A turn that runs has a tenant, and an open token an account.
TenantsKnown ==
    /\ \A i \in Identity : turn[i].pc = "agent" => turn[i].tenant \in Identity
    /\ \A t \in Linking!Token : token[t].state = "open" => token[t].user \in Identity

LinkInv ==
    /\ Linking!TypeOK /\ UnsavedIsEmpty /\ TenantsKnown
    /\ Linking!AnswersStayInAccount /\ Linking!ThreadFollowsIdentity

--------------------------------------------------------------------------------
(* Rows *)

\* The types of what the steps change.
LEMMA LinkTyped ==
  ASSUME Linking!ConstantsAssumption, LinkInv
  PROVE  /\ user \in [Identity -> {"none", "live", "disabled", "gone"}]
         /\ owner \in [Identity -> Identity \union {"none"}]
         /\ saved \in [Identity -> [Linkable -> Linking!Item]]
         /\ token \in [Linking!Token -> Linking!TokenRow]
              /\ thread \in [Identity -> Linking!Thread]
         /\ turn \in [Identity -> Linking!Turn]
         /\ \A i \in Identity :
               /\ user[i] \in {"none", "live", "disabled", "gone"}
               /\ owner[i] \in Identity \union {"none"} /\ thread[i] \in Linking!Thread
               /\ turn[i] \in Linking!Turn /\ saved[i] \in [Linkable -> Linking!Item]
               /\ owner[i] # "none" => owner[i] \in Identity /\ Linking!Exists(owner[i])
               /\ \A v \in Linkable :
                     /\ saved[i][v] \in Linking!Item
                     /\ Linking!Saved(saved[i][v]) => Linking!Exists(i)
                     /\ ~Linking!Saved(saved[i][v]) => saved[i][v] = Linking!NoItem
         /\ \A t \in Linking!Token :
               /\ token[t] \in Linking!TokenRow
               /\ token[t].state = "open" => token[t].user \in Identity
                    /\ Linking!Exists(token[t].user)
         /\ "none" \notin Identity
<1>1. /\ user \in [Identity -> {"none", "live", "disabled", "gone"}]
      /\ owner \in [Identity -> Identity \union {"none"}]
      /\ saved \in [Identity -> [Linkable -> Linking!Item]]
      /\ token \in [Linking!Token -> Linking!TokenRow] /\ thread \in [Identity -> Linking!Thread]
      /\ turn \in [Identity -> Linking!Turn]
  BY DEF LinkInv, Linking!TypeOK
<1>2. /\ \A i \in Identity :
            /\ owner[i] # "none" => Linking!Exists(owner[i])
            /\ \A v \in Linkable : Linking!Saved(saved[i][v]) => Linking!Exists(i)
      /\ \A t \in Linking!Token : token[t].state = "open" => Linking!Exists(token[t].user)
  BY DEF LinkInv, Linking!TypeOK
<1>3. /\ \A i \in Identity : \A v \in Linkable : ~Linking!Saved(saved[i][v])
           => saved[i][v] = Linking!NoItem
      /\ \A t \in Linking!Token : token[t].state = "open" => token[t].user \in Identity
  BY DEF LinkInv, UnsavedIsEmpty, TenantsKnown
<1>4. "none" \notin Identity
  BY DEF Linking!ConstantsAssumption
<1>5. \A i \in Identity :
         /\ user[i] \in {"none", "live", "disabled", "gone"}
         /\ owner[i] \in Identity \union {"none"} /\ thread[i] \in Linking!Thread
         /\ turn[i] \in Linking!Turn /\ saved[i] \in [Linkable -> Linking!Item]
         /\ \A v \in Linkable : saved[i][v] \in Linking!Item
  BY <1>1
<1>6. \A t \in Linking!Token : token[t] \in Linking!TokenRow
  BY <1>1
<1>7. \A i \in Identity : owner[i] # "none" => owner[i] \in Identity
  BY <1>5
<1>8. QED
  BY <1>1, <1>2, <1>3, <1>4, <1>5, <1>6, <1>7

\* The bound of the operator counts as the library does.
LEMMA LinkingSize ==
  ASSUME NEW S
  PROVE  Linking!Cardinality(S) = Cardinality(S)
BY DEF Linking!Cardinality, Cardinality

\* The operator's bound holds after one more act.
LEMMA Operating ==
  ASSUME Linking!ConstantsAssumption, LinkInv, Linking!Operate
  PROVE  operator' \in 0..MaxActs
<1> DEFINE T == {t \in Linking!Token : token[t].state # "none"}
<1>1. IsFiniteSet(Linking!Token)
  BY FS_Interval DEF Linking!Token, Linking!ConstantsAssumption
<1>2. Linking!Cardinality(T) \in Nat
  BY <1>1, FS_Subset, FS_CardinalityType, LinkingSize
<1>3. operator \in Nat /\ MaxActs \in Nat
  BY DEF LinkInv, Linking!TypeOK, Linking!ConstantsAssumption
<1>4. operator + Linking!Cardinality(T) < MaxActs /\ operator' = operator + 1
  BY DEF Linking!Operate, Linking!Acts
<1> HIDE DEF T
<1>5. QED
  BY <1>2, <1>3, <1>4

\* The rank of a row is that of its text before anything else.
LEMMA ReadyOutranks ==
  ASSUME NEW source, NEW target
  PROVE  /\ source.state = "ready" /\ target.state # "ready"
              => ~Linking!TargetOutranks(source, target)
         /\ target.state = "ready" /\ source.state # "ready"
              => Linking!TargetOutranks(source, target)
<1> DEFINE Filled(r) == IF r.filled THEN 2 ELSE 0
<1> DEFINE Waiting(r) == IF Linking!Queued(r) THEN 1 ELSE 0
<1> DEFINE Ready(r) == IF r.state = "ready" THEN 4 ELSE 0
<1>1. Linking!TargetOutranks(source, target)
      <=> Ready(target) + Filled(target) + Waiting(target)
             > Ready(source) + Filled(source) + Waiting(source)
  BY DEF Linking!TargetOutranks
<1>2. \A r \in {source, target} : Filled(r) \in {0, 2} /\ Waiting(r) \in {0, 1}
  OBVIOUS
<1>3. \A r \in {source, target} : /\ r.state = "ready" => Ready(r) = 4
                                  /\ r.state # "ready" => Ready(r) = 0
  OBVIOUS
<1> HIDE DEF Filled, Waiting, Ready
<1>4. QED
  BY <1>1, <1>2, <1>3

\* The row of two that is kept has the notes of both, the text of either and the work
\* of the one that stayed.
LEMMA MergedRow ==
  ASSUME NEW source \in Linking!Item, NEW target \in Linking!Item,
         ~Linking!Saved(source) => source = Linking!NoItem,
           ~Linking!Saved(target) => target = Linking!NoItem
  PROVE  LET merged == Linking!MergedItem(source, target)
         IN  /\ merged \in Linking!Item
             /\ Linking!Saved(merged) <=> Linking!Saved(source) \/ Linking!Saved(target)
             /\ ~Linking!Saved(merged) => merged = Linking!NoItem
             /\ source.state = "ready" \/ target.state = "ready" => merged.state = "ready"
             /\ source.notes \union target.notes \subseteq merged.notes
             /\ Linking!Running(source) => \/ Linking!Running(merged)
                                           \/ /\ Linking!Saved(source) /\ Linking!Saved(target)
                                              /\ Linking!TargetOutranks(source, target)
<1> DEFINE merged == Linking!MergedItem(source, target)
<1>0. Linking!NoItem.state = "none" /\ Linking!NoItem.notes = {} /\ Linking!NoItem.work = "none"
  BY DEF Linking!NoItem
<1>1. CASE ~Linking!Saved(target)
  <2>1. merged = source
    BY <1>1 DEF Linking!MergedItem
  <2>2. target.state # "ready" /\ target.notes = {}
    BY <1>0, <1>1
  <2>3. QED
    BY <1>1, <2>1, <2>2
<1>2. CASE Linking!Saved(target) /\ ~Linking!Saved(source)
  <2> DEFINE new == [target EXCEPT !.snapshot = FALSE]
  <2>1. merged = new
    BY <1>2 DEF Linking!MergedItem
  <2>2. /\ new \in Linking!Item /\ new.state = target.state /\ new.notes = target.notes
        /\ new.work = target.work
    BY DEF Linking!Item
  <2>3. source.state # "ready" /\ source.notes = {} /\ source.work # "running"
    BY <1>0, <1>2
  <2> HIDE DEF new
  <2>4. QED
    BY <1>2, <2>1, <2>2, <2>3 DEF Linking!Saved, Linking!Running
<1>3. CASE Linking!Saved(target) /\ Linking!Saved(source)
  <2> DEFINE survivor == IF Linking!TargetOutranks(source, target) THEN target ELSE source
  <2> DEFINE snapshot == ~Linking!TargetOutranks(source, target) /\ source.snapshot
  <2> DEFINE new == [survivor EXCEPT !.notes = source.notes \union target.notes,
                                     !.filled = source.filled \/ target.filled,
                                     !.snapshot = snapshot]
  <2>1. merged = new
    BY <1>3 DEF Linking!MergedItem, Linking!Reconciled
  <2>2. survivor \in Linking!Item
    OBVIOUS
  <2>3. snapshot \in BOOLEAN /\ (source.filled \/ target.filled) \in BOOLEAN
    OBVIOUS
  <2>4. source.notes \union target.notes \in SUBSET Identity
    BY DEF Linking!Item
  <2>5. survivor.state # "none" /\ source.state # "none" /\ target.state # "none"
    BY <1>3 DEF Linking!Saved
  <2>6. source.state = "ready" \/ target.state = "ready" => survivor.state = "ready"
    BY ReadyOutranks
  <2>7. Linking!Running(source) => Linking!Running(survivor)
          \/ Linking!TargetOutranks(source, target)
    OBVIOUS
  <2> HIDE DEF survivor, snapshot
  <2>8. /\ new \in Linking!Item /\ new.state = survivor.state /\ new.work = survivor.work
        /\ new.notes = source.notes \union target.notes
    BY <2>2, <2>3, <2>4 DEF Linking!Item
  <2> HIDE DEF new
  <2>9. QED
    BY <1>3, <2>1, <2>5, <2>6, <2>7, <2>8 DEF Linking!Saved, Linking!Running
<1>4. QED
  BY <1>1, <1>2, <1>3

--------------------------------------------------------------------------------
(* Steps of the library *)

\* A saved row of an account that exists may become another.
LEMMA RowStep ==
  ASSUME Linking!ConstantsAssumption, LinkInv, NEW a \in Identity, NEW v \in Linkable,
         NEW new \in Linking!Item, Linking!Saved(new), Linking!Exists(a),
           saved' = [saved EXCEPT ![a][v] = new],
         UNCHANGED <<user, owner, rebound, token, thread, turn, operator>>
  PROVE  LinkInv'
<1>1. /\ saved' \in [Identity -> [Linkable -> Linking!Item]]
      /\ \A b \in Identity, w \in Linkable :
            saved'[b][w] = IF b = a /\ w = v THEN new ELSE saved[b][w]
  <2>1. saved' = [saved EXCEPT ![a] = [saved[a] EXCEPT ![v] = new]]
    BY LinkTyped
  <2> DEFINE shelf == [saved[a] EXCEPT ![v] = new]
  <2>2. /\ shelf \in [Linkable -> Linking!Item]
        /\ \A w \in Linkable : shelf[w] = IF w = v THEN new ELSE saved[a][w]
    BY LinkTyped
  <2> HIDE DEF shelf
  <2>3. QED
    BY <2>1, <2>2, LinkTyped DEF shelf
<1>2. \A b \in Identity, w \in Linkable :
         /\ Linking!Saved(saved'[b][w]) => Linking!Exists(b)
         /\ ~Linking!Saved(saved'[b][w]) => saved'[b][w] = Linking!NoItem
  <2> SUFFICES ASSUME NEW b \in Identity, NEW w \in Linkable
               PROVE  /\ Linking!Saved(saved'[b][w]) => Linking!Exists(b)
                      /\ ~Linking!Saved(saved'[b][w]) => saved'[b][w] = Linking!NoItem
    OBVIOUS
  <2>1. CASE b = a /\ w = v
    BY <1>1, <2>1
  <2>2. CASE ~(b = a /\ w = v)
    BY <1>1, <2>2, LinkTyped
  <2>3. QED
    BY <2>1, <2>2
<1>3. Linking!TypeOK'
  <2>1. \A b \in Identity : Linking!Exists(b)' <=> Linking!Exists(b)
    BY DEF Linking!Exists
  <2>2. \A b \in Identity : owner'[b] # "none" => user'[owner'[b]] \in Present
    BY <2>1, LinkTyped DEF Linking!Exists, Present
  <2>3. \A t \in Linking!Token : token'[t].state = "open" => user'[token'[t].user] \in Present
    BY <2>1, LinkTyped DEF Linking!Exists, Present
  <2>4. \A b \in Identity : \A w \in Linkable : Linking!Saved(saved'[b][w]) => Linking!Exists(b)'
    BY <1>2, <2>1
  <2>5. /\ user' \in [Identity -> {"none", "live", "disabled", "gone"}]
        /\ owner' \in [Identity -> Identity \union {"none"}] /\ rebound' \subseteq Identity
        /\ token' \in [Linking!Token -> Linking!TokenRow]
             /\ thread' \in [Identity -> Linking!Thread]
        /\ turn' \in [Identity -> Linking!Turn] /\ operator' \in 0..MaxActs
    BY DEF LinkInv, Linking!TypeOK
  <2>6. QED
    BY <1>1, <2>2, <2>3, <2>4, <2>5 DEF Linking!TypeOK, Linking!Saved, Linking!Exists, Present
<1>4. UnsavedIsEmpty'
  BY <1>2 DEF UnsavedIsEmpty, Linking!Saved
<1>5. TenantsKnown' /\ Linking!AnswersStayInAccount' /\ Linking!ThreadFollowsIdentity'
  BY DEF LinkInv, TenantsKnown, Linking!AnswersStayInAccount, Linking!ThreadFollowsIdentity
<1>6. QED
  BY <1>3, <1>4, <1>5 DEF LinkInv

LibraryStep(i, v) ==
    Linking!Save(i, v) \/ Linking!Capture(i, v) \/ Linking!Trash(i, v)
      \/ Linking!WorkerClaims(i, v) \/ Linking!WorkerEnds(i, v)

\* What such a step makes of a row: no attempt that runs is stopped but by its worker.
LEMMA RowChange ==
  ASSUME Linking!ConstantsAssumption, LinkInv, NEW i \in Identity, NEW v \in Linkable,
           LibraryStep(i, v)
  PROVE  /\ UNCHANGED <<user, owner, rebound, token, thread, turn, operator>>
         /\ \E a \in Identity, new \in Linking!Item :
               /\ Linking!Saved(new) /\ Linking!Exists(a) /\ saved' = [saved EXCEPT ![a][v] = new]
               /\ Linking!Running(saved[a][v]) => Linking!Running(new) \/ Linking!WorkerEnds(a, v)
<1>0. UNCHANGED <<user, owner, rebound, token, thread, turn, operator>>
  BY DEF LibraryStep, Linking!Save, Linking!Capture, Linking!Trash, Linking!WorkerClaims,
     Linking!WorkerEnds
<1>1. ASSUME NEW r \in Linking!Item, Linking!MayQueue(r), NEW captured \in BOOLEAN
      PROVE  /\ Linking!Queue(r, captured) \in Linking!Item
             /\ Linking!Queue(r, captured).state = "pending"
             /\ ~Linking!Running(r)
  <2>1. r.attempt + 1 \in 0..MaxAttempt
    BY <1>1 DEF Linking!MayQueue, Linking!Item, Linking!ConstantsAssumption
  <2>2. QED
    BY <1>1, <2>1 DEF Linking!MayQueue, Linking!Item, Linking!Queue, Linking!Running
<1>2. CASE Linking!Save(i, v)
  <2> DEFINE a == turn[i].tenant
  <2>1. /\ a \in Identity /\ Linking!Exists(a) /\ Linking!MayQueue(saved[a][v])
    BY <1>2 DEF Linking!Save, LinkInv, TenantsKnown
  <2>2. PICK note \in {saved[a][v].notes,
                       IF Linking!Saved(saved[a][v]) /\ ~saved[a][v].trashed
                       THEN saved[a][v].notes
                       ELSE {i}} :
           saved' = [saved EXCEPT ![a][v] =
                     [Linking!Queue(saved[a][v], FALSE) EXCEPT !.trashed = FALSE, !.notes = note]]
    BY <1>2 DEF Linking!Save
  <2> HIDE DEF a
  <2>3. saved[a][v] \in Linking!Item
    BY <2>1, LinkTyped DEF Linking!Exists, Present
  <2>4. note \in SUBSET Identity
    BY <2>2, <2>3 DEF Linking!Item
  <2> DEFINE queued == Linking!Queue(saved[a][v], FALSE)
  <2> DEFINE new == [queued EXCEPT !.trashed = FALSE, !.notes = note]
  <2>5. queued \in Linking!Item /\ queued.state = "pending" /\ ~Linking!Running(saved[a][v])
    BY <1>1, <2>1, <2>3
  <2> HIDE DEF queued
  <2>6. new \in Linking!Item /\ new.state = "pending"
    BY <2>4, <2>5 DEF Linking!Item
  <2>7. saved' = [saved EXCEPT ![a][v] = new]
    BY <2>2 DEF queued
  <2> HIDE DEF new
  <2>8. QED
    BY <1>0, <2>1, <2>5, <2>6, <2>7 DEF Linking!Saved
<1>3. CASE Linking!Capture(i, v)
  <2> DEFINE queued == Linking!Queue(saved[i][v], TRUE)
  <2> DEFINE new == [queued EXCEPT !.trashed = FALSE, !.snapshot = TRUE, !.filled = TRUE]
  <2>1. /\ Linking!Exists(i) /\ Linking!MayQueue(saved[i][v])
             /\ saved' = [saved EXCEPT ![i][v] = new]
    BY <1>3 DEF Linking!Capture, Linking!Exists
  <2>2. queued \in Linking!Item /\ queued.state = "pending" /\ ~Linking!Running(saved[i][v])
    BY <1>1, <2>1, LinkTyped
  <2> HIDE DEF queued
  <2>3. new \in Linking!Item /\ new.state = "pending"
    BY <2>2 DEF Linking!Item
  <2> HIDE DEF new
  <2>4. QED
    BY <1>0, <2>1, <2>2, <2>3 DEF Linking!Saved
<1>4. CASE Linking!Trash(i, v)
  <2> DEFINE new == [saved[i][v] EXCEPT !.trashed = TRUE]
  <2>1. Linking!Exists(i) /\ Linking!Saved(saved[i][v]) /\ saved' = [saved EXCEPT ![i][v] = new]
    BY <1>4 DEF Linking!Trash
  <2>2. saved[i][v] \in Linking!Item
    BY LinkTyped
  <2>3. new \in Linking!Item /\ new.state = saved[i][v].state /\ new.work = saved[i][v].work
    BY <2>2 DEF Linking!Item
  <2> HIDE DEF new
  <2>4. QED
    BY <1>0, <2>1, <2>3 DEF Linking!Saved, Linking!Running
<1>5. CASE Linking!WorkerClaims(i, v)
  <2> DEFINE new == [saved[i][v] EXCEPT !.work = "running"]
  <2>1. Linking!Queued(saved[i][v]) /\ saved' = [saved EXCEPT ![i][v] = new]
    BY <1>5 DEF Linking!WorkerClaims
  <2>2. saved[i][v] \in Linking!Item /\ Linking!Saved(saved[i][v]) /\ Linking!Exists(i)
    BY <2>1, LinkTyped DEF Linking!Queued, Linking!NoItem
  <2>3. new \in Linking!Item /\ new.state = saved[i][v].state /\ new.work = "running"
    BY <2>2 DEF Linking!Item
  <2> HIDE DEF new
  <2>4. QED
    BY <1>0, <2>1, <2>2, <2>3 DEF Linking!Saved, Linking!Running
<1>6. CASE Linking!WorkerEnds(i, v)
  <2> DEFINE r == saved[i][v]
  <2>1. Linking!Running(r)
    BY <1>6 DEF Linking!WorkerEnds
  <2>2. r \in Linking!Item /\ Linking!Exists(i)
    BY <2>1, LinkTyped DEF Linking!Running, Linking!NoItem
  <2>3. \E new \in Linking!Item : Linking!Saved(new) /\ saved' = [saved EXCEPT ![i][v] = new]
    <3> DEFINE state == IF r.trashed THEN "failed" ELSE "ready"
    <3> DEFINE filled == r.filled \/ ~r.trashed
    <3> DEFINE from == IF r.trashed THEN "none"
                       ELSE IF r.snapshot THEN "snapshot" ELSE "connector"
    <3> DEFINE done == [r EXCEPT !.work = "none", !.state = state, !.filled = filled,
                                 !.from = from]
    <3> DEFINE failed(f) == [r EXCEPT !.work = "none", !.state = "failed", !.filled = f]
    <3>1. \/ saved' = [saved EXCEPT ![i][v] = done]
          \/ \E f \in {r.filled, TRUE} : saved' = [saved EXCEPT ![i][v] = failed(f)]
      BY <1>6 DEF Linking!WorkerEnds
    <3>2. /\ state \in {"failed", "ready"} /\ filled \in BOOLEAN
          /\ from \in {"none", "snapshot", "connector"}
      OBVIOUS
    <3> HIDE DEF r, state, filled, from
    <3>3. done \in Linking!Item /\ done.state # "none"
      BY <2>2, <3>2 DEF Linking!Item
    <3>4. \A f \in {r.filled, TRUE} : failed(f) \in Linking!Item /\ failed(f).state # "none"
      BY <2>2 DEF Linking!Item
    <3> HIDE DEF done, failed
    <3>5. QED
      BY <3>1, <3>3, <3>4 DEF Linking!Saved
  <2>4. QED
    BY <1>0, <1>6, <2>2, <2>3
<1>7. QED
  BY <1>2, <1>3, <1>4, <1>5, <1>6 DEF LibraryStep

--------------------------------------------------------------------------------
(* Steps of accounts, turns and tokens *)

\* Steps that leave the rows alone, and no account but one that has nothing without.
LEMMA AccountStep ==
  ASSUME Linking!ConstantsAssumption, LinkInv, UNCHANGED saved,
         user' \in [Identity -> {"none", "live", "disabled", "gone"}],
         owner' \in [Identity -> Identity \union {"none"}], rebound' \subseteq Identity,
         token' \in [Linking!Token -> Linking!TokenRow], thread' \in [Identity -> Linking!Thread],
         turn' \in [Identity -> Linking!Turn], operator' \in 0..MaxActs,
         \A a \in Identity : Linking!Exists(a) => Linking!Exists(a)',
         \A i \in Identity : owner'[i] # "none" => user'[owner'[i]] \in Present,
         \A t \in Linking!Token : token'[t].state = "open"
                            => token'[t].user \in Identity /\ user'[token'[t].user] \in Present,
         \A i \in Identity : turn'[i].pc = "agent" => turn'[i].tenant \in Identity,
         Linking!AnswersStayInAccount', Linking!ThreadFollowsIdentity'
  PROVE  LinkInv'
<1>1. saved' \in [Identity -> [Linkable -> Linking!Item]]
  BY LinkTyped
<1>2. \A i \in Identity : \A v \in Linkable : Linking!Saved(saved'[i][v]) => Linking!Exists(i)'
  BY LinkTyped
<1>3. UnsavedIsEmpty'
  BY DEF LinkInv, UnsavedIsEmpty, Linking!Saved
<1>4. TenantsKnown'
  BY DEF TenantsKnown
<1>5. Linking!TypeOK'
  BY <1>1, <1>2 DEF Linking!TypeOK, Linking!Saved, Linking!Exists, Present
<1>6. QED
  BY <1>3, <1>4, <1>5 DEF LinkInv

\* Those that leave the owners alone too.
LEMMA OwnersStay ==
  ASSUME Linking!ConstantsAssumption, LinkInv, UNCHANGED <<user, owner>>
  PROVE  /\ \A a \in Identity : Linking!Exists(a)' <=> Linking!Exists(a)
         /\ \A i \in Identity : owner'[i] # "none" => user'[owner'[i]] \in Present
<1>1. \A a \in Identity : Linking!Exists(a)' <=> Linking!Exists(a)
  BY DEF Linking!Exists
<1>2. QED
  BY <1>1, LinkTyped DEF Linking!Exists, Present

\* An identity's first message.
LEMMA RegisterKeeps ==
  ASSUME Linking!ConstantsAssumption, LinkInv, NEW i \in Identity, Linking!Register(i)
  PROVE  LinkInv'
<1>1. /\ owner[i] = "none" /\ user[i] = "none"
      /\ user' = [user EXCEPT ![i] = "live"] /\ owner' = [owner EXCEPT ![i] = i]
      /\ UNCHANGED <<rebound, saved, token, thread, turn, operator>>
  BY DEF Linking!Register
<1>2. /\ user' \in [Identity -> {"none", "live", "disabled", "gone"}]
      /\ owner' \in [Identity -> Identity \union {"none"}]
      /\ user'[i] = "live" /\ \A a \in Identity : a # i => user'[a] = user[a]
      /\ owner'[i] = i /\ \A j \in Identity : j # i => owner'[j] = owner[j]
  BY <1>1, LinkTyped
<1>3. \A a \in Identity : Linking!Exists(a) => Linking!Exists(a)'
  BY <1>2 DEF Linking!Exists
<1>4. \A j \in Identity : owner'[j] # "none" => user'[owner'[j]] \in Present
  BY <1>2, <1>3, LinkTyped DEF Linking!Exists, Present
<1>5. \A t \in Linking!Token : token'[t].state = "open"
                         => token'[t].user \in Identity /\ user'[token'[t].user] \in Present
  BY <1>1, <1>3, LinkTyped DEF Linking!Exists, Present
<1>6. Linking!AnswersStayInAccount'
  BY <1>1 DEF LinkInv, Linking!AnswersStayInAccount
<1>7. Linking!ThreadFollowsIdentity'
  <2> SUFFICES ASSUME NEW j \in Identity, j \notin rebound, thread[j].user # "none"
               PROVE  thread[j].user = owner'[j]
    BY <1>1 DEF Linking!ThreadFollowsIdentity
  <2>1. thread[j].user = owner[j]
    BY DEF LinkInv, Linking!ThreadFollowsIdentity
  <2>2. QED
    BY <1>1, <1>2, <2>1
<1>8. QED
  BY <1>1, <1>2, <1>3, <1>4, <1>5, <1>6, <1>7, AccountStep DEF LinkInv, Linking!TypeOK,
     TenantsKnown

\* A turn begins or ends, or its thread is closed.
LEMMA TurnKeeps ==
  ASSUME Linking!ConstantsAssumption, LinkInv, NEW i \in Identity,
         Linking!TurnBegins(i) \/ Linking!TurnEnds(i) \/ Linking!ResetThread(i)
  PROVE  LinkInv'
<1>1. UNCHANGED <<user, owner, rebound, saved, token, operator>>
  BY DEF Linking!TurnBegins, Linking!TurnEnds, Linking!ResetThread
<1>2. PICK opened \in Linking!Thread :
         /\ thread' = [thread EXCEPT ![i] = opened]
         /\ opened.answers \subseteq {opened.user}
         /\ \/ opened.user = thread[i].user
            \/ opened.user = owner[i]
  <2>1. \/ thread' = thread
        \/ /\ Linking!MayRecord(i) /\ turn[i].pc = "agent"
           /\ thread' = [thread EXCEPT ![i].answers = @ \union {turn[i].tenant}]
        \/ Linking!Enabled(i) /\ thread' = [thread EXCEPT ![i] = [user |-> owner[i],
             answers |-> {}]]
    BY DEF Linking!TurnBegins, Linking!OpenThread, Linking!TurnEnds, Linking!ResetThread, LinkInv,
       Linking!TypeOK
  <2>2. CASE thread' = thread
    <3>1. thread[i] \in Linking!Thread /\ thread' = [thread EXCEPT ![i] = thread[i]]
      BY <2>2, LinkTyped
    <3>2. QED
      BY <3>1 DEF LinkInv, Linking!AnswersStayInAccount
  <2>3. CASE /\ Linking!MayRecord(i) /\ turn[i].pc = "agent"
             /\ thread' = [thread EXCEPT ![i].answers = @ \union {turn[i].tenant}]
    <3> DEFINE opened == [thread[i] EXCEPT !.answers = thread[i].answers \union {turn[i].tenant}]
    <3>1. thread[i] \in Linking!Thread /\ turn[i].tenant \in Identity
            /\ thread[i].user = turn[i].tenant
      BY <2>3, LinkTyped DEF Linking!MayRecord, LinkInv, TenantsKnown
    <3>2. thread[i].answers \subseteq {thread[i].user}
      BY DEF LinkInv, Linking!AnswersStayInAccount
    <3>3. /\ opened \in Linking!Thread /\ opened.user = thread[i].user
          /\ opened.answers = thread[i].answers \union {turn[i].tenant}
      BY <3>1 DEF Linking!Thread
    <3>4. thread' = [thread EXCEPT ![i] = opened]
      BY <2>3, LinkTyped
    <3> HIDE DEF opened
    <3>5. opened.answers \subseteq {opened.user}
      BY <3>1, <3>2, <3>3
    <3>6. QED
      BY <3>3, <3>4, <3>5
  <2>4. CASE Linking!Enabled(i) /\ thread' = [thread EXCEPT ![i] = [user |-> owner[i],
          answers |-> {}]]
    <3>1. [user |-> owner[i], answers |-> {}] \in Linking!Thread
      BY LinkTyped DEF Linking!Thread
    <3>2. QED
      BY <2>4, <3>1
  <2>5. QED
    BY <2>1, <2>2, <2>3, <2>4
<1>3. thread' \in [Identity -> Linking!Thread] /\ thread'[i] = opened
      /\ \A j \in Identity : j # i => thread'[j] = thread[j]
  BY <1>2, LinkTyped
<1>4. /\ turn' \in [Identity -> Linking!Turn]
      /\ \A j \in Identity : turn'[j].pc = "agent" => turn'[j].tenant \in Identity
  <2>1. PICK new \in Linking!Turn : /\ turn' = [turn EXCEPT ![i] = new]
                                    /\ new.pc = "agent" => new.tenant \in Identity
    <3>1. CASE Linking!TurnBegins(i)
      <4>1. owner[i] \in Identity
        BY <3>1, LinkTyped DEF Linking!TurnBegins, Linking!Enabled
      <4>2. [pc |-> "agent", tenant |-> owner[i]] \in Linking!Turn
        BY <4>1 DEF Linking!Turn
      <4>3. QED
        BY <3>1, <4>1, <4>2 DEF Linking!TurnBegins
    <3>2. CASE Linking!TurnEnds(i)
      <4>1. [pc |-> "idle", tenant |-> "none"] \in Linking!Turn
        BY DEF Linking!Turn
      <4>2. QED
        BY <3>2, <4>1 DEF Linking!TurnEnds
    <3>3. CASE Linking!ResetThread(i)
      <4>1. turn[i] \in Linking!Turn /\ turn' = [turn EXCEPT ![i] = turn[i]]
              /\ turn[i].pc = "idle"
        BY <3>3, LinkTyped DEF Linking!ResetThread
      <4>2. QED
        BY <4>1
    <3>4. QED
      BY <3>1, <3>2, <3>3
  <2>2. \A j \in Identity : turn[j].pc = "agent" => turn[j].tenant \in Identity
    BY DEF LinkInv, TenantsKnown
  <2>3. QED
    BY <2>1, <2>2, LinkTyped
<1>5. Linking!AnswersStayInAccount'
  BY <1>2, <1>3 DEF LinkInv, Linking!AnswersStayInAccount
<1>6. Linking!ThreadFollowsIdentity'
  <2> SUFFICES ASSUME NEW j \in Identity, j \notin rebound, thread'[j].user # "none"
               PROVE  thread'[j].user = owner[j]
    BY <1>1 DEF Linking!ThreadFollowsIdentity
  <2>1. CASE j = i
    BY <1>2, <1>3, <2>1 DEF LinkInv, Linking!ThreadFollowsIdentity
  <2>2. CASE j # i
    BY <1>3, <2>2 DEF LinkInv, Linking!ThreadFollowsIdentity
  <2>3. QED
    BY <2>1, <2>2
<1>7. \A t \in Linking!Token : token'[t].state = "open"
                         => token'[t].user \in Identity /\ user'[token'[t].user] \in Present
  BY <1>1, LinkTyped DEF Linking!Exists, Present
<1>8. QED
  BY <1>1, <1>3, <1>4, <1>5, <1>6, <1>7, OwnersStay, AccountStep DEF LinkInv, Linking!TypeOK

\* A token is made, expires or is presented by its own account.
LEMMA TokenKeeps ==
  ASSUME Linking!ConstantsAssumption, LinkInv, NEW t \in Linking!Token,
         \/ \E i \in Identity, target \in Channel : Linking!CreateLinkToken(i, t, target)
         \/ Linking!TokenExpires(t)
         \/ \E i \in Identity : Linking!LinkOwn(t, i)
  PROVE  LinkInv'
<1>1. UNCHANGED <<user, owner, rebound, saved, thread, turn, operator>>
  BY DEF Linking!CreateLinkToken, Linking!TokenExpires, Linking!LinkOwn
<1>2. PICK new \in Linking!TokenRow :
         /\ token' = [token EXCEPT ![t] = new]
         /\ new.state = "open" => new.user \in Identity /\ Linking!Exists(new.user)
  <2>1. CASE \E i \in Identity, target \in Channel : Linking!CreateLinkToken(i, t, target)
    <3>1. PICK i \in Identity, target \in Channel : Linking!CreateLinkToken(i, t, target)
      BY <2>1
    <3> DEFINE new == [state |-> "open", user |-> owner[i], target |-> target]
    <3>2. owner[i] \in Identity /\ Linking!Exists(owner[i]) /\ token' = [token EXCEPT ![t] = new]
      BY <3>1, LinkTyped DEF Linking!CreateLinkToken, Linking!Enabled
    <3>3. new \in Linking!TokenRow
      BY <3>2 DEF Linking!TokenRow
    <3>4. QED
      BY <3>2, <3>3
  <2>2. CASE Linking!TokenExpires(t) \/ \E i \in Identity : Linking!LinkOwn(t, i)
    <3>1. PICK state \in {"expired", "consumed"} :
             token' = [token EXCEPT ![t] = [token[t] EXCEPT !.state = state]]
      BY <2>2, LinkTyped DEF Linking!TokenExpires, Linking!LinkOwn, Linking!Consumed
    <3> DEFINE new == [token[t] EXCEPT !.state = state]
    <3>2. new \in Linking!TokenRow /\ new.state = state
      BY LinkTyped DEF Linking!TokenRow
    <3> HIDE DEF new
    <3>3. QED
      BY <3>1, <3>2 DEF new
  <2>3. QED
    BY <2>1, <2>2
<1>3. /\ token' \in [Linking!Token -> Linking!TokenRow]
      /\ \A s \in Linking!Token : token'[s].state = "open"
                            => token'[s].user \in Identity /\ user'[token'[s].user] \in Present
  BY <1>1, <1>2, LinkTyped DEF Linking!Exists, Present
<1>4. Linking!AnswersStayInAccount' /\ Linking!ThreadFollowsIdentity'
  BY <1>1 DEF LinkInv, Linking!AnswersStayInAccount, Linking!ThreadFollowsIdentity
<1>5. QED
  BY <1>1, <1>3, <1>4, OwnersStay, AccountStep DEF LinkInv, Linking!TypeOK, TenantsKnown

\* The operator disables an account or enables it again.
LEMMA DisableKeeps ==
  ASSUME Linking!ConstantsAssumption, LinkInv, NEW a \in Identity, Linking!SetDisabled(a)
  PROVE  LinkInv' /\ user'[a] # "gone" /\ \A b \in Identity : b # a => user'[b] = user[b]
<1>1. UNCHANGED <<owner, rebound, saved, token, thread, turn>>
      /\ user' = [user EXCEPT ![a] = IF user[a] = "live" THEN "disabled" ELSE "live"]
  BY DEF Linking!SetDisabled
<1>2. /\ user' \in [Identity -> {"none", "live", "disabled", "gone"}]
      /\ user'[a] \in Present /\ \A b \in Identity : b # a => user'[b] = user[b]
  BY <1>1, LinkTyped DEF Present
<1>3. \A b \in Identity : Linking!Exists(b) => Linking!Exists(b)'
  BY <1>2 DEF Linking!Exists, Present
<1>4. \A i \in Identity : owner'[i] # "none" => user'[owner'[i]] \in Present
  BY <1>1, <1>2, LinkTyped DEF Linking!Exists, Present
<1>5. \A t \in Linking!Token : token'[t].state = "open"
                         => token'[t].user \in Identity /\ user'[token'[t].user] \in Present
  BY <1>1, <1>2, LinkTyped DEF Linking!Exists, Present
<1>6. operator' \in 0..MaxActs
  BY Operating DEF Linking!SetDisabled
<1>7. Linking!AnswersStayInAccount' /\ Linking!ThreadFollowsIdentity'
  BY <1>1 DEF LinkInv, Linking!AnswersStayInAccount, Linking!ThreadFollowsIdentity
<1>8. user'[a] # "gone"
  BY <1>2 DEF Present
<1>9. QED
  BY <1>1, <1>2, <1>3, <1>4, <1>5, <1>6, <1>7, <1>8, AccountStep
     DEF LinkInv, Linking!TypeOK, TenantsKnown

\* The operator binds an identity to another account.
LEMMA RebindKeeps ==
  ASSUME Linking!ConstantsAssumption, LinkInv, NEW i \in Identity, NEW a \in Identity,
         Linking!RebindIdentity(i, a)
  PROVE  LinkInv'
<1>1. /\ UNCHANGED <<user, saved, token, thread, turn>> /\ Linking!Exists(a)
      /\ owner' = [owner EXCEPT ![i] = a] /\ rebound' = rebound \union {i}
  BY DEF Linking!RebindIdentity
<1>2. /\ owner' \in [Identity -> Identity \union {"none"}]
      /\ \A j \in Identity : owner'[j] = IF j = i THEN a ELSE owner[j]
  BY <1>1, LinkTyped
<1>3. \A b \in Identity : Linking!Exists(b) => Linking!Exists(b)'
  BY <1>1 DEF Linking!Exists
<1>4. \A j \in Identity : owner'[j] # "none" => user'[owner'[j]] \in Present
  BY <1>1, <1>2, LinkTyped DEF Linking!Exists, Present
<1>5. \A t \in Linking!Token : token'[t].state = "open"
                         => token'[t].user \in Identity /\ user'[token'[t].user] \in Present
  BY <1>1, LinkTyped DEF Linking!Exists, Present
<1>6. operator' \in 0..MaxActs
  BY Operating DEF Linking!RebindIdentity
<1>7. Linking!AnswersStayInAccount'
  BY <1>1 DEF LinkInv, Linking!AnswersStayInAccount
<1>8. Linking!ThreadFollowsIdentity'
  BY <1>1, <1>2 DEF LinkInv, Linking!ThreadFollowsIdentity
<1>9. QED
  BY <1>1, <1>2, <1>3, <1>4, <1>5, <1>6, <1>7, <1>8, AccountStep
     DEF LinkInv, Linking!TypeOK, TenantsKnown

--------------------------------------------------------------------------------
(* A link *)

\* A link into account a of an identity that was never seen.
FirstSeen(i, a) ==
    /\ owner[i] = "none" /\ user[i] = "none"
    /\ owner' = [owner EXCEPT ![i] = a]
    /\ user' = [user EXCEPT ![i] = "gone"]
    /\ UNCHANGED <<saved, thread>>

\* What links account b to account a, by which token.
Links(t, a, b) ==
    /\ a # b /\ token[t].state = "open" /\ token[t].user = a /\ user[a] = "live"
    /\ ~Linking!Busy(a, b)
    /\ token' = Linking!TokensAfter(t, a, b)
    /\ UNCHANGED <<rebound, turn, operator>>

\* The two ways of a link.
LEMMA LinkCases ==
  ASSUME Linking!ConstantsAssumption, LinkInv, NEW t \in Linking!Token, NEW i \in Identity,
           Linking!Link(t, i)
  PROVE  \E a, b \in Identity :
             /\ Links(t, a, b)
             /\ \/ b = i /\ FirstSeen(i, a)
                \/ user[b] = "live" /\ Linking!Absorb(a, b)
<1> DEFINE a == token[t].user
<1> DEFINE b == IF owner[i] = "none" THEN i ELSE owner[i]
<1>1. token[t].state = "open" /\ a \in Identity /\ b \in Identity
  BY LinkTyped DEF Linking!Link, Linking!Presentable
<1>2. CASE owner[i] = "none"
  <2>1. b = i
    BY <1>2
  <2>2. Links(t, a, b)
    BY <1>1, <1>2 DEF Linking!Link, Links
  <2>3. FirstSeen(i, a)
    BY <1>2 DEF Linking!Link, FirstSeen
  <2> HIDE DEF a, b
  <2>4. QED
    BY <1>1, <2>1, <2>2, <2>3
<1>3. CASE owner[i] # "none"
  <2>1. Links(t, a, b)
    BY <1>1, <1>3 DEF Linking!Link, Links, Linking!Both
  <2>2. user[b] = "live" /\ Linking!Absorb(a, b)
    BY <1>3 DEF Linking!Link, Linking!Both
  <2> HIDE DEF a, b
  <2>3. QED
    BY <1>1, <2>1, <2>2
<1>4. QED
  BY <1>2, <1>3

\* The tokens after a link are of accounts that stay.
LEMMA TokensLinked ==
  ASSUME Linking!ConstantsAssumption, LinkInv, NEW t \in Linking!Token, NEW a \in Identity,
           NEW b \in Identity,
         Links(t, a, b), user'[a] \in Present,
         \A c \in Identity : c # b /\ user[c] \in Present => user'[c] \in Present
  PROVE  /\ token' \in [Linking!Token -> Linking!TokenRow] /\ token'[t].state = "consumed"
         /\ \A s \in Linking!Token : token'[s].state = "open"
                               => token'[s].user \in Identity /\ user'[token'[s].user] \in Present
<1>1. token' = [s \in Linking!Token |-> [Linking!Consumed(t)[s] EXCEPT !.user = IF @ = b THEN a
        ELSE @]]
  BY DEF Links, Linking!TokensAfter
<1>2. /\ \A s \in Linking!Token : Linking!Consumed(t)[s] \in Linking!TokenRow
           /\ Linking!Consumed(t)[s].user = token[s].user
      /\ Linking!Consumed(t)[t].state = "consumed"
      /\ \A s \in Linking!Token : s # t => Linking!Consumed(t)[s] = token[s]
  <2> DEFINE new == [token[t] EXCEPT !.state = "consumed"]
  <2>0. token[t] \in Linking!TokenRow
    BY LinkTyped
  <2>1. new \in Linking!TokenRow /\ new.user = token[t].user /\ new.state = "consumed"
    BY <2>0 DEF Linking!TokenRow
  <2>2. Linking!Consumed(t) = [token EXCEPT ![t] = new]
    BY LinkTyped DEF Linking!Consumed
  <2> HIDE DEF new
  <2>3. QED
    BY <2>1, <2>2, LinkTyped
<1>3. ASSUME NEW s \in Linking!Token
      PROVE  /\ token'[s] \in Linking!TokenRow /\ token'[s].state = Linking!Consumed(t)[s].state
             /\ token'[s].user = IF token[s].user = b THEN a ELSE token[s].user
  <2> DEFINE to == IF token[s].user = b THEN a ELSE token[s].user
  <2>1. token'[s] = [Linking!Consumed(t)[s] EXCEPT !.user = to]
    BY <1>1, <1>2
  <2>2. to \in Identity \union {"none"}
    BY LinkTyped DEF Linking!TokenRow
  <2> HIDE DEF to
  <2>3. [Linking!Consumed(t)[s] EXCEPT !.user = to] \in Linking!TokenRow
    BY <1>2, <2>2 DEF Linking!TokenRow
  <2>4. /\ [Linking!Consumed(t)[s] EXCEPT !.user = to].state = Linking!Consumed(t)[s].state
        /\ [Linking!Consumed(t)[s] EXCEPT !.user = to].user = to
    BY <1>2 DEF Linking!TokenRow
  <2>5. QED
    BY <2>1, <2>3, <2>4 DEF to
<1>4. token' \in [Linking!Token -> Linking!TokenRow]
  BY <1>1, <1>3
<1>5. ASSUME NEW s \in Linking!Token, token'[s].state = "open"
      PROVE  token'[s].user \in Identity /\ user'[token'[s].user] \in Present
  <2>1. s # t /\ token[s].state = "open"
    BY <1>2, <1>3, <1>5
  <2>2. token[s].user \in Identity /\ user[token[s].user] \in Present
    BY <2>1, LinkTyped DEF Linking!Exists, Present
  <2>3. QED
    BY <1>3, <2>2
<1>6. QED
  BY <1>2, <1>3, <1>4, <1>5

\* An identity that was never seen gets the account of the token.
LEMMA FirstSeenKeeps ==
  ASSUME Linking!ConstantsAssumption, LinkInv, NEW t \in Linking!Token, NEW a \in Identity,
         NEW i \in Identity, Links(t, a, i), FirstSeen(i, a)
  PROVE  LinkInv'
<1>1. /\ owner[i] = "none" /\ user[i] = "none" /\ a # i /\ user[a] = "live"
      /\ owner' = [owner EXCEPT ![i] = a] /\ user' = [user EXCEPT ![i] = "gone"]
      /\ UNCHANGED <<saved, thread, rebound, turn, operator>>
  BY DEF Links, FirstSeen
<1>2. /\ owner' \in [Identity -> Identity \union {"none"}]
      /\ user' \in [Identity -> {"none", "live", "disabled", "gone"}]
      /\ \A j \in Identity : owner'[j] = IF j = i THEN a ELSE owner[j]
      /\ \A b \in Identity : b # i => user'[b] = user[b]
  BY <1>1, LinkTyped
<1>3. ~Linking!Exists(i)
  BY <1>1 DEF Linking!Exists
<1>4. \A b \in Identity : Linking!Exists(b) => Linking!Exists(b)'
  BY <1>2, <1>3 DEF Linking!Exists
<1>5. \A j \in Identity : owner'[j] # "none" => user'[owner'[j]] \in Present
  <2> SUFFICES ASSUME NEW j \in Identity, owner'[j] # "none"
               PROVE  user'[owner'[j]] \in Present
    OBVIOUS
  <2>1. CASE j = i
    BY <1>1, <1>2, <2>1 DEF Present
  <2>2. CASE j # i
    <3>1. owner[j] \in Identity /\ Linking!Exists(owner[j]) /\ owner'[j] = owner[j]
      BY <1>2, <2>2, LinkTyped
    <3>2. QED
      BY <1>2, <1>3, <3>1 DEF Linking!Exists, Present
  <2>3. QED
    BY <2>1, <2>2
<1>6. /\ token' \in [Linking!Token -> Linking!TokenRow]
      /\ \A s \in Linking!Token : token'[s].state = "open"
                            => token'[s].user \in Identity /\ user'[token'[s].user] \in Present
  <2>1. user'[a] \in Present
    BY <1>1, <1>2 DEF Present
  <2>2. QED
    BY <1>2, <2>1, TokensLinked
<1>7. Linking!AnswersStayInAccount'
  BY <1>1 DEF LinkInv, Linking!AnswersStayInAccount
<1>8. Linking!ThreadFollowsIdentity'
  BY <1>1, <1>2 DEF LinkInv, Linking!ThreadFollowsIdentity
<1>9. QED
  BY <1>1, <1>2, <1>4, <1>5, <1>6, <1>7, <1>8, AccountStep DEF LinkInv, Linking!TypeOK,
     TenantsKnown

\* What absorbing account b makes of the rows.
LEMMA Absorbed ==
  ASSUME Linking!ConstantsAssumption, LinkInv, NEW a \in Identity, NEW b \in Identity, a # b,
         Linking!Absorb(a, b)
  PROVE  /\ saved' \in [Identity -> [Linkable -> Linking!Item]]
         /\ \A v \in Linkable : saved'[a][v] = Linking!MergedItem(saved[a][v], saved[b][v])
         /\ \A v \in Linkable : saved'[b][v] = Linking!NoItem
         /\ \A c \in Identity : c # a /\ c # b => saved'[c] = saved[c]
         /\ user' \in [Identity -> {"none", "live", "disabled", "gone"}]
         /\ user'[b] = "gone" /\ \A c \in Identity : c # b => user'[c] = user[c]
         /\ owner' \in [Identity -> Identity \union {"none"}]
         /\ \A j \in Identity : owner'[j] = IF owner[j] = b THEN a ELSE owner[j]
<1> DEFINE shelf == [v \in Linkable |-> Linking!MergedItem(saved[a][v], saved[b][v])]
<1> DEFINE empty == [v \in Linkable |-> Linking!NoItem]
<1>1. saved' = [saved EXCEPT ![a] = shelf, ![b] = empty]
  BY DEF Linking!Absorb
<1>2. shelf \in [Linkable -> Linking!Item]
  <2>1. \A v \in Linkable : Linking!MergedItem(saved[a][v], saved[b][v]) \in Linking!Item
    BY LinkTyped, MergedRow
  <2>2. QED
    BY <2>1
<1>3. empty \in [Linkable -> Linking!Item]
  BY DEF Linking!NoItem, Linking!Item, Linking!ConstantsAssumption
<1>4. /\ \A v \in Linkable : shelf[v] = Linking!MergedItem(saved[a][v], saved[b][v])
      /\ \A v \in Linkable : empty[v] = Linking!NoItem
  OBVIOUS
<1> HIDE DEF shelf, empty
<1>5. /\ saved' \in [Identity -> [Linkable -> Linking!Item]] /\ saved'[a] = shelf
           /\ saved'[b] = empty
      /\ \A c \in Identity : c # a /\ c # b => saved'[c] = saved[c]
  BY <1>1, <1>2, <1>3, LinkTyped
<1>6. /\ user' \in [Identity -> {"none", "live", "disabled", "gone"}]
      /\ user'[b] = "gone" /\ \A c \in Identity : c # b => user'[c] = user[c]
  BY LinkTyped DEF Linking!Absorb
<1>7. owner' = [j \in Identity |-> IF owner[j] = b THEN a ELSE owner[j]]
  BY DEF Linking!Absorb
<1>8. /\ owner' \in [Identity -> Identity \union {"none"}]
      /\ \A j \in Identity : owner'[j] = IF owner[j] = b THEN a ELSE owner[j]
  BY <1>7, LinkTyped
<1>9. QED
  BY <1>4, <1>5, <1>6, <1>8

\* One account goes into another.
LEMMA AbsorbKeeps ==
  ASSUME Linking!ConstantsAssumption, LinkInv, NEW t \in Linking!Token, NEW a \in Identity,
           NEW b \in Identity,
         Links(t, a, b), user[b] = "live", Linking!Absorb(a, b)
  PROVE  LinkInv'
<1>1. a # b /\ user[a] = "live" /\ UNCHANGED <<rebound, turn, operator>>
  BY DEF Links
<1>2. /\ saved' \in [Identity -> [Linkable -> Linking!Item]]
      /\ \A v \in Linkable : saved'[a][v] = Linking!MergedItem(saved[a][v], saved[b][v])
      /\ \A v \in Linkable : saved'[b][v] = Linking!NoItem
      /\ \A c \in Identity : c # a /\ c # b => saved'[c] = saved[c]
      /\ user' \in [Identity -> {"none", "live", "disabled", "gone"}]
      /\ user'[b] = "gone" /\ \A c \in Identity : c # b => user'[c] = user[c]
      /\ owner' \in [Identity -> Identity \union {"none"}]
      /\ \A j \in Identity : owner'[j] = IF owner[j] = b THEN a ELSE owner[j]
  BY <1>1, Absorbed
<1>3. \A c \in Identity, v \in Linkable :
         /\ Linking!Saved(saved'[c][v]) => user'[c] \in Present
         /\ ~Linking!Saved(saved'[c][v]) => saved'[c][v] = Linking!NoItem
  <2> SUFFICES ASSUME NEW c \in Identity, NEW v \in Linkable
               PROVE  /\ Linking!Saved(saved'[c][v]) => user'[c] \in Present
                      /\ ~Linking!Saved(saved'[c][v]) => saved'[c][v] = Linking!NoItem
    OBVIOUS
  <2>1. CASE c = a
    <3>1. ~Linking!Saved(saved'[a][v]) => saved'[a][v] = Linking!NoItem
      BY <1>2, LinkTyped, MergedRow
    <3>2. QED
      BY <1>1, <1>2, <2>1, <3>1 DEF Present
  <2>2. CASE c = b
    BY <1>2, <2>2 DEF Linking!Saved, Linking!NoItem
  <2>3. CASE c # a /\ c # b
    BY <1>2, <2>3, LinkTyped DEF Linking!Exists, Present
  <2>4. QED
    BY <2>1, <2>2, <2>3
<1>4. /\ token' \in [Linking!Token -> Linking!TokenRow]
      /\ \A s \in Linking!Token : token'[s].state = "open"
                            => token'[s].user \in Identity /\ user'[token'[s].user] \in Present
  <2>1. user'[a] \in Present
    BY <1>1, <1>2 DEF Present
  <2>2. QED
    BY <1>2, <2>1, TokensLinked
<1>5. \A j \in Identity : owner'[j] # "none" => user'[owner'[j]] \in Present
  <2> SUFFICES ASSUME NEW j \in Identity, owner'[j] # "none"
               PROVE  user'[owner'[j]] \in Present
    OBVIOUS
  <2>1. CASE owner[j] = b
    BY <1>1, <1>2, <2>1 DEF Present
  <2>2. CASE owner[j] # b
    <3>1. owner[j] \in Identity /\ Linking!Exists(owner[j]) /\ owner'[j] = owner[j]
      BY <1>2, <2>2, LinkTyped
    <3>2. QED
      BY <1>2, <2>2, <3>1 DEF Linking!Exists, Present
  <2>3. QED
    BY <2>1, <2>2
<1>6. \A j \in Identity :
         /\ thread'[j] \in Linking!Thread
         /\ thread[j].user # b => thread'[j] = thread[j]
         /\ thread[j].user = b =>
                /\ thread'[j].user = a
                /\ thread'[j].answers = {IF x = b THEN a ELSE x : x \in thread[j].answers}
  <2> SUFFICES ASSUME NEW j \in Identity
               PROVE  /\ thread'[j] \in Linking!Thread
                      /\ thread[j].user # b => thread'[j] = thread[j]
                      /\ thread[j].user = b =>
                            /\ thread'[j].user = a
                            /\ thread'[j].answers =
                                  {IF x = b THEN a ELSE x : x \in thread[j].answers}
    OBVIOUS
  <2> DEFINE answers == {IF x = b THEN a ELSE x : x \in thread[j].answers}
  <2>1. thread'[j] = IF thread[j].user = b THEN [user |-> a, answers |-> answers]
                     ELSE thread[j]
    BY DEF Linking!Absorb
  <2>2. answers \subseteq Identity /\ thread[j] \in Linking!Thread
    BY LinkTyped DEF Linking!Thread
  <2> HIDE DEF answers
  <2>3. [user |-> a, answers |-> answers] \in Linking!Thread
    BY <2>2 DEF Linking!Thread
  <2>4. /\ thread'[j] \in Linking!Thread
        /\ thread[j].user # b => thread'[j] = thread[j]
        /\ thread[j].user = b => thread'[j].user = a /\ thread'[j].answers = answers
    BY <2>1, <2>2, <2>3
  <2>5. QED
    BY <2>4 DEF answers
<1>7. thread' \in [Identity -> Linking!Thread]
  <2>1. thread' = [j \in Identity |-> thread'[j]]
    BY DEF Linking!Absorb
  <2>2. QED
    BY <1>6, <2>1
<1>8. Linking!AnswersStayInAccount'
  <2> SUFFICES ASSUME NEW j \in Identity PROVE thread'[j].answers \subseteq {thread'[j].user}
    BY DEF Linking!AnswersStayInAccount
  <2>1. thread[j].answers \subseteq {thread[j].user}
    BY DEF LinkInv, Linking!AnswersStayInAccount
  <2>2. CASE thread[j].user = b
    <3>1. {IF x = b THEN a ELSE x : x \in thread[j].answers} \subseteq {a}
      BY <2>1, <2>2
    <3>2. QED
      BY <1>6, <2>2, <3>1
  <2>3. CASE thread[j].user # b
    BY <1>6, <2>1, <2>3
  <2>4. QED
    BY <2>2, <2>3
<1>9. Linking!ThreadFollowsIdentity'
  <2> SUFFICES ASSUME NEW j \in Identity, j \notin rebound, thread'[j].user # "none"
               PROVE  thread'[j].user = owner'[j]
    BY <1>1 DEF Linking!ThreadFollowsIdentity
  <2>1. thread[j].user # "none" => thread[j].user = owner[j]
    BY DEF LinkInv, Linking!ThreadFollowsIdentity
  <2>2. CASE thread[j].user = b
    BY <1>2, <1>6, <2>1, <2>2, LinkTyped
  <2>3. CASE thread[j].user # b
    BY <1>2, <1>6, <2>1, <2>3
  <2>4. QED
    BY <2>2, <2>3
<1>10. Linking!TypeOK'
  <2>1. rebound' \subseteq Identity /\ turn' \in [Identity -> Linking!Turn]
          /\ operator' \in 0..MaxActs
    BY <1>1 DEF LinkInv, Linking!TypeOK
  <2>2. QED
    BY <1>2, <1>3, <1>4, <1>5, <1>7, <2>1 DEF Linking!TypeOK, Linking!Exists, Present,
       Linking!Saved
<1>11. UnsavedIsEmpty'
  BY <1>3 DEF UnsavedIsEmpty, Linking!Saved
<1>12. TenantsKnown'
  BY <1>1, <1>4 DEF LinkInv, TenantsKnown
<1>13. QED
  BY <1>8, <1>9, <1>10, <1>11, <1>12 DEF LinkInv

\* A link keeps the invariant.
LEMMA LinkKeeps ==
  ASSUME Linking!ConstantsAssumption, LinkInv, NEW t \in Linking!Token, NEW i \in Identity,
           Linking!Link(t, i)
  PROVE  LinkInv'
<1>1. PICK a, b \in Identity : /\ Links(t, a, b)
                               /\ \/ b = i /\ FirstSeen(i, a)
                                  \/ user[b] = "live" /\ Linking!Absorb(a, b)
  BY LinkCases
<1>2. QED
  BY <1>1, FirstSeenKeeps, AbsorbKeeps

--------------------------------------------------------------------------------
(* The theorems about the links *)

\* The initial states satisfy the invariant.
LEMMA LinkStarts ==
  ASSUME Linking!ConstantsAssumption, Linking!Init
  PROVE  LinkInv
<1>1. /\ Linking!NoItem \in Linking!Item /\ Linking!NoThread \in Linking!Thread
      /\ [state |-> "none", user |-> "none", target |-> "none"] \in Linking!TokenRow
      /\ [pc |-> "idle", tenant |-> "none"] \in Linking!Turn /\ 0 \in 0..MaxActs
  BY DEF Linking!NoItem, Linking!Item, Linking!NoThread, Linking!Thread, Linking!TokenRow,
     Linking!Turn, Linking!ConstantsAssumption
<1>2. /\ \A a \in Identity : \A v \in Linkable : saved[a][v] = Linking!NoItem
      /\ \A i \in Identity : owner[i] = "none" /\ thread[i] = Linking!NoThread
           /\ turn[i].pc = "idle"
      /\ \A t \in Linking!Token : token[t].state = "none"
  BY DEF Linking!Init
<1>3. UnsavedIsEmpty /\ TenantsKnown /\ Linking!AnswersStayInAccount
        /\ Linking!ThreadFollowsIdentity
  BY <1>2 DEF UnsavedIsEmpty, TenantsKnown, Linking!AnswersStayInAccount,
     Linking!ThreadFollowsIdentity, Linking!NoThread
<1>4. Linking!TypeOK
  <2>1. /\ user \in [Identity -> {"none", "live", "disabled", "gone"}]
        /\ owner \in [Identity -> Identity \union {"none"}] /\ rebound \subseteq Identity
        /\ saved \in [Identity -> [Linkable -> Linking!Item]]
             /\ token \in [Linking!Token -> Linking!TokenRow]
        /\ thread \in [Identity -> Linking!Thread] /\ turn \in [Identity -> Linking!Turn]
        /\ operator \in 0..MaxActs
    BY <1>1 DEF Linking!Init
  <2>2. \A a \in Identity : \A v \in Linkable : ~Linking!Saved(saved[a][v])
    BY <1>2 DEF Linking!Saved, Linking!NoItem
  <2>3. QED
    BY <1>2, <2>1, <2>2 DEF Linking!TypeOK
<1>5. QED
  BY <1>3, <1>4 DEF LinkInv

\* Every step keeps it.
LEMMA LinkStep ==
  ASSUME Linking!ConstantsAssumption, LinkInv, [Linking!Next]_(Linking!vars)
  PROVE  LinkInv'
<1>1. ASSUME NEW i \in Identity, NEW v \in Linkable, LibraryStep(i, v) PROVE LinkInv'
  <2>1. /\ UNCHANGED <<user, owner, rebound, token, thread, turn, operator>>
        /\ \E a \in Identity, new \in Linking!Item :
              Linking!Saved(new) /\ Linking!Exists(a) /\ saved' = [saved EXCEPT ![a][v] = new]
    BY <1>1, RowChange
  <2>2. QED
    BY <2>1, RowStep
<1>2. CASE UNCHANGED Linking!vars
  <2>1. Linking!TypeOK'
    BY <1>2 DEF Linking!vars, LinkInv, Linking!TypeOK, Linking!Saved, Linking!Exists
  <2>2. UnsavedIsEmpty' /\ TenantsKnown'
    BY <1>2 DEF Linking!vars, LinkInv, UnsavedIsEmpty, Linking!Saved, TenantsKnown
  <2>3. Linking!AnswersStayInAccount' /\ Linking!ThreadFollowsIdentity'
    BY <1>2 DEF Linking!vars, LinkInv, Linking!AnswersStayInAccount, Linking!ThreadFollowsIdentity
  <2>4. QED
    BY <2>1, <2>2, <2>3 DEF LinkInv
<1>3. QED
  BY <1>1, <1>2, RegisterKeeps, TurnKeeps, DisableKeeps, RebindKeeps, TokenKeeps, LinkKeeps
     DEF Linking!Next, LibraryStep

\* An account goes only by a link into another.
LEMMA OnlyLinksRemove ==
  ASSUME Linking!ConstantsAssumption, LinkInv, [Linking!Next]_(Linking!vars), NEW b \in Identity,
         user[b] # "gone", user'[b] = "gone"
  PROVE  \E t \in Linking!Token, a \in Identity :
             Links(t, a, b) /\ (FirstSeen(b, a) \/ (user[b] = "live" /\ Linking!Absorb(a, b)))
<1>1. user' # user
  OBVIOUS
<1>2. ASSUME NEW i \in Identity, Linking!Register(i) PROVE FALSE
  BY <1>2, LinkTyped DEF Linking!Register
<1>3. ASSUME NEW i \in Identity, Linking!SetDisabled(i) PROVE FALSE
  BY <1>3, DisableKeeps
<1>4. ASSUME NEW i \in Identity, NEW v \in Linkable, LibraryStep(i, v) PROVE FALSE
  BY <1>1, <1>4, RowChange
<1>5. ASSUME NEW i \in Identity,
             \/ Linking!TurnBegins(i) \/ Linking!TurnEnds(i) \/ Linking!ResetThread(i)
             \/ \E a \in Identity : Linking!RebindIdentity(i, a)
             \/ \E t \in Linking!Token, target \in Channel : Linking!CreateLinkToken(i, t, target)
             \/ \E t \in Linking!Token : Linking!LinkOwn(t, i) \/ Linking!TokenExpires(t)
      PROVE  FALSE
  BY <1>1, <1>5 DEF Linking!TurnBegins, Linking!TurnEnds, Linking!ResetThread,
     Linking!RebindIdentity, Linking!CreateLinkToken,
     Linking!LinkOwn, Linking!TokenExpires
<1>6. ASSUME NEW t \in Linking!Token, Linking!TokenExpires(t) PROVE FALSE
  BY <1>1, <1>6 DEF Linking!TokenExpires
<1>7. \E t \in Linking!Token, i \in Identity : Linking!Link(t, i)
  BY <1>1, <1>2, <1>3, <1>4, <1>5, <1>6 DEF Linking!Next, Linking!vars, LibraryStep
<1>8. PICK t \in Linking!Token, i \in Identity : Linking!Link(t, i)
  BY <1>7
<1>9. PICK a, c \in Identity : /\ Links(t, a, c)
                               /\ \/ c = i /\ FirstSeen(i, a)
                                  \/ user[c] = "live" /\ Linking!Absorb(a, c)
  BY <1>8, LinkCases
<1>10. b = c
  BY <1>9, LinkTyped DEF FirstSeen, Linking!Absorb
<1>11. QED
  BY <1>9, <1>10

\* Linking loses nothing of either library.
LEMMA LibraryKept ==
  ASSUME Linking!ConstantsAssumption, LinkInv, [Linking!Next]_(Linking!vars), NEW a \in Identity,
           NEW b \in Identity,
         Linking!Absorbs(a, b), NEW v \in Linkable
  PROVE  LET source == saved[a][v]
             target == saved[b][v]
             merged == saved'[a][v]
         IN  /\ Linking!Saved(source) \/ Linking!Saved(target) => Linking!Saved(merged)
             /\ source.state = "ready" \/ target.state = "ready" => merged.state = "ready"
             /\ source.notes \union target.notes \subseteq merged.notes
<1>1. user[b] # "gone" /\ user'[b] = "gone"
  BY DEF Linking!Absorbs
<1>2. PICK i \in Identity : owner'[i] = a /\ owner[i] = b
  BY DEF Linking!Absorbs
<1>3. PICK t \in Linking!Token, c \in Identity :
         Links(t, c, b) /\ (FirstSeen(b, c) \/ (user[b] = "live" /\ Linking!Absorb(c, b)))
  BY <1>1, OnlyLinksRemove
<1>4. ~FirstSeen(b, c)
  BY <1>2, LinkTyped DEF FirstSeen, Linking!Exists
<1>5. c # b
  BY <1>3 DEF Links
<1>6. c = a /\ saved'[a][v] = Linking!MergedItem(saved[a][v], saved[b][v])
  BY <1>2, <1>3, <1>4, <1>5, Absorbed
<1>7. QED
  BY <1>6, LinkTyped, MergedRow

\* No attempt that runs loses its row.
LEMMA AttemptKept ==
  ASSUME Linking!ConstantsAssumption, LinkInv, [Linking!Next]_(Linking!vars), NEW a \in Identity,
           NEW v \in Linkable,
         Linking!Running(saved[a][v])
  PROVE  Linking!Running(saved'[a][v]) \/ Linking!WorkerEnds(a, v) \/ Linking!Trash(a, v)
<1>1. ASSUME NEW i \in Identity, NEW w \in Linkable, LibraryStep(i, w)
      PROVE  Linking!Running(saved'[a][v]) \/ Linking!WorkerEnds(a, v)
  <2>1. PICK b \in Identity, new \in Linking!Item :
           /\ saved' = [saved EXCEPT ![b][w] = new]
           /\ Linking!Running(saved[b][w]) => Linking!Running(new) \/ Linking!WorkerEnds(b, w)
    BY <1>1, RowChange
  <2>2. saved'[a][v] = IF a = b /\ v = w THEN new ELSE saved[a][v]
    BY <2>1, LinkTyped
  <2>3. QED
    BY <2>1, <2>2
<1>2. ASSUME NEW t \in Linking!Token, NEW i \in Identity, Linking!Link(t, i)
      PROVE Linking!Running(saved'[a][v])
  <2>1. PICK c, b \in Identity : /\ Links(t, c, b)
                                 /\ \/ b = i /\ FirstSeen(i, c)
                                    \/ user[b] = "live" /\ Linking!Absorb(c, b)
    BY <1>2, LinkCases
  <2>2. CASE FirstSeen(i, c)
    BY <2>2 DEF FirstSeen
  <2>3. CASE Linking!Absorb(c, b)
    <3>1. ~Linking!Busy(c, b) /\ c # b
      BY <2>1 DEF Links
    <3>2. a # b
      BY <3>1 DEF Linking!Busy
    <3>3. CASE a = c
      <4>1. saved'[a][v] = Linking!MergedItem(saved[c][v], saved[b][v])
        BY <2>3, <3>1, <3>3, Absorbed
      <4>2. ~(Linking!Duplicate(c, b, v) /\ Linking!TargetOutranks(saved[c][v], saved[b][v]))
        BY <3>1, <3>3 DEF Linking!Busy
      <4>3. QED
        BY <3>3, <4>1, <4>2, LinkTyped, MergedRow DEF Linking!Duplicate
    <3>4. CASE a # c
      BY <2>3, <3>1, <3>2, <3>4, Absorbed
    <3>5. QED
      BY <3>3, <3>4
  <2>4. QED
    BY <2>1, <2>2, <2>3
<1>3. CASE UNCHANGED saved
  BY <1>3
<1>4. QED
  BY <1>1, <1>2, <1>3 DEF Linking!Next, Linking!vars, LibraryStep, Linking!Register,
     Linking!TurnBegins, Linking!TurnEnds, Linking!ResetThread,
     Linking!SetDisabled, Linking!RebindIdentity, Linking!CreateLinkToken, Linking!LinkOwn,
       Linking!TokenExpires

\* An account is absorbed by one live account, with a token that is used up.
LEMMA TokenUsedUp ==
  ASSUME Linking!ConstantsAssumption, LinkInv, [Linking!Next]_(Linking!vars), NEW b \in Identity,
         Linking!Exists(b), user'[b] = "gone"
  PROVE  /\ user[b] = "live"
         /\ \E t \in Linking!Token : /\ token[t].state = "open" /\ token'[t].state = "consumed"
                                     /\ token[t].user # b /\ user[token[t].user] = "live"
<1>1. user[b] # "gone"
  BY DEF Linking!Exists
<1>2. PICK t \in Linking!Token, a \in Identity :
         Links(t, a, b) /\ (FirstSeen(b, a) \/ (user[b] = "live" /\ Linking!Absorb(a, b)))
  BY <1>1, OnlyLinksRemove
<1>3. ~FirstSeen(b, a)
  BY DEF FirstSeen, Linking!Exists
<1>4. /\ a # b /\ token[t].state = "open" /\ token[t].user = a /\ user[a] = "live"
      /\ user[b] = "live" /\ Linking!Absorb(a, b)
  BY <1>2, <1>3 DEF Links
<1>5. token'[t].state = "consumed"
  <2>1. user'[a] \in Present /\ \A c \in Identity : c # b => user'[c] = user[c]
    BY <1>4, Absorbed DEF Present
  <2>2. QED
    BY <1>2, <2>1, TokensLinked
<1>6. QED
  BY <1>4, <1>5

\* Whatever is linked, every behaviour keeps the invariant.
THEOREM LinkInvariance ==
  ASSUME Linking!ConstantsAssumption
  PROVE  Linking!Spec => []LinkInv
<1>1. Linking!Init => LinkInv
  BY LinkStarts
<1>2. LinkInv /\ [Linking!Next]_(Linking!vars) => LinkInv'
  BY LinkStep
<1>3. QED
  BY <1>1, <1>2, PTL DEF Linking!Spec

\* The types of the accounts hold.
THEOREM LinkTypes ==
  ASSUME Linking!ConstantsAssumption
  PROVE  Linking!Spec => []Linking!TypeOK
<1>1. LinkInv => Linking!TypeOK
  BY DEF LinkInv
<1>2. QED
  BY <1>1, LinkInvariance, PTL

\* However messages, attempts, operators and links interleave, a link keeps both
\* libraries, no row is taken from under a running attempt, an account disappears only
\* by an open token of another live one, and answers and threads stay with their
\* account (identity.py 270-314, 386-446, 496-551; channels/service.py 482-491).
THEOREM LinksAlwaysClean ==
  ASSUME Linking!ConstantsAssumption
  PROVE  Linking!Spec => LinksAreClean
<1>1. LinkInv => Linking!AnswersStayInAccount /\ Linking!ThreadFollowsIdentity
  BY DEF LinkInv
<1>2. LinkInv /\ [Linking!Next]_(Linking!vars)
      => [\A a, b \in Identity : Linking!Absorbs(a, b) =>
            \A v \in Linkable :
               LET source == saved[a][v]
                   target == saved[b][v]
                   merged == saved'[a][v]
               IN  /\ Linking!Saved(source) \/ Linking!Saved(target) => Linking!Saved(merged)
                   /\ source.state = "ready" \/ target.state = "ready"
                        => merged.state = "ready"
                   /\ source.notes \union target.notes \subseteq merged.notes]_(Linking!vars)
  BY LibraryKept
<1>3. LinkInv /\ [Linking!Next]_(Linking!vars)
      => [\A a \in Identity, v \in Linkable :
            Linking!Running(saved[a][v])
              => Linking!Running(saved'[a][v]) \/ Linking!WorkerEnds(a, v)
                \/ Linking!Trash(a, v)]_(Linking!vars)
  BY AttemptKept
<1>4. LinkInv /\ [Linking!Next]_(Linking!vars)
      => [\A b \in Identity : Linking!Exists(b) /\ user'[b] = "gone" =>
            /\ user[b] = "live"
            /\ \E t \in Linking!Token :
                  /\ token[t].state = "open" /\ token'[t].state = "consumed"
                  /\ token[t].user # b
                  /\ user[token[t].user] = "live"]_(Linking!vars)
  BY TokenUsedUp
<1>5. QED
  BY <1>1, <1>2, <1>3, <1>4, LinkInvariance, PTL
     DEF Linking!Spec, LinksAreClean, Linking!LinkKeepsLibrary, Linking!RunningAttemptSurvives,
           Linking!TokenLinksOnce

--------------------------------------------------------------------------------
(* The inductive invariant of the outbox *)

\* A claim that may still lead to a message, or is about to be handed back.
Waits(p, claim) ==
    \E n \in DOMAIN publisher[p].claims :
        /\ publisher[p].claims[n] = claim
        /\ n > 1 \/ publisher[p].pc \in {"send", "release"}

\* The tokens of such claims of e.
Pending(e) ==
    {t \in Nat : \E p \in Publication!Process : Waits(p, [event |-> e, token |-> t])}

\* Whether a publisher may make another claim of e.
Open(e) == IF row[e].state \in {"absent", "pending"} \/ row[e].stale THEN 1 ELSE 0

\* A publisher that is busy has claims.
ClaimsInWork ==
    \A p \in Publication!Process : publisher[p].pc # "idle" <=> publisher[p].claims # <<>>

\* Claims carry tokens their rows have used.
TokensUsed ==
    \A p \in Publication!Process : \A n \in DOMAIN publisher[p].claims :
        LET claim == publisher[p].claims[n]
        IN  /\ row[claim.event].state # "absent"
            /\ claim.token <= row[claim.event].token

\* Only a claim grows stale.
StaleIsClaimed == \A e \in Event : row[e].stale => row[e].state = "claimed"

\* No claim is in two hands, or twice in one.
ClaimsDiffer ==
    \A p, q \in Publication!Process :
        \A m \in DOMAIN publisher[p].claims, n \in DOMAIN publisher[q].claims :
            publisher[p].claims[m] = publisher[q].claims[n] => p = q /\ m = n

\* What is to be acknowledged was accepted.
SentWasSent ==
    \A p \in Publication!Process : publisher[p].pc = "ack"
      => accepted[Publication!Current(p).event] > 0

\* The first message of an event is free; another, and every claim that may become
\* one, was paid for by a fault.
FaultsPaid ==
    \A e \in Event :
        /\ IsFiniteSet(Pending(e))
        /\ accepted[e] + Cardinality(Pending(e)) + Open(e) <= 1 + faults[e]

OutboxInv ==
    /\ Publication!TypeOK /\ ClaimsInWork /\ TokensUsed /\ StaleIsClaimed /\ ClaimsDiffer
    /\ SentWasSent /\ Publication!EnqueuedWasAccepted /\ FaultsPaid

--------------------------------------------------------------------------------
(* Sizes *)

\* The publisher counts as the library does.
LEMMA PublishedSize ==
  ASSUME NEW S
  PROVE  Publication!Cardinality(S) = Cardinality(S)
BY DEF Publication!Cardinality, Cardinality

\* Nor does it differ on what is finite.
LEMMA PublishedFinite ==
  ASSUME NEW S
  PROVE  Publication!IsFiniteSet(S) <=> IsFiniteSet(S)
BY DEF Publication!IsFiniteSet, IsFiniteSet

--------------------------------------------------------------------------------
(* What a publisher has in hand *)

\* The types of what the steps change.
LEMMA OutboxTyped ==
  ASSUME OutboxInv
  PROVE  /\ row \in [Event -> Publication!Row]
         /\ publisher \in [Publication!Process -> Publication!PublisherState]
         /\ accepted \in [Event -> Nat] /\ faults \in [Event -> 0..MaxFaults]
         /\ \A e \in Event :
               /\ row[e] \in Publication!Row /\ row[e].token \in Nat /\ row[e].stale \in BOOLEAN
               /\ row[e].state \in {"absent", "pending", "claimed", "enqueued"}
               /\ accepted[e] \in Nat /\ faults[e] \in 0..MaxFaults
         /\ \A p \in Publication!Process :
               /\ publisher[p] \in Publication!PublisherState
               /\ publisher[p].pc \in {"idle", "send", "ack", "release"}
               /\ publisher[p].claims \in Seq(Publication!Claim)
<1>1. /\ row \in [Event -> Publication!Row]
      /\ publisher \in [Publication!Process -> Publication!PublisherState]
      /\ accepted \in [Event -> Nat] /\ faults \in [Event -> 0..MaxFaults]
  BY DEF OutboxInv, Publication!TypeOK
<1>2. \A e \in Event :
         /\ row[e] \in Publication!Row /\ row[e].token \in Nat /\ row[e].stale \in BOOLEAN
         /\ row[e].state \in {"absent", "pending", "claimed", "enqueued"}
         /\ accepted[e] \in Nat /\ faults[e] \in 0..MaxFaults
  BY <1>1 DEF Publication!Row
<1>3. \A p \in Publication!Process :
         /\ publisher[p] \in Publication!PublisherState
         /\ publisher[p].pc \in {"idle", "send", "ack", "release"}
         /\ publisher[p].claims \in Seq(Publication!Claim)
  BY <1>1 DEF Publication!PublisherState
<1>4. QED
  BY <1>1, <1>2, <1>3

\* What a busy publisher works on.
LEMMA InHand ==
  ASSUME OutboxInv, NEW p \in Publication!Process, publisher[p].pc # "idle"
  PROVE  /\ publisher[p].claims # <<>> /\ Len(publisher[p].claims) \in Nat \ {0}
         /\ 1 \in DOMAIN publisher[p].claims
         /\ Publication!Current(p) = publisher[p].claims[1]
              /\ Publication!Current(p) \in Publication!Claim
         /\ Publication!Current(p).event \in Event /\ Publication!Current(p).token \in Nat
         /\ Publication!Current(p) = [event |-> Publication!Current(p).event,
              token |-> Publication!Current(p).token]
         /\ Tail(publisher[p].claims) \in Seq(Publication!Claim)
<1>1. publisher[p].claims \in Seq(Publication!Claim)
  BY OutboxTyped
<1>2. publisher[p].claims # <<>>
  BY DEF OutboxInv, ClaimsInWork
<1>3. /\ Len(publisher[p].claims) \in Nat \ {0} /\ 1 \in DOMAIN publisher[p].claims
      /\ Publication!Current(p) = publisher[p].claims[1]
           /\ Publication!Current(p) \in Publication!Claim
      /\ Tail(publisher[p].claims) \in Seq(Publication!Claim)
  BY <1>1, <1>2 DEF Publication!Current
<1>4. /\ Publication!Current(p).event \in Event /\ Publication!Current(p).token \in Nat
      /\ Publication!Current(p) = [event |-> Publication!Current(p).event,
           token |-> Publication!Current(p).token]
  BY <1>3 DEF Publication!Claim
<1>5. QED
  BY <1>2, <1>3, <1>4

\* A publisher drops its claims, goes on with the first of them, or takes the next.
HandShrinks(p) ==
    /\ \A q \in Publication!Process : q # p => publisher'[q] = publisher[q]
    /\ \/ publisher'[p] = Publication!Idle
       \/ /\ publisher'[p].claims = publisher[p].claims
          /\ publisher[p].pc # "idle" /\ publisher'[p].pc # "idle"
          /\ publisher'[p].pc \in {"send", "release"} => publisher[p].pc \in {"send", "release"}
       \/ /\ publisher'[p].claims = Tail(publisher[p].claims)
          /\ publisher'[p].claims # <<>>
          /\ publisher[p].pc # "idle" /\ publisher'[p].pc = "send"

\* What becomes of a publisher when it goes on, advances or gives up.
LEMMA HandSteps ==
  ASSUME OutboxInv, NEW p \in Publication!Process, publisher[p].pc # "idle"
  PROVE  /\ publisher' = [publisher EXCEPT ![p] = Publication!Idle] =>
                HandShrinks(p) /\ publisher'[p].claims = <<>> /\ publisher'[p].pc = "idle"
         /\ \A pc \in {"ack", "release"} : Publication!Enter(p, pc) =>
                /\ publisher'[p].pc = pc /\ publisher'[p].claims = publisher[p].claims
                /\ \A q \in Publication!Process : q # p => publisher'[q] = publisher[q]
                /\ publisher' \in [Publication!Process -> Publication!PublisherState]
         /\ Publication!Advance(p) =>
                /\ HandShrinks(p) /\ publisher'[p].pc \in {"idle", "send"}
                /\ publisher'[p].claims \in {<<>>, Tail(publisher[p].claims)}
                /\ publisher' \in [Publication!Process -> Publication!PublisherState]
<1>1. /\ publisher \in [Publication!Process -> Publication!PublisherState]
           /\ publisher[p] \in Publication!PublisherState
      /\ publisher[p].claims \in Seq(Publication!Claim)
  BY OutboxTyped
<1>2. Publication!Idle \in Publication!PublisherState /\ Publication!Idle.claims = <<>>
        /\ Publication!Idle.pc = "idle"
  BY DEF Publication!Idle, Publication!PublisherState
<1>3. ASSUME publisher' = [publisher EXCEPT ![p] = Publication!Idle]
      PROVE  /\ HandShrinks(p) /\ publisher'[p].claims = <<>> /\ publisher'[p].pc = "idle"
             /\ publisher' \in [Publication!Process -> Publication!PublisherState]
  BY <1>1, <1>2, <1>3 DEF HandShrinks
<1>4. ASSUME NEW pc \in {"ack", "release"}, Publication!Enter(p, pc)
      PROVE  /\ publisher'[p].pc = pc /\ publisher'[p].claims = publisher[p].claims
             /\ \A q \in Publication!Process : q # p => publisher'[q] = publisher[q]
             /\ publisher' \in [Publication!Process -> Publication!PublisherState]
  <2>1. publisher' = [publisher EXCEPT ![p] = [publisher[p] EXCEPT !.pc = pc]]
    BY <1>1, <1>4 DEF Publication!Enter
  <2>2. /\ [publisher[p] EXCEPT !.pc = pc] \in Publication!PublisherState
        /\ [publisher[p] EXCEPT !.pc = pc].pc = pc
        /\ [publisher[p] EXCEPT !.pc = pc].claims = publisher[p].claims
    BY <1>1 DEF Publication!PublisherState
  <2>3. QED
    BY <1>1, <2>1, <2>2
<1>5. ASSUME Publication!Advance(p)
      PROVE  /\ HandShrinks(p) /\ publisher'[p].pc \in {"idle", "send"}
             /\ publisher'[p].claims \in {<<>>, Tail(publisher[p].claims)}
             /\ publisher' \in [Publication!Process -> Publication!PublisherState]
  <2>1. CASE Len(publisher[p].claims) = 1
    <3>1. publisher' = [publisher EXCEPT ![p] = Publication!Idle]
      BY <1>1, <1>5, <2>1 DEF Publication!Advance
    <3>2. QED
      BY <1>3, <3>1
  <2>2. CASE Len(publisher[p].claims) # 1
    <3> DEFINE next == [pc |-> "send", claims |-> Tail(publisher[p].claims)]
    <3>1. publisher' = [publisher EXCEPT ![p] = next]
      BY <1>1, <1>5, <2>2 DEF Publication!Advance
    <3>2. /\ next \in Publication!PublisherState /\ next.pc = "send"
          /\ next.claims = Tail(publisher[p].claims)
      BY InHand DEF Publication!PublisherState
    <3>3. Tail(publisher[p].claims) # <<>>
      <4>1. Len(Tail(publisher[p].claims)) = Len(publisher[p].claims) - 1
        BY <1>1, InHand, HeadTailProperties
      <4>2. Len(publisher[p].claims) - 1 # 0
        BY <2>2, InHand
      <4>3. QED
        BY <4>1, <4>2, EmptySeq
    <3> HIDE DEF next
    <3>4. publisher'[p] = next /\ \A q \in Publication!Process : q # p
            => publisher'[q] = publisher[q]
      BY <1>1, <3>1
    <3>5. publisher' \in [Publication!Process -> Publication!PublisherState]
      BY <1>1, <3>1, <3>2
    <3>6. QED
      BY <3>2, <3>3, <3>4, <3>5 DEF HandShrinks
  <2>3. QED
    BY <2>1, <2>2
<1>6. QED
  BY <1>3, <1>4, <1>5

\* Each claim a shrinking hand still has is one it had, further on in the batch.
LEMMA HandFrom ==
  ASSUME OutboxInv, NEW p \in Publication!Process, HandShrinks(p), NEW q \in Publication!Process
  PROVE  \E d \in {0, 1} : \A n \in DOMAIN publisher'[q].claims :
             /\ n \in Nat \ {0}
             /\ n + d \in DOMAIN publisher[q].claims
             /\ publisher'[q].claims[n] = publisher[q].claims[n + d]
             /\ n > 1 \/ publisher'[q].pc \in {"send", "release"} =>
                    n + d > 1 \/ publisher[q].pc \in {"send", "release"}
<1>1. publisher[q].claims \in Seq(Publication!Claim)
  BY OutboxTyped
<1>2. CASE q # p
  BY <1>1, <1>2 DEF HandShrinks
<1>3. CASE q = p /\ publisher'[p] = Publication!Idle
  BY <1>3 DEF Publication!Idle
<1>4. CASE /\ q = p /\ publisher'[p].claims = publisher[p].claims
           /\ publisher'[p].pc \in {"send", "release"} => publisher[p].pc \in {"send", "release"}
  BY <1>1, <1>4
<1>5. CASE /\ q = p /\ publisher'[p].claims = Tail(publisher[p].claims)
           /\ publisher[p].pc # "idle"
  <2>1. publisher[p].claims # <<>>
    BY <1>5, InHand
  <2>2. \A n \in DOMAIN publisher'[q].claims :
           /\ n \in Nat \ {0} /\ n + 1 \in DOMAIN publisher[q].claims
           /\ publisher'[q].claims[n] = publisher[q].claims[n + 1]
           /\ n + 1 > 1
    BY <1>1, <1>5, <2>1
  <2>3. QED
    BY <2>2
<1>6. QED
  BY <1>2, <1>3, <1>4, <1>5 DEF HandShrinks

\* No claim gets into two hands, and no message becomes possible.
LEMMA HandKeeps ==
  ASSUME OutboxInv, NEW p \in Publication!Process, HandShrinks(p)
  PROVE  /\ ClaimsInWork' /\ ClaimsDiffer'
         /\ \A e \in Event : Pending(e)' \subseteq Pending(e)
<1>1. ClaimsInWork'
  BY DEF HandShrinks, OutboxInv, ClaimsInWork, Publication!Idle
<1>2. ClaimsDiffer'
  <2> SUFFICES ASSUME NEW q \in Publication!Process, NEW r \in Publication!Process,
                      NEW m \in DOMAIN publisher'[q].claims,
                      NEW n \in DOMAIN publisher'[r].claims,
                      publisher'[q].claims[m] = publisher'[r].claims[n]
               PROVE  q = r /\ m = n
    BY DEF ClaimsDiffer
  <2>1. PICK d \in {0, 1} : \A k \in DOMAIN publisher'[q].claims :
           /\ k \in Nat \ {0} /\ k + d \in DOMAIN publisher[q].claims
           /\ publisher'[q].claims[k] = publisher[q].claims[k + d]
    BY HandFrom
  <2>2. PICK f \in {0, 1} : \A k \in DOMAIN publisher'[r].claims :
           /\ k \in Nat \ {0} /\ k + f \in DOMAIN publisher[r].claims
           /\ publisher'[r].claims[k] = publisher[r].claims[k + f]
    BY HandFrom
  <2>3. q = r /\ m + d = n + f
    BY <2>1, <2>2 DEF OutboxInv, ClaimsDiffer
  <2>4. m + f \in DOMAIN publisher[r].claims
        /\ publisher'[r].claims[m] = publisher[r].claims[m + f]
    BY <2>2, <2>3
  <2>5. m + d = m + f
    BY <2>1, <2>3, <2>4 DEF OutboxInv, ClaimsDiffer
  <2>6. QED
    BY <2>1, <2>2, <2>3, <2>5
<1>3. ASSUME NEW q \in Publication!Process, NEW claim, Waits(q, claim)' PROVE Waits(q, claim)
  <2>1. PICK d \in {0, 1} : \A k \in DOMAIN publisher'[q].claims :
           /\ k + d \in DOMAIN publisher[q].claims
           /\ publisher'[q].claims[k] = publisher[q].claims[k + d]
           /\ k > 1 \/ publisher'[q].pc \in {"send", "release"} =>
                  k + d > 1 \/ publisher[q].pc \in {"send", "release"}
    BY HandFrom
  <2>2. QED
    BY <1>3, <2>1 DEF Waits
<1>4. QED
  BY <1>1, <1>2, <1>3 DEF Pending

\* Claims keep to the tokens of their rows.
LEMMA TokensKeep ==
  ASSUME OutboxInv, UNCHANGED publisher \/ \E p \in Publication!Process : HandShrinks(p),
         \A e \in Event :
             /\ row[e].state # "absent" => row'[e].state # "absent"
             /\ row'[e].token = row[e].token
  PROVE  TokensUsed'
<1> SUFFICES ASSUME NEW q \in Publication!Process, NEW n \in DOMAIN publisher'[q].claims
             PROVE  LET claim == publisher'[q].claims[n]
                    IN  /\ row'[claim.event].state # "absent"
                        /\ claim.token <= row'[claim.event].token
  BY DEF TokensUsed
<1>1. PICK m \in DOMAIN publisher[q].claims : publisher'[q].claims[n] = publisher[q].claims[m]
  <2>1. CASE UNCHANGED publisher
    BY <2>1
  <2>2. CASE \E p \in Publication!Process : HandShrinks(p)
    BY <2>2, HandFrom
  <2>3. QED
    BY <2>1, <2>2
<1> DEFINE claim == publisher[q].claims[m]
<1>2. claim \in Publication!Claim /\ claim.event \in Event /\ claim.token \in Nat
  <2>1. claim \in Publication!Claim
    BY OutboxTyped
  <2>2. QED
    BY <2>1 DEF Publication!Claim
<1>3. row[claim.event].state # "absent" /\ claim.token <= row[claim.event].token
  BY DEF OutboxInv, TokensUsed
<1> HIDE DEF claim
<1>4. row'[claim.event].state # "absent" /\ claim.token <= row'[claim.event].token
  BY <1>2, <1>3
<1>5. QED
  BY <1>1, <1>4 DEF claim

--------------------------------------------------------------------------------
(* What the faults pay for *)

\* What the invariant says in numbers.
LEMMA PaidNow ==
  ASSUME OutboxInv, NEW e \in Event
  PROVE  /\ IsFiniteSet(Pending(e)) /\ Cardinality(Pending(e)) \in Nat
         /\ accepted[e] \in Nat /\ faults[e] \in Nat /\ Open(e) \in {0, 1}
         /\ accepted[e] + Cardinality(Pending(e)) + Open(e) <= 1 + faults[e]
<1>1. /\ IsFiniteSet(Pending(e))
      /\ accepted[e] + Cardinality(Pending(e)) + Open(e) <= 1 + faults[e]
  BY DEF OutboxInv, FaultsPaid
<1>2. accepted[e] \in Nat /\ faults[e] \in 0..MaxFaults
  BY OutboxTyped
<1>3. QED
  BY <1>1, <1>2, FS_CardinalityType DEF Open

\* And what is enough for it to say it of the next state.
LEMMA PaidNext ==
  ASSUME NEW e \in Event, NEW S, IsFiniteSet(S), Pending(e)' \subseteq S,
         accepted'[e] \in Nat, faults'[e] \in Nat,
         accepted'[e] + Cardinality(S) + Open(e)' <= 1 + faults'[e]
  PROVE  /\ IsFiniteSet(Pending(e)')
         /\ accepted'[e] + Cardinality(Pending(e)') + Open(e)' <= 1 + faults'[e]
<1>1. IsFiniteSet(Pending(e)') /\ Cardinality(Pending(e)') <= Cardinality(S)
  BY FS_Subset
<1>2. Cardinality(Pending(e)') \in Nat /\ Cardinality(S) \in Nat
  BY <1>1, FS_CardinalityType
<1>3. Open(e)' \in {0, 1}
  BY DEF Open
<1>4. QED
  BY <1>1, <1>2, <1>3

\* A hand that shrinks, and rows that get no more open, leave everything paid for.
LEMMA PaidKeeps ==
  ASSUME OutboxInv, NEW p \in Publication!Process, HandShrinks(p),
         \A e \in Event : /\ accepted'[e] = accepted[e]
                          /\ faults'[e] \in Nat /\ faults'[e] >= faults[e]
                          /\ Open(e)' <= Open(e)
  PROVE  FaultsPaid'
<1> SUFFICES ASSUME NEW e \in Event
             PROVE  /\ IsFiniteSet(Pending(e)')
                    /\ accepted'[e] + Cardinality(Pending(e)') + Open(e)' <= 1 + faults'[e]
  BY DEF FaultsPaid
<1>1. Pending(e)' \subseteq Pending(e)
  BY HandKeeps
<1>2. accepted'[e] + Cardinality(Pending(e)) + Open(e)' <= 1 + faults'[e]
  <2>1. Open(e)' \in {0, 1}
    BY DEF Open
  <2>2. QED
    BY <2>1, PaidNow
<1>3. QED
  BY <1>1, <1>2, PaidNow, PaidNext

\* The claim in hand was waiting, in this hand alone.
LEMMA CurrentToken ==
  ASSUME OutboxInv, NEW p \in Publication!Process, HandShrinks(p), publisher[p].pc \in {"send",
           "release"},
         \/ publisher'[p].claims = publisher[p].claims /\ publisher'[p].pc = "ack"
         \/ publisher'[p].claims \in {<<>>, Tail(publisher[p].claims)}
  PROVE  /\ Publication!Current(p).token \in Pending(Publication!Current(p).event)
         /\ \A e \in Event : e = Publication!Current(p).event =>
               Pending(e)' \subseteq Pending(e) \ {Publication!Current(p).token}
<1>1. /\ publisher[p].claims \in Seq(Publication!Claim) /\ 1 \in DOMAIN publisher[p].claims
      /\ publisher[p].claims # <<>>
      /\ Publication!Current(p) = publisher[p].claims[1] /\ Publication!Current(p).token \in Nat
      /\ Publication!Current(p) = [event |-> Publication!Current(p).event,
           token |-> Publication!Current(p).token]
  BY InHand, OutboxTyped
<1>2. Waits(p, Publication!Current(p))
  BY <1>1 DEF Waits
<1>3. Publication!Current(p).token \in Pending(Publication!Current(p).event)
  BY <1>1, <1>2 DEF Pending
<1>4. ASSUME NEW q \in Publication!Process, NEW claim, claim = publisher[p].claims[1],
               Waits(q, claim)'
      PROVE  FALSE
  <2>1. CASE q # p
    <3>1. PICK n \in DOMAIN publisher[q].claims : publisher[q].claims[n] = publisher[p].claims[1]
      BY <1>1, <1>4, <2>1 DEF Waits, HandShrinks
    <3>2. QED
      BY <1>1, <2>1, <3>1 DEF OutboxInv, ClaimsDiffer
  <2>2. CASE q = p
    <3>1. PICK n \in DOMAIN publisher'[p].claims :
             /\ publisher'[p].claims[n] = publisher[p].claims[1]
             /\ n > 1 \/ publisher'[p].pc \in {"send", "release"}
      BY <1>1, <1>4, <2>2 DEF Waits
    <3>2. \E m \in DOMAIN publisher[p].claims :
             m > 1 /\ publisher[p].claims[m] = publisher[p].claims[1]
      <4>1. CASE publisher'[p].claims = publisher[p].claims /\ publisher'[p].pc = "ack"
        BY <3>1, <4>1
      <4>2. CASE publisher'[p].claims = Tail(publisher[p].claims)
        BY <1>1, <3>1, <4>2
      <4>3. CASE publisher'[p].claims = <<>>
        BY <3>1, <4>3
      <4>4. QED
        BY <4>1, <4>2, <4>3
    <3>3. QED
      BY <1>1, <3>2 DEF OutboxInv, ClaimsDiffer
  <2>3. QED
    BY <2>1, <2>2
<1>5. ASSUME NEW e \in Event, e = Publication!Current(p).event,
               Publication!Current(p).token \in Pending(e)'
      PROVE  FALSE
  <2>1. PICK t \in Nat, q \in Publication!Process :
           t = Publication!Current(p).token /\ Waits(q, [event |-> e, token |-> t])'
    BY <1>1, <1>5 DEF Pending
  <2>2. [event |-> e, token |-> t] = publisher[p].claims[1]
    BY <1>1, <1>5, <2>1
  <2>3. QED
    BY <1>4, <2>1, <2>2
<1>6. QED
  BY <1>3, <1>5, HandKeeps

--------------------------------------------------------------------------------
(* Claims *)

\* What a publisher has in hand after it claimed the rows E.
HandFilled(p, E) ==
    /\ publisher' \in [Publication!Process -> Publication!PublisherState]
    /\ \A q \in Publication!Process : q # p => publisher'[q] = publisher[q]
    /\ publisher'[p].pc = "send" /\ publisher'[p].claims # <<>>
    /\ \A n \in DOMAIN publisher'[p].claims :
          /\ publisher'[p].claims[n].event \in E
          /\ publisher'[p].claims[n].token = row[publisher'[p].claims[n].event].token + 1
    /\ \A m, n \in DOMAIN publisher'[p].claims :
          publisher'[p].claims[m] = publisher'[p].claims[n] => m = n

\* A publisher that claims takes a new token of each row.
LEMMA ClaimEffect ==
  ASSUME Publication!OutboxAssumption, OutboxInv, NEW p \in Publication!Process,
         NEW E \in SUBSET Event, E # {}, Publication!ClaimRows(p, E)
  PROVE  HandFilled(p, E)
<1>1. PICK order \in [1..Cardinality(E) -> E] :
         /\ \A m, n \in DOMAIN order : m < n => order[m] < order[n]
         /\ publisher' = [publisher EXCEPT ![p] =
                [pc |-> "send",
                 claims |-> [n \in DOMAIN order |->
                     [event |-> order[n], token |-> row[order[n]].token + 1]]]]
  BY PublishedSize DEF Publication!ClaimRows
<1>2. IsFiniteSet(E) /\ Cardinality(E) \in Nat /\ Cardinality(E) # 0 /\ E \subseteq Nat
  BY FS_Subset, FS_CardinalityType, FS_EmptySet, PublishedFinite DEF Publication!OutboxAssumption
<1> DEFINE claims == [n \in 1..Cardinality(E) |->
                         [event |-> order[n], token |-> row[order[n]].token + 1]]
<1> DEFINE hand == [pc |-> "send", claims |-> claims]
<1>3. \A n \in 1..Cardinality(E) :
         /\ order[n] \in E /\ order[n] \in Nat /\ claims[n] \in Publication!Claim
         /\ claims[n].event = order[n] /\ claims[n].token = row[order[n]].token + 1
  <2> SUFFICES ASSUME NEW n \in 1..Cardinality(E)
               PROVE  /\ order[n] \in E /\ order[n] \in Nat /\ claims[n] \in Publication!Claim
                      /\ claims[n].event = order[n]
                      /\ claims[n].token = row[order[n]].token + 1
    OBVIOUS
  <2>1. order[n] \in E /\ order[n] \in Event /\ order[n] \in Nat
    BY <1>1, <1>2
  <2>2. row[order[n]].token + 1 \in Nat
    BY <2>1, OutboxTyped
  <2>3. claims[n] = [event |-> order[n], token |-> row[order[n]].token + 1]
    OBVIOUS
  <2>4. QED
    BY <2>1, <2>2, <2>3 DEF Publication!Claim
<1>4. claims \in Seq(Publication!Claim) /\ DOMAIN claims = 1..Cardinality(E) /\ claims # <<>>
  BY <1>2, <1>3
<1>5. \A m, n \in 1..Cardinality(E) : claims[m] = claims[n] => m = n
  <2>1. \A m, n \in 1..Cardinality(E) : order[m] = order[n] => m = n
    <3>1. DOMAIN order = 1..Cardinality(E)
      BY <1>1
    <3>2. \A m, n \in 1..Cardinality(E) : m < n => order[m] < order[n]
      BY <1>1, <3>1
    <3>3. \A n \in 1..Cardinality(E) : order[n] \in Nat
      BY <1>3
    <3> HIDE DEF claims
    <3> SUFFICES ASSUME NEW m \in 1..Cardinality(E), NEW n \in 1..Cardinality(E),
                        order[m] = order[n], m # n
                 PROVE  FALSE
      OBVIOUS
    <3>4. m \in Nat /\ n \in Nat /\ (m < n \/ n < m)
      BY <1>2
    <3>5. order[m] \in Nat /\ order[n] \in Nat
      BY <3>3
    <3>6. QED
      BY <3>2, <3>4, <3>5
  <2>2. QED
    BY <1>3, <2>1
<1>6. publisher' = [publisher EXCEPT ![p] = hand]
  <2>1. DOMAIN order = 1..Cardinality(E)
    BY <1>1
  <2>2. QED
    BY <1>1, <2>1
<1> HIDE DEF claims
<1>7. hand \in Publication!PublisherState /\ hand.pc = "send" /\ hand.claims = claims
  BY <1>4 DEF Publication!PublisherState
<1> HIDE DEF hand
<1>8. /\ publisher'[p] = hand /\ \A q \in Publication!Process : q # p
           => publisher'[q] = publisher[q]
      /\ publisher' \in [Publication!Process -> Publication!PublisherState]
  BY <1>6, <1>7, OutboxTyped
<1>9. \A n \in DOMAIN claims :
         claims[n].event \in E /\ claims[n].token = row[claims[n].event].token + 1
  BY <1>3, <1>4
<1>10. QED
  BY <1>4, <1>5, <1>7, <1>8, <1>9 DEF HandFilled

\* What claiming does to the rows.
LEMMA RowsClaimed ==
  ASSUME OutboxInv, NEW p \in Publication!Process, NEW E \in SUBSET Event,
           Publication!ClaimRows(p, E)
  PROVE  /\ row' \in [Event -> Publication!Row]
         /\ \A e \in E : /\ row'[e].state = "claimed" /\ row'[e].stale = FALSE
                         /\ row'[e].token = row[e].token + 1
         /\ \A e \in Event \ E : row'[e] = row[e]
         /\ \A e \in Event : row[e].token <= row'[e].token
         /\ UNCHANGED <<accepted, faults>>
<1> DEFINE new(e) == [state |-> "claimed", token |-> row[e].token + 1, stale |-> FALSE]
<1>1. \A e \in Event : /\ new(e) \in Publication!Row /\ new(e).state = "claimed"
        /\ new(e).stale = FALSE
                       /\ new(e).token = row[e].token + 1
  BY OutboxTyped DEF Publication!Row
<1>2. row' = [e \in Event |-> IF e \in E THEN new(e) ELSE row[e]]
      /\ UNCHANGED <<accepted, faults>>
  BY DEF Publication!ClaimRows
<1> HIDE DEF new
<1>3. /\ \A e \in E : row'[e] = new(e)
      /\ \A e \in Event \ E : row'[e] = row[e]
  BY <1>2
<1>4. row' \in [Event -> Publication!Row]
  BY <1>1, <1>2, OutboxTyped
<1>5. \A e \in Event : row[e].token <= row'[e].token
  BY <1>1, <1>3, OutboxTyped
<1>6. QED
  BY <1>1, <1>2, <1>3, <1>4, <1>5

\* A claim of rows that may be claimed keeps the invariant: it takes tokens no claim
\* has yet, one for each row that was open.
LEMMA ClaimKeeps ==
  ASSUME Publication!OutboxAssumption, OutboxInv, NEW p \in Publication!Process,
           publisher[p].pc = "idle",
         NEW E \in SUBSET Event, E # {}, \A e \in E : Publication!Claimable(e),
           Publication!ClaimRows(p, E)
  PROVE  OutboxInv'
<1>1. HandFilled(p, E)
  BY ClaimEffect
<1>2. publisher[p].claims = <<>>
  BY DEF OutboxInv, ClaimsInWork
<1>3. Publication!TypeOK'
  BY <1>1, RowsClaimed, OutboxTyped DEF HandFilled, Publication!TypeOK
<1>4. ClaimsInWork'
  BY <1>1 DEF HandFilled, OutboxInv, ClaimsInWork
<1>5. \A q \in Publication!Process : publisher'[q].claims \in Seq(Publication!Claim)
  BY <1>3 DEF Publication!TypeOK, Publication!PublisherState
<1>6. \A q \in Publication!Process : \A n \in DOMAIN publisher[q].claims :
         /\ publisher[q].claims[n].event \in Event /\ publisher[q].claims[n].token \in Nat
         /\ row[publisher[q].claims[n].event].state # "absent"
         /\ publisher[q].claims[n].token <= row[publisher[q].claims[n].event].token
  <2> SUFFICES ASSUME NEW q \in Publication!Process, NEW n \in DOMAIN publisher[q].claims
               PROVE  /\ publisher[q].claims[n].event \in Event
                      /\ publisher[q].claims[n].token \in Nat
                      /\ row[publisher[q].claims[n].event].state # "absent"
                      /\ publisher[q].claims[n].token
                            <= row[publisher[q].claims[n].event].token
    OBVIOUS
  <2>1. publisher[q].claims[n] \in Publication!Claim
    BY OutboxTyped
  <2>2. QED
    BY <2>1 DEF Publication!Claim, OutboxInv, TokensUsed
<1>7. TokensUsed'
  <2> SUFFICES ASSUME NEW q \in Publication!Process, NEW n \in DOMAIN publisher'[q].claims
               PROVE  LET claim == publisher'[q].claims[n]
                      IN  /\ row'[claim.event].state # "absent"
                          /\ claim.token <= row'[claim.event].token
    BY DEF TokensUsed
  <2> DEFINE claim == publisher'[q].claims[n]
  <2>1. CASE q = p
    <3>1. /\ claim.event \in E /\ claim.token = row[claim.event].token + 1
      BY <1>1, <2>1 DEF HandFilled
    <3> HIDE DEF claim
    <3>2. row'[claim.event].state = "claimed" /\ row'[claim.event].token = claim.token
          /\ claim.token \in Nat
      <4>1. claim.event \in Event /\ row[claim.event].token \in Nat
        BY <3>1, OutboxTyped
      <4>2. /\ row'[claim.event].state = "claimed"
            /\ row'[claim.event].token = row[claim.event].token + 1
        BY <3>1, RowsClaimed
      <4>3. QED
        BY <3>1, <4>1, <4>2
    <3>3. QED
      BY <3>2 DEF claim
  <2>2. CASE q # p
    <3>1. /\ claim.event \in Event /\ claim.token \in Nat
          /\ row[claim.event].state # "absent" /\ claim.token <= row[claim.event].token
      BY <1>1, <1>6, <2>2 DEF HandFilled
    <3> HIDE DEF claim
    <3>2. /\ row'[claim.event].state # "absent"
          /\ row[claim.event].token <= row'[claim.event].token
          /\ row[claim.event].token \in Nat /\ row'[claim.event].token \in Nat
      BY <3>1, RowsClaimed, OutboxTyped DEF Publication!Row
    <3>3. claim.token <= row'[claim.event].token
      BY <3>1, <3>2
    <3>4. QED
      BY <3>2, <3>3 DEF claim
  <2>3. QED
    BY <2>1, <2>2
<1>8. StaleIsClaimed'
  BY RowsClaimed DEF OutboxInv, StaleIsClaimed
<1>9. ASSUME NEW q \in Publication!Process, NEW n \in DOMAIN publisher[q].claims,
             NEW k \in DOMAIN publisher'[p].claims,
             publisher[q].claims[n] = publisher'[p].claims[k]
      PROVE  FALSE
  <2> DEFINE claim == publisher[q].claims[n]
  <2>1. /\ claim.event \in Event /\ claim.token \in Nat
        /\ claim.token <= row[claim.event].token
    BY <1>6
  <2>2. claim.token = row[claim.event].token + 1
    BY <1>1, <1>9 DEF HandFilled
  <2> HIDE DEF claim
  <2>3. QED
    BY <2>1, <2>2, OutboxTyped
<1>10. ClaimsDiffer'
  <2> SUFFICES ASSUME NEW q \in Publication!Process, NEW r \in Publication!Process,
                      NEW m \in DOMAIN publisher'[q].claims,
                      NEW n \in DOMAIN publisher'[r].claims,
                      publisher'[q].claims[m] = publisher'[r].claims[n]
               PROVE  q = r /\ m = n
    BY DEF ClaimsDiffer
  <2>1. CASE q = p /\ r = p
    BY <1>1, <2>1 DEF HandFilled
  <2>2. CASE q = p /\ r # p
    <3>1. publisher'[r] = publisher[r]
      BY <1>1, <2>2 DEF HandFilled
    <3>2. QED
      BY <1>9, <2>2, <3>1
  <2>3. CASE q # p /\ r = p
    <3>1. publisher'[q] = publisher[q]
      BY <1>1, <2>3 DEF HandFilled
    <3>2. QED
      BY <1>9, <2>3, <3>1
  <2>4. CASE q # p /\ r # p
    BY <1>1, <2>4 DEF HandFilled, OutboxInv, ClaimsDiffer
  <2>5. QED
    BY <2>1, <2>2, <2>3, <2>4
<1>11. SentWasSent'
  <2> SUFFICES ASSUME NEW q \in Publication!Process, publisher'[q].pc = "ack"
               PROVE  accepted'[Head(publisher'[q].claims).event] > 0
    BY DEF SentWasSent, Publication!Current
  <2>1. q # p /\ publisher'[q] = publisher[q]
    BY <1>1 DEF HandFilled
  <2>2. QED
    BY <2>1, RowsClaimed DEF OutboxInv, SentWasSent, Publication!Current
<1>12. Publication!EnqueuedWasAccepted'
  BY RowsClaimed DEF OutboxInv, Publication!EnqueuedWasAccepted
<1>13. FaultsPaid'
  <2> SUFFICES ASSUME NEW e \in Event
               PROVE  /\ IsFiniteSet(Pending(e)')
                      /\ accepted'[e] + Cardinality(Pending(e)') + Open(e)' <= 1 + faults'[e]
    BY DEF FaultsPaid
  <2>1. ASSUME NEW t \in Nat, NEW q \in Publication!Process, Waits(q, [event |-> e, token |-> t])'
        PROVE  t \in Pending(e) \/ (e \in E /\ t = row[e].token + 1)
    <3>1. CASE q = p
      <4>1. PICK n \in DOMAIN publisher'[p].claims :
               publisher'[p].claims[n] = [event |-> e, token |-> t]
        BY <2>1, <3>1 DEF Waits
      <4>2. e \in E /\ t = row[e].token + 1
        BY <1>1, <4>1 DEF HandFilled
      <4>3. QED
        BY <4>2
    <3>2. CASE q # p
      <4>1. Waits(q, [event |-> e, token |-> t])
        BY <1>1, <2>1, <3>2 DEF Waits, HandFilled
      <4>2. QED
        BY <4>1 DEF Pending
    <3>3. QED
      BY <3>1, <3>2
  <2>2. CASE e \in E
    <3>1. Pending(e)' \subseteq Pending(e) \union {row[e].token + 1}
      BY <2>1, <2>2 DEF Pending
    <3>2. Open(e) = 1 /\ Open(e)' = 0
      <4>1. row[e].state = "pending" \/ row[e].stale
        BY <2>2 DEF Publication!Claimable
      <4>2. row'[e].state = "claimed" /\ row'[e].stale = FALSE
        BY <2>2, RowsClaimed
      <4>3. QED
        BY <4>1, <4>2 DEF Open
    <3> DEFINE S == Pending(e) \union {row[e].token + 1}
    <3>3. /\ IsFiniteSet(S) /\ Cardinality(S) \in Nat
          /\ Cardinality(S) <= Cardinality(Pending(e)) + 1
      <4>1. /\ IsFiniteSet(S)
            /\ Cardinality(S) = IF row[e].token + 1 \in Pending(e) THEN Cardinality(Pending(e))
                                ELSE Cardinality(Pending(e)) + 1
        BY PaidNow, FS_AddElement
      <4> HIDE DEF S
      <4>2. QED
        BY <4>1, PaidNow
    <3> HIDE DEF S
    <3>4. accepted'[e] = accepted[e] /\ faults'[e] = faults[e]
      BY RowsClaimed
    <3>5. accepted'[e] + Cardinality(S) + Open(e)' <= 1 + faults'[e]
      BY <3>2, <3>3, <3>4, PaidNow
    <3>6. Pending(e)' \subseteq S
      BY <3>1 DEF S
    <3>7. QED
      BY <3>3, <3>4, <3>5, <3>6, PaidNow, PaidNext
  <2>3. CASE e \notin E
    <3>1. Pending(e)' \subseteq Pending(e)
      BY <2>1, <2>3 DEF Pending
    <3>2. Open(e)' = Open(e) /\ accepted'[e] = accepted[e] /\ faults'[e] = faults[e]
      BY <2>3, RowsClaimed DEF Open
    <3>3. accepted'[e] + Cardinality(Pending(e)) + Open(e)' <= 1 + faults'[e]
      BY <3>2, PaidNow
    <3>4. QED
      BY <3>1, <3>2, <3>3, PaidNow, PaidNext
  <2>4. QED
    BY <2>2, <2>3
<1>14. QED
  BY <1>3, <1>4, <1>7, <1>8, <1>10, <1>11, <1>12, <1>13 DEF OutboxInv

--------------------------------------------------------------------------------
(* Publications *)

\* What was accepted stays accepted.
LEMMA SentKeeps ==
  ASSUME OutboxInv, NEW p \in Publication!Process, \A q \in Publication!Process : q # p
           => publisher'[q] = publisher[q],
         publisher'[p].pc = "ack" => accepted'[Head(publisher'[p].claims).event] > 0,
         \A e \in Event : accepted'[e] \in Nat /\ accepted'[e] >= accepted[e]
  PROVE  SentWasSent'
<1> SUFFICES ASSUME NEW q \in Publication!Process, q # p, publisher[q].pc = "ack"
             PROVE  accepted'[Head(publisher[q].claims).event] > 0
  BY DEF SentWasSent, Publication!Current
<1>1. Publication!Current(q).event \in Event /\ accepted[Publication!Current(q).event] > 0
  BY InHand DEF OutboxInv, SentWasSent
<1>2. accepted'[Publication!Current(q).event] > 0
  BY <1>1, OutboxTyped
<1>3. QED
  BY <1>2 DEF Publication!Current

\* The rows after a step of a publisher that has claimed, and what remains to be shown.
LEMMA HandStepKeeps ==
  ASSUME OutboxInv, NEW p \in Publication!Process, HandShrinks(p), Publication!TypeOK',
         publisher'[p].pc = "ack" => accepted'[Head(publisher'[p].claims).event] > 0,
         \A e \in Event :
             /\ accepted'[e] >= accepted[e] /\ row'[e].token = row[e].token
             /\ row[e].state # "absent" => row'[e].state # "absent"
             /\ row'[e].stale => row'[e].state = "claimed"
             /\ row'[e].state = "enqueued" => accepted'[e] > 0,
         FaultsPaid'
  PROVE  OutboxInv'
<1>1. ClaimsInWork' /\ ClaimsDiffer'
  BY HandKeeps
<1>2. TokensUsed'
  BY TokensKeep
<1>3. StaleIsClaimed' /\ Publication!EnqueuedWasAccepted'
  BY DEF StaleIsClaimed, Publication!EnqueuedWasAccepted
<1>4. SentWasSent'
  <2>1. \A e \in Event : accepted'[e] \in Nat
    BY DEF Publication!TypeOK
  <2>2. \A q \in Publication!Process : q # p => publisher'[q] = publisher[q]
    BY DEF HandShrinks
  <2>3. QED
    BY <2>1, <2>2, SentKeeps
<1>5. QED
  BY <1>1, <1>2, <1>3, <1>4 DEF OutboxInv

\* A step that leaves the rows alone says of them what the last state said.
LEMMA RowsSame ==
  ASSUME OutboxInv, UNCHANGED row, \A e \in Event : accepted'[e] \in Nat
           /\ accepted'[e] >= accepted[e]
  PROVE  \A e \in Event :
             /\ row'[e].token = row[e].token
             /\ row[e].state # "absent" => row'[e].state # "absent"
             /\ row'[e].stale => row'[e].state = "claimed"
             /\ row'[e].state = "enqueued" => accepted'[e] > 0
             /\ Open(e)' = Open(e)
<1> SUFFICES ASSUME NEW e \in Event
             PROVE  /\ row[e].stale => row[e].state = "claimed"
                    /\ row[e].state = "enqueued" => accepted'[e] > 0
                    /\ Open(e)' = Open(e)
  OBVIOUS
<1>1. /\ row[e].stale => row[e].state = "claimed"
      /\ row[e].state = "enqueued" => accepted[e] > 0
  BY DEF OutboxInv, StaleIsClaimed, Publication!EnqueuedWasAccepted
<1>2. Open(e)' = Open(e)
  BY DEF Open
<1>3. QED
  BY <1>1, <1>2, OutboxTyped

\* What a fault costs.
LEMMA FaultEffect ==
  ASSUME Publication!OutboxAssumption, OutboxInv, NEW e \in Event, Publication!Fault(e)
  PROVE  /\ faults' \in [Event -> 0..MaxFaults]
         /\ faults'[e] = faults[e] + 1
         /\ \A f \in Event : f # e => faults'[f] = faults[f]
         /\ \A f \in Event : faults'[f] \in Nat /\ faults'[f] >= faults[f]
<1>1. /\ faults \in [Event -> 0..MaxFaults] /\ faults[e] < MaxFaults
      /\ faults' = [faults EXCEPT ![e] = faults[e] + 1]
      /\ MaxFaults \in Nat
  BY OutboxTyped DEF Publication!Fault, Publication!OutboxAssumption
<1>2. faults[e] + 1 \in 0..MaxFaults
  BY <1>1
<1>3. QED
  BY <1>1, <1>2

\* One more message of the event in hand.
LEMMA AcceptedEffect ==
  ASSUME OutboxInv, NEW e \in Event, accepted' = [accepted EXCEPT ![e] = @ + 1]
  PROVE  /\ accepted' \in [Event -> Nat] /\ accepted'[e] = accepted[e] + 1 /\ accepted'[e] > 0
         /\ \A f \in Event : f # e => accepted'[f] = accepted[f]
         /\ \A f \in Event : accepted'[f] \in Nat /\ accepted'[f] >= accepted[f]
<1>1. accepted \in [Event -> Nat] /\ accepted[e] + 1 \in Nat
  BY OutboxTyped
<1>2. QED
  BY <1>1

\* The broker accepts a message: the claim that paid for it is spent.
LEMMA SendKeeps ==
  ASSUME Publication!OutboxAssumption, OutboxInv, NEW p \in Publication!Process,
           Publication!Send(p)
  PROVE  OutboxInv'
<1> DEFINE cur == Publication!Current(p).event
<1>1. /\ publisher[p].pc = "send" /\ Publication!Enter(p, "ack") /\ UNCHANGED <<row, faults>>
      /\ accepted' = [accepted EXCEPT ![cur] = @ + 1]
  BY DEF Publication!Send
<1>2. cur \in Event
  BY <1>1, InHand
<1>3. /\ publisher'[p].pc = "ack" /\ publisher'[p].claims = publisher[p].claims
      /\ \A q \in Publication!Process : q # p => publisher'[q] = publisher[q]
      /\ publisher' \in [Publication!Process -> Publication!PublisherState]
  BY <1>1, HandSteps
<1>4. HandShrinks(p)
  BY <1>1, <1>3 DEF HandShrinks
<1>5. /\ accepted' \in [Event -> Nat] /\ accepted'[cur] = accepted[cur] + 1 /\ accepted'[cur] > 0
      /\ \A e \in Event : e # cur => accepted'[e] = accepted[e]
      /\ \A e \in Event : accepted'[e] \in Nat /\ accepted'[e] >= accepted[e]
  BY <1>1, <1>2, AcceptedEffect
<1>6. Publication!TypeOK'
  BY <1>1, <1>3, <1>5, OutboxTyped DEF Publication!TypeOK
<1>7. FaultsPaid'
  <2> SUFFICES ASSUME NEW e \in Event
               PROVE  /\ IsFiniteSet(Pending(e)')
                      /\ accepted'[e] + Cardinality(Pending(e)') + Open(e)' <= 1 + faults'[e]
    BY DEF FaultsPaid
  <2>1. Open(e)' = Open(e) /\ faults'[e] = faults[e]
    BY <1>1 DEF Open
  <2>2. CASE e = cur
    <3> DEFINE S == Pending(e) \ {Publication!Current(p).token}
    <3>1. Pending(e)' \subseteq S /\ Publication!Current(p).token \in Pending(e)
      BY <1>1, <1>3, <1>4, <2>2, CurrentToken
    <3>2. IsFiniteSet(S) /\ Cardinality(S) = Cardinality(Pending(e)) - 1
      BY <3>1, PaidNow, FS_RemoveElement
    <3> HIDE DEF S
    <3>3. accepted'[e] + Cardinality(S) + Open(e)' <= 1 + faults'[e]
      BY <1>5, <2>1, <2>2, <3>2, PaidNow
    <3>4. QED
      BY <1>5, <2>1, <3>1, <3>2, <3>3, PaidNow, PaidNext
  <2>3. CASE e # cur
    <3>1. Pending(e)' \subseteq Pending(e)
      BY <1>4, HandKeeps
    <3>2. accepted'[e] + Cardinality(Pending(e)) + Open(e)' <= 1 + faults'[e]
      BY <1>5, <2>1, <2>3, PaidNow
    <3>3. QED
      BY <1>5, <2>1, <3>1, <3>2, PaidNow, PaidNext
  <2>4. QED
    BY <2>2, <2>3
<1>8. accepted'[Head(publisher'[p].claims).event] > 0
  BY <1>3, <1>5 DEF Publication!Current
<1>9. QED
  BY <1>1, <1>4, <1>5, <1>6, <1>7, <1>8, RowsSame, HandStepKeeps

\* A publication fails, whether the broker has the message or not.
LEMMA SendFailsKeeps ==
  ASSUME Publication!OutboxAssumption, OutboxInv, NEW p \in Publication!Process,
           Publication!SendFails(p)
  PROVE  OutboxInv'
<1> DEFINE cur == Publication!Current(p).event
<1>1. /\ publisher[p].pc = "send" /\ Publication!Enter(p, "release") /\ UNCHANGED row
      /\ Publication!Fault(cur)
      /\ UNCHANGED accepted \/ accepted' = [accepted EXCEPT ![cur] = @ + 1]
  BY DEF Publication!SendFails
<1>2. cur \in Event
  BY <1>1, InHand
<1>3. /\ publisher'[p].pc = "release" /\ publisher'[p].claims = publisher[p].claims
      /\ \A q \in Publication!Process : q # p => publisher'[q] = publisher[q]
      /\ publisher' \in [Publication!Process -> Publication!PublisherState]
  BY <1>1, HandSteps
<1>4. HandShrinks(p)
  BY <1>1, <1>3 DEF HandShrinks
<1>5. /\ accepted' \in [Event -> Nat]
      /\ \A e \in Event : /\ accepted'[e] \in Nat /\ accepted'[e] >= accepted[e]
                          /\ e # cur => accepted'[e] = accepted[e]
                          /\ accepted'[e] <= accepted[e] + 1
  <2>1. CASE UNCHANGED accepted
    BY <2>1, OutboxTyped
  <2>2. CASE accepted' = [accepted EXCEPT ![cur] = @ + 1]
    <3> HIDE DEF cur
    <3>1. QED
      BY <1>2, <2>2, AcceptedEffect, OutboxTyped
  <2>3. QED
    BY <1>1, <2>1, <2>2
<1>6. /\ faults' \in [Event -> 0..MaxFaults] /\ faults'[cur] = faults[cur] + 1
      /\ \A e \in Event : e # cur => faults'[e] = faults[e]
      /\ \A e \in Event : faults'[e] \in Nat
  BY <1>1, <1>2, FaultEffect
<1>7. Publication!TypeOK'
  BY <1>1, <1>3, <1>5, <1>6, OutboxTyped DEF Publication!TypeOK
<1>8. FaultsPaid'
  <2> SUFFICES ASSUME NEW e \in Event
               PROVE  /\ IsFiniteSet(Pending(e)')
                      /\ accepted'[e] + Cardinality(Pending(e)') + Open(e)' <= 1 + faults'[e]
    BY DEF FaultsPaid
  <2>1. Open(e)' = Open(e)
    BY <1>1 DEF Open
  <2>2. Pending(e)' \subseteq Pending(e)
    BY <1>4, HandKeeps
  <2> HIDE DEF cur
  <2>3. accepted'[e] + Cardinality(Pending(e)) + Open(e)' <= 1 + faults'[e]
    <3>1. CASE e = cur
      <4>1. faults'[e] = faults[e] + 1 /\ accepted'[e] <= accepted[e] + 1 /\ accepted'[e] \in Nat
        BY <1>5, <1>6, <3>1
      <4>2. QED
        BY <2>1, <4>1, PaidNow
    <3>2. CASE e # cur
      BY <1>5, <1>6, <2>1, <3>2, PaidNow
    <3>3. QED
      BY <3>1, <3>2
  <2>4. QED
    BY <1>5, <1>6, <2>2, <2>3, PaidNow, PaidNext
<1>9. QED
  BY <1>1, <1>3, <1>4, <1>5, <1>7, <1>8, RowsSame, HandStepKeeps

\* The row of the claim in hand gets another state, when the claim is still in force.
LEMMA RowSettled ==
  ASSUME OutboxInv, NEW p \in Publication!Process, publisher[p].pc # "idle",
         NEW state \in {"pending", "enqueued"},
         row' = IF Publication!Holds(Publication!Current(p))
                THEN [row EXCEPT ![Publication!Current(p).event].state = state,
                                 ![Publication!Current(p).event].stale = FALSE]
                ELSE row
  PROVE  /\ row' \in [Event -> Publication!Row]
         /\ \A e \in Event :
               /\ row'[e].token = row[e].token
               /\ \/ row'[e] = row[e]
                  \/ /\ e = Publication!Current(p).event /\ row[e].state = "claimed"
                     /\ row'[e].state = state /\ row'[e].stale = FALSE
<1>1. row \in [Event -> Publication!Row] /\ Publication!Current(p).event \in Event
  BY InHand, OutboxTyped
<1>2. CASE Publication!Holds(Publication!Current(p))
  <2> DEFINE new == [row[Publication!Current(p).event] EXCEPT !.state = state, !.stale = FALSE]
  <2>1. row' = [row EXCEPT ![Publication!Current(p).event] = new]
    BY <1>1, <1>2
  <2>2. /\ new \in Publication!Row /\ new.state = state /\ new.stale = FALSE
        /\ new.token = row[Publication!Current(p).event].token
    BY <1>1 DEF Publication!Row
  <2> HIDE DEF new
  <2>3. row[Publication!Current(p).event].state = "claimed"
    BY <1>2 DEF Publication!Holds
  <2>4. QED
    BY <1>1, <2>1, <2>2, <2>3
<1>3. CASE ~Publication!Holds(Publication!Current(p))
  BY <1>1, <1>3
<1>4. QED
  BY <1>2, <1>3

\* A publication that was accepted is acknowledged.
LEMMA MarkEnqueuedKeeps ==
  ASSUME Publication!OutboxAssumption, OutboxInv, NEW p \in Publication!Process,
           Publication!MarkEnqueued(p)
  PROVE  OutboxInv'
<1>1. publisher[p].pc = "ack" /\ Publication!Advance(p) /\ UNCHANGED <<accepted, faults>>
  BY DEF Publication!MarkEnqueued
<1>2. /\ HandShrinks(p) /\ publisher'[p].pc \in {"idle", "send"}
      /\ publisher' \in [Publication!Process -> Publication!PublisherState]
  BY <1>1, HandSteps
<1>3. /\ row' \in [Event -> Publication!Row]
      /\ \A e \in Event :
            /\ row'[e].token = row[e].token
            /\ \/ row'[e] = row[e]
               \/ /\ e = Publication!Current(p).event /\ row[e].state = "claimed"
                  /\ row'[e].state = "enqueued" /\ row'[e].stale = FALSE
  BY <1>1, RowSettled DEF Publication!MarkEnqueued
<1>4. Publication!TypeOK'
  BY <1>1, <1>2, <1>3, OutboxTyped DEF Publication!TypeOK
<1>5. accepted[Publication!Current(p).event] > 0
  BY <1>1 DEF OutboxInv, SentWasSent
<1>6. \A e \in Event :
         /\ accepted'[e] >= accepted[e] /\ row'[e].token = row[e].token
         /\ row[e].state # "absent" => row'[e].state # "absent"
         /\ row'[e].stale => row'[e].state = "claimed"
         /\ row'[e].state = "enqueued" => accepted'[e] > 0
  BY <1>1, <1>3, <1>5, OutboxTyped DEF OutboxInv, StaleIsClaimed, Publication!EnqueuedWasAccepted
<1>7. \A e \in Event : Open(e)' <= Open(e)
  BY <1>3 DEF Open
<1>8. FaultsPaid'
  <2>1. \A e \in Event : /\ accepted'[e] = accepted[e]
                         /\ faults'[e] \in Nat /\ faults'[e] >= faults[e]
    BY <1>1, PaidNow
  <2>2. QED
    BY <1>2, <1>7, <2>1, PaidKeeps
<1>9. QED
  BY <1>2, <1>4, <1>6, <1>8, HandStepKeeps

\* A claim is handed back: its row is open again, and no message of it can follow.
LEMMA ReleaseClaimKeeps ==
  ASSUME Publication!OutboxAssumption, OutboxInv, NEW p \in Publication!Process,
           Publication!ReleaseClaim(p)
  PROVE  OutboxInv'
<1>1. publisher[p].pc = "release" /\ Publication!Advance(p) /\ UNCHANGED <<accepted, faults>>
  BY DEF Publication!ReleaseClaim
<1>2. /\ HandShrinks(p) /\ publisher'[p].pc \in {"idle", "send"}
      /\ publisher'[p].claims \in {<<>>, Tail(publisher[p].claims)}
      /\ publisher' \in [Publication!Process -> Publication!PublisherState]
  BY <1>1, HandSteps
<1>3. /\ row' \in [Event -> Publication!Row]
      /\ \A e \in Event :
            /\ row'[e].token = row[e].token
            /\ \/ row'[e] = row[e]
               \/ /\ e = Publication!Current(p).event /\ row[e].state = "claimed"
                  /\ row'[e].state = "pending" /\ row'[e].stale = FALSE
  BY <1>1, RowSettled DEF Publication!ReleaseClaim
<1>4. Publication!TypeOK'
  BY <1>1, <1>2, <1>3, OutboxTyped DEF Publication!TypeOK
<1>5. \A e \in Event :
         /\ accepted'[e] >= accepted[e] /\ row'[e].token = row[e].token
         /\ row[e].state # "absent" => row'[e].state # "absent"
         /\ row'[e].stale => row'[e].state = "claimed"
         /\ row'[e].state = "enqueued" => accepted'[e] > 0
  BY <1>1, <1>3, OutboxTyped DEF OutboxInv, StaleIsClaimed, Publication!EnqueuedWasAccepted
<1>6. FaultsPaid'
  <2> SUFFICES ASSUME NEW e \in Event
               PROVE  /\ IsFiniteSet(Pending(e)')
                      /\ accepted'[e] + Cardinality(Pending(e)') + Open(e)' <= 1 + faults'[e]
    BY DEF FaultsPaid
  <2>1. accepted'[e] = accepted[e] /\ faults'[e] = faults[e]
    BY <1>1
  <2>2. CASE row'[e] = row[e]
    <3>1. Open(e)' = Open(e)
      BY <2>2 DEF Open
    <3>2. Pending(e)' \subseteq Pending(e)
      BY <1>2, HandKeeps
    <3>3. accepted'[e] + Cardinality(Pending(e)) + Open(e)' <= 1 + faults'[e]
      BY <2>1, <3>1, PaidNow
    <3>4. QED
      BY <2>1, <3>2, <3>3, PaidNow, PaidNext
  <2>3. CASE e = Publication!Current(p).event
    <3> DEFINE S == Pending(e) \ {Publication!Current(p).token}
    <3>1. Pending(e)' \subseteq S /\ Publication!Current(p).token \in Pending(e)
      BY <1>1, <1>2, <2>3, CurrentToken
    <3>2. IsFiniteSet(S) /\ Cardinality(S) = Cardinality(Pending(e)) - 1
      BY <3>1, PaidNow, FS_RemoveElement
    <3>3. Open(e)' \in {0, 1}
      BY DEF Open
    <3> HIDE DEF S
    <3>4. accepted'[e] + Cardinality(S) + Open(e)' <= 1 + faults'[e]
      BY <2>1, <3>2, <3>3, PaidNow
    <3>5. QED
      BY <2>1, <3>1, <3>2, <3>4, PaidNow, PaidNext
  <2>4. QED
    BY <1>3, <2>2, <2>3
<1>7. QED
  BY <1>2, <1>4, <1>5, <1>6, HandStepKeeps

\* A publisher goes on or gives up without touching its row.
LEMMA GivingUpKeeps ==
  ASSUME Publication!OutboxAssumption, OutboxInv, NEW p \in Publication!Process, HandShrinks(p),
         publisher' \in [Publication!Process -> Publication!PublisherState],
           publisher'[p].pc # "ack",
         UNCHANGED <<row, accepted>>, faults' \in [Event -> 0..MaxFaults],
         \A e \in Event : faults'[e] >= faults[e]
  PROVE  OutboxInv'
<1>1. Publication!TypeOK'
  BY OutboxTyped DEF Publication!TypeOK
<1>2. \A e \in Event : accepted'[e] \in Nat /\ accepted'[e] = accepted[e]
        /\ accepted'[e] >= accepted[e]
  BY OutboxTyped
<1>3. \A e \in Event : Open(e)' = Open(e) /\ Open(e) \in {0, 1}
  BY DEF Open
<1>4. FaultsPaid'
  <2>1. \A e \in Event : /\ accepted'[e] = accepted[e] /\ Open(e)' <= Open(e)
                         /\ faults'[e] \in Nat /\ faults'[e] >= faults[e]
    BY <1>2, <1>3 DEF Publication!OutboxAssumption
  <2>2. QED
    BY <2>1, PaidKeeps
<1>5. QED
  BY <1>1, <1>2, <1>4, RowsSame, HandStepKeeps

\* An acknowledgement fails: a sweep that hands the claim back may cause another
\* message, which the fault pays for.
LEMMA MarkRaisesKeeps ==
  ASSUME Publication!OutboxAssumption, OutboxInv, NEW p \in Publication!Process,
           Publication!MarkRaises(p)
  PROVE  OutboxInv'
<1> DEFINE cur == Publication!Current(p).event
<1>1. /\ publisher[p].pc = "ack" /\ Publication!Fault(cur) /\ UNCHANGED <<row, accepted>>
      /\ Publication!Enter(p, "release") \/ Publication!Advance(p)
  BY DEF Publication!MarkRaises
<1>2. cur \in Event
  BY <1>1, InHand
<1>3. /\ faults' \in [Event -> 0..MaxFaults] /\ faults'[cur] = faults[cur] + 1
      /\ \A e \in Event : e # cur => faults'[e] = faults[e]
      /\ \A e \in Event : faults'[e] \in Nat /\ faults'[e] >= faults[e]
  BY <1>1, <1>2, FaultEffect
<1>4. CASE Publication!Advance(p)
  <2>1. /\ HandShrinks(p) /\ publisher'[p].pc \in {"idle", "send"}
        /\ publisher' \in [Publication!Process -> Publication!PublisherState]
    BY <1>1, <1>4, HandSteps
  <2>2. QED
    BY <1>1, <1>3, <2>1, GivingUpKeeps
<1>5. CASE Publication!Enter(p, "release")
  <2>1. /\ publisher'[p].pc = "release" /\ publisher'[p].claims = publisher[p].claims
        /\ \A q \in Publication!Process : q # p => publisher'[q] = publisher[q]
        /\ publisher' \in [Publication!Process -> Publication!PublisherState]
    BY <1>1, <1>5, HandSteps
  <2>2. Publication!TypeOK'
    BY <1>1, <1>3, <2>1, OutboxTyped DEF Publication!TypeOK
  <2>3. \A q \in Publication!Process : /\ publisher'[q].claims = publisher[q].claims
                                       /\ publisher'[q].pc = "idle" <=> publisher[q].pc = "idle"
    BY <1>1, <2>1
  <2>4. ClaimsInWork' /\ ClaimsDiffer' /\ TokensUsed'
    BY <1>1, <2>3 DEF OutboxInv, ClaimsInWork, ClaimsDiffer, TokensUsed
  <2>5. StaleIsClaimed' /\ Publication!EnqueuedWasAccepted'
    BY <1>1 DEF OutboxInv, StaleIsClaimed, Publication!EnqueuedWasAccepted
  <2>6. SentWasSent'
    BY <1>1, <2>1 DEF OutboxInv, SentWasSent, Publication!Current
  <2>7. FaultsPaid'
    <3> SUFFICES ASSUME NEW e \in Event
                 PROVE  /\ IsFiniteSet(Pending(e)')
                        /\ accepted'[e] + Cardinality(Pending(e)') + Open(e)' <= 1 + faults'[e]
      BY DEF FaultsPaid
    <3>1. Open(e)' = Open(e) /\ accepted'[e] = accepted[e]
      BY <1>1 DEF Open
    <3>2. ASSUME NEW t \in Nat, NEW q \in Publication!Process, Waits(q, [event |-> e,
                   token |-> t])'
          PROVE  t \in Pending(e) \/ (e = cur /\ t = Publication!Current(p).token)
      <4>1. PICK n \in DOMAIN publisher[q].claims :
               /\ publisher[q].claims[n] = [event |-> e, token |-> t]
               /\ n > 1 \/ publisher'[q].pc \in {"send", "release"}
        BY <2>3, <3>2 DEF Waits
      <4>2. CASE n > 1 \/ q # p
        <5>1. Waits(q, [event |-> e, token |-> t])
          BY <2>1, <4>1, <4>2 DEF Waits
        <5>2. QED
          BY <5>1 DEF Pending
      <4>3. CASE q = p /\ ~(n > 1)
        <5>1. n = 1
          BY <4>3, OutboxTyped
        <5>2. Publication!Current(p) = [event |-> e, token |-> t]
          BY <1>1, <4>1, <4>3, <5>1, InHand
        <5>3. QED
          BY <5>2
      <4>4. QED
        BY <4>2, <4>3
    <3>3. CASE e = cur
      <4> DEFINE S == Pending(e) \union {Publication!Current(p).token}
      <4>1. Pending(e)' \subseteq S
        BY <3>2 DEF Pending
      <4>2. /\ IsFiniteSet(S) /\ Cardinality(S) \in Nat
            /\ Cardinality(S) <= Cardinality(Pending(e)) + 1
        <5>1. /\ IsFiniteSet(S)
              /\ Cardinality(S) = IF Publication!Current(p).token \in Pending(e)
                                  THEN Cardinality(Pending(e))
                                  ELSE Cardinality(Pending(e)) + 1
          BY PaidNow, FS_AddElement
        <5> HIDE DEF S
        <5>2. QED
          BY <5>1, PaidNow
      <4> HIDE DEF S
      <4>3. accepted'[e] + Cardinality(S) + Open(e)' <= 1 + faults'[e]
        BY <1>3, <3>1, <3>3, <4>2, PaidNow
      <4>4. QED
        BY <1>3, <3>1, <4>1, <4>2, <4>3, PaidNow, PaidNext
    <3>4. CASE e # cur
      <4>1. Pending(e)' \subseteq Pending(e)
        BY <3>2, <3>4 DEF Pending
      <4>2. accepted'[e] + Cardinality(Pending(e)) + Open(e)' <= 1 + faults'[e]
        BY <1>3, <3>1, <3>4, PaidNow
      <4>3. QED
        BY <1>3, <3>1, <4>1, <4>2, PaidNow, PaidNext
    <3>5. QED
      BY <3>3, <3>4
  <2>8. QED
    BY <2>2, <2>4, <2>5, <2>6, <2>7 DEF OutboxInv
<1>6. QED
  BY <1>1, <1>4, <1>5

\* A claim is left behind, or a publisher stops.
LEMMA LeavingKeeps ==
  ASSUME Publication!OutboxAssumption, OutboxInv, NEW p \in Publication!Process,
           Publication!LeaveClaim(p) \/ Publication!EndEarly(p)
  PROVE  OutboxInv'
<1>1. /\ publisher[p].pc # "idle" /\ UNCHANGED <<row, accepted, faults>>
      /\ Publication!Advance(p) \/ publisher' = [publisher EXCEPT ![p] = Publication!Idle]
  BY DEF Publication!LeaveClaim, Publication!EndEarly
<1>2. /\ HandShrinks(p) /\ publisher'[p].pc # "ack"
      /\ publisher' \in [Publication!Process -> Publication!PublisherState]
  <2>1. CASE Publication!Advance(p)
    BY <1>1, <2>1, HandSteps
  <2>2. CASE publisher' = [publisher EXCEPT ![p] = Publication!Idle]
    <3>1. Publication!Idle \in Publication!PublisherState
      BY DEF Publication!Idle, Publication!PublisherState
    <3>2. publisher' \in [Publication!Process -> Publication!PublisherState]
      BY <2>2, <3>1, OutboxTyped
    <3>3. QED
      BY <1>1, <2>2, <3>2, HandSteps
  <2>3. QED
    BY <1>1, <2>1, <2>2
<1>3. faults' \in [Event -> 0..MaxFaults] /\ \A e \in Event : faults'[e] >= faults[e]
  BY <1>1, OutboxTyped, PaidNow
<1>4. QED
  BY <1>1, <1>2, <1>3, GivingUpKeeps

\* An event is written, or a claim outlives its time.
LEMMA RowStepKeeps ==
  ASSUME Publication!OutboxAssumption, OutboxInv, NEW f \in Event,
           Publication!EnsureEvent(f) \/ Publication!ClaimAges(f)
  PROVE  OutboxInv'
<1>1. UNCHANGED <<publisher, accepted>>
  BY DEF Publication!EnsureEvent, Publication!ClaimAges
<1>2. /\ row' \in [Event -> Publication!Row]
      /\ \A e \in Event : e # f => row'[e] = row[e]
      /\ row'[f].token = row[f].token
      /\ \/ /\ row[f].state = "absent" /\ row'[f].state = "pending"
            /\ row'[f].stale = row[f].stale /\ faults' = faults
         \/ /\ row[f].state = "claimed" /\ row'[f].state = "claimed"
            /\ row'[f].stale = TRUE /\ Publication!Fault(f)
  <2>1. row \in [Event -> Publication!Row] /\ row[f] \in Publication!Row
    BY OutboxTyped
  <2>2. CASE Publication!EnsureEvent(f)
    <3>1. row' = [row EXCEPT ![f] = [row[f] EXCEPT !.state = "pending"]]
      BY <2>1, <2>2 DEF Publication!EnsureEvent
    <3> DEFINE new == [row[f] EXCEPT !.state = "pending"]
    <3>2. /\ new \in Publication!Row /\ new.state = "pending" /\ new.stale = row[f].stale
          /\ new.token = row[f].token
      BY <2>1 DEF Publication!Row
    <3> HIDE DEF new
    <3>3. row' \in [Event -> Publication!Row] /\ row'[f] = new /\ \A e \in Event : e # f
            => row'[e] = row[e]
      BY <2>1, <3>1, <3>2 DEF new
    <3>4. QED
      BY <2>2, <3>2, <3>3 DEF Publication!EnsureEvent
  <2>3. CASE Publication!ClaimAges(f)
    <3>1. row' = [row EXCEPT ![f] = [row[f] EXCEPT !.stale = TRUE]]
      BY <2>1, <2>3 DEF Publication!ClaimAges
    <3> DEFINE new == [row[f] EXCEPT !.stale = TRUE]
    <3>2. /\ new \in Publication!Row /\ new.state = row[f].state /\ new.stale = TRUE
          /\ new.token = row[f].token
      BY <2>1 DEF Publication!Row
    <3> HIDE DEF new
    <3>3. row' \in [Event -> Publication!Row] /\ row'[f] = new /\ \A e \in Event : e # f
            => row'[e] = row[e]
      BY <2>1, <3>1, <3>2 DEF new
    <3>4. QED
      BY <2>3, <3>2, <3>3 DEF Publication!ClaimAges
  <2>4. QED
    BY <2>2, <2>3
<1>3. /\ faults' \in [Event -> 0..MaxFaults]
      /\ \A e \in Event : faults'[e] \in Nat /\ faults'[e] >= faults[e]
      /\ faults' # faults => faults'[f] = faults[f] + 1
  <2>1. CASE faults' = faults
    BY <2>1, OutboxTyped, PaidNow
  <2>2. CASE Publication!Fault(f)
    BY <2>2, FaultEffect
  <2>3. QED
    BY <1>2, <2>1, <2>2
<1>4. Publication!TypeOK'
  BY <1>1, <1>2, <1>3, OutboxTyped DEF Publication!TypeOK
<1>5. ClaimsInWork' /\ ClaimsDiffer' /\ SentWasSent'
  BY <1>1 DEF OutboxInv, ClaimsInWork, ClaimsDiffer, SentWasSent, Publication!Current
<1>6. TokensUsed'
  <2>1. \A e \in Event : /\ row[e].state # "absent" => row'[e].state # "absent"
                         /\ row'[e].token = row[e].token
    BY <1>2
  <2>2. QED
    BY <1>1, <2>1, TokensKeep
<1>7. StaleIsClaimed'
  BY <1>2 DEF OutboxInv, StaleIsClaimed
<1>8. Publication!EnqueuedWasAccepted'
  BY <1>1, <1>2 DEF OutboxInv, Publication!EnqueuedWasAccepted
<1>9. FaultsPaid'
  <2> SUFFICES ASSUME NEW e \in Event
               PROVE  /\ IsFiniteSet(Pending(e)')
                      /\ accepted'[e] + Cardinality(Pending(e)') + Open(e)' <= 1 + faults'[e]
    BY DEF FaultsPaid
  <2>1. Pending(e)' = Pending(e) /\ accepted'[e] = accepted[e]
    BY <1>1 DEF Pending, Waits
  <2>2. Open(e)' + faults[e] <= Open(e) + faults'[e]
    <3>1. CASE e # f \/ row[f].state = "absent"
      <4>1. Open(e)' <= Open(e)
        BY <1>2, <3>1 DEF Open, OutboxInv, StaleIsClaimed
      <4>2. Open(e)' \in {0, 1}
        BY DEF Open
      <4>3. QED
        BY <1>3, <4>1, <4>2, PaidNow
    <3>2. CASE e = f /\ row[f].state # "absent"
      <4>1. faults'[e] = faults[e] + 1
        BY <1>2, <3>2, FaultEffect
      <4>2. Open(e)' \in {0, 1}
        BY DEF Open
      <4>3. QED
        BY <4>1, <4>2, PaidNow
    <3>3. QED
      BY <3>1, <3>2
  <2>3. Open(e)' \in {0, 1}
    BY DEF Open
  <2>4. QED
    BY <1>3, <2>1, <2>2, <2>3, PaidNow
<1>10. QED
  BY <1>4, <1>5, <1>6, <1>7, <1>8, <1>9 DEF OutboxInv

--------------------------------------------------------------------------------
(* The theorems about the outbox *)

\* The initial states satisfy the invariant.
LEMMA OutboxStarts ==
  ASSUME Publication!OutboxAssumption, Publication!Init
  PROVE  OutboxInv
<1>1. \A e \in Event : row[e] = [state |-> "absent", token |-> 0, stale |-> FALSE]
                       /\ accepted[e] = 0 /\ faults[e] = 0
  BY DEF Publication!Init
<1>2. \A p \in Publication!Process : publisher[p] = Publication!Idle /\ publisher[p].claims = <<>>
                                     /\ publisher[p].pc = "idle"
  BY DEF Publication!Init, Publication!Idle
<1>3. Publication!TypeOK
  <2>1. Publication!Idle \in Publication!PublisherState
    BY DEF Publication!Idle, Publication!PublisherState
  <2>2. [state |-> "absent", token |-> 0, stale |-> FALSE] \in Publication!Row
    BY DEF Publication!Row
  <2>3. 0 \in 0..MaxFaults
    BY DEF Publication!OutboxAssumption
  <2>4. QED
    BY <2>1, <2>2, <2>3 DEF Publication!Init, Publication!TypeOK
<1>4. ClaimsInWork /\ TokensUsed /\ ClaimsDiffer /\ SentWasSent
  BY <1>2 DEF ClaimsInWork, TokensUsed, ClaimsDiffer, SentWasSent
<1>5. StaleIsClaimed /\ Publication!EnqueuedWasAccepted
  BY <1>1 DEF StaleIsClaimed, Publication!EnqueuedWasAccepted
<1>6. FaultsPaid
  <2>1. \A e \in Event : Pending(e) = {}
    BY <1>2 DEF Pending, Waits
  <2>2. \A e \in Event : Open(e) = 1
    BY <1>1 DEF Open
  <2>3. QED
    BY <1>1, <2>1, <2>2, FS_EmptySet DEF FaultsPaid
<1>7. QED
  BY <1>3, <1>4, <1>5, <1>6 DEF OutboxInv

\* Every step keeps it.
LEMMA OutboxStep ==
  ASSUME Publication!OutboxAssumption, OutboxInv, [Publication!Next]_(Publication!vars)
  PROVE  OutboxInv'
<1>1. ASSUME NEW p \in Publication!Process, NEW e \in Event, Publication!ClaimOne(p, e)
      PROVE OutboxInv'
  <2>1. publisher[p].pc = "idle" /\ Publication!Claimable(e) /\ Publication!ClaimRows(p, {e})
    BY <1>1 DEF Publication!ClaimOne
  <2>2. QED
    BY <2>1, ClaimKeeps
<1>2. ASSUME NEW p \in Publication!Process, Publication!ClaimBatch(p) PROVE OutboxInv'
  <2>1. PICK free \in SUBSET {e \in Event : Publication!Claimable(e)} :
           LET oldest == {e \in free : Publication!Cardinality({f \in free : f < e}) < BatchSize}
           IN  oldest # {} /\ Publication!ClaimRows(p, oldest)
    BY <1>2 DEF Publication!ClaimBatch
  <2> DEFINE oldest == {e \in free : Publication!Cardinality({f \in free : f < e}) < BatchSize}
  <2>2. /\ oldest \in SUBSET Event /\ oldest # {} /\ Publication!ClaimRows(p, oldest)
        /\ \A e \in oldest : Publication!Claimable(e)
    BY <2>1
  <2> HIDE DEF oldest
  <2>3. QED
    BY <1>2, <2>2, ClaimKeeps DEF Publication!ClaimBatch
<1>3. CASE UNCHANGED Publication!vars
  <2>1. Publication!TypeOK' /\ ClaimsInWork' /\ TokensUsed' /\ StaleIsClaimed'
    BY <1>3 DEF Publication!vars, OutboxInv, Publication!TypeOK, ClaimsInWork, TokensUsed,
       StaleIsClaimed
  <2>2. ClaimsDiffer' /\ SentWasSent' /\ Publication!EnqueuedWasAccepted'
    BY <1>3 DEF Publication!vars, OutboxInv, ClaimsDiffer, SentWasSent, Publication!Current,
       Publication!EnqueuedWasAccepted
  <2>3. FaultsPaid'
    <3>1. \A e \in Event : Pending(e)' = Pending(e) /\ Open(e)' = Open(e)
      BY <1>3 DEF Publication!vars, Pending, Waits, Open
    <3>2. QED
      BY <1>3, <3>1 DEF Publication!vars, OutboxInv, FaultsPaid
  <2>4. QED
    BY <2>1, <2>2, <2>3 DEF OutboxInv
<1>4. QED
  BY <1>1, <1>2, <1>3, SendKeeps, SendFailsKeeps, MarkEnqueuedKeeps, MarkRaisesKeeps,
     ReleaseClaimKeeps, LeavingKeeps, RowStepKeeps DEF Publication!Next

\* A claim in force is settled by its holder.
LEMMA HolderSettles ==
  ASSUME Publication!OutboxAssumption, OutboxInv, [Publication!Next]_(Publication!vars),
           NEW e \in Event,
         row[e].state = "claimed", row'[e].state # "claimed"
  PROVE  \E p \in Publication!Process :
             /\ publisher[p].pc \in {"ack", "release"}
             /\ Publication!Current(p) = [event |-> e, token |-> row[e].token]
             /\ publisher'[p] # publisher[p]
<1>1. \E p \in Publication!Process : Publication!MarkEnqueued(p) \/ Publication!ReleaseClaim(p)
  <2>1. row' # row
    OBVIOUS
  <2>2. ASSUME NEW p \in Publication!Process, NEW f \in Event, Publication!ClaimOne(p, f)
        PROVE FALSE
    BY <2>2, RowsClaimed DEF Publication!ClaimOne
  <2>3. ASSUME NEW p \in Publication!Process, Publication!ClaimBatch(p) PROVE FALSE
    <3>1. PICK free \in SUBSET {f \in Event : Publication!Claimable(f)} :
             Publication!ClaimRows(p,
               {f \in free : Publication!Cardinality({g \in free : g < f}) < BatchSize})
      BY <2>3 DEF Publication!ClaimBatch
    <3>2. {f \in free : Publication!Cardinality({g \in free : g < f}) < BatchSize}
          \in SUBSET Event
      OBVIOUS
    <3>3. QED
      BY <3>1, <3>2, RowsClaimed
  <2>4. ASSUME NEW p \in Publication!Process,
               Publication!Send(p) \/ Publication!SendFails(p) \/ Publication!MarkRaises(p)
                 \/ Publication!LeaveClaim(p) \/ Publication!EndEarly(p)
        PROVE  FALSE
    BY <2>1, <2>4 DEF Publication!Send, Publication!SendFails, Publication!MarkRaises,
       Publication!LeaveClaim, Publication!EndEarly
  <2>5. ASSUME NEW f \in Event, Publication!EnsureEvent(f) \/ Publication!ClaimAges(f) PROVE FALSE
    <3>1. row \in [Event -> Publication!Row] /\ row[f] \in Publication!Row
            /\ row[e] \in Publication!Row
      BY OutboxTyped
    <3>2. CASE Publication!EnsureEvent(f)
      BY <3>1, <3>2 DEF Publication!EnsureEvent
    <3>3. CASE Publication!ClaimAges(f)
      BY <3>1, <3>3 DEF Publication!ClaimAges, Publication!Row
    <3>4. QED
      BY <2>5, <3>2, <3>3
  <2>6. QED
    BY <2>1, <2>2, <2>3, <2>4, <2>5 DEF Publication!Next, Publication!vars
<1>2. PICK p \in Publication!Process : Publication!MarkEnqueued(p) \/ Publication!ReleaseClaim(p)
  BY <1>1
<1>3. publisher[p].pc \in {"ack", "release"} /\ Publication!Advance(p)
  BY <1>2 DEF Publication!MarkEnqueued, Publication!ReleaseClaim
<1>4. publisher'[p] # publisher[p]
  BY <1>3, HandSteps
<1>5. Publication!Holds(Publication!Current(p)) /\ Publication!Current(p).event = e
  <2>1. \E state \in {"pending", "enqueued"} :
           row' = IF Publication!Holds(Publication!Current(p))
                  THEN [row EXCEPT ![Publication!Current(p).event].state = state,
                                   ![Publication!Current(p).event].stale = FALSE]
                  ELSE row
    BY <1>2 DEF Publication!MarkEnqueued, Publication!ReleaseClaim
  <2>2. Publication!Holds(Publication!Current(p))
    BY <2>1
  <2>3. Publication!Current(p).event = e
    BY <1>3, <2>1, RowSettled
  <2>4. QED
    BY <2>2, <2>3
<1>6. Publication!Current(p) = [event |-> e, token |-> row[e].token]
  BY <1>3, <1>5, InHand DEF Publication!Holds
<1>7. QED
  BY <1>3, <1>4, <1>6

\* The invariant holds for every set of events, batch size and number of faults: every
\* behaviour of the outbox keeps its invariant.
THEOREM OutboxInvariance ==
  ASSUME Publication!OutboxAssumption
  PROVE  Publication!Spec => []OutboxInv
<1>1. Publication!Init => OutboxInv
  BY OutboxStarts
<1>2. OutboxInv /\ [Publication!Next]_(Publication!vars) => OutboxInv'
  BY OutboxStep
<1>3. QED
  BY <1>1, <1>2, PTL DEF Publication!Spec

\* The types of the outbox hold.
THEOREM OutboxTypes ==
  ASSUME Publication!OutboxAssumption
  PROVE  Publication!Spec => []Publication!TypeOK
<1>1. OutboxInv => Publication!TypeOK
  BY DEF OutboxInv
<1>2. QED
  BY <1>1, OutboxInvariance, PTL

\* However claims grow old, sends and acknowledgements fail and publishers overlap, no
\* row is enqueued without a message at the broker, the broker gets a second message
\* of an event only after a fault, and a claim in force is settled by its holder
\* (tasks.py 575-588, 1249-1336, 1418-1442).
THEOREM OutboxAlwaysHonest ==
  ASSUME Publication!OutboxAssumption
  PROVE  Publication!Spec => OutboxIsHonest
<1>1. OutboxInv => Publication!EnqueuedWasAccepted /\ Publication!DuplicatesNeedFaults
  BY PaidNow DEF OutboxInv, Publication!DuplicatesNeedFaults
<1>2. OutboxInv /\ [Publication!Next]_(Publication!vars)
      => [\A e \in Event :
              row[e].state = "claimed" /\ row'[e].state # "claimed"
              => \E p \in Publication!Process :
                     /\ publisher[p].pc \in {"ack", "release"}
                     /\ Publication!Current(p) = [event |-> e, token |-> row[e].token]
                     /\ publisher'[p] # publisher[p]]_(Publication!vars)
  BY HolderSettles
<1>3. QED
  BY <1>1, <1>2, OutboxInvariance, PTL DEF Publication!Spec, OutboxIsHonest,
     Publication!OnlyHolderSettles

================================================================================
