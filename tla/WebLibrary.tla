------------------------------ MODULE WebLibrary ------------------------------
(***************************************************************************)
(* The library of one account: the rows and attempts the server keeps, the *)
(* reads and changes of its routes, and the pages that show them. A page   *)
(* keeps the answers in a query cache, one entry for each query, with at   *)
(* most one read in flight for an entry; it polls an entry that shows      *)
(* unfinished work, and an item's page puts the answer of a change         *)
(* straight into the item's entry. The add dialog sends batches of its own.*)
(* A server read is two statements: the rows, then their latest attempts.  *)
(***************************************************************************)
EXTENDS Naturals, FiniteSets

CONSTANTS
    Item,         \* videos
    Filter,       \* the lists looked at, of "library" and "archived"
    MaxChange,    \* bound: changes a user asks for
    MaxFail       \* bound: reads the network loses

\* What the constants must satisfy.
BoundsAssumption == MaxChange \in Nat /\ MaxFail \in Nat

VARIABLES
    row,       \* row[i]: the saved item: its state column and archived flag
    latest,    \* latest[i]: state of the item's newest attempt
    cache,     \* cache[q]: the query's answer, whether it was invalidated, and
               \* whether q, with an answer, was refreshed since it was read
    fetch,     \* fetch[q]: the query's read in flight
    view,      \* the query the open page observes, or Away
    calls,     \* changes asked for and not yet answered
    dialog,    \* the add dialog: open, the batch submitted in it, the one it shows
    changes,   \* changes asked for so far
    fails      \* reads lost so far

server == <<row, latest>>
vars == <<row, latest, cache, fetch, view, calls, dialog, changes, fails>>

None == "none"
Away == <<"away">>
Lists == {"list"} \X Filter
Details == {"item"} \X Item
Query == Lists \union Details
Active == {"pending", "enqueued", "running"}
Absent == [state |-> None, archived |-> FALSE]
Failure == [state |-> "failed", archived |-> FALSE]

Saved(i) == row[i] # Absent

\* project_lifecycle.
Lifecycle(r, d) ==
    CASE r.archived -> "archived"
      [] ~r.archived /\ r.state = "ready" -> "ready"
      [] ~r.archived /\ r.state = "no_text" -> "needs_action"
      [] ~r.archived /\ r.state \notin {"ready", "no_text"}
            /\ (d = "failed" \/ r.state = "failed") -> "failed"
      [] ~r.archived /\ r.state \in {"pending", "fetching"} /\ d # "failed"
            /\ (d = "running" \/ r.state = "fetching") -> "processing"
      [] ~r.archived /\ r.state = "pending" /\ d \in {"pending", "enqueued"} -> "queued"
      [] OTHER -> "failed"

NoAnswer == [shows |-> {}, missing |-> TRUE]
NoFetch == [phase |-> None]
Entry(answer, stale, old) == [answer |-> answer, stale |-> stale, old |-> old]

\* The items an answer to q shows, each with its lifecycle.
Shows(q, rows) ==
    {<<i, Lifecycle(rows[i], latest[i])>> :
        i \in {j \in Item :
                  /\ rows[j] # Absent
                  /\ IF q \in Details THEN j = q[2]
                     ELSE rows[j].archived = (q[2] = "archived")}}

Answer(q, rows) == [shows |-> Shows(q, rows), missing |-> q \in Details /\ rows[q[2]] = Absent]

Init ==
    /\ row \in [Item -> {Absent, Failure, [state |-> "pending", archived |-> FALSE]}]
    /\ latest = [i \in Item |-> CASE row[i] = Absent -> None
                                  [] row[i] = Failure -> "failed"
                                  [] OTHER -> "enqueued"]
    /\ cache = [q \in Query |-> Entry(NoAnswer, TRUE, FALSE)]
    /\ fetch = [q \in Query |-> NoFetch]
    /\ view = Away
    /\ calls = {}
    /\ dialog = [open |-> FALSE, batch |-> 0, result |-> 0]
    /\ changes = 0
    /\ fails = 0

-----------------------------------------------------------------------------
(* The worker *)

\* A claim: the attempt runs and the item is being fetched.
Claim(i) ==
    /\ latest[i] = "enqueued"
    /\ latest' = [latest EXCEPT ![i] = "running"]
    /\ row' = [row EXCEPT ![i].state = "fetching"]
    /\ UNCHANGED <<cache, fetch, view, calls, dialog, changes, fails>>

\* The attempt and its item settle in one commit.
Finish(i) ==
    /\ latest[i] = "running"
    /\ \E s \in {"ready", "no_text", "failed"} :
          /\ row' = [row EXCEPT ![i].state = s]
          /\ latest' = [latest EXCEPT ![i] = IF s = "failed" THEN "failed" ELSE "completed"]
    /\ UNCHANGED <<cache, fetch, view, calls, dialog, changes, fails>>

-----------------------------------------------------------------------------
(* Reads: one query's fetch *)

\* The request is sent and the first statement reads the rows.
Reading == [phase |-> "rows", rows |-> row, old |-> FALSE]

\* The second statement reads the latest attempts, and the answer is built.
ReadAttempts(q) ==
    /\ fetch[q].phase = "rows"
    /\ fetch' = [fetch EXCEPT ![q] =
          [phase |-> "answered", answer |-> Answer(q, fetch[q].rows), old |-> fetch[q].old]]
    /\ UNCHANGED <<row, latest, cache, view, calls, dialog, changes, fails>>

\* The answer arrives: the entry is fresh again.
Arrive(q) ==
    /\ fetch[q].phase = "answered"
    /\ cache' = [cache EXCEPT ![q] = Entry(fetch[q].answer, FALSE, fetch[q].old)]
    /\ fetch' = [fetch EXCEPT ![q] = NoFetch]
    /\ UNCHANGED <<row, latest, view, calls, dialog, changes, fails>>

\* The read is lost: the entry keeps its old answer.
Lose(q) ==
    /\ fetch[q].phase = "answered"
    /\ fails < MaxFail
    /\ fails' = fails + 1
    /\ fetch' = [fetch EXCEPT ![q] = NoFetch]
    /\ UNCHANGED <<row, latest, cache, view, calls, dialog, changes>>

\* Variant of ShouldPoll: only items being processed are polled.
ShouldPollProcessing(q) ==
    \E s \in cache[q].answer.shows : s[2] = "processing"

\* shouldPollLibrary, and the interval of an item's page.
ShouldPoll(q) ==
    \E s \in cache[q].answer.shows : s[2] \in {"queued", "processing"}

\* The poll of the observed entry, and the retry of one that has no answer.
Poll(q) ==
    /\ view = q
    /\ fetch[q].phase = None
    /\ ShouldPoll(q) \/ cache[q].answer = NoAnswer
    /\ fetch' = [fetch EXCEPT ![q] = Reading]
    /\ UNCHANGED <<row, latest, cache, view, calls, dialog, changes, fails>>

-----------------------------------------------------------------------------
(* The pages *)

\* The page with the add dialog is gone; its calls go on.
Unmounted == {[c EXCEPT !.mounted = FALSE] : c \in calls}
Closed == [open |-> FALSE, batch |-> 0, result |-> 0]

\* A page observes q: an entry that was invalidated, or is older than the
\* stale time, is read again unless a read of it is already in flight.
Visit(q) ==
    /\ view # q /\ ~dialog.open
    /\ q \in Details => Saved(q[2])
    /\ \E old \in BOOLEAN :
          fetch' = IF fetch[q].phase = None /\ (old \/ cache[q].stale)
                   THEN [fetch EXCEPT ![q] = Reading] ELSE fetch
    /\ view' = q
    /\ calls' = IF q \in Details THEN Unmounted ELSE calls
    /\ UNCHANGED <<row, latest, cache, dialog, changes, fails>>

\* Another page of the interface.
Leave ==
    /\ view # Away
    /\ view' = Away
    /\ calls' = Unmounted
    /\ dialog' = Closed
    /\ UNCHANGED <<row, latest, cache, fetch, changes, fails>>

\* There is an answer to refresh.
Held(c, q) == c[q].answer # NoAnswer

\* Variant of Reread: a read in flight is kept.
RereadOnce(c, q) ==
    IF fetch[q].phase = None THEN Reading ELSE [fetch[q] EXCEPT !.old = Held(c, q)]

\* The refetch of an invalidated query drops the read in flight, unless it is the
\* first: a query without an answer waits for the one it has asked for.
Reread(c, q) ==
    IF fetch[q].phase # None /\ ~Held(c, q) THEN fetch[q] ELSE Reading

\* invalidateQueries(["library"]) over the cache c: every list is marked, and
\* the observed one is read anew.
Invalidate(c) ==
    /\ cache' = [q \in Query |->
                    IF q \in Lists
                    THEN Entry(c[q].answer, TRUE, c[q].old \/ (q = view /\ Held(c, q)))
                    ELSE c[q]]
    /\ fetch' = IF view \in Lists THEN [fetch EXCEPT ![view] = Reread(c, view)] ELSE fetch

OpenDialog ==
    /\ view \in Lists /\ ~dialog.open
    /\ dialog' = [dialog EXCEPT !.open = TRUE]
    /\ UNCHANGED <<row, latest, cache, fetch, view, calls, changes, fails>>

\* Closing begins a new generation: the batches of the old one are forgotten.
CloseDialog ==
    /\ dialog.open
    /\ dialog' = Closed
    /\ calls' = {[c EXCEPT !.current = FALSE] : c \in calls}
    /\ UNCHANGED <<row, latest, cache, fetch, view, changes, fails>>

-----------------------------------------------------------------------------
(* Changes *)

Call(kind, i) ==
    [id |-> changes + 1, kind |-> kind, item |-> i, phase |-> "sent",
     current |-> TRUE, mounted |-> TRUE, ok |-> TRUE, answer |-> NoAnswer]

\* handleSubmit: one batch at a time in an open dialog.
Submit(i) ==
    /\ changes < MaxChange
    /\ dialog.open /\ dialog.batch = 0
    /\ dialog' = [dialog EXCEPT !.batch = changes + 1]
    /\ calls' = calls \union {Call("batch", i)}
    /\ changes' = changes + 1
    /\ UNCHANGED <<row, latest, cache, fetch, view, fails>>

\* A button of an item's page; its buttons wait for the answer.
Ask(i, kind) ==
    /\ changes < MaxChange
    /\ view = <<"item", i>>
    /\ ~\E c \in calls : c.kind # "batch" /\ c.mounted
    /\ \E s \in cache[view].answer.shows :
          CASE kind = "retry" -> s[2] = "failed"
            [] kind = "archive" -> s[2] # "archived"
            [] kind = "restore" -> s[2] = "archived"
    /\ calls' = calls \union {Call(kind, i)}
    /\ changes' = changes + 1
    /\ UNCHANGED <<row, latest, cache, fetch, view, dialog, fails>>

Becomes(c, d) == calls' = (calls \ {c}) \union {d}
Refused(c) == Becomes(c, [c EXCEPT !.phase = "answered", !.ok = FALSE])

\* The answer of a change is a read of the item.
Answered(c, r) ==
    [c EXCEPT !.phase = "answered",
              !.answer = [shows |-> {<<c.item, r>>}, missing |-> FALSE]]

\* A video not yet saved, or a retry of a failed item.
Admits(c) ==
    IF c.kind = "batch" THEN ~Saved(c.item)
    ELSE Lifecycle(row[c.item], latest[c.item]) = "failed" /\ latest[c.item] \notin Active

\* A new attempt is committed; it is published by a later step. A submission
\* of a saved item changes nothing, a retry needs a failed one.
Admit(c) ==
    /\ c \in calls /\ c.phase = "sent" /\ c.kind \in {"batch", "retry"}
    /\ IF Admits(c)
       THEN /\ row' = [row EXCEPT ![c.item] = [state |-> "pending", archived |-> FALSE]]
            /\ latest' = [latest EXCEPT ![c.item] = "pending"]
            /\ Becomes(c, [c EXCEPT !.phase = "saved"])
       ELSE /\ IF c.kind = "batch" THEN Becomes(c, [c EXCEPT !.phase = "answered"])
               ELSE Refused(c)
            /\ UNCHANGED server
    /\ UNCHANGED <<cache, fetch, view, dialog, changes, fails>>

\* Publication, _set_dispatch and the answer.
Publish(c) ==
    /\ c \in calls /\ c.phase = "saved"
    /\ \E ok \in BOOLEAN :
          /\ latest' = [latest EXCEPT ![c.item] = IF ok THEN "enqueued" ELSE "failed"]
          /\ row' = IF ok THEN row ELSE [row EXCEPT ![c.item].state = "failed"]
    /\ Becomes(c, Answered(c, Lifecycle(row'[c.item], latest'[c.item])))
    /\ UNCHANGED <<cache, fetch, view, dialog, changes, fails>>

\* archive and restore, and the answer.
Shelve(c) ==
    /\ c \in calls /\ c.phase = "sent" /\ c.kind \in {"archive", "restore"}
    /\ row' = [row EXCEPT ![c.item].archived = (c.kind = "archive")]
    /\ Becomes(c, Answered(c, Lifecycle(row'[c.item], latest[c.item])))
    /\ UNCHANGED <<latest, cache, fetch, view, dialog, changes, fails>>

\* The answer of an item's change: its entry takes it, the lists are invalidated.
TakeAnswer(c) ==
    /\ c \in calls /\ c.phase = "answered" /\ c.kind # "batch"
    /\ calls' = calls \ {c}
    /\ IF c.ok THEN Invalidate([cache EXCEPT ![<<"item", c.item>>] = Entry(c.answer, FALSE, FALSE)])
       ELSE UNCHANGED <<cache, fetch>>
    /\ UNCHANGED <<row, latest, view, dialog, changes, fails>>

\* The submission belongs to the dialog's present generation.
Current(c) == c.current

\* The answer of a batch: an earlier generation's is dropped, a dialog whose
\* page is gone only invalidates the lists.
TakeBatch(c) ==
    /\ c \in calls /\ c.phase = "answered" /\ c.kind = "batch"
    /\ calls' = calls \ {c}
    /\ IF Current(c)
       THEN /\ Invalidate(cache)
            /\ dialog' = IF c.mounted THEN [dialog EXCEPT !.result = c.id] ELSE dialog
       ELSE UNCHANGED <<cache, fetch, dialog>>
    /\ UNCHANGED <<row, latest, view, changes, fails>>

-----------------------------------------------------------------------------
Next ==
    \/ \E i \in Item : Claim(i) \/ Finish(i) \/ Submit(i)
    \/ \E q \in Query : ReadAttempts(q) \/ Arrive(q) \/ Lose(q) \/ Poll(q) \/ Visit(q)
    \/ Leave \/ OpenDialog \/ CloseDialog
    \/ \E i \in Item, kind \in {"retry", "archive", "restore"} : Ask(i, kind)
    \/ \E c \in calls : Admit(c) \/ Publish(c) \/ Shelve(c) \/ TakeAnswer(c) \/ TakeBatch(c)

\* The interval timer of the page and the requests of a read make progress.
Fairness ==
    \A q \in Query : WF_vars(Poll(q)) /\ WF_vars(ReadAttempts(q)) /\ WF_vars(Arrive(q))

Spec == Init /\ [][Next]_vars /\ Fairness

-----------------------------------------------------------------------------
TypeOK ==
    /\ row \in [Item -> [state : {None, "pending", "fetching", "ready", "no_text", "failed"},
                         archived : BOOLEAN]]
    /\ latest \in [Item -> Active \union {None, "completed", "failed"}]
    /\ \A i \in Item : Saved(i) <=> latest[i] # None
    /\ \A q \in Query : cache[q].stale \in BOOLEAN
    /\ view \in Query \union {Away}
    /\ dialog.open => view \in Lists
    /\ \A c, d \in calls : c.id = d.id => c = d

\* The dialog shows the outcome of the batch submitted since it was opened,
\* never that of an earlier opening (AddVideosDialog.tsx 62-82 and 152-163:
\* the submission's generation).
DialogShowsItsBatch == dialog.result # 0 => dialog.open /\ dialog.result = dialog.batch

\* A list that shows an answer while it is refreshed never shows, as fresh, one read
\* before the change it was refreshed for: a poll that was already in flight must
\* not undo the refresh (LibraryPage.tsx 57-62 and 329).
RefreshedListIsRecent ==
    \A q \in Lists : ~(cache[q].old /\ ~cache[q].stale)

\* Unfinished work on the open page does not stay after the worker settled it:
\* the page polls as long as it shows an item queued or processing
\* (LibraryPage.tsx 61, VideoDetailPage.tsx 26-29, lifecycle.ts 15-19).
ShowsUnfinished(q, i) ==
    view = q /\ \E s \in cache[q].answer.shows :
                   s[1] = i /\ s[2] \in {"queued", "processing"}
=============================================================================
