------------------------------ MODULE WebSession ------------------------------
(***************************************************************************)
(* The web interface and its session: a browser whose tabs share one       *)
(* session cookie, each tab with its own private query client, and the     *)
(* authentication routes. Somebody logs in with a mailed code or with a    *)
(* command approved in a chat, reads, links accounts and logs out; other   *)
(* people may use the same browser. A request carries the cookie of the    *)
(* moment it is sent; its answer sets or deletes the cookie when it        *)
(* arrives. What Credentials says of codes and commands is one step here.  *)
(***************************************************************************)
EXTENDS Naturals, Sequences, FiniteSets

CONSTANTS
    Account,        \* accounts that can be logged in to
    Tab,            \* tabs of the browser
    MaxSession,     \* bound: sessions the server issues
    MaxChallenge,   \* bound: login commands it issues
    MaxPending      \* bound: requests of a tab under way

\* What the constants must satisfy.
BoundsAssumption ==
    MaxSession \in Nat /\ MaxChallenge \in Nat /\ MaxPending \in Nat \ {0}

VARIABLES
    mode,        \* how the deployment logs in: "email" or "chat"
    owner,       \* owner[a]: the account a was merged into, or a
    sess,        \* sess[n]: the account of session n, and whether it is live
    command,     \* command[c]: the login command's state and approver
    cookie,      \* the browser's session cookie, or NoSession
    tab,         \* tab[t]: the page it shows, what its client holds, and whether
                 \* another tab logged in while it held or awaited anything
    requests     \* requests on their way

server == <<owner, sess, command>>
vars == <<mode, owner, sess, command, cookie, tab, requests>>

None == "none"
NoSession == 0
NoCommand == 0
Fresh == [page |-> "login", holds |-> {}, elsewhere |-> FALSE, command |-> NoCommand,
          status |-> None, exchange |-> "idle", failed |-> FALSE]

\* A tab that opens a page anew keeps its client.
Kept(t) == [Fresh EXCEPT !.holds = tab[t].holds, !.elsewhere = tab[t].elsewhere]

Live(n) == n # NoSession /\ sess[n].live
Request(t, kind, arg) ==
    [tab |-> t, kind |-> kind, arg |-> arg, cookie |-> cookie, own |-> TRUE,
     answer |-> None, account |-> None]

Init ==
    /\ mode \in {"email", "chat"}
    /\ owner = [a \in Account |-> a]
    /\ sess = <<>>
    /\ command = <<>>
    /\ cookie = NoSession
    /\ tab = [t \in Tab |-> Fresh]
    /\ requests = {}

-----------------------------------------------------------------------------
(* Sending *)

Of(t) == {r \in requests : r.tab = t}
MaySend(t, kind) ==
    /\ Cardinality(Of(t)) < MaxPending
    /\ ~\E r \in Of(t) : r.kind = kind
Send(t, kind, arg) == requests' = requests \union {Request(t, kind, arg)}

\* A private page reads; a tab without a session asks for its session first.
Read(t) ==
    /\ tab[t].page = "library"
    /\ MaySend(t, "read")
    /\ Send(t, "read", None)
    /\ UNCHANGED <<mode, server, cookie, tab>>

AskLogout(t) ==
    /\ tab[t].page = "library" /\ tab[t].holds # {}
    /\ MaySend(t, "logout")
    /\ Send(t, "logout", None)
    /\ UNCHANGED <<mode, server, cookie, tab>>

\* The account link page hands in a link token of another account.
AskLink(t, a) ==
    /\ tab[t].page = "library" /\ tab[t].holds # {}
    /\ MaySend(t, "link")
    /\ Send(t, "link", a)
    /\ UNCHANGED <<mode, server, cookie, tab>>

\* submitCode: somebody verifies the code mailed for an account.
AskVerify(t, a) ==
    /\ mode = "email" /\ tab[t].page = "login"
    /\ MaySend(t, "verify")
    /\ Send(t, "verify", a)
    /\ UNCHANGED <<mode, server, cookie, tab>>

\* startChannelLogin: the answer is the new command, shown to be sent in a chat.
AskCommand(t) ==
    /\ mode = "chat" /\ tab[t].page = "login" /\ tab[t].command = NoCommand
    /\ Len(command) < MaxChallenge
    /\ command' = Append(command, [state |-> "pending", by |-> None])
    /\ tab' = [tab EXCEPT ![t] = [Kept(t) EXCEPT !.command = Len(command) + 1]]
    /\ UNCHANGED <<mode, owner, sess, cookie, requests>>

\* Variant of Polls: the status is asked for once.
PollsOnce(t) == ~tab[t].failed /\ tab[t].status = None

\* challengePollInterval: while the status is pending, until it cannot be read.
Polls(t) == ~tab[t].failed /\ tab[t].status \in {None, "pending"}

\* The status of a pending command.
Poll(t) ==
    /\ tab[t].page = "login" /\ tab[t].command # NoCommand
    /\ tab[t].exchange = "idle" /\ Polls(t)
    /\ MaySend(t, "status")
    /\ Send(t, "status", tab[t].command)
    /\ UNCHANGED <<mode, server, cookie, tab>>

\* restartLogin: an exchange under way goes on.
Restart(t) ==
    /\ tab[t].page = "login" /\ tab[t].command # NoCommand
    /\ tab' = [tab EXCEPT ![t] = Kept(t)]
    /\ UNCHANGED <<mode, server, cookie, requests>>

-----------------------------------------------------------------------------
(* The server *)

Answered(r, answer, account) ==
    requests' = (requests \ {r}) \union {[r EXCEPT !.answer = answer, !.account = account]}

Issue(a) == sess' = Append(sess, [account |-> a, live |-> TRUE])

\* A new session, or a refused code.
ServeVerify(r) ==
    /\ r.kind = "verify" /\ r.answer = None
    /\ \/ /\ Len(sess) < MaxSession
          /\ Issue(owner[r.arg])
          /\ Answered(r, "session", Len(sess) + 1)
       \/ sess' = sess /\ Answered(r, "wrong", None)
    /\ UNCHANGED <<mode, owner, command, cookie, tab>>

ServeStatus(r) ==
    /\ r.kind = "status" /\ r.answer = None
    /\ Answered(r, command[r.arg].state, None)
    /\ UNCHANGED <<mode, server, cookie, tab>>

\* An approved command buys one session.
ServeExchange(r) ==
    /\ r.kind = "exchange" /\ r.answer = None
    /\ IF command[r.arg].state = "approved" /\ Len(sess) < MaxSession
       THEN /\ command' = [command EXCEPT ![r.arg].state = "consumed"]
            /\ Issue(owner[command[r.arg].by])
            /\ Answered(r, "session", Len(sess) + 1)
       ELSE /\ UNCHANGED <<command, sess>>
            /\ Answered(r, "refused", None)
    /\ UNCHANGED <<mode, owner, cookie, tab>>

\* A read, or the check every protected change starts with: without the
\* cookies a change is refused as forged, with a dead session as logged out.
Refusal(r) == IF r.cookie = NoSession /\ r.kind # "read" THEN "forged" ELSE "logged out"

ServeRead(r) ==
    /\ r.kind = "read" /\ r.answer = None
    /\ IF Live(r.cookie) THEN Answered(r, "data", sess[r.cookie].account)
       ELSE Answered(r, Refusal(r), None)
    /\ UNCHANGED <<mode, server, cookie, tab>>

ServeLogout(r) ==
    /\ r.kind = "logout" /\ r.answer = None
    /\ IF Live(r.cookie)
       THEN /\ sess' = [sess EXCEPT ![r.cookie].live = FALSE]
            /\ Answered(r, "done", None)
       ELSE sess' = sess /\ Answered(r, Refusal(r), None)
    /\ UNCHANGED <<mode, owner, command, cookie, tab>>

\* A session of an absorbed account moves and is revoked.
Moved(s, gone, kept) ==
    IF s.account \in gone THEN [account |-> kept, live |-> FALSE] ELSE s

\* Linking merges one account into the other; the sessions of the absorbed
\* one move and are revoked, the survivor's stay.
ServeLink(r) ==
    /\ r.kind = "link" /\ r.answer = None
    /\ IF Live(r.cookie) /\ owner[r.arg] # sess[r.cookie].account
       THEN \E kept \in {owner[r.arg], sess[r.cookie].account} :
               LET gone == {owner[r.arg], sess[r.cookie].account} \ {kept}
               IN  /\ owner' = [a \in Account |-> IF owner[a] \in gone THEN kept ELSE owner[a]]
                   /\ sess' = [n \in DOMAIN sess |-> Moved(sess[n], gone, kept)]
                   /\ Answered(r, "done", None)
       ELSE /\ UNCHANGED <<owner, sess>>
            /\ Answered(r, IF Live(r.cookie) THEN "refused" ELSE Refusal(r), None)
    /\ UNCHANGED <<mode, command, cookie, tab>>

\* The command is sent in a chat whose account is a.
Approve(c, a) ==
    /\ command[c].state = "pending"
    /\ command' = [command EXCEPT ![c] = [state |-> "approved", by |-> owner[a]]]
    /\ UNCHANGED <<mode, owner, sess, cookie, tab, requests>>

\* A command runs out until it is consumed.
ExpireCommand(c) ==
    /\ command[c].state \in {"pending", "approved"}
    /\ command' = [command EXCEPT ![c].state = "expired"]
    /\ UNCHANGED <<mode, owner, sess, cookie, tab, requests>>

\* A session runs out, or its account is disabled.
EndSession(n) ==
    /\ sess[n].live
    /\ sess' = [sess EXCEPT ![n].live = FALSE]
    /\ UNCHANGED <<mode, owner, command, cookie, tab, requests>>

-----------------------------------------------------------------------------
(* Answers *)

\* The client of a tab is replaced: what is still under way belongs to the
\* old one.
Disowned(rs, t) == {IF q.tab = t THEN [q EXCEPT !.own = FALSE] ELSE q : q \in rs}

\* What the client of a tab holds or waits for is of the cookie of its time.
Used(u) == tab[u].holds # {} \/ \E r \in Of(u) : r.own

\* The other tabs are not told when a login opens the private page of one.
Opened(t, new) ==
    [u \in Tab |-> IF u = t THEN new
                   ELSE [tab[u] EXCEPT !.elsewhere = @ \/ (new.page = "library" /\ Used(u))]]

\* Variant of Rotated: the client is kept when somebody logs in.
RotatedOnlyOut(t, rs, page, holds) ==
    IF page = "library"
    THEN /\ tab' = Opened(t, [Kept(t) EXCEPT !.page = page, !.holds = @ \union holds])
         /\ requests' = rs
    ELSE /\ tab' = Opened(t, Fresh)
         /\ requests' = Disowned(rs, t)

\* rotateClient and navigate: a new client that holds only what it is given.
Rotated(t, rs, page, holds) ==
    /\ tab' = Opened(t, [Fresh EXCEPT !.page = page, !.holds = holds])
    /\ requests' = Disowned(rs, t)

\* activate: the cookie is set by the answer, the client is new and holds the
\* returned session, and the private page opens.
TakeSession(r) ==
    /\ r.answer = "session"
    /\ cookie' = r.account
    /\ Rotated(r.tab, requests \ {r}, "library", {sess[r.account].account})
    /\ UNCHANGED <<mode, server>>

\* An answer that ends the private view: a confirmed logout, a completed link,
\* or the refusal of a dead session, whichever client asked.
Ends(r) == r.answer = "logged out" \/ r.answer = "done"

TakeEnd(r) ==
    /\ Ends(r)
    /\ cookie' = IF r.kind = "logout" /\ r.answer = "done" THEN NoSession ELSE cookie
    /\ Rotated(r.tab, requests \ {r}, "login", {})
    /\ UNCHANGED <<mode, server>>

\* Data of a client that was replaced is dropped.
TakeData(r) ==
    /\ r.answer = "data"
    /\ tab' = IF r.own THEN [tab EXCEPT ![r.tab].holds = @ \union {r.account}] ELSE tab
    /\ requests' = requests \ {r}
    /\ UNCHANGED <<mode, server, cookie>>

\* The request is about the command the tab shows.
Shown(r) == r.own /\ r.arg = tab[r.tab].command /\ tab[r.tab].page = "login"

\* The status of the shown command: an approved one is exchanged, once.
TakeStatus(r) ==
    /\ r.kind = "status" /\ r.answer # None
    /\ IF ~Shown(r) THEN requests' = requests \ {r} /\ tab' = tab
       ELSE IF r.answer = "approved"
       THEN /\ tab' = [tab EXCEPT ![r.tab].status = "approved", ![r.tab].exchange = "sent"]
            /\ requests' = (requests \ {r}) \union {Request(r.tab, "exchange", r.arg)}
       ELSE /\ tab' = [tab EXCEPT ![r.tab].status = r.answer,
                                  ![r.tab].failed = r.answer # "pending"]
            /\ requests' = requests \ {r}
    /\ UNCHANGED <<mode, server, cookie>>

\* An error the page shows: a wrong code, a refused exchange, change or link.
TakeError(r) ==
    /\ r.answer \in {"wrong", "refused", "forged"}
    /\ tab' = IF r.kind = "exchange" /\ Shown(r)
              THEN [tab EXCEPT ![r.tab].exchange = "failed"] ELSE tab
    /\ requests' = requests \ {r}
    /\ UNCHANGED <<mode, server, cookie>>

\* The network loses a request or its answer; an exchange or a status shows it.
Lose(r) ==
    /\ tab' = CASE r.kind = "exchange" /\ Shown(r) ->
                     [tab EXCEPT ![r.tab].exchange = "failed"]
                [] r.kind = "status" /\ Shown(r) ->
                     [tab EXCEPT ![r.tab].failed = TRUE]
                [] OTHER -> tab
    /\ requests' = requests \ {r}
    /\ UNCHANGED <<mode, server, cookie>>

\* The showcase page leads to the login page, the address of a private page
\* back to it; a tab keeps its client, and the state of the login page is lost.
Navigate(t) ==
    /\ tab' = [tab EXCEPT ![t] =
          [Kept(t) EXCEPT !.page = IF tab[t].page = "login" THEN "library" ELSE "login"]]
    /\ UNCHANGED <<mode, server, cookie, requests>>

-----------------------------------------------------------------------------
Serve(r) ==
    ServeVerify(r) \/ ServeStatus(r) \/ ServeExchange(r) \/ ServeRead(r)
        \/ ServeLogout(r) \/ ServeLink(r)
Take(r) == TakeSession(r) \/ TakeEnd(r) \/ TakeData(r) \/ TakeStatus(r) \/ TakeError(r)

Next ==
    \/ \E t \in Tab :
          \/ Read(t) \/ AskLogout(t) \/ AskCommand(t) \/ Poll(t) \/ Restart(t) \/ Navigate(t)
          \/ \E a \in Account : AskLink(t, a) \/ AskVerify(t, a)
    \/ \E r \in requests : Serve(r) \/ Take(r) \/ Lose(r)
    \/ \E c \in DOMAIN command : ExpireCommand(c) \/ \E a \in Account : Approve(c, a)
    \/ \E n \in DOMAIN sess : EndSession(n)

\* The status poll of an open login page, and the requests of every tab, make
\* progress.
Fairness ==
    \A t \in Tab :
        /\ WF_vars(Poll(t))
        /\ WF_vars(\E r \in Of(t) : Serve(r))
        /\ WF_vars(\E r \in Of(t) : Take(r) \/ Lose(r))

Spec == Init /\ [][Next]_vars /\ Fairness

-----------------------------------------------------------------------------
TypeOK ==
    /\ owner \in [Account -> Account] /\ \A a \in Account : owner[owner[a]] = owner[a]
    /\ \A n \in DOMAIN sess : sess[n].live => owner[sess[n].account] = sess[n].account
    /\ cookie \in {NoSession} \union DOMAIN sess
    /\ \A t \in Tab : /\ tab[t].page \in {"login", "library"}
                      /\ tab[t].holds \subseteq Account /\ tab[t].elsewhere \in BOOLEAN
                      /\ tab[t].command \in {NoCommand} \union DOMAIN command
                      /\ tab[t].status \in {None, "pending", "approved", "consumed", "expired"}
                      /\ tab[t].exchange \in {"idle", "sent", "failed"}
    /\ \A r \in requests : r.cookie \in {NoSession} \union DOMAIN sess

\* A tab's query client holds data of two accounts only after somebody logged in
\* in another tab: the client is replaced whenever its own tab logs in or out,
\* answers to the old one are dropped, and what other tabs log out, link or still
\* wait for brings it no second account (App.tsx 54-81, 96-100 and 187-191).
OneAccountPerClient ==
    \A t \in Tab : ~tab[t].elsewhere => \A a, b \in tab[t].holds : a = b

\* An approved command on an open login page leads to the private page or to
\* an error with a way to start again; it is never left waiting
\* (LoginPage.tsx 86-96, 124-126 and 487-492).
Waiting(t, c) ==
    /\ tab[t].page = "login" /\ tab[t].command = c /\ c # NoCommand
    /\ tab[t].exchange # "failed" /\ ~tab[t].failed
ApprovalIsNoticed ==
    \A t \in Tab, c \in 1..MaxChallenge :
        Waiting(t, c) /\ command[c].state = "approved" ~> ~Waiting(t, c)
=============================================================================
