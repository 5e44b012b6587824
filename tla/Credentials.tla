------------------------------- MODULE Credentials ------------------------------
(******************************************************************************)
(* How a browser, an extension and an MCP client get their credentials, and   *)
(* how long these are good for: the login command approved in a chat, the     *)
(* code sent by mail, the pairing of the browser extension, and the grants an *)
(* operator issues. Accounts are disabled, enabled and absorbed meanwhile.    *)
(*                                                                            *)
(* A transaction that locks all it reads is one step. The exchange of a       *)
(* secret locks the secret and not the account: it is two steps, and an       *)
(* account may change in between. A behaviour exercises one of the protocols. *)
(******************************************************************************)
EXTENDS Naturals, FiniteSets

CONSTANTS
    Account,
    Challenge,      \* login commands for a chat
    Pairing,        \* pairings of a browser extension
    MaxCode,        \* bound: codes sent to one address, in this order
    Grant,          \* MCP grants
    Client,         \* requests that may exchange or verify at the same time
    Requester,      \* addresses that ask for login commands
    ActiveLimit,    \* challenge_active_limit_per_requester
    AttemptLimit,   \* attempt_limit of commands, web_auth_max_attempts of codes
    PairingLimit,   \* max_active_pairings
    MaxTurns        \* bound: times an operator disables or enables an account

\* What the constants must satisfy.
LimitsAssumption ==
    /\ MaxCode \in Nat /\ MaxTurns \in Nat
    /\ ActiveLimit \in Nat /\ AttemptLimit \in Nat /\ PairingLimit \in Nat
    /\ "none" \notin Account
    /\ Challenge \intersect Pairing = {}
    /\ (Challenge \union Pairing) \intersect (0..MaxCode) = {}
    /\ Grant \intersect (Challenge \union Pairing \union 0..MaxCode) = {}

VARIABLES
    protocol,  \* what this behaviour exercises
    user,      \* AppUser of an account
    mail,      \* the account the mail identity belongs to
    secret,    \* web_login_challenge, web_auth_challenge, browser_companion_pairing
    cred,      \* web_session, browser_companion_grant, mcp_access_grant
    request,   \* the transaction each client is in
    sending,   \* for a code whose request has not committed: it and those it voids
    turns      \* acts of the operator so far

vars == <<protocol, user, mail, secret, cred, request, sending, turns>>

Code == 1..MaxCode
Secret == Challenge \union Pairing \union Code
WebSession == Challenge \union Code
Credential == Secret \union Grant

--------------------------------------------------------------------------------
(* Rows *)

SecretRow ==
    [state : {"none", "open", "approved", "spent", "void"},
     user  : Account \union {"none"},
     by    : Requester \union {"none"},
     tries : 0..AttemptLimit]

NoSecret == [state |-> "none", user |-> "none", by |-> "none", tries |-> 0]

\* Named by the secret it was bought with. origin: the account it was made for.
CredRow ==
    [state  : {"none", "live", "revoked", "expired", "deleted"},
     user   : Account \union {"none"},
     origin : Account \union {"none"},
     minted : Nat]

NoCred == [state |-> "none", user |-> "none", origin |-> "none", minted |-> 0]

Request ==
    [pc : {"idle", "checked", "counted"}, secret : Secret \union {0},
     user : Account \union {"none"}]

Idle == [pc |-> "idle", secret |-> 0, user |-> "none"]

Init ==
    /\ protocol \in {"chat", "mail", "extension", "mcp"}
    /\ user = [a \in Account |-> "live"]
    /\ mail \in Account
    /\ secret = [s \in Secret |-> NoSecret]
    /\ cred = [s \in Credential |-> NoCred]
    /\ request = [k \in Client |-> Idle]
    /\ sending = [e \in Code |-> {}]
    /\ turns = 0

Live(a) == a # "none" /\ user[a] = "live"
Exists(a) == a # "none" /\ user[a] # "gone"

Put(s, r) == secret' = [secret EXCEPT ![s] = r]

\* Variant of Locked: the row is read without a lock.
NotLocked(s) == FALSE

\* SELECT ... FOR UPDATE: another request waits for it to end. The codes of the
\* address are locked together, whichever is used.
Locked(s) ==
    \E k \in Client :
        /\ request[k].pc = "checked"
        /\ request[k].secret = s \/ {s, request[k].secret} \subseteq Code

Usable(s) == secret[s].tries < AttemptLimit

--------------------------------------------------------------------------------
(* The login command *)

ActiveOf(r) == {c \in Challenge : secret[c].by = r /\ secret[c].state \in {"open", "approved"}}

\* An advisory lock keeps the count and the insert of two requests apart.
CreateChallenge(c, r) ==
    /\ protocol = "chat"
    /\ secret[c].state = "none"
    /\ Cardinality(ActiveOf(r)) < ActiveLimit
    /\ Put(c, [NoSecret EXCEPT !.state = "open", !.by = r])
    /\ UNCHANGED <<protocol, user, mail, cred, request, sending, turns>>

\* /web-login in a chat; the wrong chat counts as an attempt.
Approve(c, a) ==
    /\ protocol = "chat"
    /\ secret[c].state = "open"
    /\ Usable(c) /\ ~Locked(c)
    /\ Live(a)
    /\ Put(c, [secret[c] EXCEPT !.state = "approved", !.user = a])
    /\ UNCHANGED <<protocol, user, mail, cred, request, sending, turns>>

WrongChannel(c) ==
    /\ protocol = "chat"
    /\ secret[c].state = "open"
    /\ Usable(c) /\ ~Locked(c)
    /\ Put(c, [secret[c] EXCEPT !.tries = @ + 1])
    /\ UNCHANGED <<protocol, user, mail, cred, request, sending, turns>>

--------------------------------------------------------------------------------
(* The pairing *)

ActivePairings == {p \in Pairing : secret[p].state \in {"open", "approved"}}

\* The limit is counted in one step and the row inserted in another: it is soft.
CountPairings(k, p) ==
    /\ protocol = "extension"
    /\ request[k].pc = "idle"
    /\ secret[p].state = "none"
    /\ \A other \in Client : request[other].pc = "counted" => request[other].secret # p
    /\ Cardinality(ActivePairings) < PairingLimit
    /\ request' = [request EXCEPT ![k] = [Idle EXCEPT !.pc = "counted", !.secret = p]]
    /\ UNCHANGED <<protocol, user, mail, secret, cred, sending, turns>>

CreatePairing(k) ==
    /\ request[k].pc = "counted"
    /\ Put(request[k].secret, [NoSecret EXCEPT !.state = "open"])
    /\ request' = [request EXCEPT ![k] = Idle]
    /\ UNCHANGED <<protocol, user, mail, cred, sending, turns>>

\* The account that approved first may approve again.
ApprovePairing(p, a) ==
    /\ protocol = "extension"
    /\ secret[p].state \in {"open", "approved"}
    /\ secret[p].user \in {"none", a}
    /\ ~Locked(p)
    /\ Live(a)
    /\ Put(p, [secret[p] EXCEPT !.state = "approved", !.user = a])
    /\ UNCHANGED <<protocol, user, mail, cred, request, sending, turns>>

--------------------------------------------------------------------------------
(* The code *)

Begun == {e \in Code : secret[e].state # "none" \/ sending[e] # {}}
Committed == {e \in Code : secret[e].state # "none"}
Sending(e) == sending[e] # {}
Updated == UNION {sending[e] : e \in {f \in Code : Sending(f)}}

\* request_challenge: the older codes are updated, and locked, before the mail
\* is sent, and the transaction commits after it.
RequestCode(e) ==
    LET older == {f \in Code : secret[f].state = "open"}
    IN  /\ protocol = "mail"
        /\ Begun = 1..(e - 1)
        /\ older \intersect Updated = {}
        /\ \A f \in older : ~Locked(f)
        /\ sending' = [sending EXCEPT ![e] = older \union {e}]
        /\ UNCHANGED <<protocol, user, mail, secret, cred, request, turns>>

\* A mail that could not be delivered leaves a void code behind, and the older
\* ones stay void.
CodeCommits(e) ==
    /\ Sending(e)
    /\ \E state \in {"open", "void"} :
          secret' = [f \in Secret |->
            IF f = e THEN [NoSecret EXCEPT !.state = state]
            ELSE IF f \in sending[e] THEN [secret[f] EXCEPT !.state = "void"]
            ELSE secret[f]]
    /\ sending' = [sending EXCEPT ![e] = {}]
    /\ UNCHANGED <<protocol, user, mail, cred, request, turns>>

\* The commit fails after the mail was sent: nobody can use its code.
CodeLost(e) ==
    /\ Sending(e)
    /\ secret' = [secret EXCEPT ![e].state = "void"]
    /\ sending' = [sending EXCEPT ![e] = {}]
    /\ UNCHANGED <<protocol, user, mail, cred, request, turns>>

\* Variant of Newest: any code that was not voided will do.
NewestAny(e) == e \in Committed

\* verify looks at the newest code of the address only.
Newest(e) == e \in Committed /\ \A f \in Committed : f <= e

WrongCode(e) ==
    /\ protocol = "mail"
    /\ Newest(e)
    /\ secret[e].state = "open"
    /\ Usable(e) /\ ~Locked(e) /\ e \notin Updated
    /\ Put(e, [secret[e] EXCEPT !.tries = @ + 1])
    /\ UNCHANGED <<protocol, user, mail, cred, request, sending, turns>>

--------------------------------------------------------------------------------
(* Secret for credential *)

\* What the secret buys a credential for.
Payer(s) == IF s \in Code THEN mail ELSE secret[s].user

RedeemableChallenge(s) ==
    s \in Challenge /\ secret[s].state = "approved" /\ Usable(s)

RedeemablePairing(s) == s \in Pairing /\ secret[s].state = "approved"

\* A code whose row another request is about to void is waited for, and refused.
RedeemableCode(s) ==
    /\ s \in Code
    /\ Newest(s) /\ s \notin Updated
    /\ secret[s].state = "open" /\ Usable(s)

Redeemable(s) == RedeemableChallenge(s) \/ RedeemablePairing(s) \/ RedeemableCode(s)

\* exchange and verify: the secret is locked, the account is read.
Exchange(k, s) ==
    /\ request[k].pc = "idle"
    /\ Redeemable(s) /\ ~Locked(s)
    /\ Live(Payer(s))
    /\ request' = [request EXCEPT ![k] =
                     [pc |-> "checked", secret |-> s, user |-> Payer(s)]]
    /\ UNCHANGED <<protocol, user, mail, secret, cred, sending, turns>>

Minted(s, a) ==
    [state |-> "live", user |-> a, origin |-> a, minted |-> cred[s].minted + 1]

\* The account may have been disabled since, and the row is inserted all the
\* same; an account that is gone breaks its foreign key.
ExchangeCommits(k) ==
    LET s == request[k].secret
        a == request[k].user
    IN  /\ request[k].pc = "checked"
        /\ Exists(a)
        /\ Put(s, [secret[s] EXCEPT !.state = "spent"])
        /\ cred' = [cred EXCEPT ![s] = Minted(s, a)]
        /\ request' = [request EXCEPT ![k] = Idle]
        /\ UNCHANGED <<protocol, user, mail, sending, turns>>

ExchangeAborts(k) ==
    /\ request[k].pc = "checked"
    /\ request' = [request EXCEPT ![k] = Idle]
    /\ UNCHANGED <<protocol, user, mail, secret, cred, sending, turns>>

\* A request reads the clock before it locks the secret, and goes on when the
\* secret expires meanwhile.
SecretExpires(s) ==
    /\ secret[s].state \in {"open", "approved"}
    /\ ~Locked(s)
    /\ secret' = [secret EXCEPT ![s].state = "void"]
    /\ UNCHANGED <<protocol, user, mail, cred, request, sending, turns>>

--------------------------------------------------------------------------------
(* Credentials *)

IssueGrant(g, a) ==
    /\ protocol = "mcp"
    /\ cred[g].state = "none"
    /\ Live(a)
    /\ cred' = [cred EXCEPT ![g] = Minted(g, a)]
    /\ UNCHANGED <<protocol, user, mail, secret, request, sending, turns>>

\* resolve_session, resolve_grant, resolve: a session of the mail login must
\* also belong to the account its identity is in.
Resolves(s) ==
    /\ cred[s].state = "live"
    /\ Live(cred[s].user)
    /\ s \in Code => mail = cred[s].user

\* Only a revoked or disabled grant cannot be rotated: an expired one gets a
\* new token and a new expiry.
Rotatable(g) == cred[g].state \in {"live", "expired"}

RotateGrant(g) ==
    /\ Rotatable(g)
    /\ cred' = [cred EXCEPT ![g].state = "live"]
    /\ UNCHANGED <<protocol, user, mail, secret, request, sending, turns>>

Revoked(s) == cred' = [cred EXCEPT ![s].state = "revoked"]

\* The logout route resolves the session first: one that no longer resolves, or
\* whose account is disabled, is not revoked.
Logout(s) ==
    /\ s \in WebSession
    /\ Resolves(s)
    /\ Revoked(s)
    /\ UNCHANGED <<protocol, user, mail, secret, request, sending, turns>>

\* The extension disconnects itself, whatever became of its account.
DisconnectExtension(s) ==
    /\ s \in Pairing
    /\ cred[s].state \in {"live", "expired"}
    /\ Revoked(s)
    /\ UNCHANGED <<protocol, user, mail, secret, request, sending, turns>>

\* Someone logged in to the account revokes one of its devices.
RevokeDevice(s, a) ==
    /\ s \in Pairing
    /\ cred[s].state \in {"live", "expired"}
    /\ cred[s].user = a /\ Live(a)
    /\ Revoked(s)
    /\ UNCHANGED <<protocol, user, mail, secret, request, sending, turns>>

\* The operator revokes or disables a grant: neither can be undone.
RevokeGrant(g) ==
    /\ cred[g].state \in {"live", "expired"}
    /\ Revoked(g)
    /\ UNCHANGED <<protocol, user, mail, secret, request, sending, turns>>

CredentialExpires(s) ==
    /\ cred[s].state = "live"
    /\ cred' = [cred EXCEPT ![s].state = "expired"]
    /\ UNCHANGED <<protocol, user, mail, secret, request, sending, turns>>

--------------------------------------------------------------------------------
(* Accounts *)

Turn == turns < MaxTurns /\ turns' = turns + 1

\* Web sessions are revoked with the account, the other credentials are not.
Disable(a) ==
    /\ Live(a)
    /\ Turn
    /\ user' = [user EXCEPT ![a] = "disabled"]
    /\ cred' = [s \in Credential |->
                  IF s \in WebSession /\ cred[s].user = a /\ cred[s].state # "none"
                  THEN [cred[s] EXCEPT !.state = "revoked"] ELSE cred[s]]
    /\ UNCHANGED <<protocol, mail, secret, request, sending>>

Enable(a) ==
    /\ user[a] = "disabled"
    /\ Turn
    /\ user' = [user EXCEPT ![a] = "live"]
    /\ UNCHANGED <<protocol, mail, secret, cred, request, sending>>

\* The rows of an absorbed account: sessions and grants move and are revoked,
\* devices go with the account.
CredAfter(s, a, b) ==
    IF cred[s].user # b THEN cred[s]
    ELSE IF s \in Pairing THEN [cred[s] EXCEPT !.state = "deleted"]
    ELSE [cred[s] EXCEPT !.user = a, !.state = "revoked"]

\* The delete of the account waits for the secrets it has approved, and the
\* move of its identity for the code that is being verified.
Absorb(a, b) ==
    /\ a # b
    /\ Live(a) /\ Live(b)
    /\ \A s \in Secret : Locked(s) => Payer(s) # b
    /\ user' = [user EXCEPT ![b] = "gone"]
    /\ mail' = IF mail = b THEN a ELSE mail
    /\ secret' = [s \in Secret |->
                    IF secret[s].user = b /\ secret[s].state = "approved"
                    THEN [secret[s] EXCEPT !.state = "void"] ELSE secret[s]]
    /\ cred' = [s \in Credential |-> CredAfter(s, a, b)]
    /\ UNCHANGED <<protocol, request, sending, turns>>

--------------------------------------------------------------------------------

Next ==
    \/ \E c \in Challenge :
          \/ \E r \in Requester : CreateChallenge(c, r)
          \/ \E a \in Account : Approve(c, a)
          \/ WrongChannel(c)
    \/ \E k \in Client :
          \/ \E p \in Pairing : CountPairings(k, p)
          \/ CreatePairing(k)
          \/ \E s \in Secret : Exchange(k, s)
          \/ ExchangeCommits(k)
          \/ ExchangeAborts(k)
    \/ \E p \in Pairing, a \in Account : ApprovePairing(p, a)
    \/ \E e \in Code :
          \/ RequestCode(e)
          \/ CodeCommits(e)
          \/ CodeLost(e)
          \/ WrongCode(e)
    \/ \E s \in Secret : SecretExpires(s)
    \/ \E g \in Grant :
          \/ \E a \in Account : IssueGrant(g, a)
          \/ RotateGrant(g)
          \/ RevokeGrant(g)
    \/ \E s \in Credential :
          \/ Logout(s)
          \/ DisconnectExtension(s)
          \/ \E a \in Account : RevokeDevice(s, a)
          \/ CredentialExpires(s)
    \/ \E a \in Account :
          \/ Disable(a)
          \/ Enable(a)
          \/ \E b \in Account : Absorb(a, b)

Spec == Init /\ [][Next]_vars

--------------------------------------------------------------------------------
(* Properties *)

TypeOK ==
    /\ protocol \in {"chat", "mail", "extension", "mcp"}
    /\ user \in [Account -> {"live", "disabled", "gone"}]
    /\ mail \in Account
    /\ secret \in [Secret -> SecretRow]
    /\ cred \in [Credential -> CredRow]
    /\ request \in [Client -> Request]
    /\ sending \in [Code -> SUBSET Code]
    /\ turns \in 0..MaxTurns

\* A credential opens the account it was issued for and no other: whatever an
\* absorbed account had is dead (identity.py 447-462).
OpensOwnAccount ==
    \A s \in Credential : Resolves(s) => cred[s].user = cred[s].origin

\* Nothing brings a revoked credential back, neither the rotation of a grant
\* nor enabling the account again (mcp_grants.py 340-355, cli.py 167-173).
RevokedStaysRevoked ==
    [][\A s \in Credential :
         cred[s].state \in {"revoked", "deleted"} => ~Resolves(s)']_vars

\* Once a code has logged in, no older one does, also when the two requests
\* overlapped and neither voided the other's code (web_auth.py 293-299).
NoOlderCodeLogsIn ==
    [][\A e \in Code : cred'[e].minted > cred[e].minted =>
         \A f \in Code : f > e => cred[f].minted = 0]_vars

\* What the service says of its credentials, each the property of one hazard.
CredentialsStayTrue == []OpensOwnAccount /\ RevokedStaysRevoked /\ NoOlderCodeLogsIn

Progress(s) ==
    CASE secret[s].state = "none"                -> "fresh"
      [] secret[s].state \in {"open", "approved"} -> "open"
      [] secret[s].state = "spent"               -> "spent"
      [] secret[s].state = "void"                -> "void"

OneTime == INSTANCE OneTimeSecret WITH
    state  <- [s \in Secret |-> Progress(s)],
    minted <- [s \in Secret |-> cred[s].minted]

\* A command, a code or a pairing buys one credential, whoever presents it and
\* however often, and none after it has expired, was superseded or lost its
\* account (web/auth.py 392-421, web_auth.py 289-306, browser_companion.py
\* 201-240).
ImplementsOneTimeSecret == OneTime!Spec

================================================================================
