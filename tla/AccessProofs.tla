----------------------------- MODULE AccessProofs -----------------------------
(******************************************************************************)
(* Theorems about Access: for every set of accounts, clients, secrets and     *)
(* grants whose names differ, every set of processes and calls, and every     *)
(* number of operator acts, messages, sessions and login commands.            *)
(*                                                                            *)
(* The argument, for the credentials: a request that has checked a secret     *)
(* keeps it usable until it ends, because whoever would void it waits for the *)
(* lock (CheckedStays) or holds a lock the check waits for (SendingHolds).    *)
(* Two such requests never hold the same secret or two codes of the address   *)
(* (CheckedDiffer), so the secret is spent once, and what is not spent has    *)
(* bought nothing (Unspent).                                                  *)
(*                                                                            *)
(* For the MCP server: a token that was no good when a request was sent is no *)
(* good when the request is authenticated, because nothing makes a grant good *)
(* again and rotations only count up (the second part of CallFits). A request *)
(* that is let in names its grant in its own context or, on stdio, in the     *)
(* process that was started with it and outlives the request (the third); and *)
(* what a process runs was complete when it came up (UpIsComplete).           *)
(*                                                                            *)
(* For the web session: as long as nobody logged in in another tab while a    *)
(* client was in use, all its requests carry the cookie of one session or     *)
(* none, and whatever it shows, or will show when an answer that is its own   *)
(* arrives, is of the account of that session (OneSeen).                      *)
(******************************************************************************)
EXTENDS Access, Sequences, TLAPS

--------------------------------------------------------------------------------
(* The inductive invariant of the credentials *)

Checked(k) == request[k].pc = "checked"
Counted(k) == request[k].pc = "counted"

\* Nobody approves a code: it is paid by whoever has the mail identity.
CodesUnapproved ==
    \A e \in Code : secret[e].user = "none" /\ secret[e].state # "approved"

\* A secret that was not spent has bought nothing.
Unspent ==
    \A s \in Secret : secret[s].state # "spent" => cred[s] = NoCred

\* A credential that could resolve has not moved to another account.
LiveKeepsOwner ==
    \A s \in Credential :
        cred[s].state \in {"live", "expired"} => cred[s].user = cred[s].origin

\* A checked secret is usable and, if it is a code, nobody is about to void it
\* and no later code has been spent.
CheckedStays ==
    \A k \in Client : Checked(k) =>
        LET s == request[k].secret
        IN  /\ s \in Secret
            /\ secret[s].state \in {"open", "approved"}
            /\ s \in Code => /\ s \notin Updated
                             /\ \A f \in Code : f > s => secret[f].state # "spent"

\* Two requests check different secrets, and one code at a time.
CheckedDiffer ==
    \A k, l \in Client : Checked(k) /\ Checked(l) /\ k # l =>
        /\ request[k].secret # request[l].secret
        /\ ~({request[k].secret, request[l].secret} \subseteq Code)

\* A pairing that was counted is not inserted yet, and by one request.
CountedFresh ==
    \A k \in Client : Counted(k) =>
        /\ request[k].secret \in Pairing
        /\ secret[request[k].secret].state = "none"
        /\ \A l \in Client : Counted(l) /\ k # l => request[k].secret # request[l].secret

\* A code that is being sent is not inserted yet, and those it voids are open
\* or were voided meanwhile.
SendingHolds ==
    \A e \in Code : Sending(e) =>
        /\ e \in sending[e]
        /\ secret[e].state = "none"
        /\ \A f \in sending[e] : f # e => secret[f].state \in {"open", "void"}

IInv ==
    /\ TypeOK
    /\ CodesUnapproved
    /\ Unspent
    /\ LiveKeepsOwner
    /\ CheckedStays
    /\ CheckedDiffer
    /\ CountedFresh
    /\ SendingHolds

--------------------------------------------------------------------------------
(* Initial states and types *)

\* The initial states satisfy the invariant.
LEMMA InitInv == LimitsAssumption /\ Init => IInv
<1> SUFFICES ASSUME LimitsAssumption, Init PROVE IInv
  OBVIOUS
<1>1. TypeOK
  BY DEF LimitsAssumption, Init, TypeOK, SecretRow, NoSecret, CredRow, NoCred, Request, Idle
<1>2. \A s \in Secret : secret[s] = NoSecret /\ s \in Credential
  BY DEF Init, Credential
<1>3. CodesUnapproved
  BY <1>2 DEF CodesUnapproved, NoSecret, Secret
<1>4. Unspent /\ LiveKeepsOwner
  BY <1>2 DEF Init, Unspent, LiveKeepsOwner, NoCred
<1>5. CheckedStays /\ CheckedDiffer /\ CountedFresh
  BY DEF Init, CheckedStays, CheckedDiffer, CountedFresh, Checked, Counted, Idle
<1>6. SendingHolds
  BY DEF Init, SendingHolds, Sending
<1>7. QED
  BY <1>1, <1>3, <1>4, <1>5, <1>6 DEF IInv

\* What a credential is bought for, or an operator issues, is a row.
LEMMA MintedTyped ==
  ASSUME TypeOK, NEW s \in Credential, NEW a \in Account
  PROVE  Minted(s, a) \in CredRow
<1>1. cred[s].minted + 1 \in Nat
  BY DEF TypeOK, CredRow
<1>2. QED
  BY <1>1 DEF Minted, CredRow

\* Every step keeps the types.
LEMMA TypesKept ==
  ASSUME LimitsAssumption, TypeOK, CheckedStays, CountedFresh, SendingHolds, [Next]_vars
  PROVE  TypeOK'
<1>1. /\ AttemptLimit \in Nat /\ MaxTurns \in Nat /\ MaxCode \in Nat
      /\ Code \subseteq Secret /\ Challenge \subseteq Secret /\ Pairing \subseteq Secret
      /\ Secret \subseteq Credential /\ Grant \subseteq Credential
  BY DEF LimitsAssumption, Secret, Credential
<1> DEFINE Step == {"none", "open", "approved", "spent", "void"}
<1>2a. \A s \in Secret : /\ secret[s] \in SecretRow
                         /\ secret[s].tries \in 0..AttemptLimit
                         /\ secret[s].user \in Account \union {"none"}
  BY DEF TypeOK, SecretRow
<1>2b. \A r \in SecretRow :
         /\ \A n \in 0..AttemptLimit : [r EXCEPT !.tries = n] \in SecretRow
         /\ \A x \in Step : [r EXCEPT !.state = x] \in SecretRow
         /\ \A a \in Account : [r EXCEPT !.state = "approved", !.user = a] \in SecretRow
         /\ \A x \in Step, c \in Requester : [r EXCEPT !.state = x, !.by = c] \in SecretRow
  BY DEF SecretRow
<1>2c. NoSecret \in SecretRow
  BY <1>1 DEF NoSecret, SecretRow
<1>2. /\ \A s \in Secret : /\ secret[s].tries \in 0..AttemptLimit
                           /\ secret[s].user \in Account \union {"none"}
      /\ \A s \in Secret, n \in 0..AttemptLimit : [secret[s] EXCEPT !.tries = n] \in SecretRow
      /\ \A s \in Secret, x \in Step : [secret[s] EXCEPT !.state = x] \in SecretRow
      /\ \A s \in Secret, a \in Account :
            [secret[s] EXCEPT !.state = "approved", !.user = a] \in SecretRow
      /\ \A x \in Step : [NoSecret EXCEPT !.state = x] \in SecretRow
      /\ \A x \in Step, r \in Requester : [NoSecret EXCEPT !.state = x, !.by = r] \in SecretRow
  BY <1>2a, <1>2b, <1>2c
<1>3. /\ \A s \in Credential, x \in {"live", "revoked", "expired", "deleted"} :
            [cred[s] EXCEPT !.state = x] \in CredRow
      /\ \A s \in Credential, a \in Account :
            [cred[s] EXCEPT !.user = a, !.state = "revoked"] \in CredRow
  BY DEF TypeOK, CredRow
<1>4. Idle \in Request
  BY DEF Request, Idle
<1>5. ASSUME UNCHANGED vars PROVE TypeOK'
  BY <1>5 DEF TypeOK, vars
<1>6. ASSUME NEW c \in Challenge, NEW r \in Requester, CreateChallenge(c, r) PROVE TypeOK'
  BY <1>1, <1>2, <1>6 DEF CreateChallenge, Put, TypeOK
<1>7. ASSUME NEW c \in Challenge, NEW a \in Account, Approve(c, a) PROVE TypeOK'
  BY <1>1, <1>2, <1>7 DEF Approve, Put, TypeOK
<1>8. ASSUME NEW s \in Secret, WrongChannel(s) \/ WrongCode(s) PROVE TypeOK'
  <2>1. secret[s].tries + 1 \in 0..AttemptLimit
    <3>1. secret[s].tries < AttemptLimit
      BY <1>8 DEF WrongChannel, WrongCode, Usable
    <3>2. QED
      BY <1>1, <1>2a, <3>1
  <2>2. QED
    BY <1>2, <1>8, <2>1 DEF WrongChannel, WrongCode, Put, TypeOK
<1>9. ASSUME NEW k \in Client, NEW p \in Pairing, CountPairings(k, p) PROVE TypeOK'
  <2>1. [Idle EXCEPT !.pc = "counted", !.secret = p] \in Request
    BY <1>1 DEF Request, Idle
  <2>2. QED
    BY <1>9, <2>1 DEF CountPairings, TypeOK
<1>10. ASSUME NEW k \in Client, CreatePairing(k) PROVE TypeOK'
  <2>1. request[k].secret \in Secret
    BY <1>1, <1>10 DEF CreatePairing, CountedFresh, Counted
  <2>2. QED
    BY <1>2, <1>4, <1>10, <2>1, [NoSecret EXCEPT !.state = "open"] \in SecretRow
       DEF CreatePairing, Put, TypeOK
<1>11. ASSUME NEW k \in Client, NEW s \in Secret, Exchange(k, s) PROVE TypeOK'
  <2>1. Payer(s) \in Account \union {"none"}
    BY <1>2 DEF Payer, TypeOK
  <2>2. [pc |-> "checked", secret |-> s, user |-> Payer(s)] \in Request
    BY <2>1 DEF Request
  <2>3. QED
    BY <1>11, <2>2 DEF Exchange, TypeOK
<1>12. ASSUME NEW k \in Client, ExchangeCommits(k) PROVE TypeOK'
  <2>1. request[k].secret \in Secret /\ request[k].user \in Account
    BY <1>12 DEF ExchangeCommits, CheckedStays, Checked, Exists, TypeOK, Request
  <2>2. Minted(request[k].secret, request[k].user) \in CredRow
    BY <1>1, <2>1, MintedTyped
  <2>3. QED
    BY <1>1, <1>2, <1>4, <1>12, <2>1, <2>2 DEF ExchangeCommits, Put, TypeOK
<1>13. ASSUME NEW k \in Client, ExchangeAborts(k) PROVE TypeOK'
  BY <1>4, <1>13 DEF ExchangeAborts, TypeOK
<1>14. ASSUME NEW p \in Pairing, NEW a \in Account, ApprovePairing(p, a) PROVE TypeOK'
  BY <1>1, <1>2, <1>14 DEF ApprovePairing, Put, TypeOK
<1>15. ASSUME NEW e \in Code, RequestCode(e) PROVE TypeOK'
  BY <1>15 DEF RequestCode, TypeOK
<1>16. ASSUME NEW e \in Code, CodeCommits(e) PROVE TypeOK'
  <2>1. PICK state \in {"open", "void"} :
          secret' = [f \in Secret |->
            IF f = e THEN [NoSecret EXCEPT !.state = state]
            ELSE IF f \in sending[e] THEN [secret[f] EXCEPT !.state = "void"]
            ELSE secret[f]]
    BY <1>16 DEF CodeCommits
  <2>2. secret' \in [Secret -> SecretRow]
    <3>1. /\ [NoSecret EXCEPT !.state = state] \in SecretRow
          /\ \A f \in Secret : /\ [secret[f] EXCEPT !.state = "void"] \in SecretRow
                              /\ secret[f] \in SecretRow
      BY <1>2, <1>2a
    <3>2. QED
      BY <2>1, <3>1
  <2>3. QED
    BY <1>16, <2>2 DEF CodeCommits, TypeOK
<1>17. ASSUME NEW e \in Code, CodeLost(e) PROVE TypeOK'
  BY <1>1, <1>2, <1>17 DEF CodeLost, TypeOK
<1>18. ASSUME NEW s \in Secret, SecretExpires(s) PROVE TypeOK'
  BY <1>2, <1>18 DEF SecretExpires, TypeOK
<1>19. ASSUME NEW g \in Grant, NEW a \in Account, IssueGrant(g, a) PROVE TypeOK'
  BY <1>1, <1>19, MintedTyped DEF IssueGrant, TypeOK
<1>20. ASSUME NEW s \in Credential,
              \/ RotateGrant(s) \/ RevokeGrant(s) \/ Logout(s) \/ DisconnectExtension(s)
              \/ (\E a \in Account : RevokeDevice(s, a))
              \/ CredentialExpires(s)
       PROVE  TypeOK'
  BY <1>3, <1>20 DEF RotateGrant, RevokeGrant, Logout, DisconnectExtension, RevokeDevice,
                     CredentialExpires, Revoked, TypeOK
<1>21. ASSUME NEW a \in Account, Disable(a) \/ Enable(a) PROVE TypeOK'
  <2>1. turns' \in 0..MaxTurns
    BY <1>1, <1>21 DEF Disable, Enable, Turn, TypeOK
  <2>2. cred' \in [Credential -> CredRow]
    BY <1>3, <1>21 DEF Disable, Enable, TypeOK
  <2>3. QED
    BY <1>21, <2>1, <2>2 DEF Disable, Enable, TypeOK
<1>22. ASSUME NEW a \in Account, NEW b \in Account, Absorb(a, b) PROVE TypeOK'
  <2>1. \A s \in Credential : CredAfter(s, a, b) \in CredRow
    BY <1>3 DEF CredAfter, TypeOK
  <2>2. secret' \in [Secret -> SecretRow]
    BY <1>2, <1>22 DEF Absorb, TypeOK
  <2>3. QED
    BY <1>22, <2>1, <2>2 DEF Absorb, TypeOK
<1>23. QED
  BY <1>1, <1>5, <1>6, <1>7, <1>8, <1>9, <1>10, <1>11, <1>12, <1>13, <1>14, <1>15, <1>16,
     <1>17, <1>18, <1>19, <1>20, <1>21, <1>22 DEF Next

--------------------------------------------------------------------------------
(* Steps that write one secret, or credentials only *)

\* The rules for secrets, credentials and requests, without their types.
Kept ==
    /\ CodesUnapproved /\ Unspent /\ LiveKeepsOwner /\ CheckedStays
    /\ CheckedDiffer /\ CountedFresh /\ SendingHolds

\* A secret that no request has checked can be written: from one state in which
\* it is not spent to another.
LEMMA SecretWrite ==
  ASSUME LimitsAssumption, IInv, NEW s \in Secret, NEW r,
         secret' = [secret EXCEPT ![s] = r],
         UNCHANGED <<cred, request, sending>>,
         ~Locked(s) \/ secret[s].state = "none",
         secret[s].state # "spent", r.state # "spent",
         s \in Pairing => secret[s].state # "none",
         s \in Code => /\ secret[s].state = "open"
                       /\ r.state \in {"open", "void"}
                       /\ r.user = "none"
  PROVE  Kept'
<1>1. /\ secret'[s] = r
      /\ \A t \in Secret : t # s => secret'[t] = secret[t]
      /\ Code \subseteq Secret /\ Pairing \subseteq Secret
  BY DEF IInv, TypeOK, Secret
<1>2. CodesUnapproved'
  BY <1>1 DEF IInv, CodesUnapproved
<1>3. Unspent' /\ LiveKeepsOwner'
  BY <1>1 DEF IInv, Unspent, LiveKeepsOwner
<1>4. \A k \in Client : Checked(k) => request[k].secret # s
  BY DEF IInv, CheckedStays, Locked, Checked
<1>5. CheckedStays' /\ CheckedDiffer'
  BY <1>1, <1>4 DEF IInv, CheckedStays, CheckedDiffer, Checked, Updated, Sending
<1>6. CountedFresh'
  BY <1>1 DEF IInv, CountedFresh, Counted
<1>7. SendingHolds'
  BY <1>1 DEF IInv, SendingHolds, Sending, TypeOK
<1>8. QED
  BY <1>2, <1>3, <1>5, <1>6, <1>7 DEF Kept

\* Credentials that were bought or issued can be changed as long as those that
\* stay good keep their owner.
LEMMA CredWrite ==
  ASSUME LimitsAssumption, IInv,
         UNCHANGED <<secret, request, sending>>,
         \A s \in Credential : /\ cred'[s] = cred[s] \/ cred[s] # NoCred \/ s \in Grant
                               /\ cred'[s].state \in {"live", "expired"}
                                  => cred'[s].user = cred'[s].origin
  PROVE  Kept'
<1>1. Secret \subseteq Credential /\ Secret \intersect Grant = {}
  BY DEF LimitsAssumption, Credential, Secret, Code
<1>2. Unspent'
  BY <1>1 DEF IInv, Unspent
<1>3. QED
  BY <1>2 DEF IInv, Kept, CodesUnapproved, LiveKeepsOwner, CheckedStays, CheckedDiffer,
              CountedFresh, SendingHolds, Checked, Counted, Updated, Sending

\* A step after which fewer requests are under way keeps the rules.
LEMMA RequestEnds ==
  ASSUME IInv, NEW k \in Client,
         request' = [request EXCEPT ![k] = Idle],
         UNCHANGED <<secret, cred, sending>>
  PROVE  Kept'
<1>1. /\ ~Checked(k)' /\ ~Counted(k)'
      /\ \A l \in Client : l # k => request'[l] = request[l]
  BY DEF IInv, TypeOK, Checked, Counted, Idle
<1>2. CheckedStays' /\ CheckedDiffer' /\ CountedFresh'
  BY <1>1 DEF IInv, CheckedStays, CheckedDiffer, CountedFresh, Checked, Counted, Updated, Sending
<1>3. QED
  BY <1>2 DEF IInv, Kept, CodesUnapproved, Unspent, LiveKeepsOwner, SendingHolds, Sending

--------------------------------------------------------------------------------
(* The steps of a request *)

\* Counting the pairings reserves one for the request.
LEMMA CountKeeps ==
  ASSUME LimitsAssumption, IInv, NEW k \in Client, NEW p \in Pairing, CountPairings(k, p)
  PROVE  Kept'
<1>1. /\ request'[k] = [Idle EXCEPT !.pc = "counted", !.secret = p]
      /\ \A l \in Client : l # k => request'[l] = request[l]
  BY DEF CountPairings, IInv, TypeOK
<1>2. request'[k].pc = "counted" /\ request'[k].secret = p
  BY <1>1 DEF Idle
<1>3. CountedFresh'
  BY <1>1, <1>2 DEF CountPairings, IInv, CountedFresh, Counted
<1>4. CheckedStays' /\ CheckedDiffer'
  BY <1>1, <1>2 DEF CountPairings, IInv, CheckedStays, CheckedDiffer, Checked, Updated, Sending
<1>5. QED
  BY <1>3, <1>4 DEF CountPairings, IInv, Kept, CodesUnapproved, Unspent, LiveKeepsOwner,
                    SendingHolds, Sending

\* The pairing that was counted is inserted.
LEMMA CreateKeeps ==
  ASSUME LimitsAssumption, IInv, NEW k \in Client, CreatePairing(k)
  PROVE  Kept'
<1> DEFINE p == request[k].secret
<1>1. p \in Pairing /\ p \in Secret /\ p \notin Code /\ secret[p].state = "none"
  BY DEF CreatePairing, IInv, CountedFresh, Counted, Secret, Code, LimitsAssumption
<1>2. /\ secret'[p].state = "open"
      /\ \A s \in Secret : s # p => secret'[s] = secret[s]
      /\ Code \subseteq Secret /\ Pairing \subseteq Secret
      /\ ~Checked(k)' /\ ~Counted(k)'
      /\ \A l \in Client : l # k => request'[l] = request[l]
  BY <1>1 DEF CreatePairing, Put, IInv, TypeOK, Secret, Checked, Counted, Idle, NoSecret
<1>3. \A l \in Client : Checked(l) \/ (Counted(l) /\ l # k) => request[l].secret # p
  BY <1>1 DEF CreatePairing, IInv, CheckedStays, CountedFresh, Checked, Counted
<1>4. CodesUnapproved' /\ Unspent' /\ LiveKeepsOwner'
  BY <1>1, <1>2 DEF CreatePairing, IInv, CodesUnapproved, Unspent, LiveKeepsOwner
<1>5. CheckedStays'
  BY <1>1, <1>2, <1>3 DEF CreatePairing, IInv, CheckedStays, Checked, Updated, Sending
<1>6. CheckedDiffer' /\ CountedFresh'
  BY <1>2, <1>3 DEF IInv, CheckedDiffer, CountedFresh, Checked, Counted
<1>7. SendingHolds'
  BY <1>1, <1>2 DEF CreatePairing, IInv, SendingHolds, Sending, TypeOK
<1>8. QED
  BY <1>4, <1>5, <1>6, <1>7 DEF Kept

\* A secret is checked that nobody has locked.
LEMMA ExchangeKeeps ==
  ASSUME LimitsAssumption, IInv, NEW k \in Client, NEW s \in Secret, Exchange(k, s)
  PROVE  Kept'
<1>1. /\ request'[k].pc = "checked" /\ request'[k].secret = s
      /\ \A l \in Client : l # k => request'[l] = request[l]
      /\ UNCHANGED <<secret, cred, sending>>
  BY DEF Exchange, IInv, TypeOK
<1>2. secret[s].state \in {"open", "approved"}
  BY DEF Exchange, Redeemable, RedeemableChallenge, RedeemablePairing, RedeemableCode
<1>3. s \in Code => s \notin Updated /\ \A f \in Code : f > s => secret[f].state # "spent"
  <2> SUFFICES ASSUME s \in Code PROVE s \notin Updated /\ \A f \in Code : f > s => secret[f].state # "spent"
    OBVIOUS
  <2>1. s \notin Challenge /\ s \notin Pairing
    BY DEF LimitsAssumption, Code
  <2>2. s \notin Updated /\ Newest(s)
    BY <2>1 DEF Exchange, Redeemable, RedeemableChallenge, RedeemablePairing, RedeemableCode
  <2>3. \A f \in Code : secret[f].state = "spent" => f <= s
    BY <2>2 DEF Newest, Committed
  <2>4. QED
    BY <2>2, <2>3 DEF Code, LimitsAssumption
<1>4. CheckedStays'
  BY <1>1, <1>2, <1>3 DEF IInv, CheckedStays, Checked, Updated, Sending
<1>5. CheckedDiffer'
  BY <1>1 DEF Exchange, Locked, IInv, CheckedDiffer, Checked
<1>6. CountedFresh'
  BY <1>1 DEF IInv, CountedFresh, Counted
<1>7. QED
  BY <1>1, <1>4, <1>5, <1>6 DEF IInv, Kept, CodesUnapproved, Unspent, LiveKeepsOwner,
                                 SendingHolds, Sending

\* The checked secret is spent: it is no other request's.
LEMMA CommitKeeps ==
  ASSUME LimitsAssumption, IInv, NEW k \in Client, ExchangeCommits(k)
  PROVE  Kept'
<1> DEFINE s == request[k].secret
<1>1. /\ Checked(k) /\ s \in Secret /\ s \in Credential
      /\ secret[s].state \in {"open", "approved"}
      /\ s \in Code => s \notin Updated
      /\ Code \subseteq Secret /\ Pairing \subseteq Secret
  BY DEF ExchangeCommits, IInv, CheckedStays, Checked, Credential, Secret
<1>2. /\ secret'[s] = [secret[s] EXCEPT !.state = "spent"]
      /\ \A t \in Secret : t # s => secret'[t] = secret[t]
      /\ cred'[s] = Minted(s, request[k].user)
      /\ \A t \in Credential : t # s => cred'[t] = cred[t]
      /\ ~Checked(k)' /\ ~Counted(k)'
      /\ \A l \in Client : l # k => request'[l] = request[l]
      /\ sending' = sending
  BY <1>1 DEF ExchangeCommits, Put, IInv, TypeOK, Checked, Counted, Idle
<1>3. secret'[s].state = "spent" /\ secret'[s].user = secret[s].user
  BY <1>1, <1>2 DEF IInv, TypeOK, SecretRow
<1> HIDE DEF s
<1>4. CodesUnapproved'
  <2>1. \A e \in Code : secret'[e].user = secret[e].user /\ secret'[e].state # "approved"
    BY ZenonT(30), <1>1, <1>2, <1>3 DEF IInv, CodesUnapproved
  <2>2. QED
    BY <2>1 DEF IInv, CodesUnapproved
<1>5. Unspent' /\ LiveKeepsOwner'
  <2>1. Unspent'
    BY <1>1, <1>2, <1>3 DEF IInv, Unspent, Credential
  <2>2. cred'[s].user = cred'[s].origin
    BY <1>2 DEF Minted
  <2>3. LiveKeepsOwner'
    BY <1>2, <2>2 DEF IInv, LiveKeepsOwner
  <2>4. QED
    BY <2>1, <2>3
<1>6. CheckedStays'
  BY <1>1, <1>2 DEF IInv, CheckedStays, CheckedDiffer, Checked, Updated, Sending, s
<1>7. CheckedDiffer' /\ CountedFresh'
  BY <1>1, <1>2 DEF IInv, CheckedDiffer, CountedFresh, Checked, Counted
<1>8. SendingHolds'
  <2>1. \A e \in Code : Sending(e) => e # s /\ s \notin sending[e]
    BY <1>1 DEF IInv, SendingHolds, Sending, Updated, TypeOK
  <2>2. QED
    BY <1>1, <1>2, <2>1 DEF IInv, SendingHolds, Sending, TypeOK
<1>9. QED
  BY <1>4, <1>5, <1>6, <1>7, <1>8 DEF Kept

--------------------------------------------------------------------------------
(* The steps of a code that is sent *)

\* A code is begun when no open code is checked or about to be voided.
LEMMA RequestKeeps ==
  ASSUME LimitsAssumption, IInv, NEW e \in Code, RequestCode(e)
  PROVE  Kept'
<1> DEFINE older == {f \in Code : secret[f].state = "open"}
<1>1. /\ sending'[e] = older \union {e}
      /\ \A f \in Code : f # e => sending'[f] = sending[f]
      /\ UNCHANGED <<secret, cred, request>>
  BY DEF RequestCode, IInv, TypeOK
<1>2. secret[e].state = "none" /\ sending[e] = {}
  <2>1. e \notin 1..(e - 1)
    BY DEF Code, LimitsAssumption
  <2>2. QED
    BY <2>1 DEF RequestCode, Begun
<1>3. SendingHolds'
  BY <1>1, <1>2 DEF IInv, SendingHolds, Sending
<1>4. \A k \in Client : Checked(k) => request[k].secret \notin older \union {e}
  <2> SUFFICES ASSUME NEW k \in Client, Checked(k), request[k].secret \in older \union {e}
               PROVE  FALSE
    OBVIOUS
  <2>1. request[k].secret \in older
    BY <1>2 DEF IInv, CheckedStays, Checked
  <2>2. Locked(request[k].secret)
    BY DEF Locked, Checked
  <2>3. QED
    BY <2>1, <2>2 DEF RequestCode
<1>5. Updated' \subseteq Updated \union older \union {e}
  BY <1>1 DEF Updated, Sending
<1>6. CheckedStays'
  BY <1>1, <1>4, <1>5 DEF IInv, CheckedStays, Checked
<1>7. QED
  BY <1>1, <1>3, <1>6 DEF IInv, Kept, CodesUnapproved, Unspent, LiveKeepsOwner,
                          CheckedDiffer, CountedFresh, Checked, Counted

\* A request for a code ends: the codes it changes are void or open, as they were.
LEMMA SendingEnds ==
  ASSUME LimitsAssumption, IInv, NEW e \in Code, CodeCommits(e) \/ CodeLost(e)
  PROVE  Kept'
<1>1. /\ sending'[e] = {}
      /\ \A f \in Code : f # e => sending'[f] = sending[f]
      /\ UNCHANGED <<cred, request>>
      /\ Code \subseteq Secret /\ Pairing \subseteq Secret /\ Pairing \intersect Code = {}
  BY DEF CodeCommits, CodeLost, IInv, TypeOK, Secret, LimitsAssumption, Code
<1>2. /\ e \in sending[e] /\ sending[e] \subseteq Code
      /\ secret[e].state = "none"
      /\ \A f \in sending[e] : f # e => secret[f].state \in {"open", "void"}
  BY DEF CodeCommits, CodeLost, IInv, SendingHolds, TypeOK, Sending
<1>3. \A f \in Secret : secret'[f] # secret[f] =>
         f \in sending[e] /\ secret'[f].state \in {"open", "void"} /\ secret'[f].user = "none"
  <2> SUFFICES ASSUME NEW f \in Secret, secret'[f] # secret[f]
               PROVE  /\ f \in sending[e] /\ secret'[f].state \in {"open", "void"}
                      /\ secret'[f].user = "none"
    OBVIOUS
  <2>1. \A g \in sending[e] : secret[g] \in SecretRow /\ secret[g].user = "none"
    BY <1>1, <1>2 DEF IInv, TypeOK, CodesUnapproved
  <2>2. CASE CodeCommits(e)
    <3>1. PICK state \in {"open", "void"} :
            secret' = [g \in Secret |->
              IF g = e THEN [NoSecret EXCEPT !.state = state]
              ELSE IF g \in sending[e] THEN [secret[g] EXCEPT !.state = "void"]
              ELSE secret[g]]
      BY <2>2 DEF CodeCommits
    <3>2. CASE f = e
      BY <1>2, <3>1, <3>2 DEF NoSecret
    <3>3. CASE f # e
      <4>1. f \in sending[e] /\ secret'[f] = [secret[f] EXCEPT !.state = "void"]
        BY <3>1, <3>3
      <4>2. QED
        BY <2>1, <4>1 DEF SecretRow
    <3>4. QED
      BY <3>2, <3>3
  <2>3. CASE CodeLost(e)
    <3>1. f = e /\ secret'[f] = [secret[f] EXCEPT !.state = "void"]
      BY <2>3 DEF CodeLost, IInv, TypeOK
    <3>2. QED
      BY <1>2, <2>1, <3>1 DEF SecretRow
  <2>4. QED
    BY <2>2, <2>3
<1>4. \A f \in sending[e] : secret[f].state # "spent"
  BY <1>2
<1>5. CodesUnapproved'
  BY <1>1, <1>3 DEF IInv, CodesUnapproved
<1>6. Unspent' /\ LiveKeepsOwner'
  BY <1>1, <1>3, <1>4 DEF IInv, Unspent, LiveKeepsOwner
<1>7. sending[e] \subseteq Updated /\ Updated' \subseteq Updated
  BY <1>1, <1>2 DEF Updated, Sending
<1>8. CheckedStays'
  <2> SUFFICES ASSUME NEW k \in Client, Checked(k), NEW s \in Secret, s = request[k].secret
               PROVE  /\ secret'[s].state \in {"open", "approved"}
                      /\ s \in Code => /\ s \notin Updated'
                                       /\ \A f \in Code : f > s => secret'[f].state # "spent"
    BY <1>1 DEF IInv, CheckedStays, Checked
  <2>1. /\ secret[s].state \in {"open", "approved"}
        /\ s \in Code => s \notin Updated /\ \A f \in Code : f > s => secret[f].state # "spent"
    BY DEF IInv, CheckedStays
  <2>2. s \notin sending[e]
    BY <1>2, <1>7, <2>1
  <2>3. secret'[s] = secret[s]
    BY <1>3, <2>2
  <2>4. \A f \in Code : secret[f].state # "spent" => secret'[f].state # "spent"
    BY <1>1, <1>3
  <2>5. QED
    BY <1>7, <2>1, <2>3, <2>4
<1>9. CheckedDiffer' /\ CountedFresh'
  BY <1>1, <1>2, <1>3 DEF IInv, CheckedDiffer, CountedFresh, Checked, Counted
<1>10. SendingHolds'
  <2> SUFFICES ASSUME NEW f \in Code, f # e, Sending(f)
               PROVE  /\ secret'[f].state = "none"
                      /\ \A g \in sending[f] : g # f => secret'[g].state \in {"open", "void"}
    BY <1>1 DEF IInv, SendingHolds, Sending
  <2>1. /\ secret[f].state = "none"
        /\ \A g \in sending[f] : g # f => secret[g].state \in {"open", "void"}
        /\ sending[f] \subseteq Code
    BY DEF IInv, SendingHolds, TypeOK
  <2>2. f \notin sending[e]
    BY <1>2, <2>1
  <2>3. QED
    BY <1>1, <1>3, <2>1, <2>2
<1>11. QED
  BY <1>5, <1>6, <1>8, <1>9, <1>10 DEF Kept

--------------------------------------------------------------------------------
(* The steps of an account *)

\* An absorbed account voids what it has approved and nobody has checked.
LEMMA AbsorbKeeps ==
  ASSUME LimitsAssumption, IInv, NEW a \in Account, NEW b \in Account, Absorb(a, b)
  PROVE  Kept'
<1>1. /\ \A s \in Secret : /\ secret'[s].user = secret[s].user
                           /\ secret'[s] = secret[s]
                              \/ /\ secret[s].user = b /\ secret[s].state = "approved"
                                 /\ secret'[s].state = "void"
      /\ \A s \in Credential : cred'[s] = CredAfter(s, a, b)
      /\ UNCHANGED <<request, sending>>
      /\ Code \subseteq Secret /\ Pairing \subseteq Secret /\ Secret \subseteq Credential
      /\ b # "none"
  BY DEF Absorb, IInv, TypeOK, SecretRow, Secret, Credential, LimitsAssumption
<1>2. CodesUnapproved'
  BY <1>1 DEF IInv, CodesUnapproved
<1>3. Unspent'
  <2> SUFFICES ASSUME NEW s \in Secret, secret'[s].state # "spent" PROVE cred'[s] = NoCred
    BY DEF Unspent
  <2>1. cred[s] = NoCred
    BY <1>1 DEF IInv, Unspent
  <2>2. cred[s].user # b
    BY <1>1, <2>1 DEF NoCred
  <2>3. CredAfter(s, a, b) = cred[s]
    BY <2>2 DEF CredAfter
  <2>4. QED
    BY <1>1, <2>1, <2>3
<1>4. LiveKeepsOwner'
  <2> SUFFICES ASSUME NEW s \in Credential, cred'[s].state \in {"live", "expired"}
               PROVE  cred'[s].user = cred'[s].origin
    BY DEF LiveKeepsOwner
  <2>1. cred[s] \in CredRow
    BY DEF IInv, TypeOK
  <2>2. cred'[s] = cred[s]
    BY <1>1, <2>1 DEF CredAfter, CredRow
  <2>3. QED
    BY <2>2 DEF IInv, LiveKeepsOwner
<1>5. \A e \in Code : secret'[e] = secret[e]
  BY <1>1 DEF IInv, CodesUnapproved
<1>6. CheckedStays'
  <2> SUFFICES ASSUME NEW k \in Client, Checked(k), NEW s \in Secret, s = request[k].secret
               PROVE  secret'[s] = secret[s]
    BY <1>1, <1>5 DEF IInv, CheckedStays, Checked, Updated, Sending
  <2>1. Locked(s)
    BY DEF Locked, Checked
  <2>2. Payer(s) # b
    BY <2>1 DEF Absorb
  <2>3. CASE s \in Code
    BY <1>5, <2>3
  <2>4. CASE s \notin Code
    BY <1>1, <2>2, <2>4 DEF Payer
  <2>5. QED
    BY <2>3, <2>4
<1>7. CheckedDiffer' /\ CountedFresh'
  BY <1>1 DEF IInv, CheckedDiffer, CountedFresh, Checked, Counted
<1>8. SendingHolds'
  BY <1>1, <1>5 DEF IInv, SendingHolds, Sending, TypeOK
<1>9. QED
  BY <1>2, <1>3, <1>4, <1>6, <1>7, <1>8 DEF Kept

\* The credentials a step revokes, expires, renews or issues keep their owner.
LEMMA CredSteps ==
  ASSUME LimitsAssumption, IInv,
         \/ \E g \in Grant, a \in Account : IssueGrant(g, a)
         \/ \E g \in Grant : RotateGrant(g) \/ RevokeGrant(g)
         \/ \E s \in Credential :
               \/ Logout(s) \/ DisconnectExtension(s)
               \/ (\E a \in Account : RevokeDevice(s, a))
               \/ CredentialExpires(s)
         \/ \E a \in Account : Disable(a) \/ Enable(a)
  PROVE  Kept'
<1>1. UNCHANGED <<secret, request, sending>>
  BY DEF IssueGrant, RotateGrant, RevokeGrant, Logout, DisconnectExtension, RevokeDevice,
         CredentialExpires, Disable, Enable
<1>2. ASSUME NEW s \in Credential
      PROVE  /\ cred'[s] = cred[s] \/ cred[s] # NoCred \/ s \in Grant
             /\ cred'[s].state \in {"live", "expired"} => cred'[s].user = cred'[s].origin
  <2>1. /\ cred[s] \in CredRow
        /\ cred[s].state \in {"live", "expired"} => cred[s].user = cred[s].origin
        /\ cred[s] = NoCred => cred[s].state = "none"
    BY DEF IInv, TypeOK, LiveKeepsOwner, NoCred
  <2>2. CASE cred'[s] = cred[s]
    BY <2>1, <2>2
  <2>3. CASE \E g \in Grant, a \in Account : IssueGrant(g, a)
    BY <2>1, <2>3 DEF IssueGrant, Minted, IInv, TypeOK
  <2>4. CASE cred'[s] # cred[s] /\ ~\E g \in Grant, a \in Account : IssueGrant(g, a)
    <3>1. /\ cred'[s] \in {[cred[s] EXCEPT !.state = x] : x \in {"live", "expired", "revoked"}}
          /\ cred[s].state # "none"
          /\ cred'[s].state \in {"live", "expired"} => cred[s].state \in {"live", "expired"}
      BY <2>1, <2>4 DEF RotateGrant, Rotatable, RevokeGrant, Logout, Resolves,
             DisconnectExtension, RevokeDevice, CredentialExpires, Disable, Enable, Revoked,
             IInv, TypeOK, CredRow
    <3>2. QED
      BY <2>1, <3>1 DEF CredRow
  <2>5. QED
    BY <2>2, <2>3, <2>4
<1>3. QED
  BY <1>1, <1>2, CredWrite

--------------------------------------------------------------------------------
(* The invariant *)

\* Every step keeps the invariant.
LEMMA StepInv == LimitsAssumption /\ IInv /\ [Next]_vars => IInv'
<1> SUFFICES ASSUME LimitsAssumption, IInv, [Next]_vars PROVE IInv'
  OBVIOUS
<1>1. TypeOK'
  BY TypesKept DEF IInv
<1>2. ASSUME UNCHANGED vars PROVE Kept'
  BY <1>2 DEF vars, IInv, Kept, CodesUnapproved, Unspent, LiveKeepsOwner, CheckedStays,
              CheckedDiffer, CountedFresh, SendingHolds, Checked, Counted, Updated, Sending
<1>3. ASSUME NEW c \in Challenge,
             \/ \E r \in Requester : CreateChallenge(c, r)
             \/ \E a \in Account : Approve(c, a)
             \/ WrongChannel(c)
      PROVE  Kept'
  <2>1. c \in Secret /\ c \notin Code /\ c \notin Pairing
    BY DEF Secret, Code, LimitsAssumption
  <2>2. secret[c] \in SecretRow
    BY <2>1 DEF IInv, TypeOK
  <2>3. /\ secret[c].state # "spent"
        /\ ~Locked(c) \/ secret[c].state = "none"
        /\ UNCHANGED <<cred, request, sending>>
    BY <1>3 DEF CreateChallenge, Approve, WrongChannel
  <2>4. \E r : secret' = [secret EXCEPT ![c] = r] /\ r.state # "spent"
    <3>1. CASE \E r \in Requester : CreateChallenge(c, r)
      <4>1. PICK r \in Requester : CreateChallenge(c, r)
        BY <3>1
      <4> DEFINE row == [NoSecret EXCEPT !.state = "open", !.by = r]
      <4>2. row.state # "spent"
        BY DEF NoSecret
      <4>3. QED
        BY <4>1, <4>2 DEF CreateChallenge, Put
    <3>2. CASE \E a \in Account : Approve(c, a)
      <4>1. PICK a \in Account : Approve(c, a)
        BY <3>2
      <4> DEFINE row == [secret[c] EXCEPT !.state = "approved", !.user = a]
      <4>2. row.state # "spent"
        BY <2>2 DEF SecretRow
      <4>3. QED
        BY <4>1, <4>2 DEF Approve, Put
    <3>3. CASE WrongChannel(c)
      <4> DEFINE row == [secret[c] EXCEPT !.tries = @ + 1]
      <4>1. row.state # "spent"
        BY <2>2, <2>3 DEF SecretRow
      <4>2. QED
        BY <3>3, <4>1 DEF WrongChannel, Put
    <3>4. QED
      BY <1>3, <3>1, <3>2, <3>3
  <2>5. QED
    BY <2>1, <2>3, <2>4, SecretWrite
<1>4. ASSUME NEW p \in Pairing, NEW a \in Account, ApprovePairing(p, a) PROVE Kept'
  <2>1. p \in Secret /\ p \notin Code
    BY DEF Secret, Code, LimitsAssumption
  <2>2. secret[p] \in SecretRow
    BY <2>1 DEF IInv, TypeOK
  <2> DEFINE r == [secret[p] EXCEPT !.state = "approved", !.user = a]
  <2>3. r.state # "spent"
    BY <2>2 DEF SecretRow
  <2> HIDE DEF r
  <2>4. /\ secret' = [secret EXCEPT ![p] = r]
        /\ secret[p].state \in {"open", "approved"} /\ ~Locked(p)
        /\ UNCHANGED <<cred, request, sending>>
    BY <1>4 DEF ApprovePairing, Put, r
  <2>5. QED
    BY <2>1, <2>3, <2>4, SecretWrite
<1>5. ASSUME NEW e \in Code, WrongCode(e) PROVE Kept'
  <2>1. e \in Secret /\ e \notin Pairing
    BY DEF Secret, Code, LimitsAssumption
  <2>2. secret[e] \in SecretRow /\ secret[e].user = "none"
    BY <2>1 DEF IInv, TypeOK, CodesUnapproved
  <2> DEFINE r == [secret[e] EXCEPT !.tries = @ + 1]
  <2>3. r.state = secret[e].state /\ r.user = "none"
    BY <2>2 DEF SecretRow
  <2> HIDE DEF r
  <2>4. /\ secret' = [secret EXCEPT ![e] = r]
        /\ secret[e].state = "open" /\ ~Locked(e)
        /\ UNCHANGED <<cred, request, sending>>
    BY <1>5 DEF WrongCode, Put, r
  <2>5. QED
    BY <2>1, <2>2, <2>3, <2>4, SecretWrite
<1>6. ASSUME NEW s \in Secret, SecretExpires(s) PROVE Kept'
  <2> DEFINE r == [secret[s] EXCEPT !.state = "void"]
  <2>1. secret[s] \in SecretRow
    BY DEF IInv, TypeOK
  <2>2. r.state = "void" /\ r.user = secret[s].user
    BY <2>1 DEF SecretRow
  <2> HIDE DEF r
  <2>3. s \in Code => r.user = "none" /\ secret[s].state # "approved"
    BY <2>2 DEF IInv, CodesUnapproved
  <2>4. /\ secret' = [secret EXCEPT ![s] = r]
        /\ secret[s].state \in {"open", "approved"} /\ ~Locked(s)
        /\ UNCHANGED <<cred, request, sending>>
    BY <1>6 DEF SecretExpires, r
  <2>5. QED
    BY <2>2, <2>3, <2>4, SecretWrite
<1>7. ASSUME NEW k \in Client, ExchangeAborts(k) PROVE Kept'
  BY <1>7, RequestEnds DEF ExchangeAborts
<1>8. QED
  <2>1. Kept'
    BY <1>2, <1>3, <1>4, <1>5, <1>6, <1>7, CountKeeps, CreateKeeps, ExchangeKeeps,
       CommitKeeps, RequestKeeps, SendingEnds, CredSteps, AbsorbKeeps DEF Next
  <2>2. QED
    BY <1>1, <2>1 DEF IInv, Kept

\* The invariant holds in every reachable state.
THEOREM CredentialsInvariance == LimitsAssumption /\ Spec => []IInv
<1> SUFFICES ASSUME LimitsAssumption PROVE Spec => []IInv
  OBVIOUS
<1>1. Init => IInv
  BY InitInv
<1>2. IInv /\ [Next]_vars => IInv'
  BY StepInv
<1>3. QED
  BY <1>1, <1>2, PTL DEF Spec

\* Rows, requests and sendings keep their shape, whoever acts.
THEOREM CredentialsTypes == LimitsAssumption /\ Spec => []TypeOK
<1>1. IInv => TypeOK
  BY DEF IInv
<1>2. QED
  BY <1>1, CredentialsInvariance, PTL

--------------------------------------------------------------------------------
(* Credentials stay true *)

\* A credential opens the account it was issued for (identity.py 447-462).
THEOREM OpensOwn == LimitsAssumption /\ Spec => []OpensOwnAccount
<1>1. IInv => OpensOwnAccount
  BY DEF IInv, LiveKeepsOwner, OpensOwnAccount, Resolves
<1>2. QED
  BY <1>1, CredentialsInvariance, PTL

\* A credential that is revoked or deleted stays so: a checked secret has bought
\* nothing yet, and a grant is issued once.
LEMMA DeadStays ==
  ASSUME LimitsAssumption, IInv, [Next]_vars, NEW s \in Credential,
         cred[s].state \in {"revoked", "deleted"}
  PROVE  cred'[s].state \in {"revoked", "deleted"}
<1>1. cred \in [Credential -> CredRow] /\ cred[s] \in CredRow /\ cred[s] # NoCred
  BY DEF IInv, TypeOK, NoCred
<1>2. CASE cred'[s] = cred[s]
  BY <1>2
<1>3. ASSUME NEW k \in Client, ExchangeCommits(k) PROVE cred'[s] = cred[s]
  <2>1. request[k].secret \in Secret /\ cred[request[k].secret] = NoCred
    BY <1>3 DEF ExchangeCommits, IInv, CheckedStays, Checked, Unspent
  <2>2. QED
    BY <1>1, <1>3, <2>1 DEF ExchangeCommits
<1>4. ASSUME NEW g \in Grant, \/ \E a \in Account : IssueGrant(g, a)
                              \/ RotateGrant(g) \/ RevokeGrant(g)
      PROVE  cred'[s] = cred[s]
  BY <1>1, <1>4 DEF IssueGrant, RotateGrant, Rotatable, RevokeGrant, Revoked, Credential
<1>5. ASSUME NEW t \in Credential,
             \/ Logout(t) \/ DisconnectExtension(t) \/ CredentialExpires(t)
             \/ \E a \in Account : RevokeDevice(t, a)
      PROVE  cred'[s] = cred[s]
  BY <1>1, <1>5 DEF Logout, Resolves, DisconnectExtension, RevokeDevice, CredentialExpires,
                    Revoked
<1>6. ASSUME NEW a \in Account, \/ Disable(a) \/ Enable(a)
                                \/ \E b \in Account : Absorb(a, b)
      PROVE  cred'[s].state \in {"revoked", "deleted"}
  <2>1. \A x \in {"revoked", "deleted"} : /\ [cred[s] EXCEPT !.state = x].state = x
                                         /\ [cred[s] EXCEPT !.user = a, !.state = x].state = x
    BY <1>1 DEF CredRow
  <2>2. cred'[s] \in {cred[s], [cred[s] EXCEPT !.state = "revoked"],
                     [cred[s] EXCEPT !.state = "deleted"],
                     [cred[s] EXCEPT !.user = a, !.state = "revoked"]}
    BY <1>6 DEF Disable, Enable, Absorb, CredAfter
  <2>3. QED
    BY <2>1, <2>2
<1>7. CASE UNCHANGED cred
  BY <1>1, <1>7
<1>8. QED
  BY <1>2, <1>3, <1>4, <1>5, <1>6, <1>7
  DEF Next, vars, CreateChallenge, Approve, WrongChannel, CountPairings, CreatePairing,
      Exchange, ExchangeAborts, ApprovePairing, RequestCode, CodeCommits, CodeLost,
      WrongCode, SecretExpires

\* Nothing brings a revoked credential back (mcp_grants.py 340-355).
THEOREM RevokedStays == LimitsAssumption /\ Spec => RevokedStaysRevoked
<1> SUFFICES ASSUME LimitsAssumption PROVE Spec => RevokedStaysRevoked
  OBVIOUS
<1>1. IInv /\ [Next]_vars =>
        [\A s \in Credential : cred[s].state \in {"revoked", "deleted"} => ~Resolves(s)']_vars
  BY DeadStays DEF Resolves
<1>2. QED
  BY <1>1, CredentialsInvariance, PTL DEF Spec, RevokedStaysRevoked

\* Only the commit of an exchange adds to what a secret has bought.
LEMMA MintedKept ==
  ASSUME LimitsAssumption, IInv, [Next]_vars, NEW s \in Secret,
         ~\E k \in Client : ExchangeCommits(k) /\ request[k].secret = s
  PROVE  cred'[s].minted = cred[s].minted
<1>1. /\ cred \in [Credential -> CredRow] /\ cred[s] \in CredRow
      /\ s \in Credential /\ s \notin Grant
  BY DEF IInv, TypeOK, Credential, LimitsAssumption, Secret, Code
<1>2. ASSUME NEW k \in Client, ExchangeCommits(k) PROVE cred'[s].minted = cred[s].minted
  BY <1>1, <1>2 DEF ExchangeCommits
<1>3. ASSUME NEW g \in Grant, \/ \E a \in Account : IssueGrant(g, a)
                              \/ RotateGrant(g) \/ RevokeGrant(g)
      PROVE  cred'[s].minted = cred[s].minted
  BY <1>1, <1>3 DEF IssueGrant, RotateGrant, RevokeGrant, Revoked, Credential
<1>4. \A x \in {"revoked", "expired", "deleted"} :
         /\ [cred[s] EXCEPT !.state = x].minted = cred[s].minted
         /\ \A a \in Account : [cred[s] EXCEPT !.user = a, !.state = x].minted = cred[s].minted
  BY <1>1 DEF CredRow
<1>5. ASSUME NEW t \in Credential,
             \/ Logout(t) \/ DisconnectExtension(t) \/ CredentialExpires(t)
             \/ \E a \in Account : RevokeDevice(t, a)
      PROVE  cred'[s].minted = cred[s].minted
  <2>1. cred'[s] \in {cred[s], [cred[s] EXCEPT !.state = "revoked"],
                      [cred[s] EXCEPT !.state = "expired"]}
    BY <1>1, <1>5 DEF Logout, DisconnectExtension, RevokeDevice, CredentialExpires, Revoked
  <2>2. QED
    BY <1>4, <2>1
<1>6. ASSUME NEW a \in Account, \/ Disable(a) \/ Enable(a)
                                \/ \E b \in Account : Absorb(a, b)
      PROVE  cred'[s].minted = cred[s].minted
  <2>1. cred'[s] \in {cred[s], [cred[s] EXCEPT !.state = "revoked"],
                      [cred[s] EXCEPT !.state = "deleted"],
                      [cred[s] EXCEPT !.user = a, !.state = "revoked"]}
    BY <1>1, <1>6 DEF Disable, Enable, Absorb, CredAfter
  <2>2. QED
    BY <1>4, <2>1
<1>7. CASE UNCHANGED cred
  BY <1>1, <1>7
<1>8. QED
  BY <1>2, <1>3, <1>5, <1>6, <1>7
  DEF Next, vars, CreateChallenge, Approve, WrongChannel, CountPairings, CreatePairing,
      Exchange, ExchangeAborts, ApprovePairing, RequestCode, CodeCommits, CodeLost,
      WrongCode, SecretExpires

\* Once a code has logged in, no older one does (web_auth.py 293-299).
THEOREM NoOlderCode == LimitsAssumption /\ Spec => NoOlderCodeLogsIn
<1> SUFFICES ASSUME LimitsAssumption PROVE Spec => NoOlderCodeLogsIn
  OBVIOUS
<1>1. ASSUME IInv, [Next]_vars, NEW e \in Code, cred'[e].minted > cred[e].minted,
             NEW f \in Code, f > e
      PROVE  cred[f].minted = 0
  <2>1. e \in Secret /\ f \in Secret /\ cred[e] \in CredRow
    BY <1>1 DEF IInv, TypeOK, Secret, Credential
  <2>2. PICK k \in Client : ExchangeCommits(k) /\ request[k].secret = e
    BY <1>1, <2>1, MintedKept DEF CredRow
  <2>3. secret[f].state # "spent"
    BY <1>1, <2>2 DEF ExchangeCommits, IInv, CheckedStays, Checked
  <2>4. QED
    BY <1>1, <2>1, <2>3 DEF IInv, Unspent, NoCred
<1>2. IInv /\ [Next]_vars =>
        [\A e \in Code : cred'[e].minted > cred[e].minted =>
           \A f \in Code : f > e => cred[f].minted = 0]_vars
  BY <1>1
<1>3. QED
  BY <1>2, CredentialsInvariance, PTL DEF Spec, NoOlderCodeLogsIn

\* A credential opens the account it was issued for, nothing brings a revoked one
\* back, and once a code has logged in no older one does.
THEOREM StayTrue == LimitsAssumption /\ Spec => CredentialsStayTrue
  BY OpensOwn, RevokedStays, NoOlderCode, PTL DEF CredentialsStayTrue

--------------------------------------------------------------------------------
(* A secret is used once: the refinement of OneTimeSecret *)

\* The progress of a secret follows from its state.
LEMMA ProgressOf ==
  ASSUME NEW s \in Secret
  PROVE  /\ secret[s].state = "none" => Progress(s) = "fresh"
         /\ secret[s].state \in {"open", "approved"} => Progress(s) = "open"
         /\ secret[s].state = "spent" => Progress(s) = "spent"
         /\ secret[s].state = "void" => Progress(s) = "void"
  BY DEF Progress

\* What a secret has come to after a step.
LEMMA ProgressAfter ==
  ASSUME NEW s \in Secret
  PROVE  /\ secret'[s].state = "none" => Progress(s)' = "fresh"
         /\ secret'[s].state \in {"open", "approved"} => Progress(s)' = "open"
         /\ secret'[s].state = "spent" => Progress(s)' = "spent"
         /\ secret'[s].state = "void" => Progress(s)' = "void"
  BY DEF Progress

\* A step that opens one new secret and mints nothing issues it.
LEMMA IssueRefines ==
  ASSUME NEW c \in Secret, Progress(c) = "fresh", Progress(c)' = "open",
         \A s \in Secret : s # c => Progress(s)' = Progress(s),
         \A s \in Secret : cred'[s].minted = cred[s].minted
  PROVE  OneTime!Next
<1>1. OneTime!Issue(c)
  BY DEF OneTime!Issue
<1>2. QED
  BY <1>1 DEF OneTime!Next

\* A step that spends an open secret mints one credential with it.
LEMMA SpendRefines ==
  ASSUME NEW c \in Secret, Progress(c) = "open", Progress(c)' = "spent",
         cred'[c].minted = cred[c].minted + 1,
         \A s \in Secret : s # c => /\ Progress(s)' = Progress(s)
                                    /\ cred'[s].minted = cred[s].minted
  PROVE  OneTime!Next
<1>1. OneTime!Spend(c)
  BY DEF OneTime!Spend
<1>2. QED
  BY <1>1 DEF OneTime!Next

\* A step that only closes unspent secrets, and may open a new one, voids them.
LEMMA VoidRefines ==
  ASSUME NEW S \in SUBSET Secret, NEW opened \in SUBSET Secret,
         \/ opened = {}
         \/ \E c \in Secret \ S : opened = {c} /\ Progress(c) = "fresh",
         \A s \in S : Progress(s) \in {"fresh", "open"} /\ Progress(s)' = "void",
         \A s \in opened : Progress(s)' = "open",
         \A s \in Secret : s \notin S /\ s \notin opened => Progress(s)' = Progress(s),
         \A s \in Secret : cred'[s].minted = cred[s].minted
  PROVE  OneTime!Next
<1>1. OneTime!Void(S, opened)
  BY DEF OneTime!Void
<1>2. QED
  BY <1>1 DEF OneTime!Next

\* A step that changes no progress and mints nothing is a stutter.
LEMMA StutterRefines ==
  ASSUME \A s \in Secret : /\ Progress(s)' = Progress(s)
                           /\ cred'[s].minted = cred[s].minted
  PROVE  UNCHANGED OneTime!vars
  BY DEF OneTime!vars

\* Every step issues, spends or voids secrets, or leaves their progress alone.
LEMMA StepRefines ==
  ASSUME LimitsAssumption, IInv, [Next]_vars
  PROVE  [OneTime!Next]_OneTime!vars
<1>1. /\ Code \subseteq Secret /\ Challenge \subseteq Secret /\ Pairing \subseteq Secret
      /\ Secret \subseteq Credential
      /\ \A s \in Secret : secret[s] \in SecretRow
      /\ secret \in [Secret -> SecretRow]
  BY DEF IInv, TypeOK, Secret, Credential
<1>2. \A s \in Secret : secret'[s].state = secret[s].state => Progress(s)' = Progress(s)
  BY DEF Progress
<1>3. CASE \E k \in Client : ExchangeCommits(k)
  <2>1. PICK k \in Client : ExchangeCommits(k)
    BY <1>3
  <2> DEFINE c == request[k].secret
  <2>2. /\ c \in Secret /\ c \in Credential
        /\ secret[c].state \in {"open", "approved"}
        /\ cred[c].minted \in Nat
    BY <1>1, <2>1 DEF ExchangeCommits, IInv, TypeOK, CheckedStays, Checked, CredRow
  <2>3. /\ secret'[c].state = "spent"
        /\ \A s \in Secret : s # c => secret'[s] = secret[s]
        /\ cred'[c].minted = cred[c].minted + 1
        /\ \A s \in Secret : s # c => cred'[s].minted = cred[s].minted
    BY <1>1, <2>1, <2>2 DEF ExchangeCommits, Put, SecretRow, IInv, TypeOK, Minted
  <2>4. QED
    BY <1>2, <2>2, <2>3, ProgressOf, ProgressAfter, SpendRefines
<1>4. CASE ~\E k \in Client : ExchangeCommits(k)
  <2>1. \A s \in Secret : cred'[s].minted = cred[s].minted
    BY <1>4, MintedKept
  <2>2. ASSUME UNCHANGED secret PROVE [OneTime!Next]_OneTime!vars
    BY <1>2, <2>1, <2>2, StutterRefines
  <2>3. ASSUME NEW c \in Challenge, NEW r \in Requester, CreateChallenge(c, r)
        PROVE  OneTime!Next
    <3>1. /\ secret[c].state = "none" /\ secret'[c].state = "open"
          /\ \A s \in Secret : s # c => secret'[s] = secret[s]
      BY <1>1, <2>3 DEF CreateChallenge, Put, NoSecret
    <3>2. QED
      BY <1>1, <1>2, <2>1, <3>1, ProgressOf, ProgressAfter, IssueRefines
  <2>4. ASSUME NEW k \in Client, CreatePairing(k) PROVE OneTime!Next
    <3> DEFINE c == request[k].secret
    <3>1. /\ c \in Secret
          /\ secret[c].state = "none" /\ secret'[c].state = "open"
          /\ \A s \in Secret : s # c => secret'[s] = secret[s]
      BY <1>1, <2>4 DEF CreatePairing, Put, NoSecret, IInv, CountedFresh, Counted
    <3>2. QED
      BY <1>1, <1>2, <2>1, <3>1, ProgressOf, ProgressAfter, IssueRefines
  <2>5. ASSUME NEW c \in Secret,
               \/ WrongChannel(c) \/ WrongCode(c)
               \/ \E a \in Account : Approve(c, a) \/ ApprovePairing(c, a)
        PROVE  UNCHANGED OneTime!vars
    <3>1. \A s \in Secret : Progress(s)' = Progress(s)
      <4>1. \A s \in Secret : s # c => secret'[s] = secret[s]
        BY <1>1, <2>5 DEF WrongChannel, WrongCode, Approve, ApprovePairing, Put
      <4>2. CASE WrongChannel(c) \/ WrongCode(c)
        <5>1. secret'[c] = [secret[c] EXCEPT !.tries = @ + 1]
          BY <1>1, <4>2 DEF WrongChannel, WrongCode, Put
        <5>2. secret'[c].state = secret[c].state
          BY <1>1, <5>1 DEF SecretRow
        <5>3. QED
          BY <1>2, <4>1, <5>2
      <4>3. CASE \E a \in Account : Approve(c, a) \/ ApprovePairing(c, a)
        <5>1. PICK a \in Account : secret'[c] = [secret[c] EXCEPT !.state = "approved", !.user = a]
          BY <1>1, <4>3 DEF Approve, ApprovePairing, Put
        <5>2. secret'[c].state = "approved" /\ secret[c].state \in {"open", "approved"}
          BY <1>1, <4>3, <5>1 DEF SecretRow, Approve, ApprovePairing
        <5>3. QED
          BY <1>2, <4>1, <5>2, ProgressOf, ProgressAfter
      <4>4. QED
        BY <2>5, <4>2, <4>3
    <3>2. QED
      BY <2>1, <3>1, StutterRefines
  <2>6. ASSUME NEW s \in Secret, SecretExpires(s) PROVE OneTime!Next
    <3>1. /\ secret[s].state \in {"open", "approved"} /\ secret'[s].state = "void"
          /\ \A t \in Secret : t # s => secret'[t] = secret[t]
      BY <1>1, <2>6 DEF SecretExpires, SecretRow
    <3>2. /\ \A t \in {s} : Progress(t) \in {"fresh", "open"} /\ Progress(t)' = "void"
          /\ \A t \in Secret : t \notin {s} => Progress(t)' = Progress(t)
      BY <1>2, <3>1, ProgressOf, ProgressAfter
    <3>3. {s} \in SUBSET Secret /\ {} \in SUBSET Secret /\ \A t \in {} : Progress(t)' = "open"
      OBVIOUS
    <3>4. QED
      BY <2>1, <3>2, <3>3, VoidRefines
  <2>7. ASSUME NEW e \in Code, CodeLost(e) PROVE OneTime!Next
    <3>1. /\ e \in Secret /\ secret[e].state = "none" /\ secret'[e].state = "void"
          /\ \A t \in Secret : t # e => secret'[t] = secret[t]
      BY <1>1, <2>7 DEF CodeLost, SecretRow, IInv, SendingHolds
    <3>2. /\ \A t \in {e} : Progress(t) \in {"fresh", "open"} /\ Progress(t)' = "void"
          /\ \A t \in Secret : t \notin {e} => Progress(t)' = Progress(t)
      BY <1>2, <3>1, ProgressOf, ProgressAfter
    <3>3. {e} \in SUBSET Secret /\ {} \in SUBSET Secret /\ \A t \in {} : Progress(t)' = "open"
      BY <3>1
    <3>4. QED
      BY <2>1, <3>2, <3>3, VoidRefines
  <2>8. ASSUME NEW e \in Code, CodeCommits(e) PROVE OneTime!Next
    <3>1. /\ e \in Secret /\ e \in sending[e] /\ sending[e] \subseteq Code
          /\ secret[e].state = "none"
          /\ \A f \in sending[e] : f # e => secret[f].state \in {"open", "void"}
      BY <1>1, <2>8 DEF CodeCommits, IInv, TypeOK, SendingHolds
    <3>2. PICK state \in {"open", "void"} :
            secret' = [f \in Secret |->
              IF f = e THEN [NoSecret EXCEPT !.state = state]
              ELSE IF f \in sending[e] THEN [secret[f] EXCEPT !.state = "void"]
              ELSE secret[f]]
      BY <2>8 DEF CodeCommits
    <3> DEFINE older == {f \in sending[e] : f # e /\ secret[f].state = "open"}
    <3>3. secret'[e].state = state /\ e \notin older
      BY <3>1, <3>2 DEF NoSecret
    <3>4. /\ older \subseteq Secret
          /\ \A f \in older : secret[f].state = "open" /\ secret'[f].state = "void"
      BY <1>1, <3>1, <3>2 DEF SecretRow
    <3>5. \A f \in Secret : f \notin older /\ f # e => secret'[f].state = secret[f].state
      BY <1>1, <3>1, <3>2 DEF SecretRow
    <3> HIDE DEF older
    <3>6. CASE state = "open"
      <4>1. /\ \A t \in older : Progress(t) \in {"fresh", "open"} /\ Progress(t)' = "void"
            /\ \A t \in {e} : Progress(t)' = "open"
            /\ e \in Secret \ older /\ Progress(e) = "fresh"
            /\ \A t \in Secret : t \notin older /\ t \notin {e} => Progress(t)' = Progress(t)
        BY <1>2, <3>1, <3>3, <3>4, <3>5, <3>6, ProgressOf, ProgressAfter
      <4>2. {e} \in SUBSET Secret /\ older \in SUBSET Secret
        BY <3>1, <3>4
      <4>3. QED
        BY <2>1, <4>1, <4>2, VoidRefines
    <3>7. CASE state = "void"
      <4>1. /\ \A t \in older \union {e} : /\ Progress(t) \in {"fresh", "open"}
                                           /\ Progress(t)' = "void"
            /\ \A t \in {} : Progress(t)' = "open"
            /\ \A t \in Secret : t \notin older \union {e} => Progress(t)' = Progress(t)
        BY <1>2, <3>1, <3>3, <3>4, <3>5, <3>7, ProgressOf, ProgressAfter
      <4>2. {} \in SUBSET Secret /\ older \union {e} \in SUBSET Secret
        BY <3>1, <3>4
      <4>3. QED
        BY ZenonT(30), <2>1, <4>1, <4>2, VoidRefines
    <3>8. QED
      BY <3>6, <3>7
  <2>9. ASSUME NEW a \in Account, NEW b \in Account, Absorb(a, b) PROVE OneTime!Next
    <3> DEFINE lost == {s \in Secret : secret[s].user = b /\ secret[s].state = "approved"}
    <3>1. /\ \A s \in lost : secret'[s].state = "void"
          /\ \A s \in Secret : s \notin lost => secret'[s] = secret[s]
      BY <1>1, <2>9 DEF Absorb, SecretRow
    <3>2. /\ \A t \in lost : Progress(t) \in {"fresh", "open"} /\ Progress(t)' = "void"
          /\ \A t \in Secret : t \notin lost => Progress(t)' = Progress(t)
      BY <1>2, <3>1, ProgressOf, ProgressAfter
    <3>3. lost \in SUBSET Secret /\ {} \in SUBSET Secret /\ \A t \in {} : Progress(t)' = "open"
      OBVIOUS
    <3> HIDE DEF lost
    <3>4. QED
      BY <2>1, <3>2, <3>3, VoidRefines
  <2>10. QED
    BY <1>1, <1>4, <2>2, <2>3, <2>4, <2>5, <2>6, <2>7, <2>8, <2>9
    DEF Next, vars, CountPairings, Exchange, ExchangeAborts, RequestCode, IssueGrant,
        RotateGrant, RevokeGrant, Revoked, Logout, DisconnectExtension, RevokeDevice,
        CredentialExpires, Disable, Enable
<1>5. QED
  BY <1>3, <1>4

\* A command, a code or a pairing buys one credential, and none once it is void
\* (web/auth.py 392-421, web_auth.py 289-306, browser_companion.py 201-240).
THEOREM OneTimeUse == LimitsAssumption /\ Spec => ImplementsOneTimeSecret
<1> SUFFICES ASSUME LimitsAssumption PROVE Spec => ImplementsOneTimeSecret
  OBVIOUS
<1>1. Init => OneTime!Init
  <2> SUFFICES ASSUME Init PROVE OneTime!Init
    OBVIOUS
  <2>1. \A s \in Secret : /\ secret[s].state = "none"
                          /\ cred[s].minted = 0
    BY DEF Init, NoSecret, NoCred, Credential
  <2>2. QED
    BY <2>1, ProgressOf DEF OneTime!Init
<1>2. IInv /\ [Next]_vars => [OneTime!Next]_OneTime!vars
  BY StepRefines
<1>3. QED
  BY <1>1, <1>2, CredentialsInvariance, PTL DEF Spec, ImplementsOneTimeSecret, OneTime!Spec

--------------------------------------------------------------------------------
(* The inductive invariant of the MCP server *)

Working == {"asking", "open", "op", "mark"}

\* A request under way is one of a process that is up. A token that was no good
\* when it was sent never gets good again. A request works for the grant it
\* presented, which stands in its context or is its process's own.
CallFits(x) ==
    /\ x.pc \in {"sent", "in"} \union Working => server[x.at].pc = "up"
    /\ x.pc = "sent" =>
           /\ x.at \in Http /\ x.gen <= grant[x.token].gen
           /\ x.dead => ~grant[x.token].good \/ x.gen < grant[x.token].gen
    /\ x.pc = "in" =>
           IF x.at \in Http THEN x.context = x.token
           ELSE x.context = NoGrant /\ server[x.at].own = x.token
    /\ x.pc \in Working => x.as = x.token /\ x.msg \in Mcp!Message
    /\ x.pc \in {"idle", "sent", "in"} => x.as = NoGrant /\ x.code = Mcp!NoMessage
    /\ x.pc \in {"idle", "sent"} => x.context = NoGrant
    /\ x.pc \in Working => x.code \in {Mcp!NoMessage, x.msg}
    /\ x.at \in Http /\ x.pc \in {"in"} \union Working => ~x.dead
    /\ x.pc # "refused"

CallsFit == \A c \in Call : CallFits(call[c])

\* A process that is up runs every application it dispatches to, or was started
\* with a grant.
UpIsComplete ==
    \A p \in Process :
        IF p \in Http THEN server[p].pc = "up" => Mcp!Apps \subseteq server[p].running
        ELSE server[p].pc # "down" => server[p].own \in McpGrant

McpInv == Mcp!TypeOK /\ CallsFit /\ UpIsComplete /\ Mcp!CodeIsAnchored

--------------------------------------------------------------------------------
(* Steps in general *)

\* What the types say of one call, one process and one grant.
LEMMA McpTyped ==
  ASSUME Mcp!TypeOK
  PROVE  /\ \A c \in Call : call[c] \in Mcp!CallState
         /\ \A p \in Process : server[p] \in Mcp!ServerState
         /\ \A g \in McpGrant : /\ thread[g] \in Mcp!ThreadState
                                /\ grant[g].gen \in Nat /\ grant[g].good \in BOOLEAN
                                /\ grant[g] \in [gen : Nat, good : BOOLEAN]
  BY DEF Mcp!TypeOK

\* An idle call and a process that is down have their types.
LEMMA IdleTyped ==
  ASSUME Mcp!McpBounds
  PROVE  Mcp!IdleCall \in Mcp!CallState /\ Mcp!Down \in Mcp!ServerState
<1>1. /\ (CHOOSE p \in Process : TRUE) \in Process
      /\ (CHOOSE g \in McpGrant : TRUE) \in McpGrant
  BY DEF Mcp!McpBounds
<1>2. Mcp!IdleCall \in Mcp!CallState
  BY <1>1 DEF Mcp!IdleCall, Mcp!CallState, Mcp!NoMessage
<1>3. Mcp!Down \in Mcp!ServerState
  BY DEF Mcp!Down, Mcp!ServerState
<1>4. QED
  BY <1>2, <1>3

\* An idle call fits any state.
LEMMA IdleFits == CallFits(Mcp!IdleCall)
  BY DEF CallFits, Mcp!IdleCall, Working

\* A step of one request: its record changes, and that fits.
LEMMA StepKeeps ==
  ASSUME Mcp!McpBounds, McpInv, NEW c \in Call, NEW to \in Mcp!CallState, Mcp!Step(c, to),
           CallFits(to)
  PROVE  McpInv'
<1>1. /\ call' = [call EXCEPT ![c] = to] /\ call \in [Call -> Mcp!CallState]
      /\ UNCHANGED <<grant, server, thread, sent, shown>>
  BY DEF Mcp!Step, McpInv, Mcp!TypeOK
<1>2. Mcp!TypeOK'
  BY <1>1 DEF McpInv, Mcp!TypeOK
<1>3. \A d \in Call : CallFits(call'[d])
  BY <1>1 DEF McpInv, CallsFit
<1>4. CallsFit'
  BY <1>1, <1>3 DEF CallsFit, CallFits
<1>5. UpIsComplete' /\ Mcp!CodeIsAnchored'
  BY <1>1 DEF McpInv, UpIsComplete, Mcp!CodeIsAnchored
<1>6. QED
  BY <1>2, <1>4, <1>5 DEF McpInv

\* A step of one process: one that is up stays as it is.
LEMMA GoKeeps ==
  ASSUME Mcp!McpBounds, McpInv, NEW p \in Process, NEW to \in Mcp!ServerState, Mcp!Go(p, to),
         server[p].pc = "up" => to.pc = "up" /\ to.own = server[p].own,
         IF p \in Http THEN to.pc = "up" => Mcp!Apps \subseteq to.running
         ELSE to.pc # "down" => to.own \in McpGrant
  PROVE  McpInv'
<1>1. /\ server' = [server EXCEPT ![p] = to] /\ server \in [Process -> Mcp!ServerState]
      /\ UNCHANGED <<grant, thread, call, sent, shown>>
  BY DEF Mcp!Go, McpInv, Mcp!TypeOK
<1>2. server'[p] = to /\ \A q \in Process : q # p => server'[q] = server[q]
  BY <1>1
<1>3. Mcp!TypeOK'
  BY <1>1 DEF McpInv, Mcp!TypeOK
<1>4. CallsFit'
  <2> SUFFICES ASSUME NEW c \in Call PROVE CallFits(call[c])'
    BY <1>1 DEF CallsFit
  <2>1. CallFits(call[c]) /\ call[c].at \in Process /\ call'[c] = call[c]
    BY <1>1, McpTyped DEF McpInv, CallsFit, Mcp!CallState
  <2>2. server[call[c].at].pc = "up" =>
            /\ server'[call[c].at].pc = "up"
            /\ server'[call[c].at].own = server[call[c].at].own
    BY <1>2, <2>1
  <2>3. QED
    BY <1>1, <2>1, <2>2 DEF CallFits
<1>5. UpIsComplete'
  BY <1>2 DEF McpInv, UpIsComplete, Mcp!Apps
<1>6. Mcp!CodeIsAnchored'
  BY <1>1 DEF McpInv, Mcp!CodeIsAnchored
<1>7. QED
  BY <1>3, <1>4, <1>5, <1>6 DEF McpInv

\* A step of a tool: its thread changes, and what the clients know of it.
LEMMA ThreadKeeps ==
  ASSUME Mcp!McpBounds, McpInv, NEW c \in Call, call[c].pc \in Working,
         NEW to \in Mcp!CallState, CallFits(to), call' = [call EXCEPT ![c] = to],
         NEW t \in Mcp!ThreadState, thread' = [thread EXCEPT ![call[c].as] = t],
         t.code = Mcp!NoMessage <=> t.anchor = Mcp!NoMessage,
         thread[call[c].as].turns \subseteq t.turns,
         t.deleted \subseteq shown,
         shown \subseteq shown', shown' \subseteq shown \union (t.turns \intersect Mcp!Message),
         UNCHANGED <<grant, server, sent>>
  PROVE  McpInv'
<1>1. call[c].as \in McpGrant
  BY McpTyped DEF McpInv, CallsFit, CallFits, Mcp!CallState
<1>2. /\ call \in [Call -> Mcp!CallState] /\ thread \in [McpGrant -> Mcp!ThreadState]
      /\ shown \subseteq Mcp!Message
  BY DEF McpInv, Mcp!TypeOK
<1>3. thread'[call[c].as] = t /\ \A g \in McpGrant : g # call[c].as => thread'[g] = thread[g]
  BY <1>1, <1>2
<1>4. Mcp!TypeOK'
  <2>1. call' \in [Call -> Mcp!CallState] /\ thread' \in [McpGrant -> Mcp!ThreadState]
        /\ shown' \subseteq Mcp!Message
    BY <1>2
  <2>2. \A g \in McpGrant : thread'[g].code = Mcp!NoMessage <=> thread'[g].anchor = Mcp!NoMessage
    BY <1>3 DEF McpInv, Mcp!TypeOK
  <2>3. QED
    BY <2>1, <2>2 DEF McpInv, Mcp!TypeOK
<1>5. \A d \in Call : CallFits(call'[d])
  BY <1>2 DEF McpInv, CallsFit
<1>6. CallsFit'
  BY <1>5 DEF CallsFit, CallFits
<1>7. UpIsComplete'
  BY DEF McpInv, UpIsComplete
<1>8. Mcp!CodeIsAnchored'
  <2>1. ASSUME NEW m \in shown' PROVE \E g \in McpGrant : m \in thread'[g].turns
    <3>1. CASE m \in shown
      <4>1. PICK g \in McpGrant : m \in thread[g].turns
        BY <3>1 DEF McpInv, Mcp!CodeIsAnchored
      <4>2. QED
        BY <1>3, <4>1
    <3>2. CASE m \in t.turns
      BY <1>1, <1>3, <3>2
    <3>3. QED
      BY <2>1, <3>1, <3>2
  <2>2. ASSUME NEW g \in McpGrant PROVE thread'[g].deleted \subseteq shown'
    BY <1>3 DEF McpInv, Mcp!CodeIsAnchored
  <2>3. QED
    BY <2>1, <2>2 DEF Mcp!CodeIsAnchored
<1>9. QED
  BY <1>4, <1>6, <1>7, <1>8 DEF McpInv

--------------------------------------------------------------------------------
(* Processes and operators *)

\* The steps of a process.
LEMMA ProcessKeeps ==
  ASSUME Mcp!McpBounds, McpInv, NEW p \in Process, Mcp!ProcessStep(p)
  PROVE  McpInv'
<1>1. /\ server[p] \in Mcp!ServerState
      /\ \A g \in McpGrant : g \in McpGrant \union {NoGrant}
      /\ IF p \in Http THEN server[p].pc = "up" => Mcp!Apps \subseteq server[p].running
         ELSE server[p].pc # "down" => server[p].own \in McpGrant
  BY McpTyped DEF McpInv, UpIsComplete
<1>2. CASE Mcp!StartStdio(p)
  <2>1. PICK g \in McpGrant :
           Mcp!Go(p, IF g \in Full
                     THEN [Mcp!Down EXCEPT !.pc = "probing", !.own = g, !.worker = "asked"]
                     ELSE [Mcp!Down EXCEPT !.pc = "up", !.own = g])
    BY <1>2 DEF Mcp!StartStdio
  <2>2. PICK to \in Mcp!ServerState : Mcp!Go(p, to) /\ to.own = g
    <3>1. /\ [Mcp!Down EXCEPT !.pc = "probing", !.own = g, !.worker = "asked"] \in Mcp!ServerState
          /\ [Mcp!Down EXCEPT !.pc = "up", !.own = g] \in Mcp!ServerState
      BY DEF Mcp!Down, Mcp!ServerState
    <3>2. QED
      BY <2>1, <3>1 DEF Mcp!Down
  <2>3. p \notin Http /\ server[p].pc # "up"
    BY <1>2 DEF Mcp!StartStdio
  <2>4. QED
    BY <2>2, <2>3, GoKeeps
<1>3. CASE Mcp!StartHttp(p)
  <2>1. PICK to \in Mcp!ServerState : Mcp!Go(p, to) /\ to.pc = "probing"
    <3>1. [Mcp!Down EXCEPT !.pc = "probing", !.worker = "asked"] \in Mcp!ServerState
      BY DEF Mcp!Down, Mcp!ServerState
    <3>2. QED
      BY <1>3, <3>1 DEF Mcp!StartHttp, Mcp!Down
  <2>2. QED
    BY <1>3, <2>1, GoKeeps DEF Mcp!StartHttp
<1>4. CASE Mcp!WorkerAnswers(p)
  <2>1. PICK to \in Mcp!ServerState :
           /\ Mcp!Go(p, to) /\ to.pc = server[p].pc /\ to.own = server[p].own
           /\ to.running = server[p].running
    <3>1. \A a \in {"answered", "failed"} :
             /\ [server[p] EXCEPT !.worker = a] \in Mcp!ServerState
             /\ [server[p] EXCEPT !.worker = a].pc = server[p].pc
             /\ [server[p] EXCEPT !.worker = a].own = server[p].own
             /\ [server[p] EXCEPT !.worker = a].running = server[p].running
      BY <1>1 DEF Mcp!ServerState
    <3>2. QED
      BY <1>4, <3>1 DEF Mcp!WorkerAnswers
  <2>2. QED
    BY <1>1, <2>1, GoKeeps
<1>5. CASE Mcp!Assess(p)
  <2>1. PICK others \in BOOLEAN :
           Mcp!Go(p, [server[p] EXCEPT !.pc = IF p \in Http THEN "starting" ELSE "up",
                      !.worker = "unread",
                      !.ready = others /\ server[p].worker = "answered"])
    BY <1>5 DEF Mcp!Assess
  <2>2. \A ready \in BOOLEAN, pc \in {"starting", "up"} :
           /\ [server[p] EXCEPT !.pc = pc, !.worker = "unread", !.ready = ready]
                 \in Mcp!ServerState
           /\ [server[p] EXCEPT !.pc = pc, !.worker = "unread", !.ready = ready].pc = pc
           /\ [server[p] EXCEPT !.pc = pc, !.worker = "unread", !.ready = ready].own
                 = server[p].own
    BY <1>1 DEF Mcp!ServerState
  <2>3. (others /\ server[p].worker = "answered") \in BOOLEAN
    OBVIOUS
  <2>4. PICK to \in Mcp!ServerState : /\ Mcp!Go(p, to) /\ to.own = server[p].own
                                      /\ p \in Http => to.pc = "starting"
    BY <2>1, <2>2, <2>3
  <2>5. server[p].pc = "probing"
    BY <1>5 DEF Mcp!Assess
  <2>6. QED
    BY <1>1, <2>4, <2>5, GoKeeps
<1>6. CASE Mcp!StartManager(p)
  <2>1. PICK app \in Mcp!Profile : Mcp!Go(p, [server[p] EXCEPT !.running = @ \union {app}])
    BY <1>6 DEF Mcp!StartManager, Mcp!Apps
  <2>2. PICK to \in Mcp!ServerState : Mcp!Go(p, to) /\ to.pc = server[p].pc
          /\ to.own = server[p].own
    <3>1. [server[p] EXCEPT !.running = @ \union {app}] \in Mcp!ServerState
      BY <1>1 DEF Mcp!ServerState
    <3>2. QED
      BY <1>1, <2>1, <3>1 DEF Mcp!ServerState
  <2>3. server[p].pc = "starting"
    BY <1>6 DEF Mcp!StartManager
  <2>4. QED
    BY <1>1, <2>2, <2>3, GoKeeps
<1>7. CASE Mcp!Serve(p)
  <2>1. PICK to \in Mcp!ServerState : /\ Mcp!Go(p, to) /\ to.pc = "up" /\ to.own = server[p].own
                                      /\ to.running = server[p].running
    <3>1. [server[p] EXCEPT !.pc = "up"] \in Mcp!ServerState
      BY <1>1 DEF Mcp!ServerState
    <3>2. QED
      BY <1>1, <1>7, <3>1 DEF Mcp!Serve, Mcp!ServerState
  <2>2. server[p].pc = "starting" /\ Mcp!Apps \subseteq server[p].running
    BY <1>7 DEF Mcp!Serve
  <2>3. QED
    BY <1>1, <2>1, <2>2, GoKeeps
<1>8. CASE Mcp!Stop(p)
  <2>1. /\ server' = [server EXCEPT ![p] = Mcp!Down] /\ server \in [Process -> Mcp!ServerState]
        /\ call' = [c \in Call |-> IF call[c].at = p THEN Mcp!IdleCall ELSE call[c]]
        /\ UNCHANGED <<grant, thread, sent, shown>>
    BY <1>8 DEF Mcp!Stop, McpInv, Mcp!TypeOK
  <2>2. \A q \in Process : server'[q] = IF q = p THEN Mcp!Down ELSE server[q]
    BY <2>1
  <2>3. Mcp!TypeOK'
    BY <2>1, IdleTyped DEF McpInv, Mcp!TypeOK
  <2>4. CallsFit'
    <3> SUFFICES ASSUME NEW c \in Call PROVE CallFits(call[c])'
      BY DEF CallsFit
    <3>1. CASE call[c].at = p
      <4>1. call'[c] = Mcp!IdleCall
        BY <2>1, <3>1
      <4>2. QED
        BY <4>1 DEF CallFits, Mcp!IdleCall, Working
    <3>2. CASE call[c].at # p
      <4>1. call'[c] = call[c] /\ server'[call[c].at] = server[call[c].at]
        BY <2>1, <2>2, <3>2, McpTyped DEF McpInv, Mcp!CallState
      <4>2. CallFits(call[c])
        BY DEF McpInv, CallsFit
      <4>3. QED
        BY <2>1, <4>1, <4>2 DEF CallFits
    <3>3. QED
      BY <3>1, <3>2
  <2>5. UpIsComplete'
    BY <2>2 DEF McpInv, UpIsComplete, Mcp!Down
  <2>6. Mcp!CodeIsAnchored'
    BY <2>1 DEF McpInv, Mcp!CodeIsAnchored
  <2>7. QED
    BY <2>3, <2>4, <2>5, <2>6 DEF McpInv
<1>9. QED
  BY <1>2, <1>3, <1>4, <1>5, <1>6, <1>7, <1>8 DEF Mcp!ProcessStep

\* An operator rotates or revokes a grant: what was no good stays so.
LEMMA OperatorKeeps ==
  ASSUME Mcp!McpBounds, McpInv, NEW g \in McpGrant, Mcp!Rotate(g) \/ Mcp!Revoke(g)
  PROVE  McpInv'
<1>1. /\ UNCHANGED <<server, thread, call, sent, shown>>
      /\ grant \in [McpGrant -> [gen : Nat, good : BOOLEAN]]
      /\ \/ grant' = [grant EXCEPT ![g].gen = @ + 1]
         \/ grant' = [grant EXCEPT ![g].good = FALSE]
  BY DEF Mcp!Rotate, Mcp!Revoke, McpInv, Mcp!TypeOK
<1>2. /\ grant' \in [McpGrant -> [gen : Nat, good : BOOLEAN]]
      /\ \A h \in McpGrant : /\ grant[h].gen <= grant'[h].gen
                             /\ grant'[h].good => grant[h].good
                             /\ grant'[h].gen \in Nat /\ grant[h].gen \in Nat
  <2>1. CASE grant' = [grant EXCEPT ![g].gen = @ + 1]
    <3>1. [grant[g] EXCEPT !.gen = @ + 1] \in [gen : Nat, good : BOOLEAN]
      BY <1>1
    <3>2. grant' \in [McpGrant -> [gen : Nat, good : BOOLEAN]]
      BY <1>1, <2>1, <3>1
    <3>3. \A h \in McpGrant : /\ grant[h].gen <= grant'[h].gen
                              /\ grant'[h].good = grant[h].good
      BY <1>1, <2>1
    <3>4. QED
      BY <1>1, <3>2, <3>3
  <2>2. CASE grant' = [grant EXCEPT ![g].good = FALSE]
    <3>1. grant' \in [McpGrant -> [gen : Nat, good : BOOLEAN]]
      BY <1>1, <2>2
    <3>2. \A h \in McpGrant : /\ grant[h].gen = grant'[h].gen
                              /\ grant'[h].good => grant[h].good
      BY <1>1, <2>2
    <3>3. QED
      BY <1>1, <3>1, <3>2
  <2>3. QED
    BY <1>1, <2>1, <2>2
<1>3. Mcp!TypeOK'
  BY <1>1, <1>2 DEF McpInv, Mcp!TypeOK
<1>4. CallsFit'
  <2> SUFFICES ASSUME NEW c \in Call PROVE CallFits(call[c])'
    BY DEF CallsFit
  <2>1. CallFits(call[c]) /\ call'[c] = call[c]
    BY <1>1 DEF McpInv, CallsFit
  <2>2. call[c].token \in McpGrant /\ call[c].gen \in Nat
    BY McpTyped DEF McpInv, Mcp!CallState
  <2>3. call[c].pc = "sent" =>
           /\ call[c].gen <= grant'[call[c].token].gen
           /\ call[c].dead => \/ ~grant'[call[c].token].good
                              \/ call[c].gen < grant'[call[c].token].gen
    BY <1>2, <2>1, <2>2 DEF CallFits
  <2>4. QED
    BY <1>1, <2>1, <2>3 DEF CallFits
<1>5. UpIsComplete' /\ Mcp!CodeIsAnchored'
  BY <1>1 DEF McpInv, UpIsComplete, Mcp!CodeIsAnchored
<1>6. QED
  BY <1>3, <1>4, <1>5 DEF McpInv

--------------------------------------------------------------------------------
(* Requests *)

\* A request is sent, authenticated, turned away or given up.
LEMMA CallKeeps ==
  ASSUME Mcp!McpBounds, McpInv, NEW c \in Call,
         \/ Mcp!SendHttp(c) \/ Mcp!SendStdio(c) \/ Mcp!Authenticate(c)
         \/ Mcp!Unauthenticated(c) \/ Mcp!Abandon(c)
  PROVE  McpInv'
<1>1. call[c] \in Mcp!CallState /\ CallFits(call[c])
  BY McpTyped DEF McpInv, CallsFit
<1>2. CASE Mcp!SendHttp(c)
  <2>1. PICK p \in Http, g \in McpGrant : \E gen \in 0..grant[g].gen :
           /\ server[p].pc = "up"
           /\ Mcp!Step(c, [call[c] EXCEPT !.pc = "sent", !.at = p, !.token = g, !.gen = gen,
                           !.dead = ~grant[g].good \/ gen # grant[g].gen])
    BY <1>2 DEF Mcp!SendHttp
  <2>2. PICK gen \in 0..grant[g].gen :
           /\ server[p].pc = "up"
           /\ Mcp!Step(c, [call[c] EXCEPT !.pc = "sent", !.at = p, !.token = g, !.gen = gen,
                           !.dead = ~grant[g].good \/ gen # grant[g].gen])
    BY <2>1
  <2>3. grant[g].gen \in Nat /\ gen \in Nat /\ gen <= grant[g].gen /\ p \in Process
    BY McpTyped DEF Mcp!McpBounds, McpInv
  <2>4. PICK dead \in BOOLEAN : dead = (~grant[g].good \/ gen # grant[g].gen)
    OBVIOUS
  <2> DEFINE to == [call[c] EXCEPT !.pc = "sent", !.at = p, !.token = g, !.gen = gen,
                                   !.dead = dead]
  <2>5. to \in Mcp!CallState
    BY <1>1, <2>3 DEF Mcp!CallState
  <2>6. /\ to.pc = "sent" /\ to.at = p /\ to.token = g /\ to.gen = gen /\ to.dead = dead
        /\ to.as = call[c].as /\ to.code = call[c].code /\ to.context = call[c].context
    BY <1>1 DEF Mcp!CallState
  <2>7. call[c].as = NoGrant /\ call[c].code = Mcp!NoMessage /\ call[c].context = NoGrant
    BY <1>1, <1>2 DEF Mcp!SendHttp, CallFits
  <2>8. Mcp!Step(c, to)
    BY <2>2, <2>4
  <2> HIDE DEF to
  <2>9. gen # grant[g].gen => gen < grant[g].gen
    BY <2>3
  <2>10. dead => ~grant[g].good \/ gen < grant[g].gen
    BY <2>4, <2>9
  <2>11. CallFits(to)
    BY <2>2, <2>3, <2>6, <2>7, <2>10 DEF CallFits, Working
  <2>12. QED
    BY <2>5, <2>8, <2>11, StepKeeps
<1>3. CASE Mcp!SendStdio(c)
  <2>1. PICK p \in Process \ Http :
           /\ server[p].pc = "up"
           /\ Mcp!Step(c, [call[c] EXCEPT !.pc = "in", !.at = p, !.token = server[p].own,
                           !.dead = ~grant[server[p].own].good])
    BY <1>3 DEF Mcp!SendStdio
  <2>2. server[p].own \in McpGrant
    BY <2>1 DEF McpInv, UpIsComplete
  <2>3. PICK g \in McpGrant : g = server[p].own
    BY <2>2
  <2>4. PICK dead \in BOOLEAN : dead = ~grant[g].good
    OBVIOUS
  <2> DEFINE to == [call[c] EXCEPT !.pc = "in", !.at = p, !.token = g, !.dead = dead]
  <2>5. to \in Mcp!CallState
    BY <1>1 DEF Mcp!CallState
  <2>6. /\ to.pc = "in" /\ to.at = p /\ to.token = g /\ to.dead = dead
        /\ to.as = call[c].as /\ to.code = call[c].code /\ to.context = call[c].context
    BY <1>1 DEF Mcp!CallState
  <2>7. call[c].as = NoGrant /\ call[c].code = Mcp!NoMessage /\ call[c].context = NoGrant
    BY <1>1, <1>3 DEF Mcp!SendStdio, CallFits
  <2>8. Mcp!Step(c, to)
    BY <2>1, <2>3, <2>4
  <2> HIDE DEF to
  <2>9. CallFits(to)
    BY <2>1, <2>3, <2>6, <2>7 DEF CallFits, Working
  <2>10. QED
    BY <2>5, <2>8, <2>9, StepKeeps
<1>4. CASE Mcp!Authenticate(c)
  <2> DEFINE to == [call[c] EXCEPT !.pc = "in", !.gen = 0, !.context = call[c].token]
  <2>1. Mcp!Step(c, to) /\ call[c].pc = "sent"
        /\ grant[call[c].token].good /\ grant[call[c].token].gen = call[c].gen
    BY <1>4 DEF Mcp!Authenticate, Mcp!Live
  <2>2. to \in Mcp!CallState
    BY <1>1 DEF Mcp!CallState
  <2>3. /\ to.pc = "in" /\ to.at = call[c].at /\ to.token = call[c].token
        /\ to.dead = call[c].dead /\ to.as = call[c].as /\ to.code = call[c].code
        /\ to.context = call[c].token
    BY <1>1 DEF Mcp!CallState
  <2>4. call[c].at \in Http /\ ~call[c].dead
    BY <1>1, <2>1 DEF CallFits, Mcp!CallState
  <2> HIDE DEF to
  <2>5. CallFits(to)
    BY <1>1, <2>1, <2>3, <2>4 DEF CallFits, Working
  <2>6. QED
    BY <2>1, <2>2, <2>5, StepKeeps
<1>5. CASE Mcp!Unauthenticated(c) \/ Mcp!Abandon(c)
  <2>1. Mcp!Step(c, Mcp!IdleCall)
    BY <1>5 DEF Mcp!Unauthenticated, Mcp!Abandon, Mcp!Refuse
  <2>2. QED
    BY <2>1, IdleTyped, IdleFits, StepKeeps
<1>6. QED
  BY <1>2, <1>3, <1>4, <1>5

\* A request is dispatched to a tool its profile advertises, which is allowed.
LEMMA InvokeKeeps ==
  ASSUME Mcp!McpBounds, McpInv, NEW c \in Call, Mcp!Invoke(c)
  PROVE  McpInv'
<1>1. call[c] \in Mcp!CallState /\ CallFits(call[c]) /\ call[c].pc = "in"
  BY McpTyped DEF McpInv, CallsFit, Mcp!Invoke
<1>2. PICK tool \in Mcp!Tools(call[c].at, Mcp!ProfileOf(c)) :
         call' = [call EXCEPT ![c] =
             [@ EXCEPT !.pc = CASE ~Mcp!Allowed(c, tool) -> "refused"
                                [] Mcp!Allowed(c, tool) /\ tool = "ask" -> "asking"
                                [] OTHER -> "open",
                       !.tool = tool, !.as = Mcp!GrantOf(c), !.msg = sent + 1]]
  BY DEF Mcp!Invoke
<1>3. /\ sent \in 0..MaxMessage /\ sent < MaxMessage /\ sent' = sent + 1
      /\ UNCHANGED <<grant, server, thread, shown>> /\ MaxMessage \in Nat
      /\ call \in [Call -> Mcp!CallState]
  BY DEF Mcp!McpBounds, Mcp!Invoke, McpInv, Mcp!TypeOK
<1>4. Mcp!GrantOf(c) = call[c].token /\ call[c].token \in McpGrant
  <2>1. call[c].token \in McpGrant
    BY <1>1 DEF Mcp!CallState
  <2>2. QED
    BY <1>1, <2>1 DEF Mcp!McpBounds, CallFits, Mcp!GrantOf
<1>5. Mcp!ProfileOf(c) = Mcp!ScopeOf(call[c].token)
  BY <1>1 DEF Mcp!ProfileOf, CallFits
<1>6. Mcp!Allowed(c, tool)
  BY <1>2, <1>4, <1>5 DEF Mcp!Allowed, Mcp!Tools, Mcp!ScopeOf
<1>7. tool \in Mcp!Tool /\ sent + 1 \in Mcp!Message
  <2>1. tool \in Mcp!Tool
    BY <1>2 DEF Mcp!Tools, Mcp!Tool
  <2>2. QED
    BY <1>3, <2>1 DEF Mcp!Message
<1>8. PICK pc \in {"asking", "open"} : pc = IF tool = "ask" THEN "asking" ELSE "open"
  OBVIOUS
<1> DEFINE to == [call[c] EXCEPT !.pc = pc, !.tool = tool, !.as = call[c].token,
                                 !.msg = sent + 1]
<1>9. call' = [call EXCEPT ![c] = to]
  BY <1>2, <1>3, <1>4, <1>6, <1>8
<1>10. to \in Mcp!CallState
  BY <1>1, <1>4, <1>7 DEF Mcp!CallState
<1>11. /\ to.pc = pc /\ to.at = call[c].at /\ to.token = call[c].token
       /\ to.as = call[c].token /\ to.msg = sent + 1 /\ to.code = call[c].code
       /\ to.dead = call[c].dead
  BY <1>1 DEF Mcp!CallState
<1> HIDE DEF to
<1>12. CallFits(to)
  BY <1>1, <1>7, <1>11 DEF CallFits, Working
<1>13. Mcp!TypeOK'
  <2>1. call' \in [Call -> Mcp!CallState] /\ sent' \in 0..MaxMessage
    BY <1>3, <1>9, <1>10
  <2>2. QED
    BY <1>3, <2>1 DEF McpInv, Mcp!TypeOK
<1>14. \A d \in Call : CallFits(call'[d])
  BY <1>3, <1>9, <1>12 DEF McpInv, CallsFit
<1>15. CallsFit'
  BY <1>3, <1>14 DEF CallsFit, CallFits
<1>16. UpIsComplete' /\ Mcp!CodeIsAnchored'
  BY <1>3 DEF McpInv, UpIsComplete, Mcp!CodeIsAnchored
<1>17. QED
  BY <1>13, <1>15, <1>16 DEF McpInv

--------------------------------------------------------------------------------
(* Tools *)

\* What a tool that works knows of its thread.
LEMMA AtWork ==
  ASSUME Mcp!McpBounds, McpInv, NEW c \in Call, call[c].pc \in Working
  PROVE  /\ call[c] \in Mcp!CallState /\ CallFits(call[c])
         /\ call[c].as \in McpGrant /\ call[c].msg \in Mcp!Message /\ call[c].msg # Mcp!NoMessage
         /\ Mcp!ThreadOf(c) = thread[call[c].as] /\ Mcp!ThreadOf(c) \in Mcp!ThreadState
         /\ Mcp!ThreadOf(c).code = Mcp!NoMessage <=> Mcp!ThreadOf(c).anchor = Mcp!NoMessage
         /\ Mcp!ThreadOf(c).deleted \subseteq shown
         /\ shown \subseteq Mcp!Message
<1>1. call[c] \in Mcp!CallState /\ CallFits(call[c])
  BY McpTyped DEF McpInv, CallsFit
<1>2. call[c].as \in McpGrant /\ call[c].msg \in Mcp!Message
  BY <1>1 DEF CallFits, Mcp!CallState
<1>3. call[c].msg # Mcp!NoMessage
  BY <1>2 DEF Mcp!McpBounds, Mcp!Message, Mcp!NoMessage
<1>4. QED
  BY <1>1, <1>2, <1>3, McpTyped DEF McpInv, Mcp!TypeOK, Mcp!CodeIsAnchored, Mcp!ThreadOf

\* The turn of a tool is recorded: its thread stays one.
LEMMA RecordedTyped ==
  ASSUME Mcp!McpBounds, McpInv, NEW c \in Call, call[c].pc \in Working
  PROVE  /\ Mcp!Recorded(c) \in Mcp!ThreadState
         /\ Mcp!Recorded(c).code = Mcp!ThreadOf(c).code
         /\ Mcp!Recorded(c).anchor = Mcp!ThreadOf(c).anchor
         /\ Mcp!Recorded(c).deleted = Mcp!ThreadOf(c).deleted
         /\ Mcp!Recorded(c).turns = Mcp!ThreadOf(c).turns \union {call[c].msg}
<1>1. Mcp!ThreadOf(c) \in Mcp!ThreadState /\ call[c].msg \in Mcp!Message
  BY AtWork
<1>2. QED
  BY <1>1 DEF Mcp!Recorded, Mcp!ThreadState

\* An answer of the agent is recorded.
LEMMA AskKeeps ==
  ASSUME Mcp!McpBounds, McpInv, NEW c \in Call, Mcp!Ask(c)
  PROVE  McpInv'
<1>1. /\ call[c].pc \in Working
      /\ thread' = [thread EXCEPT ![call[c].as] = Mcp!Recorded(c)]
      /\ call' = [call EXCEPT ![c] = Mcp!IdleCall]
      /\ UNCHANGED <<grant, server, sent, shown>>
  BY DEF Mcp!Ask, Working
<1>2. /\ Mcp!Recorded(c) \in Mcp!ThreadState
      /\ Mcp!Recorded(c).code = Mcp!NoMessage <=> Mcp!Recorded(c).anchor = Mcp!NoMessage
      /\ thread[call[c].as].turns \subseteq Mcp!Recorded(c).turns
      /\ Mcp!Recorded(c).deleted \subseteq shown
  BY <1>1, AtWork, RecordedTyped
<1>3. /\ shown \subseteq shown'
      /\ shown' \subseteq shown \union (Mcp!Recorded(c).turns \intersect Mcp!Message)
  BY <1>1
<1>4. QED
  BY <1>1, <1>2, <1>3, IdleTyped, IdleFits, ThreadKeeps

\* A tool reads the newest turn of its thread, or fails to.
LEMMA OpenKeeps ==
  ASSUME Mcp!McpBounds, McpInv, NEW c \in Call, Mcp!OpenThread(c)
  PROVE  McpInv'
<1>1. call[c].pc = "open" /\ call[c].pc \in Working
  BY DEF Mcp!OpenThread, Working
<1>2. CASE Mcp!Refuse(c)
  BY <1>2, IdleTyped, IdleFits, StepKeeps DEF Mcp!Refuse
<1>3. CASE Mcp!Step(c, [call[c] EXCEPT !.pc = "op", !.seen = Mcp!ThreadOf(c).latest])
  <2> DEFINE to == [call[c] EXCEPT !.pc = "op", !.seen = Mcp!ThreadOf(c).latest]
  <2>1. to \in Mcp!CallState
    <3>1. call[c] \in Mcp!CallState /\ Mcp!ThreadOf(c) \in Mcp!ThreadState
      BY <1>1, AtWork
    <3>2. Mcp!ThreadOf(c).latest \in Mcp!Message \union {Mcp!NoMessage}
      BY <3>1 DEF Mcp!ThreadState
    <3>3. QED
      BY <3>1, <3>2 DEF Mcp!CallState
  <2>2. /\ to.pc = "op" /\ to.at = call[c].at /\ to.token = call[c].token
        /\ to.as = call[c].as /\ to.msg = call[c].msg /\ to.code = call[c].code
        /\ to.dead = call[c].dead
    BY <1>1, AtWork DEF Mcp!CallState
  <2> HIDE DEF to
  <2>3. CallFits(to)
    BY <1>1, <2>2, AtWork DEF CallFits, Working
  <2>4. QED
    BY <1>3, <2>1, <2>3, StepKeeps DEF to
<1>4. QED
  BY <1>2, <1>3 DEF Mcp!OpenThread

\* What an operation leaves in the thread of its call.
OperationFits(c, to) ==
    /\ to \in Mcp!ThreadState
    /\ to.code = Mcp!NoMessage <=> to.anchor = Mcp!NoMessage
    /\ to.turns = Mcp!ThreadOf(c).turns
    /\ to.deleted \subseteq shown

\* An operation that fits keeps the invariant.
LEMMA OperateKeeps ==
  ASSUME Mcp!McpBounds, McpInv, NEW c \in Call, NEW tools, NEW to, NEW code \in {Mcp!NoMessage,
           call[c].msg},
         Mcp!Operate(c, tools, to, code), OperationFits(c, to)
  PROVE  McpInv'
<1>1. call[c].pc = "op" /\ call[c].pc \in Working
  BY DEF Mcp!Operate, Working
<1>2. call[c] \in Mcp!CallState /\ CallFits(call[c]) /\ call[c].msg \in Mcp!Message
  BY <1>1, AtWork
<1> DEFINE x == [call[c] EXCEPT !.pc = "mark", !.code = code]
<1>3. x \in Mcp!CallState
  BY <1>2 DEF Mcp!CallState
<1>4. /\ x.pc = "mark" /\ x.at = call[c].at /\ x.token = call[c].token
      /\ x.as = call[c].as /\ x.msg = call[c].msg /\ x.code = code
      /\ x.dead = call[c].dead
  BY <1>2 DEF Mcp!CallState
<1>5. call' = [call EXCEPT ![c] = x]
  BY DEF Mcp!Operate, McpInv, Mcp!TypeOK
<1> HIDE DEF x
<1>6. CallFits(x)
  BY <1>1, <1>2, <1>4 DEF CallFits, Working
<1>7. /\ thread' = [thread EXCEPT ![call[c].as] = to]
      /\ UNCHANGED <<grant, server, sent, shown>>
  BY DEF Mcp!Operate
<1>8. /\ to \in Mcp!ThreadState /\ (to.code = Mcp!NoMessage <=> to.anchor = Mcp!NoMessage)
      /\ thread[call[c].as].turns \subseteq to.turns /\ to.deleted \subseteq shown
  BY DEF OperationFits, Mcp!ThreadOf
<1>9. shown \subseteq shown' /\ shown' \subseteq shown \union (to.turns \intersect Mcp!Message)
  BY <1>7
<1>10. QED
  BY <1>1, <1>3, <1>5, <1>6, <1>7, <1>8, <1>9, ThreadKeeps

\* The operations on the pending deletion of a thread fit.
LEMMA DeletionKeeps ==
  ASSUME Mcp!McpBounds, McpInv, NEW c \in Call,
         \/ Mcp!Inspect(c) \/ Mcp!Change(c) \/ Mcp!RequestDelete(c)
         \/ Mcp!ConfirmDelete(c) \/ Mcp!CancelDelete(c)
  PROVE  McpInv'
<1>1. call[c].pc \in Working
  BY DEF Mcp!Inspect, Mcp!Change, Mcp!RequestDelete, Mcp!ConfirmDelete, Mcp!CancelDelete,
     Mcp!Operate, Working
<1>2. /\ call[c] \in Mcp!CallState /\ call[c].msg \in Mcp!Message /\ call[c].msg # Mcp!NoMessage
      /\ Mcp!ThreadOf(c) \in Mcp!ThreadState
      /\ Mcp!ThreadOf(c).code = Mcp!NoMessage <=> Mcp!ThreadOf(c).anchor = Mcp!NoMessage
      /\ Mcp!ThreadOf(c).deleted \subseteq shown /\ shown \subseteq Mcp!Message
      /\ call[c].seen \in Mcp!Message \union {Mcp!NoMessage}
  BY <1>1, AtWork DEF Mcp!CallState
<1> USE DEF Mcp!NoMessage
<1>3. OperationFits(c, Mcp!ThreadOf(c))
  BY <1>2 DEF OperationFits
<1>4. OperationFits(c, Mcp!NoPending(Mcp!ThreadOf(c)))
  BY <1>2 DEF OperationFits, Mcp!NoPending, Mcp!ThreadState
<1>5. OperationFits(c, [Mcp!ThreadOf(c) EXCEPT !.code = call[c].msg, !.anchor = call[c].msg,
                                               !.parent = call[c].seen])
  BY <1>2 DEF OperationFits, Mcp!ThreadState
<1>6. Mcp!ThreadOf(c).code # Mcp!NoMessage =>
         OperationFits(c, [Mcp!ThreadOf(c) EXCEPT !.anchor = call[c].msg,
                                                  !.parent = call[c].seen])
  BY <1>2 DEF OperationFits, Mcp!ThreadState
<1>7. \A code \in shown :
         OperationFits(c, [Mcp!NoPending(Mcp!ThreadOf(c)) EXCEPT !.deleted = @ \union {code}])
  BY <1>2 DEF OperationFits, Mcp!NoPending, Mcp!ThreadState
<1>8. CASE Mcp!Inspect(c) \/ Mcp!Change(c)
  BY <1>3, <1>8, OperateKeeps DEF Mcp!Inspect, Mcp!Change
<1>9. CASE Mcp!RequestDelete(c)
  BY <1>3, <1>5, <1>9, OperateKeeps DEF Mcp!RequestDelete
<1>10. CASE Mcp!CancelDelete(c)
  BY <1>4, <1>10, OperateKeeps DEF Mcp!CancelDelete
<1>11. CASE Mcp!ConfirmDelete(c)
  <2>1. PICK code \in {Mcp!NoMessage} \union shown :
           Mcp!Operate(c, {"confirm"},
                   CASE Mcp!ThreadOf(c).code = Mcp!NoMessage \/ ~Mcp!Follows(c) -> Mcp!ThreadOf(c)
                     [] Mcp!Follows(c) /\ Mcp!ThreadOf(c).code = code /\ code # Mcp!NoMessage ->
                            [Mcp!NoPending(Mcp!ThreadOf(c)) EXCEPT !.deleted = @ \union {code}]
                     [] OTHER -> [Mcp!ThreadOf(c) EXCEPT !.anchor = call[c].msg,
                                                         !.parent = call[c].seen],
                   Mcp!NoMessage)
    BY <1>11 DEF Mcp!ConfirmDelete
  <2>2. CASE Mcp!ThreadOf(c).code = Mcp!NoMessage \/ ~Mcp!Follows(c)
    <3>1. Mcp!Operate(c, {"confirm"}, Mcp!ThreadOf(c), Mcp!NoMessage)
      BY <2>1, <2>2
    <3>2. QED
      BY <1>3, <3>1, OperateKeeps
  <2>3. CASE Mcp!ThreadOf(c).code # Mcp!NoMessage /\ Mcp!Follows(c) /\ Mcp!ThreadOf(c).code = code
    <3>1. Mcp!Operate(c, {"confirm"},
                  [Mcp!NoPending(Mcp!ThreadOf(c)) EXCEPT !.deleted = @ \union {code}],
                    Mcp!NoMessage)
      BY <2>1, <2>3
    <3>2. code \in shown
      BY <2>3
    <3>3. QED
      BY <1>7, <3>1, <3>2, OperateKeeps
  <2>4. CASE Mcp!ThreadOf(c).code # Mcp!NoMessage /\ Mcp!Follows(c) /\ Mcp!ThreadOf(c).code # code
    <3>1. Mcp!Operate(c, {"confirm"}, [Mcp!ThreadOf(c) EXCEPT !.anchor = call[c].msg,
                                                              !.parent = call[c].seen],
                                                                Mcp!NoMessage)
      BY <2>1, <2>4
    <3>2. QED
      BY <1>6, <2>4, <3>1, OperateKeeps
  <2>5. QED
    BY <2>2, <2>3, <2>4
<1>12. QED
  BY <1>8, <1>9, <1>10, <1>11

\* The marker of a call is saved with the code it shows, or both are lost.
LEMMA MarkKeeps ==
  ASSUME Mcp!McpBounds, McpInv, NEW c \in Call, Mcp!Mark(c) \/ Mcp!LoseMark(c)
  PROVE  McpInv'
<1>1. /\ call[c].pc = "mark" /\ call[c].pc \in Working
      /\ call' = [call EXCEPT ![c] = Mcp!IdleCall]
      /\ UNCHANGED <<grant, server, sent>>
  BY DEF Mcp!Mark, Mcp!LoseMark, Working
<1>2. /\ call[c].as \in McpGrant /\ call[c].msg \in Mcp!Message
      /\ Mcp!ThreadOf(c) = thread[call[c].as] /\ Mcp!ThreadOf(c) \in Mcp!ThreadState
      /\ Mcp!ThreadOf(c).code = Mcp!NoMessage <=> Mcp!ThreadOf(c).anchor = Mcp!NoMessage
      /\ Mcp!ThreadOf(c).deleted \subseteq shown
      /\ call[c].code \in {Mcp!NoMessage, call[c].msg}
  BY <1>1, AtWork DEF CallFits
<1>3. CASE Mcp!Mark(c)
  <2>1. /\ thread' = [thread EXCEPT ![call[c].as] = Mcp!Recorded(c)]
        /\ shown' = shown \union ({call[c].code} \ {Mcp!NoMessage})
    BY <1>3 DEF Mcp!Mark
  <2>2. /\ Mcp!Recorded(c) \in Mcp!ThreadState
        /\ Mcp!Recorded(c).code = Mcp!NoMessage <=> Mcp!Recorded(c).anchor = Mcp!NoMessage
        /\ thread[call[c].as].turns \subseteq Mcp!Recorded(c).turns
        /\ Mcp!Recorded(c).deleted \subseteq shown
        /\ call[c].msg \in Mcp!Recorded(c).turns
    BY <1>1, <1>2, RecordedTyped
  <2>3. /\ shown \subseteq shown'
        /\ shown' \subseteq shown \union (Mcp!Recorded(c).turns \intersect Mcp!Message)
    BY <1>2, <2>1, <2>2
  <2>4. QED
    BY <1>1, <2>1, <2>2, <2>3, IdleTyped, IdleFits, ThreadKeeps
<1>4. CASE Mcp!LoseMark(c)
  <2>1. shown' = shown
    BY <1>4 DEF Mcp!LoseMark, Mcp!Told
  <2>2. CASE thread' = thread
    <3>1. Mcp!Step(c, Mcp!IdleCall)
      BY <1>1, <2>1, <2>2 DEF Mcp!Step
    <3>2. QED
      BY <3>1, IdleTyped, IdleFits, StepKeeps
  <2>3. CASE thread' = [thread EXCEPT ![call[c].as] = Mcp!NoPending(@)]
    <3> DEFINE t == Mcp!NoPending(Mcp!ThreadOf(c))
    <3>1. /\ t \in Mcp!ThreadState
          /\ t.code = Mcp!NoMessage <=> t.anchor = Mcp!NoMessage
          /\ t.turns = Mcp!ThreadOf(c).turns /\ t.deleted = Mcp!ThreadOf(c).deleted
      BY <1>2 DEF Mcp!NoPending, Mcp!ThreadState, Mcp!NoMessage
    <3>2. thread' = [thread EXCEPT ![call[c].as] = t]
      BY <1>2, <2>3
    <3> HIDE DEF t
    <3>3. /\ thread[call[c].as].turns \subseteq t.turns /\ t.deleted \subseteq shown
          /\ shown \subseteq shown' /\ shown' \subseteq shown
               \union (t.turns \intersect Mcp!Message)
      BY <1>2, <2>1, <3>1
    <3>4. QED
      BY <1>1, <3>1, <3>2, <3>3, IdleTyped, IdleFits, ThreadKeeps
  <2>4. QED
    BY <1>4, <2>2, <2>3 DEF Mcp!LoseMark
<1>5. QED
  BY <1>3, <1>4

--------------------------------------------------------------------------------
(* The theorems about the MCP server *)

\* The initial states satisfy the invariant.
LEMMA McpStarts ==
  ASSUME Mcp!McpBounds, Mcp!Init
  PROVE  McpInv
<1>1. Mcp!TypeOK
  BY IdleTyped DEF Mcp!McpBounds, Mcp!Init, Mcp!TypeOK, Mcp!ThreadState, Mcp!NoMessage
<1>2. CallsFit
  BY IdleFits DEF Mcp!Init, CallsFit
<1>3. UpIsComplete /\ Mcp!CodeIsAnchored
  BY DEF Mcp!Init, UpIsComplete, Mcp!CodeIsAnchored, Mcp!Down
<1>4. QED
  BY <1>1, <1>2, <1>3 DEF McpInv

\* Every step keeps the invariant.
LEMMA McpStep ==
  ASSUME Mcp!McpBounds, McpInv, [Mcp!Next]_(Mcp!vars)
  PROVE  McpInv'
<1>1. ASSUME NEW p \in Process, Mcp!ProcessStep(p) PROVE McpInv'
  BY <1>1, ProcessKeeps
<1>2. ASSUME NEW g \in McpGrant, Mcp!Rotate(g) \/ Mcp!Revoke(g) PROVE McpInv'
  BY <1>2, OperatorKeeps
<1>3. ASSUME NEW c \in Call, Mcp!CallStep(c) PROVE McpInv'
  BY <1>3, CallKeeps, InvokeKeeps DEF Mcp!CallStep
<1>4. ASSUME NEW c \in Call, Mcp!ToolStep(c) PROVE McpInv'
  BY <1>4, AskKeeps, OpenKeeps, DeletionKeeps, MarkKeeps DEF Mcp!ToolStep
<1>5. CASE UNCHANGED Mcp!vars
  <2>1. UNCHANGED <<grant, server, thread, call, sent, shown>>
    BY <1>5 DEF Mcp!vars
  <2>2. Mcp!TypeOK'
    BY <2>1 DEF McpInv, Mcp!TypeOK
  <2>3. CallsFit'
    BY <2>1 DEF McpInv, CallsFit, CallFits
  <2>4. UpIsComplete' /\ Mcp!CodeIsAnchored'
    BY <2>1 DEF McpInv, UpIsComplete, Mcp!CodeIsAnchored
  <2>5. QED
    BY <2>2, <2>3, <2>4 DEF McpInv
<1>6. QED
  BY <1>1, <1>2, <1>3, <1>4, <1>5 DEF Mcp!Next

\* The invariant holds for every set of processes, grants and requests.
THEOREM McpInvariance ==
  ASSUME Mcp!McpBounds PROVE Mcp!Spec => []McpInv
<1>1. Mcp!Init => McpInv
  BY McpStarts
<1>2. McpInv /\ [Mcp!Next]_(Mcp!vars) => McpInv'
  BY McpStep
<1>3. QED
  BY <1>1, <1>2, PTL DEF Mcp!Spec

\* Rows, processes and requests keep their shape.
THEOREM McpTypes ==
  ASSUME Mcp!McpBounds PROVE Mcp!Spec => []Mcp!TypeOK
<1>1. McpInv => Mcp!TypeOK
  BY DEF McpInv
<1>2. QED
  BY <1>1, McpInvariance, PTL

\* A token that was revoked or rotated away before its request was sent reaches no
\* tool over HTTP (mcp_server.py 1226, mcp_grants.py 296-330).
THEOREM NoDeadToken ==
  ASSUME Mcp!McpBounds PROVE Mcp!Spec => []RevokedIsRefused
<1>1. McpInv => Mcp!RevokedIsRefused
  BY DEF McpInv, CallsFit, CallFits, Mcp!RevokedIsRefused, Mcp!Served, Working
<1>2. QED
  BY <1>1, McpInvariance, PTL DEF RevokedIsRefused

\* A request is served for the grant it presented, with the tools it was shown, by
\* an application that runs, and a code that was shown has its marker
\* (mcp_server.py 548-620, 930-944, 1263-1295).
THEOREM AdmittedIsServed ==
  ASSUME Mcp!McpBounds PROVE Mcp!Spec => []ServedAsAdmitted
<1>1. McpInv => Mcp!CallKeepsItsGrant
  <2> SUFFICES ASSUME McpInv, NEW c \in Call, call[c].as # NoGrant
               PROVE  call[c].as = call[c].token
    BY DEF Mcp!CallKeepsItsGrant
  <2>1. call[c] \in Mcp!CallState /\ CallFits(call[c])
    BY McpTyped DEF McpInv, CallsFit
  <2>2. call[c].pc \in Working
    BY <2>1 DEF CallFits, Mcp!CallState, Working
  <2>3. QED
    BY <2>1, <2>2 DEF CallFits
<1>2. McpInv => Mcp!AdvertisedIsAllowed /\ Mcp!CodeIsAnchored
  BY DEF McpInv, CallsFit, CallFits, Mcp!AdvertisedIsAllowed
<1>3. McpInv => Mcp!ManagerIsRunning
  <2> SUFFICES ASSUME McpInv, NEW c \in Call, call[c].at \in Http, call[c].pc = "in"
               PROVE  Mcp!ProfileOf(c) \in server[call[c].at].running
    BY DEF Mcp!ManagerIsRunning
  <2>1. server[call[c].at].pc = "up" /\ call[c].at \in Process
    BY DEF Mcp!McpBounds, McpInv, CallsFit, CallFits
  <2>2. Mcp!Apps \subseteq server[call[c].at].running
    BY <2>1 DEF McpInv, UpIsComplete
  <2>3. QED
    BY <2>2 DEF Mcp!ProfileOf, Mcp!ScopeOf, Mcp!Apps, Mcp!Profile
<1>4. QED
  BY <1>1, <1>2, <1>3, McpInvariance, PTL DEF ServedAsAdmitted, Mcp!ServedAsAdmitted

--------------------------------------------------------------------------------
(* The inductive invariant of the web session *)

SessRow == [account : Account, live : BOOLEAN]
CommandProgress == {"pending", "approved", "consumed", "expired"}
CommandRow == [state : CommandProgress, by : Account \union {Session!None}]
TabState ==
    [page : {"login", "library"}, holds : SUBSET Account, elsewhere : BOOLEAN, command : Nat,
     status : CommandProgress \union {Session!None}, exchange : {"idle", "sent", "failed"},
     failed : BOOLEAN]
RequestKinds == {"read", "logout", "link", "verify", "status", "exchange"}
Ordinary == {"done", "wrong", "refused", "forged", "logged out"}
Answers == CommandProgress \union Ordinary \union {Session!None, "session", "data"}
RequestState ==
    [tab : Tab, kind : RequestKinds, arg : Account \union Nat \union {Session!None},
     cookie : Nat, own : BOOLEAN, answer : Answers,
     account : Account \union Nat \union {Session!None}]

\* A request names what its kind says and carries a cookie that was issued; its
\* answer names what it says.
RequestFits(r) ==
    /\ r \in RequestState
    /\ r.kind \in {"verify", "link"} => r.arg \in Account
    /\ r.kind \in {"status", "exchange"} => r.arg \in DOMAIN command
    /\ r.kind = "status" => r.answer \in CommandProgress \union {Session!None}
    /\ r.answer = "session" => r.account \in DOMAIN sess
    /\ r.answer = "data" => r.account \in Account
    /\ r.cookie \in {Session!NoSession} \union DOMAIN sess

\* The accounts a client shows, or will show when an answer arrives.
Data(t) == {r \in requests : r.tab = t /\ r.own /\ r.answer = "data"}
Seen(t) == tab[t].holds \union {r.account : r \in Data(t)}

RowsTyped ==
    /\ sess \in Seq(SessRow)
    /\ command \in Seq(CommandRow)
    /\ \A c \in DOMAIN command : command[c].state = "approved" => command[c].by \in Account
    /\ tab \in [Tab -> TabState]

\* The client of a tab belongs to session n: it asks with its cookie or without
\* any, and shows one account, that of the session while it is live.
Belongs(t, n) ==
    /\ cookie \in {n, Session!NoSession}
    /\ \A r \in requests : r.tab = t /\ r.own => r.cookie \in {n, Session!NoSession}
    /\ \A a, b \in Seen(t) : a = b
    /\ Session!Live(n) => Seen(t) \subseteq {sess[n].account}

\* A client no login of another tab found in use belongs to one session, or to none.
OneIn(t) ==
    ~tab[t].elsewhere => \E n \in {Session!NoSession} \union DOMAIN sess : Belongs(t, n)
OneSeen == \A t \in Tab : OneIn(t)

\* Sessions that were issued only end, with the account they have.
OnlyEnd ==
    \A n \in DOMAIN sess :
        /\ n \in DOMAIN sess'
        /\ sess'[n].live => sess[n].live /\ sess'[n].account = sess[n].account

\* A tab keeps what its client holds, and no login of another tab is forgotten.
KeepsClient(u) == tab'[u].holds = tab[u].holds /\ tab'[u].elsewhere = tab[u].elsewhere

SessionInv == Session!TypeOK /\ RowsTyped /\ (\A r \in requests : RequestFits(r)) /\ OneSeen

\* The initial states satisfy the invariant.
LEMMA SessionStarts == ASSUME Session!Init PROVE SessionInv
<1>1. /\ sess \in Seq(SessRow) /\ command \in Seq(CommandRow) /\ DOMAIN command = {}
      /\ DOMAIN sess = {}
  BY DEF Session!Init
<1>2. Session!Fresh \in TabState
  BY DEF Session!Fresh, TabState, Session!NoCommand, Session!None
<1>2a. /\ Session!Fresh.page = "login" /\ Session!Fresh.holds = {}
       /\ Session!Fresh.elsewhere = FALSE /\ Session!Fresh.command = Session!NoCommand
       /\ Session!Fresh.status = Session!None /\ Session!Fresh.exchange = "idle"
  BY DEF Session!Fresh
<1>3. RowsTyped
  BY <1>1, <1>2 DEF Session!Init, RowsTyped
<1>4. Session!TypeOK
  BY <1>1, <1>2a DEF Session!Init, Session!TypeOK
<1>5. \A r \in requests : RequestFits(r)
  BY DEF Session!Init
<1>6. OneSeen
  <2> SUFFICES ASSUME NEW t \in Tab PROVE Belongs(t, Session!NoSession)
    BY DEF OneSeen, OneIn
  <2>1. Seen(t) = {} /\ cookie = Session!NoSession /\ requests = {}
    BY <1>2a DEF Session!Init, Seen, Data
  <2>2. QED
    BY <2>1 DEF Belongs, Session!Live
<1>7. QED
  BY <1>3, <1>4, <1>5, <1>6 DEF SessionInv

\* What the invariant says of one tab, session, command and request.
LEMMA SessionParts ==
  ASSUME SessionInv
  PROVE  /\ Len(sess) \in Nat /\ DOMAIN sess = 1..Len(sess)
         /\ Len(command) \in Nat /\ DOMAIN command = 1..Len(command)
         /\ \A n \in DOMAIN sess : sess[n] \in SessRow /\ n \in Nat \ {0}
         /\ \A c \in DOMAIN command : command[c] \in CommandRow /\ c \in Nat \ {0}
         /\ \A t \in Tab : tab[t] \in TabState
         /\ cookie \in {Session!NoSession} \union DOMAIN sess /\ cookie \in Nat
         /\ owner \in [Account -> Account]
  BY DEF SessionInv, RowsTyped, Session!TypeOK, Session!NoSession

\* The requests of a client that was replaced are nobody's; others stay as they are.
LEMMA AllDisowned ==
  ASSUME NEW t \in Tab, SessionInv, NEW rs \in SUBSET requests,
         NEW q \in Session!Disowned(rs, t)
  PROVE  /\ q.own => q.tab # t
         /\ \E r \in rs : /\ q.kind = r.kind /\ q.arg = r.arg /\ q.answer = r.answer
                          /\ q.account = r.account /\ q.cookie = r.cookie /\ q.tab = r.tab
                          /\ q \in RequestState
                          /\ q.own => q = r
<1>1. PICK r \in rs : q = IF r.tab = t THEN [r EXCEPT !.own = FALSE] ELSE r
  BY DEF Session!Disowned
<1>2. r \in RequestState
  BY DEF SessionInv, RequestFits
<1>3. CASE r.tab = t
  <2>1. q = [r EXCEPT !.own = FALSE]
    BY <1>1, <1>3
  <2>2. QED
    BY <1>2, <2>1 DEF RequestState
<1>4. CASE r.tab # t
  <2>1. q = r
    BY <1>1, <1>4
  <2>2. QED
    BY <1>2, <1>4, <2>1
<1>5. QED
  BY <1>3, <1>4

\* A request that fits goes on fitting while sessions and commands are only added.
LEMMA FitsOn ==
  ASSUME NEW r, RequestFits(r), DOMAIN command \subseteq DOMAIN command',
         DOMAIN sess \subseteq DOMAIN sess'
  PROVE  RequestFits(r)'
BY DEF RequestFits

\* A client that sees no more, and sends with the browser's cookie, belongs to the
\* session it belonged to.
LEMMA SeenOn ==
  ASSUME NEW u \in Tab, OneSeen, OnlyEnd, Session!NoSession \notin DOMAIN sess,
         cookie' \in {cookie, Session!NoSession},
         tab'[u].elsewhere = tab[u].elsewhere, Seen(u)' \subseteq Seen(u),
         \A r \in requests' : r.tab = u /\ r.own =>
             r \in requests \/ r.cookie = cookie \/
                 \E q \in requests : q.tab = u /\ q.own /\ q.cookie = r.cookie
  PROVE  OneIn(u)'
<1> SUFFICES ASSUME ~tab'[u].elsewhere
             PROVE  \E n \in {Session!NoSession} \union DOMAIN sess' : Belongs(u, n)'
  BY DEF OneIn
<1>1. PICK n \in {Session!NoSession} \union DOMAIN sess : Belongs(u, n)
  BY DEF OneSeen, OneIn
<1>2. n \in {Session!NoSession} \union DOMAIN sess'
  BY DEF OnlyEnd
<1>3. cookie' \in {n, Session!NoSession}
  BY <1>1 DEF Belongs
<1>4. \A r \in requests' : r.tab = u /\ r.own => r.cookie \in {n, Session!NoSession}
  BY <1>1 DEF Belongs
<1>5. \A a, b \in Seen(u)' : a = b
  BY <1>1 DEF Belongs
<1>6. Session!Live(n)' => Session!Live(n) /\ sess'[n].account = sess[n].account
  BY DEF OnlyEnd, Session!Live
<1>7. Session!Live(n)' => Seen(u)' \subseteq {sess'[n].account}
  BY <1>1, <1>6 DEF Belongs
<1>8. Belongs(u, n)'
  BY <1>3, <1>4, <1>5, <1>7 DEF Belongs
<1>9. QED
  BY <1>2, <1>8

\* Clients see the same when tabs keep what they hold and no data is added.
LEMMA SameSeen ==
  ASSUME NEW u \in Tab, tab'[u].holds = tab[u].holds, Data(u)' \subseteq Data(u)
  PROVE  Seen(u)' \subseteq Seen(u)
BY DEF Seen

\* No session has the number of none.
LEMMA NoSessionIsNone ==
  ASSUME SessionInv PROVE Session!NoSession \notin DOMAIN sess
BY SessionParts DEF Session!NoSession

\* Sending a request.
LEMMA SendKeeps ==
  ASSUME SessionInv, NEW t \in Tab, NEW kind \in RequestKinds,
           NEW arg \in Account \union Nat \union {Session!None},
         kind \in {"verify", "link"} => arg \in Account,
         kind \in {"status", "exchange"} => arg \in DOMAIN command,
         NEW rs \in SUBSET requests,
         requests' = rs \union {Session!Request(t, kind, arg)},
         \A u \in Tab : KeepsClient(u),
         UNCHANGED <<Session!server, cookie>>
  PROVE  (\A r \in requests' : RequestFits(r)') /\ OneSeen'
<1> DEFINE new == Session!Request(t, kind, arg)
<1>1. UNCHANGED <<sess, command, cookie>>
  BY DEF Session!server
<1>2. new \in RequestState /\ new.kind = kind /\ new.arg = arg /\ new.answer = Session!None
        /\ new.cookie = cookie
  BY SessionParts DEF Session!Request, RequestState, Answers
<1>3. RequestFits(new)
  BY <1>2, SessionParts DEF RequestFits, Session!None
<1>4. \A r \in requests' : RequestFits(r)
  BY <1>3 DEF SessionInv
<1>5. \A r \in requests' : RequestFits(r)'
  BY <1>1, <1>4, FitsOn
<1>6. OnlyEnd
  BY <1>1 DEF OnlyEnd
<1>7. ASSUME NEW u \in Tab PROVE OneIn(u)'
  <2>1. Data(u)' \subseteq Data(u)
    BY <1>2 DEF Data, Session!None
  <2>2. Seen(u)' \subseteq Seen(u) /\ tab'[u].elsewhere = tab[u].elsewhere
    BY <2>1, SameSeen DEF KeepsClient
  <2>3. \A r \in requests' : r \in requests \/ r.cookie = cookie
    BY <1>2
  <2>4. QED
    BY <1>1, <1>6, <2>2, <2>3, NoSessionIsNone, SeenOn DEF SessionInv
<1>8. QED
  BY <1>5, <1>7 DEF OneSeen

\* Nothing on its way changes.
LEMMA RequestsStay ==
  ASSUME SessionInv, NEW rs \in SUBSET requests, requests' = rs,
         DOMAIN command \subseteq DOMAIN command', OnlyEnd,
         \A u \in Tab : KeepsClient(u),
         UNCHANGED cookie
  PROVE  (\A r \in requests' : RequestFits(r)') /\ OneSeen'
<1>1. \A r \in requests' : RequestFits(r)
  BY DEF SessionInv
<1>2. \A r \in requests' : RequestFits(r)'
  BY <1>1, FitsOn DEF OnlyEnd
<1>3. ASSUME NEW u \in Tab PROVE OneIn(u)'
  <2>1. Data(u)' \subseteq Data(u)
    BY DEF Data
  <2>2. Seen(u)' \subseteq Seen(u) /\ tab'[u].elsewhere = tab[u].elsewhere
    BY <2>1, SameSeen DEF KeepsClient
  <2>3. QED
    BY <2>2, NoSessionIsNone, SeenOn DEF SessionInv
<1>4. QED
  BY <1>2, <1>3 DEF OneSeen

\* A tab that keeps what it holds and shows a page in another state.
LEMMA TabsKeep ==
  ASSUME SessionInv, NEW t \in Tab, NEW new, new \in TabState,
         new.command \in {Session!NoCommand} \union DOMAIN command',
         DOMAIN command \subseteq DOMAIN command',
         tab' = [tab EXCEPT ![t] = new]
  PROVE  /\ tab' \in [Tab -> TabState]
         /\ \A u \in Tab : /\ tab'[u] \in TabState
                           /\ tab'[u].command \in {Session!NoCommand} \union DOMAIN command'
<1>1. tab \in [Tab -> TabState]
  BY DEF SessionInv, RowsTyped
<1>2. \A u \in Tab : tab'[u] = IF u = t THEN new ELSE tab[u]
  BY <1>1
<1>3. \A u \in Tab : tab[u].command \in {Session!NoCommand} \union DOMAIN command'
  BY DEF SessionInv, Session!TypeOK
<1>4. QED
  BY <1>1, <1>2, <1>3


\* The parts of the invariant after a step.
LEMMA Shape ==
  ASSUME (/\ owner \in [Account -> Account]
          /\ \A a \in Account : owner[owner[a]] = owner[a]
          /\ sess \in Seq(SessRow)
          /\ \A n \in DOMAIN sess : sess[n].live => owner[sess[n].account] = sess[n].account
          /\ command \in Seq(CommandRow)
          /\ \A c \in DOMAIN command : command[c].state = "approved" => command[c].by \in Account
          /\ cookie \in {Session!NoSession} \union DOMAIN sess
          /\ tab \in [Tab -> TabState]
          /\ \A t \in Tab : tab[t].command \in {Session!NoCommand} \union DOMAIN command
          /\ \A r \in requests : RequestFits(r)
          /\ OneSeen)'
  PROVE  SessionInv'
<1>1. (\A t \in Tab : /\ tab[t].page \in {"login", "library"}
                      /\ tab[t].holds \subseteq Account /\ tab[t].elsewhere \in BOOLEAN
                      /\ tab[t].status \in {Session!None, "pending", "approved", "consumed",
                           "expired"}
                      /\ tab[t].exchange \in {"idle", "sent", "failed"})'
  BY DEF TabState, CommandProgress
<1>2. (\A r \in requests : r.cookie \in {Session!NoSession} \union DOMAIN sess)'
  BY DEF RequestFits
<1>3. Session!TypeOK'
  BY <1>1, <1>2 DEF Session!TypeOK
<1>4. QED
  BY <1>3 DEF RowsTyped, SessionInv

\* What stays while commands and sessions stay.
LEMMA Standing ==
  ASSUME SessionInv
  PROVE  /\ \A a \in Account : owner[owner[a]] = owner[a]
         /\ owner \in [Account -> Account]
         /\ sess \in Seq(SessRow)
         /\ \A n \in DOMAIN sess : sess[n].live => owner[sess[n].account] = sess[n].account
         /\ command \in Seq(CommandRow)
         /\ \A c \in DOMAIN command : command[c].state = "approved" => command[c].by \in Account
         /\ cookie \in {Session!NoSession} \union DOMAIN sess
         /\ tab \in [Tab -> TabState]
         /\ \A t \in Tab : tab[t].command \in {Session!NoCommand} \union DOMAIN command
         /\ OneSeen
BY DEF SessionInv, Session!TypeOK, RowsTyped

\* A step that leaves the server's rows and the cookie alone.
LEMMA ServerStays ==
  ASSUME SessionInv, UNCHANGED <<Session!server, cookie>>,
         tab' \in [Tab -> TabState],
         \A t \in Tab : tab'[t].command \in {Session!NoCommand} \union DOMAIN command',
         (\A r \in requests : RequestFits(r))', OneSeen'
  PROVE  SessionInv'
BY Standing, Shape DEF Session!server

-----------------------------------------------------------------------------
(* Every step keeps the invariant *)

\* A request that is sent carries the cookie and has no answer yet.
LEMMA SendSteps ==
  ASSUME SessionInv, NEW t \in Tab,
         \/ Session!Read(t) \/ Session!AskLogout(t) \/ Session!Poll(t)
         \/ \E a \in Account : Session!AskLink(t, a) \/ Session!AskVerify(t, a)
  PROVE  SessionInv'
<1>1. UNCHANGED <<Session!server, cookie, tab>> /\ UNCHANGED command
  BY DEF Session!Read, Session!AskLogout, Session!AskLink, Session!AskVerify, Session!Poll,
     Session!server
<1>2. PICK kind \in RequestKinds, arg \in Account \union Nat \union {Session!None} :
         /\ requests' = requests \union {Session!Request(t, kind, arg)}
         /\ kind \in {"verify", "link"} => arg \in Account
         /\ kind \in {"status", "exchange"} => arg \in DOMAIN command
  <2>1. CASE Session!Read(t)
    BY <2>1 DEF Session!Read, Session!Send, RequestKinds
  <2>2. CASE Session!AskLogout(t)
    BY <2>2 DEF Session!AskLogout, Session!Send, RequestKinds
  <2>3. CASE \E a \in Account : Session!AskLink(t, a)
    BY <2>3 DEF Session!AskLink, Session!Send, RequestKinds
  <2>4. CASE \E a \in Account : Session!AskVerify(t, a)
    BY <2>4 DEF Session!AskVerify, Session!Send, RequestKinds
  <2>5. CASE Session!Poll(t)
    <3>1. tab[t].command \in DOMAIN command /\ tab[t].command \in Nat
      BY <2>5, SessionParts, Standing DEF Session!Poll
    <3>2. QED
      BY <2>5, <3>1 DEF Session!Poll, Session!Send, RequestKinds
  <2>6. QED
    BY <2>1, <2>2, <2>3, <2>4, <2>5
<1>3. \A u \in Tab : KeepsClient(u)
  BY <1>1 DEF KeepsClient
<1>4. (\A r \in requests' : RequestFits(r)') /\ OneSeen'
  BY <1>1, <1>2, <1>3, SendKeeps
<1>5. QED
  BY <1>1, <1>4, Standing, ServerStays

\* A tab that shows a command, or another page, keeps what its client holds.
LEMMA PageSteps ==
  ASSUME SessionInv, NEW t \in Tab, Session!AskCommand(t) \/ Session!Restart(t)
           \/ Session!Navigate(t)
  PROVE  SessionInv'
<1>1. Session!Fresh \in TabState /\ tab[t] \in TabState
  BY SessionParts DEF Session!Fresh, TabState, Session!NoCommand, Session!None
<1>2. /\ Session!Kept(t) \in TabState /\ Session!Kept(t).holds = tab[t].holds
      /\ Session!Kept(t).elsewhere = tab[t].elsewhere
      /\ Session!Kept(t).command = Session!NoCommand
  BY <1>1 DEF TabState, Session!Kept, Session!Fresh
<1>3. tab \in [Tab -> TabState]
  BY Standing
<1>4. UNCHANGED <<owner, sess, cookie, requests>>
  BY DEF Session!AskCommand, Session!Restart, Session!Navigate, Session!server
<1>5. /\ command' \in Seq(CommandRow) /\ DOMAIN command \subseteq DOMAIN command'
      /\ \A c \in DOMAIN command' : command'[c].state = "approved" => command'[c].by \in Account
      /\ Session!AskCommand(t) => Len(command) + 1 \in DOMAIN command' /\ Len(command) + 1 \in Nat
  <2>1. CASE command' = command /\ ~Session!AskCommand(t)
    BY <2>1, Standing
  <2>2. CASE Session!AskCommand(t)
    <3> DEFINE new == [state |-> "pending", by |-> Session!None]
    <3>1. new \in CommandRow /\ new.state = "pending"
      BY DEF CommandRow, CommandProgress
    <3>2. command' = Append(command, new)
      BY <2>2 DEF Session!AskCommand
    <3> HIDE DEF new
    <3>3. /\ command' \in Seq(CommandRow) /\ DOMAIN command' = 1..(Len(command) + 1)
          /\ \A c \in DOMAIN command' : command'[c] = IF c \in DOMAIN command THEN command[c]
               ELSE new
      BY <3>1, <3>2, Standing
    <3>4. QED
      BY <3>1, <3>3, Standing, SessionParts
  <2>3. QED
    BY <2>1, <2>2 DEF Session!Restart, Session!Navigate, Session!server
<1>6. PICK new \in TabState :
         /\ tab' = [tab EXCEPT ![t] = new]
         /\ new.holds = tab[t].holds /\ new.elsewhere = tab[t].elsewhere
         /\ new.command \in {Session!NoCommand} \union DOMAIN command'
  <2> DEFINE kept == Session!Kept(t)
  <2> HIDE DEF kept
  <2>1. CASE Session!AskCommand(t)
    <3> DEFINE new == [kept EXCEPT !.command = Len(command) + 1]
    <3>1. tab' = [tab EXCEPT ![t] = new]
      BY <2>1 DEF Session!AskCommand, kept
    <3>2. kept \in TabState /\ kept.holds = tab[t].holds /\ kept.elsewhere = tab[t].elsewhere
      BY <1>2 DEF kept
    <3>3. /\ new \in TabState /\ new.holds = tab[t].holds
          /\ new.elsewhere = tab[t].elsewhere /\ new.command = Len(command) + 1
      BY <1>5, <2>1, <3>2 DEF TabState
    <3> HIDE DEF new
    <3>4. QED
      BY <1>5, <2>1, <3>1, <3>3
  <2>2. CASE Session!Restart(t)
    BY <1>2, <2>2 DEF Session!Restart
  <2>3. CASE Session!Navigate(t)
    <3> DEFINE p == IF tab[t].page = "login" THEN "library" ELSE "login"
               new == [kept EXCEPT !.page = p]
    <3>1. tab' = [tab EXCEPT ![t] = new]
      BY <2>3 DEF Session!Navigate, kept
    <3>2. p \in {"login", "library"}
      OBVIOUS
    <3> HIDE DEF p
    <3>3. /\ kept \in TabState /\ kept.holds = tab[t].holds
          /\ kept.elsewhere = tab[t].elsewhere /\ kept.command = Session!NoCommand
      BY <1>2 DEF kept
    <3>4. /\ new \in TabState /\ new.holds = tab[t].holds
          /\ new.elsewhere = tab[t].elsewhere /\ new.command = Session!NoCommand
      BY <3>2, <3>3 DEF TabState
    <3> HIDE DEF new
    <3>5. QED
      BY <3>1, <3>4
  <2>4. QED
    BY <2>1, <2>2, <2>3
<1>7. /\ tab' \in [Tab -> TabState]
      /\ \A u \in Tab : tab'[u].command \in {Session!NoCommand} \union DOMAIN command'
  BY <1>5, <1>6, TabsKeep
<1>8. (\A u \in Tab : KeepsClient(u)) /\ OnlyEnd
  BY <1>3, <1>4, <1>6 DEF KeepsClient, OnlyEnd
<1>9. (\A r \in requests : RequestFits(r))' /\ OneSeen'
  BY <1>4, <1>5, <1>8, RequestsStay
<1>10. QED
  BY <1>4, <1>5, <1>7, <1>9, Standing, Shape

\* A request is answered.
LEMMA AnsweredFits ==
  ASSUME SessionInv, NEW r \in requests, NEW answer \in Answers,
         NEW account \in Account \union Nat \union {Session!None},
         r.kind = "status" => answer \in CommandProgress,
         answer = "session" => account \in DOMAIN sess',
         answer = "data" => account \in Account,
         Session!Answered(r, answer, account),
         DOMAIN command \subseteq DOMAIN command', DOMAIN sess \subseteq DOMAIN sess',
         cookie' = cookie
  PROVE  (\A q \in requests : RequestFits(q))'
<1> DEFINE new == [r EXCEPT !.answer = answer, !.account = account]
<1>1. r \in RequestState /\ RequestFits(r) /\ \A q \in requests : RequestFits(q)
  BY DEF SessionInv, RequestFits
<1>2. /\ new \in RequestState /\ new.answer = answer /\ new.account = account
      /\ new.kind = r.kind /\ new.arg = r.arg /\ new.cookie = r.cookie /\ new.own = r.own
  BY <1>1 DEF RequestState
<1>3. requests' = (requests \ {r}) \union {new}
  BY DEF Session!Answered
<1> HIDE DEF new
<1>4. RequestFits(new)'
  BY <1>1, <1>2 DEF RequestFits
<1>5. \A q \in requests : RequestFits(q)'
  BY <1>1, FitsOn
<1>6. QED
  BY <1>3, <1>4, <1>5

\* Data that arrives at a client later is of the session it was read with, the one
\* the client belongs to.
LEMMA AnsweredSeen ==
  ASSUME SessionInv, NEW r \in requests, NEW answer \in Answers,
         NEW account \in Account \union Nat \union {Session!None},
         Session!Answered(r, answer, account),
         answer = "data" => Session!Live(r.cookie) /\ account = sess[r.cookie].account,
         UNCHANGED <<cookie, tab>>, OnlyEnd, answer = "data" => sess' = sess
  PROVE  OneSeen'
<1> DEFINE new == [r EXCEPT !.answer = answer, !.account = account]
<1>1. r \in RequestState /\ RequestFits(r)
  BY DEF SessionInv, RequestFits
<1>2. /\ new.answer = answer /\ new.account = account /\ new.own = r.own
      /\ new.tab = r.tab /\ new.cookie = r.cookie
  BY <1>1 DEF RequestState
<1>3. requests' = (requests \ {r}) \union {new}
  BY DEF Session!Answered
<1> HIDE DEF new
<1> SUFFICES ASSUME NEW u \in Tab PROVE OneIn(u)'
  BY DEF OneSeen
<1>4. CASE new.tab = u /\ new.own /\ answer = "data" /\ ~tab[u].elsewhere
  <2>1. PICK n \in {Session!NoSession} \union DOMAIN sess : Belongs(u, n)
    BY <1>4, Standing DEF OneSeen, OneIn
  <2>2. r.cookie = n
    BY <1>2, <1>4, <2>1 DEF Belongs, Session!Live
  <2>3. Session!Live(n) /\ account = sess[n].account /\ sess' = sess
    BY <1>4, <2>2
  <2>4. /\ tab[u].holds \subseteq {sess[n].account}
        /\ \A q \in Data(u) : q.account = sess[n].account
    BY <2>1, <2>3 DEF Belongs, Seen
  <2>5. \A q \in Data(u)' : q \in Data(u) \/ q.account = sess[n].account
    BY <1>2, <1>3, <2>3 DEF Data
  <2>6. Seen(u)' \subseteq {sess[n].account}
    BY <2>4, <2>5 DEF Seen
  <2>7. \A q \in requests' : q.tab = u /\ q.own => q.cookie \in {n, Session!NoSession}
    BY <1>2, <1>3, <2>1, <2>2 DEF Belongs
  <2>8. Belongs(u, n)'
    BY <2>1, <2>3, <2>6, <2>7 DEF Belongs
  <2>9. QED
    BY <2>1, <2>3, <2>8 DEF OneIn
<1>5. CASE ~(new.tab = u /\ new.own /\ answer = "data") /\ ~tab[u].elsewhere
  <2>1. Data(u)' \subseteq Data(u)
    BY <1>2, <1>3, <1>5 DEF Data
  <2>2. \A q \in requests' : q.tab = u /\ q.own =>
           q \in requests \/ \E p \in requests : p.tab = u /\ p.own /\ p.cookie = q.cookie
    BY <1>2, <1>3
  <2>3. QED
    BY <2>1, <2>2, SameSeen, SeenOn, Standing, NoSessionIsNone
<1>6. CASE tab[u].elsewhere
  BY <1>6 DEF OneIn
<1>7. QED
  BY <1>4, <1>5, <1>6

\* A session is added, or the row of one is changed.
LEMMA IssueKeeps ==
  ASSUME SessionInv, NEW a \in Account, owner[a] = a, Session!Issue(a), owner' = owner
  PROVE  /\ sess' \in Seq(SessRow) /\ DOMAIN sess' = 1..(Len(sess) + 1)
         /\ DOMAIN sess \subseteq DOMAIN sess'
         /\ \A n \in DOMAIN sess : sess'[n] = sess[n]
         /\ \A n \in DOMAIN sess' : sess'[n].live => owner'[sess'[n].account] = sess'[n].account
<1> DEFINE new == [account |-> a, live |-> TRUE]
<1>1. new \in SessRow /\ new.account = a
  BY DEF SessRow
<1>2. sess' = Append(sess, new)
  BY DEF Session!Issue
<1> HIDE DEF new
<1>3. /\ sess' \in Seq(SessRow) /\ DOMAIN sess' = 1..(Len(sess) + 1)
      /\ \A n \in DOMAIN sess' : sess'[n] = IF n \in DOMAIN sess THEN sess[n] ELSE new
  BY <1>1, <1>2, Standing, SessionParts
<1>4. QED
  BY <1>1, <1>3, Standing, SessionParts

\* The account of a live session stands for itself.
LEMMA OwnerOfSession ==
  ASSUME SessionInv, NEW n \in DOMAIN sess
  PROVE  sess[n].account \in Account /\ sess[n].live \in BOOLEAN
BY SessionParts DEF SessRow

\* Whoever an account was merged into owns itself.
LEMMA OwnersStand ==
  ASSUME SessionInv, NEW a \in Account
  PROVE  owner[a] \in Account /\ owner[owner[a]] = owner[a]
BY Standing

\* A verified code issues a session of the account it was mailed for.
LEMMA ServeVerifyKeeps ==
  ASSUME SessionInv, NEW r \in requests, Session!ServeVerify(r)
  PROVE  SessionInv'
<1>1. r \in RequestState /\ r.kind = "verify" /\ r.arg \in Account
  BY DEF Session!ServeVerify, SessionInv, RequestFits
<1>2. UNCHANGED <<owner, command, cookie, tab>>
  BY DEF Session!ServeVerify
<1>3. CASE Session!Issue(owner[r.arg]) /\ Session!Answered(r, "session", Len(sess) + 1)
  <2>1. owner[r.arg] \in Account /\ owner[owner[r.arg]] = owner[r.arg]
    BY <1>1, OwnersStand
  <2>2. /\ sess' \in Seq(SessRow) /\ DOMAIN sess' = 1..(Len(sess) + 1)
        /\ DOMAIN sess \subseteq DOMAIN sess'
        /\ \A n \in DOMAIN sess : sess'[n] = sess[n]
        /\ \A n \in DOMAIN sess' : sess'[n].live => owner'[sess'[n].account] = sess'[n].account
    BY <1>2, <1>3, <2>1, IssueKeeps
  <2>3. Len(sess) + 1 \in Nat /\ Len(sess) + 1 \in DOMAIN sess' /\ "session" \in Answers
    BY <2>2, SessionParts DEF Answers
  <2>4. (\A q \in requests : RequestFits(q))'
    BY <1>1, <1>2, <1>3, <2>2, <2>3, AnsweredFits
  <2>5. OnlyEnd
    BY <2>2 DEF OnlyEnd
  <2>6. OneSeen'
    BY <1>2, <1>3, <2>3, <2>5, AnsweredSeen
  <2>7. QED
    BY <1>2, <2>2, <2>4, <2>6, Standing, Shape
<1>4. CASE sess' = sess /\ Session!Answered(r, "wrong", Session!None)
  <2>1. "wrong" \in Answers
    BY DEF Answers, Ordinary
  <2>2. (\A q \in requests : RequestFits(q))'
    BY <1>1, <1>2, <1>4, <2>1, AnsweredFits
  <2>3. OnlyEnd
    BY <1>4 DEF OnlyEnd
  <2>4. OneSeen'
    BY <1>2, <1>4, <2>1, <2>3, AnsweredSeen
  <2>5. QED
    BY <1>2, <1>4, <2>2, <2>4, Standing, ServerStays DEF Session!server
<1>5. QED
  BY <1>3, <1>4 DEF Session!ServeVerify

\* An answer that changes no row.
LEMMA PlainAnswer ==
  ASSUME SessionInv, NEW r \in requests, NEW answer \in Answers,
         r.kind = "status" => answer \in CommandProgress,
         answer \notin {"session", "data"}, Session!Answered(r, answer, Session!None),
         UNCHANGED <<Session!server, cookie, tab>>
  PROVE  SessionInv'
<1>1. UNCHANGED <<owner, sess, command>>
  BY DEF Session!server
<1>2. (\A q \in requests : RequestFits(q))'
  BY <1>1, AnsweredFits
<1>3. OnlyEnd
  BY <1>1 DEF OnlyEnd
<1>4. OneSeen'
  BY <1>3, AnsweredSeen
<1>5. QED
  BY <1>1, <1>2, <1>4, Standing, ServerStays

\* A status is answered with the state of its command.
LEMMA ServeStatusKeeps ==
  ASSUME SessionInv, NEW r \in requests, Session!ServeStatus(r)
  PROVE  SessionInv'
<1>1. r.kind = "status" /\ r.arg \in DOMAIN command
  BY DEF Session!ServeStatus, SessionInv, RequestFits
<1>2. command[r.arg].state \in CommandProgress
  BY <1>1, SessionParts DEF CommandRow
<1>3. /\ command[r.arg].state \in Answers
      /\ command[r.arg].state \notin {"session", "data"}
  BY <1>2 DEF Answers, CommandProgress
<1>4. QED
  BY <1>2, <1>3, PlainAnswer DEF Session!ServeStatus

\* An approved command issues a session of the account that approved it.
LEMMA ServeExchangeKeeps ==
  ASSUME SessionInv, NEW r \in requests, Session!ServeExchange(r)
  PROVE  SessionInv'
<1>1. r \in RequestState /\ r.kind = "exchange" /\ r.arg \in DOMAIN command
  BY DEF Session!ServeExchange, SessionInv, RequestFits
<1>2. UNCHANGED <<owner, cookie, tab>>
  BY DEF Session!ServeExchange
<1>3. CASE command[r.arg].state = "approved" /\ Len(sess) < MaxSession
  <2>1. /\ Session!Issue(owner[command[r.arg].by]) /\ Session!Answered(r, "session", Len(sess) + 1)
        /\ command' = [command EXCEPT ![r.arg].state = "consumed"]
    BY <1>3 DEF Session!ServeExchange
  <2>2. command[r.arg].by \in Account
    BY <1>1, <1>3, Standing
  <2>3. /\ owner[command[r.arg].by] \in Account
        /\ owner[owner[command[r.arg].by]] = owner[command[r.arg].by]
    BY <2>2, OwnersStand
  <2>4. /\ sess' \in Seq(SessRow) /\ DOMAIN sess' = 1..(Len(sess) + 1)
        /\ DOMAIN sess \subseteq DOMAIN sess'
        /\ \A n \in DOMAIN sess : sess'[n] = sess[n]
        /\ \A n \in DOMAIN sess' : sess'[n].live => owner'[sess'[n].account] = sess'[n].account
    BY <1>2, <2>1, <2>3, IssueKeeps
  <2>5. /\ command' \in Seq(CommandRow) /\ DOMAIN command' = DOMAIN command
        /\ \A c \in DOMAIN command' : command'[c].state = "approved" => command'[c].by \in Account
    <3> DEFINE row == [command[r.arg] EXCEPT !.state = "consumed"]
    <3>1. row \in CommandRow /\ row.state = "consumed"
      BY <1>1, SessionParts DEF CommandRow, CommandProgress
    <3>2. command' = [command EXCEPT ![r.arg] = row]
      BY <2>1
    <3> HIDE DEF row
    <3>3. QED
      BY <1>1, <3>1, <3>2, Standing
  <2>6. Len(sess) + 1 \in Nat /\ Len(sess) + 1 \in DOMAIN sess' /\ "session" \in Answers
    BY <2>4, SessionParts DEF Answers
  <2>7. (\A q \in requests : RequestFits(q))'
    BY <1>1, <1>2, <2>1, <2>4, <2>5, <2>6, AnsweredFits
  <2>8. OnlyEnd
    BY <2>4 DEF OnlyEnd
  <2>9. OneSeen'
    BY <1>2, <2>1, <2>6, <2>8, AnsweredSeen
  <2>10. QED
    BY <1>2, <2>4, <2>5, <2>7, <2>9, Standing, Shape
<1>4. CASE ~(command[r.arg].state = "approved" /\ Len(sess) < MaxSession)
  <2>1. "refused" \in Answers
    BY DEF Answers, Ordinary
  <2>2. QED
    BY <1>1, <1>2, <1>4, <2>1, PlainAnswer DEF Session!ServeExchange, Session!server
<1>5. QED
  BY <1>3, <1>4

\* Data is of the account of the session in the cookie of the request.
LEMMA ServeReadKeeps ==
  ASSUME SessionInv, NEW r \in requests, Session!ServeRead(r)
  PROVE  SessionInv'
<1>1. r.kind = "read" /\ r.cookie \in {Session!NoSession} \union DOMAIN sess
  BY DEF Session!ServeRead, SessionInv, RequestFits
<1>2. UNCHANGED <<Session!server, cookie, tab>> /\ UNCHANGED <<owner, sess, command>>
  BY DEF Session!ServeRead, Session!server
<1>3. CASE Session!Live(r.cookie)
  <2>1. Session!Answered(r, "data", sess[r.cookie].account)
    BY <1>3 DEF Session!ServeRead
  <2>2. sess[r.cookie].account \in Account /\ "data" \in Answers
    BY <1>1, <1>3, OwnerOfSession DEF Session!Live, Answers
  <2>3. (\A q \in requests : RequestFits(q))'
    BY <1>1, <1>2, <2>1, <2>2, AnsweredFits
  <2>4. OnlyEnd
    BY <1>2 DEF OnlyEnd
  <2>5. OneSeen'
    BY <1>2, <1>3, <2>1, <2>2, <2>4, AnsweredSeen
  <2>6. QED
    BY <1>2, <2>3, <2>5, Standing, ServerStays
<1>4. CASE ~Session!Live(r.cookie)
  <2>1. Session!Refusal(r) \in Answers /\ Session!Refusal(r) \notin {"session", "data"}
    BY DEF Session!Refusal, Answers, Ordinary
  <2>2. QED
    BY <1>1, <1>2, <1>4, <2>1, PlainAnswer DEF Session!ServeRead
<1>5. QED
  BY <1>3, <1>4

\* Sessions change in place: they only end, or move with their account and end.
LEMMA EndKeeps ==
  ASSUME SessionInv, NEW r \in requests, NEW answer \in Ordinary,
         r.kind # "status", Session!Answered(r, answer, Session!None),
         sess' \in Seq(SessRow), DOMAIN sess' = DOMAIN sess,
         \A n \in DOMAIN sess : sess'[n].live => sess'[n] = sess[n],
         owner' \in [Account -> Account], \A a \in Account : owner'[owner'[a]] = owner'[a],
         \A n \in DOMAIN sess' : sess'[n].live => owner'[sess'[n].account] = sess'[n].account,
         UNCHANGED <<command, cookie, tab>>
  PROVE  SessionInv'
<1>1. answer \in Answers /\ answer \notin {"session", "data"}
  BY DEF Answers, Ordinary
<1>2. (\A q \in requests : RequestFits(q))'
  BY <1>1, AnsweredFits
<1>3. OnlyEnd
  BY DEF OnlyEnd
<1>4. OneSeen'
  BY <1>1, <1>3, AnsweredSeen
<1>5. QED
  BY <1>2, <1>4, Standing, Shape

\* A logout ends the session it was sent with.
LEMMA ServeLogoutKeeps ==
  ASSUME SessionInv, NEW r \in requests, Session!ServeLogout(r)
  PROVE  SessionInv'
<1>1. r.kind = "logout" /\ r.cookie \in {Session!NoSession} \union DOMAIN sess
  BY DEF Session!ServeLogout, SessionInv, RequestFits
<1>2. UNCHANGED <<owner, command, cookie, tab>>
  BY DEF Session!ServeLogout
<1>3. CASE Session!Live(r.cookie)
  <2> DEFINE row == [sess[r.cookie] EXCEPT !.live = FALSE]
  <2>1. r.cookie \in DOMAIN sess /\ row \in SessRow /\ ~row.live
    BY <1>1, <1>3, SessionParts DEF Session!Live, SessRow
  <2>2. sess' = [sess EXCEPT ![r.cookie] = row] /\ Session!Answered(r, "done", Session!None)
    BY <1>3 DEF Session!ServeLogout
  <2> HIDE DEF row
  <2>3. /\ sess' \in Seq(SessRow) /\ DOMAIN sess' = DOMAIN sess
        /\ \A n \in DOMAIN sess : sess'[n] = IF n = r.cookie THEN row ELSE sess[n]
    BY <2>1, <2>2, Standing
  <2>4. "done" \in Ordinary
    BY DEF Ordinary
  <2>5. QED
    BY <1>1, <1>2, <2>1, <2>2, <2>3, <2>4, Standing, EndKeeps
<1>4. CASE ~Session!Live(r.cookie)
  <2>1. Session!Refusal(r) \in Answers /\ Session!Refusal(r) \notin {"session", "data"}
    BY DEF Session!Refusal, Answers, Ordinary
  <2>2. QED
    BY <1>1, <1>2, <1>4, <2>1, PlainAnswer DEF Session!ServeLogout, Session!server
<1>5. QED
  BY <1>3, <1>4

\* A link moves and ends the sessions of the absorbed account.
LEMMA ServeLinkKeeps ==
  ASSUME SessionInv, NEW r \in requests, Session!ServeLink(r)
  PROVE  SessionInv'
<1>1. r.kind = "link" /\ r.cookie \in {Session!NoSession} \union DOMAIN sess /\ r.arg \in Account
  BY DEF Session!ServeLink, SessionInv, RequestFits
<1>2. UNCHANGED <<command, cookie, tab>>
  BY DEF Session!ServeLink
<1>3. CASE Session!Live(r.cookie) /\ owner[r.arg] # sess[r.cookie].account
  <2> DEFINE a == owner[r.arg]
             b == sess[r.cookie].account
  <2>1. /\ r.cookie \in DOMAIN sess /\ a \in Account /\ b \in Account
        /\ owner[a] = a /\ owner[b] = b
    BY <1>1, <1>3, OwnersStand, OwnerOfSession, Standing DEF Session!Live
  <2>2. PICK kept \in {a, b} :
          LET gone == {a, b} \ {kept}
          IN  /\ owner' = [c \in Account |-> IF owner[c] \in gone THEN kept ELSE owner[c]]
              /\ sess' = [n \in DOMAIN sess |-> Session!Moved(sess[n], gone, kept)]
              /\ Session!Answered(r, "done", Session!None)
    BY <1>3 DEF Session!ServeLink
  <2> DEFINE gone == {a, b} \ {kept}
  <2>3. /\ owner' = [c \in Account |-> IF owner[c] \in gone THEN kept ELSE owner[c]]
        /\ sess' = [n \in DOMAIN sess |-> Session!Moved(sess[n], gone, kept)]
        /\ Session!Answered(r, "done", Session!None)
    BY <2>2
  <2>4. kept \in Account /\ owner[kept] = kept /\ kept \notin gone
    BY <2>1
  <2> HIDE DEF gone, a, b
  <2>5. /\ owner' \in [Account -> Account]
        /\ \A c \in Account : owner'[c] = IF owner[c] \in gone THEN kept ELSE owner[c]
    BY <2>3, <2>4, Standing
  <2>6. \A c \in Account : owner'[owner'[c]] = owner'[c]
    BY <2>4, <2>5, OwnersStand
  <2>7. \A n \in DOMAIN sess :
          /\ Session!Moved(sess[n], gone, kept) \in SessRow
          /\ Session!Moved(sess[n], gone, kept).live =>
                Session!Moved(sess[n], gone, kept) = sess[n] /\ sess[n].account \notin gone
    BY <2>4, SessionParts DEF Session!Moved, SessRow
  <2>8. /\ sess' \in Seq(SessRow) /\ DOMAIN sess' = DOMAIN sess
        /\ \A n \in DOMAIN sess : sess'[n] = Session!Moved(sess[n], gone, kept)
    <3>1. DOMAIN sess = 1..Len(sess) /\ Len(sess) \in Nat
      BY SessionParts
    <3>2. sess' \in [1..Len(sess) -> SessRow]
      BY <2>3, <2>7, <3>1
    <3>3. QED
      BY <2>3, <3>1, <3>2
  <2>9. \A n \in DOMAIN sess' : sess'[n].live => owner'[sess'[n].account] = sess'[n].account
    BY <2>5, <2>7, <2>8, OwnerOfSession, Standing
  <2>10. "done" \in Ordinary
    BY DEF Ordinary
  <2>11. QED
    BY <1>1, <1>2, <2>3, <2>5, <2>6, <2>7, <2>8, <2>9, <2>10, EndKeeps
<1>4. CASE ~(Session!Live(r.cookie) /\ owner[r.arg] # sess[r.cookie].account)
  <2> DEFINE x == IF Session!Live(r.cookie) THEN "refused" ELSE Session!Refusal(r)
  <2>1. x \in Answers /\ x \notin {"session", "data"}
    BY DEF Session!Refusal, Answers, Ordinary
  <2>2. Session!Answered(r, x, Session!None) /\ UNCHANGED <<owner, sess>>
    BY <1>4 DEF Session!ServeLink
  <2> HIDE DEF x
  <2>3. QED
    BY <1>1, <1>2, <1>4, <2>1, <2>2, PlainAnswer DEF Session!server
<1>5. QED
  BY <1>3, <1>4

\* A command that is approved or runs out keeps its shape.
LEMMA CommandSteps ==
  ASSUME SessionInv, NEW c \in DOMAIN command,
         Session!ExpireCommand(c) \/ \E a \in Account : Session!Approve(c, a)
  PROVE  SessionInv'
<1>1. UNCHANGED <<owner, sess, cookie, tab, requests>>
  BY DEF Session!Approve, Session!ExpireCommand
<1>2. PICK row \in CommandRow :
         command' = [command EXCEPT ![c] = row] /\ (row.state = "approved" => row.by \in Account)
  <2>1. command[c] \in CommandRow
    BY SessionParts
  <2>2. CASE \E a \in Account : Session!Approve(c, a)
    <3>0. PICK a \in Account : Session!Approve(c, a)
      BY <2>2
    <3> DEFINE row == [state |-> "approved", by |-> owner[a]]
    <3>1. row \in CommandRow /\ row.by \in Account
      BY OwnersStand DEF CommandRow, CommandProgress
    <3>2. command' = [command EXCEPT ![c] = row]
      BY <3>0 DEF Session!Approve
    <3> HIDE DEF row
    <3>3. QED
      BY <3>1, <3>2
  <2>3. CASE Session!ExpireCommand(c)
    <3> DEFINE row == [command[c] EXCEPT !.state = "expired"]
    <3>1. row \in CommandRow /\ row.state = "expired"
      BY <2>1 DEF CommandRow, CommandProgress
    <3>2. command' = [command EXCEPT ![c] = row]
      BY <2>3 DEF Session!ExpireCommand
    <3> HIDE DEF row
    <3>3. QED
      BY <3>1, <3>2
  <2>4. QED
    BY <2>2, <2>3
<1>3. /\ command' \in Seq(CommandRow) /\ DOMAIN command' = DOMAIN command
      /\ \A d \in DOMAIN command' : command'[d].state = "approved" => command'[d].by \in Account
  BY <1>2, Standing
<1>4. (\A u \in Tab : KeepsClient(u)) /\ OnlyEnd
  BY <1>1 DEF KeepsClient, OnlyEnd
<1>5. (\A q \in requests : RequestFits(q))' /\ OneSeen'
  BY <1>1, <1>3, <1>4, RequestsStay
<1>6. QED
  BY <1>1, <1>3, <1>5, Standing, Shape

\* A session that ends stays the session of its account.
LEMMA EndSessionKeeps ==
  ASSUME SessionInv, NEW n \in DOMAIN sess, Session!EndSession(n)
  PROVE  SessionInv'
<1> DEFINE row == [sess[n] EXCEPT !.live = FALSE]
<1>1. row \in SessRow /\ ~row.live
  BY SessionParts DEF SessRow
<1>2. sess' = [sess EXCEPT ![n] = row] /\ UNCHANGED <<owner, command, cookie, tab, requests>>
  BY DEF Session!EndSession
<1> HIDE DEF row
<1>3. /\ sess' \in Seq(SessRow) /\ DOMAIN sess' = DOMAIN sess
      /\ \A m \in DOMAIN sess : sess'[m] = IF m = n THEN row ELSE sess[m]
  BY <1>1, <1>2, Standing
<1>4. (\A u \in Tab : KeepsClient(u)) /\ OnlyEnd
  BY <1>1, <1>2, <1>3 DEF KeepsClient, OnlyEnd
<1>5. (\A q \in requests : RequestFits(q))' /\ OneSeen'
  BY <1>1, <1>2, <1>3, <1>4, RequestsStay
<1>6. QED
  BY <1>1, <1>2, <1>3, <1>5, Standing, Shape

\* When the client of a tab is replaced, the others keep what they hold and wait
\* for; they learn of it only if it is a login that finds them in use.
LEMMA OthersKeep ==
  ASSUME SessionInv, NEW t \in Tab, NEW r \in requests,
         NEW page \in {"login", "library"}, NEW h \in SUBSET Account,
         Session!Rotated(t, requests \ {r}, page, h), NEW u \in Tab \ {t}
  PROVE  /\ tab'[u] \in TabState
         /\ tab'[u].holds = tab[u].holds /\ tab'[u].command = tab[u].command
         /\ page = "login" => tab'[u].elsewhere = tab[u].elsewhere
         /\ page = "library" /\ ~tab'[u].elsewhere => ~Session!Used(u)
         /\ \A q \in requests' : q.tab = u /\ q.own => q \in requests
<1> DEFINE new == [Session!Fresh EXCEPT !.page = page, !.holds = h]
           told == tab[u].elsewhere \/ (new.page = "library" /\ Session!Used(u))
           then == [tab[u] EXCEPT !.elsewhere = told]
<1>1. new.page = page
  BY DEF Session!Fresh
<1>2. tab' = Session!Opened(t, new) /\ requests' = Session!Disowned(requests \ {r}, t)
  BY DEF Session!Rotated
<1>3. tab[u] \in TabState
  BY Standing
<1>4. tab'[u] = then
  BY <1>2 DEF Session!Opened
<1>5. told \in BOOLEAN /\ (page = "login" => told = tab[u].elsewhere)
        /\ (page = "library" /\ ~told => ~Session!Used(u))
  BY <1>1, <1>3 DEF TabState
<1> HIDE DEF told, new
<1>6. /\ then \in TabState /\ then.holds = tab[u].holds /\ then.command = tab[u].command
      /\ then.elsewhere = told
  BY <1>3, <1>5 DEF TabState
<1>7. \A q \in requests' : q.tab = u /\ q.own => q \in requests
  <2>1. \A q \in Session!Disowned(requests \ {r}, t) : q.own => q \in requests
    BY AllDisowned
  <2>2. QED
    BY <1>2, <2>1
<1> HIDE DEF then
<1>8. QED
  BY <1>4, <1>5, <1>6, <1>7

\* The client of a tab is replaced: it shows only what it is given, and belongs to
\* the session of the new cookie. The invariant of the other clients is a premise.
LEMMA RotatedKeeps ==
  ASSUME SessionInv, NEW t \in Tab, NEW r \in requests,
         NEW page \in {"login", "library"}, NEW h \in SUBSET Account,
         Session!Rotated(t, requests \ {r}, page, h), UNCHANGED Session!server,
         cookie' \in {Session!NoSession} \union DOMAIN sess,
         \A a, b \in h : a = b,
         Session!Live(cookie)' => h \subseteq {sess[cookie'].account},
         \A u \in Tab \ {t} : OneIn(u)'
  PROVE  SessionInv'
<1> DEFINE new == [Session!Fresh EXCEPT !.page = page, !.holds = h]
<1>1. UNCHANGED <<owner, sess, command>>
  BY DEF Session!server
<1>2. Session!Fresh \in TabState /\ Session!Fresh.command = Session!NoCommand
  BY DEF Session!Fresh, TabState, Session!NoCommand, Session!None
<1>3. new \in TabState /\ new.holds = h /\ new.command = Session!NoCommand
  BY <1>2 DEF TabState, Session!Fresh
<1>4. tab' = Session!Opened(t, new) /\ requests' = Session!Disowned(requests \ {r}, t)
  BY DEF Session!Rotated
<1> HIDE DEF new
<1>5. \A u \in Tab \ {t} : tab'[u] \in TabState /\ tab'[u].command = tab[u].command
  BY <1>4, OthersKeep
<1>6. /\ tab' \in [Tab -> TabState] /\ tab'[t] = new
      /\ \A u \in Tab : tab'[u].command \in {Session!NoCommand} \union DOMAIN command'
  <2>1. tab'[t] = new /\ tab' = [u \in Tab |-> tab'[u]]
    BY <1>4 DEF Session!Opened
  <2>2. \A u \in Tab : tab'[u] \in TabState
    BY <1>3, <1>5, <2>1
  <2>3. QED
    BY <1>1, <1>3, <1>5, <2>1, <2>2, Standing
<1>7. \A q \in requests' : (q.own => q.tab # t) /\ RequestFits(q)'
  <2> SUFFICES ASSUME NEW q \in requests' PROVE (q.own => q.tab # t) /\ RequestFits(q)'
    OBVIOUS
  <2>1. PICK p \in requests \ {r} :
           /\ q.kind = p.kind /\ q.arg = p.arg /\ q.answer = p.answer
           /\ q.account = p.account /\ q.cookie = p.cookie /\ q.tab = p.tab
           /\ q \in RequestState /\ (q.own => q.tab # t)
    <3>1. q \in Session!Disowned(requests \ {r}, t) /\ requests \ {r} \in SUBSET requests
      BY <1>4
    <3>2. QED
      BY <3>1, AllDisowned
  <2>2. RequestFits(p)
    BY DEF SessionInv
  <2>3. QED
    BY <1>1, <2>1, <2>2 DEF RequestFits
<1>8. Seen(t)' = h
  BY <1>3, <1>6, <1>7 DEF Seen, Data
<1>9. PICK n \in {Session!NoSession} \union DOMAIN sess' : n = cookie'
  BY <1>1
<1>10. Belongs(t, n)'
  <2>1. cookie' \in {n, Session!NoSession}
    BY <1>9
  <2>2. \A q \in requests' : q.tab = t /\ q.own => q.cookie \in {n, Session!NoSession}
    BY <1>7
  <2>3. Session!Live(n)' => Seen(t)' \subseteq {sess'[n].account}
    BY <1>1, <1>8, <1>9 DEF Session!Live
  <2>4. \A a, b \in Seen(t)' : a = b
    BY <1>8
  <2>5. QED
    BY <2>1, <2>2, <2>3, <2>4 DEF Belongs
<1>11. OneSeen'
  BY <1>9, <1>10 DEF OneSeen, OneIn
<1>12. QED
  BY <1>1, <1>6, <1>7, <1>11, Standing, Shape

\* A new session replaces the client, which then holds that session alone. A client
\* another tab does not count as in use holds and awaits nothing.
LEMMA TakeSessionKeeps ==
  ASSUME SessionInv, NEW r \in requests, Session!TakeSession(r)
  PROVE  SessionInv'
<1> DEFINE t == r.tab
           h == {sess[r.account].account}
<1>1. t \in Tab /\ r.account \in DOMAIN sess
  BY DEF Session!TakeSession, SessionInv, RequestFits, RequestState
<1>2. h \in SUBSET Account
  BY <1>1, OwnerOfSession
<1>3. /\ cookie' = r.account /\ Session!Rotated(t, requests \ {r}, "library", h)
      /\ UNCHANGED Session!server /\ UNCHANGED sess
  BY DEF Session!TakeSession, Session!server
<1>4. ASSUME NEW u \in Tab \ {t} PROVE OneIn(u)'
  <2> DEFINE n == r.account
  <2> SUFFICES ASSUME ~tab'[u].elsewhere PROVE Belongs(u, n)'
    BY <1>1, <1>3 DEF OneIn
  <2>1. /\ tab'[u].holds = tab[u].holds /\ ~Session!Used(u)
        /\ \A q \in requests' : q.tab = u /\ q.own => q \in requests
    BY <1>1, <1>2, <1>3, OthersKeep
  <2>2. tab'[u].holds = {} /\ \A q \in requests' : ~(q.tab = u /\ q.own)
    BY <2>1 DEF Session!Used, Session!Of
  <2>3. Seen(u)' = {}
    BY <2>2 DEF Seen, Data
  <2>4. QED
    BY <1>3, <2>2, <2>3 DEF Belongs
<1> HIDE DEF t
<1>5. \A a, b \in h : a = b
  OBVIOUS
<1>6. h \subseteq {sess[cookie'].account}
  BY <1>3
<1> HIDE DEF h
<1>7. QED
  BY <1>1, <1>2, <1>3, <1>4, <1>5, <1>6, RotatedKeeps

\* The end of a session replaces the client, which then holds nothing. The others
\* keep theirs, and send with the old cookie or without any.
LEMMA TakeEndKeeps ==
  ASSUME SessionInv, NEW r \in requests, Session!TakeEnd(r)
  PROVE  SessionInv'
<1> DEFINE t == r.tab
<1>1. t \in Tab
  BY DEF SessionInv, RequestFits, RequestState
<1>2. /\ cookie' \in {cookie, Session!NoSession} /\ UNCHANGED sess
      /\ Session!Rotated(t, requests \ {r}, "login", {}) /\ UNCHANGED Session!server
  BY DEF Session!TakeEnd, Session!server
<1> HIDE DEF t
<1>3. ASSUME NEW u \in Tab \ {t} PROVE OneIn(u)'
  <2>1. /\ tab'[u].holds = tab[u].holds /\ tab'[u].elsewhere = tab[u].elsewhere
        /\ \A q \in requests' : q.tab = u /\ q.own => q \in requests
    <3> DEFINE page == "login"
               h == {}
    <3>1. page \in {"login", "library"} /\ h \in SUBSET Account /\ page = "login"
      OBVIOUS
    <3>2. Session!Rotated(t, requests \ {r}, page, h)
      BY <1>2
    <3> HIDE DEF page, h
    <3>3. QED
      BY <1>1, <3>1, <3>2, OthersKeep
  <2>2. Data(u)' \subseteq Data(u)
    BY <2>1 DEF Data
  <2>3. Seen(u)' \subseteq Seen(u) /\ OnlyEnd
    BY <1>2, <2>1, <2>2, SameSeen DEF OnlyEnd
  <2>4. QED
    BY <1>2, <2>1, <2>3, NoSessionIsNone, SeenOn, Standing
<1>4. cookie' \in {Session!NoSession} \union DOMAIN sess
  BY <1>2, Standing
<1>5. QED
  BY <1>1, <1>2, <1>3, <1>4, RotatedKeeps

\* Nothing a client shows becomes more than what was on its way.
LEMMA TakeDataKeeps ==
  ASSUME SessionInv, NEW r \in requests, Session!TakeData(r)
  PROVE  SessionInv'
<1>1. /\ r \in RequestState /\ r.answer = "data" /\ r.account \in Account
      /\ requests' = requests \ {r} /\ UNCHANGED <<Session!server, cookie>>
  BY DEF Session!TakeData, SessionInv, RequestFits
<1>2. r.tab \in Tab /\ UNCHANGED <<owner, sess, command>>
  BY <1>1 DEF RequestState, Session!server
<1>3. \A q \in requests' : RequestFits(q)'
  <2>1. \A q \in requests' : RequestFits(q)
    BY <1>1 DEF SessionInv
  <2>2. QED
    BY <1>1, <1>2, <2>1, FitsOn
<1>4. ASSUME NEW u \in Tab, tab'[u].elsewhere = tab[u].elsewhere,
             tab'[u].holds \subseteq tab[u].holds \union
                 (IF u = r.tab /\ r.own THEN {r.account} ELSE {})
      PROVE  OneIn(u)'
  <2>1. Data(u)' \subseteq Data(u)
    BY <1>1 DEF Data
  <2>2. u = r.tab /\ r.own => r \in Data(u)
    BY <1>1 DEF Data
  <2>3. Seen(u)' \subseteq Seen(u)
    BY <1>4, <2>1, <2>2 DEF Seen
  <2>4. OnlyEnd
    BY <1>2 DEF OnlyEnd
  <2>5. QED
    BY <1>1, <1>4, <2>3, <2>4, NoSessionIsNone, SeenOn, Standing
<1>5. CASE r.own
  <2> DEFINE new == [tab[r.tab] EXCEPT !.holds = @ \union {r.account}]
  <2>1. /\ new \in TabState /\ new.holds = tab[r.tab].holds \union {r.account}
        /\ new.command = tab[r.tab].command /\ new.elsewhere = tab[r.tab].elsewhere
    BY <1>1, <1>2, SessionParts DEF TabState
  <2>2. tab' = [tab EXCEPT ![r.tab] = new]
    BY <1>5 DEF Session!TakeData
  <2> HIDE DEF new
  <2>3. /\ tab' \in [Tab -> TabState]
        /\ \A u \in Tab : tab'[u].command \in {Session!NoCommand} \union DOMAIN command'
        /\ \A u \in Tab : tab'[u].elsewhere = tab[u].elsewhere
        /\ \A u \in Tab : tab'[u].holds \subseteq tab[u].holds \union
                               (IF u = r.tab /\ r.own THEN {r.account} ELSE {})
    BY <1>2, <1>5, <2>1, <2>2, Standing
  <2>4. OneSeen'
    BY <1>4, <2>3 DEF OneSeen
  <2>5. QED
    BY <1>1, <1>3, <2>3, <2>4, Standing, ServerStays
<1>6. CASE ~r.own
  <2>1. tab' = tab
    BY <1>6 DEF Session!TakeData
  <2>2. OneSeen'
    BY <1>4, <2>1 DEF OneSeen
  <2>3. QED
    BY <1>1, <1>2, <1>3, <2>1, <2>2, Standing, ServerStays
<1>7. QED
  BY <1>5, <1>6

\* An answer changes how a page stands, and is gone.
LEMMA PageAnswer ==
  ASSUME SessionInv, NEW t \in Tab, NEW rs \in SUBSET requests, requests' = rs,
         NEW new, new \in TabState, new.holds = tab[t].holds, new.command = tab[t].command,
         new.elsewhere = tab[t].elsewhere,
         tab' = [tab EXCEPT ![t] = new] \/ tab' = tab,
         UNCHANGED <<Session!server, cookie>>
  PROVE  SessionInv'
<1>1. UNCHANGED <<owner, sess, command>>
  BY DEF Session!server
<1>2. /\ tab' \in [Tab -> TabState]
      /\ \A u \in Tab : tab'[u].command = tab[u].command /\ KeepsClient(u)
  BY Standing DEF KeepsClient
<1>3. (\A q \in requests : RequestFits(q))' /\ OneSeen'
  BY <1>1, <1>2, RequestsStay DEF OnlyEnd
<1>4. QED
  BY <1>1, <1>2, <1>3, Standing, ServerStays

\* A tab whose login page changes keeps its shape.
LEMMA StateOfTab ==
  ASSUME SessionInv, NEW t \in Tab
  PROVE  /\ \A x \in {"idle", "sent", "failed"} :
               /\ [tab[t] EXCEPT !.exchange = x] \in TabState
               /\ [tab[t] EXCEPT !.exchange = x].holds = tab[t].holds
               /\ [tab[t] EXCEPT !.exchange = x].elsewhere = tab[t].elsewhere
               /\ [tab[t] EXCEPT !.exchange = x].command = tab[t].command
         /\ [tab[t] EXCEPT !.failed = TRUE] \in TabState
         /\ [tab[t] EXCEPT !.failed = TRUE].holds = tab[t].holds
         /\ [tab[t] EXCEPT !.failed = TRUE].elsewhere = tab[t].elsewhere
         /\ [tab[t] EXCEPT !.failed = TRUE].command = tab[t].command
         /\ \A s \in CommandProgress, b \in BOOLEAN :
               /\ [tab[t] EXCEPT !.status = s, !.failed = b] \in TabState
               /\ [tab[t] EXCEPT !.status = s, !.failed = b].holds = tab[t].holds
               /\ [tab[t] EXCEPT !.status = s, !.failed = b].elsewhere = tab[t].elsewhere
               /\ [tab[t] EXCEPT !.status = s, !.failed = b].command = tab[t].command
         /\ [tab[t] EXCEPT !.status = "approved", !.exchange = "sent"] \in TabState
         /\ [tab[t] EXCEPT !.status = "approved", !.exchange = "sent"].holds = tab[t].holds
         /\ [tab[t] EXCEPT !.status = "approved", !.exchange = "sent"].elsewhere = tab[t].elsewhere
         /\ [tab[t] EXCEPT !.status = "approved", !.exchange = "sent"].command = tab[t].command
         /\ tab[t] \in TabState
<1> DEFINE q == tab[t]
<1>1. q \in TabState
  BY SessionParts
<1> HIDE DEF q
<1>2. /\ \A x \in {"idle", "sent", "failed"} :
            /\ [q EXCEPT !.exchange = x] \in TabState
            /\ [q EXCEPT !.exchange = x].holds = q.holds
            /\ [q EXCEPT !.exchange = x].elsewhere = q.elsewhere
            /\ [q EXCEPT !.exchange = x].command = q.command
      /\ [q EXCEPT !.failed = TRUE] \in TabState
      /\ [q EXCEPT !.failed = TRUE].holds = q.holds
      /\ [q EXCEPT !.failed = TRUE].elsewhere = q.elsewhere
      /\ [q EXCEPT !.failed = TRUE].command = q.command
  BY <1>1 DEF TabState
<1>3. \A s \in CommandProgress, b \in BOOLEAN :
            /\ [q EXCEPT !.status = s, !.failed = b] \in TabState
            /\ [q EXCEPT !.status = s, !.failed = b].holds = q.holds
            /\ [q EXCEPT !.status = s, !.failed = b].elsewhere = q.elsewhere
            /\ [q EXCEPT !.status = s, !.failed = b].command = q.command
  BY <1>1 DEF TabState
<1>4. /\ [q EXCEPT !.status = "approved", !.exchange = "sent"] \in TabState
      /\ [q EXCEPT !.status = "approved", !.exchange = "sent"].holds = q.holds
      /\ [q EXCEPT !.status = "approved", !.exchange = "sent"].elsewhere = q.elsewhere
      /\ [q EXCEPT !.status = "approved", !.exchange = "sent"].command = q.command
  BY <1>1 DEF TabState, CommandProgress
<1>5. QED
  BY <1>1, <1>2, <1>3, <1>4 DEF q

\* A status changes what the login page shows, or exchanges an approved command.
LEMMA TakeStatusKeeps ==
  ASSUME SessionInv, NEW r \in requests, Session!TakeStatus(r)
  PROVE  SessionInv'
<1>1. /\ r \in RequestState /\ r.tab \in Tab /\ r.arg \in DOMAIN command
           /\ r.answer \in CommandProgress
      /\ UNCHANGED <<Session!server, cookie>>
  BY DEF Session!TakeStatus, SessionInv, RequestFits, RequestState
<1>2. requests \ {r} \in SUBSET requests
  OBVIOUS
<1>3. CASE ~Session!Shown(r)
  <2>1. requests' = requests \ {r} /\ tab' = tab
    BY <1>3 DEF Session!TakeStatus
  <2>2. QED
    BY <1>1, <1>2, <2>1, PageAnswer, StateOfTab
<1>4. CASE Session!Shown(r) /\ r.answer = "approved"
  <2> DEFINE new == [tab[r.tab] EXCEPT !.status = "approved", !.exchange = "sent"]
  <2>1. /\ new \in TabState /\ new.holds = tab[r.tab].holds /\ new.command = tab[r.tab].command
        /\ new.elsewhere = tab[r.tab].elsewhere
    BY <1>1, StateOfTab
  <2>2. /\ tab' = [tab EXCEPT ![r.tab] = new]
        /\ requests' = (requests \ {r}) \union {Session!Request(r.tab, "exchange", r.arg)}
    BY <1>4 DEF Session!TakeStatus
  <2> HIDE DEF new
  <2>3. /\ tab' \in [Tab -> TabState] /\ UNCHANGED command
        /\ \A u \in Tab : /\ tab'[u].command \in {Session!NoCommand} \union DOMAIN command'
                          /\ KeepsClient(u)
    BY <1>1, <2>1, <2>2, Standing DEF Session!server, KeepsClient
  <2>4. "exchange" \in RequestKinds /\ r.arg \in Account \union Nat \union {Session!None}
    BY <1>1 DEF RequestKinds, RequestState
  <2>5. (\A q \in requests' : RequestFits(q)') /\ OneSeen'
    BY <1>1, <1>2, <2>2, <2>3, <2>4, SendKeeps
  <2>6. QED
    BY <1>1, <2>3, <2>5, Standing, ServerStays
<1>5. CASE Session!Shown(r) /\ r.answer # "approved"
  <2> DEFINE b == r.answer # "pending"
             new == [tab[r.tab] EXCEPT !.status = r.answer, !.failed = b]
  <2>2. /\ tab' = [tab EXCEPT ![r.tab] = new]
        /\ requests' = requests \ {r}
    BY <1>5 DEF Session!TakeStatus
  <2>b. b \in BOOLEAN
    OBVIOUS
  <2> HIDE DEF b
  <2>1. /\ new \in TabState /\ new.holds = tab[r.tab].holds /\ new.command = tab[r.tab].command
        /\ new.elsewhere = tab[r.tab].elsewhere
    BY <1>1, <2>b, StateOfTab, Zenon
  <2> HIDE DEF new
  <2>3. QED
    BY <1>1, <1>2, <2>1, <2>2, PageAnswer
<1>6. QED
  BY <1>3, <1>4, <1>5

\* An error changes what the login page shows.
LEMMA TakeErrorKeeps ==
  ASSUME SessionInv, NEW r \in requests, Session!TakeError(r)
  PROVE  SessionInv'
<1>1. /\ r.tab \in Tab /\ UNCHANGED <<Session!server, cookie>>
      /\ requests' = requests \ {r} /\ requests \ {r} \in SUBSET requests
  BY DEF Session!TakeError, SessionInv, RequestFits, RequestState
<1> DEFINE new == [tab[r.tab] EXCEPT !.exchange = "failed"]
<1>2. /\ new \in TabState /\ new.holds = tab[r.tab].holds /\ new.command = tab[r.tab].command
      /\ new.elsewhere = tab[r.tab].elsewhere
  BY <1>1, StateOfTab
<1>3. tab' = [tab EXCEPT ![r.tab] = new] \/ tab' = tab
  BY DEF Session!TakeError
<1> HIDE DEF new
<1>4. QED
  BY <1>1, <1>2, <1>3, PageAnswer

\* A lost request changes what the login page shows.
LEMMA LoseKeeps ==
  ASSUME SessionInv, NEW r \in requests, Session!Lose(r)
  PROVE  SessionInv'
<1>1. /\ r.tab \in Tab /\ UNCHANGED <<Session!server, cookie>>
      /\ requests' = requests \ {r} /\ requests \ {r} \in SUBSET requests
  BY DEF Session!Lose, SessionInv, RequestFits, RequestState
<1> DEFINE new == [tab[r.tab] EXCEPT !.exchange = "failed"]
           new2 == [tab[r.tab] EXCEPT !.failed = TRUE]
<1>2. /\ /\ new \in TabState /\ new.holds = tab[r.tab].holds /\ new.command = tab[r.tab].command
      /\ new.elsewhere = tab[r.tab].elsewhere
      /\ new2 \in TabState /\ new2.holds = tab[r.tab].holds /\ new2.command = tab[r.tab].command
      /\ new2.elsewhere = tab[r.tab].elsewhere
  BY <1>1, StateOfTab
<1>3. \/ tab' = [tab EXCEPT ![r.tab] = new]
      \/ tab' = [tab EXCEPT ![r.tab] = new2]
      \/ tab' = tab
  BY DEF Session!Lose
<1> HIDE DEF new, new2
<1>4. QED
  BY <1>1, <1>2, <1>3, PageAnswer

\* Every step keeps the invariant.
LEMMA SessionStep ==
  ASSUME SessionInv, [Session!Next]_(Session!vars)
  PROVE  SessionInv'
<1>1. CASE UNCHANGED Session!vars
  <2>1. UNCHANGED <<owner, sess, command, cookie, tab, requests>>
    BY <1>1 DEF Session!vars, Session!server
  <2>2. (\A u \in Tab : KeepsClient(u)) /\ OnlyEnd
    BY <2>1 DEF KeepsClient, OnlyEnd
  <2>3. (\A r \in requests : RequestFits(r))' /\ OneSeen'
    BY <2>1, <2>2, RequestsStay
  <2>4. QED
    BY <2>1, <2>3, Standing, Shape
<1>2. CASE \E u \in Tab : \/ Session!Read(u) \/ Session!AskLogout(u) \/ Session!Poll(u)
                          \/ \E a \in Account : Session!AskLink(u, a) \/ Session!AskVerify(u, a)
  BY <1>2, SendSteps
<1>3. CASE \E u \in Tab : Session!AskCommand(u) \/ Session!Restart(u) \/ Session!Navigate(u)
  BY <1>3, PageSteps
<1>4. CASE \E r \in requests : Session!Serve(r)
  BY <1>4, ServeVerifyKeeps, ServeStatusKeeps, ServeExchangeKeeps, ServeReadKeeps,
     ServeLogoutKeeps, ServeLinkKeeps DEF Session!Serve
<1>5. CASE \E r \in requests : Session!Take(r) \/ Session!Lose(r)
  BY <1>5, TakeSessionKeeps, TakeEndKeeps, TakeDataKeeps, TakeStatusKeeps,
     TakeErrorKeeps, LoseKeeps DEF Session!Take
<1>6. CASE \E c \in DOMAIN command : Session!ExpireCommand(c)
        \/ \E a \in Account : Session!Approve(c, a)
  BY <1>6, CommandSteps
<1>7. CASE \E n \in DOMAIN sess : Session!EndSession(n)
  BY <1>7, EndSessionKeeps
<1>8. QED
  BY <1>1, <1>2, <1>3, <1>4, <1>5, <1>6, <1>7 DEF Session!Next

\* The invariant holds for every set of accounts and tabs, and every number of
\* sessions, login commands and requests.
THEOREM SessionInvariance == Session!Spec => []SessionInv
<1>1. Session!Init => SessionInv
  BY SessionStarts
<1>2. SessionInv /\ [Session!Next]_(Session!vars) => SessionInv'
  BY SessionStep
<1>3. QED
  BY <1>1, <1>2, PTL DEF Session!Spec

\* However logins, links, navigations, tabs and late answers interleave, a tab's
\* client holds data of two accounts only after somebody logged in in another tab
\* (App.tsx 54-81, 96-100 and 187-191).
THEOREM OneAccount == Session!Spec => []OneAccountPerClient
<1>1. SessionInv => OneAccountPerClient
  BY DEF SessionInv, OneSeen, OneIn, Belongs, Seen, OneAccountPerClient,
     Session!OneAccountPerClient
<1>2. QED
  BY <1>1, SessionInvariance, PTL

================================================================================
