--------------------------- MODULE NotificationProofs --------------------------
(******************************************************************************)
(* Theorems about NotificationDelivery, for every number of events, sweeps,   *)
(* attempts and redrives (BoundsAssumption); the last part of the module has  *)
(* those about RecycleBin.                                                    *)
(*                                                                            *)
(* The argument: no two sweeps work on the same claim (ClaimsDiffer), because *)
(* each claim of a row takes a token no claim has yet (TokensUsed). What was  *)
(* claimed and not sent yet was paid for by a try, and so was every message   *)
(* (TriesPaid); a try is given back only with the claim it paid for. The row  *)
(* counts its tries as they are spent (AttemptsCount), so that an event       *)
(* causes no more messages than tries were granted, whoever sends them.       *)
(******************************************************************************)
EXTENDS Background, FiniteSetTheorems, SequenceTheorems, TLAPS

--------------------------------------------------------------------------------
(* The inductive invariant *)

Working == {"load", "send", "ack"}

\* The claims a sweep has not sent yet.
Waits(s, claim) ==
    \E n \in DOMAIN sweeper[s].claims :
        /\ sweeper[s].claims[n] = claim
        /\ n > 1 \/ sweeper[s].pc \in {"load", "send"}

\* The tokens under which a message for e may still go out.
Pending(e) ==
    {t \in Nat : \E s \in Sweeper : Waits(s, [event |-> e, token |-> t])}

\* A sweep works on claims, and acknowledges a result.
ClaimsInWork ==
    \A s \in Sweeper :
        /\ sweeper[s].pc \in Working <=> sweeper[s].claims # <<>>
        /\ sweeper[s].pc = "ack" => sweeper[s].result # "none"

\* Only events that are written have rows, and a row says one thing.
RowsAgree ==
    \A e \in Event :
        /\ delivery[e].status # "none" => event[e] = "written"
        /\ delivery[e].status \in {"none", "claimed"} =>
               delivery[e].disposition = "none" /\ delivery[e].error = "none"
        /\ delivery[e].status = "failed" => delivery[e].disposition \in {"none", "given_up"}
        /\ delivery[e].status = "succeeded" => delivery[e].disposition \in Success
        /\ delivery[e].status = "claimed" => delivery[e].attempts >= 1
        /\ ~Settled(e) => delivery[e].attempts <= MaxAttempts

\* A row that may be claimed counts the tries that were spent.
AttemptsCount ==
    \A e \in Event :
        /\ spent[e] <= MaxAttempts
        /\ event[e] # "purged" /\ ~Settled(e) => spent[e] + 1 = NextAttempt(delivery[e])

\* A claim was made of an event that was written, with a token the row has used.
TokensUsed ==
    \A s \in Sweeper : \A n \in DOMAIN sweeper[s].claims :
        LET claim == sweeper[s].claims[n]
        IN  /\ event[claim.event] # "absent"
            /\ event[claim.event] = "written" => claim.token <= delivery[claim.event].token

\* No claim is in two hands, or twice in one.
ClaimsDiffer ==
    \A s, r \in Sweeper :
        \A m \in DOMAIN sweeper[s].claims, n \in DOMAIN sweeper[r].claims :
            sweeper[s].claims[m] = sweeper[r].claims[n] => s = r /\ m = n

\* What is to be acknowledged as sent was sent.
SentWasSent ==
    \A s \in Sweeper :
        sweeper[s].pc = "ack" /\ sweeper[s].result = "sent" => sends[Current(s).event] > 0

\* Every message, and every claim that may still become one, was paid for by a try.
TriesPaid ==
    \A e \in Event :
        /\ IsFiniteSet(Pending(e))
        /\ sends[e] + Cardinality(Pending(e)) <= MaxAttempts * redrives[e] + spent[e]

Delivering ==
    /\ ClaimsInWork /\ RowsAgree /\ AttemptsCount /\ TokensUsed
    /\ ClaimsDiffer /\ SentWasSent /\ TriesPaid

IInv == TypeOK /\ Delivering

--------------------------------------------------------------------------------
(* Rows and hands *)

\* The attempt a row would be claimed for, case by case.
LEMMA NextAttemptCases ==
  ASSUME NEW row \in Row
  PROVE  /\ NextAttempt(row) = IF row.error = "manual_redrive" THEN 1
                               ELSE IF row.error = "notification_deferred" THEN row.attempts
                               ELSE row.attempts + 1
         /\ NextAttempt(row) \in Nat
<1>1. row.attempts \in Nat
  BY DEF Row
<1>2. QED
  BY <1>1 DEF NextAttempt

\* What a claim makes of a row.
LEMMA EligibleNext ==
  ASSUME BoundsAssumption, IInv, NEW e \in Event, Eligible(e)
  PROVE  /\ ~Settled(e) /\ event[e] = "written"
         /\ NextAttempt(delivery[e]) \in 0..(MaxAttempts + 1)
         /\ NextAttempt(delivery[e]) = spent[e] + 1
<1>1. delivery[e] \in Row /\ delivery[e].attempts \in Nat
  BY DEF IInv, TypeOK, Row
<1>2. ~Settled(e) /\ event[e] = "written"
  BY DEF Eligible, Settled, Retrying
<1>3. delivery[e].attempts <= MaxAttempts
  BY <1>2 DEF IInv, Delivering, RowsAgree
<1>4. NextAttempt(delivery[e]) = spent[e] + 1
  BY <1>2 DEF IInv, Delivering, AttemptsCount
<1>5. QED
  BY <1>1, <1>2, <1>3, <1>4, NextAttemptCases DEF BoundsAssumption

\* What a sweep that works on something works on.
LEMMA InHand ==
  ASSUME IInv, NEW s \in Sweeper
  PROVE  /\ sweeper[s] \in SweeperState /\ sweeper[s].claims \in Seq(Claim)
         /\ sweeper[s].pc \in Working =>
                /\ sweeper[s].claims # <<>> /\ Len(sweeper[s].claims) \in Nat \ {0}
                /\ 1 \in DOMAIN sweeper[s].claims
                /\ Current(s) = sweeper[s].claims[1]
                /\ Current(s) \in Claim
                /\ Tail(sweeper[s].claims) \in Seq(Claim)
<1>1. sweeper[s] \in SweeperState /\ sweeper[s].claims \in Seq(Claim)
  BY DEF IInv, TypeOK, SweeperState
<1>2. sweeper[s].pc \in Working => sweeper[s].claims # <<>>
  BY DEF IInv, Delivering, ClaimsInWork
<1>3. QED
  BY <1>1, <1>2 DEF Current

\* How a sweep moves on: it acknowledges, takes the next claim or gives all up.
LEMMA SweeperTyped ==
  ASSUME IInv, NEW s \in Sweeper
  PROVE  /\ [sweeper EXCEPT ![s] = Idle] \in [Sweeper -> SweeperState]
         /\ [sweeper EXCEPT ![s].pc = "send"] \in [Sweeper -> SweeperState]
         /\ \A result \in Success \union Failure :
               Acknowledge(s, result) => sweeper' \in [Sweeper -> SweeperState]
         /\ sweeper[s].pc = "ack" /\ Advance(s) => sweeper' \in [Sweeper -> SweeperState]
<1>1. /\ sweeper \in [Sweeper -> SweeperState]
      /\ sweeper[s] \in SweeperState
  BY DEF IInv, TypeOK
<1>2. Idle \in SweeperState
  BY DEF Idle, SweeperState
<1>3. /\ [sweeper[s] EXCEPT !.pc = "send"] \in SweeperState
      /\ \A result \in Success \union Failure :
            [sweeper[s] EXCEPT !.pc = "ack", !.result = result] \in SweeperState
  BY <1>1 DEF SweeperState
<1>4. ASSUME NEW result \in Success \union Failure, Acknowledge(s, result)
      PROVE  sweeper' \in [Sweeper -> SweeperState]
  <2>1. [sweeper[s] EXCEPT !.pc = "ack", !.result = result] \in SweeperState
    BY <1>3
  <2>2. sweeper' = [sweeper EXCEPT ![s] =
                       [sweeper[s] EXCEPT !.pc = "ack", !.result = result]]
    BY <1>1, <1>4 DEF Acknowledge
  <2>3. QED
    BY <1>1, <2>1, <2>2
<1>5. ASSUME sweeper[s].pc = "ack", Advance(s)
      PROVE  sweeper' \in [Sweeper -> SweeperState]
  <2>1. Tail(sweeper[s].claims) \in Seq(Claim)
    BY <1>5, InHand DEF Working
  <2>2. [Idle EXCEPT !.pc = "load", !.claims = Tail(sweeper[s].claims)] \in SweeperState
    BY <2>1, <1>2 DEF SweeperState
  <2>3. QED
    BY <1>1, <1>2, <1>5, <2>2 DEF Advance
<1>6. QED
  BY <1>1, <1>2, <1>3, <1>4, <1>5

\* The effect of a claim on the rows: those handed out, and those that only ran out
\* of attempts.
RowsClaimed(handed, taken) ==
    /\ handed \subseteq taken
    /\ \A e \in taken : Eligible(e) /\ delivery'[e].token = delivery[e].token + 1
    /\ \A e \in handed :
          /\ NextAttempt(delivery[e]) <= MaxAttempts
          /\ delivery'[e] = [NoRow EXCEPT !.status = "claimed",
                                 !.token = delivery[e].token + 1,
                                 !.attempts = NextAttempt(delivery[e])]
          /\ spent'[e] = spent[e] + 1
    /\ \A e \in taken \ handed :
          delivery'[e] = Exhausted([NoRow EXCEPT !.status = "claimed",
                                        !.token = delivery[e].token + 1,
                                        !.attempts = NextAttempt(delivery[e])])
    /\ \A e \in Event \ taken : delivery'[e] = delivery[e]
    /\ \A e \in Event \ handed : spent'[e] = spent[e]
    /\ delivery' = [e \in Event |-> delivery'[e]]
    /\ spent' = [e \in Event |-> spent'[e]]

\* The effect of a claim on what the sweeps work on.
HandFilled(s, handed) ==
    /\ \A r \in Sweeper : r # s => sweeper'[r] = sweeper[r]
    /\ sweeper' = [sweeper EXCEPT ![s] = sweeper'[s]]
    /\ sweeper'[s].claims \in Seq(Claim)
    /\ \/ sweeper'[s] = Idle
       \/ /\ sweeper'[s] = [Idle EXCEPT !.pc = "load", !.claims = sweeper'[s].claims]
          /\ sweeper'[s].claims # <<>>
    /\ \A n \in DOMAIN sweeper'[s].claims :
          /\ sweeper'[s].claims[n].event \in handed
          /\ sweeper'[s].claims[n].token
                = delivery[sweeper'[s].claims[n].event].token + 1
    /\ \A m, n \in DOMAIN sweeper'[s].claims :
          sweeper'[s].claims[m] = sweeper'[s].claims[n] => m = n

\* A sweep that claims takes new tokens of eligible rows, one of each.
LEMMA ClaimEffect ==
  ASSUME BoundsAssumption, IInv, NEW s \in Sweeper, ClaimBatch(s)
  PROVE  \E handed \in SUBSET Event, taken \in SUBSET Event :
             RowsClaimed(handed, taken) /\ HandFilled(s, handed)
<1> DEFINE taken  == {e \in sweeper[s].batch : Eligible(e)}
<1> DEFINE handed == {e \in taken : NextAttempt(delivery[e]) <= MaxAttempts}
<1> DEFINE Claimed(row) == [NoRow EXCEPT !.status = "claimed", !.token = row.token + 1,
                                         !.attempts = NextAttempt(row)]
<1>1. /\ taken \in SUBSET Event /\ handed \in SUBSET Event /\ handed \subseteq taken
      /\ sweeper \in [Sweeper -> SweeperState] /\ sweeper[s] \in SweeperState
      /\ \A e \in Event : delivery[e] \in Row
  BY DEF IInv, TypeOK, SweeperState
<1>2. /\ delivery' = [e \in Event |->
            IF e \in handed THEN Claimed(delivery[e])
            ELSE IF e \in taken THEN Exhausted(Claimed(delivery[e]))
            ELSE delivery[e]]
      /\ spent' = [e \in Event |-> IF e \in handed THEN spent[e] + 1 ELSE spent[e]]
  BY DEF ClaimBatch
<1>3. PICK order \in [1..Cardinality(handed) -> handed] :
         /\ \A m, n \in DOMAIN order : m < n => order[m] < order[n]
         /\ sweeper' = [sweeper EXCEPT ![s] =
                IF handed = {} THEN Idle
                ELSE [Idle EXCEPT !.pc = "load",
                         !.claims = [n \in DOMAIN order |->
                             [event |-> order[n], token |-> delivery[order[n]].token + 1]]]]
  BY DEF ClaimBatch
<1>4. IsFiniteSet(Event) /\ IsFiniteSet(handed)
  <2>1. IsFiniteSet(Event)
    BY FS_Interval DEF Event, BoundsAssumption
  <2>2. QED
    BY <1>1, <2>1, FS_Subset
<1>5. /\ Cardinality(handed) \in Nat
      /\ handed # {} => Cardinality(handed) # 0
  BY <1>4, FS_CardinalityType, FS_EmptySet
<1> DEFINE claims == [n \in 1..Cardinality(handed) |->
                         [event |-> order[n], token |-> delivery[order[n]].token + 1]]
<1>6. \A n \in 1..Cardinality(handed) :
         order[n] \in handed /\ order[n] \in Event /\ claims[n] \in Claim
  BY <1>1, <1>3 DEF Claim, Row
<1>7. claims \in Seq(Claim) /\ DOMAIN claims = 1..Cardinality(handed)
  <2> HIDE DEF handed
  <2>1. QED
    BY <1>5, <1>6
<1>8. \A e \in handed :
         /\ NextAttempt(delivery[e]) <= MaxAttempts
         /\ delivery'[e] = Claimed(delivery[e])
         /\ spent'[e] = spent[e] + 1
  BY <1>1, <1>2
<1>9. \A e \in taken \ handed : delivery'[e] = Exhausted(Claimed(delivery[e]))
  <2> HIDE DEF handed, taken, Claimed
  <2>1. QED
    BY <1>1, <1>2
<1>10. /\ \A e \in Event \ taken : delivery'[e] = delivery[e]
       /\ \A e \in Event \ handed : spent'[e] = spent[e]
       /\ delivery' = [e \in Event |-> delivery'[e]]
       /\ spent' = [e \in Event |-> spent'[e]]
  <2> HIDE DEF handed, taken
  <2>1. QED
    BY <1>1, <1>2
<1>11. \A e \in taken : Eligible(e) /\ delivery'[e].token = delivery[e].token + 1
  <2>1. \A e \in taken : Eligible(e)
    OBVIOUS
  <2>2. \A e \in Event :
           /\ Claimed(delivery[e]).token = delivery[e].token + 1
           /\ Exhausted(Claimed(delivery[e])).token = delivery[e].token + 1
    BY DEF NoRow, Exhausted
  <2> HIDE DEF handed, taken, Claimed
  <2>3. QED
    BY <1>1, <2>1, <2>2, <1>8, <1>9
<1>12. /\ \A r \in Sweeper : r # s => sweeper'[r] = sweeper[r]
       /\ sweeper' = [sweeper EXCEPT ![s] = sweeper'[s]]
       /\ sweeper'[s] = IF handed = {} THEN Idle
                        ELSE [Idle EXCEPT !.pc = "load", !.claims = claims]
  <2> HIDE DEF handed, taken
  <2>1. DOMAIN order = 1..Cardinality(handed)
    BY <1>3
  <2>2. QED
    BY <1>1, <1>3, <2>1
<1>12a. RowsClaimed(handed, taken)
  <2> HIDE DEF handed, taken
  <2>1. QED
    BY <1>1, <1>8, <1>9, <1>10, <1>11 DEF RowsClaimed
<1> HIDE DEF handed, taken
<1>13. CASE handed = {}
  <2>1. sweeper'[s] = Idle /\ sweeper'[s].claims = <<>>
    BY <1>12, <1>13 DEF Idle
  <2>2. <<>> \in Seq(Claim) /\ DOMAIN <<>> = {}
    OBVIOUS
  <2>3. QED
    BY <1>1, <1>12, <1>12a, <2>1, <2>2 DEF HandFilled
<1>14. CASE handed # {}
  <2>1. sweeper'[s] = [Idle EXCEPT !.pc = "load", !.claims = claims]
        /\ sweeper'[s].claims = claims
    BY <1>12, <1>14 DEF Idle
  <2>2. claims # <<>>
    BY <1>5, <1>7, <1>14
  <2>3. \A n \in DOMAIN claims :
           claims[n].event \in handed /\ claims[n].token = delivery[claims[n].event].token + 1
    BY <1>6, <1>7
  <2>4. \A m, n \in DOMAIN claims : claims[m] = claims[n] => m = n
    <3>1. \A m, n \in 1..Cardinality(handed) : order[m] = order[n] => m = n
      <4>1. \A m \in 1..Cardinality(handed) : order[m] \in Nat
        BY <1>6, Event \subseteq Nat DEF Event
      <4>2. DOMAIN order = 1..Cardinality(handed)
        BY <1>3
      <4>3. QED
        BY <1>3, <1>5, <4>1, <4>2
    <3>2. \A n \in 1..Cardinality(handed) : claims[n].event = order[n]
      OBVIOUS
    <3>3. QED
      BY <1>7, <3>1, <3>2
  <2> HIDE DEF claims
  <2>5. QED
    BY <1>1, <1>7, <1>12, <1>12a, <2>1, <2>2, <2>3, <2>4 DEF HandFilled
<1>15. QED
  BY <1>13, <1>14

--------------------------------------------------------------------------------
(* Types *)

\* The initial states satisfy the invariant.
LEMMA InitInv == BoundsAssumption /\ Init => IInv
<1> SUFFICES ASSUME BoundsAssumption, Init PROVE IInv
  OBVIOUS
<1>1. TypeOK
  <2>1. NoRow \in Row /\ Idle \in SweeperState
    BY DEF NoRow, Row, Idle, SweeperState, BoundsAssumption
  <2>2. /\ delivery \in [Event -> Row] /\ sweeper \in [Sweeper -> SweeperState]
        /\ mishaps \in 0..MaxMishaps
    BY <2>1 DEF Init, BoundsAssumption
  <2>3. QED
    BY <2>2 DEF Init, TypeOK
<1>2. ClaimsInWork /\ TokensUsed /\ ClaimsDiffer /\ SentWasSent
  BY DEF Init, ClaimsInWork, TokensUsed, ClaimsDiffer, SentWasSent, Idle, Working
<1>3. \A e \in Event : delivery[e] = NoRow
  BY DEF Init
<1>4. RowsAgree /\ AttemptsCount
  BY <1>3 DEF Init, RowsAgree, AttemptsCount, NoRow, NextAttempt, Settled, BoundsAssumption
<1>5. TriesPaid
  <2>1. \A e \in Event : Pending(e) = {}
    BY DEF Init, Pending, Waits, Idle
  <2>2. QED
    BY <2>1, FS_EmptySet DEF Init, TriesPaid, BoundsAssumption
<1>6. QED
  BY <1>1, <1>2, <1>4, <1>5 DEF IInv, Delivering

\* A row that somebody holds or gives back stays a row.
LEMMA RowTyped ==
  ASSUME BoundsAssumption, NEW row \in Row
  PROVE  /\ \A x \in {"succeeded"}, d \in Success :
               [row EXCEPT !.status = x, !.disposition = d, !.stale = FALSE] \in Row
         /\ \A d \in {"none", "given_up"}, x \in {"retry_exhausted", "failure"} :
               [row EXCEPT !.status = "failed", !.disposition = d, !.error = x,
                           !.stale = FALSE] \in Row
         /\ [row EXCEPT !.status = "failed", !.stale = FALSE, !.due = TRUE,
                        !.error = "notification_deferred"] \in Row
         /\ [row EXCEPT !.disposition = "none", !.due = TRUE, !.attempts = 1,
                        !.error = "manual_redrive"] \in Row
         /\ [row EXCEPT !.stale = TRUE] \in Row
         /\ [row EXCEPT !.due = TRUE] \in Row
         /\ Exhausted(row) \in Row
         /\ NoRow \in Row
<1>1. 1 \in 0..(MaxAttempts + 1) /\ 0 \in 0..(MaxAttempts + 1)
  BY DEF BoundsAssumption
<1>2. NoRow \in Row
  BY <1>1 DEF NoRow, Row
<1>3. /\ [row EXCEPT !.stale = TRUE] \in Row
      /\ [row EXCEPT !.due = TRUE] \in Row
  BY DEF Row
<1>4. /\ [row EXCEPT !.status = "failed", !.stale = FALSE, !.due = TRUE,
                     !.error = "notification_deferred"] \in Row
      /\ [row EXCEPT !.disposition = "none", !.due = TRUE, !.attempts = 1,
                     !.error = "manual_redrive"] \in Row
  BY <1>1 DEF Row
<1>5. Exhausted(row) \in Row
  BY DEF Row, Exhausted
<1>6. \A d \in {"none", "given_up"}, x \in {"retry_exhausted", "failure"} :
         [row EXCEPT !.status = "failed", !.disposition = d, !.error = x,
                     !.stale = FALSE] \in Row
  BY DEF Row
<1>7. \A x \in {"succeeded"}, d \in Success :
         [row EXCEPT !.status = x, !.disposition = d, !.stale = FALSE] \in Row
  BY DEF Row
<1>8. QED
  BY <1>2, <1>3, <1>4, <1>5, <1>6, <1>7

\* What a sweep gives back, it had paid for.
LEMMA HeldIsPaid ==
  ASSUME BoundsAssumption, IInv, NEW e \in Event, delivery[e].status = "claimed"
  PROVE  spent[e] \in Nat /\ spent[e] >= 1 /\ spent[e] = delivery[e].attempts
         /\ event[e] = "written" /\ ~Settled(e)
<1>1. delivery[e] \in Row /\ delivery[e].attempts \in Nat /\ spent[e] \in Nat
  BY DEF IInv, TypeOK, Row
<1>2. /\ delivery[e].disposition = "none" /\ delivery[e].error = "none"
      /\ delivery[e].attempts >= 1 /\ event[e] = "written" /\ ~Settled(e)
  BY DEF IInv, Delivering, RowsAgree, Settled
<1>3. spent[e] + 1 = delivery[e].attempts + 1
  BY <1>1, <1>2, NextAttemptCases DEF IInv, Delivering, AttemptsCount
<1>4. QED
  BY <1>1, <1>2, <1>3

\* A claimed row and its counter of tries.
LEMMA ClaimTyped ==
  ASSUME BoundsAssumption, IInv, NEW s \in Sweeper, ClaimBatch(s)
  PROVE  /\ delivery' \in [Event -> Row] /\ spent' \in [Event -> Nat]
         /\ sweeper' \in [Sweeper -> SweeperState]
<1>1. PICK handed \in SUBSET Event, taken \in SUBSET Event :
         RowsClaimed(handed, taken) /\ HandFilled(s, handed)
  BY ClaimEffect
<1>2. \A e \in taken : [NoRow EXCEPT !.status = "claimed", !.token = delivery[e].token + 1,
                                     !.attempts = NextAttempt(delivery[e])] \in Row
  <2> SUFFICES ASSUME NEW e \in taken
               PROVE  [NoRow EXCEPT !.status = "claimed", !.token = delivery[e].token + 1,
                                    !.attempts = NextAttempt(delivery[e])] \in Row
    OBVIOUS
  <2>1. NextAttempt(delivery[e]) \in 0..(MaxAttempts + 1)
    BY <1>1, EligibleNext DEF RowsClaimed
  <2>2. delivery[e].token + 1 \in Nat
    BY DEF IInv, TypeOK, Row
  <2>3. QED
    BY <2>1, <2>2 DEF NoRow, Row
<1>3. \A e \in Event : delivery'[e] \in Row
  <2> SUFFICES ASSUME NEW e \in Event PROVE delivery'[e] \in Row
    OBVIOUS
  <2>1. CASE e \in handed
    BY <1>1, <1>2, <2>1 DEF RowsClaimed
  <2>2. CASE e \in taken \ handed
    BY <1>1, <1>2, <2>2, RowTyped DEF RowsClaimed
  <2>3. CASE e \notin taken
    BY <1>1, <2>3 DEF RowsClaimed, IInv, TypeOK
  <2>4. QED
    BY <2>1, <2>2, <2>3
<1>4. \A e \in Event : spent'[e] \in Nat
  <2>1. spent \in [Event -> Nat]
    BY DEF IInv, TypeOK
  <2>2. \A e \in Event : spent'[e] = spent[e] \/ spent'[e] = spent[e] + 1
    BY <1>1 DEF RowsClaimed
  <2>3. QED
    BY <2>1, <2>2
<1>5. sweeper'[s] \in SweeperState
  <2>1. Idle \in SweeperState
    BY DEF Idle, SweeperState
  <2>2. ASSUME NEW c \in Seq(Claim)
        PROVE  [Idle EXCEPT !.pc = "load", !.claims = c] \in SweeperState
    BY DEF Idle, SweeperState
  <2>3. QED
    BY <1>1, <2>1, <2>2 DEF HandFilled
<1>6. delivery' \in [Event -> Row] /\ spent' \in [Event -> Nat]
  BY <1>1, <1>3, <1>4 DEF RowsClaimed
<1>7. sweeper' \in [Sweeper -> SweeperState]
  <2>1. sweeper \in [Sweeper -> SweeperState]
    BY DEF IInv, TypeOK
  <2>2. sweeper' = [sweeper EXCEPT ![s] = sweeper'[s]]
    BY <1>1 DEF HandFilled
  <2>3. QED
    BY <1>5, <2>1, <2>2
<1>8. QED
  BY <1>6, <1>7

\* Every step keeps the types.
LEMMA TypesKept ==
  ASSUME BoundsAssumption, IInv, [Next]_vars
  PROVE  TypeOK'
<1>1. /\ event \in [Event -> {"absent", "written", "purged"}]
      /\ target \in [Event -> {"reachable", "contradictory"} \union Skip]
      /\ delivery \in [Event -> Row] /\ \A e \in Event : delivery[e] \in Row
      /\ sweeper \in [Sweeper -> SweeperState]
      /\ sends \in [Event -> Nat] /\ spent \in [Event -> Nat] /\ redrives \in [Event -> Nat]
      /\ mishaps \in 0..MaxMishaps
  BY DEF IInv, TypeOK
<1>2. Mishap => mishaps' \in 0..MaxMishaps
  BY <1>1 DEF Mishap, BoundsAssumption
<1>3. \A s \in Sweeper : sweeper[s].pc \in Working => Current(s).event \in Event
  BY InHand DEF Claim
<1>4. ASSUME NEW s \in Sweeper, SweepStep(s) PROVE TypeOK'
  <2>1. CASE Scan(s)
    <3>1. \A B \in SUBSET Event :
             [sweeper[s] EXCEPT !.pc = "claim", !.batch = B] \in SweeperState
      BY <1>1 DEF SweeperState
    <3>2. \E B \in SUBSET Event :
             sweeper' = [sweeper EXCEPT ![s].pc = "claim", ![s].batch = B]
      BY <2>1 DEF Scan
    <3>3. sweeper' \in [Sweeper -> SweeperState]
      BY <1>1, <3>1, <3>2
    <3>4. QED
      BY <1>1, <2>1, <3>3 DEF TypeOK, Scan
  <2>2. CASE ClaimBatch(s)
    BY <1>1, <2>2, ClaimTyped DEF TypeOK, ClaimBatch
  <2>3. CASE LoadTarget(s)
    <3>1. \/ sweeper' = [sweeper EXCEPT ![s].pc = "send"]
          \/ \E result \in Success \union Failure : Acknowledge(s, result)
      BY <2>3 DEF LoadTarget, Success, Skip, Failure
    <3>2. QED
      BY <1>1, <2>3, <3>1, SweeperTyped DEF TypeOK, LoadTarget
  <2>4. CASE SendMessage(s)
    <3>1. \E answer \in DOMAIN Verdict :
             /\ sends' = IF answer \in Unsent THEN sends
                         ELSE [sends EXCEPT ![Current(s).event] = @ + 1]
             /\ Acknowledge(s, Verdict[answer])
      BY <2>4 DEF SendMessage
    <3>2. \A answer \in DOMAIN Verdict : Verdict[answer] \in Success \union Failure
      BY DEF Verdict, Success, Failure
    <3>3. sends' \in [Event -> Nat]
      <4>1. CASE sends' = [sends EXCEPT ![Current(s).event] = @ + 1]
        <5>1. Current(s).event \in Event
          BY <1>3, <2>4 DEF SendMessage, Working
        <5>2. sends[Current(s).event] + 1 \in Nat
          BY <1>1, <5>1
        <5>3. QED
          BY <1>1, <4>1, <5>1, <5>2
      <4>2. QED
        BY <1>1, <3>1, <4>1
    <3>4. sweeper' \in [Sweeper -> SweeperState]
      BY <3>1, <3>2, SweeperTyped
    <3>5. QED
      BY <1>1, <2>4, <3>3, <3>4 DEF TypeOK, SendMessage
  <2>5. CASE AckSucceeded(s)
    <3>1. delivery' \in [Event -> Row]
      BY <1>1, <1>3, <2>5, RowTyped DEF AckSucceeded, Working
    <3>2. QED
      BY <1>1, <2>5, <3>1, SweeperTyped DEF TypeOK, AckSucceeded
  <2>6. CASE AckFailure(s)
    <3>1. \/ delivery' = delivery
          \/ \E d \in {"none", "given_up"}, x \in {"retry_exhausted", "failure"} :
                delivery' = [delivery EXCEPT ![Current(s).event] =
                                [@ EXCEPT !.status = "failed", !.disposition = d,
                                          !.error = x, !.stale = FALSE]]
      BY <2>6 DEF AckFailure
    <3>2. delivery' \in [Event -> Row]
      BY <1>1, <1>3, <2>6, <3>1, RowTyped DEF AckFailure, Working
    <3>3. QED
      BY <1>1, <2>6, <3>2, SweeperTyped DEF TypeOK, AckFailure
  <2>7. QED
    BY <1>4, <2>1, <2>2, <2>3, <2>4, <2>5, <2>6 DEF SweepStep
<1>5. ASSUME NEW s \in Sweeper, SweepMishap(s) PROVE TypeOK'
  <2>1. CASE LoadRaises(s)
    <3>1. sweeper' \in [Sweeper -> SweeperState]
      BY <2>1, SweeperTyped DEF LoadRaises, Failure
    <3>2. QED
      BY <1>1, <1>2, <2>1, <3>1 DEF TypeOK, LoadRaises
  <2>2. CASE AckRaises(s)
    <3>1. sweeper' \in [Sweeper -> SweeperState]
      BY <2>2, SweeperTyped DEF AckRaises, Failure
    <3>2. QED
      BY <1>1, <1>2, <2>2, <3>1 DEF TypeOK, AckRaises
  <2>3. CASE AckTooLate(s)
    BY <1>1, <1>2, <2>3, SweeperTyped DEF TypeOK, AckTooLate
  <2>4. CASE DeferUnsent(s)
    <3> DEFINE held == {e \in Event : \E n \in DOMAIN sweeper[s].claims :
                           /\ sweeper[s].claims[n].event = e
                           /\ Holds(sweeper[s].claims[n])}
    <3>1. /\ delivery' = [e \in Event |->
                IF e \notin held THEN delivery[e]
                ELSE [delivery[e] EXCEPT !.status = "failed", !.stale = FALSE,
                         !.due = TRUE, !.error = "notification_deferred"]]
          /\ spent' = [e \in Event |-> IF e \in held THEN spent[e] - 1 ELSE spent[e]]
          /\ sweeper' = [sweeper EXCEPT ![s] = Idle]
      BY <2>4 DEF DeferUnsent
    <3>2. \A e \in held : spent[e] - 1 \in Nat
      BY HeldIsPaid DEF Holds
    <3> HIDE DEF held
    <3>3. delivery' \in [Event -> Row]
      BY <1>1, <3>1, RowTyped
    <3>4. spent' \in [Event -> Nat]
      BY <1>1, <3>1, <3>2
    <3>5. sweeper' \in [Sweeper -> SweeperState]
      BY <3>1, SweeperTyped
    <3>6. Mishap /\ UNCHANGED <<event, target, sends, redrives>>
      BY <2>4 DEF DeferUnsent
    <3>7. QED
      BY <1>1, <1>2, <3>3, <3>4, <3>5, <3>6 DEF TypeOK
  <2>5. CASE SweepEnds(s)
    BY <1>1, <1>2, <2>5, SweeperTyped DEF TypeOK, SweepEnds
  <2>6. QED
    BY <1>5, <2>1, <2>2, <2>3, <2>4, <2>5 DEF SweepMishap
<1>6. ASSUME NEW e \in Event,
             \/ LeaseExpires(e) \/ BackoffElapses(e) \/ RedriveFailed(e)
             \/ WriteEvent(e) \/ TargetChanges(e) \/ PurgeEvent(e)
      PROVE  TypeOK'
  <2>1. CASE LeaseExpires(e)
    <3>1. delivery' = [delivery EXCEPT ![e] = [delivery[e] EXCEPT !.stale = TRUE]]
      BY <1>1, <2>1 DEF LeaseExpires
    <3>2. delivery' \in [Event -> Row]
      BY <1>1, <3>1, RowTyped
    <3>3. QED
      BY <1>1, <2>1, <3>2 DEF TypeOK, LeaseExpires
  <2>2. CASE BackoffElapses(e)
    <3>1. delivery' = [delivery EXCEPT ![e] = [delivery[e] EXCEPT !.due = TRUE]]
      BY <1>1, <2>2 DEF BackoffElapses
    <3>2. delivery' \in [Event -> Row]
      BY <1>1, <3>1, RowTyped
    <3>3. QED
      BY <1>1, <2>2, <3>2 DEF TypeOK, BackoffElapses
  <2>3. CASE RedriveFailed(e)
    <3>1. delivery' \in [Event -> Row]
      BY <1>1, <2>3, RowTyped DEF RedriveFailed
    <3>2. redrives' \in [Event -> Nat] /\ spent' \in [Event -> Nat]
      <4>1. /\ redrives' = [redrives EXCEPT ![e] = redrives[e] + 1]
            /\ spent' = [spent EXCEPT ![e] = 0]
        BY <2>3 DEF RedriveFailed
      <4>2. QED
        BY <1>1, <4>1
    <3>3. QED
      BY <1>1, <2>3, <3>1, <3>2 DEF TypeOK, RedriveFailed
  <2>4. CASE WriteEvent(e)
    BY <1>1, <2>4 DEF TypeOK, WriteEvent, Skip
  <2>5. CASE TargetChanges(e)
    BY <1>1, <2>5 DEF TypeOK, TargetChanges, Skip
  <2>6. CASE PurgeEvent(e)
    BY <1>1, <2>6, RowTyped DEF TypeOK, PurgeEvent
  <2>7. QED
    BY <1>6, <2>1, <2>2, <2>3, <2>4, <2>5, <2>6
<1>7. CASE UNCHANGED vars
  BY <1>1, <1>7 DEF TypeOK, vars
<1>8. QED
  BY <1>4, <1>5, <1>6, <1>7 DEF Next

--------------------------------------------------------------------------------
(* What a sweep works on *)

\* A sweep keeps what it works on, takes the next claim of its batch or drops them all.
HandShrinks(s) ==
    /\ \A r \in Sweeper : r # s => sweeper'[r] = sweeper[r]
    /\ \/ sweeper'[s].claims = <<>> /\ sweeper'[s].pc \notin Working
       \/ /\ sweeper'[s].claims = sweeper[s].claims
          /\ sweeper[s].pc \in Working /\ sweeper'[s].pc \in Working
          /\ sweeper[s].pc = "ack" => sweeper'[s].pc = "ack"
          /\ sweeper'[s].pc = "ack" => sweeper'[s].result # "none"
       \/ /\ sweeper'[s].claims = Tail(sweeper[s].claims) /\ sweeper'[s].claims # <<>>
          /\ sweeper[s].pc = "ack" /\ sweeper'[s].pc = "load"

\* Giving all up, acknowledging and advancing are such steps.
LEMMA HandSteps ==
  ASSUME IInv, NEW s \in Sweeper
  PROVE  /\ sweeper' = [sweeper EXCEPT ![s] = Idle] => HandShrinks(s)
         /\ \A result \in Success \union Failure :
               sweeper[s].pc \in Working /\ Acknowledge(s, result) =>
                   /\ HandShrinks(s)
                   /\ sweeper'[s].pc = "ack" /\ sweeper'[s].result = result
                   /\ sweeper'[s].claims = sweeper[s].claims
         /\ sweeper[s].pc = "ack" /\ Advance(s) =>
                HandShrinks(s) /\ sweeper'[s].pc # "ack"
<1>1. sweeper \in [Sweeper -> SweeperState] /\ sweeper[s] \in SweeperState
  BY DEF IInv, TypeOK
<1>2. Idle.claims = <<>> /\ Idle.pc = "idle" /\ Idle.pc \notin Working
  BY DEF Idle, Working
<1>3. ASSUME sweeper' = [sweeper EXCEPT ![s] = Idle] PROVE HandShrinks(s)
  BY <1>1, <1>2, <1>3 DEF HandShrinks
<1>4. ASSUME NEW result \in Success \union Failure,
             sweeper[s].pc \in Working, Acknowledge(s, result)
      PROVE  /\ HandShrinks(s)
             /\ sweeper'[s].pc = "ack" /\ sweeper'[s].result = result
             /\ sweeper'[s].claims = sweeper[s].claims
  <2>1. /\ sweeper'[s].pc = "ack" /\ sweeper'[s].result = result
        /\ sweeper'[s].claims = sweeper[s].claims
        /\ \A r \in Sweeper : r # s => sweeper'[r] = sweeper[r]
    BY <1>1, <1>4 DEF Acknowledge, SweeperState
  <2>2. result # "none"
    BY DEF Success, Skip, Failure
  <2>3. QED
    BY <1>4, <2>1, <2>2 DEF HandShrinks, Working
<1>5. ASSUME sweeper[s].pc = "ack", Advance(s)
      PROVE  HandShrinks(s) /\ sweeper'[s].pc # "ack"
  <2>1. /\ Len(sweeper[s].claims) \in Nat \ {0}
        /\ sweeper[s].claims \in Seq(Claim)
    BY <1>5, InHand DEF Working
  <2>2. CASE Len(sweeper[s].claims) = 1
    <3>1. sweeper' = [sweeper EXCEPT ![s] = Idle]
      BY <1>1, <1>5, <2>2 DEF Advance
    <3>2. QED
      BY <1>1, <1>2, <1>3, <3>1
  <2>3. CASE Len(sweeper[s].claims) # 1
    <3>1. sweeper' = [sweeper EXCEPT ![s] =
                         [Idle EXCEPT !.pc = "load", !.claims = Tail(sweeper[s].claims)]]
      BY <1>1, <1>5, <2>3 DEF Advance
    <3>2. /\ sweeper'[s].claims = Tail(sweeper[s].claims) /\ sweeper'[s].pc = "load"
          /\ \A r \in Sweeper : r # s => sweeper'[r] = sweeper[r]
      BY <1>1, <3>1 DEF Idle
    <3>3. Tail(sweeper[s].claims) # <<>>
      <4>1. sweeper[s].claims # <<>>
        BY <1>5, InHand DEF Working
      <4>2. Len(Tail(sweeper[s].claims)) = Len(sweeper[s].claims) - 1
        BY <2>1, <4>1, HeadTailProperties
      <4>3. Len(sweeper[s].claims) - 1 # 0
        BY <2>1, <2>3
      <4>4. QED
        BY <4>2, <4>3, EmptySeq
    <3>4. QED
      BY <1>5, <3>2, <3>3 DEF HandShrinks
  <2>4. QED
    BY <2>2, <2>3
<1>6. QED
  BY <1>3, <1>4, <1>5

\* Each claim a shrinking hand still has is one it had, further on in the batch.
LEMMA HandFrom ==
  ASSUME IInv, NEW s \in Sweeper, HandShrinks(s), NEW r \in Sweeper
  PROVE  \E d \in {0, 1} : \A n \in DOMAIN sweeper'[r].claims :
             /\ n \in Nat \ {0}
             /\ n + d \in DOMAIN sweeper[r].claims
             /\ sweeper'[r].claims[n] = sweeper[r].claims[n + d]
             /\ n > 1 \/ sweeper'[r].pc \in {"load", "send"} =>
                    n + d > 1 \/ sweeper[r].pc \in {"load", "send"}
<1>1. sweeper[r].claims \in Seq(Claim)
  BY InHand
<1>2. CASE r # s
  BY <1>1, <1>2 DEF HandShrinks
<1>3. CASE r = s /\ sweeper'[s].claims = <<>>
  BY <1>3
<1>4. CASE r = s /\ sweeper'[s].claims = sweeper[s].claims /\ sweeper[s].pc \in Working
           /\ (sweeper[s].pc = "ack" => sweeper'[s].pc = "ack")
  BY <1>1, <1>4 DEF Working
<1>5. CASE r = s /\ sweeper'[s].claims = Tail(sweeper[s].claims)
           /\ sweeper[s].pc = "ack"
  <2>1. sweeper[s].claims # <<>>
    BY <1>5, InHand DEF Working
  <2>2. \A n \in DOMAIN sweeper'[r].claims :
           /\ n \in Nat \ {0} /\ n + 1 \in DOMAIN sweeper[r].claims
           /\ sweeper'[r].claims[n] = sweeper[r].claims[n + 1]
           /\ n + 1 > 1
    BY <1>1, <1>5, <2>1
  <2>3. QED
    BY <2>2
<1>6. QED
  BY <1>2, <1>3, <1>4, <1>5 DEF HandShrinks

\* No claim gets into two hands, and no message becomes possible.
LEMMA HandKeeps ==
  ASSUME IInv, NEW s \in Sweeper, HandShrinks(s)
  PROVE  /\ ClaimsInWork' /\ ClaimsDiffer'
         /\ \A e \in Event : Pending(e)' \subseteq Pending(e)
<1>1. ClaimsInWork'
  BY DEF HandShrinks, IInv, Delivering, ClaimsInWork, Working
<1>2. ClaimsDiffer'
  <2> SUFFICES ASSUME NEW q \in Sweeper, NEW r \in Sweeper,
                      NEW m \in DOMAIN sweeper'[q].claims, NEW n \in DOMAIN sweeper'[r].claims,
                      sweeper'[q].claims[m] = sweeper'[r].claims[n]
               PROVE  q = r /\ m = n
    BY DEF ClaimsDiffer
  <2>1. PICK d \in {0, 1} : \A k \in DOMAIN sweeper'[q].claims :
           /\ k \in Nat \ {0} /\ k + d \in DOMAIN sweeper[q].claims
           /\ sweeper'[q].claims[k] = sweeper[q].claims[k + d]
    BY HandFrom
  <2>2. PICK f \in {0, 1} : \A k \in DOMAIN sweeper'[r].claims :
           /\ k \in Nat \ {0} /\ k + f \in DOMAIN sweeper[r].claims
           /\ sweeper'[r].claims[k] = sweeper[r].claims[k + f]
    BY HandFrom
  <2>3. q = r /\ m + d = n + f
    BY <2>1, <2>2 DEF IInv, Delivering, ClaimsDiffer
  <2>4. m + f \in DOMAIN sweeper[r].claims /\ sweeper'[r].claims[m] = sweeper[r].claims[m + f]
    BY <2>2, <2>3
  <2>5. m + d = m + f
    BY <2>1, <2>3, <2>4 DEF IInv, Delivering, ClaimsDiffer
  <2>6. QED
    BY <2>1, <2>2, <2>3, <2>5
<1>3. ASSUME NEW r \in Sweeper, NEW claim, Waits(r, claim)' PROVE Waits(r, claim)
  <2>1. PICK d \in {0, 1} : \A k \in DOMAIN sweeper'[r].claims :
           /\ k + d \in DOMAIN sweeper[r].claims
           /\ sweeper'[r].claims[k] = sweeper[r].claims[k + d]
           /\ k > 1 \/ sweeper'[r].pc \in {"load", "send"} =>
                  k + d > 1 \/ sweeper[r].pc \in {"load", "send"}
    BY HandFrom
  <2>2. QED
    BY <1>3, <2>1 DEF Waits
<1>4. QED
  BY <1>1, <1>2, <1>3 DEF Pending

\* What was paid for stays paid for when a hand shrinks.
LEMMA PaidKeeps ==
  ASSUME BoundsAssumption, IInv, \A e \in Event : Pending(e)' \subseteq Pending(e),
         UNCHANGED <<sends, spent, redrives>>
  PROVE  TriesPaid'
<1> SUFFICES ASSUME NEW e \in Event
             PROVE  /\ IsFiniteSet(Pending(e)')
                    /\ sends[e] + Cardinality(Pending(e)')
                          <= MaxAttempts * redrives[e] + spent[e]
  BY DEF TriesPaid
<1>1. /\ IsFiniteSet(Pending(e))
      /\ sends[e] + Cardinality(Pending(e)) <= MaxAttempts * redrives[e] + spent[e]
  BY DEF IInv, Delivering, TriesPaid
<1>2. IsFiniteSet(Pending(e)') /\ Cardinality(Pending(e)') <= Cardinality(Pending(e))
  BY <1>1, FS_Subset
<1>3. /\ Cardinality(Pending(e)) \in Nat /\ Cardinality(Pending(e)') \in Nat
      /\ sends[e] \in Nat /\ spent[e] \in Nat
      /\ MaxAttempts * redrives[e] \in Nat
  <2>1. MaxAttempts \in Nat /\ redrives[e] \in Nat
    BY DEF IInv, TypeOK, BoundsAssumption
  <2>2. \A a, b \in Nat : a * b \in Nat
    OBVIOUS
  <2>3. QED
    BY <1>1, <1>2, <2>1, <2>2, FS_CardinalityType DEF IInv, TypeOK
<1>4. QED
  BY <1>1, <1>2, <1>3

\* Claims keep to the tokens of a row, whatever else changes in it.
LEMMA TokensKeep ==
  ASSUME IInv, NEW s \in Sweeper, HandShrinks(s) \/ UNCHANGED sweeper,
         \A e \in Event :
             /\ event'[e] = "absent" => event[e] = "absent"
             /\ event[e] # "absent" /\ event'[e] = "written" =>
                    event[e] = "written" /\ delivery[e].token <= delivery'[e].token,
         \A e \in Event : delivery[e].token \in Nat /\ delivery'[e].token \in Nat
  PROVE  TokensUsed'
<1> SUFFICES ASSUME NEW r \in Sweeper, NEW n \in DOMAIN sweeper'[r].claims
             PROVE  LET claim == sweeper'[r].claims[n]
                    IN  /\ event'[claim.event] # "absent"
                        /\ event'[claim.event] = "written" =>
                               claim.token <= delivery'[claim.event].token
  BY DEF TokensUsed
<1>1. PICK m \in DOMAIN sweeper[r].claims : sweeper'[r].claims[n] = sweeper[r].claims[m]
  <2>1. CASE UNCHANGED sweeper
    BY <2>1
  <2>2. CASE HandShrinks(s)
    BY <2>2, HandFrom
  <2>3. QED
    BY <2>1, <2>2
<1> DEFINE claim == sweeper[r].claims[m]
<1>2. claim \in Claim /\ claim.event \in Event /\ claim.token \in Nat
  <2>1. sweeper[r].claims \in Seq(Claim)
    BY InHand
  <2>2. claim \in Claim
    BY <2>1
  <2>3. QED
    BY <2>2 DEF Claim
<1>3. /\ event[claim.event] # "absent"
      /\ event[claim.event] = "written" => claim.token <= delivery[claim.event].token
  BY DEF IInv, Delivering, TokensUsed
<1> HIDE DEF claim
<1>4. /\ event'[claim.event] # "absent"
      /\ event'[claim.event] = "written" => claim.token <= delivery'[claim.event].token
  BY <1>2, <1>3
<1>5. QED
  BY <1>1, <1>4 DEF claim

--------------------------------------------------------------------------------
(* Steps of a sweep *)

\* A sweep that leaves the rows alone keeps what they and the tries say.
LEMMA HandOnly ==
  ASSUME BoundsAssumption, IInv, NEW s \in Sweeper, HandShrinks(s),
         sweeper'[s].pc = "ack" /\ sweeper'[s].result = "sent" =>
             sends[Head(sweeper'[s].claims).event] > 0,
         UNCHANGED <<event, delivery, sends, spent, redrives>>
  PROVE  Delivering'
<1>1. ClaimsInWork' /\ ClaimsDiffer' /\ \A e \in Event : Pending(e)' \subseteq Pending(e)
  BY HandKeeps
<1>2. TriesPaid'
  BY <1>1, PaidKeeps
<1>3. RowsAgree' /\ AttemptsCount'
  BY DEF IInv, Delivering, RowsAgree, AttemptsCount, Settled
<1>4. TokensUsed'
  <2>1. \A e \in Event : delivery[e].token \in Nat /\ delivery'[e].token \in Nat
    BY DEF IInv, TypeOK, Row
  <2>2. QED
    BY <2>1, TokensKeep
<1>5. SentWasSent'
  BY DEF IInv, Delivering, SentWasSent, HandShrinks, Current
<1>6. QED
  BY <1>1, <1>2, <1>3, <1>4, <1>5 DEF Delivering

\* A sweep looks for work.
LEMMA ScanKeeps ==
  ASSUME BoundsAssumption, IInv, NEW s \in Sweeper, Scan(s)
  PROVE  Delivering'
<1>1. sweeper \in [Sweeper -> SweeperState] /\ sweeper[s] \in SweeperState
  BY DEF IInv, TypeOK
<1>2. /\ sweeper'[s].pc = "claim" /\ sweeper'[s].claims = sweeper[s].claims
      /\ \A r \in Sweeper : r # s => sweeper'[r] = sweeper[r]
  BY <1>1 DEF Scan, SweeperState
<1>3. sweeper[s].claims = <<>>
  BY DEF Scan, IInv, Delivering, ClaimsInWork, Working
<1>4. HandShrinks(s)
  BY <1>2, <1>3 DEF HandShrinks, Working
<1>5. QED
  BY <1>2, <1>4, HandOnly DEF Scan

\* A sweep reads what a message would say.
LEMMA LoadTargetKeeps ==
  ASSUME BoundsAssumption, IInv, NEW s \in Sweeper, LoadTarget(s)
  PROVE  Delivering'
<1>1. sweeper \in [Sweeper -> SweeperState] /\ sweeper[s] \in SweeperState
  BY DEF IInv, TypeOK
<1>2. CASE sweeper' = [sweeper EXCEPT ![s].pc = "send"]
  <2>1. /\ sweeper'[s].pc = "send" /\ sweeper'[s].claims = sweeper[s].claims
        /\ \A r \in Sweeper : r # s => sweeper'[r] = sweeper[r]
    BY <1>1, <1>2 DEF SweeperState
  <2>2. HandShrinks(s)
    BY <2>1 DEF HandShrinks, Working, LoadTarget
  <2>3. QED
    BY <2>1, <2>2, HandOnly DEF LoadTarget
<1>3. CASE \E result \in Skip \union {"terminal"} : Acknowledge(s, result)
  <2>1. PICK result \in Skip \union {"terminal"} : Acknowledge(s, result)
    BY <1>3
  <2>2. HandShrinks(s) /\ sweeper'[s].result # "sent"
    BY <2>1, HandSteps DEF LoadTarget, Working, Success, Skip, Failure
  <2>3. QED
    BY <2>2, HandOnly DEF LoadTarget
<1>4. QED
  BY <1>2, <1>3 DEF LoadTarget, Skip

\* The row cannot be read.
LEMMA LoadRaisesKeeps ==
  ASSUME BoundsAssumption, IInv, NEW s \in Sweeper, LoadRaises(s)
  PROVE  Delivering'
<1>1. HandShrinks(s) /\ sweeper'[s].result # "sent"
  BY HandSteps DEF LoadRaises, Working, Failure
<1>2. QED
  BY <1>1, HandOnly DEF LoadRaises

\* An acknowledgement fails.
LEMMA AckRaisesKeeps ==
  ASSUME BoundsAssumption, IInv, NEW s \in Sweeper, AckRaises(s)
  PROVE  Delivering'
<1>1. HandShrinks(s) /\ ~(sweeper'[s].pc = "ack" /\ sweeper'[s].result = "sent")
  <2>1. CASE Acknowledge(s, "internal")
    BY <2>1, HandSteps DEF AckRaises, Working, Failure
  <2>2. CASE sweeper' = [sweeper EXCEPT ![s] = Idle]
    <3>1. sweeper'[s].pc = "idle"
      BY <2>2 DEF IInv, TypeOK, Idle
    <3>2. QED
      BY <2>2, <3>1, HandSteps
  <2>3. CASE Advance(s)
    BY <2>3, HandSteps DEF AckRaises
  <2>4. QED
    BY <2>1, <2>2, <2>3 DEF AckRaises
<1>2. QED
  BY <1>1, HandOnly DEF AckRaises

\* An acknowledgement is out of time.
LEMMA AckTooLateKeeps ==
  ASSUME BoundsAssumption, IInv, NEW s \in Sweeper, AckTooLate(s)
  PROVE  Delivering'
<1>1. HandShrinks(s) /\ sweeper'[s].pc # "ack"
  BY HandSteps DEF AckTooLate
<1>2. QED
  BY <1>1, HandOnly DEF AckTooLate

\* A sweep dies.
LEMMA SweepEndsKeeps ==
  ASSUME BoundsAssumption, IInv, NEW s \in Sweeper, SweepEnds(s)
  PROVE  Delivering'
<1>1. sweeper' = [sweeper EXCEPT ![s] = Idle]
  BY DEF SweepEnds
<1>2. HandShrinks(s) /\ sweeper'[s].pc = "idle"
  BY <1>1, HandSteps DEF IInv, TypeOK, Idle
<1>3. QED
  BY <1>2, HandOnly DEF SweepEnds

\* The claim a message is sent for was waiting, in this hand alone.
LEMMA SentToken ==
  ASSUME IInv, NEW s \in Sweeper, sweeper[s].pc = "send",
         \A r \in Sweeper : r # s => sweeper'[r] = sweeper[r],
         sweeper'[s].claims = sweeper[s].claims, sweeper'[s].pc = "ack"
  PROVE  /\ Current(s).event \in Event
         /\ Current(s).token \in Pending(Current(s).event)
         /\ \A e \in Event : e = Current(s).event =>
               Pending(e)' \subseteq Pending(e) \ {Current(s).token}
         /\ \A e \in Event : Pending(e)' \subseteq Pending(e)
<1>1. /\ sweeper[s].claims \in Seq(Claim) /\ 1 \in DOMAIN sweeper[s].claims
      /\ Current(s) = sweeper[s].claims[1] /\ Current(s) \in Claim
  BY InHand DEF Working
<1>2. Current(s).event \in Event /\ Current(s).token \in Nat
  BY <1>1 DEF Claim
<1>3. Current(s) = [event |-> Current(s).event, token |-> Current(s).token]
  BY <1>1 DEF Claim
<1>4. Waits(s, Current(s))
  BY <1>1 DEF Waits
<1>5. Current(s).token \in Pending(Current(s).event)
  BY <1>2, <1>3, <1>4 DEF Pending
<1>6. ASSUME NEW r \in Sweeper, NEW claim, Waits(r, claim)'
      PROVE  Waits(r, claim) /\ claim # Current(s)
  <2>1. CASE r = s
    <3>1. PICK n \in DOMAIN sweeper[s].claims : sweeper[s].claims[n] = claim /\ n > 1
      BY <1>6, <2>1 DEF Waits
    <3>2. claim # Current(s)
      BY <1>1, <3>1 DEF IInv, Delivering, ClaimsDiffer
    <3>3. QED
      BY <2>1, <3>1, <3>2 DEF Waits
  <2>2. CASE r # s
    <3>1. Waits(r, claim)
      BY <1>6, <2>2 DEF Waits
    <3>2. claim # Current(s)
      BY <1>1, <2>2, <3>1 DEF Waits, IInv, Delivering, ClaimsDiffer
    <3>3. QED
      BY <3>1, <3>2
  <2>3. QED
    BY <2>1, <2>2
<1>7. \A e \in Event : Pending(e)' \subseteq Pending(e)
  BY <1>6 DEF Pending
<1>8. ASSUME NEW e \in Event, e = Current(s).event, Current(s).token \in Pending(e)'
      PROVE  FALSE
  <2>1. PICK r \in Sweeper : Waits(r, [event |-> e, token |-> sweeper[s].claims[1].token])'
    BY <1>1, <1>8 DEF Pending
  <2>2. QED
    BY <1>1, <1>3, <1>6, <1>8, <2>1
<1>9. QED
  BY <1>2, <1>5, <1>7, <1>8

\* A message goes out, or is refused before it does.
LEMMA SendMessageKeeps ==
  ASSUME BoundsAssumption, IInv, NEW s \in Sweeper, SendMessage(s)
  PROVE  Delivering'
<1> DEFINE to == Current(s).event
<1>1. PICK answer \in DOMAIN Verdict :
         /\ sends' = IF answer \in Unsent THEN sends ELSE [sends EXCEPT ![to] = @ + 1]
         /\ Acknowledge(s, Verdict[answer])
  BY DEF SendMessage
<1>2. Verdict[answer] \in Success \union Failure
  BY DEF Verdict, Success, Failure
<1>3. /\ sweeper[s].pc = "send" /\ HandShrinks(s) /\ sweeper'[s].pc = "ack"
      /\ sweeper'[s].result = Verdict[answer] /\ sweeper'[s].claims = sweeper[s].claims
      /\ \A r \in Sweeper : r # s => sweeper'[r] = sweeper[r]
  BY <1>1, <1>2, HandSteps DEF SendMessage, Working, HandShrinks
<1>4. UNCHANGED <<event, target, delivery, spent, redrives>>
  BY DEF SendMessage
<1>5. sends \in [Event -> Nat] /\ to \in Event
  BY <1>3, SentToken DEF IInv, TypeOK
<1>6. CASE sends' = sends
  <2>1. Verdict[answer] # "sent" \/ sends'[to] > 0
    <3>1. answer \in Unsent => Verdict[answer] # "sent"
      BY DEF Unsent, Verdict
    <3>2. answer \notin Unsent => FALSE
      BY <1>1, <1>5, <1>6
    <3>3. QED
      BY <3>1, <3>2
  <2>2. QED
    BY <1>3, <1>4, <1>6, <2>1, HandOnly DEF Current
<1>7. CASE sends' = [sends EXCEPT ![to] = @ + 1]
  <2>1. /\ ClaimsInWork' /\ ClaimsDiffer'
    BY <1>3, HandKeeps
  <2>2. RowsAgree' /\ AttemptsCount'
    BY <1>4 DEF IInv, Delivering, RowsAgree, AttemptsCount, Settled
  <2>3. TokensUsed'
    <3>1. \A e \in Event : delivery[e].token \in Nat /\ delivery'[e].token \in Nat
      BY <1>4 DEF IInv, TypeOK, Row
    <3>2. QED
      BY <1>3, <1>4, <3>1, TokensKeep
  <2>4. \A e \in Event : sends'[e] \in Nat /\ sends'[e] >= sends[e]
    BY <1>5, <1>7
  <2>5. SentWasSent'
    <3>1. ASSUME NEW r \in Sweeper, sweeper'[r].pc = "ack", sweeper'[r].result = "sent"
          PROVE  sends'[Head(sweeper'[r].claims).event] > 0
      <4>1. CASE r = s
        BY <1>3, <1>5, <1>7, <4>1 DEF Current
      <4>2. CASE r # s
        <5>1. sends[Current(r).event] > 0 /\ Current(r).event \in Event
          BY <1>3, <3>1, <4>2, InHand
             DEF IInv, Delivering, SentWasSent, Claim, Working
        <5>2. QED
          BY <1>3, <1>5, <2>4, <4>2, <5>1 DEF Current
      <4>3. QED
        BY <4>1, <4>2
    <3>2. QED
      BY <3>1 DEF SentWasSent, Current
  <2>6. TriesPaid'
    <3> SUFFICES ASSUME NEW e \in Event
                 PROVE  /\ IsFiniteSet(Pending(e)')
                        /\ sends'[e] + Cardinality(Pending(e)')
                              <= MaxAttempts * redrives[e] + spent[e]
      BY <1>4 DEF TriesPaid
    <3>1. /\ IsFiniteSet(Pending(e)) /\ Cardinality(Pending(e)) \in Nat
          /\ sends[e] + Cardinality(Pending(e)) <= MaxAttempts * redrives[e] + spent[e]
      BY FS_CardinalityType DEF IInv, Delivering, TriesPaid
    <3>2. MaxAttempts * redrives[e] + spent[e] \in Nat
      <4>1. MaxAttempts \in Nat /\ redrives[e] \in Nat /\ spent[e] \in Nat
        BY DEF IInv, TypeOK, BoundsAssumption
      <4>2. QED
        BY <4>1
    <3>3. CASE e = to
      <4>1. /\ IsFiniteSet(Pending(e) \ {Current(s).token})
            /\ Cardinality(Pending(e) \ {Current(s).token}) = Cardinality(Pending(e)) - 1
        BY <1>3, <3>1, <3>3, SentToken, FS_RemoveElement
      <4>2. Pending(e)' \subseteq Pending(e) \ {Current(s).token}
        BY <1>3, <3>3, SentToken
      <4>3. /\ IsFiniteSet(Pending(e)') /\ Cardinality(Pending(e)') \in Nat
            /\ Cardinality(Pending(e)') <= Cardinality(Pending(e)) - 1
        BY <4>1, <4>2, FS_Subset, FS_CardinalityType
      <4>4. sends'[e] = sends[e] + 1 /\ sends[e] \in Nat
        BY <1>5, <1>7, <3>3
      <4>5. QED
        BY <3>1, <3>2, <4>3, <4>4
    <3>4. CASE e # to
      <4>1. /\ IsFiniteSet(Pending(e)') /\ Cardinality(Pending(e)') \in Nat
            /\ Cardinality(Pending(e)') <= Cardinality(Pending(e))
        BY <1>3, <3>1, SentToken, FS_Subset, FS_CardinalityType
      <4>2. sends'[e] = sends[e] /\ sends[e] \in Nat
        BY <1>5, <1>7, <3>4
      <4>3. QED
        BY <3>1, <3>2, <4>1, <4>2
    <3>5. QED
      BY <3>3, <3>4
  <2>7. QED
    BY <2>1, <2>2, <2>3, <2>5, <2>6 DEF Delivering
<1>8. QED
  BY <1>1, <1>6, <1>7

\* What an acknowledgement does to the row of its claim, and what a step that only
\* changes rows keeps.
LEMMA RowsOnly ==
  ASSUME BoundsAssumption, IInv, NEW s \in Sweeper, HandShrinks(s),
         sweeper'[s].pc # "ack", RowsAgree', AttemptsCount',
         \A e \in Event : delivery'[e].token = delivery[e].token,
         UNCHANGED <<event, sends, spent, redrives>>
  PROVE  Delivering'
<1>1. ClaimsInWork' /\ ClaimsDiffer' /\ \A e \in Event : Pending(e)' \subseteq Pending(e)
  BY HandKeeps
<1>2. TriesPaid'
  BY <1>1, PaidKeeps
<1>3. TokensUsed'
  <2>1. \A e \in Event : delivery[e].token \in Nat /\ delivery'[e].token \in Nat
    BY DEF IInv, TypeOK, Row
  <2>2. QED
    BY <2>1, TokensKeep
<1>4. SentWasSent'
  BY DEF IInv, Delivering, SentWasSent, HandShrinks, Current
<1>5. QED
  BY <1>1, <1>2, <1>3, <1>4 DEF Delivering

\* A sweep acknowledges that an event is told or skipped.
LEMMA AckSucceededKeeps ==
  ASSUME BoundsAssumption, IInv, NEW s \in Sweeper, AckSucceeded(s)
  PROVE  Delivering'
<1> DEFINE to == Current(s).event
<1>1. HandShrinks(s) /\ sweeper'[s].pc # "ack"
  BY HandSteps DEF AckSucceeded
<1>2. delivery \in [Event -> Row] /\ sweeper[s].result \in Success /\ to \in Event
  BY InHand DEF AckSucceeded, IInv, TypeOK, Claim, Working
<1>3. CASE delivery' = delivery
  BY <1>1, <1>3, HandOnly DEF AckSucceeded
<1>4. CASE /\ Holds(Current(s))
           /\ delivery' = [delivery EXCEPT ![to] = [@ EXCEPT !.status = "succeeded",
                              !.disposition = sweeper[s].result, !.stale = FALSE]]
  <2>1. /\ delivery'[to].status = "succeeded" /\ delivery'[to].disposition \in Success
        /\ delivery'[to].token = delivery[to].token
        /\ \A e \in Event : e # to => delivery'[e] = delivery[e]
    BY <1>2, <1>4 DEF Row
  <2>2. RowsAgree'
    BY <1>2, <1>4, <2>1 DEF AckSucceeded, IInv, Delivering, RowsAgree, Holds, Settled
  <2>3. AttemptsCount'
    BY <1>2, <2>1 DEF AckSucceeded, IInv, Delivering, AttemptsCount, Settled
  <2>4. QED
    BY <1>1, <2>1, <2>2, <2>3, RowsOnly DEF AckSucceeded
<1>5. QED
  BY <1>3, <1>4 DEF AckSucceeded

\* A sweep acknowledges that a send failed.
LEMMA AckFailureKeeps ==
  ASSUME BoundsAssumption, IInv, NEW s \in Sweeper, AckFailure(s)
  PROVE  Delivering'
<1> DEFINE to == Current(s).event
<1> DEFINE final == sweeper[s].result = "terminal" \/ delivery[to].attempts >= MaxAttempts
<1>1. HandShrinks(s) /\ sweeper'[s].pc # "ack"
  BY HandSteps DEF AckFailure
<1>2. delivery \in [Event -> Row] /\ delivery[to] \in Row /\ to \in Event
  BY InHand DEF AckFailure, IInv, TypeOK, Claim, Working
<1>3. CASE delivery' = delivery
  BY <1>1, <1>3, HandOnly DEF AckFailure
<1>4. CASE /\ Holds(Current(s))
           /\ delivery' = [delivery EXCEPT ![to] = [@ EXCEPT !.status = "failed",
                              !.disposition = IF final THEN "given_up" ELSE "none",
                              !.error = IF final /\ sweeper[s].result # "terminal"
                                        THEN "retry_exhausted" ELSE "failure",
                              !.stale = FALSE]]
  <2>1. /\ delivery'[to].status = "failed"
        /\ delivery'[to].disposition = IF final THEN "given_up" ELSE "none"
        /\ ~final => delivery'[to].error = "failure"
        /\ delivery'[to].attempts = delivery[to].attempts
        /\ delivery'[to].token = delivery[to].token
        /\ \A e \in Event : e # to => delivery'[e] = delivery[e]
    <3> HIDE DEF final
    <3>1. QED
      BY <1>2, <1>4 DEF Row
  <2>2. delivery[to].attempts \in Nat /\ (~final => delivery[to].attempts < MaxAttempts)
    BY <1>2 DEF Row, BoundsAssumption
  <2> HIDE DEF final
  <2>3. /\ event[to] = "written" /\ spent[to] = delivery[to].attempts
    BY <1>2, <1>4, HeldIsPaid DEF Holds
  <2>4. RowsAgree'
    BY <1>2, <2>1, <2>2, <2>3
       DEF AckFailure, IInv, Delivering, RowsAgree, Settled, BoundsAssumption
  <2>5. delivery' \in [Event -> Row]
    BY TypesKept DEF Next, SweepStep, TypeOK
  <2>6. AttemptsCount'
    <3>1. ~final => NextAttempt(delivery'[to]) = delivery[to].attempts + 1
      BY <1>2, <2>1, <2>5, NextAttemptCases
    <3>2. \A e \in Event :
             /\ spent'[e] <= MaxAttempts
             /\ event'[e] # "purged" /\ ~Settled(e)'
                  => spent'[e] + 1 = NextAttempt(delivery'[e])
      <4>1. ASSUME NEW e \in Event, e # to
            PROVE  /\ spent'[e] <= MaxAttempts
                   /\ event'[e] # "purged" /\ ~Settled(e)'
                        => spent'[e] + 1 = NextAttempt(delivery'[e])
        BY <2>1, <4>1 DEF AckFailure, IInv, Delivering, AttemptsCount, Settled
      <4>2. /\ spent'[to] <= MaxAttempts
            /\ ~final => spent'[to] + 1 = NextAttempt(delivery'[to])
        BY <1>2, <2>3, <3>1 DEF AckFailure, IInv, Delivering, AttemptsCount
      <4>3. ASSUME NEW e \in Event, e = to
            PROVE  final => Settled(e)'
        <5>1. delivery'[e].status = "failed" /\ (final => delivery'[e].disposition = "given_up")
          BY <2>1, <4>3
        <5>2. QED
          BY <5>1 DEF Settled
      <4>4. QED
        BY <4>1, <4>2, <4>3
    <3>3. QED
      BY <3>2 DEF AttemptsCount
  <2>7. QED
    BY <1>1, <2>1, <2>4, <2>6, RowsOnly DEF AckFailure
<1>5. QED
  BY <1>3, <1>4 DEF AckFailure

\* The claims a sweep hands back were waiting, in this hand alone.
LEMMA HeldTokens ==
  ASSUME IInv, NEW s \in Sweeper, sweeper[s].pc \in {"load", "send"}, HandShrinks(s),
         sweeper'[s].claims = <<>>,
         NEW n \in DOMAIN sweeper[s].claims, NEW e \in Event,
         sweeper[s].claims[n].event = e
  PROVE  /\ sweeper[s].claims[n].token \in Pending(e)
         /\ Pending(e)' \subseteq Pending(e) \ {sweeper[s].claims[n].token}
<1> DEFINE t == sweeper[s].claims[n].token
<1>1. sweeper[s].claims[n] = [event |-> e, token |-> t] /\ t \in Nat
  <2>1. sweeper[s].claims \in Seq(Claim)
    BY InHand
  <2>2. sweeper[s].claims[n] \in Claim
    BY <2>1
  <2>3. QED
    BY <2>2 DEF Claim
<1>2. t \in Pending(e)
  BY <1>1 DEF Pending, Waits
<1>3. Pending(e)' \subseteq Pending(e)
  BY HandKeeps
<1>4. ASSUME NEW r \in Sweeper, NEW u \in Nat, u = t, Waits(r, [event |-> e, token |-> u])'
      PROVE  FALSE
  <2>1. PICK m \in DOMAIN sweeper'[r].claims :
           sweeper'[r].claims[m] = [event |-> e, token |-> u]
    BY <1>4 DEF Waits
  <2>2. r # s /\ sweeper'[r] = sweeper[r]
    BY <2>1 DEF HandShrinks
  <2>3. QED
    BY <1>1, <1>4, <2>1, <2>2 DEF IInv, Delivering, ClaimsDiffer
<1>5. ASSUME NEW u \in Pending(e)' PROVE u # t
  BY <1>4, <1>5 DEF Pending
<1>6. QED
  BY <1>2, <1>3, <1>5

\* A sweep that is out of time hands back what it has not sent.
LEMMA DeferUnsentKeeps ==
  ASSUME BoundsAssumption, IInv, NEW s \in Sweeper, DeferUnsent(s)
  PROVE  Delivering'
<1> DEFINE held == {e \in Event : \E n \in DOMAIN sweeper[s].claims :
                       /\ sweeper[s].claims[n].event = e
                       /\ Holds(sweeper[s].claims[n])}
<1>1. /\ delivery' = [e \in Event |->
            IF e \notin held THEN delivery[e]
            ELSE [delivery[e] EXCEPT !.status = "failed", !.stale = FALSE,
                     !.due = TRUE, !.error = "notification_deferred"]]
      /\ spent' = [e \in Event |-> IF e \in held THEN spent[e] - 1 ELSE spent[e]]
      /\ sweeper' = [sweeper EXCEPT ![s] = Idle]
      /\ sweeper[s].pc \in {"load", "send"}
      /\ UNCHANGED <<event, sends, redrives>>
  BY DEF DeferUnsent
<1>2. \A e \in held : /\ e \in Event /\ delivery[e].status = "claimed"
                      /\ \E n \in DOMAIN sweeper[s].claims :
                            sweeper[s].claims[n].event = e
  BY DEF Holds
<1> HIDE DEF held
<1>3. \A e \in held : /\ spent[e] \in Nat /\ spent[e] >= 1
                      /\ spent[e] = delivery[e].attempts
                      /\ event[e] = "written"
                      /\ delivery[e].disposition = "none"
  BY <1>2, HeldIsPaid DEF IInv, Delivering, RowsAgree
<1>4. /\ \A e \in Event \ held : delivery'[e] = delivery[e] /\ spent'[e] = spent[e]
      /\ \A e \in held :
            /\ delivery'[e].status = "failed" /\ delivery'[e].disposition = "none"
            /\ delivery'[e].error = "notification_deferred"
            /\ delivery'[e].attempts = delivery[e].attempts
            /\ delivery'[e].token = delivery[e].token
            /\ spent'[e] = spent[e] - 1
  <2>1. \A e \in Event \ held : delivery'[e] = delivery[e] /\ spent'[e] = spent[e]
    BY <1>1
  <2>2. ASSUME NEW e \in held
        PROVE  /\ delivery'[e].status = "failed" /\ delivery'[e].disposition = "none"
               /\ delivery'[e].error = "notification_deferred"
               /\ delivery'[e].attempts = delivery[e].attempts
               /\ delivery'[e].token = delivery[e].token
               /\ spent'[e] = spent[e] - 1
    <3>1. delivery[e] \in Row /\ e \in Event
      BY <1>2 DEF IInv, TypeOK
    <3>2. /\ delivery'[e] = [delivery[e] EXCEPT !.status = "failed", !.stale = FALSE,
                                 !.due = TRUE, !.error = "notification_deferred"]
          /\ spent'[e] = spent[e] - 1
      BY <1>1, <3>1
    <3>3. delivery[e].disposition = "none"
      BY <1>3
    <3>4. QED
      BY <3>1, <3>2, <3>3 DEF Row
  <2>3. QED
    BY <2>1, <2>2
<1>5. HandShrinks(s) /\ sweeper'[s].claims = <<>> /\ sweeper'[s].pc # "ack"
  BY <1>1, HandSteps DEF IInv, TypeOK, Idle
<1>6. ClaimsInWork' /\ ClaimsDiffer' /\ \A e \in Event : Pending(e)' \subseteq Pending(e)
  BY <1>5, HandKeeps
<1>7. TokensUsed'
  <2>1. \A e \in Event : delivery[e].token \in Nat /\ delivery'[e].token = delivery[e].token
    <3>1. \A e \in Event : delivery[e].token \in Nat
      BY DEF IInv, TypeOK, Row
    <3>2. QED
      BY <1>4, <3>1
  <2>2. \A e \in Event : delivery[e].token <= delivery'[e].token
    BY <2>1
  <2>3. QED
    BY <1>1, <1>5, <2>1, <2>2, TokensKeep
<1>8. SentWasSent'
  BY <1>1, <1>5 DEF IInv, Delivering, SentWasSent, HandShrinks, Current
<1>9. RowsAgree'
  <2> SUFFICES ASSUME NEW e \in Event
               PROVE  /\ delivery'[e].status # "none" => event'[e] = "written"
                      /\ delivery'[e].status \in {"none", "claimed"} =>
                             delivery'[e].disposition = "none" /\ delivery'[e].error = "none"
                      /\ delivery'[e].status = "failed" =>
                             delivery'[e].disposition \in {"none", "given_up"}
                      /\ delivery'[e].status = "succeeded" =>
                             delivery'[e].disposition \in Success
                      /\ delivery'[e].status = "claimed" => delivery'[e].attempts >= 1
                      /\ ~Settled(e)' => delivery'[e].attempts <= MaxAttempts
    BY DEF RowsAgree
  <2>1. CASE e \in held
    <3>1. delivery[e].attempts <= MaxAttempts
      BY <1>2, <2>1, HeldIsPaid DEF IInv, Delivering, RowsAgree
    <3>2. QED
      BY <1>1, <1>3, <1>4, <2>1, <3>1
  <2>2. CASE e \notin held
    <3>1. delivery'[e] = delivery[e] /\ event'[e] = event[e]
      BY <1>1, <1>4, <2>2
    <3>2. Settled(e)' <=> Settled(e)
      BY <3>1 DEF Settled
    <3>3. QED
      BY <3>1, <3>2 DEF IInv, Delivering, RowsAgree
  <2>3. QED
    BY <2>1, <2>2
<1>10. AttemptsCount'
  <2>1. delivery' \in [Event -> Row]
    BY TypesKept DEF Next, SweepMishap, TypeOK
  <2> SUFFICES ASSUME NEW e \in Event
               PROVE  /\ spent'[e] <= MaxAttempts
                      /\ event'[e] # "purged" /\ ~Settled(e)' =>
                             spent'[e] + 1 = NextAttempt(delivery'[e])
    BY DEF AttemptsCount
  <2>2. spent[e] <= MaxAttempts /\ spent[e] \in Nat
    BY DEF IInv, TypeOK, Delivering, AttemptsCount
  <2>3. CASE e \in held
    <3>1. NextAttempt(delivery'[e]) = delivery[e].attempts
      BY <1>4, <2>1, <2>3, NextAttemptCases
    <3>2. QED
      BY <1>3, <1>4, <2>2, <2>3, <3>1 DEF BoundsAssumption
  <2>4. CASE e \notin held
    BY <1>1, <1>4, <2>4 DEF IInv, Delivering, AttemptsCount, Settled
  <2>5. QED
    BY <2>3, <2>4
<1>11. TriesPaid'
  <2> SUFFICES ASSUME NEW e \in Event
               PROVE  /\ IsFiniteSet(Pending(e)')
                      /\ sends[e] + Cardinality(Pending(e)')
                            <= MaxAttempts * redrives[e] + spent'[e]
    BY <1>1 DEF TriesPaid
  <2>1. /\ IsFiniteSet(Pending(e)) /\ Cardinality(Pending(e)) \in Nat
        /\ sends[e] + Cardinality(Pending(e)) <= MaxAttempts * redrives[e] + spent[e]
    BY FS_CardinalityType DEF IInv, Delivering, TriesPaid
  <2>2. MaxAttempts * redrives[e] \in Nat /\ spent[e] \in Nat /\ sends[e] \in Nat
    <3>1. MaxAttempts \in Nat /\ redrives[e] \in Nat
      BY DEF IInv, TypeOK, BoundsAssumption
    <3>2. QED
      BY <3>1 DEF IInv, TypeOK
  <2> DEFINE paid == MaxAttempts * redrives[e]
  <2>3. CASE e \in held
    <3>1. PICK n \in DOMAIN sweeper[s].claims : sweeper[s].claims[n].event = e
      BY <1>2, <2>3
    <3> DEFINE t == sweeper[s].claims[n].token
    <3>2. t \in Pending(e) /\ Pending(e)' \subseteq Pending(e) \ {t}
      BY <1>1, <1>5, <3>1, HeldTokens
    <3> HIDE DEF t
    <3>3. /\ IsFiniteSet(Pending(e) \ {t})
          /\ Cardinality(Pending(e) \ {t}) = Cardinality(Pending(e)) - 1
      BY <2>1, <3>2, FS_RemoveElement
    <3>4. /\ IsFiniteSet(Pending(e)') /\ Cardinality(Pending(e)') \in Nat
          /\ Cardinality(Pending(e)') <= Cardinality(Pending(e)) - 1
      BY <3>2, <3>3, FS_Subset, FS_CardinalityType
    <3>5. spent'[e] = spent[e] - 1
      BY <1>4, <2>3
    <3> HIDE DEF paid
    <3>6. sends[e] + Cardinality(Pending(e)) <= paid + spent[e] /\ paid \in Nat
      BY <2>1, <2>2 DEF paid
    <3>7. sends[e] + Cardinality(Pending(e)') <= paid + spent'[e]
      BY <2>1, <2>2, <3>4, <3>5, <3>6
    <3>8. QED
      BY <3>4, <3>7 DEF paid
  <2>4. CASE e \notin held
    <3>1. /\ IsFiniteSet(Pending(e)') /\ Cardinality(Pending(e)') \in Nat
          /\ Cardinality(Pending(e)') <= Cardinality(Pending(e))
      BY <1>6, <2>1, FS_Subset, FS_CardinalityType
    <3>2. QED
      BY <1>4, <2>1, <2>2, <2>4, <3>1
  <2>5. QED
    BY <2>3, <2>4
<1>12. QED
  BY <1>6, <1>7, <1>8, <1>9, <1>10, <1>11 DEF Delivering

\* A sweep claims what it scanned: the tokens it takes are new.
LEMMA ClaimBatchKeeps ==
  ASSUME BoundsAssumption, IInv, NEW s \in Sweeper, ClaimBatch(s)
  PROVE  Delivering'
<1>1. PICK handed \in SUBSET Event, taken \in SUBSET Event :
         RowsClaimed(handed, taken) /\ HandFilled(s, handed)
  BY ClaimEffect
<1>2. /\ sweeper[s].pc = "claim" /\ sweeper[s].claims = <<>>
      /\ UNCHANGED <<event, sends, redrives>>
  BY DEF ClaimBatch, IInv, Delivering, ClaimsInWork, Working
<1>3. \A e \in Event : delivery[e] \in Row /\ delivery[e].token \in Nat
                       /\ spent[e] \in Nat /\ sends[e] \in Nat
  BY DEF IInv, TypeOK, Row
<1>4. \A r \in Sweeper : r # s => sweeper'[r] = sweeper[r]
  BY <1>1 DEF HandFilled
<1>5. /\ sweeper'[s].pc \in {"idle", "load"}
      /\ sweeper'[s].claims # <<>> <=> sweeper'[s].pc = "load"
      /\ sweeper'[s].claims \in Seq(Claim)
  <2>1. CASE sweeper'[s] = Idle
    BY <1>1, <2>1 DEF Idle, HandFilled
  <2>2. CASE /\ sweeper'[s] = [Idle EXCEPT !.pc = "load", !.claims = sweeper'[s].claims]
             /\ sweeper'[s].claims # <<>>
    BY <1>1, <2>2 DEF Idle, HandFilled
  <2>3. QED
    BY <1>1, <2>1, <2>2 DEF HandFilled
<1>6. ASSUME NEW n \in DOMAIN sweeper'[s].claims
      PROVE  /\ sweeper'[s].claims[n].event \in handed
             /\ sweeper'[s].claims[n].event \in Event
             /\ sweeper'[s].claims[n].token
                   = delivery[sweeper'[s].claims[n].event].token + 1
  BY <1>1 DEF HandFilled
<1>7. \A e \in taken : /\ ~Settled(e) /\ event[e] = "written"
                       /\ NextAttempt(delivery[e]) \in 0..(MaxAttempts + 1)
                       /\ NextAttempt(delivery[e]) = spent[e] + 1
                       /\ delivery'[e].token = delivery[e].token + 1
  BY <1>1, EligibleNext DEF RowsClaimed
<1>8. \A e \in handed : /\ e \in taken /\ e \in Event
                        /\ NextAttempt(delivery[e]) <= MaxAttempts
                        /\ delivery'[e] = [NoRow EXCEPT !.status = "claimed",
                               !.token = delivery[e].token + 1,
                               !.attempts = NextAttempt(delivery[e])]
                        /\ spent'[e] = spent[e] + 1
  BY <1>1 DEF RowsClaimed
<1>9. \A e \in handed : /\ delivery'[e].status = "claimed"
                        /\ delivery'[e].disposition = "none" /\ delivery'[e].error = "none"
                        /\ delivery'[e].attempts = NextAttempt(delivery[e])
                        /\ NextAttempt(delivery'[e]) = NextAttempt(delivery[e]) + 1
                        /\ spent'[e] = spent[e] + 1
  <2> SUFFICES ASSUME NEW e \in handed
               PROVE  /\ delivery'[e].status = "claimed"
                      /\ delivery'[e].disposition = "none" /\ delivery'[e].error = "none"
                      /\ delivery'[e].attempts = NextAttempt(delivery[e])
                      /\ NextAttempt(delivery'[e]) = NextAttempt(delivery[e]) + 1
                      /\ spent'[e] = spent[e] + 1
    OBVIOUS
  <2>1. /\ delivery'[e].status = "claimed"
        /\ delivery'[e].disposition = "none" /\ delivery'[e].error = "none"
        /\ delivery'[e].attempts = NextAttempt(delivery[e])
    BY <1>8 DEF NoRow
  <2>2. NextAttempt(delivery'[e]) = delivery'[e].attempts + 1
    BY <2>1 DEF NextAttempt
  <2>3. QED
    BY <1>8, <2>1, <2>2
<1>10. \A e \in taken \ handed : /\ delivery'[e].status = "failed"
                                 /\ delivery'[e].disposition = "given_up"
                                 /\ spent'[e] = spent[e]
  BY ZenonT(30), <1>1 DEF RowsClaimed, Exhausted, NoRow
<1>11. \A e \in Event \ taken : delivery'[e] = delivery[e] /\ spent'[e] = spent[e]
  BY <1>1 DEF RowsClaimed
<1>12. ClaimsInWork'
  <2>1. ASSUME NEW r \in Sweeper
        PROVE  /\ sweeper'[r].pc \in Working <=> sweeper'[r].claims # <<>>
               /\ sweeper'[r].pc = "ack" => sweeper'[r].result # "none"
    <3>1. CASE r = s
      BY <1>5, <3>1 DEF Working
    <3>2. CASE r # s
      BY <1>4, <3>2 DEF IInv, Delivering, ClaimsInWork
    <3>3. QED
      BY <3>1, <3>2
  <2>2. QED
    BY <2>1 DEF ClaimsInWork
<1>13. RowsAgree'
  <2> SUFFICES ASSUME NEW e \in Event
               PROVE  /\ delivery'[e].status # "none" => event'[e] = "written"
                      /\ delivery'[e].status \in {"none", "claimed"} =>
                             delivery'[e].disposition = "none" /\ delivery'[e].error = "none"
                      /\ delivery'[e].status = "failed" =>
                             delivery'[e].disposition \in {"none", "given_up"}
                      /\ delivery'[e].status = "succeeded" =>
                             delivery'[e].disposition \in Success
                      /\ delivery'[e].status = "claimed" => delivery'[e].attempts >= 1
                      /\ ~Settled(e)' => delivery'[e].attempts <= MaxAttempts
    BY DEF RowsAgree
  <2>1. CASE e \in handed
    <3>1. delivery'[e].attempts = spent[e] + 1 /\ delivery'[e].attempts <= MaxAttempts
      BY <1>7, <1>8, <1>9, <2>1
    <3>2. event'[e] = "written"
      BY <1>2, <1>7, <1>8, <2>1
    <3>3. QED
      BY <1>3, <1>9, <2>1, <3>1, <3>2
  <2>2. CASE e \in taken \ handed
    <3>1. Settled(e)'
      BY <1>10, <2>2 DEF Settled
    <3>2. QED
      BY <1>2, <1>7, <1>10, <2>2, <3>1
  <2>3. CASE e \notin taken
    <3>1. delivery'[e] = delivery[e] /\ event'[e] = event[e]
      BY <1>2, <1>11, <2>3
    <3>2. Settled(e)' <=> Settled(e)
      BY <3>1 DEF Settled
    <3>3. QED
      BY <3>1, <3>2 DEF IInv, Delivering, RowsAgree
  <2>4. QED
    BY <2>1, <2>2, <2>3
<1>14. AttemptsCount'
  <2> SUFFICES ASSUME NEW e \in Event
               PROVE  /\ spent'[e] <= MaxAttempts
                      /\ event'[e] # "purged" /\ ~Settled(e)' =>
                             spent'[e] + 1 = NextAttempt(delivery'[e])
    BY DEF AttemptsCount
  <2>1. CASE e \in handed
    <3>1. NextAttempt(delivery[e]) = spent[e] + 1 /\ NextAttempt(delivery[e]) <= MaxAttempts
      BY <1>7, <1>8, <2>1
    <3>2. QED
      BY <1>3, <1>9, <2>1, <3>1
  <2>2. CASE e \in taken \ handed
    <3>1. Settled(e)'
      BY <1>10, <2>2 DEF Settled
    <3>2. QED
      BY <1>10, <2>2, <3>1 DEF IInv, Delivering, AttemptsCount
  <2>3. CASE e \notin taken
    <3>1. delivery'[e] = delivery[e] /\ event'[e] = event[e] /\ spent'[e] = spent[e]
      BY <1>2, <1>11, <2>3
    <3>2. Settled(e)' <=> Settled(e)
      BY <3>1 DEF Settled
    <3>3. QED
      BY <3>1, <3>2 DEF IInv, Delivering, AttemptsCount
  <2>4. QED
    BY <2>1, <2>2, <2>3
<1>15. \A e \in Event : delivery'[e].token \in Nat /\ delivery[e].token <= delivery'[e].token
  <2> TAKE e \in Event
  <2>1. CASE e \in taken
    BY <1>3, <1>7, <2>1
  <2>2. CASE e \notin taken
    BY <1>3, <1>11, <2>2
  <2>3. QED
    BY <2>1, <2>2
<1>16. TokensUsed'
  <2> SUFFICES ASSUME NEW r \in Sweeper, NEW n \in DOMAIN sweeper'[r].claims
               PROVE  LET claim == sweeper'[r].claims[n]
                      IN  /\ event'[claim.event] # "absent"
                          /\ event'[claim.event] = "written" =>
                                 claim.token <= delivery'[claim.event].token
    BY DEF TokensUsed
  <2>1. CASE r = s
    <3> DEFINE e == sweeper'[s].claims[n].event
    <3>1. e \in taken /\ e \in Event /\ sweeper'[s].claims[n].token = delivery[e].token + 1
      BY <1>6, <1>8, <2>1
    <3> HIDE DEF e
    <3>2. event'[e] = "written" /\ delivery'[e].token = delivery[e].token + 1
      BY <1>2, <1>7, <3>1
    <3>3. QED
      BY <1>3, <2>1, <3>1, <3>2 DEF e
  <2>2. CASE r # s
    <3>1. n \in DOMAIN sweeper[r].claims /\ sweeper'[r].claims[n] = sweeper[r].claims[n]
      BY <1>4, <2>2
    <3> DEFINE claim == sweeper[r].claims[n]
    <3>2. claim \in Claim /\ claim.event \in Event /\ claim.token \in Nat
      <4>1. sweeper[r].claims \in Seq(Claim)
        BY InHand
      <4>2. claim \in Claim
        BY <3>1, <4>1
      <4>3. QED
        BY <4>2 DEF Claim
    <3>3. /\ event[claim.event] # "absent"
          /\ event[claim.event] = "written" => claim.token <= delivery[claim.event].token
      BY <3>1 DEF IInv, Delivering, TokensUsed
    <3> HIDE DEF claim
    <3>4. /\ event'[claim.event] # "absent"
          /\ event'[claim.event] = "written" => claim.token <= delivery'[claim.event].token
      BY <1>2, <1>3, <1>15, <3>2, <3>3
    <3>5. QED
      BY <3>1, <3>4 DEF claim
  <2>3. QED
    BY <2>1, <2>2
<1>17. ASSUME NEW r \in Sweeper, NEW m \in DOMAIN sweeper[r].claims,
              NEW n \in DOMAIN sweeper'[s].claims
       PROVE  sweeper[r].claims[m] # sweeper'[s].claims[n]
  <2> DEFINE e == sweeper'[s].claims[n].event
  <2>1. e \in taken /\ e \in Event /\ sweeper'[s].claims[n].token = delivery[e].token + 1
    BY <1>6, <1>8
  <2>2. event[e] = "written" /\ delivery[e].token \in Nat
    BY <1>3, <1>7, <2>1
  <2> SUFFICES ASSUME sweeper[r].claims[m] = sweeper'[s].claims[n]
               PROVE  FALSE
    OBVIOUS
  <2>3. event[sweeper[r].claims[m].event] = "written" =>
           sweeper[r].claims[m].token <= delivery[sweeper[r].claims[m].event].token
    BY DEF IInv, Delivering, TokensUsed
  <2>4. sweeper'[s].claims[n].token <= delivery[e].token
    BY <2>2, <2>3
  <2> HIDE DEF e
  <2>5. QED
    BY <2>1, <2>2, <2>4
<1>18. ClaimsDiffer'
  <2> SUFFICES ASSUME NEW q \in Sweeper, NEW r \in Sweeper,
                      NEW m \in DOMAIN sweeper'[q].claims, NEW n \in DOMAIN sweeper'[r].claims,
                      sweeper'[q].claims[m] = sweeper'[r].claims[n]
               PROVE  q = r /\ m = n
    BY DEF ClaimsDiffer
  <2>1. CASE q = s /\ r = s
    BY <1>1, <2>1 DEF HandFilled
  <2>2. CASE q = s /\ r # s
    BY <1>4, <1>17, <2>2
  <2>3. CASE q # s /\ r = s
    BY <1>4, <1>17, <2>3
  <2>4. CASE q # s /\ r # s
    BY <1>4, <2>4 DEF IInv, Delivering, ClaimsDiffer
  <2>5. QED
    BY <2>1, <2>2, <2>3, <2>4
<1>19. SentWasSent'
  <2>1. ASSUME NEW r \in Sweeper, sweeper'[r].pc = "ack", sweeper'[r].result = "sent"
        PROVE  sends'[Head(sweeper'[r].claims).event] > 0
    <3>1. r # s
      BY <1>5, <2>1
    <3>2. QED
      BY <1>2, <1>4, <2>1, <3>1 DEF IInv, Delivering, SentWasSent, Current
  <2>2. QED
    BY <2>1 DEF SentWasSent, Current
<1>20. ASSUME NEW e \in Event
       PROVE  Pending(e)' \subseteq IF e \in handed THEN Pending(e) \union {delivery[e].token + 1}
                                    ELSE Pending(e)
  <2>1. ASSUME NEW t \in Nat, NEW r \in Sweeper, Waits(r, [event |-> e, token |-> t])'
        PROVE  \/ Waits(r, [event |-> e, token |-> t])
               \/ e \in handed /\ t = delivery[e].token + 1
    <3>1. CASE r = s
      <4>1. PICK n \in DOMAIN sweeper'[s].claims :
               sweeper'[s].claims[n] = [event |-> e, token |-> t]
        BY <2>1, <3>1 DEF Waits
      <4>2. QED
        BY <1>6, <4>1
    <3>2. CASE r # s
      BY <1>4, <2>1, <3>2 DEF Waits
    <3>3. QED
      BY <3>1, <3>2
  <2>2. QED
    BY <2>1 DEF Pending
<1>21. TriesPaid'
  <2> SUFFICES ASSUME NEW e \in Event
               PROVE  /\ IsFiniteSet(Pending(e)')
                      /\ sends[e] + Cardinality(Pending(e)')
                            <= MaxAttempts * redrives[e] + spent'[e]
    BY <1>2 DEF TriesPaid
  <2>1. /\ IsFiniteSet(Pending(e)) /\ Cardinality(Pending(e)) \in Nat
        /\ sends[e] + Cardinality(Pending(e)) <= MaxAttempts * redrives[e] + spent[e]
    BY FS_CardinalityType DEF IInv, Delivering, TriesPaid
  <2> DEFINE paid == MaxAttempts * redrives[e]
  <2>2. paid \in Nat
    BY DEF IInv, TypeOK, BoundsAssumption
  <2>3. sends[e] + Cardinality(Pending(e)) <= paid + spent[e]
    BY <2>1
  <2> HIDE DEF paid
  <2>4. IsFiniteSet(Pending(e)') /\ sends[e] + Cardinality(Pending(e)') <= paid + spent'[e]
    <3>1. CASE e \in handed
      <4> DEFINE fresh == Pending(e) \union {delivery[e].token + 1}
      <4>1. IsFiniteSet(fresh) /\ Cardinality(fresh) \in Nat
            /\ Cardinality(fresh) <= Cardinality(Pending(e)) + 1
        <5> DEFINE t == delivery[e].token + 1
        <5> HIDE DEF t
        <5>1. CASE t \in Pending(e)
          <6>1. Pending(e) \union {t} = Pending(e)
            BY <5>1
          <6>2. QED
            BY <2>1, <6>1 DEF t
        <5>2. CASE t \notin Pending(e)
          <6>1. /\ IsFiniteSet(Pending(e) \union {t})
                /\ Cardinality(Pending(e) \union {t}) = Cardinality(Pending(e)) + 1
            BY <2>1, <5>2, FS_AddElement
          <6>2. QED
            BY <2>1, <6>1 DEF t
        <5>3. QED
          BY <5>1, <5>2
      <4>2. Pending(e)' \subseteq fresh
        BY <1>20, <3>1
      <4>3. IsFiniteSet(Pending(e)') /\ Cardinality(Pending(e)') \in Nat
            /\ Cardinality(Pending(e)') <= Cardinality(Pending(e)) + 1
        <5> HIDE DEF fresh
        <5>1. IsFiniteSet(Pending(e)') /\ Cardinality(Pending(e)') <= Cardinality(fresh)
          BY <4>1, <4>2, FS_Subset
        <5>2. Cardinality(Pending(e)') \in Nat
          BY <5>1, FS_CardinalityType
        <5>3. QED
          BY <2>1, <4>1, <5>1, <5>2
      <4>4. spent'[e] = spent[e] + 1
        BY <1>8, <3>1
      <4>5. QED
        BY <1>3, <2>1, <2>2, <2>3, <4>3, <4>4
    <3>2. CASE e \notin handed
      <4>1. IsFiniteSet(Pending(e)') /\ Cardinality(Pending(e)') \in Nat
            /\ Cardinality(Pending(e)') <= Cardinality(Pending(e))
        BY <1>20, <2>1, <3>2, FS_Subset, FS_CardinalityType
      <4>2. spent'[e] = spent[e]
        BY <1>10, <1>11, <3>2
      <4>3. QED
        BY <1>3, <2>1, <2>2, <2>3, <4>1, <4>2
    <3>3. QED
      BY <3>1, <3>2
  <2>5. QED
    BY <2>4 DEF paid
<1>22. QED
  BY <1>12, <1>13, <1>14, <1>16, <1>18, <1>19, <1>21 DEF Delivering

--------------------------------------------------------------------------------
(* Steps of time, the operator and the rest of the system *)

\* What the sweeps keep when they do nothing themselves.
LEMMA SweepsStand ==
  ASSUME IInv, UNCHANGED <<sweeper, sends>>
  PROVE  /\ ClaimsInWork' /\ ClaimsDiffer' /\ SentWasSent'
         /\ \A e \in Event : Pending(e)' = Pending(e)
<1>1. ClaimsInWork' /\ ClaimsDiffer'
  BY DEF IInv, Delivering, ClaimsInWork, ClaimsDiffer
<1>2. SentWasSent'
  BY DEF IInv, Delivering, SentWasSent, Current
<1>3. \A e \in Event : Pending(e)' = Pending(e)
  BY DEF Pending, Waits
<1>4. QED
  BY <1>1, <1>2, <1>3

\* A lease expires, or the time of a retry has come.
LEMMA TimeKeeps ==
  ASSUME BoundsAssumption, IInv, NEW e \in Event, LeaseExpires(e) \/ BackoffElapses(e)
  PROVE  Delivering'
<1>1. /\ delivery \in [Event -> Row]
      /\ UNCHANGED <<event, sweeper, sends, spent, redrives>>
      /\ \/ delivery' = [delivery EXCEPT ![e].stale = TRUE]
         \/ delivery' = [delivery EXCEPT ![e].due = TRUE]
  BY DEF LeaseExpires, BackoffElapses, IInv, TypeOK
<1>2. \A q \in Event : /\ delivery'[q].status = delivery[q].status
                       /\ delivery'[q].disposition = delivery[q].disposition
                       /\ delivery'[q].error = delivery[q].error
                       /\ delivery'[q].attempts = delivery[q].attempts
                       /\ delivery'[q].token = delivery[q].token
  <2>1. CASE delivery' = [delivery EXCEPT ![e].stale = TRUE]
    BY <1>1, <2>1 DEF Row
  <2>2. CASE delivery' = [delivery EXCEPT ![e].due = TRUE]
    BY <1>1, <2>2 DEF Row
  <2>3. QED
    BY <1>1, <2>1, <2>2
<1>3. \A q \in Event : /\ Settled(q)' <=> Settled(q)
                       /\ NextAttempt(delivery'[q]) = NextAttempt(delivery[q])
  BY <1>2 DEF Settled, NextAttempt
<1>4. RowsAgree' /\ AttemptsCount'
  <2>1. RowsAgree'
    BY <1>1, <1>2, <1>3 DEF IInv, Delivering, RowsAgree
  <2>2. AttemptsCount'
    BY <1>1, <1>3 DEF IInv, Delivering, AttemptsCount
  <2>3. QED
    BY <2>1, <2>2
<1>5. \A q \in Event : delivery[q].token \in Nat /\ delivery'[q].token \in Nat
                       /\ delivery[q].token <= delivery'[q].token
  BY <1>1, <1>2 DEF Row
<1>6. TokensUsed'
  <2>1. CASE Sweeper = {}
    BY <2>1 DEF TokensUsed
  <2>2. CASE Sweeper # {}
    BY <1>1, <1>5, <2>2, TokensKeep
  <2>3. QED
    BY <2>1, <2>2
<1>7. TriesPaid'
  <2>1. \A q \in Event : Pending(q)' \subseteq Pending(q)
    BY <1>1, SweepsStand
  <2>2. QED
    BY <1>1, <2>1, PaidKeeps
<1>8. QED
  BY <1>1, <1>4, <1>6, <1>7, SweepsStand DEF Delivering

\* An operator grants the tries of an event again: those spent so far are booked.
LEMMA RedriveKeeps ==
  ASSUME BoundsAssumption, IInv, NEW e \in Event, RedriveFailed(e)
  PROVE  Delivering'
<1>1. /\ delivery[e].status = "failed" /\ delivery[e] \in Row
      /\ delivery' = [delivery EXCEPT ![e] =
             [@ EXCEPT !.disposition = "none", !.due = TRUE, !.attempts = 1,
                       !.error = "manual_redrive"]]
      /\ redrives' = [redrives EXCEPT ![e] = @ + 1]
      /\ spent' = [spent EXCEPT ![e] = 0]
      /\ UNCHANGED <<event, sweeper, sends>>
      /\ delivery \in [Event -> Row] /\ redrives \in [Event -> Nat]
      /\ spent \in [Event -> Nat] /\ sends \in [Event -> Nat]
  BY DEF RedriveFailed, IInv, TypeOK
<1>2. /\ delivery'[e].status = "failed" /\ delivery'[e].disposition = "none"
      /\ delivery'[e].error = "manual_redrive" /\ delivery'[e].attempts = 1
      /\ delivery'[e].token = delivery[e].token
      /\ \A q \in Event : q # e => delivery'[q] = delivery[q]
  BY <1>1 DEF Row
<1>3. /\ spent'[e] = 0 /\ redrives'[e] = redrives[e] + 1
      /\ \A q \in Event : q # e => spent'[q] = spent[q] /\ redrives'[q] = redrives[q]
  BY <1>1
<1>4. RowsAgree'
  <2> SUFFICES ASSUME NEW q \in Event
               PROVE  /\ delivery'[q].status # "none" => event'[q] = "written"
                      /\ delivery'[q].status \in {"none", "claimed"} =>
                             delivery'[q].disposition = "none" /\ delivery'[q].error = "none"
                      /\ delivery'[q].status = "failed" =>
                             delivery'[q].disposition \in {"none", "given_up"}
                      /\ delivery'[q].status = "succeeded" =>
                             delivery'[q].disposition \in Success
                      /\ delivery'[q].status = "claimed" => delivery'[q].attempts >= 1
                      /\ ~Settled(q)' => delivery'[q].attempts <= MaxAttempts
    BY DEF RowsAgree
  <2>1. CASE q = e
    <3>1. event[e] = "written"
      BY <1>1 DEF IInv, Delivering, RowsAgree
    <3>2. QED
      BY <1>1, <1>2, <2>1, <3>1 DEF BoundsAssumption
  <2>2. CASE q # e
    <3>1. Settled(q)' <=> Settled(q)
      BY <1>2, <2>2 DEF Settled
    <3>2. QED
      BY <1>1, <1>2, <2>2, <3>1 DEF IInv, Delivering, RowsAgree
  <2>3. QED
    BY <2>1, <2>2
<1>5. AttemptsCount'
  <2> SUFFICES ASSUME NEW q \in Event
               PROVE  /\ spent'[q] <= MaxAttempts
                      /\ event'[q] # "purged" /\ ~Settled(q)' =>
                             spent'[q] + 1 = NextAttempt(delivery'[q])
    BY DEF AttemptsCount
  <2>1. CASE q = e
    BY <1>2, <1>3, <2>1 DEF NextAttempt, BoundsAssumption
  <2>2. CASE q # e
    <3>1. Settled(q)' <=> Settled(q)
      BY <1>2, <2>2 DEF Settled
    <3>2. QED
      BY <1>1, <1>2, <1>3, <2>2, <3>1 DEF IInv, Delivering, AttemptsCount
  <2>3. QED
    BY <2>1, <2>2
<1>6. \A q \in Event : delivery[q].token \in Nat /\ delivery'[q].token \in Nat
                       /\ delivery[q].token <= delivery'[q].token
  <2>1. \A q \in Event : delivery[q].token \in Nat
    BY <1>1 DEF Row
  <2>2. \A q \in Event : delivery'[q].token = delivery[q].token
    BY <1>2
  <2>3. QED
    BY <2>1, <2>2
<1>7. TokensUsed'
  <2>1. CASE Sweeper = {}
    BY <2>1 DEF TokensUsed
  <2>2. CASE Sweeper # {}
    BY <1>1, <1>6, <2>2, TokensKeep
  <2>3. QED
    BY <2>1, <2>2
<1>8. TriesPaid'
  <2> SUFFICES ASSUME NEW q \in Event
               PROVE  /\ IsFiniteSet(Pending(q)')
                      /\ sends[q] + Cardinality(Pending(q)')
                            <= MaxAttempts * redrives'[q] + spent'[q]
    BY <1>1 DEF TriesPaid
  <2>1. /\ IsFiniteSet(Pending(q)) /\ Cardinality(Pending(q)) \in Nat
        /\ sends[q] + Cardinality(Pending(q)) <= MaxAttempts * redrives[q] + spent[q]
    BY FS_CardinalityType DEF IInv, Delivering, TriesPaid
  <2>2. Pending(q)' = Pending(q)
    BY <1>1, SweepsStand
  <2>3. CASE q = e
    <3> DEFINE paid == MaxAttempts * redrives[e]
    <3>1. MaxAttempts \in Nat /\ redrives[e] \in Nat /\ paid \in Nat
      BY <1>1 DEF BoundsAssumption
    <3>2. MaxAttempts * (redrives[e] + 1) = paid + MaxAttempts
      BY <3>1
    <3>3. spent[e] <= MaxAttempts /\ spent[e] \in Nat /\ sends[e] \in Nat
      BY <1>1 DEF IInv, Delivering, AttemptsCount
    <3>4. sends[e] + Cardinality(Pending(q)) <= paid + spent[e]
      BY <2>1, <2>3
    <3>5. MaxAttempts * redrives'[q] = paid + MaxAttempts
      BY <1>3, <2>3, <3>2
    <3> HIDE DEF paid
    <3>6. QED
      BY <1>3, <2>1, <2>2, <2>3, <3>1, <3>3, <3>4, <3>5
  <2>4. CASE q # e
    BY <1>3, <2>1, <2>2, <2>4
  <2>5. QED
    BY <2>3, <2>4
<1>9. QED
  BY <1>1, <1>4, <1>5, <1>7, <1>8, SweepsStand DEF Delivering

\* An event is written: it has no row yet, and no sweep claims it.
LEMMA WriteEventKeeps ==
  ASSUME BoundsAssumption, IInv, NEW e \in Event, WriteEvent(e)
  PROVE  Delivering'
<1>1. /\ event[e] = "absent" /\ event' = [event EXCEPT ![e] = "written"]
      /\ event \in [Event -> {"absent", "written", "purged"}]
      /\ UNCHANGED <<delivery, sweeper, sends, spent, redrives>>
  BY DEF WriteEvent, IInv, TypeOK
<1>2. event'[e] = "written" /\ \A q \in Event : q # e => event'[q] = event[q]
  BY <1>1
<1>3. \A q \in Event : Settled(q)' <=> Settled(q)
  BY <1>1 DEF Settled
<1>4. RowsAgree'
  BY <1>1, <1>2, <1>3 DEF IInv, Delivering, RowsAgree
<1>5. AttemptsCount'
  BY <1>1, <1>2, <1>3 DEF IInv, Delivering, AttemptsCount
<1>6. TokensUsed'
  <2>1. CASE Sweeper = {}
    BY <2>1 DEF TokensUsed
  <2>2. CASE Sweeper # {}
    <3>1. \A q \in Event : delivery[q].token \in Nat /\ delivery'[q].token \in Nat
                           /\ delivery[q].token <= delivery'[q].token
      BY <1>1 DEF IInv, TypeOK, Row
    <3>2. \A q \in Event : /\ event'[q] = "absent" => event[q] = "absent"
                           /\ event[q] # "absent" /\ event'[q] = "written"
                                => event[q] = "written"
      BY <1>1, <1>2
    <3>3. QED
      BY <1>1, <2>2, <3>1, <3>2, TokensKeep
  <2>3. QED
    BY <2>1, <2>2
<1>7. TriesPaid'
  <2>1. \A q \in Event : Pending(q)' \subseteq Pending(q)
    BY <1>1, SweepsStand
  <2>2. QED
    BY <1>1, <2>1, PaidKeeps
<1>8. QED
  BY <1>1, <1>4, <1>5, <1>6, <1>7, SweepsStand DEF Delivering

\* The purge of an item deletes the row; a claim of it is of no use any more.
LEMMA PurgeEventKeeps ==
  ASSUME BoundsAssumption, IInv, NEW e \in Event, PurgeEvent(e)
  PROVE  Delivering'
<1>1. /\ event' = [event EXCEPT ![e] = "purged"]
      /\ delivery' = [delivery EXCEPT ![e] = NoRow]
      /\ event \in [Event -> {"absent", "written", "purged"}]
      /\ delivery \in [Event -> Row]
      /\ UNCHANGED <<sweeper, sends, spent, redrives>>
  BY DEF PurgeEvent, IInv, TypeOK
<1>2. /\ event'[e] = "purged" /\ \A q \in Event : q # e => event'[q] = event[q]
      /\ delivery'[e] = NoRow /\ \A q \in Event : q # e => delivery'[q] = delivery[q]
  BY <1>1
<1>3. \A q \in Event : q # e => (Settled(q)' <=> Settled(q))
  BY <1>2 DEF Settled
<1>4. RowsAgree'
  <2> SUFFICES ASSUME NEW q \in Event
               PROVE  /\ delivery'[q].status # "none" => event'[q] = "written"
                      /\ delivery'[q].status \in {"none", "claimed"} =>
                             delivery'[q].disposition = "none" /\ delivery'[q].error = "none"
                      /\ delivery'[q].status = "failed" =>
                             delivery'[q].disposition \in {"none", "given_up"}
                      /\ delivery'[q].status = "succeeded" =>
                             delivery'[q].disposition \in Success
                      /\ delivery'[q].status = "claimed" => delivery'[q].attempts >= 1
                      /\ ~Settled(q)' => delivery'[q].attempts <= MaxAttempts
    BY DEF RowsAgree
  <2>1. CASE q = e
    BY <1>2, <2>1 DEF NoRow, BoundsAssumption
  <2>2. CASE q # e
    BY <1>2, <1>3, <2>2 DEF IInv, Delivering, RowsAgree
  <2>3. QED
    BY <2>1, <2>2
<1>5. AttemptsCount'
  BY <1>1, <1>2, <1>3 DEF IInv, Delivering, AttemptsCount
<1>6. TokensUsed'
  <2>1. CASE Sweeper = {}
    BY <2>1 DEF TokensUsed
  <2>2. CASE Sweeper # {}
    <3>1. \A q \in Event : delivery[q].token \in Nat /\ delivery'[q].token \in Nat
                           /\ (q # e => delivery[q].token <= delivery'[q].token)
      BY <1>1, <1>2 DEF Row, NoRow
    <3>2. \A q \in Event : /\ event'[q] = "absent" => event[q] = "absent"
                           /\ event[q] # "absent" /\ event'[q] = "written"
                                => event[q] = "written" /\ q # e
      BY <1>1, <1>2
    <3>3. QED
      BY <1>1, <2>2, <3>1, <3>2, TokensKeep
  <2>3. QED
    BY <2>1, <2>2
<1>7. TriesPaid'
  <2>1. \A q \in Event : Pending(q)' \subseteq Pending(q)
    BY <1>1, SweepsStand
  <2>2. QED
    BY <1>1, <2>1, PaidKeeps
<1>8. QED
  BY <1>1, <1>4, <1>5, <1>6, <1>7, SweepsStand DEF Delivering

\* A step that leaves the rows, the sweeps and the counters alone.
LEMMA OthersKeep ==
  ASSUME IInv, UNCHANGED <<event, delivery, sweeper, sends, spent, redrives>>
  PROVE  Delivering'
<1>1. RowsAgree' /\ AttemptsCount' /\ TokensUsed'
  BY DEF IInv, Delivering, RowsAgree, AttemptsCount, TokensUsed, Settled
<1>2. TriesPaid'
  <2>1. \A q \in Event : Pending(q)' = Pending(q)
    BY SweepsStand
  <2>2. QED
    BY <2>1 DEF IInv, Delivering, TriesPaid
<1>3. QED
  BY <1>1, <1>2, SweepsStand DEF Delivering

--------------------------------------------------------------------------------
(* The theorems *)

\* Every step keeps the invariant.
LEMMA NextInv == BoundsAssumption /\ IInv /\ [Next]_vars => IInv'
<1> SUFFICES ASSUME BoundsAssumption, IInv, [Next]_vars PROVE IInv'
  OBVIOUS
<1>1. ASSUME NEW s \in Sweeper, SweepStep(s) PROVE Delivering'
  BY <1>1, ScanKeeps, ClaimBatchKeeps, LoadTargetKeeps, SendMessageKeeps,
     AckSucceededKeeps, AckFailureKeeps DEF SweepStep
<1>2. ASSUME NEW s \in Sweeper, SweepMishap(s) PROVE Delivering'
  BY <1>2, LoadRaisesKeeps, AckRaisesKeeps, AckTooLateKeeps, DeferUnsentKeeps,
     SweepEndsKeeps DEF SweepMishap
<1>3. ASSUME NEW e \in Event,
             LeaseExpires(e) \/ BackoffElapses(e) \/ RedriveFailed(e)
                 \/ WriteEvent(e) \/ PurgeEvent(e)
      PROVE  Delivering'
  BY <1>3, TimeKeeps, RedriveKeeps, WriteEventKeeps, PurgeEventKeeps
<1>4. ASSUME NEW e \in Event, TargetChanges(e) PROVE Delivering'
  BY <1>4, OthersKeep DEF TargetChanges
<1>5. ASSUME UNCHANGED vars PROVE Delivering'
  <2>1. UNCHANGED <<event, delivery, sweeper, sends, spent, redrives>>
    BY <1>5 DEF vars
  <2>2. QED
    BY <2>1, OthersKeep
<1>6. Delivering'
  <2>1. CASE \E s \in Sweeper : SweepStep(s) \/ SweepMishap(s)
    BY <1>1, <1>2, <2>1
  <2>2. CASE \E e \in Event : \/ LeaseExpires(e) \/ BackoffElapses(e) \/ RedriveFailed(e)
                             \/ WriteEvent(e) \/ TargetChanges(e) \/ PurgeEvent(e)
    BY <1>3, <1>4, <2>2
  <2>3. QED
    BY <1>5, <2>1, <2>2 DEF Next
<1>7. QED
  BY <1>6, TypesKept DEF IInv

\* The invariant holds for every number of events, sweeps, attempts and redrives.
THEOREM NotificationInvariance == BoundsAssumption /\ Spec => []IInv
<1> SUFFICES ASSUME BoundsAssumption PROVE Spec => []IInv
  OBVIOUS
<1>1. Init => IInv
  BY InitInv
<1>2. IInv /\ [Next]_vars => IInv'
  BY NextInv
<1>3. QED
  BY <1>1, <1>2, PTL DEF Spec

\* The variables keep the types the model declares.
THEOREM NotificationTypes == BoundsAssumption /\ Spec => []TypeOK
<1>1. IInv => TypeOK
  BY DEF IInv
<1>2. QED
  BY <1>1, NotificationInvariance, PTL

\* A row that leaves its claim is left by the sweep that holds the claim's token
\* (notifications.py _ack_succeeded, _ack_failure, _release_deferred_claims),
\* however many sweeps send at the same time.
THEOREM OnlyHolder == BoundsAssumption /\ Spec => OnlyHolderSettles
<1> SUFFICES ASSUME BoundsAssumption PROVE Spec => OnlyHolderSettles
  OBVIOUS
<1>1. IInv /\ [Next]_vars =>
        [\A e \in Event :
           /\ delivery[e].status = "claimed" /\ ~delivery[e].stale
           /\ delivery'[e].status # "claimed"
           /\ event'[e] = "written"
           => \E s \in Sweeper :
                  /\ sweeper'[s] # sweeper[s]
                  /\ \E n \in DOMAIN sweeper[s].claims :
                         sweeper[s].claims[n] = [event |-> e, token |-> delivery[e].token]]_vars
  <2> DEFINE HeldBy(e) ==
          \E s \in Sweeper :
              /\ sweeper'[s] # sweeper[s]
              /\ \E n \in DOMAIN sweeper[s].claims :
                     sweeper[s].claims[n] = [event |-> e, token |-> delivery[e].token]
  <2> SUFFICES ASSUME IInv, [Next]_vars, NEW e \in Event,
                      delivery[e].status = "claimed", ~delivery[e].stale,
                      delivery'[e].status # "claimed", event'[e] = "written"
               PROVE  HeldBy(e)
    OBVIOUS
  <2>1. ASSUME NEW s \in Sweeper, NEW n \in DOMAIN sweeper[s].claims,
               Holds(sweeper[s].claims[n]), sweeper[s].claims[n].event = e
        PROVE  sweeper[s].claims[n] = [event |-> e, token |-> delivery[e].token]
    <3>1. sweeper[s].claims \in Seq(Claim)
      BY InHand
    <3>2. sweeper[s].claims[n] \in Claim
      BY <3>1
    <3>3. QED
      BY <2>1, <3>2 DEF Claim, Holds
  <2>2. ASSUME NEW s \in Sweeper, AckSucceeded(s) \/ AckFailure(s) PROVE HeldBy(e)
    <3>1. /\ 1 \in DOMAIN sweeper[s].claims /\ Current(s) = sweeper[s].claims[1]
          /\ Current(s).event \in Event
      BY <2>2, InHand DEF AckSucceeded, AckFailure, Working, Claim
    <3>2. Holds(Current(s)) /\ Current(s).event = e
      BY <2>2, <3>1 DEF AckSucceeded, AckFailure, IInv, TypeOK
    <3>3. sweeper'[s].pc # "ack" /\ sweeper[s].pc = "ack"
      BY <2>2, HandSteps DEF AckSucceeded, AckFailure
    <3>4. sweeper[s].claims[1] = [event |-> e, token |-> delivery[e].token]
      BY <2>1, <3>1, <3>2
    <3>5. QED
      BY <3>1, <3>3, <3>4
  <2>3. ASSUME NEW s \in Sweeper, DeferUnsent(s) PROVE HeldBy(e)
    <3>1. PICK n \in DOMAIN sweeper[s].claims :
             sweeper[s].claims[n].event = e /\ Holds(sweeper[s].claims[n])
      BY <2>3 DEF DeferUnsent
    <3>2. sweeper'[s] = Idle /\ sweeper[s].pc # "idle"
      BY <2>3 DEF DeferUnsent, IInv, TypeOK
    <3>3. sweeper'[s] # sweeper[s]
      BY <3>2 DEF Idle
    <3>4. QED
      BY <2>1, <3>1, <3>3
  <2>4. ASSUME NEW s \in Sweeper, ClaimBatch(s) PROVE FALSE
    <3>1. PICK handed \in SUBSET Event, taken \in SUBSET Event :
             RowsClaimed(handed, taken) /\ HandFilled(s, handed)
      BY <2>4, ClaimEffect
    <3>2. e \notin taken
      BY <3>1 DEF RowsClaimed, Eligible, Retrying
    <3>3. delivery'[e] = delivery[e]
      BY <3>1, <3>2 DEF RowsClaimed
    <3>4. QED
      BY <3>3
  <2>5. ASSUME NEW q \in Event, LeaseExpires(q) \/ BackoffElapses(q) PROVE FALSE
    <3>1. delivery \in [Event -> Row]
      BY DEF IInv, TypeOK
    <3>2. \A p \in Event : delivery'[p].status = delivery[p].status
      <4>1. CASE LeaseExpires(q)
        BY <3>1, <4>1 DEF LeaseExpires, Row
      <4>2. CASE BackoffElapses(q)
        BY <3>1, <4>2 DEF BackoffElapses, Row
      <4>3. QED
        BY <2>5, <4>1, <4>2
    <3>3. QED
      BY <3>2
  <2>6. ASSUME NEW q \in Event, RedriveFailed(q) PROVE FALSE
    <3>1. e # q
      BY <2>6 DEF RedriveFailed
    <3>2. delivery'[e] = delivery[e]
      BY <2>6, <3>1 DEF RedriveFailed, IInv, TypeOK
    <3>3. QED
      BY <3>2
  <2>7. ASSUME NEW q \in Event, PurgeEvent(q) PROVE FALSE
    <3>1. e # q
      BY <2>7 DEF PurgeEvent, IInv, TypeOK
    <3>2. delivery'[e] = delivery[e]
      BY <2>7, <3>1 DEF PurgeEvent, IInv, TypeOK
    <3>3. QED
      BY <3>2
  <2>8. CASE delivery' = delivery
    BY <2>8
  <2>9. ASSUME NEW s \in Sweeper, SweepStep(s) PROVE HeldBy(e)
    BY <2>2, <2>4, <2>8, <2>9
       DEF SweepStep, Scan, LoadTarget, SendMessage
  <2>10. ASSUME NEW s \in Sweeper, SweepMishap(s) PROVE HeldBy(e)
    BY <2>3, <2>8, <2>10 DEF SweepMishap, LoadRaises, AckRaises, AckTooLate, SweepEnds
  <2>11. ASSUME NEW q \in Event,
               \/ LeaseExpires(q) \/ BackoffElapses(q) \/ RedriveFailed(q)
               \/ WriteEvent(q) \/ TargetChanges(q) \/ PurgeEvent(q)
         PROVE  HeldBy(e)
    BY <2>5, <2>6, <2>7, <2>8, <2>11 DEF WriteEvent, TargetChanges
  <2>12. CASE UNCHANGED vars
    BY <2>8, <2>12 DEF vars
  <2>13. QED
    BY <2>9, <2>10, <2>11, <2>12 DEF Next
<1>2. QED
  BY <1>1, NotificationInvariance, PTL DEF Spec, OnlyHolderSettles

--------------------------------------------------------------------------------
(* The refinement of the ledger *)

\* What the ledger sees of a step.
Seen == <<[e \in Event |-> Outcome(e)], sends,
          [e \in Event |-> MaxAttempts * (1 + redrives[e])]>>

\* The outcome of an event that is written, and of the others.
LEMMA OutcomeCases ==
  ASSUME NEW e \in Event
  PROVE  /\ event[e] = "absent" => Outcome(e) = "absent"
         /\ event[e] = "purged" => Outcome(e) = "gone"
         /\ event[e] = "written" /\ ~Settled(e) => Outcome(e) = "owed"
         /\ event[e] = "written" /\ Settled(e) => Outcome(e) = delivery[e].disposition
  BY DEF Outcome

\* The ledger does not see a step that settles nothing and sends nothing.
LEMMA NothingSettled ==
  ASSUME TypeOK, UNCHANGED <<event, sends, redrives>>,
         \A e \in Event : /\ Settled(e)' <=> Settled(e)
                          /\ Settled(e) => delivery'[e].disposition = delivery[e].disposition
  PROVE  UNCHANGED Seen
<1>1. \A e \in Event : Outcome(e)' = Outcome(e)
  <2> TAKE e \in Event
  <2>1. event[e] \in {"absent", "written", "purged"} /\ event'[e] = event[e]
    BY DEF TypeOK
  <2>2. /\ event'[e] = "absent" => Outcome(e)' = "absent"
        /\ event'[e] = "purged" => Outcome(e)' = "gone"
        /\ event'[e] = "written" /\ ~Settled(e)' => Outcome(e)' = "owed"
        /\ event'[e] = "written" /\ Settled(e)' => Outcome(e)' = delivery'[e].disposition
    BY DEF Outcome
  <2>3. QED
    BY <2>1, <2>2, OutcomeCases
<1>2. [e \in Event |-> Outcome(e)]' = [e \in Event |-> Outcome(e)]
  BY <1>1
<1>3. [e \in Event |-> MaxAttempts * (1 + redrives[e])]'
          = [e \in Event |-> MaxAttempts * (1 + redrives[e])]
  OBVIOUS
<1>4. QED
  BY <1>2, <1>3 DEF Seen

\* What the ledger sees of a step that changes the row of one event.
LEMMA OutcomeOfOne ==
  ASSUME NEW e \in Event,
         \A q \in Event : q # e => delivery'[q] = delivery[q] /\ event'[q] = event[q]
  PROVE  [q \in Event |-> Outcome(q)]'
            = [[q \in Event |-> Outcome(q)] EXCEPT ![e] = Outcome(e)']
<1>1. \A q \in Event : q # e => Outcome(q)' = Outcome(q)
  <2> SUFFICES ASSUME NEW q \in Event, q # e PROVE Outcome(q)' = Outcome(q)
    OBVIOUS
  <2>1. delivery'[q] = delivery[q] /\ event'[q] = event[q]
    OBVIOUS
  <2>2. QED
    BY <2>1 DEF Outcome, Settled
<1>2. \A q \in Event : Outcome(q)' = IF q = e THEN Outcome(e)' ELSE Outcome(q)
  BY <1>1
<1>3. QED
  BY <1>2

\* What was granted does not change unless somebody redrives.
LEMMA GrantsStand ==
  ASSUME UNCHANGED redrives
  PROVE  [e \in Event |-> MaxAttempts * (1 + redrives[e])]'
            = [e \in Event |-> MaxAttempts * (1 + redrives[e])]
  OBVIOUS

\* A claimed row is owed.
LEMMA HeldIsOwed ==
  ASSUME IInv, NEW e \in Event, delivery[e].status = "claimed"
  PROVE  /\ event[e] = "written" /\ ~Settled(e) /\ Outcome(e) = "owed"
         /\ delivery[e].disposition = "none"
<1>1. event[e] = "written" /\ ~Settled(e) /\ delivery[e].disposition = "none"
  BY DEF IInv, Delivering, RowsAgree, Settled
<1>2. QED
  BY <1>1, OutcomeCases

\* A claim that finds events out of attempts gives them up, all in one.
LEMMA ClaimGivesUp ==
  ASSUME BoundsAssumption, IInv, NEW s \in Sweeper, ClaimBatch(s)
  PROVE  Ledger!Next
<1>1. PICK handed \in SUBSET Event, taken \in SUBSET Event :
         RowsClaimed(handed, taken) /\ HandFilled(s, handed)
  BY ClaimEffect
<1> DEFINE E == taken \ handed
<1>2. UNCHANGED <<event, sends, redrives>>
  BY DEF ClaimBatch
<1>3. \A e \in taken : e \in Event /\ event[e] = "written" /\ Outcome(e) = "owed"
  BY <1>1, EligibleNext, OutcomeCases DEF RowsClaimed
<1>4. \A e \in Event : Outcome(e)' = IF e \in E THEN "given_up" ELSE Outcome(e)
  <2> TAKE e \in Event
  <2>1. CASE e \in E
    <3>1. /\ event'[e] = "written" /\ delivery'[e].status = "failed"
          /\ delivery'[e].disposition = "given_up"
      BY ZenonT(30), <1>1, <1>2, <1>3, <2>1 DEF RowsClaimed, Exhausted, NoRow
    <3>2. Settled(e)'
      BY <3>1 DEF Settled
    <3>3. Outcome(e)' = "given_up"
      BY <3>1, <3>2 DEF Outcome
    <3>4. QED
      BY <2>1, <3>3
  <2>2. CASE e \in handed
    <3>1. /\ event'[e] = "written" /\ delivery'[e].status = "claimed" /\ e \in taken
      BY <1>1, <1>2, <1>3, <2>2 DEF RowsClaimed, NoRow
    <3>2. ~Settled(e)'
      BY <3>1 DEF Settled
    <3>3. Outcome(e)' = "owed"
      BY <3>1, <3>2 DEF Outcome
    <3>4. QED
      BY <1>3, <2>2, <3>1, <3>3
  <2>3. CASE e \notin taken
    <3>1. event'[e] = event[e] /\ delivery'[e] = delivery[e]
      BY <1>1, <1>2, <2>3 DEF RowsClaimed
    <3>2. Outcome(e)' = Outcome(e)
      BY <3>1 DEF Outcome, Settled
    <3>3. QED
      BY <2>3, <3>2
  <2>4. QED
    BY <2>1, <2>2, <2>3
<1> HIDE DEF E
<1>5. E \in SUBSET Event /\ \A e \in E : Outcome(e) = "owed" /\ e \in Event
  BY <1>1, <1>3 DEF E
<1>6. [e \in Event |-> Outcome(e)]'
         = [e \in Event |-> IF e \in E THEN "given_up"
                            ELSE [q \in Event |-> Outcome(q)][e]]
  BY <1>4
<1>7. Ledger!GiveUp(E)
  BY <1>2, <1>5, <1>6, GrantsStand DEF Ledger!GiveUp
<1>8. QED
  BY <1>5, <1>7 DEF Ledger!Next

\* A message goes out at the expense of a try that was granted.
LEMMA SendIsGranted ==
  ASSUME BoundsAssumption, IInv, NEW s \in Sweeper, SendMessage(s)
  PROVE  [Ledger!Next]_Seen
<1> DEFINE to == Current(s).event
<1>1. to \in Event /\ Current(s).token \in Pending(to)
  <2>1. /\ sweeper[s].pc = "send"
        /\ sweeper[s].claims \in Seq(Claim) /\ 1 \in DOMAIN sweeper[s].claims
        /\ Current(s) = sweeper[s].claims[1] /\ Current(s) \in Claim
    BY InHand DEF Working, SendMessage
  <2>2. Current(s) = [event |-> Current(s).event, token |-> Current(s).token]
        /\ Current(s).token \in Nat /\ Current(s).event \in Event
    BY <2>1 DEF Claim
  <2>3. Waits(s, Current(s))
    BY <2>1 DEF Waits
  <2>4. QED
    BY <2>2, <2>3 DEF Pending
<1>2. UNCHANGED <<event, delivery, redrives>>
  BY DEF SendMessage
<1>3. \A e \in Event : Outcome(e)' = Outcome(e)
  BY <1>2 DEF Outcome, Settled
<1>4. [e \in Event |-> Outcome(e)]' = [e \in Event |-> Outcome(e)]
  BY <1>3
<1>5. \/ sends' = sends
      \/ sends' = [sends EXCEPT ![to] = @ + 1]
  BY DEF SendMessage
<1> HIDE DEF to
<1>6. CASE sends' = sends
  BY <1>2, <1>4, <1>6, GrantsStand DEF Seen
<1>7. CASE sends' = [sends EXCEPT ![to] = @ + 1]
  <2>1. /\ IsFiniteSet(Pending(to)) /\ Cardinality(Pending(to)) \in Nat
        /\ sends[to] + Cardinality(Pending(to)) <= MaxAttempts * redrives[to] + spent[to]
        /\ spent[to] <= MaxAttempts
    BY <1>1, FS_CardinalityType DEF IInv, Delivering, TriesPaid, AttemptsCount
  <2>2. Cardinality(Pending(to)) # 0
    BY <1>1, <2>1, FS_EmptySet
  <2>3. /\ MaxAttempts \in Nat /\ redrives[to] \in Nat /\ spent[to] \in Nat
        /\ sends[to] \in Nat
    BY <1>1 DEF IInv, TypeOK, BoundsAssumption
  <2> DEFINE paid == MaxAttempts * redrives[to]
             granted == MaxAttempts * (1 + redrives[to])
             count == Cardinality(Pending(to))
  <2>4. paid \in Nat /\ granted = paid + MaxAttempts
    BY <2>3
  <2>5. /\ count \in Nat /\ count # 0 /\ sends[to] + count <= paid + spent[to]
        /\ spent[to] <= MaxAttempts
    BY <2>1, <2>2
  <2> HIDE DEF paid, granted, count
  <2>a. sends[to] < granted
    BY <2>3, <2>4, <2>5
  <2>6. sends[to] < MaxAttempts * (1 + redrives[to])
    BY <2>a DEF granted
  <2>7. Ledger!Send(to)
    BY <1>1, <1>2, <1>4, <1>7, <2>6, GrantsStand DEF Ledger!Send
  <2>8. QED
    BY <1>1, <2>7 DEF Ledger!Next
<1>8. QED
  BY <1>5, <1>6, <1>7

\* An acknowledgement settles an event that was owed, as sent only if it was sent.
LEMMA SuccessIsLedgered ==
  ASSUME BoundsAssumption, IInv, NEW s \in Sweeper, AckSucceeded(s)
  PROVE  [Ledger!Next]_Seen
<1>1. /\ Current(s).event \in Event /\ sweeper[s].result \in Success
      /\ sweeper[s].pc = "ack" /\ delivery \in [Event -> Row]
      /\ UNCHANGED <<event, sends, redrives>>
  BY InHand DEF AckSucceeded, IInv, TypeOK, Claim, Working
<1>2. PICK to \in Event : to = Current(s).event
  BY <1>1
<1>3. PICK result \in Success : result = sweeper[s].result
  BY <1>1
<1>4. CASE delivery' = delivery
  BY <1>1, <1>4, NothingSettled DEF IInv, Settled
<1>5. CASE /\ Holds(Current(s))
           /\ delivery' = [delivery EXCEPT ![to] = [@ EXCEPT !.status = "succeeded",
                              !.disposition = result, !.stale = FALSE]]
  <2>1. event[to] = "written" /\ Outcome(to) = "owed"
    BY <1>2, <1>5, HeldIsOwed DEF Holds
  <2>2. /\ delivery'[to].status = "succeeded" /\ delivery'[to].disposition = result
        /\ \A q \in Event : q # to => delivery'[q] = delivery[q] /\ event'[q] = event[q]
        /\ event'[to] = "written"
    BY <1>1, <1>5, <2>1 DEF Row
  <2>3. Settled(to)'
    BY <2>2 DEF Settled
  <2>4. Outcome(to)' = result
    BY <2>2, <2>3 DEF Outcome
  <2>5. result = "sent" => sends[to] > 0
    BY <1>1, <1>2, <1>3 DEF IInv, Delivering, SentWasSent
  <2>6. [q \in Event |-> Outcome(q)]' = [[q \in Event |-> Outcome(q)] EXCEPT ![to] = result]
    BY <2>2, <2>4, OutcomeOfOne
  <2>7. Ledger!Succeed(to, result)
    BY <1>1, <2>1, <2>5, <2>6, GrantsStand DEF Ledger!Succeed
  <2>8. result \in Ledger!Success
    BY DEF Ledger!Success, Ledger!Skip, Success, Skip
  <2>9. QED
    BY <2>7, <2>8 DEF Ledger!Next
<1>6. QED
  BY <1>2, <1>3, <1>4, <1>5 DEF AckSucceeded

\* A failure gives an owed event up, or leaves it owed.
LEMMA FailureIsLedgered ==
  ASSUME BoundsAssumption, IInv, NEW s \in Sweeper, AckFailure(s)
  PROVE  [Ledger!Next]_Seen
<1>1. /\ Current(s).event \in Event
      /\ sweeper[s].pc = "ack" /\ delivery \in [Event -> Row]
      /\ UNCHANGED <<event, sends, redrives>>
  BY InHand DEF AckFailure, IInv, TypeOK, Claim, Working
<1>2. PICK to \in Event : to = Current(s).event
  BY <1>1
<1>3. CASE delivery' = delivery
  BY <1>1, <1>3, NothingSettled DEF IInv, Settled
<1>4. CASE /\ Holds(Current(s))
           /\ \E d \in {"given_up", "none"}, x \in {"retry_exhausted", "failure"} :
                 delivery' = [delivery EXCEPT ![to] = [@ EXCEPT !.status = "failed",
                                 !.disposition = d, !.error = x, !.stale = FALSE]]
  <2>1. PICK d \in {"given_up", "none"}, x \in {"retry_exhausted", "failure"} :
           delivery' = [delivery EXCEPT ![to] = [@ EXCEPT !.status = "failed",
                           !.disposition = d, !.error = x, !.stale = FALSE]]
    BY <1>4
  <2>2. event[to] = "written" /\ Outcome(to) = "owed" /\ ~Settled(to)
    BY <1>2, <1>4, HeldIsOwed DEF Holds
  <2>3. /\ delivery'[to].status = "failed" /\ delivery'[to].disposition = d
        /\ \A q \in Event : q # to => delivery'[q] = delivery[q] /\ event'[q] = event[q]
        /\ event'[to] = "written"
    BY <1>1, <2>1, <2>2 DEF Row
  <2>4. CASE d = "given_up"
    <3>1. Settled(to)'
      BY <2>3, <2>4 DEF Settled
    <3>2. Outcome(to)' = "given_up"
      BY <2>3, <2>4, <3>1 DEF Outcome
    <3>3. [q \in Event |-> Outcome(q)]'
             = [[q \in Event |-> Outcome(q)] EXCEPT ![to] = "given_up"]
      BY <2>3, <3>2, OutcomeOfOne
    <3>4. [q \in Event |-> Outcome(q)]'
             = [e \in Event |-> IF e \in {to} THEN "given_up"
                                ELSE [q \in Event |-> Outcome(q)][e]]
      BY <3>3
    <3>5. Ledger!GiveUp({to})
      BY <1>1, <2>2, <3>4, GrantsStand DEF Ledger!GiveUp
    <3>6. QED
      BY <3>5 DEF Ledger!Next
  <2>5. CASE d = "none"
    <3>1. ~Settled(to)'
      BY <2>3, <2>5 DEF Settled
    <3>2. \A e \in Event : /\ Settled(e)' <=> Settled(e)
                           /\ Settled(e) => delivery'[e].disposition = delivery[e].disposition
      <4> TAKE e \in Event
      <4>1. CASE e = to
        BY <2>2, <3>1, <4>1
      <4>2. CASE e # to
        BY <2>3, <4>2 DEF Settled
      <4>3. QED
        BY <4>1, <4>2
    <3>3. QED
      BY <1>1, <3>2, NothingSettled DEF IInv
  <2>6. QED
    BY <2>4, <2>5
<1>5. QED
  BY <1>2, <1>3, <1>4 DEF AckFailure

\* What a sweep hands back stays owed.
LEMMA DeferIsLedgered ==
  ASSUME BoundsAssumption, IInv, NEW s \in Sweeper, DeferUnsent(s)
  PROVE  UNCHANGED Seen
<1> DEFINE held == {e \in Event : \E n \in DOMAIN sweeper[s].claims :
                       /\ sweeper[s].claims[n].event = e
                       /\ Holds(sweeper[s].claims[n])}
<1>1. /\ delivery' = [e \in Event |->
            IF e \notin held THEN delivery[e]
            ELSE [delivery[e] EXCEPT !.status = "failed", !.stale = FALSE,
                     !.due = TRUE, !.error = "notification_deferred"]]
      /\ UNCHANGED <<event, sends, redrives>>
  BY DEF DeferUnsent
<1>2. \A e \in held : /\ e \in Event /\ ~Settled(e) /\ delivery[e].disposition = "none"
                      /\ delivery[e] \in Row
  BY HeldIsOwed DEF Holds, IInv, TypeOK
<1> HIDE DEF held
<1>3. \A e \in Event : /\ Settled(e)' <=> Settled(e)
                       /\ Settled(e) => delivery'[e].disposition = delivery[e].disposition
  <2> TAKE e \in Event
  <2>1. CASE e \in held
    <3>1. delivery'[e] = [delivery[e] EXCEPT !.status = "failed", !.stale = FALSE,
                             !.due = TRUE, !.error = "notification_deferred"]
      BY <1>1, <2>1
    <3>2. delivery'[e].status = "failed" /\ delivery'[e].disposition = "none"
      BY <1>2, <2>1, <3>1 DEF Row
    <3>3. ~Settled(e)'
      BY <3>2 DEF Settled
    <3>4. QED
      BY <1>2, <2>1, <3>3
  <2>2. CASE e \notin held
    <3>1. delivery'[e] = delivery[e]
      BY <1>1, <2>2
    <3>2. QED
      BY <3>1 DEF Settled
  <2>3. QED
    BY <2>1, <2>2
<1>4. QED
  BY <1>1, <1>3, NothingSettled DEF IInv

\* A redrive makes a failed event owed again, and grants its tries once more.
LEMMA RedriveIsLedgered ==
  ASSUME BoundsAssumption, IInv, NEW e \in Event, RedriveFailed(e)
  PROVE  Ledger!Next
<1>1. /\ delivery[e].status = "failed" /\ delivery[e] \in Row
      /\ delivery' = [delivery EXCEPT ![e] =
             [@ EXCEPT !.disposition = "none", !.due = TRUE, !.attempts = 1,
                       !.error = "manual_redrive"]]
      /\ redrives' = [redrives EXCEPT ![e] = @ + 1]
      /\ UNCHANGED <<event, sends>>
      /\ delivery \in [Event -> Row] /\ redrives \in [Event -> Nat]
      /\ MaxAttempts \in Nat
  BY DEF RedriveFailed, IInv, TypeOK, BoundsAssumption
<1>2. /\ event[e] = "written" /\ delivery[e].disposition \in {"none", "given_up"}
  BY <1>1 DEF IInv, Delivering, RowsAgree
<1>3. Outcome(e) \in {"owed", "given_up"}
  <2>1. CASE Settled(e)
    BY <1>1, <1>2, <2>1, OutcomeCases DEF Settled
  <2>2. CASE ~Settled(e)
    BY <1>2, <2>2, OutcomeCases
  <2>3. QED
    BY <2>1, <2>2
<1>4. /\ delivery'[e].status = "failed" /\ delivery'[e].disposition = "none"
      /\ \A q \in Event : q # e => delivery'[q] = delivery[q] /\ event'[q] = event[q]
      /\ event'[e] = "written"
  BY <1>1, <1>2 DEF Row
<1>5. ~Settled(e)'
  BY <1>4 DEF Settled
<1>6. Outcome(e)' = "owed"
  BY <1>4, <1>5 DEF Outcome
<1>7. [q \in Event |-> Outcome(q)]' = [[q \in Event |-> Outcome(q)] EXCEPT ![e] = "owed"]
  BY <1>4, <1>6, OutcomeOfOne
<1>8. [q \in Event |-> MaxAttempts * (1 + redrives[q])]'
         = [[q \in Event |-> MaxAttempts * (1 + redrives[q])] EXCEPT ![e] = @ + MaxAttempts]
  <2>1. MaxAttempts * (1 + (redrives[e] + 1)) = MaxAttempts * (1 + redrives[e]) + MaxAttempts
    <3>1. \A r \in Nat : MaxAttempts * (1 + (r + 1)) = MaxAttempts * (1 + r) + MaxAttempts
      BY <1>1
    <3>2. QED
      BY <1>1, <3>1
  <2>2. \A q \in Event : redrives'[q] = IF q = e THEN redrives[e] + 1 ELSE redrives[q]
    BY <1>1
  <2>3. \A q \in Event : MaxAttempts * (1 + redrives'[q])
                            = IF q = e THEN MaxAttempts * (1 + redrives[e]) + MaxAttempts
                              ELSE MaxAttempts * (1 + redrives[q])
    BY <2>1, <2>2
  <2>4. QED
    BY <2>3
<1>9. Ledger!Redrive(e)
  BY <1>1, <1>3, <1>7, <1>8 DEF Ledger!Redrive
<1>10. QED
  BY <1>9 DEF Ledger!Next

\* A new event is owed, a purged one forgotten.
LEMMA EventIsLedgered ==
  ASSUME BoundsAssumption, IInv, NEW e \in Event, WriteEvent(e) \/ PurgeEvent(e)
  PROVE  Ledger!Next
<1>1. event \in [Event -> {"absent", "written", "purged"}] /\ delivery \in [Event -> Row]
  BY DEF IInv, TypeOK
<1>2. CASE WriteEvent(e)
  <2>1. /\ event[e] = "absent" /\ event'[e] = "written"
        /\ \A q \in Event : q # e => delivery'[q] = delivery[q] /\ event'[q] = event[q]
        /\ UNCHANGED <<delivery, sends, redrives>>
    BY <1>1, <1>2 DEF WriteEvent
  <2>2. delivery[e].status = "none"
    <3>1. delivery[e].status # "none" => event[e] = "written"
      BY DEF IInv, Delivering, RowsAgree
    <3>2. QED
      BY <2>1, <3>1
  <2>3. ~Settled(e)'
    BY <2>1, <2>2 DEF Settled
  <2>4. Outcome(e) = "absent" /\ Outcome(e)' = "owed"
    BY <2>1, <2>3 DEF Outcome
  <2>5. [q \in Event |-> Outcome(q)]' = [[q \in Event |-> Outcome(q)] EXCEPT ![e] = "owed"]
    BY <2>1, <2>4, OutcomeOfOne
  <2>6. Ledger!Owe(e)
    BY <2>1, <2>4, <2>5, GrantsStand DEF Ledger!Owe
  <2>7. QED
    BY <2>6 DEF Ledger!Next
<1>3. CASE PurgeEvent(e)
  <2>1. /\ event[e] = "written" /\ event'[e] = "purged"
        /\ \A q \in Event : q # e => delivery'[q] = delivery[q] /\ event'[q] = event[q]
        /\ UNCHANGED <<sends, redrives>>
    BY <1>1, <1>3 DEF PurgeEvent
  <2>2. Outcome(e)' = "gone"
    BY <2>1 DEF Outcome
  <2>3. Outcome(e) # "absent"
    <3>1. CASE Settled(e)
      <4>1. Outcome(e) = delivery[e].disposition
        BY <2>1, <3>1, OutcomeCases
      <4>2. delivery[e].disposition \in {"none", "given_up"} \union Success
        BY <1>1 DEF Row
      <4>3. QED
        BY <4>1, <4>2 DEF Success, Skip
    <3>2. CASE ~Settled(e)
      BY <2>1, <3>2, OutcomeCases
    <3>3. QED
      BY <3>1, <3>2
  <2>4. [q \in Event |-> Outcome(q)]' = [[q \in Event |-> Outcome(q)] EXCEPT ![e] = "gone"]
    BY <2>1, <2>2, OutcomeOfOne
  <2>5. Ledger!Forget(e)
    BY <2>1, <2>3, <2>4, GrantsStand DEF Ledger!Forget
  <2>6. QED
    BY <2>5 DEF Ledger!Next
<1>4. QED
  BY <1>2, <1>3

\* Every step is one of the ledger, or the ledger does not see it.
LEMMA StepIsLedgered ==
  ASSUME BoundsAssumption, IInv, [Next]_vars
  PROVE  [Ledger!Next]_Seen
<1>1. CASE UNCHANGED <<event, delivery, sends, redrives>>
  BY <1>1, NothingSettled DEF IInv, Settled
<1>2. ASSUME NEW s \in Sweeper, SweepStep(s) PROVE [Ledger!Next]_Seen
  BY <1>1, <1>2, ClaimGivesUp, SendIsGranted, SuccessIsLedgered, FailureIsLedgered
     DEF SweepStep, Scan, LoadTarget
<1>3. ASSUME NEW s \in Sweeper, SweepMishap(s) PROVE [Ledger!Next]_Seen
  BY <1>1, <1>3, DeferIsLedgered
     DEF SweepMishap, LoadRaises, AckRaises, AckTooLate, SweepEnds
<1>4. ASSUME NEW e \in Event, LeaseExpires(e) \/ BackoffElapses(e) PROVE UNCHANGED Seen
  <2>1. /\ delivery \in [Event -> Row] /\ UNCHANGED <<event, sends, redrives>>
        /\ \/ delivery' = [delivery EXCEPT ![e].stale = TRUE]
           \/ delivery' = [delivery EXCEPT ![e].due = TRUE]
    BY <1>4 DEF LeaseExpires, BackoffElapses, IInv, TypeOK
  <2>2. \A q \in Event : /\ delivery'[q].status = delivery[q].status
                         /\ delivery'[q].disposition = delivery[q].disposition
    <3>1. CASE delivery' = [delivery EXCEPT ![e].stale = TRUE]
      BY <2>1, <3>1 DEF Row
    <3>2. CASE delivery' = [delivery EXCEPT ![e].due = TRUE]
      BY <2>1, <3>2 DEF Row
    <3>3. QED
      BY <2>1, <3>1, <3>2
  <2>3. \A q \in Event : Settled(q)' <=> Settled(q)
    BY <2>2 DEF Settled
  <2>4. QED
    BY <2>1, <2>2, <2>3, NothingSettled DEF IInv
<1>5. ASSUME NEW e \in Event,
             \/ LeaseExpires(e) \/ BackoffElapses(e) \/ RedriveFailed(e)
             \/ WriteEvent(e) \/ TargetChanges(e) \/ PurgeEvent(e)
      PROVE  [Ledger!Next]_Seen
  BY <1>1, <1>4, <1>5, RedriveIsLedgered, EventIsLedgered DEF TargetChanges
<1>6. CASE UNCHANGED vars
  BY <1>1, <1>6 DEF vars
<1>7. QED
  BY <1>2, <1>3, <1>5, <1>6 DEF Next

\* The poller keeps the promise of the ledger, with any number of sweeps, of which
\* any number may have lost their leases: an event is settled once, told only if a
\* message went out, and causes no more messages than tries were granted.
THEOREM KeepsLedger == BoundsAssumption /\ Spec => ImplementsLedger
<1> SUFFICES ASSUME BoundsAssumption PROVE Spec => ImplementsLedger
  OBVIOUS
<1>1. Init => Ledger!Init
  <2> SUFFICES ASSUME Init PROVE Ledger!Init
    OBVIOUS
  <2>1. \A e \in Event : Outcome(e) = "absent" /\ redrives[e] = 0
    BY OutcomeCases DEF Init
  <2>2. MaxAttempts \in Nat
    BY DEF BoundsAssumption
  <2>3. \A e \in Event : MaxAttempts * (1 + redrives[e]) = MaxAttempts
    BY <2>1, <2>2
  <2>4. QED
    BY <2>1, <2>3 DEF Init, Ledger!Init
<1>2. IInv /\ [Next]_vars =>
         [Ledger!Next]_<<[e \in Event |-> Outcome(e)], sends,
                         [e \in Event |-> MaxAttempts * (1 + redrives[e])]>>
  BY StepIsLedgered DEF Seen
<1>3. QED
  BY <1>1, <1>2, NotificationInvariance, PTL DEF Spec, ImplementsLedger, Ledger!Spec

--------------------------------------------------------------------------------
(******************************************************************************)
(* The recycle bin, for every number of videos, transcripts, sweeps, rows and *)
(* claims, as long as no sweep goes on after its claims have become stale.    *)
(*                                                                            *)
(* The argument: a claim is named after its sweep, and no two names are the   *)
(* same (NamesDiffer). Until a sweep is done with a row of its batch, the row *)
(* stays expired, at rest and under this claim (Holds): a user can no longer  *)
(* reach it, a worker has left it, and another sweep needs a claim that has   *)
(* timed out. So objects are only removed from rows nobody gets back, and a   *)
(* row goes after its object has, or when it never named one (RowFits).       *)
(******************************************************************************)

(* The inductive invariant *)

\* The row r of u agrees with itself and with the objects o: what is ready has its
\* object while the user can get it back, and a row without a key has none.
RowFits(u, r, o) ==
    /\ r.state = "ready" => r.work = "done" /\ r.key \in Content
    /\ r.work \in {"named", "stored", "cleanup"} => r.key \in Content
    /\ r.work = "stored" => <<u, r.key>> \in o
    /\ r.shelf = "none" => /\ r.key = "none" /\ r.work = "done"
                           /\ r.claim = 0 /\ r.state # "ready"
    /\ r.shelf \in {"live", "trash"} /\ r.state = "ready" => <<u, r.key>> \in o
    /\ r.claim # 0 => r.shelf \in {"trash", "expired"}
    /\ Bin!OneContent /\ r.key = "none" => \A c \in Content : <<u, c>> \notin o

RowsFit ==
    /\ item \in [Url -> Bin!Row]
    /\ objects \subseteq Url \X Content
    /\ \A u \in Url : RowFits(u, item[u], objects) /\ item[u].claim <= purges

\* A sweep in the state x holds its claims among the rows rw: what is left of its
\* batch is expired, at rest, and claimed by it. It has the key of the row it works
\* on, and no object of the row is left before it is removed.
HoldsBatch(x, rw, o) ==
    /\ x \in Bin!SweeperState
    /\ IF x.pc = "idle" THEN x = Bin!Idle ELSE x.now \in 1..purges
    /\ \A u \in Url : x.batch[u] # 0 =>
           /\ rw[u].shelf = "expired" /\ rw[u].work = "done"
           /\ rw[u].id = x.batch[u] /\ rw[u].claim = x.now /\ ~rw[u].stale
    /\ x.pc \in {"object", "final", "fail"} => x.url \in Url /\ x.batch[x.url] # 0
    /\ x.pc = "object" => x.key = rw[x.url].key /\ x.key \in Content
    /\ x.pc = "final" /\ Bin!OneContent => \A c \in Content : <<x.url, c>> \notin o

SweepsHold ==
    /\ purger \in [Sweeper -> Bin!SweeperState]
    /\ \A s \in Sweeper : HoldsBatch(purger[s], item, objects)

\* No two sweeps have claimed under the same name.
NamesDiffer ==
    \A s, t \in Sweeper :
        s # t /\ purger[s].now # 0 => purger[s].now # purger[t].now

BinInv ==
    /\ RowsFit /\ SweepsHold /\ NamesDiffer
    /\ purges \in 0..MaxClaim /\ failures \in 0..MaxMishaps

--------------------------------------------------------------------------------
(* Rows and sweeps *)

LEMMA BinStarts == ASSUME Bin!BoundsAssumption, Bin!Init PROVE BinInv
<1>1. Bin!NoRow \in Bin!Row /\ Bin!Idle \in Bin!SweeperState /\ Bin!Idle.pc = "idle"
        /\ Bin!Idle.now = 0
      /\ \A u \in Url : Bin!Idle.batch[u] = 0
  BY DEF Bin!BoundsAssumption, Bin!NoRow, Bin!Row, Bin!Idle, Bin!SweeperState
<1>2. \A u \in Url : RowFits(u, Bin!NoRow, {})
  BY DEF RowFits, Bin!NoRow
<1>3. RowsFit
  BY <1>1, <1>2 DEF Bin!BoundsAssumption, Bin!Init, RowsFit, Bin!NoRow
<1>4. \A s \in Sweeper : HoldsBatch(purger[s], item, objects)
  BY <1>1 DEF Bin!Init, HoldsBatch
<1>5. QED
  BY <1>1, <1>3, <1>4 DEF Bin!BoundsAssumption, Bin!Init, BinInv, SweepsHold, NamesDiffer

\* A row nobody holds may change, with the objects of its video.
LEMMA BinRowSteps ==
  ASSUME BinInv, NEW u \in Url, NEW r \in Bin!Row, Bin!Write(u, r), UNCHANGED <<purger, purges>>,
         failures' \in 0..MaxMishaps, \A s \in Sweeper : purger[s].batch[u] = 0,
         r.claim <= purges, RowFits(u, r, objects'), objects' \subseteq Url \X Content,
         \A v \in Url : v # u =>
            \A c \in Content : <<v, c>> \in objects' <=> <<v, c>> \in objects
  PROVE  BinInv'
<1>1. /\ item' \in [Url -> Bin!Row] /\ item'[u] = r
      /\ \A v \in Url : v # u => item'[v] = item[v]
  BY DEF BinInv, RowsFit, Bin!Write
<1>2. ASSUME NEW v \in Url PROVE (RowFits(v, item[v], objects) /\ item[v].claim <= purges)'
  <2>1. CASE v = u
    BY <1>1, <2>1 DEF RowFits
  <2>2. CASE v # u
    <3>1. item'[v] = item[v] /\ RowFits(v, item[v], objects) /\ item[v].claim <= purges
      BY <1>1, <2>2 DEF BinInv, RowsFit
    <3>2. QED
      BY <2>2, <3>1 DEF RowFits
  <2>3. QED
    BY <2>1, <2>2
<1>3. ASSUME NEW s \in Sweeper PROVE HoldsBatch(purger[s], item, objects)'
  <2> DEFINE x == purger[s]
  <2>1. HoldsBatch(x, item, objects) /\ x.batch[u] = 0
    BY DEF BinInv, SweepsHold
  <2> HIDE DEF x
  <2>2. HoldsBatch(x, item', objects')
    BY <1>1, <2>1 DEF HoldsBatch
  <2>3. QED
    BY <2>2 DEF x, HoldsBatch
<1>4. QED
  BY <1>1, <1>2, <1>3 DEF BinInv, RowsFit, SweepsHold, NamesDiffer

\* A sweep may go on with the rows it has claimed, and remove objects.
LEMMA SweepSteps ==
  ASSUME BinInv, NEW s \in Sweeper, NEW x, purger' = [purger EXCEPT ![s] = x],
         x.now \in {0, purger[s].now}, UNCHANGED purges, failures' \in 0..MaxMishaps,
         HoldsBatch(x, item', objects'), item' \in [Url -> Bin!Row], objects' \subseteq objects,
         \A u \in Url : item'[u] = item[u]
             \/ (purger[s].now # 0 /\ item[u].claim = purger[s].now),
         \A u \in Url : RowFits(u, item'[u], objects') /\ item'[u].claim <= purges
  PROVE  BinInv'
<1>1. x \in Bin!SweeperState
  BY DEF HoldsBatch
<1>2. /\ purger' \in [Sweeper -> Bin!SweeperState] /\ purger'[s] = x
      /\ \A t \in Sweeper : t # s => purger'[t] = purger[t]
  BY <1>1 DEF BinInv, SweepsHold
<1>3. RowsFit'
  <2>1. ASSUME NEW u \in Url PROVE (RowFits(u, item[u], objects) /\ item[u].claim <= purges)'
    BY DEF RowFits
  <2>2. QED
    BY <2>1 DEF BinInv, RowsFit
<1>4. ASSUME NEW t \in Sweeper PROVE HoldsBatch(purger[t], item, objects)'
  <2>1. CASE t = s
    BY <1>2, <2>1 DEF HoldsBatch
  <2>2. CASE t # s
    <3> DEFINE y == purger[t]
    <3>1. HoldsBatch(y, item, objects) /\ purger'[t] = y
      BY <1>2, <2>2 DEF BinInv, SweepsHold
    <3>2. purger[s].now # 0 => y.now # purger[s].now
      BY <2>2 DEF BinInv, NamesDiffer
    <3> HIDE DEF y
    <3>3. \A u \in Url : y.batch[u] # 0 => item'[u] = item[u]
      BY <3>1, <3>2 DEF HoldsBatch
    <3>4. HoldsBatch(y, item', objects')
      BY <3>1, <3>3 DEF HoldsBatch
    <3>5. QED
      BY <3>1, <3>4 DEF HoldsBatch
  <2>3. QED
    BY <2>1, <2>2
<1>5. SweepsHold'
  BY <1>2, <1>4 DEF SweepsHold
<1>6. NamesDiffer'
  BY <1>2 DEF BinInv, NamesDiffer
<1>7. QED
  BY <1>3, <1>5, <1>6 DEF BinInv

--------------------------------------------------------------------------------
(* Users and workers *)

\* What is on the shelf, or has an attempt under way, is in no batch.
LEMMA NobodyHolds ==
  ASSUME BinInv, NEW u \in Url, item[u].shelf # "expired" \/ item[u].work # "done"
  PROVE  \A s \in Sweeper : purger[s].batch[u] = 0
  BY DEF BinInv, SweepsHold, HoldsBatch

LEMMA UserSteps ==
  ASSUME Bin!BoundsAssumption, BinInv, NEW u \in Url,
         Bin!Save(u) \/ Bin!SoftDelete(u) \/ Bin!Restore(u) \/ Bin!RetentionEnds(u)
  PROVE  BinInv'
<1>1. item[u] \in Bin!Row /\ RowFits(u, item[u], objects) /\ item[u].claim <= purges
      /\ purges \in Nat /\ objects \subseteq Url \X Content
  BY DEF BinInv, RowsFit, Bin!BoundsAssumption
<1>2. item[u].shelf # "expired" /\ UNCHANGED <<objects, purger, purges, failures>>
  BY DEF Bin!Save, Bin!SoftDelete, Bin!Restore, Bin!RetentionEnds, Bin!Exists
<1>3. \E r \in Bin!Row : Bin!Write(u, r) /\ RowFits(u, r, objects) /\ r.claim <= purges
  <2>1. CASE Bin!Save(u)
    <3>1. CASE ~Bin!Exists(u) /\ item[u].id < MaxRow
                 /\ Bin!Write(u, [Bin!NoRow EXCEPT !.id = item[u].id + 1, !.shelf = "live",
                                           !.work = "queued", !.state = "pending"])
      <4> DEFINE r == [Bin!NoRow EXCEPT !.id = item[u].id + 1, !.shelf = "live",
                                    !.work = "queued", !.state = "pending"]
      <4>1. r \in Bin!Row /\ RowFits(u, r, objects) /\ r.claim <= purges
        <5>1. /\ item[u].key = "none" /\ item[u].id + 1 \in 0..MaxRow
              /\ Bin!NoRow \in Bin!Row /\ Bin!NoRow.key = "none" /\ Bin!NoRow.claim = 0
          BY <1>1, <3>1 DEF Bin!Row, RowFits, Bin!NoRow, Bin!Exists, Bin!BoundsAssumption
        <5> DEFINE q == Bin!NoRow
                   n == item[u].id + 1
        <5>2. /\ r = [q EXCEPT !.id = n, !.shelf = "live", !.work = "queued",
                               !.state = "pending"]
              /\ q \in Bin!Row /\ n \in 0..MaxRow /\ q.key = "none" /\ q.claim = 0
          BY <5>1
        <5> HIDE DEF q, n, r
        <5>3. /\ r \in Bin!Row /\ r.key = q.key /\ r.claim = q.claim /\ r.state = "pending"
              /\ r.shelf = "live" /\ r.work = "queued"
          BY <5>2 DEF Bin!Row
        <5>4. QED
          BY <1>1, <5>1, <5>2, <5>3 DEF RowFits
      <4>2. QED
        BY <3>1, <4>1
    <3>2. CASE item[u].shelf = "trash" /\ item[u].claim = 0
                 /\ Bin!Write(u, [item[u] EXCEPT !.shelf = "live"])
      <4> DEFINE r == [item[u] EXCEPT !.shelf = "live"]
      <4>1. r \in Bin!Row /\ RowFits(u, r, objects) /\ r.claim <= purges
        BY <1>1, <3>2 DEF Bin!Row, RowFits
      <4>2. QED
        BY <3>2, <4>1
    <3>3. CASE item[u].shelf \in {"live", "trash"} /\ item[u].claim = 0
                 /\ Bin!Write(u, [item[u] EXCEPT !.shelf = "live", !.work = "queued",
                                            !.state = "pending"])
      <4> DEFINE r == [item[u] EXCEPT !.shelf = "live", !.work = "queued", !.state = "pending"]
      <4>1. r \in Bin!Row /\ RowFits(u, r, objects) /\ r.claim <= purges
        BY <1>1, <3>3 DEF Bin!Row, RowFits
      <4>2. QED
        BY <3>3, <4>1
    <3>4. QED
      BY <2>1, <3>1, <3>2, <3>3, <1>1 DEF Bin!Save, Bin!Row
  <2>2. CASE Bin!SoftDelete(u)
    <3> DEFINE r == [item[u] EXCEPT !.shelf = "trash", !.claim = 0, !.stale = FALSE]
    <3>1. r \in Bin!Row /\ RowFits(u, r, objects) /\ r.claim <= purges /\ Bin!Write(u, r)
      BY <1>1, <2>2 DEF Bin!Row, RowFits, Bin!SoftDelete
    <3>2. QED
      BY <3>1
  <2>3. CASE Bin!Restore(u)
    <3> DEFINE r == [item[u] EXCEPT !.shelf = "live"]
    <3>1. r \in Bin!Row /\ RowFits(u, r, objects) /\ r.claim <= purges /\ Bin!Write(u, r)
      BY <1>1, <2>3 DEF Bin!Row, RowFits, Bin!Restore
    <3>2. QED
      BY <3>1
  <2>4. CASE Bin!RetentionEnds(u)
    <3> DEFINE r == [item[u] EXCEPT !.shelf = "expired"]
    <3>1. r \in Bin!Row /\ RowFits(u, r, objects) /\ r.claim <= purges /\ Bin!Write(u, r)
      BY <1>1, <2>4 DEF Bin!Row, RowFits, Bin!RetentionEnds
    <3>2. QED
      BY <3>1
  <2>5. QED
    BY <2>1, <2>2, <2>3, <2>4
<1>4. \A s \in Sweeper : purger[s].batch[u] = 0
  BY <1>2, NobodyHolds
<1>5. PICK r \in Bin!Row : Bin!Write(u, r) /\ RowFits(u, r, objects) /\ r.claim <= purges
  BY <1>3
<1>6. QED
  BY <1>1, <1>2, <1>4, <1>5, BinRowSteps DEF BinInv

LEMMA WorkerSteps ==
  ASSUME Bin!BoundsAssumption, BinInv, NEW u \in Url, Bin!WorkerStep(u) \/ Bin!AttemptFails(u)
  PROVE  BinInv'
<1>1. item[u] \in Bin!Row /\ RowFits(u, item[u], objects) /\ item[u].claim <= purges
      /\ purges \in Nat /\ objects \subseteq Url \X Content
  BY DEF BinInv, RowsFit, Bin!BoundsAssumption
<1>2. Bin!Exists(u) /\ item[u].work # "done" /\ UNCHANGED <<purger, purges>>
      /\ failures' \in 0..MaxMishaps
  <2>1. Bin!Exists(u) /\ item[u].work # "done" /\ UNCHANGED <<purger, purges>>
    BY DEF Bin!WorkerStep, Bin!NameObject, Bin!PutObject, Bin!Finish, Bin!CleanUp,
       Bin!AttemptFails, Bin!Active
  <2>2. failures' = failures \/ (failures < MaxMishaps /\ failures' = failures + 1)
    BY DEF Bin!WorkerStep, Bin!NameObject, Bin!PutObject, Bin!Finish, Bin!CleanUp,
       Bin!AttemptFails, Bin!Mishap
  <2>3. QED
    BY <2>1, <2>2 DEF BinInv, Bin!BoundsAssumption
<1> DEFINE Fits(r) ==
      /\ Bin!Write(u, r) /\ RowFits(u, r, objects') /\ r.claim <= purges
      /\ objects' \subseteq Url \X Content
      /\ \A v \in Url : v # u =>
            \A c \in Content : <<v, c>> \in objects' <=> <<v, c>> \in objects
<1>3. \E r \in Bin!Row : Fits(r)
  <2>1. ASSUME Bin!NameObject(u) \/ Bin!Finish(u) \/ Bin!AttemptFails(u),
               NEW r \in Bin!Row, Bin!Write(u, r), RowFits(u, r, objects), r.claim <= purges
        PROVE  \E q \in Bin!Row : Fits(q)
    BY <1>1, <2>1 DEF Bin!NameObject, Bin!Finish, Bin!AttemptFails
  <2>2. CASE Bin!NameObject(u)
    <3>1. CASE Bin!Deleted(u) /\ Bin!Write(u, [item[u] EXCEPT !.work = "done",
            !.state = "failed"])
      <4> DEFINE r == [item[u] EXCEPT !.work = "done", !.state = "failed"]
      <4>1. r \in Bin!Row /\ RowFits(u, r, objects) /\ r.claim <= purges
        BY <1>1, <3>1 DEF Bin!Row, RowFits, Bin!Deleted
      <4>2. QED
        BY <2>1, <2>2, <3>1, <4>1
    <3>2. ASSUME NEW c \in Content, ~Bin!Deleted(u),
                   Bin!Write(u, [item[u] EXCEPT !.work = "named", !.key = c])
          PROVE  \E q \in Bin!Row : Fits(q)
      <4> DEFINE r == [item[u] EXCEPT !.work = "named", !.key = c]
      <4>1. r \in Bin!Row /\ RowFits(u, r, objects) /\ r.claim <= purges
        BY <1>1, <1>2, <2>2, <3>2 DEF Bin!Row, RowFits, Bin!Deleted, Bin!NameObject,
           Bin!BoundsAssumption, Bin!Exists
      <4>2. QED
        BY <2>1, <2>2, <3>2, <4>1
    <3>3. QED
      BY <2>2, <3>1, <3>2 DEF Bin!NameObject
  <2>3. CASE Bin!PutObject(u)
    <3> DEFINE r == [item[u] EXCEPT !.work = "stored"]
    <3>1. item[u].key \in Content /\ objects' = objects \union {<<u,
            item[u].key>>} /\ Bin!Write(u, r)
          /\ item[u].work = "named"
      BY <1>1, <2>3 DEF RowFits, Bin!PutObject
    <3>2. r \in Bin!Row /\ RowFits(u, r, objects') /\ r.claim <= purges
      BY <1>1, <1>2, <3>1 DEF Bin!Row, RowFits, Bin!BoundsAssumption, Bin!Exists
    <3>3. /\ objects' \subseteq Url \X Content
          /\ \A v \in Url : v # u =>
                \A c \in Content : <<v, c>> \in objects' <=> <<v, c>> \in objects
      BY <1>1, <3>1
    <3>4. QED
      BY <3>1, <3>2, <3>3
  <2>4. CASE Bin!Finish(u)
    <3>1. CASE Bin!Deleted(u) /\ Bin!Write(u, [item[u] EXCEPT !.work = "cleanup"])
      <4> DEFINE r == [item[u] EXCEPT !.work = "cleanup"]
      <4>1. r \in Bin!Row /\ RowFits(u, r, objects) /\ r.claim <= purges
        BY <1>1, <2>4, <3>1 DEF Bin!Row, RowFits, Bin!Deleted, Bin!Finish
      <4>2. QED
        BY <2>1, <2>4, <3>1, <4>1
    <3>2. CASE ~Bin!Deleted(u) /\ Bin!Write(u, [item[u] EXCEPT !.work = "done",
            !.state = "ready"])
      <4> DEFINE r == [item[u] EXCEPT !.work = "done", !.state = "ready"]
      <4>1. r \in Bin!Row /\ RowFits(u, r, objects) /\ r.claim <= purges
        BY <1>1, <1>2, <2>4, <3>2 DEF Bin!Row, RowFits, Bin!Deleted, Bin!Finish, Bin!Exists
      <4>2. QED
        BY <2>1, <2>4, <3>2, <4>1
    <3>3. QED
      BY <2>4, <3>1, <3>2 DEF Bin!Finish
  <2>5. CASE Bin!CleanUp(u)
    <3> DEFINE r == [item[u] EXCEPT !.work = "done", !.state = "failed"]
    <3>1. objects' = objects \ {<<u, item[u].key>>} /\ Bin!Write(u, r)
      BY <2>5 DEF Bin!CleanUp
    <3>2. r \in Bin!Row /\ RowFits(u, r, objects') /\ r.claim <= purges
      BY <1>1, <1>2, <3>1 DEF Bin!Row, RowFits, Bin!Exists
    <3>3. QED
      BY <1>1, <3>1, <3>2
  <2>6. CASE Bin!AttemptFails(u)
    <3> DEFINE r == [item[u] EXCEPT !.work = "done", !.state = "failed"]
    <3>1. r \in Bin!Row /\ RowFits(u, r, objects) /\ r.claim <= purges /\ Bin!Write(u, r)
      BY <1>1, <1>2, <2>6 DEF Bin!Row, RowFits, Bin!Exists, Bin!AttemptFails
    <3>2. QED
      BY <2>1, <2>6, <3>1
  <2>7. QED
    BY <2>2, <2>3, <2>4, <2>5, <2>6 DEF Bin!WorkerStep
<1>4. \A s \in Sweeper : purger[s].batch[u] = 0
  BY <1>2, NobodyHolds
<1>5. PICK r \in Bin!Row : Fits(r)
  BY <1>3
<1>6. QED
  BY <1>2, <1>4, <1>5, BinRowSteps

--------------------------------------------------------------------------------
(* Sweeps *)

\* A claim outlives its timeout only when no sweep holds it.
LEMMA ExpiryStep ==
  ASSUME Bin!BoundsAssumption, BinInv, NEW u \in Url, Bin!ClaimExpires(u)
  PROVE  BinInv'
<1> DEFINE r == [item[u] EXCEPT !.stale = TRUE]
<1>1. item[u] \in Bin!Row /\ RowFits(u, item[u], objects) /\ item[u].claim <= purges
  BY DEF BinInv, RowsFit
<1>2. r \in Bin!Row /\ RowFits(u, r, objects) /\ r.claim <= purges
  BY <1>1 DEF Bin!Row, RowFits
<1>3. \A s \in Sweeper : purger[s].batch[u] = 0
  BY DEF BinInv, SweepsHold, HoldsBatch, Bin!ClaimExpires
<1>4. Bin!Write(u, r) /\ UNCHANGED <<objects, purger, purges, failures>>
  BY DEF Bin!ClaimExpires
<1> HIDE DEF r
<1>5. QED
  BY <1>2, <1>3, <1>4, BinRowSteps DEF BinInv, RowsFit

\* What is left of a batch is held as before, as long as its rows stand.
LEMMA NextHolds ==
  ASSUME Bin!BoundsAssumption, BinInv, NEW s \in Sweeper, purger[s].pc # "idle",
           NEW batch \in [Url -> 0..MaxRow],
         NEW rw, NEW o,
         \A u \in Url : batch[u] # 0 => batch[u] = purger[s].batch[u] /\ rw[u] = item[u],
         Bin!Next1(s, batch)
  PROVE  \E x : /\ purger' = [purger EXCEPT ![s] = x]
                /\ x.now \in {0, purger[s].now} /\ HoldsBatch(x, rw, o)
<1>0. Bin!Idle \in Bin!SweeperState /\ Bin!Idle.now = 0 /\ Bin!Idle.pc = "idle"
        /\ \A u \in Url : Bin!Idle.batch[u] = 0
  BY DEF Bin!BoundsAssumption, Bin!Idle, Bin!SweeperState
<1>1. HoldsBatch(purger[s], item, objects)
  BY DEF BinInv, SweepsHold
<1>2. CASE batch = [u \in Url |-> 0]
  <2>1. purger' = [purger EXCEPT ![s] = Bin!Idle]
    BY <1>2 DEF Bin!Next1
  <2>2. HoldsBatch(Bin!Idle, rw, o)
    BY <1>0 DEF HoldsBatch
  <2>3. QED
    BY <1>0, <2>1, <2>2
<1>3. CASE batch # [u \in Url |-> 0]
  <2> DEFINE x == [Bin!Idle EXCEPT !.pc = "row", !.now = purger[s].now, !.batch = batch]
  <2>1. purger' = [purger EXCEPT ![s] = x]
    BY <1>3 DEF Bin!Next1
  <2>2. /\ x.pc = "row" /\ x.now = purger[s].now /\ x.batch = batch /\ x \in Bin!SweeperState
    <3>1. purger[s] \in Bin!SweeperState
      BY <1>1 DEF HoldsBatch
    <3>2. QED
      BY <1>0, <3>1 DEF Bin!SweeperState
  <2> HIDE DEF x
  <2>3. HoldsBatch(x, rw, o)
    BY <1>1, <2>2 DEF HoldsBatch
  <2>4. QED
    BY <2>1, <2>2, <2>3
<1>4. QED
  BY <1>2, <1>3

\* The rest of a batch.
LEMMA RestOfBatch ==
  ASSUME Bin!BoundsAssumption, BinInv, NEW s \in Sweeper, NEW v
  PROVE  LET batch == [purger[s].batch EXCEPT ![v] = 0]
         IN  /\ batch \in [Url -> 0..MaxRow]
             /\ \A u \in Url : batch[u] # 0 => batch[u] = purger[s].batch[u] /\ u # v
<1>1. purger[s].batch \in [Url -> 0..MaxRow] /\ 0 \in 0..MaxRow
  BY DEF Bin!BoundsAssumption, BinInv, SweepsHold, Bin!SweeperState
<1>2. QED
  BY <1>1

\* A sweep that changes no row.
LEMMA RowsStand ==
  ASSUME BinInv, NEW s \in Sweeper, NEW x, purger' = [purger EXCEPT ![s] = x],
         x.now \in {0, purger[s].now}, UNCHANGED <<item, purges>>, failures' \in 0..MaxMishaps,
         objects' \subseteq objects, HoldsBatch(x, item, objects'),
         \A u \in Url : RowFits(u, item[u], objects')
  PROVE  BinInv'
<1>1. item' = item /\ item \in [Url -> Bin!Row] /\ \A u \in Url : item[u].claim <= purges
  BY DEF BinInv, RowsFit
<1>2. QED
  BY <1>1, SweepSteps

LEMMA ReadKeyStep ==
  ASSUME Bin!BoundsAssumption, BinInv, NEW s \in Sweeper, Bin!ReadKey(s)
  PROVE  BinInv'
<1>0. /\ \A u \in Url : RowFits(u, item[u], objects) /\ item[u] \in Bin!Row
      /\ HoldsBatch(purger[s], item, objects) /\ purger[s].pc = "row"
      /\ UNCHANGED <<item, objects, purges, failures>> /\ failures \in 0..MaxMishaps
  BY DEF BinInv, RowsFit, SweepsHold, Bin!ReadKey
<1>1. PICK u \in Url :
         /\ purger[s].batch[u] # 0
         /\ \/ purger' = [purger EXCEPT ![s].url = u, ![s].key = item[u].key,
                        ![s].pc = IF item[u].key = "none" THEN "final" ELSE "object"]
            \/ Bin!Next1(s, [purger[s].batch EXCEPT ![u] = 0])
  BY DEF Bin!ReadKey
<1>2. CASE purger' = [purger EXCEPT ![s].url = u, ![s].key = item[u].key,
                        ![s].pc = IF item[u].key = "none" THEN "final" ELSE "object"]
  <2> DEFINE y == purger[s]
             k == item[u].key
             pc == IF k = "none" THEN "final" ELSE "object"
             x == [y EXCEPT !.url = u, !.key = k, !.pc = pc]
  <2>1. purger' = [purger EXCEPT ![s] = x]
    BY <1>2 DEF BinInv, SweepsHold
  <2>2. y \in Bin!SweeperState /\ k \in {"none"} \union Content /\ pc \in {"object", "final"}
    BY <1>0 DEF HoldsBatch, Bin!Row
  <2>3. HoldsBatch(y, item, objects) /\ y.pc = "row" /\ y.batch[u] # 0
    BY <1>0, <1>1
  <2>4. (k = "none" <=> pc = "final") /\ RowFits(u, item[u], objects) /\ k = item[u].key
    BY <1>0
  <2> HIDE DEF y, k, pc
  <2>5. /\ x \in Bin!SweeperState /\ x.url = u /\ x.key = k /\ x.pc = pc /\ x.now = y.now
        /\ x.batch = y.batch
    BY <2>2 DEF Bin!SweeperState
  <2> HIDE DEF x
  <2>6. HoldsBatch(x, item, objects)
    BY <2>2, <2>3, <2>4, <2>5 DEF HoldsBatch, RowFits
  <2>7. x.now = purger[s].now
    BY <2>5 DEF y
  <2>8. QED
    BY <1>0, <2>1, <2>6, <2>7, RowsStand
<1>3. CASE Bin!Next1(s, [purger[s].batch EXCEPT ![u] = 0])
  <2> DEFINE batch == [purger[s].batch EXCEPT ![u] = 0]
  <2>1. /\ batch \in [Url -> 0..MaxRow] /\ Bin!Next1(s, batch)
        /\ \A v \in Url : batch[v] # 0 => batch[v] = purger[s].batch[v]
    BY <1>3, RestOfBatch
  <2> HIDE DEF batch
  <2>2. PICK x : /\ purger' = [purger EXCEPT ![s] = x]
                 /\ x.now \in {0, purger[s].now} /\ HoldsBatch(x, item, objects)
    BY <1>0, <2>1, NextHolds
  <2>3. QED
    BY <1>0, <2>2, RowsStand
<1>4. QED
  BY <1>1, <1>2, <1>3

\* The object of a row that a sweep holds may go.
LEMMA ObjectGoes ==
  ASSUME BinInv, NEW s \in Sweeper, purger[s].pc = "object",
         objects' \in {objects, objects \ {<<purger[s].url, purger[s].key>>}}
  PROVE  objects' \subseteq objects /\ \A u \in Url : RowFits(u, item[u], objects')
<1>1. HoldsBatch(purger[s], item, objects) /\ \A u \in Url : RowFits(u, item[u], objects)
  BY DEF BinInv, SweepsHold, RowsFit
<1>2. /\ purger[s].url \in Url
      /\ item[purger[s].url].shelf = "expired" /\ item[purger[s].url].work = "done"
  BY <1>1 DEF HoldsBatch
<1>3. QED
  BY <1>1, <1>2 DEF RowFits

LEMMA DeleteSteps ==
  ASSUME Bin!BoundsAssumption, BinInv, NEW s \in Sweeper,
           Bin!DeleteObject(s) \/ Bin!DeleteRaises(s)
  PROVE  BinInv'
<1> DEFINE y == purger[s]
<1>1. /\ HoldsBatch(y, item, objects) /\ y.pc = "object" /\ UNCHANGED <<item, purges>>
      /\ \A u \in Url : item[u] \in Bin!Row
  BY DEF BinInv, RowsFit, SweepsHold, Bin!DeleteObject, Bin!DeleteRaises
<1>2. failures' \in 0..MaxMishaps
  <2>1. failures' = failures \/ (failures < MaxMishaps /\ failures' = failures + 1)
    BY DEF Bin!DeleteObject, Bin!DeleteRaises, Bin!Mishap
  <2>2. QED
    BY <2>1 DEF BinInv, Bin!BoundsAssumption
<1>3. /\ objects' \in {objects, objects \ {<<y.url, y.key>>}}
      /\ \/ purger' = [purger EXCEPT ![s].pc = "fail"]
         \/ /\ purger' = [purger EXCEPT ![s].pc = "final"]
            /\ objects' = objects \ {<<y.url, y.key>>}
  BY DEF Bin!DeleteObject, Bin!DeleteRaises, Bin!Go
<1>4. objects' \subseteq objects /\ \A u \in Url : RowFits(u, item[u], objects')
  BY <1>1, <1>3, ObjectGoes
<1>5. PICK pc \in {"fail", "final"} :
         /\ purger' = [purger EXCEPT ![s].pc = pc]
         /\ pc = "final" => objects' = objects \ {<<y.url, y.key>>}
  BY <1>3
<1> DEFINE x == [y EXCEPT !.pc = pc]
<1>6. purger' = [purger EXCEPT ![s] = x]
  BY <1>5 DEF BinInv, SweepsHold
<1>7. x \in Bin!SweeperState /\ x.pc = pc /\ x.now = y.now /\ x.batch = y.batch
      /\ x.url = y.url /\ x.key = y.key
  BY <1>1 DEF HoldsBatch, Bin!SweeperState
<1> HIDE DEF x, y
<1>8. HoldsBatch(x, item, objects')
  BY <1>1, <1>5, <1>7 DEF HoldsBatch, Bin!OneContent
<1>9. x.now = purger[s].now
  BY <1>7 DEF y
<1>10. QED
  BY <1>1, <1>2, <1>4, <1>6, <1>8, <1>9, RowsStand

\* A row without its claim.
LEMMA Unclaimed ==
  ASSUME Bin!BoundsAssumption, purges \in Nat, NEW u \in Url, NEW old \in Bin!Row,
         RowFits(u, old, objects)
  PROVE  LET r == [old EXCEPT !.claim = 0, !.stale = FALSE]
         IN  r \in Bin!Row /\ RowFits(u, r, objects) /\ r.claim <= purges
<1> DEFINE r == [old EXCEPT !.claim = 0, !.stale = FALSE]
<1>1. 0 \in 0..MaxClaim /\ 0 <= purges
  BY DEF Bin!BoundsAssumption
<1>2. /\ r \in Bin!Row /\ r.claim = 0 /\ r.shelf = old.shelf /\ r.work = old.work
      /\ r.state = old.state /\ r.key = old.key
  BY <1>1 DEF Bin!Row
<1> HIDE DEF r
<1>3. RowFits(u, r, objects)
  BY <1>2 DEF RowFits
<1>4. r \in Bin!Row /\ RowFits(u, r, objects) /\ r.claim <= purges
  BY <1>1, <1>2, <1>3
<1>5. QED
  BY <1>4 DEF r

\* The row a sweep works on may change if the sweep has claimed it, and leaves
\* its batch.
LEMMA RowSettled ==
  ASSUME Bin!BoundsAssumption, BinInv, NEW s \in Sweeper, purger[s].pc \in {"final", "fail"},
         NEW r \in Bin!Row, RowFits(purger[s].url, r, objects), r.claim <= purges,
         Bin!Write(purger[s].url, r), Bin!Next1(s, Bin!Rest(s)), UNCHANGED <<objects, purges,
           failures>>,
         r = item[purger[s].url] \/ Bin!Claims(s, purger[s].url)
  PROVE  BinInv'
<1> DEFINE u == purger[s].url
<1>1. /\ HoldsBatch(purger[s], item, objects) /\ item \in [Url -> Bin!Row]
      /\ \A v \in Url : RowFits(v, item[v], objects) /\ item[v].claim <= purges
  BY DEF BinInv, SweepsHold, RowsFit
<1>2. u \in Url /\ purger[s].now \in 1..purges /\ purger[s].pc # "idle" /\ purges \in Nat
  BY <1>1 DEF HoldsBatch, BinInv, Bin!BoundsAssumption
<1>3. item' \in [Url -> Bin!Row] /\ item'[u] = r /\ \A v \in Url : v # u => item'[v] = item[v]
  BY <1>1, <1>2 DEF Bin!Write
<1>4. /\ Bin!Rest(s) \in [Url -> 0..MaxRow]
      /\ \A v \in Url : Bin!Rest(s)[v] # 0 => Bin!Rest(s)[v] = purger[s].batch[v]
           /\ item'[v] = item[v]
  BY <1>3, RestOfBatch DEF Bin!Rest
<1>5. PICK x : /\ purger' = [purger EXCEPT ![s] = x]
               /\ x.now \in {0, purger[s].now} /\ HoldsBatch(x, item', objects)
  BY <1>2, <1>4, NextHolds
<1>6. \A v \in Url : item'[v] = item[v]
          \/ (purger[s].now # 0 /\ item[v].claim = purger[s].now)
  BY <1>2, <1>3 DEF Bin!Claims
<1>7. \A v \in Url : RowFits(v, item'[v], objects) /\ item'[v].claim <= purges
  BY <1>1, <1>3
<1>8. objects' = objects /\ failures' \in 0..MaxMishaps /\ purges' = purges
  BY DEF BinInv
<1>9. QED
  BY <1>3, <1>5, <1>6, <1>7, <1>8, SweepSteps

\* A row that is purged leaves nothing; one that is given back stays as it was.
LEMMA SettlingSteps ==
  ASSUME Bin!BoundsAssumption, BinInv, NEW s \in Sweeper, Bin!FinalizeRow(s) \/ Bin!MarkFailed(s)
  PROVE  BinInv'
<1> DEFINE u == purger[s].url
           old == item[u]
<1>1. HoldsBatch(purger[s], item, objects) /\ purger[s].pc \in {"final", "fail"}
  BY DEF BinInv, SweepsHold, Bin!FinalizeRow, Bin!MarkFailed
<1>2. u \in Url /\ old \in Bin!Row /\ RowFits(u, old, objects) /\ old.claim <= purges
        /\ purges \in Nat
  BY <1>1 DEF HoldsBatch, BinInv, RowsFit, Bin!BoundsAssumption
<1>3. UNCHANGED <<objects, purges, failures>> /\ Bin!Next1(s, Bin!Rest(s))
  BY DEF Bin!FinalizeRow, Bin!MarkFailed
<1>4. CASE Bin!FinalizeRow(s)
  <2> DEFINE r == IF Bin!Claims(s, u) THEN [Bin!NoRow EXCEPT !.id = old.id] ELSE old
  <2>1. Bin!Write(u, r) /\ purger[s].pc = "final"
    BY <1>4 DEF Bin!FinalizeRow
  <2>2. \A c \in Content : Bin!OneContent => <<u, c>> \notin objects
    BY <1>1, <2>1 DEF HoldsBatch
  <2>3. r \in Bin!Row /\ RowFits(u, r, objects) /\ r.claim <= purges
    <3>1. CASE ~Bin!Claims(s, u)
      BY <1>2, <3>1
    <3>2. CASE Bin!Claims(s, u)
      <4>1. r = [Bin!NoRow EXCEPT !.id = old.id]
        BY <3>2
      <4>2. /\ Bin!NoRow \in Bin!Row /\ Bin!NoRow.shelf = "none" /\ Bin!NoRow.key = "none"
                 /\ Bin!NoRow.claim = 0
            /\ Bin!NoRow.work = "done" /\ Bin!NoRow.state = "pending"
        BY DEF Bin!NoRow, Bin!Row, Bin!BoundsAssumption
      <4> DEFINE q == Bin!NoRow
                 n == old.id
      <4>3. r = [q EXCEPT !.id = n] /\ q \in Bin!Row /\ n \in 0..MaxRow
        BY <1>2, <4>1, <4>2 DEF Bin!Row
      <4>4. /\ q.shelf = "none" /\ q.key = "none" /\ q.claim = 0
            /\ q.work = "done" /\ q.state = "pending"
        BY <4>2
      <4> HIDE DEF q, n, r
      <4>5. /\ r \in Bin!Row /\ r.shelf = "none" /\ r.key = "none" /\ r.claim = 0
            /\ r.work = "done" /\ r.state = "pending"
        BY <4>3, <4>4 DEF Bin!Row
      <4>6. QED
        BY <1>2, <2>2, <4>5 DEF RowFits
    <3>3. QED
      BY <3>1, <3>2
  <2>4. r = old \/ Bin!Claims(s, u)
    OBVIOUS
  <2> HIDE DEF r
  <2>5. QED
    BY <1>1, <1>3, <2>1, <2>3, <2>4, RowSettled
<1>5. CASE Bin!MarkFailed(s)
  <2> DEFINE r == IF Bin!Claims(s, u) THEN [old EXCEPT !.claim = 0, !.stale = FALSE] ELSE old
  <2>1. Bin!Write(u, r)
    BY <1>5 DEF Bin!MarkFailed
  <2>2. r \in Bin!Row /\ RowFits(u, r, objects) /\ r.claim <= purges
    <3> HIDE DEF u, old
    <3>1. CASE ~Bin!Claims(s, u)
      BY <1>2, <3>1
    <3>2. CASE Bin!Claims(s, u)
      BY <1>2, <3>2, Unclaimed
    <3>3. QED
      BY <3>1, <3>2
  <2>3. r = old \/ Bin!Claims(s, u)
    OBVIOUS
  <2> HIDE DEF r
  <2>4. QED
    BY <1>1, <1>3, <2>1, <2>2, <2>3, RowSettled
<1>6. QED
  BY <1>4, <1>5

LEMMA RaiseStep ==
  ASSUME Bin!BoundsAssumption, BinInv, NEW s \in Sweeper, Bin!RowRaises(s)
  PROVE  BinInv'
<1> DEFINE y == purger[s]
<1>1. /\ HoldsBatch(y, item, objects) /\ y.pc \in {"row", "final"}
      /\ UNCHANGED <<item, objects, purges>> /\ failures' \in 0..MaxMishaps
  BY DEF BinInv, SweepsHold, Bin!RowRaises, Bin!Mishap, Bin!BoundsAssumption
<1>2. PICK u \in Url :
         /\ IF y.pc = "row" THEN y.batch[u] # 0 ELSE u = y.url
         /\ purger' = [purger EXCEPT ![s].pc = "fail", ![s].url = u]
  BY DEF Bin!RowRaises
<1> DEFINE x == [y EXCEPT !.pc = "fail", !.url = u]
<1>3. purger' = [purger EXCEPT ![s] = x]
  BY <1>2 DEF BinInv, SweepsHold
<1>4. x \in Bin!SweeperState /\ x.pc = "fail" /\ x.now = y.now /\ x.batch = y.batch /\ x.url = u
  BY <1>1 DEF HoldsBatch, Bin!SweeperState
<1>5. y.batch[u] # 0
  BY <1>1, <1>2 DEF HoldsBatch
<1> HIDE DEF x, y
<1>6. HoldsBatch(x, item, objects)
  BY <1>1, <1>4, <1>5 DEF HoldsBatch
<1>7. x.now = purger[s].now
  BY <1>4 DEF y
<1>8. \A v \in Url : RowFits(v, item[v], objects)
  BY DEF BinInv, RowsFit
<1>9. QED
  BY <1>1, <1>3, <1>6, <1>7, <1>8, RowsStand

\* A sweep that stops holds nothing any more.
LEMMA StopSteps ==
  ASSUME Bin!BoundsAssumption, BinInv, NEW s \in Sweeper, Bin!ReleaseClaims(s) \/ Bin!SweepDies(s)
  PROVE  BinInv'
<1>1. /\ HoldsBatch(purger[s], item, objects) /\ purger[s].pc # "idle" /\ purges \in Nat
      /\ UNCHANGED <<objects, purges>> /\ purger' = [purger EXCEPT ![s] = Bin!Idle]
      /\ \A u \in Url : RowFits(u, item[u], objects) /\ item[u].claim <= purges
      /\ item \in [Url -> Bin!Row]
  <2>1. /\ UNCHANGED <<objects, purges>> /\ purger' = [purger EXCEPT ![s] = Bin!Idle]
        /\ purger[s].pc # "idle"
    BY DEF Bin!ReleaseClaims, Bin!SweepDies
  <2>2. QED
    BY <2>1 DEF BinInv, SweepsHold, RowsFit, Bin!BoundsAssumption
<1>2. failures' \in 0..MaxMishaps
  <2>1. failures < MaxMishaps /\ failures' = failures + 1
    BY DEF Bin!ReleaseClaims, Bin!SweepDies, Bin!Mishap
  <2>2. QED
    BY <2>1 DEF BinInv, Bin!BoundsAssumption
<1>3. Bin!Idle \in Bin!SweeperState /\ Bin!Idle.now = 0 /\ Bin!Idle.pc = "idle"
        /\ \A u \in Url : Bin!Idle.batch[u] = 0
  BY DEF Bin!BoundsAssumption, Bin!Idle, Bin!SweeperState
<1>4. HoldsBatch(Bin!Idle, item', objects')
  BY <1>3 DEF HoldsBatch
<1>5. purger[s].now # 0
  BY <1>1 DEF HoldsBatch
<1>6. /\ item' \in [Url -> Bin!Row]
      /\ \A u \in Url :
             \/ item'[u] = item[u]
             \/ /\ item[u].claim = purger[s].now
                /\ item'[u] = [item[u] EXCEPT !.claim = 0, !.stale = FALSE]
  <2>1. \A u \in Url : [item[u] EXCEPT !.claim = 0, !.stale = FALSE] \in Bin!Row
    BY <1>1, Unclaimed
  <2>2. CASE Bin!ReleaseClaims(s)
    BY <1>1, <2>1, <2>2 DEF Bin!ReleaseClaims, Bin!Claims
  <2>3. CASE Bin!SweepDies(s)
    BY <1>1, <2>3 DEF Bin!SweepDies
  <2>4. QED
    BY <2>2, <2>3
<1>7. ASSUME NEW u \in Url PROVE RowFits(u, item'[u], objects') /\ item'[u].claim <= purges
  <2> DEFINE old == item[u]
             r == [old EXCEPT !.claim = 0, !.stale = FALSE]
  <2>1. old \in Bin!Row /\ RowFits(u, old, objects) /\ old.claim <= purges
    BY <1>1
  <2>2. item'[u] = old \/ item'[u] = r
    BY <1>6
  <2>3. r \in Bin!Row /\ RowFits(u, r, objects) /\ r.claim <= purges
    BY <1>1, <2>1, Unclaimed
  <2>4. QED
    BY <1>1, <2>1, <2>2, <2>3
<1>8. QED
  BY <1>1, <1>2, <1>3, <1>4, <1>5, <1>6, <1>7, SweepSteps

\* A new sweep takes a name no other has, and rows no other holds.
LEMMA ClaimStep ==
  ASSUME Bin!BoundsAssumption, BinInv, NEW s \in Sweeper, Bin!ClaimExpired(s)
  PROVE  BinInv'
<1> DEFINE n == purges + 1
<1>1. /\ purges < MaxClaim /\ purges' = n /\ UNCHANGED <<objects, failures>>
      /\ purger[s].pc = "idle"
  BY DEF Bin!ClaimExpired
<1>2. PICK batch \in SUBSET {u \in Url : Bin!Claimable(u)} :
         /\ item' = [u \in Url |-> IF u \in batch THEN [item[u] EXCEPT !.claim = n,
              !.stale = FALSE]
                                 ELSE item[u]]
         /\ purger' = [purger EXCEPT ![s] = [Bin!Idle EXCEPT !.pc = "row", !.now = n,
                            !.batch = [u \in Url |-> IF u \in batch THEN item[u].id ELSE 0]]]
  BY DEF Bin!ClaimExpired
<1> DEFINE b == [u \in Url |-> IF u \in batch THEN item[u].id ELSE 0]
           x == [Bin!Idle EXCEPT !.pc = "row", !.now = n, !.batch = b]
<1>3. /\ n \in 1..MaxClaim /\ purges \in Nat /\ n = purges + 1 /\ purges' \in 0..MaxClaim
  BY <1>1 DEF BinInv, Bin!BoundsAssumption
<1>4. \A u \in Url : /\ RowFits(u, item[u], objects) /\ item[u] \in Bin!Row
                     /\ item[u].claim <= purges /\ item[u].claim \in Nat
  BY DEF BinInv, RowsFit, Bin!Row
<1>5. \A u \in batch : /\ u \in Url /\ item[u].shelf = "expired" /\ item[u].work = "done"
                       /\ item[u].claim = 0 \/ item[u].stale
  BY <1>4 DEF Bin!Claimable, Bin!Active, Bin!Exists, Bin!Row
<1>6. b \in [Url -> 0..MaxRow] /\ \A u \in Url : b[u] # 0 => u \in batch /\ b[u] = item[u].id
  BY <1>4 DEF Bin!Row, Bin!BoundsAssumption
<1>7. x \in Bin!SweeperState /\ x.pc = "row" /\ x.now = n /\ x.batch = b
  <2>1. Bin!Idle \in Bin!SweeperState
    BY DEF Bin!BoundsAssumption, Bin!Idle, Bin!SweeperState
  <2> DEFINE q == Bin!Idle
  <2>2. x = [q EXCEPT !.pc = "row", !.now = n, !.batch = b] /\ q \in Bin!SweeperState
    BY <2>1
  <2>3. n \in 0..MaxClaim /\ b \in [Url -> 0..MaxRow]
    BY <1>3, <1>6
  <2> HIDE DEF n, b, q, x
  <2>4. x \in Bin!SweeperState
    BY <2>2, <2>3 DEF Bin!SweeperState
  <2>5. x.pc = "row" /\ x.now = n /\ x.batch = b
    BY <2>2, <2>3 DEF Bin!SweeperState
  <2>6. QED
    BY <2>4, <2>5
<1>8. ASSUME NEW u \in Url
      PROVE  /\ item'[u] \in Bin!Row /\ RowFits(u, item'[u], objects) /\ item'[u].claim <= n
             /\ item'[u].shelf = item[u].shelf /\ item'[u].work = item[u].work
             /\ item'[u].id = item[u].id /\ item'[u].key = item[u].key
             /\ IF u \in batch THEN item'[u].claim = n /\ ~item'[u].stale ELSE item'[u] = item[u]
  <2> DEFINE old == item[u]
             r == [old EXCEPT !.claim = n, !.stale = FALSE]
  <2>1. item'[u] = IF u \in batch THEN r ELSE old
    BY <1>2
  <2>2. old \in Bin!Row /\ RowFits(u, old, objects) /\ old.claim <= n
    BY <1>3, <1>4
  <2>3. n \in 0..MaxClaim /\ n <= n
    BY <1>3
  <2> HIDE DEF n, old
  <2>4. /\ r \in Bin!Row /\ r.claim = n /\ ~r.stale /\ r.shelf = old.shelf /\ r.work = old.work
        /\ r.state = old.state /\ r.key = old.key /\ r.id = old.id
    BY <2>2, <2>3 DEF Bin!Row
  <2> HIDE DEF r
  <2>5. u \in batch => RowFits(u, r, objects)
    BY <1>5, <2>2, <2>4 DEF RowFits, old
  <2>6. QED
    BY <2>1, <2>2, <2>3, <2>4, <2>5 DEF old
<1> HIDE DEF n, b, x
<1>9. /\ purger' \in [Sweeper -> Bin!SweeperState] /\ purger'[s] = x
      /\ \A t \in Sweeper : t # s => purger'[t] = purger[t]
  BY <1>2, <1>7 DEF BinInv, SweepsHold, n, b, x
<1>10. RowsFit'
  <2>1. item' \in [Url -> Bin!Row]
    BY <1>2, <1>8
  <2>2. \A u \in Url : (RowFits(u, item[u], objects) /\ item[u].claim <= purges)'
    BY <1>1, <1>8 DEF RowFits
  <2>3. QED
    BY <1>1, <2>1, <2>2 DEF BinInv, RowsFit
<1>11. ASSUME NEW t \in Sweeper PROVE HoldsBatch(purger[t], item, objects)'
  <2>1. CASE t = s
    <3>1. x.now \in 1..purges'
      BY <1>1, <1>3, <1>7
    <3>2. QED
      BY <1>6, <1>5, <1>7, <1>8, <1>9, <2>1, <3>1 DEF HoldsBatch
  <2>2. CASE t # s
    <3> DEFINE y == purger[t]
    <3>1. HoldsBatch(y, item, objects) /\ purger'[t] = y
      BY <1>9, <2>2 DEF BinInv, SweepsHold
    <3> HIDE DEF y
    <3>2. y.now \in 1..purges => y.now \in 1..purges'
      BY <1>1, <1>3
    <3>3. \A u \in Url : y.batch[u] # 0 => item'[u] = item[u]
      <4>1. ASSUME NEW u \in Url, y.batch[u] # 0 PROVE u \notin batch
        <5>1. item[u].claim = y.now /\ ~item[u].stale /\ y.batch[u] # 0
          BY <3>1, <4>1 DEF HoldsBatch
        <5>2. y.pc # "idle"
          BY <3>1, <4>1 DEF HoldsBatch, Bin!Idle
        <5>3. item[u].claim # 0
          BY <3>1, <5>1, <5>2 DEF HoldsBatch
        <5>4. QED
          BY <1>5, <5>1, <5>3
      <4>2. QED
        BY <1>8, <4>1
    <3>4. QED
      BY <1>1, <3>1, <3>2, <3>3 DEF HoldsBatch
  <2>3. QED
    BY <2>1, <2>2
<1>12. NamesDiffer'
  <2>1. \A t \in Sweeper : purger[t].now # n
    <3>1. ASSUME NEW t \in Sweeper PROVE purger[t].now # n
      <4>1. HoldsBatch(purger[t], item, objects)
        BY DEF BinInv, SweepsHold
      <4>2. purger[t].now \in 0..purges
        BY <1>3, <4>1 DEF HoldsBatch, Bin!Idle
      <4>3. QED
        BY <1>3, <4>2
    <3>2. QED
      BY <3>1
  <2>2. QED
    BY <1>7, <1>9, <2>1 DEF BinInv, NamesDiffer
<1>13. QED
  BY <1>1, <1>3, <1>9, <1>10, <1>11, <1>12 DEF BinInv, SweepsHold

LEMMA BinInvStep ==
  ASSUME Bin!BoundsAssumption, BinInv, [Bin!Next]_(Bin!vars)
  PROVE  BinInv'
<1>1. ASSUME NEW u \in Url, Bin!Save(u) \/ Bin!SoftDelete(u) \/ Bin!Restore(u)
               \/ Bin!RetentionEnds(u)
      PROVE  BinInv'
  BY <1>1, UserSteps
<1>2. ASSUME NEW u \in Url, Bin!WorkerStep(u) \/ Bin!AttemptFails(u) PROVE BinInv'
  BY <1>2, WorkerSteps
<1>3. ASSUME NEW u \in Url, Bin!ClaimExpires(u) PROVE BinInv'
  BY <1>3, ExpiryStep
<1>4. ASSUME NEW s \in Sweeper, Bin!SweepStep(s) PROVE BinInv'
  BY <1>4, ClaimStep, ReadKeyStep, DeleteSteps, SettlingSteps DEF Bin!SweepStep
<1>5. ASSUME NEW s \in Sweeper, Bin!SweepMishap(s) PROVE BinInv'
  BY <1>5, DeleteSteps, RaiseStep, StopSteps DEF Bin!SweepMishap
<1>6. CASE UNCHANGED Bin!vars
  BY <1>6 DEF Bin!vars, BinInv, RowsFit, RowFits, SweepsHold, HoldsBatch, NamesDiffer
<1>7. QED
  BY <1>1, <1>2, <1>3, <1>4, <1>5, <1>6 DEF Bin!Next

LEMMA BinInvMeans ==
  ASSUME Bin!BoundsAssumption, BinInv
  PROVE  Bin!TypeOK /\ Bin!KeptItemHasObject /\ Bin!PurgeLeavesNothing
<1>1. Bin!TypeOK
  BY DEF BinInv, RowsFit, RowFits, SweepsHold, Bin!TypeOK, Bin!Deleted
<1>2. Bin!KeptItemHasObject
  BY DEF BinInv, RowsFit, RowFits, Bin!KeptItemHasObject
<1>3. Bin!PurgeLeavesNothing
  BY DEF BinInv, RowsFit, RowFits, Bin!PurgeLeavesNothing, Bin!Exists
<1>4. QED
  BY <1>1, <1>2, <1>3

\* Only a purge makes a row go.
LEMMA PurgeIsOwn ==
  ASSUME Bin!BoundsAssumption, BinInv, [Bin!Next]_(Bin!vars), NEW u \in Url, Bin!Exists(u),
         item'[u].shelf = "none"
  PROVE  /\ item[u].shelf = "expired" /\ ~Bin!Active(u)
         /\ \E s \in Sweeper : /\ purger[s].url = u /\ purger[s].now = item[u].claim
                               /\ purger'[s] # purger[s]
<1>1. item \in [Url -> Bin!Row] /\ item[u].shelf # "none"
  BY DEF BinInv, RowsFit, Bin!Exists
<1>2. PICK s \in Sweeper : Bin!FinalizeRow(s) /\ purger[s].url = u /\ Bin!Claims(s, u)
  <2>1. ASSUME NEW v \in Url,
               Bin!Save(v) \/ Bin!SoftDelete(v) \/ Bin!Restore(v) \/ Bin!RetentionEnds(v)
                 \/ Bin!WorkerStep(v)
                 \/ Bin!AttemptFails(v) \/ Bin!ClaimExpires(v)
        PROVE  FALSE
    <3>1. ASSUME NEW r, Bin!Write(v, r), r.shelf # "none" PROVE FALSE
      BY <1>1, <3>1 DEF Bin!Write
    <3>2. item[v] \in Bin!Row /\ \A q \in Bin!Row :
             /\ [q EXCEPT !.shelf = "live"].shelf = "live"
             /\ [q EXCEPT !.shelf = "live", !.work = "queued", !.state = "pending"].shelf = "live"
      BY <1>1 DEF Bin!Row
    <3>3. CASE Bin!Save(v)
      <4>1. [Bin!NoRow EXCEPT !.id = item[v].id + 1, !.shelf = "live", !.work = "queued",
                          !.state = "pending"].shelf = "live"
        BY DEF Bin!NoRow
      <4>2. QED
        BY <3>1, <3>2, <3>3, <4>1 DEF Bin!Save
    <3>4. CASE Bin!SoftDelete(v) \/ Bin!Restore(v) \/ Bin!RetentionEnds(v)
      BY <3>1, <3>2, <3>4 DEF Bin!SoftDelete, Bin!Restore, Bin!RetentionEnds, Bin!Row
    <3>5. CASE Bin!WorkerStep(v) \/ Bin!AttemptFails(v) \/ Bin!ClaimExpires(v)
      <4>1. item[v].shelf # "none"
        BY <3>5 DEF Bin!WorkerStep, Bin!NameObject, Bin!PutObject, Bin!Finish, Bin!CleanUp,
           Bin!AttemptFails, Bin!Active,
           Bin!Exists, Bin!ClaimExpires, BinInv, RowsFit, RowFits
      <4>2. QED
        BY <3>1, <3>2, <3>5, <4>1 DEF Bin!WorkerStep, Bin!NameObject, Bin!PutObject, Bin!Finish,
           Bin!CleanUp,
           Bin!AttemptFails, Bin!ClaimExpires, Bin!Row
    <3>6. QED
      BY <2>1, <3>3, <3>4, <3>5
  <2>2. ASSUME NEW s \in Sweeper, Bin!SweepStep(s) \/ Bin!SweepMishap(s),
                 ~Bin!FinalizeRow(s) PROVE FALSE
    <3>1. CASE Bin!ReadKey(s) \/ Bin!DeleteObject(s) \/ Bin!DeleteRaises(s) \/ Bin!RowRaises(s)
            \/ Bin!SweepDies(s)
      BY <1>1, <3>1 DEF Bin!ReadKey, Bin!DeleteObject, Bin!DeleteRaises, Bin!RowRaises,
         Bin!SweepDies
    <3>2. CASE Bin!ClaimExpired(s)
      <4>1. PICK batch \in SUBSET Url :
               item' = [v \in Url |-> IF v \in batch
                          THEN [item[v] EXCEPT !.claim = purges + 1,
                            !.stale = FALSE] ELSE item[v]]
        BY <3>2 DEF Bin!ClaimExpired
      <4>2. [item[u] EXCEPT !.claim = purges + 1, !.stale = FALSE].shelf = item[u].shelf
        BY <1>1 DEF Bin!Row
      <4>3. QED
        BY <1>1, <4>1, <4>2
    <3>3. CASE Bin!MarkFailed(s)
      BY <1>1, <3>3 DEF Bin!MarkFailed, Bin!Write, Bin!Row
    <3>4. CASE Bin!ReleaseClaims(s)
      BY <1>1, <3>4 DEF Bin!ReleaseClaims, Bin!Row
    <3>5. QED
      BY <2>2, <3>1, <3>2, <3>3, <3>4 DEF Bin!SweepStep, Bin!SweepMishap
  <2>3. item' # item
    BY <1>1
  <2>4. PICK s \in Sweeper : Bin!FinalizeRow(s)
    BY <2>1, <2>2, <2>3 DEF Bin!Next, Bin!vars
  <2>5. purger[s].url = u /\ Bin!Claims(s, u)
    BY <1>1, <2>4 DEF Bin!FinalizeRow, Bin!Write
  <2>6. QED
    BY <2>4, <2>5
<1>3. HoldsBatch(purger[s], item, objects) /\ purger \in [Sweeper -> Bin!SweeperState]
  BY DEF BinInv, SweepsHold
<1>4. purger[s].pc = "final" /\ purger[s].batch[u] # 0
  BY <1>2, <1>3 DEF Bin!FinalizeRow, HoldsBatch
<1>5. item[u].shelf = "expired" /\ ~Bin!Active(u) /\ purger[s].now = item[u].claim
  BY <1>2, <1>3, <1>4 DEF HoldsBatch, Bin!Active, Bin!Claims
<1>6. purger'[s] # purger[s]
  <2>1. purger'[s].pc \in {"row", "idle"}
    BY <1>2, <1>3 DEF Bin!FinalizeRow, Bin!Next1, Bin!Idle
  <2>2. QED
    BY <1>4, <2>1
<1>7. QED
  BY <1>2, <1>5, <1>6

\* The rows, the objects and the sweeps of the bin keep their shape.
THEOREM BinTypes == ASSUME Bin!BoundsAssumption PROVE Bin!Spec => []Bin!TypeOK
<1>1. Bin!Init => BinInv
  BY BinStarts
<1>2. BinInv /\ [Bin!Next]_(Bin!vars) => BinInv'
  BY BinInvStep
<1>3. BinInv => Bin!TypeOK
  BY BinInvMeans
<1>4. QED
  BY <1>1, <1>2, <1>3, PTL DEF Bin!Spec

\* A ready item that its user sees or can restore has its raw object, also when the
\* same URL was purged and saved again, and a video without a row has no object
\* (management.py 738-836 against submission.py 607-624).
THEOREM ObjectsOfRows ==
  ASSUME Bin!BoundsAssumption PROVE Bin!Spec => []ObjectsFollowRows
<1>1. Bin!Init => BinInv
  BY BinStarts
<1>2. BinInv /\ [Bin!Next]_(Bin!vars) => BinInv'
  BY BinInvStep
<1>3. BinInv => ObjectsFollowRows
  BY BinInvMeans DEF ObjectsFollowRows
<1>4. QED
  BY <1>1, <1>2, <1>3, PTL DEF Bin!Spec

\* A sweep removes only rows it has claimed itself, which no user could have brought
\* back since and no worker writes to (management.py 738-836).
THEOREM PurgesOwn == ASSUME Bin!BoundsAssumption PROVE Bin!Spec => Bin!PurgesOnlyOwnClaims
<1>1. Bin!Init => BinInv
  BY BinStarts
<1>2. BinInv /\ [Bin!Next]_(Bin!vars) => BinInv'
  BY BinInvStep
<1>3. BinInv /\ [Bin!Next]_(Bin!vars) =>
        [\A u \in Url :
           Bin!Exists(u) /\ item'[u].shelf = "none"
           => /\ item[u].shelf = "expired" /\ ~Bin!Active(u)
              /\ \E s \in Sweeper : purger[s].url = u /\ purger[s].now = item[u].claim
                                                       /\ purger'[s] # purger[s]]_(Bin!vars)
  BY PurgeIsOwn
<1>4. QED
  BY <1>1, <1>2, <1>3, PTL DEF Bin!Spec, Bin!PurgesOnlyOwnClaims

\* What was claimed is settled, returned or purged by the sweep that holds the claim
\* and by no other, whichever leases and claims expire meanwhile (notifications.py
\* _ack_succeeded, _ack_failure; management.py 738-786).
THEOREM HoldersAct ==
  ASSUME BoundsAssumption, Bin!BoundsAssumption PROVE Spec /\ Bin!Spec => OnlyHoldersAct
<1>1. Spec => OnlyHolderSettles
  BY OnlyHolder
<1>2. Bin!Spec => Bin!PurgesOnlyOwnClaims
  BY PurgesOwn
<1>3. QED
  BY <1>1, <1>2 DEF OnlyHoldersAct

================================================================================
