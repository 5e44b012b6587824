----------------------------- MODULE OneTimeSecret ------------------------------
(******************************************************************************)
(* What every login protocol promises of the secret it hands out: a command   *)
(* to send in a chat, a code sent by mail, the pairing of a browser. A secret *)
(* buys at most one credential, and none once it is void.                     *)
(******************************************************************************)
EXTENDS Naturals

CONSTANT Secret

VARIABLES
    state,   \* of each secret
    minted   \* how many credentials it has bought

vars == <<state, minted>>

Init ==
    /\ state = [s \in Secret |-> "fresh"]
    /\ minted = [s \in Secret |-> 0]

Issue(s) ==
    /\ state[s] = "fresh"
    /\ state' = [state EXCEPT ![s] = "open"]
    /\ UNCHANGED minted

Spend(s) ==
    /\ state[s] = "open"
    /\ state' = [state EXCEPT ![s] = "spent"]
    /\ minted' = [minted EXCEPT ![s] = @ + 1]

\* Expired, superseded, not delivered, or gone with its account: one step may
\* void several secrets and issue one, as a new code does to the older ones.
Void(S, issued) ==
    /\ \A s \in S : state[s] \in {"fresh", "open"}
    /\ \A s \in issued : state[s] = "fresh"
    /\ state' = [s \in Secret |-> IF s \in S THEN "void"
                                  ELSE IF s \in issued THEN "open" ELSE state[s]]
    /\ UNCHANGED minted

Next ==
    \/ \E s \in Secret : Issue(s) \/ Spend(s)
    \/ \E S \in SUBSET Secret : \E issued \in {{}} \union {{s} : s \in Secret \ S} :
          Void(S, issued)

Spec == Init /\ [][Next]_vars

TypeOK ==
    /\ state \in [Secret -> {"fresh", "open", "spent", "void"}]
    /\ minted \in [Secret -> Nat]

================================================================================
