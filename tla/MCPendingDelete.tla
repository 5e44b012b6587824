---------------------------- MODULE MCPendingDelete ----------------------------
(* The safety instance of PendingDelete for TLC: one action of the thread with  *)
(* several claims and restores, or a second action with one claim or restore,   *)
(* as long as no request expires and no lease passes.                           *)
EXTENDS PendingDelete, TLC

Bounded ==
    \/ actions' <= 1
    \/ tokens' <= 1 /\ \A a \in ActionId : ~action'[a].stale /\ ~action'[a].expired

MCSpec == Init /\ [][Next /\ Bounded]_vars

\* Handlers are interchangeable.
Symmetry == Permutations(Caller)

================================================================================
