----------------------------- MODULE MCBackground -----------------------------
(******************************************************************************)
(* The periodic work nobody waits for, on small instances: the delivery of    *)
(* notifications and the purge of the recycle bin. A behaviour belongs to     *)
(* one of the two.                                                            *)
(******************************************************************************)
EXTENDS Background

VARIABLE part

ASSUME BackgroundBounds == BoundsAssumption /\ Bin!BoundsAssumption

MCInit == part \in {"notification", "bin"} /\ Init /\ Bin!Init

MCNext ==
    /\ \/ part = "notification" /\ Next /\ UNCHANGED bin
       \/ part = "bin" /\ Bin!Next /\ UNCHANGED vars
    /\ UNCHANGED part

\* The fairness of each part, in the behaviours that belong to it.
MCFairness ==
    /\ \A s \in Sweeper :
           /\ WF_vars(part = "notification" /\ SweepStep(s))
           /\ WF_bin(part = "bin" /\ Bin!SweepStep(s))
    /\ \A e \in Event :
           /\ WF_vars(part = "notification" /\ LeaseExpires(e))
           /\ WF_vars(part = "notification" /\ BackoffElapses(e))
    /\ \A u \in Url :
           /\ WF_bin(part = "bin" /\ Bin!WorkerStep(u))
           /\ WF_bin(part = "bin" /\ Bin!ClaimExpires(u))

MCSpec == MCInit /\ [][MCNext]_<<part, vars, bin>> /\ MCFairness

--------------------------------------------------------------------------------
(* Liveness of the parts *)

\* Every event is told, skipped or given up in the end, and every expired item is
\* purged, although sweeps die with their claims.
SweepsFinish == EveryEventSettles /\ Bin!ExpiredIsPurged

================================================================================
