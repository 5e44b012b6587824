------------------------------ MODULE MCIngestion ------------------------------
(******************************************************************************)
(* The instances of Ingestion for TLC. Each behaviour belongs to one scenario,*)
(* which fixes what may fail, how often a task is retried, how many attempts  *)
(* are admitted and how many workers are busy at a time. MCSpec is checked    *)
(* for safety; in LosslessSpec nothing fails for good, and what was started   *)
(* goes on.                                                                   *)
(******************************************************************************)
EXTENDS Ingestion, FiniteSets, TLC

VARIABLE scenario

Faults     == INSTANCE Ingestion WITH Fault <- {"crash", "database"}
Duplicates == INSTANCE Ingestion WITH Fault <- {"duplicate"}, MaxRetries <- 0
Replays    == INSTANCE Ingestion WITH Fault <- {}, MaxRetries <- 0
Lossless   == INSTANCE Ingestion WITH Fault <- {}

AttemptsWithin(n) == \A i \in Item : attempts'[i] <= n

BusyWithin(n) == Cardinality({w \in Worker : worker'[w] # IdleWorker}) <= n

StaysLive == \A i \in Item : item'[i].shelf = "live"

MCInit == Init /\ scenario \in {"faults", "duplicates", "replays"}

MCNext ==
    /\ \/ scenario = "faults" /\ Faults!Next /\ AttemptsWithin(2)
       \/ scenario = "duplicates" /\ Duplicates!Next /\ AttemptsWithin(2) /\ StaysLive
       \/ scenario = "replays" /\ Replays!Next /\ BusyWithin(1) /\ StaysLive
       \/ scenario = "lossless" /\ Lossless!Next
    /\ UNCHANGED scenario

MCSpec == MCInit /\ [][MCNext]_<<vars, scenario>>

LosslessInit == Init /\ scenario = "lossless"

LosslessSpec == LosslessInit /\ [][MCNext]_<<vars, scenario>> /\ Lossless!Fairness

\* Request keys and workers are interchangeable.
Symmetry == Permutations(Request) \union Permutations(Worker)

================================================================================
