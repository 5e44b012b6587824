------------------------------- MODULE MCTenants -------------------------------
(******************************************************************************)
(* What users own and may spend, on small instances. A behaviour belongs to   *)
(* one of the three parts.                                                    *)
(******************************************************************************)
EXTENDS Tenants, Functions, TLC

VARIABLE part

\* An identity of each channel, which is its name.
MCChannelOf == [i \in Identity |-> i]

\* The limit settings explored: none, a user's, everybody's, daily ones.
Unlimited ==
    [active |-> 0, sends |-> 0, items |-> 0, total |-> 0,
     activeAll |-> 0, sendsAll |-> 0, itemsAll |-> 0]

MCPolicy ==
    {Unlimited,
     [Unlimited EXCEPT !.active = 1],
     [Unlimited EXCEPT !.sends = 1, !.activeAll = 1],
     [Unlimited EXCEPT !.items = 1, !.sendsAll = 1],
     [Unlimited EXCEPT !.total = 1, !.itemsAll = 1]}

ASSUME TenantsBounds == Linking!ConstantsAssumption /\ Publication!OutboxAssumption

--------------------------------------------------------------------------------
(* The behaviours *)

MCInit ==
    /\ part \in {"linking", "quota", "publication"}
    /\ Linking!Init /\ Init /\ Publication!Init
    /\ part # "quota" => policy = Unlimited

\* Failed publications and outlived claims are bounded for all events together.
FaultsBounded == FoldFunction(+, 0, faults') <= MaxFaults

MCNext ==
    /\ \/ part = "linking" /\ Linking!Next /\ UNCHANGED <<vars, publication>>
       \/ part = "quota" /\ Next /\ UNCHANGED <<linking, publication>>
       \/ /\ part = "publication" /\ Publication!Next /\ FaultsBounded
          /\ UNCHANGED <<linking, vars>>
    /\ UNCHANGED part

MCSpec == MCInit /\ [][MCNext]_<<part, linking, vars, publication>>

\* Videos, requests and repair sweeps are interchangeable.
Symmetry == Permutations(Video) \union Permutations(Client) \union Permutations(Repair)

================================================================================
