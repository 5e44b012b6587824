------------------------------- MODULE MCAccess -------------------------------
(******************************************************************************)
(* How users and their clients get in, on small instances. A behaviour        *)
(* belongs to one of the three parts.                                         *)
(******************************************************************************)
EXTENDS Access, Sequences

VARIABLE part

ASSUME AccessBounds == LimitsAssumption /\ Mcp!McpBounds /\ Session!BoundsAssumption

--------------------------------------------------------------------------------
(* The behaviours *)

\* One message, or two of one request after the other and no act of the operator.
Bounded ==
    \/ sent' <= 1
    \/ /\ \A g \in McpGrant : grant'[g] = [gen |-> 0, good |-> TRUE]
       /\ Cardinality({c \in Call : call'[c] # Mcp!IdleCall}) <= 1

\* Two login commands, two sessions, or one of each. Nobody links what the tab
\* shows, and the accounts are alike: one stands for the first that is logged in to.
FewLogins ==
    /\ Len(command') + Len(sess') <= 2
    /\ \A r \in requests' \ requests : r.kind = "link" => r.arg \notin tab[r.tab].holds
    /\ sess' = <<>>
       => \A r \in requests' : r.kind = "verify" => r.arg = CHOOSE a \in Account : TRUE

\* The tabs are alike: the first one logs in. Once it has, with a mailed code, the
\* others read and log out, and each tab waits for one answer at a time.
First == CHOOSE t \in Tab : TRUE
OneAsks ==
    LET others == Tab \ {First}
        sentFrom(T) == {r \in requests' : r.tab \in T}
    IN  (\E t \in others : tab'[t] # Session!Fresh) \/ sentFrom(others) # {}
        => /\ mode = "email" /\ sess' # <<>>
           /\ \A r \in sentFrom(others) : r.kind \in {"read", "logout"}
           /\ \A t \in Tab : Cardinality(sentFrom({t})) <= 1

MCInit ==
    /\ part \in {"mcp", "browser", "credentials"}
    /\ Init /\ Mcp!Init /\ Session!Init
    /\ part # "browser" => mode = "email"
    /\ part # "credentials" => protocol = "chat" /\ mail = CHOOSE a \in Account : TRUE

MCNext ==
    /\ \/ part = "mcp" /\ Mcp!Next /\ Bounded /\ UNCHANGED <<browser, vars>>
       \/ part = "browser" /\ Session!Next /\ FewLogins /\ OneAsks /\ UNCHANGED <<mcp, vars>>
       \/ part = "credentials" /\ Next /\ UNCHANGED <<mcp, browser>>
    /\ UNCHANGED part

\* The fairness of each part, in the behaviours that belong to it. Only the first
\* tab waits for a command, and no tab does where a code is mailed: no more is needed.
MCFairness ==
    LET waits == part = "browser" /\ mode = "chat"
    IN  /\ \A p \in Process : WF_mcp(part = "mcp" /\ Mcp!Assess(p))
        /\ WF_browser(waits /\ Session!Poll(First))
        /\ WF_browser(waits /\ \E r \in Session!Of(First) : Session!Serve(r))
        /\ WF_browser(waits /\ \E r \in Session!Of(First) : Session!Take(r) \/ Session!Lose(r))

MCSpec == MCInit /\ [][MCNext]_<<part, mcp, browser, vars>> /\ MCFairness

--------------------------------------------------------------------------------
(* Liveness of the parts *)

\* Startup ends although a worker never answers its inspection, and an approved
\* login command leads to the private page or to an error with a way to start
\* again (mcp_readiness.py 189-221, LoginPage.tsx 86-96, 124-126 and 487-492).
NobodyWaits == Mcp!StartupEnds /\ Session!ApprovalIsNoticed

================================================================================
