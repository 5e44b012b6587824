------------------------------- MODULE MCBrowser -------------------------------
(******************************************************************************)
(* What runs in the browser, on small instances. A behaviour belongs to one   *)
(* of the three parts.                                                        *)
(******************************************************************************)
EXTENDS Browser

VARIABLE part

ASSUME BrowserBounds == FrameBounds /\ YouTube!YouTubeBounds /\ Library!BoundsAssumption

--------------------------------------------------------------------------------
(* The behaviours *)

\* What a frame shows, up to what no adapter can tell: a page that is not asked for
\* captions shows none, a piece named as one counts only where there is nothing
\* else, a track has the cues, and pieces are alike.
Shown(h) ==
    LET others == h.tracks \/ h.playlist \/ h.file \/ h.plain # {}
    IN  /\ h.buffered # {} => h.tracks
        /\ h.plain \subseteq {CHOOSE x \in Piece : TRUE}
        /\ h.indexed => ~others
        /\ ~h.entry => ~others /\ ~h.indexed

\* The page itself has one source at most; its player, any.
Single(h) == Cardinality({k \in {"tracks", "playlist", "file"} : h[k]} \union h.plain) <= 1

Nothing == [entry |-> FALSE, tracks |-> FALSE, buffered |-> {}, playlist |-> FALSE,
            plain |-> {}, indexed |-> FALSE, file |-> FALSE]

\* Where a part that does not run stays. Videos are alike: one stands for the others.
\* A page without a response has no name for one.
Parked(p) ==
    /\ p # "library" => row = [i \in Item |-> Library!Absent]
    /\ page.at \in Captioned => page.at = CHOOSE v \in Captioned : TRUE
    /\ ~page.given => "loaded" \notin page.names
    /\ p # "youtube" => page.at \in Captioned /\ ~page.given /\ page.names = {}

MCInit ==
    /\ part \in {"library", "youtube", "frames"}
    /\ IF part = "frames"
       THEN Init /\ Single(holds[Top]) /\ \A f \in Frame : Shown(holds[f])
       ELSE Init /\ holds = [f \in Frame |-> Nothing]
    /\ YouTube!Init /\ Library!Init
    /\ Parked(part)

\* A read is lost, or a change is asked for.
Bounded == fails' = 0 \/ changes' = 0

\* Cues that were there before, or come later, are the same to an adapter.
Loads == \A f \in Frame : holds'[f] # holds[f] => job[f].pc = "tracks"

\* Adapters share nothing until all are done: one after the other is as good as any
\* other order, the one of the page itself first.
InTurn ==
    \A f \in Frame \ {Top} :
        Top \in asked /\ job[Top].pc # "done" => job'[f] = job[f] /\ holds'[f] = holds[f]

MCNext ==
    /\ \/ part = "library" /\ Library!Next /\ Bounded /\ UNCHANGED <<youtube, vars>>
       \/ part = "youtube" /\ YouTube!Next /\ UNCHANGED <<library, vars>>
       \/ part = "frames" /\ Next /\ Loads /\ InTurn /\ UNCHANGED <<library, youtube>>
    /\ UNCHANGED part

\* The fairness of each part, in the behaviours that belong to it. No two of the
\* three fair actions of YouTubeCapture are ever enabled together.
MCFairness ==
    /\ \A q \in Library!Query :
           /\ WF_library(part = "library" /\ Library!Poll(q))
           /\ WF_library(part = "library" /\ Library!ReadAttempts(q))
           /\ WF_library(part = "library" /\ Library!Arrive(q))
    /\ WF_youtube(part = "youtube" /\ (YouTube!TimeOut \/ YouTube!Press \/ YouTube!Watch))
    /\ WF_vars(part = "frames" /\ Report)
    /\ \A f \in Frame : WF_vars(part = "frames" /\ Adapter(f))

MCSpec == MCInit /\ [][MCNext]_<<part, library, youtube, vars>> /\ MCFairness

--------------------------------------------------------------------------------
(* Liveness of the parts *)

\* A capture ends, although no server answers and no panel opens, and unfinished
\* work does not stay on the page after the worker settled it
\* (page-capture.ts 317-371, 969-983, 1259-1299; lifecycle.ts 15-19).
NothingHangs ==
    \A q \in Library!Query, i \in Item :
        []<>(/\ part = "library" => ~Library!ShowsUnfinished(q, i) \/ latest[i] \in Library!Active
             /\ part = "youtube" => reader.pc \in {"idle", "done"}
             /\ part = "frames" => asked = {} \/ report # NoAttempt)

================================================================================
