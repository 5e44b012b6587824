---------------------------- MODULE YouTubeCapture ----------------------------
(******************************************************************************)
(* The extension reads the captions of the YouTube video on a page, while the *)
(* page may go to another video without a reload.                             *)
(*                                                                            *)
(* Between two awaits the adapter runs in one step, and it reads what the     *)
(* page holds by then: the location changes first, the player follows, and    *)
(* what was loaded with the page never changes. A transcript panel is drawn   *)
(* for the video of its time and stays until the page clears it. A signed     *)
(* caption address answers with the captions of its own video.                *)
(******************************************************************************)
EXTENDS Naturals

CONSTANTS
    Video,
    Captioned,     \* videos with caption tracks
    None,
    MaxTime,       \* bound: timeouts within the deadline of a capture
    MaxChunk,      \* bound: chunks of a body within its size limit
    MaxAttempt,    \* bound: looks at the page for a button or a panel
    MaxNavigation  \* bound: changes of video

\* What the constants must satisfy.
YouTubeBounds ==
    /\ Captioned \subseteq Video /\ None \notin Video
    /\ {MaxTime, MaxChunk, MaxAttempt, MaxNavigation} \subseteq Nat

VARIABLES
    page,    \* the location, the player, what was loaded, and the panel
    visits,  \* navigations so far
    job,     \* the adapter
    time     \* timeouts so far

vars == <<page, visits, job, time>>

--------------------------------------------------------------------------------
(* State *)

PageState ==
    [at : Video, player : Video \union {None}, loaded : Video,
     given : BOOLEAN,                       \* a response was loaded with the page
     names : SUBSET {"player", "loaded"},   \* whose responses name their video
     panel : Captioned \union {None}]

Form  == {"json", "vtt", "raw", "transcript"}
Error == {"fetch", "parse", "stale", "unavailable"}

Result ==
    [status : {"none", "captured", "no_caption", "failed"},
     error : Error \union {"none"},
     of : Video \union {None},              \* the video of the cues
     via : Form \union {"panel", "none"}]

NoResult == [status |-> "none", error |-> "none", of |-> None, via |-> "none"]

JobState ==
    [pc : {"idle", "fetch", "read", "button", "wait", "done"},
     id : Video,
     known : BOOLEAN,                       \* some response named a video
     of : Video,                            \* of the response its tracks are from
     left : 0..2,                           \* tracks not yet given up
     form : Form,
     size : 0..MaxChunk,
     attempt : 0..MaxAttempt,
     errors : SUBSET Error,
     result : Result]

Init ==
    /\ page \in {p \in PageState : p.at = p.loaded /\ p.player = p.at /\ p.panel = None}
    /\ visits = 0
    /\ job = [pc |-> "idle", id |-> page.at, known |-> FALSE, of |-> page.at, left |-> 0,
              form |-> "json", size |-> 0, attempt |-> 0, errors |-> {},
              result |-> NoResult]
    /\ time = 0

Current(j) == page.at = j.id

--------------------------------------------------------------------------------
(* How an attempt ends *)

End(j, result) == [j EXCEPT !.pc = "done", !.result = result]
Fail(j, error) == End(j, [NoResult EXCEPT !.status = "failed", !.error = error])

\* Cues count while the page still shows the video.
Captured(j, of, via) ==
    IF Current(j)
    THEN End(j, [NoResult EXCEPT !.status = "captured", !.of = of, !.via = via])
    ELSE Fail(j, "stale")

Exhausted(j) ==
    Fail(j, CASE ~Current(j) -> "stale"
              [] Current(j) /\ "fetch" \in j.errors -> "fetch"
              [] OTHER -> "parse")

--------------------------------------------------------------------------------
(* The responses of the player *)

\* What the player says of its video, and what was loaded with the page, once as
\* its response and once in the configuration, without a name.
Responses ==
    LET Named(who, v) == [id |-> IF who \in page.names THEN v ELSE None, of |-> v]
        loaded == IF page.given THEN {page.loaded} ELSE {}
    IN  {Named("player", v) : v \in {page.player} \ {None}}
        \union {Named("loaded", v) : v \in loaded}
        \union {[id |-> None, of |-> v] : v \in loaded}

Known == \E r \in Responses : r.id # None

\* Variant of Ours that settles for a response without a name.
OursUnnamed(id) ==
    LET named == {r \in Responses : r.id = id}
    IN  IF named # {} THEN named ELSE {r \in Responses : r.id = None}

\* The responses for the video: those that name it, or those without a name if
\* none names another.
Ours(id) ==
    LET named == {r \in Responses : r.id = id}
    IN  IF named # {} THEN named
        ELSE {r \in Responses : \A s \in Responses : s.id = None}

\* Those with tracks come first.
Preferred(id) ==
    LET tracked == {r \in Ours(id) : r.of \in Captioned}
    IN  IF tracked # {} THEN tracked ELSE Ours(id)

\* How many tracks a video with captions has, in the order they are tried: one the
\* author made, one that was recognised, or both.
Tracks == 1..2

Start ==
    /\ job.pc = "idle"
    /\ LET new == [job EXCEPT !.id = page.at, !.known = Known]
       IN  \/ Responses = {} /\ job' = Fail(new, "unavailable")
           \/ Responses # {} /\ Ours(page.at) = {} /\ job' = Fail(new, "stale")
           \/ \E r \in Preferred(page.at) :
                  IF r.of \notin Captioned
                  THEN job' = End(new, [NoResult EXCEPT !.status = "no_caption"])
                  ELSE \E n \in Tracks :
                           job' = [new EXCEPT !.pc = "fetch", !.of = r.of, !.left = n]
    /\ UNCHANGED <<page, visits, time>>

--------------------------------------------------------------------------------
(* Requests *)

\* The panel on the page is read as it is, and otherwise opened.
Panel(j) ==
    CASE page.panel # None -> Captured(j, page.panel, "panel")
      [] page.panel = None /\ Current(j) -> [j EXCEPT !.pc = "button", !.attempt = 0]
      [] OTHER -> Exhausted(j)

\* The opaque parameters loaded with the page contain the video.
ParamsMatch(j) == page.loaded = j.id

\* The transcript endpoint is asked if the page has what a request needs.
Transcript(j) ==
    {Panel(j)} \union
    (IF Current(j) /\ ParamsMatch(j)
     THEN {[j EXCEPT !.pc = "fetch", !.form = "transcript", !.of = page.loaded]}
     ELSE {})

\* After a failure: the next form of the track if its first was readable at
\* all, then the next track, then the transcript.
Onward(error) ==
    LET j == [job EXCEPT !.errors = @ \union {error}, !.size = 0, !.pc = "fetch"]
    IN  CASE j.form = "json" /\ error = "parse" -> {[j EXCEPT !.form = "vtt"]}
          [] j.form = "vtt" -> {[j EXCEPT !.form = "raw"]}
          [] j.form = "transcript" -> {Panel(j)}
          [] OTHER -> LET t == [j EXCEPT !.left = @ - 1, !.form = "json"]
                      IN  IF t.left > 0 THEN {t} ELSE Transcript(t)

Later(n) == IF n < MaxTime THEN n + 1 ELSE n

\* A response arrives in time; one that is refused, or was redirected to a host
\* that is not trusted, is a failed fetch.
Respond ==
    /\ job.pc = "fetch" /\ time < MaxTime
    /\ job' \in {[job EXCEPT !.pc = "read"]} \union Onward("fetch")
    /\ UNCHANGED <<page, visits, time>>

TooLarge(size) == size = MaxChunk

\* Another chunk of the body; every chunk has a timer of its own.
Chunk ==
    /\ job.pc = "read" /\ time < MaxTime
    /\ \/ ~TooLarge(job.size) /\ job' = [job EXCEPT !.size = @ + 1]
       \/ TooLarge(job.size) /\ job' \in Onward("parse")
    /\ UNCHANGED <<page, visits, time>>

\* The body is complete: it has cues, or none that can be read.
Body ==
    /\ job.pc = "read" /\ time < MaxTime
    /\ job' \in {Captured(job, job.of, job.form)} \union Onward("parse")
    /\ UNCHANGED <<page, visits, time>>

\* What a timer guards: the headers and every chunk.
Timed == {"fetch", "read"}

\* The timer of the request, or the deadline of the capture.
TimeOut ==
    /\ job.pc \in Timed
    /\ job' \in Onward(IF job.pc = "fetch" THEN "fetch" ELSE "parse")
    /\ time' = Later(time)
    /\ UNCHANGED <<page, visits>>

--------------------------------------------------------------------------------
(* The transcript panel *)

Looks(j) == j.attempt < MaxAttempt /\ time < MaxTime /\ Current(j)

\* The button that opens the panel is looked for, a few times.
Press ==
    /\ job.pc = "button"
    /\ \/ /\ Looks(job)
          /\ job' \in {[job EXCEPT !.pc = "wait", !.attempt = 0],
                       [job EXCEPT !.attempt = @ + 1]}
          /\ time' \in {time, Later(time)}
       \/ ~Looks(job) /\ job' = Exhausted(job) /\ UNCHANGED time
    /\ UNCHANGED <<page, visits>>

\* Then the panel is.
Watch ==
    /\ job.pc = "wait"
    /\ \/ /\ Looks(job) /\ page.panel # None
          /\ job' = Captured(job, page.panel, "panel")
          /\ UNCHANGED time
       \/ /\ Looks(job) /\ page.panel = None
          /\ job' = [job EXCEPT !.attempt = @ + 1]
          /\ time' \in {time, Later(time)}
       \/ ~Looks(job) /\ job' = Exhausted(job) /\ UNCHANGED time
    /\ UNCHANGED <<page, visits>>

--------------------------------------------------------------------------------
(* The page *)

Become(to) == page' = to /\ UNCHANGED <<job, time>>

Navigate ==
    /\ visits < MaxNavigation /\ visits' = visits + 1
    /\ \E v \in Video \ {page.at} : Become([page EXCEPT !.at = v])

PlayerFollows ==
    /\ page.player # page.at /\ UNCHANGED visits
    /\ \E v \in {page.at, None} \ {page.player} : Become([page EXCEPT !.player = v])

DrawPanel ==
    /\ page.panel = None /\ page.at \in Captioned /\ UNCHANGED visits
    /\ Become([page EXCEPT !.panel = page.at])

ClearPanel ==
    /\ page.panel # None /\ UNCHANGED visits
    /\ Become([page EXCEPT !.panel = None])

Next ==
    \/ Start \/ Respond \/ Chunk \/ Body \/ TimeOut \/ Press \/ Watch
    \/ Navigate \/ PlayerFollows \/ DrawPanel \/ ClearPanel

\* Timers fire and loops go on; no server and no page has to do anything.
Fairness == WF_vars(TimeOut) /\ WF_vars(Press) /\ WF_vars(Watch)

Spec == Init /\ [][Next]_vars /\ Fairness

--------------------------------------------------------------------------------
(* Properties *)

\* The page, the job and its result have the shape the adapter gives them, and
\* no body grows past the limit (page-capture.ts 373-438).
TypeOK ==
    /\ page \in PageState
    /\ visits \in 0..MaxNavigation
    /\ job \in JobState
    /\ time \in 0..MaxTime

\* Fetched cues are those of the video they are saved for, whatever the player
\* and the page still held of another one, if any response said which video it is
\* of (page-capture.ts 521-549, 789-863).
CaptionsOfThatVideo ==
    job.known /\ job.result.status = "captured" /\ job.result.via # "panel"
    => job.result.of = job.id

\* When cues are returned, the page still shows the video they are saved for
\* (page-capture.ts 466, 732, 753, 923).
SavedIsOnScreen ==
    [][job.result.status # "captured" /\ job'.result.status = "captured"
       => page.at = job'.id]_vars

\* A video is saved as one without captions only if it has none, or no response
\* said which video it is of: a response that names another never speaks for it
\* (page-capture.ts 527-549, 566).
NoCaptionIsTrue ==
    job.known /\ job.result.status = "no_caption" => job.id \notin Captioned

\* A capture ends, although no server answers and no panel opens
\* (page-capture.ts 317-371, 969-983).
CaptureEnds == job.pc # "idle" ~> job.pc = "done"

================================================================================
