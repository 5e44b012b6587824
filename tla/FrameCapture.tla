----------------------------- MODULE FrameCapture -----------------------------
(******************************************************************************)
(* The extension reads the captions of a Kaltura video: its adapter runs in   *)
(* every frame of the page, and the attempts of the frames become one answer. *)
(*                                                                            *)
(* The player loads captions piece by piece: what a text track holds, and     *)
(* what the list of loaded resources names, may be a part of them. A playlist *)
(* names every piece, and a file has them all.                                *)
(******************************************************************************)
EXTENDS Naturals, FiniteSets, Sequences

CONSTANTS
    Frame,
    Top,      \* the frame of the page itself
    Piece,    \* pieces of the captions of the video
    MaxTime   \* bound: timeouts within the deadline of a capture

\* What the constants must satisfy.
FrameBounds ==
    /\ Top \in Frame /\ MaxTime \in Nat
    /\ IsFiniteSet(Piece) /\ Piece # {} /\ Piece \cap {"memory", "playlist", "file"} = {}

VARIABLES
    holds,   \* what each frame shows the adapter
    job,     \* the adapter of each frame
    asked,   \* the frames the current injection runs in, none before it
    report   \* the answer of the capture

vars == <<holds, job, asked, report>>

--------------------------------------------------------------------------------
(* State *)

Contents ==
    [entry : BOOLEAN,          \* a supported host with an entry id
     tracks : BOOLEAN,         \* a video with text tracks
     buffered : SUBSET Piece,  \* their cues
     playlist : BOOLEAN,       \* the address of a playlist is found
     plain : SUBSET Piece,     \* addresses of pieces that look like files
     indexed : BOOLEAN,        \* an address that names itself a piece
     file : BOOLEAN]           \* the address of a whole file

\* A request fails, or its body has no cues that can be read.
Failure == {"fetch", "parse"}

Attempt ==
    [status : {"none", "captured", "no_caption", "not_media_frame", "failed"},
     error : {"none", "unavailable"} \union Failure,
     cues : SUBSET Piece,
     length : BOOLEAN,   \* the player knows how long the video is
     title : BOOLEAN,    \* the page has a title of its own for it
     fits : BOOLEAN]     \* within the limits on cues and text of a capture

NoAttempt ==
    [status |-> "none", error |-> "none", cues |-> {},
     length |-> FALSE, title |-> FALSE, fits |-> TRUE]

Source == {"memory", "playlist", "file"} \union Piece

JobState ==
    [pc : {"idle", "tracks", "fetch", "done"},
     seen : SUBSET Piece,                   \* cues of the text tracks
     todo : Seq(Source),
     list : SUBSET Piece,                   \* pieces of the playlist still to read
     members : BOOLEAN,                     \* the playlist was read
     got : SUBSET Piece,
     errors : SUBSET Failure,
     time : 0..MaxTime,
     attempt : Attempt]

NewJob ==
    [pc |-> "idle", seen |-> {}, todo |-> <<>>, list |-> {}, members |-> FALSE,
     got |-> {}, errors |-> {}, time |-> 0, attempt |-> NoAttempt]

Init ==
    /\ holds \in [Frame -> Contents]
    /\ job = [f \in Frame |-> NewJob]
    /\ asked = {}
    /\ report = NoAttempt

Set(f, to) == job' = [job EXCEPT ![f] = to] /\ UNCHANGED <<holds, asked, report>>
SetOne(f, next) == \E to \in next : Set(f, to)

--------------------------------------------------------------------------------
(* One frame *)

Attempted(j, attempt) == [j EXCEPT !.pc = "done", !.attempt = attempt]

Failed(j, error) ==
    Attempted(j, [NoAttempt EXCEPT !.status = "failed", !.error = error])

\* Cues, and whatever else is known of the video; those in memory come without a
\* title. What the cues weigh is not known here: any of them may be too much.
Captures(cues, titles) ==
    [status : {"captured"}, error : {"none"}, cues : {cues},
     length : BOOLEAN, title : titles, fits : BOOLEAN]

Read(j, cues, titles) == {Attempted(j, a) : a \in Captures(cues, titles)}

Start(f) ==
    /\ f \in asked /\ job[f].pc = "idle"
    /\ Set(f, IF holds[f].entry
              THEN [job[f] EXCEPT !.pc = "tracks"]
              ELSE Attempted(job[f], [NoAttempt EXCEPT !.status = "not_media_frame"]))

\* The player goes on loading while the adapter waits for the cues of a track.
Buffer(f) ==
    /\ holds[f].tracks
    /\ \E p \in Piece \ holds[f].buffered :
           holds' = [holds EXCEPT ![f].buffered = @ \union {p}]
    /\ UNCHANGED <<job, asked, report>>

\* Where captions may be, in the order they are tried: with a playlist, cues in
\* memory do not count; without, they come first.
Sources(h, seen, order) ==
    (CASE h.playlist -> <<"playlist">>
       [] ~h.playlist /\ seen # {} -> <<"memory">>
       [] OTHER -> <<>>) \o order

\* The addresses found, in the order the page gives them.
Orders(h) ==
    LET found == h.plain \union (IF h.file THEN {"file"} ELSE {})
    IN  {order \in [1..Cardinality(found) -> found] :
            {order[i] : i \in DOMAIN order} = found}

\* Nothing that was found says that there are captions.
Bare(h) == ~h.indexed

\* The next source, or the end; cues in memory need no request.
Try(j) ==
    CASE j.todo = <<>> -> {Failed(j, IF "fetch" \in j.errors THEN "fetch" ELSE "parse")}
      [] j.todo # <<>> /\ j.todo[1] = "memory" -> Read(j, j.seen, {FALSE})
      [] OTHER -> {[j EXCEPT !.pc = "fetch"]}

\* The tracks were waited for, and whatever else the frame shows is collected.
Collect(f) ==
    /\ job[f].pc = "tracks"
    /\ LET h == holds[f]
           j == [job[f] EXCEPT !.seen = h.buffered]
       IN  \E order \in Orders(h) :
               LET todo == Sources(h, h.buffered, order)
               IN  SetOne(f, CASE todo # <<>> \/ h.tracks -> Try([j EXCEPT !.todo = todo])
                               [] todo = <<>> /\ ~h.tracks /\ Bare(h) ->
                                      {Attempted(j, [NoAttempt EXCEPT !.status = "no_caption"])}
                               [] OTHER -> {Failed(j, "parse")})

\* Pieces already read are not kept when one of them fails.
NextSource(j, error) ==
    Try([j EXCEPT !.errors = @ \union {error}, !.todo = Tail(@), !.list = {}, !.got = {}])

\* A playlist that was read takes its pieces off the list of sources.
Members(todo) ==
    IF "file" \in {todo[i] : i \in DOMAIN todo} THEN <<"playlist", "file">> ELSE <<"playlist">>

\* The body arrived in time, from a trusted address, within its size, and can
\* be read.
Good(f) ==
    LET j == job[f]
        source == j.todo[1]
    IN  \/ /\ source = "playlist" /\ j.list = {}
           /\ Set(f, [j EXCEPT !.list = Piece, !.members = TRUE, !.todo = Members(@)])
        \/ \E p \in j.list :
               LET got == j.got \union {p}
               IN  SetOne(f, IF j.list = {p}
                             THEN Read(j, got, BOOLEAN)
                             ELSE {[j EXCEPT !.list = @ \ {p}, !.got = got]})
        \/ source = "file" /\ SetOne(f, Read(j, Piece, BOOLEAN))
        \/ source \in Piece /\ SetOne(f, Read(j, {source}, BOOLEAN))

Answer(f) ==
    /\ job[f].pc = "fetch" /\ job[f].time < MaxTime
    /\ \/ Good(f)
       \/ \E error \in Failure : SetOne(f, NextSource(job[f], error))

\* A request after the deadline fails at once.
Later(n) == IF n < MaxTime THEN n + 1 ELSE n

\* The timer of a request, or the deadline of the capture.
Due(j) == j.pc = "fetch"

TimeOut(f) ==
    /\ Due(job[f])
    /\ SetOne(f, NextSource([job[f] EXCEPT !.time = Later(@)], "fetch"))

\* The page throws where the adapter does not expect it.
Throw(f) == job[f].pc = "tracks" /\ Set(f, Failed(job[f], "unavailable"))

--------------------------------------------------------------------------------
(* All frames *)

\* The injection into all frames; one that cannot be entered rejects it, and
\* the page itself is asked alone.
Inject ==
    /\ asked = {}
    /\ asked' \in {Frame, {Top}}
    /\ UNCHANGED <<holds, job, report>>

\* A capture over the limits is dropped before the attempts are compared.
Attempts == {a \in {job[f].attempt : f \in asked} : a.fits}

Of(status) == {a \in Attempts : a.status = status}

\* Failures of frames that found captions.
Retryable == {a \in Of("failed") : a.error \in Failure}

\* captureScore is the number of cues and what the length and a title add to it;
\* the address adds the same to all.
Bonus(a) == (IF a.length THEN 200 ELSE 0) + (IF a.title THEN 50 ELSE 0)

\* A piece has any number of cues: what certainly scores more has the pieces of
\* the other and as much besides.
Outscores(b, a) ==
    /\ a.cues \subseteq b.cues /\ Bonus(a) <= Bonus(b)
    /\ a.cues # b.cues \/ Bonus(a) # Bonus(b)

\* The captures no other certainly outscores.
Best == {a \in Of("captured") : \A b \in Of("captured") : ~Outscores(b, a)}

\* What the attempts amount to.
Answers ==
    CASE Of("captured") # {} -> Best
      [] Of("captured") = {} /\ Retryable # {} -> Retryable
      [] Of("captured") \union Retryable = {} /\ Of("no_caption") # {} -> Of("no_caption")
      [] OTHER -> {[NoAttempt EXCEPT !.status = "failed", !.error = "unavailable"]}

Report ==
    /\ asked # {} /\ report = NoAttempt
    /\ \A f \in asked : job[f].pc = "done"
    /\ report' \in Answers
    /\ UNCHANGED <<holds, job, asked>>

--------------------------------------------------------------------------------
(* The specification *)

Adapter(f) == Start(f) \/ Collect(f) \/ TimeOut(f)

Next ==
    \/ Inject \/ Report
    \/ \E f \in Frame : Adapter(f) \/ Answer(f) \/ Throw(f) \/ Buffer(f)

\* Timers fire and scripts run on; no server has to answer.
Fairness == WF_vars(Report) /\ \A f \in Frame : WF_vars(Adapter(f))

Spec == Init /\ [][Next]_vars /\ Fairness

--------------------------------------------------------------------------------
(* Properties *)

\* Every frame, adapter and answer has the shape the code gives it.
TypeOK ==
    /\ holds \in [Frame -> Contents]
    /\ job \in [Frame -> JobState]
    /\ asked \subseteq Frame
    /\ report \in Attempt

\* A part of the captions is saved as the captions of a video only by a frame
\* that found no playlist, or could not read it: cues the player happens to hold
\* never stand in for a playlist that broke off (page-capture.ts 1448-1455).
PartIsNotTaken ==
    \A f \in Frame :
        LET a == job[f].attempt
        IN  a.status = "captured" /\ a.cues # Piece
            => /\ ~job[f].members
               /\ holds[f].playlist => a.cues \subseteq holds[f].plain

\* Nothing in a frame says that its video has captions.
Captionless(h) ==
    ~h.tracks /\ h.buffered = {} /\ ~h.playlist /\ ~h.file /\ ~h.indexed /\ h.plain = {}

\* A video is reported as one without captions, and handed to transcription,
\* only if no frame that was asked found any, but for one that threw and one whose
\* captions are over the limits of a capture (page-capture.ts 206-244, 1468-1482).
NoCaptionIsTrue ==
    report.status = "no_caption"
    => \A f \in asked :
           LET a == job[f].attempt
           IN  holds[f].entry /\ a.error # "unavailable" /\ a.fits
               => Captionless(holds[f])

\* A part is reported although another frame captured the whole only if the whole
\* is over the limits of a capture, or the frame of the part knows the length of
\* the video, or a title, that the other does not (page-capture.ts 188-227).
WholeWins ==
    report.status = "captured" /\ report.cues # Piece
    => \A f \in asked :
           LET a == job[f].attempt
           IN  a.cues = Piece /\ a.fits
               => (report.length /\ ~a.length) \/ (report.title /\ ~a.title)

\* A capture ends, although no server answers (page-capture.ts 1259-1299).
CaptureEnds == asked # {} ~> report # NoAttempt

--------------------------------------------------------------------------------
(* What a test says and the code does not do *)

\* "does not submit partial playlist captions": with the playlist itself
\* unreadable, a piece of it that looks like a file is submitted.
PlaylistIsWhole ==
    \A f \in Frame :
        holds[f].playlist /\ job[f].attempt.status = "captured"
        => job[f].attempt.cues = Piece

================================================================================
