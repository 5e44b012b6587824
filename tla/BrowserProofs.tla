----------------------------- MODULE BrowserProofs -----------------------------
(******************************************************************************)
(* Theorems about Browser: for every set of frames, pieces, videos and lists, *)
(* and every number of timeouts, navigations, changes and lost reads.         *)
(*                                                                            *)
(* The argument, for the frames: the sources of an attempt can be read as     *)
(* what they are (Readable), a playlist is read to its end or given up, and a *)
(* frame that is done never changes, so no answer certainly scores more than  *)
(* the one reported. For YouTube: once a response names a video, one is taken *)
(* up only if it names that of the page, and whatever goes on does so with    *)
(* the video the attempt was started for (Fits). For the pages: the refresh   *)
(* of an answer leaves no earlier read in flight, so an entry that shows      *)
(* something older is still marked (Recent), and a batch of this opening of   *)
(* the dialog is the one it waits for (DialogFits).                           *)
(******************************************************************************)
EXTENDS Browser, FiniteSetTheorems, SequenceTheorems, TLAPS

--------------------------------------------------------------------------------
(* The inductive invariant of the frames *)

\* Cues in memory are no source beside a playlist, a piece is one if its address is
\* in the page, and neither is one once the playlist was read.
Readable(h, members, source) ==
    /\ source = "memory" => ~h.playlist
    /\ source \in Piece => source \in h.plain
    /\ members => source \notin Piece /\ source # "memory"

\* What an attempt says of its frame.
AttemptFits(h, members, a) ==
    /\ a.status = "captured" /\ a.cues # Piece
           => ~members /\ (h.playlist => a.cues \subseteq h.plain)
    /\ a.status # "captured" => a.cues = {} /\ a.fits
    /\ a.status = "failed" => a.error \in Failure \union {"unavailable"}
    /\ a.status = "not_media_frame" => ~h.entry
    /\ a.status = "no_caption" => Captionless(h)

FrameFits(h, j) ==
    /\ j.pc \in {"idle", "tracks"} => ~j.members
    /\ j.pc # "done" => j.attempt = NoAttempt
    /\ j.pc = "fetch" => j.todo # <<>>
    /\ j.pc = "done" => j.attempt.status # "none"
    /\ \A i \in DOMAIN j.todo : Readable(h, j.members, j.todo[i])
    /\ j.list # {} => j.list \union j.got = Piece
    /\ AttemptFits(h, j.members, j.attempt)

FrameInv ==
    /\ TypeOK
    /\ \A f \in Frame : FrameFits(holds[f], job[f])
    /\ \A f \in Frame \ asked : job[f].pc = "idle"
    /\ report # NoAttempt => asked # {} /\ \A f \in asked : job[f].pc = "done"
    /\ NoCaptionIsTrue
    /\ WholeWins

--------------------------------------------------------------------------------
(* What one frame does *)

\* How an attempt ends.
LEMMA EndsFit ==
  ASSUME NEW h \in Contents, NEW j \in JobState, NEW a \in Attempt, a.status # "none",
         AttemptFits(h, j.members, a),
         \A i \in DOMAIN j.todo : Readable(h, j.members, j.todo[i]),
         j.list # {} => j.list \union j.got = Piece
  PROVE  /\ Attempted(j, a) \in JobState /\ Attempted(j, a).pc = "done"
         /\ FrameFits(h, Attempted(j, a))
<1> DEFINE n == Attempted(j, a)
<1>1. /\ n \in JobState /\ n.pc = "done" /\ n.attempt = a /\ n.members = j.members
      /\ n.todo = j.todo /\ n.list = j.list /\ n.got = j.got
  BY DEF Attempted, JobState
<1> HIDE DEF n
<1>2. FrameFits(h, n)
  BY <1>1 DEF FrameFits
<1>3. QED
  BY <1>1, <1>2 DEF n

\* A frame that fails is done, and fits.
LEMMA FailedFits ==
  ASSUME NEW h \in Contents, NEW j \in JobState, NEW error \in Failure \union {"unavailable"},
         \A i \in DOMAIN j.todo : Readable(h, j.members, j.todo[i]),
         j.list # {} => j.list \union j.got = Piece
  PROVE  /\ Failed(j, error) \in JobState /\ Failed(j, error).pc = "done"
         /\ FrameFits(h, Failed(j, error))
<1> DEFINE a == [NoAttempt EXCEPT !.status = "failed", !.error = error]
<1>1. a \in Attempt /\ a.status = "failed" /\ a.error = error /\ a.cues = {} /\ a.fits
  BY DEF Attempt, NoAttempt
<1> HIDE DEF a
<1>2. AttemptFits(h, j.members, a)
  BY <1>1 DEF AttemptFits
<1>3. Failed(j, error) = Attempted(j, a)
  BY DEF Failed, a
<1>4. QED
  BY <1>1, <1>2, <1>3, EndsFit

\* A frame that has read cues is done, and fits.
LEMMA ReadFits ==
  ASSUME NEW h \in Contents, NEW j \in JobState, NEW cues \in SUBSET Piece,
         NEW titles \in SUBSET BOOLEAN,
         cues # Piece => ~j.members /\ (h.playlist => cues \subseteq h.plain),
         \A i \in DOMAIN j.todo : Readable(h, j.members, j.todo[i]),
         j.list # {} => j.list \union j.got = Piece
  PROVE  \A n \in Read(j, cues, titles) :
             n \in JobState /\ n.pc = "done" /\ FrameFits(h, n)
<1> SUFFICES ASSUME NEW a \in Captures(cues, titles)
             PROVE  /\ Attempted(j, a) \in JobState /\ Attempted(j, a).pc = "done"
                    /\ FrameFits(h, Attempted(j, a))
  BY DEF Read
<1>1. a \in Attempt /\ a.status = "captured" /\ a.cues = cues
  BY DEF Attempt, Captures
<1>2. AttemptFits(h, j.members, a)
  BY <1>1 DEF AttemptFits
<1>3. QED
  BY <1>1, <1>2, EndsFit

\* The next source is tried.
LEMMA TryFits ==
  ASSUME NEW h \in Contents, NEW j \in JobState, j.attempt = NoAttempt,
         \A i \in DOMAIN j.todo : Readable(h, j.members, j.todo[i]),
         j.list # {} => j.list \union j.got = Piece
  PROVE  \A n \in Try(j) : n \in JobState /\ FrameFits(h, n) /\ n.pc \in {"fetch", "done"}
<1>1. CASE j.todo = <<>>
  <2>1. PICK e \in Failure : Try(j) = {Failed(j, e)}
    BY <1>1 DEF Try, Failure
  <2>2. QED
    BY <2>1, FailedFits
<1>2. CASE j.todo # <<>> /\ j.todo[1] = "memory"
  <2>1. Try(j) = Read(j, j.seen, {FALSE}) /\ j.seen \in SUBSET Piece
    BY <1>2 DEF Try, JobState
  <2>2. 1 \in DOMAIN j.todo
    BY <1>2 DEF JobState
  <2>3. ~j.members /\ ~h.playlist
    BY <1>2, <2>2 DEF Readable
  <2>4. \A n \in Read(j, j.seen, {FALSE}) : n \in JobState /\ n.pc = "done" /\ FrameFits(h, n)
    BY <2>1, <2>3, ReadFits
  <2>5. QED
    BY <2>1, <2>4
<1>3. CASE j.todo # <<>> /\ j.todo[1] # "memory"
  <2> DEFINE n == [j EXCEPT !.pc = "fetch"]
  <2>1. /\ n \in JobState /\ n.pc = "fetch" /\ n.attempt = NoAttempt /\ n.members = j.members
        /\ n.todo = j.todo /\ n.list = j.list /\ n.got = j.got
    BY DEF JobState
  <2>2. Try(j) = {n}
    BY <1>3 DEF Try
  <2> HIDE DEF n
  <2>3. FrameFits(h, n)
    BY <1>3, <2>1 DEF FrameFits, AttemptFits, NoAttempt
  <2>4. QED
    BY <2>1, <2>2, <2>3
<1>4. QED
  BY <1>1, <1>2, <1>3

\* The next source of an attempt fits.
LEMMA NextSourceFits ==
  ASSUME NEW h \in Contents, NEW j \in JobState, FrameFits(h, j), j.pc = "fetch",
         NEW error \in Failure
  PROVE  \A n \in NextSource(j, error) :
             n \in JobState /\ FrameFits(h, n) /\ n.pc \in {"fetch", "done"}
<1> DEFINE k == [j EXCEPT !.errors = @ \union {error}, !.todo = Tail(@), !.list = {}, !.got = {}]
<1>1. j.todo \in Seq(Source) /\ j.todo # <<>>
  BY DEF FrameFits, JobState
<1>2. /\ Tail(j.todo) \in Seq(Source) /\ Len(Tail(j.todo)) = Len(j.todo) - 1
      /\ \A i \in 1..Len(Tail(j.todo)) : Tail(j.todo)[i] = j.todo[i + 1]
  BY <1>1, HeadTailProperties
<1> DEFINE tail == Tail(j.todo)
<1>3. tail \in Seq(Source)
  BY <1>2
<1>4. \A i \in DOMAIN tail : \E m \in DOMAIN j.todo : tail[i] = j.todo[m]
  <2> SUFFICES ASSUME NEW i \in DOMAIN tail
               PROVE  \E m \in DOMAIN j.todo : tail[i] = j.todo[m]
    OBVIOUS
  <2>1. i \in 1..Len(tail) /\ i + 1 \in 1..Len(j.todo)
    BY <1>1, <1>2
  <2>2. QED
    BY <1>1, <1>2, <2>1
<1> HIDE DEF tail
<1>5. k = [j EXCEPT !.errors = j.errors \union {error}, !.todo = tail, !.list = {}, !.got = {}]
  BY DEF JobState, tail
<1>6. /\ k \in JobState /\ k.attempt = j.attempt /\ k.members = j.members
      /\ k.todo = tail /\ k.list = {}
  BY <1>3, <1>5 DEF JobState
<1>7. NextSource(j, error) = Try(k)
  BY DEF NextSource
<1> HIDE DEF k
<1>8. j.attempt = NoAttempt /\ \A i \in DOMAIN j.todo : Readable(h, j.members, j.todo[i])
  BY DEF FrameFits
<1>9. \A i \in DOMAIN k.todo : Readable(h, k.members, k.todo[i])
  BY <1>4, <1>6, <1>8
<1>10. QED
  BY <1>6, <1>7, <1>8, <1>9, TryFits

\* The sources that were found can be read as what they are.
LEMMA SourcesReadable ==
  ASSUME FrameBounds, NEW h \in Contents, NEW seen \in SUBSET Piece, NEW order \in Orders(h)
  PROVE  /\ Sources(h, seen, order) \in Seq(Source)
         /\ \A i \in DOMAIN Sources(h, seen, order) :
                Readable(h, FALSE, Sources(h, seen, order)[i])
         /\ Sources(h, seen, order) = <<>>
                => ~h.playlist /\ seen = {} /\ ~h.file /\ h.plain = {}
<1> DEFINE first == CASE h.playlist -> <<"playlist">>
                      [] ~h.playlist /\ seen # {} -> <<"memory">>
                      [] OTHER -> <<>>
           X == Source \ {"memory", "playlist"}
<1> DEFINE found == h.plain \union (IF h.file THEN {"file"} ELSE {})
<1>1. order \in Seq(X)
  <2>1. h.plain \subseteq Piece /\ IsFiniteSet(Piece)
    BY DEF Contents, FrameBounds
  <2>2. IsFiniteSet(h.plain)
    BY <2>1, FS_Subset
  <2>3. IsFiniteSet(found) /\ found \subseteq X
    <3>1. IsFiniteSet(IF h.file THEN {"file"} ELSE {})
      BY FS_EmptySet, FS_Singleton
    <3>2. IsFiniteSet(found)
      BY <2>2, <3>1, FS_Union
    <3>3. found \subseteq X
      BY <2>1 DEF Source, FrameBounds
    <3>4. QED
      BY <3>2, <3>3
  <2>4. order \in [1..Cardinality(found) -> found]
    BY DEF Orders
  <2> HIDE DEF found
  <2>5. Cardinality(found) \in Nat
    BY <2>3, FS_CardinalityType
  <2>6. order \in [1..Cardinality(found) -> X]
    BY <2>3, <2>4
  <2> HIDE DEF X
  <2>7. QED
    BY <2>5, <2>6
<1>2. {order[i] : i \in DOMAIN order} = found
  BY DEF Orders
<1>3. order \in Seq(Source) /\ \A i \in DOMAIN order : order[i] \in X
  BY <1>1
<1>4. \A i \in DOMAIN order : order[i] \in h.plain \/ order[i] = "file"
  BY <1>2
<1>5. order = <<>> => ~h.file /\ h.plain = {}
  BY <1>2
<1>6. /\ first \in Seq(Source)
      /\ \A i \in DOMAIN first : first[i] \in {"memory", "playlist"}
                                 /\ (first[i] = "memory" => ~h.playlist)
      /\ first = <<>> => ~h.playlist /\ seen = {}
  <2>1. CASE h.playlist
    <3>1. first = <<"playlist">>
      BY <2>1
    <3> HIDE DEF first
    <3>2. QED
      BY <2>1, <3>1 DEF Source
  <2>2. CASE ~h.playlist /\ seen # {}
    <3>1. first = <<"memory">>
      BY <2>2
    <3> HIDE DEF first
    <3>2. QED
      BY <2>2, <3>1 DEF Source
  <2>3. CASE ~h.playlist /\ seen = {}
    <3>1. first = <<>>
      BY <2>3
    <3> HIDE DEF first
    <3>2. QED
      BY <2>3, <3>1
  <2>4. QED
    BY <2>1, <2>2, <2>3
<1>7. Sources(h, seen, order) = first \o order
  BY DEF Sources
<1> HIDE DEF first
<1>8. /\ first \o order \in Seq(Source)
      /\ Len(first \o order) = Len(first) + Len(order)
      /\ \A i \in 1..Len(first) + Len(order) :
             (first \o order)[i] = IF i <= Len(first) THEN first[i] ELSE order[i - Len(first)]
      /\ first \o order = <<>> => first = <<>> /\ order = <<>>
  BY <1>3, <1>6, ConcatProperties, ConcatEqualIffEmpty
<1> DEFINE all == first \o order
<1>9. all \in Seq(Source) /\ DOMAIN all = 1..Len(first) + Len(order)
  BY <1>8
<1>10. ASSUME NEW i \in DOMAIN all
       PROVE  Readable(h, FALSE, all[i])
  <2>1. i \in 1..Len(first) + Len(order)
    BY <1>9
  <2>2. all[i] = IF i <= Len(first) THEN first[i] ELSE order[i - Len(first)]
    BY <1>8, <2>1
  <2> HIDE DEF all
  <2>3. CASE i <= Len(first)
    <3>1. i \in DOMAIN first
      BY <1>6, <2>1, <2>3
    <3>2. all[i] = first[i]
      BY <2>2, <2>3
    <3>3. QED
      BY <1>6, <3>1, <3>2 DEF Readable, FrameBounds
  <2>4. CASE ~(i <= Len(first))
    <3>1. i - Len(first) \in DOMAIN order
      BY <1>3, <1>6, <2>1, <2>4
    <3>2. all[i] = order[i - Len(first)]
      BY <2>2, <2>4
    <3>3. /\ all[i] \in X
          /\ all[i] \in h.plain \/ all[i] = "file"
      BY <1>3, <1>4, <3>1, <3>2
    <3>4. QED
      BY <3>3 DEF Readable, FrameBounds
  <2>5. QED
    BY <2>3, <2>4
<1>11. QED
  BY <1>5, <1>6, <1>7, <1>8, <1>9, <1>10

\* A frame that collects its sources goes on to fetch them or is done, and fits.
LEMMA CollectFits ==
  ASSUME FrameBounds, TypeOK, NEW f \in Frame, FrameFits(holds[f], job[f]), Collect(f)
  PROVE  \E n \in JobState : /\ FrameFits(holds[f], n) /\ Set(f, n)
                             /\ n.pc \in {"fetch", "done"}
<1> DEFINE h == holds[f]
           j == [job[f] EXCEPT !.seen = h.buffered]
<1>1. h \in Contents /\ job[f] \in JobState /\ h.buffered \in SUBSET Piece
  BY DEF TypeOK, Contents
<1>2. /\ j \in JobState /\ j.members = FALSE /\ j.attempt = NoAttempt
      /\ j.todo = job[f].todo /\ j.list = job[f].list /\ j.got = job[f].got
  BY <1>1 DEF JobState, FrameFits, Collect
<1>3. PICK order \in Orders(h) :
        SetOne(f, CASE Sources(h, h.buffered, order) # <<>> \/ h.tracks ->
                           Try([j EXCEPT !.todo = Sources(h, h.buffered, order)])
                    [] Sources(h, h.buffered, order) = <<>> /\ ~h.tracks /\ Bare(h) ->
                           {Attempted(j, [NoAttempt EXCEPT !.status = "no_caption"])}
                    [] OTHER -> {Failed(j, "parse")})
  BY Zenon DEF Collect
<1> DEFINE todo == Sources(h, h.buffered, order)
           k == [j EXCEPT !.todo = todo]
           bare == [NoAttempt EXCEPT !.status = "no_caption"]
<1>4. /\ todo \in Seq(Source)
      /\ \A i \in DOMAIN todo : Readable(h, FALSE, todo[i])
      /\ todo = <<>> => ~h.playlist /\ h.buffered = {} /\ ~h.file /\ h.plain = {}
  BY <1>1, SourcesReadable
<1>5. SetOne(f, CASE todo # <<>> \/ h.tracks -> Try(k)
                    [] todo = <<>> /\ ~h.tracks /\ Bare(h) -> {Attempted(j, bare)}
                    [] OTHER -> {Failed(j, "parse")})
  BY <1>3
<1>6. /\ \A i \in DOMAIN j.todo : Readable(h, j.members, j.todo[i])
      /\ j.list # {} => j.list \union j.got = Piece
  BY <1>2 DEF FrameFits, Collect
<1> HIDE DEF todo, j
<1>7. /\ k \in JobState /\ k.members = FALSE /\ k.attempt = NoAttempt
      /\ k.todo = todo /\ k.list = j.list /\ k.got = j.got
  BY <1>2, <1>4 DEF JobState
<1> HIDE DEF k, h
<1> DEFINE next == CASE todo # <<>> \/ h.tracks -> Try(k)
                     [] todo = <<>> /\ ~h.tracks /\ Bare(h) -> {Attempted(j, bare)}
                     [] OTHER -> {Failed(j, "parse")}
<1> HIDE DEF bare
<1>51. (todo # <<>> \/ h.tracks) => next = Try(k)
  OBVIOUS
<1>52. ~(todo # <<>> \/ h.tracks) /\ Bare(h) => next = {Attempted(j, bare)}
  OBVIOUS
<1>53. ~(todo # <<>> \/ h.tracks) /\ ~Bare(h) => next = {Failed(j, "parse")}
  OBVIOUS
<1>54. PICK to \in next : Set(f, to)
  BY <1>5 DEF SetOne
<1> HIDE DEF next
<1>8. \A n \in Try(k) : n \in JobState /\ FrameFits(h, n) /\ n.pc \in {"fetch", "done"}
  <2>1. \A i \in DOMAIN k.todo : Readable(h, k.members, k.todo[i])
    BY <1>4, <1>7
  <2>2. QED
    BY <1>1, <1>6, <1>7, <2>1, TryFits
<1>9. /\ Failed(j, "parse") \in JobState /\ FrameFits(h, Failed(j, "parse"))
      /\ Failed(j, "parse").pc = "done"
  <2>1. "parse" \in Failure \union {"unavailable"}
    BY DEF Failure
  <2>2. QED
    BY <1>1, <1>2, <1>6, <2>1, FailedFits
<1>10. ASSUME todo = <<>>, ~h.tracks, Bare(h)
       PROVE  /\ Attempted(j, bare) \in JobState /\ FrameFits(h, Attempted(j, bare))
              /\ Attempted(j, bare).pc = "done"
  <2>1. bare \in Attempt /\ bare.status = "no_caption" /\ bare.cues = {} /\ bare.fits
    BY DEF Attempt, NoAttempt, bare
  <2>2. Captionless(h)
    BY <1>4, <1>10 DEF Bare, Captionless
  <2>3. AttemptFits(h, j.members, bare)
    BY <2>1, <2>2 DEF AttemptFits
  <2>4. bare.status # "none"
    BY <2>1
  <2>5. QED
    BY <1>1, <1>2, <1>6, <2>1, <2>3, <2>4, EndsFit
<1>11. CASE todo # <<>> \/ h.tracks
  <2>1. to \in Try(k)
    BY <1>51, <1>54, <1>11
  <2>2. QED
    BY <1>8, <1>54, <2>1 DEF h
<1>12. CASE ~(todo # <<>> \/ h.tracks) /\ Bare(h)
  <2>1. to = Attempted(j, bare)
    BY <1>52, <1>54, <1>12
  <2>2. QED
    BY <1>10, <1>12, <1>54, <2>1 DEF h
<1>13. CASE ~(todo # <<>> \/ h.tracks) /\ ~Bare(h)
  <2>1. to = Failed(j, "parse")
    BY <1>53, <1>54, <1>13
  <2>2. QED
    BY <1>9, <1>54, <2>1 DEF h
<1>14. QED
  BY <1>11, <1>12, <1>13

\* A frame whose source answers goes on or is done, and fits.
LEMMA GoodFits ==
  ASSUME FrameBounds, TypeOK, NEW f \in Frame, FrameFits(holds[f], job[f]),
         job[f].pc = "fetch", Good(f)
  PROVE  \E n \in JobState : /\ FrameFits(holds[f], n) /\ Set(f, n)
                             /\ n.pc \in {"fetch", "done"}
<1> DEFINE h == holds[f]
           j == job[f]
<1>1. /\ h \in Contents /\ j \in JobState /\ j.todo \in Seq(Source) /\ j.todo # <<>>
      /\ j.attempt = NoAttempt /\ 1 \in DOMAIN j.todo /\ j.got \in SUBSET Piece
      /\ j.list \in SUBSET Piece
      /\ \A i \in DOMAIN j.todo : Readable(h, j.members, j.todo[i])
      /\ j.list # {} => j.list \union j.got = Piece
  BY DEF TypeOK, FrameFits, JobState
<1> DEFINE source == j.todo[1]
           rest == Members(j.todo)
           listed == [j EXCEPT !.list = Piece, !.members = TRUE, !.todo = rest]
<1>2. /\ rest \in Seq(Source) /\ rest # <<>>
      /\ \A i \in DOMAIN rest : rest[i] \in {"playlist", "file"}
  <2>1. rest = <<"playlist">> \/ rest = <<"playlist", "file">>
    BY DEF Members
  <2> HIDE DEF rest
  <2>2. CASE rest = <<"playlist">>
    BY <2>2 DEF Source
  <2>3. CASE rest = <<"playlist", "file">>
    <3>1. Len(rest) = 2 /\ rest[1] = "playlist" /\ rest[2] = "file"
      BY <2>3
    <3>2. rest \in Seq(Source)
      BY <2>3 DEF Source
    <3>3. DOMAIN rest = 1..2 /\ rest # <<>>
      BY <3>1, <3>2
    <3>4. QED
      BY <3>1, <3>2, <3>3
  <2>4. QED
    BY <2>1, <2>2, <2>3
<1> HIDE DEF rest
<1>3. /\ listed \in JobState /\ listed.list = Piece /\ listed.members = TRUE
      /\ listed.todo = rest /\ listed.attempt = NoAttempt /\ listed.pc = j.pc
      /\ listed.got = j.got
  BY <1>1, <1>2 DEF JobState
<1> HIDE DEF listed
<1>4. FrameFits(h, listed)
  <2>1. \A i \in DOMAIN rest : Readable(h, TRUE, rest[i])
    BY <1>2 DEF Readable, FrameBounds
  <2>2. AttemptFits(h, TRUE, NoAttempt)
    BY DEF AttemptFits, NoAttempt
  <2>3. Piece \union j.got = Piece
    BY <1>1
  <2>4. QED
    BY <1>1, <1>2, <1>3, <2>1, <2>2, <2>3 DEF FrameFits
<1>5. CASE source = "playlist" /\ j.list = {} /\ Set(f, listed)
  BY <1>3, <1>4, <1>5
<1>6. CASE \E p \in j.list :
             LET got == j.got \union {p}
             IN  SetOne(f, IF j.list = {p} THEN Read(j, got, BOOLEAN)
                           ELSE {[j EXCEPT !.list = @ \ {p}, !.got = got]})
  <2>1. PICK p \in j.list :
             SetOne(f, IF j.list = {p} THEN Read(j, j.got \union {p}, BOOLEAN)
                       ELSE {[j EXCEPT !.list = j.list \ {p}, !.got = j.got \union {p}]})
    BY <1>6, Zenon
  <2> DEFINE got == j.got \union {p}
             more == [j EXCEPT !.list = j.list \ {p}, !.got = got]
  <2>2. got \in SUBSET Piece
    BY <1>1
  <2>3. (j.list \ {p}) \union got = Piece
    BY <1>1
  <2>4. CASE j.list = {p}
    <3>1. SetOne(f, Read(j, got, BOOLEAN)) /\ got = Piece
      BY <2>1, <2>3, <2>4
    <3>2. \A n \in Read(j, got, BOOLEAN) : n \in JobState /\ n.pc = "done" /\ FrameFits(h, n)
      BY <1>1, <2>2, <3>1, ReadFits
    <3>3. QED
      BY <3>1, <3>2 DEF SetOne
  <2>5. CASE j.list # {p}
    <3>1. Set(f, more)
      BY <2>1, <2>5 DEF SetOne
    <3>2. /\ more \in JobState /\ more.list = j.list \ {p} /\ more.got = got
          /\ more.members = j.members /\ more.todo = j.todo
          /\ more.attempt = NoAttempt /\ more.pc = j.pc
      BY <1>1, <2>2 DEF JobState
    <3> HIDE DEF more, got
    <3>3. FrameFits(h, more)
      BY <1>1, <2>3, <3>2 DEF FrameFits, AttemptFits, NoAttempt
    <3>4. QED
      BY <3>1, <3>2, <3>3
  <2>6. QED
    BY <2>4, <2>5
<1>7. CASE source = "file" /\ SetOne(f, Read(j, Piece, BOOLEAN))
  <2>1. Piece \in SUBSET Piece
    OBVIOUS
  <2>2. \A n \in Read(j, Piece, BOOLEAN) : n \in JobState /\ n.pc = "done" /\ FrameFits(h, n)
    BY <1>1, <2>1, ReadFits
  <2>3. QED
    BY <1>7, <2>2 DEF SetOne
<1>8. CASE source \in Piece /\ SetOne(f, Read(j, {source}, BOOLEAN))
  <2>1. {source} \in SUBSET Piece /\ {source} \subseteq h.plain /\ ~j.members
    BY <1>1, <1>8 DEF Readable
  <2>2. \A n \in Read(j, {source}, BOOLEAN) :
            n \in JobState /\ n.pc = "done" /\ FrameFits(h, n)
    BY <1>1, <2>1, ReadFits
  <2>3. QED
    BY <1>8, <2>2 DEF SetOne
<1>9. QED
  BY <1>5, <1>6, <1>7, <1>8, Zenon DEF Good, listed, rest

--------------------------------------------------------------------------------
(* What the frames amount to *)

\* A step of the adapter of one frame that is asked and not done.
LEMMA SetKeeps ==
  ASSUME FrameBounds, FrameInv, NEW f \in asked, NEW n \in JobState, Set(f, n),
         FrameFits(holds[f], n), job[f].pc # "done"
  PROVE  FrameInv'
<1>1. /\ job \in [Frame -> JobState] /\ job' = [job EXCEPT ![f] = n] /\ f \in Frame
      /\ UNCHANGED <<holds, asked, report>>
  BY DEF Set, FrameInv, TypeOK
<1>2. report = NoAttempt
  BY DEF FrameInv
<1>3. job' \in [Frame -> JobState]
  BY <1>1
<1>4. TypeOK'
  BY <1>1, <1>3 DEF FrameInv, TypeOK
<1>5. ASSUME NEW g \in Frame
      PROVE  FrameFits(holds[g], job'[g])
  <2>1. CASE g = f
    BY <1>1, <2>1
  <2>2. CASE g # f
    BY <1>1, <2>2 DEF FrameInv
  <2>3. QED
    BY <2>1, <2>2
<1>6. \A g \in Frame : FrameFits(holds'[g], job'[g])
  BY <1>1, <1>5
<1>7. report' = NoAttempt /\ report'.status = "none"
  BY <1>1, <1>2 DEF NoAttempt
<1>8. NoCaptionIsTrue' /\ WholeWins'
  BY <1>7 DEF NoCaptionIsTrue, WholeWins
<1>9. \A g \in Frame \ asked' : job'[g].pc = "idle"
  <2> SUFFICES ASSUME NEW g \in Frame \ asked'
               PROVE  job'[g].pc = "idle"
    OBVIOUS
  <2>1. g # f /\ g \in Frame \ asked
    BY <1>1
  <2>2. job'[g] = job[g]
    BY <1>1, <2>1
  <2>3. QED
    BY <2>1, <2>2 DEF FrameInv
<1>10. report' = NoAttempt
  BY <1>7
<1>11. QED
  BY <1>4, <1>6, <1>8, <1>9, <1>10 DEF FrameInv

\* A step of a frame that fits leaves it fitting.
LEMMA StepKeeps ==
  ASSUME FrameBounds, FrameInv, NEW f \in Frame,
         Start(f) \/ Collect(f) \/ TimeOut(f) \/ Answer(f) \/ Throw(f)
  PROVE  FrameInv'
<1> DEFINE h == holds[f]
           j == job[f]
<1>1. /\ TypeOK /\ FrameFits(h, j) /\ h \in Contents /\ j \in JobState
      /\ MaxTime \in Nat
  BY DEF FrameInv, TypeOK, FrameBounds
<1>2. j.pc # "done" /\ (j.pc = "idle" => f \in asked)
  <2>1. Start(f) => j.pc = "idle" /\ f \in asked
    BY Zenon DEF Start
  <2>2. Collect(f) \/ Throw(f) => j.pc = "tracks"
    BY Zenon DEF Collect, Throw
  <2>3. TimeOut(f) \/ Answer(f) => j.pc = "fetch"
    BY Zenon DEF TimeOut, Answer, Due
  <2>4. QED
    BY <2>1, <2>2, <2>3
<1>3. f \in asked
  <2>1. j.pc # "idle" \/ f \in asked
    BY <1>2
  <2>2. QED
    BY <2>1 DEF FrameInv
<1>4. ASSUME NEW n \in JobState, Set(f, n), FrameFits(h, n)
      PROVE  FrameInv'
  BY <1>2, <1>3, <1>4, SetKeeps
<1>5. /\ \A i \in DOMAIN j.todo : Readable(h, j.members, j.todo[i])
      /\ j.list # {} => j.list \union j.got = Piece
      /\ j.attempt = NoAttempt
  BY <1>1, <1>2 DEF FrameFits
<1>6. CASE Start(f)
  <2> DEFINE opened == [j EXCEPT !.pc = "tracks"]
             other == [NoAttempt EXCEPT !.status = "not_media_frame"]
  <2>1. j.pc = "idle"
    BY <1>6 DEF Start
  <2>2. /\ opened \in JobState /\ opened.pc = "tracks" /\ opened.members = j.members
        /\ opened.attempt = j.attempt /\ opened.todo = j.todo /\ opened.list = j.list
        /\ opened.got = j.got
    BY <1>1 DEF JobState
  <2>3. /\ other \in Attempt /\ other.status = "not_media_frame" /\ other.cues = {}
        /\ other.fits
    BY DEF Attempt, NoAttempt
  <2>4. Set(f, IF h.entry THEN opened ELSE Attempted(j, other))
    BY <1>6 DEF Start
  <2> HIDE DEF opened, other
  <2>5. CASE h.entry
    <3>1. FrameFits(h, opened)
      BY <1>1, <2>1, <2>2 DEF FrameFits
    <3>2. Set(f, opened)
      BY <2>4, <2>5
    <3>3. QED
      BY <1>4, <2>2, <3>1, <3>2
  <2>6. CASE ~h.entry
    <3>1. AttemptFits(h, j.members, other) /\ other.status # "none"
      BY <2>3, <2>6 DEF AttemptFits
    <3>2. Attempted(j, other) \in JobState /\ FrameFits(h, Attempted(j, other))
      BY <1>1, <1>5, <2>3, <3>1, EndsFit
    <3>3. Set(f, Attempted(j, other))
      BY <2>4, <2>6
    <3>4. QED
      BY <1>4, <3>2, <3>3
  <2>7. QED
    BY <2>5, <2>6
<1>7. CASE Collect(f)
  BY <1>1, <1>4, <1>7, CollectFits
<1>8. CASE TimeOut(f)
  <2> DEFINE late == [j EXCEPT !.time = Later(@)]
  <2>1. Later(j.time) \in 0..MaxTime
    BY <1>1 DEF Later, JobState
  <2>2. late = [j EXCEPT !.time = Later(j.time)]
    BY <1>1 DEF JobState
  <2>3. /\ late \in JobState /\ late.pc = j.pc /\ late.members = j.members
        /\ late.attempt = j.attempt /\ late.todo = j.todo /\ late.list = j.list
        /\ late.got = j.got
    BY <1>1, <2>1, <2>2 DEF JobState
  <2>4. SetOne(f, NextSource(late, "fetch")) /\ j.pc = "fetch"
    BY <1>8 DEF TimeOut, Due
  <2> HIDE DEF late
  <2>5. FrameFits(h, late)
    BY <1>1, <2>3 DEF FrameFits
  <2>6. "fetch" \in Failure
    BY DEF Failure
  <2>7. \A n \in NextSource(late, "fetch") : n \in JobState /\ FrameFits(h, n)
    BY <1>1, <2>3, <2>4, <2>5, <2>6, NextSourceFits
  <2>8. QED
    BY <1>4, <2>4, <2>7 DEF SetOne
<1>9. CASE Answer(f)
  <2>1. CASE Good(f)
    BY <1>1, <1>4, <1>9, <2>1, GoodFits DEF Answer
  <2>2. CASE \E error \in Failure : SetOne(f, NextSource(j, error))
    <3>1. PICK error \in Failure : SetOne(f, NextSource(j, error))
      BY <2>2
    <3>2. \A n \in NextSource(j, error) : n \in JobState /\ FrameFits(h, n)
      BY <1>1, <1>9, NextSourceFits DEF Answer
    <3>3. QED
      BY <1>4, <3>1, <3>2 DEF SetOne
  <2>3. QED
    BY <1>9, <2>1, <2>2 DEF Answer
<1>10. CASE Throw(f)
  <2>1. "unavailable" \in Failure \union {"unavailable"}
    OBVIOUS
  <2>2. Failed(j, "unavailable") \in JobState /\ FrameFits(h, Failed(j, "unavailable"))
    BY <1>1, <1>5, <2>1, FailedFits
  <2>3. Set(f, Failed(j, "unavailable"))
    BY <1>10 DEF Throw
  <2>4. QED
    BY <1>4, <2>2, <2>3
<1>11. QED
  BY <1>6, <1>7, <1>8, <1>9, <1>10

\* A piece that arrives from a player keeps the invariant.
LEMMA BufferKeeps ==
  ASSUME FrameBounds, FrameInv, NEW f \in Frame, Buffer(f)
  PROVE  FrameInv'
<1>1. UNCHANGED <<job, asked, report>> /\ holds \in [Frame -> Contents]
  BY DEF Buffer, FrameInv, TypeOK
<1>2. PICK p \in Piece : holds' = [holds EXCEPT ![f].buffered = @ \union {p}]
  BY DEF Buffer
<1> DEFINE more == [holds[f] EXCEPT !.buffered = holds[f].buffered \union {p}]
<1>3. holds' = [holds EXCEPT ![f] = more]
  BY <1>1, <1>2
<1>4. /\ more \in Contents /\ more.entry = holds[f].entry /\ more.tracks = holds[f].tracks
      /\ more.playlist = holds[f].playlist /\ more.plain = holds[f].plain
      /\ more.indexed = holds[f].indexed /\ more.file = holds[f].file
  BY <1>1 DEF Contents
<1> HIDE DEF more
<1>5. holds' \in [Frame -> Contents]
  BY <1>1, <1>3, <1>4
<1>6. ASSUME NEW g \in Frame
      PROVE  /\ holds'[g].entry = holds[g].entry /\ holds'[g].tracks = holds[g].tracks
             /\ holds'[g].playlist = holds[g].playlist /\ holds'[g].plain = holds[g].plain
             /\ holds'[g].indexed = holds[g].indexed /\ holds'[g].file = holds[g].file
             /\ ~holds[g].tracks => holds'[g].buffered = holds[g].buffered
  <2>1. CASE g = f
    BY <1>1, <1>3, <1>4, <2>1 DEF Buffer
  <2>2. CASE g # f
    BY <1>1, <1>3, <2>2
  <2>3. QED
    BY <2>1, <2>2
<1>7. ASSUME NEW g \in Frame
      PROVE  FrameFits(holds'[g], job[g])
  <2> DEFINE new == holds'[g]
             old == holds[g]
  <2>1. /\ new.entry = old.entry /\ new.tracks = old.tracks /\ new.playlist = old.playlist
        /\ new.plain = old.plain /\ new.indexed = old.indexed /\ new.file = old.file
        /\ ~old.tracks => new.buffered = old.buffered
    BY <1>6
  <2>2. FrameFits(old, job[g])
    BY DEF FrameInv
  <2> HIDE DEF new, old
  <2>3. \A i \in DOMAIN job[g].todo : Readable(new, job[g].members, job[g].todo[i])
    BY <2>1, <2>2 DEF FrameFits, Readable
  <2>4. AttemptFits(new, job[g].members, job[g].attempt)
    BY <2>1, <2>2 DEF FrameFits, AttemptFits, Captionless
  <2>5. FrameFits(new, job[g])
    BY <2>2, <2>3, <2>4 DEF FrameFits
  <2>6. QED
    BY <2>5 DEF new
<1>8. NoCaptionIsTrue'
  <2> SUFFICES ASSUME report.status = "no_caption", NEW g \in asked, holds'[g].entry,
                      job[g].attempt.error # "unavailable", job[g].attempt.fits
               PROVE  Captionless(holds'[g])
    BY <1>1 DEF NoCaptionIsTrue
  <2>1. g \in Frame
    BY DEF FrameInv, TypeOK
  <2>2. holds[g].entry
    BY <1>6, <2>1
  <2>3. Captionless(holds[g])
    BY <2>2 DEF FrameInv, NoCaptionIsTrue
  <2>4. QED
    BY <1>6, <2>1, <2>3 DEF Captionless
<1>9. WholeWins'
  BY <1>1 DEF FrameInv, WholeWins
<1>10. TypeOK'
  BY <1>1, <1>5 DEF FrameInv, TypeOK
<1>11. QED
  BY <1>1, <1>7, <1>8, <1>9, <1>10 DEF FrameInv

\* A frame that reports keeps the invariant.
LEMMA ReportKeeps ==
  ASSUME FrameBounds, FrameInv, Report
  PROVE  FrameInv'
<1>1. /\ UNCHANGED <<holds, job, asked>> /\ asked # {} /\ report' \in Answers
      /\ \A f \in asked : job[f].pc = "done"
  BY DEF Report
<1> DEFINE none == [NoAttempt EXCEPT !.status = "failed", !.error = "unavailable"]
<1>2. none \in Attempt /\ none.status = "failed"
  BY DEF NoAttempt, Attempt
<1> HIDE DEF none
<1>3. ASSUME NEW f \in asked
      PROVE  /\ f \in Frame /\ job[f].attempt \in Attempt
             /\ job[f].attempt.fits => job[f].attempt \in Attempts
             /\ job[f].attempt.status # "none"
             /\ AttemptFits(holds[f], job[f].members, job[f].attempt)
  <2>1. f \in Frame /\ job[f] \in JobState
    BY DEF FrameInv, TypeOK
  <2>2. QED
    BY <1>1, <2>1 DEF FrameInv, FrameFits, JobState, Attempts
<1>4. Attempts \subseteq Attempt
  BY <1>3 DEF Attempts
<1>5. \/ Of("captured") # {} /\ report' \in Best
      \/ Of("captured") = {} /\ Retryable # {} /\ report' \in Retryable
      \/ Of("captured") = {} /\ Retryable = {} /\ report' \in Of("no_caption")
      \/ report' = none
  BY <1>1 DEF Answers, none
<1>6. report' \in Attempt /\ (report'.status = "captured" => report' \in Best)
      /\ (report'.status = "no_caption" => Of("captured") = {} /\ Retryable = {})
  <2>1. CASE Of("captured") # {} /\ report' \in Best
    BY <1>4, <2>1 DEF Best, Of
  <2>2. CASE Of("captured") = {} /\ Retryable # {} /\ report' \in Retryable
    BY <1>4, <2>2 DEF Retryable, Of
  <2>3. CASE Of("captured") = {} /\ Retryable = {} /\ report' \in Of("no_caption")
    BY <1>4, <2>3 DEF Of
  <2>4. CASE report' = none
    BY <1>2, <2>4
  <2>5. QED
    BY <1>5, <2>1, <2>2, <2>3, <2>4
<1>7. NoCaptionIsTrue'
  <2> SUFFICES ASSUME report'.status = "no_caption", NEW f \in asked, holds[f].entry,
                      job[f].attempt.error # "unavailable", job[f].attempt.fits
               PROVE  Captionless(holds[f])
    BY <1>1 DEF NoCaptionIsTrue
  <2> DEFINE a == job[f].attempt
  <2>1. a \in Attempts /\ a \in Attempt /\ a.status # "none"
        /\ AttemptFits(holds[f], job[f].members, a)
    BY <1>3
  <2> HIDE DEF a
  <2>2. a.error # "unavailable"
    BY DEF a
  <2>3. a.status # "captured"
    BY <1>6, <2>1 DEF Of
  <2>4. a.status # "not_media_frame"
    BY <2>1 DEF AttemptFits
  <2>5. a.status # "failed"
    BY <1>6, <2>1, <2>2 DEF AttemptFits, Of, Retryable
  <2>6. a.status = "no_caption"
    BY <2>1, <2>3, <2>4, <2>5 DEF Attempt
  <2>7. QED
    BY <2>1, <2>6 DEF AttemptFits
<1>8. WholeWins'
  <2> DEFINE a(f) == job[f].attempt
             b == report'
  <2> SUFFICES ASSUME b.status = "captured", b.cues # Piece, NEW f \in asked,
                      a(f).cues = Piece, a(f).fits
               PROVE  (b.length /\ ~a(f).length) \/ (b.title /\ ~a(f).title)
    BY <1>1 DEF WholeWins
  <2>1. b \in Best /\ b \in Attempt
    BY <1>6
  <2>2. /\ a(f) \in Attempts /\ a(f) \in Attempt
        /\ AttemptFits(holds[f], job[f].members, a(f))
    BY <1>3
  <2>3. a(f) \in Of("captured")
    BY <2>2 DEF AttemptFits, FrameBounds, Of
  <2>4. ~Outscores(a(f), b)
    BY <2>1, <2>3 DEF Best
  <2> HIDE DEF a, b
  <2>5. b.cues \subseteq a(f).cues /\ a(f).cues # b.cues
    BY <2>1 DEF Attempt
  <2>6. ~(Bonus(b) <= Bonus(a(f)))
    BY <2>4, <2>5 DEF Outscores
  <2>7. QED
    BY <2>6 DEF Bonus
<1>9. TypeOK'
  BY <1>1, <1>6 DEF FrameInv, TypeOK
<1>10. QED
  BY <1>1, <1>7, <1>8, <1>9 DEF FrameInv

\* A frame that is reached, or not, keeps the invariant.
LEMMA InjectKeeps ==
  ASSUME FrameBounds, FrameInv, Inject
  PROVE  FrameInv'
<1>1. UNCHANGED <<holds, job, report>> /\ asked = {} /\ asked' \subseteq Frame
  BY DEF Inject, FrameBounds
<1>2. report = NoAttempt /\ report.status = "none"
  BY <1>1 DEF FrameInv, NoAttempt
<1>3. NoCaptionIsTrue' /\ WholeWins'
  BY <1>1, <1>2 DEF NoCaptionIsTrue, WholeWins
<1>4. TypeOK'
  BY <1>1 DEF FrameInv, TypeOK
<1>5. report' = NoAttempt
  BY <1>1, <1>2
<1>6. \A f \in Frame : FrameFits(holds'[f], job'[f])
  BY <1>1 DEF FrameInv
<1>7. \A f \in Frame \ asked' : job'[f].pc = "idle"
  BY <1>1 DEF FrameInv
<1>8. QED
  BY <1>3, <1>4, <1>5, <1>6, <1>7 DEF FrameInv

\* The initial states satisfy the invariant.
LEMMA FrameInit ==
  ASSUME FrameBounds, Init
  PROVE  FrameInv
<1>1. holds \in [Frame -> Contents] /\ job = [f \in Frame |-> NewJob] /\ asked = {}
      /\ report = NoAttempt
  BY DEF Init
<1>2. /\ NoAttempt \in Attempt /\ NoAttempt.status = "none" /\ NoAttempt.cues = {}
      /\ NoAttempt.fits
  BY DEF NoAttempt, Attempt
<1>3. 0 \in 0..MaxTime /\ <<>> \in Seq(Source)
  BY DEF FrameBounds
<1>4. NewJob \in JobState
  BY <1>2, <1>3 DEF NewJob, JobState
<1>5. ASSUME NEW f \in Frame
      PROVE  FrameFits(holds[f], NewJob) /\ NewJob.pc = "idle"
  BY <1>2 DEF FrameFits, NewJob, AttemptFits
<1>6. TypeOK
  BY <1>1, <1>2, <1>4 DEF TypeOK
<1>7. NoCaptionIsTrue /\ WholeWins
  BY <1>1, <1>2 DEF NoCaptionIsTrue, WholeWins
<1>8. \A f \in Frame : FrameFits(holds[f], job[f]) /\ job[f].pc = "idle"
  BY <1>1, <1>5
<1>9. QED
  BY <1>1, <1>6, <1>7, <1>8 DEF FrameInv

\* Every step keeps the invariant.
LEMMA FrameNext ==
  ASSUME FrameBounds, FrameInv, [Next]_vars
  PROVE  FrameInv'
<1>1. CASE \E f \in Frame : Adapter(f) \/ Answer(f) \/ Throw(f)
  BY <1>1, StepKeeps DEF Adapter
<1>2. CASE \E f \in Frame : Buffer(f)
  BY <1>2, BufferKeeps
<1>3. CASE Inject \/ Report
  BY <1>3, InjectKeeps, ReportKeeps
<1>4. CASE UNCHANGED vars
  BY <1>4 DEF vars, FrameInv, TypeOK, NoCaptionIsTrue, WholeWins
<1>5. QED
  BY <1>1, <1>2, <1>3, <1>4 DEF Next

\* The invariant holds for every set of frames and pieces, and every deadline.
THEOREM FrameInvariance ==
  ASSUME FrameBounds
  PROVE  Spec => []FrameInv
<1>1. Init => FrameInv
  BY FrameInit
<1>2. FrameInv /\ [Next]_vars => FrameInv'
  BY FrameNext
<1>3. QED
  BY <1>1, <1>2, PTL DEF Spec

\* What the invariant says of the answer.
LEMMA FrameInvMeans ==
  ASSUME FrameBounds, FrameInv
  PROVE  PartIsNotTaken /\ NoCaptionIsTrue /\ WholeWins
<1>1. PartIsNotTaken
  <2> SUFFICES ASSUME NEW f \in Frame, job[f].attempt.status = "captured",
                      job[f].attempt.cues # Piece
               PROVE  /\ ~job[f].members
                      /\ holds[f].playlist => job[f].attempt.cues \subseteq holds[f].plain
    BY DEF PartIsNotTaken
  <2>1. AttemptFits(holds[f], job[f].members, job[f].attempt)
    BY DEF FrameInv, FrameFits
  <2>2. QED
    BY <2>1 DEF AttemptFits
<1>2. QED
  BY <1>1 DEF FrameInv

--------------------------------------------------------------------------------
(* The inductive invariant of the adapter for YouTube *)

\* If a response named a video, the tracks the adapter reads, and the transcript it
\* asks for, are of the video it was started for; what it returns is of that video
\* or from the panel.
Fits(j) ==
    /\ j.known /\ j.pc \in {"fetch", "read"} => j.of = j.id
    /\ j.pc \in {"fetch", "read"} /\ j.form # "transcript" => j.left # 0
    /\ j.pc # "done" => j.result = YouTube!NoResult
    /\ j.known /\ j.result.status = "captured" /\ j.result.via # "panel"
           => j.result.of = j.id
    /\ j.known /\ j.result.status = "no_caption" => j.id \notin Captioned

TubeInv == YouTube!TypeOK /\ Fits(reader)

\* How an attempt ends.
LEMMA EndFits ==
  ASSUME YouTube!YouTubeBounds, NEW j \in YouTube!JobState, NEW error \in YouTube!Error,
           NEW of \in Video, NEW via \in YouTube!Form \union {"panel"}
  PROVE  /\ YouTube!Fail(j, error) \in YouTube!JobState /\ YouTube!Fail(j, error).pc = "done"
         /\ YouTube!Fail(j, error).result.status = "failed" /\ YouTube!Fail(j, error).id = j.id
         /\ YouTube!Captured(j, of, via) \in YouTube!JobState
         /\ YouTube!Captured(j, of, via).pc = "done"
         /\ YouTube!Captured(j, of, via).id = j.id
         /\ YouTube!Captured(j, of, via).known = j.known
         /\ YouTube!Captured(j, of, via).result.status \in {"captured", "failed"}
         /\ YouTube!Captured(j, of, via).result.status = "captured" =>
                page.at = j.id /\ YouTube!Captured(j, of, via).result.of = of
                /\ YouTube!Captured(j, of, via).result.via = via
         /\ YouTube!End(j, [YouTube!NoResult EXCEPT !.status = "no_caption"]) \in YouTube!JobState
         /\ YouTube!End(j, [YouTube!NoResult EXCEPT !.status = "no_caption"]).id = j.id
         /\ YouTube!End(j, [YouTube!NoResult EXCEPT !.status = "no_caption"]).known = j.known
         /\ YouTube!End(j, [YouTube!NoResult EXCEPT !.status = "no_caption"]).pc = "done"
         /\ YouTube!End(j, [YouTube!NoResult EXCEPT !.status = "no_caption"]).result.status = "no_caption"
<1> DEFINE failed == [YouTube!NoResult EXCEPT !.status = "failed", !.error = error]
           bare == [YouTube!NoResult EXCEPT !.status = "no_caption"]
           got == [YouTube!NoResult EXCEPT !.status = "captured", !.of = of, !.via = via]
<1>1. YouTube!NoResult \in YouTube!Result
  BY DEF YouTube!NoResult, YouTube!Result
<1>2. /\ failed \in YouTube!Result /\ failed.status = "failed"
      /\ bare \in YouTube!Result /\ bare.status = "no_caption"
      /\ got \in YouTube!Result /\ got.status = "captured" /\ got.of = of /\ got.via = via
  BY <1>1 DEF YouTube!Result, YouTube!NoResult
<1>3. "stale" \in YouTube!Error /\ [YouTube!NoResult EXCEPT !.status = "failed",
        !.error = "stale"] \in YouTube!Result
      /\ [YouTube!NoResult EXCEPT !.status = "failed", !.error = "stale"].status = "failed"
  BY <1>1 DEF YouTube!Result, YouTube!NoResult, YouTube!Error
<1>4. ASSUME NEW r \in YouTube!Result
      PROVE  YouTube!End(j, r) \in YouTube!JobState /\ YouTube!End(j, r).pc = "done"
               /\ YouTube!End(j, r).id = j.id /\ YouTube!End(j, r).result = r
               /\ YouTube!End(j, r).known = j.known
  BY DEF YouTube!End, YouTube!JobState
<1> HIDE DEF failed, bare, got
<1>5. /\ YouTube!Fail(j, error) = YouTube!End(j, failed)
      /\ YouTube!Captured(j, of, via) = IF page.at = j.id THEN YouTube!End(j, got)
                                        ELSE YouTube!End(j,
                                          [YouTube!NoResult EXCEPT !.status = "failed",
                                            !.error = "stale"])
  BY DEF YouTube!Fail, YouTube!Captured, YouTube!Current, failed, got
<1>6. YouTube!End(j, bare) = YouTube!End(j, [YouTube!NoResult EXCEPT !.status = "no_caption"])
  BY DEF bare
<1>7. PICK old \in YouTube!Result : old = [YouTube!NoResult EXCEPT !.status = "failed",
        !.error = "stale"] /\ old.status = "failed"
  BY <1>3
<1>8. YouTube!Captured(j, of, via) = IF page.at = j.id THEN YouTube!End(j, got)
        ELSE YouTube!End(j, old)
  BY <1>5, <1>7
<1>9. /\ YouTube!End(j, failed) \in YouTube!JobState /\ YouTube!End(j, failed).pc = "done"
      /\ YouTube!End(j, failed).id = j.id
      /\ YouTube!End(j, failed).result = failed
  BY <1>2, <1>4
<1>10. /\ YouTube!End(j, got) \in YouTube!JobState /\ YouTube!End(j, got).pc = "done"
       /\ YouTube!End(j, got).id = j.id
       /\ YouTube!End(j, got).known = j.known
       /\ YouTube!End(j, got).result = got
  BY <1>2, <1>4
<1>11. /\ YouTube!End(j, bare) \in YouTube!JobState /\ YouTube!End(j, bare).pc = "done"
       /\ YouTube!End(j, bare).id = j.id
       /\ YouTube!End(j, bare).known = j.known
       /\ YouTube!End(j, bare).result = bare
  BY <1>2, <1>4
<1>12. /\ YouTube!End(j, old) \in YouTube!JobState /\ YouTube!End(j, old).pc = "done"
       /\ YouTube!End(j, old).id = j.id
       /\ YouTube!End(j, old).known = j.known
       /\ YouTube!End(j, old).result = old
  BY <1>4
<1>13. CASE page.at = j.id
  BY <1>2, <1>5, <1>6, <1>8, <1>9, <1>10, <1>11, <1>13
<1>14. CASE page.at # j.id
  <2>1. YouTube!Captured(j, of, via) = YouTube!End(j, old) /\ old.status = "failed"
    BY <1>7, <1>8, <1>14
  <2>2. /\ YouTube!Captured(j, of, via) \in YouTube!JobState
        /\ YouTube!Captured(j, of, via).pc = "done"
        /\ YouTube!Captured(j, of, via).id = j.id
        /\ YouTube!Captured(j, of, via).known = j.known
        /\ YouTube!Captured(j, of, via).result.status = "failed"
    BY <1>12, <2>1
  <2>3. QED
    BY <1>2, <1>5, <1>6, <1>9, <1>11, <2>2
<1>15. QED
  BY <1>13, <1>14

\* Where an attempt that cannot read one source goes.
Sound(j) ==
    /\ j \in YouTube!JobState
    /\ Fits(j)
    /\ j.id = reader.id
    /\ j.result.status = "captured" => page.at = j.id

\* An attempt that turns to the panel, or ends, is sound.
LEMMA PanelSound ==
  ASSUME YouTube!YouTubeBounds, TubeInv, NEW j \in YouTube!JobState, j.id = reader.id,
           j.result = YouTube!NoResult
  PROVE  Sound(YouTube!Panel(j)) /\ Sound(YouTube!Exhausted(j))
<1>1. page.panel \in Captioned \union {NoVideo} /\ Captioned \subseteq Video
  BY DEF TubeInv, YouTube!TypeOK, YouTube!PageState, YouTube!YouTubeBounds
<1>2. Sound(YouTube!Exhausted(j))
  <2>1. PICK e \in YouTube!Error : YouTube!Exhausted(j) = YouTube!Fail(j, e)
    BY DEF YouTube!Exhausted, YouTube!Error
  <2>2. /\ YouTube!Fail(j, e) \in YouTube!JobState /\ YouTube!Fail(j, e).pc = "done"
        /\ YouTube!Fail(j, e).result.status = "failed" /\ YouTube!Fail(j, e).id = j.id
    BY EndFits, <1>1 DEF TubeInv, YouTube!TypeOK, YouTube!PageState
  <2>3. QED
    BY <2>1, <2>2 DEF Sound, Fits
<1>3. CASE page.panel # NoVideo
  <2>1. YouTube!Panel(j) = YouTube!Captured(j, page.panel, "panel") /\ page.panel \in Video
    BY <1>1, <1>3 DEF YouTube!Panel
  <2> DEFINE c == YouTube!Captured(j, page.panel, "panel")
  <2>2. "stale" \in YouTube!Error
    BY DEF YouTube!Error
  <2>3. /\ c \in YouTube!JobState /\ c.pc = "done" /\ c.id = j.id
        /\ c.result.status \in {"captured", "failed"}
        /\ c.result.status = "captured" => page.at = j.id /\ c.result.via = "panel"
    BY <2>1, <2>2, EndFits
  <2> HIDE DEF c
  <2>4. Sound(c)
    BY <2>3 DEF Sound, Fits
  <2>5. QED
    BY <1>2, <2>1, <2>4 DEF c
<1>4. CASE page.panel = NoVideo /\ YouTube!Current(j)
  <2> DEFINE b == [j EXCEPT !.pc = "button", !.attempt = 0]
  <2>1. /\ b \in YouTube!JobState /\ b.pc = "button" /\ b.id = j.id /\ b.result = j.result
    <3>1. 0 \in 0..MaxAttempt
      BY DEF YouTube!YouTubeBounds
    <3>2. QED
      BY <3>1 DEF YouTube!JobState
  <2>2. YouTube!Panel(j) = b
    BY <1>4 DEF YouTube!Panel
  <2> HIDE DEF b
  <2>3. QED
    BY <1>2, <2>1, <2>2 DEF Sound, Fits, YouTube!NoResult
<1>5. CASE page.panel = NoVideo /\ ~YouTube!Current(j)
  BY <1>2, <1>5 DEF YouTube!Panel
<1>6. QED
  BY <1>3, <1>4, <1>5

\* An attempt that goes on to another form or track is sound.
LEMMA OnwardSound ==
  ASSUME YouTube!YouTubeBounds, TubeInv, reader.pc \in {"fetch", "read"},
           NEW error \in YouTube!Error,
         NEW new \in YouTube!Onward(error)
  PROVE  Sound(new)
<1> DEFINE j == [reader EXCEPT !.errors = @ \union {error}, !.size = 0, !.pc = "fetch"]
           vtt == [j EXCEPT !.form = "vtt"]
           raw == [j EXCEPT !.form = "raw"]
           t == [j EXCEPT !.left = @ - 1, !.form = "json"]
           ask == [t EXCEPT !.pc = "fetch", !.form = "transcript", !.of = page.loaded]
<1>1. /\ reader \in YouTube!JobState /\ reader.result = YouTube!NoResult
      /\ reader.known => reader.of = reader.id
      /\ reader.form # "transcript" => reader.left # 0
      /\ page.loaded \in Video
  BY DEF TubeInv, YouTube!TypeOK, Fits, YouTube!PageState
<1>2. 0 \in 0..MaxChunk
  BY DEF YouTube!YouTubeBounds
<1>3. /\ j \in YouTube!JobState /\ j.pc = "fetch" /\ j.id = reader.id
      /\ j.known => j.of = j.id
      /\ j.result = YouTube!NoResult /\ j.form = reader.form /\ j.left = reader.left
  BY <1>1, <1>2 DEF YouTube!JobState
<1> HIDE DEF j
<1>4. /\ vtt \in YouTube!JobState /\ vtt.pc = "fetch" /\ vtt.id = reader.id
      /\ vtt.known => vtt.of = vtt.id
      /\ vtt.result = YouTube!NoResult /\ vtt.form = "vtt" /\ vtt.left = reader.left
      /\ raw \in YouTube!JobState /\ raw.pc = "fetch" /\ raw.id = reader.id
      /\ raw.known => raw.of = raw.id
      /\ raw.result = YouTube!NoResult /\ raw.form = "raw" /\ raw.left = reader.left
  BY <1>3 DEF YouTube!JobState, YouTube!Form
<1>5. ASSUME reader.form # "transcript"
      PROVE  /\ t \in YouTube!JobState /\ t.pc = "fetch" /\ t.id = reader.id
             /\ t.known => t.of = t.id
             /\ t.result = YouTube!NoResult /\ t.form = "json"
  <2>1. j.left - 1 \in 0..2
    BY <1>1, <1>3, <1>5 DEF YouTube!JobState
  <2>2. QED
    BY <1>3, <2>1 DEF YouTube!JobState, YouTube!Form
<1> HIDE DEF vtt, raw, t
<1>6. CASE (new = vtt /\ reader.form = "json") \/ (new = raw /\ reader.form = "vtt")
  BY <1>1, <1>4, <1>6 DEF Sound, Fits, YouTube!NoResult
<1>7. CASE new = YouTube!Panel(j)
  BY <1>3, <1>7, PanelSound
<1>8. CASE reader.form # "transcript" /\ new = t /\ t.left > 0
  <2>1. t.left # 0
    BY <1>5, <1>8 DEF YouTube!JobState
  <2>2. QED
    BY <1>5, <1>8, <2>1 DEF Sound, Fits, YouTube!NoResult
<1>9. CASE reader.form # "transcript" /\ new \in YouTube!Transcript(t)
  <2>1. CASE new = YouTube!Panel(t)
    BY <1>5, <1>9, <2>1, PanelSound
  <2>2. CASE new = ask /\ YouTube!ParamsMatch(t)
    <3>1. /\ ask \in YouTube!JobState /\ ask.of = page.loaded /\ ask.id = reader.id
          /\ ask.result = YouTube!NoResult /\ ask.form = "transcript" /\ ask.pc = "fetch"
      BY <1>1, <1>5, <1>9 DEF YouTube!JobState, YouTube!Form
    <3> HIDE DEF ask
    <3>2. page.loaded = ask.id
      BY <1>5, <1>9, <2>2, <3>1 DEF YouTube!ParamsMatch
    <3>3. QED
      BY <2>2, <3>1, <3>2 DEF Sound, Fits, YouTube!NoResult
  <2>3. QED
    BY <1>9, <2>1, <2>2 DEF YouTube!Transcript
<1>10. \/ new = vtt /\ reader.form = "json"
       \/ new = raw /\ reader.form = "vtt"
       \/ new = YouTube!Panel(j)
       \/ reader.form # "transcript" /\ new = t /\ t.left > 0
       \/ reader.form # "transcript" /\ new \in YouTube!Transcript(t)
  <2>1. YouTube!Onward(error) =
            CASE j.form = "json" /\ error = "parse" -> {vtt}
              [] j.form = "vtt" -> {raw}
              [] j.form = "transcript" -> {YouTube!Panel(j)}
              [] OTHER -> IF t.left > 0 THEN {t} ELSE YouTube!Transcript(t)
    BY DEF YouTube!Onward, j, vtt, raw, t
  <2>2. CASE j.form = "json" /\ error = "parse"
    BY <1>3, <2>1, <2>2
  <2>3. CASE j.form = "vtt"
    BY <1>3, <2>1, <2>3
  <2>4. CASE j.form = "transcript"
    BY <1>3, <2>1, <2>4
  <2>5. CASE ~(j.form = "json" /\ error = "parse") /\ j.form # "vtt" /\ j.form # "transcript"
    <3>1. YouTube!Onward(error) = IF t.left > 0 THEN {t} ELSE YouTube!Transcript(t)
      BY <2>1, <2>5
    <3>2. QED
      BY <1>3, <2>5, <3>1
  <2>6. QED
    BY <2>2, <2>3, <2>4, <2>5
<1> HIDE DEF ask
<1>11. QED
  BY <1>6, <1>7, <1>8, <1>9, <1>10

\* Once some response names a video, the adapter never takes up a response of
\* another: one without a name counts only if none has one.
LEMMA OursIsOurs ==
  ASSUME YouTube!YouTubeBounds, TubeInv, NEW r \in YouTube!Preferred(page.at)
  PROVE  YouTube!Known => r.of = page.at
<1>1. page.at \in Video /\ NoVideo \notin Video
  BY DEF TubeInv, YouTube!TypeOK, YouTube!PageState, YouTube!YouTubeBounds
<1>2. r \in YouTube!Ours(page.at)
  BY DEF YouTube!Preferred
<1>3. r \in YouTube!Responses /\ (YouTube!Known => r.id = page.at)
  BY <1>2 DEF YouTube!Ours, YouTube!Known
<1>4. r.id # NoVideo => r.of = r.id
  BY <1>3 DEF YouTube!Responses
<1>5. QED
  BY <1>1, <1>3, <1>4

\* What a step of the adapter must do for the invariant and for what it captures.
LEMMA SoundStep ==
  ASSUME TubeInv, reader.result.status # "captured", Sound(reader'),
         UNCHANGED <<page, visits>>, time' \in 0..MaxLate
  PROVE  TubeInv' /\ (reader'.result.status = "captured" => page.at = reader'.id)
BY DEF TubeInv, YouTube!TypeOK, Sound, Fits

\* A step of an attempt keeps the invariant.
LEMMA RunKeeps ==
  ASSUME YouTube!YouTubeBounds, TubeInv, YouTube!Respond \/ YouTube!Chunk \/ YouTube!Body
           \/ YouTube!TimeOut \/ YouTube!Press \/ YouTube!Watch
  PROVE  TubeInv' /\ (reader'.result.status = "captured" => page.at = reader'.id)
<1>1. /\ reader \in YouTube!JobState /\ Fits(reader) /\ page.panel \in Captioned \union {NoVideo}
      /\ Captioned \subseteq Video
      /\ time \in 0..MaxLate /\ MaxLate \in Nat /\ MaxAttempt \in Nat /\ MaxChunk \in Nat
      /\ {"fetch", "parse", "stale"} \subseteq YouTube!Error
  BY DEF TubeInv, YouTube!TypeOK, YouTube!YouTubeBounds, YouTube!PageState, YouTube!Error
<1>2. YouTube!Later(time) \in 0..MaxLate
  BY <1>1 DEF YouTube!Later
<1>3. reader.pc \notin {"idle", "done"} /\ reader.result = YouTube!NoResult
        /\ reader.result.status = "none"
  BY <1>1 DEF Fits, YouTube!Respond, YouTube!Chunk, YouTube!Body, YouTube!TimeOut, YouTube!Press,
     YouTube!Watch, YouTube!Timed, YouTube!NoResult
<1> DEFINE Goal == Sound(reader') /\ UNCHANGED <<page, visits>> /\ time' \in 0..MaxLate
<1>4. CASE YouTube!Respond
  <2> DEFINE read == [reader EXCEPT !.pc = "read"]
  <2>1. /\ read \in YouTube!JobState /\ read.pc = "read" /\ read.of = reader.of
             /\ read.id = reader.id /\ read.known = reader.known
        /\ read.result = YouTube!NoResult /\ read.form = reader.form /\ read.left = reader.left
    BY <1>1, <1>3 DEF YouTube!JobState
  <2> HIDE DEF read
  <2>2. Sound(read)
    BY <1>1, <1>4, <2>1 DEF Sound, Fits, YouTube!NoResult, YouTube!Respond
  <2>3. reader' = read \/ reader' \in YouTube!Onward("fetch")
    BY <1>4 DEF YouTube!Respond, read
  <2>4. Goal
    BY <1>1, <1>4, <2>2, <2>3, OnwardSound DEF YouTube!Respond
  <2>5. QED
    BY <1>3, <2>4, SoundStep
<1>5. CASE YouTube!Chunk
  <2> DEFINE more == [reader EXCEPT !.size = @ + 1]
  <2>1. ASSUME ~YouTube!TooLarge(reader.size)
        PROVE  /\ more \in YouTube!JobState /\ more.pc = reader.pc /\ more.of = reader.of
                    /\ more.id = reader.id /\ more.known = reader.known
               /\ more.result = YouTube!NoResult /\ more.form = reader.form
                    /\ more.left = reader.left
    <3>1. reader.size + 1 \in 0..MaxChunk
      BY <1>1, <2>1 DEF YouTube!TooLarge, YouTube!JobState
    <3>2. QED
      BY <1>1, <1>3, <3>1 DEF YouTube!JobState
  <2> HIDE DEF more
  <2>2. ~YouTube!TooLarge(reader.size) => Sound(more)
    BY <1>1, <2>1 DEF Sound, Fits, YouTube!NoResult
  <2>3. (~YouTube!TooLarge(reader.size) /\ reader' = more) \/ reader' \in YouTube!Onward("parse")
    BY <1>5 DEF YouTube!Chunk, more
  <2>4. Goal
    BY <1>1, <1>5, <2>2, <2>3, OnwardSound DEF YouTube!Chunk
  <2>5. QED
    BY <1>3, <2>4, SoundStep
<1>6. CASE YouTube!Body
  <2> DEFINE c == YouTube!Captured(reader, reader.of, reader.form)
  <2>1. reader.of \in Video /\ reader.form \in YouTube!Form
    BY <1>1 DEF YouTube!JobState
  <2>2. reader.form \in YouTube!Form \union {"panel"} /\ "parse" \in YouTube!Error
    BY <1>1, <2>1
  <2>3. /\ c \in YouTube!JobState /\ c.pc = "done" /\ c.id = reader.id
        /\ c.known = reader.known /\ c.result.status \in {"captured", "failed"}
        /\ c.result.status = "captured" => page.at = reader.id /\ c.result.of = reader.of
    BY <1>1, <2>1, <2>2, EndFits
  <2> HIDE DEF c
  <2>4. reader.known => reader.of = reader.id
    BY <1>1, <1>6 DEF Fits, YouTube!Body
  <2>5. Sound(c)
    BY <2>3, <2>4 DEF Sound, Fits
  <2>6. reader' = c \/ reader' \in YouTube!Onward("parse")
    BY <1>6 DEF YouTube!Body, c
  <2>7. Goal
    BY <1>1, <1>6, <2>5, <2>6, OnwardSound DEF YouTube!Body
  <2>8. QED
    BY <1>3, <2>7, SoundStep
<1>7. CASE YouTube!TimeOut
  <2>1. PICK e \in YouTube!Error : reader' \in YouTube!Onward(e)
    BY <1>1, <1>7 DEF YouTube!TimeOut
  <2>2. Goal
    BY <1>2, <1>7, <2>1, OnwardSound DEF YouTube!TimeOut, YouTube!Timed
  <2>3. QED
    BY <1>3, <2>2, SoundStep
<1> DEFINE wait == [reader EXCEPT !.pc = "wait", !.attempt = 0]
           next == [reader EXCEPT !.attempt = @ + 1]
<1>8. wait \in YouTube!JobState /\ wait.pc = "wait" /\ wait.id = reader.id
        /\ wait.result = YouTube!NoResult
  <2>1. 0 \in 0..MaxAttempt
    BY <1>1
  <2>2. QED
    BY <1>1, <1>3, <2>1 DEF YouTube!JobState
<1>9. ASSUME YouTube!Looks(reader)
      PROVE  next \in YouTube!JobState /\ next.pc = reader.pc /\ next.id = reader.id
               /\ next.result = YouTube!NoResult
  <2>1. reader.attempt + 1 \in 0..MaxAttempt
    BY <1>1, <1>9 DEF YouTube!Looks, YouTube!JobState
  <2>2. QED
    BY <1>1, <1>3, <2>1 DEF YouTube!JobState
<1>10. Sound(YouTube!Exhausted(reader))
  BY <1>1, <1>3, PanelSound
<1>11. CASE YouTube!Press
  <2>1. (reader' \in {wait, next} /\ YouTube!Looks(reader)) \/ reader' = YouTube!Exhausted(reader)
    BY <1>11 DEF YouTube!Press
  <2>2. UNCHANGED <<page, visits>> /\ time' \in 0..MaxLate
    BY <1>1, <1>2, <1>11 DEF YouTube!Press
  <2>3. reader.pc = "button"
    BY <1>11 DEF YouTube!Press
  <2> HIDE DEF wait, next
  <2>4. Sound(reader')
    BY <1>8, <1>9, <1>10, <2>1, <2>3 DEF Sound, Fits, YouTube!NoResult
  <2>5. QED
    BY <1>3, <2>2, <2>4, SoundStep
<1>12. CASE YouTube!Watch
  <2> DEFINE c == YouTube!Captured(reader, page.panel, "panel")
  <2>1. \/ reader' = c /\ page.panel # NoVideo
        \/ reader' = next /\ YouTube!Looks(reader)
        \/ reader' = YouTube!Exhausted(reader)
    BY <1>12 DEF YouTube!Watch
  <2>2. UNCHANGED <<page, visits>> /\ time' \in 0..MaxLate
    BY <1>1, <1>2, <1>12 DEF YouTube!Watch
  <2>3. reader.pc = "wait"
    BY <1>12 DEF YouTube!Watch
  <2>4. ASSUME page.panel # NoVideo
        PROVE  /\ c \in YouTube!JobState /\ c.pc = "done" /\ c.id = reader.id
               /\ c.result.status \in {"captured", "failed"}
               /\ c.result.status = "captured" => page.at = reader.id /\ c.result.via = "panel"
    <3>1. page.panel \in Video /\ "parse" \in YouTube!Error /\ reader \in YouTube!JobState
      BY <1>1, <2>4
    <3>2. QED
      BY <3>1, EndFits
  <2> HIDE DEF c, next
  <2>5. Sound(reader')
    BY <1>9, <1>10, <2>1, <2>3, <2>4 DEF Sound, Fits, YouTube!NoResult
  <2>6. QED
    BY <1>3, <2>2, <2>5, SoundStep
<1>13. QED
  BY <1>4, <1>5, <1>6, <1>7, <1>11, <1>12

\* An attempt starts for the video on the page.
LEMMA StartKeeps ==
  ASSUME YouTube!YouTubeBounds, TubeInv, YouTube!Start
  PROVE  TubeInv' /\ (reader'.result.status = "captured" => page.at = reader'.id)
<1> DEFINE known == YouTube!Known
           new == [reader EXCEPT !.id = page.at, !.known = known]
           bare == [YouTube!NoResult EXCEPT !.status = "no_caption"]
<1>1. reader.pc = "idle" /\ UNCHANGED <<page, visits, time>>
  BY Zenon DEF YouTube!Start
<1>2. reader \in YouTube!JobState /\ reader.result = YouTube!NoResult /\ page.at \in Video
        /\ page.loaded \in Video
  BY <1>1 DEF TubeInv, YouTube!TypeOK, Fits, YouTube!PageState
<1>3. known \in BOOLEAN
  BY DEF YouTube!Known
<1> HIDE DEF known
<1>4. /\ new \in YouTube!JobState /\ new.id = page.at /\ new.known = known
      /\ new.result = YouTube!NoResult
  BY <1>2, <1>3 DEF YouTube!JobState
<1>5. \/ \E error \in {"stale", "unavailable"} : reader' = YouTube!Fail(new, error)
      \/ \E r \in YouTube!Preferred(page.at) :
             r.of \notin Captioned /\ reader' = YouTube!End(new, bare)
      \/ \E r \in YouTube!Preferred(page.at), n \in YouTube!Tracks :
             r.of \in Captioned /\ reader' = [new EXCEPT !.pc = "fetch", !.of = r.of, !.left = n]
  BY Zenon DEF YouTube!Start, known
<1> HIDE DEF new
<1>6. {"stale", "unavailable"} \subseteq YouTube!Error /\ "json" \in YouTube!Form
  BY DEF YouTube!Error, YouTube!Form
<1>7. /\ \A error \in {"stale", "unavailable"} :
            /\ YouTube!Fail(new, error) \in YouTube!JobState
            /\ YouTube!Fail(new, error).pc = "done"
            /\ YouTube!Fail(new, error).result.status = "failed"
      /\ YouTube!End(new, bare) \in YouTube!JobState /\ YouTube!End(new, bare).id = page.at
      /\ YouTube!End(new, bare).known = known /\ YouTube!End(new, bare).pc = "done"
      /\ YouTube!End(new, bare).result.status = "no_caption"
  <2>1. "json" \in YouTube!Form \union {"panel"}
    BY <1>6
  <2>2. \A j \in YouTube!JobState, error \in YouTube!Error, of \in Video,
           via \in YouTube!Form \union {"panel"} :
            /\ YouTube!Fail(j, error) \in YouTube!JobState /\ YouTube!Fail(j, error).pc = "done"
            /\ YouTube!Fail(j, error).result.status = "failed"
            /\ YouTube!End(j, bare) \in YouTube!JobState /\ YouTube!End(j, bare).id = j.id
            /\ YouTube!End(j, bare).known = j.known /\ YouTube!End(j, bare).pc = "done"
            /\ YouTube!End(j, bare).result.status = "no_caption"
    BY EndFits
  <2> HIDE DEF bare
  <2>3. QED
    BY <1>2, <1>4, <1>6, <2>1, <2>2
<1>8. \A error \in {"stale", "unavailable"} : Fits(YouTube!Fail(new, error))
  BY <1>7 DEF Fits
<1>9. (known => page.at \notin Captioned) => Fits(YouTube!End(new, bare))
  BY <1>7 DEF Fits
<1>10. ASSUME NEW r \in YouTube!Preferred(page.at), r.of \in Captioned, NEW n \in YouTube!Tracks
      PROVE  LET f == [new EXCEPT !.pc = "fetch", !.of = r.of, !.left = n]
             IN  f \in YouTube!JobState /\ Fits(f) /\ f.result = YouTube!NoResult
  <2> DEFINE f == [new EXCEPT !.pc = "fetch", !.of = r.of, !.left = n]
  <2>1. /\ known => r.of = page.at
        /\ r.of \in Video /\ n \in 0..2 /\ n # 0
    BY <1>10, OursIsOurs DEF YouTube!Tracks, YouTube!YouTubeBounds, known
  <2>2. /\ f \in YouTube!JobState /\ f.pc = "fetch" /\ f.of = r.of /\ f.id = page.at
        /\ f.known = known /\ f.left = n /\ f.result = YouTube!NoResult
    BY <1>2, <1>4, <2>1 DEF YouTube!JobState
  <2> HIDE DEF f
  <2>3. Fits(f)
    BY <2>1, <2>2 DEF Fits, YouTube!NoResult
  <2>4. QED
    BY <2>2, <2>3 DEF f
<1>11. reader' \in YouTube!JobState /\ Fits(reader') /\ reader'.result.status # "captured"
  <2>1. CASE \E error \in {"stale", "unavailable"} : reader' = YouTube!Fail(new, error)
    BY <1>7, <1>8, <2>1
  <2>2. CASE \E r \in YouTube!Preferred(page.at) : r.of \notin Captioned
          /\ reader' = YouTube!End(new, bare)
    <3>1. known => page.at \notin Captioned
      BY <2>2, OursIsOurs DEF known
    <3>2. QED
      BY <1>7, <1>9, <2>2, <3>1
  <2>3. CASE \E r \in YouTube!Preferred(page.at), n \in YouTube!Tracks : r.of \in Captioned
                 /\ reader' = [new EXCEPT !.pc = "fetch", !.of = r.of, !.left = n]
    <3>1. PICK r \in YouTube!Preferred(page.at), n \in YouTube!Tracks : r.of \in Captioned
                 /\ reader' = [new EXCEPT !.pc = "fetch", !.of = r.of, !.left = n]
      BY <2>3, Zenon
    <3>2. reader' \in YouTube!JobState /\ Fits(reader') /\ reader'.result = YouTube!NoResult
      BY <1>10, <3>1, Zenon
    <3>3. QED
      BY <3>2 DEF YouTube!NoResult
  <2>4. QED
    BY <1>5, <2>1, <2>2, <2>3, Zenon
<1>12. QED
  BY <1>11, <1>1 DEF TubeInv, YouTube!TypeOK

\* What the page does of itself keeps the invariant and the attempt.
LEMMA PageKeeps ==
  ASSUME YouTube!YouTubeBounds, TubeInv, YouTube!Navigate \/ YouTube!PlayerFollows
           \/ YouTube!DrawPanel \/ YouTube!ClearPanel
  PROVE  TubeInv' /\ UNCHANGED reader
<1>1. UNCHANGED <<reader, time>> /\ visits' \in 0..MaxNavigation
  BY DEF YouTube!Navigate, YouTube!PlayerFollows, YouTube!DrawPanel, YouTube!ClearPanel,
     YouTube!Become, TubeInv, YouTube!TypeOK, YouTube!YouTubeBounds
<1>2. page' \in YouTube!PageState
  BY DEF YouTube!Navigate, YouTube!PlayerFollows, YouTube!DrawPanel, YouTube!ClearPanel,
     YouTube!Become, TubeInv, YouTube!TypeOK, YouTube!PageState
<1>3. QED
  BY <1>1, <1>2 DEF TubeInv, YouTube!TypeOK, Fits

\* The initial states satisfy the invariant.
LEMMA TubeInit ==
  ASSUME YouTube!YouTubeBounds, YouTube!Init
  PROVE  TubeInv
<1>1. page \in YouTube!PageState /\ page.at \in Video
  BY DEF YouTube!Init, YouTube!PageState
<1>2. YouTube!NoResult \in YouTube!Result
  BY DEF YouTube!NoResult, YouTube!Result
<1>3. 0 \in 0..MaxChunk /\ 0 \in 0..MaxAttempt /\ 0 \in 0..MaxLate /\ 0 \in 0..MaxNavigation
  BY DEF YouTube!YouTubeBounds
<1>4. reader \in YouTube!JobState
  BY <1>1, <1>2, <1>3 DEF YouTube!Init, YouTube!JobState, YouTube!Form
<1>5. Fits(reader)
  BY DEF YouTube!Init, Fits, YouTube!NoResult
<1>6. QED
  BY <1>1, <1>3, <1>4, <1>5 DEF YouTube!Init, TubeInv, YouTube!TypeOK

\* Every step keeps the invariant, and saves cues of the video on the page only.
LEMMA TubeNext ==
  ASSUME YouTube!YouTubeBounds, TubeInv, [YouTube!Next]_(YouTube!vars)
  PROVE  /\ TubeInv'
         /\ reader.result.status # "captured" /\ reader'.result.status = "captured"
                => page.at = reader'.id
<1>1. CASE YouTube!Start
  BY <1>1, StartKeeps
<1>2. CASE YouTube!Respond \/ YouTube!Chunk \/ YouTube!Body \/ YouTube!TimeOut \/ YouTube!Press
        \/ YouTube!Watch
  BY <1>2, RunKeeps
<1>3. CASE YouTube!Navigate \/ YouTube!PlayerFollows \/ YouTube!DrawPanel \/ YouTube!ClearPanel
  BY <1>3, PageKeeps
<1>4. CASE UNCHANGED YouTube!vars
  BY <1>4 DEF YouTube!vars, TubeInv, YouTube!TypeOK, Fits
<1>5. QED
  BY <1>1, <1>2, <1>3, <1>4 DEF YouTube!Next

\* The invariant holds for every set of videos and every number of chunks, looks and
\* navigations.
THEOREM TubeInvariance ==
  ASSUME YouTube!YouTubeBounds
  PROVE  YouTube!Spec => []TubeInv
<1>1. YouTube!Init => TubeInv
  BY TubeInit
<1>2. TubeInv /\ [YouTube!Next]_(YouTube!vars) => TubeInv'
  BY TubeNext
<1>3. QED
  BY <1>1, <1>2, PTL DEF YouTube!Spec

--------------------------------------------------------------------------------
(* The inductive invariant of the pages *)

RowState == [state : {Library!None, "pending", "fetching", "ready", "no_text", "failed"},
             archived : BOOLEAN]
LastAttempt == Library!Active \union {Library!None, "completed", "failed"}
Lifecycles == {"archived", "ready", "needs_action", "failed", "processing", "queued"}
AnswerState == [shows : SUBSET (Item \X Lifecycles), missing : BOOLEAN]
CacheState == [answer : AnswerState, stale : BOOLEAN, old : BOOLEAN]
FetchState ==
    {Library!NoFetch} \union [phase : {"rows"}, rows : [Item -> RowState], old : BOOLEAN]
                      \union [phase : {"answered"}, answer : AnswerState, old : BOOLEAN]
Kinds == {"batch", "retry", "archive", "restore"}
ChangeState ==
    [id : Nat, kind : Kinds, item : Item, phase : {"sent", "saved", "answered"},
     current : BOOLEAN, mounted : BOOLEAN, ok : BOOLEAN, answer : AnswerState]

PagesTyped ==
    /\ cache \in [Library!Query -> CacheState]
    /\ fetch \in [Library!Query -> FetchState]
    /\ calls \subseteq ChangeState
    /\ dialog \in [open : BOOLEAN, batch : Nat, result : Nat]
    /\ changes \in Nat

\* An answer shows items that are saved, and an item's own shows that item.
True(q, answer) ==
    \A s \in answer.shows : Library!Saved(s[1]) /\ (q \in Library!Details => s[1] = q[2])

AnswersTrue ==
    \A q \in Library!Query :
        /\ True(q, cache[q].answer)
        /\ fetch[q].phase = "rows" => \A i \in Item : fetch[q].rows[i] # Library!Absent
             => Library!Saved(i)
        /\ fetch[q].phase = "answered" => True(q, fetch[q].answer)

\* A change of an item is one of a saved item, and so is a batch that was saved.
CallsTrue ==
    \A c \in calls :
        /\ c.kind # "batch" \/ c.phase = "saved" => Library!Saved(c.item)
        /\ True(<<"item", c.item>>, c.answer)
        /\ c.id \in 1..changes

\* No read in flight was begun before the last refresh of an answer its entry
\* shows, so an entry that shows something older is still marked.
Recent ==
    \A q \in Library!Query :
        /\ fetch[q].phase # Library!None => ~fetch[q].old
        /\ cache[q].old => cache[q].stale

\* The batch of the present opening is the one the dialog waits for or shows.
DialogFits ==
    /\ Library!DialogShowsItsBatch
    /\ \A c \in calls : c.kind = "batch" /\ c.current /\ c.mounted =>
                            dialog.open /\ dialog.batch = c.id

\* Only the row of an item that is not saved has no state.
RowsWhole == \A i \in Item : row[i].state = Library!None => row[i] = Library!Absent

LibInv ==
    /\ Library!TypeOK /\ PagesTyped /\ RowsWhole
    /\ AnswersTrue /\ CallsTrue /\ Recent /\ DialogFits

\* The initial states of the pages satisfy the invariant.
LEMMA LibStarts == ASSUME Library!Init PROVE LibInv
<1>0. /\ Library!Absent \in RowState /\ Library!Failure \in RowState
      /\ [state |-> "pending", archived |-> FALSE] \in RowState
      /\ Library!Failure # Library!Absent
      /\ [state |-> "pending", archived |-> FALSE] # Library!Absent
  BY DEF Library!Absent, Library!Failure, RowState, Library!None
<1>1. /\ row \in [Item -> RowState]
      /\ \A i \in Item : row[i] \in {Library!Absent, Library!Failure, [state |-> "pending",
           archived |-> FALSE]}
      /\ \A i \in Item : latest[i] = CASE row[i] = Library!Absent -> Library!None
                                  [] row[i] = Library!Failure -> "failed"
                                  [] OTHER -> "enqueued"
      /\ latest \in [Item -> LastAttempt]
  BY <1>0 DEF Library!Init, LastAttempt, Library!Active
<1>2. \A i \in Item : Library!Saved(i) <=> latest[i] # Library!None
  BY <1>0, <1>1 DEF Library!Saved, Library!None
<1>3. Library!NoAnswer \in AnswerState /\ Library!NoAnswer.shows = {}
  BY DEF Library!NoAnswer, AnswerState
<1>4. Library!Entry(Library!NoAnswer, TRUE, FALSE) \in CacheState
  BY <1>3 DEF Library!Entry, CacheState
<1>5. /\ Library!Entry(Library!NoAnswer, TRUE, FALSE).answer = Library!NoAnswer
      /\ Library!Entry(Library!NoAnswer, TRUE, FALSE).stale = TRUE
      /\ ~Library!Entry(Library!NoAnswer, TRUE, FALSE).old
      /\ Library!NoFetch.phase = Library!None
  BY DEF Library!Entry, Library!NoFetch
<1>6. \A q \in Library!Query : /\ cache[q] = Library!Entry(Library!NoAnswer, TRUE, FALSE)
                               /\ fetch[q] = Library!NoFetch
  BY DEF Library!Init
<1>7. PagesTyped
  BY <1>4 DEF Library!Init, PagesTyped, FetchState
<1>8. Library!TypeOK
  BY <1>1, <1>2, <1>5, <1>6 DEF Library!Init, Library!TypeOK, RowState, LastAttempt
<1>9. AnswersTrue
  BY <1>3, <1>5, <1>6 DEF AnswersTrue, True, Library!None
<1>10. CallsTrue
  BY DEF CallsTrue, Library!Init
<1>11. Recent
  BY <1>5, <1>6 DEF Recent
<1>12. DialogFits
  BY DEF DialogFits, Library!DialogShowsItsBatch, Library!Init
<1>13. RowsWhole
  BY <1>1 DEF RowsWhole, Library!Failure, Library!None
<1>14. QED
  BY <1>7, <1>8, <1>9, <1>10, <1>11, <1>12, <1>13 DEF LibInv

\* What the invariant says of one row, entry, read and call.
LEMMA LibParts ==
  ASSUME LibInv
  PROVE  /\ row \in [Item -> RowState] /\ latest \in [Item -> LastAttempt]
         /\ cache \in [Library!Query -> CacheState] /\ fetch \in [Library!Query -> FetchState]
         /\ \A i \in Item : row[i] \in RowState /\ latest[i] \in LastAttempt
         /\ \A q \in Library!Query : cache[q] \in CacheState /\ fetch[q] \in FetchState
         /\ \A c \in calls : c \in ChangeState
         /\ changes \in Nat /\ dialog \in [open : BOOLEAN, batch : Nat, result : Nat]
         /\ view \in Library!Query \union {Library!Away}
BY DEF LibInv, Library!TypeOK, PagesTyped, RowState, LastAttempt

\* What an answer shows once it shows it for good: rows are never removed.
LEMMA TrueStays ==
  ASSUME NEW q, NEW answer, True(q, answer), \A i \in Item : Library!Saved(i)
           => Library!Saved(i)',
         answer \in AnswerState
  PROVE  True(q, answer)'
BY DEF True, AnswerState

\* What the rest of a step leaves standing.
LEMMA LibStanding ==
  ASSUME LibInv
  PROVE  /\ \A i \in Item : Library!Saved(i) <=> latest[i] # Library!None
         /\ dialog.open => view \in Library!Lists
         /\ \A c, d \in calls : c.id = d.id => c = d
         /\ RowsWhole /\ AnswersTrue /\ CallsTrue /\ Recent /\ DialogFits
BY DEF LibInv, Library!TypeOK

\* The parts of the invariant after a step.
LEMMA LibShape ==
  ASSUME (/\ row \in [Item -> RowState] /\ latest \in [Item -> LastAttempt]
          /\ \A i \in Item : Library!Saved(i) <=> latest[i] # Library!None
          /\ cache \in [Library!Query -> CacheState] /\ fetch \in [Library!Query -> FetchState]
          /\ calls \subseteq ChangeState /\ changes \in Nat
          /\ dialog \in [open : BOOLEAN, batch : Nat, result : Nat]
          /\ view \in Library!Query \union {Library!Away} /\ (dialog.open
               => view \in Library!Lists)
          /\ \A c, d \in calls : c.id = d.id => c = d
          /\ RowsWhole /\ AnswersTrue /\ CallsTrue /\ Recent /\ DialogFits)'
  PROVE  LibInv'
<1>1. (\A q \in Library!Query : cache[q].stale \in BOOLEAN)'
  BY DEF CacheState
<1>2. Library!TypeOK'
  BY <1>1 DEF Library!TypeOK, RowState, LastAttempt
<1>3. QED
  BY <1>2 DEF LibInv, PagesTyped

\* Entries and reads that stay go on showing saved items.
LEMMA AnswersStay ==
  ASSUME LibInv, \A i \in Item : Library!Saved(i) => Library!Saved(i)', UNCHANGED <<cache, fetch>>
  PROVE  AnswersTrue' /\ Recent'
<1>1. ASSUME NEW q \in Library!Query
      PROVE  /\ True(q, cache[q].answer)'
             /\ (fetch[q].phase = "rows" => \A i \in Item : fetch[q].rows[i] # Library!Absent
                  => Library!Saved(i))'
             /\ (fetch[q].phase = "answered" => True(q, fetch[q].answer))'
  <2>1. cache[q].answer \in AnswerState
    BY LibParts DEF CacheState
  <2>2. fetch[q].phase = "answered" => fetch[q].answer \in AnswerState
    BY LibParts DEF FetchState, Library!NoFetch, Library!None
  <2>3. True(q, cache[q].answer)'
    BY <2>1, LibStanding, TrueStays DEF AnswersTrue
  <2>4. fetch[q].phase = "answered" => True(q, fetch[q].answer)'
    BY <2>2, LibStanding, TrueStays DEF AnswersTrue
  <2>5. (fetch[q].phase = "rows" => \A i \in Item : fetch[q].rows[i] # Library!Absent
          => Library!Saved(i))'
    BY LibStanding DEF AnswersTrue
  <2>6. QED
    BY <2>3, <2>4, <2>5
<1>2. AnswersTrue'
  BY <1>1 DEF AnswersTrue
<1>3. Recent'
  BY LibStanding DEF Recent
<1>4. QED
  BY <1>2, <1>3

\* Calls that stay, and of which some lose their page or their generation.
LEMMA CallsStay ==
  ASSUME LibInv, \A i \in Item : Library!Saved(i) => Library!Saved(i)', changes' = changes,
         \A d \in calls' : /\ d \in ChangeState
                           /\ \E c \in calls : /\ d.id = c.id /\ d.kind = c.kind
                                /\ d.item = c.item
                                               /\ d.phase = c.phase /\ d.answer = c.answer
  PROVE  CallsTrue'
<1>1. ASSUME NEW d \in calls'
      PROVE  /\ d.kind # "batch" \/ d.phase = "saved" => Library!Saved(d.item)'
             /\ True(<<"item", d.item>>, d.answer)'
             /\ d.id \in 1..changes'
  <2>1. PICK c \in calls : /\ d.id = c.id /\ d.kind = c.kind /\ d.item = c.item
                           /\ d.phase = c.phase /\ d.answer = c.answer
    OBVIOUS
  <2>2. d \in ChangeState /\ d.item \in Item /\ d.answer \in AnswerState
    BY DEF ChangeState
  <2>3. /\ c.kind # "batch" \/ c.phase = "saved" => Library!Saved(c.item)
        /\ True(<<"item", c.item>>, c.answer)
        /\ c.id \in 1..changes
    BY LibStanding DEF CallsTrue
  <2>4. True(<<"item", d.item>>, d.answer)'
    BY <2>1, <2>2, <2>3, TrueStays
  <2>5. QED
    BY <2>1, <2>2, <2>3, <2>4
<1>2. QED
  BY <1>1 DEF CallsTrue

\* A read that begins.
LEMMA ReadingFits ==
  ASSUME LibInv
  PROVE  /\ Library!Reading \in FetchState /\ Library!Reading.phase = "rows"
              /\ ~Library!Reading.old
         /\ Library!Reading.rows = row /\ Library!Reading.phase # "answered"
BY LibParts DEF Library!Reading, FetchState

\* The states of a row, as sets.
LEMMA LifecycleTyped ==
  ASSUME NEW r \in RowState, NEW d \in LastAttempt
  PROVE  Library!Lifecycle(r, d) \in Lifecycles
BY DEF Library!Lifecycle, Lifecycles, RowState

\* An answer built from rows.
LEMMA AnswerFits ==
  ASSUME LibInv, NEW q \in Library!Query, NEW rows \in [Item -> RowState],
         \A i \in Item : rows[i] # Library!Absent => Library!Saved(i)
  PROVE  Library!Answer(q, rows) \in AnswerState /\ True(q, Library!Answer(q, rows))
<1>1. \A i \in Item : Library!Lifecycle(rows[i], latest[i]) \in Lifecycles
  BY LibParts, LifecycleTyped
<1>2. Library!Shows(q, rows) \subseteq Item \X Lifecycles
  BY <1>1 DEF Library!Shows
<1>3. Library!Answer(q, rows) \in AnswerState
        /\ Library!Answer(q, rows).shows = Library!Shows(q, rows)
  BY <1>2 DEF Library!Answer, AnswerState
<1>4. \A s \in Library!Shows(q, rows) : Library!Saved(s[1]) /\ (q \in Library!Details
        => s[1] = q[2])
  BY DEF Library!Shows
<1>5. QED
  BY <1>3, <1>4 DEF True

\* One entry's read is replaced.
LEMMA FetchChanges ==
  ASSUME LibInv, NEW q \in Library!Query, NEW new \in FetchState,
           fetch' = [fetch EXCEPT ![q] = new],
         new.phase # Library!None => ~new.old,
         new.phase = "rows" => \A i \in Item : new.rows[i] # Library!Absent => Library!Saved(i),
         new.phase = "answered" => True(q, new.answer),
         UNCHANGED <<row, cache>>
  PROVE  fetch' \in [Library!Query -> FetchState] /\ AnswersTrue' /\ Recent'
<1>1. /\ fetch' \in [Library!Query -> FetchState]
      /\ \A p \in Library!Query : fetch'[p] = IF p = q THEN new ELSE fetch[p]
  BY LibParts
<1>2. \A i : Library!Saved(i)' <=> Library!Saved(i)
  BY DEF Library!Saved
<1>3. \A p, answer : True(p, answer)' <=> True(p, answer)
  BY <1>2 DEF True
<1>4. AnswersTrue'
  BY <1>1, <1>2, <1>3, LibStanding DEF AnswersTrue
<1>5. Recent'
  BY <1>1, LibStanding DEF Recent
<1>6. QED
  BY <1>1, <1>4, <1>5

\* A step of reading: nothing but entries and reads change.
LEMMA ReadStep ==
  ASSUME LibInv, fetch' \in [Library!Query -> FetchState],
           cache' \in [Library!Query -> CacheState],
         AnswersTrue', Recent', UNCHANGED <<row, latest, view, calls, dialog, changes>>
  PROVE  LibInv'
<1>1. \A i \in Item : Library!Saved(i)' <=> Library!Saved(i)
  BY DEF Library!Saved
<1>2. CallsTrue'
  BY <1>1, LibParts, CallsStay
<1>3. DialogFits'
  BY LibStanding DEF DialogFits, Library!DialogShowsItsBatch
<1>4. (\A i \in Item : Library!Saved(i) <=> latest[i] # Library!None)'
  BY <1>1, LibStanding
<1>5. calls' \subseteq ChangeState
  BY LibParts
<1>r. RowsWhole'
  BY LibStanding DEF RowsWhole
<1>6. QED
  BY <1>r, <1>2, <1>3, <1>4, <1>5, LibParts, LibStanding, LibShape

-----------------------------------------------------------------------------
(* Every step keeps the invariant *)

\* The steps of a read, by which a page learns something.
LEMMA ReadAttemptsKeeps ==
  ASSUME LibInv, NEW q \in Library!Query, Library!ReadAttempts(q)
  PROVE  LibInv'
<1> DEFINE a == Library!Answer(q, fetch[q].rows)
           new == [phase |-> "answered", answer |-> a, old |-> fetch[q].old]
<1>1. /\ fetch[q] \in FetchState /\ fetch[q].phase = "rows"
      /\ fetch' = [fetch EXCEPT ![q] = new]
      /\ UNCHANGED <<row, latest, cache, view, calls, dialog, changes>>
  BY LibParts DEF Library!ReadAttempts
<1>2. /\ fetch[q].rows \in [Item -> RowState] /\ fetch[q].old \in BOOLEAN
  BY <1>1 DEF FetchState, Library!NoFetch, Library!None
<1>3. \A i \in Item : fetch[q].rows[i] # Library!Absent => Library!Saved(i)
  BY <1>1, LibStanding DEF AnswersTrue
<1>4. a \in AnswerState /\ True(q, a)
  BY <1>2, <1>3, AnswerFits
<1>5. ~fetch[q].old
  BY <1>1, LibStanding DEF Recent, Library!None
<1> HIDE DEF a
<1>6. new \in FetchState /\ new.phase = "answered" /\ new.answer = a /\ ~new.old
  BY <1>2, <1>4, <1>5 DEF FetchState
<1> HIDE DEF new
<1>7. fetch' \in [Library!Query -> FetchState] /\ AnswersTrue' /\ Recent'
  BY <1>1, <1>4, <1>6, FetchChanges
<1>8. QED
  BY <1>1, <1>7, LibParts, ReadStep

\* Nothing in flight has the shape of a read.
LEMMA NothingInFlight ==
  Library!NoFetch \in FetchState /\ Library!NoFetch.phase = Library!None
    /\ Library!NoFetch.phase \notin {"rows", "answered"}
BY DEF Library!NoFetch, FetchState, Library!None

\* An answer that arrives keeps the invariant.
LEMMA ArriveKeeps ==
  ASSUME LibInv, NEW q \in Library!Query, Library!Arrive(q)
  PROVE  LibInv'
<1> DEFINE new == Library!Entry(fetch[q].answer, FALSE, fetch[q].old)
<1>1. /\ fetch[q] \in FetchState /\ fetch[q].phase = "answered"
      /\ cache' = [cache EXCEPT ![q] = new] /\ fetch' = [fetch EXCEPT ![q] = Library!NoFetch]
      /\ UNCHANGED <<row, latest, view, calls, dialog, changes>>
  BY LibParts DEF Library!Arrive
<1>2. fetch[q].answer \in AnswerState /\ fetch[q].old \in BOOLEAN
  BY <1>1 DEF FetchState, Library!NoFetch, Library!None
<1>3. /\ new \in CacheState /\ new.answer = fetch[q].answer
      /\ new.old = fetch[q].old
  BY <1>2 DEF Library!Entry, CacheState
<1>4. True(q, new.answer) /\ ~new.old
  BY <1>1, <1>3, LibStanding DEF AnswersTrue, Recent, Library!None
<1> HIDE DEF new
<1>5. /\ cache' \in [Library!Query -> CacheState] /\ fetch' \in [Library!Query -> FetchState]
      /\ \A p \in Library!Query : /\ cache'[p] = IF p = q THEN new ELSE cache[p]
                                  /\ fetch'[p] = IF p = q THEN Library!NoFetch ELSE fetch[p]
  BY <1>1, <1>3, LibParts, NothingInFlight
<1>6. \A i : Library!Saved(i)' <=> Library!Saved(i)
  BY <1>1 DEF Library!Saved
<1>7. \A p, answer : True(p, answer)' <=> True(p, answer)
  BY <1>6 DEF True
<1>8. AnswersTrue'
  BY <1>4, <1>5, <1>6, <1>7, NothingInFlight, LibStanding DEF AnswersTrue
<1>9. Recent'
  BY <1>4, <1>5, NothingInFlight, LibStanding DEF Recent
<1>10. QED
  BY <1>1, <1>5, <1>8, <1>9, ReadStep

\* A lost read and a poll keep the invariant.
LEMMA LoseAndPollKeep ==
  ASSUME LibInv, NEW q \in Library!Query, Library!Lose(q) \/ Library!Poll(q)
  PROVE  LibInv'
<1>1. /\ fetch' = [fetch EXCEPT ![q] = Library!NoFetch] \/ fetch' = [fetch EXCEPT ![q] = Library!Reading]
      /\ UNCHANGED <<row, latest, cache, view, calls, dialog, changes>>
  BY DEF Library!Lose, Library!Poll
<1>2. \A i \in Item : Library!Reading.rows[i] # Library!Absent => Library!Saved(i)
  BY ReadingFits DEF Library!Saved
<1>3. fetch' \in [Library!Query -> FetchState] /\ AnswersTrue' /\ Recent'
  BY <1>1, <1>2, ReadingFits, NothingInFlight, FetchChanges
<1>4. QED
  BY <1>1, <1>3, LibParts, ReadStep

\* A worker's step: rows and attempts, and never a row less.
LEMMA WorkerSteps ==
  ASSUME LibInv, NEW i \in Item, Library!Claim(i) \/ Library!Finish(i)
  PROVE  LibInv'
<1>1. PICK s \in {"fetching", "ready", "no_text", "failed"}, d \in LastAttempt \ {Library!None} :
        /\ row' = [row EXCEPT ![i].state = s] /\ latest' = [latest EXCEPT ![i] = d]
        /\ UNCHANGED <<cache, fetch, view, calls, dialog, changes>>
  <2>1. CASE Library!Claim(i)
    BY <2>1 DEF Library!Claim, LastAttempt, Library!Active, Library!None
  <2>2. CASE Library!Finish(i)
    <3>1. PICK s \in {"ready", "no_text", "failed"} :
            /\ row' = [row EXCEPT ![i].state = s]
            /\ latest' = [latest EXCEPT ![i] = IF s = "failed" THEN "failed" ELSE "completed"]
      BY <2>2 DEF Library!Finish
    <3>2. (IF s = "failed" THEN "failed" ELSE "completed") \in LastAttempt \ {Library!None}
      BY DEF LastAttempt, Library!None
    <3>3. QED
      BY <2>2, <3>1, <3>2 DEF Library!Finish
  <2>3. QED
    BY <2>1, <2>2
<1> DEFINE new == [row[i] EXCEPT !.state = s]
<1>2. new \in RowState /\ new.state # Library!None /\ new # Library!Absent
  BY <1>1, LibParts DEF RowState, Library!Absent, Library!None
<1>3. row' = [row EXCEPT ![i] = new]
  BY <1>1
<1> HIDE DEF new
<1>4. /\ row' \in [Item -> RowState] /\ latest' \in [Item -> LastAttempt]
      /\ \A j \in Item : row'[j] = (IF j = i THEN new ELSE row[j])
                         /\ latest'[j] = (IF j = i THEN d ELSE latest[j])
  BY <1>1, <1>2, <1>3, LibParts
<1>5. \A j \in Item : (Library!Saved(j)' <=> latest'[j] # Library!None) /\ (Library!Saved(j)
        => Library!Saved(j)')
  BY <1>1, <1>2, <1>4, LibStanding DEF Library!Saved
<1>6. AnswersTrue' /\ Recent'
  BY <1>1, <1>5, AnswersStay
<1>7. CallsTrue'
  BY <1>1, <1>5, LibParts, CallsStay
<1>8. DialogFits'
  BY <1>1, LibStanding DEF DialogFits, Library!DialogShowsItsBatch
<1>9. calls' \subseteq ChangeState
  BY <1>1, LibParts
<1>10. RowsWhole'
  BY <1>2, <1>4, LibStanding DEF RowsWhole
<1>11. QED
  BY <1>1, <1>4, <1>5, <1>6, <1>7, <1>8, <1>9, <1>10, LibParts, LibStanding, LibShape

\* Calls whose page is gone, or whose generation is over, are the same calls.
LEMMA Gone ==
  ASSUME LibInv, NEW ds, ds = Library!Unmounted \/ ds = {[c EXCEPT !.current = FALSE] : c \in calls}
  PROVE  /\ \A d \in ds : /\ d \in ChangeState
                          /\ ~d.mounted \/ ~d.current
                          /\ \E c \in calls :
                                /\ d.id = c.id /\ d.kind = c.kind /\ d.item = c.item
                                /\ d.phase = c.phase /\ d.answer = c.answer
         /\ \A d, e \in ds : d.id = e.id => d = e
<1>1. CASE ds = Library!Unmounted
  <2> DEFINE G(c) == [c EXCEPT !.mounted = FALSE]
  <2>1. \A c \in calls : /\ G(c) \in ChangeState /\ ~G(c).mounted
                        /\ G(c).id = c.id /\ G(c).kind = c.kind /\ G(c).item = c.item
                        /\ G(c).phase = c.phase /\ G(c).answer = c.answer
    BY LibParts DEF ChangeState
  <2>2. \A d \in ds : \E c \in calls : d = G(c)
    BY <1>1 DEF Library!Unmounted
  <2> HIDE DEF G
  <2>3. ASSUME NEW d \in ds, NEW e \in ds, d.id = e.id PROVE d = e
    <3>1. PICK x \in calls : d = G(x)
      BY <2>2
    <3>2. PICK y \in calls : e = G(y)
      BY <2>2
    <3>3. x.id = y.id
      BY <2>1, <2>3, <3>1, <3>2
    <3>4. QED
      BY <3>1, <3>2, <3>3, LibStanding
  <2>4. QED
    BY <2>1, <2>2, <2>3
<1>2. CASE ds = {[c EXCEPT !.current = FALSE] : c \in calls}
  <2> DEFINE G(c) == [c EXCEPT !.current = FALSE]
  <2>1. \A c \in calls : /\ G(c) \in ChangeState /\ ~G(c).current
                        /\ G(c).id = c.id /\ G(c).kind = c.kind /\ G(c).item = c.item
                        /\ G(c).phase = c.phase /\ G(c).answer = c.answer
    BY LibParts DEF ChangeState
  <2>2. \A d \in ds : \E c \in calls : d = G(c)
    BY <1>2 DEF Library!Unmounted
  <2> HIDE DEF G
  <2>3. ASSUME NEW d \in ds, NEW e \in ds, d.id = e.id PROVE d = e
    <3>1. PICK x \in calls : d = G(x)
      BY <2>2
    <3>2. PICK y \in calls : e = G(y)
      BY <2>2
    <3>3. x.id = y.id
      BY <2>1, <2>3, <3>1, <3>2
    <3>4. QED
      BY <3>1, <3>2, <3>3, LibStanding
  <2>4. QED
    BY <2>1, <2>2, <2>3
<1>3. QED
  BY <1>1, <1>2

\* A step of a page that asks nothing new: rows stay and calls at most go.
LEMMA PageStep ==
  ASSUME LibInv, UNCHANGED <<row, latest, cache, changes>>,
         fetch' \in [Library!Query -> FetchState], AnswersTrue', Recent',
         \/ calls' = calls /\ dialog' = dialog
         \/ calls' = calls /\ dialog' = [dialog EXCEPT !.open = TRUE]
         \/ calls' = Library!Unmounted /\ dialog' = dialog
         \/ calls' = Library!Unmounted /\ dialog' = Library!Closed
         \/ calls' = {[c EXCEPT !.current = FALSE] : c \in calls} /\ dialog' = Library!Closed,
         view' \in Library!Query \union {Library!Away}, dialog'.open => view' \in Library!Lists
  PROVE  LibInv'
<1>1. \A i \in Item : Library!Saved(i)' <=> Library!Saved(i)
  BY DEF Library!Saved
<1>2. /\ \A d \in calls' : /\ d \in ChangeState
                           /\ \E c \in calls :
                                 /\ d.id = c.id /\ d.kind = c.kind /\ d.item = c.item
                                 /\ d.phase = c.phase /\ d.answer = c.answer
      /\ \A d, e \in calls' : d.id = e.id => d = e
      /\ calls' # calls => \A d \in calls' : ~d.mounted \/ ~d.current
  BY Gone, LibParts, LibStanding
<1>3. CallsTrue'
  BY <1>1, <1>2, CallsStay
<1>4. /\ dialog' \in [open : BOOLEAN, batch : Nat, result : Nat]
      /\ dialog' # Library!Closed => dialog'.batch = dialog.batch
           /\ dialog'.result = dialog.result
                                     /\ (dialog.open => dialog'.open)
  <2> DEFINE opened == [dialog EXCEPT !.open = TRUE]
  <2>1. /\ opened \in [open : BOOLEAN, batch : Nat, result : Nat]
        /\ opened.open /\ opened.batch = dialog.batch /\ opened.result = dialog.result
    BY LibParts
  <2>2. dialog' = dialog \/ dialog' = opened \/ dialog' = Library!Closed
    OBVIOUS
  <2>3. Library!Closed \in [open : BOOLEAN, batch : Nat, result : Nat]
    BY DEF Library!Closed
  <2> HIDE DEF opened
  <2>4. QED
    BY <2>1, <2>2, <2>3, LibParts
<1>5. DialogFits'
  <2>1. dialog' = Library!Closed => dialog'.result = 0
    BY DEF Library!Closed
  <2>2. Library!DialogShowsItsBatch'
    BY <1>4, <2>1, LibStanding DEF DialogFits, Library!DialogShowsItsBatch
  <2>3. CASE calls' = calls
    <3>1. \/ dialog' = dialog
          \/ dialog' = [dialog EXCEPT !.open = TRUE]
          \/ \A d \in calls' : ~d.mounted \/ ~d.current
      BY <2>3, Gone
    <3>2. dialog' = dialog \/ dialog' = [dialog EXCEPT !.open = TRUE] =>
             dialog'.batch = dialog.batch /\ (dialog.open => dialog'.open)
      BY LibParts
    <3>3. QED
      BY <2>2, <2>3, <3>1, <3>2, LibStanding DEF DialogFits
  <2>4. CASE calls' # calls
    BY <1>2, <2>2, <2>4 DEF DialogFits
  <2>5. QED
    BY <2>3, <2>4
<1>6. (\A i \in Item : Library!Saved(i) <=> latest[i] # Library!None)'
  BY <1>1, LibStanding
<1>7. calls' \subseteq ChangeState
  BY <1>2
<1>r. RowsWhole'
  BY LibStanding DEF RowsWhole
<1>8. QED
  BY <1>r, <1>2, <1>3, <1>4, <1>5, <1>6, <1>7, LibParts, LibShape

\* A visit to a page keeps the invariant.
LEMMA VisitKeeps ==
  ASSUME LibInv, NEW q \in Library!Query, Library!Visit(q)
  PROVE  LibInv'
<1>1. /\ fetch' = fetch \/ fetch' = [fetch EXCEPT ![q] = Library!Reading]
      /\ view' = q /\ ~dialog.open
      /\ calls' = calls \/ calls' = Library!Unmounted
      /\ UNCHANGED <<row, latest, cache, dialog, changes>>
  BY DEF Library!Visit
<1>2. \A i \in Item : Library!Reading.rows[i] # Library!Absent => Library!Saved(i)
  BY ReadingFits DEF Library!Saved
<1>3. \A i \in Item : Library!Saved(i) => Library!Saved(i)'
  BY <1>1 DEF Library!Saved
<1>4. fetch' \in [Library!Query -> FetchState] /\ AnswersTrue' /\ Recent'
  <2>1. CASE fetch' = fetch
    BY <1>1, <1>3, <2>1, LibParts, AnswersStay
  <2>2. CASE fetch' = [fetch EXCEPT ![q] = Library!Reading]
    BY <1>1, <1>2, <2>2, ReadingFits, FetchChanges
  <2>3. QED
    BY <1>1, <2>1, <2>2
<1>5. QED
  BY <1>1, <1>4, PageStep

\* Leaving a page, and opening or closing the dialog, keep the invariant.
LEMMA DialogSteps ==
  ASSUME LibInv, Library!Leave \/ Library!OpenDialog \/ Library!CloseDialog
  PROVE  LibInv'
<1>1. UNCHANGED <<row, latest, cache, fetch, changes>>
  BY DEF Library!Leave, Library!OpenDialog, Library!CloseDialog
<1>2. \A i \in Item : Library!Saved(i) => Library!Saved(i)'
  BY <1>1 DEF Library!Saved
<1>3. fetch' \in [Library!Query -> FetchState] /\ AnswersTrue' /\ Recent'
  BY <1>1, <1>2, LibParts, AnswersStay
<1>4. \/ calls' = calls /\ dialog' = [dialog EXCEPT !.open = TRUE]
      \/ calls' = Library!Unmounted /\ dialog' = Library!Closed
      \/ calls' = {[c EXCEPT !.current = FALSE] : c \in calls} /\ dialog' = Library!Closed
  BY DEF Library!Leave, Library!OpenDialog, Library!CloseDialog
<1>5. view' \in Library!Query \union {Library!Away} /\ (dialog'.open => view' \in Library!Lists)
  BY LibParts DEF Library!Leave, Library!OpenDialog, Library!CloseDialog, Library!Closed
<1>6. QED
  BY <1>1, <1>3, <1>4, <1>5, PageStep

\* A change is asked for.
LEMMA CallAdded ==
  ASSUME LibInv, NEW i \in Item, NEW kind \in Kinds, kind # "batch" => Library!Saved(i),
         calls' = calls \union {Library!Call(kind, i)}, changes' = changes + 1,
         \/ kind # "batch" /\ dialog' = dialog
         \/ /\ kind = "batch" /\ dialog.open /\ dialog.batch = 0
            /\ dialog' = [dialog EXCEPT !.batch = changes + 1],
         UNCHANGED <<row, latest, cache, fetch, view>>
  PROVE  LibInv'
<1> DEFINE new == Library!Call(kind, i)
<1>1. Library!NoAnswer \in AnswerState /\ Library!NoAnswer.shows = {}
  BY DEF Library!NoAnswer, AnswerState
<1>2. /\ new \in ChangeState /\ new.id = changes + 1 /\ new.kind = kind /\ new.item = i
      /\ new.phase = "sent" /\ new.answer = Library!NoAnswer
  BY <1>1, LibParts DEF Library!Call, ChangeState
<1> HIDE DEF new
<1>3. \A j : Library!Saved(j)' <=> Library!Saved(j)
  BY DEF Library!Saved
<1>4. \A p, answer : True(p, answer)' <=> True(p, answer)
  BY <1>3 DEF True
<1>5. True(<<"item", i>>, Library!NoAnswer)
  BY <1>1 DEF True
<1>6. \A c \in calls : c.id \in 1..changes
  BY LibStanding DEF CallsTrue
<1>7. CallsTrue'
  <2>1. ASSUME NEW c \in calls'
        PROVE  /\ c.kind # "batch" \/ c.phase = "saved" => Library!Saved(c.item)'
               /\ True(<<"item", c.item>>, c.answer)'
               /\ c.id \in 1..changes'
    <3>1. CASE c = new
      BY <1>2, <1>3, <1>4, <1>5, <3>1, LibParts
    <3>2. CASE c \in calls
      BY <1>3, <1>4, <3>2, LibStanding, LibParts DEF CallsTrue
    <3>3. QED
      BY <3>1, <3>2 DEF new
  <2>2. QED
    BY <2>1 DEF CallsTrue
<1>8. \A c, d \in calls' : c.id = d.id => c = d
  BY <1>2, <1>6, LibParts, LibStanding DEF new
<1>9. /\ dialog' \in [open : BOOLEAN, batch : Nat, result : Nat]
      /\ dialog'.open = dialog.open /\ dialog'.result = dialog.result
      /\ kind = "batch" => dialog.open /\ dialog.batch = 0 /\ dialog'.batch = changes + 1
      /\ kind # "batch" => dialog'.batch = dialog.batch
  BY LibParts
<1>10. DialogFits'
  <2>1. kind = "batch" => dialog.result = 0
    BY <1>9, LibStanding DEF DialogFits, Library!DialogShowsItsBatch
  <2>2. Library!DialogShowsItsBatch'
    BY <1>9, <2>1, LibStanding DEF DialogFits, Library!DialogShowsItsBatch
  <2>3. ASSUME NEW c \in calls', c.kind = "batch", c.current, c.mounted
        PROVE  dialog'.open /\ dialog'.batch = c.id
    <3>1. CASE c = new
      BY <1>2, <1>9, <2>3, <3>1
    <3>2. CASE c \in calls
      <4>1. dialog.open /\ dialog.batch = c.id /\ c.id \in 1..changes
        BY <1>6, <2>3, <3>2, LibStanding DEF DialogFits
      <4>2. QED
        BY <1>9, <4>1
    <3>3. QED
      BY <3>1, <3>2 DEF new
  <2>4. QED
    BY <2>2, <2>3 DEF DialogFits
<1>11. AnswersTrue' /\ Recent'
  BY <1>3, AnswersStay
<1>12. (\A j \in Item : Library!Saved(j) <=> latest[j] # Library!None)'
  BY <1>3, LibStanding
<1>13. calls' \subseteq ChangeState /\ changes' \in Nat
  BY <1>2, LibParts DEF new
<1>14. dialog'.open => view' \in Library!Lists
  BY <1>9, LibStanding
<1>r. RowsWhole'
  BY LibStanding DEF RowsWhole
<1>15. QED
  BY <1>r, <1>7, <1>8, <1>9, <1>10, <1>11, <1>12, <1>13, <1>14, LibParts, LibShape

\* A batch that is submitted is of this opening of the dialog.
LEMMA SubmitKeeps ==
  ASSUME LibInv, NEW i \in Item, Library!Submit(i)
  PROVE  LibInv'
<1>1. "batch" \in Kinds
  BY DEF Kinds
<1>2. QED
  BY <1>1, CallAdded DEF Library!Submit

\* A change that is asked for keeps the invariant.
LEMMA AskKeeps ==
  ASSUME LibInv, NEW i \in Item, NEW kind \in {"retry", "archive", "restore"}, Library!Ask(i, kind)
  PROVE  LibInv'
<1>1. kind \in Kinds /\ kind # "batch"
  BY DEF Kinds
<1>2. view = <<"item", i>> /\ view \in Library!Details /\ view \in Library!Query /\ view[2] = i
  BY DEF Library!Ask, Library!Details, Library!Query
<1>3. PICK s \in cache[view].answer.shows : TRUE
  BY DEF Library!Ask
<1>4. Library!Saved(i)
  BY <1>2, <1>3, LibStanding DEF AnswersTrue, True
<1>5. QED
  BY <1>1, <1>4, CallAdded DEF Library!Ask

\* A call goes on.
LEMMA CallChanges ==
  ASSUME LibInv, NEW c \in calls, NEW d \in ChangeState, Library!Becomes(c, d),
         d.id = c.id, d.kind = c.kind, d.item = c.item,
         d.current = c.current, d.mounted = c.mounted,
         d.phase = "saved" => Library!Saved(d.item)',
         True(<<"item", d.item>>, d.answer)',
         \A i \in Item : Library!Saved(i) => Library!Saved(i)',
         UNCHANGED <<dialog, changes>>
  PROVE  /\ calls' \subseteq ChangeState
         /\ \A x, y \in calls' : x.id = y.id => x = y
         /\ CallsTrue' /\ DialogFits'
<1>1. calls' = (calls \ {c}) \union {d} /\ calls' \subseteq ChangeState
  BY LibParts DEF Library!Becomes
<1>2. \A x, y \in calls' : x.id = y.id => x = y
  BY <1>1, LibStanding
<1>3. ASSUME NEW x \in calls'
      PROVE  /\ x.kind # "batch" \/ x.phase = "saved" => Library!Saved(x.item)'
             /\ True(<<"item", x.item>>, x.answer)'
             /\ x.id \in 1..changes'
  <2>1. CASE x = d
    <3>1. d.item \in Item /\ (c.kind # "batch" => Library!Saved(c.item)) /\ c.id \in 1..changes
      BY LibStanding DEF CallsTrue, ChangeState
    <3>2. QED
      BY <2>1, <3>1
  <2>2. CASE x \in calls
    <3>1. x.item \in Item /\ x.answer \in AnswerState
      BY <2>2, LibParts DEF ChangeState
    <3>2. /\ x.kind # "batch" \/ x.phase = "saved" => Library!Saved(x.item)
          /\ True(<<"item", x.item>>, x.answer)
          /\ x.id \in 1..changes
      BY <2>2, LibStanding DEF CallsTrue
    <3>3. True(<<"item", x.item>>, x.answer)'
      BY <3>1, <3>2, TrueStays
    <3>4. QED
      BY <3>1, <3>2, <3>3
  <2>3. QED
    BY <1>1, <2>1, <2>2
<1>4. CallsTrue'
  BY <1>3 DEF CallsTrue
<1>5. DialogFits'
  BY <1>1, LibStanding DEF DialogFits, Library!DialogShowsItsBatch
<1>6. QED
  BY <1>1, <1>2, <1>4, <1>5

\* The server's step of a call that changes its item's row or attempt.
LEMMA ServerStep ==
  ASSUME LibInv, NEW c \in calls, NEW d \in ChangeState, Library!Becomes(c, d),
         d.id = c.id, d.kind = c.kind, d.item = c.item,
         d.current = c.current, d.mounted = c.mounted,
         NEW r \in RowState, NEW a \in LastAttempt,
         row' = [row EXCEPT ![c.item] = r], latest' = [latest EXCEPT ![c.item] = a],
         r.state # Library!None, a # Library!None,
         \A s \in d.answer.shows : s[1] = c.item,
         UNCHANGED <<cache, fetch, view, dialog, changes>>
  PROVE  LibInv'
<1>1. c.item \in Item
  BY LibParts DEF ChangeState
<1>2. /\ row' \in [Item -> RowState] /\ latest' \in [Item -> LastAttempt]
      /\ \A j \in Item : row'[j] = (IF j = c.item THEN r ELSE row[j])
                         /\ latest'[j] = (IF j = c.item THEN a ELSE latest[j])
  BY <1>1, LibParts
<1>2a. r # Library!Absent
  BY DEF Library!Absent
<1>3. \A j \in Item : (Library!Saved(j)' <=> latest'[j] # Library!None) /\ (Library!Saved(j)
        => Library!Saved(j)')
  BY <1>2, <1>2a, LibStanding DEF Library!Saved
<1>4. Library!Saved(c.item)'
  BY <1>1, <1>2, <1>2a DEF Library!Saved
<1>4a. RowsWhole'
  BY <1>2, LibStanding DEF RowsWhole
<1>5. True(<<"item", d.item>>, d.answer)'
  BY <1>4 DEF True
<1>6. /\ calls' \subseteq ChangeState
      /\ \A x, y \in calls' : x.id = y.id => x = y
      /\ CallsTrue' /\ DialogFits'
  BY <1>3, <1>4, <1>5, CallChanges
<1>7. AnswersTrue' /\ Recent'
  BY <1>3, AnswersStay
<1>8. QED
  BY <1>2, <1>3, <1>4a, <1>6, <1>7, LibParts, LibStanding, LibShape

\* The server's step of a call that changes nothing.
LEMMA IdleServerStep ==
  ASSUME LibInv, NEW c \in calls, NEW d \in ChangeState, Library!Becomes(c, d),
         d.id = c.id, d.kind = c.kind, d.item = c.item, d.answer = c.answer,
         d.current = c.current, d.mounted = c.mounted, d.phase = "answered",
         UNCHANGED <<row, latest, cache, fetch, view, dialog, changes>>
  PROVE  LibInv'
<1>1. \A j : Library!Saved(j)' <=> Library!Saved(j)
  BY DEF Library!Saved
<1>2. True(<<"item", d.item>>, d.answer)'
  BY <1>1, LibStanding DEF True, CallsTrue
<1>3. /\ calls' \subseteq ChangeState
      /\ \A x, y \in calls' : x.id = y.id => x = y
      /\ CallsTrue' /\ DialogFits'
  BY <1>1, <1>2, CallChanges
<1>4. AnswersTrue' /\ Recent'
  BY <1>1, AnswersStay
<1>r. RowsWhole'
  BY LibStanding DEF RowsWhole
<1>5. QED
  BY <1>r, <1>1, <1>3, <1>4, LibParts, LibStanding, LibShape

\* A call as its steps change it.
LEMMA CallBecomes ==
  ASSUME NEW c \in ChangeState, NEW p \in {"sent", "saved", "answered"}, NEW l \in Lifecycles
  PROVE  /\ LET d == [c EXCEPT !.phase = p]
            IN  /\ d \in ChangeState /\ d.id = c.id /\ d.kind = c.kind /\ d.item = c.item
                /\ d.current = c.current /\ d.mounted = c.mounted /\ d.answer = c.answer
                /\ d.phase = p
         /\ LET d == [c EXCEPT !.phase = "answered", !.ok = FALSE]
            IN  /\ d \in ChangeState /\ d.id = c.id /\ d.kind = c.kind /\ d.item = c.item
                /\ d.current = c.current /\ d.mounted = c.mounted /\ d.answer = c.answer
                /\ d.phase = "answered"
         /\ LET d == Library!Answered(c, l)
            IN  /\ d \in ChangeState /\ d.id = c.id /\ d.kind = c.kind /\ d.item = c.item
                /\ d.current = c.current /\ d.mounted = c.mounted
                /\ d.phase = "answered" /\ \A s \in d.answer.shows : s[1] = c.item
<1> DEFINE a == [shows |-> {<<c.item, l>>}, missing |-> FALSE]
<1>1. a \in AnswerState /\ \A s \in a.shows : s[1] = c.item
  BY DEF AnswerState, ChangeState
<1>2. Library!Answered(c, l) = [c EXCEPT !.phase = "answered", !.answer = a]
  BY DEF Library!Answered
<1> HIDE DEF a
<1>3. LET d == [c EXCEPT !.phase = "answered", !.answer = a]
      IN  /\ d \in ChangeState /\ d.id = c.id /\ d.kind = c.kind /\ d.item = c.item
          /\ d.current = c.current /\ d.mounted = c.mounted
          /\ d.phase = "answered" /\ d.answer = a
  BY <1>1 DEF ChangeState
<1>4. LET d == [c EXCEPT !.phase = p]
      IN  /\ d \in ChangeState /\ d.id = c.id /\ d.kind = c.kind /\ d.item = c.item
          /\ d.current = c.current /\ d.mounted = c.mounted /\ d.answer = c.answer
          /\ d.phase = p
  BY DEF ChangeState
<1>5. LET d == [c EXCEPT !.phase = "answered", !.ok = FALSE]
      IN  /\ d \in ChangeState /\ d.id = c.id /\ d.kind = c.kind /\ d.item = c.item
          /\ d.current = c.current /\ d.mounted = c.mounted /\ d.answer = c.answer
          /\ d.phase = "answered"
  BY DEF ChangeState
<1>6. QED
  BY <1>1, <1>2, <1>3, <1>4, <1>5

\* A submission or a retry that is decided keeps the invariant.
LEMMA AdmitKeeps ==
  ASSUME LibInv, NEW c \in calls, Library!Admit(c)
  PROVE  LibInv'
<1>1. c \in ChangeState /\ UNCHANGED <<cache, fetch, view, dialog, changes>>
  BY LibParts DEF Library!Admit
<1>2. CASE Library!Admits(c)
  <2> DEFINE d == [c EXCEPT !.phase = "saved"]
             r == [state |-> "pending", archived |-> FALSE]
  <2>1. /\ d \in ChangeState /\ d.id = c.id /\ d.kind = c.kind /\ d.item = c.item
        /\ d.current = c.current /\ d.mounted = c.mounted /\ d.answer = c.answer
    BY <1>1 DEF ChangeState
  <2>2. /\ row' = [row EXCEPT ![c.item] = r] /\ latest' = [latest EXCEPT ![c.item] = "pending"]
        /\ Library!Becomes(c, d)
    BY <1>2 DEF Library!Admit
  <2>3. r \in RowState /\ r.state # Library!None /\ "pending" \in LastAttempt
          /\ "pending" # Library!None
    BY DEF RowState, LastAttempt, Library!Active, Library!None
  <2>4. \A s \in d.answer.shows : s[1] = c.item
    <3>1. c.item \in Item /\ <<"item", c.item>> \in Library!Details
      BY <1>1 DEF ChangeState, Library!Details
    <3>2. True(<<"item", c.item>>, c.answer)
      BY LibStanding DEF CallsTrue
    <3>3. QED
      BY <2>1, <3>1, <3>2 DEF True
  <2> HIDE DEF d, r
  <2>5. QED
    BY <1>1, <2>1, <2>2, <2>3, <2>4, ServerStep
<1>3. CASE ~Library!Admits(c)
  <2>1. UNCHANGED <<row, latest>>
    BY <1>3 DEF Library!Admit, Library!server
  <2>2. \/ Library!Becomes(c, [c EXCEPT !.phase = "answered"])
        \/ Library!Becomes(c, [c EXCEPT !.phase = "answered", !.ok = FALSE])
    BY <1>3 DEF Library!Admit, Library!Refused
  <2> DEFINE d == [c EXCEPT !.phase = "answered"]
             e == [c EXCEPT !.phase = "answered", !.ok = FALSE]
  <2>3. /\ d \in ChangeState /\ d.id = c.id /\ d.kind = c.kind /\ d.item = c.item
        /\ d.current = c.current /\ d.mounted = c.mounted /\ d.answer = c.answer
        /\ d.phase = "answered"
    BY <1>1 DEF ChangeState
  <2>4. /\ e \in ChangeState /\ e.id = c.id /\ e.kind = c.kind /\ e.item = c.item
        /\ e.current = c.current /\ e.mounted = c.mounted /\ e.answer = c.answer
        /\ e.phase = "answered"
    BY <1>1 DEF ChangeState
  <2> HIDE DEF d, e
  <2>5. Library!Becomes(c, d) \/ Library!Becomes(c, e)
    BY <2>2 DEF d, e
  <2>6. QED
    BY <1>1, <2>1, <2>3, <2>4, <2>5, IdleServerStep
<1>4. QED
  BY <1>2, <1>3

\* The row of a call whose item is saved.
LEMMA SavedRow ==
  ASSUME LibInv, NEW c \in calls, c.kind # "batch" \/ c.phase = "saved"
  PROVE  /\ c \in ChangeState /\ c.item \in Item
         /\ row[c.item] \in RowState /\ row[c.item].state # Library!None
         /\ latest[c.item] \in LastAttempt /\ latest[c.item] # Library!None
BY LibStanding, LibParts DEF CallsTrue, ChangeState, Library!Saved, RowsWhole

\* The publication of an attempt keeps the invariant.
LEMMA PublishKeeps ==
  ASSUME LibInv, NEW c \in calls, Library!Publish(c)
  PROVE  LibInv'
<1>1. /\ c \in ChangeState /\ c.item \in Item
      /\ row[c.item] \in RowState /\ row[c.item].state # Library!None
      /\ latest[c.item] \in LastAttempt /\ latest[c.item] # Library!None
      /\ UNCHANGED <<cache, fetch, view, dialog, changes>>
      /\ Library!Becomes(c, Library!Answered(c, Library!Lifecycle(row'[c.item], latest'[c.item])))
  BY SavedRow DEF Library!Publish
<1>2. PICK r \in RowState, a \in LastAttempt :
        /\ r.state # Library!None /\ a # Library!None
        /\ row' = [row EXCEPT ![c.item] = r] /\ latest' = [latest EXCEPT ![c.item] = a]
  <2> DEFINE failed == [row[c.item] EXCEPT !.state = "failed"]
  <2>1. failed \in RowState /\ failed.state # Library!None
    BY <1>1 DEF RowState, Library!None
  <2>2. PICK ok \in BOOLEAN :
          /\ latest' = [latest EXCEPT ![c.item] = IF ok THEN "enqueued" ELSE "failed"]
          /\ row' = IF ok THEN row ELSE [row EXCEPT ![c.item].state = "failed"]
    BY DEF Library!Publish
  <2>3. "enqueued" \in LastAttempt \ {Library!None} /\ "failed" \in LastAttempt \ {Library!None}
    BY DEF LastAttempt, Library!Active, Library!None
  <2>4. CASE ok
    <3>1. row' = [row EXCEPT ![c.item] = row[c.item]]
      BY <2>2, <2>4, LibParts
    <3>2. QED
      BY <1>1, <2>2, <2>3, <2>4, <3>1
  <2>5. CASE ~ok
    <3>1. row' = [row EXCEPT ![c.item] = failed]
      BY <2>2, <2>5
    <3> HIDE DEF failed
    <3>2. QED
      BY <2>1, <2>2, <2>3, <2>5, <3>1
  <2>6. QED
    BY <2>4, <2>5
<1>3. row'[c.item] = r /\ latest'[c.item] = a
  BY <1>1, <1>2, LibParts
<1> DEFINE l == Library!Lifecycle(row'[c.item], latest'[c.item])
<1>4. l \in Lifecycles
  BY <1>2, <1>3, LifecycleTyped
<1> HIDE DEF l
<1> DEFINE d == Library!Answered(c, l)
<1>5. /\ d \in ChangeState /\ d.id = c.id /\ d.kind = c.kind /\ d.item = c.item
      /\ d.current = c.current /\ d.mounted = c.mounted
      /\ \A s \in d.answer.shows : s[1] = c.item
  BY <1>1, <1>4, CallBecomes
<1>6. Library!Becomes(c, d)
  BY <1>1 DEF l
<1> HIDE DEF d
<1>7. QED
  BY <1>1, <1>2, <1>5, <1>6, ServerStep

\* An archiving or a restoring keeps the invariant.
LEMMA ShelveKeeps ==
  ASSUME LibInv, NEW c \in calls, Library!Shelve(c)
  PROVE  LibInv'
<1>1. /\ c \in ChangeState /\ c.item \in Item
      /\ row[c.item] \in RowState /\ row[c.item].state # Library!None
      /\ latest[c.item] \in LastAttempt /\ latest[c.item] # Library!None
      /\ UNCHANGED <<latest, cache, fetch, view, dialog, changes>>
      /\ Library!Becomes(c, Library!Answered(c, Library!Lifecycle(row'[c.item], latest[c.item])))
  BY SavedRow DEF Library!Shelve
<1> DEFINE b == c.kind = "archive"
           r == [row[c.item] EXCEPT !.archived = b]
<1>2. r.state # Library!None /\ r \in RowState
  BY <1>1 DEF RowState
<1>3. row' = [row EXCEPT ![c.item] = r]
  BY DEF Library!Shelve
<1> HIDE DEF r
<1>5. latest' = [latest EXCEPT ![c.item] = latest[c.item]] /\ row'[c.item] = r
  BY <1>1, <1>2, <1>3, LibParts
<1> DEFINE l == Library!Lifecycle(row'[c.item], latest[c.item])
<1>6. l \in Lifecycles
  BY <1>1, <1>2, <1>5, LifecycleTyped
<1> HIDE DEF l
<1> DEFINE d == Library!Answered(c, l)
<1>7. /\ d \in ChangeState /\ d.id = c.id /\ d.kind = c.kind /\ d.item = c.item
      /\ d.current = c.current /\ d.mounted = c.mounted
      /\ \A s \in d.answer.shows : s[1] = c.item
  BY <1>1, <1>6, CallBecomes
<1>8. Library!Becomes(c, d)
  BY <1>1 DEF l
<1> HIDE DEF d
<1>9. QED
  BY <1>1, <1>2, <1>3, <1>5, <1>7, <1>8, ServerStep

\* The lists are marked and the observed one is read anew, or waits for its first
\* answer.
LEMMA InvalidateKeeps ==
  ASSUME LibInv, NEW c \in [Library!Query -> CacheState], Library!Invalidate(c), UNCHANGED row,
         \A q \in Library!Query : True(q, c[q].answer) /\ (c[q].old => c[q].stale)
  PROVE  /\ cache' \in [Library!Query -> CacheState] /\ fetch' \in [Library!Query -> FetchState]
         /\ AnswersTrue' /\ Recent'
<1> DEFINE Old(q) == c[q].old \/ (q = view /\ Library!Held(c, q))
           Mark(q) == Library!Entry(c[q].answer, TRUE, Old(q))
<1>1. \A q \in Library!Query : c[q] \in CacheState /\ Old(q) \in BOOLEAN
  BY DEF CacheState
<1> HIDE DEF Old
<1>2. \A q \in Library!Query : /\ Mark(q) \in CacheState /\ Mark(q).answer = c[q].answer
                               /\ Mark(q).stale
  BY <1>1 DEF Library!Entry, CacheState
<1>3. cache' = [q \in Library!Query |-> IF q \in Library!Lists THEN Mark(q) ELSE c[q]]
  BY DEF Library!Invalidate, Old
<1> HIDE DEF Mark
<1>4. /\ cache' \in [Library!Query -> CacheState]
      /\ \A q \in Library!Query : /\ cache'[q].answer = c[q].answer
                                  /\ cache'[q].old => cache'[q].stale
  BY <1>1, <1>2, <1>3
<1>5. /\ fetch' \in [Library!Query -> FetchState]
      /\ \A q \in Library!Query : fetch'[q] = fetch[q] \/ fetch'[q] = Library!Reading
  BY LibParts, ReadingFits DEF Library!Invalidate, Library!Reread
<1>6. \A i : Library!Saved(i)' <=> Library!Saved(i)
  BY DEF Library!Saved
<1>7. \A p, answer : True(p, answer)' <=> True(p, answer)
  BY <1>6 DEF True
<1>8. \A i \in Item : Library!Reading.rows[i] # Library!Absent => Library!Saved(i)
  BY ReadingFits DEF Library!Saved
<1>9. /\ Library!Reading.phase = "rows" /\ ~Library!Reading.old
           /\ Library!Reading.phase # Library!None
      /\ AnswersTrue /\ Recent
  BY ReadingFits, LibStanding DEF Library!None
<1>10. ASSUME NEW q \in Library!Query
       PROVE  /\ (True(q, cache[q].answer))'
              /\ (fetch[q].phase = "rows" => \A i \in Item : fetch[q].rows[i] # Library!Absent
                   => Library!Saved(i))'
              /\ (fetch[q].phase = "answered" => True(q, fetch[q].answer))'
              /\ (fetch[q].phase # Library!None => ~fetch[q].old)'
              /\ (cache[q].old => cache[q].stale)'
  <2>1. cache'[q].answer = c[q].answer /\ (cache'[q].old => cache'[q].stale)
    BY <1>4, Zenon
  <2>2. True(q, c[q].answer)
    OBVIOUS
  <2>3. CASE fetch'[q] = Library!Reading
    BY <1>6, <1>7, <1>8, <1>9, <2>1, <2>2, <2>3 DEF Library!None, Library!Absent
  <2>4. CASE fetch'[q] = fetch[q]
    <3>1. /\ fetch[q].phase = "rows" => \A i \in Item : fetch[q].rows[i] # Library!Absent
               => Library!Saved(i)
          /\ fetch[q].phase = "answered" => True(q, fetch[q].answer)
          /\ fetch[q].phase # Library!None => ~fetch[q].old
      BY <1>9 DEF AnswersTrue, Recent
    <3>2. QED
      BY <1>6, <1>7, <2>1, <2>2, <2>4, <3>1 DEF Library!None, Library!Absent
  <2>5. QED
    BY <1>5, <2>3, <2>4
<1>11. AnswersTrue' /\ Recent'
  BY <1>10 DEF AnswersTrue, Recent, Library!Query, Library!Lists, Library!Details
<1>12. QED
  BY <1>4, <1>5, <1>11

\* The answer to a change keeps the invariant.
LEMMA TakeAnswerKeeps ==
  ASSUME LibInv, NEW c \in calls, Library!TakeAnswer(c) \/ Library!TakeBatch(c)
  PROVE  LibInv'
<1>1. /\ c \in ChangeState /\ c.item \in Item /\ c.answer \in AnswerState
      /\ calls' = calls \ {c} /\ UNCHANGED <<row, latest, view, changes>>
      /\ Library!TakeAnswer(c) => dialog' = dialog /\ c.kind # "batch"
  BY LibParts DEF Library!TakeAnswer, Library!TakeBatch, ChangeState
<1>2. \A i \in Item : Library!Saved(i)' <=> Library!Saved(i)
  BY <1>1 DEF Library!Saved
<1>3. /\ cache' \in [Library!Query -> CacheState] /\ fetch' \in [Library!Query -> FetchState]
      /\ AnswersTrue' /\ Recent'
  <2>1. CASE UNCHANGED <<cache, fetch>>
    BY <1>2, <2>1, LibParts, AnswersStay
  <2>2. CASE Library!Invalidate(cache)
    <3>1. \A q \in Library!Query : True(q, cache[q].answer) /\ (cache[q].old => cache[q].stale)
      BY LibStanding DEF AnswersTrue, Recent
    <3>2. QED
      BY <1>1, <2>2, <3>1, LibParts, InvalidateKeeps
  <2>3. CASE Library!Invalidate([cache EXCEPT ![<<"item", c.item>>]
               = Library!Entry(c.answer, FALSE, FALSE)])
    <3> DEFINE new == Library!Entry(c.answer, FALSE, FALSE)
               p == <<"item", c.item>>
               m == [cache EXCEPT ![p] = new]
    <3>1. new \in CacheState /\ new.answer = c.answer /\ ~new.old
      BY <1>1 DEF Library!Entry, CacheState
    <3>2. p \in Library!Query /\ True(p, c.answer)
      BY <1>1, LibStanding DEF CallsTrue, Library!Query, Library!Details
    <3> HIDE DEF new, p
    <3>3. /\ m \in [Library!Query -> CacheState]
          /\ \A q \in Library!Query : m[q] = IF q = p THEN new ELSE cache[q]
      BY <3>1, <3>2, LibParts
    <3>4. \A q \in Library!Query : True(q, m[q].answer) /\ (m[q].old => m[q].stale)
      BY <3>1, <3>2, <3>3, LibStanding DEF AnswersTrue, Recent
    <3>5. Library!Invalidate(m)
      BY <2>3 DEF new, p
    <3> HIDE DEF m
    <3>6. QED
      BY <1>1, <3>3, <3>4, <3>5, InvalidateKeeps
  <2>4. QED
    BY <2>1, <2>2, <2>3 DEF Library!TakeAnswer, Library!TakeBatch
<1>4. CallsTrue'
  BY <1>1, <1>2, LibParts, CallsStay
<1>5. /\ dialog' \in [open : BOOLEAN, batch : Nat, result : Nat]
      /\ dialog'.open = dialog.open /\ dialog'.batch = dialog.batch
      /\ \/ dialog'.result = dialog.result
         \/ c.current /\ c.mounted /\ c.kind = "batch" /\ dialog'.result = c.id
  <2> DEFINE d == [dialog EXCEPT !.result = c.id]
  <2>1. /\ d \in [open : BOOLEAN, batch : Nat, result : Nat]
        /\ d.open = dialog.open /\ d.batch = dialog.batch /\ d.result = c.id
    BY <1>1, LibParts DEF ChangeState
  <2>2. dialog' = dialog \/ (dialog' = d /\ c.current /\ c.mounted /\ c.kind = "batch")
    BY DEF Library!TakeAnswer, Library!TakeBatch, Library!Current
  <2> HIDE DEF d
  <2>3. QED
    BY <2>1, <2>2, LibParts
<1>6. DialogFits'
  BY <1>1, <1>5, LibStanding DEF DialogFits, Library!DialogShowsItsBatch
<1>7. (\A i \in Item : Library!Saved(i) <=> latest[i] # Library!None)'
  BY <1>1, <1>2, LibStanding
<1>8. RowsWhole'
  BY <1>1, LibStanding DEF RowsWhole
<1>9. calls' \subseteq ChangeState /\ \A x, y \in calls' : x.id = y.id => x = y
  BY <1>1, LibParts, LibStanding
<1>10. dialog'.open => view' \in Library!Lists
  BY <1>1, <1>5, LibStanding
<1>11. QED
  BY <1>1, <1>3, <1>4, <1>5, <1>6, <1>7, <1>8, <1>9, <1>10, LibParts, LibShape

\* Every step keeps the invariant.
LEMMA LibStep == ASSUME LibInv, [Library!Next]_(Library!vars) PROVE LibInv'
<1>1. CASE UNCHANGED Library!vars
  <2>1. UNCHANGED <<row, latest, cache, fetch, view, calls, dialog, changes>>
    BY <1>1 DEF Library!vars
  <2>2. \A i \in Item : Library!Saved(i) => Library!Saved(i)'
    BY <2>1 DEF Library!Saved
  <2>3. AnswersTrue' /\ Recent'
    BY <2>1, <2>2, AnswersStay
  <2>4. QED
    BY <2>1, <2>3, LibParts, ReadStep
<1>2. CASE \E i \in Item : Library!Claim(i) \/ Library!Finish(i) \/ Library!Submit(i)
  BY <1>2, WorkerSteps, SubmitKeeps
<1>3. CASE \E q \in Library!Query : Library!ReadAttempts(q) \/ Library!Arrive(q)
        \/ Library!Lose(q) \/ Library!Poll(q) \/ Library!Visit(q)
  BY <1>3, ReadAttemptsKeeps, ArriveKeeps, LoseAndPollKeep, VisitKeeps
<1>4. CASE Library!Leave \/ Library!OpenDialog \/ Library!CloseDialog
  BY <1>4, DialogSteps
<1>5. CASE \E i \in Item, kind \in {"retry", "archive", "restore"} : Library!Ask(i, kind)
  BY <1>5, AskKeeps
<1>6. CASE \E c \in calls : Library!Admit(c) \/ Library!Publish(c) \/ Library!Shelve(c)
        \/ Library!TakeAnswer(c) \/ Library!TakeBatch(c)
  BY <1>6, AdmitKeeps, PublishKeeps, ShelveKeeps, TakeAnswerKeeps
<1>7. QED
  BY <1>1, <1>2, <1>3, <1>4, <1>5, <1>6 DEF Library!Next

\* The invariant holds for every set of videos and lists, and every number of changes
\* and lost reads.
THEOREM LibInvariance == Library!Spec => []LibInv
<1>1. Library!Init => LibInv
  BY LibStarts
<1>2. LibInv /\ [Library!Next]_(Library!vars) => LibInv'
  BY LibStep
<1>3. QED
  BY <1>1, <1>2, PTL DEF Library!Spec

\* However answers, changes and pages interleave, a list that shows an answer while
\* it is refreshed is marked until a later one arrives, and the dialog shows its
\* own batch (LibraryPage.tsx 57-62 and 329, AddVideosDialog.tsx 62-82 and 152-163).
THEOREM KeepUp == Library!Spec => []PagesKeepUp
<1>1. LibInv => PagesKeepUp
  BY LibStanding DEF Recent, Library!RefreshedListIsRecent, DialogFits, Library!Query, PagesKeepUp
<1>2. QED
  BY <1>1, LibInvariance, PTL

--------------------------------------------------------------------------------
(* Both adapters *)

\* Whatever the page does while the adapters read it: once a response names a video,
\* fetched cues and the report of none are of the video on the page. A part of the
\* captions is taken only where no playlist could be read, and reported beside the
\* whole only if the whole is over the limits or says less of the video. A video of
\* frames without captions has none, but for frames that threw or had too much.
THEOREM CapturesTrue ==
  ASSUME FrameBounds, YouTube!YouTubeBounds
  PROVE  Spec /\ YouTube!Spec => CapturesAreTrue
<1>1. Spec => [](PartIsNotTaken /\ NoCaptionIsTrue /\ WholeWins)
  <2>1. FrameInv => PartIsNotTaken /\ NoCaptionIsTrue /\ WholeWins
    BY FrameInvMeans
  <2>2. QED
    BY <2>1, FrameInvariance, PTL
<1>2. TubeInv => YouTube!CaptionsOfThatVideo /\ YouTube!NoCaptionIsTrue
  BY DEF TubeInv, Fits, YouTube!CaptionsOfThatVideo, YouTube!NoCaptionIsTrue
<1>3. TubeInv /\ [YouTube!Next]_(YouTube!vars) =>
        [reader.result.status # "captured" /\ reader'.result.status = "captured"
         => page.at = reader'.id]_(YouTube!vars)
  BY TubeNext
<1>4. YouTube!Spec => [][YouTube!Next]_(YouTube!vars)
  BY PTL DEF YouTube!Spec
<1>5. YouTube!Spec => YouTube!SavedIsOnScreen
  BY <1>3, <1>4, TubeInvariance, PTL DEF YouTube!SavedIsOnScreen
<1>6. QED
  BY <1>1, <1>2, <1>5, TubeInvariance, PTL DEF CapturesAreTrue

================================================================================
