-------------------------------- MODULE Browser --------------------------------
(******************************************************************************)
(* What runs in the browser: the adapter of the extension that reads captions *)
(* in the frames of a page (FrameCapture), the one that reads those of a      *)
(* YouTube page (YouTubeCapture), and the pages of the library (WebLibrary).  *)
(* They run in contexts of their own and share no state.                      *)
(******************************************************************************)
EXTENDS FrameCapture

CONSTANTS
    Video, Captioned, NoVideo,                    \* of YouTubeCapture
    MaxLate, MaxChunk, MaxAttempt, MaxNavigation,
    Item, Filter, MaxChange, MaxFail              \* of WebLibrary

VARIABLES
    page, visits, reader, time,
    row, latest, cache, fetch, view, calls, dialog, changes, fails

youtube == <<page, visits, reader, time>>
library == <<row, latest, cache, fetch, view, calls, dialog, changes, fails>>

YouTube == INSTANCE YouTubeCapture WITH
    None <- NoVideo, MaxTime <- MaxLate, job <- reader

Library == INSTANCE WebLibrary

--------------------------------------------------------------------------------
(* Properties of the parts *)

\* A list that shows an answer while it is refreshed never shows, as fresh, one read
\* before the change it was refreshed for, and the add dialog shows the outcome of
\* the batch submitted in it (LibraryPage.tsx 57-62 and 329, AddVideosDialog.tsx
\* 62-82 and 152-163).
PagesKeepUp == Library!RefreshedListIsRecent /\ Library!DialogShowsItsBatch

\* Cues are saved for the video they belong to, if any response named a video, and
\* while the page still shows it. A video is saved as one without captions only if
\* it has none that fit a capture, unless an adapter threw or no response named a
\* video. A part stands in for the whole only where no playlist could be read and,
\* if another frame captured the whole, where that is too large or the part comes
\* with more of the length and a title (page-capture.ts 188-244, 466, 521-549, 732,
\* 753, 789-863, 923, 1448-1482).
CapturesAreTrue ==
    /\ [](YouTube!CaptionsOfThatVideo /\ YouTube!NoCaptionIsTrue)
    /\ [](PartIsNotTaken /\ NoCaptionIsTrue /\ WholeWins)
    /\ YouTube!SavedIsOnScreen

================================================================================
