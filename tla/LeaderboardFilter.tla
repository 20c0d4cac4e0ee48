-------------------------- MODULE LeaderboardFilter --------------------------
(***************************************************************************)
(* The search box of the leaderboard page (web/static/app.js): which rows  *)
(* are shown, while input events, animation frames, a timer, CSS           *)
(* transitions and the polling refresh follow each other in any order.     *)
(*                                                                         *)
(* JavaScript runs one callback at a time, so every callback is a step.  A *)
(* row is the person it shows, and a query is the set of persons whose     *)
(* names contain it; People itself is the empty query.                     *)
(***************************************************************************)
EXTENDS Naturals

CONSTANTS
  People,     \* persons that may have a row
  Queries     \* what may be typed

ASSUME FilterAssumption ==
  /\ Queries \subseteq SUBSET People
  /\ People \in Queries

VARIABLES
  rows,         \* rows of the page
  query,        \* value of the search box, always equal to the stored one
  filteredOut,  \* rows with class board-row--filtered-out (opacity 0)
  gone,         \* rows with class board-row--gone (display: none)
  ariaHidden,   \* rows hidden from screen readers
  faded,        \* rows whose computed opacity is below 0.05
  noMatch,      \* "No names match your search." is shown
  showFrames,   \* rows whose frame of apply is pending
  flipFrame,    \* leaderboardGoneFlipRaf is pending
  timer,        \* leaderboardGoneCommitTimer is pending
  fetching,     \* refreshInFlight
  overtaken     \* history: rows whose frame was still pending when the next
                \* input, which they do not match, or the timer came

rowVars == <<filteredOut, gone, ariaHidden, faded, noMatch>>
frameVars == <<showFrames, flipFrame, timer, overtaken>>
filterVars == <<rows, query, rowVars, frameVars, fetching>>

FilterTypeOK ==
  /\ rows \subseteq People /\ query \in Queries
  /\ filteredOut \subseteq rows /\ gone \subseteq rows
  /\ ariaHidden \subseteq rows /\ faded \subseteq rows
  /\ showFrames \subseteq rows /\ overtaken \subseteq rows
  /\ noMatch \in BOOLEAN /\ flipFrame \in BOOLEAN
  /\ timer \in BOOLEAN /\ fetching \in BOOLEAN

-----------------------------------------------------------------------------
(* apply *)

\* Mutant: board-row--gone is not removed.
ApplyKeepingGone(page, q, out, away) ==
  /\ filteredOut' = out \cup (page \ q)
  /\ gone' = away
  /\ ariaHidden' = page \ q
  /\ noMatch' = (page # {} /\ q # People /\ page \cap q = {})
  /\ timer' = TRUE
  /\ flipFrame' = FALSE

\* A row that does not match is filtered out at once; one that matches is laid
\* out again at once, and shown in the next frame.  Timer and flip frame start
\* anew.  `page` are the rows, `out` and `away` their classes before.
Apply(page, q, out, away) ==
  /\ filteredOut' = out \cup (page \ q)
  /\ gone' = away \ q
  /\ ariaHidden' = page \ q
  /\ noMatch' = (page # {} /\ q # People /\ page \cap q = {})
  /\ timer' = TRUE
  /\ flipFrame' = FALSE

\* An input event.  Frames that were requested before are not cancelled, and
\* will show their rows whether they match or not.
Input ==
  /\ \E q \in Queries : query' = q /\ Apply(rows, q, filteredOut, gone)
  /\ showFrames' = showFrames \cup (rows \cap query')
  /\ overtaken' = showFrames \ query'
  /\ UNCHANGED <<rows, faded, fetching>>

\* wireLeaderboardSearch on a new page: its rows have no class yet, and are
\* laid out for the first time with those that apply gives them.
Wire(page, q) ==
  /\ rows' = page
  /\ Apply(page, q, {}, {})
  /\ faded' = page \ q
  /\ showFrames' = page \cap q
  /\ overtaken' = {}

\* The filter was stored in the session by an earlier page.
FilterInit ==
  /\ query \in Queries
  /\ rows \in SUBSET People
  /\ filteredOut = rows \ query
  /\ gone = {}
  /\ ariaHidden = rows \ query
  /\ faded = rows \ query
  /\ noMatch = (rows # {} /\ query # People /\ rows \cap query = {})
  /\ showFrames = rows \cap query
  /\ flipFrame = FALSE
  /\ timer = TRUE
  /\ fetching = FALSE
  /\ overtaken = {}

-----------------------------------------------------------------------------
(* Rows that have faded out give up their place *)

\* commitLeaderboardGoneRowsWithFlip, with the classes that it finds.
CommitGone(out) == gone' = gone \cup (out \cap faded)

\* The callbacks of a frame run in the order in which they were requested: the
\* flip frame is the last, since apply cancels it.
Frame ==
  /\ showFrames # {} \/ flipFrame
  /\ filteredOut' = filteredOut \ showFrames
  /\ IF flipFrame THEN CommitGone(filteredOut') ELSE UNCHANGED gone
  /\ showFrames' = {}
  /\ flipFrame' = FALSE
  /\ UNCHANGED <<rows, query, ariaHidden, faded, noMatch, timer, fetching,
                 overtaken>>

\* The timer does not wait for the frames of its apply: a row that matches, and
\* whose frame is not drawn within 240 ms, may give up its place.
TimerFires ==
  /\ timer
  /\ timer' = FALSE
  /\ CommitGone(filteredOut)
  /\ overtaken' = overtaken \cup showFrames
  /\ UNCHANGED <<rows, query, filteredOut, ariaHidden, faded, noMatch,
                 showFrames, flipFrame, fetching>>

\* Mutant: the end of the transition is not waited for.
FadeOutUnnoticed(r) ==
  /\ r \in (filteredOut \ gone) \ faded
  /\ faded' = faded \cup {r}
  /\ UNCHANGED <<rows, query, filteredOut, gone, ariaHidden, noMatch,
                 frameVars, fetching>>

\* The transition to opacity 0 ends and its event requests a flip frame.
FadeOut(r) ==
  /\ r \in (filteredOut \ gone) \ faded
  /\ faded' = faded \cup {r}
  /\ flipFrame' = TRUE
  /\ UNCHANGED <<rows, query, filteredOut, gone, ariaHidden, noMatch,
                 showFrames, timer, overtaken, fetching>>

\* The transition to opacity 1 gets under way.
FadeIn(r) ==
  /\ r \in faded \ filteredOut
  /\ faded' = faded \ {r}
  /\ UNCHANGED <<rows, query, filteredOut, gone, ariaHidden, noMatch,
                 frameVars, fetching>>

-----------------------------------------------------------------------------
(* refreshMainInPlace *)

StartRefresh ==
  /\ ~fetching
  /\ fetching' = TRUE
  /\ UNCHANGED <<rows, query, rowVars, frameVars>>

\* The answer replaces the rows, and the filter is read from the session.
\* Frames of the old rows no longer touch the page.
ReplaceMain ==
  /\ fetching
  /\ \E page \in SUBSET People : Wire(page, query)
  /\ fetching' = FALSE
  /\ UNCHANGED query

RefreshFails ==
  /\ fetching
  /\ fetching' = FALSE
  /\ UNCHANGED <<rows, query, rowVars, frameVars>>

-----------------------------------------------------------------------------
FilterNext ==
  \/ Input
  \/ Frame
  \/ TimerFires
  \/ \E r \in People : FadeOut(r) \/ FadeIn(r)
  \/ StartRefresh
  \/ ReplaceMain
  \/ RefreshFails

FilterSpec == FilterInit /\ [][FilterNext]_filterVars

\* The browser draws frames and ends transitions.  The timer is started again
\* by every input and refresh, and nobody types for ever without a pause.
FilterFairness ==
  /\ WF_filterVars(Frame)
  /\ \A r \in People : WF_filterVars(FadeOut(r))
  /\ SF_filterVars(TimerFires)

-----------------------------------------------------------------------------
Shown == rows \ (filteredOut \cup gone)

\* "Filter leaderboard by name": between frames, exactly the rows that match
\* are shown.  This is what the page promises; app.js cancels no frame and its
\* timer waits for none, and it does not hold.
FilterShowsMatches == showFrames = {} => Shown = rows \cap query

\* What does hold, however inputs, frames, fades, the timer and refreshes
\* follow each other: between frames, a row is shown if and only if it matches,
\* but for the rows of frames that were overtaken, and for those only until
\* the next input or refresh applies the filter again.
ShowsMatches ==
  showFrames = {} =>
    \A r \in rows \ overtaken : r \in Shown <=> r \in query

\* At any time a screen reader finds exactly the rows that match, and "No names
\* match your search." is not said when one does.
SaysWhatMatches ==
  /\ ariaHidden = rows \ query
  /\ noMatch => rows \cap query = {}

\* A row that matches keeps its place in the list, unless the timer overtook
\* its frame.
MatchesKeepPlace == gone \cap query \subseteq overtaken

\* Rows that do not match leave no hole: in the end they give up their place,
\* unless an overtaken frame has shown them.
HolesClose ==
  \A r \in People :
    r \in rows \ query ~>
      (r \in gone \/ r \notin rows \/ r \in query \/ r \in overtaken)
=============================================================================
