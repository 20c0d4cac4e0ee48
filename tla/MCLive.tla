------------------------------- MODULE MCLive -------------------------------
(***************************************************************************)
(* For TLC: the components with something that must happen, which are the  *)
(* server at its database, the requests for the leaderboard, and its       *)
(* search box; and the calendar.  They share no state here, so each has    *)
(* behaviours of its own, in which the others rest: no action is enabled   *)
(* that is treated fairly.                                                 *)
(***************************************************************************)
EXTENDS MCMeshMonday, Snapshots, LeaderboardFilter, MCCalendar

CONSTANTS ann, bob, joe

\* Three persons, and queries that match none, some and all of them.
ThreePeople == {ann, bob, joe}
SomeQueries == {ThreePeople, {ann, bob}, {bob}, {}}

VARIABLE working   \* the component that works in this behaviour

liveVars == <<vars, snapshotVars, filterVars, calendarRunVars, working>>

\* The server is not running.
ServerRests ==
  /\ ClockInit /\ StoreInit /\ IngestInit /\ RetentionInit /\ RestoreInit
  /\ up = FALSE

\* The page has no rows, and its first timer has fired.
SearchBoxRests ==
  /\ rows = {} /\ query = People
  /\ filteredOut = {} /\ gone = {} /\ ariaHidden = {} /\ faded = {}
  /\ noMatch = FALSE /\ showFrames = {} /\ flipFrame = FALSE
  /\ timer = FALSE /\ fetching = FALSE /\ overtaken = {}

\* The first hour in some zone.
CalendarRests ==
  /\ tz = (CHOOSE z \in Zones : TRUE) /\ trackFrom = 0 /\ hourly

LiveInit ==
  /\ working \in {"server", "requests", "search box", "calendar"}
  /\ IF working = "server" THEN Init ELSE ServerRests
  /\ SnapshotsInit
  /\ IF working = "search box" THEN FilterInit ELSE SearchBoxRests
  /\ CalendarAndSeasonInit
  /\ working # "calendar" => CalendarRests

ServerWorks ==
  /\ working = "server"
  /\ Next
  /\ UNCHANGED <<snapshotVars, filterVars, calendarRunVars, working>>

RequestsWork ==
  /\ working = "requests"
  /\ SnapshotsNext
  /\ UNCHANGED <<vars, filterVars, calendarRunVars, working>>

SearchBoxWorks ==
  /\ working = "search box"
  /\ FilterNext
  /\ UNCHANGED <<vars, snapshotVars, calendarRunVars, working>>

CalendarRuns ==
  /\ working = "calendar"
  /\ CalendarAndSeasonNext
  /\ UNCHANGED <<vars, snapshotVars, filterVars, working>>

LiveNext == ServerWorks \/ RequestsWork \/ SearchBoxWorks \/ CalendarRuns

LiveSpec ==
  /\ LiveInit
  /\ [][LiveNext]_liveVars
  /\ Fairness
  /\ SnapshotsFairness
  /\ FilterFairness
=============================================================================
