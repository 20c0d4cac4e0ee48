------------------------------- MODULE Season -------------------------------
(***************************************************************************)
(* The rings of the leaderboard: what share of the season's weeks a user   *)
(* has checked in in.  The check-ins come from the database, filtered by   *)
(* date (ListCheckinsSince), the weeks from the calendar, and the totals   *)
(* and streaks from Ranking.                                               *)
(***************************************************************************)
EXTENDS Calendar, Ranking

CONSTANTS
  TrackFromDates,   \* local days that TRACK_FROM_DATE may name
  HoursPerStep      \* the clock is looked at every so many hours

ASSUME SeasonAssumption ==
  TrackFromDates \subseteq Int /\ HoursPerStep \in Nat \ {0}

VARIABLES
  trackFrom,   \* Config.TrackFromDate
  attended     \* the dates of the user's check-ins

seasonVars == <<calendarVars, trackFrom, attended>>

SeasonInit ==
  /\ CalendarInit
  /\ trackFrom \in TrackFromDates
  /\ attended = {}

HoursPass ==
  /\ PassHours(HoursPerStep)
  /\ UNCHANGED <<trackFrom, attended>>

CheckIn ==
  /\ IsMondayInTZ(tz, hour)
  /\ attended' = attended \cup {LocalDay(tz, hour)}
  /\ UNCHANGED <<calendarVars, trackFrom>>

SeasonSpec == SeasonInit /\ [][HoursPass \/ CheckIn]_seasonVars

-----------------------------------------------------------------------------
\* Mutant: the first day does not count.
CheckinsAfter == {d \in attended : d > trackFrom}

\* ListCheckinsSince: WHERE checkin_date >= ?
CheckinsSince == {d \in attended : d >= trackFrom}

TrackedRows ==
  LET days == CHOOSE s \in SetToSeqs(CheckinsSince) :
                \A i, j \in DOMAIN s : i < j => s[i] < s[j]
  IN  [i \in DOMAIN days |-> [user |-> 1, day |-> days[i]]]

SeasonWeeks ==
  LET seasonStart == WeekStartMonday(tz, Date(tz, trackFrom, 0))
      weeks == CountMeshMondayWeeksInclusive(tz, seasonStart, hour)
  IN  IF weeks < 1 THEN 1 ELSE weeks

\* Per cent, rounded down.
LeaderboardRingFill(checkins, weeks) ==
  LET p == (checkins * 100) \div weeks IN IF p > 100 THEN 100 ELSE p

\* The rings of the user's entry: all check-ins, and the longest streak.
Rings ==
  LET entry == Entry(TrackedRows, 1)
  IN  {LeaderboardRingFill(n, SeasonWeeks) : n \in {entry.total, entry.streak}}

-----------------------------------------------------------------------------
\* "TRACK_FROM Monday -> today"
SeasonMondays ==
  WeekBuckets(LocalDay(tz, WeekStartMonday(tz, Date(tz, trackFrom, 0))),
              LocalDay(tz, hour))

HasEntry == CheckinsSince # {}

\* Nobody who missed a Monday has a full ring, whatever is rounded and capped.
\* (If the weeks are counted well: see Calendar.)
FullRingsAreEarned ==
  HasEntry /\ ~SummerBeginsSince(trackFrom) /\ 100 \in Rings
    => SeasonMondays \subseteq attended

\* "Total check-ins / season MeshMonday weeks (TRACK_FROM Monday -> today)":
\* who checked in on every Monday of the season has both rings full.
AttendanceFillsTheRings ==
  HasEntry /\ SeasonMondays \subseteq attended => Rings = {100}
=============================================================================
