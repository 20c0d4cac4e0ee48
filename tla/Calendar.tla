------------------------------ MODULE Calendar ------------------------------
(***************************************************************************)
(* The dates of internal/checkins in a time zone with summer time.         *)
(*                                                                         *)
(* An instant is a number of hours, local days are numbered, and local day *)
(* 0 is a Monday.  A zone is its standard offset from UTC and the instants *)
(* (UTC) at which summer time begins and ends; spring = fall means none.   *)
(* Everything else in the project knows of an instant only its week and    *)
(* whether it is a Monday (module Clock); here is where those come from.   *)
(***************************************************************************)
EXTENDS Integers, FiniteSets

CONSTANTS
  Zones,     \* time zones TZ may name
  LastDay    \* bound: the last local day

ASSUME ZonesAssumption ==
  /\ Zones \subseteq [std : -12..14, spring : Int, fall : Int]
  /\ LastDay \in Nat

VARIABLES
  tz,      \* the configured zone
  hour     \* the present instant

calendarVars == <<tz, hour>>

-----------------------------------------------------------------------------
(* The parts of Go's package time that the code uses *)

Offset(z, t) == IF t \in z.spring..(z.fall - 1) THEN z.std + 1 ELSE z.std

LocalDay(z, t) == (t + Offset(z, t)) \div 24
LocalHour(z, t) == (t + Offset(z, t)) % 24

\* Weekday(0) is Monday, as after the (Weekday() + 6) % 7 of the code.
Weekday(day) == day % 7

\* time.Date: the offset is looked up as if the local time were UTC, and again
\* at the instant which that offset gives.
Date(z, day, h) ==
  LET local == 24 * day + h
  IN  local - Offset(z, local - Offset(z, local))

\* Time.AddDate(0, 0, n) keeps the local time of day.
AddDays(z, t, n) == Date(z, LocalDay(z, t) + n, LocalHour(z, t))

-----------------------------------------------------------------------------
IsMondayInTZ(z, t) == Weekday(LocalDay(z, t)) = 0

\* Mutant: days are taken to be 24 hours long.
WeekStartBySubtraction(z, t) ==
  LET today == LocalDay(z, t)
  IN  Date(z, today, 0) - 24 * Weekday(today)

\* Mutant: delta is Weekday() - 1, and Sunday is 0.
WeekStartAfterSunday(z, t) ==
  LET today == LocalDay(z, t)
      delta == IF Weekday(today) = 6 THEN -1 ELSE Weekday(today)
  IN  AddDays(z, Date(z, today, 0), -delta)

WeekStartMonday(z, t) ==
  LET today == LocalDay(z, t)
  IN  AddDays(z, Date(z, today, 0), -Weekday(today))

\* Mutant: the first week is not counted.
CountExclusive(z, trackFrom, through) ==
  (LocalDay(z, through) - LocalDay(z, trackFrom)) \div 7

\* The days between two Mondays are hours divided by 24, rounded down.
CountMeshMondayWeeksInclusive(z, trackFrom, through) ==
  LET from == WeekStartMonday(z, trackFrom)
      to == WeekStartMonday(z, through)
      days == (Date(z, LocalDay(z, to), 0) - Date(z, LocalDay(z, from), 0))
                \div 24
  IN  IF to < from THEN 0 ELSE days \div 7 + 1

-----------------------------------------------------------------------------
\* The clock starts on a Monday morning and runs.
CalendarInit ==
  /\ tz \in Zones
  /\ hour = Date(tz, 0, 0)

PassHours(n) ==
  /\ LocalDay(tz, hour + n) =< LastDay
  /\ hour' = hour + n
  /\ UNCHANGED tz

CalendarSpec == CalendarInit /\ [][PassHours(1)]_calendarVars

-----------------------------------------------------------------------------
\* In an ordinary zone, every day has a midnight, unless the zone lies east of
\* Greenwich, where Date finds one o'clock instead; and a summer lasts.
IsOrdinary(z) ==
  /\ z.std < 0 => (z.spring + z.std) % 24 # 0
  /\ z.spring = z.fall \/ z.spring + 48 < z.fall

\* The date under which a check-in is filed, and which the pages ask for when
\* no week is given, is that of the Monday of the present local week.
WeekStartIsMonday ==
  LET date == LocalDay(tz, WeekStartMonday(tz, hour))
  IN  /\ Weekday(date) = 0
      /\ date =< LocalDay(tz, hour) /\ LocalDay(tz, hour) < date + 7

\* What the modules over Clock assume of instants: the week changes when a
\* Monday begins, always to the next one, and a Monday is not visited twice.
Today ==
  [week |-> LocalDay(tz, WeekStartMonday(tz, hour)) \div 7,
   monday |-> IsMondayInTZ(tz, hour)]

Clock == INSTANCE Clock WITH MaxWeek <- LastDay \div 7, now <- Today

\* (The first disjunct changes nothing, but spares TLC the second.)
ClockSpec ==
  /\ Clock!ClockInit
  /\ [][UNCHANGED calendarVars \/ Clock!AdvanceClock]_Today

\* "how many MeshMonday week buckets fall between the Monday week-start of
\* trackFrom and the Monday week-start of through, inclusive": one for every
\* Monday between them.
WeekBuckets(from, to) ==
  {d \in from..to : Weekday(d) = 0}

SeasonStart(day) == WeekStartMonday(tz, Date(tz, day, 0))

WeeksAreCounted(day) ==
  CountMeshMondayWeeksInclusive(tz, Date(tz, day, 0), hour) =
    Cardinality(WeekBuckets(LocalDay(tz, SeasonStart(day)),
                            LocalDay(tz, WeekStartMonday(tz, hour))))

WeeksCountedInclusive ==
  \A day \in 0..LocalDay(tz, hour) : WeeksAreCounted(day)

\* A season in which summer time begins is an hour short, and then a week.  The
\* weeks of all others are counted, those in which it ends included.
SummerBeginsSince(day) == SeasonStart(day) =< tz.spring /\ tz.spring =< hour

WeeksCountedUnlessSummerBegins ==
  \A day \in 0..LocalDay(tz, hour) :
    SummerBeginsSince(day) \/ WeeksAreCounted(day)
=============================================================================
