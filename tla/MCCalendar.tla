----------------------------- MODULE MCCalendar -----------------------------
(***************************************************************************)
(* Time zones and seasons.  Clocks change on any of eight days, at an hour *)
(* from midnight to 3 a.m., west of, at and east of Greenwich; a season    *)
(* begins on one of the first two Mondays.                                 *)
(***************************************************************************)
EXTENDS Season

Offsets == {-8, 0, 2}
ChangeDays == 1..8
ChangeHours == 0..3

Never == 24 * 100   \* an instant after the last day; -Never is before the first

\* Summer time begins at local hour h of a day ...
Spring(s, d, h) == [std |-> s, spring |-> 24*d + h - s, fall |-> Never]

\* ... or ends.
Fall(s, d, h) == [std |-> s, spring |-> -Never, fall |-> 24*d + h - (s + 1)]

\* West of Greenwich, a day without a midnight is a case of its own.
MostZones ==
  {Spring(s, d, h) : s \in Offsets, d \in ChangeDays, h \in ChangeHours \ {0}}
    \cup {Spring(s, d, 0) : s \in {0, 2}, d \in ChangeDays}
    \cup {Fall(s, d, h) : s \in Offsets, d \in ChangeDays, h \in ChangeHours}

\* They are zones the theorems about Calendar and Season speak of.
ASSUME MostZonesAreOrdinary == \A z \in MostZones : IsOrdinary(z)

\* America/Los_Angeles in March, America/Havana in March.
LosAngeles == {Spring(-8, 6, 2)}
Havana == {Spring(-5, 6, 0)}

MondayStarts == {0, 7}

-----------------------------------------------------------------------------
\* Either the clock runs hour by hour and nobody checks in, or it is looked at
\* every HoursPerStep hours, and somebody checks in on some Mondays.
VARIABLE hourly

calendarRunVars == <<seasonVars, hourly>>

CalendarAndSeasonInit ==
  /\ SeasonInit
  /\ hourly \in BOOLEAN
  /\ hourly => trackFrom = 0

Passes ==
  /\ hourly
  /\ PassHours(1)
  /\ UNCHANGED <<trackFrom, attended, hourly>>

Attends ==
  /\ ~hourly
  /\ HoursPass \/ CheckIn
  /\ UNCHANGED hourly

CalendarAndSeasonNext == Passes \/ Attends

CalendarAndSeasonSpec ==
  CalendarAndSeasonInit /\ [][CalendarAndSeasonNext]_calendarRunVars
=============================================================================
