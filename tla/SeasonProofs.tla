---------------------------- MODULE SeasonProofs ----------------------------
(***************************************************************************)
(* Proofs about the dates of check-ins: in every ordinary zone, weeks      *)
(* start on their Mondays, the clock is the one the other modules assume,  *)
(* the weeks of a season are counted unless summer begins in it, and the   *)
(* rings of the leaderboard are full for who checked in on all of them.    *)
(***************************************************************************)
EXTENDS Season, RankingProofs

LEMMA DaysAndHours ==
  ASSUME NEW x \in Int
  PROVE  /\ x \div 24 \in Int /\ x % 24 \in 0..23
         /\ x = 24 * (x \div 24) + (x % 24)
OBVIOUS

LEMMA DayOf ==
  ASSUME NEW x \in Int, NEW d \in Int, 24 * d =< x, x < 24 * d + 24
  PROVE  x \div 24 = d /\ x % 24 = x - 24 * d
OBVIOUS

LEMMA WeeksAndDays ==
  ASSUME NEW x \in Int
  PROVE  /\ x \div 7 \in Int /\ x % 7 \in 0..6
         /\ x = 7 * (x \div 7) + (x % 7)
OBVIOUS

LEMMA WeekOf ==
  ASSUME NEW x \in Int, NEW d \in Int, 7 * d =< x, x < 7 * d + 7
  PROVE  x \div 7 = d /\ x % 7 = x - 7 * d
OBVIOUS

IsZone(z) ==
  /\ z.std \in -12..14 /\ z.spring \in Int /\ z.fall \in Int
  /\ IsOrdinary(z)

LEMMA ZonesAreZones ==
  ASSUME NEW z \in Zones, IsOrdinary(z) PROVE IsZone(z)
BY ZonesAssumption DEF IsZone

LEMMA Offsets ==
  ASSUME NEW z, IsZone(z), NEW t \in Int
  PROVE  /\ Offset(z, t) \in Int
         /\ Offset(z, t) = z.std \/ Offset(z, t) = z.std + 1
         /\ Offset(z, t) = z.std + 1 <=> z.spring =< t /\ t < z.fall
BY DEF Offset, IsZone

\* An instant lies in its day.
LEMMA InItsDay ==
  ASSUME NEW z, IsZone(z), NEW t \in Int
  PROVE  /\ LocalDay(z, t) \in Int /\ LocalHour(z, t) \in 0..23
         /\ t + Offset(z, t) = 24 * LocalDay(z, t) + LocalHour(z, t)
<1>1. t + Offset(z, t) \in Int
  BY Offsets
<1> QED
  BY <1>1, DaysAndHours DEF LocalDay, LocalHour

\* What Date returns for the first hours of a day: an hour of that day, which
\* is midnight if it exists.
IsFirstHour(z, day, h, t) ==
  /\ t \in Int
  /\ \/ t = 24 * day + h - z.std
     \/ t = 24 * day + h - z.std - 1
  /\ LocalDay(z, t) = day
  /\ h = 0 => LocalHour(z, t) \in {0, 1}
  /\ h = 0 /\ LocalHour(z, t) # 0 =>
       z.spring = 24 * day - z.std /\ z.spring + 48 < z.fall
  /\ t = (24*day + h) - Offset(z, (24*day + h) - Offset(z, 24*day + h))

LEMMA FirstHours ==
  ASSUME NEW z, IsZone(z), NEW day \in Int, NEW h \in {0, 1}
  PROVE  IsFirstHour(z, day, h, Date(z, day, h))
<1> DEFINE local == 24 * day + h
           o == Offset(z, local)
           p == Offset(z, local - o)
           t == local - p
           q == Offset(z, t)
<1>1. local \in Int /\ h \in Int
  OBVIOUS
<1>2. o \in Int /\ (o = z.std \/ o = z.std + 1)
       /\ (o = z.std + 1 <=> z.spring =< local /\ local < z.fall)
  BY <1>1, Offsets
<1>3. p \in Int /\ (p = z.std \/ p = z.std + 1)
       /\ (p = z.std + 1 <=> z.spring =< local - o /\ local - o < z.fall)
  BY <1>1, <1>2, Offsets
<1>4. q \in Int /\ (q = z.std \/ q = z.std + 1)
       /\ (q = z.std + 1 <=> z.spring =< t /\ t < z.fall)
  BY <1>1, <1>3, Offsets
<1>5. Date(z, day, h) = t
  BY DEF Date
<1>15. t = (24*day + h) - Offset(z, (24*day + h) - Offset(z, 24*day + h))
  BY <1>1, <1>3
<1> HIDE DEF o, p, q
<1>6. /\ z.std \in Int /\ z.std >= -12 /\ z.std =< 14
      /\ z.spring \in Int /\ z.fall \in Int
      /\ z.spring = z.fall \/ z.spring + 48 < z.fall
  BY DEF IsZone, IsOrdinary
<1>7. h = 0 => q >= p
  <2> SUFFICES ASSUME h = 0, q < p PROVE FALSE
    BY <1>3, <1>4
  <2>1. p = z.std + 1 /\ q = z.std
    BY <1>3, <1>4, <1>6
  <2>2. o = z.std
    BY <1>1, <1>2, <1>3, <1>4, <1>6, <2>1
  <2>3. z.spring = local - z.std /\ z.std < 0
    BY <1>1, <1>2, <1>3, <1>4, <1>6, <2>1, <2>2
  <2>4. (z.spring + z.std) % 24 # 0
    BY <2>3 DEF IsZone, IsOrdinary
  <2>5. z.spring + z.std = 24 * day
    BY <1>6, <2>3
  <2>6. (24 * day) % 24 = 0
    OBVIOUS
  <2> QED
    BY <2>4, <2>5, <2>6
<1>8. t + q \in Int /\ 24 * day =< t + q /\ t + q < 24 * day + 3
  BY <1>3, <1>4, <1>6, <1>7
<1>9. (t + q) \div 24 = day /\ (t + q) % 24 = t + q - 24 * day
  <2> DEFINE x == t + q
  <2>1. x \in Int /\ 24 * day =< x /\ x < 24 * day + 24
    BY <1>8
  <2> HIDE DEF x
  <2>2. x \div 24 = day /\ x % 24 = x - 24 * day
    BY <2>1, DayOf
  <2> QED
    BY <1>1, <1>3, <1>4, <2>2 DEF x
<1>10. LocalDay(z, t) = day /\ LocalHour(z, t) = t + q - 24 * day
  BY <1>9 DEF LocalDay, LocalHour, q
<1>11. ASSUME h = 0 PROVE LocalHour(z, t) = 0 \/ LocalHour(z, t) = 1
  <2>1. t + q - 24 * day = q - p
    BY <1>3, <1>4, <1>11
  <2>2. q - p = 0 \/ q - p = 1
    BY <1>3, <1>4, <1>6, <1>7, <1>11
  <2> QED
    BY <1>10, <2>1, <2>2
<1>12. ASSUME h = 0, LocalHour(z, t) # 0
       PROVE  z.spring = 24 * day - z.std /\ z.spring + 48 < z.fall
  <2>1. t + q - 24 * day = q - p
    BY <1>3, <1>4, <1>12
  <2>2. q # p
    BY <1>3, <1>10, <1>12, <2>1
  <2>3. q = z.std + 1 /\ p = z.std
    BY <1>3, <1>4, <1>6, <1>7, <1>12, <2>2
  <2>4. o = z.std + 1
    BY <1>1, <1>2, <1>3, <1>4, <1>6, <2>3
  <2> QED
    BY <1>1, <1>2, <1>3, <1>4, <1>6, <1>12, <2>3, <2>4
<1>13. t = 24 * day + h - z.std \/ t = 24 * day + h - z.std - 1
  BY <1>3, <1>6
<1>14. t \in Int
  BY <1>1, <1>3
<1> QED
  BY <1>5, <1>10, <1>11, <1>12, <1>13, <1>14, <1>15 DEF IsFirstHour
-----------------------------------------------------------------------------
(***************************************************************************)
(* The Monday of a week.                                                   *)
(***************************************************************************)
MondayOf(day) == day - Weekday(day)

LEMMA Mondays ==
  ASSUME NEW day \in Int
  PROVE  /\ MondayOf(day) \in Int /\ Weekday(MondayOf(day)) = 0
         /\ MondayOf(day) =< day /\ day < MondayOf(day) + 7
         /\ MondayOf(day) = 7 * (day \div 7)
<1>1. /\ day \div 7 \in Int /\ day % 7 \in 0..6
      /\ day = 7 * (day \div 7) + (day % 7)
  BY WeeksAndDays
<1>2. MondayOf(day) = 7 * (day \div 7)
  BY <1>1 DEF MondayOf, Weekday
<1>3. (7 * (day \div 7)) % 7 = 0
  BY <1>1
<1> QED
  BY <1>1, <1>2, <1>3 DEF Weekday

\* WeekStartMonday is the first hour of the week's Monday, or the hour after it
\* if today has no midnight.
LEMMA WeekStarts ==
  ASSUME NEW z, IsZone(z), NEW t \in Int
  PROVE  LET today == LocalDay(z, t)
             h == LocalHour(z, Date(z, today, 0))
         IN  /\ h \in {0, 1}
             /\ h = 1 => /\ z.spring = 24 * today - z.std
                         /\ z.spring + 48 < z.fall
             /\ IsFirstHour(z, MondayOf(today), h, WeekStartMonday(z, t))
<1> DEFINE today == LocalDay(z, t)
           start == Date(z, today, 0)
           h == LocalHour(z, start)
<1>1. today \in Int
  BY InItsDay
<1> HIDE DEF today
<1>2. IsFirstHour(z, today, 0, start)
  BY <1>1, FirstHours
<1>3. /\ LocalDay(z, start) = today /\ h \in {0, 1}
      /\ h = 1 => z.spring = 24 * today - z.std /\ z.spring + 48 < z.fall
  BY <1>2 DEF IsFirstHour
<1>4. today + (-Weekday(today)) = MondayOf(today) /\ MondayOf(today) \in Int
  <2>1. today % 7 \in Int
    BY <1>1, WeeksAndDays
  <2> QED
    BY <1>1, <2>1 DEF MondayOf, Weekday
<1>5. WeekStartMonday(z, t) = Date(z, MondayOf(today), h)
  BY <1>3, <1>4 DEF WeekStartMonday, AddDays, today
<1> HIDE DEF start, h
<1>6. IsFirstHour(z, MondayOf(today), h, WeekStartMonday(z, t))
  BY <1>3, <1>4, <1>5, FirstHours
<1> QED
  BY <1>3, <1>6 DEF today, start, h

LEMMA WeekStartDay ==
  ASSUME NEW z, IsZone(z), NEW t \in Int
  PROVE  LocalDay(z, WeekStartMonday(z, t)) = MondayOf(LocalDay(z, t))
BY WeekStarts DEF IsFirstHour

OrdinaryZones == \A z \in Zones : IsOrdinary(z)

ZoneAndHour == tz \in Zones /\ hour \in Int

LEMMA ZoneAndHourHold ==
  ASSUME OrdinaryZones PROVE CalendarSpec => []ZoneAndHour
<1>1. CalendarInit => ZoneAndHour
  <2> SUFFICES ASSUME CalendarInit PROVE hour \in Int
    BY DEF CalendarInit, ZoneAndHour
  <2>1. IsZone(tz)
    BY ZonesAreZones DEF CalendarInit, OrdinaryZones
  <2> QED
    BY <2>1, FirstHours DEF CalendarInit, IsFirstHour
<1>2. ZoneAndHour /\ [PassHours(1)]_calendarVars => ZoneAndHour'
  BY DEF ZoneAndHour, PassHours, calendarVars
<1> QED
  BY <1>1, <1>2, PTL DEF CalendarSpec

LEMMA ZoneIsZone ==
  ASSUME OrdinaryZones, ZoneAndHour PROVE IsZone(tz)
BY ZonesAreZones DEF OrdinaryZones, ZoneAndHour

\* In ordinary zones, check-ins are filed, and the pages asked for, under the
\* date of the Monday of the present local week.
THEOREM WeeksStartOnMondays ==
  ASSUME OrdinaryZones PROVE CalendarSpec => []WeekStartIsMonday
<1>1. ZoneAndHour => WeekStartIsMonday
  <2> SUFFICES ASSUME ZoneAndHour PROVE WeekStartIsMonday
    OBVIOUS
  <2>1. IsZone(tz) /\ hour \in Int
    BY ZoneIsZone DEF ZoneAndHour
  <2>2. LocalDay(tz, WeekStartMonday(tz, hour)) = MondayOf(LocalDay(tz, hour))
    BY <2>1, WeekStartDay
  <2>3. LocalDay(tz, hour) \in Int
    BY <2>1, InItsDay
  <2> QED
    BY <2>2, <2>3, Mondays DEF WeekStartIsMonday
<1> QED
  BY <1>1, ZoneAndHourHold, PTL

-----------------------------------------------------------------------------
(***************************************************************************)
(* The clock: an hour later it is the same day or the next.                *)
(***************************************************************************)
LEMMA AnHourLater ==
  ASSUME NEW z, IsZone(z), NEW t \in Int
  PROVE  \/ LocalDay(z, t + 1) = LocalDay(z, t)
         \/ LocalDay(z, t + 1) = LocalDay(z, t) + 1
<1> DEFINE day == LocalDay(z, t)
           day2 == LocalDay(z, t + 1)
           o == Offset(z, t)
           o2 == Offset(z, t + 1)
           h == LocalHour(z, t)
           h2 == LocalHour(z, t + 1)
<1>1. day \in Int /\ h \in 0..23 /\ t + o = 24 * day + h
  BY InItsDay
<1>2. t + 1 \in Int
  OBVIOUS
<1>3. day2 \in Int /\ h2 \in 0..23 /\ t + 1 + o2 = 24 * day2 + h2
  BY <1>2, InItsDay
<1>4. o \in Int /\ o2 \in Int /\ o2 >= o - 1 /\ o2 =< o + 1
  <2>1. z.std \in Int
    BY DEF IsZone
  <2> QED
    BY <1>2, <2>1, Offsets
<1> HIDE DEF day, day2, o, o2, h, h2
<1>5. 24 * day2 + h2 >= 24 * day + h /\ 24 * day2 + h2 =< 24 * day + h + 2
  BY <1>1, <1>3, <1>4
<1>6. day2 >= day /\ day2 =< day + 1
  BY <1>1, <1>3, <1>5
<1>7. day2 = day \/ day2 = day + 1
  BY <1>1, <1>3, <1>6
<1> QED
  BY <1>7 DEF day, day2

LEMMA NextWeek ==
  ASSUME NEW d \in Int
  PROVE  /\ d % 7 = 6 => (d + 1) \div 7 = d \div 7 + 1 /\ (d + 1) % 7 = 0
         /\ d % 7 # 6 => (d + 1) \div 7 = d \div 7 /\ (d + 1) % 7 # 0
OBVIOUS

LEMMA WeekNumber ==
  ASSUME NEW z, IsZone(z), NEW t \in Int
  PROVE  LocalDay(z, WeekStartMonday(z, t)) \div 7 = LocalDay(z, t) \div 7
<1> DEFINE day == LocalDay(z, t)
<1>1. day \in Int
  BY InItsDay
<1> HIDE DEF day
<1>2. LocalDay(z, WeekStartMonday(z, t)) = 7 * (day \div 7)
  BY <1>1, WeekStartDay, Mondays DEF day
<1>3. day \div 7 \in Int
  BY <1>1, WeeksAndDays
<1>4. (7 * (day \div 7)) \div 7 = day \div 7
  BY <1>3
<1> QED
  BY <1>2, <1>4 DEF day

\* In ordinary zones, the clock is as the modules over Clock assume.
THEOREM ClockIsTheClock == ASSUME OrdinaryZones PROVE CalendarSpec => ClockSpec
<1>1. CalendarInit => Clock!ClockInit
  <2> SUFFICES ASSUME CalendarInit PROVE Clock!ClockInit
    OBVIOUS
  <2>1. IsZone(tz)
    BY ZonesAreZones DEF CalendarInit, OrdinaryZones
  <2>2. LocalDay(tz, hour) = 0 /\ hour \in Int
    BY <2>1, FirstHours DEF CalendarInit, IsFirstHour
  <2>3. 0 \div 7 = 0 /\ 0 % 7 = 0
    OBVIOUS
  <2>4. LocalDay(tz, WeekStartMonday(tz, hour)) \div 7 = 0
    BY <2>1, <2>2, <2>3, WeekNumber
  <2>5. IsMondayInTZ(tz, hour) = TRUE
    BY <2>2, <2>3 DEF IsMondayInTZ, Weekday
  <2>6. Today = [week |-> 0, monday |-> TRUE]
    BY <2>4, <2>5 DEF Today
  <2> QED
    BY <2>6 DEF Clock!ClockInit
<1>2. ASSUME ZoneAndHour, PassHours(1)
      PROVE  Clock!AdvanceClock \/ Today' = Today
  <2>1. IsZone(tz) /\ hour \in Int /\ hour + 1 \in Int
    BY <1>2, ZoneIsZone DEF ZoneAndHour
  <2>2. tz' = tz /\ hour' = hour + 1 /\ LocalDay(tz, hour + 1) =< LastDay
    BY <1>2 DEF PassHours
  <2> DEFINE day == LocalDay(tz, hour)
             next == LocalDay(tz, hour + 1)
  <2>3. day \in Int /\ next \in Int
    BY <2>1, InItsDay
  <2>4. next = day \/ next = day + 1
    BY <2>1, AnHourLater
  <2>5. Today = [week |-> day \div 7, monday |-> (day % 7 = 0)]
    BY <2>1, WeekNumber DEF Today, IsMondayInTZ, Weekday
  <2>6. Today' = [week |-> next \div 7, monday |-> (next % 7 = 0)]
    <3>1. Today' = [week |-> LocalDay(tz, WeekStartMonday(tz, hour + 1)) \div 7,
                    monday |-> IsMondayInTZ(tz, hour + 1)]
      BY <2>2 DEF Today
    <3>2. LocalDay(tz, WeekStartMonday(tz, hour + 1)) \div 7 = next \div 7
      BY <2>1, WeekNumber
    <3>3. IsMondayInTZ(tz, hour + 1) = (next % 7 = 0)
      BY DEF IsMondayInTZ, Weekday
    <3> QED
      BY <3>1, <3>2, <3>3
  <2>7. next =< LastDay
    BY <2>2
  <2> DEFINE w == day \div 7
  <2> HIDE DEF day, next
  <2>8. CASE next = day
    BY <2>5, <2>6, <2>8
  <2>9. CASE next = day + 1 /\ day % 7 = 6
    <3>1. next \div 7 = w + 1 /\ next % 7 = 0
      BY <2>3, <2>9, NextWeek
    <3>2. w < LastDay \div 7
      <4>1. LastDay \in Int
        BY ZonesAssumption
      <4>2. w + 1 =< LastDay \div 7
        BY <2>3, <2>7, <3>1, <4>1, WeeksAndDays
      <4>3. w \in Int /\ LastDay \div 7 \in Int
        BY <2>3, <4>1, WeeksAndDays
      <4> QED
        BY <4>2, <4>3
    <3>3. (day % 7 = 0) = FALSE /\ (next % 7 = 0) = TRUE
      BY <2>9, <3>1
    <3>4. Today = [week |-> w, monday |-> FALSE]
      BY <2>5, <3>3
    <3>5. Today' = [week |-> w + 1, monday |-> TRUE]
      BY <2>6, <3>1, <3>3
    <3> HIDE DEF w
    <3> QED
      BY <3>2, <3>4, <3>5 DEF Clock!AdvanceClock
  <2>10. CASE next = day + 1 /\ day % 7 # 6
    <3>1. next \div 7 = w /\ (next % 7 = 0) = FALSE
      BY <2>3, <2>10, NextWeek
    <3>2. Today' = [week |-> w, monday |-> FALSE]
      BY <2>6, <3>1
    <3>3. CASE day % 7 = 0
      <4>1. Today = [week |-> w, monday |-> TRUE]
        BY <2>5, <3>3
      <4> HIDE DEF w
      <4> QED
        BY <3>2, <4>1 DEF Clock!AdvanceClock
    <3>4. CASE day % 7 # 0
      <4>1. Today = [week |-> w, monday |-> FALSE]
        BY <2>5, <3>4
      <4> QED
        BY <3>2, <4>1
    <3> QED
      BY <3>3, <3>4
  <2> QED
    BY <2>4, <2>8, <2>9, <2>10
<1>3. UNCHANGED calendarVars => Today' = Today
  BY DEF calendarVars, Today
<1>4. ZoneAndHour /\ [PassHours(1)]_calendarVars => [Clock!AdvanceClock]_Today
  BY <1>2, <1>3
<1>5. CalendarSpec => []ZoneAndHour
  BY ZoneAndHourHold
<1> QED
  BY <1>1, <1>4, <1>5, PTL DEF CalendarSpec, ClockSpec
-----------------------------------------------------------------------------
(***************************************************************************)
(* The weeks of a season.  The hours between the midnights of two Mondays  *)
(* are a multiple of 24, but for one more when summer ends between them,   *)
(* and one less when it begins.                                            *)
(***************************************************************************)
LEMMA BucketsOf ==
  ASSUME NEW a \in Int, NEW b \in Int, a % 7 = 0, b % 7 = 0, a =< b
  PROVE  Cardinality(WeekBuckets(a, b)) = ((b - a) \div 7) + 1
<1> DEFINE n == ((b - a) \div 7) + 1
           S == WeekBuckets(a, b)
           f == [k \in 1..n |-> a + 7 * (k - 1)]
<1>1. n \in Nat /\ b = a + 7 * (n - 1)
  OBVIOUS
<1> HIDE DEF n
<1>2. f \in [1..n -> S]
  <2>1. ASSUME NEW k \in 1..n
        PROVE  /\ a + 7 * (k - 1) \in a..b
               /\ (a + 7 * (k - 1)) % 7 = 0
    BY <1>1
  <2> QED
    BY <2>1 DEF WeekBuckets, Weekday
<1>3. ASSUME NEW i \in 1..n, NEW j \in 1..n, f[i] = f[j] PROVE i = j
  BY <1>1, <1>3
<1>4. ASSUME NEW d \in S PROVE \E k \in 1..n : f[k] = d
  <2>1. d \in Int /\ a =< d /\ d =< b /\ d % 7 = 0
    BY DEF WeekBuckets, Weekday
  <2> DEFINE k == ((d - a) \div 7) + 1
  <2>2. k \in Int /\ d = a + 7 * (k - 1)
    BY <2>1
  <2> HIDE DEF k
  <2>3. k \in 1..n
    BY <1>1, <2>1, <2>2
  <2> QED
    BY <2>2, <2>3
<1>5. ExistsBijection(1..n, S)
  <2> HIDE DEF f, S
  <2>1. f \in Bijection(1..n, S)
    BY <1>2, <1>3, <1>4 DEF Bijection, Injection, IsInjective, Surjection
  <2> QED
    BY <2>1 DEF ExistsBijection
<1>6. Cardinality(S) = n
  BY <1>1, <1>5, FS_CountingElements
<1> QED
  BY <1>6 DEF n

LEMMA EarlierMonday ==
  ASSUME NEW a \in Int, NEW b \in Int, a =< b
  PROVE  MondayOf(a) =< MondayOf(b)
BY WeeksAndDays, Mondays

\* Today has begun.
LEMMA TodayHasBegun ==
  ASSUME NEW z, IsZone(z), NEW t \in Int, NEW day \in Int, day =< LocalDay(z, t)
  PROVE  t + Offset(z, t) >= 24 * day
BY InItsDay

\* If today or a day before it had no midnight, summer has begun.
LEMMA SummerHasBegun ==
  ASSUME NEW z, IsZone(z), NEW t \in Int, NEW day \in Int,
         day =< LocalDay(z, t), z.spring = 24 * day - z.std
  PROVE  z.spring =< t
<1>1. z.std \in Int /\ z.spring \in Int
  BY DEF IsZone
<1>2. t + Offset(z, t) >= 24 * day
  BY TodayHasBegun
<1>3. Offset(z, t) = z.std + 1 => z.spring =< t
  BY Offsets
<1>4. Offset(z, t) = z.std \/ Offset(z, t) = z.std + 1
  BY Offsets
<1> QED
  BY <1>1, <1>2, <1>3, <1>4

\* A season that does not start with the week's midnight is one in which
\* summer begins.
LEMMA SeasonStartsAtMidnight ==
  ASSUME NEW z, IsZone(z), NEW t \in Int, NEW day \in Int,
         day =< LocalDay(z, t), NEW from, NEW h \in {0, 1},
         IsFirstHour(z, MondayOf(day), h, from),
         h = 1 => z.spring = 24 * day - z.std /\ z.spring + 48 < z.fall,
         ~(from =< z.spring /\ z.spring =< t)
  PROVE  h = 0
<1> SUFFICES ASSUME h = 1 PROVE FALSE
  OBVIOUS
<1> DEFINE D == MondayOf(day)
           local == 24 * D + h
<1>1. /\ z.std \in Int /\ z.std >= -12 /\ z.std =< 14
      /\ z.spring \in Int /\ z.fall \in Int
      /\ z.spring = 24 * day - z.std /\ z.spring + 48 < z.fall
  BY DEF IsZone
<1>2. D \in Int /\ D =< day
  BY Mondays
<1>3. z.spring =< t
  BY <1>1, SummerHasBegun
<1>4. from = local - Offset(z, local - Offset(z, local)) /\ from \in Int
  BY DEF IsFirstHour
<1>5. from = local - z.std \/ from = local - z.std - 1
  <2> HIDE DEF D
  <2>1. from = 24 * D + h - z.std \/ from = 24 * D + h - z.std - 1
    BY DEF IsFirstHour, D
  <2> QED
    BY <1>1, <1>2, <2>1
<1>6. local = 24 * D + 1 /\ local \in Int
  BY <1>2
<1> HIDE DEF D, local
<1>7. CASE D < day
  <2>1. from =< z.spring
    BY <1>1, <1>2, <1>5, <1>6, <1>7
  <2> QED
    BY <1>3, <2>1
<1>8. CASE D = day
  <2>0. z.std >= 0
    <3>1. z.spring + z.std = 24 * day /\ (24 * day) % 24 = 0
      BY <1>1
    <3>2. ~(z.std < 0)
      BY <3>1 DEF IsZone, IsOrdinary
    <3> QED
      BY <1>1, <3>2
  <2>1. Offset(z, local) = z.std + 1
    <3>1. z.spring =< local /\ local < z.fall
      BY <1>1, <1>2, <1>6, <1>8, <2>0
    <3> QED
      BY <1>6, <3>1, Offsets
  <2>2. local - (z.std + 1) = z.spring /\ z.spring < z.fall
    BY <1>1, <1>2, <1>6, <1>8
  <2>3. from = local - Offset(z, z.spring)
    BY <1>4, <2>1, <2>2
  <2>4. Offset(z, z.spring) = z.std + 1
    BY <1>1, <2>2, Offsets
  <2>5. from = z.spring
    BY <2>2, <2>3, <2>4
  <2> QED
    BY <1>1, <1>3, <2>5
<1> QED
  BY <1>2, <1>7, <1>8

\* The hours between the midnights of a season's Mondays.
LEMMA HoursOfSeason ==
  ASSUME NEW z, IsZone(z), NEW t \in Int, NEW D1 \in Int, NEW D2 \in Int,
         D1 =< D2, D2 =< LocalDay(z, t),
         NEW g1, IsFirstHour(z, D1, 0, g1),
         NEW g2, IsFirstHour(z, D2, 0, g2),
         ~(g1 =< z.spring /\ z.spring =< t)
  PROVE  g2 - g1 = 24 * (D2 - D1) \/ g2 - g1 = 24 * (D2 - D1) + 1
<1> DEFINE L1 == 24 * D1
           L2 == 24 * D2
           o1 == Offset(z, L1)
           o2 == Offset(z, L2)
           p1 == Offset(z, L1 - o1)
           p2 == Offset(z, L2 - o2)
           o == Offset(z, t)
<1>1. /\ z.std \in Int /\ z.std >= -12 /\ z.std =< 14
      /\ z.spring \in Int /\ z.fall \in Int
  BY DEF IsZone
<1>2. L1 \in Int /\ L2 \in Int /\ (L1 = L2 \/ L1 + 24 =< L2)
  OBVIOUS
<1>3. /\ o1 \in Int /\ o2 \in Int
      /\ o1 = z.std \/ o1 = z.std + 1
      /\ o2 = z.std \/ o2 = z.std + 1
  BY <1>2, Offsets
<1>4. L1 - o1 \in Int /\ L2 - o2 \in Int
  BY <1>2, <1>3
<1>5. /\ p1 = z.std \/ p1 = z.std + 1
      /\ p2 = z.std \/ p2 = z.std + 1
      /\ p1 = z.std + 1 <=> z.spring =< L1 - o1 /\ L1 - o1 < z.fall
      /\ p2 = z.std + 1 <=> z.spring =< L2 - o2 /\ L2 - o2 < z.fall
  BY <1>4, Offsets
<1>6. g1 = L1 - p1 /\ g2 = L2 - p2
  <2>1. \A x \in Int : x + 0 = x
    OBVIOUS
  <2> QED
    BY <1>2, <2>1 DEF IsFirstHour
<1>7. o = z.std \/ o = z.std + 1
  BY Offsets
<1>8. o = z.std + 1 => z.spring =< t
  BY Offsets
<1>9. t + o >= L2
  BY TodayHasBegun
<1>10. L1 = L2 => p1 = p2
  OBVIOUS
<1> HIDE DEF L1, L2, o1, o2, p1, p2, o
<1>11. ~(p1 = z.std /\ p2 = z.std + 1)
  <2> SUFFICES ASSUME p1 = z.std, p2 = z.std + 1 PROVE FALSE
    OBVIOUS
  <2>1. z.spring =< L2 - o2 /\ L2 - o2 < z.fall
    BY <1>5
  <2>2. z.spring =< t
    BY <1>1, <1>2, <1>3, <1>7, <1>8, <1>9, <2>1
  <2>3. g1 > z.spring
    BY <1>1, <1>2, <1>6, <2>2
  <2>4. L1 - o1 >= z.spring
    BY <1>1, <1>2, <1>3, <1>6, <2>3
  <2>5. L1 - o1 >= z.fall
    BY <1>1, <1>4, <1>5, <2>4
  <2>6. L1 # L2
    BY <1>1, <1>10
  <2> QED
    BY <1>1, <1>2, <1>3, <2>1, <2>5, <2>6
<1>12. g2 - g1 = L2 - L1 \/ g2 - g1 = L2 - L1 + 1
  BY <1>1, <1>2, <1>5, <1>6, <1>11
<1> QED
  BY <1>12 DEF L1, L2
LEMMA SeasonIsCounted ==
  ASSUME NEW z, IsZone(z), NEW t \in Int, NEW day \in Int,
         day =< LocalDay(z, t),
         NEW from, from = WeekStartMonday(z, Date(z, day, 0)),
         ~(from =< z.spring /\ z.spring =< t)
  PROVE  CountMeshMondayWeeksInclusive(z, Date(z, day, 0), t) =
           Cardinality(WeekBuckets(LocalDay(z, from),
                                   LocalDay(z, WeekStartMonday(z, t))))
<1> DEFINE today == LocalDay(z, t)
           D1 == MondayOf(day)
           D2 == MondayOf(today)
           g1 == Date(z, D1, 0)
           g2 == Date(z, D2, 0)
           first == Date(z, day, 0)
           to == WeekStartMonday(z, t)
           h1 == LocalHour(z, first)
           h2 == LocalHour(z, Date(z, today, 0))
<1>1. today \in Int /\ D1 \in Int /\ D2 \in Int /\ D2 =< today /\ D1 =< D2
  <2>1. today \in Int
    BY InItsDay
  <2> QED
    BY <2>1, Mondays, EarlierMonday
<1>2. D1 % 7 = 0 /\ D2 % 7 = 0
  BY <1>1, Mondays DEF Weekday
<1>3. first \in Int /\ LocalDay(z, first) = day
  BY FirstHours DEF IsFirstHour
<1>4. /\ h1 \in {0, 1} /\ IsFirstHour(z, D1, h1, from)
      /\ h1 = 1 => z.spring = 24 * day - z.std /\ z.spring + 48 < z.fall
  <2> HIDE DEF first
  <2>1. h1 = LocalHour(z, Date(z, LocalDay(z, first), 0))
    BY <1>3 DEF first
  <2> QED
    BY <1>3, <2>1, WeekStarts DEF first
<1>5. h2 \in {0, 1} /\ IsFirstHour(z, D2, h2, to)
  BY WeekStarts
<1>6. IsFirstHour(z, D1, 0, g1) /\ IsFirstHour(z, D2, 0, g2)
  BY <1>1, FirstHours
<1>7. LocalDay(z, from) = D1 /\ LocalDay(z, to) = D2
  BY <1>4, <1>5 DEF IsFirstHour
<1> HIDE DEF today, D1, D2, g1, g2, first, to, h1, h2
<1>8. h1 = 0
  BY <1>4, SeasonStartsAtMidnight DEF D1
<1>9. from = g1 /\ (h2 = 0 => to = g2)
  BY <1>4, <1>5, <1>6, <1>8 DEF IsFirstHour
<1>10. g2 - g1 = 24 * (D2 - D1) \/ g2 - g1 = 24 * (D2 - D1) + 1
  BY <1>1, <1>6, <1>9, HoursOfSeason DEF today
<1>11. g1 \in Int /\ g2 \in Int
  BY <1>6 DEF IsFirstHour
<1>12. (g2 - g1) \div 24 = D2 - D1
  <2> DEFINE x == g2 - g1
             d == D2 - D1
  <2>1. x \in Int /\ d \in Int /\ 24 * d =< x /\ x < 24 * d + 24
    BY <1>1, <1>10, <1>11
  <2> HIDE DEF x, d
  <2>2. x \div 24 = d
    BY <2>1, DayOf
  <2> QED
    BY <2>2 DEF x, d
<1>13. ~(to < from)
  <2>1. z.std \in Int
    BY DEF IsZone
  <2>2. to = 24 * D2 + h2 - z.std \/ to = 24 * D2 + h2 - z.std - 1
    BY <1>5 DEF IsFirstHour
  <2>3. g2 = 24 * D2 - z.std \/ g2 = 24 * D2 - z.std - 1
    BY <1>1, <1>6, <2>1 DEF IsFirstHour
  <2>4. to >= g2
    BY <1>1, <1>5, <1>9, <1>11, <2>1, <2>2, <2>3
  <2>5. g2 >= g1
    BY <1>1, <1>10, <1>11
  <2>6. to \in Int
    BY <1>5 DEF IsFirstHour
  <2> QED
    BY <1>9, <1>11, <2>4, <2>5, <2>6
<1>14. CountMeshMondayWeeksInclusive(z, first, t) = ((D2 - D1) \div 7) + 1
  BY <1>7, <1>12, <1>13 DEF CountMeshMondayWeeksInclusive, first, to, g1, g2
<1>15. Cardinality(WeekBuckets(D1, D2)) = ((D2 - D1) \div 7) + 1
  BY <1>1, <1>2, BucketsOf
<1> QED
  BY <1>7, <1>14, <1>15 DEF first, to

\* In ordinary zones, the season counts a week for every Monday in it, unless
\* summer time begins in it: that it may end, or begin later, does no harm.
THEOREM WeeksAreCountedMostly ==
  ASSUME OrdinaryZones PROVE CalendarSpec => []WeeksCountedUnlessSummerBegins
<1>1. ZoneAndHour => WeeksCountedUnlessSummerBegins
  <2> SUFFICES ASSUME ZoneAndHour, NEW day \in 0..LocalDay(tz, hour),
                      ~SummerBeginsSince(day)
               PROVE  WeeksAreCounted(day)
    BY DEF WeeksCountedUnlessSummerBegins
  <2>1. IsZone(tz) /\ hour \in Int
    BY ZoneIsZone DEF ZoneAndHour
  <2>2. day \in Int /\ day =< LocalDay(tz, hour)
    BY <2>1, InItsDay
  <2>3. ~(SeasonStart(day) =< tz.spring /\ tz.spring =< hour)
    BY DEF SummerBeginsSince
  <2>4. SeasonStart(day) = WeekStartMonday(tz, Date(tz, day, 0))
    BY DEF SeasonStart
  <2> HIDE DEF SeasonStart
  <2> QED
    BY <2>1, <2>2, <2>3, <2>4, SeasonIsCounted DEF WeeksAreCounted
<1> QED
  BY <1>1, ZoneAndHourHold, PTL
-----------------------------------------------------------------------------
(***************************************************************************)
(* The weeks the rings are measured by.                                    *)
(***************************************************************************)
\* Compute hands the start of the season's week to the count, which takes the
\* start of its week again.
LEMMA SeasonStartStays ==
  ASSUME NEW z, IsZone(z), NEW t \in Int, NEW day \in Int,
         day =< LocalDay(z, t),
         NEW from, from = WeekStartMonday(z, Date(z, day, 0)),
         ~(from =< z.spring /\ z.spring =< t)
  PROVE  from = Date(z, MondayOf(day), 0) /\ WeekStartMonday(z, from) = from
<1> DEFINE D == MondayOf(day)
           first == Date(z, day, 0)
           g == Date(z, D, 0)
           h1 == LocalHour(z, first)
           h2 == LocalHour(z, g)
           from2 == WeekStartMonday(z, g)
<1>1. D \in Int /\ D =< day /\ MondayOf(D) = D
  <2>1. D \in Int /\ D =< day /\ D % 7 = 0
    BY Mondays DEF Weekday
  <2> QED
    BY <2>1 DEF MondayOf, Weekday
<1>2. first \in Int /\ LocalDay(z, first) = day
  BY FirstHours DEF IsFirstHour
<1>3. /\ h1 \in {0, 1} /\ IsFirstHour(z, D, h1, from)
      /\ h1 = 1 => z.spring = 24 * day - z.std /\ z.spring + 48 < z.fall
  <2> HIDE DEF first
  <2>1. h1 = LocalHour(z, Date(z, LocalDay(z, first), 0))
    BY <1>2 DEF first
  <2> QED
    BY <1>2, <2>1, WeekStarts DEF first
<1>4. IsFirstHour(z, D, 0, g)
  BY <1>1, FirstHours
<1>5. LocalDay(z, g) = D /\ g \in Int
  BY <1>4 DEF IsFirstHour
<1>6. /\ h2 \in {0, 1} /\ IsFirstHour(z, D, h2, from2)
      /\ h2 = 1 => z.spring = 24 * D - z.std
  <2> HIDE DEF g
  <2>1. h2 = LocalHour(z, Date(z, LocalDay(z, g), 0))
    BY <1>5 DEF g
  <2> QED
    BY <1>1, <1>5, <2>1, WeekStarts DEF g
<1> HIDE DEF D, first, g, h1, h2, from2
<1>7. h1 = 0
  BY <1>3, SeasonStartsAtMidnight DEF D
<1>8. from = g
  BY <1>3, <1>4, <1>7 DEF IsFirstHour
<1>9. h2 = 0
  <2> SUFFICES ASSUME h2 = 1 PROVE FALSE
    BY <1>6
  <2>1. z.std \in Int /\ z.spring \in Int
    BY DEF IsZone
  <2>2. z.spring = 24 * D - z.std
    BY <1>6
  <2>3. LocalDay(z, t) \in Int
    BY InItsDay
  <2>4. D =< LocalDay(z, t)
    BY <1>1, <2>3
  <2>5. z.spring =< t
    BY <1>1, <2>2, <2>4, SummerHasBegun
  <2>6. g = 24 * D - z.std \/ g = 24 * D - z.std - 1
    BY <1>1, <1>4, <2>1 DEF IsFirstHour
  <2> QED
    BY <1>1, <1>8, <2>1, <2>2, <2>5, <2>6
<1>10. from2 = g
  BY <1>4, <1>6, <1>9 DEF IsFirstHour
<1> QED
  BY <1>8, <1>10 DEF g, D, from2

LEMMA BucketsUpToToday ==
  ASSUME NEW a \in Int, NEW today \in Int
  PROVE  WeekBuckets(a, today) = WeekBuckets(a, MondayOf(today))
<1>1. MondayOf(today) \in Int /\ MondayOf(today) =< today
  BY Mondays
<1>2. ASSUME NEW d \in Int, d % 7 = 0, d =< today PROVE d =< MondayOf(today)
  <2>1. MondayOf(d) = d
    BY <1>2 DEF MondayOf, Weekday
  <2> QED
    BY <1>2, <2>1, EarlierMonday
<1> QED
  BY <1>1, <1>2 DEF WeekBuckets, Weekday

\* The weeks are those of the season's Mondays, unless summer begins in it.
LEMMA SeasonWeeksAre ==
  ASSUME NEW z, IsZone(z), NEW t \in Int, NEW day \in Int,
         day =< LocalDay(z, t),
         NEW from, from = WeekStartMonday(z, Date(z, day, 0)),
         ~(from =< z.spring /\ z.spring =< t)
  PROVE  CountMeshMondayWeeksInclusive(z, from, t) =
           Cardinality(WeekBuckets(LocalDay(z, from), LocalDay(z, t)))
<1> DEFINE D == MondayOf(day)
           today == LocalDay(z, t)
<1>1. from = Date(z, D, 0) /\ WeekStartMonday(z, from) = from
  BY SeasonStartStays
<1>2. D \in Int /\ D =< day /\ today \in Int
  BY Mondays, InItsDay
<1> HIDE DEF D, today
<1>3. D =< today
  BY <1>2 DEF today
<1>4. from = WeekStartMonday(z, Date(z, D, 0))
  BY <1>1
<1>5. CountMeshMondayWeeksInclusive(z, Date(z, D, 0), t) =
        Cardinality(WeekBuckets(LocalDay(z, from),
                                LocalDay(z, WeekStartMonday(z, t))))
  BY <1>2, <1>3, <1>4, SeasonIsCounted DEF today
<1>6. LocalDay(z, WeekStartMonday(z, t)) = MondayOf(today)
  BY WeekStartDay DEF today
<1>7. LocalDay(z, from) \in Int
  BY <1>1, <1>2, FirstHours DEF IsFirstHour
<1>8. WeekBuckets(LocalDay(z, from), MondayOf(today)) =
        WeekBuckets(LocalDay(z, from), today)
  BY <1>2, <1>7, BucketsUpToToday
<1> QED
  BY <1>1, <1>5, <1>6, <1>8 DEF today

\* They are never more.
LEMMA SeasonWeeksAtMost ==
  ASSUME NEW z, IsZone(z), NEW t \in Int, NEW day \in Int,
         day =< LocalDay(z, t),
         NEW from, from = WeekStartMonday(z, Date(z, day, 0))
  PROVE  LET all == Cardinality(WeekBuckets(LocalDay(z, from), LocalDay(z, t)))
             weeks == CountMeshMondayWeeksInclusive(z, from, t)
         IN  all \in Nat \ {0} /\ weeks \in Int /\ weeks =< all
<1> DEFINE D1 == MondayOf(day)
           today == LocalDay(z, t)
           D2 == MondayOf(today)
           g1 == Date(z, D1, 0)
           g2 == Date(z, D2, 0)
           x == g2 - g1
           weeks == CountMeshMondayWeeksInclusive(z, from, t)
<1>1. /\ today \in Int /\ D1 \in Int /\ D2 \in Int /\ D1 =< D2
      /\ D1 % 7 = 0 /\ D2 % 7 = 0 /\ MondayOf(D1) = D1
  <2>1. today \in Int
    BY InItsDay
  <2>2. /\ D1 \in Int /\ D2 \in Int /\ D1 =< D2 /\ D1 % 7 = 0 /\ D2 % 7 = 0
    BY <2>1, Mondays, EarlierMonday DEF Weekday
  <2> QED
    BY <2>1, <2>2 DEF MondayOf, Weekday
<1>2. from \in Int /\ LocalDay(z, from) = D1
  <2>1. Date(z, day, 0) \in Int /\ LocalDay(z, Date(z, day, 0)) = day
    BY FirstHours DEF IsFirstHour
  <2> QED
    BY <2>1, WeekStarts DEF IsFirstHour
<1>3. LocalDay(z, WeekStartMonday(z, from)) = D1
  BY <1>1, <1>2, WeekStartDay
<1>4. LocalDay(z, WeekStartMonday(z, t)) = D2
  BY WeekStartDay
<1>5. Cardinality(WeekBuckets(D1, today)) = ((D2 - D1) \div 7) + 1
  <2>1. WeekBuckets(D1, today) = WeekBuckets(D1, D2)
    BY <1>1, BucketsUpToToday
  <2> QED
    BY <1>1, <2>1, BucketsOf
<1>6. x \in Int /\ x =< 24 * (D2 - D1) + 1
  <2>1. IsFirstHour(z, D1, 0, g1) /\ IsFirstHour(z, D2, 0, g2)
    BY <1>1, FirstHours
  <2>2. z.std \in Int
    BY DEF IsZone
  <2> HIDE DEF D1, D2, g1, g2
  <2>3. /\ g1 \in Int /\ (g1 = 24 * D1 - z.std \/ g1 = 24 * D1 - z.std - 1)
        /\ g2 \in Int /\ (g2 = 24 * D2 - z.std \/ g2 = 24 * D2 - z.std - 1)
    BY <1>1, <2>1, <2>2 DEF IsFirstHour
  <2> QED
    BY <1>1, <2>2, <2>3
<1>7. weeks = 0 \/ weeks = ((x \div 24) \div 7) + 1
  BY <1>3, <1>4 DEF CountMeshMondayWeeksInclusive
<1> HIDE DEF D1, D2, today, g1, g2, x, weeks
<1>8. ((x \div 24) \div 7) \in Int /\ ((x \div 24) \div 7) =< (D2 - D1) \div 7
  <2>1. x \div 24 \in Int /\ x \div 24 =< D2 - D1
    BY <1>1, <1>6
  <2> HIDE DEF x
  <2>2. ASSUME NEW a \in Int, NEW b \in Int, a =< b
        PROVE  a \div 7 \in Int /\ a \div 7 =< b \div 7
    BY <2>2
  <2>3. D2 - D1 \in Int
    BY <1>1
  <2> QED
    BY <2>1, <2>2, <2>3
<1>9. (D2 - D1) \div 7 \in Nat
  BY <1>1
<1> QED
  BY <1>2, <1>5, <1>7, <1>8, <1>9 DEF today, weeks
-----------------------------------------------------------------------------
(***************************************************************************)
(* The check-ins of the season, and the entry of the user.                 *)
(***************************************************************************)
SeasonIInv ==
  /\ ZoneAndHour
  /\ trackFrom \in Int
  /\ IsFiniteSet(attended)
  /\ \A d \in attended : d \in MondayDates /\ d =< LocalDay(tz, hour)

LEMMA LaterDay ==
  ASSUME NEW z, IsZone(z), NEW t \in Int, NEW n \in Nat \ {0}
  PROVE  LocalDay(z, t) =< LocalDay(z, t + n)
<1> DEFINE day == LocalDay(z, t)
           day2 == LocalDay(z, t + n)
           o == Offset(z, t)
           o2 == Offset(z, t + n)
           h == LocalHour(z, t)
           h2 == LocalHour(z, t + n)
<1>1. day \in Int /\ h \in 0..23 /\ t + o = 24 * day + h
  BY InItsDay
<1>2. t + n \in Int
  OBVIOUS
<1>3. day2 \in Int /\ h2 \in 0..23 /\ (t + n) + o2 = 24 * day2 + h2
  BY <1>2, InItsDay
<1>4. o \in Int /\ o2 \in Int /\ o2 >= o - 1
  <2>1. z.std \in Int
    BY DEF IsZone
  <2> QED
    BY <1>2, <2>1, Offsets
<1> HIDE DEF day, day2, o, o2, h, h2
<1>5. 24 * day2 + h2 >= 24 * day + h
  BY <1>1, <1>3, <1>4
<1>6. day2 >= day
  BY <1>1, <1>3, <1>5
<1>7. day =< day2
  BY <1>1, <1>3, <1>6
<1> QED
  BY <1>7 DEF day, day2

LEMMA SeasonInvHolds ==
  ASSUME OrdinaryZones PROVE SeasonSpec => []SeasonIInv
<1>1. SeasonInit => SeasonIInv
  <2> SUFFICES ASSUME SeasonInit PROVE SeasonIInv
    OBVIOUS
  <2>1. tz \in Zones /\ hour = Date(tz, 0, 0)
    BY DEF SeasonInit, CalendarInit
  <2>2. IsZone(tz)
    BY <2>1, ZonesAreZones DEF OrdinaryZones
  <2>3. hour \in Int
    BY <2>1, <2>2, FirstHours DEF IsFirstHour
  <2> QED
    BY <2>1, <2>3, SeasonAssumption, FS_EmptySet
       DEF SeasonInit, SeasonIInv, ZoneAndHour
<1>2. ASSUME SeasonIInv, [HoursPass \/ CheckIn]_seasonVars PROVE SeasonIInv'
  <2>1. IsZone(tz) /\ hour \in Int
    BY <1>2, ZoneIsZone DEF SeasonIInv, ZoneAndHour
  <2>2. CASE HoursPass
    <3>1. /\ tz' = tz /\ hour' = hour + HoursPerStep
          /\ attended' = attended /\ trackFrom' = trackFrom
      BY <2>2 DEF HoursPass, PassHours
    <3>2. HoursPerStep \in Nat \ {0}
      BY SeasonAssumption
    <3>3. hour' \in Int /\ LocalDay(tz, hour) =< LocalDay(tz', hour')
      BY <2>1, <3>1, <3>2, LaterDay
    <3>4. LocalDay(tz, hour) \in Int /\ LocalDay(tz', hour') \in Int
      BY <2>1, <3>1, <3>3, InItsDay
    <3>5. ASSUME NEW d \in attended PROVE d =< LocalDay(tz', hour')
      <4>1. d \in Int /\ d =< LocalDay(tz, hour)
        BY <1>2 DEF SeasonIInv, MondayDates
      <4> QED
        BY <3>3, <3>4, <4>1
    <3> QED
      BY <1>2, <3>1, <3>3, <3>5 DEF SeasonIInv, ZoneAndHour
  <2>3. CASE CheckIn
    <3> DEFINE today == LocalDay(tz, hour)
    <3>1. /\ attended' = attended \cup {today} /\ today % 7 = 0
          /\ tz' = tz /\ hour' = hour /\ trackFrom' = trackFrom
      BY <2>3 DEF CheckIn, calendarVars, IsMondayInTZ, Weekday
    <3>2. today \in Int
      BY <2>1, InItsDay
    <3>3. LocalDay(tz', hour') = today
      BY <3>1
    <3> HIDE DEF today
    <3>4. IsFiniteSet(attended')
      BY <1>2, <3>1, FS_AddElement DEF SeasonIInv
    <3>5. ASSUME NEW d \in attended'
          PROVE  d \in MondayDates /\ d =< LocalDay(tz', hour')
      <4>1. CASE d \in attended
        BY <1>2, <3>3, <4>1 DEF SeasonIInv, today
      <4>2. CASE d = today
        BY <3>1, <3>2, <3>3, <4>2 DEF MondayDates
      <4> QED
        BY <3>1, <4>1, <4>2
    <3> QED
      BY <1>2, <3>1, <3>4, <3>5 DEF SeasonIInv, ZoneAndHour
  <2>4. CASE UNCHANGED seasonVars
    BY <1>2, <2>4 DEF SeasonIInv, ZoneAndHour, seasonVars, calendarVars
  <2> QED
    BY <1>2, <2>2, <2>3, <2>4
<1>3. SeasonIInv /\ [HoursPass \/ CheckIn]_seasonVars => SeasonIInv'
  BY <1>2
<1> QED
  BY <1>1, <1>3, PTL DEF SeasonSpec

LEMMA RowsOfTheSeason ==
  ASSUME SeasonIInv
  PROVE  /\ IsFiniteSet(CheckinsSince)
         /\ TrackedRows \in Seq(Checkins)
         /\ Len(TrackedRows) = Cardinality(CheckinsSince)
         /\ \A i \in 1..Len(TrackedRows) : TrackedRows[i].user = 1
         /\ DaysIn(TrackedRows, 1) = CheckinsSince
<1> DEFINE L == CheckinsSince
           n == Cardinality(L)
           InRow(s) == \A i, j \in DOMAIN s : i < j => s[i] < s[j]
           days == CHOOSE s \in SetToSeqs(L) : InRow(s)
           R == {p \in L \X L : p[1] < p[2]}
<1>1. IsFiniteSet(L) /\ L \subseteq MondayDates
  BY FS_Subset DEF CheckinsSince, SeasonIInv
<1>2. n \in Nat
  BY <1>1, FS_CardinalityType
<1>3. \A x \in L : x \in Int
  BY <1>1 DEF MondayDates
<1>4. Ranks(R, L)
  <2>1. \A x, y \in L : <<x, y>> \in R <=> x < y
    OBVIOUS
  <2> HIDE DEF L, R
  <2> QED
    BY <1>3, <2>1 DEF Ranks
<1>5. PICK s : InOrder(R, L, n, s)
  <2> HIDE DEF L, R
  <2> QED
    BY <1>1, <1>4, OrderExists
<1>6. s \in SetToSeqs(L) /\ InRow(s)
  <2>1. s \in [1..n -> L] /\ \A i, j \in 1..n : i < j => s[i] < s[j]
    BY <1>5 DEF InOrder
  <2>2. ASSUME NEW i \in 1..n, NEW j \in 1..n, i # j PROVE s[i] # s[j]
    <3> HIDE DEF L, n
    <3>1. i < j \/ j < i
      BY <2>2
    <3>2. s[i] \in Int /\ s[j] \in Int
      BY <1>3, <2>1
    <3> QED
      BY <2>1, <3>1, <3>2
  <2> QED
    BY <2>1, <2>2 DEF SetToSeqs
<1>7. days \in SetToSeqs(L)
  <2> HIDE DEF L, InRow
  <2> QED
    BY <1>6
<1>8. TrackedRows = [i \in DOMAIN days |-> [user |-> 1, day |-> days[i]]]
  BY DEF TrackedRows
<1> HIDE DEF days, L, n, R
<1>9. days \in [1..n -> L]
  BY <1>7 DEF SetToSeqs, n
<1>10. \A x \in L : \E i \in 1..n : days[i] = x
  BY <1>1, <1>7, AllOccur DEF n
<1>11. /\ DOMAIN TrackedRows = 1..n
       /\ \A i \in 1..n : TrackedRows[i] = [user |-> 1, day |-> days[i]]
  BY <1>8, <1>9
<1>12. TrackedRows \in [1..n -> Checkins]
  <2>1. \A i \in 1..n : [user |-> 1, day |-> days[i]] \in Checkins
    BY <1>1, <1>9 DEF Checkins
  <2> QED
    BY <1>8, <1>9, <2>1
<1>13. TrackedRows \in Seq(Checkins) /\ Len(TrackedRows) = n
  BY <1>2, <1>12
<1>14. \A i \in 1..n : TrackedRows[i].user = 1 /\ TrackedRows[i].day = days[i]
  BY <1>11
<1>15. DaysIn(TrackedRows, 1) = L
  <2>1. Range(TrackedRows) = {TrackedRows[i] : i \in 1..n}
    BY <1>11 DEF Range
  <2>2. ASSUME NEW d \in DaysIn(TrackedRows, 1) PROVE d \in L
    BY <1>9, <1>14, <2>1 DEF DaysIn
  <2>3. ASSUME NEW d \in L PROVE d \in DaysIn(TrackedRows, 1)
    BY <1>10, <1>14, <2>1 DEF DaysIn
  <2> QED
    BY <2>2, <2>3
<1> QED
  BY <1>1, <1>13, <1>14, <1>15 DEF L, n
\* The rings show whether the weeks are reached, whatever is rounded.
LEMMA FullRing ==
  ASSUME NEW n \in Nat, NEW weeks \in Nat \ {0}
  PROVE  /\ LeaderboardRingFill(n, weeks) =< 100
         /\ LeaderboardRingFill(n, weeks) = 100 <=> n >= weeks
<1> DEFINE p == (n * 100) \div weeks
           r == (n * 100) % weeks
<1>1. p \in Int /\ r \in Nat /\ r < weeks /\ n * 100 = weeks * p + r
  OBVIOUS
<1> HIDE DEF p, r
<1>2. ASSUME n >= weeks PROVE p >= 100
  <2> SUFFICES ASSUME p + 1 =< 100 PROVE FALSE
    BY <1>1
  <2>1. weeks * (p + 1) =< weeks * 100
    BY <1>1
  <2>2. weeks * (p + 1) = weeks * p + weeks
    BY <1>1
  <2> QED
    BY <1>1, <1>2, <2>1, <2>2
<1>3. ASSUME n < weeks PROVE p < 100
  <2> SUFFICES ASSUME 100 =< p PROVE FALSE
    BY <1>1
  <2>1. weeks * 100 =< weeks * p
    BY <1>1
  <2> QED
    BY <1>1, <1>3, <2>1
<1>4. LeaderboardRingFill(n, weeks) = IF p > 100 THEN 100 ELSE p
  BY DEF LeaderboardRingFill, p
<1> QED
  BY <1>1, <1>2, <1>3, <1>4

LEMMA RunIsFromStart ==
  ASSUME NEW S, NEW start \in Int, NEW n \in Nat, NEW m \in Nat, m =< n,
         RunIn(S, start, n)
  PROVE  RunIn(S, start, m)
BY DEF RunIn

\* A run in a finite set of days is no longer than that set.
LEMMA RunFits ==
  ASSUME NEW S, IsFiniteSet(S), NEW start \in Int, NEW n \in Nat,
         RunIn(S, start, n)
  PROVE  n =< Cardinality(S)
<1> DEFINE f == [k \in 1..n |-> start + 7 * (k - 1)]
<1>1. f \in [1..n -> S]
  <2>1. \A k \in 1..n : k - 1 \in 0..(n - 1)
    OBVIOUS
  <2> QED
    BY <2>1 DEF RunIn
<1>2. \A i, j \in 1..n : f[i] = f[j] => i = j
  OBVIOUS
<1>3. f \in Injection(1..n, S)
  <2> HIDE DEF f
  <2> QED
    BY <1>1, <1>2 DEF Injection, IsInjective
<1>4. Cardinality(1..n) =< Cardinality(S)
  <2> HIDE DEF f
  <2> QED
    BY <1>3, FS_Injection
<1>5. Cardinality(1..n) = n
  <2>1. 1 \in Int /\ n \in Int
    OBVIOUS
  <2>2. Cardinality(1..n) = IF 1 > n THEN 0 ELSE n - 1 + 1
    BY <2>1, FS_Interval
  <2> QED
    BY <2>2
<1> QED
  BY <1>4, <1>5

LEMMA EntryOfSeason ==
  ASSUME SeasonIInv, HasEntry
  PROVE  LET entry == Entry(TrackedRows, 1)
             all == Cardinality(CheckinsSince)
         IN  /\ all \in Nat /\ entry.total = all
             /\ entry.streak \in Nat \ {0} /\ entry.streak =< all
             /\ \A d \in CheckinsSince :
                  ~RunIn(CheckinsSince, d, entry.streak + 1)
<1> DEFINE L == CheckinsSince
           entry == Entry(TrackedRows, 1)
<1>1. /\ IsFiniteSet(L) /\ TrackedRows \in Seq(Checkins)
      /\ Len(TrackedRows) = Cardinality(L)
      /\ \A i \in 1..Len(TrackedRows) : TrackedRows[i].user = 1
      /\ DaysIn(TrackedRows, 1) = L
  BY RowsOfTheSeason
<1>2. L # {}
  BY DEF HasEntry
<1>3. /\ entry.total = Len(WeeksOf(TrackedRows, 1))
      /\ entry.streak \in Nat \ {0} /\ entry.streakStart \in Int
      /\ RunIn(L, entry.streakStart, entry.streak)
      /\ \A d \in L : ~RunIn(L, d, entry.streak + 1)
  BY <1>1, <1>2, EntryOfUser
<1>4. entry.total = Cardinality(L)
  BY <1>1, <1>3, WeeksOfOne
<1>5. Cardinality(L) \in Nat
  BY <1>1, FS_CardinalityType
<1>6. entry.streak =< Cardinality(L)
  <2> DEFINE n == entry.streak
             start == entry.streakStart
  <2>1. n \in Nat /\ start \in Int /\ RunIn(L, start, n)
    BY <1>3
  <2> HIDE DEF n, start, L
  <2>2. n =< Cardinality(L)
    BY <1>1, <2>1, RunFits
  <2> QED
    BY <2>2 DEF n
<1> QED
  BY <1>3, <1>4, <1>5, <1>6

LEMMA TodayIsInt ==
  ASSUME OrdinaryZones, SeasonIInv
  PROVE  IsZone(tz) /\ hour \in Int /\ LocalDay(tz, hour) \in Int
<1>1. IsZone(tz) /\ hour \in Int
  BY ZoneIsZone DEF SeasonIInv, ZoneAndHour
<1> QED
  BY <1>1, InItsDay

\* The Mondays of a season that has check-ins.
LEMMA MondaysOfTheSeason ==
  ASSUME OrdinaryZones, SeasonIInv, HasEntry
  PROVE  LET start == SeasonStart(trackFrom)
             all == Cardinality(SeasonMondays)
         IN  /\ trackFrom =< LocalDay(tz, hour)
             /\ SeasonMondays =
                  WeekBuckets(LocalDay(tz, start), LocalDay(tz, hour))
             /\ LocalDay(tz, start) = MondayOf(trackFrom)
             /\ IsFiniteSet(SeasonMondays)
             /\ all \in Nat \ {0}
             /\ SeasonWeeks \in Nat \ {0} /\ SeasonWeeks =< all
             /\ ~SummerBeginsSince(trackFrom) => SeasonWeeks = all
<1> DEFINE start == SeasonStart(trackFrom)
           today == LocalDay(tz, hour)
           all == Cardinality(SeasonMondays)
           weeks == CountMeshMondayWeeksInclusive(tz, start, hour)
<1>1. IsZone(tz) /\ hour \in Int /\ today \in Int /\ trackFrom \in Int
  BY TodayIsInt DEF SeasonIInv
<1>2. trackFrom =< today
  <2>1. PICK d \in attended : d >= trackFrom
    BY DEF HasEntry, CheckinsSince
  <2>2. d \in Int /\ d =< today
    BY <2>1 DEF SeasonIInv, MondayDates
  <2> HIDE DEF today
  <2> QED
    BY <1>1, <2>1, <2>2
<1>3. start = WeekStartMonday(tz, Date(tz, trackFrom, 0))
  BY DEF SeasonStart
<1>4. SeasonMondays = WeekBuckets(LocalDay(tz, start), today)
  BY <1>3 DEF SeasonMondays
<1>5. LocalDay(tz, start) = MondayOf(trackFrom)
  <2>1. /\ Date(tz, trackFrom, 0) \in Int
        /\ LocalDay(tz, Date(tz, trackFrom, 0)) = trackFrom
    BY <1>1, FirstHours DEF IsFirstHour
  <2> QED
    BY <1>1, <1>3, <2>1, WeekStartDay
<1>6. all \in Nat \ {0} /\ weeks \in Int /\ weeks =< all
  <2> HIDE DEF start
  <2> QED
    BY <1>1, <1>2, <1>3, <1>4, SeasonWeeksAtMost
<1>7. IsFiniteSet(SeasonMondays)
  <2>1. MondayOf(trackFrom) \in Int
    BY <1>1, Mondays
  <2>2. IsFiniteSet(MondayOf(trackFrom)..today)
    BY <1>1, <2>1, FS_Interval
  <2>3. SeasonMondays \in SUBSET (MondayOf(trackFrom)..today)
    BY <1>4, <1>5 DEF WeekBuckets
  <2> QED
    BY <2>2, <2>3, FS_Subset
<1>8. SeasonWeeks = IF weeks < 1 THEN 1 ELSE weeks
  BY <1>3 DEF SeasonWeeks
<1>9. ~SummerBeginsSince(trackFrom) => weeks = all
  <2> SUFFICES ASSUME ~(start =< tz.spring /\ tz.spring =< hour)
               PROVE  weeks = all
    BY DEF SummerBeginsSince
  <2> HIDE DEF start
  <2> QED
    BY <1>1, <1>2, <1>3, <1>4, SeasonWeeksAre
<1> HIDE DEF start, today, all, weeks
<1>10. /\ SeasonWeeks \in Nat \ {0} /\ SeasonWeeks =< all
       /\ ~SummerBeginsSince(trackFrom) => SeasonWeeks = all
  BY <1>6, <1>8, <1>9
<1> QED
  BY <1>2, <1>4, <1>5, <1>6, <1>7, <1>10 DEF start, today, all

\* In ordinary zones, nobody who missed a Monday of the season has a full ring,
\* unless summer begins in it.
THEOREM RingsAreEarned ==
  ASSUME OrdinaryZones PROVE SeasonSpec => []FullRingsAreEarned
<1>1. SeasonIInv => FullRingsAreEarned
  <2> SUFFICES ASSUME SeasonIInv, HasEntry, ~SummerBeginsSince(trackFrom),
                      100 \in Rings
               PROVE  SeasonMondays \subseteq attended
    BY DEF FullRingsAreEarned
  <2> DEFINE L == CheckinsSince
             today == LocalDay(tz, hour)
             entry == Entry(TrackedRows, 1)
  <2>1. /\ SeasonMondays = WeekBuckets(MondayOf(trackFrom), today)
        /\ IsFiniteSet(SeasonMondays)
        /\ SeasonWeeks \in Nat \ {0}
        /\ SeasonWeeks = Cardinality(SeasonMondays)
    BY MondaysOfTheSeason
  <2>2. /\ Cardinality(L) \in Nat /\ entry.total = Cardinality(L)
        /\ entry.streak \in Nat /\ entry.streak =< Cardinality(L)
    BY EntryOfSeason
  <2>3. PICK n \in {entry.total, entry.streak} :
               LeaderboardRingFill(n, SeasonWeeks) = 100
    BY DEF Rings
  <2>4. n \in Nat /\ n =< Cardinality(L)
    BY <2>2
  <2>5. n >= SeasonWeeks
    BY <2>1, <2>3, <2>4, FullRing
  <2>6. L \in SUBSET SeasonMondays
    <3>1. today \in Int /\ trackFrom \in Int
      BY TodayIsInt DEF SeasonIInv
    <3>2. MondayOf(trackFrom) \in Int /\ MondayOf(trackFrom) =< trackFrom
      BY <3>1, Mondays
    <3>3. ASSUME NEW d \in L PROVE d \in SeasonMondays
      <4>1. d \in Int /\ d % 7 = 0 /\ trackFrom =< d /\ d =< today
        BY <3>1 DEF CheckinsSince, SeasonIInv, MondayDates
      <4>2. MondayOf(trackFrom) =< d
        BY <3>1, <3>2, <4>1
      <4> HIDE DEF today
      <4>3. d \in MondayOf(trackFrom)..today
        BY <3>1, <3>2, <4>1, <4>2
      <4> QED
        BY <2>1, <4>1, <4>3 DEF WeekBuckets, Weekday
    <3> QED
      BY <3>3
  <2> HIDE DEF L, entry
  <2>7. Cardinality(L) =< Cardinality(SeasonMondays)
    BY <2>1, <2>6, FS_Subset
  <2>8. Cardinality(L) = Cardinality(SeasonMondays)
    BY <2>1, <2>2, <2>4, <2>5, <2>7
  <2>9. L = SeasonMondays
    BY <2>1, <2>6, <2>8, FS_Subset
  <2> QED
    BY <2>9 DEF L, CheckinsSince
<1>2. SeasonSpec => []SeasonIInv
  BY SeasonInvHolds
<1> QED
  BY <1>1, <1>2, PTL

\* In ordinary zones, who checked in on every Monday of a season that starts on
\* one has both rings full, however clocks change.
THEOREM AttendanceShows ==
  ASSUME OrdinaryZones, \A day \in TrackFromDates : Weekday(day) = 0
  PROVE  SeasonSpec => []AttendanceFillsTheRings
<1>1. SeasonIInv /\ Weekday(trackFrom) = 0 => AttendanceFillsTheRings
  <2> SUFFICES ASSUME SeasonIInv, Weekday(trackFrom) = 0, HasEntry,
                      SeasonMondays \subseteq attended
               PROVE  Rings = {100}
    BY DEF AttendanceFillsTheRings
  <2> DEFINE L == CheckinsSince
             today == LocalDay(tz, hour)
             entry == Entry(TrackedRows, 1)
             all == Cardinality(SeasonMondays)
  <2>0. today \in Int /\ trackFrom \in Int
    BY TodayIsInt DEF SeasonIInv
  <2>1. MondayOf(trackFrom) = trackFrom
    BY <2>0 DEF MondayOf
  <2>2. /\ SeasonMondays = WeekBuckets(trackFrom, today)
        /\ IsFiniteSet(SeasonMondays) /\ all \in Nat \ {0}
        /\ SeasonWeeks \in Nat \ {0} /\ SeasonWeeks =< all
        /\ trackFrom =< today
    BY <2>1, MondaysOfTheSeason
  <2>3. /\ Cardinality(L) \in Nat /\ entry.total = Cardinality(L)
        /\ entry.streak \in Nat
        /\ \A d \in L : ~RunIn(L, d, entry.streak + 1)
    BY EntryOfSeason
  <2>4. SeasonMondays \in SUBSET L
    BY <2>2 DEF CheckinsSince, WeekBuckets
  <2>5. entry.total >= all
    <3>1. IsFiniteSet(L)
      BY RowsOfTheSeason
    <3> HIDE DEF L, all
    <3>2. Cardinality(SeasonMondays) =< Cardinality(L)
      BY <2>4, <3>1, FS_Subset
    <3> QED
      BY <2>2, <2>3, <3>2 DEF all
  <2>6. entry.streak >= all
    <3> SUFFICES ASSUME entry.streak + 1 =< all PROVE FALSE
      BY <2>2, <2>3
    <3>1. trackFrom \in SeasonMondays
      BY <2>0, <2>2 DEF WeekBuckets
    <3>2. all = ((MondayOf(today) - trackFrom) \div 7) + 1
      <4>1. MondayOf(today) \in Int /\ MondayOf(today) % 7 = 0
        BY <2>0, Mondays DEF Weekday
      <4>2. trackFrom =< MondayOf(today)
        BY <2>0, <2>1, <2>2, EarlierMonday
      <4>3. SeasonMondays = WeekBuckets(trackFrom, MondayOf(today))
        BY <2>0, <2>2, BucketsUpToToday
      <4>4. trackFrom % 7 = 0
        BY DEF Weekday
      <4> HIDE DEF today
      <4> QED
        BY <2>0, <4>1, <4>2, <4>3, <4>4, BucketsOf
    <3>3. RunIn(L, trackFrom, all)
      <4>1. /\ MondayOf(today) \in Int /\ MondayOf(today) =< today
            /\ MondayOf(today) % 7 = 0 /\ trackFrom % 7 = 0
        BY <2>0, Mondays DEF Weekday
      <4> HIDE DEF today, all, L
      <4>2. ASSUME NEW k \in 0..(all - 1)
            PROVE  /\ trackFrom + 7 * k \in trackFrom..today
                   /\ (trackFrom + 7 * k) % 7 = 0
        <5>1. k \in Nat /\ k =< (MondayOf(today) - trackFrom) \div 7
          BY <2>0, <2>2, <3>2, <4>1
        <5>2. trackFrom + 7 * k =< MondayOf(today)
          BY <2>0, <4>1, <5>1
        <5> QED
          BY <2>0, <4>1, <5>1, <5>2
      <4>3. ASSUME NEW k \in 0..(all - 1) PROVE trackFrom + 7 * k \in L
        BY <2>2, <2>4, <4>2 DEF WeekBuckets, Weekday
      <4> QED
        BY <4>3 DEF RunIn
    <3> DEFINE m == entry.streak + 1
    <3>4. m \in Nat /\ m =< all /\ all \in Nat
      BY <2>2, <2>3
    <3> HIDE DEF m, all, L
    <3>5. RunIn(L, trackFrom, m)
      BY <2>0, <3>3, <3>4, RunIsFromStart
    <3> QED
      BY <2>3, <2>4, <3>1, <3>5 DEF m
  <2> HIDE DEF entry, all
  <2>7. entry.total \in Nat /\ entry.total >= SeasonWeeks
    BY <2>2, <2>3, <2>5
  <2>8. entry.streak >= SeasonWeeks
    BY <2>2, <2>3, <2>6
  <2>9. /\ LeaderboardRingFill(entry.total, SeasonWeeks) = 100
        /\ LeaderboardRingFill(entry.streak, SeasonWeeks) = 100
    BY <2>2, <2>3, <2>7, <2>8, FullRing
  <2> QED
    BY <2>9 DEF Rings, entry
<1>2. SeasonSpec => []SeasonIInv
  BY SeasonInvHolds
<1>3. SeasonSpec => [](Weekday(trackFrom) = 0)
  <2>1. SeasonInit => Weekday(trackFrom) = 0
    BY DEF SeasonInit
  <2>2. Weekday(trackFrom) = 0 /\ [HoursPass \/ CheckIn]_seasonVars
          => (Weekday(trackFrom) = 0)'
    BY DEF HoursPass, CheckIn, seasonVars, Weekday
  <2> QED
    BY <2>1, <2>2, PTL DEF SeasonSpec
<1> QED
  BY <1>1, <1>2, <1>3, PTL
=============================================================================
