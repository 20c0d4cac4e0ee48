SPECIFICATION CalendarAndSeasonSpec
CONSTANTS
  Zones <- LosAngeles
  LastDay = 15
  TrackFromDates <- MondayStarts
  HoursPerStep = 12
CHECK_DEADLOCK FALSE
INVARIANT WeeksCountedInclusive
