SPECIFICATION CalendarAndSeasonSpec
CONSTANTS
  Zones <- Havana
  LastDay = 15
  TrackFromDates <- MondayStarts
  HoursPerStep = 12
CHECK_DEADLOCK FALSE
INVARIANT WeekStartIsMonday
