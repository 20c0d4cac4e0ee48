SPECIFICATION LiveSpec
CONSTANTS
  p1 = p1
  p2 = p2
  p3 = p3
  u1 = u1
  u2 = u2
  Packets <- MCPackets
  Users <- MCUsers
  Observers = {o1}
  Iatas = {sea}
  Handlers = {h1}
  NoMessage = NoMessage
  NoSender = NoSender
  IngestSender <- MCIngestSender
  RestoreSender <- MCIngestSender
  Env <- Nothing
  MaxWeek = 1
  MaxRaw = 3
  Retain = 0
  ScanBatch = 2
  DeleteChunk = 1
  Requests = {r1, r2}
  Nobody = Nobody
  MaxCheckins = 2
  ann = ann
  bob = bob
  joe = joe
  People <- ThreePeople
  Queries <- SomeQueries
  Zones <- MostZones
  LastDay = 15
  TrackFromDates <- MondayStarts
  HoursPerStep = 12
CHECK_DEADLOCK FALSE
INVARIANTS
  TableIsOneComputation
  ShowsMatches
  WeekStartIsMonday
  WeeksCountedUnlessSummerBegins
  FullRingsAreEarned
  AttendanceFillsTheRings
PROPERTIES
  TaggedPacketAppears
  AmbientTrafficPruned
  AnswersNeverGoBack
  LockIsReleased
  HolesClose
  ClockSpec
