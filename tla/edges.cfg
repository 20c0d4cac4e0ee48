SPECIFICATION EdgesSpec
CONSTANTS
  t1 = t1
  t2 = t2
  Topics <- TwoTopics
  Refusing = TRUE
  MaxConnections = 2
  Headers <- AllRoutes
  PathBytes <- TrickyBytes
  TransportCodes <- TrickyCodes
  Payloads <- TrickyPayloads
  MaxHops = 2
  Regions <- MCRegions
  LongWords <- MCLongWords
  MaxEntries = 2
  MaxPublished = 2
  NoSender = NoSender
  Senders <- SomeNames
  Channels <- ChannelNames
  PrivateKeys = {"k"}
  HashByte <- SharedByte
  MaxHashtags = 2
  MaxMessages = 2
  Statements = 4
  Retries = 3
  BusyTimeout = 5
  RetryDelay = 1
  Users <- TwoUsers
  Days <- FiveMondays
  MaxRows = 5
\* Every component comes to an end here: a client that is closed, a call that
\* returns, a bound that is reached.
CHECK_DEADLOCK FALSE
INVARIANTS
  TopicsCovered
  CopiesCarryTheMessage
  CutFramesDoNotShift
  ShownIfAskedFor
  EveryListedChannelIsHeard
  TilesHaveSenders
  HandlerIsBrief
  StreaksAreLongest
  RankingIsDetermined
PROPERTIES
  SubscriptionsEstablished
