SPECIFICATION DatabaseSpec
CONSTANTS
  p1 = p1
  p2 = p2
  p3 = p3
  u1 = u1
  u2 = u2
  sea = sea
  pdx = pdx
  Packets <- MCPackets
  Users <- MCUsers
  Observers = {o1}
  Iatas = {sea, pdx}
  Handlers = {h1}
  NoMessage = NoMessage
  NoSender = NoSender
  IngestSender <- MCSender
  RestoreSender <- MCSender
  OldPackets <- MCOldPackets
  OldRawSeq = 2
  OldCheckins <- MCOldCheckins
  OldCheckinSeq = 2
  Env <- CrashesAndRestores
  MaxWeek = 1
  MaxRaw = 3
  Retain = 0
  ScanBatch = 2
  DeleteChunk = 1
  PageCount = 3
  MaxCommits = 2
\* The scripts come to their end.
CHECK_DEADLOCK FALSE
INVARIANTS
  OpenedAsOne
  IndexCanBeCreated
  NothingFoundIsMissing
  ExportedCheckinsHaveLinks
  BackupIsASnapshot
PROPERTY
  SlotsKept
