SPECIFICATION Spec
CONSTANTS
  p1 = p1
  p2 = p2
  p3 = p3
  u1 = u1
  u2 = u2
  Packets <- MCPackets
  Users <- MCUsers
  Observers = {o1, o2}
  Iatas = {sea}
  Handlers = {h1, h2}
  NoMessage = NoMessage
  NoSender = NoSender
  IngestSender <- MCIngestSender
  RestoreSender <- MCRestoreSender
  Env <- Nothing
  MaxWeek = 1
  MaxRaw = 2
  Retain = 0
  ScanBatch = 2
  DeleteChunk = 1
SYMMETRY Interchangeable
INVARIANTS
  TaggedPacketsOnBoard
  BadgesComplete
PROPERTY LinksKept
