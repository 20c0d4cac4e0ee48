SPECIFICATION Spec
CONSTANTS
  p1 = p1
  p2 = p2
  p3 = p3
  u1 = u1
  u2 = u2
  Packets <- TwoPackets
  Users <- MCUsers
  Observers = {o1}
  Iatas = {sea}
  Handlers = {h1}
  NoMessage = NoMessage
  NoSender = NoSender
  IngestSender <- OneTagged
  RestoreSender <- OneTagged
  Env <- Crashes
  MaxWeek = 1
  MaxRaw = 3
  Retain = 0
  ScanBatch = 1
  DeleteChunk = 1
PROPERTY ReportedPacketsOnBoard
