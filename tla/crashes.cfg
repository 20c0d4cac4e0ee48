SPECIFICATION Spec
CONSTANTS
  p1 = p1
  p2 = p2
  p3 = p3
  u1 = u1
  u2 = u2
  Packets <- TwoPackets
  Users <- MCUsers
  Observers = {o1, o2}
  Iatas = {sea, pdx}
  Handlers = {h1}
  NoMessage = NoMessage
  NoSender = NoSender
  IngestSender <- BothTagged
  RestoreSender <- BothTagged
  Env <- Crashes
  MaxWeek = 1
  MaxRaw = 3
  Retain = 0
  ScanBatch = 2
  DeleteChunk = 1
INVARIANT CheckinsPassTheirRegion
PROPERTY TilesStay
