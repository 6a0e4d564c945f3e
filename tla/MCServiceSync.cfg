SPECIFICATION LiveSpec
CONSTANTS
  Messages <- SyncMessages
  MaxConns = 2
  Capacity = 1
  Nothing = nothing
  Handlers = {h1}
  Ids = {ui}
  Gone = gone
  Absent = absent
  MaxVersion = 2
  MaxMessages = 2
INVARIANTS
  SyncTypeOK
  PendingHasCallback
  OrderedUntilReconnect
  OneDialer
  OneReader
  NoLeakedConnection
  ConvergesOneAtATime
PROPERTIES
  AtMostOnce
  LoopEnds
  CloseEnds
CHECK_DEADLOCK FALSE
