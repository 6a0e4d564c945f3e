SPECIFICATION ClientLiveSpec
CONSTANTS
  Messages = {m}
  MaxConns = 3
  Capacity = 1
  Nothing = nothing
PROPERTIES
  Reconnects
CHECK_DEADLOCK FALSE
