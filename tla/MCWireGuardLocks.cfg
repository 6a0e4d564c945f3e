SPECIFICATION LiveSpec
CONSTANTS
  Peers = {p1}
  Indices = {0, 1}
  Brought = {}
  MaxConns = 1
  MaxBusy = 7
  None = none
PROPERTIES
  ActorsReturn
CHECK_DEADLOCK FALSE
