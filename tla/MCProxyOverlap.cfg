SPECIFICATION LiveSpec
CONSTANTS
  t1 = t1  t2 = t2  r1 = r1
  Workers = {w1, w2}
  Ops <- Overlapping
  Ids = {ui}
  EdgeID = ui
  Ports = {8000, 8001}
  Targets = {t1}
  Routes = {r1}
  HATarget = t1
  Requests <- ToggleOrRefused
  Keep = keep
  Names = {tun0}
  Ips = {ip0}
  NoIp = noip
  Slots = {1, 2, 3}
  None = none
  Unborn = unborn
  Gone = gone
  InitRows <- FreshTable
  MaxStarts = 1
  maxBindRetries = 2
  DbMayFail = FALSE
  ListenMayFail = FALSE
  SyncMayDrop = FALSE
  StopMayTimeOut = FALSE
  OrderedNotifications = TRUE
INVARIANTS
  NoMissedListener
PROPERTIES
  OperationsReturn
  StopReleases
