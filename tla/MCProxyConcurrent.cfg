SPECIFICATION Spec
CONSTANTS
  t1 = t1  t2 = t2  r1 = r1
  Workers = {w1, w2}
  Ops <- AnyOp
  Ids = {ui}
  EdgeID = ui
  Ports = {8000}
  Targets = {t1}
  Routes = {r1}
  HATarget = t1
  Requests <- ToggleOrRefused
  Keep = keep
  Names = {tun0}
  Ips = {ip0, ip1}
  NoIp = noip
  Slots = {1, 2, 3}
  None = none
  Unborn = unborn
  Gone = gone
  InitRows <- FreshTable
  MaxStarts = 1
  maxBindRetries = 1
  DbMayFail = TRUE
  ListenMayFail = TRUE
  SyncMayDrop = TRUE
  StopMayTimeOut = TRUE
  OrderedNotifications = FALSE
INVARIANTS
  NoOrphanListener
  RecordedIsBound
SYMMETRY Symmetry
