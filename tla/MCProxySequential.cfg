SPECIFICATION Spec
CONSTANTS
  t1 = t1  t2 = t2  r1 = r1
  Workers = {w1}
  Ops <- OneAtATime
  Ids = {ui, s1}
  EdgeID = ui
  Ports = {8000, 8001}
  Targets = {t1, t2}
  Routes = {r1}
  HATarget = t2
  Requests <- RetargetOrToggle
  Keep = keep
  Names = {tun0, tun1}
  Ips = {ip0, ip1}
  NoIp = noip
  Slots = {1, 2}
  None = none
  Unborn = unborn
  Gone = gone
  InitRows <- FreshTable
  MaxStarts = 1
  maxBindRetries = 3
  DbMayFail = FALSE
  ListenMayFail = FALSE
  SyncMayDrop = FALSE
  StopMayTimeOut = FALSE
  OrderedNotifications = TRUE
INVARIANTS
  TypeOK
  NoMissedListener
  RunningIsEnabled
  ServesStoredTarget
  ToldIsStored
  TunnelPortsDistinct
