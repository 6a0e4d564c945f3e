SPECIFICATION Spec
CONSTANTS
  Peers = {p1, p2}
  Indices = {0, 1}
  Brought <- OneBrought
  MaxConns = 2
  MaxBusy = 3
  None = none
SYMMETRY ClientSymmetry
INVARIANTS
  WireGuardTypeOK
  AddressesDistinct
  AddressIsStable
  NoLeakedConnection
  AnnouncedIsWithdrawn
CHECK_DEADLOCK FALSE
