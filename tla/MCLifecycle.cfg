SPECIFICATION Spec
CONSTANTS
  Ids = {e1, e2, e3}
  NoId = noid
  Missing = missing
  Unreadable = unreadable
  Clients = {c1}
INVARIANTS
  LifecycleTypeOK
  KeepsItsEdge
  InterfacesKnown
