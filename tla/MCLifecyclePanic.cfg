SPECIFICATION Spec
CONSTANTS
  Ids = {e1}
  NoId = noid
  Missing = missing
  Unreadable = unreadable
  Clients = {c1}
INVARIANTS
  NoPanic
