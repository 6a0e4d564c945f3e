SPECIFICATION Spec
CONSTANTS
  n1 = n1  n2 = n2  n3 = n3  f1 = f1
  Callers = {boot, expose}
  Subnets = {n1, n2, n3}
  Foreign = {f1}
  UserConfigs <- SomeConfigs
  NoConfig = noconfig
  SubnetList <- ThreeSubnets
  Scalar = scalar
  Unreadable = unreadable
  InitFiles <- NoSection
INVARIANT
  FileEndsTrusted
CHECK_DEADLOCK FALSE
