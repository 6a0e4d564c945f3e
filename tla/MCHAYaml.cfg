SPECIFICATION Spec
CONSTANTS
  n1 = n1  n2 = n2  n3 = n3  f1 = f1
  Callers = {boot}
  Subnets = {n1, n2}
  Foreign = {f1}
  UserConfigs <- SomeConfigs
  NoConfig = noconfig
  SubnetList <- TwoSubnets
  Scalar = scalar
  Unreadable = unreadable
  InitFiles <- ScalarFiles
INVARIANT
  FileEndsTrusted
CHECK_DEADLOCK FALSE
