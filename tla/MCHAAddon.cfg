SPECIFICATION LiveSpec
CONSTANTS
  n1 = n1  n2 = n2  n3 = n3  f1 = f1
  Callers = {boot, expose}
  Subnets = {n1, n2}
  Foreign = {f1}
  UserConfigs <- SomeConfigs
  NoConfig = noconfig
  SubnetList <- TwoSubnets
  Scalar = scalar
  Unreadable = unreadable
  InitFiles <- ListFiles
INVARIANTS
  HATypeOK
  FileEndsTrusted
PROPERTIES
  StagesWhatIsMissing
  OkIsTrusted
  RunEnds
CHECK_DEADLOCK FALSE
