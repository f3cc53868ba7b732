CONSTANTS
  Machine = {m1, m2}
  Service = {f}
  Worker = {w1, w2}
  Checker = checker
  None = none
  MaxReplicas = 2
  Faults = {"setup", "start", "vm"}
SPECIFICATION FairSpec
PROPERTIES ScaleReturns DeathIsNoticed
CHECK_DEADLOCK FALSE
