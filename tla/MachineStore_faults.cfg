CONSTANTS
  Machine = {m1, m2}
  Service = {f, g}
  Worker = {w1, w2}
  Checker = checker
  None = none
  MaxReplicas = 2
  Faults = {"prepare", "setup", "setup_hook", "start", "start_hook", "get", "get_hook", "lookup", "stop", "stop_hook", "unlink", "vm", "crash"}
SPECIFICATION Spec
SYMMETRY Symmetric
INVARIANTS TypeOK   Inductive
PROPERTIES ImplementsReplicaSet
CHECK_DEADLOCK FALSE
