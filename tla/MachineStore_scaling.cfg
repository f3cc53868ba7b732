CONSTANTS
  Machine = {m1, m2, m3}
  Service = {f}
  Worker = {w1, w2, w3}
  Checker = checker
  None = none
  MaxReplicas = 3
  Faults = {}
SPECIFICATION Spec
SYMMETRY Symmetric
INVARIANTS ScaleFloor DeletionFindsMachine
PROPERTIES NoResurrection
