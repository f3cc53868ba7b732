CONSTANTS
  Machine = {m1, m2}
  Service = {f}
  Ip = {a}
  Worker = {w1, w2}
  Resolver = {}
  Visited = {a}
  Faults = {}
  None = none
  Blank = blank
  MinTries = 2
  CountWrap = 5
SPECIFICATION Spec
SYMMETRY SymmetricGoroutines
INVARIANTS DelayDividesOnlyAfterRaces
CHECK_DEADLOCK FALSE
