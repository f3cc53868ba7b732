CONSTANTS
  Machine = {m1, m2}
  Service = {f, g}
  Ip = {a, b}
  Worker = {w1, w2}
  Resolver = {}
  Visited = {}
  Faults = {}
  None = none
  Blank = blank
  MinTries = 2
  CountWrap = 2
SPECIFICATION Spec
SYMMETRY Symmetric
INVARIANTS TypeOK ListExact CopyRunsOverOnlyAfterRaces
CHECK_DEADLOCK FALSE
