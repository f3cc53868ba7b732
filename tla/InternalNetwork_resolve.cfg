CONSTANTS
  Machine = {m1, m2}
  Service = {f, g}
  Ip = {a, b}
  Worker = {w1}
  Resolver = {r1}
  Visited = {a}
  Faults = {}
  None = none
  Blank = blank
  MinTries = 1
  CountWrap = 5
SPECIFICATION Spec
SYMMETRY SymmetricGoroutines
INVARIANTS ResolvesOwnAddress  Inductive
CHECK_DEADLOCK FALSE
