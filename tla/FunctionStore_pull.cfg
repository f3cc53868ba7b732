CONSTANTS
  Fn = {f}
  Image = {i}
  Digest = {d}
  Proc = {p, q}
  None = none
  AlwaysPull = TRUE
SPECIFICATION StoreSpec
INVARIANTS AlwaysPullHonoured
