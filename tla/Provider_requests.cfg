CONSTANTS
  Fn = {f}
  Image = {i, j}
  Digest = {d, e}
  Proc = {p, q}
  Machine = {m1, m2}
  Target = {0, 2}
  Requests = 4
  Trouble = {"create", "reject", "vm", "restart"}
  None = none
  AlwaysPull = TRUE
SPECIFICATION Spec
SYMMETRY Symmetric
INVARIANTS TypeOK DirectoryHoldsImage Inductive HandlersFit  
 
CHECK_DEADLOCK FALSE
