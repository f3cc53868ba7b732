SPECIFICATION Spec
CONSTANTS
  Machine = {m1, m2, m3}
  Fn = {f, g}
  None = None
  Pool = 2
INVARIANTS TypeOK RoutesToOwn ListsExact BlankOnlyAfterSharing Inductive
CHECK_DEADLOCK FALSE
