SPECIFICATION Spec
CONSTANTS
  Machine = {m1, m2, m3}
  Service = {f, g}
  None = None
INVARIANTS TypeOK NoRouteToStopped RoutedServes BaseRouteKept Inductive
