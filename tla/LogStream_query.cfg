SPECIFICATION Spec
CONSTANTS
  Entries = 4
  Pipe = 3
INVARIANTS TypeOK StreamComplete CancelledSoon Inductive
PROPERTIES QueryCleanedUp
