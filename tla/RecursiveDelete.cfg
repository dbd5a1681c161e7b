\* Two requests at a time, a directory of two entries.
CONSTANTS
  Requests = {r1, r2}
  Entries = {a, b}
  Foreign = x
SPECIFICATION Spec
INVARIANTS
  TypeOK
  RecordsAreTrue
PROPERTY ConfirmedOnly
SYMMETRY Symmetry
CHECK_DEADLOCK FALSE
