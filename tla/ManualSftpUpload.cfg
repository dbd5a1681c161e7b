\* Two requests at a time.
CONSTANTS
  Requests = {r1, r2}
  Chunks <- MCChunks
  Source <- MCSource
SPECIFICATION Spec
INVARIANTS
  TypeOK
  OutcomeIsTrue
  NothingIsLeftBehind
PROPERTY NoBlindOverwrite
CHECK_DEADLOCK FALSE
