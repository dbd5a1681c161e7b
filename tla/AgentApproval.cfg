\* One Run that may make two tool calls.
CONSTANTS
  Runs <- MCRuns
  Sessions <- MCSessions
  SessionOf <- MCSessionOf
  ReactLimit = 2
SPECIFICATION FairSpec
INVARIANTS
  TypeOK
  CallHistoryIsTrue
  NothingIsLeftBehind
PROPERTIES
  AuthorityContract
  RunsConverge
CHECK_DEADLOCK FALSE
