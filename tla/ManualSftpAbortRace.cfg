\* The abort of an upload that is being committed.
CONSTANTS
  Requests = {r1, r2}
  Chunks <- MCChunks
  Source <- MCSource
SPECIFICATION Spec
INVARIANT CancelledIsNotCommitted
CHECK_DEADLOCK FALSE
