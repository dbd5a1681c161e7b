\* Two kinds of text and frames of one piece: a text of two pieces takes two
\* frames, a revision replaces it.  Two items interleave, a call has two
\* fragments, one iteration follows another call, an attempt follows another.
CONSTANTS
  Pieces = {"a", "b"}
  Chunk = 1
  Fragments = 2
  MaxAttempts = 2
  SummaryAttempts = 2
  Iterations = 1
  MaxItems = 2
  MaxText = 2
SPECIFICATION Spec
INVARIANTS
  TypeOK
  ClientSeesTheAnswer
  
  ProviderReleased
PROPERTY CancelEnds
CHECK_DEADLOCK FALSE
