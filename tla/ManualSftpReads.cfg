\* Two requests at a time, two channels; a file of two chunks, rewritten once;
\* up to four entries where three are allowed, listed two at a time.
CONSTANTS
  Calls = {c1, c2}
  Operations = {o1}
  Channels = 2
  Size = 2
  Batch = 2
  MaxEntries = 3
  MaxWrites = 1
  None = None
SPECIFICATION Spec
INVARIANTS
  TypeOK
  ReadsAreTrue
  ChannelsOwned
SYMMETRY Symmetry
CHECK_DEADLOCK FALSE
