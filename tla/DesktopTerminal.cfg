CONSTANTS
  Arrivals = 2
  Ptys = {p1}
  Capacity = 1
  MaxOutputs = 2
  MaxMessages = 1
SPECIFICATION FairTerminalSpec
INVARIANT TerminalTypeOK
INVARIANT TerminalIsTrue
INVARIANT NothingLeftOpen
CHECK_DEADLOCK FALSE
PROPERTY ShutdownConverges
