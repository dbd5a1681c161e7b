CONSTANTS
  Arrivals = 1
  Ptys = {p1}
  Capacity = 1
  MaxOutputs = 3
  MaxMessages = 0
SPECIFICATION TerminalSpec
INVARIANT OutputInOrder
CHECK_DEADLOCK FALSE
