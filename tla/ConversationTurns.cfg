CONSTANTS
  Calls = {c1, c2, c3}
  Conversations = {v1, v2}
  UserMessages = {m1}
  Nil = Nil
  MaxIterations = 1
  RetentionPercent = 40
  MaxFaults = 1
  ClockAdvances = TRUE
SPECIFICATION Spec
INVARIANTS
  TypeOK
  HistoryIsSound
  NoCircularWait
PROPERTY OnlyLastTurnIsReplaced
SYMMETRY Symmetry
CHECK_DEADLOCK FALSE
