\* One dispatcher slot, one queue place, room for one event frame.
CONSTANTS
  Streams <- MCStreams
  RequestIds <- MCRequestIds
  Conversation <- MCConversation
  Capacity = 1
  QueueCapacity = 1
  FrameLimit = 1
  BodyLimit = 3
  Reserve = 1
SPECIFICATION Spec
INVARIANTS
  TypeOK
  FramesContiguous
  UndisturbedTurnIsReported
  SlotOwnership
PROPERTY OutcomeContract
CHECK_DEADLOCK FALSE
