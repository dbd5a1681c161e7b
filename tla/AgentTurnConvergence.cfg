\* Both turns fit in the dispatcher, so that they meet at the conversation
\* lock; no event frame fits the body, so that the run stays small.
CONSTANTS
  Streams <- MCStreams
  RequestIds <- MCRequestIds
  Conversation <- MCConversation
  Capacity = 2
  QueueCapacity = 1
  FrameLimit = 1
  BodyLimit = 2
  Reserve = 1
SPECIFICATION FairSpec
INVARIANT RunsAreOwned
PROPERTY TurnsConverge
CHECK_DEADLOCK FALSE
