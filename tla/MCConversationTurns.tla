------------------------ MODULE MCConversationTurns ------------------------
EXTENDS ConversationTurns, TLC

Symmetry ==
  Permutations(Calls) \cup Permutations(Conversations) \cup Permutations(UserMessages)
=============================================================================
