-------------------------- MODULE MCAgentTurnStream --------------------------
EXTENDS AgentTurnStream

\* Two turns of one conversation, under the same or under two request IDs.
MCStreams      == {"s1", "s2"}
MCRequestIds   == {"r1", "r2"}
MCConversation == [s \in MCStreams |-> "c1"]
=============================================================================
