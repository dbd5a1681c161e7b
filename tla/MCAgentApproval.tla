-------------------------- MODULE MCAgentApproval --------------------------
EXTENDS AgentApproval

\* One Run bound to one SSH session.
MCRuns      == {"r1"}
MCSessions  == {"s1"}
MCSessionOf == [r \in MCRuns |-> "s1"]
=============================================================================
