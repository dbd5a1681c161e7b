------------------------- MODULE MCSshConnections -------------------------
(* SshConnections with a few profiles, one call at a time and two dialogs.  *)
EXTENDS SshConnections, TLC

\* The run checks safety only, and nothing distinguishes keys or connections.
Symmetry == Permutations(Connections) \cup Permutations(Keys)
=============================================================================
