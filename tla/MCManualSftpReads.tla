------------------------- MODULE MCManualSftpReads -------------------------
(* ManualSftpReads with two requests at a time and two channels.            *)
EXTENDS ManualSftpReads, TLC

\* Only safety is checked, and nothing distinguishes two requests.
Symmetry == Permutations(Calls)
=============================================================================
