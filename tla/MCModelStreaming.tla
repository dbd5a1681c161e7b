-------------------------- MODULE MCModelStreaming --------------------------
(* Constants of ModelStreaming for TLC. *)
EXTENDS ModelStreaming
=============================================================================
