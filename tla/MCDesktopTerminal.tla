------------------------- MODULE MCDesktopTerminal -------------------------
(* DesktopTerminal with one terminal and a few connections. *)
EXTENDS DesktopTerminal, TLC
=============================================================================
