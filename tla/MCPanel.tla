------------------------------- MODULE MCPanel -------------------------------
(* Two sites and two clicks: a command, and one more while it runs.        *)
EXTENDS Panel
=============================================================================
