--------------------------- MODULE MCInputConsole ---------------------------
(* Three readers and a buffer of two keys for TLC. *)
EXTENDS InputConsoleProperties
=============================================================================
