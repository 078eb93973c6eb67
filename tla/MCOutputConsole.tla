-------------------------- MODULE MCOutputConsole --------------------------
(* Two users and a buffer of two characters for TLC. *)
EXTENDS OutputConsoleProperties
=============================================================================
