---------------------------- MODULE MCPrintLock ----------------------------
(* Three threads for TLC. *)
EXTENDS PrintLockProperties
=============================================================================
