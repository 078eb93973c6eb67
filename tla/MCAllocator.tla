---------------------------- MODULE MCAllocator ----------------------------
(* A small heap for TLC. *)
EXTENDS AllocatorProperties
=============================================================================
