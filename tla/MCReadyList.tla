---------------------------- MODULE MCReadyList ----------------------------
(* Three threads and as many nodes for TLC. *)
EXTENDS ReadyListProperties

Symmetry == Permutations(Threads)
=============================================================================
