--------------------------- MODULE MCTrapContext ---------------------------
(* Two user threads, main and the output thread for TLC. *)
EXTENDS TrapContextProperties, TLC

Symmetry == Permutations(Users)
=============================================================================
