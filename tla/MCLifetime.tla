----------------------------- MODULE MCLifetime -----------------------------
(* Three objects and memory for two PCBs for TLC. *)
EXTENDS LifetimeProperties

Symmetry == Permutations(Object) \cup Permutations(Memory)
=============================================================================
