--------------------------- MODULE MCKernelClock ---------------------------
(* A small instance of the kernel with its clock. *)
EXTENDS KernelClock, TLC

Symmetry == Permutations(User)
=============================================================================
