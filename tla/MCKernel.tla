------------------------------ MODULE MCKernel ------------------------------
(* Small instances of the kernel for TLC. *)
EXTENDS KernelProperties, TLC

(* The created threads are interchangeable; so are the semaphores. *)
Symmetry == Permutations(User) \cup Permutations(Sem)
=============================================================================
