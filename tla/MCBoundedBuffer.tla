-------------------------- MODULE MCBoundedBuffer --------------------------
(* A few producers and small buffers for TLC. *)
EXTENDS BoundedBufferProperties
=============================================================================
