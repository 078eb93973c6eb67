------------------------- MODULE LifetimeProperties -------------------------
(***************************************************************************)
(* What makes it safe to delete a Thread.                                  *)
(***************************************************************************)
EXTENDS Lifetime

(* The handle of an object that was started names the PCB made for it,     *)
(* exited or not, until ~Thread itself has freed it.  This is so because   *)
(* thread_exit never gets to its delete: ~Thread would otherwise mark and  *)
(* free a PCB that may have become another thread's.                       *)
HandlesOwn ==
  \A o \in Object : handle[o] # None /\ phase[o] # "freed" =>
    handle[o] \in allocated /\ owner[handle[o]] = o

(* A thread whose object is being deleted or is deleted, with its PCB      *)
(* ready or in some waiting list, is not switched to again, on a stack     *)
(* that may be freed: not in the middle of ~Thread, and not after it       *)
(* unless, before the last list dropped it, something else was written     *)
(* into the PCB's memory.  The mark ~Thread leaves in the PCB, freed or    *)
(* not, is what makes get drop it.                                         *)
DeletedNeverRuns == running.of \in deleted => running.of \in overwritten
=============================================================================
