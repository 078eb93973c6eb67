----------------------- MODULE TrapContextProperties -----------------------
(***************************************************************************)
(* What a thread may rely upon across traps and switches.                  *)
(***************************************************************************)
EXTENDS TrapContext

(* A thread that executes its body is at the instruction where it left it, *)
(* in its own mode, whatever ran in between.  Nothing but a body runs in   *)
(* user mode, unless a trap came between the last two instructions of      *)
(* popSppSpie, when interrupts were enabled by the output thread's block:  *)
(* the thread then runs into that sret again and never gets to its body.   *)
(* This can happen to one thread only, ever.                               *)
ResumesOwn ==
  /\ InBody => pc = due[running] /\ mode = ModeOf(running) /\ running \notin astray
  /\ mode = "U" /\ ~InBody => running \in astray
  /\ \A t, u \in astray : t = u

(* It has the interrupts it had when it left: main, which in the end waits *)
(* in a loop for the output thread to empty the buffer, can be preempted   *)
(* there.  Only the output thread, which blocks outside a handler, may     *)
(* lose them.                                                              *)
InterruptsKept == InBody /\ running # Out => SIE = dueSIE[running]

(* Handlers nest at most three deep on a stack, although the output        *)
(* thread's block hands its enabled interrupts to a suspended handler,     *)
(* which a tick can then interrupt.                                        *)
NestingBounded == \A t \in Threads : Len(frames[t]) <= 3
=============================================================================
