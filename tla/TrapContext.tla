---------------------------- MODULE TrapContext ----------------------------
(***************************************************************************)
(* TrapContext: how a thread gets back to its own instruction, in its own  *)
(* mode, with its own interrupts.  A core has one sepc and one sstatus;    *)
(* each handler keeps them in its locals while contextSwitch lets other    *)
(* threads trap, return and start.  Which thread a handler switches to is  *)
(* left open.                                                              *)
(***************************************************************************)
EXTENDS Naturals, Sequences

CONSTANTS
  Users,             \* threads with kernelThread = 0
  Main, Out          \* kernel threads: main, and the one that calls Sem::block

Threads == Users \cup {Main, Out}
Kernel == {Main, Out}

ASSUME ContextAssumption == Main # Out /\ Main \notin Users /\ Out \notin Users

VARIABLES
  running,
  pc,                              \* of the core
  mode, SIE, SPP, SPIE, sepc,      \* its privilege, sstatus and sepc
  context,                         \* PCB::Context::ra of each thread
  frames,                          \* its handlers on its stack, last one on top
  finished,
  due, dueSIE,                     \* history: where it left its body, and how
  astray                           \* history: interrupted before its first sret

csrs == <<mode, SIE, SPP, SPIE, sepc>>
vars == <<running, pc, csrs, context, frames, finished, due, dueSIE, astray>>

(* Places in the code a thread executes: the instructions of its body, of  *)
(* which only the next one matters, wrapper, popSppSpie before its csrw    *)
(* and before its sret, and its handlers.                                  *)
Body == [thread : Threads, at : {"first", "second"}]
Places == Body \cup [thread : Threads, at : {"wrapper", "pop", "sret", "handler"}]
At(t, at) == [thread |-> t, at |-> at]
After(place) == At(place.thread, IF place.at = "first" THEN "second" ELSE "first")

Modes == {"U", "S"}
Frames == [kind : {"call", "tick", "exception"}, sepc : Places,
           SPP : Modes, SPIE : BOOLEAN]

(* main has created the threads and enabled interrupts. *)
Init ==
  /\ running = Main /\ pc = At(Main, "first")
  /\ mode = "S" /\ SIE = TRUE /\ SPP = "U" /\ SPIE = TRUE /\ sepc = pc
  /\ context = [t \in Threads |-> At(t, "wrapper")]
  /\ frames = [t \in Threads |-> <<>>] /\ finished = {}
  /\ due = [t \in Threads |-> At(t, "first")]
  /\ dueSIE = [t \in Threads |-> TRUE] /\ astray = {}

-----------------------------------------------------------------------------
(* The core *)

InBody == pc \in Body
InHandler == pc.at = "handler"

TrapEntry(from) ==
  /\ sepc' = from /\ SPP' = mode /\ SPIE' = SIE
  /\ mode' = "S" /\ SIE' = FALSE /\ pc' = At(running, "handler")

Sret(to, spp, spie) ==
  /\ pc' = to /\ sepc' = to
  /\ mode' = spp /\ SIE' = spie
  /\ SPP' = "U" /\ SPIE' = TRUE

(* A handler is entered, and keeps sepc and sstatus in its locals. *)
Enter(kind, back) ==
  /\ TrapEntry(pc)
  /\ frames' = [frames EXCEPT ![running] = Append(@,
       [kind |-> kind, sepc |-> back, SPP |-> mode, SPIE |-> SIE])]

Left(place) ==
  /\ due' = [due EXCEPT ![running] = place]
  /\ dueSIE' = [dueSIE EXCEPT ![running] = SIE]

Top == frames[running][Len(frames[running])]

-----------------------------------------------------------------------------
(* Traps *)

(* A system call returns to the instruction behind the ecall. *)
BackToEcall == pc                              \* mutant: sepc + 4 is missing
BackToNext == After(pc)
Ecall ==
  /\ InBody /\ Enter("call", BackToNext) /\ Left(After(pc))
  /\ UNCHANGED <<running, context, finished, astray>>

(* A thread's own mistake, or an sret in user mode. *)
Exception ==
  /\ Enter("exception", pc)
  /\ \/ InBody /\ running \in Users /\ Left(pc)
     \/ pc.at = "sret" /\ mode = "U" /\ UNCHANGED <<due, dueSIE>>
  /\ UNCHANGED <<running, context, finished, astray>>

(* The exception's handler prints: a system call inside a handler. *)
NestedEcall ==
  /\ InHandler /\ Top.kind = "exception"
  /\ Enter("call", pc)
  /\ UNCHANGED <<running, context, finished, due, dueSIE, astray>>

InterruptibleAlways == TRUE                    \* mutant: handlers are not masked
Interruptible == mode = "U" \/ SIE

(* Any trap overwrites sepc, which popSppSpie has just written for sret.   *)
Strays ==
  astray' = astray \cup IF pc.at = "sret" /\ mode = "S" THEN {running} ELSE {}

(* A tick that ends the time slice. *)
TickPreempts ==
  /\ Interruptible /\ Strays
  /\ Enter("tick", pc)
  /\ IF InBody THEN Left(pc) ELSE UNCHANGED <<due, dueSIE>>
  /\ UNCHANGED <<running, context, finished>>

(* Handlers that leave sepc and sstatus as they are: a tick inside a slice *)
(* and a key; and, at the end of an unknown call, which is thus repeated.  *)
PassThrough ==
  /\ Interruptible \/ InBody
  /\ Strays
  /\ sepc' = pc /\ SPP' = "U" /\ SPIE' = TRUE
  /\ UNCHANGED <<running, pc, mode, SIE, context, frames, finished, due, dueSIE>>

-----------------------------------------------------------------------------
(* Switching: ra and sp are exchanged, sepc and sstatus are not. *)

contextSwitch(ra, t) ==
  /\ t # running /\ t \notin finished'
  /\ context' = [context EXCEPT ![running] = ra]
  /\ running' = t /\ pc' = context[t]
  /\ UNCHANGED <<csrs, frames, dueSIE, astray>>

(* From a handler; an exception's has finished its thread, as has that of  *)
(* thread_exit.                                                            *)
Switch(t) ==
  /\ InHandler
  /\ \/ finished' = finished \cup {running} /\ running \in Users
     \/ finished' = finished /\ Top.kind # "exception"
  /\ contextSwitch(pc, t) /\ UNCHANGED due

(* Sem::block, called by the output thread outside a handler. *)
BlockDirectly(t) ==
  /\ InBody /\ running = Out
  /\ finished' = finished
  /\ due' = [due EXCEPT ![Out] = After(pc)]
  /\ contextSwitch(After(pc), t)

-----------------------------------------------------------------------------
(* Returning *)

(* What the handler restores before sret. *)
RestoredMasked == [Top EXCEPT !.SPIE = FALSE]  \* mutant: interrupts stay off
Restored == Top
Return ==
  /\ InHandler /\ Top.kind # "exception"
  /\ Sret(Restored.sepc, Restored.SPP, Restored.SPIE)
  /\ frames' = [frames EXCEPT ![running] = SubSeq(@, 1, Len(@) - 1)]
  /\ UNCHANGED <<running, context, finished, due, dueSIE, astray>>

(* PCB::wrapper and popSppSpie: a new thread leaves the handler of the one *)
(* before it, by way of sepc.                                              *)
ModeOf(t) == IF t \in Kernel THEN "S" ELSE "U"
popSpp ==
  /\ pc.at = "wrapper" /\ pc' = At(running, "pop") /\ SPP' = ModeOf(running)
  /\ UNCHANGED <<running, mode, SIE, SPIE, sepc, context, frames, finished,
                 due, dueSIE, astray>>
WriteSepc ==
  /\ pc.at = "pop" /\ pc' = At(running, "sret") /\ sepc' = At(running, "first")
  /\ UNCHANGED <<running, mode, SIE, SPP, SPIE, context, frames, finished,
                 due, dueSIE, astray>>
popSpie ==
  /\ pc.at = "sret" /\ mode = "S"
  /\ Sret(sepc, SPP, SPIE)
  /\ dueSIE' = [dueSIE EXCEPT ![running] = SPIE]
  /\ UNCHANGED <<running, context, frames, finished, due, astray>>

Next ==
  \/ Ecall \/ Exception \/ NestedEcall \/ TickPreempts \/ PassThrough
  \/ \E t \in Threads : Switch(t) \/ BlockDirectly(t)
  \/ Return \/ popSpp \/ WriteSepc \/ popSpie

Spec == Init /\ [][Next]_vars
=============================================================================
