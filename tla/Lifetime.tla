------------------------------ MODULE Lifetime ------------------------------
(***************************************************************************)
(* Lifetime: the objects of class Thread, and the memory of their PCBs.    *)
(* Thread::start makes the PCB, which is a list entry like any other from  *)
(* then on; ~Thread marks it and frees its stack and its memory, wherever  *)
(* its thread is at that moment, in steps of the deleting thread that      *)
(* ticks come between; and the memory goes back to the heap that serves    *)
(* every PCB, list node, semaphore and buffer.                             *)
(*                                                                         *)
(* The model takes three things from the clients in the repository: an     *)
(* object is started at most once, it is deleted once and only after it    *)
(* was started (myHandle is null before), and no thread deletes its own    *)
(* object.                                                                 *)
(***************************************************************************)
EXTENDS Naturals, Sequences, SequencesExt

CONSTANTS
  Object,      \* the Thread objects
  Main, Idle,  \* the threads made without one
  Memory,      \* places of the heap a PCB may be made in
  None         \* no PCB; a null handle

ASSUME ObjectAssumption ==
  /\ None \notin Memory /\ Main # Idle
  /\ {Main, Idle} \cap Memory = {} /\ {Main, Idle} \cap Object = {}

VARIABLES
  handle,      \* Thread::myHandle
  phase,       \* how far ~Thread is with the object
  deleter,     \* the thread that runs ~Thread for it
  allocated,   \* the places that hold a PCB
  lent,        \* the places that hold anything else
  owner,       \* history: the object for which the PCB in a place was made
  finished,    \* PCB::finishedThread, which survives mem_free
  running,     \* PCB::currentRunning and, history, the thread it was made for
  ready, away, \* the entries of Scheduler's list; of all the waiting lists
  overwritten  \* history: the objects with an entry in some list when the
               \* memory of its PCB was written by somebody else

objectVars == <<handle, phase, deleter>>
memoryVars == <<allocated, lent, owner, overwritten>>
listVars == <<running, ready, away>>
vars == <<objectVars, memoryVars, finished, listVars>>

Entry(p, t) == [pcb |-> p, of |-> t]
Named(m) == {e.of : e \in {n \in ToSet(ready) \cup away \cup {running} :
                           n.pcb = m}}

deleted == {o \in Object : phase[o] # "whole"}

Init ==
  /\ handle = [o \in Object |-> None]
  /\ phase = [o \in Object |-> "whole"] /\ deleter = [o \in Object |-> Main]
  /\ allocated = {} /\ lent = {} /\ owner = [m \in Memory |-> Main]
  /\ finished = [p \in Memory \cup {Main, Idle} |-> FALSE]
  /\ running = Entry(Main, Main) /\ ready = <<>> /\ away = {}
  /\ overwritten = {}

(* The idle thread only dispatches; ~Thread is gone through to its end. *)
InDelete(o) == deleter[o] = running.of /\ phase[o] \in {"marked", "stackless"}
AtWill == running.of # Idle /\ \A o \in Object : ~InDelete(o)

-----------------------------------------------------------------------------
(* The life of an object *)

Start(o) ==
  /\ handle[o] = None /\ AtWill
  /\ \E m \in Memory \ (allocated \cup lent) :
       /\ handle' = [handle EXCEPT ![o] = m]
       /\ allocated' = allocated \cup {m} /\ owner' = [owner EXCEPT ![m] = o]
       /\ finished' = [finished EXCEPT ![m] = FALSE]
       /\ ready' = Append(ready, Entry(m, o))
       /\ overwritten' = overwritten \cup Named(m)
  /\ UNCHANGED <<phase, deleter, lent, running, away>>

(* ~Thread marks the PCB before it frees anything. *)
MarkedNot(o) == finished                       \* mutant: it just frees it
Marked(o) == [finished EXCEPT ![handle[o]] = TRUE]
Mark(o) ==
  /\ handle[o] # None /\ phase[o] = "whole" /\ running.of # o /\ AtWill
  /\ finished' = Marked(o)
  /\ phase' = [phase EXCEPT ![o] = "marked"]
  /\ deleter' = [deleter EXCEPT ![o] = running.of]
  /\ UNCHANGED <<handle, memoryVars, listVars>>

(* ~PCB frees the stack of the thread. *)
FreeStack(o) ==
  /\ InDelete(o) /\ phase[o] = "marked"
  /\ phase' = [phase EXCEPT ![o] = "stackless"]
  /\ UNCHANGED <<handle, deleter, memoryVars, finished, listVars>>

FreePCB(o) ==
  /\ InDelete(o) /\ phase[o] = "stackless"
  /\ phase' = [phase EXCEPT ![o] = "freed"]
  /\ allocated' = allocated \ {handle[o]}
  /\ UNCHANGED <<handle, deleter, lent, owner, overwritten, finished, listVars>>

(* PeriodicThread::terminate. *)
Terminate(o) ==
  /\ handle[o] # None /\ phase[o] = "whole" /\ AtWill
  /\ finished' = [finished EXCEPT ![handle[o]] = TRUE]
  /\ UNCHANGED <<objectVars, memoryVars, listVars>>

-----------------------------------------------------------------------------
(* The heap they share with everything else *)

(* mem_alloc gives the place, or a part of it, to a list node, a semaphore *)
(* or a buffer, or puts the header of a free block into it: what was the   *)
(* mark is what that memory's new user writes, then and later.             *)
Overwrite(m) ==
  /\ m \notin allocated
  /\ lent' = lent \cup {m}
  /\ \E mark \in BOOLEAN : finished' = [finished EXCEPT ![m] = mark]
  /\ overwritten' = overwritten \cup Named(m)
  /\ UNCHANGED <<objectVars, allocated, owner, listVars>>

GiveBack(m) ==
  /\ m \in lent /\ lent' = lent \ {m}
  /\ UNCHANGED <<objectVars, allocated, owner, overwritten, finished, listVars>>

-----------------------------------------------------------------------------
(* Its thread *)

(* Scheduler::get on the list l, by the marks f, or the idle thread. *)
Switch(l, f) ==
  \/ \E i \in DOMAIN l :
       /\ ~f[l[i].pcb] /\ \A j \in 1 .. (i - 1) : f[l[j].pcb]
       /\ running' = l[i] /\ ready' = SubSeq(l, i + 1, Len(l))
  \/ /\ \A i \in DOMAIN l : f[l[i].pcb]
     /\ running' = Entry(Idle, Idle) /\ ready' = <<>>

(* A tick or thread_dispatch. *)
Dispatch ==
  /\ Switch(IF finished[running.pcb] \/ running.of = Idle THEN ready
            ELSE Append(ready, running), finished)
  /\ UNCHANGED <<objectVars, memoryVars, finished, away>>

(* The thread sleeps, waits on a semaphore or joins; its entry comes back. *)
Block ==
  /\ AtWill
  /\ away' = away \cup {running} /\ Switch(ready, finished)
  /\ UNCHANGED <<objectVars, memoryVars, finished>>
Wake ==
  \E e \in away :
    /\ away' = away \ {e} /\ ready' = Append(ready, e)
    /\ UNCHANGED <<objectVars, memoryVars, finished, running>>

(* thread_exit's delete follows a dispatch that does not come back. *)
FreedOnExit == allocated \ {running.pcb}       \* mutant: it precedes it
LeftByExit == allocated
Exit ==
  /\ running.of \in Object /\ AtWill
  /\ LET f == [finished EXCEPT ![running.pcb] = TRUE]
     IN finished' = f /\ Switch(ready, f)
  /\ allocated' = LeftByExit
  /\ UNCHANGED <<objectVars, lent, owner, overwritten, away>>

Next ==
  \/ Dispatch \/ Block \/ Wake \/ Exit
  \/ \E o \in Object :
       Start(o) \/ Mark(o) \/ FreeStack(o) \/ FreePCB(o) \/ Terminate(o)
  \/ \E m \in Memory : Overwrite(m) \/ GiveBack(m)

Spec == Init /\ [][Next]_vars
=============================================================================
