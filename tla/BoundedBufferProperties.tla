---------------------- MODULE BoundedBufferProperties ----------------------
(***************************************************************************)
(* What Buffer, and the test program around it, have to guarantee.         *)
(***************************************************************************)
EXTENDS BoundedBuffer, FiniteSetsExt

Inside(places) == Cardinality({t \in Threads : pc[t] \in places})

(* Threads that wait are behind their line, but have not got past it. *)
Got(s, places) == Inside(places) - Len(waiting[s])

(***************************************************************************)
(* Every slot is free, filled, or in the hands of one thread that puts or  *)
(* gets, however put and get are interleaved: no slot leaks and none is    *)
(* used for two items.                                                     *)
(***************************************************************************)
SlotsBalanced ==
  pc[Main] \in {"ask", "await"} =>
    n = Max({value["spaceAvailable"], 0}) + Max({value["itemAvailable"], 0})
        + Got("spaceAvailable", {"lockTail", "write", "advanceTail",
                                 "releaseTail", "offer"})
        + Got("itemAvailable", {"lockHead", "advanceHead", "releaseHead",
                                "free"})

(* An item put into its slot stays there until tail has passed it: no      *)
(* second producer writes there meanwhile.                                 *)
NothingOverwritten ==
  \A t \in Producers : pc[t] = "advanceTail" => buffer[tail] = Item(t)

queue == [i \in 1 .. ((tail - head) % cap) |-> buffer[(head + i - 1) % cap]]

(* The buffer is not deleted while a thread still uses it. *)
DeletedLast ==
  pc[Main] \in {"getCnt", "counted", "end"} /\ Accepts =>
    \A t \in Threads \ {Main} : pc[t] = "end"

Promise == INSTANCE Fifo WITH capacity <- n

(* The ring is a bounded queue. *)
ImplementsFifo == Promise!Spec

-----------------------------------------------------------------------------
(* The kernel gives every ready thread the processor again and again, and  *)
(* the user ends the input.                                                *)
AllThreads == UNION {0 .. (k + 1) : k \in ThreadNums}

FairSpec ==
  Spec /\ WF_vars(mainStart) /\ \A t \in AllThreads : WF_vars(Thread(t))

(* The program ends, whatever the numbers and the interleaving.  After     *)
(* threadEnd the consumer leaves, and what producers still put must fit;   *)
(* that is what the program's test of its two numbers is for.              *)
ProgramEnds == <>(pc[Main] = "end")
=============================================================================
