------------------------ MODULE ReadyListProperties ------------------------
(***************************************************************************)
(* When the ready list can be trusted to be the queue that the other       *)
(* modules take it for.                                                    *)
(***************************************************************************)
EXTENDS ReadyList

(* The running thread is not in the middle of a put. *)
AtRest ==
  \A t \in Threads : running = t => pc[t] \notin Critical \cup {"close"}

(* The list holds just the threads in the order in which they were put, it *)
(* ends where tail says, and no node is in use twice or left behind, until *)
(* a handler hits PCB::run's put before one of three steps, which are      *)
(* between the search of mem_alloc and its marking and between reading the *)
(* place for the node and filling it in, or finds the put's thread         *)
(* terminated before it has ended the list, or empties the list before the *)
(* last two steps.  A handler that comes at any other moment does no harm. *)
ListIsQueue ==
  ~raced /\ AtRest =>
    LET c == Chain(list) IN
    /\ [i \in DOMAIN c |-> list.thread[c[i]]] = queue
    /\ list.tail = IF c = <<>> THEN Null ELSE Last(c)
    /\ used = ToSet(c) \cup {node[t] : t \in {u \in Threads : pc[u] = "place"}}

(* Until then the list needs no more nodes than there are threads,         *)
(* finished ones that get has not met yet and those of suspended puts      *)
(* included, and none of its users follows a null pointer.                 *)
NodesSuffice == ~raced => ~fault
=============================================================================
