-------------------------------- MODULE Fifo --------------------------------
(***************************************************************************)
(* A queue of bounded capacity: items leave in the order in which they     *)
(* were put, none twice.                                                   *)
(***************************************************************************)
EXTENDS Naturals, Sequences

VARIABLES queue, capacity

Init == queue = <<>>

Put ==
  /\ Len(queue) < capacity
  /\ \E i \in DOMAIN queue' : queue' = Append(queue, queue'[i])

Get == queue # <<>> /\ queue' = Tail(queue)

Next == (Put \/ Get) /\ UNCHANGED capacity

Spec == Init /\ [][Next]_<<queue, capacity>>
=============================================================================
