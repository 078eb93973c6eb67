----------------------------- MODULE Semaphores -----------------------------
(***************************************************************************)
(* What Sem promises its callers: a counting semaphore with a first-in,    *)
(* first-out queue, from sem_open to sem_close.                            *)
(***************************************************************************)
EXTENDS Integers, Sequences

CONSTANTS Thread, Sem, InitialValues

VARIABLES
  status,   \* "new", "open" or "closed"
  permits,  \* waits that would pass at once
  queue     \* the waiting threads, first come first

vars == <<status, permits, queue>>

Init ==
  /\ status = [s \in Sem |-> "new"]
  /\ permits = [s \in Sem |-> 0]
  /\ queue = [s \in Sem |-> <<>>]

Waits(t) == \E s \in Sem : \E i \in DOMAIN queue[s] : queue[s][i] = t

Open(s, n) ==
  /\ status[s] = "new"
  /\ status' = [status EXCEPT ![s] = "open"]
  /\ permits' = [permits EXCEPT ![s] = n]
  /\ UNCHANGED queue

(* A wait takes a permit if there is one. *)
Pass(s) ==
  /\ status[s] = "open"
  /\ permits[s] > 0
  /\ permits' = [permits EXCEPT ![s] = @ - 1]
  /\ UNCHANGED <<status, queue>>

(* Otherwise its caller, which is waiting nowhere else, queues up. *)
Block(s, t) ==
  /\ status[s] = "open"
  /\ permits[s] = 0
  /\ ~Waits(t)
  /\ queue' = [queue EXCEPT ![s] = Append(@, t)]
  /\ UNCHANGED <<status, permits>>

(* A signal goes to the thread that has waited longest, or is kept. *)
Signal(s) ==
  /\ status[s] = "open"
  /\ IF queue[s] = <<>>
     THEN permits' = [permits EXCEPT ![s] = @ + 1] /\ UNCHANGED queue
     ELSE queue' = [queue EXCEPT ![s] = Tail(@)] /\ UNCHANGED permits
  /\ UNCHANGED status

(* Closing releases all waiting threads. *)
Close(s) ==
  /\ status[s] = "open"
  /\ status' = [status EXCEPT ![s] = "closed"]
  /\ permits' = [permits EXCEPT ![s] = 0]
  /\ queue' = [queue EXCEPT ![s] = <<>>]

Next ==
  \E s \in Sem :
    \/ \E n \in InitialValues : Open(s, n)
    \/ Pass(s)
    \/ \E t \in Thread : Block(s, t)
    \/ Signal(s)
    \/ Close(s)

Spec == Init /\ [][Next]_vars
=============================================================================
