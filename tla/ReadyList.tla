----------------------------- MODULE ReadyList -----------------------------
(***************************************************************************)
(* ReadyList: the ready list as the linked list it is.  In a trap handler  *)
(* Scheduler::put and get are undisturbed and are single steps.  PCB::run  *)
(* calls put in thread code, where an interrupt may come between any two   *)
(* accesses to the list, and its handler puts and gets in the middle.      *)
(***************************************************************************)
EXTENDS Naturals, FiniteSets, Sequences, SequencesExt, FiniteSetsExt

CONSTANTS
  Threads, Idle,     \* the threads, and PCB::idleThread
  Nodes              \* what mem_alloc can hand out: 1 .. n

Null == 0

ASSUME ListAssumption ==
  Idle \notin Threads /\ IsFiniteSet(Nodes) /\ Nodes = 1 .. Cardinality(Nodes)

VARIABLES
  running, away, finished,  \* away: asleep, blocked or joined
  list,                     \* head and tail; next and thread of each node
  used,                     \* the nodes allocated
  pc, arg, node, place,     \* of PCB::run's put: its step and its registers
  fault,                    \* a null, cyclic or unwritten list was followed
  queue,                    \* history: the threads in the order of their puts
  raced                     \* history: a handler has come in between, see Hit

putVars == <<pc, arg, node, place>>
vars == <<running, away, finished, list, used, putVars, fault, queue, raced>>

Init ==
  /\ running \in Threads /\ away = Threads \ {running} /\ finished = {}
  /\ list = [head |-> Null, tail |-> Null, next |-> [n \in Nodes |-> Null],
             thread |-> [n \in Nodes |-> Idle]]
  /\ used = {}
  /\ pc = [t \in Threads |-> "body"] /\ arg = [t \in Threads |-> t]
  /\ node = [t \in Threads |-> Null] /\ place = [t \in Threads |-> Null]
  /\ fault = FALSE /\ queue = <<>> /\ raced = FALSE

-----------------------------------------------------------------------------
(* The list *)

(* The nodes from head on; of a cyclic list more than there are. *)
Chain(l) ==
  LET walk[i \in 0 .. Cardinality(Nodes)] ==
        IF i = 0 THEN l.head
        ELSE IF walk[i - 1] = Null THEN Null ELSE l.next[walk[i - 1]]
      reached == {i \in DOMAIN walk : walk[i] # Null}
  IN [i \in 1 .. Cardinality(reached) |-> walk[i - 1]]
Cyclic(l) == Len(Chain(l)) > Cardinality(Nodes)

(* mem_alloc. *)
FreeNode(u) == IF Nodes \ u = {} THEN Null ELSE Min(Nodes \ u)

(* The last store of put ends the list, whatever the new node held. *)
ClosedNot(l) == l                              \* mutant: it does not
Closed(l) == [l EXCEPT !.next[l.tail] = Null]

Linked(l, at, n) == IF at = Null THEN [l EXCEPT !.head = n]
                    ELSE [l EXCEPT !.next[at] = n]
(* Scheduler::put with node n, which must be one, as must the tail of a    *)
(* list that has a head.                                                   *)
CanPut(l, n) == n # Null /\ (l.head # Null => l.tail # Null)
Put(l, t, n) ==
  Closed([Linked(l, IF l.head = Null THEN Null ELSE l.tail, n)
            EXCEPT !.tail = n, !.thread[n] = t])

(* Scheduler::get: the nodes up to the first live thread are dropped. *)
Taken(l) ==
  LET c == Chain(l)
      i == SelectInSeq(c, LAMBDA n : l.thread[n] \notin finished)
  IN IF i = 0 THEN c ELSE SubSeq(c, 1, i)
FreedSkipped(l) == {n \in ToSet(Taken(l)) : l.thread[n] \in finished}  \* mutant
Freed(l) == ToSet(Taken(l))
(* A node that was linked and has no thread yet. *)
Unwritten(l) == \E n \in Freed(l) : l.thread[n] = Idle
Next1(l) ==
  LET c == Taken(l) IN
  IF c = <<>> \/ l.thread[Last(c)] \in finished THEN Idle ELSE l.thread[Last(c)]
Got(l) ==
  LET c == Taken(l) IN
  IF c = <<>> THEN l
  ELSE LET h == l.next[Last(c)]
       IN [l EXCEPT !.head = h, !.tail = IF h = Null THEN Null ELSE @,
             !.thread = [n \in Nodes |-> IF n \in Freed(l) THEN Idle ELSE @[n]]]

(* The same two operations on the queue. *)
QueueRest(q) ==
  LET i == SelectInSeq(q, LAMBDA t : t \notin finished)
  IN IF i = 0 THEN <<>> ELSE SubSeq(q, i + 1, Len(q))

-----------------------------------------------------------------------------
(* Handlers *)

(* The steps of PCB::run's put before which a handler does damage, though  *)
(* nothing keeps it away: it takes the node that mem_alloc has found, it   *)
(* moves the place that was read for it, or it meets the list half linked. *)
(* Before 'close' it does none, but a thread that was terminated does not  *)
(* come back then to end the list.                                         *)
Critical == {"mark", "link", "tail"}
Hit ==
  \E t \in Threads :
    /\ running = t
    /\ pc[t] \in Critical \cup (IF t \in finished THEN {"close"} ELSE {})
Interrupted == ~fault /\ raced' = (raced \/ Hit) /\ UNCHANGED putVars

GetFrom(l, u, q) ==
  /\ fault' = (Cyclic(l) \/ Unwritten(l))
  /\ list' = Got(l) /\ used' = u \ Freed(l) /\ queue' = QueueRest(q)
  /\ running' = Next1(l)

(* A tick that ends the slice: PCB::dispatch. *)
Dispatch ==
  /\ Interrupted /\ UNCHANGED <<away, finished>>
  /\ IF running \in finished \cup {Idle} THEN GetFrom(list, used, queue)
     ELSE LET n == FreeNode(used) IN
          IF CanPut(list, n)
          THEN GetFrom(Put(list, running, n), used \cup {n}, Append(queue, running))
          ELSE fault' = TRUE /\ UNCHANGED <<running, list, used, queue>>

(* A tick that wakes a sleeper, or a signal. *)
Wake(t) ==
  /\ Interrupted /\ t \in away
  /\ away' = away \ {t} /\ UNCHANGED <<running, finished>>
  /\ LET n == FreeNode(used) IN
     IF CanPut(list, n)
     THEN /\ list' = Put(list, t, n) /\ used' = used \cup {n}
          /\ queue' = Append(queue, t) /\ UNCHANGED fault
     ELSE fault' = TRUE /\ UNCHANGED <<list, used, queue>>

(* The running thread sleeps, waits or joins. *)
Leave ==
  /\ Interrupted /\ running \in Threads /\ pc[running] = "body"
  /\ away' = away \cup {running} /\ UNCHANGED finished
  /\ GetFrom(list, used, queue)

(* thread_exit or Thread::finish marks a thread, wherever it is. *)
Finish(t) ==
  /\ ~fault /\ running \in Threads /\ pc[running] = "body"
  /\ finished' = finished \cup {t}
  /\ UNCHANGED <<running, away, list, used, putVars, fault, queue, raced>>

-----------------------------------------------------------------------------
(* put in thread code, by a thread that releases one that has joined it.   *)
(* This is the order g++ gives the accesses with the Makefile's options.   *)

Step(from, to) ==
  /\ ~fault /\ running \in Threads /\ pc[running] = from
  /\ pc' = [pc EXCEPT ![running] = to]
  /\ UNCHANGED <<running, finished>>

Release(t) ==
  /\ Step("body", "alloc") /\ t \in away
  /\ away' = away \ {t} /\ arg' = [arg EXCEPT ![running] = t]
  /\ UNCHANGED <<list, used, node, place, fault, queue, raced>>

(* mem_alloc finds a node, and marks it used; a null node is used as one. *)
FindNode ==
  /\ Step("alloc", "mark")
  /\ node' = [node EXCEPT ![running] = FreeNode(used)]
  /\ fault' = (FreeNode(used) = Null)
  /\ UNCHANGED <<away, list, used, arg, place, queue, raced>>
MarkNode ==
  /\ Step("mark", "place") /\ used' = used \cup {node[running]}
  /\ UNCHANGED <<away, list, arg, node, place, fault, queue, raced>>

ReadPlace ==
  /\ Step("place", "link")
  /\ place' = [place EXCEPT ![running] = IF list.head = Null THEN Null ELSE list.tail]
  /\ fault' = (list.head # Null /\ list.tail = Null)
  /\ UNCHANGED <<away, list, used, arg, node, queue, raced>>
Link ==
  /\ Step("link", "tail")
  /\ list' = Linked(list, place[running], node[running])
  /\ UNCHANGED <<away, used, arg, node, place, fault, queue, raced>>
SetTail ==
  /\ Step("tail", "close")
  /\ list' = [list EXCEPT !.tail = node[running], !.thread[node[running]] = arg[running]]
  /\ queue' = Append(queue, arg[running])
  /\ UNCHANGED <<away, used, arg, node, place, fault, raced>>
(* tail is read again.  It is null if handlers have emptied the list. *)
Close ==
  /\ Step("close", "fix")
  /\ fault' = (list.tail = Null) /\ raced' = (raced \/ list.tail = Null)
  /\ list' = IF list.tail = Null THEN list ELSE Closed(list)
  /\ UNCHANGED <<away, used, arg, node, place, queue>>
(* if (head == nullptr) head = tail, with tail from the register, although *)
(* handlers have emptied the list and freed the node.                      *)
FixHead ==
  /\ Step("fix", "body") /\ raced' = (raced \/ list.head = Null)
  /\ list' = IF list.head = Null THEN [list EXCEPT !.head = node[running]] ELSE list
  /\ arg' = [arg EXCEPT ![running] = running]   \* the registers are dead
  /\ node' = [node EXCEPT ![running] = Null] /\ place' = [place EXCEPT ![running] = Null]
  /\ UNCHANGED <<away, used, fault, queue>>

Next ==
  \/ Dispatch \/ Leave
  \/ \E t \in Threads : Wake(t) \/ Finish(t) \/ Release(t)
  \/ FindNode \/ MarkNode \/ ReadPlace \/ Link \/ SetTail \/ Close \/ FixHead

Spec == Init /\ [][Next]_vars
=============================================================================
