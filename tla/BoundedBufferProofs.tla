------------------------- MODULE BoundedBufferProofs -------------------------
(***************************************************************************)
(* Proofs about the bounded buffer and its program, for any numbers of     *)
(* producers and slots.                                                    *)
(*                                                                         *)
(* The semaphores are related to the threads by counting: the number of    *)
(* threads at the places between two calls.  In order: counting, and the   *)
(* queue of a semaphore; the inductive invariant (BufferInv); every line   *)
(* of every thread keeps it; the slots; and the ring as a queue (Fifo).    *)
(***************************************************************************)
EXTENDS BoundedBufferProperties, FiniteSetTheorems, SequenceTheorems, TLAPS

-----------------------------------------------------------------------------
(* Counting the threads *)

(* The threads are finitely many. *)
LEMMA ThreadsFinite ==
  ASSUME threadNum \in Nat
  PROVE  /\ IsFiniteSet(Threads)
         /\ Keyboard \in Threads /\ Consumer \in Threads /\ Main \in Threads
         /\ Producers \subseteq Threads \ {Consumer, Main}
         /\ Consumer # Main
         /\ Threads = Producers \cup {Consumer, Main}
         /\ IsFiniteSet(Threads \ {Main})
         /\ Cardinality(Threads \ {Main}) = threadNum + 1
  <1>1. IsFiniteSet(Threads) /\ Cardinality(Threads) = threadNum + 2
    BY FS_Interval DEF Threads
  <1>2. Main \in Threads
    BY DEF Threads, Main
  <1>3. /\ IsFiniteSet(Threads \ {Main})
        /\ Cardinality(Threads \ {Main}) = threadNum + 1
    BY <1>1, <1>2, FS_RemoveElement
  <1> QED
    BY <1>1, <1>3 DEF Threads, Keyboard, Consumer, Main, Producers

(* The threads of T that are at one of the places S. *)
ThreadsAt(T, p, S) == {u \in T : p[u] \in S}
NumberAt(T, p, S) == Cardinality(ThreadsAt(T, p, S))

(* Of these threads t alone moves, from the place a to the place b. *)
OnlyMoves(T, t, p, q, a, b) ==
  /\ t \in T /\ p[t] = a /\ q[t] = b
  /\ \A u \in T \ {t} : q[u] = p[u]

(* One thread moves: the number at S changes by its arrival or departure. *)
LEMMA NumberMoves ==
  ASSUME NEW T, IsFiniteSet(T), NEW t, NEW p, NEW q, NEW a, NEW b, NEW S,
         OnlyMoves(T, t, p, q, a, b)
  PROVE  /\ NumberAt(T, p, S) \in Nat
         /\ NumberAt(T, q, S) = NumberAt(T, p, S)
              - (IF a \in S THEN 1 ELSE 0) + (IF b \in S THEN 1 ELSE 0)
  <1> DEFINE P == ThreadsAt(T, p, S)
             Q == ThreadsAt(T, q, S)
  <1>1. P \in SUBSET T /\ Q \in SUBSET T
    BY DEF ThreadsAt
  <1>2. IsFiniteSet(P) /\ IsFiniteSet(Q)
    BY <1>1, FS_Subset
  <1>3. Cardinality(P) \in Nat /\ Cardinality(P \ {t}) \in Nat
    BY <1>2, FS_RemoveElement, FS_CardinalityType
  <1>4. Q = IF b \in S THEN (P \ {t}) \cup {t} ELSE P \ {t}
    BY DEF ThreadsAt, OnlyMoves
  <1>5. t \in P <=> a \in S
    BY DEF ThreadsAt, OnlyMoves
  <1>6. /\ IsFiniteSet(P \ {t}) /\ t \notin P \ {t}
        /\ Cardinality(P \ {t}) =
             Cardinality(P) - (IF a \in S THEN 1 ELSE 0)
    <2>1. /\ IsFiniteSet(P \ {t}) /\ t \notin P \ {t}
          /\ Cardinality(P \ {t}) =
               IF t \in P THEN Cardinality(P) - 1 ELSE Cardinality(P)
      BY <1>2, FS_RemoveElement
    <2> HIDE DEF P
    <2> QED
      BY <1>3, <1>5, <2>1
  <1>7. Cardinality((P \ {t}) \cup {t}) = Cardinality(P \ {t}) + 1
    BY <1>6, FS_AddElement
  <1> HIDE DEF P, Q
  <1>8. Cardinality(Q) = Cardinality(P)
              - (IF a \in S THEN 1 ELSE 0) + (IF b \in S THEN 1 ELSE 0)
    BY <1>3, <1>4, <1>6, <1>7
  <1> QED
    BY <1>3, <1>8 DEF P, Q, NumberAt

(* Nobody, or all, at the places S. *)
LEMMA NumberNone ==
  ASSUME NEW T, NEW p, NEW S, \A u \in T : p[u] \notin S
  PROVE  NumberAt(T, p, S) = 0
  <1>1. ThreadsAt(T, p, S) = {}
    BY DEF ThreadsAt
  <1> QED
    BY <1>1, FS_EmptySet DEF NumberAt

(* All of T are at S when their number is that of T. *)
LEMMA NumberAll ==
  ASSUME NEW T, IsFiniteSet(T), NEW U \in SUBSET T, NEW p, NEW S,
         \A u \in T \ U : p[u] \notin S,
         NumberAt(T, p, S) >= Cardinality(U)
  PROVE  \A u \in U : p[u] \in S
  <1>1. ThreadsAt(T, p, S) \in SUBSET U
    BY DEF ThreadsAt
  <1>2. IsFiniteSet(U) /\ IsFiniteSet(ThreadsAt(T, p, S))
    BY <1>1, FS_Subset
  <1>3. /\ Cardinality(U) \in Nat /\ Cardinality(ThreadsAt(T, p, S)) \in Nat
        /\ Cardinality(ThreadsAt(T, p, S)) <= Cardinality(U)
    BY <1>1, <1>2, FS_Subset, FS_CardinalityType
  <1>4. Cardinality(ThreadsAt(T, p, S)) = Cardinality(U)
    BY <1>3 DEF NumberAt
  <1>5. ThreadsAt(T, p, S) = U
    BY <1>1, <1>2, <1>4, FS_Subset
  <1> QED
    BY <1>5 DEF ThreadsAt

-----------------------------------------------------------------------------
(* The queue of a semaphore *)

(* Of the threads T, those in the queue q are behind the line that called. *)
InQueue(q, u) == \E i \in 1 .. Len(q) : q[i] = u
Queued(T, q, v, p, B) ==
  /\ q \in Seq(T)
  /\ Len(q) = IF v < 0 THEN -v ELSE 0
  /\ \A i, j \in 1 .. Len(q) : q[i] = q[j] => i = j
  /\ \A u \in T : InQueue(q, u) => p[u] \in B

(* A queue stays right while a thread outside it moves. *)
LEMMA QueueKept ==
  ASSUME NEW T, NEW t \in T, NEW q, NEW v \in Int, NEW p, NEW r, NEW B,
         Queued(T, q, v, p, B), ~InQueue(q, t),
         \A u \in T \ {t} : r[u] = p[u]
  PROVE  Queued(T, q, v, r, B)
  BY DEF Queued

(* A wait: the value goes down, and the caller is put at the end of the    *)
(* queue when the value was 0 or less.                                     *)
LEMMA QueueWait ==
  ASSUME NEW T, NEW t \in T, NEW q, NEW v \in Int, NEW p, NEW r, NEW B,
         Queued(T, q, v, p, B), ~InQueue(q, t),
         \A u \in T \ {t} : r[u] = p[u], r[t] \in B
  PROVE  Queued(T, IF v <= 0 THEN Append(q, t) ELSE q, v - 1, r, B)
  <1> DEFINE a == Append(q, t)
  <1>1. /\ q \in Seq(T) /\ Len(q) \in Nat /\ Len(q) = IF v < 0 THEN -v ELSE 0
        /\ \A i, j \in 1 .. Len(q) : q[i] = q[j] => i = j
    BY LenProperties DEF Queued
  <1>2. /\ a \in Seq(T) /\ Len(a) = Len(q) + 1
        /\ \A i \in 1 .. Len(q) : a[i] = q[i]
        /\ a[Len(q) + 1] = t
    BY <1>1, AppendProperties
  <1> HIDE DEF a
  <1>3. \A u \in T : InQueue(a, u) => InQueue(q, u) \/ u = t
    BY <1>1, <1>2 DEF InQueue
  <1>4. \A i, j \in 1 .. Len(a) : a[i] = a[j] => i = j
    BY <1>1, <1>2 DEF InQueue
  <1>5. \A u \in T : InQueue(a, u) => r[u] \in B
    BY <1>3 DEF Queued
  <1>6. CASE v <= 0
    BY <1>1, <1>2, <1>4, <1>5, <1>6 DEF Queued, a
  <1>7. CASE v > 0
    BY <1>1, <1>7 DEF Queued
  <1> QED
    BY <1>6, <1>7

(* A signal: the value goes up, and the first thread leaves the queue when *)
(* there is one.                                                           *)
LEMMA QueueSignal ==
  ASSUME NEW T, NEW t \in T, NEW q, NEW v \in Int, NEW p, NEW r, NEW B,
         Queued(T, q, v, p, B), ~InQueue(q, t),
         \A u \in T \ {t} : r[u] = p[u]
  PROVE  Queued(T, IF v < 0 THEN Tail(q) ELSE q, v + 1, r, B)
  <1> DEFINE a == Tail(q)
  <1>1. /\ q \in Seq(T) /\ Len(q) \in Nat /\ Len(q) = IF v < 0 THEN -v ELSE 0
        /\ \A i, j \in 1 .. Len(q) : q[i] = q[j] => i = j
    BY LenProperties DEF Queued
  <1>2. CASE v < 0
    <2>1. q # <<>>
      BY <1>1, <1>2, EmptySeq
    <2>2. /\ a \in Seq(T) /\ Len(a) = Len(q) - 1
          /\ \A i \in 1 .. Len(a) : a[i] = q[i + 1]
      BY <1>1, <2>1, HeadTailProperties
    <2> HIDE DEF a
    <2>3. \A u \in T : InQueue(a, u) => InQueue(q, u)
      BY <1>1, <2>2 DEF InQueue
    <2>4. \A i, j \in 1 .. Len(a) : a[i] = a[j] => i = j
      <3>1. SUFFICES ASSUME NEW i \in 1 .. Len(a), NEW j \in 1 .. Len(a),
                            a[i] = a[j]
                     PROVE  i = j
        OBVIOUS
      <3>2. q[i + 1] = q[j + 1] /\ i + 1 \in 1 .. Len(q) /\ j + 1 \in 1 .. Len(q)
        BY <1>1, <2>2, <3>1
      <3> QED
        BY <1>1, <3>2
    <2>5. \A u \in T : InQueue(a, u) => r[u] \in B
      BY <2>3 DEF Queued
    <2> QED
      BY <1>1, <1>2, <2>2, <2>4, <2>5 DEF Queued, a
  <1>3. CASE v >= 0
    BY <1>1, <1>3, QueueKept DEF Queued
  <1> QED
    BY <1>2, <1>3

(* The threads of a queue, and others that are past it, are as many as     *)
(* those at its places at most.                                            *)
LEMMA QueuePassed ==
  ASSUME NEW T, IsFiniteSet(T), NEW q, NEW v \in Int, NEW p, NEW B, NEW S,
         Queued(T, q, v, p, B), B \subseteq S,
         NEW U \in SUBSET T, \A u \in U : p[u] \in S /\ ~InQueue(q, u)
  PROVE  /\ NumberAt(T, p, S) \in Nat /\ Cardinality(U) \in Nat
         /\ NumberAt(T, p, S) >= Len(q) + Cardinality(U)
  <1> DEFINE A == ThreadsAt(T, p, S)
             Q == {u \in T : InQueue(q, u)}
  <1>1. /\ q \in Seq(T) /\ Len(q) \in Nat
        /\ \A i, j \in 1 .. Len(q) : q[i] = q[j] => i = j
        /\ \A i \in 1 .. Len(q) : q[i] \in T
    BY LenProperties, ElementOfSeq DEF Queued
  <1>2. A \in SUBSET T /\ Q \in SUBSET T /\ Q \cup U \in SUBSET A /\ Q \cap U = {}
    BY DEF ThreadsAt, Queued
  <1>3. /\ IsFiniteSet(A) /\ IsFiniteSet(Q) /\ IsFiniteSet(U)
        /\ Cardinality(Q \cup U) <= Cardinality(A)
        /\ Cardinality(A) \in Nat /\ Cardinality(U) \in Nat
    BY <1>2, FS_Subset, FS_CardinalityType
  <1>4. Cardinality(Q) = Len(q)
    <2> DEFINE f == [i \in 1 .. Len(q) |-> q[i]]
    <2>1. f \in Bijection(1 .. Len(q), Q)
      <3>1. f \in [1 .. Len(q) -> Q]
        BY <1>1 DEF InQueue
      <3>2. \A i, j \in 1 .. Len(q) : f[i] = f[j] => i = j
        BY <1>1
      <3>3. \A u \in Q : \E i \in 1 .. Len(q) : f[i] = u
        BY DEF InQueue
      <3> QED
        BY <3>1, <3>2, <3>3
           DEF Bijection, Injection, Surjection, IsInjective
    <2> HIDE DEF f
    <2>2. ExistsBijection(1 .. Len(q), Q)
      BY <2>1 DEF ExistsBijection
    <2> QED
      BY <1>1, <2>2, FS_CountingElements
  <1>5. Cardinality(Q \cup U) = Cardinality(Q) + Cardinality(U)
    <2>1. Cardinality(Q \cup U) =
            Cardinality(Q) + Cardinality(U) - Cardinality(Q \cap U)
      BY <1>3, FS_Union
    <2>2. Cardinality(Q \cap U) = 0
      BY <1>2, FS_EmptySet
    <2> HIDE DEF Q
    <2> QED
      BY <1>1, <1>3, <1>4, <2>1, <2>2
  <1> QED
    BY <1>3, <1>4, <1>5 DEF NumberAt

-----------------------------------------------------------------------------
(* The inductive invariant *)

ProducerPlaces == {"loop", "put", "lockTail", "write", "advanceTail",
                   "releaseTail", "offer", "signal", "end"}
CountPlaces == {"getCnt", "countLockTail", "count", "unlockTail",
                "unlockHead", "counted"}
ConsumerPlaces == CountPlaces \cup {"loop", "get", "lockHead", "advanceHead",
                                    "releaseHead", "free", "signal", "end"}
Deleting == CountPlaces \cup {"end"}
MainPlaces == {"ask", "await"} \cup Deleting
Places == ProducerPlaces \cup ConsumerPlaces \cup MainPlaces
PlacesOf(t) == IF t = Main THEN MainPlaces
               ELSE IF t = Consumer THEN ConsumerPlaces ELSE ProducerPlaces

(* Where a thread waits in the queue of a semaphore. *)
Behind(s) == CASE s = "spaceAvailable" -> {"lockTail"}
               [] s = "itemAvailable" -> {"lockHead"}
               [] s = "mutexTail" -> {"write", "count"}
               [] s = "mutexHead" -> {"advanceHead", "countLockTail"}
               [] s = "waitForAll" -> {"await"}

QueuesRight(T, v, w, p) ==
  \A s \in Semaphore : Queued(T, w[s], v[s], p, Behind(s))

(* Every thread is at a place of its own program, and every queue holds    *)
(* as many threads, behind their calls, as the value says.                 *)
ControlInv ==
  /\ threadNum \in Nat
  /\ pc \in [Threads -> Places] /\ \A u \in Threads : pc[u] \in PlacesOf(u)
  /\ value \in [Semaphore -> Int] /\ waiting \in [Semaphore -> Seq(Threads)]
  /\ QueuesRight(Threads, value, waiting, pc)

DataType ==
  /\ n \in Nat \ {0} /\ head \in 0 .. n /\ tail \in 0 .. n
  /\ buffer \in [0 .. n -> Int] /\ ret \in [{Consumer, Main} -> Int]
  /\ left \in Nat /\ threadEnd \in BOOLEAN

(* The values, from where the threads are. *)
HoldsTail == {"write", "advanceTail", "releaseTail", "count", "unlockTail"}
HoldsHead == {"advanceHead", "releaseHead", "countLockTail", "count",
              "unlockTail", "unlockHead"}
Puts == {"lockTail", "write", "advanceTail", "releaseTail", "offer"}
Gets == {"lockHead", "advanceHead", "releaseHead", "free"}
InRing == {"releaseTail", "offer", "lockHead", "advanceHead"}
Ended == {"end"}

Number(S) == NumberAt(Threads, pc, S)

ValuesRight ==
  /\ value["mutexTail"] = 1 - Number(HoldsTail)
  /\ value["mutexHead"] = 1 - Number(HoldsHead)
  /\ value["spaceAvailable"] + value["itemAvailable"]
       + Number(Puts) + Number(Gets) = n
  /\ value["waitForAll"] = NumberAt(Threads \ {Main}, pc, Ended)
                             - (threadNum + 1 - left)
RingRight ==
  pc[Main] \in {"ask", "await"} =>
    Count = value["itemAvailable"] + Number(InRing)

(* Main deletes the buffer when all others have ended, and nobody changes  *)
(* what it has counted.                                                    *)
MainRight ==
  /\ pc[Main] \in Deleting /\ Accepts =>
       \A t \in Threads \ {Main} : pc[t] = "end"
  /\ pc[Main] \in {"unlockTail", "unlockHead", "counted"} => ret[Main] = Count

BufferInv ==
  /\ ControlInv /\ DataType /\ ValuesRight /\ RingRight /\ MainRight
  /\ NothingOverwritten

-----------------------------------------------------------------------------
(* A line of a thread *)

(* Nobody else moves; the queue of a thread that moves does not hold it. *)
LEMMA Moves ==
  ASSUME ControlInv, NEW t \in Threads, NEW a, NEW b \in Places, Steps(t, a, b)
  PROVE  /\ pc[t] = a /\ pc' = [pc EXCEPT ![t] = b] /\ pc'[t] = b
         /\ pc' \in [Threads -> Places]
         /\ \A u \in Threads \ {t} : pc'[u] = pc[u]
         /\ \A s \in Semaphore : ~InQueue(waiting[s], t)
  <1>1. /\ pc[t] = a /\ pc' = [pc EXCEPT ![t] = b] /\ ~Blocked(t)
        /\ pc \in [Threads -> Places]
    BY DEF Steps, ControlInv
  <1>2. \A s \in Semaphore : DOMAIN waiting[s] = 1 .. Len(waiting[s])
    BY LenProperties DEF ControlInv
  <1>3. \A s \in Semaphore : ~InQueue(waiting[s], t)
    BY <1>1, <1>2 DEF Blocked, InQueue
  <1> QED
    BY <1>1, <1>3

(* A line that calls no semaphore leaves every queue right. *)
LEMMA SemKept ==
  ASSUME ControlInv, NEW t \in Threads, NEW a, NEW b \in Places, Steps(t, a, b),
         UNCHANGED <<value, waiting>>
  PROVE  QueuesRight(Threads, value', waiting', pc')
  <1>1. \A s \in Semaphore : Queued(Threads, waiting[s], value[s], pc', Behind(s))
    <2>1. TAKE s \in Semaphore
    <2>2. /\ Queued(Threads, waiting[s], value[s], pc, Behind(s))
          /\ value[s] \in Int
      BY DEF ControlInv, QueuesRight
    <2>3. /\ ~InQueue(waiting[s], t)
          /\ \A u \in Threads \ {t} : pc'[u] = pc[u]
      BY Moves
    <2> QED
      BY <2>2, <2>3, QueueKept
  <1> QED
    BY <1>1 DEF QueuesRight

(* A line that waits on s, with the thread then behind that call. *)
LEMMA SemWait ==
  ASSUME ControlInv, NEW t \in Threads, NEW a, NEW b \in Places, Steps(t, a, b),
         NEW s \in Semaphore, Wait(s, t), b \in Behind(s)
  PROVE  /\ value' = [value EXCEPT ![s] = @ - 1]
         /\ value' \in [Semaphore -> Int]
         /\ waiting' \in [Semaphore -> Seq(Threads)]
         /\ QueuesRight(Threads, value', waiting', pc')
  <1> DEFINE q == IF value[s] <= 0 THEN Append(waiting[s], t) ELSE waiting[s]
  <1>0. /\ pc'[t] = b /\ \A u \in Threads \ {t} : pc'[u] = pc[u]
        /\ \A r \in Semaphore : ~InQueue(waiting[r], t)
    BY Moves
  <1>1. /\ value \in [Semaphore -> Int] /\ waiting \in [Semaphore -> Seq(Threads)]
        /\ \A r \in Semaphore :
             Queued(Threads, waiting[r], value[r], pc, Behind(r))
    BY DEF ControlInv, QueuesRight
  <1>2. /\ value' = [value EXCEPT ![s] = value[s] - 1]
        /\ waiting' = [waiting EXCEPT ![s] = q]
    BY <1>1 DEF Wait
  <1>3. Queued(Threads, q, value[s] - 1, pc', Behind(s))
    <2>1. /\ Queued(Threads, waiting[s], value[s], pc, Behind(s))
          /\ value[s] \in Int /\ ~InQueue(waiting[s], t)
      BY <1>0, <1>1
    <2> QED
      BY <1>0, <2>1, QueueWait
  <1>4. q \in Seq(Threads)
    BY <1>3 DEF Queued
  <1> HIDE DEF q
  <1>5. \A r \in Semaphore \ {s} :
          Queued(Threads, waiting[r], value[r], pc', Behind(r))
    <2>1. TAKE r \in Semaphore \ {s}
    <2>2. /\ Queued(Threads, waiting[r], value[r], pc, Behind(r))
          /\ value[r] \in Int /\ ~InQueue(waiting[r], t)
      BY <1>0, <1>1
    <2> QED
      BY <1>0, <2>2, QueueKept
  <1> QED
    BY <1>1, <1>2, <1>3, <1>4, <1>5 DEF QueuesRight

(* A line that signals s. *)
LEMMA SemSignal ==
  ASSUME ControlInv, NEW t \in Threads, NEW a, NEW b \in Places, Steps(t, a, b),
         NEW s \in Semaphore, Signal(s)
  PROVE  /\ value' = [value EXCEPT ![s] = @ + 1]
         /\ value' \in [Semaphore -> Int]
         /\ waiting' \in [Semaphore -> Seq(Threads)]
         /\ QueuesRight(Threads, value', waiting', pc')
  <1> DEFINE q == IF value[s] < 0 THEN Tail(waiting[s]) ELSE waiting[s]
  <1>0. /\ pc'[t] = b /\ \A u \in Threads \ {t} : pc'[u] = pc[u]
        /\ \A r \in Semaphore : ~InQueue(waiting[r], t)
    BY Moves
  <1>1. /\ value \in [Semaphore -> Int] /\ waiting \in [Semaphore -> Seq(Threads)]
        /\ \A r \in Semaphore :
             Queued(Threads, waiting[r], value[r], pc, Behind(r))
    BY DEF ControlInv, QueuesRight
  <1>2. /\ value' = [value EXCEPT ![s] = value[s] + 1]
        /\ waiting' = [waiting EXCEPT ![s] = q]
    BY <1>1 DEF Signal
  <1>3. Queued(Threads, q, value[s] + 1, pc', Behind(s))
    <2>1. /\ Queued(Threads, waiting[s], value[s], pc, Behind(s))
          /\ value[s] \in Int /\ ~InQueue(waiting[s], t)
      BY <1>0, <1>1
    <2> QED
      BY <1>0, <2>1, QueueSignal
  <1>4. q \in Seq(Threads)
    BY <1>3 DEF Queued
  <1> HIDE DEF q
  <1>5. \A r \in Semaphore \ {s} :
          Queued(Threads, waiting[r], value[r], pc', Behind(r))
    <2>1. TAKE r \in Semaphore \ {s}
    <2>2. /\ Queued(Threads, waiting[r], value[r], pc, Behind(r))
          /\ value[r] \in Int /\ ~InQueue(waiting[r], t)
      BY <1>0, <1>1
    <2> QED
      BY <1>0, <2>2, QueueKept
  <1> QED
    BY <1>1, <1>2, <1>3, <1>4, <1>5 DEF QueuesRight

(* The control is right after a line of thread t, and so are the numbers. *)
LEMMA ControlStep ==
  ASSUME ControlInv, NEW t \in Threads, NEW a, NEW b \in Places, Steps(t, a, b),
         b \in PlacesOf(t), threadNum' = threadNum,
         \/ \E s \in Semaphore : Signal(s) \/ (Wait(s, t) /\ b \in Behind(s))
         \/ UNCHANGED <<value, waiting>>
  PROVE  ControlInv'
  <1>1. /\ threadNum \in Nat /\ Threads' = Threads
        /\ \A u : PlacesOf(u)' = PlacesOf(u)
        /\ value \in [Semaphore -> Int] /\ waiting \in [Semaphore -> Seq(Threads)]
        /\ \A u \in Threads : pc[u] \in PlacesOf(u)
    BY DEF ControlInv, Threads, PlacesOf, Main, Consumer
  <1>2. /\ pc' \in [Threads -> Places]
        /\ \A u \in Threads : pc'[u] \in PlacesOf(u)
    BY <1>1, Moves
  <1>3. /\ value' \in [Semaphore -> Int] /\ waiting' \in [Semaphore -> Seq(Threads)]
        /\ QueuesRight(Threads, value', waiting', pc')
    BY <1>1, SemKept, SemWait, SemSignal
  <1> QED
    BY <1>1, <1>2, <1>3 DEF ControlInv

(* Of a set T of threads, the number at S changes as t goes from a to b. *)
LEMMA NumbersStep ==
  ASSUME ControlInv, NEW t \in Threads, NEW a, NEW b \in Places, Steps(t, a, b),
         threadNum' = threadNum, NEW S
  PROVE  /\ Number(S) \in Nat
         /\ NumberAt(Threads, pc, S)' = Number(S)
              - (IF a \in S THEN 1 ELSE 0) + (IF b \in S THEN 1 ELSE 0)
  <1>1. IsFiniteSet(Threads) /\ Threads' = Threads
    BY ThreadsFinite DEF ControlInv, Threads
  <1>2. OnlyMoves(Threads, t, pc, pc', a, b)
    BY Moves DEF OnlyMoves
  <1>3. /\ NumberAt(Threads, pc, S) \in Nat
        /\ NumberAt(Threads, pc', S) = NumberAt(Threads, pc, S)
              - (IF a \in S THEN 1 ELSE 0) + (IF b \in S THEN 1 ELSE 0)
    BY <1>1, <1>2, NumberMoves
  <1> QED
    BY <1>1, <1>3 DEF Number

(* How the number of threads at S changes when one goes from a to b. *)
Change(S, a, b) == (IF b \in S THEN 1 ELSE 0) - (IF a \in S THEN 1 ELSE 0)

(* The values follow the thread t from a to b. *)
ValuesFollow(t, a, b, v, w) ==
  /\ w["mutexTail"] = v["mutexTail"] - Change(HoldsTail, a, b)
  /\ w["mutexHead"] = v["mutexHead"] - Change(HoldsHead, a, b)
  /\ w["spaceAvailable"] + w["itemAvailable"] =
       v["spaceAvailable"] + v["itemAvailable"]
         - Change(Puts, a, b) - Change(Gets, a, b)
  /\ w["waitForAll"] = v["waitForAll"] + (left' - left)
         + (IF t = Main THEN 0 ELSE Change(Ended, a, b))

(* The number of all threads at S, main among them, follows t. *)
LEMMA Counted ==
  ASSUME ControlInv, NEW t \in Threads, NEW a, NEW b \in Places, Steps(t, a, b),
         threadNum' = threadNum, NEW S
  PROVE  /\ Number(S) \in Nat /\ Number(S)' \in Nat /\ Change(S, a, b) \in Int
         /\ Number(S)' = Number(S) + Change(S, a, b)
  <1>1. /\ Number(S) \in Nat /\ Number(S)' = NumberAt(Threads, pc, S)'
        /\ NumberAt(Threads, pc, S)' = Number(S)
             - (IF a \in S THEN 1 ELSE 0) + (IF b \in S THEN 1 ELSE 0)
    BY NumbersStep DEF Number
  <1>2. NumberAt(Threads, pc, S)' \in Nat
    <2>1. IsFiniteSet(Threads) /\ Threads' = Threads
      BY ThreadsFinite DEF ControlInv, Threads
    <2>2. ThreadsAt(Threads, pc', S) \in SUBSET Threads
      BY DEF ThreadsAt
    <2>3. Cardinality(ThreadsAt(Threads, pc', S)) \in Nat
      BY <2>1, <2>2, FS_Subset, FS_CardinalityType
    <2> QED
      BY <2>1, <2>3 DEF NumberAt
  <1> QED
    BY <1>1, <1>2 DEF Change

(* The same for the threads that have ended, of those main waits for. *)
LEMMA EndedCounted ==
  ASSUME ControlInv, NEW t \in Threads, NEW a, NEW b \in Places, Steps(t, a, b),
         threadNum' = threadNum
  PROVE  /\ NumberAt(Threads \ {Main}, pc, Ended) \in Int
         /\ NumberAt(Threads \ {Main}, pc, Ended)' =
              NumberAt(Threads \ {Main}, pc, Ended)
                + (IF t = Main THEN 0 ELSE Change(Ended, a, b))
  <1> DEFINE T == Threads \ {Main}
  <1>1. IsFiniteSet(T) /\ T' = T
    BY ThreadsFinite DEF ControlInv, Threads, Main
  <1>2. /\ t \in Threads /\ pc[t] = a /\ pc'[t] = b
        /\ \A u \in Threads \ {t} : pc'[u] = pc[u]
    BY Moves
  <1>3. NumberAt(T, pc, Ended) \in Nat
    <2>1. ThreadsAt(T, pc, Ended) \in SUBSET T
      BY DEF ThreadsAt
    <2> QED
      BY <1>1, <2>1, FS_Subset, FS_CardinalityType DEF NumberAt
  <1>4. CASE t = Main
    <2>1. ThreadsAt(T, pc', Ended) = ThreadsAt(T, pc, Ended)
      BY <1>2, <1>4 DEF ThreadsAt
    <2> QED
      BY <1>1, <1>3, <1>4, <2>1 DEF NumberAt
  <1>5. CASE t # Main
    <2>1. OnlyMoves(T, t, pc, pc', a, b)
      BY <1>2, <1>5 DEF OnlyMoves
    <2> HIDE DEF T
    <2>2. NumberAt(T, pc', Ended) = NumberAt(T, pc, Ended)
            - (IF a \in Ended THEN 1 ELSE 0) + (IF b \in Ended THEN 1 ELSE 0)
      BY <1>1, <2>1, NumberMoves
    <2>3. NumberAt(T, pc, Ended)' = NumberAt(T, pc, Ended) + Change(Ended, a, b)
      BY <1>1, <1>3, <2>2 DEF Change
    <2> QED
      BY <1>3, <1>5, <2>3 DEF T
  <1> QED
    BY <1>4, <1>5

(* The values stay right when each changes as the counts it stands for. *)
LEMMA ValuesStep ==
  ASSUME ControlInv, DataType, ValuesRight, ControlInv', left' \in Nat,
         NEW t \in Threads, NEW a, NEW b \in Places, Steps(t, a, b),
         UNCHANGED <<threadNum, n>>, ValuesFollow(t, a, b, value, value')
  PROVE  ValuesRight'
  <1>1. /\ value["mutexTail"] \in Int /\ value["mutexHead"] \in Int
        /\ value["spaceAvailable"] \in Int /\ value["itemAvailable"] \in Int
        /\ value["waitForAll"] \in Int
        /\ value'["spaceAvailable"] \in Int /\ value'["itemAvailable"] \in Int
        /\ threadNum \in Nat /\ left \in Nat /\ left' \in Nat /\ n \in Nat
    BY DEF ControlInv, DataType, Semaphore
  <1>2. /\ Number(HoldsTail) \in Nat /\ Change(HoldsTail, a, b) \in Int
        /\ Number(HoldsTail)' = Number(HoldsTail) + Change(HoldsTail, a, b)
        /\ Number(HoldsHead) \in Nat /\ Change(HoldsHead, a, b) \in Int
        /\ Number(HoldsHead)' = Number(HoldsHead) + Change(HoldsHead, a, b)
        /\ Number(Puts) \in Nat /\ Change(Puts, a, b) \in Int
        /\ Number(Puts)' = Number(Puts) + Change(Puts, a, b)
        /\ Number(Gets) \in Nat /\ Change(Gets, a, b) \in Int
        /\ Number(Gets)' = Number(Gets) + Change(Gets, a, b)
    BY Counted
  <1>3. /\ NumberAt(Threads \ {Main}, pc, Ended) \in Int
        /\ NumberAt(Threads \ {Main}, pc, Ended)' =
              NumberAt(Threads \ {Main}, pc, Ended)
                + (IF t = Main THEN 0 ELSE Change(Ended, a, b))
        /\ Change(Ended, a, b) \in Int
    BY EndedCounted, Counted
  <1>4. ValuesRight' <=>
          /\ value'["mutexTail"] = 1 - Number(HoldsTail)'
          /\ value'["mutexHead"] = 1 - Number(HoldsHead)'
          /\ value'["spaceAvailable"] + value'["itemAvailable"]
               + Number(Puts)' + Number(Gets)' = n
          /\ value'["waitForAll"] = NumberAt(Threads \ {Main}, pc, Ended)'
                                      - (threadNum + 1 - left')
    BY DEF ValuesRight
  <1> QED
    BY <1>1, <1>2, <1>3, <1>4 DEF ValuesRight, ValuesFollow

(* The items in the ring stay right when Count changes with the item value *)
(* and the threads in the ring.                                            *)
LEMMA RingStep ==
  ASSUME ControlInv, DataType, RingRight, ControlInv',
         NEW t \in Threads, NEW a, NEW b \in Places, Steps(t, a, b),
         UNCHANGED <<threadNum, n>>, Count' \in Int,
         pc'[Main] \in {"ask", "await"} =>
           /\ pc[Main] \in {"ask", "await"}
           /\ Count' - Count = value'["itemAvailable"] - value["itemAvailable"]
                                 + Change(InRing, a, b)
  PROVE  RingRight'
  <1>1. /\ value["itemAvailable"] \in Int /\ value'["itemAvailable"] \in Int
        /\ Count \in Int /\ Main' = Main
    BY DEF ControlInv, DataType, Semaphore, Count, cap, Main
  <1>2. /\ Number(InRing) \in Nat /\ Change(InRing, a, b) \in Int
        /\ Number(InRing)' = Number(InRing) + Change(InRing, a, b)
    BY Counted
  <1>3. RingRight' <=> (pc'[Main] \in {"ask", "await"} =>
          Count' = value'["itemAvailable"] + Number(InRing)')
    BY <1>1 DEF RingRight
  <1> QED
    BY <1>1, <1>2, <1>3 DEF RingRight

(* The places of a thread are places. *)
LEMMA PlacesAreOfThreads ==
  \A t : PlacesOf(t) \subseteq Places
  BY DEF PlacesOf, Places

(* The names of the five semaphores. *)
LEMMA SemaphoreNames ==
  /\ "mutexTail" \in Semaphore /\ "mutexHead" \in Semaphore
  /\ "spaceAvailable" \in Semaphore /\ "itemAvailable" \in Semaphore
  /\ "waitForAll" \in Semaphore
  BY DEF Semaphore

(* The items a producer writes do not change behind its back. *)
LEMMA ItemsKept ==
  ASSUME BufferInv, NEW t \in Threads, NEW a, NEW b \in Places, Steps(t, a, b),
         b # "advanceTail", a # "advanceTail",
         UNCHANGED <<threadNum, tail, buffer>>,
         threadEnd' = threadEnd \/ t = Keyboard
  PROVE  NothingOverwritten'
  <1>1. SUFFICES ASSUME NEW u \in Producers, pc'[u] = "advanceTail"
                 PROVE  buffer[tail] = Item(u)'
    BY DEF NothingOverwritten, Producers
  <1>2. u \in Threads /\ ControlInv /\ NothingOverwritten
    BY ThreadsFinite DEF BufferInv, ControlInv
  <1>3. u # t /\ pc[u] = "advanceTail"
    BY <1>1, <1>2, Moves
  <1>4. buffer[tail] = Item(u)
    BY <1>2, <1>3 DEF NothingOverwritten
  <1>5. Item(u)' = Item(u)
    BY <1>3 DEF Item, Bang, Keyboard
  <1> QED
    BY <1>4, <1>5

(* While another thread than main goes on, main waits for it. *)
LEMMA MainAwaits ==
  ASSUME BufferInv, Created, NEW t \in Threads \ {Main}, NEW a, NEW b \in Places,
         Steps(t, a, b), a # "end", threadNum' = threadNum
  PROVE  /\ pc[Main] = "await" /\ pc'[Main] = "await" /\ Main' = Main
         /\ n' = n => MainRight'
  <1>1. /\ ControlInv /\ MainRight /\ Main \in Threads /\ pc[t] = a
    BY ThreadsFinite, Moves DEF BufferInv, ControlInv
  <1>2. pc[Main] \in MainPlaces
    BY <1>1 DEF ControlInv, PlacesOf
  <1>3. pc[Main] = "await"
    BY <1>1, <1>2 DEF MainRight, Created, MainPlaces
  <1>4. pc'[Main] = "await" /\ Main' = Main
    BY <1>1, <1>3, Moves DEF Main
  <1>5. MainRight'
    BY <1>4 DEF MainRight, Deleting, CountPlaces
  <1> QED
    BY <1>3, <1>4, <1>5

(***************************************************************************)
(* A line of t from a to b that calls s.  The change of its value is -1    *)
(* for a wait, 1 for a signal and 0 when it is not called.                 *)
(***************************************************************************)
Calls(s, t, b, change) ==
  \/ change = -1 /\ Wait(s, t) /\ b \in Behind(s)
  \/ change = 1 /\ Signal(s)
  \/ change = 0 /\ UNCHANGED <<value, waiting>>
Fits(s, t, a, b, change) ==
  /\ Change(HoldsTail, a, b) = IF s = "mutexTail" THEN -change ELSE 0
  /\ Change(HoldsHead, a, b) = IF s = "mutexHead" THEN -change ELSE 0
  /\ Change(Puts, a, b) + Change(Gets, a, b) =
       IF s \in {"spaceAvailable", "itemAvailable"} THEN -change ELSE 0
  /\ t # Main => Change(Ended, a, b) = IF s = "waitForAll" THEN change ELSE 0
  /\ t = Main => s # "waitForAll"

(* The control and the values stay right after a line that fits. *)
LEMMA ValuesKeep ==
  ASSUME ControlInv, DataType, ValuesRight,
         NEW t \in Threads, NEW a, NEW b, Steps(t, a, b), b \in PlacesOf(t),
         NEW s \in Semaphore, NEW c \in {-1, 0, 1}, Calls(s, t, b, c),
         Fits(s, t, a, b, c), UNCHANGED <<threadNum, n, left>>
  PROVE  /\ ControlInv' /\ ValuesRight'
         /\ \A r \in Semaphore :
              value[r] \in Int /\ value'[r] = value[r] + (IF r = s THEN c ELSE 0)
  <1>1. b \in Places /\ value \in [Semaphore -> Int] /\ left \in Nat
    BY PlacesAreOfThreads DEF ControlInv, DataType
  <1>2. ControlInv'
    BY <1>1, ControlStep DEF Calls
  <1>3. \A r \in Semaphore :
          value[r] \in Int /\ value'[r] = value[r] + (IF r = s THEN c ELSE 0)
    <2>1. CASE c = -1 /\ Wait(s, t) /\ b \in Behind(s)
      <3>1. value' = [value EXCEPT ![s] = @ - 1]
        BY <1>1, <2>1, SemWait
      <3> QED
        BY <1>1, <2>1, <3>1
    <2>2. CASE c = 1 /\ Signal(s)
      <3>1. value' = [value EXCEPT ![s] = @ + 1]
        BY <1>1, <2>2, SemSignal
      <3> QED
        BY <1>1, <2>2, <3>1
    <2>3. CASE c = 0 /\ UNCHANGED <<value, waiting>>
      BY <1>1, <2>3
    <2> QED
      BY <2>1, <2>2, <2>3 DEF Calls
  <1>4. ValuesFollow(t, a, b, value, value')
    <2>1. /\ value["mutexTail"] \in Int /\ value["mutexHead"] \in Int
          /\ value["spaceAvailable"] \in Int /\ value["itemAvailable"] \in Int
          /\ value["waitForAll"] \in Int
          /\ value'["mutexTail"] =
               value["mutexTail"] + (IF "mutexTail" = s THEN c ELSE 0)
          /\ value'["mutexHead"] =
               value["mutexHead"] + (IF "mutexHead" = s THEN c ELSE 0)
          /\ value'["spaceAvailable"] =
               value["spaceAvailable"] + (IF "spaceAvailable" = s THEN c ELSE 0)
          /\ value'["itemAvailable"] =
               value["itemAvailable"] + (IF "itemAvailable" = s THEN c ELSE 0)
          /\ value'["waitForAll"] =
               value["waitForAll"] + (IF "waitForAll" = s THEN c ELSE 0)
      BY <1>3, SemaphoreNames
    <2>2. /\ Change(HoldsTail, a, b) = IF s = "mutexTail" THEN -c ELSE 0
          /\ Change(HoldsHead, a, b) = IF s = "mutexHead" THEN -c ELSE 0
          /\ Change(Puts, a, b) + Change(Gets, a, b) =
               IF s \in {"spaceAvailable", "itemAvailable"} THEN -c ELSE 0
          /\ t # Main => Change(Ended, a, b) = IF s = "waitForAll" THEN c ELSE 0
          /\ t = Main => s # "waitForAll"
          /\ Change(Puts, a, b) \in Int /\ Change(Gets, a, b) \in Int
      BY <1>1, Counted DEF Fits
    <2> QED
      BY <1>1, <2>1, <2>2 DEF ValuesFollow
  <1>5. ValuesRight'
    BY <1>1, <1>2, <1>4, ValuesStep
  <1> QED
    BY <1>2, <1>3, <1>5

(* A line that changes no data; main counts, and does not yet have the     *)
(* result.                                                                 *)
MainFits(a, b) ==
  /\ a \in Deleting /\ b \in Deleting
  /\ b \in {"unlockTail", "unlockHead", "counted"} =>
       a \in {"unlockTail", "unlockHead", "counted"}

(* Such a line keeps the whole invariant. *)
LEMMA LineKeeps ==
  ASSUME BufferInv, Created, NEW t \in Threads, NEW a, NEW b, Steps(t, a, b),
         b \in PlacesOf(t), a # "end", a # "advanceTail", b # "advanceTail",
         NEW s \in Semaphore, NEW c \in {-1, 0, 1}, Calls(s, t, b, c),
         Fits(s, t, a, b, c),
         Change(InRing, a, b) = IF s = "itemAvailable" THEN -c ELSE 0,
         UNCHANGED <<threadNum, n, left, head, tail, buffer, ret>>,
         threadEnd' = threadEnd \/ (t = Keyboard /\ threadEnd' \in BOOLEAN),
         t = Main => MainFits(a, b)
  PROVE  BufferInv'
  <1>1. /\ ControlInv /\ DataType /\ ValuesRight /\ RingRight /\ MainRight
        /\ b \in Places
    BY PlacesAreOfThreads DEF BufferInv
  <1>2. ControlInv' /\ ValuesRight'
    BY <1>1, ValuesKeep
  <1>3. /\ value["itemAvailable"] \in Int
        /\ value'["itemAvailable"] = value["itemAvailable"]
             + (IF s = "itemAvailable" THEN c ELSE 0)
    BY <1>1, ValuesKeep, SemaphoreNames
  <1>4. Main' = Main /\ Consumer' = Consumer /\ Count' = Count /\ Count \in Int
    BY <1>1 DEF Main, Consumer, Count, cap, DataType
  <1>5. DataType'
    BY <1>1, <1>4 DEF DataType
  <1>6. pc[t] = a /\ pc'[t] = b /\ \A u \in Threads \ {t} : pc'[u] = pc[u]
    BY <1>1, Moves
  <1>7. Main \in Threads
    BY <1>1, ThreadsFinite DEF ControlInv
  <1>8. pc'[Main] \in {"ask", "await"} => pc[Main] \in {"ask", "await"}
    BY <1>6, <1>7 DEF MainFits, Deleting, CountPlaces
  <1>9. Count' - Count = value'["itemAvailable"] - value["itemAvailable"]
                            + Change(InRing, a, b)
    BY <1>1, <1>3, <1>4
  <1>10. RingRight'
    BY <1>1, <1>2, <1>4, <1>8, <1>9, RingStep
  <1>11. NothingOverwritten'
    BY <1>1, ItemsKept
  <1>12. MainRight'
    <2>1. CASE t # Main
      BY <1>1, <2>1, MainAwaits
    <2>2. CASE t = Main
      <3>1. a \in Deleting /\ Accepts /\ \A u \in Threads \ {Main} : pc[u] = "end"
        BY <1>1, <1>6, <2>2 DEF MainFits, MainRight, Created
      <3>2. \A u \in Threads' \ {Main'} : pc'[u] = "end"
        BY <1>4, <1>6, <2>2, <3>1 DEF Threads
      <3> QED
        BY <1>1, <1>4, <1>6, <2>2, <3>2 DEF MainRight, MainFits
    <2> QED
      BY <2>1, <2>2
  <1> QED
    BY <1>2, <1>5, <1>10, <1>11, <1>12 DEF BufferInv

-----------------------------------------------------------------------------
(* The lines that change no data *)

(* Which lines call which semaphore. *)
WaitLines == {<<"put", "spaceAvailable", "lockTail">>,
              <<"lockTail", "mutexTail", "write">>,
              <<"get", "itemAvailable", "lockHead">>,
              <<"lockHead", "mutexHead", "advanceHead">>,
              <<"getCnt", "mutexHead", "countLockTail">>,
              <<"countLockTail", "mutexTail", "count">>}
SignalLines == {<<"releaseTail", "mutexTail", "offer">>,
                <<"offer", "itemAvailable", "loop">>,
                <<"offer", "itemAvailable", "signal">>,
                <<"releaseHead", "mutexHead", "free">>,
                <<"free", "spaceAvailable", "loop">>,
                <<"unlockTail", "mutexTail", "unlockHead">>,
                <<"unlockHead", "mutexHead", "counted">>}

LineFits(s, a, b, c) ==
  /\ \A t : Fits(s, t, a, b, c)
  /\ Change(InRing, a, b) = IF s = "itemAvailable" THEN -c ELSE 0
  /\ a # "end" /\ a # "advanceTail" /\ b # "advanceTail" /\ s \in Semaphore

(* Every line that waits fits its semaphore. *)
LEMMA WaitLinesFit ==
  ASSUME NEW a, NEW s, NEW b, <<a, s, b>> \in WaitLines
  PROVE  LineFits(s, a, b, -1) /\ b \in Behind(s)
  BY DEF WaitLines, LineFits, Fits, Change, Behind, Semaphore, HoldsTail,
         HoldsHead, Puts, Gets, InRing, Ended

(* Every line that signals fits its semaphore. *)
LEMMA SignalLinesFit ==
  ASSUME NEW a, NEW s, NEW b, <<a, s, b>> \in SignalLines
  PROVE  LineFits(s, a, b, 1)
  BY DEF SignalLines, LineFits, Fits, Change, Semaphore, HoldsTail,
         HoldsHead, Puts, Gets, InRing, Ended

(* A line of any thread that waits on a semaphore keeps the invariant. *)
LEMMA WaitsKeeps ==
  ASSUME BufferInv, Created, NEW t \in Threads, NEW a, NEW s, NEW b,
         Waits(t, a, s, b), <<a, s, b>> \in WaitLines, b \in PlacesOf(t),
         t = Main => MainFits(a, b)
  PROVE  BufferInv'
  <1>1. LineFits(s, a, b, -1) /\ b \in Behind(s)
    BY WaitLinesFit
  <1>2. /\ Steps(t, a, b) /\ Calls(s, t, b, -1)
        /\ UNCHANGED <<threadNum, n, left, head, tail, buffer, ret, threadEnd>>
    BY <1>1 DEF Waits, Calls, program, ring
  <1> QED
    BY <1>1, <1>2, LineKeeps DEF LineFits

(* A line of any thread that signals a semaphore keeps the invariant. *)
LEMMA SignalsKeeps ==
  ASSUME BufferInv, Created, NEW t \in Threads, NEW a, NEW s, NEW b,
         Signals(t, a, s, b), <<a, s, b>> \in SignalLines, b \in PlacesOf(t),
         t = Main => MainFits(a, b)
  PROVE  BufferInv'
  <1>1. LineFits(s, a, b, 1)
    BY SignalLinesFit
  <1>2. /\ Steps(t, a, b) /\ Calls(s, t, b, 1)
        /\ UNCHANGED <<threadNum, n, left, head, tail, buffer, ret, threadEnd>>
    BY <1>1 DEF Signals, Calls, program, ring
  <1> QED
    BY <1>1, <1>2, LineKeeps DEF LineFits

(* The lines that call none. *)
FreeLines == {"loop", "put", "get", "getCnt", "counted", "signal"}

(* A line that calls nothing fits any semaphore. *)
LEMMA FreeLinesFit ==
  ASSUME NEW a \in FreeLines, NEW b \in FreeLines
  PROVE  LineFits("mutexTail", a, b, 0)
  BY DEF FreeLines, LineFits, Fits, Change, Semaphore, HoldsTail,
         HoldsHead, Puts, Gets, InRing, Ended

(* A line that calls nothing keeps the invariant. *)
LEMMA FreeKeeps ==
  ASSUME BufferInv, Created, NEW t \in Threads \ {Main},
         NEW a \in FreeLines, NEW b \in FreeLines, Steps(t, a, b),
         b \in PlacesOf(t), UNCHANGED <<value, waiting>>,
         UNCHANGED <<threadNum, n, left, head, tail, buffer, ret>>,
         threadEnd' = threadEnd \/ (t = Keyboard /\ threadEnd' \in BOOLEAN)
  PROVE  BufferInv'
  <1>1. LineFits("mutexTail", a, b, 0)
    BY FreeLinesFit
  <1>2. Calls("mutexTail", t, b, 0)
    BY DEF Calls
  <1> QED
    BY <1>1, <1>2, LineKeeps DEF LineFits

(* The threads end; that is what main waits for. *)
LEMMA FinishKeeps ==
  ASSUME BufferInv, Created, NEW t \in Threads, Finish(t)
  PROVE  BufferInv'
  <1>1. /\ t # Main /\ Steps(t, "signal", "end") /\ Calls("waitForAll", t, "end", 1)
        /\ UNCHANGED <<threadNum, n, left, head, tail, buffer, ret, threadEnd>>
    BY DEF Finish, Signals, Calls, program, ring
  <1>2. "end" \in PlacesOf(t)
    BY DEF PlacesOf, MainPlaces, Deleting, ConsumerPlaces, ProducerPlaces
  <1>3. Fits("waitForAll", t, "signal", "end", 1)
    BY <1>1 DEF Fits, Change, HoldsTail, HoldsHead, Puts, Gets, Ended
  <1>4. Change(InRing, "signal", "end") = 0
    BY DEF Change, InRing
  <1> QED
    BY <1>1, <1>2, <1>3, <1>4, SemaphoreNames, LineKeeps

-----------------------------------------------------------------------------
(* What the values allow *)

(* The places Q are those of S and those of R. *)
Splits(Q, S, R) == Q = S \cup R /\ S \cap R = {}

(* The threads at Q are those at R and those at S. *)
LEMMA NumberSplit ==
  ASSUME NEW T, IsFiniteSet(T), NEW p, NEW S, NEW R, NEW Q,
         Splits(Q, S, R)
  PROVE  /\ NumberAt(T, p, S) \in Nat /\ NumberAt(T, p, R) \in Nat
         /\ NumberAt(T, p, Q) = NumberAt(T, p, S) + NumberAt(T, p, R)
  <1> DEFINE A == ThreadsAt(T, p, S)
             B == ThreadsAt(T, p, R)
  <1>1. /\ A \in SUBSET T /\ B \in SUBSET T /\ A \cap B = {}
        /\ ThreadsAt(T, p, Q) = A \cup B
    BY DEF ThreadsAt, Splits
  <1>2. /\ IsFiniteSet(A) /\ IsFiniteSet(B)
        /\ Cardinality(A) \in Nat /\ Cardinality(B) \in Nat
    BY <1>1, FS_Subset, FS_CardinalityType
  <1>3. Cardinality(A \cup B) = Cardinality(A) + Cardinality(B)
    <2>1. /\ Cardinality(A \cup B) =
               Cardinality(A) + Cardinality(B) - Cardinality(A \cap B)
          /\ Cardinality(A \cap B) = 0
      BY <1>1, <1>2, FS_Union, FS_EmptySet
    <2> HIDE DEF A, B
    <2> QED
      BY <1>2, <2>1
  <1> HIDE DEF A, B
  <1> QED
    BY <1>1, <1>2, <1>3 DEF A, B, NumberAt

(* At the places S behind a semaphore there are the threads that wait and  *)
(* the set U of threads that do not.                                       *)
LEMMA Passed ==
  ASSUME ControlInv, NEW s \in Semaphore, NEW S, Behind(s) \subseteq S,
         NEW U \in SUBSET Threads,
         \A u \in U : pc[u] \in S /\ ~InQueue(waiting[s], u)
  PROVE  /\ Number(S) \in Nat /\ Cardinality(U) \in Nat /\ value[s] \in Int
         /\ Number(S) >= (IF value[s] < 0 THEN -value[s] ELSE 0) + Cardinality(U)
  <1>1. /\ IsFiniteSet(Threads) /\ value[s] \in Int
        /\ Queued(Threads, waiting[s], value[s], pc, Behind(s))
    BY ThreadsFinite DEF ControlInv, QueuesRight
  <1>2. Len(waiting[s]) = IF value[s] < 0 THEN -value[s] ELSE 0
    BY <1>1 DEF Queued
  <1>3. /\ NumberAt(Threads, pc, S) \in Nat /\ Cardinality(U) \in Nat
        /\ NumberAt(Threads, pc, S) >= Len(waiting[s]) + Cardinality(U)
    BY <1>1, QueuePassed
  <1> QED
    BY <1>1, <1>2, <1>3 DEF Number

(* A thread that is not behind s waits elsewhere, if at all. *)
LEMMA NotQueued ==
  ASSUME ControlInv, NEW s \in Semaphore, NEW t \in Threads, pc[t] \notin Behind(s)
  PROVE  ~InQueue(waiting[s], t)
  BY DEF ControlInv, QueuesRight, Queued

(* mutexTail excludes: of two threads that are past it, one waits. *)
LEMMA OneAtTail ==
  ASSUME ControlInv, ValuesRight, NEW t \in Threads, NEW u \in Threads,
         pc[t] \in HoldsTail, ~InQueue(waiting["mutexTail"], t),
         pc[u] \in HoldsTail, ~InQueue(waiting["mutexTail"], u)
  PROVE  t = u
  <1>1. SUFFICES ASSUME t # u PROVE FALSE
    OBVIOUS
  <1> DEFINE U == {t, u}
  <1>2. Cardinality(U) = 2
    <2>1. /\ IsFiniteSet({t}) /\ Cardinality({t}) = 1 /\ u \notin {t}
          /\ U = {t} \cup {u}
      BY <1>1, FS_Singleton
    <2>2. Cardinality(U) = Cardinality({t}) + 1
      BY <2>1, FS_AddElement
    <2> QED
      BY <2>1, <2>2
  <1>3. /\ U \in SUBSET Threads
        /\ \A x \in U : pc[x] \in HoldsTail /\ ~InQueue(waiting["mutexTail"], x)
        /\ Behind("mutexTail") \subseteq HoldsTail
    BY DEF Behind, HoldsTail
  <1> HIDE DEF U
  <1>4. /\ Number(HoldsTail) \in Nat /\ value["mutexTail"] \in Int
        /\ Number(HoldsTail) >=
             (IF value["mutexTail"] < 0 THEN -value["mutexTail"] ELSE 0)
               + Cardinality(U)
    BY <1>3, Passed, SemaphoreNames
  <1>5. value["mutexTail"] = 1 - Number(HoldsTail)
    BY DEF ValuesRight
  <1> QED
    BY <1>2, <1>4, <1>5

(* Where a slot is reserved, and where it is about to be freed. *)
Reserved == {"lockTail", "write", "advanceTail"}
Freeing == {"releaseHead", "free"}

(* Until main deletes, the free slots are those that the value allows to   *)
(* reserve, the reserved ones, and those that are about to be freed.       *)
LEMMA FreeSlots ==
  ASSUME ControlInv, DataType, ValuesRight, RingRight,
         pc[Main] \in {"ask", "await"}
  PROVE  /\ Number(Reserved) \in Nat /\ Number(Freeing) \in Nat
         /\ n - Count = value["spaceAvailable"] + Number(Reserved) + Number(Freeing)
  <1> DEFINE R == {"releaseTail", "offer"}
             G == {"lockHead", "advanceHead"}
  <1>1. IsFiniteSet(Threads)
    BY ThreadsFinite DEF ControlInv
  <1>2. Splits(Puts, Reserved, R)
    BY DEF Splits, Puts, Reserved
  <1>3. Splits(Gets, G, Freeing)
    BY DEF Splits, Gets, Freeing
  <1>4. Splits(InRing, R, G)
    BY DEF Splits, InRing
  <1> HIDE DEF R, G
  <1>5. /\ Number(Reserved) \in Nat /\ Number(R) \in Nat
        /\ Number(Freeing) \in Nat /\ Number(G) \in Nat
        /\ Number(Puts) = Number(Reserved) + Number(R)
        /\ Number(Gets) = Number(G) + Number(Freeing)
        /\ Number(InRing) = Number(R) + Number(G)
    <2>1. /\ Number(Reserved) \in Nat /\ Number(R) \in Nat
          /\ Number(Puts) = Number(Reserved) + Number(R)
      BY <1>1, <1>2, NumberSplit DEF Number
    <2>2. /\ Number(G) \in Nat /\ Number(Freeing) \in Nat
          /\ Number(Gets) = Number(G) + Number(Freeing)
      BY <1>1, <1>3, NumberSplit DEF Number
    <2>3. Number(InRing) = Number(R) + Number(G)
      BY <1>1, <1>4, NumberSplit DEF Number
    <2> QED
      BY <2>1, <2>2, <2>3
  <1>6. /\ value["spaceAvailable"] \in Int /\ value["itemAvailable"] \in Int
        /\ Count \in Int /\ n \in Int
    BY SemaphoreNames DEF ControlInv, DataType, Count, cap
  <1>7. value["spaceAvailable"] + value["itemAvailable"]
          + Number(Puts) + Number(Gets) = n
    BY DEF ValuesRight
  <1>8. Count = value["itemAvailable"] + Number(InRing)
    BY DEF RingRight
  <1> QED
    BY <1>5, <1>6, <1>7, <1>8

(* A producer that advances tail has a free slot; a consumer that advances *)
(* head has an item.                                                       *)
LEMMA RoomToPut ==
  ASSUME ControlInv, DataType, ValuesRight, RingRight,
         pc[Main] \in {"ask", "await"},
         NEW t \in Threads, pc[t] = "advanceTail"
  PROVE  Count < n
  <1>1. ~InQueue(waiting["spaceAvailable"], t)
    BY NotQueued, SemaphoreNames DEF Behind
  <1>2. /\ {t} \in SUBSET Threads /\ Behind("spaceAvailable") \subseteq Reserved
        /\ \A u \in {t} : pc[u] \in Reserved
                            /\ ~InQueue(waiting["spaceAvailable"], u)
    BY <1>1 DEF Behind, Reserved
  <1>3. /\ Number(Reserved) \in Nat /\ value["spaceAvailable"] \in Int
        /\ Number(Reserved) >=
             (IF value["spaceAvailable"] < 0 THEN -value["spaceAvailable"] ELSE 0)
               + Cardinality({t})
    BY <1>2, Passed, SemaphoreNames
  <1>4. Cardinality({t}) = 1
    BY FS_Singleton
  <1>5. Count \in Int /\ n \in Int
    BY DEF DataType, Count, cap
  <1> QED
    BY <1>3, <1>4, <1>5, FreeSlots

(* A consumer that advances head has an item. *)
LEMMA ItemToGet ==
  ASSUME ControlInv, DataType, ValuesRight, RingRight,
         pc[Main] \in {"ask", "await"},
         NEW t \in Threads, pc[t] = "advanceHead"
  PROVE  Count > 0
  <1>1. ~InQueue(waiting["itemAvailable"], t)
    BY NotQueued, SemaphoreNames DEF Behind
  <1>2. /\ {t} \in SUBSET Threads /\ Behind("itemAvailable") \subseteq InRing
        /\ \A u \in {t} : pc[u] \in InRing
                            /\ ~InQueue(waiting["itemAvailable"], u)
    BY <1>1 DEF Behind, InRing
  <1>3. /\ Number(InRing) \in Nat /\ value["itemAvailable"] \in Int
        /\ Number(InRing) >=
             (IF value["itemAvailable"] < 0 THEN -value["itemAvailable"] ELSE 0)
               + Cardinality({t})
    BY <1>2, Passed, SemaphoreNames
  <1>4. Cardinality({t}) = 1
    BY FS_Singleton
  <1>5. Count = value["itemAvailable"] + Number(InRing)
    BY DEF RingRight
  <1> QED
    BY <1>3, <1>4, <1>5

(* One step around the ring of k + 1 slots. *)
LEMMA Advanced ==
  ASSUME NEW k \in Nat, NEW x \in 0 .. k
  PROVE  (x + 1) % (k + 1) = IF x = k THEN 0 ELSE x + 1
  OBVIOUS

Between(k, h, t) == IF t >= h THEN t - h ELSE (k + 1) - h + t

(* One step of tail adds an item, one step of head takes one. *)
LEMMA Around ==
  ASSUME NEW k \in Nat, NEW h \in 0 .. k, NEW t \in 0 .. k
  PROVE  /\ Between(k, h, t) < k =>
              Between(k, h, IF t = k THEN 0 ELSE t + 1) = Between(k, h, t) + 1
         /\ Between(k, h, t) > 0 =>
              Between(k, IF h = k THEN 0 ELSE h + 1, t) = Between(k, h, t) - 1
  BY DEF Between

(* getCnt counts the slots from head to tail. *)
LEMMA CountIsBetween ==
  Count = Between(n, head, tail) /\ Count' = Between(n', head', tail')
  BY Zenon DEF Count, cap, Between

(* The count after put has advanced tail. *)
LEMMA CountPut ==
  ASSUME DataType, Count < n, tail' = (tail + 1) % cap, UNCHANGED <<head, n>>
  PROVE  tail' \in 0 .. n /\ Count' = Count + 1
  <1>1. tail' = IF tail = n THEN 0 ELSE tail + 1
    BY Advanced DEF DataType, cap
  <1>2. n \in Nat /\ head \in 0 .. n /\ tail \in 0 .. n /\ tail' \in 0 .. n
    BY <1>1 DEF DataType
  <1> QED
    BY <1>1, <1>2, CountIsBetween, Around

(* The count after head has advanced. *)
LEMMA CountGet ==
  ASSUME DataType, Count > 0, head' = (head + 1) % cap, UNCHANGED <<tail, n>>
  PROVE  head' \in 0 .. n /\ Count' = Count - 1
  <1>1. head' = IF head = n THEN 0 ELSE head + 1
    BY Advanced DEF DataType, cap
  <1>2. n \in Nat /\ head \in 0 .. n /\ tail \in 0 .. n /\ head' \in 0 .. n
    BY <1>1 DEF DataType
  <1> QED
    BY <1>1, <1>2, CountIsBetween, Around

-----------------------------------------------------------------------------
(* The lines that change the ring *)

(* Producers are threads, and have their program. *)
LEMMA ProducersAre ==
  ASSUME threadNum \in Nat, NEW t \in Producers
  PROVE  /\ t \in Threads \ {Main} /\ PlacesOf(t) = ProducerPlaces
         /\ Item(t) \in Int
  BY ThreadsFinite DEF PlacesOf, Item, Bang, Producers

(* Write is between LockTail and AdvanceTail: nobody else is there. *)
LEMMA WriteKeeps ==
  ASSUME BufferInv, Created, NEW t \in Producers, Write(t)
  PROVE  BufferInv'
  <1>1. /\ ControlInv /\ DataType /\ ValuesRight /\ RingRight
        /\ t \in Threads \ {Main} /\ PlacesOf(t) = ProducerPlaces
        /\ Item(t) \in Int /\ threadNum \in Nat
    BY ProducersAre DEF BufferInv, ControlInv
  <1>2. /\ Steps(t, "write", "advanceTail")
        /\ buffer' = [buffer EXCEPT ![tail] = Item(t)]
        /\ UNCHANGED <<threadNum, n, left, head, tail, ret, threadEnd>>
        /\ Calls("mutexTail", t, "advanceTail", 0)
    BY DEF Write, program, Calls
  <1>3. Fits("mutexTail", t, "write", "advanceTail", 0)
        /\ Change(InRing, "write", "advanceTail") = 0
    BY DEF Fits, Change, HoldsTail, HoldsHead, Puts, Gets, Ended, InRing
  <1>4. "advanceTail" \in PlacesOf(t) /\ "advanceTail" \in Places
    BY <1>1, PlacesAreOfThreads DEF ProducerPlaces
  <1>5. /\ ControlInv' /\ ValuesRight' /\ value["itemAvailable"] \in Int
        /\ value'["itemAvailable"] = value["itemAvailable"]
    BY <1>1, <1>2, <1>3, <1>4, ValuesKeep, SemaphoreNames
  <1>6. Count' = Count /\ Count \in Int /\ Main' = Main /\ Consumer' = Consumer
    BY <1>1, <1>2 DEF Count, cap, DataType, Main, Consumer
  <1>7. DataType' /\ buffer'[tail] = Item(t)
    BY <1>1, <1>2, <1>6 DEF DataType
  <1>8. pc[Main] = "await" /\ MainRight'
    BY <1>1, <1>2, <1>4, MainAwaits
  <1>9. RingRight'
    BY <1>1, <1>2, <1>3, <1>4, <1>5, <1>6, <1>8, RingStep
  <1>10. NothingOverwritten'
    <2>1. SUFFICES ASSUME NEW u \in Producers, pc'[u] = "advanceTail"
                   PROVE  buffer'[tail] = Item(u)'
      BY <1>2 DEF NothingOverwritten, Producers
    <2>2. /\ u \in Threads /\ pc[t] = "write" /\ ~InQueue(waiting["mutexTail"], t)
          /\ u # t => pc[u] = "advanceTail"
      BY <1>1, <1>2, <1>4, <2>1, Moves, ProducersAre, SemaphoreNames
    <2>3. u = t
      <3>1. SUFFICES ASSUME u # t PROVE FALSE
        OBVIOUS
      <3>2. ~InQueue(waiting["mutexTail"], u)
        BY <1>1, <2>2, <3>1, NotQueued, SemaphoreNames DEF Behind
      <3>3. pc[t] \in HoldsTail /\ pc[u] \in HoldsTail
        BY <2>2, <3>1 DEF HoldsTail
      <3> QED
        BY <1>1, <2>2, <3>1, <3>2, <3>3, OneAtTail
    <2> QED
      BY <1>2, <1>7, <2>3 DEF Item, Bang
  <1> QED
    BY <1>5, <1>7, <1>8, <1>9, <1>10 DEF BufferInv

(* AdvanceTail keeps the invariant, and has a slot to advance over. *)
LEMMA AdvanceTailKeeps ==
  ASSUME BufferInv, Created, NEW t \in Producers, AdvanceTail(t)
  PROVE  BufferInv' /\ Count < n /\ tail' = (tail + 1) % cap
  <1>1. /\ ControlInv /\ DataType /\ ValuesRight /\ RingRight
        /\ t \in Threads \ {Main} /\ PlacesOf(t) = ProducerPlaces
        /\ threadNum \in Nat
    BY ProducersAre DEF BufferInv, ControlInv
  <1>2. /\ Steps(t, "advanceTail", "releaseTail") /\ tail' = (tail + 1) % cap
        /\ UNCHANGED <<threadNum, n, left, head, buffer, ret, threadEnd>>
        /\ Calls("mutexTail", t, "releaseTail", 0)
    BY DEF AdvanceTail, program, Calls
  <1>3. Fits("mutexTail", t, "advanceTail", "releaseTail", 0)
        /\ Change(InRing, "advanceTail", "releaseTail") = 1
    BY DEF Fits, Change, HoldsTail, HoldsHead, Puts, Gets, Ended, InRing
  <1>4. "releaseTail" \in PlacesOf(t) /\ "releaseTail" \in Places
    BY <1>1, PlacesAreOfThreads DEF ProducerPlaces
  <1>5. /\ ControlInv' /\ ValuesRight' /\ value["itemAvailable"] \in Int
        /\ value'["itemAvailable"] = value["itemAvailable"]
    BY <1>1, <1>2, <1>3, <1>4, ValuesKeep, SemaphoreNames
  <1>6. pc[Main] = "await" /\ MainRight'
    BY <1>1, <1>2, <1>4, MainAwaits
  <1>7. /\ pc[t] = "advanceTail" /\ pc'[t] = "releaseTail"
        /\ \A u \in Threads \ {t} : pc'[u] = pc[u]
        /\ ~InQueue(waiting["mutexTail"], t)
    BY <1>1, <1>2, <1>4, Moves, SemaphoreNames
  <1>8. Count < n
    BY <1>1, <1>6, <1>7, RoomToPut
  <1>9. /\ tail' \in 0 .. n /\ Count' = Count + 1 /\ Count \in Int
        /\ Main' = Main /\ Consumer' = Consumer
    BY <1>1, <1>2, <1>8, CountPut DEF Count, cap, DataType, Main, Consumer
  <1>10. DataType'
    BY <1>1, <1>2, <1>9 DEF DataType
  <1>11. RingRight'
    BY <1>1, <1>2, <1>3, <1>4, <1>5, <1>6, <1>9, RingStep
  <1>12. NothingOverwritten'
    <2>1. SUFFICES ASSUME NEW u \in Producers, pc'[u] = "advanceTail"
                   PROVE  FALSE
      BY <1>2 DEF NothingOverwritten, Producers
    <2>2. u \in Threads /\ u # t /\ pc[u] = "advanceTail"
      BY <1>1, <1>7, <2>1, ProducersAre
    <2>3. ~InQueue(waiting["mutexTail"], u)
      BY <1>1, <2>2, NotQueued, SemaphoreNames DEF Behind
    <2>4. pc[t] \in HoldsTail /\ pc[u] \in HoldsTail
      BY <1>7, <2>2 DEF HoldsTail
    <2> QED
      BY <1>1, <1>7, <2>2, <2>3, <2>4, OneAtTail
  <1> QED
    BY <1>2, <1>5, <1>6, <1>8, <1>10, <1>11, <1>12 DEF BufferInv

(* AdvanceHead keeps the invariant, and has an item to advance over. *)
LEMMA AdvanceHeadKeeps ==
  ASSUME BufferInv, Created, AdvanceHead(Consumer)
  PROVE  BufferInv' /\ Count > 0 /\ head' = (head + 1) % cap
  <1> DEFINE t == Consumer
  <1>1. /\ ControlInv /\ DataType /\ ValuesRight /\ RingRight
        /\ t \in Threads \ {Main} /\ PlacesOf(t) = ConsumerPlaces
        /\ threadNum \in Nat
    BY ThreadsFinite DEF BufferInv, ControlInv, PlacesOf
  <1>2. /\ Steps(t, "advanceHead", "releaseHead") /\ head' = (head + 1) % cap
        /\ UNCHANGED <<threadNum, n, left, tail, buffer, ret, threadEnd>>
        /\ Calls("mutexTail", t, "releaseHead", 0)
    BY DEF AdvanceHead, program, Calls
  <1>3. Fits("mutexTail", t, "advanceHead", "releaseHead", 0)
        /\ Change(InRing, "advanceHead", "releaseHead") = -1
    BY DEF Fits, Change, HoldsTail, HoldsHead, Puts, Gets, Ended, InRing
  <1>4. "releaseHead" \in PlacesOf(t) /\ "releaseHead" \in Places
    BY <1>1, PlacesAreOfThreads DEF ConsumerPlaces
  <1>5. /\ ControlInv' /\ ValuesRight' /\ value["itemAvailable"] \in Int
        /\ value'["itemAvailable"] = value["itemAvailable"]
    BY <1>1, <1>2, <1>3, <1>4, ValuesKeep, SemaphoreNames
  <1>6. pc[Main] = "await" /\ MainRight'
    BY <1>1, <1>2, <1>4, MainAwaits
  <1>7. pc[t] = "advanceHead"
    BY <1>1, <1>2, <1>4, Moves
  <1>8. Count > 0
    BY <1>1, <1>6, <1>7, ItemToGet
  <1>9. /\ head' \in 0 .. n /\ Count' = Count - 1 /\ Count \in Int
        /\ Main' = Main /\ Consumer' = Consumer
    BY <1>1, <1>2, <1>8, CountGet DEF Count, cap, DataType, Main, Consumer
  <1>10. DataType'
    BY <1>1, <1>2, <1>9 DEF DataType
  <1>11. RingRight'
    BY <1>1, <1>2, <1>3, <1>4, <1>5, <1>6, <1>9, RingStep
  <1>12. NothingOverwritten'
    BY <1>1, <1>2, <1>4, ItemsKept
  <1> QED
    BY <1>2, <1>5, <1>6, <1>8, <1>10, <1>11, <1>12 DEF BufferInv

-----------------------------------------------------------------------------
(* The lines of main *)

(* Main and the consumer are threads, and have their programs. *)
LEMMA MainsAre ==
  ASSUME threadNum \in Nat
  PROVE  /\ Main \in Threads /\ PlacesOf(Main) = MainPlaces
         /\ Consumer \in Threads \ {Main} /\ PlacesOf(Consumer) = ConsumerPlaces
  BY ThreadsFinite DEF PlacesOf

(* The line of getCnt that counts. *)
LEMMA ReadCountKeeps ==
  ASSUME BufferInv, Created, NEW t \in {Consumer, Main}, ReadCount(t)
  PROVE  BufferInv'
  <1>1. /\ ControlInv /\ DataType /\ ValuesRight /\ RingRight /\ MainRight
        /\ threadNum \in Nat /\ t \in Threads /\ Main \in Threads
    BY MainsAre DEF BufferInv, ControlInv
  <1>2. /\ Steps(t, "count", "unlockTail") /\ ret' = [ret EXCEPT ![t] = Count]
        /\ UNCHANGED <<threadNum, n, left, head, tail, buffer, threadEnd>>
        /\ Calls("mutexTail", t, "unlockTail", 0)
    BY DEF ReadCount, program, Calls
  <1>3. Fits("mutexTail", t, "count", "unlockTail", 0)
        /\ Change(InRing, "count", "unlockTail") = 0
    BY DEF Fits, Change, HoldsTail, HoldsHead, Puts, Gets, Ended, InRing
  <1>4. "unlockTail" \in PlacesOf(t) /\ "unlockTail" \in Places
    BY <1>1, MainsAre, PlacesAreOfThreads
       DEF MainPlaces, ConsumerPlaces, Deleting, CountPlaces
  <1>5. /\ ControlInv' /\ ValuesRight' /\ value["itemAvailable"] \in Int
        /\ value'["itemAvailable"] = value["itemAvailable"]
    BY <1>1, <1>2, <1>3, <1>4, ValuesKeep, SemaphoreNames
  <1>6. Count' = Count /\ Count \in Int /\ Main' = Main /\ Consumer' = Consumer
    BY <1>1, <1>2 DEF Count, cap, DataType, Main, Consumer
  <1>7. DataType' /\ ret'[t] = Count
    BY <1>1, <1>2, <1>6 DEF DataType
  <1>8. /\ pc[t] = "count" /\ pc'[t] = "unlockTail"
        /\ \A u \in Threads \ {t} : pc'[u] = pc[u]
    BY <1>1, <1>2, <1>4, Moves
  <1>9. pc'[Main] \in {"ask", "await"} => pc[Main] \in {"ask", "await"}
    BY <1>1, <1>8
  <1>10. RingRight'
    BY <1>1, <1>2, <1>3, <1>4, <1>5, <1>6, <1>9, RingStep
  <1>11. NothingOverwritten'
    BY <1>1, <1>2, <1>4, ItemsKept
  <1>12. MainRight'
    <2>1. CASE t # Main
      BY <1>1, <1>2, <1>4, <2>1, MainAwaits
    <2>2. CASE t = Main
      <3>1. Accepts /\ \A u \in Threads \ {Main} : pc[u] = "end"
        BY <1>1, <1>8, <2>2 DEF MainRight, Created, Deleting, CountPlaces
      <3>2. \A u \in Threads' \ {Main'} : pc'[u] = "end"
        BY <1>2, <1>6, <1>8, <2>2, <3>1 DEF Threads
      <3> QED
        BY <1>6, <1>7, <2>2, <3>2 DEF MainRight
    <2> QED
      BY <2>1, <2>2
  <1> QED
    BY <1>5, <1>7, <1>10, <1>11, <1>12 DEF BufferInv

(* Main accepts the numbers, or ends. *)
LEMMA MainStartKeeps ==
  ASSUME BufferInv, mainStart
  PROVE  BufferInv'
  <1> DEFINE b == IF Accepts THEN "await" ELSE "end"
  <1>1. /\ ControlInv /\ DataType /\ ValuesRight /\ RingRight
        /\ threadNum \in Nat /\ Main \in Threads
    BY MainsAre DEF BufferInv, ControlInv
  <1>2. /\ Steps(Main, "ask", b)
        /\ UNCHANGED <<threadNum, n, left, head, tail, buffer, ret, threadEnd>>
        /\ Calls("mutexTail", Main, b, 0)
    BY DEF mainStart, program, ring, Calls
  <1>3. Fits("mutexTail", Main, "ask", b, 0) /\ Change(InRing, "ask", b) = 0
    BY DEF Fits, Change, HoldsTail, HoldsHead, Puts, Gets, Ended, InRing
  <1>4. b \in PlacesOf(Main) /\ b \in Places /\ b # "advanceTail"
    BY <1>1, MainsAre, PlacesAreOfThreads DEF MainPlaces, Deleting
  <1>5. b = "await" \/ (b = "end" /\ ~Accepts)
    OBVIOUS
  <1> HIDE DEF b
  <1>6. /\ ControlInv' /\ ValuesRight' /\ value["itemAvailable"] \in Int
        /\ value'["itemAvailable"] = value["itemAvailable"]
    BY <1>1, <1>2, <1>3, <1>4, ValuesKeep, SemaphoreNames
  <1>7. /\ Count' = Count /\ Count \in Int /\ Main' = Main /\ Consumer' = Consumer
        /\ Accepts' = Accepts
    BY <1>1, <1>2 DEF Count, cap, DataType, Main, Consumer, Accepts
  <1>8. DataType'
    BY <1>1, <1>2, <1>7 DEF DataType
  <1>9. pc[Main] = "ask" /\ pc'[Main] = b
    BY <1>1, <1>2, <1>4, Moves
  <1>10. RingRight'
    BY <1>1, <1>2, <1>3, <1>4, <1>6, <1>7, <1>9, RingStep
  <1>11. NothingOverwritten'
    BY <1>1, <1>2, <1>4, ItemsKept
  <1>12. MainRight'
    BY <1>5, <1>7, <1>9 DEF MainRight, Deleting, CountPlaces
  <1> QED
    BY <1>6, <1>8, <1>10, <1>11, <1>12 DEF BufferInv

(* Main is the only thread that waits for all; when it is not blocked and  *)
(* has waited often enough, all have ended.                                *)
LEMMA AllEnded ==
  ASSUME ControlInv, DataType, ValuesRight, left = 0,
         ~InQueue(waiting["waitForAll"], Main)
  PROVE  \A t \in Threads \ {Main} : pc[t] = "end"
  <1> DEFINE v == value["waitForAll"]
             q == waiting["waitForAll"]
  <1>1. /\ v \in Int /\ threadNum \in Nat
        /\ Queued(Threads, q, v, pc, Behind("waitForAll"))
        /\ \A t \in Threads : pc[t] \in PlacesOf(t)
    BY SemaphoreNames DEF ControlInv, QueuesRight
  <1>2. /\ q \in Seq(Threads) /\ Len(q) = IF v < 0 THEN -v ELSE 0
        /\ \A u \in Threads : InQueue(q, u) => pc[u] = "await"
    BY <1>1 DEF Queued, Behind
  <1>3. \A u \in Threads : pc[u] = "await" => u = Main
    BY <1>1 DEF PlacesOf, ConsumerPlaces, ProducerPlaces, CountPlaces
  <1>4. v >= 0
    <2>1. SUFFICES ASSUME v < 0 PROVE FALSE
      BY <1>1
    <2> HIDE DEF v, q
    <2>2. 1 \in 1 .. Len(q)
      BY <1>1, <1>2, <2>1
    <2>3. q[1] \in Threads
      BY <1>2, <2>2, ElementOfSeq
    <2>4. InQueue(q, q[1])
      BY <2>2 DEF InQueue
    <2> QED
      BY <1>2, <1>3, <2>3, <2>4 DEF q
  <1> DEFINE U == Threads \ {Main}
  <1>5. IsFiniteSet(U) /\ Cardinality(U) = threadNum + 1
    BY <1>1, ThreadsFinite
  <1>6. v = NumberAt(U, pc, Ended) - (threadNum + 1 - left)
    BY DEF ValuesRight
  <1>7. NumberAt(U, pc, Ended) \in Nat
    <2>1. ThreadsAt(U, pc, Ended) \in SUBSET U
      BY DEF ThreadsAt
    <2> QED
      BY <1>5, <2>1, FS_Subset, FS_CardinalityType DEF NumberAt
  <1> HIDE DEF U, v
  <1>8. NumberAt(U, pc, Ended) >= Cardinality(U)
    BY <1>1, <1>4, <1>5, <1>6, <1>7
  <1>9. \A u \in U : pc[u] \in Ended
    BY <1>5, <1>8, NumberAll
  <1> QED
    BY <1>9 DEF U, Ended

(* Main waits once for each thread, and then deletes the buffer. *)
LEMMA MainAwaitKeeps ==
  ASSUME BufferInv, Created, mainAwait
  PROVE  BufferInv'
  <1>1. /\ ControlInv /\ DataType /\ ValuesRight /\ RingRight
        /\ threadNum \in Nat /\ Main \in Threads /\ left \in Nat
    BY MainsAre DEF BufferInv, ControlInv, DataType
  <1>2. UNCHANGED <<threadNum, n, head, tail, buffer, ret, threadEnd>>
    BY DEF mainAwait, ring
  <1>3. /\ Count' = Count /\ Count \in Int /\ Main' = Main /\ Consumer' = Consumer
        /\ Threads' = Threads
    BY <1>1, <1>2 DEF Count, cap, DataType, Main, Consumer, Threads
  <1>4. /\ "await" \in PlacesOf(Main) /\ "await" \in Places
        /\ "getCnt" \in PlacesOf(Main) /\ "getCnt" \in Places
    BY <1>1, MainsAre, PlacesAreOfThreads DEF MainPlaces, Deleting, CountPlaces
  <1>5. CASE left > 0
    <2>1. /\ Steps(Main, "await", "await") /\ left' = left - 1
          /\ Wait("waitForAll", Main)
      BY <1>5 DEF mainAwait, AwaitAll
    <2>2. /\ value' = [value EXCEPT !["waitForAll"] = @ - 1]
          /\ ControlInv'
      BY <1>1, <1>2, <1>4, <2>1, SemWait, ControlStep, SemaphoreNames DEF Behind
    <2>3. /\ value["waitForAll"] \in Int /\ value["itemAvailable"] \in Int
          /\ value'["waitForAll"] = value["waitForAll"] - 1
          /\ value'["mutexTail"] = value["mutexTail"]
          /\ value'["mutexHead"] = value["mutexHead"]
          /\ value'["spaceAvailable"] = value["spaceAvailable"]
          /\ value'["itemAvailable"] = value["itemAvailable"]
          /\ value["mutexTail"] \in Int /\ value["mutexHead"] \in Int
          /\ value["spaceAvailable"] \in Int
      <3>1. value \in [Semaphore -> Int]
        BY <1>1 DEF ControlInv
      <3> QED
        BY <2>2, <3>1, SemaphoreNames
    <2>4. \A S : Change(S, "await", "await") = 0
      BY DEF Change
    <2>5. ValuesFollow(Main, "await", "await", value, value')
      BY <1>1, <2>1, <2>3, <2>4 DEF ValuesFollow
    <2>6. left' \in Nat /\ DataType'
      BY <1>1, <1>2, <1>3, <1>5, <2>1 DEF DataType
    <2>7. ValuesRight'
      BY <1>1, <1>2, <1>4, <2>1, <2>2, <2>5, <2>6, ValuesStep
    <2>8. pc[Main] = "await" /\ pc'[Main] = "await"
      BY <1>1, <1>4, <2>1, Moves
    <2>9. RingRight'
      BY <1>1, <1>2, <1>3, <1>4, <2>1, <2>2, <2>3, <2>4, <2>8, RingStep
    <2>10. NothingOverwritten'
      BY <1>1, <1>2, <1>4, <2>1, ItemsKept
    <2>11. MainRight'
      BY <1>3, <2>8 DEF MainRight, Deleting, CountPlaces
    <2> QED
      BY <2>2, <2>6, <2>7, <2>9, <2>10, <2>11 DEF BufferInv
  <1>6. CASE left = 0
    <2>1. /\ Steps(Main, "await", "getCnt") /\ left' = left
          /\ Calls("mutexTail", Main, "getCnt", 0)
      BY <1>6 DEF mainAwait, AwaitAll, Calls
    <2>2. Fits("mutexTail", Main, "await", "getCnt", 0)
      BY DEF Fits, Change, HoldsTail, HoldsHead, Puts, Gets, Ended
    <2>3. ControlInv' /\ ValuesRight'
      BY <1>1, <1>2, <1>4, <2>1, <2>2, ValuesKeep, SemaphoreNames
    <2>4. DataType'
      BY <1>1, <1>2, <1>3, <2>1 DEF DataType
    <2>5. /\ pc'[Main] = "getCnt" /\ \A u \in Threads \ {Main} : pc'[u] = pc[u]
          /\ ~InQueue(waiting["waitForAll"], Main)
      BY <1>1, <1>4, <2>1, Moves, SemaphoreNames
    <2>6. RingRight'
      BY <1>3, <2>5 DEF RingRight
    <2>7. NothingOverwritten'
      BY <1>1, <1>2, <1>4, <2>1, ItemsKept
    <2>8. \A t \in Threads \ {Main} : pc[t] = "end"
      BY <1>1, <1>6, <2>5, AllEnded
    <2>9. MainRight'
      BY <1>3, <2>5, <2>8 DEF MainRight
    <2> QED
      BY <2>3, <2>4, <2>6, <2>7, <2>9 DEF BufferInv
  <1> QED
    BY <1>1, <1>5, <1>6

(* The destructor's loop: head advances over an item, or stays. *)
LEMMA MainDeleteKeeps ==
  ASSUME BufferInv, Created, mainDelete
  PROVE  /\ BufferInv'
         /\ \/ Count > 0 /\ head' = (head + 1) % cap
            \/ head' = head
  <1> DEFINE b == IF ret[Main] > 0 THEN "getCnt" ELSE "end"
  <1>1. /\ ControlInv /\ DataType /\ ValuesRight /\ MainRight
        /\ threadNum \in Nat /\ Main \in Threads
    BY MainsAre DEF BufferInv, ControlInv
  <1>2. /\ Steps(Main, "counted", b)
        /\ head' = IF ret[Main] > 0 THEN (head + 1) % cap ELSE head
        /\ UNCHANGED <<threadNum, n, left, tail, buffer, ret, threadEnd>>
        /\ Calls("mutexTail", Main, b, 0)
    BY DEF mainDelete, program, Calls
  <1>3. Fits("mutexTail", Main, "counted", b, 0)
    BY DEF Fits, Change, HoldsTail, HoldsHead, Puts, Gets, Ended
  <1>4. /\ b \in PlacesOf(Main) /\ b \in Places /\ b \in Deleting
        /\ b # "advanceTail" /\ b \in {"getCnt", "end"}
    BY <1>1, MainsAre, PlacesAreOfThreads DEF MainPlaces, Deleting, CountPlaces
  <1> HIDE DEF b
  <1>5. ControlInv' /\ ValuesRight'
    BY <1>1, <1>2, <1>3, <1>4, ValuesKeep, SemaphoreNames
  <1>6. /\ Main' = Main /\ Consumer' = Consumer /\ Threads' = Threads
    BY <1>2 DEF Main, Consumer, Threads
  <1>7. /\ pc[Main] = "counted" /\ pc'[Main] = b
        /\ \A u \in Threads \ {Main} : pc'[u] = pc[u]
    BY <1>1, <1>2, <1>4, Moves
  <1>8. ret[Main] = Count
    BY <1>1, <1>7 DEF MainRight
  <1>9. head' \in 0 .. n
    BY <1>1, <1>2, Advanced DEF DataType, cap
  <1>10. DataType'
    BY <1>1, <1>2, <1>6, <1>9 DEF DataType
  <1>11. RingRight'
    BY <1>4, <1>6, <1>7 DEF RingRight
  <1>12. NothingOverwritten'
    BY <1>1, <1>2, <1>4, ItemsKept
  <1>13. MainRight'
    <2>1. \A u \in Threads \ {Main} : pc[u] = "end"
      BY <1>1, <1>7 DEF MainRight, Created, Deleting, CountPlaces
    <2> QED
      BY <1>4, <1>6, <1>7, <2>1 DEF MainRight
  <1> QED
    BY <1>2, <1>5, <1>8, <1>10, <1>11, <1>12, <1>13 DEF BufferInv

-----------------------------------------------------------------------------
(* Every line of every thread *)

(* The producers: every line of put, and of their loop. *)
LEMMA PutKeeps ==
  ASSUME BufferInv, Created, NEW t \in Producers,
         producer(t) \/ put(t) \/ Finish(t)
  PROVE  BufferInv'
  <1>1. /\ t \in Threads \ {Main} /\ PlacesOf(t) = ProducerPlaces
    BY ProducersAre DEF BufferInv, ControlInv
  <1>2. CASE producer(t)
    <2> DEFINE b == IF threadEnd THEN "signal" ELSE "put"
    <2>1. /\ Steps(t, "loop", b)
          /\ UNCHANGED <<value, waiting, threadNum, n, left, head, tail, buffer,
                         ret, threadEnd>>
      BY <1>2 DEF producer, Goes, ring, program
    <2>2. b \in FreeLines /\ "loop" \in FreeLines /\ b \in PlacesOf(t)
      BY <1>1 DEF FreeLines, ProducerPlaces
    <2> HIDE DEF b
    <2> QED
      BY <1>1, <2>1, <2>2, FreeKeeps
  <1>3. CASE Reserve(t) \/ LockTail(t)
    <2>1. \/ Waits(t, "put", "spaceAvailable", "lockTail")
          \/ Waits(t, "lockTail", "mutexTail", "write")
      BY <1>3 DEF Reserve, LockTail
    <2>2. /\ <<"put", "spaceAvailable", "lockTail">> \in WaitLines
          /\ <<"lockTail", "mutexTail", "write">> \in WaitLines
          /\ "lockTail" \in PlacesOf(t) /\ "write" \in PlacesOf(t)
      BY <1>1 DEF WaitLines, ProducerPlaces
    <2> QED
      BY <1>1, <2>1, <2>2, WaitsKeeps
  <1>4. CASE Signals(t, "releaseTail", "mutexTail", "offer") \/ Offer(t)
    <2>1. \/ Signals(t, "releaseTail", "mutexTail", "offer")
          \/ Signals(t, "offer", "itemAvailable", "loop")
          \/ Signals(t, "offer", "itemAvailable", "signal")
      BY <1>4 DEF Offer, AfterPut
    <2>2. /\ <<"releaseTail", "mutexTail", "offer">> \in SignalLines
          /\ <<"offer", "itemAvailable", "loop">> \in SignalLines
          /\ <<"offer", "itemAvailable", "signal">> \in SignalLines
          /\ "offer" \in PlacesOf(t) /\ "loop" \in PlacesOf(t)
          /\ "signal" \in PlacesOf(t)
      BY <1>1 DEF SignalLines, ProducerPlaces
    <2> QED
      BY <1>1, <2>1, <2>2, SignalsKeeps
  <1> QED
    BY <1>1, <1>2, <1>3, <1>4, WriteKeeps, AdvanceTailKeeps, FinishKeeps DEF put

(* The keyboard thread reads a key. *)
LEMMA KeyboardKeeps ==
  ASSUME BufferInv, Created, TypeKey \/ TypeEscape
  PROVE  BufferInv'
  <1>1. /\ threadNum \in Nat /\ threadNum # 0
    BY DEF BufferInv, ControlInv, Created, Accepts
  <1>2. Keyboard \in Threads \ {Main} /\ PlacesOf(Keyboard) = ProducerPlaces
    BY <1>1 DEF Keyboard, Threads, Main, PlacesOf, Consumer
  <1>3. /\ Steps(Keyboard, "loop", "put")
        /\ UNCHANGED <<value, waiting, threadNum, n, left, head, tail, buffer, ret>>
        /\ threadEnd' = threadEnd \/ threadEnd' \in BOOLEAN
    BY DEF TypeKey, TypeEscape, ring
  <1>4. "loop" \in FreeLines /\ "put" \in FreeLines /\ "put" \in PlacesOf(Keyboard)
    BY <1>2 DEF FreeLines, ProducerPlaces
  <1> QED
    BY <1>2, <1>3, <1>4, FreeKeeps

(* Every line of getCnt, by the consumer or by main. *)
LEMMA CountKeeps ==
  ASSUME BufferInv, Created, NEW t \in {Consumer, Main}, getCnt(t)
  PROVE  BufferInv'
  <1>1. t \in Threads /\ CountPlaces \subseteq PlacesOf(t)
    BY MainsAre DEF BufferInv, ControlInv, ConsumerPlaces, MainPlaces, Deleting
  <1>2. CASE \/ Waits(t, "getCnt", "mutexHead", "countLockTail")
             \/ Waits(t, "countLockTail", "mutexTail", "count")
    <2>1. /\ <<"getCnt", "mutexHead", "countLockTail">> \in WaitLines
          /\ <<"countLockTail", "mutexTail", "count">> \in WaitLines
          /\ "countLockTail" \in CountPlaces /\ "count" \in CountPlaces
          /\ MainFits("getCnt", "countLockTail")
          /\ MainFits("countLockTail", "count")
      BY DEF WaitLines, CountPlaces, MainFits, Deleting
    <2> QED
      BY <1>1, <1>2, <2>1, WaitsKeeps
  <1>3. CASE \/ Signals(t, "unlockTail", "mutexTail", "unlockHead")
             \/ Signals(t, "unlockHead", "mutexHead", "counted")
    <2>1. /\ <<"unlockTail", "mutexTail", "unlockHead">> \in SignalLines
          /\ <<"unlockHead", "mutexHead", "counted">> \in SignalLines
          /\ "unlockHead" \in CountPlaces /\ "counted" \in CountPlaces
          /\ MainFits("unlockTail", "unlockHead")
          /\ MainFits("unlockHead", "counted")
      BY DEF SignalLines, CountPlaces, MainFits, Deleting
    <2> QED
      BY <1>1, <1>3, <2>1, SignalsKeeps
  <1> QED
    BY <1>2, <1>3, ReadCountKeeps DEF getCnt

(* The consumer: every line of get, and of its loop. *)
LEMMA GetKeeps ==
  ASSUME BufferInv, Created, consumer \/ get(Consumer) \/ Finish(Consumer)
  PROVE  BufferInv'
  <1> DEFINE t == Consumer
  <1>1. t \in Threads \ {Main} /\ PlacesOf(t) = ConsumerPlaces
    BY MainsAre DEF BufferInv, ControlInv
  <1>2. CASE consumer
    <2>1. PICK a \in {"loop", "counted"}, b \in {"getCnt", "get", "signal"} :
            Goes(t, a, b)
      BY <1>2 DEF consumer
    <2>2. /\ Steps(t, a, b)
          /\ UNCHANGED <<value, waiting, threadNum, n, left, head, tail, buffer,
                         ret, threadEnd>>
      BY <2>1 DEF Goes, ring, program
    <2>3. a \in FreeLines /\ b \in FreeLines /\ b \in PlacesOf(t)
      BY <1>1 DEF FreeLines, ConsumerPlaces, CountPlaces
    <2> QED
      BY <1>1, <2>2, <2>3, FreeKeeps
  <1>3. CASE \/ Waits(t, "get", "itemAvailable", "lockHead")
             \/ Waits(t, "lockHead", "mutexHead", "advanceHead")
    <2>1. /\ <<"get", "itemAvailable", "lockHead">> \in WaitLines
          /\ <<"lockHead", "mutexHead", "advanceHead">> \in WaitLines
          /\ "lockHead" \in PlacesOf(t) /\ "advanceHead" \in PlacesOf(t)
      BY <1>1 DEF WaitLines, ConsumerPlaces
    <2> QED
      BY <1>1, <1>3, <2>1, WaitsKeeps
  <1>4. CASE \/ Signals(t, "releaseHead", "mutexHead", "free")
             \/ FreeSpace(t)
    <2>1. \/ Signals(t, "releaseHead", "mutexHead", "free")
          \/ Signals(t, "free", "spaceAvailable", "loop")
      BY <1>4 DEF FreeSpace
    <2>2. /\ <<"releaseHead", "mutexHead", "free">> \in SignalLines
          /\ <<"free", "spaceAvailable", "loop">> \in SignalLines
          /\ "free" \in PlacesOf(t) /\ "loop" \in PlacesOf(t)
      BY <1>1 DEF SignalLines, ConsumerPlaces
    <2> QED
      BY <1>1, <2>1, <2>2, SignalsKeeps
  <1> QED
    BY <1>1, <1>2, <1>3, <1>4, AdvanceHeadKeeps, FinishKeeps DEF get

(* Every step keeps the invariant. *)
LEMMA BufferNext ==
  ASSUME BufferInv, [Next]_vars
  PROVE  BufferInv'
  <1>1. CASE UNCHANGED vars
    <2>1. UNCHANGED <<threadNum, n, value, waiting, head, tail, buffer, pc, ret,
                      threadEnd, left>>
      BY <1>1 DEF vars
    <2>2. /\ Threads' = Threads /\ Main' = Main /\ Consumer' = Consumer
          /\ Count' = Count /\ Accepts' = Accepts
      BY <2>1 DEF Threads, Main, Consumer, Count, cap, Accepts
    <2>3. ControlInv' /\ DataType'
      BY <2>1, <2>2 DEF BufferInv, ControlInv, DataType, PlacesOf
    <2>4. ValuesRight' /\ RingRight'
      BY <2>1, <2>2 DEF BufferInv, ValuesRight, RingRight, Number
    <2>5. MainRight' /\ NothingOverwritten'
      BY <2>1, <2>2 DEF BufferInv, MainRight, NothingOverwritten, Producers,
                        Item, Bang
    <2> QED
      BY <2>3, <2>4, <2>5 DEF BufferInv
  <1> QED
    BY <1>1, MainStartKeeps, PutKeeps, KeyboardKeeps, GetKeeps, CountKeeps,
       MainAwaitKeeps, MainDeleteKeeps DEF Next, Thread

(* The invariant holds at first. *)
LEMMA BufferInit ==
  ASSUME Init
  PROVE  BufferInv
  <1>1. /\ threadNum \in Nat /\ n \in Nat \ {0}
    BY BufferAssumption DEF Init
  <1>2. /\ waiting = [s \in Semaphore |-> <<>>]
        /\ head = 0 /\ tail = 0 /\ buffer = [i \in 0 .. n |-> Main]
        /\ pc = [t \in Threads |-> IF t = Main THEN "ask" ELSE "loop"]
        /\ ret = [t \in {Consumer, Main} |-> 0]
        /\ threadEnd = FALSE /\ left = threadNum + 1
        /\ value \in [Semaphore -> Int]
        /\ value["mutexTail"] = 1 /\ value["mutexHead"] = 1
        /\ value["spaceAvailable"] = n /\ value["itemAvailable"] = 0
        /\ value["waitForAll"] = 0
        /\ \A s \in Semaphore : value[s] >= 0
    BY <1>1 DEF Init, Semaphore
  <1>3. /\ Main \in Threads /\ Main \in Int /\ IsFiniteSet(Threads)
        /\ pc[Main] = "ask" /\ \A u \in Threads \ {Main} : pc[u] = "loop"
        /\ Producers \subseteq Threads \ {Main}
    BY <1>1, <1>2, ThreadsFinite DEF Main
  <1>4. \A u \in Threads : pc[u] \in PlacesOf(u) /\ pc[u] \in Places
    BY <1>3, PlacesAreOfThreads DEF PlacesOf, MainPlaces, ConsumerPlaces,
                                   ProducerPlaces
  <1>5. \A s \in Semaphore : /\ waiting[s] \in Seq(Threads)
                             /\ Queued(Threads, waiting[s], value[s], pc, Behind(s))
    <2>1. TAKE s \in Semaphore
    <2>2. /\ <<>> \in Seq(Threads) /\ Len(<<>>) = 0 /\ waiting[s] = <<>>
          /\ value[s] \in Int /\ value[s] >= 0
      BY <1>2, EmptySeq
    <2> QED
      BY <2>2 DEF Queued, InQueue
  <1>6. ControlInv
    BY <1>1, <1>2, <1>4, <1>5 DEF ControlInv, QueuesRight
  <1>7. DataType
    <2>1. buffer \in [0 .. n -> Int] /\ ret \in [{Consumer, Main} -> Int]
      BY <1>2, <1>3
    <2>2. head = 0 /\ tail = 0 /\ left = threadNum + 1 /\ threadEnd \in BOOLEAN
      BY <1>2
    <2>3. head \in 0 .. n /\ tail \in 0 .. n /\ left \in Nat
      BY <1>1, <2>2
    <2> QED
      BY <1>1, <2>1, <2>2, <2>3 DEF DataType
  <1>8. /\ Number(HoldsTail) = 0 /\ Number(HoldsHead) = 0 /\ Number(Puts) = 0
        /\ Number(Gets) = 0 /\ Number(InRing) = 0
        /\ NumberAt(Threads \ {Main}, pc, Ended) = 0
    <2>1. \A u \in Threads : pc[u] \in {"ask", "loop"}
      BY <1>3
    <2> QED
      BY <2>1, NumberNone
         DEF Number, HoldsTail, HoldsHead, Puts, Gets, InRing, Ended
  <1>9. ValuesRight
    BY <1>1, <1>2, <1>8 DEF ValuesRight
  <1>10. RingRight
    BY <1>2, <1>8 DEF RingRight, Count, cap
  <1>11. MainRight
    BY <1>3 DEF MainRight, Deleting, CountPlaces
  <1>12. NothingOverwritten
    BY <1>3 DEF NothingOverwritten
  <1> QED
    BY <1>6, <1>7, <1>9, <1>10, <1>11, <1>12 DEF BufferInv

(* The invariant holds always. *)
LEMMA BufferInvAlways == Spec => []BufferInv
  BY BufferInit, BufferNext, PTL DEF Spec

-----------------------------------------------------------------------------
(* What the invariant says about the slots *)

(* Until the threads have ended, every slot of the ring is free, filled,   *)
(* or in the hands of one thread inside put or get, for any numbers of     *)
(* producers and slots and any interleaving.                               *)
THEOREM SlotsAlwaysBalanced == Spec => []SlotsBalanced
  <1>1. ASSUME BufferInv PROVE SlotsBalanced
    <2> DEFINE v == value["spaceAvailable"]
               w == value["itemAvailable"]
    <2>1. /\ ControlInv /\ v \in Int /\ w \in Int /\ IsFiniteSet(Threads)
          /\ v + w + Number(Puts) + Number(Gets) = n /\ n \in Nat
      BY <1>1, ThreadsFinite, SemaphoreNames
         DEF BufferInv, ControlInv, DataType, ValuesRight
    <2>2. /\ Len(waiting["spaceAvailable"]) = IF v < 0 THEN -v ELSE 0
          /\ Len(waiting["itemAvailable"]) = IF w < 0 THEN -w ELSE 0
      BY <2>1, SemaphoreNames DEF ControlInv, QueuesRight, Queued
    <2>3. Number(Puts) \in Nat /\ Number(Gets) \in Nat
      <3>1. /\ ThreadsAt(Threads, pc, Puts) \in SUBSET Threads
            /\ ThreadsAt(Threads, pc, Gets) \in SUBSET Threads
        BY DEF ThreadsAt
      <3> QED
        BY <2>1, <3>1, FS_Subset, FS_CardinalityType DEF Number, NumberAt
    <2>4. \A x \in Int : Max({x, 0}) = IF x > 0 THEN x ELSE 0
      <3>1. TAKE x \in Int
      <3>2. \E y \in {x, 0} : \A z \in {x, 0} : y >= z
        BY SMT
      <3>3. /\ Max({x, 0}) \in {x, 0}
            /\ \A z \in {x, 0} : Max({x, 0}) >= z
        BY <3>2 DEF Max
      <3> QED
        BY <3>3
    <2>5. /\ Inside({"lockTail", "write", "advanceTail", "releaseTail", "offer"})
               = Number(Puts)
          /\ Inside({"lockHead", "advanceHead", "releaseHead", "free"})
               = Number(Gets)
      BY DEF Inside, Number, NumberAt, ThreadsAt, Puts, Gets
    <2> HIDE DEF v, w
    <2>6. /\ Max({v, 0}) = (IF v > 0 THEN v ELSE 0)
          /\ Max({w, 0}) = (IF w > 0 THEN w ELSE 0)
      BY <2>1, <2>4
    <2>7. n = Max({v, 0}) + Max({w, 0})
              + (Number(Puts) - Len(waiting["spaceAvailable"]))
              + (Number(Gets) - Len(waiting["itemAvailable"]))
      BY <2>1, <2>2, <2>3, <2>6
    <2> QED
      BY <2>5, <2>7 DEF SlotsBalanced, Got, v, w
  <1> QED
    BY <1>1, BufferInvAlways, PTL

(* Between buffer[tail] = val and the advance of tail in put, no other     *)
(* producer writes there: mutexTail excludes.                              *)
THEOREM NeverOverwritten == Spec => []NothingOverwritten
  <1>1. BufferInv => NothingOverwritten
    BY DEF BufferInv
  <1> QED
    BY <1>1, BufferInvAlways, PTL

(* main reaches the delete of the buffer only after every thread has       *)
(* signalled waitForAll and ended.                                         *)
THEOREM AlwaysDeletedLast == Spec => []DeletedLast
  <1>1. BufferInv => DeletedLast
    BY DEF BufferInv, MainRight, DeletedLast, Deleting, CountPlaces
  <1> QED
    BY <1>1, BufferInvAlways, PTL

-----------------------------------------------------------------------------
(* The ring is a queue *)

Slot(k, h, i) == IF h + i - 1 <= k THEN h + i - 1 ELSE h + i - 1 - (k + 1)
RingOf(k, h, t, b) ==
  [i \in 1 .. ((t - h) % (k + 1)) |-> b[(h + i - 1) % (k + 1)]]

(* x % (k + 1), for x below twice k + 1. *)
LEMMA OnceRound ==
  ASSUME NEW k \in Nat
  PROVE  \A x \in 0 .. (2 * k) : x % (k + 1) = IF x <= k THEN x ELSE x - (k + 1)
  <1>1. TAKE x \in 0 .. (2 * k)
  <1>2. CASE x <= k
    BY <1>2
  <1>3. CASE x > k
    <2>1. x - (k + 1) \in 0 .. k
      BY <1>3
    <2> QED
      BY <1>3, <2>1
  <1> QED
    BY <1>2, <1>3

(* The items of a ring are a sequence, one item from each slot. *)
LEMMA RingIs ==
  ASSUME NEW k \in Nat, NEW h \in 0 .. k, NEW t \in 0 .. k,
         NEW b \in [0 .. k -> Int]
  PROVE  /\ Between(k, h, t) \in 0 .. k
         /\ RingOf(k, h, t, b) \in Seq(Int)
         /\ Len(RingOf(k, h, t, b)) = Between(k, h, t)
         /\ \A i \in 1 .. Between(k, h, t) :
              /\ Slot(k, h, i) \in 0 .. k
              /\ RingOf(k, h, t, b)[i] = b[Slot(k, h, i)]
  <1> DEFINE c == Between(k, h, t)
  <1>1. c \in 0 .. k /\ (t - h) % (k + 1) = c
    BY DEF Between
  <1>2. \A i \in 1 .. c : Slot(k, h, i) \in 0 .. k
    BY <1>1 DEF Slot
  <1>3. \A i \in 1 .. c : (h + i - 1) % (k + 1) = Slot(k, h, i)
    <2>1. TAKE i \in 1 .. c
    <2> DEFINE x == h + i - 1
    <2>2. x \in 0 .. (2 * k)
      BY <1>1
    <2>3. Slot(k, h, i) = IF x <= k THEN x ELSE x - (k + 1)
      BY DEF Slot
    <2> HIDE DEF x
    <2>4. x % (k + 1) = IF x <= k THEN x ELSE x - (k + 1)
      BY <2>2, OnceRound
    <2> QED
      BY <2>3, <2>4 DEF x
  <1> DEFINE r == RingOf(k, h, t, b)
  <1>4. r = [i \in 1 .. c |-> b[Slot(k, h, i)]]
    BY <1>1, <1>3 DEF RingOf
  <1> HIDE DEF c, r
  <1>5. \A i \in 1 .. c : b[Slot(k, h, i)] \in Int
    BY <1>2
  <1>6. r \in Seq(Int) /\ Len(r) = c /\ \A i \in 1 .. c : r[i] = b[Slot(k, h, i)]
    BY <1>1, <1>4, <1>5
  <1> QED
    BY <1>1, <1>2, <1>6 DEF c, r

(* tail advances: the item of its slot is appended. *)
LEMMA RingPut ==
  ASSUME NEW k \in Nat, NEW h \in 0 .. k, NEW t \in 0 .. k,
         NEW b \in [0 .. k -> Int], Between(k, h, t) < k
  PROVE  RingOf(k, h, IF t = k THEN 0 ELSE t + 1, b)
           = Append(RingOf(k, h, t, b), b[t])
  <1> DEFINE u == IF t = k THEN 0 ELSE t + 1
             c == Between(k, h, t)
             q == RingOf(k, h, t, b)
             r == RingOf(k, h, u, b)
  <1>1. u \in 0 .. k /\ Between(k, h, u) = c + 1 /\ Slot(k, h, c + 1) = t
    BY DEF Between, Slot
  <1> HIDE DEF u
  <1>2. /\ c \in 0 .. k /\ q \in Seq(Int) /\ Len(q) = c
        /\ \A i \in 1 .. c : Slot(k, h, i) \in 0 .. k /\ q[i] = b[Slot(k, h, i)]
    BY RingIs
  <1>3. /\ r \in Seq(Int) /\ Len(r) = c + 1
        /\ \A i \in 1 .. (c + 1) : r[i] = b[Slot(k, h, i)]
    <2>1. /\ r \in Seq(Int) /\ Len(r) = Between(k, h, u)
          /\ \A i \in 1 .. Between(k, h, u) : r[i] = b[Slot(k, h, i)]
      BY <1>1, RingIs
    <2> HIDE DEF c, r
    <2> QED
      BY <1>1, <2>1
  <1>4. b[t] \in Int
    OBVIOUS
  <1> HIDE DEF u, c, q, r
  <1> DEFINE a == Append(q, b[t])
  <1>5. /\ a \in Seq(Int) /\ Len(a) = c + 1 /\ a[c + 1] = b[t]
        /\ \A i \in 1 .. c : a[i] = q[i]
    BY <1>2, <1>4, AppendProperties
  <1> HIDE DEF a
  <1>6. \A i \in 1 .. (c + 1) : r[i] = a[i]
    <2>1. TAKE i \in 1 .. (c + 1)
    <2>2. i \in 1 .. c \/ i = c + 1
      BY <1>2
    <2>3. CASE i \in 1 .. c
      BY <1>2, <1>3, <1>5, <2>3
    <2>4. CASE i = c + 1
      BY <1>1, <1>3, <1>5, <2>4
    <2> QED
      BY <2>2, <2>3, <2>4
  <1>7. r = a
    BY <1>3, <1>5, <1>6, SeqEqual
  <1> QED
    BY <1>7 DEF a, r, q, u

(* head advances: the first item is gone. *)
LEMMA RingGet ==
  ASSUME NEW k \in Nat, NEW h \in 0 .. k, NEW t \in 0 .. k,
         NEW b \in [0 .. k -> Int], Between(k, h, t) > 0
  PROVE  /\ RingOf(k, h, t, b) # <<>>
         /\ RingOf(k, IF h = k THEN 0 ELSE h + 1, t, b) = Tail(RingOf(k, h, t, b))
  <1> DEFINE g == IF h = k THEN 0 ELSE h + 1
             c == Between(k, h, t)
             q == RingOf(k, h, t, b)
             r == RingOf(k, g, t, b)
  <1>1. /\ g \in 0 .. k /\ Between(k, g, t) = c - 1
        /\ \A i \in 1 .. (c - 1) : Slot(k, g, i) = Slot(k, h, i + 1)
    BY DEF Between, Slot
  <1> HIDE DEF g
  <1>2. /\ c \in 0 .. k /\ c > 0 /\ q \in Seq(Int) /\ Len(q) = c
        /\ \A i \in 1 .. c : q[i] = b[Slot(k, h, i)]
    BY RingIs
  <1>3. /\ r \in Seq(Int) /\ Len(r) = c - 1
        /\ \A i \in 1 .. (c - 1) : r[i] = b[Slot(k, g, i)]
    <2>1. /\ r \in Seq(Int) /\ Len(r) = Between(k, g, t)
          /\ \A i \in 1 .. Between(k, g, t) : r[i] = b[Slot(k, g, i)]
      BY <1>1, RingIs
    <2> HIDE DEF c, r
    <2> QED
      BY <1>1, <2>1
  <1> HIDE DEF g, c, q, r
  <1>4. q # <<>>
    BY <1>2, EmptySeq
  <1> DEFINE a == Tail(q)
  <1>5. /\ a \in Seq(Int) /\ Len(a) = Len(q) - 1
        /\ \A i \in 1 .. Len(a) : a[i] = q[i + 1]
    BY <1>2, <1>4, HeadTailProperties
  <1> HIDE DEF a
  <1>6. \A i \in 1 .. Len(r) : r[i] = a[i]
    <2>1. TAKE i \in 1 .. Len(r)
    <2>2. /\ i \in 1 .. (c - 1) /\ i \in 1 .. Len(a)
          /\ i + 1 \in 1 .. c
      BY <1>2, <1>3, <1>5
    <2>3. r[i] = b[Slot(k, h, i + 1)]
      BY <1>1, <1>3, <2>2
    <2>4. a[i] = q[i + 1]
      BY <1>5, <2>2
    <2>5. q[i + 1] = b[Slot(k, h, i + 1)]
      BY <1>2, <2>2
    <2> QED
      BY <2>3, <2>4, <2>5
  <1>7. r = a
    BY <1>2, <1>3, <1>5, <1>6, SeqEqual
  <1> QED
    BY <1>4, <1>7 DEF a, r, q, g

(* The buffers b and e agree in every slot but t. *)
OnlyAt(k, t, b, e) == \A j \in (0 .. k) \ {t} : e[j] = b[j]

(* A write at tail changes no item of the ring. *)
LEMMA RingWrite ==
  ASSUME NEW k \in Nat, NEW h \in 0 .. k, NEW t \in 0 .. k,
         NEW b \in [0 .. k -> Int], NEW e \in [0 .. k -> Int],
         OnlyAt(k, t, b, e)
  PROVE  RingOf(k, h, t, e) = RingOf(k, h, t, b)
  <1> DEFINE c == Between(k, h, t)
             q == RingOf(k, h, t, b)
             r == RingOf(k, h, t, e)
  <1>1. \A i \in 1 .. c : Slot(k, h, i) # t
    BY DEF Between, Slot
  <1>2. \A j \in (0 .. k) \ {t} : e[j] = b[j]
    BY DEF OnlyAt
  <1>3. /\ c \in 0 .. k /\ q \in Seq(Int) /\ Len(q) = c
        /\ \A i \in 1 .. c : Slot(k, h, i) \in 0 .. k /\ q[i] = b[Slot(k, h, i)]
    BY RingIs
  <1>4. r \in Seq(Int) /\ Len(r) = c /\ \A i \in 1 .. c : r[i] = e[Slot(k, h, i)]
    BY RingIs
  <1> HIDE DEF c, q, r
  <1>5. \A i \in 1 .. Len(r) : r[i] = q[i]
    BY <1>1, <1>2, <1>3, <1>4
  <1>6. r = q
    BY <1>3, <1>4, <1>5, SeqEqual
  <1> QED
    BY <1>6 DEF r, q

-----------------------------------------------------------------------------
(* The ring implements the queue *)

(* The queue of the refinement, before and after a step. *)
LEMMA QueueIsRing ==
  /\ queue = RingOf(n, head, tail, buffer)
  /\ queue' = RingOf(n', head', tail', buffer')
  BY Zenon DEF queue, cap, RingOf

(* AdvanceTail is the Put of the queue: there is room. *)
LEMMA PutIsPut ==
  ASSUME BufferInv, Created, NEW t \in Producers, AdvanceTail(t)
  PROVE  Promise!Next
  <1>1. /\ n \in Nat /\ head \in 0 .. n /\ tail \in 0 .. n
        /\ buffer \in [0 .. n -> Int]
    BY DEF BufferInv, DataType
  <1>2. /\ UNCHANGED <<n, head, buffer>>
        /\ Count < n /\ tail' = (tail + 1) % cap
    BY AdvanceTailKeeps DEF AdvanceTail, program
  <1>3. tail' = IF tail = n THEN 0 ELSE tail + 1
    BY <1>1, <1>2, Advanced DEF cap
  <1>4. Between(n, head, tail) < n
    BY <1>2, CountIsBetween
  <1>5. queue' = Append(queue, buffer[tail])
    <2>1. RingOf(n, head, tail', buffer)
            = Append(RingOf(n, head, tail, buffer), buffer[tail])
      <3>1. RingOf(n, head, IF tail = n THEN 0 ELSE tail + 1, buffer)
              = Append(RingOf(n, head, tail, buffer), buffer[tail])
        BY <1>1, <1>4, RingPut
      <3> QED
        BY <1>3, <3>1, Zenon
    <2> QED
      BY <1>2, <2>1, QueueIsRing
  <1>6. queue \in Seq(Int) /\ Len(queue) = Between(n, head, tail)
    BY <1>1, RingIs, QueueIsRing
  <1>7. buffer[tail] \in Int
    BY <1>1
  <1>8. Len(queue) < n
    BY <1>4, <1>6
  <1>9. /\ Len(queue) + 1 \in DOMAIN queue'
        /\ queue'[Len(queue) + 1] = buffer[tail]
    <2> DEFINE q == queue
               a == Append(q, buffer[tail])
    <2>1. q \in Seq(Int) /\ buffer[tail] \in Int
      BY <1>6, <1>7
    <2> HIDE DEF q
    <2>2. /\ Append(q, buffer[tail]) \in Seq(Int)
          /\ Len(Append(q, buffer[tail])) = Len(q) + 1
          /\ Append(q, buffer[tail])[Len(q) + 1] = buffer[tail]
      BY <2>1, AppendProperties
    <2>3. Len(q) + 1 \in 1 .. Len(a) /\ Len(q) \in Nat
      BY <2>1, <2>2, LenProperties
    <2>4. DOMAIN a = 1 .. Len(a)
      BY <2>2, LenProperties
    <2> QED
      BY <1>5, <2>2, <2>3, <2>4 DEF q
  <1>10. \E i \in DOMAIN queue' : queue' = Append(queue, queue'[i])
    BY <1>5, <1>9
  <1> QED
    BY <1>2, <1>8, <1>10 DEF Promise!Next, Promise!Put

(* An advance of head over an item is the Get of the queue. *)
LEMMA HeadIsGet ==
  ASSUME DataType, Count > 0, head' = (head + 1) % cap,
         UNCHANGED <<n, tail, buffer>>
  PROVE  Promise!Next
  <1>1. /\ n \in Nat /\ head \in 0 .. n /\ tail \in 0 .. n
        /\ buffer \in [0 .. n -> Int]
    BY DEF DataType
  <1>2. head' = IF head = n THEN 0 ELSE head + 1
    BY <1>1, Advanced DEF cap
  <1>3. Between(n, head, tail) > 0
    BY CountIsBetween
  <1>4. /\ RingOf(n, head, tail, buffer) # <<>>
        /\ RingOf(n, head', tail, buffer) = Tail(RingOf(n, head, tail, buffer))
    <2>1. /\ RingOf(n, head, tail, buffer) # <<>>
          /\ RingOf(n, IF head = n THEN 0 ELSE head + 1, tail, buffer)
               = Tail(RingOf(n, head, tail, buffer))
      BY <1>1, <1>3, RingGet
    <2> QED
      BY <1>2, <2>1, Zenon
  <1>5. queue # <<>> /\ queue' = Tail(queue)
    BY <1>4, QueueIsRing
  <1> QED
    BY <1>5 DEF Promise!Next, Promise!Get

(* Write, before tail advances, does not change the queue. *)
LEMMA WriteIsHidden ==
  ASSUME BufferInv, NEW t \in Producers, Write(t)
  PROVE  UNCHANGED <<queue, n>>
  <1>1. /\ n \in Nat /\ head \in 0 .. n /\ tail \in 0 .. n
        /\ buffer \in [0 .. n -> Int] /\ threadNum \in Nat
    BY DEF BufferInv, DataType, ControlInv
  <1>2. /\ UNCHANGED <<n, head, tail>>
        /\ buffer' = [buffer EXCEPT ![tail] = Item(t)]
    BY DEF Write, program
  <1>3. Item(t) \in Int
    BY <1>1, ProducersAre
  <1>4. buffer' \in [0 .. n -> Int] /\ OnlyAt(n, tail, buffer, buffer')
    BY <1>1, <1>2, <1>3 DEF OnlyAt
  <1>5. RingOf(n, head, tail, buffer') = RingOf(n, head, tail, buffer)
    BY <1>1, <1>4, RingWrite
  <1> QED
    BY <1>2, <1>5, QueueIsRing

(* A line that leaves the ring alone leaves the queue alone. *)
LEMMA RingKept ==
  ASSUME UNCHANGED <<n, head, tail, buffer>>
  PROVE  UNCHANGED <<queue, n>>
  BY QueueIsRing

(* Every step puts one item, gets one, or leaves the queue. *)
LEMMA LinesImplement ==
  ASSUME BufferInv, Next
  PROVE  Promise!Next \/ UNCHANGED <<queue, n>>
  <1>1. CASE mainStart
    BY <1>1, RingKept DEF mainStart, program, ring
  <1>2. ASSUME Created, NEW t \in Producers, producer(t) \/ put(t) \/ Finish(t)
        PROVE  Promise!Next \/ UNCHANGED <<queue, n>>
    <2>1. CASE Write(t)
      BY <2>1, WriteIsHidden
    <2>2. CASE AdvanceTail(t)
      BY <1>2, <2>2, PutIsPut
    <2>3. CASE producer(t)
      BY <2>3, RingKept DEF producer, Goes, program, ring
    <2>4. CASE Finish(t)
      BY <2>4, RingKept DEF Finish, Signals, program, ring
    <2>5. ASSUME Reserve(t) \/ LockTail(t) \/ Offer(t)
                   \/ Signals(t, "releaseTail", "mutexTail", "offer")
          PROVE  UNCHANGED <<n, head, tail, buffer>>
      BY <2>5 DEF Reserve, LockTail, Offer, Waits, Signals, program, ring
    <2> QED
      BY <1>2, <2>1, <2>2, <2>3, <2>4, <2>5, RingKept DEF put
  <1>3. CASE TypeKey \/ TypeEscape
    BY <1>3, RingKept DEF TypeKey, TypeEscape, ring
  <1>4. ASSUME NEW t, getCnt(t)
        PROVE  UNCHANGED <<queue, n>>
    BY <1>4, RingKept DEF getCnt, ReadCount, Waits, Signals, program, ring
  <1>5. CASE Created /\ (consumer \/ get(Consumer) \/ Finish(Consumer))
    <2>1. CASE AdvanceHead(Consumer)
      <3>1. /\ Count > 0 /\ head' = (head + 1) % cap /\ DataType
            /\ UNCHANGED <<n, tail, buffer>>
        BY <1>5, <2>1, AdvanceHeadKeeps DEF BufferInv, AdvanceHead, program
      <3> QED
        BY <3>1, HeadIsGet
    <2>2. CASE consumer
      BY <2>2, RingKept DEF consumer, Goes, program, ring
    <2>3. CASE Finish(Consumer)
      BY <2>3, RingKept DEF Finish, Signals, program, ring
    <2>4. ASSUME FreeSpace(Consumer)
                   \/ Waits(Consumer, "get", "itemAvailable", "lockHead")
                   \/ Waits(Consumer, "lockHead", "mutexHead", "advanceHead")
                   \/ Signals(Consumer, "releaseHead", "mutexHead", "free")
          PROVE  UNCHANGED <<n, head, tail, buffer>>
      BY <2>4 DEF FreeSpace, Waits, Signals, program, ring
    <2> QED
      BY <1>5, <2>1, <2>2, <2>3, <2>4, RingKept DEF get
  <1>6. CASE mainAwait
    BY <1>6, RingKept DEF mainAwait, ring
  <1>7. CASE Created /\ mainDelete
    <2>1. /\ (Count > 0 /\ head' = (head + 1) % cap) \/ head' = head
          /\ DataType /\ UNCHANGED <<n, tail, buffer>>
      BY <1>7, MainDeleteKeeps DEF BufferInv, mainDelete, program
    <2> QED
      BY <2>1, HeadIsGet, RingKept
  <1> QED
    BY <1>1, <1>2, <1>3, <1>4, <1>5, <1>6, <1>7 DEF Next, Thread

(* The ring of buffer.cpp, used by any number of producers and a consumer, *)
(* implements a bounded first-in first-out queue: put appends when there   *)
(* is room, get takes the first item, also for what the destructor takes   *)
(* at the end.                                                             *)
THEOREM FifoImplemented == Spec => ImplementsFifo
  <1>1. Init => Promise!Init
    <2>1. SUFFICES ASSUME Init PROVE queue = <<>>
      BY DEF Promise!Init
    <2>2. /\ n \in Nat /\ head = 0 /\ tail = 0 /\ buffer \in [0 .. n -> Int]
      <3>1. BufferInv
        BY <2>1, BufferInit
      <3>2. head = 0 /\ tail = 0
        BY <2>1 DEF Init
      <3> QED
        BY <3>1, <3>2 DEF BufferInv, DataType
    <2>3. /\ queue \in Seq(Int) /\ Len(queue) = Between(n, 0, 0)
      <3>1. 0 \in 0 .. n
        BY <2>2
      <3> QED
        BY <2>2, <3>1, RingIs, QueueIsRing
    <2>4. Between(n, 0, 0) = 0
      BY <2>2 DEF Between
    <2> QED
      BY <2>3, <2>4, EmptySeq
  <1>2. BufferInv /\ [Next]_vars => [Promise!Next]_<<queue, n>>
    <2>1. SUFFICES ASSUME BufferInv, [Next]_vars
                   PROVE  Promise!Next \/ UNCHANGED <<queue, n>>
      OBVIOUS
    <2>2. CASE UNCHANGED vars
      BY <2>2, RingKept DEF vars
    <2> QED
      BY <2>1, <2>2, LinesImplement
  <1> QED
    BY <1>1, <1>2, BufferInvAlways, PTL DEF Spec, ImplementsFifo, Promise!Spec
=============================================================================
