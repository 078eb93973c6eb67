--------------------------- MODULE BoundedBuffer ---------------------------
(***************************************************************************)
(* BoundedBuffer: the ring buffer of buffer.cpp, and the program of        *)
(* ConsumerProducer_C_API_test.cpp that uses it.  The threads are          *)
(* preempted anywhere; each semaphore call is one step, as a system call.  *)
(* A thread waits while it is in the queue of a semaphore.                 *)
(***************************************************************************)
EXTENDS Integers, Sequences

CONSTANTS
  ThreadNums,   \* the numbers of producers the user may enter
  Sizes,        \* the buffer sizes the user may enter
  MaxKeys       \* bound: keys typed before escape

ASSUME BufferAssumption ==
  /\ ThreadNums \subseteq Nat /\ Sizes \subseteq Nat \ {0}
  /\ MaxKeys \in Nat

VARIABLES
  threadNum, n,       \* what the user has entered
  value, waiting,     \* the semaphores, and the threads in their queues
  head, tail, buffer, \* the members of Buffer
  pc,                 \* where each thread is
  ret,                \* the result of getCnt, by thread
  threadEnd, keys,    \* the flag, and the number of keys typed
  left                \* of main: the threads it still waits for

vars == <<threadNum, n, value, waiting, head, tail, buffer, pc, ret,
          threadEnd, keys, left>>

(* The threads, by their ids; main has none. *)
Keyboard == 0
Producers == 0 .. (threadNum - 1)
Consumer == threadNum
Main == threadNum + 1
Threads == 0 .. (threadNum + 1)
Semaphore == {"itemAvailable", "spaceAvailable", "mutexHead", "mutexTail",
              "waitForAll"}

cap == n + 1
Blocked(t) == \E s \in Semaphore : \E i \in DOMAIN waiting[s] : waiting[s][i] = t

(* Thread t, at its line "from", goes on at "to". *)
Steps(t, from, to) ==
  pc[t] = from /\ ~Blocked(t) /\ pc' = [pc EXCEPT ![t] = to]

Wait(s, t) ==
  /\ value' = [value EXCEPT ![s] = @ - 1]
  /\ waiting' = IF value[s] <= 0 THEN [waiting EXCEPT ![s] = Append(@, t)]
                ELSE waiting

Signal(s) ==
  /\ value' = [value EXCEPT ![s] = @ + 1]
  /\ waiting' = IF value[s] < 0 THEN [waiting EXCEPT ![s] = Tail(@)]
                ELSE waiting

program == <<threadNum, n, threadEnd, keys, left>>
ring == <<head, tail, buffer, ret>>

(* A line that only calls a semaphore. *)
Waits(t, from, s, to) ==
  Steps(t, from, to) /\ Wait(s, t) /\ UNCHANGED <<program, ring>>
Signals(t, from, s, to) ==
  Steps(t, from, to) /\ Signal(s) /\ UNCHANGED <<program, ring>>

-----------------------------------------------------------------------------
(* Buffer::put *)

(* What a producer writes: its id, the keyboard a "!" at the end. *)
Bang == threadNum
Item(t) == IF t = Keyboard /\ threadEnd THEN Bang ELSE t

Write(t) ==
  /\ Steps(t, "write", "advanceTail")
  /\ buffer' = [buffer EXCEPT ![tail] = Item(t)]
  /\ UNCHANGED <<value, waiting, program, head, tail, ret>>

(* Behind the call: the producer's loop, or its end after the last put. *)
AfterPut(t) == IF t = Keyboard /\ threadEnd THEN "signal" ELSE "loop"

AdvanceTail(t) ==
  /\ Steps(t, "advanceTail", "releaseTail")
  /\ tail' = (tail + 1) % cap
  /\ UNCHANGED <<value, waiting, program, head, buffer, ret>>

ReserveNothing(t) ==                          \* mutant: put does not wait
  Steps(t, "put", "lockTail") /\ UNCHANGED <<value, waiting, program, ring>>
Reserve(t) == Waits(t, "put", "spaceAvailable", "lockTail")

LockTailNot(t) ==                             \* mutant: no mutual exclusion
  Steps(t, "lockTail", "write") /\ UNCHANGED <<value, waiting, program, ring>>
LockTail(t) == Waits(t, "lockTail", "mutexTail", "write")

Offer(t) == Signals(t, "offer", "itemAvailable", AfterPut(t))

put(t) ==
  \/ Reserve(t)
  \/ LockTail(t)
  \/ Write(t)
  \/ AdvanceTail(t)
  \/ Signals(t, "releaseTail", "mutexTail", "offer")
  \/ Offer(t)

-----------------------------------------------------------------------------
(* Buffer::get; what the consumer does with the item is left out *)

AdvanceHead(t) ==
  /\ Steps(t, "advanceHead", "releaseHead")
  /\ head' = (head + 1) % cap
  /\ UNCHANGED <<value, waiting, program, tail, buffer, ret>>

FreeSpaceNever(t) ==                          \* mutant: the slot is kept
  Steps(t, "free", "loop") /\ UNCHANGED <<value, waiting, program, ring>>
FreeSpace(t) == Signals(t, "free", "spaceAvailable", "loop")

get(t) ==
  \/ Waits(t, "get", "itemAvailable", "lockHead")
  \/ Waits(t, "lockHead", "mutexHead", "advanceHead")
  \/ AdvanceHead(t)
  \/ Signals(t, "releaseHead", "mutexHead", "free")
  \/ FreeSpace(t)

-----------------------------------------------------------------------------
(* Buffer::getCnt *)

Count == IF tail >= head THEN tail - head ELSE cap - head + tail

ReadCount(t) ==
  /\ Steps(t, "count", "unlockTail")
  /\ ret' = [ret EXCEPT ![t] = Count]
  /\ UNCHANGED <<value, waiting, program, head, tail, buffer>>

getCnt(t) ==
  \/ Waits(t, "getCnt", "mutexHead", "countLockTail")
  \/ Waits(t, "countLockTail", "mutexTail", "count")
  \/ ReadCount(t)
  \/ Signals(t, "unlockTail", "mutexTail", "unlockHead")
  \/ Signals(t, "unlockHead", "mutexHead", "counted")

-----------------------------------------------------------------------------
(* The threads *)

(* A line of a thread that changes neither the buffer nor a semaphore. *)
Goes(t, from, to) ==
  Steps(t, from, to) /\ UNCHANGED <<value, waiting, ring, program>>

producer(t) ==
  t # Keyboard /\ Goes(t, "loop", IF threadEnd THEN "signal" ELSE "put")

TypeKey ==
  /\ keys < MaxKeys /\ ~threadEnd
  /\ Steps(Keyboard, "loop", "put") /\ keys' = keys + 1
  /\ UNCHANGED <<value, waiting, ring, threadNum, n, threadEnd, left>>

TypeEscapeSilent ==                           \* mutant: no "!" is put
  /\ Steps(Keyboard, "loop", "signal") /\ threadEnd' = TRUE
  /\ UNCHANGED <<value, waiting, ring, threadNum, n, keys, left>>
TypeEscape ==
  /\ Steps(Keyboard, "loop", "put") /\ threadEnd' = TRUE
  /\ UNCHANGED <<value, waiting, ring, threadNum, n, keys, left>>

(* After the end is seen, getCnt is asked before every get. *)
consumer ==
  \/ Goes(Consumer, "loop", IF threadEnd THEN "getCnt" ELSE "get")
  \/ Goes(Consumer, "counted", IF ret[Consumer] > 0 THEN "get" ELSE "signal")

(* The last step of every thread but main. *)
Finish(t) == t # Main /\ Signals(t, "signal", "waitForAll", "end")

Accepts == threadNum <= n /\ threadNum >= 1

mainStart ==
  /\ Steps(Main, "ask", IF Accepts THEN "await" ELSE "end")
  /\ UNCHANGED <<value, waiting, ring, program>>

AwaitAllOnce == IF left > 1 THEN "await" ELSE "getCnt" \* mutant: one too few
AwaitAll == IF left > 0 THEN "await" ELSE "getCnt"

mainAwait ==
  /\ Steps(Main, "await", AwaitAll)
  /\ IF AwaitAll = "await" THEN left' = left - 1 /\ Wait("waitForAll", Main)
     ELSE UNCHANGED <<left, value, waiting>>
  /\ UNCHANGED <<threadNum, n, threadEnd, keys, ring>>

(* The destructor prints what is left. *)
mainDelete ==
  /\ Steps(Main, "counted", IF ret[Main] > 0 THEN "getCnt" ELSE "end")
  /\ head' = IF ret[Main] > 0 THEN (head + 1) % cap ELSE head
  /\ UNCHANGED <<value, waiting, program, tail, buffer, ret>>

-----------------------------------------------------------------------------

Init ==
  /\ threadNum \in ThreadNums /\ n \in Sizes
  /\ value = [s \in Semaphore |-> CASE s = "spaceAvailable" -> n
                                    [] s \in {"mutexHead", "mutexTail"} -> 1
                                    [] OTHER -> 0]
  /\ waiting = [s \in Semaphore |-> <<>>]
  /\ head = 0 /\ tail = 0 /\ buffer = [i \in 0 .. n |-> Main]
  /\ pc = [t \in Threads |-> IF t = Main THEN "ask" ELSE "loop"]
  /\ ret = [t \in {Consumer, Main} |-> 0]
  /\ threadEnd = FALSE /\ keys = 0 /\ left = threadNum + 1

(* The threads exist once main has accepted the numbers. *)
Created == pc[Main] # "ask" /\ Accepts

Thread(t) ==
  Created /\
    \/ t \in Producers /\ (producer(t) \/ put(t) \/ Finish(t))
    \/ t = Keyboard /\ (TypeKey \/ TypeEscape)
    \/ t = Consumer /\ (consumer \/ get(t) \/ getCnt(t) \/ Finish(t))
    \/ t = Main /\ (mainAwait \/ getCnt(t) \/ mainDelete)

Next == mainStart \/ \E t \in Threads : Thread(t)

Spec == Init /\ [][Next]_vars
=============================================================================
