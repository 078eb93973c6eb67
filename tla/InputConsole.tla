---------------------------- MODULE InputConsole ----------------------------
(***************************************************************************)
(* InputConsole: the way of a key from the console to getc.  The interrupt *)
(* handler puts it into MyBuffer::inputBuffer; getc is a system call that  *)
(* blocks inside getcB while there is none, and goes on there when its     *)
(* thread runs again.  Readers may be terminated at any time.              *)
(*                                                                         *)
(* A system call runs with the interrupts off, but for one: the first time *)
(* the output thread blocks, outside a trap, it hands its own, enabled, to *)
(* the thread that Sem::block switches to.  If that is a reader inside     *)
(* getcB, ticks and keys come between the loads and the stores of the rest *)
(* of it.  (The output thread is in the model up to that block; from then  *)
(* on its interrupts are those of a handler, see TrapContext.)             *)
(***************************************************************************)
EXTENDS Integers, FiniteSets, Sequences, SequencesExt

CONSTANTS
  Readers, Out, Idle,  \* the threads, PCB::outputThread and PCB::idleThread
  buff_size,
  CountModulus,        \* 2^64, the range of a size_t
  MaxKeys              \* bound: keys typed

ASSUME InputAssumption ==
  /\ IsFiniteSet(Readers) /\ Idle \notin Readers
  /\ Out \notin Readers /\ Out # Idle
  /\ buff_size \in Nat \ {0} /\ MaxKeys \in Nat
  /\ CountModulus \in Nat /\ CountModulus > buff_size

VARIABLES
  running, ready, finished,     \* the threads
  enabled,                      \* who has the output thread's interrupts
  place,                        \* where in getc a reader is
  value, waiting,               \* the semaphore itemAvailable
  mutexValue, mutexWaiting,     \* the semaphore mutexHead
  register,                     \* what the interruptible reader has loaded
  head, tail, count, buffer,
  accepted, taken,              \* the keys put into the buffer, and read
  raced                         \* history: a load and its store were parted

mutexVars == <<mutexValue, mutexWaiting>>
bufferVars == <<head, tail, count, buffer, accepted, taken>>
vars == <<running, ready, finished, enabled, place, value, waiting, mutexVars,
          register, bufferVars, raced>>

(* "item" from the wait for itemAvailable on, "mutex" from that for        *)
(* mutexHead on.  The others are the interruptible reader's only: count is *)
(* loaded, count is stored, mutexHead's value is loaded, and stored with a *)
(* waiter to release.                                                      *)
Locked == {"mutex", "count", "unlock", "value", "deblock"}
Places == {"user", "item"} \cup Locked

Init ==
  /\ running \in Readers \cup {Out}
  /\ ready \in SetToSeqs((Readers \cup {Out}) \ {running})
  /\ finished = {} /\ enabled = Out /\ place = [t \in Readers |-> "user"]
  /\ value = 0 /\ waiting = <<>> /\ mutexValue = 1 /\ mutexWaiting = <<>>
  /\ register = 0 /\ head = 0 /\ tail = 0 /\ count = 0
  /\ buffer = [i \in 0 .. (buff_size - 1) |-> 0]
  /\ accepted = <<>> /\ taken = <<>> /\ raced = FALSE

InUser(t) == t \in Readers /\ place[t] = "user"
Inside(t, l) == t \in Readers /\ place[t] = l
Goes(t, l) == place' = [place EXCEPT ![t] = l]

(* Interrupts are off in a handler, getc's included, but for one reader.   *)
Interruptible == running \notin Readers \/ InUser(running) \/ running = enabled

-----------------------------------------------------------------------------
(* Scheduler::get: the finished threads before the first live one go. *)
SwitchFrom(list) ==
  \/ \E i \in DOMAIN list :
       /\ list[i] \notin finished /\ \A j \in 1 .. (i - 1) : list[j] \in finished
       /\ running' = list[i] /\ ready' = SubSeq(list, i + 1, Len(list))
  \/ /\ \A i \in DOMAIN list : list[i] \in finished
     /\ running' = Idle /\ ready' = <<>>

(* PCB::dispatch at the end of a time slice. *)
Dispatch ==
  /\ Interruptible
  /\ SwitchFrom(IF running \in finished \cup {Idle} THEN ready
                ELSE Append(ready, running))
  /\ raced' = (raced \/ Inside(enabled, "deblock"))
  /\ UNCHANGED <<finished, enabled, place, value, waiting, mutexVars, register,
                 bufferVars>>

(* Thread::finish of a reader, by any thread. *)
Terminate(t) ==
  /\ InUser(running)
  /\ finished' = finished \cup {t}
  /\ UNCHANGED <<running, ready, enabled, place, value, waiting, mutexVars,
                 register, bufferVars, raced>>

(* The output thread finds no character and blocks, in Sem::block as       *)
(* called from outputConsoleThread.                                        *)
OutBlocks ==
  /\ running = Out /\ enabled = Out
  /\ SwitchFrom(ready)
  /\ enabled' = IF running' \in Readers /\ place[running'] # "user"
                THEN running' ELSE Idle
  /\ UNCHANGED <<finished, place, value, waiting, mutexVars, register,
                 bufferVars, raced>>

-----------------------------------------------------------------------------
(* consoleTrapHandler, for each key the console has; it does not dispatch. *)

RoomToo == count <= buff_size                 \* mutant: <= for <
Room == count < buff_size

SignalLost ==                                 \* mutant: deblock without put
  /\ value' = value + 1
  /\ IF value < 0 THEN waiting' = Tail(waiting) /\ UNCHANGED ready
     ELSE UNCHANGED <<waiting, ready>>
SignalItem ==
  /\ value' = value + 1
  /\ IF value < 0
     THEN waiting' = Tail(waiting) /\ ready' = Append(ready, Head(waiting))
     ELSE UNCHANGED <<waiting, ready>>

(* A key that finds the buffer full is dropped. *)
putcB(c) ==
  /\ Room
  /\ buffer' = [buffer EXCEPT ![tail] = c]
  /\ tail' = (tail + 1) % buff_size
  /\ count' = (count + 1) % CountModulus
  /\ accepted' = Append(accepted, c)
  /\ SignalItem

Key ==
  /\ Interruptible /\ Len(accepted) < MaxKeys
  /\ putcB(Len(accepted) + 1)
  /\ raced' = (raced \/ Inside(enabled, "count") \/ Inside(enabled, "deblock"))
  /\ UNCHANGED <<running, finished, enabled, place, mutexVars, register, head,
                 taken>>

-----------------------------------------------------------------------------
(* getc, with the interrupts off *)

(* The key is read, and head moved. *)
Take ==
  /\ taken' = Append(taken, buffer[head])
  /\ head' = (head + 1) % buff_size
  /\ UNCHANGED <<tail, buffer, accepted>>
TakeKeepsCount ==                             \* mutant: count-- is missing
  Take /\ UNCHANGED count
TakeKey == Take /\ count' = (count - 1) % CountModulus

(* With a key for it, the reader passes mutexHead, through to the end of   *)
(* getcB, or has to wait because the interruptible one holds it.           *)
Through ==
  /\ mutexValue > 0 /\ TakeKey /\ Goes(running, "user")
  /\ UNCHANGED <<running, ready, mutexVars, raced>>
Queues ==
  /\ mutexValue <= 0 /\ mutexValue' = mutexValue - 1
  /\ mutexWaiting' = Append(mutexWaiting, running) /\ Goes(running, "mutex")
  /\ SwitchFrom(ready)
  /\ raced' = (raced \/ Inside(enabled, "value"))
  /\ UNCHANGED bufferVars

(* Sem::semWait(itemAvailable) finds a key, or blocks. *)
GetcPasses ==
  /\ InUser(running) /\ value > 0 /\ value' = value - 1
  /\ Through \/ Queues
  /\ UNCHANGED <<finished, enabled, waiting, register>>

GetcBlocks ==
  /\ InUser(running) /\ value <= 0
  /\ value' = value - 1
  /\ waiting' = Append(waiting, running) /\ Goes(running, "item")
  /\ SwitchFrom(ready)
  /\ UNCHANGED <<finished, enabled, mutexVars, register, bufferVars, raced>>

(* It goes on from either semaphore. *)
GetcReturns ==
  /\ Inside(running, "item") /\ running # enabled
  /\ Through \/ Queues
  /\ UNCHANGED <<finished, enabled, value, waiting, register>>

Deblocks ==
  /\ mutexWaiting' = Tail(mutexWaiting)
  /\ ready' = Append(ready, Head(mutexWaiting))

GetcInherits ==
  /\ Inside(running, "mutex") /\ running # enabled
  /\ TakeKey /\ Goes(running, "user")
  /\ mutexValue' = mutexValue + 1
  /\ IF mutexValue < 0 THEN Deblocks ELSE UNCHANGED <<ready, mutexWaiting>>
  /\ UNCHANGED <<running, finished, enabled, value, waiting, register, raced>>

-----------------------------------------------------------------------------
(* getc, with the interrupts on: the rest of getcB, one access at a time *)

At(l) ==
  /\ running = enabled /\ Inside(running, l)
  /\ UNCHANGED <<running, finished, value, waiting>>

(* mutexHead is free: nobody else is switched away from holding it. *)
Lock ==
  /\ At("item") /\ Goes(running, "mutex") /\ mutexValue' = mutexValue - 1
  /\ UNCHANGED <<ready, enabled, mutexWaiting, register, bufferVars, raced>>

LoadCount ==
  /\ At("mutex") /\ Goes(running, "count")
  /\ Take /\ register' = count
  /\ UNCHANGED <<ready, enabled, mutexVars, count, raced>>

StoreCount ==
  /\ At("count") /\ Goes(running, "unlock")
  /\ count' = (register - 1) % CountModulus
  /\ UNCHANGED <<ready, enabled, mutexVars, register, head, tail, buffer,
                 accepted, taken, raced>>

LoadValue ==
  /\ At("unlock") /\ Goes(running, "value") /\ register' = mutexValue
  /\ UNCHANGED <<ready, enabled, mutexVars, bufferVars, raced>>

(* Back in user mode its interrupts are like everybody's. *)
StoreValue ==
  /\ At("value") /\ mutexValue' = register + 1
  /\ \/ /\ register >= 0 /\ Goes(running, "user") /\ enabled' = Idle
     \/ /\ register < 0 /\ Goes(running, "deblock") /\ UNCHANGED enabled
  /\ UNCHANGED <<ready, mutexWaiting, register, bufferVars, raced>>

Deblock ==
  /\ At("deblock") /\ Goes(running, "user") /\ enabled' = Idle
  /\ Deblocks
  /\ UNCHANGED <<mutexValue, register, bufferVars, raced>>

Interrupted ==
  Lock \/ LoadCount \/ StoreCount \/ LoadValue \/ StoreValue \/ Deblock

Next ==
  \/ Dispatch \/ OutBlocks \/ Key
  \/ GetcPasses \/ GetcBlocks \/ GetcReturns \/ GetcInherits \/ Interrupted
  \/ \E t \in Readers : Terminate(t)

Spec == Init /\ [][Next]_vars
=============================================================================
