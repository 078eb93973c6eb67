--------------------------- MODULE OutputConsole ---------------------------
(***************************************************************************)
(* OutputConsole: the way of a character from putc to the console.  putc   *)
(* is a system call and puts the character into MyBuffer::outputBuffer in  *)
(* one step.  outputConsoleThread, a kernel thread, calls getcB and        *)
(* Sem::semWait directly, with whatever interrupts are enabled; its        *)
(* accesses to memory are steps of their own.  An exception finishes all   *)
(* ready threads but that one.                                             *)
(***************************************************************************)
EXTENDS Integers, FiniteSets, Sequences, SequencesExt

CONSTANTS
  Users,         \* the threads that call putc
  Out, Idle,     \* PCB::outputThread and PCB::idleThread
  buff_size,
  CountModulus,  \* 2^64: the width of MyBuffer::count
  MaxChars       \* bound: characters the users write

ASSUME ConsoleAssumption ==
  /\ IsFiniteSet(Users)
  /\ Out # Idle /\ Out \notin Users /\ Idle \notin Users
  /\ buff_size \in Nat \ {0} /\ MaxChars \in Nat
  /\ CountModulus \in Nat /\ CountModulus > buff_size

VARIABLES
  running, ready,        \* the threads
  state,                 \* of the output thread
  context, savedSIE,     \* where it is suspended, and sstatus saved there
  SIE,                   \* interrupts are enabled, while it runs
  pc, tmp, newThread,    \* its place, a register, a local of Sem::block
  value, inList,         \* itemAvailable: its value; the thread is in its list
  head, tail, count, buffer,
  accepted, taken,       \* the characters put into the buffer, and read
  fault,                 \* deblock has read through null
  blocked, raced         \* history: it has blocked; a tick hit Critical

queueVars == <<value, inList, head, tail, count, buffer, accepted, taken>>
vars == <<running, ready, state, context, savedSIE, SIE, pc, tmp, newThread,
          queueVars, fault, blocked, raced>>

(* main has joined userMain, or was preempted: the output thread is first. *)
Init ==
  /\ running = Out /\ ready \in SetToSeqs(Users)
  /\ state = "RUNNING" /\ context = "trap" /\ savedSIE = TRUE /\ SIE = TRUE
  /\ pc = "poll" /\ tmp = 0 /\ newThread = Idle
  /\ value = 0 /\ inList = FALSE
  /\ head = 0 /\ tail = 0 /\ count = 0
  /\ buffer = [i \in 0 .. (buff_size - 1) |-> 0]
  /\ accepted = <<>> /\ taken = <<>>
  /\ fault = FALSE /\ blocked = FALSE /\ raced = FALSE

-----------------------------------------------------------------------------
(* Switching *)

Put(t) == IF t = Idle \/ (t = Out /\ state = "BLOCKED") THEN ready
          ELSE Append(ready, t)

(* Thread t goes on.  The output thread gets back the interrupts its trap  *)
(* handler saved; Sem::block saves nothing, and the thread keeps them as   *)
(* they are in the handler that switches to it: disabled.                  *)
RestoredAlways == savedSIE'                   \* mutant: block saves them too
Restored == context' = "trap" /\ savedSIE'

GoesOn(t) ==
  /\ running' = t
  /\ state' = IF t = Out THEN "RUNNING" ELSE state
  /\ SIE' = IF t = Out THEN Restored ELSE TRUE

(* PCB::dispatch, when the thread that leaves has been put into list. *)
Dispatch(list) ==
  IF list = <<>> THEN GoesOn(Idle) /\ ready' = list
  ELSE GoesOn(Head(list)) /\ ready' = Tail(list)

(* A tick, or a call of another thread. *)
UserSwitches ==
  /\ ~fault /\ running # Out
  /\ UNCHANGED <<context, savedSIE>> /\ Dispatch(Put(running))
  /\ UNCHANGED <<pc, tmp, newThread, queueVars, fault, blocked, raced>>

(* A trap of the output thread. *)
OutTraps ==
  /\ context' = "trap" /\ savedSIE' = SIE /\ Dispatch(Put(Out))
  /\ UNCHANGED <<tmp, newThread, queueVars, fault, blocked>>

(* Where getcB has read what it is about to write, or is inside block. *)
Critical == {"storeValue", "block", "enlist", "choose", "switch", "storeCount"}

(* A tick interrupts it, if it may. *)
OutPreempted ==
  /\ ~fault /\ running = Out /\ SIE
  /\ OutTraps /\ UNCHANGED pc
  /\ raced' = (raced \/ pc \in Critical)

-----------------------------------------------------------------------------
(* putc *)

RoomToo == count <= buff_size                 \* mutant: <= for <
Room == count < buff_size

Accept(c) ==
  /\ buffer' = [buffer EXCEPT ![tail] = c]
  /\ tail' = (tail + 1) % buff_size
  /\ count' = (count + 1) % CountModulus
  /\ accepted' = Append(accepted, c)

(* Sem::semSignal(itemAvailable) and Sem::deblock. *)
Signal ==
  /\ value' = value + 1
  /\ fault' = (value < 0 /\ ~inList)
  /\ inList' = (inList /\ value >= 0)

WokenNever == ready                           \* mutant: deblock without put
Woken == IF value < 0 /\ inList THEN Append(ready, Out) ELSE ready

(* A character that finds the buffer full is dropped. *)
putcB ==
  /\ ~fault /\ running \in Users
  /\ Room /\ Len(accepted) < MaxChars
  /\ Accept(Len(accepted) + 1) /\ Signal
  /\ ready' = Woken /\ state' = IF Woken = ready THEN state ELSE "READY"
  /\ UNCHANGED <<running, context, savedSIE, SIE, pc, tmp, newThread, head,
                 taken, blocked, raced>>

-----------------------------------------------------------------------------
(* An exception of a user thread.  The handler prints, here one character; *)
(* that also takes the output thread out of the list of itemAvailable.     *)
(* Then it finishes every ready thread but that one and its own thread,    *)
(* puts the output thread into the ready list and dispatches to it.        *)

PrintsSilent ==                               \* mutant: nothing is printed
  UNCHANGED <<value, fault, inList, tail, count, buffer, accepted>>
Prints ==
  IF Room THEN Len(accepted) < MaxChars /\ Accept(Len(accepted) + 1) /\ Signal
  ELSE UNCHANGED <<value, fault, inList, tail, count, buffer, accepted>>

setAllFinished == GoesOn(Out) /\ ready' = <<>>

Exception ==
  /\ ~fault /\ running \in Users
  /\ Prints
  /\ UNCHANGED <<context, savedSIE>> /\ setAllFinished
  /\ UNCHANGED <<pc, tmp, newThread, head, taken, blocked, raced>>

-----------------------------------------------------------------------------
(* outputConsoleThread; nothing but a tick comes between its steps *)

OutSteps(from, to) == ~fault /\ running = Out /\ pc = from /\ pc' = to
threadVars == <<running, ready, state, context, savedSIE, SIE, fault, raced>>

(* The console takes another character; otherwise the thread dispatches. *)
PollReady ==
  /\ OutSteps("poll", "loadValue")
  /\ UNCHANGED <<threadVars, tmp, newThread, queueVars, blocked>>
PollBusy == OutSteps("poll", "poll") /\ OutTraps /\ UNCHANGED raced

(* Sem::semWait(itemAvailable): value is loaded, decremented and stored. *)
LoadValue ==
  /\ OutSteps("loadValue", "storeValue") /\ tmp' = value
  /\ UNCHANGED <<threadVars, newThread, queueVars, blocked>>

Blocks == tmp - 1 < 0
StoreValue ==
  /\ OutSteps("storeValue", IF Blocks THEN "block" ELSE "take")
  /\ value' = tmp - 1
  /\ UNCHANGED <<threadVars, tmp, newThread, inList, head, tail, count, buffer,
                 accepted, taken, blocked>>

(* Sem::block: the state, the list, the next thread, the switch. *)
SetBlocked ==
  /\ OutSteps("block", "enlist") /\ state' = "BLOCKED"
  /\ UNCHANGED <<running, ready, context, savedSIE, SIE, fault, raced, tmp,
                 newThread, queueVars, blocked>>

Enlist ==
  /\ OutSteps("enlist", "choose") /\ inList' = TRUE
  /\ UNCHANGED <<threadVars, tmp, newThread, value, head, tail, count, buffer,
                 accepted, taken, blocked>>

Choose ==
  /\ OutSteps("choose", "switch")
  /\ IF ready = <<>> THEN newThread' = Idle /\ UNCHANGED ready
     ELSE newThread' = Head(ready) /\ ready' = Tail(ready)
  /\ UNCHANGED <<running, state, context, savedSIE, SIE, fault, raced, tmp,
                 queueVars, blocked>>

SwitchAway ==
  /\ OutSteps("switch", "take")
  /\ context' = "block" /\ UNCHANGED savedSIE
  /\ GoesOn(newThread) /\ blocked' = TRUE
  /\ UNCHANGED <<ready, tmp, newThread, queueVars, fault, raced>>

(* The character is read; only this thread uses head and mutexHead. *)
Take ==
  /\ OutSteps("take", "loadCount")
  /\ taken' = Append(taken, buffer[head])
  /\ head' = (head + 1) % buff_size
  /\ UNCHANGED <<threadVars, tmp, newThread, value, inList, tail, count,
                 buffer, accepted, blocked>>

LoadCount ==
  /\ OutSteps("loadCount", "storeCount") /\ tmp' = count
  /\ UNCHANGED <<threadVars, newThread, queueVars, blocked>>

StoreCountNot == count                        \* mutant: count-- is missing
CountLess == (tmp - 1) % CountModulus
StoreCount ==
  /\ OutSteps("storeCount", "send")
  /\ count' = CountLess
  /\ UNCHANGED <<threadVars, tmp, newThread, value, inList, head, tail, buffer,
                 accepted, taken, blocked>>

Send ==
  /\ OutSteps("send", "poll")
  /\ UNCHANGED <<threadVars, tmp, newThread, queueVars, blocked>>

getcB ==
  \/ LoadValue \/ StoreValue
  \/ SetBlocked \/ Enlist \/ Choose \/ SwitchAway
  \/ Take \/ LoadCount \/ StoreCount

-----------------------------------------------------------------------------

OutRuns == PollReady \/ PollBusy \/ getcB \/ Send

Next == UserSwitches \/ putcB \/ Exception \/ OutPreempted \/ OutRuns

Spec == Init /\ [][Next]_vars
=============================================================================
