------------------------------- MODULE Kernel -------------------------------
(***************************************************************************)
(* The thread kernel: PCB, Scheduler, Sem, sleepingThreads and the trap    *)
(* handlers of Riscv that drive them, on the single core of the machine.   *)
(*                                                                         *)
(* A thread's code runs with interrupts enabled; a trap handler runs with  *)
(* interrupts disabled from its entry to its sret.  A handler that calls   *)
(* PCB::contextSwitch stops in the middle: frame[t] names the place where  *)
(* thread t will continue, and the rest of that handler is an action of    *)
(* its own, taken by the kernel once t is switched to again.  Every other  *)
(* system call is one step.  PCB::run's loop over the joined threads and   *)
(* the calls around it are thread code: the timer can interrupt them       *)
(* between any two steps.                                                  *)
(*                                                                         *)
(* The threads' own programs are not fixed: any thread may make any call   *)
(* of the C API with any handle it can hold.                               *)
(***************************************************************************)
EXTENDS Integers, Sequences

CONSTANTS
  User,          \* the threads thread_create makes (PCBs with a body)
  Main,          \* the boot thread: a PCB without a body, created by main
  Idle,          \* PCB::idleThread
  Sem,           \* the semaphores that may be opened
  None,          \* no handle
  TimeSlice,     \* DEFAULT_TIME_SLICE
  SleepTimes,    \* the arguments of time_sleep (0 is refused by the stub)
  TimeModulus,   \* sleepingTime is unsigned: it counts modulo this (2^64)
  InitialValues, \* the arguments of sem_open
  MaxValue       \* bound of the model: no semaphore is signalled past it

ASSUME ThreadAssumption ==
  /\ Main \notin User /\ Idle \notin User /\ Main # Idle
  /\ None \notin User \cup {Main, Idle} \cup Sem

ASSUME NumberAssumption ==
  /\ TimeSlice \in Nat \ {0}
  /\ TimeModulus \in Nat \ {0, 1}
  /\ SleepTimes \subseteq 1 .. (TimeModulus - 1)
  /\ MaxValue \in Nat
  /\ InitialValues \subseteq 0 .. MaxValue

Thread == User \cup {Main, Idle}

VARIABLES
  currentRunning,   \* PCB::currentRunning
  ready,            \* Scheduler's list, head first
  state,            \* PCB::state
  finishedThread,   \* PCB::finishedThread
  where,            \* where the thread's own code is (see Where)
  frame,            \* where the kernel left the thread (see Frame)
  handle,           \* the handle a suspended handler still holds
  timeSliceCounter, \* PCB::timeSliceCounter
  sleeping,         \* sleepingThreads' list, head first
  scan,             \* checkToRemoveThread's curr, as a position; 0 outside it
  ssip,             \* sip.SSIP: a timer interrupt is pending
  mode,             \* Riscv::mode
  value,            \* Sem::value
  waiting,          \* Sem's list of blocked threads, head first
  opened, closed,   \* Sem::opened, Sem::closed
  isReleasedAfterClosing,
  joined,           \* PCB's list of threads joined on it, head first
  tailFreed,        \* PCB::tail points to a node PCB::run has freed
  fault             \* what undefined step ended the modelled behaviour

threadVars == <<finishedThread, where>>
schedVars  == <<currentRunning, ready, state, frame, handle>>
semVars    == <<value, waiting, opened, closed, isReleasedAfterClosing>>
joinVars   == <<joined, tailFreed>>
timerVars  == <<timeSliceCounter, sleeping, scan, ssip, mode>>
vars == <<threadVars, schedVars, semVars, joinVars, timerVars, fault>>

ThreadState ==
  {"RUNNING", "SLEEPING", "READY", "FINISHED", "STARTED", "CREATED",
   "BLOCKED", "JOINED"}

(***************************************************************************)
(* "none": no PCB yet.  "body": in the function given to thread_create.    *)
(* "release": at the head of the loop of PCB::run.  "advance": in it, a     *)
(* joined thread put in the ready list and curr still to be moved on.      *)
(* "exit": past it, in PCB::wrapper, about to call thread_exit.            *)
(***************************************************************************)
Where == {"none", "body", "release", "advance", "exit"}

(***************************************************************************)
(* "thread": in thread code.  "wrapper": never run, the saved context is   *)
(* PCB::wrapper.  "tick": in timerTrapHandler.  The others name the call   *)
(* in whose contextSwitch the thread stopped.                              *)
(***************************************************************************)
Frame == {"thread", "wrapper", "tick", "timer", "dispatch", "join", "sleep",
          "semWait", "exit"}

Sleeper == [thread : Thread, sleepingTime : 0 .. (TimeModulus - 1)]

Fault == {"none", "nullWaiter", "staleTail", "wrapper"}

(* The state main leaves when it enables interrupts. *)
Init ==
  /\ currentRunning = Main
  /\ ready = <<>>
  /\ state = [t \in Thread |-> IF t \in User THEN "STARTED" ELSE "CREATED"]
  /\ finishedThread = [t \in Thread |-> FALSE]
  /\ where = [t \in Thread |-> IF t \in User THEN "none" ELSE "body"]
  /\ frame = [t \in Thread |-> IF t = Main THEN "thread" ELSE "wrapper"]
  /\ handle = [t \in Thread |-> None]
  /\ timeSliceCounter = 0
  /\ sleeping = <<>>
  /\ scan = 0
  /\ ssip = FALSE
  /\ mode = 0
  /\ value = [s \in Sem |-> 0]
  /\ waiting = [s \in Sem |-> <<>>]
  /\ opened = [s \in Sem |-> FALSE]
  /\ closed = [s \in Sem |-> FALSE]
  /\ isReleasedAfterClosing = [t \in Thread |-> FALSE]
  /\ joined = [t \in Thread |-> <<>>]
  /\ tailFreed = [t \in Thread |-> FALSE]
  /\ fault = "none"

-----------------------------------------------------------------------------
(* The scheduler and the context switch *)

(* Position i of the list q holds the first thread that is not finished: *)
(* Scheduler::get drops those before it.                                 *)
AnyAlive(q, finished, i) ==                   \* mutant: not the first one
  i \in DOMAIN q /\ ~finished[q[i]]
FirstAlive(q, finished, i) ==
  /\ i \in DOMAIN q
  /\ ~finished[q[i]]
  /\ \A j \in 1 .. (i - 1) : finished[q[j]]

(* Scheduler::get and the caller's choice of the idle thread: next is taken *)
(* from the list q, rest is what stays in it.                               *)
PickNextKeeps(q, finished, next, rest) ==     \* mutant: head is not advanced
  \/ \E i \in DOMAIN q : /\ FirstAlive(q, finished, i)
                         /\ next = q[i] /\ rest = SubSeq(q, i, Len(q))
  \/ (\A i \in DOMAIN q : finished[q[i]]) /\ next = Idle /\ rest = <<>>
PickNextNewest(q, finished, next, rest) ==    \* mutant: a stack
  \/ q # <<>> /\ next = q[Len(q)] /\ rest = SubSeq(q, 1, Len(q) - 1)
  \/ q = <<>> /\ next = Idle /\ rest = <<>>
PickNext(q, finished, next, rest) ==
  \/ \E i \in DOMAIN q : /\ FirstAlive(q, finished, i)
                         /\ next = q[i] /\ rest = SubSeq(q, i + 1, Len(q))
  \/ (\A i \in DOMAIN q : finished[q[i]]) /\ next = Idle /\ rest = <<>>

(***************************************************************************)
(* The tail of every blocking call: switch to the next thread.  q, st and  *)
(* finished are the ready list, the states and the finished flags the call *)
(* has produced; the old thread is left at place k of its handler, holding *)
(* the handle h.                                                           *)
(***************************************************************************)
Switch(q, st, finished, k, h) ==
  /\ PickNext(q, finished, currentRunning', ready')
  /\ state' = [st EXCEPT ![currentRunning'] = "RUNNING"]
  /\ frame' = [frame EXCEPT ![currentRunning] = k]
  /\ handle' = [handle EXCEPT ![currentRunning] = h]

(* PCB::dispatch: the running thread goes to the end of the ready list. *)
Dispatch(st, finished, k) ==
  IF \/ finished[currentRunning]
     \/ st[currentRunning] \in {"BLOCKED", "JOINED"}
     \/ currentRunning = Idle
  THEN Switch(ready, st, finished, k, None)
  ELSE Switch(Append(ready, currentRunning),
              [st EXCEPT ![currentRunning] = "READY"], finished, k, None)

(* Thread code runs: no handler is active and no interrupt is pending. *)
InThread == /\ fault = "none"
            /\ frame[currentRunning] = "thread"
            /\ ~ssip

(* The running thread is in its body and may call the API. *)
InBody == InThread /\ where[currentRunning] = "body"
Client == InBody /\ currentRunning # Idle

-----------------------------------------------------------------------------
(* Threads *)

ThreadCreate(t) ==
  /\ Client
  /\ where[t] = "none"
  /\ where' = [where EXCEPT ![t] = "body"]
  /\ state' = [state EXCEPT ![t] = "READY"]
  /\ ready' = Append(ready, t)
  /\ UNCHANGED <<finishedThread, currentRunning, frame, handle, semVars,
                 joinVars, timerVars, fault>>

ThreadDispatch ==
  /\ InBody
  /\ timeSliceCounter' = 0
  /\ Dispatch(state, finishedThread, "dispatch")
  /\ UNCHANGED <<threadVars, semVars, joinVars, sleeping, scan, ssip, mode,
                 fault>>

(***************************************************************************)
(* thread_exit, called by the wrapper or by the thread's own code.  The    *)
(* stub returns when the thread is already finished; in the wrapper that   *)
(* return address is the wrapper itself, whose first instructions are      *)
(* privileged.                                                             *)
(***************************************************************************)
ExitCalled ==
  /\ InThread
  /\ currentRunning \in User
  /\ where[currentRunning] \in {"body", "exit"}
  /\ ~finishedThread[currentRunning]

ThreadExit ==
  /\ ExitCalled
  /\ finishedThread' = [finishedThread EXCEPT ![currentRunning] = TRUE]
  /\ timeSliceCounter' = 0
  /\ Dispatch([state EXCEPT ![currentRunning] = "FINISHED"],
              [finishedThread EXCEPT ![currentRunning] = TRUE], "exit")
  /\ UNCHANGED <<where, semVars, joinVars, sleeping, scan, ssip, mode, fault>>

WrapperReturns ==
  /\ InThread
  /\ currentRunning \in User
  /\ where[currentRunning] = "exit"
  /\ finishedThread[currentRunning]
  /\ fault' = "wrapper"
  /\ UNCHANGED <<threadVars, schedVars, semVars, joinVars, timerVars>>

(* The body returns to PCB::run, which reads the head of the join list. *)
BodyReturns ==
  /\ InBody
  /\ currentRunning \in User
  /\ where' = [where EXCEPT ![currentRunning] =
                 IF joined[currentRunning] = <<>> THEN "exit" ELSE "release"]
  /\ UNCHANGED <<finishedThread, schedVars, semVars, joinVars, timerVars,
                 fault>>

(* The loop of PCB::run is entered when the body has returned, and left *)
(* when curr is null.                                                   *)
InReleaseLoop(t) == where[t] = "release" /\ joined[t] # <<>>

ReleaseEndsAtOnce(rest) == TRUE               \* mutant: if, not while
ReleaseEnds(rest) == rest = <<>>

(* The first half of a turn of the loop: the thread of the node curr is put *)
(* in the ready list.  It may run, and join again, before curr moves on.    *)
ReleaseJoined ==
  LET t == currentRunning
  IN  /\ InThread
      /\ InReleaseLoop(t)
      /\ ready' = Append(ready, Head(joined[t]))
      /\ state' = [state EXCEPT ![Head(joined[t])] = "READY"]
      /\ joined' = [joined EXCEPT ![t] = Tail(@)]
      /\ where' = [where EXCEPT ![t] = "advance"]
      /\ UNCHANGED <<finishedThread, currentRunning, frame, handle, tailFreed,
                     semVars, timerVars, fault>>

(***************************************************************************)
(* The second half: curr moves on and the node is freed.  PCB::head and    *)
(* PCB::tail are left alone, so after the last turn they dangle.  (A join  *)
(* between the two, curr being null, goes unheard as one after them does.) *)
(***************************************************************************)
CurrAdvances ==
  LET t == currentRunning
  IN  /\ InThread
      /\ where[t] = "advance"
      /\ IF ReleaseEnds(joined[t])
         THEN /\ where' = [where EXCEPT ![t] = "exit"]
              /\ tailFreed' = [tailFreed EXCEPT ![t] = TRUE]
         ELSE /\ where' = [where EXCEPT ![t] = "release"]
              /\ UNCHANGED tailFreed
      /\ UNCHANGED <<finishedThread, schedVars, semVars, joined, timerVars,
                     fault>>

(* PCB::join, unlike PCB::dispatch, puts nobody in the ready list. *)
ListAtJoinWithCaller == Append(ready, currentRunning)  \* mutant: as dispatch
ListAtJoin == ready

(***************************************************************************)
(* thread_join on a thread that is not finished (on a finished one it      *)
(* returns at once).                                                       *)
(***************************************************************************)
ThreadJoin(t) ==
  /\ Client
  /\ where[t] # "none"
  /\ ~finishedThread[t]
  /\ joined' = [joined EXCEPT ![t] = Append(@, currentRunning)]
  /\ tailFreed' = [tailFreed EXCEPT ![t] = FALSE]
  /\ Switch(ListAtJoin, [state EXCEPT ![currentRunning] = "JOINED"],
            finishedThread, "join", t)
  /\ UNCHANGED <<threadVars, semVars, timerVars, fault>>

(***************************************************************************)
(* The same call when PCB::tail dangles writes into a freed block; if the  *)
(* block is in use again, the list it belongs to is destroyed.             *)
(***************************************************************************)
JoinThroughStaleTail(t) ==
  /\ Client
  /\ where[t] # "none"
  /\ ~finishedThread[t]
  /\ tailFreed[t]
  /\ fault' = "staleTail"
  /\ UNCHANGED <<threadVars, schedVars, semVars, joinVars, timerVars>>

(* PCB::setFinished through Thread::finish (PeriodicThread::terminate). *)
Terminate(t) ==
  /\ Client
  /\ where[t] # "none"
  /\ ~finishedThread[t]
  /\ finishedThread' = [finishedThread EXCEPT ![t] = TRUE]
  /\ state' = [state EXCEPT ![t] = "FINISHED"]
  /\ UNCHANGED <<where, currentRunning, ready, frame, handle, semVars,
                 joinVars, timerVars, fault>>

-----------------------------------------------------------------------------
(* Semaphores *)

SemOpen(s, v) ==
  /\ Client
  /\ ~opened[s]
  /\ opened' = [opened EXCEPT ![s] = TRUE]
  /\ value' = [value EXCEPT ![s] = v]
  /\ UNCHANGED <<threadVars, schedVars, waiting, closed,
                 isReleasedAfterClosing, joinVars, timerVars, fault>>

(* Closing releases every blocked thread; the value is left as it is. *)
SemClose(s) ==
  /\ Client
  /\ opened[s] /\ ~closed[s]
  /\ LET released == {waiting[s][i] : i \in DOMAIN waiting[s]}
     IN  /\ isReleasedAfterClosing' =
              [t \in Thread |-> t \in released \/ isReleasedAfterClosing[t]]
         /\ state' = [t \in Thread |->
                        IF t \in released THEN "READY" ELSE state[t]]
  /\ ready' = ready \o waiting[s]
  /\ waiting' = [waiting EXCEPT ![s] = <<>>]
  /\ closed' = [closed EXCEPT ![s] = TRUE]
  /\ UNCHANGED <<threadVars, currentRunning, frame, handle, value, opened,
                 joinVars, timerVars, fault>>

(***************************************************************************)
(* The end of Sem::semWait: a thread that the closing released is told so  *)
(* (result -1) and its flag is reset.                                      *)
(***************************************************************************)
KeepReleaseFlag(s) ==                         \* mutant: no reset
  UNCHANGED isReleasedAfterClosing
ReadReleaseFlag(s) ==
  isReleasedAfterClosing' =
    [isReleasedAfterClosing EXCEPT ![currentRunning] = @ /\ ~closed[s]]

(* --value < 0: the caller of semWait has to block. *)
ExhaustedLate(s) == value[s] < 0              \* mutant: tested too early
Exhausted(s) == value[s] - 1 < 0

(* ++value <= 0: semSignal has a thread to release. *)
Owed(s) == value[s] + 1 <= 0

SemWaitPasses(s) ==
  /\ Client
  /\ opened[s]
  /\ ~Exhausted(s)
  /\ value' = [value EXCEPT ![s] = @ - 1]
  /\ ReadReleaseFlag(s)
  /\ UNCHANGED <<threadVars, schedVars, waiting, opened, closed, joinVars,
                 timerVars, fault>>

SemWaitBlocks(s) ==
  /\ Client
  /\ opened[s]
  /\ Exhausted(s)
  /\ value' = [value EXCEPT ![s] = @ - 1]
  /\ waiting' = [waiting EXCEPT ![s] = Append(@, currentRunning)]
  /\ Switch(ready, [state EXCEPT ![currentRunning] = "BLOCKED"],
            finishedThread, "semWait", s)
  /\ UNCHANGED <<threadVars, opened, closed, isReleasedAfterClosing,
                 joinVars, timerVars, fault>>

(* Sem::deblock; on an empty queue it reads the thread of a null node. *)
DeblockLast(s) ==                             \* mutant: a stack
  LET n == Len(waiting[s])
  IN  /\ n > 0
      /\ waiting' = [waiting EXCEPT ![s] = SubSeq(@, 1, n - 1)]
      /\ ready' = Append(ready, waiting[s][n])
      /\ state' = [state EXCEPT ![waiting[s][n]] = "READY"]
      /\ UNCHANGED fault
Deblock(s) ==
  IF waiting[s] = <<>>
  THEN fault' = "nullWaiter" /\ UNCHANGED <<waiting, ready, state>>
  ELSE /\ waiting' = [waiting EXCEPT ![s] = Tail(@)]
       /\ ready' = Append(ready, Head(waiting[s]))
       /\ state' = [state EXCEPT ![Head(waiting[s])] = "READY"]
       /\ UNCHANGED fault

SemSignal(s) ==
  /\ Client
  /\ opened[s]
  /\ value[s] < MaxValue
  /\ value' = [value EXCEPT ![s] = @ + 1]
  /\ IF Owed(s) THEN Deblock(s) ELSE UNCHANGED <<waiting, ready, state, fault>>
  /\ UNCHANGED <<threadVars, currentRunning, frame, handle, opened, closed,
                 isReleasedAfterClosing, joinVars, timerVars>>

-----------------------------------------------------------------------------
(* Sleeping and the timer *)

TimeSleep(n) ==
  /\ Client
  /\ ~finishedThread[currentRunning]
  /\ sleeping' = Append(sleeping,
                        [thread |-> currentRunning, sleepingTime |-> n])
  /\ Switch(ready, [state EXCEPT ![currentRunning] = "SLEEPING"],
            finishedThread, "sleep", None)
  /\ UNCHANGED <<threadVars, semVars, joinVars, timeSliceCounter, scan, ssip,
                 mode, fault>>

(* The machine timer: its handler in hw.lib sets sip.SSIP. *)
TimerRaise ==
  /\ fault = "none"
  /\ ~ssip
  /\ ssip' = TRUE
  /\ UNCHANGED <<threadVars, schedVars, semVars, joinVars, timeSliceCounter,
                 sleeping, scan, mode, fault>>

(* One entry of subOneTimeSlice's loop: the counter is unsigned. *)
TickedUnlessIdle(e) ==                        \* mutant: no time while idle
  IF currentRunning = Idle THEN e
  ELSE [e EXCEPT !.sleepingTime = (@ + TimeModulus - 1) % TimeModulus]
Ticked(e) == [e EXCEPT !.sleepingTime = (@ + TimeModulus - 1) % TimeModulus]

(* checkToRemoveThread removes entry i. *)
DueAtHead(i) == i = 1 /\ sleeping[i].sleepingTime = 0  \* mutant: head only
Due(i) == sleeping[i].sleepingTime = 0

(* mc_sip(SIP_SSIE), the last thing timerTrapHandler does. *)
LeavePending == UNCHANGED ssip                \* mutant: not acknowledged
Acknowledge == ssip' = FALSE

(* timerTrapHandler up to the end of subOneTimeSlice. *)
TimerTrap ==
  /\ fault = "none"
  /\ frame[currentRunning] = "thread"
  /\ ssip
  /\ frame' = [frame EXCEPT ![currentRunning] = "tick"]
  /\ timeSliceCounter' = timeSliceCounter + 1
  /\ sleeping' = [i \in DOMAIN sleeping |-> Ticked(sleeping[i])]
  /\ scan' = 1
  /\ UNCHANGED <<threadVars, currentRunning, ready, state, handle, semVars,
                 joinVars, ssip, mode, fault>>

(* One turn of the loop of checkToRemoveThread. *)
CheckSleeper ==
  /\ frame[currentRunning] = "tick"
  /\ scan \in DOMAIN sleeping
  /\ IF Due(scan)
     THEN /\ sleeping' = SubSeq(sleeping, 1, scan - 1) \o
                         SubSeq(sleeping, scan + 1, Len(sleeping))
          /\ ready' = Append(ready, sleeping[scan].thread)
          /\ state' = [state EXCEPT ![sleeping[scan].thread] = "READY"]
          /\ UNCHANGED scan
     ELSE /\ scan' = scan + 1
          /\ UNCHANGED <<sleeping, ready, state>>
  /\ UNCHANGED <<threadVars, currentRunning, frame, handle, semVars, joinVars,
                 timeSliceCounter, ssip, mode, fault>>

(* The rest of the handler when the time slice is used up ... *)
TimerPreempts ==
  /\ frame[currentRunning] = "tick"
  /\ scan > Len(sleeping)
  /\ timeSliceCounter >= TimeSlice
  /\ scan' = 0
  /\ mode' = 1
  /\ timeSliceCounter' = 0
  /\ Dispatch(state, finishedThread, "timer")
  /\ UNCHANGED <<threadVars, semVars, joinVars, sleeping, ssip, fault>>

(* ... and when it is not: only here and in TimerReturns is SSIP cleared. *)
TimerContinues ==
  /\ frame[currentRunning] = "tick"
  /\ scan > Len(sleeping)
  /\ timeSliceCounter < TimeSlice
  /\ scan' = 0
  /\ Acknowledge
  /\ frame' = [frame EXCEPT ![currentRunning] = "thread"]
  /\ UNCHANGED <<threadVars, currentRunning, ready, state, handle, semVars,
                 joinVars, timeSliceCounter, sleeping, mode, fault>>

-----------------------------------------------------------------------------
(* The second half of the handlers that switched context *)

Resume(k) ==
  /\ frame[currentRunning] = k
  /\ frame' = [frame EXCEPT ![currentRunning] = "thread"]
  /\ handle' = [handle EXCEPT ![currentRunning] = None]

(* PCB::wrapper and Riscv::popSppSpie start the thread's body. *)
StartThread ==
  /\ Resume("wrapper")
  /\ UNCHANGED <<threadVars, currentRunning, ready, state, semVars, joinVars,
                 timerVars, fault>>

(* Nothing is left of these calls but the return to the thread. *)
CallReturns ==
  /\ \E k \in {"dispatch", "join", "sleep"} : Resume(k)
  /\ UNCHANGED <<threadVars, currentRunning, ready, state, semVars, joinVars,
                 timerVars, fault>>

SemWaitReturns ==
  /\ Resume("semWait")
  /\ ReadReleaseFlag(handle[currentRunning])
  /\ UNCHANGED <<threadVars, currentRunning, ready, state, value, waiting,
                 opened, closed, joinVars, timerVars, fault>>

TimerReturns ==
  /\ Resume("timer")
  /\ Acknowledge
  /\ UNCHANGED <<threadVars, currentRunning, ready, state, semVars, joinVars,
                 timeSliceCounter, sleeping, scan, mode, fault>>

-----------------------------------------------------------------------------

ThreadCall ==
  \/ \E t \in User : ThreadCreate(t) \/ Terminate(t)
  \/ \E t \in User : ThreadJoin(t) \/ JoinThroughStaleTail(t)
  \/ ThreadDispatch \/ ThreadExit
  \/ BodyReturns \/ ReleaseJoined \/ CurrAdvances \/ WrapperReturns

SemCall ==
  \E s \in Sem :
    \/ \E v \in InitialValues : SemOpen(s, v)
    \/ SemClose(s)
    \/ SemWaitPasses(s) \/ SemWaitBlocks(s)
    \/ SemSignal(s)

Timer ==
  \/ TimerTrap \/ CheckSleeper \/ TimerPreempts \/ TimerContinues

Returns ==
  \/ StartThread \/ CallReturns \/ SemWaitReturns \/ TimerReturns

Next ==
  \/ ThreadCall
  \/ SemCall
  \/ \E n \in SleepTimes : TimeSleep(n)
  \/ TimerRaise
  \/ Timer
  \/ Returns

Spec == Init /\ [][Next]_vars
=============================================================================
