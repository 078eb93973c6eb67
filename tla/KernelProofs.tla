---------------------------- MODULE KernelProofs ----------------------------
(***************************************************************************)
(* Proofs about the kernel, for any threads, semaphores and time slice.    *)
(*                                                                         *)
(* In order: the types (TypeOK); the value of a semaphore and its queue    *)
(* (SemInv); the scan of the sleepers (ScanInv); what a list of threads    *)
(* holds; the places of the threads in the lists (PlaceInv); what the      *)
(* suspended calls wait for (CallInv); the flag of semClose (FlagInv); the *)
(* refinement of Semaphores; what a step does to a thread that waits, for  *)
(* the processor or in another list (MovesUp, LeavesToReady); and, with    *)
(* the clock of KernelClock, how often a tick is charged (ClockInv).  Each *)
(* part rests on those before it.                                          *)
(***************************************************************************)
EXTENDS KernelClock, SequenceTheorems, TLAPS

-----------------------------------------------------------------------------
(* Lists of threads *)

(* The tail of a non-empty list, and its head. *)
LEMMA HeadTailType ==
  ASSUME NEW S, NEW q \in Seq(S), q # <<>>
  PROVE  /\ Head(q) \in S
         /\ Tail(q) \in Seq(S)
         /\ Len(Tail(q)) = Len(q) - 1
  BY HeadTailProperties

(* What remains of a list after its first i elements. *)
LEMMA RestType ==
  ASSUME NEW S, NEW q \in Seq(S), NEW i \in DOMAIN q
  PROVE  /\ q[i] \in S
         /\ SubSeq(q, i + 1, Len(q)) \in Seq(S)
         /\ SubSeq(q, 1, i - 1) \in Seq(S)
  BY SubSeqProperties, LenProperties, ElementOfSeq

-----------------------------------------------------------------------------
(* The scheduler *)

(* Scheduler::get yields a thread, and a list of threads stays. *)
LEMMA PickNextType ==
  ASSUME NEW q \in Seq(Thread), NEW finished, NEW next, NEW rest,
         PickNext(q, finished, next, rest)
  PROVE  next \in Thread /\ rest \in Seq(Thread)
  <1>1. CASE \E i \in DOMAIN q : /\ FirstAlive(q, finished, i)
                                 /\ next = q[i]
                                 /\ rest = SubSeq(q, i + 1, Len(q))
    BY <1>1, RestType
  <1>2. CASE next = Idle /\ rest = <<>>
    BY <1>2 DEF Thread
  <1> QED
    BY <1>1, <1>2 DEF PickNext

Handle == Sem \cup User \cup {None}

(* The types of the variables a switch changes. *)
SchedType ==
  /\ currentRunning \in Thread
  /\ ready \in Seq(Thread)
  /\ state \in [Thread -> ThreadState]
  /\ frame \in [Thread -> Frame]
  /\ handle \in [Thread -> Handle]

(* A switch keeps the types of everything it changes. *)
LEMMA SwitchType ==
  ASSUME TypeOK,
         NEW q \in Seq(Thread), NEW st \in [Thread -> ThreadState],
         NEW finished, NEW k \in Frame, NEW h \in Handle,
         Switch(q, st, finished, k, h)
  PROVE  SchedType'
  <1>1. currentRunning' \in Thread /\ ready' \in Seq(Thread)
    BY PickNextType DEF Switch
  <1>2. "RUNNING" \in ThreadState
    BY DEF ThreadState
  <1> QED
    BY <1>1, <1>2 DEF Switch, TypeOK, Handle, SchedType

(* So does PCB::dispatch. *)
LEMMA DispatchType ==
  ASSUME TypeOK,
         NEW st \in [Thread -> ThreadState], NEW finished, NEW k \in Frame,
         Dispatch(st, finished, k)
  PROVE  SchedType'
  <1>1. /\ ready \in Seq(Thread)
        /\ Append(ready, currentRunning) \in Seq(Thread)
        /\ [st EXCEPT ![currentRunning] = "READY"] \in [Thread -> ThreadState]
        /\ None \in Handle
    BY DEF TypeOK, ThreadState, Handle
  <1>2. CASE Switch(ready, st, finished, k, None)
    BY <1>1, <1>2, SwitchType
  <1>3. CASE Switch(Append(ready, currentRunning),
                    [st EXCEPT ![currentRunning] = "READY"],
                    finished, k, None)
    BY <1>1, <1>3, SwitchType
  <1> QED
    BY <1>2, <1>3 DEF Dispatch

-----------------------------------------------------------------------------
(* Type correctness *)

(* The initial state is typed. *)
LEMMA TypeInit == Init => TypeOK
  <1> SUFFICES ASSUME Init PROVE TypeOK
    OBVIOUS
  <1>1. /\ currentRunning \in Thread
        /\ timeSliceCounter \in Nat /\ scan \in Nat
        /\ ssip \in BOOLEAN /\ mode \in {0, 1} /\ fault \in Fault
    BY DEF Init, Thread, Fault
  <1>4. ready \in Seq(Thread) /\ sleeping \in Seq(Sleeper)
    BY DEF Init
  <1>2. /\ state \in [Thread -> ThreadState]
        /\ finishedThread \in [Thread -> BOOLEAN]
        /\ where \in [Thread -> Where]
        /\ frame \in [Thread -> Frame]
        /\ handle \in [Thread -> Sem \cup User \cup {None}]
    BY DEF Init, ThreadState, Where, Frame
  <1>3. /\ value \in [Sem -> Int]
        /\ waiting \in [Sem -> Seq(Thread)]
        /\ opened \in [Sem -> BOOLEAN]
        /\ closed \in [Sem -> BOOLEAN]
        /\ isReleasedAfterClosing \in [Thread -> BOOLEAN]
        /\ joined \in [Thread -> Seq(Thread)]
        /\ tailFreed \in [Thread -> BOOLEAN]
    BY DEF Init
  <1> QED
    BY <1>1, <1>2, <1>3, <1>4 DEF TypeOK

(* The timer's arithmetic on a sleeper stays within an unsigned number. *)
LEMMA TickedType ==
  ASSUME NEW e \in Sleeper
  PROVE  /\ Ticked(e) \in Sleeper
         /\ Ticked(e).thread = e.thread
         /\ Ticked(e).sleepingTime =
              (e.sleepingTime + TimeModulus - 1) % TimeModulus
  BY NumberAssumption DEF Ticked, Sleeper

(***************************************************************************)
(* Every step of the kernel keeps the types: one lemma for each group of   *)
(* Next.                                                                   *)
(***************************************************************************)
LEMMA TypeThreadCall ==
  ASSUME TypeOK, ThreadCall
  PROVE  TypeOK'
  <1>1. ASSUME NEW t \in User, ThreadCreate(t) PROVE TypeOK'
    <2>1. t \in Thread /\ "READY" \in ThreadState /\ "body" \in Where
      BY DEF Thread, ThreadState, Where
    <2> QED
      BY <1>1, <2>1
         DEF TypeOK, ThreadCreate, Client, InBody, InThread, semVars,
             joinVars, timerVars
  <1>2. ASSUME NEW t \in User, Terminate(t) PROVE TypeOK'
    <2>1. t \in Thread /\ "FINISHED" \in ThreadState
      BY DEF Thread, ThreadState
    <2> QED
      BY <1>2, <2>1 DEF TypeOK, Terminate, semVars, joinVars, timerVars
  <1>3. ASSUME NEW t \in User, ThreadJoin(t) PROVE TypeOK'
    <2>1. /\ t \in Thread /\ t \in Handle /\ "join" \in Frame
          /\ ready \in Seq(Thread)
          /\ [state EXCEPT ![currentRunning] = "JOINED"]
               \in [Thread -> ThreadState]
      BY DEF TypeOK, Thread, Handle, Frame, ThreadState
    <2>2. Switch(ready, [state EXCEPT ![currentRunning] = "JOINED"],
                 finishedThread, "join", t)
      BY <1>3 DEF ThreadJoin, ListAtJoin
    <2>3. SchedType'
      BY <2>1, <2>2, SwitchType
    <2>4. /\ joined' \in [Thread -> Seq(Thread)]
          /\ tailFreed' \in [Thread -> BOOLEAN]
      BY <1>3, <2>1 DEF ThreadJoin, TypeOK
    <2> QED
      BY <1>3, <2>3, <2>4 DEF TypeOK, SchedType, Handle, ThreadJoin,
                             threadVars, semVars, timerVars
  <1>4. ASSUME NEW t \in User, JoinThroughStaleTail(t) PROVE TypeOK'
    BY <1>4 DEF TypeOK, JoinThroughStaleTail, Fault, threadVars, schedVars,
                semVars, joinVars, timerVars
  <1>5. ASSUME ThreadDispatch PROVE TypeOK'
    <2>1. Dispatch(state, finishedThread, "dispatch") /\ "dispatch" \in Frame
          /\ state \in [Thread -> ThreadState]
      BY <1>5 DEF ThreadDispatch, Frame, TypeOK
    <2>2. SchedType'
      BY <2>1, DispatchType
    <2> QED
      BY <1>5, <2>2 DEF TypeOK, SchedType, Handle, ThreadDispatch, threadVars,
                       semVars, joinVars
  <1>6. ASSUME ThreadExit PROVE TypeOK'
    <2> DEFINE marked == [state EXCEPT ![currentRunning] = "FINISHED"]
               flags == [finishedThread EXCEPT ![currentRunning] = TRUE]
    <2>1. Dispatch(marked, flags, "exit") /\ "exit" \in Frame
          /\ marked \in [Thread -> ThreadState]
      BY <1>6 DEF ThreadExit, Frame, TypeOK, ThreadState
    <2>2. SchedType'
      BY <2>1, DispatchType
    <2> QED
      BY <1>6, <2>2
         DEF TypeOK, SchedType, Handle, ThreadExit, semVars, joinVars
  <1>7. ASSUME BodyReturns PROVE TypeOK'
    BY <1>7 DEF TypeOK, BodyReturns, Where, schedVars, semVars, joinVars,
                timerVars
  <1>8. ASSUME ReleaseJoined PROVE TypeOK'
    <2> DEFINE first == Head(joined[currentRunning])
               rest  == Tail(joined[currentRunning])
    <2>1. joined[currentRunning] # <<>>
      BY <1>8 DEF ReleaseJoined, InReleaseLoop
    <2>2. first \in Thread /\ rest \in Seq(Thread)
      BY <2>1, HeadTailType DEF TypeOK
    <2>3. /\ ready' = Append(ready, first)
          /\ state' = [state EXCEPT ![first] = "READY"]
          /\ joined' = [joined EXCEPT ![currentRunning] = rest]
      BY <1>8 DEF ReleaseJoined
    <2>4. /\ ready' \in Seq(Thread)
          /\ state' \in [Thread -> ThreadState]
          /\ joined' \in [Thread -> Seq(Thread)]
      BY <2>2, <2>3 DEF TypeOK, ThreadState
    <2>5. /\ where' \in [Thread -> Where]
          /\ tailFreed' \in [Thread -> BOOLEAN]
      BY <1>8 DEF ReleaseJoined, TypeOK, Where
    <2> QED
      BY <1>8, <2>4, <2>5 DEF TypeOK, ReleaseJoined, semVars, timerVars
  <1>9. ASSUME WrapperReturns PROVE TypeOK'
    BY <1>9 DEF TypeOK, WrapperReturns, Fault, threadVars, schedVars,
                semVars, joinVars, timerVars
  <1>10. ASSUME CurrAdvances PROVE TypeOK'
    BY <1>10 DEF TypeOK, CurrAdvances, Where, schedVars, semVars, timerVars
  <1> QED
    BY <1>1, <1>2, <1>3, <1>4, <1>5, <1>6, <1>7, <1>8, <1>9, <1>10
       DEF ThreadCall

(* The calls of the semaphores keep the types. *)
LEMMA TypeSemCall ==
  ASSUME TypeOK, SemCall
  PROVE  TypeOK'
  <1>1. ASSUME NEW s \in Sem, NEW v \in InitialValues, SemOpen(s, v)
        PROVE  TypeOK'
    BY <1>1, NumberAssumption
       DEF TypeOK, SemOpen, threadVars, schedVars, joinVars, timerVars
  <1>2. ASSUME NEW s \in Sem, SemClose(s) PROVE TypeOK'
    <2> DEFINE released == {waiting[s][i] : i \in DOMAIN waiting[s]}
    <2>1. /\ isReleasedAfterClosing' =
              [t \in Thread |-> t \in released \/ isReleasedAfterClosing[t]]
          /\ state' = [t \in Thread |->
                         IF t \in released THEN "READY" ELSE state[t]]
      BY <1>2 DEF SemClose
    <2> HIDE DEF released
    <2>2. isReleasedAfterClosing' \in [Thread -> BOOLEAN]
      BY <2>1
    <2>3. state' \in [Thread -> ThreadState]
      BY <2>1 DEF TypeOK, ThreadState
    <2>4. /\ ready' \in Seq(Thread)
          /\ waiting' \in [Sem -> Seq(Thread)]
          /\ closed' \in [Sem -> BOOLEAN]
      BY <1>2 DEF SemClose, TypeOK
    <2> QED
      BY <1>2, <2>2, <2>3, <2>4
         DEF TypeOK, SemClose, threadVars, joinVars, timerVars
  <1>3. ASSUME NEW s \in Sem, SemWaitPasses(s) PROVE TypeOK'
    <2>1. isReleasedAfterClosing' \in [Thread -> BOOLEAN]
      BY <1>3 DEF SemWaitPasses, ReadReleaseFlag, TypeOK
    <2> QED
      BY <1>3, <2>1
         DEF TypeOK, SemWaitPasses, threadVars, schedVars, joinVars, timerVars
  <1>4. ASSUME NEW s \in Sem, SemWaitBlocks(s) PROVE TypeOK'
    <2> DEFINE blocked == [state EXCEPT ![currentRunning] = "BLOCKED"]
    <2>1. /\ ready \in Seq(Thread) /\ s \in Handle /\ "semWait" \in Frame
          /\ blocked \in [Thread -> ThreadState]
      BY DEF TypeOK, Handle, Frame, ThreadState
    <2>2. Switch(ready, blocked, finishedThread, "semWait", s)
      BY <1>4 DEF SemWaitBlocks
    <2>3. SchedType'
      BY <2>1, <2>2, SwitchType
    <2>4. /\ value' \in [Sem -> Int]
          /\ waiting' \in [Sem -> Seq(Thread)]
      BY <1>4 DEF SemWaitBlocks, TypeOK
    <2> QED
      BY <1>4, <2>3, <2>4 DEF TypeOK, SchedType, Handle, SemWaitBlocks,
                              threadVars, joinVars, timerVars
  <1>5. ASSUME NEW s \in Sem, SemSignal(s) PROVE TypeOK'
    <2>1. ASSUME Deblock(s)
          PROVE  /\ waiting' \in [Sem -> Seq(Thread)]
                 /\ ready' \in Seq(Thread)
                 /\ state' \in [Thread -> ThreadState]
                 /\ fault' \in Fault
      <3>1. CASE waiting[s] = <<>>
        BY <2>1, <3>1 DEF Deblock, TypeOK, Fault
      <3>2. CASE waiting[s] # <<>>
        <4>1. Head(waiting[s]) \in Thread /\ Tail(waiting[s]) \in Seq(Thread)
          BY <3>2, HeadTailType DEF TypeOK
        <4> DEFINE first == Head(waiting[s])
                   rest  == Tail(waiting[s])
        <4>2. /\ waiting' = [waiting EXCEPT ![s] = rest]
              /\ ready' = Append(ready, first)
              /\ state' = [state EXCEPT ![first] = "READY"]
              /\ UNCHANGED fault
          BY <2>1, <3>2 DEF Deblock
        <4> HIDE DEF first, rest
        <4> QED
          BY <4>1, <4>2 DEF TypeOK, ThreadState, first, rest
      <3> QED
        BY <3>1, <3>2
    <2>2. /\ waiting' \in [Sem -> Seq(Thread)]
          /\ ready' \in Seq(Thread)
          /\ state' \in [Thread -> ThreadState]
          /\ fault' \in Fault
      BY <1>5, <2>1 DEF SemSignal, TypeOK
    <2>3. value' \in [Sem -> Int]
      BY <1>5 DEF SemSignal, TypeOK
    <2> QED
      BY <1>5, <2>2, <2>3
         DEF TypeOK, SemSignal, threadVars, joinVars, timerVars
  <1> QED
    BY <1>1, <1>2, <1>3, <1>4, <1>5 DEF SemCall

(* So does the timer handler, *)
LEMMA TypeTimer ==
  ASSUME TypeOK, Timer
  PROVE  TypeOK'
  <1>1. ASSUME TimerTrap PROVE TypeOK'
    <2>1. \A i \in DOMAIN sleeping : Ticked(sleeping[i]) \in Sleeper
      BY TickedType, ElementOfSeq, LenProperties DEF TypeOK
    <2>2. sleeping' \in Seq(Sleeper)
      <3>1. sleeping' = [i \in DOMAIN sleeping |-> Ticked(sleeping[i])]
        BY <1>1 DEF TimerTrap
      <3>2. DOMAIN sleeping = 1 .. Len(sleeping) /\ Len(sleeping) \in Nat
        BY LenProperties DEF TypeOK
      <3> QED
        BY <2>1, <3>1, <3>2, IsASeq
    <2>3. frame' \in [Thread -> Frame]
      BY <1>1 DEF TimerTrap, TypeOK, Frame
    <2> QED
      BY <1>1, <2>2, <2>3 DEF TypeOK, TimerTrap, threadVars, semVars, joinVars
  <1>2. ASSUME CheckSleeper PROVE TypeOK'
    <2>1. CASE Due(scan)
      <3>1. /\ sleeping[scan] \in Sleeper
            /\ SubSeq(sleeping, 1, scan - 1) \in Seq(Sleeper)
            /\ SubSeq(sleeping, scan + 1, Len(sleeping)) \in Seq(Sleeper)
        BY <1>2, RestType DEF CheckSleeper, TypeOK
      <3> DEFINE woken  == sleeping[scan].thread
                 before == SubSeq(sleeping, 1, scan - 1)
                 after  == SubSeq(sleeping, scan + 1, Len(sleeping))
      <3>2. /\ sleeping' = before \o after
            /\ ready' = Append(ready, woken)
            /\ state' = [state EXCEPT ![woken] = "READY"]
        BY <1>2, <2>1 DEF CheckSleeper
      <3>3. woken \in Thread
        BY <3>1 DEF Sleeper
      <3> HIDE DEF woken, before, after
      <3>4. /\ sleeping' \in Seq(Sleeper)
            /\ ready' \in Seq(Thread)
            /\ state' \in [Thread -> ThreadState]
        BY <3>1, <3>2, <3>3, ConcatProperties
           DEF TypeOK, ThreadState, before, after
      <3> QED
        BY <1>2, <2>1, <3>4
           DEF TypeOK, CheckSleeper, threadVars, semVars, joinVars
    <2>2. CASE ~Due(scan)
      BY <1>2, <2>2 DEF TypeOK, CheckSleeper, threadVars, semVars, joinVars
    <2> QED
      BY <2>1, <2>2
  <1>3. ASSUME TimerPreempts PROVE TypeOK'
    <2>1. Dispatch(state, finishedThread, "timer") /\ "timer" \in Frame
          /\ state \in [Thread -> ThreadState]
      BY <1>3 DEF TimerPreempts, Frame, TypeOK
    <2>2. SchedType'
      BY <2>1, DispatchType
    <2> QED
      BY <1>3, <2>2 DEF TypeOK, SchedType, Handle, TimerPreempts, threadVars,
                        semVars, joinVars
  <1>4. ASSUME TimerContinues PROVE TypeOK'
    BY <1>4 DEF TypeOK, TimerContinues, Acknowledge, Frame, threadVars,
                semVars, joinVars
  <1> QED
    BY <1>1, <1>2, <1>3, <1>4 DEF Timer

(* so do the ends of the suspended calls, *)
LEMMA TypeReturns ==
  ASSUME TypeOK, Returns
  PROVE  TypeOK'
  <1>1. ASSUME NEW k, Resume(k)
        PROVE  frame' \in [Thread -> Frame] /\ handle' \in [Thread -> Handle]
    BY <1>1 DEF Resume, TypeOK, Frame, Handle
  <1>2. ASSUME StartThread PROVE TypeOK'
    BY <1>1, <1>2 DEF TypeOK, Handle, StartThread, threadVars, semVars,
                      joinVars, timerVars
  <1>3. ASSUME CallReturns PROVE TypeOK'
    BY <1>1, <1>3 DEF TypeOK, Handle, CallReturns, threadVars, semVars,
                      joinVars, timerVars
  <1>4. ASSUME SemWaitReturns PROVE TypeOK'
    <2>1. isReleasedAfterClosing' \in [Thread -> BOOLEAN]
      BY <1>4 DEF SemWaitReturns, ReadReleaseFlag, TypeOK
    <2> QED
      BY <1>1, <1>4, <2>1 DEF TypeOK, Handle, SemWaitReturns, threadVars,
                              joinVars, timerVars
  <1>5. ASSUME TimerReturns PROVE TypeOK'
    BY <1>1, <1>5 DEF TypeOK, Handle, TimerReturns, Acknowledge, threadVars,
                      semVars, joinVars
  <1> QED
    BY <1>2, <1>3, <1>4, <1>5 DEF Returns

(* and so does time_sleep. *)
LEMMA TypeTimeSleep ==
  ASSUME TypeOK, NEW n \in SleepTimes, TimeSleep(n)
  PROVE  TypeOK'
  <1> DEFINE asleep == [state EXCEPT ![currentRunning] = "SLEEPING"]
  <1>1. /\ ready \in Seq(Thread) /\ None \in Handle /\ "sleep" \in Frame
        /\ asleep \in [Thread -> ThreadState]
    BY DEF TypeOK, Handle, Frame, ThreadState
  <1>2. Switch(ready, asleep, finishedThread, "sleep", None)
    BY DEF TimeSleep
  <1>3. SchedType'
    BY <1>1, <1>2, SwitchType
  <1>4. n \in 0 .. (TimeModulus - 1)
    BY NumberAssumption
  <1>5. [thread |-> currentRunning, sleepingTime |-> n] \in Sleeper
    BY <1>4 DEF TypeOK, Sleeper
  <1>6. sleeping' \in Seq(Sleeper)
    BY <1>5 DEF TimeSleep, TypeOK
  <1> QED
    BY <1>3, <1>6 DEF TypeOK, SchedType, Handle, TimeSleep, threadVars,
                      semVars,
                      joinVars

(* Every step keeps the types. *)
LEMMA TypeNext == TypeOK /\ [Next]_vars => TypeOK'
  <1> SUFFICES ASSUME TypeOK, [Next]_vars PROVE TypeOK'
    OBVIOUS
  <1>1. CASE ThreadCall
    BY <1>1, TypeThreadCall
  <1>2. CASE SemCall
    BY <1>2, TypeSemCall
  <1>3. CASE \E n \in SleepTimes : TimeSleep(n)
    BY <1>3, TypeTimeSleep
  <1>4. CASE TimerRaise
    BY <1>4 DEF TypeOK, TimerRaise, threadVars, schedVars, semVars, joinVars
  <1>5. CASE Timer
    BY <1>5, TypeTimer
  <1>6. CASE Returns
    BY <1>6, TypeReturns
  <1>7. CASE UNCHANGED vars
    BY <1>7 DEF TypeOK, vars, threadVars, schedVars, semVars, joinVars,
                timerVars
  <1> QED
    BY <1>1, <1>2, <1>3, <1>4, <1>5, <1>6, <1>7 DEF Next

(***************************************************************************)
(* Every variable of the kernel keeps its type: in particular the kernel   *)
(* always runs a thread, and every list it keeps holds threads.            *)
(***************************************************************************)
THEOREM TypeCorrect == Spec => []TypeOK
  BY TypeInit, TypeNext, PTL DEF Spec

-----------------------------------------------------------------------------
(* The value of a semaphore and its queue *)

(* A semaphore that was never opened is as its initialisation left it. *)
SemInv ==
  /\ SemQueueMatchesValue
  /\ NullWaiterNeedsClose
  /\ \A s \in Sem : ~opened[s] => value[s] = 0 /\ ~closed[s]

(* Steps that neither touch a semaphore nor fault keep SemInv. *)
LEMMA SemInvFrame ==
  ASSUME SemInv, UNCHANGED <<value, waiting, opened, closed>>,
         fault' = fault \/ fault' # "nullWaiter"
  PROVE  SemInv'
  BY DEF SemInv, SemQueueMatchesValue, NullWaiterNeedsClose

(* The calls of the semaphores keep SemInv. *)
LEMMA SemInvSemCall ==
  ASSUME TypeOK, SemInv, SemCall
  PROVE  SemInv'
  <1>1. ASSUME NEW s \in Sem, NEW v \in InitialValues, SemOpen(s, v)
        PROVE  SemInv'
    <2>1. /\ waiting' = waiting /\ closed' = closed /\ fault' = "none"
          /\ ~opened[s] /\ v \in Nat
          /\ opened' = [opened EXCEPT ![s] = TRUE]
          /\ value' = [value EXCEPT ![s] = v]
      BY <1>1, NumberAssumption DEF SemOpen, Client, InBody, InThread
    <2>2. \A r \in Sem : Len(waiting[r]) \in Nat /\ value[r] \in Int
      BY LenProperties DEF TypeOK
    <2>3. Len(waiting[s]) = 0
      BY <2>1, <2>2 DEF SemInv, SemQueueMatchesValue, Deficit
    <2> QED
      BY <2>1, <2>2, <2>3
         DEF TypeOK, SemInv, SemQueueMatchesValue, NullWaiterNeedsClose,
             Deficit
  <1>2. ASSUME NEW s \in Sem, SemClose(s) PROVE SemInv'
    <2>1. /\ value' = value /\ opened' = opened /\ fault' = "none"
          /\ waiting' = [waiting EXCEPT ![s] = <<>>]
          /\ closed' = [closed EXCEPT ![s] = TRUE]
          /\ opened[s]
      BY <1>2 DEF SemClose, Client, InBody, InThread
    <2>2. value[s] \in Int /\ Len(<<>>) = 0
      BY DEF TypeOK
    <2> QED
      BY <2>1, <2>2
         DEF TypeOK, SemInv, SemQueueMatchesValue, NullWaiterNeedsClose,
             Deficit
  <1>3. ASSUME NEW s \in Sem, SemWaitPasses(s) PROVE SemInv'
    <2>1. /\ waiting' = waiting /\ closed' = closed /\ opened' = opened
          /\ fault' = "none" /\ opened[s] /\ value[s] > 0
          /\ value' = [value EXCEPT ![s] = value[s] - 1]
      BY <1>3 DEF SemWaitPasses, Exhausted, Client, InBody, InThread, TypeOK
    <2>2. value[s] \in Int /\ Len(waiting[s]) \in Nat
      BY LenProperties DEF TypeOK
    <2> QED
      BY <2>1, <2>2
         DEF TypeOK, SemInv, SemQueueMatchesValue, NullWaiterNeedsClose,
             Deficit
  <1>4. ASSUME NEW s \in Sem, SemWaitBlocks(s) PROVE SemInv'
    <2>1. /\ closed' = closed /\ opened' = opened /\ fault' = "none"
          /\ opened[s] /\ value[s] <= 0
          /\ value' = [value EXCEPT ![s] = value[s] - 1]
          /\ waiting' = [waiting EXCEPT ![s] =
                           Append(waiting[s], currentRunning)]
      BY <1>4 DEF SemWaitBlocks, Exhausted, Client, InBody, InThread, TypeOK
    <2>2. /\ value[s] \in Int /\ Len(waiting[s]) \in Nat
          /\ Len(Append(waiting[s], currentRunning)) = Len(waiting[s]) + 1
      BY LenProperties, AppendProperties DEF TypeOK
    <2> QED
      BY <2>1, <2>2, SMTT(30)
         DEF TypeOK, SemInv, SemQueueMatchesValue, NullWaiterNeedsClose,
             Deficit
  <1>5. ASSUME NEW s \in Sem, SemSignal(s) PROVE SemInv'
    <2>1. /\ closed' = closed /\ opened' = opened /\ fault = "none"
          /\ opened[s]
          /\ value' = [value EXCEPT ![s] = value[s] + 1]
      BY <1>5 DEF SemSignal, Client, InBody, InThread
    <2>2. value[s] \in Int /\ Len(waiting[s]) \in Nat
      BY LenProperties DEF TypeOK
    <2>3. CASE ~Owed(s)
      <3>1. value[s] + 1 > 0 /\ waiting' = waiting /\ fault' = "none"
        BY <1>5, <2>1, <2>2, <2>3 DEF SemSignal, Owed
      <3> QED
        BY <2>1, <2>2, <3>1
           DEF TypeOK, SemInv, SemQueueMatchesValue, NullWaiterNeedsClose,
               Deficit
    <2>4. CASE Owed(s) /\ waiting[s] = <<>>
      <3>1. value[s] + 1 <= 0 /\ waiting' = waiting /\ Len(waiting[s]) = 0
        BY <1>5, <2>4 DEF SemSignal, Owed, Deblock
      <3>2. closed[s]
        BY <2>1, <2>2, <3>1 DEF SemInv, SemQueueMatchesValue, Deficit
      <3> QED
        BY <2>1, <2>2, <3>1, <3>2
           DEF TypeOK, SemInv, SemQueueMatchesValue, NullWaiterNeedsClose,
               Deficit
    <2>5. CASE Owed(s) /\ waiting[s] # <<>>
      <3>1. /\ value[s] + 1 <= 0 /\ fault' = "none"
            /\ waiting' = [waiting EXCEPT ![s] = Tail(waiting[s])]
        BY <1>5, <2>1, <2>5 DEF SemSignal, Owed, Deblock
      <3>2. Len(Tail(waiting[s])) = Len(waiting[s]) - 1
        BY <2>5, HeadTailType DEF TypeOK
      <3> QED
        BY <2>1, <2>2, <3>1, <3>2, SMTT(30)
           DEF TypeOK, SemInv, SemQueueMatchesValue, NullWaiterNeedsClose,
               Deficit
    <2> QED
      BY <2>3, <2>4, <2>5
  <1> QED
    BY <1>1, <1>2, <1>3, <1>4, <1>5 DEF SemCall

(* Every step keeps SemInv. *)
LEMMA SemInvNext == TypeOK /\ SemInv /\ [Next]_vars => SemInv'
  <1> SUFFICES ASSUME TypeOK, SemInv, [Next]_vars PROVE SemInv'
    OBVIOUS
  <1>1. CASE ThreadCall
    <2>1. /\ UNCHANGED <<value, waiting, opened, closed>>
          /\ fault' = fault \/ fault' # "nullWaiter"
      BY <1>1 DEF ThreadCall, ThreadCreate, Terminate, ThreadJoin,
         JoinThroughStaleTail, ThreadDispatch, ThreadExit, BodyReturns,
         ReleaseJoined, CurrAdvances, WrapperReturns, semVars
    <2> QED
      BY <2>1, SemInvFrame
  <1>2. CASE SemCall
    BY <1>2, SemInvSemCall
  <1>3. CASE \/ \E n \in SleepTimes : TimeSleep(n)
             \/ TimerRaise
             \/ Timer
             \/ Returns
    <2>1. UNCHANGED <<value, waiting, opened, closed, fault>>
      BY <1>3 DEF TimeSleep, TimerRaise, Timer, TimerTrap, CheckSleeper,
         TimerPreempts, TimerContinues, Returns, StartThread, CallReturns,
         SemWaitReturns, TimerReturns, semVars
    <2> QED
      BY <2>1, SemInvFrame
  <1>4. CASE UNCHANGED vars
    BY <1>4, SemInvFrame DEF vars, semVars
  <1> QED
    BY <1>1, <1>2, <1>3, <1>4 DEF Next

(* SemInv is an invariant. *)
LEMMA SemInvAlways == Spec => []SemInv
  <1>1. Init => SemInv
    <2> SUFFICES ASSUME Init PROVE SemInv
      OBVIOUS
    <2>1. /\ fault = "none"
          /\ \A s \in Sem : /\ value[s] = 0 /\ Len(waiting[s]) = 0
                            /\ ~opened[s] /\ ~closed[s]
      BY DEF Init
    <2> QED
      BY <2>1 DEF SemInv, SemQueueMatchesValue, NullWaiterNeedsClose, Deficit
  <1> QED
    BY <1>1, SemInvNext, TypeCorrect, PTL DEF Spec

(***************************************************************************)
(* An open semaphore with value -n has exactly n threads in its queue, and *)
(* a closed one never more than its value says.                            *)
(***************************************************************************)
THEOREM QueueMatchesValue == Spec => []SemQueueMatchesValue
  <1>1. SemInv => SemQueueMatchesValue
    BY DEF SemInv
  <1> QED
    BY <1>1, SemInvAlways, PTL

(***************************************************************************)
(* semSignal dereferences a null queue head only on a semaphore that was   *)
(* closed while threads were waiting.                                      *)
(***************************************************************************)
THEOREM NullWaiterOnlyAfterClose == Spec => []NullWaiterNeedsClose
  <1>1. SemInv => NullWaiterNeedsClose
    BY DEF SemInv
  <1> QED
    BY <1>1, SemInvAlways, PTL

-----------------------------------------------------------------------------
(* The scan of the sleeping threads *)

(* Only the running thread can be inside the tick handler, and it is there *)
(* exactly while the list is scanned.                                      *)
ScanInv ==
  /\ SleepersAwaitTime
  /\ \A t \in Thread : frame[t] = "tick" => t = currentRunning /\ scan > 0
  /\ scan # 0 => frame[currentRunning] = "tick"

(* A switch from outside the handler, or at its end, leaves nobody in it. *)
LEMMA SwitchScan ==
  ASSUME TypeOK, ScanInv, NEW q \in Seq(Thread), NEW st, NEW finished,
         NEW k \in Frame \ {"tick"}, NEW h,
         Switch(q, st, finished, k, h)
  PROVE  \A t \in Thread : frame'[t] # "tick"
  BY DEF Switch, ScanInv, TypeOK

(* So does a dispatch. *)
LEMMA DispatchScan ==
  ASSUME TypeOK, ScanInv, NEW st, NEW finished, NEW k \in Frame \ {"tick"},
         Dispatch(st, finished, k)
  PROVE  \A t \in Thread : frame'[t] # "tick"
  <1>1. ready \in Seq(Thread) /\ Append(ready, currentRunning) \in Seq(Thread)
    BY DEF TypeOK
  <1> QED
    BY <1>1, SwitchScan DEF Dispatch

(* Outside the handler, entering nobody into it and no list keeps ScanInv. *)
LEMMA ScanFrame ==
  ASSUME TypeOK, ScanInv, scan = 0, scan' = 0, sleeping' = sleeping,
         \A t \in Thread : frame'[t] # "tick"
  PROVE  ScanInv'
  BY DEF ScanInv, SleepersAwaitTime

(* Outside the handler the list is not being scanned. *)
LEMMA NotScanning ==
  ASSUME TypeOK, ScanInv, frame[currentRunning] # "tick"
  PROVE  scan = 0 /\ \A t \in Thread : frame[t] # "tick"
  BY DEF ScanInv, TypeOK

(* The calls of the threads keep ScanInv, *)
LEMMA ScanThreadCall ==
  ASSUME TypeOK, ScanInv, ThreadCall
  PROVE  ScanInv'
  <1>1. frame[currentRunning] = "thread" /\ UNCHANGED <<scan, sleeping>>
    BY DEF ThreadCall, ThreadCreate, Terminate, ThreadJoin,
       JoinThroughStaleTail, ThreadDispatch, ThreadExit, ExitCalled,
       BodyReturns, ReleaseJoined, CurrAdvances, WrapperReturns, Client,
       InBody, InThread,
       timerVars
  <1>2. scan = 0 /\ \A t \in Thread : frame[t] # "tick"
    BY <1>1, NotScanning
  <1>3. \A t \in Thread : frame'[t] # "tick"
    <2>1. CASE UNCHANGED frame
      BY <1>2, <2>1
    <2>2. CASE ThreadDispatch
      <3>1. Dispatch(state, finishedThread, "dispatch")
            /\ "dispatch" \in Frame \ {"tick"}
        BY <2>2 DEF ThreadDispatch, Frame
      <3> QED
        BY <3>1, DispatchScan
    <2>3. CASE ThreadExit
      <3> DEFINE marked == [state EXCEPT ![currentRunning] = "FINISHED"]
                 flags == [finishedThread EXCEPT ![currentRunning] = TRUE]
      <3>1. Dispatch(marked, flags, "exit") /\ "exit" \in Frame \ {"tick"}
        BY <2>3 DEF ThreadExit, Frame
      <3> HIDE DEF marked, flags
      <3> QED
        BY <3>1, DispatchScan
    <2>4. ASSUME NEW t \in User, ThreadJoin(t)
          PROVE  \A u \in Thread : frame'[u] # "tick"
      <3> DEFINE marked == [state EXCEPT ![currentRunning] = "JOINED"]
      <3>1. /\ Switch(ready, marked, finishedThread, "join", t)
            /\ "join" \in Frame \ {"tick"} /\ ready \in Seq(Thread)
        BY <2>4 DEF ThreadJoin, ListAtJoin, Frame, TypeOK
      <3> HIDE DEF marked
      <3> QED
        BY <3>1, SwitchScan
    <2> QED
      BY <2>1, <2>2, <2>3, <2>4
         DEF ThreadCall, ThreadCreate, Terminate, JoinThroughStaleTail,
             BodyReturns, ReleaseJoined, CurrAdvances, WrapperReturns,
             schedVars
  <1> QED
    BY <1>1, <1>2, <1>3, ScanFrame

(* those of the semaphores do, *)
LEMMA ScanSemCall ==
  ASSUME TypeOK, ScanInv, SemCall
  PROVE  ScanInv'
  <1>1. frame[currentRunning] = "thread" /\ UNCHANGED <<scan, sleeping>>
    BY DEF SemCall, SemOpen, SemClose, SemWaitPasses, SemWaitBlocks,
       SemSignal, Client, InBody, InThread, timerVars
  <1>2. scan = 0 /\ \A t \in Thread : frame[t] # "tick"
    BY <1>1, NotScanning
  <1>3. \A t \in Thread : frame'[t] # "tick"
    <2>1. CASE UNCHANGED frame
      BY <1>2, <2>1
    <2>2. ASSUME NEW s \in Sem, SemWaitBlocks(s)
          PROVE  \A u \in Thread : frame'[u] # "tick"
      <3> DEFINE marked == [state EXCEPT ![currentRunning] = "BLOCKED"]
      <3>1. /\ Switch(ready, marked, finishedThread, "semWait", s)
            /\ "semWait" \in Frame \ {"tick"} /\ ready \in Seq(Thread)
        BY <2>2 DEF SemWaitBlocks, Frame, TypeOK
      <3> HIDE DEF marked
      <3> QED
        BY <3>1, SwitchScan
    <2> QED
      BY <2>1, <2>2
         DEF SemCall, SemOpen, SemClose, SemWaitPasses, SemSignal, schedVars
  <1> QED
    BY <1>1, <1>2, <1>3, ScanFrame

(* time_sleep does, *)
LEMMA ScanTimeSleep ==
  ASSUME TypeOK, ScanInv, NEW n \in SleepTimes, TimeSleep(n)
  PROVE  ScanInv'
  <1> DEFINE e == [thread |-> currentRunning, sleepingTime |-> n]
             marked == [state EXCEPT ![currentRunning] = "SLEEPING"]
  <1>1. /\ frame[currentRunning] = "thread" /\ scan' = scan
        /\ sleeping' = Append(sleeping, e)
        /\ Switch(ready, marked, finishedThread, "sleep", None)
        /\ "sleep" \in Frame \ {"tick"} /\ ready \in Seq(Thread)
    BY DEF TimeSleep, Client, InBody, InThread, Frame, TypeOK
  <1>2. scan = 0
    BY <1>1, NotScanning
  <1>3. \A t \in Thread : frame'[t] # "tick"
    <2> HIDE DEF marked
    <2> QED
      BY <1>1, SwitchScan
  <1>4. ASSUME NEW i \in DOMAIN sleeping' PROVE sleeping'[i].sleepingTime > 0
    <2>1. e.sleepingTime = n /\ n > 0
      BY NumberAssumption
    <2>2. sleeping \in Seq(Sleeper)
      BY DEF TypeOK
    <2>3. \/ i \in DOMAIN sleeping /\ sleeping'[i] = sleeping[i]
          \/ sleeping'[i] = e
      <3> HIDE DEF e
      <3> QED
        BY <1>1, <1>4, <2>2
    <2> QED
      BY <1>2, <2>1, <2>3 DEF ScanInv, SleepersAwaitTime
  <1> QED
    BY <1>1, <1>2, <1>3, <1>4 DEF ScanInv, SleepersAwaitTime

(* each part of the timer handler does, *)
LEMMA ScanTimer ==
  ASSUME TypeOK, ScanInv, Timer
  PROVE  ScanInv'
  <1>1. ASSUME TimerTrap PROVE ScanInv'
    <2>1. scan' = 1 /\ currentRunning' = currentRunning
          /\ frame' = [frame EXCEPT ![currentRunning] = "tick"]
          /\ frame[currentRunning] = "thread"
      BY <1>1 DEF TimerTrap
    <2>2. \A t \in Thread : frame[t] # "tick"
      BY <2>1, NotScanning
    <2>3. DOMAIN sleeping' \subseteq Nat \ {0}
      BY <1>1, LenProperties DEF TimerTrap, TypeOK
    <2> QED
      BY <2>1, <2>2, <2>3 DEF ScanInv, SleepersAwaitTime, TypeOK
  <1>2. ASSUME CheckSleeper PROVE ScanInv'
    <2>1. /\ frame[currentRunning] = "tick" /\ scan \in DOMAIN sleeping
          /\ UNCHANGED <<currentRunning, frame>>
      BY <1>2 DEF CheckSleeper
    <2>2. /\ scan \in Nat /\ scan > 0 /\ sleeping \in Seq(Sleeper)
          /\ \A i \in DOMAIN sleeping :
               i < scan => sleeping[i].sleepingTime > 0
      BY <2>1, LenProperties DEF ScanInv, SleepersAwaitTime, TypeOK
    <2>3. CASE Due(scan)
      <3> DEFINE before == SubSeq(sleeping, 1, scan - 1)
                 after  == SubSeq(sleeping, scan + 1, Len(sleeping))
      <3>1. sleeping' = before \o after /\ scan' = scan
        BY <1>2, <2>3 DEF CheckSleeper
      <3>2. /\ before \in Seq(Sleeper) /\ after \in Seq(Sleeper)
            /\ Len(before) = scan - 1
            /\ \A i \in 1 .. (scan - 1) : before[i] = sleeping[i]
        BY <2>1, <2>2, RestType, SubSeqProperties, LenProperties
      <3>3. ASSUME NEW i \in DOMAIN sleeping', i < scan
            PROVE  sleeping'[i].sleepingTime > 0
        <4> HIDE DEF before, after
        <4>1. i \in 1 .. (scan - 1)
          BY <2>2, <3>1, <3>2, <3>3, ConcatProperties, LenProperties
        <4>2. sleeping'[i] = before[i]
          BY <2>2, <3>1, <3>2, <4>1, ConcatProperties
        <4>3. i \in DOMAIN sleeping
          BY <2>1, <2>2, <4>1, LenProperties
        <4> QED
          BY <2>2, <3>2, <3>3, <4>1, <4>2, <4>3
      <3> QED
        BY <2>1, <2>2, <3>1, <3>3, SMTT(30) DEF ScanInv, SleepersAwaitTime
    <2>4. CASE ~Due(scan)
      <3>1. sleeping' = sleeping /\ scan' = scan + 1
        BY <1>2, <2>4 DEF CheckSleeper
      <3>2. sleeping[scan].sleepingTime > 0
        <4>1. sleeping[scan] \in Sleeper
          BY <2>1, <2>2, RestType
        <4>2. sleeping[scan].sleepingTime \in Nat
          BY <4>1, NumberAssumption DEF Sleeper
        <4> QED
          BY <2>4, <4>2 DEF Due
      <3>3. DOMAIN sleeping \subseteq Nat
        BY <2>2, LenProperties
      <3> QED
        BY <2>1, <2>2, <3>1, <3>2, <3>3 DEF ScanInv, SleepersAwaitTime
    <2> QED
      BY <2>3, <2>4
  <1>3. ASSUME TimerPreempts PROVE ScanInv'
    <2>1. /\ Dispatch(state, finishedThread, "timer")
          /\ "timer" \in Frame \ {"tick"}
          /\ scan' = 0 /\ sleeping' = sleeping /\ scan > Len(sleeping)
      BY <1>3 DEF TimerPreempts, Frame
    <2>2. \A t \in Thread : frame'[t] # "tick"
      BY <2>1, DispatchScan
    <2>3. \A i \in DOMAIN sleeping : i < scan
      BY <2>1, LenProperties DEF TypeOK
    <2> QED
      BY <2>1, <2>2, <2>3 DEF ScanInv, SleepersAwaitTime
  <1>4. ASSUME TimerContinues PROVE ScanInv'
    <2>1. /\ frame' = [frame EXCEPT ![currentRunning] = "thread"]
          /\ scan' = 0 /\ sleeping' = sleeping /\ scan > Len(sleeping)
      BY <1>4 DEF TimerContinues
    <2>2. \A t \in Thread : frame'[t] # "tick"
      BY <2>1 DEF ScanInv, TypeOK
    <2>3. \A i \in DOMAIN sleeping : i < scan
      BY <2>1, LenProperties DEF TypeOK
    <2> QED
      BY <2>1, <2>2, <2>3 DEF ScanInv, SleepersAwaitTime
  <1> QED
    BY <1>1, <1>2, <1>3, <1>4 DEF Timer

(* and the ends of the suspended calls do. *)
LEMMA ScanReturns ==
  ASSUME TypeOK, ScanInv, Returns
  PROVE  ScanInv'
  <1>1. PICK k \in Frame \ {"tick", "thread"} : Resume(k)
    BY DEF Returns, StartThread, CallReturns, SemWaitReturns, TimerReturns,
       Frame
  <1>2. UNCHANGED <<scan, sleeping>>
    BY DEF Returns, StartThread, CallReturns, SemWaitReturns, TimerReturns,
       timerVars
  <1>3. scan = 0 /\ \A t \in Thread : frame[t] # "tick"
    BY <1>1, NotScanning DEF Resume
  <1>4. \A t \in Thread : frame'[t] # "tick"
    BY <1>1, <1>3 DEF Resume, TypeOK
  <1> QED
    BY <1>2, <1>3, <1>4, ScanFrame

(* ScanInv is an invariant. *)
LEMMA ScanInvAlways == Spec => []ScanInv
  <1>1. Init => ScanInv
    <2> SUFFICES ASSUME Init PROVE ScanInv
      OBVIOUS
    <2>1. /\ scan = 0 /\ DOMAIN sleeping = {}
          /\ \A t \in Thread : frame[t] # "tick"
      BY DEF Init
    <2> QED
      BY <2>1 DEF ScanInv, SleepersAwaitTime
  <1>2. TypeOK /\ ScanInv /\ [Next]_vars => ScanInv'
    <2> SUFFICES ASSUME TypeOK, ScanInv, [Next]_vars PROVE ScanInv'
      OBVIOUS
    <2>1. CASE TimerRaise
      BY <2>1 DEF ScanInv, SleepersAwaitTime, TimerRaise, schedVars
    <2>2. CASE UNCHANGED vars
      BY <2>2 DEF ScanInv, SleepersAwaitTime, vars, schedVars, timerVars
    <2> QED
      BY <2>1, <2>2, ScanThreadCall, ScanSemCall, ScanTimeSleep, ScanTimer,
         ScanReturns DEF Next
  <1> QED
    BY <1>1, <1>2, TypeCorrect, PTL DEF Spec

(***************************************************************************)
(* subOneTimeSlice never decrements a counter that is already zero, so no  *)
(* sleeper's unsigned counter wraps round.                                 *)
(***************************************************************************)
THEOREM NoSleeperWraps == Spec => []SleepersAwaitTime
  <1>1. ScanInv => SleepersAwaitTime
    BY DEF ScanInv
  <1> QED
    BY <1>1, ScanInvAlways, PTL

-----------------------------------------------------------------------------
(* Who is in a list *)

(* A list and the element put at its end. *)
LEMMA HoldsAppend ==
  ASSUME NEW S, NEW q \in Seq(S), NEW e \in S
  PROVE  \A t : Holds(Append(q, e), t) <=> Holds(q, t) \/ t = e
  <1>1. /\ Len(Append(q, e)) = Len(q) + 1 /\ Len(q) \in Nat
        /\ \A i \in 1 .. Len(q) : Append(q, e)[i] = q[i]
        /\ Append(q, e)[Len(q) + 1] = e
        /\ DOMAIN Append(q, e) = 1 .. (Len(q) + 1) /\ DOMAIN q = 1 .. Len(q)
    BY AppendProperties, LenProperties
  <1> DEFINE r == Append(q, e)
  <1> HIDE DEF r
  <1>2. \A t : Holds(r, t) <=> Holds(q, t) \/ t = e
    BY <1>1 DEF Holds, r
  <1> QED
    BY <1>2 DEF r

(* A list without its head. *)
LEMMA HoldsTail ==
  ASSUME NEW S, NEW q \in Seq(S), q # <<>>
  PROVE  \A t : Holds(q, t) <=> t = Head(q) \/ Holds(Tail(q), t)
  <1>1. /\ Len(q) \in Nat \ {0} /\ DOMAIN q = 1 .. Len(q) /\ Head(q) = q[1]
        /\ Tail(q) \in Seq(S) /\ Len(Tail(q)) = Len(q) - 1
        /\ \A i \in 1 .. Len(Tail(q)) : Tail(q)[i] = q[i + 1]
    BY EmptySeq, LenProperties, HeadTailProperties
  <1>2. DOMAIN Tail(q) = 1 .. (Len(q) - 1)
    BY <1>1, LenProperties
  <1> DEFINE r == Tail(q)
  <1> HIDE DEF r
  <1>3. \A i \in DOMAIN q : i = 1 \/ (i - 1 \in DOMAIN r /\ r[i - 1] = q[i])
    BY <1>1, <1>2 DEF r
  <1>4. \A i \in DOMAIN r : i + 1 \in DOMAIN q /\ r[i] = q[i + 1]
    BY <1>1, <1>2 DEF r
  <1>5. \A t : Holds(q, t) <=> t = q[1] \/ Holds(r, t)
    BY <1>1, <1>3, <1>4 DEF Holds
  <1> QED
    BY <1>1, <1>5 DEF r

(* Two lists put together. *)
LEMMA HoldsConcat ==
  ASSUME NEW S, NEW q \in Seq(S), NEW r \in Seq(S)
  PROVE  \A t : Holds(q \o r, t) <=> Holds(q, t) \/ Holds(r, t)
  <1> DEFINE c == q \o r
  <1>1. /\ Len(q) \in Nat /\ Len(r) \in Nat
        /\ DOMAIN q = 1 .. Len(q) /\ DOMAIN r = 1 .. Len(r)
        /\ DOMAIN c = 1 .. (Len(q) + Len(r))
        /\ \A i \in 1 .. Len(q) + Len(r) :
             c[i] = IF i <= Len(q) THEN q[i] ELSE r[i - Len(q)]
    BY ConcatProperties, LenProperties
  <1> HIDE DEF c
  <1>2. /\ \A i \in DOMAIN q : i \in DOMAIN c /\ c[i] = q[i]
        /\ \A i \in DOMAIN r : i + Len(q) \in DOMAIN c /\ c[i + Len(q)] = r[i]
        /\ \A i \in DOMAIN c : \/ i \in DOMAIN q /\ c[i] = q[i]
                               \/ /\ i - Len(q) \in DOMAIN r
                                  /\ c[i] = r[i - Len(q)]
    BY <1>1
  <1>3. \A t : Holds(c, t) <=> Holds(q, t) \/ Holds(r, t)
    BY <1>2 DEF Holds
  <1> QED
    BY <1>3 DEF c

(* What remains of a list after its first i elements. *)
LEMMA RestElements ==
  ASSUME NEW S, NEW q \in Seq(S), NEW i \in DOMAIN q
  PROVE  LET r == SubSeq(q, i + 1, Len(q))
         IN  /\ r \in Seq(S) /\ DOMAIN r = 1 .. (Len(q) - i)
             /\ \A k \in 1 .. (Len(q) - i) : r[k] = q[i + k]
  <1> DEFINE r == SubSeq(q, i + 1, Len(q))
             n == Len(q)
  <1>1. n \in Nat /\ DOMAIN q = 1 .. n /\ i \in 1 .. n
    BY LenProperties
  <1>2. \A k \in (i + 1) .. n : q[k] \in S
    BY <1>1, ElementOfSeq
  <1>3. /\ r \in Seq(S)
        /\ Len(r) = IF i + 1 <= n THEN n - (i + 1) + 1 ELSE 0
        /\ \A k \in 1 .. n - (i + 1) + 1 : r[k] = q[i + 1 + k - 1]
    BY <1>1, <1>2, SubSeqProperties
  <1>4. DOMAIN r = 1 .. Len(r)
    BY <1>3, LenProperties
  <1> HIDE DEF r, n
  <1>5. DOMAIN r = 1 .. (n - i) /\ \A k \in 1 .. (n - i) : r[k] = q[i + k]
    BY <1>1, <1>3, <1>4, SMTT(30)
  <1> QED
    BY <1>3, <1>5 DEF r, n

(* A list without its element at position p. *)
Without(q, p) == SubSeq(q, 1, p - 1) \o SubSeq(q, p + 1, Len(q))

(* It is a list; where its elements come from. *)
LEMMA WithoutType ==
  ASSUME NEW S, NEW q \in Seq(S), NEW p \in DOMAIN q
  PROVE  /\ Without(q, p) \in Seq(S)
         /\ DOMAIN Without(q, p) = 1 .. (Len(q) - 1)
         /\ \A i \in 1 .. (Len(q) - 1) :
              Without(q, p)[i] = q[IF i < p THEN i ELSE i + 1]
  <1> DEFINE a == SubSeq(q, 1, p - 1)
             b == SubSeq(q, p + 1, Len(q))
             n == Len(q)
  <1>1. n \in Nat /\ DOMAIN q = 1 .. n /\ p \in 1 .. n
    BY LenProperties
  <1>2. /\ a \in Seq(S) /\ Len(a) = p - 1
        /\ \A i \in 1 .. (p - 1) : a[i] = q[i]
    <2>1. \A i \in 1 .. (p - 1) : q[i] \in S
      BY <1>1, ElementOfSeq
    <2>2. /\ a \in Seq(S) /\ Len(a) = IF 1 <= p - 1 THEN p - 1 - 1 + 1 ELSE 0
          /\ \A i \in 1 .. p - 1 - 1 + 1 : a[i] = q[1 + i - 1]
      BY <1>1, <2>1, SubSeqProperties
    <2> HIDE DEF a
    <2> QED
      BY <1>1, <2>2
  <1>3. /\ b \in Seq(S) /\ Len(b) = n - p
        /\ \A i \in 1 .. (n - p) : b[i] = q[p + i]
    BY RestElements, <1>1, LenProperties
  <1> DEFINE c == a \o b
  <1>4. /\ c \in Seq(S) /\ Len(c) = Len(a) + Len(b)
        /\ \A i \in 1 .. Len(a) + Len(b) :
             c[i] = IF i <= Len(a) THEN a[i] ELSE b[i - Len(a)]
    BY <1>2, <1>3, ConcatProperties
  <1>5. DOMAIN c = 1 .. Len(c)
    BY <1>4, LenProperties
  <1> HIDE DEF a, b, n, c
  <1>6. DOMAIN c = 1 .. (n - 1)
    BY <1>1, <1>2, <1>3, <1>4, <1>5
  <1>7. ASSUME NEW i \in 1 .. (n - 1)
        PROVE  c[i] = q[IF i < p THEN i ELSE i + 1]
    <2>1. CASE i < p
      BY <1>1, <1>2, <1>3, <1>4, <2>1
    <2>2. CASE i >= p
      <3>1. c[i] = b[i - (p - 1)] /\ i - (p - 1) \in 1 .. (n - p)
        BY <1>1, <1>2, <1>3, <1>4, <2>2, SMTT(30)
      <3>2. c[i] = q[p + (i - (p - 1))] /\ p + (i - (p - 1)) = i + 1
        BY <1>1, <1>3, <2>2, <3>1
      <3> QED
        BY <1>1, <2>2, <3>2
    <2> QED
      BY <1>1, <2>1, <2>2
  <1> QED
    BY <1>4, <1>6, <1>7 DEF Without, a, b, c, n

(* What it holds. *)
LEMMA HoldsWithout ==
  ASSUME NEW S, NEW q \in Seq(S), NEW p \in DOMAIN q
  PROVE  \A t : Holds(q, t) <=> t = q[p] \/ Holds(Without(q, p), t)
  <1> DEFINE r == Without(q, p)
  <1>1. /\ DOMAIN r = 1 .. (Len(q) - 1)
        /\ \A i \in 1 .. (Len(q) - 1) : r[i] = q[IF i < p THEN i ELSE i + 1]
    BY WithoutType
  <1>2. Len(q) \in Nat /\ DOMAIN q = 1 .. Len(q) /\ p \in 1 .. Len(q)
    BY LenProperties
  <1> HIDE DEF r
  <1>3. \A i \in DOMAIN r : \E k \in DOMAIN q : r[i] = q[k]
    BY <1>1, <1>2
  <1>4. ASSUME NEW k \in DOMAIN q, k # p PROVE \E i \in DOMAIN r : r[i] = q[k]
    <2>1. CASE k < p
      BY <1>1, <1>2, <2>1
    <2>2. CASE k > p
      <3>1. k - 1 \in DOMAIN r /\ ~(k - 1 < p) /\ (k - 1) + 1 = k
        BY <1>1, <1>2, <2>2
      <3> QED
        BY <1>1, <3>1
    <2> QED
      BY <1>2, <1>4, <2>1, <2>2
  <1>5. \A t : Holds(q, t) <=> t = q[p] \/ Holds(r, t)
    BY <1>3, <1>4 DEF Holds
  <1> QED
    BY <1>5 DEF r

(* Scheduler::get takes the first thread that is not finished, if there is *)
(* one, and drops only finished ones.                                      *)
LEMMA Picked ==
  ASSUME NEW q \in Seq(Thread), NEW finished, NEW next, NEW rest,
         PickNext(q, finished, next, rest)
  PROVE  /\ next \in Thread /\ rest \in Seq(Thread)
         /\ next = Idle \/ (Holds(q, next) /\ ~finished[next])
         /\ \A t : Holds(rest, t) => Holds(q, t)
         /\ \A t : Holds(q, t) /\ ~finished[t] => t = next \/ Holds(rest, t)
  <1>1. next \in Thread /\ rest \in Seq(Thread)
    BY PickNextType
  <1>2. ASSUME NEW i \in DOMAIN q, FirstAlive(q, finished, i),
               next = q[i], rest = SubSeq(q, i + 1, Len(q))
        PROVE  /\ Holds(q, next) /\ ~finished[next]
               /\ \A t : Holds(rest, t) => Holds(q, t)
               /\ \A t : Holds(q, t) /\ ~finished[t] =>
                    t = next \/ Holds(rest, t)
    <2>1. /\ DOMAIN rest = 1 .. (Len(q) - i)
          /\ \A k \in 1 .. (Len(q) - i) : rest[k] = q[i + k]
          /\ Len(q) \in Nat /\ DOMAIN q = 1 .. Len(q) /\ i \in 1 .. Len(q)
      BY <1>2, RestElements, LenProperties
    <2>2. \A k \in DOMAIN rest : i + k \in DOMAIN q /\ rest[k] = q[i + k]
      BY <2>1
    <2>3. \A k \in DOMAIN q : \/ k \in 1 .. (i - 1) \/ k = i
                              \/ k - i \in DOMAIN rest /\ rest[k - i] = q[k]
      BY <2>1
    <2>4. \A t : Holds(q, t) /\ ~finished[t] => t = next \/ Holds(rest, t)
      BY <1>2, <2>3 DEF Holds, FirstAlive
    <2>5. \A t : Holds(rest, t) => Holds(q, t)
      BY <2>2 DEF Holds
    <2>6. Holds(q, next) /\ ~finished[next]
      BY <1>2 DEF Holds, FirstAlive
    <2> QED
      BY <2>4, <2>5, <2>6
  <1>3. ASSUME \A i \in DOMAIN q : finished[q[i]], next = Idle, rest = <<>>
        PROVE  /\ \A t : ~Holds(rest, t)
               /\ \A t : Holds(q, t) => finished[t]
    BY <1>3 DEF Holds
  <1> QED
    BY <1>1, <1>2, <1>3 DEF PickNext

-----------------------------------------------------------------------------
(* A thread in one place *)

(* List l of the lists L, its places, and the thread at place i of it. *)
Entry(L, l) == L[l]
Places(L, l) == DOMAIN L[l]
At(L, l, i) == L[l][i]

(***************************************************************************)
(* Over the lists L no thread occurs twice, and none of the threads X      *)
(* occurs.                                                                 *)
(***************************************************************************)
Once(L, X) ==
  \A l \in ListName : \A i \in Places(L, l) :
    /\ At(L, l, i) \notin X
    /\ \A m \in ListName : \A j \in Places(L, m) :
         At(L, l, i) = At(L, m, j) => l = m /\ i = j

(* The lists L with q in the place of list a. *)
Put(L, a, q) == [L EXCEPT ![a] = q]

Lists == [ListName -> Seq(Thread)]

(* They are lists again. *)
LEMMA PutType ==
  ASSUME NEW L \in Lists, NEW a \in ListName, NEW q \in Seq(Thread)
  PROVE  Put(L, a, q) \in Lists
  BY DEF Put, Lists

(* Only the places of a change. *)
LEMMA PutPlaces ==
  ASSUME NEW L \in Lists, NEW a \in ListName, NEW q \in Seq(Thread)
  PROVE  /\ Places(Put(L, a, q), a) = DOMAIN q
         /\ \A i : At(Put(L, a, q), a, i) = q[i]
         /\ \A l \in ListName : l # a =>
              /\ Places(Put(L, a, q), l) = Places(L, l)
              /\ \A i : At(Put(L, a, q), l, i) = At(L, l, i)
  BY DEF Put, Lists, Places, At

(* A thread that is in no list is appended to one. *)
LEMMA OnceAppended ==
  ASSUME NEW L \in Lists, NEW X, Once(L, X),
         NEW b \in ListName, NEW q, q = Entry(L, b),
         NEW t \in Thread, t \in X, NEW Y, \A y \in Y : y \in X /\ y # t
  PROVE  Once(Put(L, b, Append(q, t)), Y)
  <1> DEFINE r == Append(q, t)
             M == Put(L, b, r)
             n == Len(q) + 1
  <1>1. /\ q \in Seq(Thread) /\ r \in Seq(Thread) /\ Len(q) \in Nat
        /\ DOMAIN q = 1 .. Len(q) /\ DOMAIN r = 1 .. (Len(q) + 1)
        /\ \A i \in 1 .. Len(q) : r[i] = q[i]
        /\ r[Len(q) + 1] = t
    BY AppendProperties, LenProperties DEF Lists, Entry
  <1>2. /\ \A i \in DOMAIN r : \/ i \in Places(L, b) /\ r[i] = At(L, b, i)
                               \/ i = n /\ r[i] = t
    <2> HIDE DEF r
    <2> QED
      BY <1>1 DEF Places, At, Entry
  <1> HIDE DEF r, n
  <1>3. /\ Places(M, b) = DOMAIN r /\ \A i : At(M, b, i) = r[i]
        /\ \A l \in ListName : l # b =>
             /\ Places(M, l) = Places(L, l)
             /\ \A i : At(M, l, i) = At(L, l, i)
    BY <1>1, PutPlaces
  <1> HIDE DEF M
  <1>4. \A l \in ListName : \A i \in Places(M, l) :
          \/ i \in Places(L, l) /\ At(M, l, i) = At(L, l, i)
          \/ l = b /\ i = n /\ At(M, l, i) = t
    BY <1>2, <1>3
  <1>5. \A l \in ListName : \A i \in Places(L, l) : At(L, l, i) # t
    BY DEF Once
  <1>6. ASSUME NEW l \in ListName, NEW i \in Places(M, l),
               NEW m \in ListName, NEW j \in Places(M, m),
               At(M, l, i) = At(M, m, j)
        PROVE  l = m /\ i = j
    BY <1>4, <1>5, <1>6 DEF Once
  <1>7. ASSUME NEW l \in ListName, NEW i \in Places(M, l)
        PROVE  At(M, l, i) \notin Y
    BY <1>4 DEF Once
  <1>8. Once(M, Y)
    BY <1>6, <1>7 DEF Once
  <1> QED
    BY <1>8 DEF M, r

(***************************************************************************)
(* The list r keeps some of the elements of q, and loses those at the      *)
(* other positions: element k of r is element f[k] of q.                   *)
(***************************************************************************)
Source(f, k) == f[k]
Keeps(q, r, f) ==
  /\ \A k \in DOMAIN r : Source(f, k) \in DOMAIN q /\ r[k] = q[Source(f, k)]
  /\ \A k, n \in DOMAIN r : Source(f, k) = Source(f, n) => k = n
Loses(q, r, f, y) ==
  \E p \in DOMAIN q : y = q[p] /\ \A k \in DOMAIN r : Source(f, k) # p

(* List a is replaced by one that keeps some of its elements. *)
LEMMA OnceThinned ==
  ASSUME NEW L \in Lists, NEW X, Once(L, X),
         NEW a \in ListName, NEW q, q = Entry(L, a),
         NEW r \in Seq(Thread), NEW f, Keeps(q, r, f),
         NEW Y, \A y \in Y : y \in X \/ Loses(q, r, f, y)
  PROVE  Once(Put(L, a, r), Y)
  <1> DEFINE M == Put(L, a, r)
             src(l, i) == IF l = a THEN Source(f, i) ELSE i
  <1>1. /\ Places(M, a) = DOMAIN r /\ \A i : At(M, a, i) = r[i]
        /\ \A l \in ListName : l # a =>
             /\ Places(M, l) = Places(L, l)
             /\ \A i : At(M, l, i) = At(L, l, i)
    BY PutPlaces
  <1> HIDE DEF M
  <1>2. \A k \in DOMAIN r : Source(f, k) \in Places(L, a)
                            /\ At(M, a, k) = At(L, a, Source(f, k))
    BY <1>1 DEF Keeps, Places, At, Entry
  <1>3. \A l \in ListName : \A i \in Places(M, l) :
          src(l, i) \in Places(L, l) /\ At(M, l, i) = At(L, l, src(l, i))
    BY <1>1, <1>2
  <1>4. \A l \in ListName : \A i, j \in Places(M, l) :
          src(l, i) = src(l, j) => i = j
    BY <1>1 DEF Keeps
  <1>5. \A y \in Y : \/ y \in X
                     \/ \E p \in Places(L, a) :
                          /\ y = At(L, a, p)
                          /\ \A k \in Places(M, a) : src(a, k) # p
    BY <1>1 DEF Loses, Places, At, Entry
  <1> HIDE DEF src
  <1>6. ASSUME NEW l \in ListName, NEW i \in Places(M, l),
               NEW m \in ListName, NEW j \in Places(M, m),
               At(M, l, i) = At(M, m, j)
        PROVE  l = m /\ i = j
    <2>1. l = m /\ src(l, i) = src(m, j)
      BY <1>3, <1>6 DEF Once
    <2> QED
      BY <1>4, <2>1
  <1>7. ASSUME NEW l \in ListName, NEW i \in Places(M, l), At(M, l, i) \in Y
        PROVE  FALSE
    <2>1. CASE At(M, l, i) \in X
      BY <1>3, <2>1 DEF Once
    <2>2. ASSUME NEW p \in Places(L, a), At(M, l, i) = At(L, a, p),
                 \A k \in Places(M, a) : src(a, k) # p
          PROVE  FALSE
      <3>1. l = a /\ src(l, i) = p
        BY <1>3, <2>2 DEF Once
      <3> QED
        BY <2>2, <3>1
    <2> QED
      BY <1>5, <1>7, <2>1, <2>2
  <1>8. Once(M, Y)
    BY <1>6, <1>7 DEF Once
  <1> QED
    BY <1>8 DEF M

(* List a is emptied, its threads going to the end of list b. *)
LEMMA OnceConcatenated ==
  ASSUME NEW L \in Lists, NEW X, Once(L, X),
         NEW a \in ListName, NEW b \in ListName, a # b,
         NEW q, q = Entry(L, b), NEW r, r = Entry(L, a)
  PROVE  Once(Put(Put(L, b, q \o r), a, <<>>), X)
  <1> DEFINE n == Len(q)
             o == Len(r)
             c == q \o r
             e == <<>>
             K == Put(L, b, c)
             M == Put(K, a, e)
  <1>1. q \in Seq(Thread) /\ r \in Seq(Thread)
    BY DEF Lists, Entry
  <1>2. /\ Places(L, b) = DOMAIN q /\ \A i : At(L, b, i) = q[i]
        /\ Places(L, a) = DOMAIN r /\ \A i : At(L, a, i) = r[i]
    BY DEF Places, At, Entry
  <1>3. /\ n \in Nat /\ o \in Nat /\ DOMAIN q = 1 .. n /\ DOMAIN r = 1 .. o
        /\ DOMAIN c = 1 .. (n + o)
        /\ \A i \in 1 .. (n + o) : c[i] = IF i <= n THEN q[i] ELSE r[i - n]
    BY <1>1, ConcatProperties, LenProperties
  <1>4. c \in Seq(Thread) /\ e \in Seq(Thread) /\ DOMAIN e = {}
    BY <1>1
  <1> HIDE DEF n, o, c, e
  <1>5. ASSUME NEW i \in DOMAIN c
        PROVE  \/ i \in Places(L, b) /\ c[i] = At(L, b, i)
               \/ /\ i \in Nat /\ i - n \in Places(L, a)
                  /\ c[i] = At(L, a, i - n)
    <2>1. CASE i <= n
      BY <1>2, <1>3, <2>1
    <2>2. CASE ~(i <= n)
      BY <1>2, <1>3, <2>2
    <2> QED
      BY <2>1, <2>2
  <1>6. K \in Lists
    BY <1>4, PutType
  <1>7. /\ Places(K, b) = DOMAIN c /\ \A i : At(K, b, i) = c[i]
        /\ \A l \in ListName : l # b =>
             /\ Places(K, l) = Places(L, l)
             /\ \A i : At(K, l, i) = At(L, l, i)
    BY <1>4, PutPlaces
  <1> HIDE DEF K
  <1>8. Places(M, a) = DOMAIN e
    BY <1>4, <1>6, PutPlaces, ZenonT(60)
  <1>9. /\ Places(M, a) = {}
        /\ \A l \in ListName : l # a =>
             /\ Places(M, l) = Places(K, l)
             /\ \A i : At(M, l, i) = At(K, l, i)
    BY <1>4, <1>6, <1>8, PutPlaces
  <1> HIDE DEF M
  <1> DEFINE kept(l, i) == /\ l # a /\ i \in Places(L, l)
                           /\ At(M, l, i) = At(L, l, i)
             moved(l, i) == /\ l = b /\ i \in Nat /\ i - n \in Places(L, a)
                            /\ At(M, l, i) = At(L, a, i - n)
  <1>10. \A l \in ListName : \A i \in Places(M, l) : kept(l, i) \/ moved(l, i)
    BY <1>5, <1>7, <1>9
  <1>11. ASSUME NEW l \in ListName, NEW i \in Places(M, l),
                NEW m \in ListName, NEW j \in Places(M, m),
                At(M, l, i) = At(M, m, j)
         PROVE  l = m /\ i = j
    <2>1. CASE kept(l, i) /\ kept(m, j)
      BY <1>11, <2>1 DEF Once
    <2>2. CASE kept(l, i) /\ moved(m, j)
      BY <1>11, <2>2, ZenonT(60) DEF Once
    <2>3. CASE moved(l, i) /\ kept(m, j)
      BY <1>11, <2>3 DEF Once
    <2>4. CASE moved(l, i) /\ moved(m, j)
      <3> DEFINE k == i - n
                 p == j - n
      <3>1. l = m /\ (k = p => i = j)
        BY <1>3, <2>4
      <3>2. /\ k \in Places(L, a) /\ At(M, l, i) = At(L, a, k)
            /\ p \in Places(L, a) /\ At(M, m, j) = At(L, a, p)
        BY <2>4
      <3> HIDE DEF k, p
      <3>3. k = p
        BY <1>11, <3>2, ZenonT(60) DEF Once
      <3> QED
        BY <3>1, <3>3
    <2> QED
      BY <1>10, <2>1, <2>2, <2>3, <2>4
  <1>12. ASSUME NEW l \in ListName, NEW i \in Places(M, l)
         PROVE  At(M, l, i) \notin X
    BY <1>10 DEF Once
  <1>13. Once(M, X)
    BY <1>11, <1>12 DEF Once
  <1> QED
    BY <1>13 DEF M, K, c, e

(* The head of list a is taken: it is in no list afterwards. *)
LEMMA OnceHeadTaken ==
  ASSUME NEW L \in Lists, NEW X, Once(L, X),
         NEW a \in ListName, NEW q, q = Entry(L, a), q # <<>>
  PROVE  Once(Put(L, a, Tail(q)), X \cup {Head(q)})
  <1> DEFINE r == Tail(q)
             f == [k \in DOMAIN r |-> k + 1]
             Y == X \cup {Head(q)}
             n == Len(q)
  <1>1. q \in Seq(Thread) /\ q # <<>>
    BY DEF Lists, Entry
  <1>2. /\ n \in Nat \ {0} /\ DOMAIN q = 1 .. n /\ Head(q) = q[1]
        /\ r \in Seq(Thread) /\ DOMAIN r = 1 .. (n - 1)
        /\ \A i \in 1 .. (n - 1) : r[i] = q[i + 1]
    BY <1>1, EmptySeq, LenProperties, HeadTailProperties
  <1> HIDE DEF r, n
  <1>3. \A k \in DOMAIN r : Source(f, k) = k + 1
    BY DEF Source
  <1> HIDE DEF f
  <1>4. Keeps(q, r, f)
    BY <1>2, <1>3 DEF Keeps
  <1>5. Loses(q, r, f, Head(q))
    <2>1. 1 \in DOMAIN q /\ \A k \in DOMAIN r : Source(f, k) # 1
      BY <1>2, <1>3
    <2> QED
      BY <1>2, <2>1 DEF Loses
  <1>6. \A y \in Y : y \in X \/ Loses(q, r, f, y)
    BY <1>5
  <1>7. r \in Seq(Thread)
    BY <1>2
  <1> HIDE DEF Y
  <1>8. Once(Put(L, a, r), Y)
    BY <1>4, <1>6, <1>7, OnceThinned
  <1> QED
    BY <1>8 DEF Y, r

(* Element p of list a is taken. *)
LEMMA OnceTaken ==
  ASSUME NEW L \in Lists, NEW X, Once(L, X),
         NEW a \in ListName, NEW q, q = Entry(L, a), NEW p \in DOMAIN q
  PROVE  Once(Put(L, a, Without(q, p)), X \cup {q[p]})
  <1> DEFINE r == Without(q, p)
             f == [k \in DOMAIN r |-> IF k < p THEN k ELSE k + 1]
             Y == X \cup {q[p]}
             n == Len(q)
  <1>1. q \in Seq(Thread) /\ p \in DOMAIN q
    BY DEF Lists, Entry
  <1>2. /\ n \in Nat /\ DOMAIN q = 1 .. n /\ p \in 1 .. n
        /\ r \in Seq(Thread) /\ DOMAIN r = 1 .. (n - 1)
        /\ \A i \in 1 .. (n - 1) : r[i] = q[IF i < p THEN i ELSE i + 1]
    BY <1>1, LenProperties, WithoutType
  <1> HIDE DEF r, n
  <1>3. \A k \in DOMAIN r : Source(f, k) = IF k < p THEN k ELSE k + 1
    BY DEF Source
  <1> HIDE DEF f
  <1>4. Keeps(q, r, f)
    <2>1. \A k \in DOMAIN r :
            Source(f, k) \in DOMAIN q /\ r[k] = q[Source(f, k)]
      BY <1>2, <1>3
    <2>2. \A k, i \in DOMAIN r : Source(f, k) = Source(f, i) => k = i
      BY <1>2, <1>3
    <2> QED
      BY <2>1, <2>2 DEF Keeps
  <1>5. Loses(q, r, f, q[p])
    <2>1. \A k \in DOMAIN r : Source(f, k) # p
      BY <1>2, <1>3
    <2> QED
      BY <1>1, <2>1 DEF Loses
  <1>6. \A y \in Y : y \in X \/ Loses(q, r, f, y)
    BY <1>5
  <1>7. r \in Seq(Thread)
    BY <1>2
  <1> HIDE DEF Y
  <1>8. Once(Put(L, a, r), Y)
    BY <1>4, <1>6, <1>7, OnceThinned
  <1> QED
    BY <1>8 DEF Y, r

(* Scheduler::get takes a thread from list a. *)
LEMMA OncePicked ==
  ASSUME NEW L \in Lists, NEW X, Once(L, X), Idle \in X,
         NEW a \in ListName, NEW q, q = Entry(L, a),
         NEW finished, NEW next, NEW rest, PickNext(q, finished, next, rest)
  PROVE  Once(Put(L, a, rest), X \cup {next})
  <1> DEFINE Y == X \cup {next}
             n == Len(q)
  <1>1. q \in Seq(Thread)
    BY DEF Lists, Entry
  <1>2. ASSUME NEW i \in DOMAIN q, next = q[i], rest = SubSeq(q, i + 1, Len(q))
        PROVE  Once(Put(L, a, rest), Y)
    <2> DEFINE r == rest
               f == [k \in DOMAIN r |-> i + k]
    <2>1. /\ r \in Seq(Thread) /\ DOMAIN r = 1 .. (n - i)
          /\ \A k \in 1 .. (n - i) : r[k] = q[i + k]
          /\ n \in Nat /\ DOMAIN q = 1 .. n /\ i \in 1 .. n
      BY <1>1, <1>2, RestElements, LenProperties
    <2> HIDE DEF r, n
    <2>2. \A k \in DOMAIN r : Source(f, k) = i + k
      BY DEF Source
    <2> HIDE DEF f
    <2>3. Keeps(q, r, f)
      <3>1. \A k \in DOMAIN r :
              Source(f, k) \in DOMAIN q /\ r[k] = q[Source(f, k)]
        BY <2>1, <2>2
      <3>2. \A k, m \in DOMAIN r : Source(f, k) = Source(f, m) => k = m
        BY <2>1, <2>2
      <3> QED
        BY <3>1, <3>2 DEF Keeps
    <2>4. Loses(q, r, f, next)
      <3>1. \A k \in DOMAIN r : Source(f, k) # i
        BY <2>1, <2>2
      <3>2. i \in DOMAIN q /\ next = q[i]
        BY <1>2
      <3> QED
        BY <3>1, <3>2 DEF Loses
    <2>5. \A y \in Y : y \in X \/ Loses(q, r, f, y)
      BY <2>4
    <2>6. r \in Seq(Thread)
      BY <2>1
    <2> HIDE DEF Y
    <2>7. Once(Put(L, a, r), Y)
      BY <2>3, <2>5, <2>6, OnceThinned
    <2> QED
      BY <2>7 DEF r
  <1>3. ASSUME next = Idle, rest = <<>>
        PROVE  Once(Put(L, a, rest), Y)
    <2>1. rest \in Seq(Thread) /\ DOMAIN rest = {} /\ Y = X
      BY <1>3
    <2>2. Keeps(q, rest, rest)
      BY <2>1 DEF Keeps
    <2>3. \A y \in Y : y \in X \/ Loses(q, rest, rest, y)
      BY <2>1
    <2> HIDE DEF Y
    <2> QED
      BY <2>1, <2>2, <2>3, OnceThinned
  <1> QED
    BY <1>2, <1>3 DEF PickNext

-----------------------------------------------------------------------------
(* The kernel's lists *)

ListsOf(r, z, w, j) ==
  [l \in ListName |-> CASE l[1] = "ready"    -> r
                        [] l[1] = "sleeping" -> z
                        [] l[1] = "waiting"  -> w[l[2]]
                        [] l[1] = "joined"   -> j[l[2]]]

Ready == <<"ready", None>>
Sleeping == <<"sleeping", None>>
Waiting(s) == <<"waiting", s>>
Joined(u) == <<"joined", u>>

(* A list has one name. *)
LEMMA NamesDiffer ==
  /\ \A l \in ListName :
       \/ l[1] = "ready" /\ l = Ready
       \/ l[1] = "sleeping" /\ l = Sleeping
       \/ l[1] = "waiting" /\ l[2] \in Sem /\ l = Waiting(l[2])
       \/ l[1] = "joined" /\ l[2] \in Thread /\ l = Joined(l[2])
  /\ Ready \in ListName /\ Ready[1] = "ready"
  /\ Sleeping \in ListName /\ Sleeping[1] = "sleeping"
  /\ \A s : Waiting(s)[1] = "waiting" /\ Waiting(s)[2] = s
  /\ \A s \in Sem : Waiting(s) \in ListName /\ Waiting(s) # Ready
  /\ \A u : Joined(u)[1] = "joined" /\ Joined(u)[2] = u
  /\ \A u \in Thread : Joined(u) \in ListName /\ Joined(u) # Ready
  BY DEF ListName, Ready, Sleeping, Waiting, Joined

(* The lists r, z, w and j are lists of threads. *)
ListTypes(r, z, w, j) ==
  /\ r \in Seq(Thread) /\ z \in Seq(Thread)
  /\ w \in [Sem -> Seq(Thread)] /\ j \in [Thread -> Seq(Thread)]

(* The kernel's lists under their names. *)
LEMMA ListsType ==
  ASSUME NEW r, NEW z, NEW w, NEW j, ListTypes(r, z, w, j)
  PROVE  /\ ListsOf(r, z, w, j) \in Lists
         /\ \A l \in ListName :
              ListsOf(r, z, w, j)[l] = CASE l[1] = "ready"    -> r
                                         [] l[1] = "sleeping" -> z
                                         [] l[1] = "waiting"  -> w[l[2]]
                                         [] l[1] = "joined"   -> j[l[2]]
  <1>1. ASSUME NEW l \in ListName PROVE ListsOf(r, z, w, j)[l] \in Seq(Thread)
    BY NamesDiffer DEF ListsOf, ListTypes
  <1>2. ListsOf(r, z, w, j) \in Lists
    BY <1>1 DEF ListsOf, Lists
  <1>3. \A l \in ListName :
          ListsOf(r, z, w, j)[l] = CASE l[1] = "ready"    -> r
                                     [] l[1] = "sleeping" -> z
                                     [] l[1] = "waiting"  -> w[l[2]]
                                     [] l[1] = "joined"   -> j[l[2]]
    BY DEF ListsOf
  <1> QED
    BY <1>2, <1>3

(* Lists that differ in one list only. *)
LEMMA PutIsPointwise ==
  ASSUME NEW A \in Lists, NEW B \in Lists, NEW a \in ListName, NEW q,
         \A l \in ListName : A[l] = IF l = a THEN q ELSE B[l]
  PROVE  A = Put(B, a, q)
  BY DEF Lists, Put

(* The ready list, alone and changed. *)
LEMMA ReadyList ==
  ASSUME NEW r, NEW z, NEW w, NEW j, ListTypes(r, z, w, j)
  PROVE  /\ ListsOf(r, z, w, j) \in Lists
         /\ Ready \in ListName
         /\ Entry(ListsOf(r, z, w, j), Ready) = r
         /\ \A q \in Seq(Thread) :
              ListsOf(q, z, w, j) = Put(ListsOf(r, z, w, j), Ready, q)
  <1>1. ListsOf(r, z, w, j) \in Lists /\ Ready \in ListName
    BY ListsType, NamesDiffer
  <1>2. Entry(ListsOf(r, z, w, j), Ready) = r
    BY <1>1, ListsType, NamesDiffer DEF Entry
  <1>3. ASSUME NEW q \in Seq(Thread)
        PROVE  ListsOf(q, z, w, j) = Put(ListsOf(r, z, w, j), Ready, q)
    <2>1. ListTypes(q, z, w, j)
      BY DEF ListTypes
    <2>2. ListsOf(q, z, w, j) \in Lists
      BY <2>1, ListsType
    <2>3. \A l \in ListName : ListsOf(q, z, w, j)[l] =
                                IF l = Ready THEN q
                                ELSE ListsOf(r, z, w, j)[l]
      BY NamesDiffer DEF ListsOf
    <2> QED
      BY <1>1, <2>2, <2>3, PutIsPointwise
  <1> QED
    BY <1>1, <1>2, <1>3

(* The list of sleepers. *)
LEMMA SleepingList ==
  ASSUME NEW r, NEW z, NEW w, NEW j, ListTypes(r, z, w, j)
  PROVE  /\ Sleeping \in ListName
         /\ Entry(ListsOf(r, z, w, j), Sleeping) = z
         /\ \A q \in Seq(Thread) :
              ListsOf(r, q, w, j) = Put(ListsOf(r, z, w, j), Sleeping, q)
  <1>1. ListsOf(r, z, w, j) \in Lists /\ Sleeping \in ListName
    BY ListsType, NamesDiffer
  <1>2. Entry(ListsOf(r, z, w, j), Sleeping) = z
    BY <1>1, ListsType, NamesDiffer DEF Entry
  <1>3. ASSUME NEW q \in Seq(Thread)
        PROVE  ListsOf(r, q, w, j) = Put(ListsOf(r, z, w, j), Sleeping, q)
    <2>1. ListTypes(r, q, w, j)
      BY DEF ListTypes
    <2>2. ListsOf(r, q, w, j) \in Lists
      BY <2>1, ListsType
    <2>3. \A l \in ListName : ListsOf(r, q, w, j)[l] =
                                IF l = Sleeping THEN q
                                ELSE ListsOf(r, z, w, j)[l]
      BY NamesDiffer DEF ListsOf
    <2> QED
      BY <1>1, <2>2, <2>3, PutIsPointwise
  <1> QED
    BY <1>1, <1>2, <1>3

(* A semaphore's list. *)
LEMMA WaitingList ==
  ASSUME NEW r, NEW z, NEW w, NEW j, ListTypes(r, z, w, j),
         NEW s \in Sem, NEW q \in Seq(Thread)
  PROVE  /\ Waiting(s) \in ListName /\ Waiting(s) # Ready
         /\ Entry(w, s) \in Seq(Thread)
         /\ Entry(ListsOf(r, z, w, j), Waiting(s)) = Entry(w, s)
         /\ ListTypes(r, z, Put(w, s, q), j)
         /\ ListsOf(r, z, Put(w, s, q), j)
              = Put(ListsOf(r, z, w, j), Waiting(s), q)
  <1>1. /\ ListsOf(r, z, w, j) \in Lists
        /\ Waiting(s) \in ListName /\ Waiting(s) # Ready
    BY ListsType, NamesDiffer
  <1>2. Entry(ListsOf(r, z, w, j), Waiting(s)) = Entry(w, s)
    BY <1>1, NamesDiffer DEF ListsOf, Entry
  <1>3. Entry(w, s) \in Seq(Thread)
    BY DEF ListTypes, Entry
  <1> DEFINE v == Put(w, s, q)
  <1>4. /\ v \in [Sem -> Seq(Thread)] /\ v[s] = q
        /\ \A o \in Sem : o # s => v[o] = w[o]
    BY DEF ListTypes, Put
  <1> HIDE DEF v
  <1>5. ListTypes(r, z, v, j)
    BY <1>4 DEF ListTypes
  <1>6. ListsOf(r, z, v, j) \in Lists
    BY <1>5, ListsType
  <1>7. \A l \in ListName : l = Waiting(s) <=> l[1] = "waiting" /\ l[2] = s
    BY NamesDiffer
  <1>8. \A l \in ListName : ListsOf(r, z, v, j)[l] =
                              IF l = Waiting(s) THEN q
                              ELSE ListsOf(r, z, w, j)[l]
    BY <1>4, <1>7, NamesDiffer DEF ListsOf, ListTypes
  <1>9. ListsOf(r, z, v, j) = Put(ListsOf(r, z, w, j), Waiting(s), q)
    BY <1>1, <1>6, <1>8, PutIsPointwise
  <1> QED
    BY <1>1, <1>2, <1>3, <1>5, <1>9 DEF v

(* The list of the threads joined on a thread. *)
LEMMA JoinedList ==
  ASSUME NEW r, NEW z, NEW w, NEW j, ListTypes(r, z, w, j),
         NEW u \in Thread, NEW q \in Seq(Thread)
  PROVE  /\ Joined(u) \in ListName
         /\ Entry(j, u) \in Seq(Thread)
         /\ Entry(ListsOf(r, z, w, j), Joined(u)) = Entry(j, u)
         /\ ListTypes(r, z, w, Put(j, u, q))
         /\ ListsOf(r, z, w, Put(j, u, q))
              = Put(ListsOf(r, z, w, j), Joined(u), q)
  <1>1. /\ ListsOf(r, z, w, j) \in Lists
        /\ Joined(u) \in ListName
    BY ListsType, NamesDiffer
  <1>2. Entry(ListsOf(r, z, w, j), Joined(u)) = Entry(j, u)
    BY <1>1, NamesDiffer DEF ListsOf, Entry
  <1>3. Entry(j, u) \in Seq(Thread)
    BY DEF ListTypes, Entry
  <1> DEFINE v == Put(j, u, q)
  <1>4. /\ v \in [Thread -> Seq(Thread)] /\ v[u] = q
        /\ \A o \in Thread : o # u => v[o] = j[o]
    BY DEF ListTypes, Put
  <1> HIDE DEF v
  <1>5. ListTypes(r, z, w, v)
    BY <1>4 DEF ListTypes
  <1>6. ListsOf(r, z, w, v) \in Lists
    BY <1>5, ListsType
  <1>7. \A l \in ListName : l = Joined(u) <=> l[1] = "joined" /\ l[2] = u
    BY NamesDiffer
  <1>8. \A l \in ListName : ListsOf(r, z, w, v)[l] =
                              IF l = Joined(u) THEN q
                              ELSE ListsOf(r, z, w, j)[l]
    BY <1>4, <1>7, NamesDiffer DEF ListsOf, ListTypes
  <1>9. ListsOf(r, z, w, v) = Put(ListsOf(r, z, w, j), Joined(u), q)
    BY <1>1, <1>6, <1>8, PutIsPointwise
  <1> QED
    BY <1>1, <1>2, <1>3, <1>5, <1>9 DEF v

(* None of the threads X is in one of the lists, and no thread is twice. *)
Nowhere(r, z, w, j, X) ==
  ListTypes(r, z, w, j) /\ Once(ListsOf(r, z, w, j), X)

(***************************************************************************)
(* A thread that is in no list goes to the end of the ready list, to that  *)
(* of the sleepers, of a semaphore or of a thread.                         *)
(***************************************************************************)
LEMMA GoesToReady ==
  ASSUME NEW r, NEW z, NEW w, NEW j, NEW X, Nowhere(r, z, w, j, X),
         NEW t \in Thread, t \in X, NEW Y, \A y \in Y : y \in X /\ y # t
  PROVE  Nowhere(Append(r, t), z, w, j, Y)
  <1> DEFINE q == Append(r, t)
             L == ListsOf(r, z, w, j)
  <1>1. ListTypes(r, z, w, j) /\ Once(L, X)
    BY DEF Nowhere
  <1>2. q \in Seq(Thread) /\ ListTypes(q, z, w, j)
    BY <1>1 DEF ListTypes
  <1>3. /\ L \in Lists /\ Ready \in ListName /\ r = Entry(L, Ready)
        /\ \A o \in Seq(Thread) : ListsOf(o, z, w, j) = Put(L, Ready, o)
    BY <1>1, ReadyList
  <1>4. Once(Put(L, Ready, Append(r, t)), Y)
    <2> HIDE DEF L
    <2> QED
      BY <1>1, <1>3, OnceAppended
  <1> HIDE DEF q, L
  <1>5. ListsOf(q, z, w, j) = Put(L, Ready, q)
    BY <1>2, <1>3
  <1> QED
    BY <1>2, <1>4, <1>5 DEF Nowhere, q

(* The sleepers. *)
LEMMA GoesToSleepers ==
  ASSUME NEW r, NEW z, NEW w, NEW j, NEW X, Nowhere(r, z, w, j, X),
         NEW t \in Thread, t \in X, NEW Y, \A y \in Y : y \in X /\ y # t
  PROVE  Nowhere(r, Append(z, t), w, j, Y)
  <1> DEFINE q == Append(z, t)
             L == ListsOf(r, z, w, j)
  <1>1. ListTypes(r, z, w, j) /\ Once(L, X)
    BY DEF Nowhere
  <1>2. q \in Seq(Thread) /\ ListTypes(r, q, w, j)
    BY <1>1 DEF ListTypes
  <1>3. L \in Lists
    BY <1>1, ReadyList
  <1>4. /\ Sleeping \in ListName /\ z = Entry(L, Sleeping)
        /\ \A o \in Seq(Thread) : ListsOf(r, o, w, j) = Put(L, Sleeping, o)
    BY <1>1, SleepingList
  <1>5. Once(Put(L, Sleeping, Append(z, t)), Y)
    <2> HIDE DEF L
    <2> QED
      BY <1>1, <1>3, <1>4, OnceAppended
  <1> HIDE DEF q, L
  <1>6. ListsOf(r, q, w, j) = Put(L, Sleeping, q)
    BY <1>2, <1>4
  <1> QED
    BY <1>2, <1>5, <1>6 DEF Nowhere, q

(* A semaphore. *)
LEMMA GoesToWaiting ==
  ASSUME NEW r, NEW z, NEW w, NEW j, NEW X, Nowhere(r, z, w, j, X),
         NEW t \in Thread, t \in X, NEW Y, \A y \in Y : y \in X /\ y # t,
         NEW s \in Sem
  PROVE  Nowhere(r, z, Put(w, s, Append(Entry(w, s), t)), j, Y)
  <1> DEFINE o == Entry(w, s)
             q == Append(o, t)
             L == ListsOf(r, z, w, j)
  <1>1. ListTypes(r, z, w, j) /\ Once(L, X)
    BY DEF Nowhere
  <1>2. o \in Seq(Thread)
    BY <1>1 DEF ListTypes, Entry
  <1> HIDE DEF o
  <1>3. q \in Seq(Thread)
    BY <1>2
  <1> HIDE DEF q
  <1>4. L \in Lists
    BY <1>1, ReadyList
  <1>5. /\ Waiting(s) \in ListName /\ o = Entry(L, Waiting(s))
        /\ ListTypes(r, z, Put(w, s, q), j)
        /\ ListsOf(r, z, Put(w, s, q), j) = Put(L, Waiting(s), q)
    BY <1>1, <1>3, WaitingList DEF o
  <1>6. Once(Put(L, Waiting(s), Append(o, t)), Y)
    <2> HIDE DEF L
    <2> QED
      BY <1>1, <1>4, <1>5, OnceAppended
  <1> HIDE DEF L
  <1> QED
    BY <1>5, <1>6 DEF Nowhere, q, o

(* A thread. *)
LEMMA GoesToJoined ==
  ASSUME NEW r, NEW z, NEW w, NEW j, NEW X, Nowhere(r, z, w, j, X),
         NEW t \in Thread, t \in X, NEW Y, \A y \in Y : y \in X /\ y # t,
         NEW u \in Thread
  PROVE  Nowhere(r, z, w, Put(j, u, Append(Entry(j, u), t)), Y)
  <1> DEFINE o == Entry(j, u)
             q == Append(o, t)
             L == ListsOf(r, z, w, j)
  <1>1. ListTypes(r, z, w, j) /\ Once(L, X)
    BY DEF Nowhere
  <1>2. o \in Seq(Thread)
    BY <1>1 DEF ListTypes, Entry
  <1> HIDE DEF o
  <1>3. q \in Seq(Thread)
    BY <1>2
  <1> HIDE DEF q
  <1>4. L \in Lists
    BY <1>1, ReadyList
  <1>5. /\ Joined(u) \in ListName /\ o = Entry(L, Joined(u))
        /\ ListTypes(r, z, w, Put(j, u, q))
        /\ ListsOf(r, z, w, Put(j, u, q)) = Put(L, Joined(u), q)
    BY <1>1, <1>3, JoinedList DEF o
  <1>6. Once(Put(L, Joined(u), Append(o, t)), Y)
    <2> HIDE DEF L
    <2> QED
      BY <1>1, <1>4, <1>5, OnceAppended
  <1> HIDE DEF L
  <1> QED
    BY <1>5, <1>6 DEF Nowhere, q, o

(***************************************************************************)
(* The head of the list of a semaphore or of a thread is taken, or one of  *)
(* the sleepers.                                                           *)
(***************************************************************************)
LEMMA LeavesWaiting ==
  ASSUME NEW r, NEW z, NEW w, NEW j, NEW X, Nowhere(r, z, w, j, X),
         NEW s \in Sem, Entry(w, s) # <<>>
  PROVE  Nowhere(r, z, Put(w, s, Tail(Entry(w, s))), j,
                 X \cup {Head(Entry(w, s))})
  <1> DEFINE o == Entry(w, s)
             q == Tail(o)
             L == ListsOf(r, z, w, j)
  <1>1. ListTypes(r, z, w, j) /\ Once(L, X)
    BY DEF Nowhere
  <1>2. o \in Seq(Thread) /\ o # <<>>
    BY <1>1 DEF ListTypes, Entry
  <1> HIDE DEF o
  <1>3. q \in Seq(Thread)
    BY <1>2, HeadTailType
  <1> HIDE DEF q
  <1>4. L \in Lists
    BY <1>1, ReadyList
  <1>5. /\ Waiting(s) \in ListName /\ o = Entry(L, Waiting(s))
        /\ ListTypes(r, z, Put(w, s, q), j)
        /\ ListsOf(r, z, Put(w, s, q), j) = Put(L, Waiting(s), q)
    BY <1>1, <1>3, WaitingList DEF o
  <1>6. Once(Put(L, Waiting(s), Tail(o)), X \cup {Head(o)})
    <2> HIDE DEF L
    <2> QED
      BY <1>1, <1>2, <1>4, <1>5, OnceHeadTaken
  <1> HIDE DEF L
  <1> QED
    BY <1>5, <1>6 DEF Nowhere, q, o

(* A thread. *)
LEMMA LeavesJoined ==
  ASSUME NEW r, NEW z, NEW w, NEW j, NEW X, Nowhere(r, z, w, j, X),
         NEW u \in Thread, Entry(j, u) # <<>>
  PROVE  Nowhere(r, z, w, Put(j, u, Tail(Entry(j, u))),
                 X \cup {Head(Entry(j, u))})
  <1> DEFINE o == Entry(j, u)
             q == Tail(o)
             L == ListsOf(r, z, w, j)
  <1>1. ListTypes(r, z, w, j) /\ Once(L, X)
    BY DEF Nowhere
  <1>2. o \in Seq(Thread) /\ o # <<>>
    BY <1>1 DEF ListTypes, Entry
  <1> HIDE DEF o
  <1>3. q \in Seq(Thread)
    BY <1>2, HeadTailType
  <1> HIDE DEF q
  <1>4. L \in Lists
    BY <1>1, ReadyList
  <1>5. /\ Joined(u) \in ListName /\ o = Entry(L, Joined(u))
        /\ ListTypes(r, z, w, Put(j, u, q))
        /\ ListsOf(r, z, w, Put(j, u, q)) = Put(L, Joined(u), q)
    BY <1>1, <1>3, JoinedList DEF o
  <1>6. Once(Put(L, Joined(u), Tail(o)), X \cup {Head(o)})
    <2> HIDE DEF L
    <2> QED
      BY <1>1, <1>2, <1>4, <1>5, OnceHeadTaken
  <1> HIDE DEF L
  <1> QED
    BY <1>5, <1>6 DEF Nowhere, q, o

(* The sleepers, at any position. *)
LEMMA LeavesSleepers ==
  ASSUME NEW r, NEW z, NEW w, NEW j, NEW X, Nowhere(r, z, w, j, X),
         NEW p \in DOMAIN z
  PROVE  Nowhere(r, Without(z, p), w, j, X \cup {z[p]})
  <1> DEFINE q == Without(z, p)
             L == ListsOf(r, z, w, j)
  <1>1. ListTypes(r, z, w, j) /\ Once(L, X)
    BY DEF Nowhere
  <1>2. q \in Seq(Thread)
    BY <1>1, WithoutType DEF ListTypes
  <1>3. ListTypes(r, q, w, j)
    BY <1>1, <1>2 DEF ListTypes
  <1>4. L \in Lists
    BY <1>1, ReadyList
  <1>5. /\ Sleeping \in ListName /\ z = Entry(L, Sleeping)
        /\ \A o \in Seq(Thread) : ListsOf(r, o, w, j) = Put(L, Sleeping, o)
    BY <1>1, SleepingList
  <1>6. Once(Put(L, Sleeping, Without(z, p)), X \cup {z[p]})
    <2> HIDE DEF L
    <2> QED
      BY <1>1, <1>4, <1>5, OnceTaken
  <1> HIDE DEF q, L
  <1>7. ListsOf(r, q, w, j) = Put(L, Sleeping, q)
    BY <1>2, <1>5
  <1> QED
    BY <1>3, <1>6, <1>7 DEF Nowhere, q

(* Every thread waiting on a semaphore goes to the end of the ready list. *)
LEMMA AllReleased ==
  ASSUME NEW r, NEW z, NEW w, NEW j, NEW X, Nowhere(r, z, w, j, X),
         NEW s \in Sem
  PROVE  Nowhere(r \o Entry(w, s), z, Put(w, s, <<>>), j, X)
  <1> DEFINE o == Entry(w, s)
             c == r \o o
             e == <<>>
             L == ListsOf(r, z, w, j)
  <1>1. ListTypes(r, z, w, j) /\ Once(L, X)
    BY DEF Nowhere
  <1>2. e \in Seq(Thread)
    OBVIOUS
  <1> HIDE DEF e
  <1>3. o \in Seq(Thread)
    BY <1>1, <1>2, WaitingList
  <1>4. r \in Seq(Thread)
    BY <1>1 DEF ListTypes
  <1> HIDE DEF o
  <1>5. c \in Seq(Thread)
    BY <1>3, <1>4, ConcatProperties
  <1>6. /\ L \in Lists /\ Ready \in ListName /\ r = Entry(L, Ready)
        /\ \A q \in Seq(Thread) : ListsOf(q, z, w, j) = Put(L, Ready, q)
    BY <1>1, ReadyList
  <1>7. ListTypes(c, z, w, j)
    BY <1>1, <1>5 DEF ListTypes
  <1>8. /\ Waiting(s) \in ListName /\ Waiting(s) # Ready
        /\ o = Entry(L, Waiting(s))
    BY <1>1, <1>2, WaitingList DEF o
  <1>9. Once(Put(Put(L, Ready, r \o o), Waiting(s), <<>>), X)
    <2> HIDE DEF L
    <2> QED
      BY <1>1, <1>6, <1>8, OnceConcatenated
  <1> HIDE DEF c
  <1>10. ListTypes(c, z, Put(w, s, e), j)
    BY <1>2, <1>7, WaitingList
  <1>11. ListsOf(c, z, Put(w, s, e), j)
           = Put(ListsOf(c, z, w, j), Waiting(s), e)
    BY <1>2, <1>7, WaitingList
  <1>12. ListsOf(c, z, w, j) = Put(L, Ready, c)
    BY <1>5, <1>6
  <1> HIDE DEF L
  <1> QED
    BY <1>9, <1>10, <1>11, <1>12 DEF Nowhere, c, e, o

(***************************************************************************)
(* The threads that are in no list: the running one, the idle one, and     *)
(* those without a PCB.                                                    *)
(***************************************************************************)
NotCreated(wh) == {t \in Thread : wh[t] = "none"}
Absent(c, wh) == {c, Idle} \cup NotCreated(wh)

(* Scheduler::get takes the next thread to run. *)
LEMMA NextTaken ==
  ASSUME NEW r, NEW z, NEW w, NEW j, NEW wh,
         Nowhere(r, z, w, j, {Idle} \cup NotCreated(wh)),
         wh[Idle] # "none",
         NEW finished, NEW next, NEW rest, PickNext(r, finished, next, rest)
  PROVE  Nowhere(rest, z, w, j, Absent(next, wh)) /\ wh[next] # "none"
  <1> DEFINE L == ListsOf(r, z, w, j)
             X == {Idle} \cup NotCreated(wh)
  <1>1. ListTypes(r, z, w, j) /\ Once(L, X)
    BY DEF Nowhere
  <1>2. r \in Seq(Thread)
    BY <1>1 DEF ListTypes
  <1>3. /\ L \in Lists /\ Ready \in ListName /\ r = Entry(L, Ready)
        /\ \A q \in Seq(Thread) : ListsOf(q, z, w, j) = Put(L, Ready, q)
    BY <1>1, ReadyList
  <1>4. /\ next \in Thread /\ rest \in Seq(Thread)
        /\ next = Idle \/ Holds(r, next)
    BY <1>2, Picked
  <1>5. X \cup {next} = Absent(next, wh) /\ Idle \in X
    BY DEF Absent
  <1>6. wh[next] # "none"
    <2>1. CASE next = Idle
      BY <2>1
    <2>2. CASE Holds(r, next)
      <3>1. PICK i \in DOMAIN r : r[i] = next
        BY <2>2 DEF Holds
      <3>2. Places(L, Ready) = DOMAIN r /\ At(L, Ready, i) = r[i]
        <4> HIDE DEF L
        <4> QED
          BY <1>3 DEF Places, At, Entry
      <3>3. next \notin X
        <4> HIDE DEF L, X
        <4> QED
          BY <1>1, <1>3, <3>1, <3>2 DEF Once
      <3> QED
        BY <1>4, <3>3 DEF NotCreated
    <2> QED
      BY <1>4, <2>1, <2>2
  <1>7. ListTypes(rest, z, w, j)
    BY <1>1, <1>4 DEF ListTypes
  <1> HIDE DEF L, X
  <1>8. ListsOf(rest, z, w, j) = Put(L, Ready, rest)
    BY <1>3, <1>4
  <1>9. Once(Put(L, Ready, rest), X \cup {next})
    BY <1>1, <1>3, <1>5, OncePicked
  <1>10. Nowhere(rest, z, w, j, Absent(next, wh))
    BY <1>5, <1>7, <1>8, <1>9 DEF Nowhere
  <1> QED
    BY <1>6, <1>10

(* The threads of a list of sleepers. *)
Names(q) == [i \in DOMAIN q |-> q[i].thread]

(* They are threads, in the same order. *)
LEMMA NamesType ==
  ASSUME NEW q \in Seq(Sleeper)
  PROVE  /\ Names(q) \in Seq(Thread)
         /\ DOMAIN Names(q) = DOMAIN q
         /\ \A i \in DOMAIN q : Names(q)[i] = q[i].thread
  <1>1. Len(q) \in Nat /\ DOMAIN q = 1 .. Len(q)
    BY LenProperties
  <1>2. \A i \in DOMAIN q : q[i].thread \in Thread
    <2>1. \A i \in DOMAIN q : q[i] \in Sleeper
      BY <1>1, ElementOfSeq
    <2> QED
      BY <2>1 DEF Sleeper
  <1>3. Names(q) \in [1 .. Len(q) -> Thread]
    BY <1>1, <1>2 DEF Names
  <1> QED
    BY <1>1, <1>3 DEF Names

(* Lists that agree at every position are equal. *)
LEMMA SameList ==
  ASSUME NEW S, NEW p \in Seq(S), NEW q \in Seq(S), DOMAIN p = DOMAIN q,
         \A i \in DOMAIN p : p[i] = q[i]
  PROVE  p = q
  BY SeqEqual, LenProperties

(* A sleeper is added at the end, *)
LEMMA NamesAppend ==
  ASSUME NEW q \in Seq(Sleeper), NEW e \in Sleeper
  PROVE  Names(Append(q, e)) = Append(Names(q), e.thread)
  <1> DEFINE n == Len(q)
             p == Append(q, e)
             a == Names(q)
             b == Names(p)
             t == e.thread
             c == Append(a, t)
  <1>1. /\ n \in Nat /\ DOMAIN q = 1 .. n /\ p \in Seq(Sleeper)
        /\ DOMAIN p = 1 .. (n + 1)
        /\ \A i \in 1 .. n : p[i] = q[i]
        /\ p[n + 1] = e
    BY AppendProperties, LenProperties
  <1>2. t \in Thread
    BY DEF Sleeper
  <1> HIDE DEF p
  <1>3. /\ a \in Seq(Thread) /\ DOMAIN a = DOMAIN q
        /\ \A i \in DOMAIN q : a[i] = q[i].thread
    BY NamesType
  <1>4. /\ b \in Seq(Thread) /\ DOMAIN b = DOMAIN p
        /\ \A i \in DOMAIN p : b[i] = p[i].thread
    BY <1>1, NamesType
  <1> HIDE DEF a, b
  <1>5. Len(a) = n
    BY <1>1, <1>3, LenProperties
  <1>6. /\ c \in Seq(Thread) /\ DOMAIN c = 1 .. (n + 1)
        /\ \A i \in 1 .. n : c[i] = a[i]
        /\ c[n + 1] = t
    <2> HIDE DEF n, t
    <2> QED
      BY <1>1, <1>2, <1>3, <1>5, AppendProperties, LenProperties
  <1> HIDE DEF c, n
  <1>7. \A i \in 1 .. (n + 1) : i \in 1 .. n \/ i = n + 1
    BY <1>1
  <1>8. \A i \in DOMAIN b : b[i] = c[i]
    BY <1>1, <1>3, <1>4, <1>6, <1>7
  <1>9. b = c
    BY <1>1, <1>4, <1>6, <1>8, SameList
  <1> QED
    BY <1>9 DEF a, b, c, p

(* or removed where it is. *)
LEMMA NamesWithout ==
  ASSUME NEW q \in Seq(Sleeper), NEW p \in DOMAIN q
  PROVE  Names(Without(q, p)) = Without(Names(q), p)
  <1> DEFINE n == Len(q)
             r == Without(q, p)
             a == Names(q)
             b == Names(r)
             c == Without(a, p)
  <1>1. /\ n \in Nat /\ DOMAIN q = 1 .. n /\ r \in Seq(Sleeper)
        /\ DOMAIN r = 1 .. (n - 1) /\ p \in 1 .. n
        /\ \A i \in 1 .. (n - 1) : r[i] = q[IF i < p THEN i ELSE i + 1]
    BY WithoutType, LenProperties
  <1> HIDE DEF r
  <1>2. /\ a \in Seq(Thread) /\ DOMAIN a = DOMAIN q
        /\ \A i \in DOMAIN q : a[i] = q[i].thread
    BY NamesType
  <1>3. /\ b \in Seq(Thread) /\ DOMAIN b = DOMAIN r
        /\ \A i \in DOMAIN r : b[i] = r[i].thread
    BY <1>1, NamesType
  <1> HIDE DEF a, b
  <1>4. Len(a) = n
    BY <1>1, <1>2, LenProperties
  <1>5. /\ c \in Seq(Thread) /\ DOMAIN c = 1 .. (n - 1)
        /\ \A i \in 1 .. (n - 1) : c[i] = a[IF i < p THEN i ELSE i + 1]
    BY <1>2, <1>4, WithoutType, ZenonT(60)
  <1> HIDE DEF c, n
  <1>6. ASSUME NEW i \in 1 .. (n - 1) PROVE b[i] = c[i]
    <2>1. CASE i < p
      <3>1. i \in DOMAIN q /\ r[i] = q[i] /\ c[i] = a[i] /\ i \in DOMAIN r
        BY <1>1, <1>5, <2>1
      <3> QED
        BY <1>2, <1>3, <3>1
    <2>2. CASE ~(i < p)
      <3> DEFINE k == i + 1
      <3>1. k \in DOMAIN q /\ r[i] = q[k] /\ c[i] = a[k] /\ i \in DOMAIN r
        BY <1>1, <1>5, <2>2
      <3> HIDE DEF k
      <3> QED
        BY <1>2, <1>3, <3>1
    <2> QED
      BY <2>1, <2>2
  <1>7. b = c
    BY <1>1, <1>3, <1>5, <1>6, SameList
  <1> QED
    BY <1>7 DEF a, b, c, r

(* The tick leaves the sleepers in their order. *)
LEMMA NamesTicked ==
  ASSUME NEW q \in Seq(Sleeper)
  PROVE  Names([i \in DOMAIN q |-> Ticked(q[i])]) = Names(q)
  <1> DEFINE r == [i \in DOMAIN q |-> Ticked(q[i])]
  <1>1. \A i \in DOMAIN q : q[i] \in Sleeper
    BY ElementOfSeq, LenProperties
  <1>2. \A i \in DOMAIN q : Ticked(q[i]).thread = q[i].thread
    BY <1>1, TickedType
  <1>3. DOMAIN r = DOMAIN q /\ \A i \in DOMAIN q : r[i].thread = q[i].thread
    BY <1>2
  <1> HIDE DEF r
  <1>4. Names(r) = Names(q)
    BY <1>3 DEF Names
  <1> QED
    BY <1>4 DEF r

(***************************************************************************)
(* OnePlace, and also that no list holds a thread without a PCB: then a    *)
(* thread that is created, or that runs, may go to the end of any list.    *)
(***************************************************************************)
PlaceInv ==
  /\ Nowhere(ready, sleepers, waiting, joined, Absent(currentRunning, where))
  /\ where[currentRunning] # "none" /\ where[Idle] # "none"

(* The list of the sleepers is such a list. *)
LEMMA SleepersAreNames ==
  ASSUME TypeOK
  PROVE  sleepers = Names(sleeping) /\ sleepers \in Seq(Thread)
  <1>1. sleepers = Names(sleeping)
    BY DEF sleepers, Names
  <1> QED
    BY <1>1, NamesType DEF TypeOK

(* PlaceInv holds when main enables interrupts. *)
LEMMA PlaceInit == Init => PlaceInv
  <1> SUFFICES ASSUME Init PROVE PlaceInv
    OBVIOUS
  <1>1. TypeOK
    BY TypeInit
  <1>2. sleepers \in Seq(Thread) /\ DOMAIN sleepers = {}
    BY <1>1, SleepersAreNames DEF Init, sleepers
  <1>3. ListTypes(ready, sleepers, waiting, joined)
    BY <1>1, <1>2 DEF ListTypes, TypeOK
  <1>4. ASSUME NEW l \in ListName
        PROVE  Places(ListsOf(ready, sleepers, waiting, joined), l) = {}
    BY <1>2, NamesDiffer DEF Places, ListsOf, Init
  <1>5. Once(ListsOf(ready, sleepers, waiting, joined),
             Absent(currentRunning, where))
    BY <1>4 DEF Once
  <1>6. where[currentRunning] # "none" /\ where[Idle] # "none"
    BY ThreadAssumption DEF Init, Thread
  <1> QED
    BY <1>3, <1>5, <1>6 DEF PlaceInv, Nowhere

(* A step that leaves the lists, the running thread and the PCBs alone. *)
LEMMA PlaceFrame ==
  ASSUME PlaceInv, UNCHANGED <<ready, sleeping, waiting, joined,
                               currentRunning, where>>
  PROVE  PlaceInv'
  BY DEF PlaceInv, sleepers

(* Fewer threads are said to be in no list. *)
LEMMA NowhereFewer ==
  ASSUME NEW r, NEW z, NEW w, NEW j, NEW X, Nowhere(r, z, w, j, X),
         NEW Y, \A y \in Y : y \in X
  PROVE  Nowhere(r, z, w, j, Y)
  BY DEF Nowhere, Once

(* The end of a call that switches, q being the ready list it has made. *)
LEMMA PlaceSwitch ==
  ASSUME NEW q, NEW z, NEW w, NEW j, NEW st, NEW finished, NEW k, NEW h,
         Nowhere(q, z, w, j, {Idle} \cup NotCreated(where)),
         where[Idle] # "none",
         Switch(q, st, finished, k, h),
         where' = where, sleepers' = z, waiting' = w, joined' = j
  PROVE  PlaceInv'
  <1>1. PickNext(q, finished, currentRunning', ready')
    BY DEF Switch
  <1>2. /\ Nowhere(ready', z, w, j, Absent(currentRunning', where))
        /\ where[currentRunning'] # "none"
    BY <1>1, NextTaken
  <1> QED
    BY <1>2 DEF PlaceInv

(* PCB::dispatch keeps PlaceInv. *)
LEMMA PlaceDispatch ==
  ASSUME TypeOK, PlaceInv, NEW st, NEW finished, NEW k,
         Dispatch(st, finished, k),
         where' = where, sleeping' = sleeping, waiting' = waiting,
         joined' = joined
  PROVE  PlaceInv'
  <1> DEFINE X == {Idle} \cup NotCreated(where)
  <1>1. sleepers' = sleepers
    BY DEF sleepers
  <1>2. /\ Nowhere(ready, sleepers, waiting, joined,
                   Absent(currentRunning, where))
        /\ where[Idle] # "none" /\ where[currentRunning] # "none"
        /\ currentRunning \in Thread
    BY DEF PlaceInv, TypeOK
  <1>3. \A y \in X : y \in Absent(currentRunning, where)
    BY DEF Absent
  <1>4. CASE Switch(ready, st, finished, k, None)
    <2>1. Nowhere(ready, sleepers, waiting, joined, X)
      BY <1>2, <1>3, NowhereFewer
    <2> QED
      BY <1>1, <1>2, <1>4, <2>1, PlaceSwitch
  <1>5. CASE /\ currentRunning # Idle
             /\ Switch(Append(ready, currentRunning),
                       [st EXCEPT ![currentRunning] = "READY"],
                       finished, k, None)
    <2>1. /\ currentRunning \in Absent(currentRunning, where)
          /\ \A y \in X : y # currentRunning
      BY <1>2, <1>5 DEF Absent, NotCreated
    <2> HIDE DEF X
    <2>2. Nowhere(Append(ready, currentRunning), sleepers, waiting, joined, X)
      BY <1>2, <1>3, <2>1, GoesToReady
    <2> DEFINE q == Append(ready, currentRunning)
               marked == [st EXCEPT ![currentRunning] = "READY"]
    <2>3. Switch(q, marked, finished, k, None)
      BY <1>5
    <2> HIDE DEF q, marked
    <2> QED
      BY <1>1, <1>2, <2>2, <2>3, PlaceSwitch DEF X, q
  <1> QED
    BY <1>4, <1>5 DEF Dispatch

(* thread_create puts a thread without a PCB in the ready list. *)
LEMMA PlaceCreate ==
  ASSUME TypeOK, PlaceInv, NEW t \in User, ThreadCreate(t)
  PROVE  PlaceInv'
  <1>1. /\ t \in Thread /\ where[t] = "none" /\ ready' = Append(ready, t)
        /\ where' = [where EXCEPT ![t] = "body"]
        /\ where \in [Thread -> Where]
        /\ UNCHANGED <<sleeping, waiting, joined, currentRunning>>
    BY DEF ThreadCreate, Thread, TypeOK, timerVars, semVars, joinVars
  <1>2. sleepers' = sleepers
    BY <1>1 DEF sleepers
  <1>3. /\ Nowhere(ready, sleepers, waiting, joined,
                   Absent(currentRunning, where))
        /\ where[Idle] # "none" /\ where[currentRunning] # "none"
        /\ currentRunning \in Thread /\ Idle \in Thread
    BY DEF PlaceInv, TypeOK, Thread
  <1>4. /\ t \in Absent(currentRunning, where)
        /\ \A y \in Absent(currentRunning, where') :
             y \in Absent(currentRunning, where) /\ y # t
        /\ where'[Idle] # "none" /\ where'[currentRunning] # "none"
    BY <1>1, <1>3 DEF Absent, NotCreated
  <1>5. Nowhere(Append(ready, t), sleepers, waiting, joined,
                Absent(currentRunning, where'))
    BY <1>1, <1>3, <1>4, GoesToReady
  <1> QED
    BY <1>1, <1>2, <1>4, <1>5 DEF PlaceInv

(* thread_join puts the running thread in the list of the joined one. *)
LEMMA PlaceJoin ==
  ASSUME TypeOK, PlaceInv, NEW u \in User, ThreadJoin(u)
  PROVE  PlaceInv'
  <1> DEFINE X == {Idle} \cup NotCreated(where)
             t == currentRunning
             w == Put(joined, u, Append(Entry(joined, u), t))
  <1>1. /\ u \in Thread /\ t \in Thread /\ t # Idle
        /\ joined' = w
        /\ UNCHANGED <<where, sleeping, waiting>>
    BY DEF ThreadJoin, Client, Thread, TypeOK, threadVars, semVars, timerVars,
           Put, Entry
  <1>2. Switch(ready, [state EXCEPT ![t] = "JOINED"], finishedThread,
               "join", u)
    BY DEF ThreadJoin, ListAtJoin
  <1>3. sleepers' = sleepers
    BY <1>1 DEF sleepers
  <1>4. /\ Nowhere(ready, sleepers, waiting, joined, Absent(t, where))
        /\ where[Idle] # "none" /\ where[t] # "none"
    BY DEF PlaceInv
  <1>5. /\ t \in Absent(t, where)
        /\ \A y \in X : y \in Absent(t, where) /\ y # t
    BY <1>1, <1>4 DEF Absent, NotCreated
  <1> HIDE DEF X
  <1>6. Nowhere(ready, sleepers, waiting, w, X)
    BY <1>1, <1>4, <1>5, GoesToJoined
  <1> DEFINE marked == [state EXCEPT ![t] = "JOINED"]
  <1>7. Switch(ready, marked, finishedThread, "join", u)
    BY <1>2
  <1> HIDE DEF w, t, marked
  <1> QED
    BY <1>1, <1>3, <1>4, <1>6, <1>7, PlaceSwitch DEF X

(* A turn of the loop of PCB::run. *)
LEMMA PlaceRelease ==
  ASSUME TypeOK, PlaceInv, ReleaseJoined
  PROVE  PlaceInv'
  <1> DEFINE u == currentRunning
             o == Entry(joined, u)
             X == Absent(u, where)
             w == Put(joined, u, Tail(o))
  <1>1. /\ u \in Thread /\ o # <<>> /\ o \in Seq(Thread)
        /\ ready' = Append(ready, Head(o)) /\ joined' = w
        /\ UNCHANGED <<sleeping, waiting, currentRunning>>
    BY DEF ReleaseJoined, InReleaseLoop, TypeOK, semVars, timerVars, Put, Entry
  <1>2. \A t \in Thread : where'[t] = "none" => where[t] = "none"
    BY DEF ReleaseJoined, TypeOK
  <1>3. sleepers' = sleepers
    BY <1>1 DEF sleepers
  <1>4. /\ Nowhere(ready, sleepers, waiting, joined, X)
        /\ where[Idle] # "none" /\ where[u] # "none"
        /\ u \in Thread /\ Idle \in Thread
    BY <1>1 DEF PlaceInv, Thread
  <1> HIDE DEF X
  <1>5. Nowhere(ready, sleepers, waiting, w, X \cup {Head(o)})
    BY <1>1, <1>4, LeavesJoined
  <1>6. Head(o) \in Thread
    BY <1>1, HeadTailType
  <1>7. Head(o) \notin X
    <2>1. \E i \in DOMAIN o : o[i] = Head(o)
      BY <1>1, HoldsTail DEF Holds
    <2> DEFINE L == ListsOf(ready, sleepers, waiting, joined)
    <2>2. ListTypes(ready, sleepers, waiting, joined) /\ Once(L, X)
      BY <1>4 DEF Nowhere
    <2>3. Joined(u) \in ListName /\ Entry(L, Joined(u)) = o
      BY <1>1, <2>2, JoinedList
    <2>4. Places(L, Joined(u)) = DOMAIN o
          /\ \A i : At(L, Joined(u), i) = o[i]
      <3> HIDE DEF L, o
      <3> QED
        BY <2>3 DEF Places, At, Entry
    <2> HIDE DEF L, o
    <2> QED
      BY <2>1, <2>2, <2>3, <2>4 DEF Once
  <1>8. /\ \A y \in Absent(u, where') : y \in X
        /\ where'[Idle] # "none" /\ where'[u] # "none"
    BY <1>2, <1>4 DEF X, Absent, NotCreated
  <1> HIDE DEF w, o
  <1>9. Nowhere(Append(ready, Head(o)), sleepers, waiting, w,
                Absent(u, where'))
    BY <1>5, <1>6, <1>7, <1>8, GoesToReady
  <1> QED
    BY <1>1, <1>3, <1>8, <1>9 DEF PlaceInv

(* A thread in a list is none of those said to be in no list. *)
LEMMA ListedIsPresent ==
  ASSUME NEW r, NEW z, NEW w, NEW j, NEW X, Nowhere(r, z, w, j, X), NEW t
  PROVE  /\ Holds(r, t) => t \notin X
         /\ Holds(z, t) => t \notin X
         /\ \A s \in Sem : Holds(Entry(w, s), t) => t \notin X
         /\ \A u \in Thread : Holds(Entry(j, u), t) => t \notin X
  <1> DEFINE L == ListsOf(r, z, w, j)
  <1>1. ListTypes(r, z, w, j) /\ Once(L, X)
    BY DEF Nowhere
  <1>2. /\ Ready \in ListName /\ r = Entry(L, Ready)
        /\ Sleeping \in ListName /\ z = Entry(L, Sleeping)
    BY <1>1, ReadyList, SleepingList
  <1>3. \A s \in Sem : /\ Waiting(s) \in ListName
                       /\ Entry(w, s) = Entry(L, Waiting(s))
    BY <1>1, WaitingList, SMTT(30) DEF ListTypes
  <1>4. \A u \in Thread : /\ Joined(u) \in ListName
                          /\ Entry(j, u) = Entry(L, Joined(u))
    BY <1>1, JoinedList, SMTT(30) DEF ListTypes
  <1> HIDE DEF L
  <1>5. ASSUME NEW l \in ListName, Holds(Entry(L, l), t) PROVE t \notin X
    BY <1>1, <1>5 DEF Once, Holds, Places, At, Entry
  <1> QED
    BY <1>2, <1>3, <1>4, <1>5

(* Sem::semClose moves the threads that wait to the ready list. *)
LEMMA PlaceClose ==
  ASSUME TypeOK, PlaceInv, NEW s \in Sem, SemClose(s)
  PROVE  PlaceInv'
  <1> DEFINE o == Entry(waiting, s)
             w == Put(waiting, s, <<>>)
             X == Absent(currentRunning, where)
  <1>1. /\ ready' = ready \o o /\ waiting' = w
        /\ UNCHANGED <<sleeping, joined, currentRunning, where>>
    BY DEF SemClose, Put, Entry, threadVars, joinVars, timerVars
  <1>2. sleepers' = sleepers
    BY <1>1 DEF sleepers
  <1>3. /\ Nowhere(ready, sleepers, waiting, joined, X)
        /\ where[Idle] # "none" /\ where[currentRunning] # "none"
    BY DEF PlaceInv
  <1> HIDE DEF X
  <1>4. Nowhere(ready \o o, sleepers, w, joined, X)
    BY <1>3, AllReleased
  <1> HIDE DEF o, w
  <1> QED
    BY <1>1, <1>2, <1>3, <1>4 DEF PlaceInv, X

(* Sem::block puts the running thread in the list of the semaphore. *)
LEMMA PlaceBlock ==
  ASSUME TypeOK, PlaceInv, NEW s \in Sem, SemWaitBlocks(s)
  PROVE  PlaceInv'
  <1> DEFINE X == {Idle} \cup NotCreated(where)
             t == currentRunning
             w == Put(waiting, s, Append(Entry(waiting, s), t))
  <1>1. /\ t \in Thread /\ t # Idle
        /\ waiting' = w
        /\ UNCHANGED <<where, sleeping, joined>>
    BY DEF SemWaitBlocks, Client, TypeOK, threadVars, joinVars, timerVars,
           Put, Entry
  <1>2. Switch(ready, [state EXCEPT ![t] = "BLOCKED"], finishedThread,
               "semWait", s)
    BY DEF SemWaitBlocks
  <1>3. sleepers' = sleepers
    BY <1>1 DEF sleepers
  <1>4. /\ Nowhere(ready, sleepers, waiting, joined, Absent(t, where))
        /\ where[Idle] # "none" /\ where[t] # "none"
    BY DEF PlaceInv
  <1>5. /\ t \in Absent(t, where)
        /\ \A y \in X : y \in Absent(t, where) /\ y # t
    BY <1>1, <1>4 DEF Absent, NotCreated
  <1> HIDE DEF X
  <1>6. Nowhere(ready, sleepers, w, joined, X)
    BY <1>1, <1>4, <1>5, GoesToWaiting
  <1> DEFINE marked == [state EXCEPT ![t] = "BLOCKED"]
  <1>7. Switch(ready, marked, finishedThread, "semWait", s)
    BY <1>2
  <1> HIDE DEF w, t, marked
  <1> QED
    BY <1>1, <1>3, <1>4, <1>6, <1>7, PlaceSwitch DEF X

(* Sem::deblock moves the first thread that waits to the ready list. *)
LEMMA PlaceSignal ==
  ASSUME TypeOK, PlaceInv, NEW s \in Sem, SemSignal(s)
  PROVE  PlaceInv'
  <1>1. UNCHANGED <<sleeping, joined, currentRunning, where>>
    BY DEF SemSignal, threadVars, joinVars, timerVars
  <1>2. CASE UNCHANGED <<ready, waiting>>
    BY <1>1, <1>2, PlaceFrame
  <1>3. CASE /\ waiting[s] # <<>>
             /\ waiting' = [waiting EXCEPT ![s] = Tail(@)]
             /\ ready' = Append(ready, Head(waiting[s]))
    <2> DEFINE o == Entry(waiting, s)
               X == Absent(currentRunning, where)
               w == Put(waiting, s, Tail(o))
    <2>1. /\ o # <<>> /\ o \in Seq(Thread)
          /\ ready' = Append(ready, Head(o)) /\ waiting' = w
      BY <1>3 DEF TypeOK, Put, Entry
    <2>2. sleepers' = sleepers
      BY <1>1 DEF sleepers
    <2>3. /\ Nowhere(ready, sleepers, waiting, joined, X)
          /\ where[Idle] # "none" /\ where[currentRunning] # "none"
      BY DEF PlaceInv
    <2> HIDE DEF X
    <2>4. Nowhere(ready, sleepers, w, joined, X \cup {Head(o)})
      BY <2>1, <2>3, LeavesWaiting
    <2>5. Head(o) \in Thread /\ Holds(o, Head(o))
      BY <2>1, HeadTailType, HoldsTail
    <2>6. Head(o) \notin X
      BY <2>3, <2>5, ListedIsPresent
    <2> HIDE DEF w, o
    <2>7. Nowhere(Append(ready, Head(o)), sleepers, w, joined, X)
      BY <2>4, <2>5, <2>6, GoesToReady
    <2> QED
      BY <1>1, <2>1, <2>2, <2>3, <2>7 DEF PlaceInv, X
  <1> QED
    BY <1>2, <1>3 DEF SemSignal, Deblock

(* time_sleep puts the running thread in the list of the sleepers. *)
LEMMA PlaceSleep ==
  ASSUME TypeOK, PlaceInv, NEW n \in SleepTimes, TimeSleep(n)
  PROVE  PlaceInv'
  <1> DEFINE X == {Idle} \cup NotCreated(where)
             t == currentRunning
             e == [thread |-> t, sleepingTime |-> n]
             z == Append(sleepers, t)
  <1>1. /\ t \in Thread /\ t # Idle /\ e \in Sleeper /\ e.thread = t
        /\ sleeping' = Append(sleeping, e) /\ sleeping \in Seq(Sleeper)
        /\ UNCHANGED <<where, waiting, joined>>
    BY NumberAssumption
       DEF TimeSleep, Client, TypeOK, threadVars, semVars, joinVars, Sleeper
  <1>2. Switch(ready, [state EXCEPT ![t] = "SLEEPING"], finishedThread,
               "sleep", None)
    BY DEF TimeSleep
  <1>3. sleepers' = z
    <2>1. sleepers' = Names(sleeping') /\ sleepers = Names(sleeping)
      BY DEF sleepers, Names
    <2> HIDE DEF e
    <2> QED
      BY <1>1, <2>1, NamesAppend
  <1>4. /\ Nowhere(ready, sleepers, waiting, joined, Absent(t, where))
        /\ where[Idle] # "none" /\ where[t] # "none"
    BY DEF PlaceInv
  <1>5. /\ t \in Absent(t, where)
        /\ \A y \in X : y \in Absent(t, where) /\ y # t
    BY <1>1, <1>4 DEF Absent, NotCreated
  <1> HIDE DEF X
  <1>6. Nowhere(ready, z, waiting, joined, X)
    BY <1>1, <1>4, <1>5, GoesToSleepers
  <1> DEFINE marked == [state EXCEPT ![t] = "SLEEPING"]
  <1>7. Switch(ready, marked, finishedThread, "sleep", None)
    BY <1>2
  <1> HIDE DEF z, t, marked
  <1> QED
    BY <1>1, <1>3, <1>4, <1>6, <1>7, PlaceSwitch DEF X

(* checkToRemoveThread moves a sleeper to the ready list. *)
LEMMA PlaceCheck ==
  ASSUME TypeOK, PlaceInv, CheckSleeper
  PROVE  PlaceInv'
  <1>1. UNCHANGED <<waiting, joined, currentRunning, where>>
    BY DEF CheckSleeper, threadVars, semVars, joinVars
  <1>2. CASE UNCHANGED <<ready, sleeping>>
    BY <1>1, <1>2, PlaceFrame
  <1>3. CASE Due(scan)
    <2> DEFINE p == scan
               X == Absent(currentRunning, where)
               z == Without(sleepers, p)
               t == sleepers[p]
    <2>1. /\ p \in DOMAIN sleeping /\ sleeping \in Seq(Sleeper)
          /\ sleeping' = Without(sleeping, p)
          /\ ready' = Append(ready, sleeping[p].thread)
      BY <1>3 DEF CheckSleeper, Without, TypeOK
    <2>2. sleepers' = z
      <3>1. sleepers' = Names(sleeping') /\ sleepers = Names(sleeping)
        BY DEF sleepers, Names
      <3> QED
        BY <2>1, <3>1, NamesWithout
    <2>3. /\ p \in DOMAIN sleepers /\ t \in Thread /\ Holds(sleepers, t)
          /\ t = sleeping[p].thread
      <3>1. /\ p \in DOMAIN sleepers /\ t = sleeping[p].thread
            /\ sleepers \in Seq(Thread)
        BY <2>1, SleepersAreNames, NamesType
      <3> QED
        BY <3>1, ElementOfSeq, LenProperties DEF Holds
    <2>4. /\ Nowhere(ready, sleepers, waiting, joined, X)
          /\ where[Idle] # "none" /\ where[currentRunning] # "none"
      BY DEF PlaceInv
    <2> HIDE DEF X, p
    <2>5. Nowhere(ready, z, waiting, joined, X \cup {t})
      BY <2>3, <2>4, LeavesSleepers
    <2>6. t \notin X
      BY <2>3, <2>4, ListedIsPresent
    <2>7. ready' = Append(ready, t)
      BY <2>1, <2>3
    <2> HIDE DEF z, t
    <2>8. Nowhere(Append(ready, t), z, waiting, joined, X)
      BY <2>3, <2>5, <2>6, GoesToReady
    <2> QED
      BY <1>1, <2>2, <2>4, <2>7, <2>8 DEF PlaceInv, X
  <1> QED
    BY <1>2, <1>3 DEF CheckSleeper

(* The tick itself leaves the list of the sleepers in its order. *)
LEMMA PlaceTick ==
  ASSUME TypeOK, PlaceInv, TimerTrap
  PROVE  PlaceInv'
  <1>1. /\ UNCHANGED <<ready, waiting, joined, currentRunning, where>>
        /\ sleeping' = [i \in DOMAIN sleeping |-> Ticked(sleeping[i])]
        /\ sleeping \in Seq(Sleeper)
    BY DEF TimerTrap, threadVars, semVars, joinVars, TypeOK
  <1>2. sleepers' = Names(sleeping') /\ sleepers = Names(sleeping)
    BY DEF sleepers, Names
  <1>3. sleepers' = sleepers
    BY <1>1, <1>2, NamesTicked
  <1> QED
    BY <1>1, <1>3 DEF PlaceInv

(* Every step keeps PlaceInv. *)
LEMMA PlaceNext == TypeOK /\ PlaceInv /\ [Next]_vars => PlaceInv'
  <1> SUFFICES ASSUME TypeOK, PlaceInv, [Next]_vars PROVE PlaceInv'
    OBVIOUS
  <1>1. CASE ThreadCall
    <2>1. ASSUME NEW t \in User, ThreadCreate(t) PROVE PlaceInv'
      BY <2>1, PlaceCreate
    <2>2. ASSUME NEW t \in User, Terminate(t) PROVE PlaceInv'
      BY <2>2, PlaceFrame DEF Terminate, semVars, joinVars, timerVars
    <2>3. ASSUME NEW t \in User, ThreadJoin(t) PROVE PlaceInv'
      BY <2>3, PlaceJoin
    <2>4. ASSUME NEW t \in User, JoinThroughStaleTail(t) PROVE PlaceInv'
      BY <2>4, PlaceFrame DEF JoinThroughStaleTail, threadVars, schedVars,
                              semVars, joinVars, timerVars
    <2>5. ASSUME ThreadDispatch PROVE PlaceInv'
      BY <2>5, PlaceDispatch DEF ThreadDispatch, threadVars, semVars, joinVars
    <2>6. ASSUME ThreadExit PROVE PlaceInv'
      <3> DEFINE marked == [state EXCEPT ![currentRunning] = "FINISHED"]
                 flags == [finishedThread EXCEPT ![currentRunning] = TRUE]
      <3>1. /\ Dispatch(marked, flags, "exit")
            /\ UNCHANGED <<where, sleeping, waiting, joined>>
        BY <2>6 DEF ThreadExit, semVars, joinVars
      <3> HIDE DEF marked, flags
      <3> QED
        BY <3>1, PlaceDispatch
    <2>7. ASSUME BodyReturns \/ CurrAdvances PROVE PlaceInv'
      <3>1. /\ UNCHANGED <<ready, sleeping, waiting, joined, currentRunning>>
            /\ \A t \in Thread : where'[t] = "none" <=> where[t] = "none"
        BY <2>7 DEF BodyReturns, CurrAdvances, schedVars, semVars, joinVars,
                    timerVars, TypeOK, InBody
      <3>2. /\ Absent(currentRunning, where') = Absent(currentRunning, where)
            /\ currentRunning \in Thread /\ Idle \in Thread
        BY <3>1 DEF Absent, NotCreated, TypeOK, Thread
      <3> QED
        BY <3>1, <3>2 DEF PlaceInv, sleepers
    <2>8. ASSUME ReleaseJoined PROVE PlaceInv'
      BY <2>8, PlaceRelease
    <2>9. ASSUME WrapperReturns PROVE PlaceInv'
      BY <2>9, PlaceFrame DEF WrapperReturns, threadVars, schedVars, semVars,
                              joinVars, timerVars
    <2> QED
      BY <1>1, <2>1, <2>2, <2>3, <2>4, <2>5, <2>6, <2>7, <2>8, <2>9
         DEF ThreadCall
  <1>2. CASE SemCall
    <2>1. ASSUME NEW s \in Sem, NEW v \in InitialValues, SemOpen(s, v)
          PROVE  PlaceInv'
      BY <2>1, PlaceFrame DEF SemOpen, threadVars, schedVars, joinVars,
                              timerVars
    <2>2. ASSUME NEW s \in Sem, SemClose(s) PROVE PlaceInv'
      BY <2>2, PlaceClose
    <2>3. ASSUME NEW s \in Sem, SemWaitPasses(s) PROVE PlaceInv'
      BY <2>3, PlaceFrame DEF SemWaitPasses, threadVars, schedVars, joinVars,
                              timerVars
    <2>4. ASSUME NEW s \in Sem, SemWaitBlocks(s) PROVE PlaceInv'
      BY <2>4, PlaceBlock
    <2>5. ASSUME NEW s \in Sem, SemSignal(s) PROVE PlaceInv'
      BY <2>5, PlaceSignal
    <2> QED
      BY <1>2, <2>1, <2>2, <2>3, <2>4, <2>5 DEF SemCall
  <1>3. CASE \E n \in SleepTimes : TimeSleep(n)
    BY <1>3, PlaceSleep
  <1>4. CASE TimerRaise
    BY <1>4, PlaceFrame
       DEF TimerRaise, threadVars, schedVars, semVars, joinVars
  <1>5. CASE Timer
    <2>1. CASE TimerPreempts
      BY <2>1, PlaceDispatch DEF TimerPreempts, threadVars, semVars, joinVars
    <2>2. CASE TimerContinues
      BY <2>2, PlaceFrame DEF TimerContinues, threadVars, semVars, joinVars
    <2> QED
      BY <1>5, <2>1, <2>2, PlaceTick, PlaceCheck DEF Timer
  <1>6. CASE Returns
    BY <1>6, PlaceFrame
       DEF Returns, StartThread, CallReturns, SemWaitReturns, TimerReturns,
           threadVars, semVars, joinVars, timerVars
  <1>7. CASE UNCHANGED vars
    BY <1>7, PlaceFrame DEF vars, threadVars, schedVars, semVars, joinVars,
                            timerVars
  <1> QED
    BY <1>1, <1>2, <1>3, <1>4, <1>5, <1>6, <1>7 DEF Next

(* PlaceInv is an invariant. *)
LEMMA PlaceInvAlways == Spec => []PlaceInv
  <1>1. Init => PlaceInv
    BY PlaceInit
  <1>2. TypeOK /\ PlaceInv /\ [Next]_vars => PlaceInv'
    BY PlaceNext
  <1> QED
    BY <1>1, <1>2, TypeCorrect, PTL DEF Spec

(* PlaceInv says that no thread is in two places. *)
LEMMA PlaceIsOnePlace == PlaceInv => OnePlace
  <1> SUFFICES ASSUME PlaceInv PROVE OnePlace
    OBVIOUS
  <1> DEFINE L == ListsOf(ready, sleepers, waiting, joined)
  <1>1. Once(L, Absent(currentRunning, where))
    BY DEF PlaceInv, Nowhere
  <1>2. \A l \in ListName : Entry(L, l) = ListOf(l)
    BY DEF ListsOf, ListOf, Entry
  <1> HIDE DEF L
  <1>3. \A l \in ListName : /\ Places(L, l) = DOMAIN ListOf(l)
                            /\ \A i : At(L, l, i) = ListOf(l)[i]
    BY <1>2 DEF Places, At, Entry
  <1>4. \A t \in {currentRunning, Idle} : t \in Absent(currentRunning, where)
    BY DEF Absent
  <1> QED
    BY <1>1, <1>3, <1>4 DEF Once, OnePlace

(***************************************************************************)
(* A thread is never in two places: over the ready list, the sleepers and  *)
(* the lists of all semaphores and threads it occurs at most once, and the *)
(* running thread and the idle one not at all.                             *)
(***************************************************************************)
THEOREM ThreadInOnePlace == Spec => []OnePlace
  BY PlaceIsOnePlace, PlaceInvAlways, PTL

-----------------------------------------------------------------------------
(* What the suspended calls wait for *)

(* The thread t is in the list of s, the lists being w. *)
In(w, s, t) == Holds(w[s], t)

(* A thread in a list has stopped in the call that put it there, and holds *)
(* the handle it gave.                                                     *)
Parked(z, w, j, fr, h, wh) ==
  \A t \in Thread :
    /\ Holds(z, t) => Entry(fr, t) = "sleep"
    /\ \A s \in Sem : In(w, s, t) => /\ Entry(fr, t) = "semWait"
                                     /\ Entry(h, t) = s
    /\ \A u \in Thread : In(j, u, t) => /\ Entry(fr, t) = "join"
                                        /\ Entry(h, t) = u
    /\ Entry(fr, t) = "semWait" => Entry(h, t) \in Sem
    /\ Entry(fr, t) = "join" => Entry(h, t) \in User
    /\ Entry(wh, t) = "none" => Entry(fr, t) = "wrapper"
    /\ t = Idle => Entry(fr, t) \notin {"join", "sleep", "semWait", "exit"}

(* A thread in the ready list is marked so, unless it is finished. *)
Marked(q, st, fin) ==
  \A t \in Thread : Holds(q, t) => Entry(st, t) = "READY" \/ Entry(fin, t)

(* NoThreadLost, c being the thread that runs. *)
Placed(c, q, z, w, j, st, fr, h, fin, wh) ==
  \A t \in Thread \ {Idle} :
    Entry(wh, t) # "none" /\ ~Entry(fin, t) /\ t # c =>
      \/ Entry(st, t) = "READY" /\ Holds(q, t)
      \/ Entry(st, t) = "SLEEPING" /\ Holds(z, t) /\ Entry(fr, t) = "sleep"
      \/ /\ Entry(st, t) = "BLOCKED" /\ Entry(fr, t) = "semWait"
         /\ In(w, Entry(h, t), t)
      \/ /\ Entry(st, t) = "JOINED" /\ Entry(fr, t) = "join"
         /\ In(j, Entry(h, t), t)

(* JoinWaitsForBody. *)
Released(st, fr, h, fin, wh) ==
  \A t \in Thread :
    Entry(fr, t) = "join" /\ Entry(st, t) # "JOINED" /\ ~Entry(fin, t) =>
      Entry(wh, Entry(h, t)) \in {"release", "advance", "exit"}

(* ExitedNeverRuns, c being the thread that runs. *)
Exited(c, fr, fin) ==
  \A t \in Thread : Entry(fr, t) = "exit" => Entry(fin, t) /\ t # c

(* What is kept of the suspended calls while c runs, or while no thread is *)
(* chosen yet (c = None).                                                  *)
Calls(c, q, z, w, j, st, fr, h, fin, wh) ==
  /\ Parked(z, w, j, fr, h, wh)
  /\ Marked(q, st, fin)
  /\ Placed(c, q, z, w, j, st, fr, h, fin, wh)
  /\ Released(st, fr, h, fin, wh)
  /\ Exited(c, fr, fin)

CallInv ==
  /\ Calls(currentRunning, ready, sleepers, waiting, joined, state, frame,
           handle, finishedThread, where)
  /\ Entry(state, currentRunning) \notin {"BLOCKED", "JOINED"}

(* A function changed at one argument. *)
LEMMA EntryPut ==
  ASSUME NEW S, NEW V, NEW f \in [S -> V], NEW a \in S, NEW v
  PROVE  \A x \in S : Entry(Put(f, a, v), x) = IF x = a THEN v ELSE Entry(f, x)
  BY DEF Entry, Put

(* The running thread and the idle thread are in no list. *)
LEMMA Unlisted ==
  ASSUME PlaceInv
  PROVE  \A t \in {currentRunning, Idle} :
           /\ ~Holds(ready, t) /\ ~Holds(sleepers, t)
           /\ \A s \in Sem : ~In(waiting, s, t)
           /\ \A u \in Thread : ~In(joined, u, t)
  <1>1. Nowhere(ready, sleepers, waiting, joined,
                Absent(currentRunning, where))
    BY DEF PlaceInv
  <1>2. \A t \in {currentRunning, Idle} : t \in Absent(currentRunning, where)
    BY DEF Absent
  <1> QED
    BY <1>1, <1>2, ListedIsPresent DEF In, Entry

(* Scheduler::get gives the processor to a ready thread or to the idle one. *)
LEMMA CallsPicked ==
  ASSUME NEW q \in Seq(Thread), NEW z, NEW w, NEW j,
         NEW st \in [Thread -> ThreadState], NEW fr, NEW h, NEW fin, NEW wh,
         Calls(None, q, z, w, j, st, fr, h, fin, wh),
         NEW next, NEW rest, PickNext(q, fin, next, rest), ~Holds(rest, next)
  PROVE  /\ Calls(next, rest, z, w, j, Put(st, next, "RUNNING"), fr, h, fin,
                  wh)
         /\ Entry(Put(st, next, "RUNNING"), next) \notin {"BLOCKED", "JOINED"}
  <1> DEFINE s1 == Put(st, next, "RUNNING")
  <1>1. /\ next \in Thread
        /\ next = Idle \/ (Holds(q, next) /\ ~Entry(fin, next))
        /\ \A t : Holds(rest, t) => Holds(q, t)
        /\ \A t : Holds(q, t) /\ ~Entry(fin, t) => t = next \/ Holds(rest, t)
    BY Picked DEF Entry
  <1>2. \A t \in Thread :
          Entry(s1, t) = IF t = next THEN "RUNNING" ELSE Entry(st, t)
    BY <1>1 DEF Entry, Put
  <1>3. /\ Parked(z, w, j, fr, h, wh) /\ Marked(q, st, fin)
        /\ Placed(None, q, z, w, j, st, fr, h, fin, wh)
        /\ Released(st, fr, h, fin, wh) /\ Exited(None, fr, fin)
    BY DEF Calls
  <1> HIDE DEF s1
  <1>4. Marked(rest, s1, fin)
    BY <1>1, <1>2, <1>3 DEF Marked
  <1>5. Placed(next, rest, z, w, j, s1, fr, h, fin, wh)
    <2>1. \A t \in Thread : t # None
      BY ThreadAssumption DEF Thread
    <2> QED
      BY <1>1, <1>2, <1>3, <2>1 DEF Placed
  <1>6. Released(s1, fr, h, fin, wh)
    <2>1. next = Idle => Entry(fr, next) # "join"
      BY <1>1, <1>3 DEF Parked
    <2>2. next # Idle => Entry(st, next) = "READY"
      BY <1>1, <1>3 DEF Marked
    <2> QED
      BY <1>2, <1>3, <2>1, <2>2 DEF Released
  <1>7. Exited(next, fr, fin)
    BY <1>1, <1>3 DEF Exited, Parked
  <1> QED
    BY <1>1, <1>2, <1>3, <1>4, <1>5, <1>6, <1>7 DEF Calls, s1

(* The end of a call that switches, once what it has done to the lists q,  *)
(* z, w, j and the states st is known to keep the suspended calls.         *)
LEMMA CallsSwitch ==
  ASSUME TypeOK, PlaceInv',
         NEW q \in Seq(Thread), NEW z, NEW w, NEW j,
         NEW st \in [Thread -> ThreadState], NEW fin, NEW k, NEW h,
         Switch(q, st, fin, k, h),
         Calls(None, q, z, w, j, st, Put(frame, currentRunning, k),
               Put(handle, currentRunning, h), fin, where),
         where' = where, finishedThread' = fin,
         sleepers' = z, waiting' = w, joined' = j
  PROVE  CallInv'
  <1> DEFINE s1 == Put(st, currentRunning', "RUNNING")
             f1 == Put(frame, currentRunning, k)
             h1 == Put(handle, currentRunning, h)
  <1>1. /\ PickNext(q, fin, currentRunning', ready')
        /\ state' = s1 /\ frame' = f1 /\ handle' = h1
    BY DEF Switch, Put
  <1>2. ~Holds(ready', currentRunning')
    <2>1. /\ Nowhere(ready', sleepers', waiting', joined',
                     Absent(currentRunning', where'))
          /\ currentRunning' \in Absent(currentRunning', where')
      BY DEF PlaceInv, Absent
    <2> QED
      BY <2>1, ListedIsPresent
  <1> HIDE DEF f1, h1
  <1>3. Calls(None, q, z, w, j, st, f1, h1, fin, where)
    BY DEF f1, h1
  <1>4. /\ Calls(currentRunning', ready', z, w, j, s1, f1, h1, fin, where)
        /\ Entry(s1, currentRunning') \notin {"BLOCKED", "JOINED"}
    BY <1>1, <1>2, <1>3, CallsPicked
  <1> HIDE DEF s1
  <1> QED
    BY <1>1, <1>4 DEF CallInv

(* PCB::dispatch. *)
LEMMA CallsDispatch ==
  ASSUME TypeOK, PlaceInv, PlaceInv', CallInv,
         NEW st \in [Thread -> ThreadState], NEW fin, NEW k,
         Dispatch(st, fin, k),
         \A t \in Thread : t # currentRunning =>
           /\ Entry(st, t) = Entry(state, t)
           /\ Entry(fin, t) <=> Entry(finishedThread, t),
         \/ /\ Entry(st, currentRunning) \notin {"BLOCKED", "JOINED"}
            /\ k \in {"timer", "dispatch"}
         \/ Entry(fin, currentRunning) /\ k = "exit" /\ currentRunning # Idle,
         Entry(finishedThread, currentRunning) => Entry(fin, currentRunning),
         where' = where, finishedThread' = fin,
         sleeping' = sleeping, waiting' = waiting, joined' = joined
  PROVE  CallInv'
  <1> DEFINE c == currentRunning
             f1 == Put(frame, c, k)
             h1 == Put(handle, c, None)
             s1 == Put(st, c, "READY")
             q1 == Append(ready, c)
  <1>1. /\ c \in Thread /\ ready \in Seq(Thread) /\ Entry(where, c) # "none"
        /\ s1 \in [Thread -> ThreadState] /\ q1 \in Seq(Thread)
    BY DEF TypeOK, PlaceInv, Entry, Put, ThreadState
  <1>2. \A t \in Thread :
          /\ Entry(f1, t) = IF t = c THEN k ELSE Entry(frame, t)
          /\ Entry(h1, t) = IF t = c THEN None ELSE Entry(handle, t)
          /\ Entry(s1, t) = IF t = c THEN "READY" ELSE Entry(st, t)
    BY DEF Entry, Put, TypeOK
  <1>3. \A t : Holds(q1, t) <=> Holds(ready, t) \/ t = c
    BY <1>1, HoldsAppend
  <1>4. /\ ~Holds(ready, c) /\ ~Holds(sleepers, c)
        /\ \A s \in Sem : ~In(waiting, s, c)
        /\ \A u \in Thread : ~In(joined, u, c)
    BY Unlisted
  <1>5. /\ Parked(sleepers, waiting, joined, frame, handle, where)
        /\ Marked(ready, state, finishedThread)
        /\ Placed(c, ready, sleepers, waiting, joined, state, frame, handle,
                  finishedThread, where)
        /\ Released(state, frame, handle, finishedThread, where)
        /\ Exited(c, frame, finishedThread)
    BY DEF CallInv, Calls
  <1>6. sleepers' = sleepers
    BY DEF sleepers
  <1>7. \/ Switch(ready, st, fin, k, None) /\ (c = Idle \/ Entry(fin, c))
        \/ Switch(q1, s1, fin, k, None) /\ c # Idle /\ ~Entry(fin, c)
    <2>1. Entry(fin, c) \/ Entry(st, c) \notin {"BLOCKED", "JOINED"}
      OBVIOUS
    <2> QED
      BY <2>1 DEF Dispatch, Entry, Put
  <1> HIDE DEF c, f1, h1, s1, q1
  <1>8. Parked(sleepers, waiting, joined, f1, h1, where)
    BY <1>1, <1>2, <1>4, <1>5 DEF Parked, c
  <1>9. Exited(None, f1, fin)
    <2>1. \A t \in Thread : t # None
      BY ThreadAssumption DEF Thread
    <2> QED
      BY <1>2, <1>5, <2>1 DEF Exited, c
  <1>10. CASE Switch(ready, st, fin, k, None) /\ (c = Idle \/ Entry(fin, c))
    <2>1. Marked(ready, st, fin)
      BY <1>4, <1>5 DEF Marked, c
    <2>2. Placed(None, ready, sleepers, waiting, joined, st, f1, h1, fin,
                 where)
      BY <1>2, <1>5, <1>10 DEF Placed, c
    <2>3. Released(st, f1, h1, fin, where)
      BY <1>2, <1>5, <1>10 DEF Released, c
    <2> QED
      BY <1>1, <1>6, <1>8, <1>9, <1>10, <2>1, <2>2, <2>3, CallsSwitch
         DEF Calls, c, f1, h1
  <1>11. CASE Switch(q1, s1, fin, k, None) /\ c # Idle /\ ~Entry(fin, c)
    <2>1. Marked(q1, s1, fin)
      BY <1>2, <1>3, <1>5 DEF Marked, c
    <2>2. Placed(None, q1, sleepers, waiting, joined, s1, f1, h1, fin, where)
      BY <1>2, <1>3, <1>5, <1>11 DEF Placed, c
    <2>3. Released(s1, f1, h1, fin, where)
      BY <1>2, <1>5, <1>11 DEF Released, c
    <2> QED
      BY <1>1, <1>6, <1>8, <1>9, <1>11, <2>1, <2>2, <2>3, CallsSwitch
         DEF Calls, c, f1, h1
  <1> QED
    BY <1>7, <1>10, <1>11

(* The lists when t goes to the end of the list of a. *)
LEMMA InAppended ==
  ASSUME NEW w, NEW a \in DOMAIN w, Entry(w, a) \in Seq(Thread),
         NEW t \in Thread
  PROVE  \A s \in DOMAIN w : \A x :
           In(Put(w, a, Append(Entry(w, a), t)), s, x)
             <=> In(w, s, x) \/ (s = a /\ x = t)
  <1> DEFINE q == Append(Entry(w, a), t)
             v == Put(w, a, q)
  <1>1. \A x : Holds(q, x) <=> In(w, a, x) \/ x = t
    BY HoldsAppend DEF In, Entry
  <1> HIDE DEF q
  <1>2. \A s \in DOMAIN w : v[s] = IF s = a THEN q ELSE w[s]
    BY DEF Put
  <1> HIDE DEF v
  <1>3. \A s \in DOMAIN w : \A x :
          In(v, s, x) <=> In(w, s, x) \/ (s = a /\ x = t)
    BY <1>1, <1>2 DEF In
  <1> QED
    BY <1>3 DEF v, q

(* The lists when the head leaves the list of a. *)
LEMMA InTail ==
  ASSUME NEW w, NEW a \in DOMAIN w, Entry(w, a) \in Seq(Thread),
         Entry(w, a) # <<>>
  PROVE  \A s \in DOMAIN w : \A x :
           In(w, s, x) <=> \/ In(Put(w, a, Tail(Entry(w, a))), s, x)
                           \/ s = a /\ x = Head(Entry(w, a))
  <1> DEFINE q == Tail(Entry(w, a))
             v == Put(w, a, q)
             e == Head(Entry(w, a))
  <1>1. \A x : In(w, a, x) <=> x = e \/ Holds(q, x)
    BY HoldsTail DEF In, Entry
  <1> HIDE DEF q, e
  <1>2. \A s \in DOMAIN w : v[s] = IF s = a THEN q ELSE w[s]
    BY DEF Put
  <1> HIDE DEF v
  <1>3. \A s \in DOMAIN w : \A x :
          In(w, s, x) <=> In(v, s, x) \/ (s = a /\ x = e)
    BY <1>1, <1>2 DEF In
  <1> QED
    BY <1>3 DEF v, q, e

(***************************************************************************)
(* A call that blocks puts the running thread in the list of the sleepers, *)
(* of the semaphore h or of the thread h, marks it and switches.           *)
(***************************************************************************)
LEMMA CallsBlocked ==
  ASSUME TypeOK, PlaceInv, PlaceInv', CallInv,
         NEW z, NEW w, NEW j, NEW v \in ThreadState, NEW k, NEW h,
         Switch(ready, Put(state, currentRunning, v), finishedThread, k, h),
         where' = where, finishedThread' = finishedThread,
         sleepers' = z, waiting' = w, joined' = j,
         currentRunning # Idle,
         \A t : Holds(z, t) <=> \/ Holds(sleepers, t)
                                \/ t = currentRunning /\ k = "sleep",
         \A s \in Sem : \A t :
           In(w, s, t) <=> \/ In(waiting, s, t)
                           \/ t = currentRunning /\ k = "semWait" /\ s = h,
         \A u \in Thread : \A t :
           In(j, u, t) <=> \/ In(joined, u, t)
                           \/ t = currentRunning /\ k = "join" /\ u = h,
         \/ v = "SLEEPING" /\ k = "sleep"
         \/ v = "BLOCKED" /\ k = "semWait" /\ h \in Sem
         \/ v = "JOINED" /\ k = "join" /\ h \in User
  PROVE  CallInv'
  <1> DEFINE c == currentRunning
             f1 == Put(frame, c, k)
             h1 == Put(handle, c, h)
             s1 == Put(state, c, v)
  <1>1. /\ c \in Thread /\ ready \in Seq(Thread) /\ Entry(where, c) # "none"
        /\ s1 \in [Thread -> ThreadState] /\ User \subseteq Thread
    BY DEF TypeOK, PlaceInv, Entry, Put, Thread
  <1>2. \A t \in Thread :
          /\ Entry(f1, t) = IF t = c THEN k ELSE Entry(frame, t)
          /\ Entry(h1, t) = IF t = c THEN h ELSE Entry(handle, t)
          /\ Entry(s1, t) = IF t = c THEN v ELSE Entry(state, t)
    BY DEF Entry, Put, TypeOK
  <1>3. Switch(ready, s1, finishedThread, k, h)
    OBVIOUS
  <1>4. /\ ~Holds(ready, c) /\ ~Holds(sleepers, c)
        /\ \A s \in Sem : ~In(waiting, s, c)
        /\ \A u \in Thread : ~In(joined, u, c)
    BY Unlisted
  <1>5. /\ Parked(sleepers, waiting, joined, frame, handle, where)
        /\ Marked(ready, state, finishedThread)
        /\ Placed(c, ready, sleepers, waiting, joined, state, frame, handle,
                  finishedThread, where)
        /\ Released(state, frame, handle, finishedThread, where)
        /\ Exited(c, frame, finishedThread)
    BY DEF CallInv, Calls
  <1> HIDE DEF c, f1, h1, s1
  <1>6. Parked(z, w, j, f1, h1, where)
    BY <1>1, <1>2, <1>4, <1>5 DEF Parked, c
  <1>7. Marked(ready, s1, finishedThread)
    BY <1>2, <1>4, <1>5 DEF Marked
  <1>8. Placed(None, ready, z, w, j, s1, f1, h1, finishedThread, where)
    <2>1. ASSUME NEW t \in Thread \ {Idle}, t # c, Entry(where, t) # "none",
                 ~Entry(finishedThread, t)
          PROVE  \/ Entry(s1, t) = "READY" /\ Holds(ready, t)
                 \/ /\ Entry(s1, t) = "SLEEPING" /\ Entry(f1, t) = "sleep"
                    /\ Holds(z, t)
                 \/ /\ Entry(s1, t) = "BLOCKED" /\ Entry(f1, t) = "semWait"
                    /\ In(w, Entry(h1, t), t)
                 \/ /\ Entry(s1, t) = "JOINED" /\ Entry(f1, t) = "join"
                    /\ In(j, Entry(h1, t), t)
      <3>1. /\ Entry(frame, t) = "semWait" => Entry(handle, t) \in Sem
            /\ Entry(frame, t) = "join" => Entry(handle, t) \in Thread
        BY <1>1, <1>5 DEF Parked
      <3> QED
        BY <1>2, <1>5, <2>1, <3>1 DEF Placed
    <2>2. \/ Entry(s1, c) = "SLEEPING" /\ Entry(f1, c) = "sleep" /\ Holds(z, c)
          \/ /\ Entry(s1, c) = "BLOCKED" /\ Entry(f1, c) = "semWait"
             /\ In(w, Entry(h1, c), c)
          \/ /\ Entry(s1, c) = "JOINED" /\ Entry(f1, c) = "join"
             /\ In(j, Entry(h1, c), c)
      BY <1>1, <1>2 DEF c
    <2> QED
      BY <2>1, <2>2 DEF Placed
  <1>9. Released(s1, f1, h1, finishedThread, where)
    BY <1>2, <1>5 DEF Released
  <1>10. Exited(None, f1, finishedThread)
    <2>1. \A t \in Thread : t # None
      BY ThreadAssumption DEF Thread
    <2> QED
      BY <1>2, <1>5, <2>1 DEF Exited
  <1> QED
    BY <1>1, <1>3, <1>6, <1>7, <1>8, <1>9, <1>10, CallsSwitch
       DEF Calls, c, f1, h1

(***************************************************************************)
(* The threads G become ready: created ones, or ones whose call is served. *)
(* With no thread in G, this is any step that leaves the lists alone.      *)
(***************************************************************************)
Moves(G) ==
  /\ UNCHANGED <<currentRunning, frame, handle>>
  /\ \A t \in Thread : Holds(ready', t) <=> Holds(ready, t) \/ t \in G
  /\ \A t \in Thread :
       /\ Holds(sleepers', t) => Holds(sleepers, t)
       /\ Holds(sleepers, t) => Holds(sleepers', t) \/ t \in G
  /\ \A s \in Sem : \A t \in Thread :
       /\ In(waiting', s, t) => In(waiting, s, t)
       /\ In(waiting, s, t) => In(waiting', s, t) \/ t \in G
  /\ \A u \in Thread : \A t \in Thread :
       /\ In(joined', u, t) => In(joined, u, t)
       /\ In(joined, u, t) => In(joined', u, t) \/ t \in G
  /\ \A t \in Thread :
       /\ Entry(finishedThread, t) => Entry(finishedThread', t)
       /\ \/ Entry(state', t) = "READY" /\ t \in G
          \/ Entry(state', t) = Entry(state, t) /\ t \notin G
          \/ Entry(state', t) = "FINISHED" /\ Entry(finishedThread', t)
       /\ Entry(where', t) = "none" => Entry(where, t) = "none"
       /\ Entry(where', t) # "none" => Entry(where, t) # "none" \/ t \in G
       /\ Entry(where, t) \in {"release", "advance", "exit"} =>
            Entry(where', t) \in {"release", "advance", "exit"}
       /\ t \in G /\ Entry(frame, t) = "join" =>
            Entry(where', Entry(handle, t)) \in {"release", "advance", "exit"}

(* Threads that become ready keep CallInv. *)
LEMMA CallsMoved ==
  ASSUME TypeOK, CallInv, NEW G, Moves(G)
  PROVE  CallInv'
  <1> DEFINE c == currentRunning
  <1>1. c \in Thread /\ User \subseteq Thread
    BY DEF TypeOK, Thread
  <1>2. /\ Parked(sleepers, waiting, joined, frame, handle, where)
        /\ Marked(ready, state, finishedThread)
        /\ Placed(c, ready, sleepers, waiting, joined, state, frame, handle,
                  finishedThread, where)
        /\ Released(state, frame, handle, finishedThread, where)
        /\ Exited(c, frame, finishedThread)
        /\ Entry(state, c) \notin {"BLOCKED", "JOINED"}
    BY DEF CallInv, Calls
  <1> HIDE DEF c
  <1>3. Parked(sleepers', waiting', joined', frame, handle, where')
    BY <1>2 DEF Parked, Moves
  <1>4. Marked(ready', state', finishedThread')
    BY <1>2 DEF Marked, Moves
  <1>5. Placed(c, ready', sleepers', waiting', joined', state', frame, handle,
               finishedThread', where')
    <2>1. \A t \in Thread :
            /\ Entry(frame, t) = "semWait" => Entry(handle, t) \in Sem
            /\ Entry(frame, t) = "join" => Entry(handle, t) \in Thread
      BY <1>1, <1>2 DEF Parked
    <2> QED
      BY <1>2, <2>1 DEF Placed, Moves
  <1>6. Released(state', frame, handle, finishedThread', where')
    <2>1. \A t \in Thread :
            Entry(frame, t) = "join" => Entry(handle, t) \in Thread
      BY <1>1, <1>2 DEF Parked
    <2> QED
      BY <1>2, <2>1 DEF Released, Moves
  <1>7. Exited(c, frame, finishedThread')
    BY <1>2 DEF Exited, Moves
  <1>8. Entry(state', c) \notin {"BLOCKED", "JOINED"}
    BY <1>1, <1>2 DEF Moves
  <1>9. UNCHANGED <<currentRunning, frame, handle>>
    BY DEF Moves
  <1> QED
    BY <1>3, <1>4, <1>5, <1>6, <1>7, <1>8, <1>9 DEF CallInv, Calls, c

(* The running thread enters the tick handler, or returns to its code. *)
LEMMA CallsResumed ==
  ASSUME TypeOK, PlaceInv, CallInv, NEW k \in {"thread", "tick"},
         frame' = [frame EXCEPT ![currentRunning] = k],
         \A t \in Thread : t # currentRunning =>
           Entry(handle', t) = Entry(handle, t),
         sleepers' = sleepers,
         UNCHANGED <<currentRunning, ready, waiting, joined, state,
                     finishedThread, where>>
  PROVE  CallInv'
  <1> DEFINE c == currentRunning
  <1>1. /\ c \in Thread /\ Entry(where, c) # "none"
        /\ \A t \in Thread :
             Entry(frame', t) = IF t = c THEN k ELSE Entry(frame, t)
    BY DEF TypeOK, PlaceInv, Entry
  <1>2. /\ ~Holds(sleepers, c)
        /\ \A s \in Sem : ~In(waiting, s, c)
        /\ \A u \in Thread : ~In(joined, u, c)
    BY Unlisted
  <1>3. /\ Parked(sleepers, waiting, joined, frame, handle, where)
        /\ Marked(ready, state, finishedThread)
        /\ Placed(c, ready, sleepers, waiting, joined, state, frame, handle,
                  finishedThread, where)
        /\ Released(state, frame, handle, finishedThread, where)
        /\ Exited(c, frame, finishedThread)
        /\ Entry(state, c) \notin {"BLOCKED", "JOINED"}
    BY DEF CallInv, Calls
  <1> HIDE DEF c
  <1>4. Parked(sleepers, waiting, joined, frame', handle', where)
    BY <1>1, <1>2, <1>3, ZenonT(60) DEF Parked, c
  <1>5. Placed(c, ready, sleepers, waiting, joined, state, frame', handle',
               finishedThread, where)
    BY <1>1, <1>3 DEF Placed, c
  <1>6. Released(state, frame', handle', finishedThread, where)
    BY <1>1, <1>3 DEF Released, c
  <1>7. Exited(c, frame', finishedThread)
    BY <1>1, <1>3 DEF Exited
  <1> QED
    BY <1>3, <1>4, <1>5, <1>6, <1>7 DEF CallInv, Calls, c

(* CallInv holds when main enables interrupts. *)
LEMMA CallsInit == Init => CallInv
  <1> SUFFICES ASSUME Init PROVE CallInv
    OBVIOUS
  <1>1. TypeOK
    BY TypeInit
  <1>2. /\ \A t : ~Holds(ready, t) /\ ~Holds(sleepers, t)
        /\ \A s \in Sem : \A t : ~In(waiting, s, t)
        /\ \A u \in Thread : \A t : ~In(joined, u, t)
    BY DEF Init, Holds, In, sleepers
  <1>3. \A t \in Thread :
          /\ t # currentRunning => Entry(frame, t) = "wrapper"
          /\ t = currentRunning => Entry(frame, t) = "thread"
          /\ t \notin {Main, Idle} => Entry(where, t) = "none"
          /\ t \in {Main, Idle} => Entry(where, t) = "body"
          /\ Entry(state, t) \notin {"BLOCKED", "JOINED"}
    BY ThreadAssumption DEF Init, Entry, Thread
  <1>4. currentRunning = Main /\ Main \in Thread /\ Main # Idle
    BY ThreadAssumption DEF Init, Thread
  <1>5. Parked(sleepers, waiting, joined, frame, handle, where)
    BY <1>2, <1>3, <1>4 DEF Parked
  <1>6. /\ Marked(ready, state, finishedThread)
        /\ Placed(currentRunning, ready, sleepers, waiting, joined, state,
                  frame, handle, finishedThread, where)
        /\ Released(state, frame, handle, finishedThread, where)
        /\ Exited(currentRunning, frame, finishedThread)
    BY <1>2, <1>3, <1>4 DEF Marked, Placed, Released, Exited
  <1> QED
    BY <1>3, <1>4, <1>5, <1>6 DEF CallInv, Calls

(* A step that leaves the lists and the calls alone. *)
LEMMA CallsFrame ==
  ASSUME TypeOK, CallInv,
         UNCHANGED <<schedVars, waiting, joined, sleeping, finishedThread>>,
         where' = where
  PROVE  CallInv'
  BY DEF CallInv, schedVars, sleepers

(* thread_create makes a new thread ready. *)
LEMMA CallsCreate ==
  ASSUME TypeOK, CallInv, NEW t \in User, ThreadCreate(t)
  PROVE  CallInv'
  <1>1. /\ t \in Thread /\ where[t] = "none" /\ ready' = Append(ready, t)
        /\ where' = [where EXCEPT ![t] = "body"]
        /\ state' = [state EXCEPT ![t] = "READY"]
        /\ UNCHANGED <<sleeping, waiting, joined, currentRunning, frame,
                       handle, finishedThread>>
    BY DEF ThreadCreate, Thread, timerVars, semVars, joinVars
  <1>2. sleepers' = sleepers
    BY <1>1 DEF sleepers
  <1>3. \A x : Holds(ready', x) <=> Holds(ready, x) \/ x \in {t}
    BY <1>1, HoldsAppend DEF TypeOK
  <1>4. \A x \in Thread :
          /\ Entry(where', x) = IF x = t THEN "body" ELSE Entry(where, x)
          /\ Entry(state', x) = IF x = t THEN "READY" ELSE Entry(state, x)
    BY <1>1 DEF TypeOK, Entry
  <1>5. Entry(where, t) = "none" /\ Entry(frame, t) = "wrapper"
    BY <1>1 DEF CallInv, Calls, Parked, Entry
  <1> DEFINE G == {t}
  <1>6. \A x : x \in G <=> x = t
    OBVIOUS
  <1> HIDE DEF G
  <1>7. \A x : Holds(ready', x) <=> Holds(ready, x) \/ x \in G
    BY <1>3, <1>6
  <1>8. Moves(G)
    BY <1>1, <1>2, <1>4, <1>5, <1>6, <1>7 DEF Moves
  <1> QED
    BY <1>8, CallsMoved

(* A terminated thread stays where it is. *)
LEMMA CallsTerminate ==
  ASSUME TypeOK, CallInv, NEW t \in User, Terminate(t)
  PROVE  CallInv'
  <1>1. /\ UNCHANGED <<ready, sleeping, waiting, joined, currentRunning, frame,
                       handle, where>>
        /\ finishedThread' = [finishedThread EXCEPT ![t] = TRUE]
        /\ state' = [state EXCEPT ![t] = "FINISHED"]
    BY DEF Terminate, timerVars, semVars, joinVars
  <1>2. sleepers' = sleepers
    BY <1>1 DEF sleepers
  <1>3. \A x \in Thread :
          /\ Entry(finishedThread, x) => Entry(finishedThread', x)
          /\ \/ Entry(state', x) = Entry(state, x)
             \/ Entry(state', x) = "FINISHED" /\ Entry(finishedThread', x)
    BY <1>1 DEF TypeOK, Entry
  <1> DEFINE G == {}
  <1>4. \A x : x \notin G
    OBVIOUS
  <1> HIDE DEF G
  <1>5. Moves(G)
    BY <1>1, <1>2, <1>3, <1>4 DEF Moves
  <1> QED
    BY <1>5, CallsMoved

(* A body that returns releases nobody yet, and a move of curr nobody more. *)
LEMMA CallsBodyReturns ==
  ASSUME TypeOK, CallInv, BodyReturns \/ CurrAdvances
  PROVE  CallInv'
  <1>1. /\ UNCHANGED <<ready, sleeping, waiting, joined, currentRunning, frame,
                       handle, state, finishedThread>>
        /\ where[currentRunning] \in {"body", "advance"}
        /\ \E v \in {"release", "advance", "exit"} :
             where' = [where EXCEPT ![currentRunning] = v]
    BY DEF BodyReturns, CurrAdvances, InBody, schedVars, timerVars, semVars,
           joinVars
  <1>2. sleepers' = sleepers
    BY <1>1 DEF sleepers
  <1>3. \A x \in Thread :
          /\ Entry(where', x) = "none" <=> Entry(where, x) = "none"
          /\ Entry(where, x) \in {"release", "advance", "exit"} =>
               Entry(where', x) \in {"release", "advance", "exit"}
    BY <1>1 DEF TypeOK, Entry
  <1> DEFINE G == {}
  <1>4. \A x : x \notin G
    OBVIOUS
  <1> HIDE DEF G
  <1>5. Moves(G)
    BY <1>1, <1>2, <1>3, <1>4 DEF Moves
  <1> QED
    BY <1>5, CallsMoved

(* A turn of the loop of PCB::run: this thread's body has returned. *)
LEMMA CallsRelease ==
  ASSUME TypeOK, CallInv, ReleaseJoined
  PROVE  CallInv'
  <1> DEFINE u == currentRunning
             o == Entry(joined, u)
             t == Head(o)
  <1>1. /\ u \in Thread /\ o # <<>> /\ o \in Seq(Thread)
        /\ ready' = Append(ready, t) /\ joined' = Put(joined, u, Tail(o))
        /\ state' = [state EXCEPT ![t] = "READY"]
        /\ where[u] = "release"
        /\ where' = [where EXCEPT ![u] = "advance"]
        /\ UNCHANGED <<sleeping, waiting, currentRunning, frame, handle,
                       finishedThread>>
    BY DEF ReleaseJoined, InReleaseLoop, TypeOK, semVars, timerVars, Put, Entry
  <1>2. sleepers' = sleepers /\ t \in Thread
    BY <1>1, HeadTailType DEF sleepers
  <1>3. \A x \in Thread :
          /\ Entry(where', x) = "none" <=> Entry(where, x) = "none"
          /\ Entry(where, x) \in {"release", "advance", "exit"} =>
               Entry(where', x) \in {"release", "advance", "exit"}
    BY <1>1 DEF TypeOK, Entry
  <1>4. Entry(where', u) \in {"release", "advance", "exit"}
    BY <1>1 DEF TypeOK, Entry
  <1>5. \A x : Holds(ready', x) <=> Holds(ready, x) \/ x = t
    BY <1>1, <1>2, HoldsAppend DEF TypeOK
  <1>6. \A x \in Thread :
          Entry(state', x) = IF x = t THEN "READY" ELSE Entry(state, x)
    BY <1>1 DEF TypeOK, Entry
  <1>7. \A s \in Thread : \A x :
          In(joined, s, x) <=> In(joined', s, x) \/ (s = u /\ x = t)
    <2>1. DOMAIN joined = Thread
      BY DEF TypeOK
    <2> HIDE DEF u
    <2>2. \A s \in Thread : \A x :
            In(joined, s, x) <=> \/ In(Put(joined, u, Tail(o)), s, x)
                                 \/ s = u /\ x = Head(o)
      BY <1>1, <2>1, InTail
    <2> QED
      BY <1>1, <2>2
  <1> HIDE DEF u, o, t
  <1>8. Entry(frame, t) = "join" => Entry(handle, t) = u
    <2>1. In(joined, u, t)
      BY <1>1, <1>7
    <2> QED
      BY <1>1, <1>2, <2>1 DEF CallInv, Calls, Parked
  <1> DEFINE G == {t}
  <1>9. \A x : x \in G <=> x = t
    OBVIOUS
  <1> HIDE DEF G
  <1>10. \A x \in Thread :
           \A y \in Thread :
             /\ In(joined', x, y) => In(joined, x, y)
             /\ In(joined, x, y) => In(joined', x, y) \/ y \in G
    BY <1>2, <1>7, <1>9
  <1>11. \A x \in Thread : x \in G /\ Entry(frame, x) = "join" =>
           Entry(where', Entry(handle, x)) \in {"release", "advance", "exit"}
    BY <1>4, <1>8, <1>9
  <1>12. \A x : Holds(ready', x) <=> Holds(ready, x) \/ x \in G
    BY <1>5, <1>9
  <1>13. \A x \in Thread :
           \/ Entry(state', x) = "READY" /\ x \in G
           \/ Entry(state', x) = Entry(state, x) /\ x \notin G
    BY <1>6, <1>9
  <1>14. Moves(G)
    BY <1>1, <1>2, <1>3, <1>10, <1>11, <1>12, <1>13 DEF Moves
  <1> QED
    BY <1>14, CallsMoved

(* semClose makes every thread ready that waits. *)
LEMMA CallsClose ==
  ASSUME TypeOK, CallInv, NEW s \in Sem, SemClose(s)
  PROVE  CallInv'
  <1> DEFINE o == Entry(waiting, s)
             G == {o[i] : i \in DOMAIN o}
  <1>1. /\ ready' = ready \o o /\ waiting' = Put(waiting, s, <<>>)
        /\ state' = [t \in Thread |-> IF t \in G THEN "READY" ELSE state[t]]
        /\ UNCHANGED <<sleeping, joined, currentRunning, where, frame, handle,
                       finishedThread>>
        /\ o \in Seq(Thread) /\ ready \in Seq(Thread)
    BY DEF SemClose, Put, Entry, threadVars, joinVars, timerVars, TypeOK
  <1>2. sleepers' = sleepers
    BY <1>1 DEF sleepers
  <1>3. \A t : t \in G <=> In(waiting, s, t)
    BY DEF In, Holds, Entry
  <1> HIDE DEF G
  <1>4. \A t \in Thread :
          Entry(state', t) = IF t \in G THEN "READY" ELSE Entry(state, t)
    BY <1>1 DEF Entry
  <1>5. \A t : Holds(ready', t) <=> Holds(ready, t) \/ t \in G
    <2>1. \A t : Holds(o, t) <=> t \in G
      BY <1>3 DEF In, Entry
    <2> HIDE DEF o
    <2> QED
      BY <1>1, <2>1, HoldsConcat
  <1>6. \A r \in Sem : \A t :
          In(waiting', r, t) <=> In(waiting, r, t) /\ r # s
    <2>1. \A r \in Sem : waiting'[r] = IF r = s THEN <<>> ELSE waiting[r]
      BY <1>1 DEF Put, TypeOK
    <2>2. \A t : ~Holds(<<>>, t)
      BY DEF Holds
    <2> QED
      BY <2>1, <2>2 DEF In
  <1>7. \A t \in Thread : t \in G => Entry(frame, t) = "semWait"
    BY <1>3 DEF CallInv, Calls, Parked
  <1> HIDE DEF o
  <1>8. \A r \in Sem : \A t \in Thread :
          /\ In(waiting', r, t) => In(waiting, r, t)
          /\ In(waiting, r, t) => In(waiting', r, t) \/ t \in G
    BY <1>3, <1>6
  <1>9. \A t \in Thread :
           \/ Entry(state', t) = "READY" /\ t \in G
           \/ Entry(state', t) = Entry(state, t) /\ t \notin G
    BY <1>4
  <1>10. Moves(G)
    BY <1>1, <1>2, <1>5, <1>7, <1>8, <1>9 DEF Moves
  <1> QED
    BY <1>10, CallsMoved

(* semSignal makes the first one ready. *)
LEMMA CallsSignal ==
  ASSUME TypeOK, CallInv, NEW s \in Sem, SemSignal(s)
  PROVE  CallInv'
  <1>1. UNCHANGED <<sleeping, joined, currentRunning, where, frame, handle,
                    finishedThread>>
    BY DEF SemSignal, threadVars, joinVars, timerVars
  <1>2. CASE UNCHANGED <<ready, waiting, state>>
    BY <1>1, <1>2, CallsFrame DEF schedVars
  <1>3. CASE /\ waiting[s] # <<>>
             /\ waiting' = [waiting EXCEPT ![s] = Tail(@)]
             /\ ready' = Append(ready, Head(waiting[s]))
             /\ state' = [state EXCEPT ![Head(waiting[s])] = "READY"]
    <2> DEFINE o == Entry(waiting, s)
               t == Head(o)
               G == {t}
    <2>1. /\ o # <<>> /\ o \in Seq(Thread) /\ ready \in Seq(Thread)
          /\ ready' = Append(ready, t) /\ waiting' = Put(waiting, s, Tail(o))
          /\ state' = [state EXCEPT ![t] = "READY"]
          /\ DOMAIN waiting = Sem /\ t \in Thread
      BY <1>3, HeadTailType DEF TypeOK, Put, Entry
    <2>2. sleepers' = sleepers
      BY <1>1 DEF sleepers
    <2>3. \A r \in Sem : \A x :
            In(waiting, r, x) <=> In(waiting', r, x) \/ (r = s /\ x = t)
      <3>1. \A r \in Sem : \A x :
              In(waiting, r, x) <=> \/ In(Put(waiting, s, Tail(o)), r, x)
                                    \/ r = s /\ x = Head(o)
        BY <2>1, InTail
      <3> QED
        BY <2>1, <3>1
    <2>4. \A x \in Thread :
            Entry(state', x) = IF x = t THEN "READY" ELSE Entry(state, x)
      BY <2>1 DEF TypeOK, Entry
    <2>5. \A x : x \in G <=> x = t
      OBVIOUS
    <2> HIDE DEF o, t, G
    <2>6. \A x : Holds(ready', x) <=> Holds(ready, x) \/ x \in G
      BY <2>1, <2>5, HoldsAppend
    <2>7. \A x \in Thread :
            \/ Entry(state', x) = "READY" /\ x \in G
            \/ Entry(state', x) = Entry(state, x) /\ x \notin G
      BY <2>4, <2>5
    <2>8. \A r \in Sem : \A x \in Thread :
            /\ In(waiting', r, x) => In(waiting, r, x)
            /\ In(waiting, r, x) => In(waiting', r, x) \/ x \in G
      BY <2>3, <2>5
    <2>9. \A x \in Thread : x \in G => Entry(frame, x) = "semWait"
      BY <2>1, <2>3, <2>5 DEF CallInv, Calls, Parked
    <2>10. Moves(G)
      BY <1>1, <2>2, <2>6, <2>7, <2>8, <2>9 DEF Moves
    <2> QED
      BY <2>10, CallsMoved
  <1> QED
    BY <1>2, <1>3 DEF SemSignal, Deblock

(* checkToRemoveThread makes a sleeper ready. *)
LEMMA CallsCheck ==
  ASSUME TypeOK, CallInv, CheckSleeper
  PROVE  CallInv'
  <1>1. UNCHANGED <<waiting, joined, currentRunning, where, frame, handle,
                    finishedThread>>
    BY DEF CheckSleeper, threadVars, semVars, joinVars
  <1>2. CASE UNCHANGED <<sleeping, ready, state>>
    BY <1>1, <1>2, CallsFrame DEF schedVars
  <1>3. CASE /\ scan \in DOMAIN sleeping
             /\ sleeping' = SubSeq(sleeping, 1, scan - 1) \o
                              SubSeq(sleeping, scan + 1, Len(sleeping))
             /\ ready' = Append(ready, sleeping[scan].thread)
             /\ state' = [state EXCEPT ![sleeping[scan].thread] = "READY"]
    <2> DEFINE t == sleepers[scan]
               z == Without(sleepers, scan)
               G == {t}
    <2>1. /\ scan \in DOMAIN sleeping /\ sleeping' = Without(sleeping, scan)
          /\ sleeping \in Seq(Sleeper)
      BY <1>3 DEF Without, TypeOK
    <2>2. sleepers' = z
      <3>1. /\ sleepers' = Names(sleeping') /\ sleepers = Names(sleeping)
            /\ Names(Without(sleeping, scan)) = Without(Names(sleeping), scan)
        BY <2>1, NamesWithout DEF sleepers, Names
      <3> QED
        BY <2>1, <3>1
    <2>3. /\ scan \in DOMAIN sleepers /\ sleepers \in Seq(Thread)
          /\ t = sleeping[scan].thread /\ t \in Thread
      <3>1. /\ scan \in DOMAIN sleepers /\ t = sleeping[scan].thread
            /\ sleepers \in Seq(Thread)
        BY <2>1, SleepersAreNames, NamesType
      <3> QED
        BY <3>1, ElementOfSeq, LenProperties
    <2>4. \A x : Holds(sleepers, x) <=> x = t \/ Holds(z, x)
      BY <2>3, HoldsWithout
    <2>5. /\ ready' = Append(ready, t) /\ ready \in Seq(Thread)
          /\ state' = [state EXCEPT ![t] = "READY"]
      BY <1>3, <2>3 DEF TypeOK
    <2>6. \A x : x \in G <=> x = t
      OBVIOUS
    <2> HIDE DEF t, z, G
    <2>7. \A x \in Thread :
            Entry(state', x) = IF x = t THEN "READY" ELSE Entry(state, x)
      BY <2>5 DEF TypeOK, Entry
    <2>8. \A x : Holds(ready', x) <=> Holds(ready, x) \/ x \in G
      BY <2>3, <2>5, <2>6, HoldsAppend
    <2>9. \A x \in Thread :
            \/ Entry(state', x) = "READY" /\ x \in G
            \/ Entry(state', x) = Entry(state, x) /\ x \notin G
      BY <2>6, <2>7
    <2>10. \A x \in Thread : x \in G => Entry(frame, x) = "sleep"
      BY <2>3, <2>4, <2>6 DEF CallInv, Calls, Parked
    <2>11. \A x \in Thread :
             /\ Holds(sleepers', x) => Holds(sleepers, x)
             /\ Holds(sleepers, x) => Holds(sleepers', x) \/ x \in G
      BY <2>2, <2>4, <2>6
    <2>12. Moves(G)
      BY <1>1, <2>8, <2>9, <2>10, <2>11 DEF Moves
    <2> QED
      BY <2>12, CallsMoved
  <1> QED
    BY <1>2, <1>3 DEF CheckSleeper

(* thread_join blocks in the list of the joined thread, *)
LEMMA CallsJoin ==
  ASSUME TypeOK, PlaceInv, PlaceInv', CallInv, NEW u \in User, ThreadJoin(u)
  PROVE  CallInv'
  <1> DEFINE c == currentRunning
             j == Put(joined, u, Append(Entry(joined, u), c))
  <1>1. /\ u \in DOMAIN joined /\ DOMAIN joined = Thread /\ c \in Thread
        /\ Entry(joined, u) \in Seq(Thread) /\ c # Idle
        /\ joined' = j /\ "JOINED" \in ThreadState
        /\ UNCHANGED <<where, finishedThread, sleeping, waiting>>
    BY DEF ThreadJoin, Client, Thread, TypeOK, threadVars, semVars, timerVars,
           Put, Entry, ThreadState
  <1>2. Switch(ready, Put(state, c, "JOINED"), finishedThread, "join", u)
    BY DEF ThreadJoin, ListAtJoin, Put
  <1>3. sleepers' = sleepers
    BY <1>1 DEF sleepers
  <1>4. \A s \in Thread : \A x :
          In(j, s, x) <=> In(joined, s, x) \/ (s = u /\ x = c)
    <2> HIDE DEF c
    <2> QED
      BY <1>1, InAppended
  <1> HIDE DEF j
  <1>5. \A s \in Sem : \A t : In(waiting, s, t) <=>
          In(waiting, s, t) \/ (t = c /\ "join" = "semWait" /\ s = u)
    OBVIOUS
  <1>6. \A t : Holds(sleepers, t) <=>
          Holds(sleepers, t) \/ (t = c /\ "join" = "sleep")
    OBVIOUS
  <1>7. \A x \in Thread : \A t : In(j, x, t) <=>
          In(joined, x, t) \/ (t = c /\ "join" = "join" /\ x = u)
    BY <1>4
  <1> QED
    BY <1>1, <1>2, <1>3, <1>5, <1>6, <1>7, CallsBlocked

(* semWait in that of the semaphore, *)
LEMMA CallsBlock ==
  ASSUME TypeOK, PlaceInv, PlaceInv', CallInv,
         NEW s \in Sem, SemWaitBlocks(s)
  PROVE  CallInv'
  <1> DEFINE c == currentRunning
             w == Put(waiting, s, Append(Entry(waiting, s), c))
  <1>1. /\ s \in DOMAIN waiting /\ DOMAIN waiting = Sem /\ c \in Thread
        /\ Entry(waiting, s) \in Seq(Thread) /\ c # Idle
        /\ waiting' = w /\ "BLOCKED" \in ThreadState
        /\ UNCHANGED <<where, finishedThread, sleeping, joined>>
    BY DEF SemWaitBlocks, Client, TypeOK, threadVars, joinVars, timerVars,
           Put, Entry, ThreadState
  <1>2. Switch(ready, Put(state, c, "BLOCKED"), finishedThread, "semWait", s)
    BY DEF SemWaitBlocks, Put
  <1>3. sleepers' = sleepers
    BY <1>1 DEF sleepers
  <1>4. \A r \in Sem : \A x :
          In(w, r, x) <=> In(waiting, r, x) \/ (r = s /\ x = c)
    <2> HIDE DEF c
    <2> QED
      BY <1>1, InAppended
  <1> HIDE DEF w
  <1> QED
    BY <1>1, <1>2, <1>3, <1>4, CallsBlocked, SMTT(30)

(* and time_sleep in that of the sleepers. *)
LEMMA CallsSleep ==
  ASSUME TypeOK, PlaceInv, PlaceInv', CallInv,
         NEW n \in SleepTimes, TimeSleep(n)
  PROVE  CallInv'
  <1> DEFINE c == currentRunning
             e == [thread |-> c, sleepingTime |-> n]
             z == Append(sleepers, c)
  <1>1. /\ c \in Thread /\ c # Idle /\ e \in Sleeper /\ e.thread = c
        /\ sleeping' = Append(sleeping, e) /\ sleeping \in Seq(Sleeper)
        /\ "SLEEPING" \in ThreadState
        /\ UNCHANGED <<where, finishedThread, waiting, joined>>
    BY NumberAssumption
       DEF TimeSleep, Client, TypeOK, threadVars, semVars, joinVars, Sleeper,
           ThreadState
  <1>2. Switch(ready, Put(state, c, "SLEEPING"), finishedThread, "sleep", None)
    BY DEF TimeSleep, Put
  <1>3. sleepers' = z
    <2>1. sleepers' = Names(sleeping') /\ sleepers = Names(sleeping)
      BY DEF sleepers, Names
    <2> HIDE DEF e
    <2> QED
      BY <1>1, <2>1, NamesAppend
  <1>4. \A x : Holds(z, x) <=> Holds(sleepers, x) \/ x = c
    BY <1>1, SleepersAreNames, HoldsAppend
  <1> HIDE DEF z, e
  <1>5. UNCHANGED <<where, finishedThread, waiting, joined>> /\ c # Idle
        /\ "SLEEPING" \in ThreadState
    BY <1>1
  <1> QED
    BY <1>2, <1>3, <1>4, <1>5, CallsBlocked

(* thread_exit leaves a finished thread in no list. *)
LEMMA CallsExit ==
  ASSUME TypeOK, PlaceInv, PlaceInv', CallInv, ThreadExit
  PROVE  CallInv'
  <1> DEFINE c == currentRunning
             marked == [state EXCEPT ![c] = "FINISHED"]
             flags == [finishedThread EXCEPT ![c] = TRUE]
  <1>1. /\ Dispatch(marked, flags, "exit") /\ finishedThread' = flags
        /\ c \in User /\ c # Idle
        /\ UNCHANGED <<where, sleeping, waiting, joined>>
    BY ThreadAssumption DEF ThreadExit, ExitCalled, semVars, joinVars
  <1>2. /\ marked \in [Thread -> ThreadState]
        /\ Entry(flags, c)
        /\ \A t \in Thread : t # c =>
             /\ Entry(marked, t) = Entry(state, t)
             /\ Entry(flags, t) <=> Entry(finishedThread, t)
    BY DEF TypeOK, ThreadState, Entry
  <1> HIDE DEF marked, flags
  <1> QED
    BY <1>1, <1>2, CallsDispatch

(* thread_dispatch and the end of a time slice. *)
LEMMA CallsPreempted ==
  ASSUME TypeOK, PlaceInv, PlaceInv', CallInv, NEW k \in {"timer", "dispatch"},
         Dispatch(state, finishedThread, k),
         UNCHANGED <<where, finishedThread, sleeping, waiting, joined>>
  PROVE  CallInv'
  <1>1. /\ state \in [Thread -> ThreadState]
        /\ Entry(state, currentRunning) \notin {"BLOCKED", "JOINED"}
    BY DEF TypeOK, CallInv
  <1> QED
    BY <1>1, CallsDispatch

(* A call that was switched back to returns. *)
LEMMA CallsReturn ==
  ASSUME TypeOK, PlaceInv, CallInv, Returns
  PROVE  CallInv'
  <1>1. /\ frame' = [frame EXCEPT ![currentRunning] = "thread"]
        /\ handle' = [handle EXCEPT ![currentRunning] = None]
        /\ UNCHANGED <<currentRunning, ready, waiting, joined, state,
                       finishedThread, where, sleeping>>
    BY DEF Returns, StartThread, CallReturns, SemWaitReturns, TimerReturns,
           Resume, threadVars, semVars, joinVars, timerVars
  <1>2. sleepers' = sleepers
    BY <1>1 DEF sleepers
  <1>3. \A t \in Thread : t # currentRunning =>
          Entry(handle', t) = Entry(handle, t)
    BY <1>1 DEF Entry, TypeOK
  <1> QED
    BY <1>1, <1>2, <1>3, CallsResumed

(* The tick counts the sleepers down and moves none. *)
LEMMA CallsTick ==
  ASSUME TypeOK, PlaceInv, CallInv, TimerTrap
  PROVE  CallInv'
  <1>1. /\ frame' = [frame EXCEPT ![currentRunning] = "tick"]
        /\ UNCHANGED <<currentRunning, ready, waiting, joined, state,
                       finishedThread, where, handle>>
        /\ sleeping' = [i \in DOMAIN sleeping |-> Ticked(sleeping[i])]
        /\ sleeping \in Seq(Sleeper)
    BY DEF TimerTrap, threadVars, semVars, joinVars, TypeOK
  <1>2. sleepers' = sleepers
    <2>1. sleepers' = Names(sleeping') /\ sleepers = Names(sleeping)
      BY DEF sleepers, Names
    <2> QED
      BY <1>1, <2>1, NamesTicked
  <1> QED
    BY <1>1, <1>2, CallsResumed

(* Every step keeps CallInv. *)
LEMMA CallsNext ==
  TypeOK /\ PlaceInv /\ PlaceInv' /\ CallInv /\ [Next]_vars => CallInv'
  <1> SUFFICES ASSUME TypeOK, PlaceInv, PlaceInv', CallInv, [Next]_vars
               PROVE  CallInv'
    OBVIOUS
  <1>1. CASE ThreadCall
    <2>1. CASE ThreadDispatch
      BY <2>1, CallsPreempted DEF ThreadDispatch, threadVars, semVars, joinVars
    <2>2. ASSUME NEW t \in User, JoinThroughStaleTail(t) PROVE CallInv'
      BY <2>2, CallsFrame DEF JoinThroughStaleTail, threadVars, schedVars,
                              semVars, joinVars, timerVars
    <2>3. CASE WrapperReturns
      BY <2>3, CallsFrame DEF WrapperReturns, threadVars, schedVars, semVars,
                              joinVars, timerVars
    <2> QED
      BY <1>1, <2>1, <2>2, <2>3, CallsCreate, CallsTerminate, CallsJoin,
         CallsExit, CallsBodyReturns, CallsRelease DEF ThreadCall
  <1>2. CASE SemCall
    <2>1. ASSUME NEW s \in Sem, NEW v \in InitialValues, SemOpen(s, v)
          PROVE  CallInv'
      BY <2>1, CallsFrame DEF SemOpen, threadVars, joinVars, timerVars
    <2>2. ASSUME NEW s \in Sem, SemWaitPasses(s) PROVE CallInv'
      BY <2>2, CallsFrame DEF SemWaitPasses, threadVars, joinVars, timerVars
    <2> QED
      BY <1>2, <2>1, <2>2, CallsClose, CallsBlock, CallsSignal DEF SemCall
  <1>3. CASE \E n \in SleepTimes : TimeSleep(n)
    BY <1>3, CallsSleep
  <1>4. CASE TimerRaise
    BY <1>4, CallsFrame DEF TimerRaise, threadVars, semVars, joinVars
  <1>5. CASE Timer
    <2>1. CASE TimerPreempts
      BY <2>1, CallsPreempted DEF TimerPreempts, threadVars, semVars, joinVars
    <2>2. CASE TimerContinues
      <3>1. sleepers' = sleepers
        BY <2>2 DEF TimerContinues, sleepers
      <3> QED
        BY <2>2, <3>1, CallsResumed
           DEF TimerContinues, threadVars, semVars, joinVars
    <2> QED
      BY <1>5, <2>1, <2>2, CallsTick, CallsCheck DEF Timer
  <1>6. CASE Returns
    BY <1>6, CallsReturn
  <1>7. CASE UNCHANGED vars
    BY <1>7, CallsFrame DEF vars, threadVars, semVars, joinVars, timerVars
  <1> QED
    BY <1>1, <1>2, <1>3, <1>4, <1>5, <1>6, <1>7 DEF Next

(* CallInv is an invariant. *)
LEMMA CallInvAlways == Spec => [](TypeOK /\ PlaceInv /\ CallInv)
  <1>1. Init => CallInv
    BY CallsInit
  <1>2. TypeOK /\ PlaceInv /\ PlaceInv' /\ CallInv /\ [Next]_vars => CallInv'
    BY CallsNext
  <1> QED
    BY <1>1, <1>2, TypeCorrect, PlaceInvAlways, PTL DEF Spec

-----------------------------------------------------------------------------
(* The flag semClose leaves on the threads it releases *)

(* CloseFlagAddressed. *)
FlagInv ==
  \A t \in Thread : Entry(isReleasedAfterClosing, t) =>
    /\ Entry(frame, t) = "semWait"
    /\ Entry(closed, Entry(handle, t))
    /\ ~In(waiting, Entry(handle, t), t)

(* A thread that stopped in semWait did so on a semaphore. *)
LEMMA WaitsOnSem ==
  ASSUME CallInv
  PROVE  \A t \in Thread :
           Entry(frame, t) = "semWait" => Entry(handle, t) \in Sem
  BY DEF CallInv, Calls, Parked

(* A step sets no flag and touches no call of a thread that has one. *)
LEMMA FlagKept ==
  ASSUME CallInv, FlagInv,
         \A t \in Thread : Entry(isReleasedAfterClosing', t) =>
           /\ Entry(isReleasedAfterClosing, t)
           /\ Entry(frame', t) = Entry(frame, t)
           /\ Entry(handle', t) = Entry(handle, t)
           /\ \A s \in Sem : In(waiting', s, t) => In(waiting, s, t),
         \A s \in Sem : Entry(closed, s) => Entry(closed', s)
  PROVE  FlagInv'
  <1>1. \A t \in Thread :
          Entry(frame, t) = "semWait" => Entry(handle, t) \in Sem
    BY WaitsOnSem
  <1> QED
    BY <1>1 DEF FlagInv

(* Only the running thread moves, and it has not stopped in semWait. *)
LEMMA FlagRunner ==
  ASSUME TypeOK, CallInv, FlagInv, NEW k,
         frame[currentRunning] # "semWait",
         frame' = [frame EXCEPT ![currentRunning] = k],
         \A t \in Thread : t # currentRunning =>
           Entry(handle', t) = Entry(handle, t),
         UNCHANGED <<isReleasedAfterClosing, closed>>,
         \A s \in Sem : \A t \in Thread : t # currentRunning =>
           (In(waiting', s, t) => In(waiting, s, t))
  PROVE  FlagInv'
  <1>1. ~Entry(isReleasedAfterClosing, currentRunning)
    BY DEF FlagInv, Entry, TypeOK
  <1>2. \A t \in Thread :
          t # currentRunning => Entry(frame', t) = Entry(frame, t)
    BY DEF Entry, TypeOK
  <1> QED
    BY <1>1, <1>2, FlagKept

(* So it is when a call of the running thread switches, *)
LEMMA FlagSwitch ==
  ASSUME TypeOK, CallInv, FlagInv, NEW q, NEW st, NEW fin, NEW k, NEW h,
         Switch(q, st, fin, k, h),
         frame[currentRunning] # "semWait",
         UNCHANGED <<isReleasedAfterClosing, closed>>,
         \A s \in Sem : \A t \in Thread : t # currentRunning =>
           (In(waiting', s, t) => In(waiting, s, t))
  PROVE  FlagInv'
  <1>1. /\ frame' = [frame EXCEPT ![currentRunning] = k]
        /\ handle' = [handle EXCEPT ![currentRunning] = h]
    BY DEF Switch
  <1>2. \A t \in Thread : t # currentRunning =>
          Entry(handle', t) = Entry(handle, t)
    BY <1>1 DEF Entry, TypeOK
  <1> QED
    BY <1>1, <1>2, FlagRunner

(* and when it is dispatched. *)
LEMMA FlagDispatch ==
  ASSUME TypeOK, CallInv, FlagInv, NEW st, NEW fin, NEW k,
         Dispatch(st, fin, k), frame[currentRunning] # "semWait",
         UNCHANGED semVars
  PROVE  FlagInv'
  <1>1. UNCHANGED <<isReleasedAfterClosing, closed, waiting>>
    BY DEF semVars
  <1> DEFINE marked == [st EXCEPT ![currentRunning] = "READY"]
             q == Append(ready, currentRunning)
  <1>2. CASE Switch(q, marked, fin, k, None)
    <2> HIDE DEF marked, q
    <2> QED
      BY <1>1, <1>2, FlagSwitch
  <1>3. CASE Switch(ready, st, fin, k, None)
    BY <1>1, <1>3, FlagSwitch
  <1> QED
    BY <1>2, <1>3 DEF Dispatch

(* semClose sets the flags: of threads that wait in its semaphore's list. *)
LEMMA FlagClose ==
  ASSUME TypeOK, CallInv, FlagInv, NEW s \in Sem, SemClose(s)
  PROVE  FlagInv'
  <1>1. /\ UNCHANGED <<frame, handle>>
        /\ \A t \in Thread : Entry(isReleasedAfterClosing', t) =>
             Entry(isReleasedAfterClosing, t) \/ In(waiting, s, t)
    BY DEF SemClose, Entry, In, Holds
  <1>2. /\ \A r \in Sem : Entry(closed', r) <=> Entry(closed, r) \/ r = s
        /\ \A r \in Sem : \A t :
             In(waiting', r, t) <=> In(waiting, r, t) /\ r # s
    <2>1. /\ waiting' = [waiting EXCEPT ![s] = <<>>]
          /\ closed' = [closed EXCEPT ![s] = TRUE]
          /\ DOMAIN waiting = Sem /\ DOMAIN closed = Sem
      BY DEF SemClose, TypeOK
    <2>2. \A r \in Sem : /\ waiting'[r] = IF r = s THEN <<>> ELSE waiting[r]
                         /\ closed'[r] = IF r = s THEN TRUE ELSE closed[r]
      BY <2>1
    <2>3. \A t : ~Holds(<<>>, t)
      BY DEF Holds
    <2> QED
      BY <2>2, <2>3 DEF In, Entry
  <1>3. \A t \in Thread :
          Entry(frame, t) = "semWait" => Entry(handle, t) \in Sem
    BY WaitsOnSem
  <1>4. \A t \in Thread : In(waiting, s, t) =>
          Entry(frame, t) = "semWait" /\ Entry(handle, t) = s
    BY DEF CallInv, Calls, Parked
  <1>5. FlagInv' <=>
          \A t \in Thread : Entry(isReleasedAfterClosing', t) =>
            /\ Entry(frame', t) = "semWait"
            /\ Entry(closed', Entry(handle', t))
            /\ ~In(waiting', Entry(handle', t), t)
    BY DEF FlagInv
  <1> QED
    BY <1>1, <1>2, <1>3, <1>4, <1>5 DEF FlagInv

(* Returning from semWait resets the flag if the semaphore is closed. *)
LEMMA FlagReturn ==
  ASSUME TypeOK, CallInv, FlagInv, SemWaitReturns
  PROVE  FlagInv'
  <1> DEFINE c == currentRunning
  <1>1. /\ frame' = [frame EXCEPT ![c] = "thread"]
        /\ handle' = [handle EXCEPT ![c] = None]
        /\ isReleasedAfterClosing' =
             [isReleasedAfterClosing EXCEPT ![c] = @ /\ ~closed[handle[c]]]
        /\ UNCHANGED <<waiting, closed>>
    BY DEF SemWaitReturns, Resume, ReadReleaseFlag
  <1>2. ~Entry(isReleasedAfterClosing', c)
    <2>1. isReleasedAfterClosing[c] => closed[handle[c]]
      BY DEF FlagInv, Entry, TypeOK
    <2>2. isReleasedAfterClosing'[c]
            <=> (isReleasedAfterClosing[c] /\ ~closed[handle[c]])
      BY <1>1 DEF TypeOK
    <2> QED
      BY <2>1, <2>2 DEF Entry
  <1>3. \A t \in Thread : t # c =>
          /\ Entry(isReleasedAfterClosing', t) =>
               Entry(isReleasedAfterClosing, t)
          /\ Entry(frame', t) = Entry(frame, t)
          /\ Entry(handle', t) = Entry(handle, t)
    BY <1>1 DEF TypeOK, Entry
  <1> HIDE DEF c
  <1> QED
    BY <1>1, <1>2, <1>3, FlagKept

(* A signal takes a thread out of the list of its semaphore. *)
LEMMA SignalThins ==
  ASSUME TypeOK, NEW s \in Sem, SemSignal(s)
  PROVE  \A r \in Sem : \A t : In(waiting', r, t) => In(waiting, r, t)
  <1>1. CASE waiting' = waiting
    BY <1>1
  <1>2. CASE /\ waiting[s] # <<>>
             /\ waiting' = [waiting EXCEPT ![s] = Tail(@)]
    <2>1. /\ DOMAIN waiting = Sem /\ Entry(waiting, s) \in Seq(Thread)
          /\ Entry(waiting, s) # <<>>
          /\ waiting' = Put(waiting, s, Tail(Entry(waiting, s)))
      BY <1>2 DEF TypeOK, Entry, Put
    <2> QED
      BY <2>1, InTail
  <1> QED
    BY <1>1, <1>2 DEF SemSignal, Deblock

(* Every step keeps FlagInv. *)
LEMMA FlagNext == TypeOK /\ CallInv /\ FlagInv /\ [Next]_vars => FlagInv'
  <1> SUFFICES ASSUME TypeOK, CallInv, FlagInv, [Next]_vars PROVE FlagInv'
    OBVIOUS
  <1> DEFINE Still == UNCHANGED <<isReleasedAfterClosing, closed, waiting>>
  <1>1. CASE Still /\ UNCHANGED <<frame, handle>>
    BY <1>1 DEF FlagInv
  <1>2. CASE ThreadCall
    <2>1. ASSUME NEW t \in User, ThreadJoin(t) PROVE FlagInv'
      <3> DEFINE marked == [state EXCEPT ![currentRunning] = "JOINED"]
      <3>1. /\ Switch(ready, marked, finishedThread, "join", t)
            /\ frame[currentRunning] # "semWait" /\ Still
        BY <2>1 DEF ThreadJoin, ListAtJoin, Client, InBody, InThread, semVars
      <3> HIDE DEF marked
      <3> QED
        BY <3>1, FlagSwitch
    <2>2. CASE ThreadDispatch
      BY <2>2, FlagDispatch DEF ThreadDispatch, InBody, InThread
    <2>3. CASE ThreadExit
      <3> DEFINE marked == [state EXCEPT ![currentRunning] = "FINISHED"]
                 flags == [finishedThread EXCEPT ![currentRunning] = TRUE]
      <3>1. /\ Dispatch(marked, flags, "exit") /\ UNCHANGED semVars
            /\ frame[currentRunning] # "semWait"
        BY <2>3 DEF ThreadExit, ExitCalled, InThread
      <3> HIDE DEF marked, flags
      <3> QED
        BY <3>1, FlagDispatch
    <2> QED
      BY <1>1, <1>2, <2>1, <2>2, <2>3
         DEF ThreadCall, ThreadCreate, Terminate, JoinThroughStaleTail,
             BodyReturns, ReleaseJoined, CurrAdvances, WrapperReturns,
             schedVars, semVars
  <1>3. CASE SemCall
    <2>1. ASSUME NEW s \in Sem, NEW v \in InitialValues, SemOpen(s, v)
          PROVE  FlagInv'
      BY <1>1, <2>1 DEF SemOpen, schedVars
    <2>2. ASSUME NEW s \in Sem, SemClose(s) PROVE FlagInv'
      BY <2>2, FlagClose
    <2>3. ASSUME NEW s \in Sem, SemWaitPasses(s) PROVE FlagInv'
      <3>1. /\ UNCHANGED <<closed, waiting, frame, handle>>
            /\ isReleasedAfterClosing' =
                 [isReleasedAfterClosing EXCEPT ![currentRunning]
                    = @ /\ ~closed[s]]
        BY <2>3 DEF SemWaitPasses, ReadReleaseFlag, schedVars
      <3>2. \A t \in Thread : Entry(isReleasedAfterClosing', t) =>
                                Entry(isReleasedAfterClosing, t)
        BY <3>1 DEF TypeOK, Entry
      <3> QED
        BY <3>1, <3>2, FlagKept
    <2>4. ASSUME NEW s \in Sem, SemWaitBlocks(s) PROVE FlagInv'
      <3> DEFINE marked == [state EXCEPT ![currentRunning] = "BLOCKED"]
      <3>1. /\ Switch(ready, marked, finishedThread, "semWait", s)
            /\ frame[currentRunning] # "semWait"
            /\ UNCHANGED <<isReleasedAfterClosing, closed>>
            /\ waiting' = Put(waiting, s, Append(Entry(waiting, s),
                                                 currentRunning))
            /\ DOMAIN waiting = Sem /\ Entry(waiting, s) \in Seq(Thread)
            /\ currentRunning \in Thread
        BY <2>4 DEF SemWaitBlocks, Client, InBody, InThread, Put, Entry, TypeOK
      <3>2. \A r \in Sem : \A t : t # currentRunning =>
              (In(waiting', r, t) => In(waiting, r, t))
        BY <3>1, InAppended
      <3> HIDE DEF marked
      <3> QED
        BY <3>1, <3>2, FlagSwitch
    <2>5. ASSUME NEW s \in Sem, SemSignal(s) PROVE FlagInv'
      <3>1. UNCHANGED <<isReleasedAfterClosing, closed, frame, handle>>
        BY <2>5 DEF SemSignal
      <3>2. \A r \in Sem : \A t : In(waiting', r, t) => In(waiting, r, t)
        BY <2>5, SignalThins
      <3> QED
        BY <3>1, <3>2, FlagKept
    <2> QED
      BY <1>3, <2>1, <2>2, <2>3, <2>4, <2>5 DEF SemCall
  <1>4. ASSUME NEW n \in SleepTimes, TimeSleep(n) PROVE FlagInv'
    <2> DEFINE marked == [state EXCEPT ![currentRunning] = "SLEEPING"]
    <2>1. /\ Switch(ready, marked, finishedThread, "sleep", None)
          /\ frame[currentRunning] # "semWait" /\ Still
      BY <1>4 DEF TimeSleep, Client, InBody, InThread, semVars
    <2> HIDE DEF marked
    <2> QED
      BY <2>1, FlagSwitch
  <1>5. CASE TimerRaise
    BY <1>1, <1>5 DEF TimerRaise, schedVars, semVars
  <1>6. CASE Timer
    <2>1. CASE TimerTrap
      <3>1. /\ frame' = [frame EXCEPT ![currentRunning] = "tick"]
            /\ frame[currentRunning] # "semWait" /\ handle' = handle /\ Still
        BY <2>1 DEF TimerTrap, semVars
      <3> QED
        BY <3>1, FlagRunner
    <2>2. CASE CheckSleeper
      BY <1>1, <2>2 DEF CheckSleeper, semVars
    <2>3. CASE TimerPreempts
      BY <2>3, FlagDispatch DEF TimerPreempts
    <2>4. CASE TimerContinues
      <3>1. /\ frame' = [frame EXCEPT ![currentRunning] = "thread"]
            /\ frame[currentRunning] # "semWait" /\ handle' = handle /\ Still
        BY <2>4 DEF TimerContinues, semVars
      <3> QED
        BY <3>1, FlagRunner
    <2> QED
      BY <1>6, <2>1, <2>2, <2>3, <2>4 DEF Timer
  <1>7. CASE Returns
    <2>1. CASE SemWaitReturns
      BY <2>1, FlagReturn
    <2>2. ASSUME NEW k, k # "semWait", Resume(k), Still PROVE FlagInv'
      <3>1. \A t \in Thread : t # currentRunning =>
              Entry(handle', t) = Entry(handle, t)
        BY <2>2 DEF Resume, Entry, TypeOK
      <3> QED
        BY <2>2, <3>1, FlagRunner DEF Resume
    <2> QED
      BY <1>7, <2>1, <2>2
         DEF Returns, StartThread, CallReturns, TimerReturns, semVars
  <1>8. CASE UNCHANGED vars
    BY <1>1, <1>8 DEF vars, schedVars, semVars
  <1> QED
    BY <1>2, <1>3, <1>4, <1>5, <1>6, <1>7, <1>8 DEF Next

(***************************************************************************)
(* A created thread that has not finished is the running one or is in the  *)
(* list its state names: no call of the kernel, and no timer interrupt,    *)
(* ever loses a thread.                                                    *)
(***************************************************************************)
THEOREM ThreadNeverLost == Spec => []NoThreadLost
  <1>1. CallInv => NoThreadLost
    BY DEF CallInv, Calls, Placed, NoThreadLost, Entry, In
  <1> QED
    BY <1>1, CallInvAlways, PTL

(***************************************************************************)
(* A thread_join that returns, on whatever path, joined a thread whose     *)
(* body has returned.                                                      *)
(***************************************************************************)
THEOREM JoinAlwaysWaits == Spec => []JoinWaitsForBody
  <1>1. CallInv => JoinWaitsForBody
    BY DEF CallInv, Calls, Released, JoinWaitsForBody, Entry
  <1> QED
    BY <1>1, CallInvAlways, PTL

(***************************************************************************)
(* The code after dispatch in the handler of thread_exit, which deletes    *)
(* the PCB, is dead.                                                       *)
(***************************************************************************)
THEOREM ExitedThreadNeverRuns == Spec => []ExitedNeverRuns
  <1>1. CallInv => ExitedNeverRuns
    BY DEF CallInv, Calls, Exited, ExitedNeverRuns, Entry
  <1> QED
    BY <1>1, CallInvAlways, PTL

(***************************************************************************)
(* The flag of semClose reaches the semWait it is meant for: no thread     *)
(* carries it into a later wait.                                           *)
(***************************************************************************)
THEOREM FlagReachesItsWait == Spec => []CloseFlagAddressed
  <1>1. Init => FlagInv
    BY DEF Init, FlagInv, Entry
  <1>2. TypeOK /\ CallInv /\ FlagInv /\ [Next]_vars => FlagInv'
    BY FlagNext
  <1>3. FlagInv => CloseFlagAddressed
    BY DEF FlagInv, CloseFlagAddressed, Entry, In
  <1> QED
    BY <1>1, <1>2, <1>3, CallInvAlways, PTL DEF Spec

-----------------------------------------------------------------------------
(* Sem implements Semaphores *)

(* The permits of semaphore s are now n, and no other's have changed. *)
LEMMA PermitsChanged ==
  ASSUME NEW s \in Sem, NEW n,
         \A r \in Sem : r # s =>
           /\ value'[r] = value[r]
           /\ opened'[r] = opened[r] /\ closed'[r] = closed[r],
         (IF Live(s)' /\ value'[s] > 0 THEN value'[s] ELSE 0) = n
  PROVE  permits' = [permits EXCEPT ![s] = n]
  <1>1. \A r \in Sem :
          (IF Live(r)' /\ value'[r] > 0 THEN value'[r] ELSE 0)
            = IF r = s THEN n
              ELSE IF Live(r) /\ value[r] > 0 THEN value[r] ELSE 0
    BY DEF Live
  <1> QED
    BY <1>1 DEF permits

(* Steps that change no semaphore are stutters of the specification. *)
LEMMA SemStutter ==
  ASSUME UNCHANGED <<value, waiting, opened, closed>>
  PROVE  UNCHANGED Semaphore!vars
  BY DEF Semaphore!vars, status, permits, queue, Live

(* So are those on a semaphore that has been closed. *)
LEMMA ClosedStutter ==
  ASSUME TypeOK, NEW s \in Sem, closed[s],
         UNCHANGED <<opened, closed>>,
         \A r \in Sem :
           r # s => value'[r] = value[r] /\ waiting'[r] = waiting[r]
  PROVE  UNCHANGED Semaphore!vars
  <1>1. \A r \in Sem : Live(r) => r # s
    BY DEF Live
  <1>2. \A r \in Sem : Live(r)' <=> Live(r)
    BY DEF Live
  <1>3. status' = status
    BY DEF status
  <1>4. permits' = permits
    <2>1. \A r \in Sem :
            (IF Live(r)' /\ value'[r] > 0 THEN value'[r] ELSE 0)
              = (IF Live(r) /\ value[r] > 0 THEN value[r] ELSE 0)
      BY <1>1, <1>2
    <2> QED
      BY <2>1 DEF permits
  <1>5. queue' = queue
    <2>1. \A r \in Sem :
            (IF Live(r)' THEN waiting'[r] ELSE <<>>)
              = (IF Live(r) THEN waiting[r] ELSE <<>>)
      BY <1>1, <1>2
    <2> QED
      BY <2>1 DEF queue
  <1> QED
    BY <1>3, <1>4, <1>5 DEF Semaphore!vars

(* sem_open is Open. *)
LEMMA OpenIsOpen ==
  ASSUME TypeOK, SemInv, NEW s \in Sem, NEW v \in InitialValues, SemOpen(s, v)
  PROVE  Semaphore!Open(s, v)
  <1>1. /\ waiting' = waiting /\ closed' = closed
        /\ ~opened[s]
        /\ opened' = [opened EXCEPT ![s] = TRUE]
        /\ value' = [value EXCEPT ![s] = v]
    BY DEF SemOpen
  <1>2. ~closed[s] /\ waiting[s] = <<>> /\ v \in Nat
    <2>1. /\ ~closed[s] /\ value[s] = 0 /\ Len(waiting[s]) <= Deficit(value[s])
          /\ waiting[s] \in Seq(Thread)
      BY <1>1 DEF SemInv, SemQueueMatchesValue, TypeOK
    <2>2. Len(waiting[s]) = 0
      BY <2>1, LenProperties DEF Deficit
    <2> QED
      BY <2>1, <2>2, NumberAssumption, EmptySeq
  <1>3. status[s] = "new" /\ status' = [status EXCEPT ![s] = "open"]
    BY <1>1, <1>2 DEF status, TypeOK
  <1>4. permits' = [permits EXCEPT ![s] = v]
    <2>1. /\ \A r \in Sem : r # s => /\ value'[r] = value[r]
                                   /\ opened'[r] = opened[r]
                                   /\ closed'[r] = closed[r]
          /\ opened'[s] /\ ~closed'[s] /\ value'[s] = v
      BY <1>1, <1>2 DEF TypeOK
    <2>2. (IF Live(s)' /\ value'[s] > 0 THEN value'[s] ELSE 0) = v
      BY <1>2, <2>1 DEF Live
    <2> QED
      BY <2>1, <2>2, PermitsChanged
  <1>5. queue' = queue
    BY <1>1, <1>2 DEF queue, Live, TypeOK
  <1> QED
    BY <1>3, <1>4, <1>5 DEF Semaphore!Open

(* semClose is Close. *)
LEMMA CloseIsClose ==
  ASSUME TypeOK, NEW s \in Sem, SemClose(s)
  PROVE  Semaphore!Close(s)
  <1>1. /\ waiting' = [waiting EXCEPT ![s] = <<>>]
        /\ closed' = [closed EXCEPT ![s] = TRUE]
        /\ UNCHANGED <<value, opened>> /\ opened[s] /\ ~closed[s]
    BY DEF SemClose
  <1>2. status[s] = "open" /\ status' = [status EXCEPT ![s] = "closed"]
    BY <1>1 DEF status, TypeOK
  <1>3. permits' = [permits EXCEPT ![s] = 0]
    BY <1>1 DEF permits, Live, TypeOK
  <1>4. queue' = [queue EXCEPT ![s] = <<>>]
    BY <1>1 DEF queue, Live, TypeOK
  <1> QED
    BY <1>2, <1>3, <1>4 DEF Semaphore!Close

(* A semWait that passes is Pass, while the semaphore is open. *)
LEMMA PassIsPass ==
  ASSUME TypeOK, NEW s \in Sem, SemWaitPasses(s)
  PROVE  Semaphore!Pass(s) \/ UNCHANGED Semaphore!vars
  <1>1. /\ value' = [value EXCEPT ![s] = @ - 1]
        /\ opened[s] /\ value[s] > 0 /\ value[s] \in Int
        /\ UNCHANGED <<waiting, opened, closed>>
    BY DEF SemWaitPasses, Exhausted, TypeOK
  <1>2. CASE closed[s]
    BY <1>1, <1>2, ClosedStutter DEF TypeOK
  <1>3. CASE ~closed[s]
    <2>1. status[s] = "open" /\ permits[s] = value[s]
      BY <1>1, <1>3 DEF status, permits, Live
    <2>2. permits' = [permits EXCEPT ![s] = value[s] - 1]
      <3>1. /\ \A r \in Sem : r # s => value'[r] = value[r]
            /\ value'[s] = value[s] - 1
        BY <1>1 DEF TypeOK
      <3>2. (IF Live(s)' /\ value'[s] > 0 THEN value'[s] ELSE 0) = value[s] - 1
        BY <1>1, <1>3, <3>1 DEF Live
      <3> QED
        BY <1>1, <3>1, <3>2, PermitsChanged
    <2>3. status' = status /\ queue' = queue
      BY <1>1 DEF status, queue, Live
    <2> QED
      BY <1>1, <2>1, <2>2, <2>3 DEF Semaphore!Pass
  <1> QED
    BY <1>2, <1>3

(* One that blocks is Block: its caller waits nowhere else (PlaceInv). *)
LEMMA BlockIsBlock ==
  ASSUME TypeOK, PlaceInv, NEW s \in Sem, SemWaitBlocks(s)
  PROVE  Semaphore!Block(s, currentRunning) \/ UNCHANGED Semaphore!vars
  <1>1. /\ value' = [value EXCEPT ![s] = @ - 1]
        /\ waiting' = [waiting EXCEPT ![s] = Append(@, currentRunning)]
        /\ opened[s] /\ value[s] <= 0 /\ value[s] \in Int
        /\ UNCHANGED <<opened, closed>>
    BY DEF SemWaitBlocks, Exhausted, TypeOK
  <1>2. CASE closed[s]
    BY <1>1, <1>2, ClosedStutter DEF TypeOK
  <1>3. CASE ~closed[s]
    <2>1. status[s] = "open" /\ permits[s] = 0
      BY <1>1, <1>3 DEF status, permits, Live
    <2>2. ~Semaphore!Waits(currentRunning)
      <3>1. \A r \in Sem : ~In(waiting, r, currentRunning)
        BY Unlisted
      <3>2. \A r \in Sem : queue[r] = waiting[r] \/ queue[r] = <<>>
        BY DEF queue
      <3> QED
        BY <3>1, <3>2 DEF Semaphore!Waits, In, Holds
    <2>3. queue' = [queue EXCEPT ![s] = Append(@, currentRunning)]
      <3>1. queue[s] = waiting[s]
        BY <1>1, <1>3 DEF queue, Live
      <3> DEFINE q == Append(waiting[s], currentRunning)
      <3>2. waiting' = [waiting EXCEPT ![s] = q]
        BY <1>1
      <3> HIDE DEF q
      <3>3. queue' = [queue EXCEPT ![s] = q]
        BY <1>1, <1>3, <3>2 DEF queue, Live, TypeOK
      <3> QED
        BY <3>1, <3>3 DEF q
    <2>4. status' = status /\ permits' = permits
      BY <1>1, <1>3 DEF status, permits, Live, TypeOK
    <2> QED
      BY <2>1, <2>2, <2>3, <2>4 DEF Semaphore!Block
  <1> QED
    BY <1>2, <1>3

(* semSignal is Signal: the value says if a thread waits (SemInv). *)
LEMMA SignalIsSignal ==
  ASSUME TypeOK, SemInv, NEW s \in Sem, SemSignal(s)
  PROVE  Semaphore!Signal(s) \/ UNCHANGED Semaphore!vars
  <1>1. /\ value' = [value EXCEPT ![s] = @ + 1]
        /\ opened[s] /\ value[s] \in Int /\ waiting[s] \in Seq(Thread)
        /\ UNCHANGED <<opened, closed>>
        /\ waiting' = waiting \/ waiting' = [waiting EXCEPT ![s] = Tail(@)]
        /\ value[s] + 1 > 0 => waiting' = waiting
        /\ value[s] + 1 <= 0 =>
             waiting[s] = <<>> \/ waiting' = [waiting EXCEPT ![s] = Tail(@)]
    BY DEF SemSignal, Owed, Deblock, TypeOK
  <1>2. CASE closed[s]
    BY <1>1, <1>2, ClosedStutter DEF TypeOK
  <1>3. CASE ~closed[s]
    <2>1. status[s] = "open" /\ status' = status /\ queue[s] = waiting[s]
      BY <1>1, <1>3 DEF status, queue, Live
    <2>2. Len(waiting[s]) = Deficit(value[s]) /\ Len(waiting[s]) \in Nat
      BY <1>1, <1>3, LenProperties DEF SemInv, SemQueueMatchesValue
    <2>3. CASE value[s] + 1 > 0
      <3>1. waiting[s] = <<>>
        BY <1>1, <2>2, <2>3, EmptySeq DEF Deficit
      <3>2. queue' = queue
        BY <1>1, <2>3 DEF queue, Live
      <3>3. permits' = [permits EXCEPT ![s] = value[s] + 1]
        <4>1. /\ \A r \in Sem : r # s => value'[r] = value[r]
              /\ value'[s] = value[s] + 1
          BY <1>1 DEF TypeOK
        <4>2. (IF Live(s)' /\ value'[s] > 0 THEN value'[s] ELSE 0)
                = value[s] + 1
          BY <1>1, <1>3, <2>3, <4>1 DEF Live
        <4> QED
          BY <1>1, <4>1, <4>2, PermitsChanged
      <3>4. permits[s] = value[s]
        BY <1>1, <1>3, <2>3 DEF permits, Live
      <3> QED
        BY <2>1, <3>1, <3>2, <3>3, <3>4 DEF Semaphore!Signal
    <2>4. CASE value[s] + 1 <= 0
      <3>1. waiting[s] # <<>>
        BY <1>1, <2>2, <2>4, EmptySeq DEF Deficit
      <3> DEFINE q == Tail(waiting[s])
      <3>2. waiting' = [waiting EXCEPT ![s] = q]
        BY <1>1, <2>4, <3>1
      <3> HIDE DEF q
      <3>3. queue' = [queue EXCEPT ![s] = q]
        BY <1>1, <1>3, <3>2 DEF queue, Live, TypeOK
      <3>4. permits' = permits
        BY <1>1, <1>3, <2>4 DEF permits, Live, TypeOK
      <3> QED
        BY <2>1, <3>1, <3>3, <3>4 DEF Semaphore!Signal, q
    <2> QED
      BY <1>1, <2>3, <2>4
  <1> QED
    BY <1>2, <1>3

(* Every step of the kernel is one of theirs, or a stutter. *)
LEMMA SemStep ==
  ASSUME TypeOK, SemInv, PlaceInv, [Next]_vars
  PROVE  [Semaphore!Next]_(Semaphore!vars)
  <1>1. CASE UNCHANGED <<value, waiting, opened, closed>>
    BY <1>1, SemStutter
  <1>2. CASE SemCall
    <2>1. ASSUME NEW s \in Sem, NEW v \in InitialValues, SemOpen(s, v)
          PROVE  Semaphore!Next
      BY <2>1, OpenIsOpen DEF Semaphore!Next
    <2>2. ASSUME NEW s \in Sem, SemClose(s) PROVE Semaphore!Next
      BY <2>2, CloseIsClose DEF Semaphore!Next
    <2>3. ASSUME NEW s \in Sem, SemWaitPasses(s)
          PROVE  [Semaphore!Next]_(Semaphore!vars)
      BY <2>3, PassIsPass DEF Semaphore!Next
    <2>4. ASSUME NEW s \in Sem, SemWaitBlocks(s)
          PROVE  [Semaphore!Next]_(Semaphore!vars)
      <3>1. currentRunning \in Thread
        BY DEF TypeOK
      <3> QED
        BY <2>4, <3>1, BlockIsBlock DEF Semaphore!Next
    <2>5. ASSUME NEW s \in Sem, SemSignal(s)
          PROVE  [Semaphore!Next]_(Semaphore!vars)
      BY <2>5, SignalIsSignal DEF Semaphore!Next
    <2> QED
      BY <1>2, <2>1, <2>2, <2>3, <2>4, <2>5 DEF SemCall
  <1>3. \/ UNCHANGED <<value, waiting, opened, closed>> \/ SemCall
    BY DEF Next, ThreadCall, ThreadCreate, Terminate, ThreadJoin,
           JoinThroughStaleTail, ThreadDispatch, ThreadExit, BodyReturns,
           ReleaseJoined, CurrAdvances, WrapperReturns, TimeSleep, TimerRaise,
           Timer,
           TimerTrap, CheckSleeper, TimerPreempts, TimerContinues, Returns,
           StartThread, CallReturns, SemWaitReturns, TimerReturns, vars,
           semVars
  <1> QED
    BY <1>1, <1>2, <1>3

(***************************************************************************)
(* Sem is a counting semaphore with a first-in, first-out queue from       *)
(* sem_open to sem_close, whatever else the kernel does between.           *)
(***************************************************************************)
THEOREM SemaphoresImplemented == Spec => ImplementsSemaphores
  <1>1. Init => Semaphore!Init
    BY DEF Init, Semaphore!Init, status, permits, queue, Live
  <1>2. TypeOK /\ SemInv /\ PlaceInv /\ [Next]_vars
          => [Semaphore!Next]_(Semaphore!vars)
    BY SemStep
  <1> QED
    BY <1>1, <1>2, TypeCorrect, SemInvAlways, PlaceInvAlways, PTL
       DEF Spec, ImplementsSemaphores, Semaphore!Spec

-----------------------------------------------------------------------------
(* How a thread gets on *)

(***************************************************************************)
(* A ready thread that has not finished keeps its place in the list while  *)
(* the running thread stays; whenever another one is chosen it is that     *)
(* thread, or it moves up.                                                 *)
(***************************************************************************)
MovesUp ==
  \A i \in DOMAIN ready : ~finishedThread[ready[i]] =>
    IF currentRunning' = currentRunning
    THEN i \in DOMAIN ready' /\ ready'[i] = ready[i]
    ELSE \/ currentRunning' = ready[i]
         \/ \E j \in DOMAIN ready' : j < i /\ ready'[j] = ready[i]

(***************************************************************************)
(* A thread that sleeps, waits or has joined, and has not finished, leaves *)
(* its list only for the ready list.                                       *)
(***************************************************************************)
LeavesToReady ==
  \A t \in Thread : ~finishedThread'[t] =>
    /\ Holds(sleepers, t) => Holds(sleepers', t) \/ Holds(ready', t)
    /\ \A s \in Sem :
         Holds(waiting[s], t) => Holds(waiting'[s], t) \/ Holds(ready', t)
    /\ \A u \in Thread :
         Holds(joined[u], t) => Holds(joined'[u], t) \/ Holds(ready', t)

(* The list r is q with nothing, or something, put at its end. *)
Grows(q, r) == \A i \in DOMAIN q : i \in DOMAIN r /\ r[i] = q[i]

(* A step leaves the processor with the thread that has it ... *)
Stays == currentRunning' = currentRunning /\ Grows(ready, ready')

(* ... or gives it to the next one, after that thread may have been put at *)
(* the end of the list, or marked finished.                                *)
Chosen(q, fin) ==
  /\ q \in Seq(Thread) /\ Grows(ready, q)
  /\ \A i \in DOMAIN q : i \in DOMAIN ready \/ q[i] = currentRunning
  /\ \A t \in Thread : t # currentRunning => fin[t] = finishedThread[t]
  /\ PickNext(q, fin, currentRunning', ready')

(* Appending makes a list grow. *)
LEMMA GrowsAppend ==
  ASSUME NEW S, NEW q \in Seq(S), NEW e \in S
  PROVE  /\ Append(q, e) \in Seq(S) /\ Grows(q, Append(q, e))
         /\ \A i \in DOMAIN Append(q, e) : i \in DOMAIN q \/ Append(q, e)[i] = e
  <1>1. /\ Append(q, e) \in Seq(S) /\ Len(q) \in Nat
        /\ \A i \in 1 .. Len(q) : Append(q, e)[i] = q[i]
        /\ Append(q, e)[Len(q) + 1] = e
        /\ DOMAIN Append(q, e) = 1 .. (Len(q) + 1) /\ DOMAIN q = 1 .. Len(q)
    BY AppendProperties, LenProperties
  <1> DEFINE r == Append(q, e)
  <1> HIDE DEF r
  <1>2. Grows(q, r) /\ \A i \in DOMAIN r : i \in DOMAIN q \/ r[i] = e
    BY <1>1 DEF Grows, r
  <1> QED
    BY <1>1, <1>2 DEF r

(* So does joining another list to it. *)
LEMMA GrowsConcat ==
  ASSUME NEW S, NEW q \in Seq(S), NEW r \in Seq(S)
  PROVE  Grows(q, q \o r)
  <1> DEFINE c == q \o r
  <1>1. /\ Len(q) \in Nat /\ Len(r) \in Nat /\ DOMAIN q = 1 .. Len(q)
        /\ DOMAIN c = 1 .. (Len(q) + Len(r))
        /\ \A i \in 1 .. Len(q) + Len(r) :
             c[i] = IF i <= Len(q) THEN q[i] ELSE r[i - Len(q)]
    BY ConcatProperties, LenProperties
  <1> HIDE DEF c
  <1>2. Grows(q, c)
    BY <1>1 DEF Grows
  <1> QED
    BY <1>2 DEF c

(* The calls that block, and PCB::dispatch, choose the next thread. *)
LEMMA SwitchChooses ==
  ASSUME TypeOK, NEW st, NEW k, NEW h, Switch(ready, st, finishedThread, k, h)
  PROVE  Chosen(ready, finishedThread)
  BY DEF Switch, Chosen, Grows, TypeOK

LEMMA DispatchChooses ==
  ASSUME TypeOK, NEW st, NEW fin, NEW k, Dispatch(st, fin, k),
         \A t \in Thread : t # currentRunning => fin[t] = finishedThread[t]
  PROVE  \E q : Chosen(q, fin)
  <1> DEFINE p == Append(ready, currentRunning)
  <1>1. ready \in Seq(Thread) /\ currentRunning \in Thread
    BY DEF TypeOK
  <1>2. /\ p \in Seq(Thread) /\ Grows(ready, p)
        /\ \A i \in DOMAIN p : i \in DOMAIN ready \/ p[i] = currentRunning
    BY <1>1, GrowsAppend
  <1>3. Grows(ready, ready)
    BY DEF Grows
  <1>4. \/ PickNext(ready, fin, currentRunning', ready')
        \/ PickNext(p, fin, currentRunning', ready')
    BY DEF Dispatch, Switch
  <1> HIDE DEF p
  <1> QED
    BY <1>1, <1>2, <1>3, <1>4 DEF Chosen

(* Every step does one or the other. *)
LEMMA StaysOrChosen ==
  ASSUME TypeOK, PlaceInv, [Next]_vars
  PROVE  Stays \/ \E q, fin : Chosen(q, fin)
  <1> DEFINE Goal == Stays \/ \E q, fin : Chosen(q, fin)
  <1> SUFFICES Goal
    OBVIOUS
  <1>1. ready \in Seq(Thread) /\ currentRunning \in Thread
    BY DEF TypeOK
  <1>2. ASSUME UNCHANGED <<currentRunning, ready>> PROVE Goal
    BY <1>2 DEF Stays, Grows
  <1>3. ASSUME NEW e \in Thread, currentRunning' = currentRunning,
               ready' = Append(ready, e)
        PROVE  Goal
    BY <1>1, <1>3, GrowsAppend DEF Stays
  <1>4. ASSUME NEW st, NEW k, NEW h, Switch(ready, st, finishedThread, k, h)
        PROVE  Goal
    BY <1>4, SwitchChooses
  <1>5. ASSUME NEW st, NEW k, Dispatch(st, finishedThread, k) PROVE Goal
    BY <1>5, DispatchChooses
  <1> HIDE DEF Goal
  <1>6. CASE ThreadCall
    <2>1. ASSUME NEW t \in User, ThreadCreate(t) \/ Terminate(t) PROVE Goal
      BY <1>2, <1>3, <2>1 DEF ThreadCreate, Terminate, Thread
    <2>2. ASSUME NEW t \in User, ThreadJoin(t) \/ JoinThroughStaleTail(t)
          PROVE  Goal
      BY <1>2, <1>4, <2>2
         DEF ThreadJoin, ListAtJoin, JoinThroughStaleTail, schedVars
    <2>3. CASE ThreadDispatch
      BY <1>5, <2>3 DEF ThreadDispatch
    <2>4. CASE ThreadExit
      <3> DEFINE fin == [finishedThread EXCEPT ![currentRunning] = TRUE]
                 st == [state EXCEPT ![currentRunning] = "FINISHED"]
      <3>1. Dispatch(st, fin, "exit")
        BY <2>4 DEF ThreadExit
      <3>2. \A t \in Thread : t # currentRunning => fin[t] = finishedThread[t]
        BY DEF TypeOK
      <3> HIDE DEF fin, st
      <3> QED
        BY <3>1, <3>2, DispatchChooses DEF Goal
    <2>5. CASE BodyReturns \/ CurrAdvances \/ WrapperReturns
      BY <1>2, <2>5 DEF BodyReturns, CurrAdvances, WrapperReturns, schedVars
    <2>6. CASE ReleaseJoined
      <3>1. /\ joined[currentRunning] \in Seq(Thread)
            /\ joined[currentRunning] # <<>>
        BY <1>1, <2>6 DEF ReleaseJoined, InReleaseLoop, TypeOK
      <3>2. Head(joined[currentRunning]) \in Thread
        BY <3>1, HeadTailType
      <3> QED
        BY <1>3, <2>6, <3>2 DEF ReleaseJoined
    <2> QED
      BY <1>6, <2>1, <2>2, <2>3, <2>4, <2>5, <2>6 DEF ThreadCall
  <1>7. CASE SemCall
    <2>1. ASSUME NEW s \in Sem, SemClose(s) PROVE Goal
      <3>1. waiting[s] \in Seq(Thread)
        BY DEF TypeOK
      <3> QED
        BY <1>1, <2>1, <3>1, GrowsConcat DEF SemClose, Stays, Goal
    <2>2. ASSUME NEW s \in Sem, SemSignal(s) PROVE Goal
      <3>1. CASE UNCHANGED ready
        BY <1>2, <2>2, <3>1 DEF SemSignal
      <3>2. CASE ready' # ready
        <4>1. waiting[s] \in Seq(Thread) /\ waiting[s] # <<>>
          BY <2>2, <3>2 DEF SemSignal, Deblock, TypeOK
        <4>2. Head(waiting[s]) \in Thread
          BY <4>1, HeadTailType
        <4> QED
          BY <1>3, <2>2, <3>2, <4>1, <4>2 DEF SemSignal, Deblock
      <3> QED
        BY <3>1, <3>2
    <2>3. ASSUME NEW s \in Sem, SemWaitBlocks(s) PROVE Goal
      BY <1>4, <2>3 DEF SemWaitBlocks
    <2>4. ASSUME NEW s \in Sem,
                 SemWaitPasses(s) \/ \E v \in InitialValues : SemOpen(s, v)
          PROVE  Goal
      BY <1>2, <2>4 DEF SemWaitPasses, SemOpen, schedVars
    <2> QED
      BY <1>7, <2>1, <2>2, <2>3, <2>4 DEF SemCall
  <1>8. CASE \E n \in SleepTimes : TimeSleep(n)
    BY <1>4, <1>8 DEF TimeSleep
  <1>9. CASE Timer
    <2>1. CASE TimerPreempts
      BY <1>5, <2>1 DEF TimerPreempts
    <2>2. CASE CheckSleeper
      <3>1. scan \in DOMAIN sleeping /\ sleeping \in Seq(Sleeper)
        BY <2>2 DEF CheckSleeper, TypeOK
      <3>2. sleeping[scan].thread \in Thread
        <4>1. sleeping[scan] \in Sleeper
          BY <3>1, RestType
        <4> QED
          BY <4>1 DEF Sleeper
      <3> QED
        BY <1>2, <1>3, <2>2, <3>2 DEF CheckSleeper
    <2>3. CASE TimerTrap \/ TimerContinues
      BY <1>2, <2>3 DEF TimerTrap, TimerContinues
    <2> QED
      BY <1>9, <2>1, <2>2, <2>3 DEF Timer
  <1>10. CASE TimerRaise \/ Returns
    BY <1>2, <1>10 DEF TimerRaise, Returns, StartThread, CallReturns,
                       SemWaitReturns, TimerReturns, schedVars
  <1>11. CASE UNCHANGED vars
    BY <1>2, <1>11 DEF vars, schedVars
  <1> QED
    BY <1>6, <1>7, <1>8, <1>9, <1>10, <1>11 DEF Next

(* A live thread at place i of a list is the one Scheduler::get takes, or  *)
(* stands nearer to the head of what it leaves; the one it takes then was  *)
(* not behind it.                                                          *)
LEMMA PickedMovesUp ==
  ASSUME NEW q \in Seq(Thread), NEW fin, NEW next, NEW rest,
         PickNext(q, fin, next, rest), NEW i \in DOMAIN q, ~fin[q[i]]
  PROVE  /\ \E k \in DOMAIN q : k <= i /\ next = q[k]
         /\ next = q[i] \/ \E j \in DOMAIN rest : j < i /\ rest[j] = q[i]
  <1>1. PICK k \in DOMAIN q : /\ FirstAlive(q, fin, k) /\ next = q[k]
                              /\ rest = SubSeq(q, k + 1, Len(q))
    BY DEF PickNext
  <1>2. /\ DOMAIN rest = 1 .. (Len(q) - k)
        /\ \A n \in 1 .. (Len(q) - k) : rest[n] = q[k + n]
        /\ Len(q) \in Nat /\ DOMAIN q = 1 .. Len(q)
    BY <1>1, RestElements, LenProperties
  <1>3. k <= i
    <2>1. i \in 1 .. (k - 1) => fin[q[i]]
      BY <1>1 DEF FirstAlive
    <2>2. i \notin 1 .. (k - 1)
      BY <2>1
    <2> QED
      BY <1>2, <2>2
  <1>4. CASE k = i
    BY <1>1, <1>3, <1>4
  <1>5. CASE k < i
    <2>1. PICK n \in Nat : n = i - k
      BY <1>2, <1>5
    <2>2. i \in 1 .. Len(q) /\ k \in 1 .. Len(q) /\ Len(q) \in Nat
      BY <1>2
    <2>3. n \in 1 .. (Len(q) - k) /\ n < i /\ k + n = i
      BY <1>5, <2>1, <2>2
    <2>4. rest[n] = q[k + n] /\ n \in DOMAIN rest
      BY <1>2, <2>3
    <2>5. \E j \in DOMAIN rest : j < i /\ rest[j] = q[i]
      BY <2>3, <2>4
    <2> QED
      BY <1>1, <1>3, <2>5
  <1> QED
    BY <1>2, <1>3, <1>4, <1>5, SMTT(20)

(***************************************************************************)
(* The scheduler is fair: a ready thread waits for no more switches than   *)
(* its place in the list says, whatever is put behind it meanwhile.  That  *)
(* it runs in the end (ReadyRuns) rests on this and on the timer.          *)
(***************************************************************************)
THEOREM ReadyThreadsMoveUp == Spec => [][MovesUp]_vars
  <1>1. TypeOK /\ PlaceInv /\ [Next]_vars => MovesUp
    <2> SUFFICES ASSUME TypeOK, PlaceInv, [Next]_vars,
                        NEW i \in DOMAIN ready, ~finishedThread[ready[i]]
                 PROVE  IF currentRunning' = currentRunning
                        THEN i \in DOMAIN ready' /\ ready'[i] = ready[i]
                        ELSE \/ currentRunning' = ready[i]
                             \/ \E j \in DOMAIN ready' :
                                  j < i /\ ready'[j] = ready[i]
      BY DEF MovesUp
    <2>1. ready \in Seq(Thread) /\ DOMAIN ready = 1 .. Len(ready)
          /\ Len(ready) \in Nat
      BY LenProperties DEF TypeOK
    <2>2. \A k \in DOMAIN ready : ready[k] \in Thread
      BY <2>1, ElementOfSeq
    <2>3. \A k \in DOMAIN ready : ready[k] # currentRunning
      BY Unlisted DEF Holds
    <2>4. CASE Stays
      BY <2>4 DEF Stays, Grows
    <2>5. ASSUME NEW q, NEW fin, Chosen(q, fin)
          PROVE  /\ currentRunning' # currentRunning
                 /\ \/ currentRunning' = ready[i]
                    \/ \E j \in DOMAIN ready' : j < i /\ ready'[j] = ready[i]
      <3>1. /\ q \in Seq(Thread) /\ Grows(ready, q)
            /\ PickNext(q, fin, currentRunning', ready')
        BY <2>5 DEF Chosen
      <3>2. i \in DOMAIN q /\ q[i] = ready[i] /\ ~fin[q[i]]
        BY <2>2, <2>3, <2>5, <3>1 DEF Chosen, Grows
      <3>3. PICK k \in DOMAIN q : k <= i /\ currentRunning' = q[k]
        BY <3>1, <3>2, PickedMovesUp
      <3>4. DOMAIN q = 1 .. Len(q) /\ Len(q) \in Nat
        BY <3>1, LenProperties
      <3>5. k \in DOMAIN ready
        BY <2>1, <3>3, <3>4
      <3>6. currentRunning' # currentRunning
        BY <2>3, <3>1, <3>3, <3>5 DEF Grows
      <3> QED
        BY <3>1, <3>2, <3>6, PickedMovesUp
    <2> QED
      BY <2>4, <2>5, StaysOrChosen DEF Stays
  <1> QED
    BY <1>1, TypeCorrect, PlaceInvAlways, PTL DEF Spec

(* Only the running thread changes where it is suspended and on what. *)
LEMMA OthersSuspended ==
  ASSUME TypeOK, [Next]_vars, NEW t \in Thread, t # currentRunning
  PROVE  /\ Entry(frame', t) = Entry(frame, t)
         /\ Entry(handle', t) = Entry(handle, t)
         /\ Entry(where, t) # "none" => Entry(where', t) # "none"
         /\ ~finishedThread'[t] => ~finishedThread[t]
  <1> DEFINE Same == /\ Entry(frame', t) = Entry(frame, t)
                     /\ Entry(handle', t) = Entry(handle, t)
             Stay == /\ Entry(where, t) # "none" => Entry(where', t) # "none"
                     /\ ~finishedThread'[t] => ~finishedThread[t]
  <1> SUFFICES Same /\ Stay
    OBVIOUS
  <1>1. /\ frame \in [Thread -> Frame] /\ where \in [Thread -> Where]
        /\ handle \in [Thread -> Handle] /\ currentRunning \in Thread
        /\ finishedThread \in [Thread -> BOOLEAN]
    BY DEF TypeOK, Handle
  <1>2. ASSUME UNCHANGED <<frame, handle>> PROVE Same
    BY <1>2 DEF Entry
  <1>3. ASSUME NEW q, NEW st, NEW fin, NEW k, NEW h, Switch(q, st, fin, k, h)
        PROVE  Same
    BY <1>1, <1>3 DEF Switch, Entry
  <1>4. ASSUME NEW st, NEW fin, NEW k, Dispatch(st, fin, k) PROVE Same
    BY <1>3, <1>4 DEF Dispatch
  <1>5. ASSUME NEW k, Resume(k) PROVE Same
    BY <1>1, <1>5 DEF Resume, Entry
  <1>6. ASSUME UNCHANGED threadVars PROVE Stay
    BY <1>6 DEF threadVars, Entry
  <1> HIDE DEF Same, Stay
  <1>7. CASE ThreadCall
    <2>1. ASSUME NEW u \in User, ThreadCreate(u) PROVE Same /\ Stay
      BY <1>1, <1>2, <2>1 DEF ThreadCreate, Stay, Entry
    <2>2. ASSUME NEW u \in User, Terminate(u) PROVE Same /\ Stay
      BY <1>1, <1>2, <2>2 DEF Terminate, Stay, Entry
    <2>3. ASSUME NEW u \in User, ThreadJoin(u) PROVE Same /\ Stay
      BY <1>3, <1>6, <2>3 DEF ThreadJoin
    <2>4. ASSUME NEW u \in User, JoinThroughStaleTail(u) PROVE Same /\ Stay
      BY <1>2, <1>6, <2>4 DEF JoinThroughStaleTail, schedVars
    <2>5. CASE ThreadDispatch
      BY <1>4, <1>6, <2>5 DEF ThreadDispatch
    <2>6. CASE ThreadExit
      BY <1>1, <1>4, <2>6 DEF ThreadExit, Stay, Entry
    <2>7. CASE BodyReturns
      BY <1>1, <1>2, <2>7 DEF BodyReturns, schedVars, Stay, Entry
    <2>8. CASE WrapperReturns
      BY <1>2, <1>6, <2>8 DEF WrapperReturns, schedVars
    <2>9. CASE ReleaseJoined
      BY <1>1, <1>2, <2>9 DEF ReleaseJoined, Stay, Entry
    <2>10. CASE CurrAdvances
      BY <1>1, <1>2, <2>10 DEF CurrAdvances, schedVars, Stay, Entry
    <2> QED
      BY <1>7, <2>1, <2>2, <2>3, <2>4, <2>5, <2>6, <2>7, <2>8, <2>9, <2>10
         DEF ThreadCall
  <1>8. CASE SemCall
    BY <1>2, <1>3, <1>6, <1>8
       DEF SemCall, SemOpen, SemClose, SemWaitPasses, SemWaitBlocks, SemSignal,
           schedVars
  <1>9. CASE \E n \in SleepTimes : TimeSleep(n)
    BY <1>3, <1>6, <1>9 DEF TimeSleep
  <1>10. CASE Timer
    <2>1. CASE TimerTrap \/ TimerContinues
      BY <1>1, <1>6, <2>1 DEF TimerTrap, TimerContinues, Same, Entry
    <2>2. CASE CheckSleeper
      BY <1>2, <1>6, <2>2 DEF CheckSleeper
    <2>3. CASE TimerPreempts
      BY <1>4, <1>6, <2>3 DEF TimerPreempts
    <2> QED
      BY <1>10, <2>1, <2>2, <2>3 DEF Timer
  <1>11. CASE Returns
    BY <1>5, <1>6, <1>11
       DEF Returns, StartThread, CallReturns, SemWaitReturns, TimerReturns
  <1>12. CASE TimerRaise
    BY <1>2, <1>6, <1>12 DEF TimerRaise, schedVars
  <1>13. CASE UNCHANGED vars
    BY <1>2, <1>6, <1>13 DEF vars, schedVars
  <1> QED
    BY <1>7, <1>8, <1>9, <1>10, <1>11, <1>12, <1>13 DEF Next

(* The processor is given to nobody who is not ready, but the idle thread. *)
LEMMA RunnerWasReady ==
  ASSUME TypeOK, PlaceInv, [Next]_vars
  PROVE  \/ currentRunning' \in {currentRunning, Idle}
         \/ Holds(ready, currentRunning')
  <1>1. CASE Stays
    BY <1>1 DEF Stays
  <1>2. ASSUME NEW q, NEW fin, Chosen(q, fin)
        PROVE  \/ currentRunning' \in {currentRunning, Idle}
               \/ Holds(ready, currentRunning')
    <2>1. currentRunning' = Idle \/ Holds(q, currentRunning')
      BY <1>2, Picked DEF Chosen
    <2> QED
      BY <1>2, <2>1 DEF Chosen, Grows, Holds
  <1> QED
    BY <1>1, <1>2, StaysOrChosen

(* A thread in a list in which threads wait is not ready. *)
LEMMA WaitingIsNotReady ==
  ASSUME PlaceInv, NEW t,
         \/ Holds(sleepers, t)
         \/ \E s \in Sem : In(waiting, s, t)
         \/ \E u \in Thread : In(joined, u, t)
  PROVE  ~Holds(ready, t)
  <1>1. /\ Ready \in ListName /\ ListOf(Ready) = ready
        /\ Sleeping \in ListName /\ ListOf(Sleeping) = sleepers
        /\ Ready # Sleeping
    BY DEF Ready, Sleeping, ListName, ListOf
  <1>2. ASSUME NEW s \in Sem
        PROVE  /\ Waiting(s) \in ListName /\ ListOf(Waiting(s)) = waiting[s]
               /\ Ready # Waiting(s)
    BY DEF Ready, Waiting, ListName, ListOf
  <1>3. ASSUME NEW u \in Thread
        PROVE  /\ Joined(u) \in ListName /\ ListOf(Joined(u)) = joined[u]
               /\ Ready # Joined(u)
    BY DEF Ready, Joined, ListName, ListOf
  <1>4. ASSUME NEW l \in ListName, Holds(ListOf(l), t), l # Ready
        PROVE  ~Holds(ListOf(Ready), t)
    BY <1>1, <1>4, PlaceIsOnePlace DEF OnePlace, Holds
  <1> QED
    BY <1>1, <1>2, <1>3, <1>4 DEF In

(***************************************************************************)
(* A thread that sleeps, waits on a semaphore or has joined another one    *)
(* leaves that list only for the ready list, and in the same step: it is   *)
(* never taken out and forgotten, put into another list, or switched to    *)
(* directly.                                                               *)
(***************************************************************************)
THEOREM ReleasedToReady == Spec => [][LeavesToReady]_vars
  <1>1. /\ TypeOK /\ PlaceInv /\ CallInv /\ PlaceInv' /\ CallInv'
        /\ [Next]_vars
        => LeavesToReady
    <2> SUFFICES ASSUME TypeOK, PlaceInv, CallInv, CallInv', [Next]_vars,
                        NEW t \in Thread, ~finishedThread'[t]
                 PROVE  /\ Holds(sleepers, t) =>
                             Holds(sleepers', t) \/ Holds(ready', t)
                        /\ \A s \in Sem : Holds(waiting[s], t) =>
                             Holds(waiting'[s], t) \/ Holds(ready', t)
                        /\ \A u \in Thread : Holds(joined[u], t) =>
                             Holds(joined'[u], t) \/ Holds(ready', t)
      BY DEF LeavesToReady
    <2> DEFINE Listed == \/ Holds(sleepers, t)
                         \/ \E s \in Sem : In(waiting, s, t)
                         \/ \E u \in Thread : In(joined, u, t)
    <2>1. ASSUME Listed
          PROVE  /\ t \notin {currentRunning, Idle} /\ ~Holds(ready, t)
                 /\ Entry(where, t) # "none"
      <3>1. Nowhere(ready, sleepers, waiting, joined,
                    Absent(currentRunning, where))
        BY DEF PlaceInv
      <3>2. t \notin Absent(currentRunning, where)
        BY <2>1, <3>1, ListedIsPresent DEF In, Entry
      <3>3. t \notin {currentRunning, Idle} /\ Entry(where, t) # "none"
        BY <3>2 DEF Absent, NotCreated, Entry
      <3>4. ~Holds(ready, t)
        BY <2>1, WaitingIsNotReady
      <3> QED
        BY <3>3, <3>4
    <2>2. ASSUME Listed
          PROVE  \/ Holds(ready', t)
                 \/ Holds(sleepers', t) /\ Entry(frame, t) = "sleep"
                 \/ /\ In(waiting', Entry(handle, t), t)
                    /\ Entry(frame, t) = "semWait"
                 \/ /\ In(joined', Entry(handle, t), t)
                    /\ Entry(frame, t) = "join"
      <3>1. t # currentRunning'
        BY <2>1, <2>2, RunnerWasReady
      <3>2. /\ Entry(frame', t) = Entry(frame, t)
            /\ Entry(handle', t) = Entry(handle, t)
            /\ Entry(where', t) # "none"
        BY <2>1, <2>2, OthersSuspended
      <3>3. Placed(currentRunning, ready, sleepers, waiting, joined, state,
                   frame, handle, finishedThread, where)'
        BY DEF CallInv, Calls
      <3>4. ~Entry(finishedThread', t)
        BY DEF Entry
      <3> QED
        BY <2>1, <2>2, <3>1, <3>2, <3>3, <3>4 DEF Placed
    <2>3. Parked(sleepers, waiting, joined, frame, handle, where)
      BY DEF CallInv, Calls
    <2>4. Holds(sleepers, t) => Holds(sleepers', t) \/ Holds(ready', t)
      BY <2>2, <2>3 DEF Parked
    <2>5. \A s \in Sem : In(waiting, s, t) =>
                           In(waiting', s, t) \/ Holds(ready', t)
      BY <2>2, <2>3 DEF Parked
    <2>6. \A u \in Thread : In(joined, u, t) =>
                              In(joined', u, t) \/ Holds(ready', t)
      BY <2>2, <2>3 DEF Parked
    <2> QED
      BY <2>4, <2>5, <2>6 DEF In
  <1> QED
    BY <1>1, CallInvAlways, PTL DEF Spec

-----------------------------------------------------------------------------
(* How often a tick is taken *)

(***************************************************************************)
(* How often the pending tick, in the slice's c-th interrupt, may still be *)
(* taken: a handler that has counted less than TimeSlice acknowledges it;  *)
(* one that has not switches with the tick pending, and with the counter   *)
(* back at 0 the next one acknowledges it.                                 *)
(***************************************************************************)
Left(pending, inTick, c) ==
  IF ~pending THEN 0
  ELSE IF inTick THEN (IF c < TimeSlice THEN 0 ELSE 1)
  ELSE (IF c + 1 < TimeSlice THEN 1 ELSE 2)
TakesLeft == Left(ssip, frame[currentRunning] = "tick", timeSliceCounter)

(* A sleeper e that asked for a, of which p ticks have passed, has been    *)
(* charged for them, and the pending one can still be charged to it.       *)
ChargeRight(e, a, p, left) == p >= a \/ a - e.sleepingTime + left <= 2 * p

ClockInv ==
  /\ asked \in [Thread -> Nat] /\ elapsed \in [Thread -> Nat]
  /\ \A i \in DOMAIN sleeping :
       LET e == sleeping[i]
       IN  ChargeRight(e, asked[e.thread], elapsed[e.thread], TakesLeft)

(* At most twice; not at all when none is pending. *)
LEMMA LeftBounds ==
  ASSUME NEW b, NEW k, NEW c
  PROVE  /\ Left(b, k, c) \in {0, 1, 2}
         /\ ~b => Left(b, k, c) = 0
  BY DEF Left

(* With less or as much left it stays right. *)
LEMMA ChargeFewer ==
  ASSUME NEW e \in Sleeper, NEW a \in Nat, NEW p \in Nat,
         NEW left \in {0, 1, 2}, NEW left2 \in {0, 1, 2},
         ChargeRight(e, a, p, left), left2 <= left
  PROVE  ChargeRight(e, a, p, left2)
  <1>1. e.sleepingTime \in Nat
    BY NumberAssumption DEF Sleeper
  <1> QED
    BY <1>1 DEF ChargeRight

(* An entry of the list of the sleepers. *)
LEMMA SleeperAt ==
  ASSUME TypeOK, NEW i \in DOMAIN sleeping
  PROVE  sleeping[i] \in Sleeper /\ sleeping[i].thread \in Thread
  <1>1. sleeping[i] \in Sleeper
    BY ElementOfSeq, LenProperties DEF TypeOK
  <1> QED
    BY <1>1 DEF Sleeper

(* A step that leaves the sleepers and what they asked for alone. *)
LEMMA ClockFrame ==
  ASSUME TypeOK, ClockInv, UNCHANGED <<sleeping, asked, elapsed>>,
         TakesLeft' <= TakesLeft
  PROVE  ClockInv'
  <1>1. TakesLeft \in {0, 1, 2} /\ TakesLeft' \in {0, 1, 2}
    BY LeftBounds DEF TakesLeft
  <1>2. ASSUME NEW i \in DOMAIN sleeping
        PROVE  ChargeRight(sleeping[i], asked[sleeping[i].thread],
                           elapsed[sleeping[i].thread], TakesLeft')
    <2> DEFINE e == sleeping[i]
    <2>1. e \in Sleeper /\ e.thread \in Thread
      BY SleeperAt
    <2>2. /\ asked[e.thread] \in Nat /\ elapsed[e.thread] \in Nat
          /\ ChargeRight(e, asked[e.thread], elapsed[e.thread], TakesLeft)
      BY <2>1 DEF ClockInv
    <2> HIDE DEF e
    <2> QED
      BY <1>1, <2>1, <2>2, ChargeFewer DEF e
  <1> QED
    BY <1>2 DEF ClockInv

(* A thread falls asleep: it has not been charged. *)
LEMMA ClockSleep ==
  ASSUME TypeOK, PlaceInv, ClockInv, NEW n \in SleepTimes, FallAsleep(n)
  PROVE  ClockInv'
  <1> DEFINE t == currentRunning
             e == [thread |-> t, sleepingTime |-> n]
  <1>1. /\ t \in Thread /\ e \in Sleeper /\ e.thread = t /\ e.sleepingTime = n
        /\ n \in Nat /\ ~ssip /\ UNCHANGED ssip
        /\ sleeping \in Seq(Sleeper) /\ sleeping' = Append(sleeping, e)
    BY NumberAssumption DEF FallAsleep, TimeSleep, Client, InBody, InThread,
                            TypeOK, Sleeper
  <1>2. /\ asked' = [asked EXCEPT ![t] = n] /\ elapsed' = elapsed
        /\ asked \in [Thread -> Nat] /\ elapsed \in [Thread -> Nat]
    BY DEF FallAsleep, ClockInv
  <1>3. TakesLeft' = 0 /\ TakesLeft \in {0, 1, 2}
    BY <1>1, LeftBounds DEF TakesLeft
  <1>4. \A i \in DOMAIN sleeping : sleeping[i].thread # t
    <2>1. SUFFICES ASSUME NEW i \in DOMAIN sleeping, sleeping[i].thread = t
                   PROVE  FALSE
      OBVIOUS
    <2>2. Holds(sleepers, t)
      BY <2>1 DEF Holds, sleepers
    <2>3. Nowhere(ready, sleepers, waiting, joined, Absent(t, where))
      BY DEF PlaceInv
    <2>4. t \notin Absent(t, where)
      BY <2>2, <2>3, ListedIsPresent
    <2> QED
      BY <2>4 DEF Absent
  <1> HIDE DEF e, t
  <1>5. /\ Len(sleeping) \in Nat /\ DOMAIN sleeping = 1 .. Len(sleeping)
        /\ DOMAIN sleeping' = 1 .. (Len(sleeping) + 1)
        /\ \A i \in 1 .. Len(sleeping) : sleeping'[i] = sleeping[i]
        /\ sleeping'[Len(sleeping) + 1] = e
    BY <1>1, AppendProperties, LenProperties
  <1>6. asked' \in [Thread -> Nat] /\ elapsed' \in [Thread -> Nat]
    BY <1>1, <1>2
  <1>7. ASSUME NEW i \in DOMAIN sleeping'
        PROVE  ChargeRight(sleeping'[i], asked'[sleeping'[i].thread],
                           elapsed'[sleeping'[i].thread], 0)
    <2>1. CASE i = Len(sleeping) + 1
      <3>1. asked'[t] = n /\ elapsed'[t] \in Nat
        BY <1>1, <1>2
      <3>2. ChargeRight(e, n, elapsed'[t], 0)
        BY <1>1, <3>1 DEF ChargeRight
      <3> QED
        BY <1>1, <1>5, <2>1, <3>1, <3>2
    <2>2. CASE i # Len(sleeping) + 1
      <3> DEFINE u == sleeping[i]
      <3>1. i \in DOMAIN sleeping /\ sleeping'[i] = u
        BY <1>5, <1>7, <2>2
      <3>2. u \in Sleeper /\ u.thread \in Thread /\ u.thread # t
        BY <1>4, <3>1, SleeperAt
      <3>3. ChargeRight(u, asked[u.thread], elapsed[u.thread], TakesLeft)
        BY <3>1 DEF ClockInv
      <3> HIDE DEF u
      <3>4. /\ asked'[u.thread] = asked[u.thread] /\ asked[u.thread] \in Nat
            /\ elapsed[u.thread] \in Nat
        BY <1>2, <3>2
      <3>5. ChargeRight(u, asked[u.thread], elapsed[u.thread], 0)
        <4>1. 0 \in {0, 1, 2} /\ 0 <= TakesLeft
          BY <1>3
        <4> HIDE DEF TakesLeft
        <4> QED
          BY <1>3, <3>2, <3>3, <3>4, <4>1, ChargeFewer
      <3> QED
        BY <1>2, <3>1, <3>4, <3>5
    <2> QED
      BY <2>1, <2>2
  <1> QED
    BY <1>3, <1>6, <1>7 DEF ClockInv

(* A tick comes: it may be charged twice. *)
LEMMA ClockTick ==
  ASSUME TypeOK, ClockInv, Tick
  PROVE  ClockInv'
  <1>1. /\ ~ssip /\ sleeping' = sleeping /\ asked' = asked
        /\ elapsed' = [t \in Thread |-> IF elapsed[t] < asked[t]
                                        THEN elapsed[t] + 1 ELSE elapsed[t]]
        /\ asked \in [Thread -> Nat] /\ elapsed \in [Thread -> Nat]
    BY DEF Tick, TimerRaise, ClockInv
  <1>2. TakesLeft = 0 /\ TakesLeft' \in {0, 1, 2}
    BY <1>1, LeftBounds DEF TakesLeft
  <1>3. elapsed' \in [Thread -> Nat]
    BY <1>1
  <1>4. ASSUME NEW i \in DOMAIN sleeping
        PROVE  ChargeRight(sleeping[i], asked[sleeping[i].thread],
                           elapsed'[sleeping[i].thread], TakesLeft')
    <2> DEFINE e == sleeping[i]
               a == asked[e.thread]
               p == elapsed[e.thread]
               left == TakesLeft'
    <2>1. e \in Sleeper /\ e.thread \in Thread /\ e.sleepingTime \in Nat
      BY SleeperAt, NumberAssumption DEF Sleeper
    <2>2. ChargeRight(e, a, p, 0)
      BY <1>2 DEF ClockInv
    <2>3. /\ a \in Nat /\ p \in Nat
          /\ elapsed'[e.thread] = IF p < a THEN p + 1 ELSE p
      BY <1>1, <2>1
    <2>4. left \in {0, 1, 2}
      BY <1>2
    <2> HIDE DEF e, a, p, left
    <2>5. ChargeRight(e, a, IF p < a THEN p + 1 ELSE p, left)
      BY <2>1, <2>2, <2>3, <2>4 DEF ChargeRight
    <2> QED
      BY <2>3, <2>5 DEF e, a, left
  <1> QED
    BY <1>1, <1>3, <1>4 DEF ClockInv

(* The tick is taken, and charged. *)
LEMMA ClockTaken ==
  ASSUME TypeOK, ClockInv, TimerTrap, UNCHANGED clockVars
  PROVE  ClockInv'
  <1>1. /\ ssip /\ ssip' = ssip /\ currentRunning' = currentRunning
        /\ frame[currentRunning] = "thread" /\ frame'[currentRunning] = "tick"
        /\ timeSliceCounter' = timeSliceCounter + 1 /\ timeSliceCounter \in Nat
        /\ asked' = asked /\ elapsed' = elapsed
        /\ sleeping' = [i \in DOMAIN sleeping |-> Ticked(sleeping[i])]
    BY DEF TimerTrap, TypeOK, clockVars
  <1>2. TakesLeft = TakesLeft' + 1 /\ TakesLeft' \in {0, 1, 2}
    BY <1>1, NumberAssumption DEF TakesLeft, Left
  <1>3. ASSUME NEW i \in DOMAIN sleeping
        PROVE  LET e == Ticked(sleeping[i])
               IN ChargeRight(e, asked[e.thread], elapsed[e.thread], TakesLeft')
    <2> DEFINE e == sleeping[i]
               a == asked[e.thread]
               p == elapsed[e.thread]
               left == TakesLeft'
               s == e.sleepingTime
               d == Ticked(e)
    <2>1. e \in Sleeper /\ e.thread \in Thread
      BY SleeperAt
    <2>2. ChargeRight(e, a, p, left + 1)
      BY <1>2 DEF ClockInv
    <2>3. a \in Nat /\ p \in Nat
      BY <2>1 DEF ClockInv
    <2>4. left \in {0, 1, 2}
      BY <1>2
    <2> HIDE DEF e, a, p, left, s
    <2>5. /\ d.thread = e.thread
          /\ d.sleepingTime = (s + TimeModulus - 1) % TimeModulus
      BY <2>1 DEF Ticked, Sleeper, s
    <2>6. s \in 0 .. (TimeModulus - 1) /\ TimeModulus \in Nat /\ TimeModulus > 1
      BY <2>1, NumberAssumption DEF Sleeper, s
    <2>7. /\ (s + TimeModulus - 1) % TimeModulus \in Nat
          /\ (s + TimeModulus - 1) % TimeModulus >= s - 1
      <3>1. CASE s = 0
        <4>1. s + TimeModulus - 1 = TimeModulus - 1
          BY <2>6, <3>1
        <4>2. (TimeModulus - 1) % TimeModulus \in Nat
          BY <2>6
        <4> QED
          BY <3>1, <4>1, <4>2
      <3>2. CASE s # 0
        <4>1. s - 1 \in 0 .. (TimeModulus - 1)
          BY <2>6, <3>2
        <4>2. (s - 1 + TimeModulus) % TimeModulus = s - 1
          BY <2>6, <4>1
        <4>3. s + TimeModulus - 1 = s - 1 + TimeModulus
          BY <2>6
        <4> QED
          BY <4>1, <4>2, <4>3
      <3> QED
        BY <3>1, <3>2
    <2> HIDE DEF d
    <2>8. ChargeRight(d, a, p, left)
      BY <2>2, <2>3, <2>4, <2>5, <2>6, <2>7 DEF ChargeRight, s
    <2> QED
      BY <2>5, <2>8 DEF d, e, a, p, left
  <1>4. DOMAIN sleeping' = DOMAIN sleeping
    BY <1>1
  <1> QED
    BY <1>1, <1>3, <1>4 DEF ClockInv

(* A sleeper that stays has what it had. *)
LEMMA ClockCheck ==
  ASSUME TypeOK, ClockInv, Check
  PROVE  ClockInv'
  <1>1. /\ CheckSleeper
        /\ asked' = [t \in Thread |->
                       IF Holds(sleepers', t) THEN asked[t] ELSE 0]
        /\ elapsed' = [t \in Thread |->
                         IF Holds(sleepers', t) THEN elapsed[t] ELSE 0]
        /\ asked \in [Thread -> Nat] /\ elapsed \in [Thread -> Nat]
    BY DEF Check, ClockInv
  <1>2. TakesLeft' = TakesLeft
    <2>1. UNCHANGED <<ssip, frame, currentRunning, timeSliceCounter>>
      BY <1>1 DEF CheckSleeper
    <2> QED
      BY <2>1 DEF TakesLeft
  <1>3. \A i \in DOMAIN sleeping' :
          \E k \in DOMAIN sleeping : sleeping'[i] = sleeping[k]
    <2>1. CASE UNCHANGED sleeping
      BY <2>1
    <2>2. CASE ~UNCHANGED sleeping
      <3>1. /\ scan \in DOMAIN sleeping /\ sleeping \in Seq(Sleeper)
            /\ sleeping' = Without(sleeping, scan)
        BY <1>1, <2>2 DEF CheckSleeper, Without, TypeOK
      <3>2. Len(sleeping) \in Nat /\ DOMAIN sleeping = 1 .. Len(sleeping)
        BY <3>1, LenProperties
      <3>3. /\ DOMAIN sleeping' = 1 .. (Len(sleeping) - 1)
            /\ \A i \in 1 .. (Len(sleeping) - 1) :
                 sleeping'[i] = sleeping[IF i < scan THEN i ELSE i + 1]
        BY <3>1, WithoutType
      <3>4. \A i \in 1 .. (Len(sleeping) - 1) :
              (IF i < scan THEN i ELSE i + 1) \in 1 .. Len(sleeping)
        BY <3>2
      <3> QED
        BY <3>2, <3>3, <3>4
    <2> QED
      BY <2>1, <2>2
  <1>4. asked' \in [Thread -> Nat] /\ elapsed' \in [Thread -> Nat]
    BY <1>1
  <1>5. ASSUME NEW i \in DOMAIN sleeping'
        PROVE  ChargeRight(sleeping'[i], asked'[sleeping'[i].thread],
                           elapsed'[sleeping'[i].thread], TakesLeft)
    <2>1. PICK k \in DOMAIN sleeping : sleeping'[i] = sleeping[k]
      BY <1>3, <1>5
    <2> DEFINE e == sleeping[k]
    <2>2. e \in Sleeper /\ e.thread \in Thread
      BY <2>1, SleeperAt
    <2>3. Holds(sleepers', e.thread)
      BY <1>5, <2>1 DEF Holds, sleepers
    <2>4. /\ asked'[e.thread] = asked[e.thread]
          /\ elapsed'[e.thread] = elapsed[e.thread]
      BY <1>1, <2>2, <2>3
    <2> QED
      BY <2>1, <2>4 DEF ClockInv
  <1> QED
    BY <1>2, <1>4, <1>5 DEF ClockInv

(* No step but these lets the pending tick be taken more often. *)
LEMMA ClockOthers ==
  ASSUME TimeSlice > 1, TypeOK, ClockInv, UNCHANGED clockVars,
         ThreadCall \/ SemCall \/ Returns \/ TimerPreempts \/ TimerContinues
  PROVE  ClockInv'
  <1>1. /\ UNCHANGED <<asked, elapsed>>
        /\ TakesLeft \in {0, 1, 2} /\ TakesLeft' \in {0, 1, 2}
    BY LeftBounds DEF clockVars, TakesLeft
  <1>2. CASE ThreadCall
    <2>1. ~ssip /\ ssip' = ssip /\ sleeping' = sleeping
      BY <1>2 DEF ThreadCall, ThreadCreate, Terminate, ThreadJoin,
         JoinThroughStaleTail, ThreadDispatch, ThreadExit, BodyReturns,
         ReleaseJoined, CurrAdvances, WrapperReturns, Client, InBody,
         InThread, ExitCalled,
         timerVars
    <2>2. TakesLeft' = 0
      BY <2>1, LeftBounds DEF TakesLeft
    <2> QED
      BY <1>1, <2>1, <2>2, ClockFrame
  <1>3. CASE SemCall
    <2>1. ~ssip /\ ssip' = ssip /\ sleeping' = sleeping
      BY <1>3 DEF SemCall, SemOpen, SemClose, SemWaitPasses, SemWaitBlocks,
         SemSignal, Client, InBody, InThread, timerVars
    <2>2. TakesLeft' = 0
      BY <2>1, LeftBounds DEF TakesLeft
    <2> QED
      BY <1>1, <2>1, <2>2, ClockFrame
  <1>4. CASE TimerReturns
    <2>1. ~ssip' /\ sleeping' = sleeping
      BY <1>4 DEF TimerReturns, Acknowledge
    <2>2. TakesLeft' = 0
      BY <2>1, LeftBounds DEF TakesLeft
    <2> QED
      BY <1>1, <2>1, <2>2, ClockFrame
  <1>5. CASE StartThread \/ CallReturns \/ SemWaitReturns
    <2>1. /\ UNCHANGED <<ssip, sleeping, currentRunning, timeSliceCounter>>
          /\ frame[currentRunning] \in {"wrapper", "dispatch", "join", "sleep",
                                        "semWait"}
          /\ frame' = [frame EXCEPT ![currentRunning] = "thread"]
      BY <1>5 DEF StartThread, CallReturns, SemWaitReturns, Resume, timerVars
    <2>2. frame[currentRunning] # "tick" /\ frame'[currentRunning] # "tick"
      BY <2>1 DEF TypeOK
    <2>3. TakesLeft' = TakesLeft
      BY <2>1, <2>2 DEF TakesLeft, Left
    <2> QED
      BY <1>1, <2>1, <2>3, ClockFrame
  <1>6. CASE TimerPreempts
    <2>1. /\ UNCHANGED <<ssip, sleeping>> /\ timeSliceCounter' = 0
          /\ frame[currentRunning] = "tick" /\ timeSliceCounter >= TimeSlice
      BY <1>6 DEF TimerPreempts
    <2>2. TakesLeft' <= TakesLeft
      BY <2>1, NumberAssumption DEF TakesLeft, Left, TypeOK
    <2> QED
      BY <1>1, <2>1, <2>2, ClockFrame
  <1>7. CASE TimerContinues
    <2>1. ~ssip' /\ sleeping' = sleeping
      BY <1>7 DEF TimerContinues, Acknowledge
    <2>2. TakesLeft' = 0
      BY <2>1, LeftBounds DEF TakesLeft
    <2> QED
      BY <1>1, <2>1, <2>2, ClockFrame
  <1> QED
    BY <1>2, <1>3, <1>4, <1>5, <1>6, <1>7 DEF Returns

(* With or without its clock the kernel takes the same steps. *)
LEMMA ClockIsNext ==
  ASSUME [ClockNext]_<<vars, clockVars>>
  PROVE  [Next]_vars
  BY DEF ClockNext, FallAsleep, Tick, Check, Next, Timer

(* Every step keeps ClockInv. *)
LEMMA ClockStep ==
  ASSUME TimeSlice > 1, TypeOK, PlaceInv, ClockInv,
         [ClockNext]_<<vars, clockVars>>
  PROVE  ClockInv'
  <1>1. CASE \E n \in SleepTimes : FallAsleep(n)
    BY <1>1, ClockSleep
  <1>2. CASE Tick
    BY <1>2, ClockTick
  <1>3. CASE Check
    BY <1>3, ClockCheck
  <1>4. CASE /\ UNCHANGED clockVars
             /\ \/ ThreadCall \/ SemCall \/ Returns
                \/ TimerPreempts \/ TimerContinues
    BY <1>4, ClockOthers
  <1>5. CASE TimerTrap /\ UNCHANGED clockVars
    BY <1>5, ClockTaken
  <1>6. CASE UNCHANGED <<vars, clockVars>>
    <2>1. /\ UNCHANGED <<sleeping, asked, elapsed>>
          /\ UNCHANGED <<ssip, frame, currentRunning, timeSliceCounter>>
      BY <1>6 DEF vars, clockVars, timerVars, schedVars
    <2>2. TakesLeft' = TakesLeft /\ TakesLeft \in {0, 1, 2}
      BY <2>1, LeftBounds DEF TakesLeft
    <2> QED
      BY <2>1, <2>2, ClockFrame
  <1> QED
    BY <1>1, <1>2, <1>3, <1>4, <1>5, <1>6 DEF ClockNext

(* It holds at first. *)
LEMMA ClockStart ==
  ASSUME ClockInit
  PROVE  ClockInv
  BY DEF ClockInit, Init, ClockInv

(***************************************************************************)
(* With a time slice of at least two ticks, the code's DEFAULT_TIME_SLICE, *)
(* a sleeper is charged at most twice for a tick, whatever the switches.   *)
(***************************************************************************)
THEOREM TickAlwaysTakenAtMostTwice ==
  ASSUME TimeSlice > 1
  PROVE  ClockSpec => []TickTakenAtMostTwice
  <1>1. ClockInit => Init /\ ClockInv
    BY ClockStart DEF ClockInit
  <1>2. [ClockNext]_<<vars, clockVars>> => [Next]_vars
    BY ClockIsNext
  <1>3. TypeOK /\ PlaceInv /\ ClockInv /\ [ClockNext]_<<vars, clockVars>>
          => ClockInv'
    BY ClockStep
  <1>4. TypeOK /\ ClockInv => TickTakenAtMostTwice
    <2>1. SUFFICES ASSUME TypeOK, ClockInv, NEW i \in DOMAIN sleeping
                   PROVE  asked[sleeping[i].thread] - sleeping[i].sleepingTime
                            <= 2 * elapsed[sleeping[i].thread]
      BY DEF TickTakenAtMostTwice
    <2> DEFINE e == sleeping[i]
               a == asked[e.thread]
               p == elapsed[e.thread]
    <2>2. e \in Sleeper /\ e.thread \in Thread /\ e.sleepingTime \in Nat
      BY <2>1, SleeperAt, NumberAssumption DEF Sleeper
    <2>3. a \in Nat /\ p \in Nat /\ ChargeRight(e, a, p, TakesLeft)
      BY <2>1, <2>2 DEF ClockInv
    <2>4. TakesLeft \in {0, 1, 2}
      BY LeftBounds DEF TakesLeft
    <2> HIDE DEF e, a, p
    <2>5. a - e.sleepingTime <= 2 * p
      BY <2>2, <2>3, <2>4 DEF ChargeRight
    <2> QED
      BY <2>5 DEF e, a, p
  <1> QED
    BY <1>1, <1>2, <1>3, <1>4, TypeCorrect, PlaceInvAlways, PTL
    DEF ClockSpec, Spec
=============================================================================
