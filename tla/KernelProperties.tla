-------------------------- MODULE KernelProperties --------------------------
(***************************************************************************)
(* What the thread kernel has to guarantee, whatever calls the threads     *)
(* make and whenever the timer interrupts them.                            *)
(***************************************************************************)
EXTENDS Kernel

Holds(q, t) == \E i \in DOMAIN q : q[i] = t
NoRepeats(q) == \A i, j \in DOMAIN q : q[i] = q[j] => i = j

(* The threads in sleepingThreads' list, in its order. *)
sleepers == [i \in DOMAIN sleeping |-> sleeping[i].thread]

Deficit(v) == IF v < 0 THEN -v ELSE 0

(* Every variable has its type. *)
TypeOK ==
  /\ currentRunning \in Thread
  /\ ready \in Seq(Thread)
  /\ state \in [Thread -> ThreadState]
  /\ finishedThread \in [Thread -> BOOLEAN]
  /\ where \in [Thread -> Where]
  /\ frame \in [Thread -> Frame]
  /\ handle \in [Thread -> Sem \cup User \cup {None}]
  /\ timeSliceCounter \in Nat
  /\ sleeping \in Seq(Sleeper)
  /\ scan \in Nat
  /\ ssip \in BOOLEAN
  /\ mode \in {0, 1}
  /\ value \in [Sem -> Int]
  /\ waiting \in [Sem -> Seq(Thread)]
  /\ opened \in [Sem -> BOOLEAN]
  /\ closed \in [Sem -> BOOLEAN]
  /\ isReleasedAfterClosing \in [Thread -> BOOLEAN]
  /\ joined \in [Thread -> Seq(Thread)]
  /\ tailFreed \in [Thread -> BOOLEAN]
  /\ fault \in Fault

(***************************************************************************)
(* No thread is ever lost: a thread that was created and has not finished  *)
(* is the running one or sits in the one list its state names, the list of *)
(* the very semaphore or thread whose handle its suspended call holds.     *)
(* (Scheduler::put, Sem::block, PCB::join, addThreadToSleep and every      *)
(* place that moves a thread from one list to another.)                    *)
(***************************************************************************)
NoThreadLost ==
  \A t \in Thread \ {Idle} :
    where[t] # "none" /\ ~finishedThread[t] /\ t # currentRunning =>
      \/ state[t] = "READY" /\ Holds(ready, t)
      \/ state[t] = "SLEEPING" /\ Holds(sleepers, t) /\ frame[t] = "sleep"
      \/ /\ state[t] = "BLOCKED" /\ frame[t] = "semWait"
         /\ Holds(waiting[handle[t]], t)
      \/ /\ state[t] = "JOINED" /\ frame[t] = "join"
         /\ Holds(joined[handle[t]], t)

(* Every list of threads in the kernel, under a name. *)
ListName == ({"ready", "sleeping"} \X {None})
            \cup ({"waiting"} \X Sem) \cup ({"joined"} \X Thread)

ListOf(l) == CASE l[1] = "ready"    -> ready
               [] l[1] = "sleeping" -> sleepers
               [] l[1] = "waiting"  -> waiting[l[2]]
               [] l[1] = "joined"   -> joined[l[2]]

(***************************************************************************)
(* No thread is in two places: over all the lists of the kernel a thread   *)
(* occurs at most once, and neither the running thread nor the idle thread *)
(* occurs.  A thread listed twice would be switched to twice from one      *)
(* saved context.                                                          *)
(***************************************************************************)
OnePlace ==
  \A l \in ListName : \A i \in DOMAIN ListOf(l) :
    /\ ListOf(l)[i] \notin {currentRunning, Idle}
    /\ \A m \in ListName : \A j \in DOMAIN ListOf(m) :
         ListOf(l)[i] = ListOf(m)[j] => l = m /\ i = j

(***************************************************************************)
(* The value of an open semaphore counts its queue: -value threads wait,   *)
(* so Sem::deblock, called when ++value <= 0, finds one.  After semClose   *)
(* value keeps the old deficit with an empty queue, and the queue can only *)
(* be shorter than it says.                                                *)
(***************************************************************************)
SemQueueMatchesValue ==
  \A s \in Sem :
    /\ opened[s] /\ ~closed[s] => Len(waiting[s]) = Deficit(value[s])
    /\ Len(waiting[s]) <= Deficit(value[s])

(***************************************************************************)
(* Sem::deblock reads through a null head only after some semaphore was    *)
(* closed with threads waiting on it.                                      *)
(***************************************************************************)
NullWaiterNeedsClose ==
  fault = "nullWaiter" => \E s \in Sem : closed[s] /\ value[s] <= 0

(***************************************************************************)
(* The flag semClose sets on a thread is addressed: until the thread reads *)
(* it on its way out of semWait (and gets -1), the thread is suspended in  *)
(* semWait of that closed semaphore and no longer queued on it.  No later  *)
(* semWait can see it.                                                     *)
(***************************************************************************)
CloseFlagAddressed ==
  \A t \in Thread : isReleasedAfterClosing[t] =>
    /\ frame[t] = "semWait"
    /\ closed[handle[t]]
    /\ ~Holds(waiting[handle[t]], t)

(***************************************************************************)
(* A thread whose thread_exit was taken never runs again: the code after   *)
(* dispatch in that handler, the only place a PCB is deleted, is dead.     *)
(***************************************************************************)
ExitedNeverRuns ==
  \A t \in Thread :
    frame[t] = "exit" => finishedThread[t] /\ t # currentRunning

(***************************************************************************)
(* The unsigned counter of a sleeper never passes zero: between two ticks  *)
(* no entry is zero (subOneTimeSlice would wrap it), and while the list is *)
(* scanned the entries already passed are not zero.                        *)
(***************************************************************************)
SleepersAwaitTime ==
  \A i \in DOMAIN sleeping :
    scan = 0 \/ i < scan => sleeping[i].sleepingTime > 0

(***************************************************************************)
(* thread_join waits for the body: a thread whose join has been released   *)
(* (it is ready or running with the join still to return) joined a thread  *)
(* whose body has returned.                                                *)
(***************************************************************************)
JoinWaitsForBody ==
  \A t \in Thread :
    /\ frame[t] = "join" /\ state[t] # "JOINED" /\ ~finishedThread[t]
    => where[handle[t]] \in {"release", "advance", "exit"}

-----------------------------------------------------------------------------
(***************************************************************************)
(* Fairness.  The machine timer keeps ticking and a handler that was       *)
(* entered, or switched back into, runs to its end.  Nothing is asked of   *)
(* the threads' own programs, except that a thread in the loop of PCB::run *)
(* executes it whenever it keeps getting the processor: a tick is much     *)
(* longer than a handler, so instructions of the thread are executed       *)
(* between two interrupts.                                                 *)
(***************************************************************************)
ReleaseLoopOf(t) == currentRunning = t /\ (ReleaseJoined \/ CurrAdvances)

Fairness ==
  /\ WF_vars(TimerRaise)
  /\ WF_vars(Timer)
  /\ WF_vars(Returns)
  /\ \A t \in User : SF_vars(ReleaseLoopOf(t))

FairSpec == Spec /\ Fairness

Over(t) == finishedThread[t] \/ fault # "none"

(* No ready thread starves, whatever the running threads do. *)
ReadyRuns ==
  \A t \in Thread \ {Idle} : Holds(ready, t) ~> currentRunning = t \/ Over(t)

(* Every sleeper is woken. *)
SleeperWakes ==
  \A t \in Thread \ {Idle} : Holds(sleepers, t) ~> ~Holds(sleepers, t) \/ Over(t)

(***************************************************************************)
(* Every thread in the join list when the body has returned, or added to   *)
(* it while PCB::run releases the others, is released, unless the joined   *)
(* thread is terminated meanwhile.  (The loop as a whole need not end: a   *)
(* released thread may join again before the loop has read curr->next.)    *)
(***************************************************************************)
JoinersReleased ==
  \A u \in User : \A t \in Thread \ {Idle} :
    where[u] \in {"release", "advance"} /\ Holds(joined[u], t)
      ~> ~Holds(joined[u], t) \/ Over(u)

(* A waiter is served if its semaphore is signalled again and again. *)
WaitersServed ==
  \A s \in Sem : \A t \in Thread \ {Idle} :
    []<><<SemSignal(s)>>_vars =>
      (Holds(waiting[s], t) ~> ~Holds(waiting[s], t))

-----------------------------------------------------------------------------
(***************************************************************************)
(* Sem implements Semaphores: a positive value is the permits, and the     *)
(* list of blocked threads is the queue, until the semaphore is closed.    *)
(***************************************************************************)
Live(s) == opened[s] /\ ~closed[s]

status  == [s \in Sem |-> IF closed[s] THEN "closed"
                          ELSE IF opened[s] THEN "open" ELSE "new"]
permits == [s \in Sem |-> IF Live(s) /\ value[s] > 0 THEN value[s] ELSE 0]
queue   == [s \in Sem |-> IF Live(s) THEN waiting[s] ELSE <<>>]

Semaphore == INSTANCE Semaphores

(* Every step of the kernel is a step of the semaphores it maps to. *)
ImplementsSemaphores == Semaphore!Spec
=============================================================================
