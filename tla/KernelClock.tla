---------------------------- MODULE KernelClock ----------------------------
(***************************************************************************)
(* The kernel with a wall clock: how long a sleeping thread has really     *)
(* slept.  timerTrapHandler counts interrupts taken, not ticks of the      *)
(* timer: if its dispatch switches to a thread that was not suspended in   *)
(* the timer handler, SSIP is still set when that thread returns and the   *)
(* same tick is taken a second time.                                       *)
(***************************************************************************)
EXTENDS KernelProperties

VARIABLES
  asked,    \* what the thread asked for in time_sleep; 0 if it does not sleep
  elapsed   \* ticks of the timer since then, counted up to asked

clockVars == <<asked, elapsed>>

ClockInit ==
  /\ Init
  /\ asked = [t \in Thread |-> 0]
  /\ elapsed = [t \in Thread |-> 0]

FallAsleep(n) ==
  /\ TimeSleep(n)
  /\ asked' = [asked EXCEPT ![currentRunning] = n]
  /\ UNCHANGED elapsed

Tick ==
  /\ TimerRaise
  /\ elapsed' = [t \in Thread |-> IF elapsed[t] < asked[t]
                                  THEN elapsed[t] + 1 ELSE elapsed[t]]
  /\ UNCHANGED asked

(* A woken thread is no longer watched. *)
Check ==
  /\ CheckSleeper
  /\ asked' = [t \in Thread |-> IF Holds(sleepers', t) THEN asked[t] ELSE 0]
  /\ elapsed' = [t \in Thread |-> IF Holds(sleepers', t) THEN elapsed[t] ELSE 0]

ClockNext ==
  \/ \E n \in SleepTimes : FallAsleep(n)
  \/ Tick
  \/ Check
  \/ /\ \/ ThreadCall \/ SemCall \/ Returns
        \/ TimerTrap \/ TimerPreempts \/ TimerContinues
     /\ UNCHANGED clockVars

ClockSpec == ClockInit /\ [][ClockNext]_<<vars, clockVars>>

(***************************************************************************)
(* Each tick is taken at most twice, however the threads are switched in   *)
(* between: a sleeper has been charged at most two for every tick since    *)
(* its call, so it never wakes before half the time it asked for.          *)
(***************************************************************************)
TickTakenAtMostTwice ==
  \A i \in DOMAIN sleeping :
    LET e == sleeping[i]
    IN  asked[e.thread] - e.sleepingTime <= 2 * elapsed[e.thread]
=============================================================================
