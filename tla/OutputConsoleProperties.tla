---------------------- MODULE OutputConsoleProperties ----------------------
(***************************************************************************)
(* What can be relied upon of the console's output.  getcB is not safe     *)
(* against a tick; the properties tell when one can come, and what holds   *)
(* when none does.                                                         *)
(***************************************************************************)
EXTENDS OutputConsole

(***************************************************************************)
(* Once the output thread has blocked, a tick can never hit getcB again:   *)
(* it comes back from block with interrupts disabled, and every trap of    *)
(* its own saves and restores just that.  Only the time from its start to  *)
(* its first block is open to a race.                                      *)
(***************************************************************************)
MaskedAfterBlocking == blocked /\ running = Out => ~SIE

(* The characters in the buffer, and how far count and value are off; both *)
(* are corrected for a character that getcB is about to take.              *)
Stored == Len(accepted) - Len(taken)
CountDrift == count - Stored - (IF pc \in {"loadCount", "storeCount"} THEN 1 ELSE 0)
ValueDrift ==
  value - Stored
    + (IF pc \in {"block", "enlist", "choose", "switch", "take"} THEN 1 ELSE 0)

(* As long as no tick has hit getcB in a critical place, count is what is  *)
(* in the buffer and value what may still be taken.                        *)
BufferExact == ~raced => CountDrift = 0 /\ ValueDrift = 0

(* Without a race the characters are sent in the order in which they were  *)
(* accepted, none twice and none left out, whenever the buffer was full.   *)
SentInOrder == ~raced => IsPrefix(taken, accepted)

(***************************************************************************)
(* Without a race the output thread is always in exactly one place:        *)
(* running, ready or waiting.  semSignal finds it there when the value     *)
(* says that it waits, and setAllFinished, which puts it into the ready    *)
(* list without looking, never puts it there while it waits.               *)
(***************************************************************************)
OutThreadKept ==
  ~raced =>
    /\ ~fault
    /\ Cardinality({i \in DOMAIN ready : ready[i] = Out})
         = IF running = Out \/ inList THEN 0 ELSE 1
    /\ running = Out /\ pc \notin Critical => ~inList

-----------------------------------------------------------------------------
(* Ticks keep coming; the output thread, given the processor again and     *)
(* again, executes some of its instructions, a tick being far longer than  *)
(* a handler; and the console is ready again and again when it is polled.  *)
FairSpec ==
  /\ Spec
  /\ WF_vars(UserSwitches)
  /\ SF_vars(getcB \/ Send) /\ SF_vars(PollReady) /\ WF_vars(PollBusy)

(* Without a race, all that is accepted is sent in the end, the message of *)
(* an exception too: main, which waits for an empty buffer, gets on.       *)
OutputDrains == <>[](raced \/ taken = accepted)
=============================================================================
