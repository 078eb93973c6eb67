----------------------------- MODULE PrintLock -----------------------------
(***************************************************************************)
(* PrintLock: the lock of printString, getString and printInt, taken and   *)
(* given back with lr.w and sc.w.  The processor holds one reservation,    *)
(* whoever made it; sc succeeds while it holds one.  The architecture lets *)
(* a trap keep or drop it, and supervisorTrap.S does not drop it.          *)
(***************************************************************************)
EXTENDS Naturals

CONSTANTS
  Printers,   \* the threads
  None,       \* no reservation
  Keeps       \* whether a trap keeps the reservation: the possible answers

ASSUME LockAssumption == None \notin Printers /\ Keeps \subseteq BOOLEAN

VARIABLES
  lockPrint,
  lockRunning,   \* the thread that has the processor
  reservation,   \* the thread whose lr made it
  lockPc,        \* where each thread is
  stolen         \* history: an sc has used the reservation of another thread

lockVars == <<lockPrint, lockRunning, reservation, lockPc, stolen>>

(* Where a thread reads the lock word, where it writes it, and where it is *)
(* afterwards.                                                             *)
StoreOf == [lock |-> "lockStore", unlock |-> "unlockStore"]
LoadOf == [lockStore |-> "lock", unlockStore |-> "unlock"]
Done == [lockStore |-> "section", unlockStore |-> "out"]

Places == {"out", "lock", "lockStore", "yield", "section", "unlock",
           "unlockStore"}
Holding == {"section", "unlock", "unlockStore"}

LockInit ==
  /\ lockPrint = 0
  /\ lockRunning \in Printers /\ reservation = None
  /\ lockPc = [t \in Printers |-> "out"]
  /\ stolen = FALSE

Goes(t, from, to) ==
  lockRunning = t /\ lockPc[t] \in from /\ lockPc' = [lockPc EXCEPT ![t] = to]

(* A trap that goes on with thread t: a tick, or a system call.            *)
TrapTo(t) ==
  /\ lockRunning' = t
  /\ \E kept \in Keeps : reservation' = IF kept THEN reservation ELSE None
  /\ UNCHANGED <<lockPrint, stolen>>

Trap(t) == TrapTo(t) /\ UNCHANGED lockPc

-----------------------------------------------------------------------------

(* printString, getString or printInt is called.                           *)
Call(t) ==
  /\ Goes(t, {"out"}, "lock")
  /\ UNCHANGED <<lockPrint, lockRunning, reservation, stolen>>

Expected(t) == lockPrint = IF lockPc[t] \in {"lock", "lockStore"} THEN 0 ELSE 1

(* lr.w and bne.  Where the value does not match, LOCK dispatches, UNLOCK  *)
(* tries again; the reservation is there all the same.                     *)
Load(t) ==
  /\ Goes(t, {"lock", "unlock"},
          IF Expected(t) THEN StoreOf[lockPc[t]]
          ELSE IF lockPc[t] = "lock" THEN "yield" ELSE "unlock")
  /\ reservation' = t
  /\ UNCHANGED <<lockPrint, lockRunning, stolen>>

ReservedAlways == TRUE                        \* mutant: a plain store
Reserved == reservation # None

DesiredKept(t) == 1                           \* mutant: UNLOCK stores 1
Desired(t) == IF lockPc[t] = "lockStore" THEN 1 ELSE 0

(* sc.w succeeds.                                                          *)
Store(t) ==
  /\ Reserved
  /\ Goes(t, {"lockStore", "unlockStore"}, Done[lockPc[t]])
  /\ lockPrint' = Desired(t)
  /\ reservation' = None
  /\ stolen' = (stolen \/ reservation \notin {t, None})
  /\ UNCHANGED lockRunning

(* sc.w fails, and copy_and_swap starts again.                             *)
Retry(t) ==
  /\ ~Reserved
  /\ Goes(t, {"lockStore", "unlockStore"}, LoadOf[lockPc[t]])
  /\ UNCHANGED <<lockPrint, lockRunning, reservation, stolen>>

(* thread_dispatch in the loop of LOCK.                                    *)
Yield(t) == Goes(t, {"yield"}, "lock") /\ \E u \in Printers : TrapTo(u)

(* The characters have been written, or read.                              *)
EndSection(t) ==
  /\ Goes(t, {"section"}, "unlock")
  /\ UNCHANGED <<lockPrint, lockRunning, reservation, stolen>>

(* What a thread does from its call on.                                    *)
PrintStep(t) == Load(t) \/ Store(t) \/ Retry(t) \/ Yield(t) \/ EndSection(t)

LockNext == \E t \in Printers : Trap(t) \/ Call(t) \/ PrintStep(t)

LockSpec == LockInit /\ [][LockNext]_lockVars
=============================================================================
