------------------------ MODULE PrintLockProperties ------------------------
(***************************************************************************)
(* What the lock promises those who print.  It depends on an sc never      *)
(* using the reservation of another thread; what follows says how much.    *)
(***************************************************************************)
EXTENDS PrintLock

(* Every variable has its type.                                            *)
TypeOK ==
  /\ lockPrint \in {0, 1}
  /\ lockRunning \in Printers /\ reservation \in Printers \cup {None}
  /\ lockPc \in [Printers -> Places]
  /\ stolen \in BOOLEAN

AtMostOne ==
  \A t, u \in Printers : lockPc[t] \in Holding /\ lockPc[u] \in Holding => t = u

(* No two threads print or read at once, wherever ticks fall between lr    *)
(* and sc, and whatever they do to the reservation, unless one thread's sc *)
(* has used a reservation that another thread's lr left behind.            *)
Exclusive == ~stolen => AtMostOne

(* The word is 1 exactly while some thread has the lock: it is neither     *)
(* given back for somebody else nor left taken by nobody.                  *)
WordTellsHolder ==
  ~stolen => (lockPrint = 1 <=> \E t \in Printers : lockPc[t] \in Holding)

-----------------------------------------------------------------------------
(* Every thread is given the processor again and again, and executes some  *)
(* instructions then; a tick is far longer than the distance of lr and sc, *)
(* so that sc does not always find the reservation dropped; and what is    *)
(* read or written in the section comes to an end.                         *)
FairSpec ==
  /\ LockSpec
  /\ \A t \in Printers :
       /\ WF_lockVars(Trap(t))
       /\ SF_lockVars(PrintStep(t)) /\ SF_lockVars(Store(t))

(* While threads want the lock, one of them gets it, again and again.      *)
LockServed ==
  (\E t \in Printers : lockPc[t] \in {"lock", "lockStore", "yield"})
    ~> (\E t \in Printers : lockPc[t] = "section")
=============================================================================
