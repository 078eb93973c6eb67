----------------------- MODULE InputConsoleProperties -----------------------
(***************************************************************************)
(* What readers of the keyboard can rely upon, although a key signalled to *)
(* a reader that is terminated before it runs again stays in the buffer,   *)
(* and one reader may be interrupted in the middle of getcB: up to the     *)
(* interrupt that parts a load of its from the store.                      *)
(***************************************************************************)
EXTENDS InputConsole

(* Readers that a key has released and that have not taken it off the      *)
(* count; those of them that were terminated never will.                   *)
Released ==
  {t \in Readers : place[t] \in {"item", "mutex", "count"}} \ ToSet(waiting)
Lost == Released \cap finished

(* Every key in the buffer is either free to be taken or meant for one     *)
(* released reader, dead ones included: whatever semWait, deblock and      *)
(* terminations do, and a reader that ticks and keys interrupt, no key is  *)
(* counted twice and none is forgotten, until the handler's count++ falls  *)
(* between the load and the store of that reader's count--, or an          *)
(* interrupt into its semSignal(mutexHead): between the load and the store *)
(* of the value another's wait, or into deblock a put or get.              *)
KeysAccounted ==
  ~raced => count = value + Len(waiting) + Cardinality(Released)

(* All readers together get the keys in the order in which they were       *)
(* typed, none twice and none left out, also when a reader dies and the    *)
(* key meant for it goes to another one, when the buffer was full, and     *)
(* when a reader is interrupted after it has read a key and before it has  *)
(* counted it off.                                                         *)
KeysInOrder == ~raced => IsPrefix(taken, accepted)

-----------------------------------------------------------------------------
(* Ticks keep coming, a handler comes to its end, and the interruptible    *)
(* reader gets on in each of its turns.                                    *)
FairSpec ==
  /\ Spec /\ WF_vars(Dispatch)
  /\ WF_vars(GetcReturns) /\ WF_vars(GetcInherits) /\ SF_vars(Interrupted)

(* The keyboard does not die while readers wait for it: the buffer gets    *)
(* room again, unless as many released readers as it has places were       *)
(* terminated, or one that holds mutexHead or waits for it, or a load and  *)
(* its store were parted; putcB may then drop every key and getc never     *)
(* return.                                                                 *)
KeyboardAlive ==
  waiting # <<>> ~> \/ Room \/ waiting = <<>> \/ Cardinality(Lost) >= buff_size
                    \/ raced \/ \E t \in finished : place[t] \in Locked
=============================================================================
