----------------------------- MODULE Allocator -----------------------------
(***************************************************************************)
(* What mem_alloc and mem_free promise: every region handed out lies in    *)
(* the heap, is at least as large as was asked, and overlaps no other      *)
(* region that has not been given back.                                    *)
(***************************************************************************)
EXTENDS Integers

CONSTANTS HeapStart, HeapEnd, Requests

VARIABLE live   \* the regions handed out

Apart(r, s) == r.at + r.size <= s.at \/ s.at + s.size <= r.at

Init == live = {}

(* One region is added, of those that are allowed. *)
Alloc(bytes) ==
  \E r \in live' :
    /\ r.asked = bytes /\ r.size >= bytes
    /\ HeapStart <= r.at /\ r.at + r.size <= HeapEnd
    /\ \A s \in live : Apart(r, s)
    /\ live' = live \cup {r}

Free(r) == live' = live \ {r}

Next == \/ \E bytes \in Requests : Alloc(bytes)
        \/ \E r \in live : Free(r)

Spec == Init /\ [][Next]_live
=============================================================================
