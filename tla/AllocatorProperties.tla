------------------------ MODULE AllocatorProperties ------------------------
(***************************************************************************)
(* What MemoryAllocator has to guarantee, whatever is allocated and freed  *)
(* in whatever order.                                                      *)
(***************************************************************************)
EXTENDS MemoryAllocator, FiniteSetsExt

(* Every variable has its type. *)
TypeOK ==
  /\ DOMAIN desc \subseteq Address
  /\ desc \in [DOMAIN desc -> FreeMemDesc]
  /\ totalFree \in Int
  /\ DOMAIN held \subseteq Address
  /\ held \in [DOMAIN held -> Requests]

(* The address behind the memory of block a. *)
After(d, a) == a + sizeOfDesc + d[a].size

(***************************************************************************)
(* The blocks tile the heap: the first is at its start, each ends where    *)
(* the next one in the list begins, the last at the end of the heap, and   *)
(* prev leads back.  So no two overlap and no memory is lost between them, *)
(* whatever was split and merged.                                          *)
(***************************************************************************)
Tiled ==
  /\ HeapStart \in DOMAIN desc /\ desc[HeapStart].prev = Null
  /\ \A a \in DOMAIN desc :
       /\ a > HeapStart => /\ desc[a].prev \in DOMAIN desc
                           /\ desc[desc[a].prev].next = a
       /\ IF After(desc, a) = HeapEnd THEN desc[a].next = Null
          ELSE /\ desc[a].next = After(desc, a)
               /\ desc[a].next \in DOMAIN desc
               /\ desc[desc[a].next].prev = a

(***************************************************************************)
(* mem_free leaves no two free blocks side by side, so the memory freed by *)
(* neighbours can be allocated as one piece.                               *)
(***************************************************************************)
Coalesced ==
  \A a \in DOMAIN desc :
    ~desc[a].used /\ desc[a].next # Null => desc[desc[a].next].used

(* totalFree is the memory of the free blocks. *)
CountsFree ==
  totalFree = MapThenSumSet(LAMBDA a : desc[a].size,
                                {a \in DOMAIN desc : ~desc[a].used})

(***************************************************************************)
(* The pointers the callers hold are the ones mem_free will accept: none   *)
(* of them was ever given to two callers, or taken back without being      *)
(* freed, and no block stays allocated that nobody holds.                  *)
(***************************************************************************)
HeldAreUsed ==
  DOMAIN held = {a + sizeOfDesc : a \in {b \in DOMAIN desc : desc[b].used}}

(***************************************************************************)
(* The memory given beyond the request, rounded up to blocks, is never     *)
(* enough for another block with its descriptor and one block more.        *)
(***************************************************************************)
WasteBounded ==
  \A p \in DOMAIN held :
    desc[p - sizeOfDesc].size
      <= allocateSize(held[p]) + sizeOfDesc + BlockSize

(***************************************************************************)
(* A request is refused only if no free block is large enough: the test    *)
(* against totalFree, converted to int, never refuses too much.            *)
(***************************************************************************)
RefusedOnlyWhenFull ==
  \A bytes \in Requests \ {0} : Refused(bytes) =>
    \A a \in DOMAIN desc : ~desc[a].used => desc[a].size < allocateSize(bytes)

-----------------------------------------------------------------------------
(* MemoryAllocator implements Allocator. *)

live == {[at |-> p, size |-> desc[p - sizeOfDesc].size, asked |-> held[p]] :
           p \in DOMAIN held}

Promise == INSTANCE Allocator

(* Every step is a step of the abstract allocator, or none. *)
ImplementsAllocator == Promise!Spec
=============================================================================
