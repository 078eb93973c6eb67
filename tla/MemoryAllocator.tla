--------------------------- MODULE MemoryAllocator ---------------------------
(***************************************************************************)
(* MemoryAllocator: the list of block descriptors that lie in the heap     *)
(* itself, each in front of the memory it describes.  mem_alloc takes the  *)
(* best fitting free block and splits it; mem_free merges a released block *)
(* with its free neighbours.  Both run in trap handlers, with interrupts   *)
(* disabled, so each call is one step.                                     *)
(***************************************************************************)
EXTENDS Integers, FiniteSets

CONSTANTS
  HeapStart, HeapEnd,  \* HEAP_START_ADDR, HEAP_END_ADDR
  BlockSize,           \* MEM_BLOCK_SIZE
  DescSize,            \* sizeof(FreeMemDesc)
  IntModulus,          \* 2^32: the width of int and uint32
  Requests             \* the arguments of mem_alloc, in bytes

sizeOfDesc ==
  DescSize + (IF DescSize % BlockSize # 0
              THEN BlockSize - (DescSize % BlockSize) ELSE 0)

ASSUME HeapAssumption ==
  /\ HeapStart \in Nat \ {0} /\ HeapEnd \in Nat /\ IntModulus \in Nat \ {0}
  /\ BlockSize \in Nat \ {0} /\ DescSize \in Nat \ {0}
  /\ HeapStart + sizeOfDesc < HeapEnd
  /\ HeapEnd < IntModulus \div 2
  /\ Requests \subseteq 0 .. (IntModulus - 1)

VARIABLES
  desc,       \* the nodes of the list: FreeMemDesc at its address
  totalFree,  \* MemoryAllocator::totalFree
  held        \* what the callers know: their pointers, and the bytes asked for

vars == <<desc, totalFree, held>>

Null == 0
Address == HeapStart .. (HeapEnd - 1)
FreeMemDesc == [next : Address \cup {Null}, prev : Address \cup {Null},
                used : BOOLEAN, size : 0 .. (HeapEnd - HeapStart)]

(* initFreeHead, which the first allocation calls, before any other use. *)
Init ==
  LET size == HeapEnd - HeapStart - sizeOfDesc
  IN  /\ desc = [a \in {HeapStart} |-> [next |-> Null, prev |-> Null,
                                        used |-> FALSE, size |-> size]]
      /\ totalFree = size
      /\ held = [p \in {} |-> 0]

-----------------------------------------------------------------------------
(* Walking the list *)

(* The n-th node from head, which stays at HeapStart. *)
Node[n \in Nat] ==
  IF n = 0 THEN HeapStart
  ELSE LET before == Node[n - 1]
       IN  IF before \in DOMAIN desc THEN desc[before].next ELSE Null

(* The steps at which a walk from head is on a node. *)
Walk == {n \in 0 .. Cardinality(DOMAIN desc) : Node[n] \in DOMAIN desc}

InList(a) == \E n \in Walk : Node[n] = a

-----------------------------------------------------------------------------
(* mem_alloc *)

(* The stub's computation, in 32 bits. *)
NumOfBlocks(bytes) ==
  (bytes % IntModulus) \div BlockSize
    + (IF (bytes % IntModulus) % BlockSize # 0 THEN 1 ELSE 0)

allocateSize(bytes) == NumOfBlocks(bytes) * BlockSize

(* The conversion to int of the test against totalFree. *)
AsInt(n) == LET m == n % IntModulus
            IN  IF m < IntModulus \div 2 THEN m ELSE m - IntModulus

FitsWithRoom(a, size) ==                      \* mutant: > for >=
  ~desc[a].used /\ desc[a].size > size
Fits(a, size) == ~desc[a].used /\ desc[a].size >= size

(* The smallest block that fits, the last one of several. *)
BestFitOrUsed(b, size) ==                     \* mutant: used is not tested
  InList(b) /\ desc[b].size >= size
BestFit(b, size) ==
  \E n \in Walk :
    /\ b = Node[n] /\ Fits(b, size)
    /\ \A m \in Walk : Fits(Node[m], size) =>
         \/ desc[b].size < desc[Node[m]].size
         \/ desc[b].size = desc[Node[m]].size /\ m <= n

(* minDiff > sizeOfDesc + MEM_BLOCK_SIZE: the rest becomes a free block. *)
WorthSplitting(b, size) == desc[b].size - size > sizeOfDesc + BlockSize

(* The address after the block, found through the next descriptor. *)
EndOf(b) == IF desc[b].next = Null THEN HeapEnd ELSE desc[b].next

SplitUnlinked(b, size) ==                     \* mutant: next->prev is kept
  LET newDesc == b + sizeOfDesc + size
      rest    == EndOf(b) - newDesc
  IN  [a \in DOMAIN desc \cup {newDesc} |->
         IF a = newDesc
         THEN [next |-> desc[b].next, prev |-> b, used |-> FALSE,
               size |-> rest - sizeOfDesc]
         ELSE IF a = b
         THEN [desc[b] EXCEPT !.size = @ - rest, !.next = newDesc,
                              !.used = TRUE]
         ELSE desc[a]]
Split(b, size) ==
  LET newDesc == b + sizeOfDesc + size
      rest    == EndOf(b) - newDesc
  IN  [a \in DOMAIN desc \cup {newDesc} |->
         IF a = newDesc
         THEN [next |-> desc[b].next, prev |-> b, used |-> FALSE,
               size |-> rest - sizeOfDesc]
         ELSE IF a = b
         THEN [desc[b] EXCEPT !.size = @ - rest, !.next = newDesc,
                              !.used = TRUE]
         ELSE IF a = desc[b].next THEN [desc[a] EXCEPT !.prev = newDesc]
         ELSE desc[a]]

(* The caller gets the memory behind descriptor b. *)
HandOut(b, bytes) ==
  held' = [p \in DOMAIN held \cup {b + sizeOfDesc} |->
             IF p = b + sizeOfDesc THEN bytes ELSE held[p]]

(* The tests that come before the list is walked. *)
Admitted(bytes) ==
  allocateSize(bytes) > 0 /\ totalFree >= AsInt(allocateSize(bytes))

AllocSplit(bytes) ==
  LET size == allocateSize(bytes)
  IN  /\ Admitted(bytes)
      /\ \E b \in DOMAIN desc :
           /\ BestFit(b, size) /\ WorthSplitting(b, size)
           /\ desc' = Split(b, size)
           /\ totalFree' = totalFree - sizeOfDesc - desc'[b].size
           /\ HandOut(b, bytes)

AllocWhole(bytes) ==
  LET size == allocateSize(bytes)
  IN  /\ Admitted(bytes)
      /\ \E b \in DOMAIN desc :
           /\ BestFit(b, size) /\ ~WorthSplitting(b, size)
           /\ desc' = [desc EXCEPT ![b].used = TRUE]
           /\ totalFree' = totalFree - desc[b].size
           /\ HandOut(b, bytes)

Refused(bytes) ==
  ~Admitted(bytes) \/ ~\E n \in Walk : Fits(Node[n], allocateSize(bytes))

(* A null pointer is returned. *)
AllocRefused(bytes) == Refused(bytes) /\ UNCHANGED vars

-----------------------------------------------------------------------------
(* mem_free *)

(* Node a of list d takes over node c, the one behind it. *)
Absorb(d, a, c) ==
  [x \in DOMAIN d \ {c} |->
     IF x = a THEN [d[a] EXCEPT !.size = @ + d[c].size + sizeOfDesc,
                                !.next = d[c].next]
     ELSE IF x = d[c].next THEN [d[x] EXCEPT !.prev = a]
     ELSE d[x]]

IsFreeOrUsed(d, a) == a # Null                \* mutant: used is not tested
IsFree(d, a) == a # Null /\ ~d[a].used

(* The node a free block is merged into: the one before it or itself. *)
MergeTarget(d, a) == IF IsFree(d, d[a].prev) THEN d[a].prev ELSE a

MergeBack(d, a) ==
  IF IsFree(d, d[a].prev) THEN Absorb(d, d[a].prev, a) ELSE d

MergeForwardNever(d, a) == d                  \* mutant: only backwards
MergeForward(d, a) ==
  IF IsFree(d, d[a].next) THEN Absorb(d, a, d[a].next) ELSE d

(* Every merge gives a descriptor back to the free memory. *)
RecoveredNone(d, e) == 0                      \* mutant: it is not counted
Recovered(d, e) ==
  (Cardinality(DOMAIN d) - Cardinality(DOMAIN e)) * sizeOfDesc

(* p points behind the descriptor a of an allocated block. *)
Allocated(p, a) ==
  p \in Address /\ a = p - sizeOfDesc /\ InList(a) /\ desc[a].used

MemFree(p) ==
  \E a \in DOMAIN desc :
    /\ Allocated(p, a)
    /\ LET released == [desc EXCEPT ![a].used = FALSE]
       IN  /\ desc' = MergeForward(MergeBack(released, a),
                                   MergeTarget(released, a))
           /\ totalFree' = totalFree + desc[a].size
                             + Recovered(released, desc')
    /\ held' = [q \in DOMAIN held \ {p} |-> held[q]]

(* Any other pointer is refused with -1, a pointer freed before included. *)
FreeRefused(p) ==
  ~(\E a \in DOMAIN desc : Allocated(p, a)) /\ UNCHANGED vars

-----------------------------------------------------------------------------

Next ==
  \/ \E bytes \in Requests :
       AllocSplit(bytes) \/ AllocWhole(bytes) \/ AllocRefused(bytes)
  \/ \E p \in Address \cup {Null, HeapEnd} : MemFree(p) \/ FreeRefused(p)

Spec == Init /\ [][Next]_vars
=============================================================================
