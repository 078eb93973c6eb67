--------------------------- MODULE AllocatorProofs ---------------------------
(***************************************************************************)
(* Proofs that MemoryAllocator keeps its heap in order, for every heap,    *)
(* block size, descriptor size and set of requests, and that it implements *)
(* Allocator.  HeapInv, the inductive invariant, has four parts: the list  *)
(* is well formed, every free block is merged, what the callers hold fits  *)
(* the used blocks, and the counter is an integer.  None of them needs to  *)
(* know how far a search along the list gets: whichever block is found,    *)
(* the step is right.  That the counter is right and that a search finds   *)
(* every block are shown last; they need induction, over the set of free   *)
(* blocks and along the list.  There is always a least set, or a least     *)
(* number, for which a claim fails: LeastSubset and Least say so, and the  *)
(* lemmas that would be proved by induction begin with such a one.         *)
(***************************************************************************)
EXTENDS AllocatorProperties, FiniteSetTheorems, NaturalsInduction,
        WellFoundedInduction, TLAPS

(* A descriptor takes up memory. *)
LEMMA DescPositive == sizeOfDesc \in Nat \ {0}
  BY HeapAssumption DEF sizeOfDesc

(* Sizes are naturals. *)
LEMMA SizeNat == ASSUME NEW bytes \in Requests PROVE allocateSize(bytes) \in Nat
  <1>1. bytes % IntModulus \in Nat
    BY HeapAssumption
  <1>2. (bytes % IntModulus) \div BlockSize \in Nat
    BY HeapAssumption, <1>1
  <1>3. NumOfBlocks(bytes) \in Nat
    BY <1>2, HeapAssumption, <1>1 DEF NumOfBlocks
  <1> QED
    BY <1>3, HeapAssumption DEF allocateSize

(* Rounding up to blocks gives at least the bytes asked for. *)
LEMMA EnoughBytes ==
  ASSUME NEW bytes \in Requests
  PROVE  allocateSize(bytes) >= bytes
  <1> DEFINE q == bytes \div BlockSize
             r == bytes % BlockSize
  <1>1. /\ bytes \in Nat /\ bytes < IntModulus /\ IntModulus \in Nat
        /\ BlockSize \in Nat \ {0}
    BY HeapAssumption
  <1>2. bytes % IntModulus = bytes
    BY <1>1
  <1>3. /\ bytes = BlockSize * q + r
        /\ q \in Nat /\ r \in 0 .. (BlockSize - 1)
    BY <1>1
  <1> HIDE DEF q, r
  <1>4. allocateSize(bytes) = (q + (IF r # 0 THEN 1 ELSE 0)) * BlockSize
    BY <1>2, Zenon DEF allocateSize, NumOfBlocks, q, r
  <1>5. /\ (q + 1) * BlockSize = BlockSize * q + BlockSize
        /\ (q + 0) * BlockSize = BlockSize * q
        /\ BlockSize * q \in Nat
    BY <1>1, <1>3
  <1>6. CASE r = 0
    BY <1>1, <1>3, <1>4, <1>5, <1>6
  <1>7. CASE r # 0
    <2>1. allocateSize(bytes) = BlockSize * q + BlockSize
      BY <1>4, <1>5, <1>7
    <2> QED
      BY <1>1, <1>3, <1>5, <2>1
  <1> QED
    BY <1>6, <1>7

(***************************************************************************)
(* The list of descriptors d tiles the heap.  The last conjunct makes the  *)
(* invariant inductive: a new descriptor is written where no other one is. *)
(***************************************************************************)
LinkedBack(d, a) ==
  IF a = HeapStart THEN d[a].prev = Null
  ELSE d[a].prev \in DOMAIN d /\ d[d[a].prev].next = a

LinkedOn(d, a) ==
  IF After(d, a) = HeapEnd THEN d[a].next = Null
  ELSE /\ d[a].next = After(d, a)
       /\ d[a].next \in DOMAIN d
       /\ d[d[a].next].prev = a

WellFormed(d) ==
  /\ DOMAIN d \subseteq Address
  /\ d \in [DOMAIN d -> FreeMemDesc]
  /\ HeapStart \in DOMAIN d
  /\ \A a \in DOMAIN d : LinkedBack(d, a) /\ LinkedOn(d, a)
  /\ \A a, b \in DOMAIN d : a < b => After(d, a) <= b

(* What the shape says of one block, in the form the provers use. *)
LEMMA BlockFacts ==
  ASSUME NEW d, WellFormed(d), NEW a \in DOMAIN d
  PROVE  /\ a \in Nat /\ HeapStart <= a /\ a < HeapEnd /\ a # Null
         /\ d[a] \in FreeMemDesc /\ d[a].size \in Nat
         /\ After(d, a) \in Nat /\ After(d, a) <= HeapEnd /\ After(d, a) > a
         /\ After(d, a) = IF d[a].next = Null THEN HeapEnd ELSE d[a].next
         /\ d[a].next # Null => /\ d[a].next \in DOMAIN d
                                /\ d[d[a].next].prev = a
         /\ d[a].prev # Null => /\ d[a].prev \in DOMAIN d
                                /\ d[d[a].prev].next = a
                                /\ After(d, d[a].prev) = a
  <1>1. HeapStart \in Nat \ {0} /\ HeapEnd \in Nat /\ sizeOfDesc \in Nat \ {0}
    BY HeapAssumption, DescPositive
  <1>2. ASSUME NEW x \in DOMAIN d
        PROVE  /\ x \in Nat /\ HeapStart <= x /\ x < HeapEnd /\ x # Null
               /\ d[x] \in FreeMemDesc /\ d[x].size \in Nat
    BY <1>1 DEF WellFormed, FreeMemDesc, Address, Null
  <1>3. ASSUME NEW x \in DOMAIN d
        PROVE  /\ After(d, x) \in Nat /\ After(d, x) > x
               /\ After(d, x) <= HeapEnd
               /\ After(d, x) = IF d[x].next = Null THEN HeapEnd ELSE d[x].next
               /\ d[x].next # Null => /\ d[x].next \in DOMAIN d
                                      /\ d[d[x].next].prev = x
    <2>1. After(d, x) \in Nat /\ After(d, x) > x
      BY <1>1, <1>2 DEF After
    <2>2. LinkedOn(d, x)
      BY DEF WellFormed
    <2> QED
      BY <2>1, <2>2, <1>1, <1>2 DEF LinkedOn
  <1>4. d[a].prev # Null => /\ d[a].prev \in DOMAIN d
                            /\ d[d[a].prev].next = a
    BY DEF WellFormed, LinkedBack
  <1> QED
    BY <1>2, <1>3, <1>4

(***************************************************************************)
(* In e block b of d is allocated, want bytes long, with a free block n    *)
(* behind it, and the other blocks are as in d.                            *)
(***************************************************************************)
Halved(d, e, b, n, want) ==
  /\ n \notin DOMAIN d /\ DOMAIN e = DOMAIN d \cup {n}
  /\ ~e[n].used /\ e[b].used /\ e[b].size = want
  /\ e[b].next = n /\ e[n].next = d[b].next
  /\ \A x \in DOMAIN d \ {b} : /\ e[x].used = d[x].used
                               /\ e[x].size = d[x].size
                               /\ e[x].next = d[x].next

(* Splitting keeps the shape; the new block is free, the old one is taken. *)
LEMMA SplitShape ==
  ASSUME WellFormed(desc), NEW b \in DOMAIN desc, NEW want \in Nat,
         WorthSplitting(b, want), desc' = Split(b, want)
  PROVE  /\ WellFormed(desc')
         /\ Halved(desc, desc', b, b + sizeOfDesc + want, want)
  <1> DEFINE n == b + sizeOfDesc + want
             nx == desc[b].next
  <1>1. /\ HeapStart \in Nat \ {0} /\ HeapEnd \in Nat
        /\ sizeOfDesc \in Nat \ {0} /\ BlockSize \in Nat \ {0}
    BY HeapAssumption, DescPositive
  <1>2. /\ b \in Nat /\ desc[b].size \in Nat /\ b >= HeapStart
        /\ n \in Nat /\ n > b
        /\ desc[b].size - want > sizeOfDesc + BlockSize
        /\ After(desc, b) \in Nat
        /\ n + sizeOfDesc < After(desc, b) /\ After(desc, b) <= HeapEnd
        /\ EndOf(b) = After(desc, b)
    BY <1>1, BlockFacts DEF WorthSplitting, After, EndOf
  <1>3. n \in Address /\ n # Null /\ n # b /\ n # HeapStart
    BY <1>1, <1>2 DEF Address, Null
  <1>4. n \notin DOMAIN desc
    BY <1>1, <1>2 DEF WellFormed
  <1>5. DOMAIN desc' = DOMAIN desc \cup {n}
    BY Zenon DEF Split
  <1>6. /\ desc'[n] \in FreeMemDesc /\ ~desc'[n].used
        /\ desc'[n].size = After(desc, b) - n - sizeOfDesc
        /\ desc'[n].next = nx /\ desc'[n].prev = b
    <2>1. desc'[n] = [next |-> nx, prev |-> b, used |-> FALSE,
                  size |-> EndOf(b) - n - sizeOfDesc]
      BY Zenon DEF Split
    <2>2. nx \in Address \cup {Null} /\ b \in Address
      BY DEF WellFormed, FreeMemDesc
    <2> QED
      BY <2>1, <2>2, <1>1, <1>2 DEF FreeMemDesc
  <1>7. /\ desc'[b] \in FreeMemDesc /\ desc'[b].used /\ desc'[b].size = want
        /\ desc'[b].next = n /\ desc'[b].prev = desc[b].prev
    <2>1. desc'[b] = [desc[b] EXCEPT !.size = @ - (EndOf(b) - n), !.next = n,
                                 !.used = TRUE]
      BY <1>3, Zenon DEF Split
    <2>2. desc[b] \in FreeMemDesc
      BY DEF WellFormed
    <2>3. desc[b].size - (EndOf(b) - n) = want
      BY <1>1, <1>2 DEF After
    <2>4. want \in 0 .. (HeapEnd - HeapStart)
      BY <1>1, <1>2
    <2> QED
      BY <2>1, <2>2, <2>3, <2>4, <1>3 DEF FreeMemDesc
  <1>8. ASSUME NEW x \in DOMAIN desc \ {b}
        PROVE  /\ desc'[x] \in FreeMemDesc
               /\ desc'[x].used = desc[x].used /\ desc'[x].size = desc[x].size
               /\ desc'[x].next = desc[x].next
               /\ desc'[x].prev = IF x = nx THEN n ELSE desc[x].prev
    <2>1. desc'[x] = IF x = nx THEN [desc[x] EXCEPT !.prev = n] ELSE desc[x]
      BY <1>4, Zenon DEF Split
    <2>2. desc[x] \in FreeMemDesc
      BY DEF WellFormed
    <2>3. CASE x = nx
      BY <2>1, <2>2, <2>3, <1>3 DEF FreeMemDesc
    <2>4. CASE x # nx
      BY <2>1, <2>2, <2>4
    <2> QED
      BY <2>3, <2>4
  <1>9. desc' = [x \in DOMAIN desc' |-> desc'[x]]
    BY Zenon DEF Split
  <1>10. /\ After(desc', n) = After(desc, b) /\ After(desc', b) = n
        /\ \A x \in DOMAIN desc \ {b} : After(desc', x) = After(desc, x)
    BY <1>1, <1>2, <1>6, <1>7, <1>8 DEF After
  <1>11. WellFormed(desc')
    <2>1. DOMAIN desc' \subseteq Address /\ HeapStart \in DOMAIN desc'
      BY <1>3, <1>5 DEF WellFormed
    <2>2. \A x \in DOMAIN desc' : desc'[x] \in FreeMemDesc
      BY <1>5, <1>6, <1>7, <1>8
    <2>3. desc' \in [DOMAIN desc' -> FreeMemDesc]
      BY <2>2, <1>9
    <2>4. ASSUME NEW a \in DOMAIN desc' PROVE LinkedBack(desc', a)
      <3>1. CASE a = n
        BY <3>1, <1>3, <1>5, <1>6, <1>7 DEF LinkedBack
      <3>2. CASE a = b
        BY <3>2, <1>5, <1>7, <1>8, BlockFacts, <1>2 DEF LinkedBack, WellFormed
      <3>3. CASE a \in DOMAIN desc \ {b}
        BY <3>3, <1>5, <1>6, <1>7, <1>8, BlockFacts DEF LinkedBack, WellFormed
      <3> QED
        BY <1>5, <3>1, <3>2, <3>3
    <2>5. ASSUME NEW a \in DOMAIN desc' PROVE LinkedOn(desc', a)
      <3>0. \A x \in DOMAIN desc : LinkedOn(desc, x)
        BY DEF WellFormed
      <3>1. CASE a = n
        <4>1. nx # b
          BY BlockFacts, <1>2
        <4> QED
          BY <3>0, <3>1, <4>1, <1>5, <1>6, <1>8, <1>10 DEF LinkedOn
      <3>2. CASE a = b
        BY <3>2, <1>1, <1>2, <1>3, <1>5, <1>6, <1>7, <1>10 DEF LinkedOn
      <3>3. CASE a \in DOMAIN desc \ {b}
        <4>1. desc[a].next # Null => desc[a].next # nx
          BY <3>3, BlockFacts
        <4> QED
          BY <3>0, <3>3, <4>1, <1>3, <1>5, <1>7, <1>8, <1>10, BlockFacts
             DEF LinkedOn
      <3> QED
        BY <1>5, <3>1, <3>2, <3>3
    <2>6. ASSUME NEW a \in DOMAIN desc', NEW c \in DOMAIN desc', a < c
          PROVE  After(desc', a) <= c
      <3>1. \A x, y \in DOMAIN desc : x < y => After(desc, x) <= y
        BY DEF WellFormed
      <3>2. \A x \in DOMAIN desc : x \in Nat /\ After(desc, x) \in Nat
        BY BlockFacts
      <3>3. CASE a = n
        BY <2>6, <3>1, <3>2, <3>3, <1>2, <1>4, <1>5, <1>10
      <3>4. CASE a = b
        BY <2>6, <3>1, <3>2, <3>4, <1>1, <1>2, <1>4, <1>5, <1>10
      <3>5. CASE a \in DOMAIN desc \ {b}
        BY <2>6, <3>1, <3>2, <3>5, <1>1, <1>2, <1>4, <1>5, <1>10
      <3> QED
        BY <1>5, <3>3, <3>4, <3>5
    <2> QED
      BY <2>1, <2>3, <2>4, <2>5, <2>6 DEF WellFormed
  <1>12. Halved(desc, desc', b, n, want)
    BY <1>4, <1>5, <1>6, <1>7, <1>8 DEF Halved
  <1> QED
    BY <1>11, <1>12

(* So does merging a block with the one behind it. *)
LEMMA AbsorbShape ==
  ASSUME NEW d, WellFormed(d), NEW a \in DOMAIN d, NEW c \in DOMAIN d,
         d[a].next = c
  PROVE  LET e == Absorb(d, a, c)
         IN  /\ WellFormed(e)
             /\ a # c /\ DOMAIN e = DOMAIN d \ {c}
             /\ e[a].used = d[a].used /\ e[a].prev = d[a].prev
             /\ e[a].next = d[c].next
             /\ \A x \in DOMAIN d \ {a, c} : /\ e[x].used = d[x].used
                                             /\ e[x].size = d[x].size
                                             /\ e[x].next = d[x].next
  <1> DEFINE e == Absorb(d, a, c)
             nx == d[c].next
  <1>1. /\ HeapStart \in Nat \ {0} /\ HeapEnd \in Nat
        /\ sizeOfDesc \in Nat \ {0}
    BY HeapAssumption, DescPositive
  <1>2. /\ a \in Nat /\ c \in Nat /\ d[a].size \in Nat /\ d[c].size \in Nat
        /\ a >= HeapStart /\ a < c /\ After(d, a) = c /\ After(d, c) > c
        /\ After(d, c) \in Nat /\ After(d, c) <= HeapEnd
        /\ d[c].prev = a /\ c # Null
    BY <1>1, BlockFacts
  <1>3. /\ a # c /\ nx # a /\ nx # c /\ c # HeapStart
    BY <1>1, <1>2, BlockFacts
  <1>4. DOMAIN e = DOMAIN d \ {c}
    BY Zenon DEF Absorb
  <1>5. /\ e[a] \in FreeMemDesc /\ e[a].used = d[a].used
        /\ e[a].size = d[a].size + d[c].size + sizeOfDesc
        /\ e[a].next = nx /\ e[a].prev = d[a].prev
    <2>1. e[a] = [d[a] EXCEPT !.size = @ + d[c].size + sizeOfDesc,
                              !.next = nx]
      BY <1>3, Zenon DEF Absorb
    <2>2. d[a] \in FreeMemDesc /\ nx \in Address \cup {Null}
      BY DEF WellFormed, FreeMemDesc
    <2>3. d[a].size + d[c].size + sizeOfDesc \in 0 .. (HeapEnd - HeapStart)
      BY <1>1, <1>2 DEF After
    <2> HIDE DEF e
    <2> QED
      BY <2>1, <2>2, <2>3 DEF FreeMemDesc
  <1>6. ASSUME NEW x \in DOMAIN d \ {a, c}
        PROVE  /\ e[x] \in FreeMemDesc
               /\ e[x].used = d[x].used /\ e[x].size = d[x].size
               /\ e[x].next = d[x].next
               /\ e[x].prev = IF x = nx THEN a ELSE d[x].prev
    <2>1. e[x] = IF x = nx THEN [d[x] EXCEPT !.prev = a] ELSE d[x]
      BY Zenon DEF Absorb
    <2>2. d[x] \in FreeMemDesc /\ a \in Address
      BY DEF WellFormed
    <2> HIDE DEF e
    <2>3. CASE x = nx
      BY <2>1, <2>2, <2>3 DEF FreeMemDesc
    <2>4. CASE x # nx
      BY <2>1, <2>2, <2>4
    <2> QED
      BY <2>3, <2>4
  <1>7. e = [x \in DOMAIN e |-> e[x]]
    BY Zenon DEF Absorb
  <1> HIDE DEF e
  <1>8. /\ After(e, a) = After(d, c)
        /\ \A x \in DOMAIN d \ {a, c} : After(e, x) = After(d, x)
    BY <1>1, <1>2, <1>5, <1>6 DEF After
  <1>9. WellFormed(e)
    <2>1. DOMAIN e \subseteq Address /\ HeapStart \in DOMAIN e
      BY <1>3, <1>4 DEF WellFormed
    <2>2. \A x \in DOMAIN e : e[x] \in FreeMemDesc
      BY <1>4, <1>5, <1>6
    <2>3. e \in [DOMAIN e -> FreeMemDesc]
      BY <2>2, <1>7
    <2>4. ASSUME NEW x \in DOMAIN e PROVE LinkedBack(e, x)
      <3>1. LinkedBack(d, x)
        BY <1>4 DEF WellFormed
      <3>2. CASE x = a
        BY <3>1, <3>2, <1>2, <1>4, <1>5, <1>6, BlockFacts DEF LinkedBack
      <3>3. CASE x = nx
        BY <3>3, <1>2, <1>3, <1>4, <1>5, <1>6, BlockFacts
           DEF LinkedBack, WellFormed
      <3>4. CASE x \notin {a, nx}
        <4>1. x # HeapStart => d[x].prev # c
          BY <3>1, <3>4 DEF LinkedBack
        <4> QED
          BY <3>1, <3>4, <4>1, <1>2, <1>4, <1>5, <1>6 DEF LinkedBack
      <3> QED
        BY <3>2, <3>3, <3>4
    <2>5. ASSUME NEW x \in DOMAIN e PROVE LinkedOn(e, x)
      <3>1. LinkedOn(d, x) /\ LinkedOn(d, c)
        BY <1>4 DEF WellFormed
      <3>2. CASE x = a
        BY <3>1, <3>2, <1>3, <1>4, <1>5, <1>6, <1>8 DEF LinkedOn
      <3>3. CASE x # a
        <4>1. d[x].next # Null => d[x].next # nx /\ d[x].next # c
          BY <3>3, <1>2, <1>4, BlockFacts
        <4> QED
          BY <3>1, <3>3, <4>1, <1>4, <1>5, <1>6, <1>8, BlockFacts
             DEF LinkedOn
      <3> QED
        BY <3>2, <3>3
    <2>6. ASSUME NEW x \in DOMAIN e, NEW y \in DOMAIN e, x < y
          PROVE  After(e, x) <= y
      <3>1. \A v, w \in DOMAIN d : v < w => After(d, v) <= w
        BY DEF WellFormed
      <3>2. x \in Nat /\ y \in Nat /\ y # c
        BY <1>4, BlockFacts
      <3>3. CASE x = a
        BY <2>6, <3>1, <3>2, <3>3, <1>2, <1>4, <1>8
      <3>4. CASE x # a
        BY <2>6, <3>1, <3>2, <3>4, <1>4, <1>8
      <3> QED
        BY <3>3, <3>4
    <2> QED
      BY <2>1, <2>3, <2>4, <2>5, <2>6 DEF WellFormed
  <1> QED
    BY <1>3, <1>4, <1>5, <1>6, <1>9 DEF e
UsedBlocks(d) == {x \in DOMAIN d : d[x].used}

(* The allocated blocks and their sizes are the same in d and e. *)
KeepsUsed(d, e) ==
  /\ UsedBlocks(e) = UsedBlocks(d)
  /\ \A x \in UsedBlocks(d) : e[x].size = d[x].size

(* Block x does not have a free neighbour to merge with. *)
Merged(d, x) == ~d[x].used /\ d[x].next # Null => d[d[x].next].used

(* Merging two free blocks leaves the used ones alone. *)
LEMMA AbsorbKeepsUsed ==
  ASSUME NEW d, WellFormed(d), NEW a \in DOMAIN d, NEW c \in DOMAIN d,
         d[a].next = c, ~d[a].used, ~d[c].used
  PROVE  KeepsUsed(d, Absorb(d, a, c))
  <1> DEFINE e == Absorb(d, a, c)
  <1>1. /\ DOMAIN e = DOMAIN d \ {c} /\ e[a].used = d[a].used
        /\ \A x \in DOMAIN d \ {a, c} : /\ e[x].used = d[x].used
                                        /\ e[x].size = d[x].size
    BY AbsorbShape
  <1> HIDE DEF e
  <1>2. KeepsUsed(d, e)
    BY <1>1 DEF KeepsUsed, UsedBlocks
  <1> QED
    BY <1>2 DEF e

(* Marking a block free, before anything is merged. *)
LEMMA ReleaseShape ==
  ASSUME WellFormed(desc), NEW a \in DOMAIN desc
  PROVE  LET r == [desc EXCEPT ![a].used = FALSE]
         IN  /\ WellFormed(r) /\ DOMAIN r = DOMAIN desc
             /\ \A x \in DOMAIN desc : /\ r[x].next = desc[x].next
                                      /\ r[x].prev = desc[x].prev
                                      /\ r[x].size = desc[x].size
                                      /\ r[x].used = (x # a /\ desc[x].used)
  <1> DEFINE r == [desc EXCEPT ![a].used = FALSE]
  <1>1. desc \in [DOMAIN desc -> FreeMemDesc]
    BY DEF WellFormed
  <1>2. /\ r \in [DOMAIN desc -> FreeMemDesc] /\ DOMAIN r = DOMAIN desc
        /\ \A x \in DOMAIN desc : /\ r[x].next = desc[x].next
                                 /\ r[x].prev = desc[x].prev
                                 /\ r[x].size = desc[x].size
                                 /\ r[x].used = (x # a /\ desc[x].used)
    BY <1>1 DEF FreeMemDesc
  <1> HIDE DEF r
  <1>3. \A x \in DOMAIN desc : After(r, x) = After(desc, x)
    BY <1>2 DEF After
  <1>4. \A x \in DOMAIN r : LinkedBack(r, x) /\ LinkedOn(r, x)
    BY <1>2, <1>3 DEF WellFormed, LinkedBack, LinkedOn
  <1>5. WellFormed(r)
    BY <1>2, <1>3, <1>4 DEF WellFormed
  <1> QED
    BY <1>2, <1>5 DEF r

(* mem_free as a whole. *)
LEMMA FreeShape ==
  ASSUME WellFormed(desc), Coalesced, NEW a \in DOMAIN desc, desc[a].used
  PROVE  LET r == [desc EXCEPT ![a].used = FALSE]
             e == MergeForward(MergeBack(r, a), MergeTarget(r, a))
         IN  /\ WellFormed(e) /\ \A x \in DOMAIN e : Merged(e, x)
             /\ UsedBlocks(e) = UsedBlocks(desc) \ {a}
             /\ \A x \in UsedBlocks(e) : e[x].size = desc[x].size
  <1> DEFINE r == [desc EXCEPT ![a].used = FALSE]
             p == r[a].prev
             d == MergeBack(r, a)
             t == MergeTarget(r, a)
             e == MergeForward(d, t)
  <1>1. /\ WellFormed(r) /\ DOMAIN r = DOMAIN desc
        /\ \A x \in DOMAIN desc : /\ r[x].next = desc[x].next
                                 /\ r[x].prev = desc[x].prev
                                 /\ r[x].size = desc[x].size
                                 /\ r[x].used = (x # a /\ desc[x].used)
    BY ReleaseShape
  <1> HIDE DEF r
  <1>2. ASSUME NEW x \in DOMAIN desc \ {a}, desc[x].next # a
        PROVE  Merged(r, x)
    <2>1. desc[x].next # Null => desc[x].next \in DOMAIN desc
      BY BlockFacts
    <2> QED
      BY <1>1, <1>2, <2>1 DEF Merged, Coalesced
  <1>3. /\ WellFormed(d) /\ t \in DOMAIN d /\ ~d[t].used /\ KeepsUsed(r, d)
        /\ \A x \in DOMAIN d \ {t} : Merged(d, x)
    <2>1. CASE IsFree(r, p)
      <3>1. /\ d = Absorb(r, p, a) /\ t = p
        BY <2>1 DEF MergeBack, MergeTarget
      <3>2. /\ p \in DOMAIN r /\ a \in DOMAIN r /\ r[p].next = a
            /\ ~r[p].used /\ ~r[a].used /\ p # a
        <4>1. p # Null /\ ~r[p].used
          BY <2>1 DEF IsFree
        <4>2. p \in DOMAIN r /\ r[p].next = a /\ After(r, p) = a
          BY <1>1, <4>1, BlockFacts
        <4>3. p # a
          BY <1>1, <4>2, BlockFacts
        <4> QED
          BY <1>1, <4>1, <4>2, <4>3
      <3> HIDE DEF p, d, t
      <3>3. /\ WellFormed(d) /\ DOMAIN d = DOMAIN r \ {a} /\ ~d[p].used
            /\ \A x \in DOMAIN r \ {p, a} : /\ d[x].used = r[x].used
                                            /\ d[x].next = r[x].next
        <4>1. LET f == Absorb(r, p, a)
              IN  /\ WellFormed(f) /\ DOMAIN f = DOMAIN r \ {a}
                  /\ f[p].used = r[p].used
                  /\ \A x \in DOMAIN r \ {p, a} : /\ f[x].used = r[x].used
                                                  /\ f[x].next = r[x].next
          <5>1. WellFormed(r)
            BY <1>1
          <5> QED
            BY <5>1, <3>2, AbsorbShape
        <4> QED
          BY <3>1, <3>2, <4>1
      <3>4. KeepsUsed(r, d)
        BY <1>1, <3>1, <3>2, AbsorbKeepsUsed
      <3>5. ASSUME NEW x \in DOMAIN d \ {t} PROVE Merged(d, x)
        <4>1. x \in DOMAIN r \ {p, a} /\ r[x].next # a
          BY <1>1, <3>1, <3>2, <3>3, BlockFacts
        <4>2. Merged(r, x)
          BY <1>1, <1>2, <4>1
        <4> QED
          BY <1>1, <3>2, <3>3, <4>1, <4>2, BlockFacts DEF Merged
      <3> QED
        BY <3>1, <3>2, <3>3, <3>4, <3>5
    <2>2. CASE ~IsFree(r, p)
      <3>1. d = r /\ t = a
        BY <2>2 DEF MergeBack, MergeTarget
      <3> HIDE DEF d, t
      <3>2. ASSUME NEW x \in DOMAIN r \ {a} PROVE Merged(r, x)
        <4>1. CASE desc[x].next = a
          BY <1>1, <2>2, <4>1, BlockFacts DEF IsFree, Merged
        <4> QED
          BY <1>1, <1>2, <4>1
      <3> QED
        BY <1>1, <3>1, <3>2 DEF KeepsUsed
    <2> QED
      BY <2>1, <2>2
  <1> HIDE DEF d, t
  <1>4. /\ WellFormed(e) /\ KeepsUsed(d, e)
        /\ \A x \in DOMAIN e : Merged(e, x)
    <2> DEFINE n == d[t].next
    <2>1. CASE IsFree(d, n)
      <3>1. e = Absorb(d, t, n)
        BY <2>1 DEF MergeForward
      <3>2. n \in DOMAIN d /\ ~d[n].used
        BY <1>3, <2>1, BlockFacts DEF IsFree
      <3> HIDE DEF e
      <3>3. /\ WellFormed(e) /\ t # n /\ DOMAIN e = DOMAIN d \ {n}
            /\ e[t].next = d[n].next /\ ~e[t].used
            /\ \A x \in DOMAIN d \ {t, n} : /\ e[x].used = d[x].used
                                            /\ e[x].next = d[x].next
        BY <1>3, <3>1, <3>2, AbsorbShape
      <3>4. KeepsUsed(d, e)
        BY <1>3, <3>1, <3>2, AbsorbKeepsUsed
      <3>5. ASSUME NEW x \in DOMAIN e PROVE Merged(e, x)
        <4>1. CASE x = t
          <5>1. Merged(d, n)
            BY <1>3, <3>2, <3>3
          <5> QED
            BY <1>3, <3>2, <3>3, <4>1, <5>1, BlockFacts DEF Merged
        <4>2. CASE x # t
          <5>1. Merged(d, x) /\ x \in DOMAIN d \ {t, n} /\ d[x].next # n
            BY <1>3, <3>2, <3>3, <4>2, BlockFacts
          <5> QED
            BY <1>3, <3>2, <3>3, <5>1, BlockFacts DEF Merged
        <4> QED
          BY <4>1, <4>2
      <3> QED
        BY <3>3, <3>4, <3>5
    <2>2. CASE ~IsFree(d, n)
      <3>1. e = d
        BY <2>2 DEF MergeForward
      <3>2. Merged(d, t)
        BY <2>2 DEF IsFree, Merged
      <3> QED
        BY <1>3, <3>1, <3>2 DEF KeepsUsed
    <2> QED
      BY <2>1, <2>2
  <1>5. UsedBlocks(r) = UsedBlocks(desc) \ {a}
    BY <1>1 DEF UsedBlocks
  <1> HIDE DEF e
  <1>6. /\ UsedBlocks(e) = UsedBlocks(desc) \ {a}
        /\ \A x \in UsedBlocks(e) : e[x].size = desc[x].size
    BY <1>1, <1>3, <1>4, <1>5 DEF KeepsUsed, UsedBlocks
  <1> QED
    BY <1>4, <1>6 DEF r, d, t, e
-----------------------------------------------------------------------------
(* The inductive invariant *)

(* A block of this size suits the request, and is little larger. *)
Suits(size, bytes) ==
  /\ 0 < size
  /\ allocateSize(bytes) <= size
  /\ size <= allocateSize(bytes) + sizeOfDesc + BlockSize

(* Callers hold exactly the used blocks, each suiting its request. *)
HeldInv ==
  /\ held \in [DOMAIN held -> Requests]
  /\ DOMAIN held = {a + sizeOfDesc : a \in UsedBlocks(desc)}
  /\ \A p \in DOMAIN held : Suits(desc[p - sizeOfDesc].size, held[p])

(* The inductive invariant: list, merging, callers, counter. *)
HeapInv ==
  /\ WellFormed(desc)
  /\ \A a \in DOMAIN desc : Merged(desc, a)
  /\ HeldInv
  /\ totalFree \in Int

(* The one free block of initFreeHead is in order. *)
LEMMA InitHeap == Init => HeapInv
  <1> SUFFICES ASSUME Init PROVE HeapInv
    OBVIOUS
  <1>1. /\ HeapStart \in Nat \ {0} /\ HeapEnd \in Nat
        /\ sizeOfDesc \in Nat \ {0} /\ HeapStart + sizeOfDesc < HeapEnd
    BY HeapAssumption, DescPositive
  <1>2. /\ DOMAIN desc = {HeapStart}
        /\ desc[HeapStart] = [next |-> Null, prev |-> Null, used |-> FALSE,
                              size |-> HeapEnd - HeapStart - sizeOfDesc]
        /\ desc = [a \in DOMAIN desc |-> desc[a]]
    BY DEF Init
  <1>3. HeapStart \in Address /\ desc[HeapStart] \in FreeMemDesc
    BY <1>1, <1>2 DEF Address, FreeMemDesc
  <1>4. After(desc, HeapStart) = HeapEnd
    BY <1>1, <1>2 DEF After
  <1>5. WellFormed(desc)
    <2>1. desc \in [DOMAIN desc -> FreeMemDesc]
      BY <1>2, <1>3
    <2>2. desc[HeapStart].next = Null /\ desc[HeapStart].prev = Null
      BY <1>2
    <2>3. LinkedBack(desc, HeapStart) /\ LinkedOn(desc, HeapStart)
      BY <1>4, <2>2 DEF LinkedBack, LinkedOn
    <2>4. \A a, b \in DOMAIN desc : ~(a < b)
      BY <1>1, <1>2
    <2> QED
      BY <1>2, <1>3, <2>1, <2>3, <2>4 DEF WellFormed
  <1>6. UsedBlocks(desc) = {} /\ DOMAIN held = {} /\ held = [p \in {} |-> 0]
    BY <1>2 DEF Init, UsedBlocks
  <1>7. totalFree \in Int
    BY <1>1 DEF Init
  <1> QED
    BY <1>2, <1>5, <1>6, <1>7 DEF HeapInv, HeldInv, Merged

(* A pointer is its block's address and sizeOfDesc, one for each block. *)
LEMMA HeldBlocks ==
  ASSUME HeapInv
  PROVE  /\ \A a \in UsedBlocks(desc) : a + sizeOfDesc \in DOMAIN held
         /\ \A p \in DOMAIN held : /\ p \in Nat
                                  /\ p - sizeOfDesc \in UsedBlocks(desc)
                                  /\ p = p - sizeOfDesc + sizeOfDesc
  BY DescPositive, BlockFacts DEF HeapInv, HeldInv, UsedBlocks

(* Block b, which was free, is handed out; the other used blocks stay. *)
HandsOut(b, bytes) ==
  /\ ~desc[b].used /\ HandOut(b, bytes)
  /\ UsedBlocks(desc') = UsedBlocks(desc) \cup {b}
  /\ \A a \in UsedBlocks(desc) : desc'[a].size = desc[a].size
  /\ Suits(desc'[b].size, bytes)

(* Block a is taken back; the other used blocks stay. *)
TakesBack(a, p) ==
  /\ p = a + sizeOfDesc
  /\ held' = [q \in DOMAIN held \ {p} |-> held[q]]
  /\ UsedBlocks(desc') = UsedBlocks(desc) \ {a}
  /\ \A x \in UsedBlocks(desc') : desc'[x].size = desc[x].size

(* The callers' pointers stay in order when a block is handed out. *)
LEMMA HandOutHeld ==
  ASSUME HeapInv, NEW b \in DOMAIN desc, NEW bytes \in Requests,
         HandsOut(b, bytes)
  PROVE  HeldInv'
  <1> USE DEF HandsOut
  <1>1. sizeOfDesc \in Nat \ {0} /\ b \in Nat
    BY DescPositive, BlockFacts DEF HeapInv
  <1>2. b + sizeOfDesc - sizeOfDesc = b
    BY <1>1
  <1>3. /\ DOMAIN held' = DOMAIN held \cup {b + sizeOfDesc}
        /\ held' = [p \in DOMAIN held' |-> held'[p]]
        /\ held'[b + sizeOfDesc] = bytes
        /\ \A p \in DOMAIN held : p # b + sizeOfDesc => held'[p] = held[p]
    BY DEF HandOut
  <1>4. held' \in [DOMAIN held' -> Requests]
    BY <1>3 DEF HeapInv, HeldInv
  <1>5. DOMAIN held' = {a + sizeOfDesc : a \in UsedBlocks(desc')}
    BY <1>3 DEF HeapInv, HeldInv
  <1>6. ASSUME NEW p \in DOMAIN held' 
        PROVE  Suits(desc'[p - sizeOfDesc].size, held'[p])
    <2>1. CASE p = b + sizeOfDesc
      <3>1. p - sizeOfDesc = b /\ held'[p] = bytes
        BY <1>1, <1>2, <1>3, <2>1
      <3> QED
        BY <3>1, Zenon
    <2>2. CASE p # b + sizeOfDesc
      <3>1. p \in DOMAIN held /\ p - sizeOfDesc \in UsedBlocks(desc)
        BY <1>3, <2>2, HeldBlocks
      <3>2. Suits(desc[p - sizeOfDesc].size, held[p])
        BY <3>1 DEF HeapInv, HeldInv
      <3> QED
        BY <1>3, <2>2, <3>1, <3>2
    <2> QED
      BY <2>1, <2>2
  <1> QED
    BY <1>4, <1>5, <1>6 DEF HeldInv

(* mem_alloc with a split keeps the invariant and hands out one block. *)
LEMMA SplitStep ==
  ASSUME HeapInv, NEW bytes \in Requests, AllocSplit(bytes),
         NEW want, want = allocateSize(bytes)
  PROVE  HeapInv' /\ \E b \in DOMAIN desc : HandsOut(b, bytes)
  <1>1. PICK b \in DOMAIN desc :
           /\ Fits(b, want) /\ WorthSplitting(b, want) /\ want > 0
           /\ desc' = Split(b, want)
           /\ totalFree' = totalFree - sizeOfDesc - desc'[b].size
           /\ HandOut(b, bytes)
    BY DEF AllocSplit, BestFit, Admitted
  <1>2. want \in Nat /\ sizeOfDesc \in Nat /\ BlockSize \in Nat
    BY SizeNat, DescPositive, HeapAssumption
  <1> DEFINE n == b + sizeOfDesc + want
  <1>3. /\ WellFormed(desc')
        /\ n \notin DOMAIN desc /\ DOMAIN desc' = DOMAIN desc \cup {n}
        /\ ~desc'[n].used /\ desc'[b].used /\ desc'[b].size = want
        /\ desc'[b].next = n /\ desc'[n].next = desc[b].next
        /\ \A x \in DOMAIN desc \ {b} : /\ desc'[x].used = desc[x].used
                                        /\ desc'[x].size = desc[x].size
                                        /\ desc'[x].next = desc[x].next
    <2>1. WellFormed(desc)
      BY DEF HeapInv
    <2>2. WorthSplitting(b, want) /\ desc' = Split(b, want) /\ want \in Nat
      BY <1>1, <1>2
    <2>3. WellFormed(desc') /\ Halved(desc, desc', b, n, want)
      BY <2>1, <2>2, SplitShape
    <2> QED
      BY <2>3, Zenon DEF Halved
  <1> HIDE DEF n
  <1>4. /\ ~desc[b].used /\ \A a \in DOMAIN desc : Merged(desc, a)
        /\ WellFormed(desc)
    BY <1>1 DEF Fits, HeapInv
  <1>5. ASSUME NEW a \in DOMAIN desc' PROVE Merged(desc', a)
    <2>1. CASE a = b
      BY <1>3, <2>1 DEF Merged
    <2>2. CASE a = n
      BY <1>3, <1>4, <2>2, BlockFacts DEF Merged
    <2>3. CASE a \in DOMAIN desc \ {b}
      BY <1>3, <1>4, <2>3, BlockFacts DEF Merged
    <2> QED
      BY <1>3, <2>1, <2>2, <2>3
  <1>6. /\ UsedBlocks(desc') = UsedBlocks(desc) \cup {b}
        /\ \A a \in UsedBlocks(desc) : desc'[a].size = desc[a].size
    BY <1>3, <1>4 DEF UsedBlocks
  <1>7. HandsOut(b, bytes)
    <2>1. Suits(desc'[b].size, bytes)
      BY <1>1, <1>2, <1>3 DEF Suits
    <2> QED
      BY <1>1, <1>4, <1>6, <2>1 DEF HandsOut
  <1>8. HeldInv'
    BY <1>7, HandOutHeld
  <1>9. totalFree' \in Int
    BY <1>1, <1>2, <1>3 DEF HeapInv
  <1> QED
    BY <1>3, <1>5, <1>7, <1>8, <1>9 DEF HeapInv

(* mem_alloc without a split keeps the invariant and hands out one block. *)
LEMMA WholeStep ==
  ASSUME HeapInv, NEW bytes \in Requests, AllocWhole(bytes)
  PROVE  HeapInv' /\ \E b \in DOMAIN desc : HandsOut(b, bytes)
  <1> DEFINE size == allocateSize(bytes)
  <1>1. PICK b \in DOMAIN desc :
           /\ Fits(b, size) /\ ~WorthSplitting(b, size) /\ size > 0
           /\ desc' = [desc EXCEPT ![b].used = TRUE]
           /\ totalFree' = totalFree - desc[b].size
           /\ HandOut(b, bytes)
    BY DEF AllocWhole, BestFit, Admitted
  <1>2. size \in Nat /\ sizeOfDesc \in Nat /\ BlockSize \in Nat
    BY SizeNat, DescPositive, HeapAssumption
  <1> HIDE DEF size
  <1>3. /\ ~desc[b].used /\ \A a \in DOMAIN desc : Merged(desc, a)
        /\ WellFormed(desc) /\ desc \in [DOMAIN desc -> FreeMemDesc]
    BY <1>1 DEF Fits, HeapInv, WellFormed
  <1>4. /\ desc' \in [DOMAIN desc -> FreeMemDesc] /\ DOMAIN desc' = DOMAIN desc
        /\ \A x \in DOMAIN desc : /\ desc'[x].next = desc[x].next
                                 /\ desc'[x].prev = desc[x].prev
                                 /\ desc'[x].size = desc[x].size
                                 /\ desc'[x].used = (x = b \/ desc[x].used)
    BY <1>1, <1>3 DEF FreeMemDesc
  <1>5. \A x \in DOMAIN desc : After(desc', x) = After(desc, x)
    BY <1>4 DEF After
  <1>6. \A x \in DOMAIN desc' : LinkedBack(desc', x) /\ LinkedOn(desc', x)
    BY <1>3, <1>4, <1>5 DEF WellFormed, LinkedBack, LinkedOn
  <1>7. WellFormed(desc')
    BY <1>3, <1>4, <1>5, <1>6 DEF WellFormed
  <1>8. ASSUME NEW a \in DOMAIN desc' PROVE Merged(desc', a)
    <2>1. desc[a].next # Null => desc[a].next \in DOMAIN desc
      BY <1>3, <1>4, BlockFacts
    <2> QED
      BY <1>3, <1>4, <2>1 DEF Merged
  <1>9. /\ UsedBlocks(desc') = UsedBlocks(desc) \cup {b}
        /\ \A a \in UsedBlocks(desc) : desc'[a].size = desc[a].size
    BY <1>4 DEF UsedBlocks
  <1>10. Suits(desc'[b].size, bytes)
    <2>1. desc[b].size \in Nat /\ desc'[b].size = desc[b].size
      BY <1>3, <1>4, BlockFacts
    <2>2. /\ size > 0 /\ desc[b].size >= size
          /\ ~(desc[b].size - size > sizeOfDesc + BlockSize)
      BY <1>1 DEF Fits, WorthSplitting
    <2> HIDE <1>1
    <2> QED
      BY <1>2, <2>1, <2>2 DEF Suits, size
  <1>11. HandsOut(b, bytes) /\ HeldInv'
    BY <1>1, <1>3, <1>9, <1>10, HandOutHeld DEF HandsOut
  <1>12. totalFree' \in Int
    BY <1>1, <1>3, BlockFacts DEF HeapInv
  <1> QED
    BY <1>7, <1>8, <1>11, <1>12 DEF HeapInv

(* The list has finitely many nodes. *)
LEMMA FiniteList ==
  ASSUME NEW d, WellFormed(d)
  PROVE  Cardinality(DOMAIN d) \in Nat
  <1>1. IsFiniteSet(Address)
    BY HeapAssumption, FS_Interval DEF Address
  <1> QED
    BY <1>1, FS_Subset, FS_CardinalityType DEF WellFormed

(* mem_free keeps the invariant and takes back one block. *)
LEMMA FreeStep ==
  ASSUME HeapInv, NEW p, MemFree(p)
  PROVE  HeapInv' /\ \E a \in UsedBlocks(desc) : TakesBack(a, p)
  <1> DEFINE released(a) == [desc EXCEPT ![a].used = FALSE]
  <1>1. PICK a \in DOMAIN desc :
           /\ Allocated(p, a)
           /\ desc' = MergeForward(MergeBack(released(a), a),
                                   MergeTarget(released(a), a))
           /\ totalFree' = totalFree + desc[a].size
                             + Recovered(released(a), desc')
           /\ held' = [q \in DOMAIN held \ {p} |-> held[q]]
    BY DEF MemFree
  <1>2. /\ WellFormed(desc) /\ Coalesced /\ desc[a].used /\ p = a + sizeOfDesc
    <2>1. a \in Nat /\ sizeOfDesc \in Nat /\ p \in Nat /\ a = p - sizeOfDesc
      BY <1>1, BlockFacts, DescPositive, HeapAssumption
         DEF Allocated, HeapInv, Address
    <2> QED
      BY <1>1, <2>1 DEF Allocated, HeapInv, Coalesced, Merged
  <1>3. /\ WellFormed(desc') /\ \A x \in DOMAIN desc' : Merged(desc', x)
        /\ UsedBlocks(desc') = UsedBlocks(desc) \ {a}
        /\ \A x \in UsedBlocks(desc') : desc'[x].size = desc[x].size
    BY <1>1, <1>2, FreeShape
  <1>4. totalFree' \in Int
    <2>1. DOMAIN released(a) = DOMAIN desc
      OBVIOUS
    <2>2. /\ Cardinality(DOMAIN desc) \in Nat
          /\ Cardinality(DOMAIN desc') \in Nat
      BY <1>2, <1>3, FiniteList
    <2>3. sizeOfDesc \in Nat /\ desc[a].size \in Nat
      BY <1>2, BlockFacts, DescPositive
    <2>4. Recovered(released(a), desc') \in Int
      BY <2>1, <2>2, <2>3 DEF Recovered
    <2> QED
      BY <1>1, <2>3, <2>4 DEF HeapInv
  <1>5. /\ DOMAIN held' = DOMAIN held \ {p}
        /\ \A q \in DOMAIN held' : held'[q] = held[q]
        /\ held' = [q \in DOMAIN held' |-> held'[q]]
    BY <1>1
  <1>6. held' \in [DOMAIN held' -> Requests]
    BY <1>5 DEF HeapInv, HeldInv
  <1>7. ASSUME NEW q \in DOMAIN held'
        PROVE  /\ q - sizeOfDesc \in UsedBlocks(desc')
               /\ q = q - sizeOfDesc + sizeOfDesc
               /\ Suits(desc'[q - sizeOfDesc].size, held'[q])
    <2>1. /\ q \in DOMAIN held /\ q # p
          /\ q - sizeOfDesc \in UsedBlocks(desc)
          /\ q = q - sizeOfDesc + sizeOfDesc
      BY <1>5, HeldBlocks
    <2>2. q - sizeOfDesc # a
      BY <1>2, <2>1
    <2>3. Suits(desc[q - sizeOfDesc].size, held[q])
      BY <2>1 DEF HeapInv, HeldInv
    <2> QED
      BY <1>3, <1>5, <2>1, <2>2, <2>3
  <1>8. ASSUME NEW x \in UsedBlocks(desc') PROVE x + sizeOfDesc \in DOMAIN held'
    <2>1. x \in UsedBlocks(desc) /\ x # a /\ x + sizeOfDesc \in DOMAIN held
      BY <1>3, HeldBlocks
    <2>2. x \in Nat /\ a \in Nat /\ sizeOfDesc \in Nat
      BY <1>2, <2>1, BlockFacts, DescPositive DEF UsedBlocks
    <2> QED
      BY <1>2, <1>5, <2>1, <2>2
  <1>9. HeldInv'
    BY <1>6, <1>7, <1>8 DEF HeldInv
  <1>10. a \in UsedBlocks(desc) /\ TakesBack(a, p)
    BY <1>1, <1>2, <1>3 DEF UsedBlocks, TakesBack
  <1> QED
    BY <1>3, <1>4, <1>9, <1>10 DEF HeapInv

(* A call that is refused changes nothing, nor does a step of a caller. *)
LEMMA OtherStep ==
  ASSUME HeapInv, UNCHANGED vars
  PROVE  HeapInv'
  BY DEF vars, HeapInv, HeldInv, UsedBlocks, WellFormed, LinkedBack, LinkedOn,
         After, Merged

(* Every step keeps the invariant. *)
LEMMA HeapStep ==
  ASSUME HeapInv, [Next]_vars
  PROVE  HeapInv'
  <1>1. CASE UNCHANGED vars
    BY <1>1, OtherStep
  <1>2. CASE Next
    <2>1. ASSUME NEW bytes \in Requests, AllocSplit(bytes) PROVE HeapInv'
      BY <2>1, SplitStep
    <2>2. ASSUME NEW bytes \in Requests, AllocWhole(bytes) PROVE HeapInv'
      BY <2>2, WholeStep
    <2>3. ASSUME NEW bytes \in Requests, AllocRefused(bytes) PROVE HeapInv'
      BY <2>3, OtherStep DEF AllocRefused
    <2>4. ASSUME NEW p, MemFree(p) PROVE HeapInv'
      BY <2>4, FreeStep
    <2>5. ASSUME NEW p, FreeRefused(p) PROVE HeapInv'
      BY <2>5, OtherStep DEF FreeRefused
    <2> QED
      BY <1>2, <2>1, <2>2, <2>3, <2>4, <2>5 DEF Next
  <1> QED
    BY <1>1, <1>2

(* HeapInv holds after whatever calls of mem_alloc and mem_free. *)
THEOREM HeapInvariant == Spec => []HeapInv
  <1>1. Init => HeapInv
    BY InitHeap
  <1>2. HeapInv /\ [Next]_vars => HeapInv'
    BY HeapStep
  <1> QED
    BY <1>1, <1>2, PTL DEF Spec

(* Every variable keeps its type: no descriptor leaves the heap, and no    *)
(* size or link gets out of its range.                                     *)
THEOREM TypesHold == Spec => []TypeOK
  <1>1. HeapInv => TypeOK
    <2> SUFFICES ASSUME HeapInv PROVE TypeOK
      OBVIOUS
    <2>1. DOMAIN held \subseteq Address
      <3> SUFFICES ASSUME NEW p \in DOMAIN held PROVE p \in Address
        OBVIOUS
      <3> DEFINE a == p - sizeOfDesc
      <3>1. a \in DOMAIN desc /\ p = a + sizeOfDesc
        BY HeldBlocks DEF UsedBlocks
      <3>2. Suits(desc[a].size, held[p])
        BY DEF HeapInv, HeldInv
      <3> HIDE DEF a
      <3>3. /\ a \in Nat /\ HeapStart <= a /\ After(desc, a) <= HeapEnd
            /\ desc[a].size \in Nat
        BY <3>1, BlockFacts DEF HeapInv
      <3> QED
        BY <3>1, <3>2, <3>3, DescPositive, HeapAssumption
           DEF Suits, After, Address
    <2> QED
      BY <2>1 DEF HeapInv, HeldInv, WellFormed, TypeOK
  <1> QED
    BY <1>1, HeapInvariant, PTL

(* Splitting and merging never lose memory and never let blocks overlap.   *)
THEOREM HeapIsTiled == Spec => []Tiled
  <1>1. HeapInv => Tiled
    BY DescPositive, BlockFacts, HeapAssumption
       DEF HeapInv, WellFormed, LinkedBack, LinkedOn, Tiled, Address, Null
  <1> QED
    BY <1>1, HeapInvariant, PTL

(* mem_free, which looks one block back and one on, leaves no two free     *)
(* blocks side by side.                                                    *)
THEOREM FreeBlocksAreMerged == Spec => []Coalesced
  <1>1. HeapInv => Coalesced
    BY DEF HeapInv, Merged, Coalesced
  <1> QED
    BY <1>1, HeapInvariant, PTL

(* mem_alloc and mem_free agree on what is allocated: no block handed out  *)
(* is merged away, given out again or forgotten.                           *)
THEOREM CallersHoldUsedBlocks == Spec => []HeldAreUsed
  <1>1. HeapInv => HeldAreUsed
    BY DEF HeapInv, HeldInv, UsedBlocks, HeldAreUsed
  <1> QED
    BY <1>1, HeapInvariant, PTL

(* mem_alloc splits every block whose rest is worth a descriptor.          *)
THEOREM LittleIsWasted == Spec => []WasteBounded
  <1>1. HeapInv => WasteBounded
    BY DEF HeapInv, HeldInv, Suits, WasteBounded
  <1> QED
    BY <1>1, HeapInvariant, PTL


-----------------------------------------------------------------------------
(* The implementation of Allocator *)

(* The abstract region of pointer p. *)
Region(p) ==
  [at |-> p, size |-> desc[p - sizeOfDesc].size, asked |-> held[p]]

(* What is handed out lies in the heap, is large enough and overlaps       *)
(* nothing that was handed out before.                                     *)
LEMMA HandOutPromised ==
  ASSUME HeapInv, HeapInv', NEW b \in DOMAIN desc, NEW bytes \in Requests,
         HandsOut(b, bytes)
  PROVE  Promise!Alloc(bytes)
  <1> DEFINE p == b + sizeOfDesc
             r == [at |-> p, size |-> desc'[b].size, asked |-> bytes]
  <1>1. /\ sizeOfDesc \in Nat \ {0} /\ b \in Nat /\ p \in Nat
        /\ p - sizeOfDesc = b /\ HeapStart \in Nat /\ HeapEnd \in Nat
        /\ bytes \in Nat /\ allocateSize(bytes) \in Nat
    BY DescPositive, BlockFacts, HeapAssumption, SizeNat DEF HeapInv
  <1>2. /\ DOMAIN held' = DOMAIN held \cup {p} /\ held'[p] = bytes
        /\ p \notin DOMAIN held
        /\ \A q \in DOMAIN held : held'[q] = held[q]
    BY <1>1, HeldBlocks DEF HandsOut, HandOut, UsedBlocks
  <1>3. b \in UsedBlocks(desc')
    BY DEF HandsOut
  <1>4. /\ b \in DOMAIN desc' /\ HeapStart <= b /\ desc'[b].size \in Nat
        /\ p + desc'[b].size <= HeapEnd /\ After(desc', b) = p + desc'[b].size
    <2>1. WellFormed(desc') /\ b \in DOMAIN desc'
      BY <1>3 DEF HeapInv, UsedBlocks
    <2> QED
      BY <2>1, BlockFacts DEF After
  <1>5. r.size >= bytes
    BY <1>1, <1>4, EnoughBytes DEF HandsOut, Suits
  <1>6. ASSUME NEW q \in DOMAIN held
        PROVE  /\ desc'[q - sizeOfDesc].size = desc[q - sizeOfDesc].size
               /\ Promise!Apart(r, Region(q))
    <2> DEFINE c == q - sizeOfDesc
    <2>1. c \in UsedBlocks(desc) /\ q = c + sizeOfDesc /\ q \in Nat
      BY HeldBlocks
    <2>2. /\ c \in DOMAIN desc' /\ c # b /\ desc'[c].size = desc[c].size
      BY <2>1 DEF HandsOut, UsedBlocks
    <2> HIDE DEF c
    <2>3. WellFormed(desc')
      BY DEF HeapInv
    <2>4. /\ c \in Nat /\ desc'[c].size \in Nat
          /\ After(desc', c) = q + desc[c].size
      BY <2>1, <2>2, <2>3, BlockFacts DEF After
    <2>5. c < b => After(desc', c) <= b
      BY <1>4, <2>2, <2>3 DEF WellFormed
    <2>6. b < c => After(desc', b) <= c
      BY <1>4, <2>2, <2>3 DEF WellFormed
    <2>7. q + desc[c].size <= p \/ p + desc'[b].size <= q
      BY <1>1, <1>4, <2>1, <2>2, <2>4, <2>5, <2>6
    <2> QED
      BY <2>2, <2>7 DEF Promise!Apart, Region, c
  <1>7. live' = live \cup {r}
    BY <1>1, <1>2, <1>6 DEF live
  <1>8. \A s \in live : Promise!Apart(r, s)
    BY <1>6 DEF live, Region
  <1> HIDE DEF r
  <1>9. r.at = p /\ r.asked = bytes
    BY DEF r
  <1>10. HeapStart <= r.at /\ r.at + r.size <= HeapEnd
    BY <1>1, <1>4 DEF r
  <1> QED
    BY <1>5, <1>7, <1>8, <1>9, <1>10 DEF Promise!Alloc

(* Taking a block back gives back its region and no other. *)
LEMMA TakeBackPromised ==
  ASSUME HeapInv, HeapInv', NEW a \in UsedBlocks(desc), NEW p,
         TakesBack(a, p)
  PROVE  \E r \in live : Promise!Free(r)
  <1>1. p \in DOMAIN held /\ DOMAIN held' = DOMAIN held \ {p}
    BY HeldBlocks DEF TakesBack
  <1>2. \A q \in DOMAIN held' : held'[q] = held[q]
    BY DEF TakesBack
  <1>3. ASSUME NEW q \in DOMAIN held'
        PROVE  desc'[q - sizeOfDesc].size = desc[q - sizeOfDesc].size
    <2>1. q \in DOMAIN held /\ q # p
      BY <1>1
    <2>2. q - sizeOfDesc \in UsedBlocks(desc) /\ q - sizeOfDesc # a
      BY <2>1, HeldBlocks DEF TakesBack
    <2> QED
      BY <2>2 DEF TakesBack
  <1>4. Region(p) \in live /\ \A q \in DOMAIN held : Region(q).at = q
    BY <1>1 DEF live, Region
  <1>5. live' = {Region(q) : q \in DOMAIN held'}
    BY <1>1, <1>2, <1>3 DEF live, Region
  <1>6. live = {Region(q) : q \in DOMAIN held}
    BY DEF live, Region
  <1>7. live' = live \ {Region(p)}
    <2>1. ASSUME NEW q \in DOMAIN held, q # p PROVE Region(q) # Region(p)
      BY <1>1, <1>4, <2>1
    <2> QED
      BY <1>1, <1>5, <1>6, <2>1
  <1> QED
    BY <1>4, <1>7 DEF Promise!Free

(* What mem_alloc hands out lies in the heap, is as large as was asked and *)
(* overlaps nothing that is still in use; mem_free gives back just that.   *)
THEOREM PromiseKept == Spec => ImplementsAllocator
  <1>1. Init => Promise!Init
    BY DEF Init, Promise!Init, live
  <1>2. ASSUME HeapInv, HeapInv', [Next]_vars PROVE [Promise!Next]_live
    <2>1. CASE UNCHANGED vars
      BY <2>1 DEF vars, live
    <2>2. ASSUME NEW bytes \in Requests, AllocSplit(bytes)
          PROVE  Promise!Alloc(bytes)
      BY <1>2, <2>2, SplitStep, HandOutPromised
    <2>3. ASSUME NEW bytes \in Requests, AllocWhole(bytes)
          PROVE  Promise!Alloc(bytes)
      BY <1>2, <2>3, WholeStep, HandOutPromised
    <2>4. ASSUME NEW p, MemFree(p) PROVE \E r \in live : Promise!Free(r)
      BY <1>2, <2>4, FreeStep, TakeBackPromised
    <2> QED
      BY <1>2, <2>1, <2>2, <2>3, <2>4
         DEF Next, AllocRefused, FreeRefused, Promise!Next
  <1> QED
    BY <1>1, <1>2, HeapInvariant, PTL
       DEF Spec, ImplementsAllocator, Promise!Spec

-----------------------------------------------------------------------------
(* What is free in all *)

Smaller(S) == StrictSubsetOrdering(S)

(* A set of finite sets has one that contains no other one of them. *)
LEMMA LeastSubset ==
  ASSUME NEW S, IsFiniteSet(S), NEW T, T \subseteq SUBSET S, T # {}
  PROVE  \E s \in T : \A t \in T : t \subseteq s => t = s
  <1>1. IsWellFoundedOn(Smaller(S), SUBSET S)
    BY FS_FiniteSubsetsOfFinite, FS_StrictSubsetOrderingWellFounded DEF Smaller
  <1>2. \E s \in T : \A t \in T : ~(<<t, s>> \in Smaller(S))
    BY <1>1, WFMin
  <1>3. \A s, t \in SUBSET S :
          <<t, s>> \in Smaller(S) <=> t \subseteq s /\ t # s
    BY DEF Smaller, StrictSubsetOrdering
  <1> QED
    BY <1>2, <1>3, Zenon

(* The sizes of the blocks S of d, added up. *)
Total(d, S) == MapThenSumSet(LAMBDA a : d[a].size, S)

First(s) == CHOOSE x \in s : TRUE

(* The function that adds them up, for the subsets of F. *)
Adds(d, g, F) ==
  g = [s \in SUBSET F |-> IF s = {} THEN 0
                          ELSE d[First(s)].size + g[s \ {First(s)}]]

(* It is what the sum is taken from. *)
LEMMA TotalIs ==
  ASSUME NEW d, NEW S
  PROVE  Total(d, S) = (CHOOSE g : Adds(d, g, S))[S]
  BY DEF Total, MapThenSumSet, MapThenFoldSet, Adds, First

(* It is the only one. *)
LEMMA AddsOnce ==
  ASSUME NEW d, NEW F, NEW G, NEW g, NEW h, IsFiniteSet(F),
         Adds(d, g, F), Adds(d, h, G)
  PROVE  \A s \in SUBSET F : s \subseteq G => g[s] = h[s]
  <1> DEFINE T == {s \in SUBSET F : s \subseteq G /\ g[s] # h[s]}
  <1>1. SUFFICES ASSUME T # {} PROVE FALSE
    OBVIOUS
  <1>2. PICK s \in T : \A t \in T : t \subseteq s => t = s
    <2>1. T \subseteq SUBSET F
      OBVIOUS
    <2> HIDE DEF T
    <2> QED
      BY <1>1, <2>1, LeastSubset
  <1>3. s # {}
    BY <1>2, {} \in SUBSET F, {} \in SUBSET G DEF Adds
  <1>4. First(s) \in s
    BY <1>3 DEF First
  <1> DEFINE t == s \ {First(s)}
  <1>5. t \in SUBSET F /\ t \subseteq G /\ t \subseteq s /\ t # s
    BY <1>2, <1>4
  <1>6. g[t] = h[t]
    BY <1>2, <1>5
  <1>7. /\ g[s] = d[First(s)].size + g[t] /\ h[s] = d[First(s)].size + h[t]
    BY <1>2, <1>3 DEF Adds
  <1> QED
    BY <1>2, <1>6, <1>7

(* Every finite set has one. *)
LEMMA AddsExists ==
  ASSUME NEW d, NEW F, IsFiniteSet(F)
  PROVE  \E g : Adds(d, g, F)
  <1> DEFINE T == {E \in SUBSET F : ~\E g : Adds(d, g, E)}
  <1>1. SUFFICES ASSUME T # {} PROVE FALSE
    OBVIOUS
  <1>2. PICK E \in T : \A t \in T : t \subseteq E => t = E
    <2>1. T \subseteq SUBSET F
      OBVIOUS
    <2> HIDE DEF T
    <2> QED
      BY <1>1, <2>1, LeastSubset
  <1> DEFINE V(s) == (CHOOSE h : Adds(d, h, s))[s]
             g == [s \in SUBSET E |-> IF s = {} THEN 0
                     ELSE d[First(s)].size + V(s \ {First(s)})]
  <1>3. ASSUME NEW t \in SUBSET E, t # E
        PROVE  g[t] = V(t)
    <2>1. \E h : Adds(d, h, t)
      BY <1>2, <1>3
    <2> DEFINE h == CHOOSE f : Adds(d, f, t)
    <2>2. Adds(d, h, t)
      BY <2>1
    <2> HIDE DEF h
    <2>3. CASE t = {}
      BY <2>2, <2>3, t \in SUBSET t DEF Adds, h
    <2>4. CASE t # {}
      <3> DEFINE u == t \ {First(t)}
      <3>1. First(t) \in t
        BY <2>4 DEF First
      <3>2. u \in SUBSET E /\ u # E /\ u \subseteq t
        BY <3>1
      <3>3. \E f : Adds(d, f, u)
        BY <1>2, <3>2
      <3> DEFINE f == CHOOSE k : Adds(d, k, u)
      <3>4. Adds(d, f, u)
        BY <3>3
      <3>5. IsFiniteSet(u)
        BY <1>2, <3>2, FS_Subset
      <3> HIDE DEF f
      <3>6. f[u] = h[u]
        BY <2>2, <3>2, <3>4, <3>5, AddsOnce, u \in SUBSET u
      <3>7. h[t] = d[First(t)].size + h[u]
        BY <2>2, <2>4, t \in SUBSET t DEF Adds
      <3>8. g[t] = d[First(t)].size + f[u]
        BY <2>4 DEF f
      <3> QED
        BY <3>6, <3>7, <3>8 DEF h
    <2> QED
      BY <2>3, <2>4
  <1>4. ASSUME NEW s \in SUBSET E, s # {}
        PROVE  g[s] = d[First(s)].size + g[s \ {First(s)}]
    <2>1. First(s) \in s
      BY <1>4 DEF First
    <2>2. s \ {First(s)} \in SUBSET E /\ s \ {First(s)} # E
      BY <2>1
    <2> QED
      BY <1>3, <1>4, <2>2
  <1>5. g[{}] = 0
    BY {} \in SUBSET E
  <1>6. DOMAIN g = SUBSET E /\ g = [s \in SUBSET E |-> g[s]]
    OBVIOUS
  <1> HIDE DEF g
  <1>7. Adds(d, g, E)
    <2> DEFINE k == [s \in SUBSET E |-> IF s = {} THEN 0
                     ELSE d[First(s)].size + g[s \ {First(s)}]]
    <2>1. \A s \in SUBSET E : k[s] = g[s]
      BY <1>4, <1>5
    <2>2. k = [s \in SUBSET E |-> k[s]]
      OBVIOUS
    <2> HIDE DEF k
    <2>3. g = k
      BY <2>1, <2>2, <1>6
    <2> QED
      BY <2>3 DEF Adds, k
  <1> QED
    BY <1>2, <1>7

(* The equations of the sum. *)
LEMMA TotalSteps ==
  ASSUME NEW d, NEW S, IsFiniteSet(S)
  PROVE  /\ S = {} => Total(d, S) = 0
         /\ S # {} => /\ First(S) \in S
                      /\ Total(d, S) = d[First(S)].size
                                         + Total(d, S \ {First(S)})
  <1> DEFINE g == CHOOSE f : Adds(d, f, S)
             t == S \ {First(S)}
             h == CHOOSE f : Adds(d, f, t)
  <1>1. IsFiniteSet(t) /\ t \in SUBSET S
    BY FS_Subset
  <1>2. Adds(d, g, S) /\ Adds(d, h, t)
    BY <1>1, AddsExists
  <1>3. Total(d, S) = g[S] /\ Total(d, t) = h[t]
    BY TotalIs
  <1> HIDE DEF g, h
  <1>4. g[t] = h[t]
    BY <1>1, <1>2, AddsOnce, t \in SUBSET t
  <1>5. S = {} => g[S] = 0
    BY <1>2, S \in SUBSET S DEF Adds
  <1>6. S # {} => g[S] = d[First(S)].size + g[t] /\ First(S) \in S
    BY <1>2, S \in SUBSET S DEF Adds, First
  <1> QED
    BY <1>3, <1>4, <1>5, <1>6

(* Sizes add up to a natural number. *)
LEMMA TotalNat ==
  ASSUME NEW d, NEW S, IsFiniteSet(S), \A a \in S : d[a].size \in Nat
  PROVE  Total(d, S) \in Nat
  <1> DEFINE T == {s \in SUBSET S : Total(d, s) \notin Nat}
  <1>1. SUFFICES ASSUME T # {} PROVE FALSE
    BY S \in SUBSET S
  <1>2. PICK s \in T : \A t \in T : t \subseteq s => t = s
    <2>1. T \subseteq SUBSET S
      OBVIOUS
    <2> HIDE DEF T
    <2> QED
      BY <1>1, <2>1, LeastSubset
  <1>3. s \in SUBSET S /\ Total(d, s) \notin Nat
    BY <1>2
  <1>4. IsFiniteSet(s)
    BY <1>3, FS_Subset
  <1>5. s # {}
    <2>1. s = {} => Total(d, s) = 0
      BY <1>4, TotalSteps
    <2> QED
      BY <1>3, <2>1
  <1>6. /\ First(s) \in s
        /\ Total(d, s) = d[First(s)].size + Total(d, s \ {First(s)})
    BY <1>4, <1>5, TotalSteps
  <1> DEFINE t == s \ {First(s)}
  <1>7. t \in SUBSET S /\ t \subseteq s /\ t # s
    BY <1>3, <1>6
  <1>8. Total(d, t) \in Nat
    BY <1>2, <1>7
  <1> QED
    BY <1>3, <1>6, <1>8

(* Any element may be added last. *)
LEMMA TotalSplit ==
  ASSUME NEW d, NEW S, IsFiniteSet(S), \A a \in S : d[a].size \in Nat
  PROVE  \A x \in S : Total(d, S) = d[x].size + Total(d, S \ {x})
  <1> DEFINE Bad(s, x) == Total(d, s) # d[x].size + Total(d, s \ {x})
             T == {s \in SUBSET S : \E x \in s : Bad(s, x)}
  <1>1. SUFFICES ASSUME T # {} PROVE FALSE
    BY S \in SUBSET S
  <1>2. PICK s \in T : \A t \in T : t \subseteq s => t = s
    <2>1. T \subseteq SUBSET S
      OBVIOUS
    <2> HIDE DEF T
    <2> QED
      BY <1>1, <2>1, LeastSubset
  <1>3. PICK x \in s : Bad(s, x)
    BY <1>2
  <1> DEFINE y == First(s)
  <1>4. s \in SUBSET S /\ IsFiniteSet(s) /\ s # {}
    BY <1>3, FS_Subset
  <1>5. y \in s /\ Total(d, s) = d[y].size + Total(d, s \ {y})
    BY <1>4, TotalSteps
  <1> HIDE DEF y
  <1>6. x # y
    BY <1>3, <1>5
  <1>7. ASSUME NEW u \in s, NEW v \in s, u # v
        PROVE  Total(d, s \ {u}) = d[v].size + Total(d, (s \ {u}) \ {v})
    <2> DEFINE t == s \ {u}
    <2>1. t \in SUBSET S /\ t \subseteq s /\ t # s /\ v \in t
      BY <1>7
    <2>2. t \notin T
      BY <1>2, <2>1
    <2> QED
      BY <2>1, <2>2
  <1> DEFINE r == Total(d, (s \ {x}) \ {y})
  <1>8. (s \ {x}) \ {y} = (s \ {y}) \ {x}
    OBVIOUS
  <1>9. /\ Total(d, s \ {x}) = d[y].size + r
        /\ Total(d, s \ {y}) = d[x].size + r
    BY <1>3, <1>5, <1>6, <1>7, <1>8
  <1>10. r \in Nat /\ d[x].size \in Nat /\ d[y].size \in Nat
    <2>1. (s \ {x}) \ {y} \in SUBSET S
      BY <1>4
    <2> QED
      BY <1>3, <1>4, <1>5, <2>1, FS_Subset, TotalNat
  <1> HIDE DEF r
  <1> QED
    BY <1>3, <1>5, <1>9, <1>10

(* The sum depends on the sizes of the blocks only. *)
LEMMA TotalSame ==
  ASSUME NEW d, NEW e, NEW S, IsFiniteSet(S),
         \A a \in S : e[a].size = d[a].size
  PROVE  Total(e, S) = Total(d, S)
  <1> DEFINE T == {s \in SUBSET S : Total(e, s) # Total(d, s)}
  <1>1. SUFFICES ASSUME T # {} PROVE FALSE
    BY S \in SUBSET S
  <1>2. PICK s \in T : \A t \in T : t \subseteq s => t = s
    <2>1. T \subseteq SUBSET S
      OBVIOUS
    <2> HIDE DEF T
    <2> QED
      BY <1>1, <2>1, LeastSubset
  <1>3. IsFiniteSet(s)
    BY FS_Subset
  <1>4. s # {}
    BY <1>2, <1>3, TotalSteps
  <1> DEFINE x == First(s)
             t == s \ {x}
  <1>5. /\ x \in s
        /\ Total(d, s) = d[x].size + Total(d, t)
        /\ Total(e, s) = e[x].size + Total(e, t)
    BY <1>3, <1>4, TotalSteps
  <1>6. t \in SUBSET S /\ t \subseteq s /\ t # s
    BY <1>5
  <1>7. Total(d, t) = Total(e, t)
    BY <1>2, <1>6
  <1> HIDE DEF t, x
  <1> QED
    BY <1>2, <1>5, <1>7

FreeBlocks(d) == {a \in DOMAIN d : ~d[a].used}

FreeMemory(d) == Total(d, FreeBlocks(d))

(* What totalFree has to be. *)
Counted == totalFree = FreeMemory(desc)

(* It is what CountsFree says. *)
LEMMA CountedSays == CountsFree <=> Counted
  BY DEF CountsFree, Counted, FreeMemory, FreeBlocks, Total

(* The free blocks are finitely many, with sizes that can be added. *)
LEMMA FreeBlocksAdd ==
  ASSUME NEW d, WellFormed(d)
  PROVE  /\ IsFiniteSet(DOMAIN d) /\ IsFiniteSet(FreeBlocks(d))
         /\ \A a \in DOMAIN d : d[a].size \in Nat
         /\ FreeMemory(d) \in Nat
  <1>1. IsFiniteSet(Address)
    BY HeapAssumption, FS_Interval DEF Address
  <1>2. IsFiniteSet(DOMAIN d) /\ FreeBlocks(d) \subseteq DOMAIN d
    BY <1>1, FS_Subset DEF WellFormed, FreeBlocks
  <1>3. IsFiniteSet(FreeBlocks(d))
    BY <1>2, FS_Subset
  <1>4. \A a \in DOMAIN d : d[a].size \in Nat
    BY BlockFacts
  <1> QED
    BY <1>2, <1>3, <1>4, TotalNat DEF FreeMemory

(* What is free without the free block b. *)
LEMMA FreeWithout ==
  ASSUME NEW d, NEW e, WellFormed(d), WellFormed(e), NEW b \in FreeBlocks(d),
         FreeBlocks(e) = FreeBlocks(d) \ {b},
         \A x \in FreeBlocks(e) : e[x].size = d[x].size
  PROVE  FreeMemory(d) = d[b].size + FreeMemory(e)
  <1> DEFINE F == FreeBlocks(d)
  <1>1. IsFiniteSet(F) /\ \A a \in F : d[a].size \in Nat
    BY FreeBlocksAdd DEF FreeBlocks
  <1>2. Total(d, F) = d[b].size + Total(d, F \ {b})
    BY <1>1, TotalSplit
  <1>3. Total(e, FreeBlocks(e)) = Total(d, FreeBlocks(e))
    BY FreeBlocksAdd, TotalSame
  <1> QED
    BY <1>2, <1>3 DEF FreeMemory

(* What is free with a free block n in the place of b. *)
LEMMA FreeInstead ==
  ASSUME NEW d, NEW e, WellFormed(d), WellFormed(e), NEW b \in FreeBlocks(d),
         NEW n \in FreeBlocks(e), FreeBlocks(e) \ {n} = FreeBlocks(d) \ {b},
         \A x \in FreeBlocks(d) \ {b} : e[x].size = d[x].size
  PROVE  FreeMemory(d) + e[n].size = d[b].size + FreeMemory(e)
  <1> DEFINE F == FreeBlocks(d)
             G == FreeBlocks(e)
             R == F \ {b}
  <1>1. /\ IsFiniteSet(F) /\ \A a \in F : d[a].size \in Nat
        /\ IsFiniteSet(G) /\ \A a \in G : e[a].size \in Nat
    BY FreeBlocksAdd DEF FreeBlocks
  <1>2. Total(d, F) = d[b].size + Total(d, R)
    BY <1>1, TotalSplit
  <1>3. Total(e, G) = e[n].size + Total(e, R)
    BY <1>1, TotalSplit
  <1>4. IsFiniteSet(R)
    BY <1>1, FS_Subset
  <1>5. Total(e, R) = Total(d, R)
    BY <1>4, TotalSame
  <1>6. Total(d, R) \in Nat /\ d[b].size \in Nat /\ e[n].size \in Nat
    BY <1>1, <1>4, TotalNat
  <1> QED
    BY <1>2, <1>3, <1>5, <1>6 DEF FreeMemory

(* What is free in e is what is free in d and the descriptors given back. *)
GivesBack(d, e) == FreeMemory(e) = FreeMemory(d) + Recovered(d, e)

(* Two merges give back what each of them does. *)
LEMMA GivesBackTwice ==
  ASSUME NEW d, NEW e, NEW f, WellFormed(d), WellFormed(e), WellFormed(f),
         GivesBack(d, e), GivesBack(e, f)
  PROVE  GivesBack(d, f)
  <1> DEFINE x == Cardinality(DOMAIN d)
             y == Cardinality(DOMAIN e)
             z == Cardinality(DOMAIN f)
  <1>1. x \in Nat /\ y \in Nat /\ z \in Nat /\ sizeOfDesc \in Nat
    BY FiniteList, DescPositive
  <1> HIDE DEF x, y, z
  <1>2. (x - z) * sizeOfDesc = (x - y) * sizeOfDesc + (y - z) * sizeOfDesc
    BY <1>1
  <1>3. /\ (x - z) * sizeOfDesc \in Int /\ (x - y) * sizeOfDesc \in Int
        /\ (y - z) * sizeOfDesc \in Int
    BY <1>1
  <1>4. FreeMemory(d) \in Nat
    BY FreeBlocksAdd
  <1>5. /\ FreeMemory(e) = FreeMemory(d) + (x - y) * sizeOfDesc
        /\ FreeMemory(f) = FreeMemory(e) + (y - z) * sizeOfDesc
    BY DEF GivesBack, Recovered, x, y, z
  <1>6. FreeMemory(f) = FreeMemory(d) + (x - z) * sizeOfDesc
    BY <1>2, <1>3, <1>4, <1>5
  <1> QED
    BY <1>6 DEF GivesBack, Recovered, x, z

(* Where nothing is merged, nothing is given back. *)
LEMMA GivesNothingBack ==
  ASSUME NEW d, WellFormed(d)
  PROVE  GivesBack(d, d)
  <1>1. Cardinality(DOMAIN d) \in Nat /\ sizeOfDesc \in Nat
    BY FiniteList, DescPositive
  <1>2. Recovered(d, d) = 0
    BY <1>1 DEF Recovered
  <1>3. FreeMemory(d) \in Nat
    BY FreeBlocksAdd
  <1> QED
    BY <1>2, <1>3 DEF GivesBack

(* AbsorbShape, with a name for the list it is about. *)
LEMMA AbsorbFacts ==
  ASSUME NEW d, WellFormed(d), NEW a \in DOMAIN d, NEW c \in DOMAIN d,
         d[a].next = c, NEW e, e = Absorb(d, a, c)
  PROVE  /\ WellFormed(e) /\ a # c /\ DOMAIN e = DOMAIN d \ {c}
         /\ e[a].used = d[a].used /\ e[a].next = d[c].next
         /\ \A x \in DOMAIN d \ {a, c} : /\ e[x].used = d[x].used
                                         /\ e[x].size = d[x].size
  BY AbsorbShape

(* Merging two free blocks makes the memory of one descriptor free. *)
LEMMA AbsorbGivesBack ==
  ASSUME NEW d, WellFormed(d), NEW a \in DOMAIN d, NEW c \in DOMAIN d,
         d[a].next = c, ~d[a].used, ~d[c].used
  PROVE  GivesBack(d, Absorb(d, a, c))
  <1> DEFINE e == Absorb(d, a, c)
  <1>0. e = Absorb(d, a, c)
    OBVIOUS
  <1> HIDE DEF e
  <1>1. /\ WellFormed(e) /\ a # c /\ DOMAIN e = DOMAIN d \ {c}
        /\ e[a].used = d[a].used /\ e[a].next = d[c].next
        /\ \A x \in DOMAIN d \ {a, c} : /\ e[x].used = d[x].used
                                        /\ e[x].size = d[x].size
    BY <1>0, AbsorbFacts
  <1> DEFINE F == FreeBlocks(d)
             G == FreeBlocks(e)
             R == G \ {a}
  <1>2. /\ a \in F /\ c \in F /\ a \in G /\ G = F \ {c}
        /\ \A x \in R : e[x].size = d[x].size
    BY <1>1 DEF FreeBlocks
  <1>3. /\ IsFiniteSet(F) /\ \A x \in F : d[x].size \in Nat
        /\ IsFiniteSet(G) /\ \A x \in G : e[x].size \in Nat
    BY <1>1, FreeBlocksAdd DEF FreeBlocks
  <1>4. IsFiniteSet(DOMAIN d)
    BY FreeBlocksAdd
  <1>5. IsFiniteSet(R)
    BY <1>3, FS_Subset
  <1> HIDE DEF F, G
  <1>6. Total(d, F) = d[c].size + Total(d, G)
    BY <1>2, <1>3, TotalSplit
  <1>7. Total(d, G) = d[a].size + Total(d, R)
    BY <1>2, <1>3, TotalSplit
  <1>8. Total(e, G) = e[a].size + Total(e, R)
    BY <1>2, <1>3, TotalSplit
  <1>9. Total(e, R) = Total(d, R)
    BY <1>2, <1>5, TotalSame
  <1>10. Total(d, R) \in Nat /\ d[a].size \in Nat /\ d[c].size \in Nat
    BY <1>2, <1>3, <1>5, TotalNat
  <1>11. e[a].size = d[a].size + d[c].size + sizeOfDesc
    <2>1. After(e, a) = After(d, c)
      BY <1>1, BlockFacts
    <2>2. After(d, a) = c /\ a \in Nat /\ c \in Nat
      BY BlockFacts
    <2>3. e[a].size \in Nat /\ sizeOfDesc \in Nat
      BY <1>2, <1>3, DescPositive
    <2> QED
      BY <1>10, <2>1, <2>2, <2>3 DEF After
  <1>12. Recovered(d, e) = sizeOfDesc
    <2> DEFINE x == Cardinality(DOMAIN d)
               y == Cardinality(DOMAIN e)
    <2>1. x \in Nat /\ y = x - 1 /\ sizeOfDesc \in Nat
      BY <1>1, <1>4, FS_RemoveElement, FiniteList, DescPositive
    <2> HIDE DEF x, y
    <2>2. x - y = 1
      BY <2>1
    <2>3. 1 * sizeOfDesc = sizeOfDesc
      BY <2>1
    <2> QED
      BY <2>2, <2>3 DEF Recovered, x, y
  <1>13. sizeOfDesc \in Nat
    BY DescPositive
  <1>14. Total(e, G) = Total(d, F) + sizeOfDesc
    BY <1>6, <1>7, <1>8, <1>9, <1>10, <1>11, <1>13
  <1>15. FreeMemory(e) = FreeMemory(d) + sizeOfDesc
    BY <1>14 DEF FreeMemory, F, G
  <1>16. GivesBack(d, e)
    BY <1>12, <1>15 DEF GivesBack
  <1> QED
    BY <1>0, <1>16

(* mem_free's two merges, and the block it frees. *)
LEMMA FreeGivesBack ==
  ASSUME WellFormed(desc), NEW a \in DOMAIN desc, desc[a].used
  PROVE  LET r == [desc EXCEPT ![a].used = FALSE]
             e == MergeForward(MergeBack(r, a), MergeTarget(r, a))
         IN  FreeMemory(e) = FreeMemory(desc) + desc[a].size + Recovered(r, e)
  <1> DEFINE r == [desc EXCEPT ![a].used = FALSE]
             p == r[a].prev
             d == MergeBack(r, a)
             t == MergeTarget(r, a)
             n == d[t].next
             e == MergeForward(d, t)
  <1>1. /\ WellFormed(r) /\ DOMAIN r = DOMAIN desc /\ ~r[a].used
        /\ \A x \in DOMAIN desc : /\ r[x].size = desc[x].size
                                 /\ r[x].used = (x # a /\ desc[x].used)
    <2> HIDE DEF r
    <2>1. /\ WellFormed(r) /\ DOMAIN r = DOMAIN desc
          /\ \A x \in DOMAIN desc : /\ r[x].size = desc[x].size
                                   /\ r[x].used = (x # a /\ desc[x].used)
      BY ReleaseShape DEF r
    <2> QED
      BY <2>1
  <1> HIDE DEF r
  <1>2. FreeMemory(r) = desc[a].size + FreeMemory(desc)
    <2>1. a \in FreeBlocks(r) /\ FreeBlocks(desc) = FreeBlocks(r) \ {a}
      BY <1>1 DEF FreeBlocks
    <2>2. \A x \in FreeBlocks(desc) : desc[x].size = r[x].size
      BY <1>1 DEF FreeBlocks
    <2>3. FreeMemory(r) = r[a].size + FreeMemory(desc)
      BY <1>1, <2>1, <2>2, FreeWithout
    <2> QED
      BY <1>1, <2>3
  <1>3. /\ WellFormed(d) /\ t \in DOMAIN d /\ ~d[t].used
        /\ GivesBack(r, d)
    <2>1. CASE IsFree(r, p)
      <3>1. /\ d = Absorb(r, p, a) /\ t = p
        BY <2>1 DEF MergeBack, MergeTarget
      <3>2. p # Null /\ ~r[p].used
        BY <2>1 DEF IsFree
      <3>3. p \in DOMAIN r /\ r[p].next = a
        BY <1>1, <3>2, BlockFacts
      <3> HIDE DEF p, d, t
      <3>4. a \in DOMAIN r /\ WellFormed(r) /\ ~r[a].used
        BY <1>1
      <3>5. GivesBack(r, Absorb(r, p, a))
        BY <3>2, <3>3, <3>4, AbsorbGivesBack
      <3>6. WellFormed(d) /\ p \in DOMAIN d /\ ~d[p].used
        <4>1. /\ WellFormed(d) /\ p # a /\ DOMAIN d = DOMAIN r \ {a}
              /\ d[p].used = r[p].used
          <5>1. d = Absorb(r, p, a)
            BY <3>1
          <5> QED
            BY <5>1, <3>3, <3>4, AbsorbFacts
        <4> QED
          BY <4>1, <3>2, <3>3
      <3> QED
        BY <3>1, <3>5, <3>6
    <2>2. CASE ~IsFree(r, p)
      <3>1. d = r /\ t = a
        BY <2>2 DEF MergeBack, MergeTarget
      <3> QED
        BY <1>1, <3>1, GivesNothingBack
    <2> QED
      BY <2>1, <2>2
  <1> HIDE DEF d, t
  <1>4. WellFormed(e) /\ GivesBack(d, e)
    <2>1. CASE IsFree(d, n)
      <3>1. e = Absorb(d, t, n)
        BY <2>1 DEF MergeForward
      <3>2. n \in DOMAIN d /\ ~d[n].used
        BY <1>3, <2>1, BlockFacts DEF IsFree
      <3> HIDE DEF e
      <3>3. d[t].next = n
        OBVIOUS
      <3> HIDE DEF n
      <3>4. GivesBack(d, Absorb(d, t, n))
        BY <1>3, <3>2, <3>3, AbsorbGivesBack
      <3>5. WellFormed(Absorb(d, t, n))
        BY <1>3, <3>2, <3>3, AbsorbShape
      <3> QED
        BY <3>1, <3>4, <3>5
    <2>2. CASE ~IsFree(d, n)
      <3>1. e = d
        BY <2>2 DEF MergeForward
      <3> QED
        BY <1>3, <3>1, GivesNothingBack
    <2> QED
      BY <2>1, <2>2
  <1> HIDE DEF e
  <1>5. GivesBack(r, e)
    BY <1>1, <1>3, <1>4, GivesBackTwice
  <1>6. FreeMemory(e) = FreeMemory(desc) + desc[a].size + Recovered(r, e)
    <2>1. FreeMemory(desc) \in Nat /\ desc[a].size \in Nat
      BY FreeBlocksAdd
    <2> QED
      BY <1>2, <1>5, <2>1 DEF GivesBack
  <1> QED
    BY <1>6 DEF r, d, t, e

(* The counter is right after a split. *)
LEMMA SplitCounted ==
  ASSUME HeapInv, Counted, NEW bytes \in Requests, AllocSplit(bytes)
  PROVE  Counted'
  <1> DEFINE want == allocateSize(bytes)
  <1>1. PICK b \in DOMAIN desc :
           /\ Fits(b, want) /\ WorthSplitting(b, want)
           /\ desc' = Split(b, want)
           /\ totalFree' = totalFree - sizeOfDesc - desc'[b].size
    BY DEF AllocSplit, BestFit
  <1>2. want \in Nat /\ sizeOfDesc \in Nat
    BY SizeNat, DescPositive
  <1> HIDE DEF want
  <1> DEFINE n == b + sizeOfDesc + want
  <1>3. WellFormed(desc) /\ ~desc[b].used
    BY <1>1 DEF HeapInv, Fits
  <1>4. WellFormed(desc') /\ Halved(desc, desc', b, n, want)
    BY <1>1, <1>2, <1>3, SplitShape
  <1>5. n \in Nat /\ n = b + sizeOfDesc + want /\ b \in Nat
    BY <1>2, <1>3, BlockFacts
  <1> HIDE DEF n
  <1>6. /\ b \in FreeBlocks(desc) /\ n \in FreeBlocks(desc')
        /\ FreeBlocks(desc') \ {n} = FreeBlocks(desc) \ {b}
        /\ \A x \in FreeBlocks(desc) \ {b} : desc'[x].size = desc[x].size
    BY <1>3, <1>4 DEF FreeBlocks, Halved
  <1>7. FreeMemory(desc) + desc'[n].size = desc[b].size + FreeMemory(desc')
    BY <1>3, <1>4, <1>6, FreeInstead
  <1>8. desc'[n].size + sizeOfDesc + want = desc[b].size
    <2>1. n \in DOMAIN desc' /\ desc'[n].next = desc[b].next
      BY <1>4 DEF Halved
    <2>2. After(desc', n) = After(desc, b)
      BY <1>3, <1>4, <2>1, BlockFacts
    <2>3. desc'[n].size \in Nat /\ desc[b].size \in Nat
      BY <1>3, <1>4, <2>1, BlockFacts
    <2> QED
      BY <1>2, <1>5, <2>2, <2>3 DEF After
  <1>9. desc'[b].size = want
    BY <1>4 DEF Halved
  <1>10. /\ FreeMemory(desc) \in Nat /\ FreeMemory(desc') \in Nat
         /\ desc'[n].size \in Nat /\ desc[b].size \in Nat
    BY <1>3, <1>4, <1>6, FreeBlocksAdd, BlockFacts DEF FreeBlocks
  <1>11. totalFree = FreeMemory(desc)
    BY DEF Counted
  <1>12. totalFree' = FreeMemory(desc')
    BY <1>1, <1>2, <1>7, <1>8, <1>9, <1>10, <1>11
  <1> QED
    BY <1>12 DEF Counted

(* The same for a block handed out whole. *)
LEMMA WholeCounted ==
  ASSUME HeapInv, HeapInv', Counted, NEW bytes \in Requests,
         AllocWhole(bytes)
  PROVE  Counted'
  <1> DEFINE want == allocateSize(bytes)
  <1>1. PICK b \in DOMAIN desc :
           /\ Fits(b, want)
           /\ desc' = [desc EXCEPT ![b].used = TRUE]
           /\ totalFree' = totalFree - desc[b].size
    BY DEF AllocWhole, BestFit
  <1>2. WellFormed(desc) /\ WellFormed(desc') /\ ~desc[b].used
    BY <1>1 DEF HeapInv, Fits
  <1>3. desc \in [DOMAIN desc -> FreeMemDesc]
    BY <1>2 DEF WellFormed
  <1>4. /\ DOMAIN desc' = DOMAIN desc
        /\ \A x \in DOMAIN desc : /\ desc'[x].size = desc[x].size
                                 /\ desc'[x].used = (x = b \/ desc[x].used)
    BY <1>1, <1>3 DEF FreeMemDesc
  <1>5. /\ b \in FreeBlocks(desc) /\ FreeBlocks(desc') = FreeBlocks(desc) \ {b}
        /\ \A x \in FreeBlocks(desc') : desc'[x].size = desc[x].size
    BY <1>2, <1>4 DEF FreeBlocks
  <1>6. FreeMemory(desc) = desc[b].size + FreeMemory(desc')
    BY <1>2, <1>5, FreeWithout
  <1>7. FreeMemory(desc') \in Nat /\ desc[b].size \in Nat
    BY <1>2, FreeBlocksAdd
  <1>8. totalFree = FreeMemory(desc)
    BY DEF Counted
  <1>9. totalFree' = FreeMemory(desc')
    BY <1>1, <1>6, <1>7, <1>8
  <1> QED
    BY <1>9 DEF Counted

(* The same for a block taken back, with the descriptors of its merges. *)
LEMMA FreeCounted ==
  ASSUME HeapInv, Counted, NEW p, MemFree(p)
  PROVE  Counted'
  <1> DEFINE released(a) == [desc EXCEPT ![a].used = FALSE]
  <1>1. PICK a \in DOMAIN desc :
           /\ Allocated(p, a)
           /\ desc' = MergeForward(MergeBack(released(a), a),
                                   MergeTarget(released(a), a))
           /\ totalFree' = totalFree + desc[a].size
                             + Recovered(released(a), desc')
    BY DEF MemFree
  <1>2. WellFormed(desc) /\ desc[a].used
    BY <1>1 DEF Allocated, HeapInv
  <1>3. FreeMemory(desc') = FreeMemory(desc) + desc[a].size
                              + Recovered(released(a), desc')
    BY <1>1, <1>2, FreeGivesBack
  <1>4. totalFree = FreeMemory(desc)
    BY DEF Counted
  <1>5. totalFree' = FreeMemory(desc')
    BY <1>1, <1>3, <1>4
  <1> QED
    BY <1>5 DEF Counted

(* totalFree after initFreeHead. *)
LEMMA InitCounted == Init => Counted
  <1> SUFFICES ASSUME Init PROVE Counted
    OBVIOUS
  <1>1. /\ FreeBlocks(desc) = {HeapStart}
        /\ desc[HeapStart].size = HeapEnd - HeapStart - sizeOfDesc
        /\ totalFree = HeapEnd - HeapStart - sizeOfDesc
    BY DEF Init, FreeBlocks
  <1>2. WellFormed(desc)
    BY InitHeap DEF HeapInv
  <1>3. IsFiniteSet({HeapStart}) /\ desc[HeapStart].size \in Nat
    BY <1>1, <1>2, FreeBlocksAdd DEF FreeBlocks
  <1>4. Total(desc, {}) = 0
    BY FS_EmptySet, TotalSteps
  <1>5. Total(desc, {HeapStart} \ {HeapStart}) = 0
    <2>1. {HeapStart} \ {HeapStart} = {}
      OBVIOUS
    <2> QED
      BY <1>4, <2>1
  <1>6. Total(desc, {HeapStart})
          = desc[HeapStart].size + Total(desc, {HeapStart} \ {HeapStart})
    BY <1>3, TotalSplit
  <1>7. FreeMemory(desc) = desc[HeapStart].size
    <2>1. Total(desc, {HeapStart}) = desc[HeapStart].size
      BY <1>3, <1>5, <1>6
    <2> QED
      BY <1>1, <2>1 DEF FreeMemory
  <1> QED
    BY <1>1, <1>7 DEF Counted

(* Every call leaves totalFree at the memory of the free blocks. *)
LEMMA CountedStep ==
  ASSUME HeapInv, Counted, [Next]_vars
  PROVE  Counted'
  <1>1. HeapInv'
    BY HeapStep
  <1>2. CASE UNCHANGED vars
    <2>1. desc' = desc /\ totalFree' = totalFree
      BY <1>2 DEF vars
    <2> QED
      BY <2>1 DEF Counted
  <1>3. CASE Next
    <2>1. ASSUME NEW bytes \in Requests, AllocSplit(bytes) PROVE Counted'
      BY <2>1, SplitCounted
    <2>2. ASSUME NEW bytes \in Requests, AllocWhole(bytes) PROVE Counted'
      BY <2>2, <1>1, WholeCounted
    <2>3. ASSUME NEW bytes \in Requests, AllocRefused(bytes) PROVE Counted'
      BY <2>3, <1>2 DEF AllocRefused
    <2>4. ASSUME NEW p, MemFree(p) PROVE Counted'
      BY <2>4, FreeCounted
    <2>5. ASSUME NEW p, FreeRefused(p) PROVE Counted'
      BY <2>5, <1>2 DEF FreeRefused
    <2> QED
      BY <1>3, <2>1, <2>2, <2>3, <2>4, <2>5 DEF Next
  <1> QED
    BY <1>2, <1>3

(* The inductive invariant with the counter. *)
LEMMA CountInvariant == Spec => [](HeapInv /\ Counted)
  <1>1. Init => HeapInv /\ Counted
    BY InitHeap, InitCounted
  <1>2. HeapInv /\ Counted /\ [Next]_vars => HeapInv' /\ Counted'
    BY HeapStep, CountedStep
  <1> QED
    BY <1>1, <1>2, PTL DEF Spec

(* The counter that mem_alloc tests before it walks the list is right: no  *)
(* split and no merge, backwards, forwards or both, loses or invents the   *)
(* memory of a descriptor. *)
THEOREM FreeAlwaysCounted == Spec => []CountsFree
  <1>1. Counted => CountsFree
    BY CountedSays
  <1> QED
    BY <1>1, CountInvariant, PTL

-----------------------------------------------------------------------------
(* How far a walk gets *)

(* A set of naturals that is not empty has a least element. *)
LEMMA Least ==
  ASSUME NEW S \in SUBSET Nat, S # {}
  PROVE  \E x \in S : \A y \in S : x <= y
  <1> DEFINE R == OpToRel(<, Nat)
  <1>1. IsWellFoundedOn(R, Nat)
    BY NatLessThanWellFounded
  <1>2. \A x, y \in Nat : <<y, x>> \in R <=> y < x
    BY DEF OpToRel
  <1> HIDE DEF R
  <1>3. PICK x \in S : \A y \in S : ~(<<y, x>> \in R)
    BY <1>1, WFMin
  <1>4. \A y \in S : x <= y
    <2> SUFFICES ASSUME NEW y \in S PROVE x <= y
      OBVIOUS
    <2>1. x \in Nat /\ y \in Nat /\ ~(y < x)
      BY <1>2, <1>3
    <2> QED
      BY <2>1
  <1> QED
    BY <1>4

(* So a set that has 0, and the successors of what it has, has them all. *)
LEMMA SetInduction ==
  ASSUME NEW S, 0 \in S, \A n \in Nat : n \in S => n + 1 \in S
  PROVE  \A n \in Nat : n \in S
  <1> DEFINE T == {n \in Nat : n \notin S}
  <1>1. SUFFICES ASSUME T # {} PROVE FALSE
    OBVIOUS
  <1>2. T \in SUBSET Nat
    OBVIOUS
  <1>3. PICK n \in T : \A m \in T : n <= m
    <2> HIDE DEF T
    <2> QED
      BY <1>1, <1>2, Least
  <1>4. n \in Nat /\ n # 0 /\ n \notin S
    BY <1>3
  <1>5. n - 1 \in Nat /\ n - 1 \notin T /\ n - 1 + 1 = n
    BY <1>3, <1>4
  <1> QED
    BY <1>4, <1>5

(* f is a walk along d from head. *)
IsWalk(d, f) ==
  f = [n \in Nat |->
         IF n = 0 THEN HeapStart
         ELSE LET before == f[n - 1]
              IN  IF before \in DOMAIN d THEN d[before].next ELSE Null]

(* Node is one. *)
LEMMA NodeIs == Node = CHOOSE f : IsWalk(desc, f)
  BY DEF Node, IsWalk

(* The number of descriptors below a, and the descriptor above n of them. *)
Below(d, a) == {x \in DOMAIN d : x < a}
Rank(d, a) == Cardinality(Below(d, a))
Ranked(d, n) == IF \E a \in DOMAIN d : Rank(d, a) = n
                THEN CHOOSE a \in DOMAIN d : Rank(d, a) = n ELSE Null

(* Descriptors have different ranks, 0 for head and one more for the next. *)
LEMMA Ranks ==
  ASSUME NEW d, WellFormed(d)
  PROVE  /\ \A a \in DOMAIN d : /\ Rank(d, a) \in Nat
                               /\ Rank(d, a) < Cardinality(DOMAIN d)
         /\ \A a, b \in DOMAIN d : a < b => Rank(d, a) < Rank(d, b)
         /\ Rank(d, HeapStart) = 0
         /\ \A a \in DOMAIN d :
              /\ d[a].next # Null => Rank(d, d[a].next) = Rank(d, a) + 1
              /\ d[a].next = Null => Cardinality(DOMAIN d) = Rank(d, a) + 1
  <1>1. IsFiniteSet(DOMAIN d)
    BY FreeBlocksAdd
  <1>2. ASSUME NEW a \in DOMAIN d
        PROVE  /\ IsFiniteSet(Below(d, a)) /\ Below(d, a) \subseteq DOMAIN d
               /\ a \notin Below(d, a) /\ a \in Nat
    BY <1>1, FS_Subset, BlockFacts DEF Below
  <1>3. ASSUME NEW a \in DOMAIN d
        PROVE  Rank(d, a) \in Nat /\ Rank(d, a) < Cardinality(DOMAIN d)
    <2>1. Below(d, a) # DOMAIN d
      BY <1>2
    <2> QED
      BY <1>1, <1>2, <2>1, FS_Subset, FS_CardinalityType DEF Rank
  <1>4. ASSUME NEW a \in DOMAIN d, NEW b \in DOMAIN d, a < b
        PROVE  Rank(d, a) < Rank(d, b)
    <2>1. \A x \in DOMAIN d : x \in Nat
      BY BlockFacts
    <2>2. Below(d, a) \subseteq Below(d, b) /\ a \in Below(d, b)
      BY <1>4, <2>1 DEF Below
    <2>3. Below(d, a) # Below(d, b)
      BY <1>2, <2>2
    <2> QED
      BY <1>2, <2>2, <2>3, FS_Subset, FS_CardinalityType DEF Rank
  <1>5. Rank(d, HeapStart) = 0
    <2>1. Below(d, HeapStart) = {}
      BY BlockFacts, HeapAssumption DEF Below
    <2> QED
      BY <2>1, FS_EmptySet DEF Rank
  <1>6. ASSUME NEW a \in DOMAIN d
        PROVE  /\ d[a].next # Null => Rank(d, d[a].next) = Rank(d, a) + 1
               /\ d[a].next = Null => Cardinality(DOMAIN d) = Rank(d, a) + 1
    <2>1. \A x \in DOMAIN d : a < x => After(d, a) <= x
      BY DEF WellFormed
    <2>2. /\ a \in Nat /\ After(d, a) \in Nat /\ After(d, a) > a
          /\ After(d, a) = IF d[a].next = Null THEN HeapEnd ELSE d[a].next
          /\ HeapEnd \in Nat /\ \A x \in DOMAIN d : x \in Nat /\ x < HeapEnd
      BY BlockFacts, HeapAssumption
    <2>3. Cardinality(Below(d, a) \cup {a}) = Rank(d, a) + 1
      BY <1>2, FS_AddElement DEF Rank
    <2>4. CASE d[a].next # Null
      <3>1. Below(d, d[a].next) = Below(d, a) \cup {a}
        BY <2>1, <2>2, <2>4 DEF Below
      <3> QED
        BY <2>3, <2>4, <3>1 DEF Rank
    <2>5. CASE d[a].next = Null
      <3>1. DOMAIN d = Below(d, a) \cup {a}
        BY <2>1, <2>2, <2>5 DEF Below
      <3> QED
        BY <2>3, <2>5, <3>1
    <2> QED
      BY <2>4, <2>5
  <1> QED
    BY <1>3, <1>4, <1>5, <1>6

(* The descriptor of a rank is the only one, and Null if there is none. *)
LEMMA RankedIs ==
  ASSUME NEW d, WellFormed(d)
  PROVE  /\ \A a \in DOMAIN d : Ranked(d, Rank(d, a)) = a
         /\ \A n \in Nat : (\A a \in DOMAIN d : Rank(d, a) # n)
                            => Ranked(d, n) = Null
  <1>1. ASSUME NEW a \in DOMAIN d, NEW b \in DOMAIN d, Rank(d, a) = Rank(d, b)
        PROVE  a = b
    <2>1. a \in Nat /\ b \in Nat
      BY BlockFacts
    <2>2. ~(a < b) /\ ~(b < a)
      BY <1>1, Ranks
    <2> QED
      BY <2>1, <2>2
  <1> QED
    BY <1>1 DEF Ranked

(* Going through the ranks is a walk along the list. *)
LEMMA RanksAreAWalk ==
  ASSUME NEW d, WellFormed(d)
  PROVE  IsWalk(d, [n \in Nat |-> Ranked(d, n)])
  <1> DEFINE f == [n \in Nat |-> Ranked(d, n)]
             Step(n) == IF f[n] \in DOMAIN d THEN d[f[n]].next ELSE Null
  <1>1. f[0] = HeapStart
    BY Ranks, RankedIs DEF WellFormed
  <1>2. ASSUME NEW n \in Nat PROVE f[n + 1] = Step(n)
    <2>1. CASE \E a \in DOMAIN d : Rank(d, a) = n
      <3>1. PICK a \in DOMAIN d : Rank(d, a) = n
        BY <2>1
      <3>2. f[n] = a
        BY <3>1, RankedIs
      <3>3. CASE d[a].next # Null
        <4>1. d[a].next \in DOMAIN d /\ Rank(d, d[a].next) = n + 1
          BY <3>1, <3>3, BlockFacts, Ranks
        <4>2. f[n + 1] = d[a].next
          BY <4>1, RankedIs
        <4> QED
          BY <3>2, <4>2
      <3>4. CASE d[a].next = Null
        <4>1. Cardinality(DOMAIN d) = n + 1
          BY <3>1, <3>4, Ranks
        <4>2. \A b \in DOMAIN d : Rank(d, b) # n + 1
          BY <4>1, Ranks
        <4>3. f[n + 1] = Null
          BY <4>2, RankedIs
        <4> QED
          BY <3>2, <3>4, <4>3
      <3> QED
        BY <3>3, <3>4
    <2>2. CASE ~\E a \in DOMAIN d : Rank(d, a) = n
      <3>1. f[n] = Null
        BY <2>2, RankedIs
      <3>2. Null \notin DOMAIN d
        BY BlockFacts
      <3>3. ASSUME NEW b \in DOMAIN d, Rank(d, b) = n + 1 PROVE FALSE
        <4>1. b # HeapStart
          BY <3>3, Ranks
        <4>2. d[b].prev \in DOMAIN d /\ d[d[b].prev].next = b
          BY <4>1 DEF WellFormed, LinkedBack
        <4>3. b # Null
          BY BlockFacts
        <4>4. Rank(d, b) = Rank(d, d[b].prev) + 1
          BY <4>2, <4>3, Ranks
        <4>5. Rank(d, d[b].prev) \in Nat
          BY <4>2, Ranks
        <4> QED
          BY <2>2, <3>3, <4>2, <4>4, <4>5
      <3>4. f[n + 1] = Null
        BY <3>3, RankedIs
      <3> QED
        BY <3>1, <3>2, <3>4
    <2> QED
      BY <2>1, <2>2
  <1> DEFINE g == [n \in Nat |->
                    IF n = 0 THEN HeapStart
                    ELSE LET before == f[n - 1]
                         IN  IF before \in DOMAIN d THEN d[before].next ELSE Null]
  <1>3. ASSUME NEW n \in Nat PROVE f[n] = g[n]
    <2>1. CASE n = 0
      BY <1>1, <2>1
    <2>2. CASE n # 0
      <3>1. n - 1 \in Nat /\ n - 1 + 1 = n
        BY <2>2
      <3>2. f[n] = Step(n - 1)
        BY <1>2, <3>1
      <3> QED
        BY <2>2, <3>2
    <2> QED
      BY <2>1, <2>2
  <1>4. DOMAIN f = Nat /\ f = [n \in Nat |-> f[n]] /\ g = [n \in Nat |-> g[n]]
    OBVIOUS
  <1>5. f = g
    <2> HIDE DEF f, g
    <2> QED
      BY <1>3, <1>4
  <1> QED
    BY <1>5 DEF IsWalk

(* There is only one walk. *)
LEMMA OneWalk ==
  ASSUME NEW d, NEW f, NEW g, IsWalk(d, f), IsWalk(d, g)
  PROVE  \A n \in Nat : f[n] = g[n]
  <1> DEFINE S == {n \in Nat : f[n] = g[n]}
  <1>1. 0 \in S
    BY DEF IsWalk
  <1>2. ASSUME NEW n \in Nat, n \in S PROVE n + 1 \in S
    <2>1. n + 1 \in Nat /\ n + 1 # 0 /\ n + 1 - 1 = n
      OBVIOUS
    <2>2. ASSUME NEW h, IsWalk(d, h)
          PROVE  h[n + 1] = IF h[n] \in DOMAIN d THEN d[h[n]].next ELSE Null
      BY <2>1, <2>2 DEF IsWalk
    <2> QED
      BY <1>2, <2>2
  <1> HIDE DEF S
  <1>3. \A n \in Nat : n \in S
    BY <1>1, <1>2, SetInduction
  <1> QED
    BY <1>3 DEF S

(* A walk from head comes to every descriptor, before it has made as many  *)
(* steps as there are descriptors. *)
LEMMA WalkReachesAll ==
  ASSUME WellFormed(desc)
  PROVE  \A a \in DOMAIN desc : InList(a)
  <1> DEFINE f == [n \in Nat |-> Ranked(desc, n)]
  <1>1. IsWalk(desc, f)
    BY RanksAreAWalk
  <1>2. IsWalk(desc, Node)
    <2> HIDE DEF f
    <2> QED
      BY <1>1, NodeIs
  <1>3. \A n \in Nat : Node[n] = f[n]
    <2> HIDE DEF f
    <2> QED
      BY <1>1, <1>2, OneWalk
  <1> SUFFICES ASSUME NEW a \in DOMAIN desc PROVE InList(a)
    OBVIOUS
  <1> DEFINE n == Rank(desc, a)
  <1>4. n \in Nat /\ n < Cardinality(DOMAIN desc)
    BY Ranks
  <1>5. Node[n] = a
    BY <1>3, <1>4, RankedIs
  <1>6. Cardinality(DOMAIN desc) \in Nat
    BY FiniteList
  <1> HIDE DEF n
  <1>7. n \in Walk
    BY <1>4, <1>5, <1>6 DEF Walk
  <1> QED
    BY <1>5, <1>7 DEF InList

(* Conversion to int keeps what fits in an int. *)
LEMMA AsIntKeeps ==
  ASSUME NEW n \in Nat, n < IntModulus \div 2
  PROVE  AsInt(n) = n
  <1>1. IntModulus \in Nat \ {0}
    BY HeapAssumption
  <1>2. n < IntModulus /\ n % IntModulus = n
    BY <1>1
  <1> QED
    BY <1>2 DEF AsInt

(* No block that is free is larger than all that is free. *)
LEMMA FreeAtLeast ==
  ASSUME NEW d, WellFormed(d), NEW a \in FreeBlocks(d)
  PROVE  d[a].size <= FreeMemory(d)
  <1> DEFINE F == FreeBlocks(d)
  <1>1. IsFiniteSet(F) /\ \A x \in F : d[x].size \in Nat
    BY FreeBlocksAdd DEF FreeBlocks
  <1>2. Total(d, F) = d[a].size + Total(d, F \ {a})
    BY <1>1, TotalSplit
  <1>3. IsFiniteSet(F \ {a})
    BY <1>1, FS_Subset
  <1>4. Total(d, F \ {a}) \in Nat
    BY <1>1, <1>3, TotalNat
  <1> QED
    BY <1>1, <1>2, <1>4 DEF FreeMemory

(* What is refused is larger than every free block. *)
LEMMA RefusedIsLarger ==
  ASSUME HeapInv, Counted, NEW bytes \in Requests \ {0}, Refused(bytes),
         NEW a \in FreeBlocks(desc)
  PROVE  desc[a].size < allocateSize(bytes)
  <1> DEFINE size == allocateSize(bytes)
  <1>1. bytes \in Nat /\ bytes > 0
    BY HeapAssumption
  <1>2. size \in Nat /\ size > 0
    BY <1>1, SizeNat, EnoughBytes
  <1>3. WellFormed(desc) /\ a \in DOMAIN desc /\ ~desc[a].used
    BY DEF HeapInv, FreeBlocks
  <1>4. desc[a].size \in Nat
    BY <1>3, BlockFacts
  <1>5. CASE ~Admitted(bytes)
    <2>1. totalFree < AsInt(size)
      <3>1. AsInt(size) \in Int
        BY <1>2, HeapAssumption DEF AsInt
      <3>2. totalFree \in Int
        BY DEF HeapInv
      <3>3. ~(totalFree >= AsInt(size))
        BY <1>2, <1>5 DEF Admitted
      <3> QED
        BY <3>1, <3>2, <3>3
    <2>2. desc[a].size <= totalFree /\ totalFree \in Nat
      BY <1>3, FreeAtLeast, FreeBlocksAdd DEF Counted
    <2>3. desc[a].size < IntModulus \div 2
      <3>1. After(desc, a) <= HeapEnd /\ a \in Nat
        BY <1>3, BlockFacts
      <3>2. /\ HeapEnd \in Nat /\ HeapEnd < IntModulus \div 2
            /\ IntModulus \div 2 \in Nat /\ sizeOfDesc \in Nat
        BY HeapAssumption, DescPositive
      <3> QED
        BY <1>4, <3>1, <3>2 DEF After
    <2>4. IntModulus \div 2 \in Nat
      BY HeapAssumption
    <2> HIDE DEF size
    <2>5. ASSUME size <= desc[a].size PROVE FALSE
      <3>1. size < IntModulus \div 2
        BY <1>2, <1>4, <2>3, <2>4, <2>5
      <3>2. AsInt(size) = size
        BY <1>2, <3>1, AsIntKeeps
      <3> QED
        BY <1>2, <1>4, <2>1, <2>2, <2>5, <3>2
    <2> QED
      BY <1>2, <1>4, <2>5 DEF size
  <1>6. CASE ~\E n \in Walk : Fits(Node[n], size)
    <2>1. PICK n \in Walk : Node[n] = a
      BY <1>3, WalkReachesAll DEF InList
    <2>2. ~Fits(a, size)
      BY <1>6, <2>1
    <2> QED
      BY <1>2, <1>3, <1>4, <2>2 DEF Fits
  <1> QED
    BY <1>5, <1>6 DEF Refused

(* Neither the test of totalFree, converted to int, nor the walk for the   *)
(* best fit passes over a block that is large enough. *)
THEOREM NeverRefusedEarly == Spec => []RefusedOnlyWhenFull
  <1>1. HeapInv /\ Counted => RefusedOnlyWhenFull
    BY RefusedIsLarger DEF RefusedOnlyWhenFull, FreeBlocks
  <1> QED
    BY <1>1, CountInvariant, PTL

=============================================================================
