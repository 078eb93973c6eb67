-------------------------- MODULE InterruptedProofs --------------------------
(***************************************************************************)
(* Proofs about the two places where code that shares data with others     *)
(* runs in a thread, with interrupts between any two of its steps: the put *)
(* of PCB::run, for any threads and any number of nodes, and the lock of   *)
(* printing.cpp, for any number of threads.                                *)
(*                                                                         *)
(* ListInv, the inductive invariant of ReadyList, gives the nodes c from   *)
(* head on as a sequence, and says that they hold the threads of queue.    *)
(* In the middle of a put, list is not the list of those nodes but what    *)
(* the steps of the put have made of it.  It holds until a handler hits a  *)
(* put where that does damage, which raced records; all other handlers may *)
(* come at any moment.  That a chain of links is walked to its end needs   *)
(* induction: a claim that fails somewhere fails at a least number, which  *)
(* Least gives.                                                            *)
(***************************************************************************)
EXTENDS ReadyListProperties, PrintLockProperties, FiniteSetTheorems,
        SequenceTheorems, NaturalsInduction, WellFoundedInduction, TLAPS

-----------------------------------------------------------------------------
(* Induction *)

(* A set of naturals that is not empty has a least element. *)
LEMMA Least ==
  ASSUME NEW S \in SUBSET Nat, S # {}
  PROVE  \E x \in S : \A y \in S : x <= y
  <1> DEFINE R == OpToRel(<, Nat)
  <1>1. IsWellFoundedOn(R, Nat)
    BY NatLessThanWellFounded
  <1>2. \A x, y \in Nat : <<y, x>> \in R <=> y < x
    BY DEF OpToRel
  <1> HIDE DEF R
  <1>3. PICK x \in S : \A y \in S : ~(<<y, x>> \in R)
    BY <1>1, WFMin
  <1>4. \A y \in S : x <= y
    <2> SUFFICES ASSUME NEW y \in S PROVE x <= y
      OBVIOUS
    <2>1. x \in Nat /\ y \in Nat /\ ~(y < x)
      BY <1>2, <1>3
    <2> QED
      BY <2>1
  <1> QED
    BY <1>4

(* So a set that has 0, and the successors of what it has, has them all. *)
LEMMA SetInduction ==
  ASSUME NEW S, NEW m \in Nat, 0 \in S,
         \A n \in Nat : n \in S /\ n < m => n + 1 \in S
  PROVE  \A n \in 0 .. m : n \in S
  <1> DEFINE T == {n \in 0 .. m : n \notin S}
  <1>1. SUFFICES ASSUME T # {} PROVE FALSE
    OBVIOUS
  <1>2. T \in SUBSET Nat
    OBVIOUS
  <1>3. PICK n \in T : \A k \in T : n <= k
    <2> HIDE DEF T
    <2> QED
      BY <1>1, <1>2, Least
  <1>4. n \in Nat /\ n # 0 /\ n \notin S /\ n <= m
    BY <1>3
  <1>5. n - 1 \in Nat /\ n - 1 \notin T /\ n - 1 + 1 = n /\ n - 1 < m
    BY <1>3, <1>4
  <1> QED
    BY <1>4, <1>5

(* The least index is what SelectInSeq selects. *)
LEMMA MinIs ==
  ASSUME NEW S \in SUBSET Nat, S # {}
  PROVE  Min(S) \in S /\ \A y \in S : Min(S) <= y
  BY Least DEF Min

-----------------------------------------------------------------------------
(* The list as a sequence of nodes *)

N == Cardinality(Nodes)

(* The nodes are 1 to N, and Null is none of them. *)
LEMMA NodesAre == N \in Nat /\ Nodes = 1 .. N /\ Null \notin Nodes
  BY ListAssumption, FS_CardinalityType DEF N, Null

ListType == [head : Nodes \cup {Null}, tail : Nodes \cup {Null},
             next : [Nodes -> Nodes \cup {Null}],
             thread : [Nodes -> Threads \cup {Idle}]]

Unique(c) == \A i, j \in 1 .. Len(c) : c[i] = c[j] => i = j

(* From head on there are the nodes c, and no more. *)
Leads(l, c) ==
  /\ c \in Seq(Nodes) /\ Unique(c)
  /\ l.head = IF Len(c) = 0 THEN Null ELSE c[1]
  /\ \A i \in 1 .. Len(c) :
       l.next[c[i]] = IF i = Len(c) THEN Null ELSE c[i + 1]

(* There are n numbers from 1 to n, and from 0 to n - 1. *)
LEMMA CountTo ==
  ASSUME NEW n \in Nat
  PROVE  Cardinality(1 .. n) = n /\ Cardinality(0 .. (n - 1)) = n
  <1>1. 0 \in Int /\ 1 \in Int /\ n \in Int /\ n - 1 \in Int
    OBVIOUS
  <1>2. Cardinality(1 .. n) = IF 1 > n THEN 0 ELSE n - 1 + 1
    BY <1>1, FS_Interval
  <1>3. Cardinality(0 .. (n - 1)) = IF 0 > n - 1 THEN 0 ELSE n - 1 - 0 + 1
    BY <1>1, FS_Interval
  <1> QED
    BY <1>2, <1>3

(* It has no more nodes than there are. *)
LEMMA ShortEnough ==
  ASSUME NEW c \in Seq(Nodes), Unique(c)
  PROVE  Len(c) \in Nat /\ Len(c) <= N
  <1>1. c \in [1 .. Len(c) -> Nodes] /\ Len(c) \in Nat
    BY LenProperties
  <1>2. c \in Injection(1 .. Len(c), Nodes)
    BY <1>1 DEF Unique, Injection, IsInjective
  <1>3. Cardinality(1 .. Len(c)) = Len(c)
    BY <1>1, CountTo
  <1> QED
    BY <1>1, <1>2, <1>3, FS_Injection, ListAssumption DEF N

(* Chain follows the links in this way. *)
IsWalk(l, w) ==
  w = [i \in 0 .. N |->
         IF i = 0 THEN l.head
         ELSE IF w[i - 1] = Null THEN Null ELSE l.next[w[i - 1]]]

Reached(w) == {i \in DOMAIN w : w[i] # Null}

(* Chain goes along a walk, one choice of all those that there are. *)
LEMMA ChainBy ==
  ASSUME NEW l
  PROVE  LET w == CHOOSE w : IsWalk(l, w)
         IN  Chain(l) = [i \in 1 .. Cardinality(Reached(w)) |-> w[i - 1]]
  BY DEF Chain, IsWalk, Reached, N

(* There is only one such walk. *)
LEMMA OneWalk ==
  ASSUME NEW l, NEW v, NEW w, IsWalk(l, v), IsWalk(l, w)
  PROVE  v = w
  <1>0. N \in Nat
    BY NodesAre
  <1> DEFINE S == {i \in 0 .. N : v[i] = w[i]}
  <1>1. 0 \in S
    BY <1>0 DEF IsWalk
  <1>2. ASSUME NEW n \in Nat, n \in S, n < N PROVE n + 1 \in S
    <2>1. n + 1 \in 0 .. N /\ n + 1 # 0 /\ n + 1 - 1 = n
      BY <1>0, <1>2
    <2>2. ASSUME NEW h, IsWalk(l, h)
          PROVE  h[n + 1] = IF h[n] = Null THEN Null ELSE l.next[h[n]]
      <3>1. \A i \in 0 .. N : i # 0 =>
              h[i] = IF h[i - 1] = Null THEN Null ELSE l.next[h[i - 1]]
        BY <2>2, Zenon DEF IsWalk
      <3> QED
        BY <2>1, <3>1
    <2> QED
      BY <1>2, <2>1, <2>2
  <1> HIDE DEF S
  <1>3. \A n \in 0 .. N : n \in S
    BY <1>0, <1>1, <1>2, SetInduction
  <1>4. \A n \in 0 .. N : v[n] = w[n]
    BY <1>3 DEF S
  <1>5. DOMAIN v = 0 .. N /\ DOMAIN w = 0 .. N
    BY DEF IsWalk
  <1>6. v = [i \in DOMAIN v |-> v[i]] /\ w = [i \in DOMAIN w |-> w[i]]
    BY DEF IsWalk
  <1> QED
    BY <1>4, <1>5, <1>6

(* The nodes of a list are those it leads to. *)
LEMMA ChainIs ==
  ASSUME NEW l, NEW c, Leads(l, c)
  PROVE  Chain(l) = c
  <1> DEFINE m == Len(c)
             w == [i \in 0 .. N |-> IF i < m THEN c[i + 1] ELSE Null]
             v == CHOOSE x : IsWalk(l, x)
  <1>1. /\ c \in Seq(Nodes) /\ Unique(c) /\ m \in Nat /\ m <= N /\ N \in Nat
        /\ \A i \in 1 .. m : c[i] \in Nodes /\ c[i] # Null
    BY ShortEnough, ElementOfSeq, NodesAre DEF Leads
  <1>2. IsWalk(l, w)
    <2> DEFINE u == [i \in 0 .. N |->
                      IF i = 0 THEN l.head
                      ELSE IF w[i - 1] = Null THEN Null ELSE l.next[w[i - 1]]]
    <2>1. ASSUME NEW i \in 0 .. N PROVE w[i] = u[i]
      <3>1. CASE i = 0
        BY <1>1, <3>1 DEF Leads
      <3>2. CASE i # 0
        <4>1. i - 1 \in 0 .. N /\ i - 1 + 1 = i
          BY <1>1, <3>2
        <4>2. CASE i - 1 < m
          <5>1. i \in 1 .. m
            BY <1>1, <3>2, <4>2
          <5>2. w[i - 1] = c[i] /\ c[i] # Null
            BY <1>1, <4>1, <4>2, <5>1
          <5>3. l.next[c[i]] = IF i = m THEN Null ELSE c[i + 1]
            BY <5>1 DEF Leads
          <5>4. u[i] = IF i = m THEN Null ELSE c[i + 1]
            BY <3>2, <5>2, <5>3
          <5>5. w[i] = IF i = m THEN Null ELSE c[i + 1]
            BY <1>1, <5>1
          <5> QED
            BY <5>4, <5>5
        <4>3. CASE ~(i - 1 < m)
          <5>1. w[i - 1] = Null /\ w[i] = Null
            BY <1>1, <4>1, <4>3
          <5> QED
            BY <3>2, <5>1
        <4> QED
          BY <4>2, <4>3
      <3> QED
        BY <3>1, <3>2
    <2>2. u = [i \in 0 .. N |-> u[i]] /\ w = [i \in 0 .. N |-> w[i]]
      OBVIOUS
    <2>3. w = u
      <3> HIDE DEF u, w
      <3> QED
        BY <2>1, <2>2
    <2> QED
      BY <2>3 DEF IsWalk
  <1>3. v = w
    <2> HIDE DEF w
    <2>1. IsWalk(l, v)
      BY <1>2
    <2> HIDE DEF v
    <2> QED
      BY <1>2, <2>1, OneWalk
  <1>4. Reached(w) = 0 .. (m - 1)
    BY <1>1 DEF Reached
  <1>5. Cardinality(Reached(w)) = m
    BY <1>1, <1>4, CountTo
  <1>6. Chain(l) = [i \in 1 .. Cardinality(Reached(v)) |-> v[i - 1]]
    BY ChainBy
  <1>7. Chain(l) = [i \in 1 .. m |-> w[i - 1]]
    BY <1>3, <1>5, <1>6
  <1>8. \A i \in 1 .. m : w[i - 1] = c[i]
    BY <1>1
  <1>9. c = [i \in 1 .. m |-> c[i]]
    BY <1>1, LenProperties
  <1> HIDE DEF w
  <1> QED
    BY <1>7, <1>8, <1>9

-----------------------------------------------------------------------------
(* put *)

(* The list of the nodes c is the queue q. *)
Holds(l, c, q) ==
  /\ Leads(l, c)
  /\ l.tail = IF Len(c) = 0 THEN Null ELSE c[Len(c)]
  /\ q \in Seq(Threads) /\ Len(q) = Len(c)
  /\ \A i \in 1 .. Len(c) : l.thread[c[i]] = q[i]

Members(c) == {c[i] : i \in 1 .. Len(c)}

(* put's node n in list l once it is linked, and once tail is stored. *)
At(l) == IF l.head = Null THEN Null ELSE l.tail
Attached(l, n) == Linked(l, At(l), n)
Tailed(l, t, n) == [Attached(l, n) EXCEPT !.tail = n, !.thread[n] = t]

(* put in a handler does what its steps in thread code do. *)
LEMMA PutBySteps ==
  ASSUME NEW l, NEW t, NEW n
  PROVE  Put(l, t, n) = Closed(Tailed(l, t, n))
  BY DEF Put, Tailed, Attached, At

(* Link: only the head of an empty list, or the last node's link, changes. *)
LEMMA AttachedShape ==
  ASSUME NEW l \in ListType, NEW n \in Nodes, l.head # Null => l.tail # Null,
         NEW m, m = Attached(l, n)
  PROVE  /\ m \in ListType
         /\ m.head = IF l.head = Null THEN n ELSE l.head
         /\ m.tail = l.tail /\ m.thread = l.thread
         /\ \A x \in Nodes : m.next[x] = IF l.head # Null /\ x = l.tail THEN n
                                        ELSE l.next[x]
  <1>1. CASE l.head = Null
    <2>1. m = [l EXCEPT !.head = n]
      BY <1>1 DEF Attached, Linked, At
    <2> QED
      BY <1>1, <2>1 DEF ListType
  <1>2. CASE l.head # Null
    <2>1. m = [l EXCEPT !.next[l.tail] = n]
      BY <1>2 DEF Attached, Linked, At
    <2>2. l.tail \in Nodes
      BY <1>2 DEF ListType
    <2> QED
      BY <1>2, <2>1, <2>2 DEF ListType
  <1> QED
    BY <1>1, <1>2

(* SetTail: the new node has the thread, and is the tail. *)
LEMMA TailedShape ==
  ASSUME NEW l \in ListType, NEW n \in Nodes, l.head # Null => l.tail # Null,
         NEW t \in Threads, NEW m, m = Tailed(l, t, n)
  PROVE  /\ m \in ListType /\ m.tail = n
         /\ m.head = IF l.head = Null THEN n ELSE l.head
         /\ \A x \in Nodes : /\ m.thread[x] = IF x = n THEN t ELSE l.thread[x]
                            /\ m.next[x] = IF l.head # Null /\ x = l.tail
                                           THEN n ELSE l.next[x]
  <1> DEFINE a == Attached(l, n)
  <1>1. /\ a \in ListType
        /\ a.head = IF l.head = Null THEN n ELSE l.head
        /\ a.thread = l.thread
        /\ \A x \in Nodes : a.next[x] = IF l.head # Null /\ x = l.tail THEN n
                                       ELSE l.next[x]
    BY AttachedShape
  <1>2. m = [a EXCEPT !.tail = n, !.thread[n] = t]
    BY DEF Tailed
  <1> HIDE DEF a
  <1>3. m = [head |-> a.head, tail |-> n, next |-> a.next,
             thread |-> [a.thread EXCEPT ![n] = t]]
    BY <1>1, <1>2 DEF ListType
  <1>4. a.thread \in [Nodes -> Threads \cup {Idle}]
    BY <1>1 DEF ListType
  <1>5. [a.thread EXCEPT ![n] = t] \in [Nodes -> Threads \cup {Idle}]
    BY <1>4
  <1>6. /\ a.head \in Nodes \cup {Null}
        /\ a.next \in [Nodes -> Nodes \cup {Null}]
    BY <1>1 DEF ListType
  <1>7. m \in ListType
    BY <1>3, <1>5, <1>6 DEF ListType
  <1> QED
    BY <1>1, <1>3, <1>4, <1>7

(* put appends the thread to the queue, and the node to the list. *)
LEMMA PutShape ==
  ASSUME NEW l \in ListType, NEW n \in Nodes, l.head # Null => l.tail # Null,
         NEW t \in Threads, NEW p, p = Put(l, t, n)
  PROVE  /\ p \in ListType /\ p.tail = n
         /\ p.head = IF l.head = Null THEN n ELSE l.head
         /\ \A x \in Nodes : /\ p.thread[x] = IF x = n THEN t ELSE l.thread[x]
                            /\ p.next[x] = IF x = n THEN Null
                                           ELSE IF l.head # Null /\ x = l.tail
                                           THEN n ELSE l.next[x]
  <1> DEFINE m == Tailed(l, t, n)
  <1>1. /\ m \in ListType /\ m.tail = n
        /\ m.head = IF l.head = Null THEN n ELSE l.head
        /\ \A x \in Nodes : /\ m.thread[x] = IF x = n THEN t ELSE l.thread[x]
                           /\ m.next[x] = IF l.head # Null /\ x = l.tail
                                          THEN n ELSE l.next[x]
    BY TailedShape
  <1>2. p = Closed(m)
    BY PutBySteps
  <1> HIDE DEF m
  <1>3. p = [m EXCEPT !.next[n] = Null]
    BY <1>1, <1>2 DEF Closed
  <1> QED
    BY <1>1, <1>3 DEF ListType

(* Append adds one member. *)
LEMMA MembersAppend ==
  ASSUME NEW S, NEW c \in Seq(S), NEW n \in S
  PROVE  Members(Append(c, n)) = Members(c) \cup {n}
  <1> DEFINE e == Append(c, n)
  <1>1. /\ Len(c) \in Nat /\ Len(e) = Len(c) + 1 /\ e[Len(c) + 1] = n
        /\ \A i \in 1 .. Len(c) : e[i] = c[i]
    BY AppendProperties, LenProperties
  <1> HIDE DEF e
  <1>2. Members(e) = Members(c) \cup {n}
    BY <1>1 DEF Members
  <1> QED
    BY <1>2 DEF e

(* A member that was not there makes none twice. *)
LEMMA UniqueAppend ==
  ASSUME NEW S, NEW c \in Seq(S), NEW n \in S, Unique(c), n \notin Members(c)
  PROVE  Unique(Append(c, n))
  <1> DEFINE e == Append(c, n)
  <1>1. /\ Len(c) \in Nat /\ Len(e) = Len(c) + 1 /\ e[Len(c) + 1] = n
        /\ \A i \in 1 .. Len(c) : e[i] = c[i]
    BY AppendProperties, LenProperties
  <1> HIDE DEF e
  <1>2. Unique(e)
    BY <1>1 DEF Unique, Members
  <1> QED
    BY <1>2 DEF e

(* A list that has a head has a tail, and only the empty one has no head. *)
LEMMA HeadOrTail ==
  ASSUME NEW l, NEW c, NEW q, Holds(l, c, q)
  PROVE  /\ l.head # Null => l.tail # Null
         /\ l.head = Null => Len(c) = 0
         /\ Len(c) = 0 => l.head = Null
         /\ Len(c) \in Nat
  <1>1. Len(c) \in Nat /\ \A i \in 1 .. Len(c) : c[i] # Null
    BY LenProperties, ElementOfSeq, NodesAre DEF Holds, Leads
  <1> QED
    BY <1>1 DEF Holds, Leads

(* So after put the list is the queue with the thread at its end. *)
LEMMA PutHolds ==
  ASSUME NEW l \in ListType, NEW c, NEW q, Holds(l, c, q),
         NEW n \in Nodes, n \notin Members(c), NEW t \in Threads,
         NEW p, p = Put(l, t, n)
  PROVE  p \in ListType /\ Holds(p, Append(c, n), Append(q, t))
  <1> DEFINE e == Append(c, n)
             r == Append(q, t)
             m == Len(c)
  <1>1. /\ c \in Seq(Nodes) /\ q \in Seq(Threads) /\ m \in Nat /\ Len(q) = m
        /\ l.head = Null => m = 0
        /\ l.head # Null => l.tail # Null
    <2>1. c \in Seq(Nodes) /\ q \in Seq(Threads) /\ Len(q) = m
      BY DEF Holds, Leads
    <2> QED
      BY <2>1, HeadOrTail
  <1>2. /\ e \in Seq(Nodes) /\ Len(e) = m + 1 /\ e[m + 1] = n
        /\ \A i \in 1 .. m : e[i] = c[i]
    BY <1>1, AppendProperties
  <1>3. /\ r \in Seq(Threads) /\ Len(r) = m + 1 /\ r[m + 1] = t
        /\ \A i \in 1 .. m : r[i] = q[i]
    BY <1>1, AppendProperties
  <1>4. Unique(e)
    BY <1>1, UniqueAppend DEF Holds, Leads
  <1> HIDE DEF e, r
  <1>5. /\ p \in ListType /\ p.tail = n
        /\ p.head = IF l.head = Null THEN n ELSE l.head
        /\ \A x \in Nodes : /\ p.thread[x] = IF x = n THEN t ELSE l.thread[x]
                           /\ p.next[x] = IF x = n THEN Null
                                          ELSE IF l.head # Null /\ x = l.tail
                                          THEN n ELSE l.next[x]
    BY <1>1, PutShape
  <1>6. /\ \A i \in 1 .. m : /\ c[i] \in Nodes /\ c[i] # n
                            /\ l.thread[c[i]] = q[i]
                            /\ l.next[c[i]] = IF i = m THEN Null ELSE c[i + 1]
        /\ l.tail = IF m = 0 THEN Null ELSE c[m]
        /\ l.head = IF m = 0 THEN Null ELSE c[1]
        /\ \A i, j \in 1 .. m : c[i] = c[j] => i = j
    BY <1>1, ElementOfSeq DEF Holds, Leads, Members, Unique
  <1> HIDE DEF m
  <1>7. \A i \in 1 .. (m + 1) : p.thread[e[i]] = r[i]
    <2>1. ASSUME NEW i \in 1 .. m PROVE p.thread[e[i]] = r[i]
      BY <1>2, <1>3, <1>5, <1>6
    <2>2. p.thread[e[m + 1]] = r[m + 1]
      BY <1>2, <1>3, <1>5
    <2> QED
      BY <1>1, <2>1, <2>2
  <1>8. ASSUME NEW i \in 1 .. (m + 1)
        PROVE  p.next[e[i]] = IF i = m + 1 THEN Null ELSE e[i + 1]
    <2>1. CASE i = m + 1
      BY <1>2, <1>5, <2>1
    <2>2. CASE i = m
      BY <1>1, <1>2, <1>5, <1>6, <2>2
    <2>3. CASE i < m
      <3>1. c[i] # c[m] /\ i \in 1 .. m /\ m \in 1 .. m
        BY <1>1, <1>6, <2>3
      <3>2. p.next[c[i]] = c[i + 1]
        BY <1>1, <1>5, <1>6, <2>3, <3>1
      <3> QED
        BY <1>1, <1>2, <2>3, <3>1, <3>2
    <2> QED
      BY <1>1, <2>1, <2>2, <2>3
  <1>9. p.head = e[1]
    BY <1>1, <1>2, <1>5, <1>6
  <1>10. Leads(p, e)
    BY <1>1, <1>2, <1>4, <1>8, <1>9 DEF Leads
  <1>11. Holds(p, e, r)
    BY <1>1, <1>2, <1>3, <1>5, <1>7, <1>10 DEF Holds
  <1> QED
    BY <1>5, <1>11 DEF e, r

-----------------------------------------------------------------------------
(* get *)

(* The places of q at which there is a live thread. *)
Live(q) == {i \in 1 .. Len(q) : q[i] \notin finished}

(* get drops the first k nodes and threads, the last of them the one it    *)
(* returns: both searches, along the list and in the queue, end at k. *)
Cut(l, c, q, k) ==
  /\ k \in 0 .. Len(c) /\ (Len(c) # 0 => k # 0)
  /\ Taken(l) = SubSeq(c, 1, k)
  /\ QueueRest(q) = SubSeq(q, k + 1, Len(q))

(* Where get cuts the list, and where QueueRest cuts the queue. *)
LEMMA GetCuts ==
  ASSUME NEW l, NEW c, NEW q, Holds(l, c, q)
  PROVE  \E k \in 0 .. Len(c) : Cut(l, c, q, k)
  <1> DEFINE m == Len(c)
             I == {i \in 1 .. Len(c) : l.thread[c[i]] \notin finished}
             J == Live(q)
  <1>1. /\ c \in Seq(Nodes) /\ q \in Seq(Threads) /\ Len(q) = m /\ m \in Nat
        /\ \A i \in 1 .. m : l.thread[c[i]] = q[i]
        /\ Chain(l) = c
    BY HeadOrTail, ChainIs DEF Holds, Leads
  <1>2. I = J
    BY <1>1 DEF Live
  <1>3. Taken(l) = LET i == IF I # {} THEN Min(I) ELSE 0
                   IN  IF i = 0 THEN c ELSE SubSeq(c, 1, i)
    BY <1>1 DEF Taken, SelectInSeq
  <1>4. QueueRest(q) = LET i == IF J # {} THEN Min(J) ELSE 0
                       IN  IF i = 0 THEN <<>> ELSE SubSeq(q, i + 1, Len(q))
    BY DEF QueueRest, SelectInSeq, Live
  <1>5. CASE J # {}
    <2>1. J \in SUBSET Nat /\ J \subseteq 1 .. m
      BY <1>1 DEF Live
    <2>2. Min(J) \in 1 .. m
      <3> HIDE DEF J
      <3> QED
        BY <1>5, <2>1, MinIs
    <2>3. Min(J) \in 0 .. m /\ Min(J) # 0
      BY <1>1, <2>2
    <2> HIDE DEF I, J
    <2>4. Cut(l, c, q, Min(J))
      BY <1>2, <1>3, <1>4, <1>5, <2>3 DEF Cut
    <2> QED
      BY <2>3, <2>4
  <1>6. CASE J = {}
    <2> HIDE DEF I, J
    <2>1. Taken(l) = SubSeq(c, 1, m)
      BY <1>1, <1>2, <1>3, <1>6, SubSeqFull
    <2>2. QueueRest(q) = <<>>
      BY <1>4, <1>6
    <2>3. SubSeq(q, m + 1, Len(q)) = <<>>
      <3>1. m + 1 \in Int /\ Len(q) \in Int /\ Len(q) < m + 1
        BY <1>1
      <3> QED
        BY <3>1, SubSeqEmpty
    <2>4. m \in 0 .. m
      BY <1>1
    <2>5. Cut(l, c, q, m)
      BY <2>1, <2>2, <2>3, <2>4 DEF Cut
    <2> QED
      BY <2>4, <2>5
  <1> QED
    BY <1>5, <1>6

(* The rest of a sequence. *)
LEMMA RestIs ==
  ASSUME NEW S, NEW s \in Seq(S), NEW k \in 0 .. Len(s),
         NEW r, r = SubSeq(s, k + 1, Len(s))
  PROVE  /\ r \in Seq(S) /\ Len(r) = Len(s) - k
         /\ \A i \in 1 .. (Len(s) - k) : r[i] = s[i + k]
  <1>1. Len(s) \in Nat /\ k + 1 \in Int /\ Len(s) \in Int
    BY LenProperties
  <1>2. \A i \in (k + 1) .. Len(s) : s[i] \in S
    BY <1>1, ElementOfSeq
  <1>3. /\ r \in Seq(S)
        /\ Len(r) = IF k + 1 <= Len(s) THEN Len(s) - (k + 1) + 1 ELSE 0
        /\ \A i \in 1 .. (Len(s) - (k + 1) + 1) : r[i] = s[k + 1 + i - 1]
    BY <1>1, <1>2, SubSeqProperties
  <1> QED
    BY <1>1, <1>3

(* The first k nodes of a sequence. *)
LEMMA StartIs ==
  ASSUME NEW S, NEW s \in Seq(S), NEW k \in 0 .. Len(s),
         NEW r, r = SubSeq(s, 1, k)
  PROVE  /\ r \in Seq(S) /\ Len(r) = k
         /\ \A i \in 1 .. k : r[i] = s[i]
  <1>1. Len(s) \in Nat /\ 1 \in Int /\ k \in Int
    BY LenProperties
  <1>2. \A i \in 1 .. k : s[i] \in S
    BY <1>1, ElementOfSeq
  <1>3. /\ r \in Seq(S)
        /\ Len(r) = IF 1 <= k THEN k - 1 + 1 ELSE 0
        /\ \A i \in 1 .. (k - 1 + 1) : r[i] = s[1 + i - 1]
    BY <1>1, <1>2, SubSeqProperties
  <1> QED
    BY <1>1, <1>3

First(s, k) == {s[i] : i \in 1 .. k}

(* What get does to the list. *)
LEMMA GotShape ==
  ASSUME NEW l \in ListType, NEW c, NEW q, Holds(l, c, q),
         NEW k \in 0 .. Len(c), Cut(l, c, q, k), NEW g, g = Got(l)
  PROVE  /\ g \in ListType /\ g.next = l.next
         /\ Freed(l) = First(c, k)
         /\ Next1(l) \in First(q, k) \cup {Idle}
         /\ \A n \in Nodes \ First(c, k) : g.thread[n] = l.thread[n]
         /\ g.head = IF k = Len(c) THEN Null ELSE c[k + 1]
         /\ g.tail = IF k = Len(c) THEN Null ELSE c[Len(c)]
  <1> DEFINE m == Len(c)
             t == Taken(l)
  <1>1. /\ c \in Seq(Nodes) /\ q \in Seq(Threads) /\ Len(q) = m /\ m \in Nat
        /\ \A i \in 1 .. m : c[i] \in Nodes /\ c[i] # Null
        /\ \A i \in 1 .. m : l.thread[c[i]] = q[i]
        /\ \A i \in 1 .. m : l.next[c[i]] = IF i = m THEN Null ELSE c[i + 1]
        /\ l.head = IF m = 0 THEN Null ELSE c[1]
        /\ l.tail = IF m = 0 THEN Null ELSE c[m]
    BY HeadOrTail, ElementOfSeq, NodesAre DEF Holds, Leads
  <1>2. t \in Seq(Nodes) /\ Len(t) = k /\ \A i \in 1 .. k : t[i] = c[i]
    BY <1>1, StartIs DEF Cut
  <1>3. m # 0 => k # 0
    BY DEF Cut
  <1>4. Freed(l) = First(c, k)
    <2>1. DOMAIN t = 1 .. k
      BY <1>2, LenProperties
    <2> QED
      BY <1>2, <2>1 DEF Freed, ToSet, First
  <1>5. CASE k = 0
    <2>1. t = <<>> /\ m = 0
      BY <1>2, <1>3, <1>5, EmptySeq
    <2>2. g = l /\ Next1(l) = Idle
      BY <2>1 DEF Got, Next1
    <2> QED
      BY <1>1, <1>4, <1>5, <2>1, <2>2
  <1>6. CASE k # 0
    <2> DEFINE h == l.next[Last(t)]
    <2>1. k \in 1 .. m
      BY <1>1, <1>6
    <2>2. t # <<>> /\ Last(t) = c[k]
      BY <1>2, <1>6, <2>1, EmptySeq DEF Last
    <2>3. h = IF k = m THEN Null ELSE c[k + 1]
      BY <1>1, <2>1, <2>2
    <2>4. Next1(l) \in {Idle, q[k]}
      BY <1>1, <2>1, <2>2 DEF Next1
    <2>5. q[k] \in First(q, k)
      BY <2>1 DEF First
    <2>6. g = [l EXCEPT !.head = h, !.tail = IF h = Null THEN Null ELSE @,
                 !.thread = [n \in Nodes |->
                               IF n \in Freed(l) THEN Idle ELSE @[n]]]
      BY <2>2 DEF Got
    <2> HIDE DEF h, t
    <2> DEFINE w == [n \in Nodes |->
                     IF n \in Freed(l) THEN Idle ELSE l.thread[n]]
               z == IF h = Null THEN Null ELSE l.tail
    <2>7. g = [head |-> h, tail |-> z, next |-> l.next, thread |-> w]
      BY <2>6 DEF ListType
    <2>8. w \in [Nodes -> Threads \cup {Idle}]
      BY DEF ListType
    <2>9. h \in Nodes \cup {Null} /\ z \in Nodes \cup {Null}
      <3>1. k # m => k + 1 \in 1 .. m
        BY <1>1, <2>1
      <3> QED
        BY <1>1, <2>3, <3>1 DEF ListType
    <2>10. g \in ListType
      <3> HIDE DEF w, z
      <3>1. l.next \in [Nodes -> Nodes \cup {Null}]
        BY DEF ListType
      <3> QED
        BY <2>7, <2>8, <2>9, <3>1 DEF ListType
    <2>11. \A n \in Nodes \ First(c, k) : g.thread[n] = l.thread[n]
      BY <1>4, <2>7
    <2>12. g.tail = IF k = m THEN Null ELSE c[m]
      <3>1. k # m => c[k + 1] # Null /\ m # 0
        BY <1>1, <2>1
      <3> QED
        BY <1>1, <2>3, <2>7, <3>1
    <2>13. g.head = h /\ g.next = l.next
      BY <2>7
    <2> QED
      BY <1>4, <2>3, <2>4, <2>5, <2>10, <2>11, <2>12, <2>13
  <1> QED
    BY <1>5, <1>6

(* get leaves the rest of the nodes, with the rest of the queue. *)
LEMMA GotHolds ==
  ASSUME NEW l \in ListType, NEW c, NEW q, Holds(l, c, q),
         NEW k \in 0 .. Len(c), Cut(l, c, q, k), NEW g, g = Got(l)
  PROVE  Holds(g, SubSeq(c, k + 1, Len(c)), SubSeq(q, k + 1, Len(q)))
  <1> DEFINE m == Len(c)
             d == SubSeq(c, k + 1, Len(c))
             r == SubSeq(q, k + 1, Len(q))
             j == m - k
  <1>1. /\ c \in Seq(Nodes) /\ q \in Seq(Threads) /\ Len(q) = m /\ m \in Nat
        /\ \A i \in 1 .. m : c[i] \in Nodes /\ l.thread[c[i]] = q[i]
        /\ \A i \in 1 .. m : l.next[c[i]] = IF i = m THEN Null ELSE c[i + 1]
        /\ \A i, x \in 1 .. m : c[i] = c[x] => i = x
    BY HeadOrTail, ElementOfSeq DEF Holds, Leads, Unique
  <1>2. /\ d \in Seq(Nodes) /\ Len(d) = j
        /\ \A i \in 1 .. j : d[i] = c[i + k]
    BY <1>1, RestIs
  <1>3. /\ r \in Seq(Threads) /\ Len(r) = j
        /\ \A i \in 1 .. j : r[i] = q[i + k]
    BY <1>1, RestIs
  <1>4. /\ g.next = l.next
        /\ \A n \in Nodes \ First(c, k) : g.thread[n] = l.thread[n]
        /\ g.head = IF k = m THEN Null ELSE c[k + 1]
        /\ g.tail = IF k = m THEN Null ELSE c[m]
    BY GotShape
  <1> HIDE DEF d, r
  <1>5. k \in Nat /\ j \in Nat /\ j + k = m
    BY <1>1
  <1> HIDE DEF m, j
  <1>6. \A i \in 1 .. j : i + k \in 1 .. m
    BY <1>1, <1>5
  <1>7. Unique(d)
    <2> SUFFICES ASSUME NEW i \in 1 .. j, NEW x \in 1 .. j, d[i] = d[x]
                 PROVE  i = x
      BY <1>2 DEF Unique
    <2>1. i + k \in 1 .. m /\ x + k \in 1 .. m
      BY <1>6
    <2>2. c[i + k] = c[x + k]
      BY <1>2
    <2>3. i + k = x + k
      BY <1>1, <2>1, <2>2
    <2> QED
      BY <1>5, <2>3
  <1>8. ASSUME NEW i \in 1 .. j
        PROVE  /\ g.next[d[i]] = IF i = j THEN Null ELSE d[i + 1]
               /\ g.thread[d[i]] = r[i]
    <2>1. i + k \in 1 .. m /\ d[i] = c[i + k] /\ r[i] = q[i + k]
      BY <1>2, <1>3, <1>6
    <2>2. g.next[d[i]] = IF i + k = m THEN Null ELSE c[i + k + 1]
      BY <1>1, <1>4, <2>1
    <2>3. i + k = m => i = j
      BY <1>5
    <2>4. i # j => i + k # m /\ i + 1 \in 1 .. j /\ i + 1 + k = i + k + 1
      BY <1>5
    <2>5. d[i] \notin First(c, k)
      <3> SUFFICES ASSUME NEW x \in 1 .. k, c[x] = c[i + k] PROVE FALSE
        BY <2>1 DEF First
      <3>1. x \in 1 .. m /\ x # i + k
        BY <1>1, <1>5
      <3> QED
        BY <1>1, <2>1, <3>1
    <2>6. i = j => i + k = m
      BY <1>5
    <2>7. g.thread[d[i]] = r[i]
      <3>1. c[i + k] \in Nodes \ First(c, k)
        BY <1>1, <2>1, <2>5
      <3>2. g.thread[c[i + k]] = l.thread[c[i + k]]
        BY <1>4, <3>1
      <3> QED
        BY <1>1, <2>1, <3>2
    <2>8. CASE i = j
      BY <2>2, <2>6, <2>7, <2>8
    <2>9. CASE i # j
      <3>1. i + 1 \in 1 .. j /\ i + 1 + k = i + k + 1
        BY <2>4, <2>9
      <3>2. d[i + 1] = c[i + k + 1]
        BY <1>2, <3>1
      <3> QED
        BY <2>2, <2>4, <2>7, <2>9, <3>2
    <2> QED
      BY <2>7, <2>8, <2>9
  <1>9. /\ g.head = IF j = 0 THEN Null ELSE d[1]
        /\ g.tail = IF j = 0 THEN Null ELSE d[j]
    <2>1. j = 0 => k = m
      BY <1>5
    <2>2. j # 0 => k # m /\ 1 \in 1 .. j /\ j \in 1 .. j /\ 1 + k = k + 1
      BY <1>5
    <2> QED
      BY <1>2, <1>4, <1>5, <2>1, <2>2
  <1>10. Leads(g, d)
    BY <1>2, <1>7, <1>8, <1>9 DEF Leads
  <1>11. Holds(g, d, r)
    BY <1>2, <1>3, <1>8, <1>9, <1>10 DEF Holds
  <1> QED
    BY <1>11 DEF d, r

-----------------------------------------------------------------------------
(* The inductive invariant *)

(* From Release to SetTail put has a thread that is in no list; from       *)
(* MarkNode on it has a node that is allocated and not in the list. *)
Pending == {"alloc", "mark", "place", "link", "tail"}
Outside == {"place", "link", "tail"}
Steps == {"body", "close", "fix"} \cup Pending

(* Of the threads R, those away, those in the queue q and those that are   *)
(* being put, no thread is two. *)
ThreadsApart(R, a, q, p, g) ==
  /\ Unique(q) /\ R \cap a = {} /\ R \cap Members(q) = {}
  /\ a \cap Members(q) = {}
  /\ \A t \in Threads : p[t] \in Pending => g[t] \notin a \cup Members(q) \cup R
  /\ \A t, v \in Threads :
       p[t] \in Pending /\ p[v] \in Pending /\ g[t] = g[v] => t = v

(* The nodes in use are those of the list and those outside of it, and the *)
(* one that FindNode has found is still free. *)
NodesApart(u, c, p, n, f) ==
  /\ u = Members(c) \cup {n[t] : t \in {v \in Threads : p[v] \in Outside}}
  /\ \A t \in Threads :
       p[t] \in Outside => n[t] \in Nodes /\ n[t] \notin Members(c)
  /\ \A t, v \in Threads :
       p[t] \in Outside /\ p[v] \in Outside /\ n[t] = n[v] => t = v
  /\ \A t \in Threads : p[t] = "mark" => f \/ n[t] \in Nodes \ u

(* Where the running thread is in its put. *)
Stage == IF running \in Threads THEN pc[running] ELSE "body"

(* What Close makes of a list that has a tail. *)
Sealed(l) == IF l.tail = Null THEN l ELSE Closed(l)

(* list is the list L, or L in the middle of a put. *)
ListInPut(L, c) ==
  /\ L \in ListType /\ Holds(L, c, queue)
  /\ Stage \notin {"tail", "close"} => list = L
  /\ Stage = "link" => place[running] = At(L)
  /\ Stage = "tail" => list = Attached(L, node[running])
  /\ Stage = "close" => list \in ListType /\ Sealed(list) = L

PutTypes ==
  /\ running \in Threads \cup {Idle} /\ away \subseteq Threads
  /\ pc \in [Threads -> Steps]
  /\ arg \in [Threads -> Threads]
  /\ node \in [Threads -> Nodes \cup {Null}]
  /\ place \in [Threads -> Nodes \cup {Null}]

OnlyRunning(p, r) == \A t \in Threads : p[t] \in Critical => t = r

ListInv ==
  /\ PutTypes
  /\ ThreadsApart({running}, away, queue, pc, arg)
  /\ OnlyRunning(pc, running)
  /\ \E L, c : ListInPut(L, c) /\ NodesApart(used, c, pc, node, fault)

NoneCritical(p) == \A t \in Threads : p[t] \notin Critical

(* A list that is a queue ends as Close would have it. *)
LEMMA SealedIs ==
  ASSUME NEW l \in ListType, NEW c, NEW q, Holds(l, c, q)
  PROVE  Sealed(l) = l
  <1>1. CASE l.tail = Null
    BY <1>1 DEF Sealed
  <1>2. CASE l.tail # Null
    <2>1. Len(c) \in Nat /\ Len(c) # 0 /\ l.tail = c[Len(c)]
      BY <1>2, HeadOrTail DEF Holds
    <2>2. l.next[l.tail] = Null
      BY <2>1 DEF Holds, Leads
    <2>3. l.next \in [Nodes -> Nodes \cup {Null}] /\ l.tail \in Nodes
      BY <1>2 DEF ListType
    <2>4. [l.next EXCEPT ![l.tail] = Null] = l.next
      BY <2>2, <2>3
    <2>5. Closed(l) = [l EXCEPT !.next = [l.next EXCEPT ![l.tail] = Null]]
      BY DEF Closed, ListType
    <2>6. Closed(l) = l
      BY <2>4, <2>5 DEF ListType
    <2> QED
      BY <1>2, <2>6 DEF Sealed
  <1> QED
    BY <1>1, <1>2

(* A put need not find the list closed: it links the new node at the end. *)
LEMMA PutSealed ==
  ASSUME NEW l \in ListType, NEW c, NEW q, Holds(Sealed(l), c, q),
         NEW t \in Threads, NEW n \in Nodes
  PROVE  /\ Put(Sealed(l), t, n) = Put(l, t, n)
         /\ CanPut(Sealed(l), n) = CanPut(l, n)
  <1>1. CASE l.tail = Null
    BY <1>1 DEF Sealed
  <1>2. CASE l.tail # Null
    <2> DEFINE s == Closed(l)
    <2>1. s = Sealed(l) /\ l.tail \in Nodes
      BY <1>2 DEF Sealed, ListType
    <2>2. s = [head |-> l.head, tail |-> l.tail, thread |-> l.thread,
               next |-> [l.next EXCEPT ![l.tail] = Null]]
      BY <2>1 DEF Closed, ListType
    <2>3. l.head # Null
      <3>1. s.tail # Null /\ s.head = l.head
        BY <1>2, <2>2
      <3> HIDE DEF s
      <3> QED
        BY <2>1, <3>1, HeadOrTail DEF Holds
    <2>4. Linked(s, s.tail, n) = Linked(l, l.tail, n)
      <3>1. [[l.next EXCEPT ![l.tail] = Null] EXCEPT ![l.tail] = n]
              = [l.next EXCEPT ![l.tail] = n]
        BY <2>1 DEF ListType
      <3>2. Linked(l, l.tail, n)
              = [head |-> l.head, tail |-> l.tail, thread |-> l.thread,
                 next |-> [l.next EXCEPT ![l.tail] = n]]
        BY <1>2 DEF Linked, ListType
      <3>3. Linked(s, s.tail, n)
              = [head |-> l.head, tail |-> l.tail, thread |-> l.thread,
                 next |-> [[l.next EXCEPT ![l.tail] = Null] EXCEPT ![l.tail] = n]]
        BY <1>2, <2>2 DEF Linked
      <3> QED
        BY <3>1, <3>2, <3>3
    <2>5. s.head = l.head /\ s.tail = l.tail
      BY <2>2
    <2> HIDE DEF s
    <2>6. Put(s, t, n) = Put(l, t, n)
      BY <2>3, <2>4, <2>5 DEF Put
    <2>7. CanPut(s, n) = CanPut(l, n)
      BY <2>5 DEF CanPut
    <2> QED
      BY <2>1, <2>6, <2>7
  <1> QED
    BY <1>1, <1>2

(* What a put does to the places of threads and nodes. *)
LEMMA PutApart ==
  ASSUME NEW R, NEW a, NEW q \in Seq(Threads), NEW p, NEW g,
         ThreadsApart(R, a, q, p, g),
         NEW t \in Threads, t \notin a, t \notin Members(q),
         \A v \in Threads : p[v] \in Pending => g[v] # t
  PROVE  ThreadsApart(R \ {t}, a, Append(q, t), p, g)
  <1> DEFINE r == Append(q, t)
  <1>1. Members(r) = Members(q) \cup {t}
    BY MembersAppend
  <1>2. Unique(r)
    BY UniqueAppend DEF ThreadsApart
  <1> HIDE DEF r
  <1>3. ThreadsApart(R \ {t}, a, r, p, g)
    BY <1>1, <1>2 DEF ThreadsApart
  <1> QED
    BY <1>3 DEF r

(* The node that mem_alloc gives put goes from the free ones to the list's. *)
LEMMA PutNodes ==
  ASSUME NEW u, NEW c \in Seq(Nodes), NEW p, NEW n, NEW f, NEW e,
         NodesApart(u, c, p, n, f), NoneCritical(p), NEW x \in Nodes, x \notin u
  PROVE  NodesApart(u \cup {x}, Append(c, x), p, n, e) /\ x \notin Members(c)
  <1> DEFINE d == Append(c, x)
  <1>1. Members(d) = Members(c) \cup {x}
    BY MembersAppend
  <1>2. \A t \in Threads : p[t] # "mark"
    BY DEF NoneCritical, Critical
  <1> HIDE DEF d
  <1>3. NodesApart(u \cup {x}, d, p, n, e)
    BY <1>1, <1>2 DEF NodesApart
  <1> QED
    BY <1>3 DEF d, NodesApart

(* The rest of a sequence has what its start has not. *)
LEMMA RestMembers ==
  ASSUME NEW S, NEW s \in Seq(S), Unique(s), NEW k \in 0 .. Len(s)
  PROVE  /\ Members(SubSeq(s, k + 1, Len(s))) = Members(s) \ First(s, k)
         /\ First(s, k) \subseteq Members(s)
         /\ Unique(SubSeq(s, k + 1, Len(s)))
  <1> DEFINE m == Len(s)
             r == SubSeq(s, k + 1, m)
             j == m - k
  <1>1. /\ m \in Nat /\ Len(r) = j /\ \A i \in 1 .. j : r[i] = s[i + k]
        /\ \A i, x \in 1 .. m : s[i] = s[x] => i = x
    BY RestIs, LenProperties DEF Unique
  <1> HIDE DEF r
  <1>2. k \in Nat /\ j \in Nat /\ j + k = m
    BY <1>1
  <1>3. First(s, k) \subseteq Members(s)
    BY <1>1, <1>2 DEF First, Members
  <1> HIDE DEF m, j
  <1>4. \A i \in 1 .. j : i + k \in 1 .. m
    BY <1>1, <1>2
  <1>5. ASSUME NEW i \in 1 .. j PROVE r[i] \in Members(s) \ First(s, k)
    <2>1. i + k \in 1 .. m /\ r[i] = s[i + k]
      BY <1>1, <1>4
    <2>2. ASSUME NEW x \in 1 .. k, s[x] = s[i + k] PROVE FALSE
      <3>1. x \in 1 .. m /\ x # i + k
        BY <1>1, <1>2
      <3> QED
        BY <1>1, <2>1, <2>2, <3>1
    <2> QED
      BY <2>1, <2>2 DEF First, Members, m
  <1>6. ASSUME NEW y \in Members(s) \ First(s, k) PROVE y \in Members(r)
    <2>1. PICK x \in 1 .. m : y = s[x]
      BY DEF Members, m
    <2>2. x > k
      BY <1>1, <1>2, <2>1 DEF First
    <2>3. x - k \in 1 .. j /\ x - k + k = x
      BY <1>1, <1>2, <2>2
    <2>4. y = r[x - k]
      BY <1>1, <2>1, <2>3
    <2> QED
      BY <1>1, <2>3, <2>4 DEF Members
  <1>7. Members(r) = Members(s) \ First(s, k)
    BY <1>1, <1>5, <1>6 DEF Members
  <1>8. Unique(r)
    <2> SUFFICES ASSUME NEW i \in 1 .. j, NEW x \in 1 .. j, r[i] = r[x]
                 PROVE  i = x
      BY <1>1 DEF Unique
    <2>1. i + k \in 1 .. m /\ x + k \in 1 .. m /\ s[i + k] = s[x + k]
      BY <1>1, <1>4
    <2>2. i + k = x + k
      BY <1>1, <2>1
    <2> QED
      BY <1>2, <2>2
  <1> QED
    BY <1>3, <1>7, <1>8 DEF r, m

(* What a get does to them. *)
LEMMA GetApart ==
  ASSUME NEW a \in SUBSET Threads, NEW q \in Seq(Threads), NEW p, NEW g,
         ThreadsApart({}, a, q, p, g), NEW k \in 0 .. Len(q),
         NEW r \in First(q, k) \cup {Idle}, g \in [Threads -> Threads]
  PROVE  /\ ThreadsApart({r}, a, SubSeq(q, k + 1, Len(q)), p, g)
         /\ r \in Threads \cup {Idle}
  <1> DEFINE z == SubSeq(q, k + 1, Len(q))
  <1>1. /\ Members(z) = Members(q) \ First(q, k) /\ Unique(z)
        /\ First(q, k) \subseteq Members(q)
    BY RestMembers DEF ThreadsApart
  <1>2. Members(q) \subseteq Threads
    BY ElementOfSeq DEF Members
  <1>3. Idle \notin Threads
    BY ListAssumption
  <1> HIDE DEF z
  <1>4. r \notin Members(z) /\ r \notin a /\ r \in Threads \cup {Idle}
    BY <1>1, <1>2, <1>3 DEF ThreadsApart
  <1>5. \A t \in Threads : p[t] \in Pending => g[t] # r
    BY <1>1, <1>3 DEF ThreadsApart
  <1>6. ThreadsApart({r}, a, z, p, g)
    BY <1>1, <1>4, <1>5 DEF ThreadsApart
  <1> QED
    BY <1>4, <1>6 DEF z

(* The nodes that get drops go back to the free ones. *)
LEMMA GetNodes ==
  ASSUME NEW u, NEW c \in Seq(Nodes), NEW p, NEW n, NEW f, NEW e, Unique(c),
         NodesApart(u, c, p, n, f), NoneCritical(p), NEW k \in 0 .. Len(c)
  PROVE  NodesApart(u \ First(c, k), SubSeq(c, k + 1, Len(c)), p, n, e)
  <1> DEFINE d == SubSeq(c, k + 1, Len(c))
  <1>1. /\ Members(d) = Members(c) \ First(c, k)
        /\ First(c, k) \subseteq Members(c)
    BY RestMembers
  <1>2. \A t \in Threads : p[t] # "mark"
    BY DEF NoneCritical, Critical
  <1> HIDE DEF d
  <1>3. NodesApart(u \ First(c, k), d, p, n, e)
    BY <1>1, <1>2 DEF NodesApart
  <1> QED
    BY <1>3 DEF d

-----------------------------------------------------------------------------
(* The steps of handlers *)

(* Where a handler comes that hits no put, the list is the queue, but for  *)
(* its end if that is still open. *)
LEMMA HandlerFacts ==
  ASSUME ListInv, ~Hit
  PROVE  /\ NoneCritical(pc) /\ PutTypes
         /\ ThreadsApart({running}, away, queue, pc, arg)
         /\ list \in ListType /\ queue \in Seq(Threads)
         /\ Stage = "close" => running \notin finished
         /\ \E L \in ListType, c \in Seq(Nodes) :
              /\ ListInPut(L, c) /\ Holds(L, c, queue)
              /\ NodesApart(used, c, pc, node, fault)
              /\ L = Sealed(list) /\ (Stage # "close" => L = list)
  <1>1. \A t \in Threads : running = t =>
          pc[t] \notin Critical /\ (pc[t] = "close" => t \notin finished)
    BY DEF Hit
  <1>2. NoneCritical(pc)
    BY <1>1 DEF ListInv, OnlyRunning, NoneCritical
  <1>3. /\ Stage \notin {"link", "tail"}
        /\ Stage = "close" => running \notin finished
    BY <1>1 DEF Stage, Critical
  <1>4. PICK L, c : ListInPut(L, c) /\ NodesApart(used, c, pc, node, fault)
    BY DEF ListInv
  <1>5. L \in ListType /\ Holds(L, c, queue) /\ (Stage # "close" => list = L)
    BY <1>3, <1>4 DEF ListInPut
  <1>6. list \in ListType /\ Sealed(list) = L
    BY <1>4, <1>5, SealedIs DEF ListInPut
  <1>7. c \in Seq(Nodes) /\ queue \in Seq(Threads)
    BY <1>5 DEF Holds, Leads
  <1> QED
    BY <1>2, <1>3, <1>4, <1>5, <1>6, <1>7 DEF ListInv

(* So it may leave the list to whoever runs next. *)
LEMMA RestInv ==
  ASSUME UNCHANGED putVars, NoneCritical(pc), PutTypes, NEW c,
         running' \in Threads \cup {Idle}, away' \in SUBSET Threads,
         ThreadsApart({running'}, away', queue', pc, arg),
         list' \in ListType, Holds(list', c, queue'),
         NodesApart(used', c, pc, node, fault')
  PROVE  ListInv'
  <1>1. /\ pc' = pc /\ arg' = arg /\ node' = node /\ place' = place
    BY DEF putVars
  <1>2. Stage' \notin {"link", "tail"}
    BY <1>1 DEF Stage, NoneCritical, Critical
  <1>3. ListInPut(list, c)'
    <2>1. Sealed(list') = list'
      BY SealedIs
    <2> QED
      BY <1>2, <2>1 DEF ListInPut
  <1>4. PutTypes'
    BY <1>1 DEF PutTypes
  <1>5. OnlyRunning(pc, running)'
    BY <1>1 DEF OnlyRunning, NoneCritical
  <1>6. ThreadsApart({running}, away, queue, pc, arg)'
    BY <1>1
  <1>7. NodesApart(used, c, pc, node, fault)'
    BY <1>1
  <1> QED
    BY <1>3, <1>4, <1>5, <1>6, <1>7 DEF ListInv

(* A handler that ends in get. *)
LEMMA GetStep ==
  ASSUME UNCHANGED putVars, NoneCritical(pc), PutTypes,
         away' \in SUBSET Threads,
         NEW l \in ListType, NEW u, NEW q \in Seq(Threads),
         NEW c \in Seq(Nodes), NEW f, Holds(l, c, q),
         ThreadsApart({}, away', q, pc, arg), NodesApart(u, c, pc, node, f),
         GetFrom(l, u, q)
  PROVE  ListInv' /\ ~fault'
  <1>1. PICK k \in 0 .. Len(c) : Cut(l, c, q, k)
    BY GetCuts
  <1> DEFINE d == SubSeq(c, k + 1, Len(c))
             r == SubSeq(q, k + 1, Len(q))
  <1>2. /\ list' = Got(l) /\ used' = u \ Freed(l) /\ queue' = QueueRest(q)
        /\ running' = Next1(l) /\ fault' = (Cyclic(l) \/ Unwritten(l))
    BY DEF GetFrom
  <1>3. /\ list' \in ListType /\ Freed(l) = First(c, k)
        /\ running' \in First(q, k) \cup {Idle}
    BY <1>1, <1>2, GotShape
  <1>4. Len(q) = Len(c) /\ Unique(c)
    BY DEF Holds, Leads
  <1>5. Holds(list', d, r)
    BY <1>1, <1>2, <1>4, GotHolds
  <1>6. queue' = r
    BY <1>1, <1>2 DEF Cut
  <1>7. ~Cyclic(l)
    <2>1. Chain(l) = c
      BY ChainIs DEF Holds
    <2>2. Len(c) \in Nat /\ Len(c) <= N /\ N \in Nat
      BY <1>4, ShortEnough, NodesAre
    <2> QED
      BY <2>1, <2>2 DEF Cyclic, N
  <1>11. ~Unwritten(l)
    <2>1. ASSUME NEW n \in First(c, k) PROVE l.thread[n] # Idle
      <3>1. PICK i \in 1 .. k : n = c[i]
        BY DEF First
      <3>2. i \in 1 .. Len(c) /\ Len(c) \in Nat
        BY <1>4, LenProperties
      <3>3. l.thread[n] = q[i] /\ q[i] \in Threads
        BY <1>4, <3>1, <3>2, ElementOfSeq DEF Holds
      <3> QED
        BY <3>3, ListAssumption
    <2> QED
      BY <1>3, <2>1 DEF Unwritten
  <1>8. /\ ThreadsApart({running'}, away', r, pc, arg)
        /\ running' \in Threads \cup {Idle}
    <2>1. k \in 0 .. Len(q) /\ arg \in [Threads -> Threads]
      BY <1>4 DEF PutTypes
    <2> QED
      BY <1>3, <2>1, GetApart
  <1>9. NodesApart(used', d, pc, node, fault')
    <2>1. NodesApart(u \ First(c, k), d, pc, node, fault')
      BY <1>4, GetNodes
    <2> QED
      BY <1>2, <1>3, <2>1
  <1> HIDE DEF d, r
  <1>10. ListInv'
    BY <1>3, <1>5, <1>6, <1>8, <1>9, RestInv
  <1> QED
    BY <1>2, <1>7, <1>10, <1>11

(* mem_alloc finds a free node if there is one. *)
LEMMA FreeNodeIs ==
  ASSUME NEW u, FreeNode(u) # Null
  PROVE  FreeNode(u) \in Nodes \ u
  <1>1. Nodes \ u \in SUBSET Nat /\ Nodes \ u # {}
    BY NodesAre DEF FreeNode
  <1> QED
    BY <1>1, MinIs DEF FreeNode

(* A handler that finds no node changes nothing but away. *)
LEMMA Unmoved ==
  ASSUME NEW L, NEW c, PutTypes, NoneCritical(pc), ListInPut(L, c),
         UNCHANGED putVars, UNCHANGED <<running, list, used, queue>>,
         away' \in SUBSET Threads,
         ThreadsApart({running'}, away', queue', pc, arg),
         NodesApart(used', c, pc, node, fault')
  PROVE  ListInv'
  <1>1. /\ pc' = pc /\ arg' = arg /\ node' = node /\ place' = place
    BY DEF putVars
  <1>2. ListInPut(L, c)'
    BY <1>1 DEF ListInPut, Stage
  <1>3. PutTypes' /\ OnlyRunning(pc, running)'
    BY <1>1 DEF PutTypes, OnlyRunning, NoneCritical
  <1>4. ThreadsApart({running}, away, queue, pc, arg)'
    BY <1>1
  <1>5. NodesApart(used, c, pc, node, fault)'
    BY <1>1
  <1> QED
    BY <1>2, <1>3, <1>4, <1>5 DEF ListInv

(* Of Dispatch; only a want of nodes lets it fail. *)
LEMMA DispatchStep ==
  ASSUME ListInv, Dispatch, ~raced'
  PROVE  ListInv' /\ ((running \in Threads => FreeNode(used) # Null) => ~fault')
  <1>1. ~Hit /\ UNCHANGED putVars /\ away' = away
    BY DEF Dispatch, Interrupted
  <1>2. /\ NoneCritical(pc) /\ PutTypes
        /\ ThreadsApart({running}, away, queue, pc, arg)
        /\ list \in ListType /\ queue \in Seq(Threads)
        /\ Stage = "close" => running \notin finished
    BY <1>1, HandlerFacts
  <1>3. PICK L \in ListType, c \in Seq(Nodes) :
          /\ ListInPut(L, c) /\ Holds(L, c, queue)
          /\ NodesApart(used, c, pc, node, fault)
          /\ L = Sealed(list) /\ (Stage # "close" => L = list)
    BY <1>1, HandlerFacts
  <1>4. away' \in SUBSET Threads /\ running \in Threads \cup {Idle}
    BY <1>1, <1>2 DEF PutTypes
  <1>5. CASE running \in finished \cup {Idle}
    <2>1. L = list
      BY <1>2, <1>3, <1>5, ListAssumption DEF Stage
    <2>2. GetFrom(L, used, queue)
      BY <1>5, <2>1 DEF Dispatch
    <2>3. ThreadsApart({}, away', queue, pc, arg)
      BY <1>1, <1>2 DEF ThreadsApart
    <2> QED
      BY <1>1, <1>2, <1>3, <1>4, <2>2, <2>3, GetStep
  <1>6. CASE running \notin finished \cup {Idle}
    <2> DEFINE n == FreeNode(used)
    <2>1. running \in Threads
      BY <1>4, <1>6
    <2>2. CASE CanPut(list, n)
      <3> DEFINE l == Put(L, running, n)
                 d == Append(c, n)
                 q == Append(queue, running)
      <3>2. n \in Nodes /\ n \notin used
        BY <2>2, FreeNodeIs DEF CanPut
      <3>10. l = Put(list, running, n)
        BY <1>2, <1>3, <2>1, <3>2, PutSealed
      <3>1. GetFrom(l, used \cup {n}, q)
        BY <1>6, <2>2, <3>10 DEF Dispatch
      <3> HIDE DEF n
      <3>3. /\ NodesApart(used \cup {n}, d, pc, node, fault)
            /\ n \notin Members(c)
        BY <1>2, <1>3, <3>2, PutNodes
      <3>4. l \in ListType /\ Holds(l, d, q)
        BY <1>3, <2>1, <3>2, <3>3, PutHolds
      <3>5. /\ running \notin away /\ running \notin Members(queue)
            /\ \A v \in Threads : pc[v] \in Pending => arg[v] # running
        BY <1>2 DEF ThreadsApart
      <3>6. ThreadsApart({running} \ {running}, away, q, pc, arg)
        BY <1>2, <2>1, <3>5, PutApart
      <3>7. {running} \ {running} = {}
        OBVIOUS
      <3>8. ThreadsApart({}, away', q, pc, arg)
        BY <1>1, <3>6, <3>7
      <3>9. d \in Seq(Nodes) /\ q \in Seq(Threads)
        BY <1>2, <1>3, <2>1, <3>2, AppendProperties
      <3> HIDE DEF l, d, q
      <3> QED
        BY <1>1, <1>2, <1>4, <3>1, <3>3, <3>4, <3>8, <3>9, GetStep
    <2>3. CASE ~CanPut(list, n)
      <3>1. fault' /\ UNCHANGED <<running, list, used, queue>>
        BY <1>6, <2>3 DEF Dispatch
      <3>2. NodesApart(used', c, pc, node, fault')
        BY <1>3, <3>1 DEF NodesApart
      <3>3. ThreadsApart({running'}, away', queue', pc, arg)
        BY <1>1, <1>2, <3>1
      <3>4. n = Null
        <4>1. ASSUME n # Null PROVE FALSE
          <5>1. n \in Nodes
            BY <4>1, FreeNodeIs
          <5>2. ~CanPut(L, n)
            BY <1>2, <1>3, <2>1, <2>3, <5>1, PutSealed
          <5> QED
            BY <1>3, <4>1, <5>2, HeadOrTail DEF CanPut
        <4> QED
          BY <4>1
      <3>5. ListInv'
        BY <1>1, <1>2, <1>3, <1>4, <3>1, <3>2, <3>3, Unmoved
      <3> QED
        BY <2>1, <3>4, <3>5
    <2> QED
      BY <2>2, <2>3
  <1> QED
    BY <1>5, <1>6

(* Of Wake; only a want of nodes lets it fail. *)
LEMMA WakeStep ==
  ASSUME ListInv, NEW t \in Threads, Wake(t), ~raced'
  PROVE  ListInv' /\ (FreeNode(used) # Null => ~fault')
  <1>1. /\ ~Hit /\ UNCHANGED putVars /\ t \in away /\ away' = away \ {t}
        /\ running' = running
    BY DEF Wake, Interrupted
  <1>2. /\ NoneCritical(pc) /\ PutTypes
        /\ ThreadsApart({running}, away, queue, pc, arg)
        /\ list \in ListType /\ queue \in Seq(Threads)
    BY <1>1, HandlerFacts
  <1>3. PICK L \in ListType, c \in Seq(Nodes) :
          /\ ListInPut(L, c) /\ Holds(L, c, queue)
          /\ NodesApart(used, c, pc, node, fault)
          /\ L = Sealed(list)
    BY <1>1, HandlerFacts
  <1>4. away' \in SUBSET Threads /\ running' \in Threads \cup {Idle}
    BY <1>1, <1>2 DEF PutTypes
  <1>5. /\ ThreadsApart({running'}, away', queue, pc, arg)
        /\ t \notin away' /\ t \notin Members(queue) /\ t # running
        /\ \A v \in Threads : pc[v] \in Pending => arg[v] # t
    BY <1>1, <1>2 DEF ThreadsApart
  <1> DEFINE n == FreeNode(used)
  <1>6. CASE CanPut(list, n)
    <2> DEFINE q == Append(queue, t)
    <2>2. n \in Nodes /\ n \notin used
      BY <1>6, FreeNodeIs DEF CanPut
    <2>8. Put(L, t, n) = Put(list, t, n)
      BY <1>2, <1>3, <2>2, PutSealed
    <2>1. /\ list' = Put(L, t, n) /\ used' = used \cup {n}
          /\ queue' = q /\ ~fault'
      BY <1>6, <2>8 DEF Wake, Interrupted
    <2> HIDE DEF n
    <2> DEFINE d == Append(c, n)
    <2>3. /\ NodesApart(used \cup {n}, d, pc, node, fault')
          /\ n \notin Members(c)
      BY <1>2, <1>3, <2>2, PutNodes
    <2>4. list' \in ListType /\ Holds(list', d, q)
      BY <1>3, <2>1, <2>2, <2>3, PutHolds
    <2>5. ThreadsApart({running'} \ {t}, away', q, pc, arg)
      BY <1>2, <1>5, PutApart
    <2>6. {running'} \ {t} = {running'}
      BY <1>1, <1>5
    <2> HIDE DEF d, q
    <2>7. ThreadsApart({running'}, away', queue', pc, arg)
      BY <2>1, <2>5, <2>6
    <2> QED
      BY <1>1, <1>2, <1>4, <2>1, <2>3, <2>4, <2>7, RestInv
  <1>7. CASE ~CanPut(list, n)
    <2>1. fault' /\ UNCHANGED <<list, used, queue>>
      BY <1>7 DEF Wake
    <2>2. NodesApart(used', c, pc, node, fault')
      BY <1>3, <2>1 DEF NodesApart
    <2>3. ThreadsApart({running'}, away', queue', pc, arg)
      BY <1>5, <2>1
    <2>4. n = Null
      <3>1. ASSUME n # Null PROVE FALSE
        <4>1. n \in Nodes
          BY <3>1, FreeNodeIs
        <4>2. ~CanPut(L, n)
          BY <1>2, <1>3, <1>7, <4>1, PutSealed
        <4> QED
          BY <1>3, <3>1, <4>2, HeadOrTail DEF CanPut
      <3> QED
        BY <3>1
    <2>5. ListInv'
      BY <1>1, <1>2, <1>3, <1>4, <2>1, <2>2, <2>3, Unmoved
    <2> QED
      BY <2>4, <2>5
  <1> QED
    BY <1>6, <1>7

(* Of Leave, which only gets. *)
LEMMA LeaveStep ==
  ASSUME ListInv, Leave, ~raced'
  PROVE  ListInv' /\ ~fault'
  <1>1. /\ ~Hit /\ UNCHANGED putVars /\ away' = away \cup {running}
        /\ running \in Threads /\ GetFrom(list, used, queue)
        /\ pc[running] = "body"
    BY DEF Leave, Interrupted
  <1>2. /\ NoneCritical(pc) /\ PutTypes
        /\ ThreadsApart({running}, away, queue, pc, arg)
        /\ list \in ListType /\ queue \in Seq(Threads)
    BY <1>1, HandlerFacts
  <1>3. PICK c \in Seq(Nodes) : /\ Holds(list, c, queue)
                               /\ NodesApart(used, c, pc, node, fault)
    <2>1. Stage # "close"
      BY <1>1 DEF Stage
    <2> QED
      BY <1>1, <2>1, HandlerFacts
  <1>4. away' \in SUBSET Threads
    BY <1>1, <1>2 DEF PutTypes
  <1>5. ThreadsApart({}, away', queue, pc, arg)
    BY <1>1, <1>2 DEF ThreadsApart
  <1> QED
    BY <1>1, <1>2, <1>3, <1>4, <1>5, GetStep

-----------------------------------------------------------------------------
(* The steps of put in thread code *)

(* A step changes where the running thread is, and who runs it does not. *)
LEMMA StepFacts ==
  ASSUME ListInv, NEW from, NEW to \in Steps,
         Step(from, to)
  PROVE  /\ ~fault /\ running \in Threads /\ running' = running
         /\ pc[running] = from /\ pc'[running] = to
         /\ \A t \in Threads : t # running => pc'[t] = pc[t]
         /\ pc' \in [Threads -> Steps]
         /\ OnlyRunning(pc', running') /\ Stage = from /\ Stage' = to
         /\ PutTypes /\ ThreadsApart({running}, away, queue, pc, arg)
         /\ \A t \in Threads : t # running => pc[t] \notin Critical
  <1>1. /\ ~fault /\ running \in Threads /\ running' = running
        /\ pc[running] = from /\ pc' = [pc EXCEPT ![running] = to]
    BY DEF Step
  <1>2. /\ PutTypes /\ OnlyRunning(pc, running)
        /\ ThreadsApart({running}, away, queue, pc, arg)
    BY DEF ListInv
  <1>3. /\ pc'[running] = to
        /\ \A t \in Threads : t # running => pc'[t] = pc[t]
        /\ pc' \in [Threads -> Steps]
    BY <1>1, <1>2 DEF PutTypes
  <1>4. OnlyRunning(pc', running')
    BY <1>1, <1>2, <1>3 DEF OnlyRunning
  <1>5. Stage = from /\ Stage' = to
    BY <1>1, <1>3 DEF Stage
  <1>6. \A t \in Threads : t # running => pc[t] \notin Critical
    BY <1>2 DEF OnlyRunning
  <1> QED
    BY <1>1, <1>2, <1>3, <1>4, <1>5, <1>6

(* The invariant after a step, from its parts. *)
LEMMA StepInv ==
  ASSUME NEW L, NEW c, PutTypes', OnlyRunning(pc', running'),
         ThreadsApart({running'}, away', queue', pc', arg'),
         ListInPut(L, c)', NodesApart(used', c, pc', node', fault')
  PROVE  ListInv'
  BY DEF ListInv

(* Threads that are no longer being put are in nobody's way. *)
LEMMA FewerPending ==
  ASSUME NEW R, NEW a, NEW q, NEW p, NEW g, ThreadsApart(R, a, q, p, g),
         NEW o, \A t \in Threads : o[t] \in Pending => p[t] \in Pending
  PROVE  ThreadsApart(R, a, q, o, g)
  BY DEF ThreadsApart

(* The released thread is away no more: it is the one that is being put. *)
LEMMA ReleaseStep ==
  ASSUME ListInv, NEW t \in Threads, Release(t)
  PROVE  ListInv' /\ ~fault'
  <1> DEFINE r == running
  <1>1. /\ Step("body", "alloc") /\ t \in away /\ away' = away \ {t}
        /\ arg' = [arg EXCEPT ![r] = t]
        /\ UNCHANGED <<list, used, node, place, fault, queue>>
    BY DEF Release
  <1>2. /\ ~fault /\ r \in Threads /\ running' = r
        /\ pc[r] = "body" /\ pc'[r] = "alloc"
        /\ \A v \in Threads : v # r => pc'[v] = pc[v]
        /\ pc' \in [Threads -> Steps]
        /\ OnlyRunning(pc', running') /\ Stage = "body" /\ Stage' = "alloc"
        /\ PutTypes /\ ThreadsApart({r}, away, queue, pc, arg)
    BY <1>1, StepFacts DEF Steps, Pending
  <1>3. PICK L, c : ListInPut(L, c) /\ NodesApart(used, c, pc, node, fault)
    BY DEF ListInv
  <1>4. PutTypes'
    BY <1>1, <1>2 DEF PutTypes
  <1>5. arg'[r] = t /\ \A v \in Threads : v # r => arg'[v] = arg[v]
    BY <1>1, <1>2 DEF PutTypes
  <1>6. ListInPut(L, c)'
    BY <1>1, <1>2, <1>3 DEF ListInPut
  <1>7. \A v \in Threads : pc'[v] \in Outside => pc[v] \in Outside
    BY <1>2 DEF Outside
  <1>8. \A v \in Threads : pc[v] \in Outside => pc'[v] \in Outside
    BY <1>2 DEF Outside
  <1>9. \A v \in Threads : pc'[v] = "mark" => pc[v] = "mark"
    BY <1>2
  <1>10. NodesApart(used', c, pc', node', fault')
    <2>1. {node[v] : v \in {w \in Threads : pc'[w] \in Outside}}
            = {node[v] : v \in {w \in Threads : pc[w] \in Outside}}
      BY <1>7, <1>8
    <2> QED
      BY <1>1, <1>3, <1>7, <1>9, <2>1 DEF NodesApart
  <1>11. ThreadsApart({running'}, away', queue', pc', arg')
    <2>1. t # r /\ t \notin Members(queue)
      BY <1>1, <1>2 DEF ThreadsApart
    <2>2. \A v \in Threads : v # r /\ pc'[v] \in Pending =>
            pc[v] \in Pending /\ arg'[v] = arg[v] /\ arg'[v] # t
      BY <1>1, <1>2, <1>5 DEF ThreadsApart
    <2> HIDE DEF r
    <2>3. \A v \in Threads : pc'[v] \in Pending =>
            arg'[v] \notin away' \cup Members(queue') \cup {running'}
      BY <1>1, <1>2, <1>5, <2>1, <2>2 DEF ThreadsApart
    <2>4. \A v, w \in Threads :
            pc'[v] \in Pending /\ pc'[w] \in Pending /\ arg'[v] = arg'[w]
              => v = w
      BY <1>2, <1>5, <2>2 DEF ThreadsApart
    <2> QED
      BY <1>1, <1>2, <2>3, <2>4 DEF ThreadsApart
  <1> QED
    BY <1>1, <1>2, <1>4, <1>6, <1>10, <1>11, StepInv

(* The node that is found stays free until it is marked. *)
LEMMA FindNodeStep ==
  ASSUME ListInv, FindNode
  PROVE  ListInv' /\ (FreeNode(used) # Null => ~fault')
  <1> DEFINE r == running
             n == FreeNode(used)
  <1>1. /\ Step("alloc", "mark") /\ node' = [node EXCEPT ![r] = n]
        /\ fault' = (n = Null)
        /\ UNCHANGED <<away, list, used, arg, place, queue>>
    BY DEF FindNode
  <1>2. /\ ~fault /\ r \in Threads /\ running' = r
        /\ pc[r] = "alloc" /\ pc'[r] = "mark"
        /\ \A v \in Threads : v # r => pc'[v] = pc[v]
        /\ pc' \in [Threads -> Steps]
        /\ OnlyRunning(pc', running') /\ Stage = "alloc" /\ Stage' = "mark"
        /\ PutTypes /\ ThreadsApart({r}, away, queue, pc, arg)
        /\ \A v \in Threads : v # r => pc[v] \notin Critical
    BY <1>1, StepFacts DEF Steps, Pending
  <1>3. PICK L, c : ListInPut(L, c) /\ NodesApart(used, c, pc, node, fault)
    BY DEF ListInv
  <1>4. n # Null => n \in Nodes \ used
    BY FreeNodeIs
  <1> HIDE DEF n
  <1>5. /\ n \in Nodes \cup {Null}
        /\ node'[r] = n /\ \A v \in Threads : v # r => node'[v] = node[v]
    BY <1>1, <1>2, <1>4 DEF PutTypes
  <1>6. PutTypes'
    BY <1>1, <1>2, <1>5 DEF PutTypes
  <1>7. ListInPut(L, c)'
    BY <1>1, <1>2, <1>3 DEF ListInPut
  <1>8. \A v \in Threads : /\ pc'[v] \in Outside =>
                               pc[v] \in Outside /\ node'[v] = node[v]
                           /\ pc[v] \in Outside =>
                               pc'[v] \in Outside /\ node'[v] = node[v]
                           /\ pc'[v] = "mark" => v = r
    BY <1>2, <1>5 DEF Outside, Critical
  <1>9. NodesApart(used', c, pc', node', fault')
    <2>1. {node'[v] : v \in {w \in Threads : pc'[w] \in Outside}}
            = {node[v] : v \in {w \in Threads : pc[w] \in Outside}}
      BY <1>8
    <2>2. used' = Members(c) \cup
                  {node'[v] : v \in {w \in Threads : pc'[w] \in Outside}}
      BY <1>1, <1>3, <2>1 DEF NodesApart
    <2>3. \A v \in Threads :
            pc'[v] = "mark" => fault' \/ node'[v] \in Nodes \ used'
      BY <1>1, <1>4, <1>5, <1>8
    <2> QED
      BY <1>3, <1>8, <2>2, <2>3 DEF NodesApart
  <1>10. ThreadsApart({running'}, away', queue', pc', arg')
    <2>1. \A v \in Threads : pc'[v] \in Pending => pc[v] \in Pending
      BY <1>2 DEF Pending
    <2> QED
      BY <1>1, <1>2, <2>1, FewerPending
  <1> QED
    BY <1>1, <1>2, <1>6, <1>7, <1>9, <1>10, StepInv DEF n

(* From now on the node is in use, and in no list. *)
LEMMA MarkNodeStep ==
  ASSUME ListInv, MarkNode
  PROVE  ListInv' /\ ~fault'
  <1> DEFINE r == running
             n == node[running]
  <1>1. /\ Step("mark", "place") /\ used' = used \cup {n}
        /\ UNCHANGED <<away, list, arg, node, place, fault, queue>>
    BY DEF MarkNode
  <1>2. /\ ~fault /\ r \in Threads /\ running' = r
        /\ pc[r] = "mark" /\ pc'[r] = "place"
        /\ \A v \in Threads : v # r => pc'[v] = pc[v]
        /\ pc' \in [Threads -> Steps]
        /\ OnlyRunning(pc', running') /\ Stage = "mark" /\ Stage' = "place"
        /\ PutTypes /\ ThreadsApart({r}, away, queue, pc, arg)
        /\ \A v \in Threads : v # r => pc[v] \notin Critical
    BY <1>1, StepFacts DEF Steps, Pending
  <1>3. PICK L, c : ListInPut(L, c) /\ NodesApart(used, c, pc, node, fault)
    BY DEF ListInv
  <1>4. n \in Nodes /\ n \notin used
    BY <1>2, <1>3 DEF NodesApart
  <1>5. PutTypes'
    BY <1>1, <1>2 DEF PutTypes
  <1>6. ListInPut(L, c)'
    BY <1>1, <1>2, <1>3 DEF ListInPut
  <1>7. /\ pc'[r] \in Outside /\ pc[r] \notin Outside
        /\ \A v \in Threads : v # r /\ pc'[v] \in Outside => pc[v] \in Outside
        /\ \A v \in Threads : pc[v] \in Outside => v # r /\ pc'[v] \in Outside
        /\ \A v \in Threads : pc'[v] # "mark"
    BY <1>2 DEF Outside, Critical
  <1>8. NodesApart(used', c, pc', node', fault')
    <2> DEFINE O == {node[v] : v \in {w \in Threads : pc[w] \in Outside}}
    <2>1. {node[v] : v \in {w \in Threads : pc'[w] \in Outside}} = O \cup {n}
      BY <1>2, <1>7
    <2>2. used = Members(c) \cup O
      BY <1>3 DEF NodesApart
    <2>3. n \notin Members(c)
      BY <1>4, <2>2
    <2>4. \A v \in Threads : pc[v] \in Outside => node[v] # n
      BY <1>4, <2>2
    <2>5. used' = Members(c) \cup
                  {node[v] : v \in {w \in Threads : pc'[w] \in Outside}}
      BY <1>1, <2>1, <2>2
    <2> HIDE DEF O
    <2>6. \A v \in Threads : pc'[v] \in Outside =>
             node[v] \in Nodes /\ node[v] \notin Members(c)
      BY <1>3, <1>4, <1>7, <2>3 DEF NodesApart
    <2>7. \A v, w \in Threads :
            pc'[v] \in Outside /\ pc'[w] \in Outside /\ node[v] = node[w]
              => v = w
      BY <1>3, <1>7, <2>4 DEF NodesApart
    <2> QED
      BY <1>1, <1>7, <2>5, <2>6, <2>7 DEF NodesApart
  <1>9. ThreadsApart({running'}, away', queue', pc', arg')
    <2>1. \A v \in Threads : pc'[v] \in Pending => pc[v] \in Pending
      BY <1>2 DEF Pending
    <2> QED
      BY <1>1, <1>2, <2>1, FewerPending
  <1> QED
    BY <1>1, <1>2, <1>5, <1>6, <1>8, <1>9, StepInv

(* While a thread links its node, nodes and threads stay where they are. *)
LEMMA SameApart ==
  ASSUME NEW c, NEW p, NEW o,
         NodesApart(used, c, p, node, fault), ~fault,
         ThreadsApart({running}, away, queue, p, arg),
         \A t \in Threads :
           o[t] = p[t] \/ (p[t] \in Outside /\ o[t] \in Outside),
         UNCHANGED <<away, queue, arg, node, used, running>>, NEW f
  PROVE  /\ NodesApart(used', c, o, node', f)
         /\ ThreadsApart({running'}, away', queue', o, arg')
  <1>1. /\ \A t \in Threads : p[t] \in Outside => o[t] \in Outside
        /\ \A t \in Threads : o[t] \in Outside => p[t] \in Outside
        /\ \A t \in Threads : o[t] = "mark" => p[t] = "mark"
        /\ \A t \in Threads : o[t] \in Pending => p[t] \in Pending
    BY DEF Outside, Pending
  <1>2. {node[v] : v \in {w \in Threads : o[w] \in Outside}}
          = {node[v] : v \in {w \in Threads : p[w] \in Outside}}
    BY <1>1
  <1>3. NodesApart(used, c, o, node, f)
    BY <1>1, <1>2 DEF NodesApart
  <1>4. ThreadsApart({running}, away, queue, o, arg)
    BY <1>1, FewerPending
  <1> QED
    BY <1>3, <1>4

(* The place is that at which Put would link the node. *)
LEMMA ReadPlaceStep ==
  ASSUME ListInv, ReadPlace
  PROVE  ListInv' /\ ~fault'
  <1> DEFINE r == running
  <1>1. /\ Step("place", "link") /\ place' = [place EXCEPT ![r] = At(list)]
        /\ fault' = (list.head # Null /\ list.tail = Null)
        /\ UNCHANGED <<away, list, used, arg, node, queue>>
    BY DEF ReadPlace, At
  <1>2. /\ ~fault /\ r \in Threads /\ running' = r
        /\ pc[r] = "place" /\ pc'[r] = "link"
        /\ \A v \in Threads : v # r => pc'[v] = pc[v]
        /\ pc' \in [Threads -> Steps]
        /\ OnlyRunning(pc', running') /\ Stage = "place" /\ Stage' = "link"
        /\ PutTypes /\ ThreadsApart({r}, away, queue, pc, arg)
    BY <1>1, StepFacts DEF Steps, Pending
  <1>3. PICK L, c : ListInPut(L, c) /\ NodesApart(used, c, pc, node, fault)
    BY DEF ListInv
  <1>4. list = L /\ L \in ListType /\ Holds(L, c, queue)
    BY <1>2, <1>3 DEF ListInPut
  <1>5. ~fault'
    BY <1>1, <1>4, HeadOrTail
  <1>6. At(L) \in Nodes \cup {Null}
    BY <1>4 DEF ListType, At
  <1>7. place' \in [Threads -> Nodes \cup {Null}] /\ place'[r] = At(L)
    BY <1>1, <1>2, <1>4, <1>6 DEF PutTypes
  <1>8. PutTypes'
    BY <1>1, <1>2, <1>7 DEF PutTypes
  <1>9. ListInPut(L, c)'
    BY <1>1, <1>2, <1>4, <1>7 DEF ListInPut
  <1>10. /\ NodesApart(used', c, pc', node', fault')
         /\ ThreadsApart({running'}, away', queue', pc', arg')
    <2>1. \A t \in Threads :
            pc'[t] = pc[t] \/ (pc[t] \in Outside /\ pc'[t] \in Outside)
      BY <1>2 DEF Outside
    <2> QED
      BY <1>1, <1>2, <1>3, <2>1, SameApart
  <1> QED
    BY <1>2, <1>5, <1>8, <1>9, <1>10, StepInv

(* The list is as Attached makes it. *)
LEMMA LinkStep ==
  ASSUME ListInv, Link
  PROVE  ListInv' /\ ~fault'
  <1> DEFINE r == running
  <1>1. /\ Step("link", "tail") /\ list' = Linked(list, place[r], node[r])
        /\ UNCHANGED <<away, used, arg, node, place, fault, queue>>
    BY DEF Link
  <1>2. /\ ~fault /\ r \in Threads /\ running' = r
        /\ pc[r] = "link" /\ pc'[r] = "tail"
        /\ \A v \in Threads : v # r => pc'[v] = pc[v]
        /\ pc' \in [Threads -> Steps]
        /\ OnlyRunning(pc', running') /\ Stage = "link" /\ Stage' = "tail"
        /\ PutTypes /\ ThreadsApart({r}, away, queue, pc, arg)
    BY <1>1, StepFacts DEF Steps, Pending
  <1>3. PICK L, c : ListInPut(L, c) /\ NodesApart(used, c, pc, node, fault)
    BY DEF ListInv
  <1>4. list = L /\ L \in ListType /\ Holds(L, c, queue) /\ place[r] = At(L)
    BY <1>2, <1>3 DEF ListInPut
  <1>5. list' = Attached(L, node'[running'])
    BY <1>1, <1>2, <1>4 DEF Attached
  <1>6. PutTypes'
    BY <1>1, <1>2 DEF PutTypes
  <1>7. ListInPut(L, c)'
    BY <1>1, <1>2, <1>4, <1>5 DEF ListInPut
  <1>8. /\ NodesApart(used', c, pc', node', fault')
        /\ ThreadsApart({running'}, away', queue', pc', arg')
    <2>1. \A t \in Threads :
            pc'[t] = pc[t] \/ (pc[t] \in Outside /\ pc'[t] \in Outside)
      BY <1>2 DEF Outside
    <2> QED
      BY <1>1, <1>2, <1>3, <2>1, SameApart
  <1> QED
    BY <1>1, <1>2, <1>6, <1>7, <1>8, StepInv

(* With SetTail the thread is in the queue, and its node in the list. *)
LEMMA SetTailStep ==
  ASSUME ListInv, SetTail
  PROVE  ListInv' /\ ~fault'
  <1> DEFINE r == running
             n == node[running]
             t == arg[running]
             q == Append(queue, t)
  <1>1. /\ Step("tail", "close")
        /\ list' = [list EXCEPT !.tail = n, !.thread[n] = t]
        /\ queue' = q
        /\ UNCHANGED <<away, used, arg, node, place, fault>>
    BY DEF SetTail
  <1>2. /\ ~fault /\ r \in Threads /\ running' = r
        /\ pc[r] = "tail" /\ pc'[r] = "close"
        /\ \A v \in Threads : v # r => pc'[v] = pc[v]
        /\ pc' \in [Threads -> Steps]
        /\ OnlyRunning(pc', running') /\ Stage = "tail" /\ Stage' = "close"
        /\ PutTypes /\ ThreadsApart({r}, away, queue, pc, arg)
        /\ \A v \in Threads : v # r => pc[v] \notin Critical
    BY <1>1, StepFacts DEF Steps
  <1>3. PICK L, c : ListInPut(L, c) /\ NodesApart(used, c, pc, node, fault)
    BY DEF ListInv
  <1>4. L \in ListType /\ Holds(L, c, queue) /\ list = Attached(L, n)
    BY <1>2, <1>3 DEF ListInPut
  <1>5. /\ n \in Nodes /\ n \notin Members(c)
        /\ t \in Threads /\ t \notin away /\ t \notin Members(queue) /\ t # r
    BY <1>2, <1>3 DEF NodesApart, ThreadsApart, Outside, Pending, PutTypes
  <1>6. c \in Seq(Nodes) /\ queue \in Seq(Threads)
    BY <1>4 DEF Holds, Leads
  <1> DEFINE e == Append(c, n)
  <1>7. Members(e) = Members(c) \cup {n} /\ Members(q) = Members(queue) \cup {t}
    BY <1>5, <1>6, MembersAppend
  <1>8. q \in Seq(Threads) /\ Unique(q)
    BY <1>2, <1>5, <1>6, UniqueAppend, AppendProperties DEF ThreadsApart
  <1> HIDE DEF q, e, n, t
  <1>9. list' = Tailed(L, t, n)
    BY <1>1, <1>4 DEF Tailed
  <1>10. PICK M, d : M = Put(L, t, n) /\ d = e
    OBVIOUS
  <1>11. list' \in ListType /\ Sealed(list') = M
    <2>1. list' \in ListType /\ list'.tail = n /\ n # Null
      BY <1>4, <1>5, <1>9, HeadOrTail, TailedShape, NodesAre
    <2>2. M = Closed(list')
      BY <1>9, <1>10, PutBySteps
    <2> QED
      BY <2>1, <2>2 DEF Sealed
  <1>12. M \in ListType /\ Holds(M, d, q)
    BY <1>4, <1>5, <1>10, PutHolds DEF e, q
  <1>13. PutTypes'
    BY <1>1, <1>2 DEF PutTypes
  <1>14. ListInPut(M, d)'
    BY <1>1, <1>2, <1>11, <1>12 DEF ListInPut
  <1>15. /\ pc[r] \in Outside /\ pc'[r] \notin Outside
         /\ pc'[r] \notin Pending /\ pc[r] \in Pending
         /\ \A v \in Threads : v # r /\ pc[v] \in Outside => pc'[v] \in Outside
         /\ \A v \in Threads : pc'[v] \in Outside => v # r /\ pc[v] \in Outside
         /\ \A v \in Threads : pc'[v] \in Pending => v # r /\ pc[v] \in Pending
         /\ \A v \in Threads : pc'[v] # "mark"
    BY <1>2 DEF Outside, Pending, Critical
  <1>16. NodesApart(used', d, pc', node', fault')
    <2> DEFINE O == {node[v] : v \in {w \in Threads : pc'[w] \in Outside}}
    <2>1. {node[v] : v \in {w \in Threads : pc[w] \in Outside}} = O \cup {n}
      BY <1>2, <1>15 DEF n
    <2>2. used = Members(c) \cup (O \cup {n})
      BY <1>3, <2>1 DEF NodesApart
    <2>3. used = Members(d) \cup O
      BY <1>7, <1>10, <2>2
    <2> HIDE DEF O
    <2>4. \A v \in Threads : pc'[v] \in Outside => node[v] # n
      BY <1>2, <1>3, <1>15 DEF NodesApart, n
    <2>5. \A v \in Threads : pc'[v] \in Outside =>
             node[v] \in Nodes /\ node[v] \notin Members(d)
      BY <1>3, <1>7, <1>15, <1>10, <2>4 DEF NodesApart
    <2>6. \A v, w \in Threads :
            pc'[v] \in Outside /\ pc'[w] \in Outside /\ node[v] = node[w]
              => v = w
      BY <1>3, <1>15 DEF NodesApart
    <2> QED
      BY <1>1, <1>15, <2>3, <2>5, <2>6 DEF NodesApart, O
  <1>17. ThreadsApart({running'}, away', queue', pc', arg')
    <2>1. \A v \in Threads : pc'[v] \in Pending => arg[v] # t
      BY <1>2, <1>15 DEF ThreadsApart, t
    <2>2. \A v \in Threads : pc'[v] \in Pending =>
            arg[v] \notin away \cup Members(q) \cup {r}
      BY <1>2, <1>7, <1>15, <2>1 DEF ThreadsApart
    <2>3. \A v, w \in Threads :
            pc'[v] \in Pending /\ pc'[w] \in Pending /\ arg[v] = arg[w] => v = w
      BY <1>2, <1>15 DEF ThreadsApart
    <2>4. /\ {r} \cap away = {} /\ {r} \cap Members(q) = {}
          /\ away \cap Members(q) = {}
      BY <1>2, <1>5, <1>7 DEF ThreadsApart
    <2> QED
      BY <1>1, <1>2, <1>8, <2>2, <2>3, <2>4 DEF ThreadsApart
  <1> QED
    BY <1>1, <1>2, <1>13, <1>14, <1>16, <1>17, StepInv

(* Close finds a tail, and the list is the queue again. *)
LEMMA CloseStep ==
  ASSUME ListInv, Close, ~raced'
  PROVE  ListInv' /\ ~fault'
  <1> DEFINE r == running
  <1>1. /\ Step("close", "fix") /\ list.tail # Null /\ list' = Closed(list)
        /\ ~fault' /\ UNCHANGED <<away, used, arg, node, place, queue>>
    BY DEF Close
  <1>2. /\ ~fault /\ r \in Threads /\ running' = r
        /\ pc[r] = "close" /\ pc'[r] = "fix"
        /\ \A v \in Threads : v # r => pc'[v] = pc[v]
        /\ pc' \in [Threads -> Steps]
        /\ OnlyRunning(pc', running') /\ Stage = "close" /\ Stage' = "fix"
        /\ PutTypes /\ ThreadsApart({r}, away, queue, pc, arg)
    BY <1>1, StepFacts DEF Steps
  <1>3. PICK L, c : ListInPut(L, c) /\ NodesApart(used, c, pc, node, fault)
    BY DEF ListInv
  <1>4. list' = L /\ L \in ListType /\ Holds(L, c, queue)
    BY <1>1, <1>2, <1>3 DEF ListInPut, Sealed
  <1>5. PutTypes'
    BY <1>1, <1>2 DEF PutTypes
  <1>6. ListInPut(L, c)'
    BY <1>1, <1>2, <1>4 DEF ListInPut
  <1>7. \A v \in Threads :
          /\ pc'[v] \in Outside => pc[v] \in Outside
          /\ pc[v] \in Outside => pc'[v] \in Outside
          /\ pc'[v] = "mark" => pc[v] = "mark"
          /\ pc'[v] \in Pending => pc[v] \in Pending
    BY <1>2 DEF Outside, Pending
  <1>8. NodesApart(used', c, pc', node', fault')
    <2>1. {node[v] : v \in {w \in Threads : pc'[w] \in Outside}}
            = {node[v] : v \in {w \in Threads : pc[w] \in Outside}}
      BY <1>7
    <2>2. ~fault' /\ ~fault
      BY <1>1, <1>2
    <2> QED
      BY <1>1, <1>3, <1>7, <2>1, <2>2 DEF NodesApart
  <1>9. ThreadsApart({running'}, away', queue', pc', arg')
    BY <1>1, <1>2, <1>7, FewerPending
  <1> QED
    BY <1>1, <1>2, <1>5, <1>6, <1>8, <1>9, StepInv

(* FixHead finds a head, and drops what put had in its registers. *)
LEMMA FixHeadStep ==
  ASSUME ListInv, FixHead, ~raced'
  PROVE  ListInv' /\ ~fault'
  <1> DEFINE r == running
  <1>1. /\ Step("fix", "body")
        /\ list' = list
        /\ arg' = [arg EXCEPT ![r] = r] /\ node' = [node EXCEPT ![r] = Null]
        /\ place' = [place EXCEPT ![r] = Null]
        /\ UNCHANGED <<away, used, fault, queue>>
    BY DEF FixHead
  <1>2. /\ ~fault /\ r \in Threads /\ running' = r
        /\ pc[r] = "fix" /\ pc'[r] = "body"
        /\ \A v \in Threads : v # r => pc'[v] = pc[v]
        /\ pc' \in [Threads -> Steps]
        /\ OnlyRunning(pc', running') /\ Stage = "fix" /\ Stage' = "body"
        /\ PutTypes /\ ThreadsApart({r}, away, queue, pc, arg)
    BY <1>1, StepFacts DEF Steps
  <1>3. PICK L, c : ListInPut(L, c) /\ NodesApart(used, c, pc, node, fault)
    BY DEF ListInv
  <1>4. L \in ListType /\ Holds(L, c, queue) /\ list = L
    BY <1>2, <1>3 DEF ListInPut
  <1>5. list' = list
    BY <1>1
  <1>6. /\ arg' \in [Threads -> Threads]
        /\ node' \in [Threads -> Nodes \cup {Null}]
        /\ place' \in [Threads -> Nodes \cup {Null}]
        /\ \A v \in Threads : v # r => arg'[v] = arg[v] /\ node'[v] = node[v]
    BY <1>1, <1>2 DEF PutTypes
  <1>7. PutTypes'
    BY <1>1, <1>2, <1>6 DEF PutTypes
  <1>8. ListInPut(L, c)'
    BY <1>1, <1>2, <1>4, <1>5 DEF ListInPut
  <1>9. \A v \in Threads :
          /\ pc'[v] \in Outside =>
               v # r /\ pc[v] \in Outside /\ node'[v] = node[v]
          /\ pc[v] \in Outside => pc'[v] \in Outside /\ node'[v] = node[v]
          /\ pc'[v] \in Pending =>
               v # r /\ pc[v] \in Pending /\ arg'[v] = arg[v]
          /\ pc'[v] = "mark" => pc[v] = "mark" /\ node'[v] = node[v]
    BY <1>2, <1>6 DEF Outside, Pending
  <1>10. NodesApart(used', c, pc', node', fault')
    <2>1. {node'[v] : v \in {w \in Threads : pc'[w] \in Outside}}
            = {node[v] : v \in {w \in Threads : pc[w] \in Outside}}
      BY <1>9
    <2>2. used' = Members(c) \cup
                  {node'[v] : v \in {w \in Threads : pc'[w] \in Outside}}
      BY <1>1, <1>3, <2>1 DEF NodesApart
    <2> QED
      BY <1>1, <1>3, <1>9, <2>2 DEF NodesApart
  <1>11. ThreadsApart({running'}, away', queue', pc', arg')
    BY <1>1, <1>2, <1>9 DEF ThreadsApart
  <1> QED
    BY <1>1, <1>2, <1>7, <1>8, <1>10, <1>11, StepInv

(* Marking a thread leaves it where it is. *)
LEMMA FinishStep ==
  ASSUME ListInv, NEW t \in Threads, Finish(t)
  PROVE  ListInv' /\ ~fault'
  <1>1. UNCHANGED <<running, away, list, used, putVars, fault, queue>> /\ ~fault
    BY DEF Finish
  <1>2. UNCHANGED <<pc, arg, node, place>>
    BY <1>1 DEF putVars
  <1>3. PICK L, c : ListInPut(L, c) /\ NodesApart(used, c, pc, node, fault)
    BY DEF ListInv
  <1>4. Stage' = Stage
    BY <1>1, <1>2 DEF Stage
  <1>5. ListInPut(L, c)'
    BY <1>1, <1>2, <1>3, <1>4 DEF ListInPut
  <1>6. /\ PutTypes' /\ OnlyRunning(pc', running')
        /\ ThreadsApart({running'}, away', queue', pc', arg')
        /\ NodesApart(used', c, pc', node', fault')
    BY <1>1, <1>2, <1>3 DEF ListInv, PutTypes
  <1> QED
    BY <1>1, <1>5, <1>6, StepInv

-----------------------------------------------------------------------------
(* The list is the queue *)

(* At first the list and the queue are empty. *)
LEMMA InitList ==
  ASSUME Init
  PROVE  ListInv
  <1>1. /\ running \in Threads /\ away = Threads \ {running} /\ queue = <<>>
        /\ used = {} /\ ~fault
        /\ list = [head |-> Null, tail |-> Null,
                   next |-> [n \in Nodes |-> Null],
                   thread |-> [n \in Nodes |-> Idle]]
        /\ pc = [t \in Threads |-> "body"] /\ arg = [t \in Threads |-> t]
        /\ node = [t \in Threads |-> Null] /\ place = [t \in Threads |-> Null]
    BY DEF Init
  <1>2. /\ \A t \in Threads : pc[t] = "body"
        /\ \A t \in Threads : pc[t] \notin Pending /\ pc[t] \notin Outside
        /\ \A t \in Threads : pc[t] \notin Critical /\ pc[t] # "mark"
    BY <1>1 DEF Pending, Outside, Critical
  <1>3. Members(<<>>) = {} /\ Unique(<<>>)
    BY DEF Members, Unique
  <1>4. PutTypes
    BY <1>1, <1>2 DEF PutTypes, Steps
  <1>5. /\ ThreadsApart({running}, away, queue, pc, arg)
        /\ OnlyRunning(pc, running)
    BY <1>1, <1>2, <1>3 DEF ThreadsApart, OnlyRunning
  <1>6. NodesApart(used, <<>>, pc, node, fault)
    <2>1. {v \in Threads : pc[v] \in Outside} = {}
      BY <1>2
    <2> QED
      BY <1>1, <1>2, <1>3, <2>1 DEF NodesApart
  <1>7. list \in ListType
    BY <1>1 DEF ListType
  <1>8. Holds(list, <<>>, queue)
    BY <1>1, <1>3 DEF Holds, Leads
  <1>9. Stage = "body"
    BY <1>2 DEF Stage
  <1>10. ListInPut(list, <<>>)
    BY <1>7, <1>8, <1>9 DEF ListInPut
  <1> QED
    BY <1>4, <1>5, <1>6, <1>10 DEF ListInv

(* Every step keeps the invariant, but one that damages a put. *)
LEMMA NextList ==
  ASSUME ListInv, [Next]_vars, ~raced'
  PROVE  ListInv'
  <1>1. CASE Next
    BY <1>1, DispatchStep, WakeStep, LeaveStep, FinishStep, ReleaseStep,
       FindNodeStep, MarkNodeStep, ReadPlaceStep, LinkStep, SetTailStep,
       CloseStep, FixHeadStep DEF Next
  <1>2. CASE UNCHANGED vars
    <2>1. UNCHANGED <<running, away, finished, list, used, pc, arg, node, place,
                      fault, queue>>
      BY <1>2 DEF vars, putVars
    <2>2. PICK L, c : ListInPut(L, c) /\ NodesApart(used, c, pc, node, fault)
      BY DEF ListInv
    <2>3. ListInPut(L, c)'
      BY <2>1, <2>2 DEF ListInPut, Stage
    <2>4. /\ PutTypes' /\ OnlyRunning(pc', running')
          /\ ThreadsApart({running'}, away', queue', pc', arg')
          /\ NodesApart(used', c, pc', node', fault')
      BY <2>1, <2>2 DEF ListInv, PutTypes
    <2> QED
      BY <2>3, <2>4, StepInv
  <1> QED
    BY <1>1, <1>2

(* A handler that has hit a put is not forgotten. *)
LEMMA RacedStays ==
  ASSUME [Next]_vars, raced
  PROVE  raced'
  <1>1. CASE Next
    BY <1>1 DEF Next, Dispatch, Leave, Wake, Interrupted, Finish, Release,
       FindNode, MarkNode, ReadPlace, Link, SetTail, Close, FixHead
  <1>2. CASE UNCHANGED vars
    BY <1>2 DEF vars
  <1> QED
    BY <1>1, <1>2

(* So it holds until then. *)
LEMMA ListInvariant == Spec => [](raced \/ ListInv)
  <1>1. Init => raced \/ ListInv
    BY InitList
  <1>2. (raced \/ ListInv) /\ [Next]_vars => (raced \/ ListInv)'
    BY NextList, RacedStays
  <1> QED
    BY <1>1, <1>2, PTL DEF Spec

(* At rest it is no list in the middle of a put, so its nodes lead to the   *)
(* threads of the queue, and a put that is under way has marked its node    *)
(* and no more. *)
LEMMA ListInvGivesQueue ==
  ASSUME ListInv
  PROVE  ListIsQueue
  <1> SUFFICES ASSUME AtRest
               PROVE LET c == Chain(list) IN
                 /\ [i \in DOMAIN c |-> list.thread[c[i]]] = queue
                 /\ list.tail = IF c = <<>> THEN Null ELSE Last(c)
                 /\ used = ToSet(c) \cup
                      {node[t] : t \in {u \in Threads : pc[u] = "place"}}
    BY DEF ListIsQueue
  <1>0. ~Hit /\ Stage # "close"
    BY DEF AtRest, Hit, Stage
  <1>1. NoneCritical(pc) /\ list \in ListType /\ queue \in Seq(Threads)
    BY <1>0, HandlerFacts
  <1>2. PICK c \in Seq(Nodes) : /\ Holds(list, c, queue)
                               /\ NodesApart(used, c, pc, node, fault)
    BY <1>0, HandlerFacts
  <1>3. Chain(list) = c
    BY <1>1, <1>2, ChainIs DEF Holds
  <1>4. /\ Len(c) \in Nat /\ DOMAIN c = 1 .. Len(c)
        /\ c \in [1 .. Len(c) -> Nodes]
        /\ queue = [i \in 1 .. Len(queue) |-> queue[i]]
        /\ Len(queue) = Len(c)
    BY <1>1, <1>2, LenProperties DEF Holds
  <1>5. [i \in DOMAIN c |-> list.thread[c[i]]] = queue
    <2>1. \A i \in 1 .. Len(c) : list.thread[c[i]] = queue[i]
      BY <1>2 DEF Holds
    <2> QED
      BY <1>4, <2>1
  <1>6. list.tail = IF c = <<>> THEN Null ELSE Last(c)
    <2>1. (c = <<>> => Len(c) = 0) /\ (Len(c) = 0 => c = <<>>)
      BY <1>2, EmptySeq
    <2> QED
      BY <1>2, <2>1 DEF Holds, Last
  <1>7. ToSet(c) = Members(c)
    BY <1>4 DEF ToSet, Members
  <1>8. \A t \in Threads : /\ pc[t] \in Outside => pc[t] = "place"
                           /\ pc[t] = "place" => pc[t] \in Outside
    BY <1>1 DEF NoneCritical, Critical, Outside
  <1>9. used = ToSet(c) \cup {node[t] : t \in {u \in Threads : pc[u] = "place"}}
    <2>1. {u \in Threads : pc[u] \in Outside}
            = {u \in Threads : pc[u] = "place"}
      BY <1>8
    <2> QED
      BY <1>2, <1>7, <2>1 DEF NodesApart
  <1> QED
    BY <1>3, <1>5, <1>6, <1>9

(* Wherever interrupts come, until one hits a put the linked list of the    *)
(* ready threads holds just the threads that were put and not yet got, in   *)
(* their order, ends at tail, and no node is lost or in use twice. *)
THEOREM AlwaysTheQueue == Spec => []ListIsQueue
  <1>1. raced \/ ListInv => ListIsQueue
    BY ListInvGivesQueue DEF ListIsQueue
  <1> QED
    BY <1>1, ListInvariant, PTL

-----------------------------------------------------------------------------
(* As many nodes as threads are enough *)

(* Every node in use belongs to a thread of its own, so a thread that has   *)
(* none leaves a node for mem_alloc to find. *)
LEMMA NodeLeft ==
  ASSUME IsFiniteSet(Threads), Cardinality(Threads) <= Cardinality(Nodes),
         NEW R, NEW l, NEW c, PutTypes, Holds(l, c, queue),
         ThreadsApart(R, away, queue, pc, arg),
         NodesApart(used, c, pc, node, fault),
         NEW x \in Threads, x \notin Members(queue),
         \A t \in Threads : pc[t] \in Outside => arg[t] # x
  PROVE  FreeNode(used) # Null
  <1> DEFINE m == Len(c)
             Place(n) == CHOOSE i \in 1 .. m : c[i] = n
             Putter(n) ==
               CHOOSE t \in Threads : pc[t] \in Outside /\ node[t] = n
             f == [n \in used |-> IF n \in Members(c) THEN queue[Place(n)]
                                  ELSE arg[Putter(n)]]
             T == Threads \ {x}
  <1>1. /\ c \in Seq(Nodes) /\ m \in Nat /\ queue \in Seq(Threads)
        /\ Len(queue) = m /\ Unique(queue)
    <2>1. c \in Seq(Nodes) /\ queue \in Seq(Threads)
      BY DEF Holds, Leads
    <2> QED
      BY <2>1, LenProperties DEF Holds, ThreadsApart
  <1>2. ASSUME NEW n \in Members(c)
        PROVE  Place(n) \in 1 .. m /\ c[Place(n)] = n
    BY DEF Members
  <1>3. ASSUME NEW n \in used, n \notin Members(c)
        PROVE  Putter(n) \in Threads /\ pc[Putter(n)] \in Outside
               /\ node[Putter(n)] = n
    <2>1. \E t \in Threads : pc[t] \in Outside /\ node[t] = n
      BY <1>3 DEF NodesApart
    <2> QED
      BY <2>1
  <1>4. \A n \in used : /\ n \in Members(c) => f[n] = queue[Place(n)]
                        /\ n \notin Members(c) => f[n] = arg[Putter(n)]
    OBVIOUS
  <1> HIDE DEF Place, Putter, f
  <1>5. ASSUME NEW n \in used, n \in Members(c)
        PROVE  f[n] \in Members(queue) /\ f[n] \in Threads
    <2>1. Place(n) \in 1 .. m /\ f[n] = queue[Place(n)]
      BY <1>2, <1>4, <1>5
    <2> QED
      BY <1>1, <2>1, ElementOfSeq DEF Members
  <1>6. ASSUME NEW n \in used, n \notin Members(c)
        PROVE  f[n] \notin Members(queue) /\ f[n] \in Threads /\ f[n] # x
    <2>1. /\ f[n] = arg[Putter(n)] /\ Putter(n) \in Threads
          /\ pc[Putter(n)] \in Outside
      BY <1>3, <1>4, <1>6
    <2>2. pc[Putter(n)] \in Pending
      BY <2>1 DEF Outside, Pending
    <2> QED
      BY <2>1, <2>2 DEF ThreadsApart, PutTypes
  <1>7. \A n \in used : f[n] \in T
    BY <1>5, <1>6
  <1>8. ASSUME NEW n \in used, NEW k \in used, f[n] = f[k] PROVE n = k
    <2>1. CASE n \in Members(c)
      <3>1. k \in Members(c)
        BY <1>5, <1>6, <1>8, <2>1
      <3>2. /\ Place(n) \in 1 .. m /\ c[Place(n)] = n
            /\ Place(k) \in 1 .. m /\ c[Place(k)] = k
            /\ queue[Place(n)] = queue[Place(k)]
        BY <1>2, <1>4, <1>8, <2>1, <3>1
      <3>3. Place(n) = Place(k)
        BY <1>1, <3>2 DEF Unique
      <3> QED
        BY <3>2, <3>3
    <2>2. CASE n \notin Members(c)
      <3>1. k \notin Members(c)
        BY <1>5, <1>6, <1>8, <2>2
      <3>2. /\ Putter(n) \in Threads /\ pc[Putter(n)] \in Outside
            /\ node[Putter(n)] = n
            /\ Putter(k) \in Threads /\ pc[Putter(k)] \in Outside
            /\ node[Putter(k)] = k /\ arg[Putter(n)] = arg[Putter(k)]
        BY <1>3, <1>4, <1>8, <2>2, <3>1
      <3>3. Putter(n) = Putter(k)
        BY <3>2 DEF ThreadsApart, Outside, Pending
      <3> QED
        BY <3>2, <3>3
    <2> QED
      BY <2>1, <2>2
  <1>9. f \in Injection(used, T)
    <2>1. f \in [used -> T]
      BY <1>7 DEF f
    <2> QED
      BY <1>8, <2>1 DEF Injection, IsInjective
  <1>10. IsFiniteSet(T) /\ Cardinality(T) = Cardinality(Threads) - 1
    BY FS_RemoveElement
  <1>11. Cardinality(used) <= Cardinality(T)
    BY <1>9, <1>10, FS_Injection
  <1>12. Cardinality(Threads) \in Nat /\ Cardinality(Nodes) \in Nat
    BY ListAssumption, FS_CardinalityType
  <1>13. used \subseteq Nodes
    <2>1. Members(c) \subseteq Nodes
      BY <1>1, ElementOfSeq DEF Members
    <2> QED
      BY <2>1 DEF NodesApart
  <1>14. used # Nodes
    BY <1>10, <1>11, <1>12
  <1>15. Nodes \ used # {}
    BY <1>13, <1>14
  <1>16. Nodes \ used \in SUBSET Nat /\ Null \notin Nodes
    BY NodesAre
  <1> QED
    BY <1>15, <1>16, MinIs DEF FreeNode

(* With a node for every thread no step meets a null pointer or a cycle. *)
LEMMA NoFaultStep ==
  ASSUME IsFiniteSet(Threads), Cardinality(Threads) <= Cardinality(Nodes),
         ListInv, ~fault, Next, ~raced'
  PROVE  ~fault'
  <1>1. /\ ThreadsApart({running}, away, queue, pc, arg)
        /\ OnlyRunning(pc, running) /\ PutTypes
    BY DEF ListInv
  <1>2. PICK L, c : ListInPut(L, c) /\ NodesApart(used, c, pc, node, fault)
    BY DEF ListInv
  <1>3. Holds(L, c, queue)
    BY <1>2 DEF ListInPut
  <1>4. \A t \in Threads : pc[t] \in Outside => pc[t] \in Pending
    BY DEF Outside, Pending
  <1>5. CASE Dispatch
    <2>1. ASSUME running \in Threads PROVE FreeNode(used) # Null
      <3>1. /\ running \notin Members(queue)
            /\ \A t \in Threads : pc[t] \in Outside => arg[t] # running
        BY <1>1, <1>4 DEF ThreadsApart
      <3> QED
        BY <1>1, <1>2, <1>3, <2>1, <3>1, NodeLeft
    <2> QED
      BY <1>5, <2>1, DispatchStep
  <1>6. CASE \E t \in Threads : Wake(t)
    <2>1. PICK t \in Threads : Wake(t)
      BY <1>6
    <2>2. /\ t \notin Members(queue)
          /\ \A v \in Threads : pc[v] \in Outside => arg[v] # t
      BY <1>1, <1>4, <2>1 DEF ThreadsApart, Wake
    <2>3. FreeNode(used) # Null
      BY <1>1, <1>2, <1>3, <2>2, NodeLeft
    <2> QED
      BY <2>1, <2>3, WakeStep
  <1>7. CASE FindNode
    <2>1. running \in Threads /\ pc[running] = "alloc"
      BY <1>7 DEF FindNode, Step
    <2>2. pc[running] \in Pending /\ pc[running] \notin Outside
      BY <2>1 DEF Pending, Outside
    <2>3. /\ arg[running] \in Threads /\ arg[running] \notin Members(queue)
          /\ \A v \in Threads : pc[v] \in Outside => arg[v] # arg[running]
      BY <1>1, <1>4, <2>1, <2>2 DEF ThreadsApart, PutTypes
    <2>4. FreeNode(used) # Null
      BY <1>1, <1>2, <1>3, <2>3, NodeLeft
    <2> QED
      BY <1>7, <2>4, FindNodeStep
  <1>8. CASE \/ Leave \/ MarkNode \/ ReadPlace \/ Link \/ SetTail \/ Close
             \/ FixHead
             \/ \E t \in Threads : Finish(t) \/ Release(t)
    BY <1>8, LeaveStep, MarkNodeStep, ReadPlaceStep, LinkStep, SetTailStep,
       CloseStep, FixHeadStep, FinishStep, ReleaseStep
  <1> QED
    BY <1>5, <1>6, <1>7, <1>8 DEF Next

(* Until an interrupt hits a put, and with a node for every thread, get     *)
(* follows no cyclic list and no node without a thread, and put finds a     *)
(* node and a tail. *)
THEOREM EnoughNodes ==
  ASSUME IsFiniteSet(Threads), Cardinality(Threads) <= Cardinality(Nodes)
  PROVE  Spec => []NodesSuffice
  <1> DEFINE Inv == raced \/ (ListInv /\ ~fault)
  <1>1. Init => Inv
    BY InitList DEF Init
  <1>2. Inv /\ [Next]_vars => Inv'
    <2> SUFFICES ASSUME ListInv, ~fault, [Next]_vars, ~raced'
                 PROVE  ListInv' /\ ~fault'
      BY RacedStays
    <2>1. ListInv'
      BY NextList
    <2>2. CASE Next
      BY <2>1, <2>2, NoFaultStep
    <2>3. CASE UNCHANGED vars
      BY <2>1, <2>3 DEF vars
    <2> QED
      BY <2>2, <2>3
  <1>3. Inv => NodesSuffice
    BY DEF NodesSuffice
  <1> QED
    BY <1>1, <1>2, <1>3, PTL DEF Spec

-----------------------------------------------------------------------------
(* The scheduler is a queue of threads.  What it promises, and what Kernel *)
(* takes it for, speaks of neither nodes nor links: put appends a thread   *)
(* that does not run and is not there yet; get takes the first live thread *)
(* and drops those before it, or leaves nothing and gives the idle thread. *)

(* At first no thread is in the queue. *)
QueueInit == running \in Threads /\ finished = {} /\ queue = <<>>

(* Scheduler::put. *)
QueuePut(t) ==
  /\ t \notin Members(queue) \cup {running}
  /\ queue' = Append(queue, t) /\ UNCHANGED <<running, finished>>

(* Scheduler::get from the queue q, with its callers' idle thread. *)
QueueGet(q) ==
  /\ UNCHANGED finished
  /\ IF Live(q) = {} THEN running' = Idle /\ queue' = <<>>
     ELSE \E i \in Live(q) :
            /\ \A j \in Live(q) : i <= j
            /\ running' = q[i] /\ queue' = SubSeq(q, i + 1, Len(q))

(* A dispatch puts the running thread, and gets the next one. *)
QueueDispatch ==
  /\ running \in Threads \ (finished \cup Members(queue))
  /\ QueueGet(Append(queue, running))

(* What handlers and threads do; any thread may end at any time. *)
QueueNext ==
  \/ QueueDispatch
  \/ running \notin Members(queue) /\ QueueGet(queue)
  \/ \E t \in Threads : QueuePut(t)
  \/ /\ \E t \in Threads : finished' = finished \cup {t}
     /\ UNCHANGED <<running, queue>>

queueVars == <<running, finished, queue>>

(* get on the list does what it does on the queue. *)
LEMMA GetsFirst ==
  ASSUME NEW l, NEW c, NEW q, NEW u, Holds(l, c, q), GetFrom(l, u, q),
         UNCHANGED finished
  PROVE  QueueGet(q)
  <1> DEFINE m == Len(c)
             t == Taken(l)
             I == {i \in 1 .. Len(c) : l.thread[c[i]] \notin finished}
             J == Live(q)
  <1>1. /\ c \in Seq(Nodes) /\ q \in Seq(Threads) /\ Len(q) = m /\ m \in Nat
        /\ \A i \in 1 .. m : l.thread[c[i]] = q[i]
        /\ Chain(l) = c
    BY HeadOrTail, ChainIs DEF Holds, Leads
  <1>2. I = J
    BY <1>1 DEF Live
  <1>3. t = LET i == IF I # {} THEN Min(I) ELSE 0
            IN  IF i = 0 THEN c ELSE SubSeq(c, 1, i)
    BY <1>1 DEF Taken, SelectInSeq
  <1>4. queue' = LET i == IF J # {} THEN Min(J) ELSE 0
                 IN  IF i = 0 THEN <<>> ELSE SubSeq(q, i + 1, Len(q))
    BY DEF GetFrom, QueueRest, SelectInSeq, Live
  <1>5. running' = IF t = <<>> \/ l.thread[Last(t)] \in finished THEN Idle
                   ELSE l.thread[Last(t)]
    BY DEF GetFrom, Next1
  <1>6. J \in SUBSET Nat /\ J \subseteq 1 .. m
    BY <1>1 DEF Live
  <1>7. CASE J # {}
    <2> DEFINE k == Min(J)
    <2>1. k \in J /\ \A j \in J : k <= j
      <3> HIDE DEF J
      <3> QED
        BY <1>6, <1>7, MinIs
    <2>2. k \in 1 .. m /\ k # 0 /\ q[k] \notin finished
      BY <1>1, <1>6, <2>1 DEF Live
    <2> HIDE DEF I, J
    <2>3. t = SubSeq(c, 1, k) /\ queue' = SubSeq(q, k + 1, Len(q))
      BY <1>2, <1>3, <1>4, <1>7, <2>2
    <2> HIDE DEF k, t
    <2>4. t \in Seq(Nodes) /\ Len(t) = k /\ t[k] = c[k]
      <3>1. k \in 0 .. Len(c) /\ k \in 1 .. k
        BY <1>1, <2>2
      <3> QED
        BY <1>1, <2>3, <3>1, StartIs
    <2>5. t # <<>> /\ l.thread[Last(t)] = q[k]
      BY <1>1, <2>2, <2>4, EmptySeq DEF Last
    <2>6. running' = q[k]
      BY <1>5, <2>2, <2>5
    <2> QED
      BY <1>7, <2>1, <2>3, <2>6 DEF QueueGet, J
  <1>8. CASE J = {}
    <2> HIDE DEF I, J
    <2>1. t = c /\ queue' = <<>>
      BY <1>2, <1>3, <1>4, <1>8
    <2> HIDE DEF t
    <2>2. running' = Idle
      <3>1. CASE m = 0
        <4>1. c = <<>>
          BY <1>1, <3>1, EmptySeq
        <4> QED
          BY <1>5, <2>1, <4>1
      <3>2. CASE m # 0
        <4>1. m \in 1 .. m /\ m \notin J
          BY <1>1, <1>8, <3>2
        <4>2. q[m] \in finished /\ l.thread[c[m]] = q[m]
          BY <1>1, <4>1 DEF J, Live
        <4> QED
          BY <1>5, <2>1, <4>2 DEF Last
      <3> QED
        BY <3>1, <3>2
    <2> QED
      BY <1>8, <2>1, <2>2 DEF QueueGet, J
  <1> QED
    BY <1>7, <1>8

(* What handlers do to the queue. *)
LEMMA HandlerQueue ==
  ASSUME ListInv, Dispatch \/ Leave \/ (\E t \in Threads : Wake(t)), ~raced'
  PROVE  [QueueNext]_queueVars
  <1>1. ~Hit /\ UNCHANGED finished
    BY DEF Dispatch, Leave, Wake, Interrupted
  <1>2. /\ ThreadsApart({running}, away, queue, pc, arg) /\ PutTypes
        /\ list \in ListType /\ queue \in Seq(Threads) /\ NoneCritical(pc)
    BY <1>1, HandlerFacts
  <1>3. PICK L \in ListType, c \in Seq(Nodes) :
          /\ Holds(L, c, queue) /\ NodesApart(used, c, pc, node, fault)
          /\ L = Sealed(list) /\ (Stage # "close" => L = list)
          /\ Stage = "close" => running \notin finished
    BY <1>1, HandlerFacts
  <1>4. running \notin Members(queue)
    BY <1>2 DEF ThreadsApart
  <1>5. ASSUME GetFrom(list, used, queue), Stage # "close" PROVE QueueNext
    <2>1. QueueGet(queue)
      BY <1>1, <1>3, <1>5, GetsFirst
    <2> QED
      BY <1>4, <2>1 DEF QueueNext
  <1>6. CASE Leave
    <2>1. Stage # "close"
      BY <1>6 DEF Leave, Stage
    <2> QED
      BY <1>5, <1>6, <2>1 DEF Leave
  <1>7. CASE Dispatch
    <2> DEFINE n == FreeNode(used)
    <2>1. CASE running \in finished \cup {Idle}
      <3>1. Stage # "close"
        BY <1>3, <2>1, ListAssumption DEF Stage
      <3> QED
        BY <1>5, <1>7, <2>1, <3>1 DEF Dispatch
    <2>2. CASE running \notin finished \cup {Idle} /\ ~CanPut(list, n)
      BY <1>1, <1>7, <2>2 DEF Dispatch, queueVars
    <2>3. CASE running \notin finished \cup {Idle} /\ CanPut(list, n)
      <3> DEFINE l == Put(L, running, n)
                 d == Append(c, n)
                 q == Append(queue, running)
      <3>2. n \in Nodes /\ n \notin used
        BY <2>3, FreeNodeIs DEF CanPut
      <3>7. l = Put(list, running, n)
        <4>1. running \in Threads
          BY <1>2, <2>3 DEF PutTypes
        <4> QED
          BY <1>2, <1>3, <3>2, <4>1, PutSealed
      <3>1. GetFrom(l, used \cup {n}, q)
        BY <1>7, <2>3, <3>7 DEF Dispatch
      <3> HIDE DEF n
      <3>3. n \notin Members(c)
        BY <1>2, <1>3, <3>2, PutNodes
      <3>4. running \in Threads
        BY <1>2, <2>3 DEF PutTypes
      <3>5. Holds(l, d, q)
        BY <1>2, <1>3, <3>2, <3>3, <3>4, PutHolds
      <3> HIDE DEF l, d
      <3>6. QueueGet(q)
        <4> HIDE DEF q
        <4> QED
          BY <1>1, <3>1, <3>5, GetsFirst
      <3> QED
        BY <1>4, <2>3, <3>4, <3>6 DEF QueueNext, QueueDispatch
    <2> QED
      BY <2>1, <2>2, <2>3
  <1>8. CASE \E t \in Threads : Wake(t)
    <2>1. PICK t \in Threads : Wake(t)
      BY <1>8
    <2>2. CASE CanPut(list, FreeNode(used))
      <3>1. queue' = Append(queue, t) /\ UNCHANGED <<running, finished>>
        BY <2>1, <2>2 DEF Wake
      <3>2. t \notin Members(queue) \cup {running}
        BY <1>2, <2>1 DEF Wake, ThreadsApart
      <3> QED
        BY <3>1, <3>2 DEF QueueNext, QueuePut
    <2>3. CASE ~CanPut(list, FreeNode(used))
      BY <2>1, <2>3 DEF Wake, queueVars
    <2> QED
      BY <2>2, <2>3
  <1> QED
    BY <1>6, <1>7, <1>8

(* Of PCB::run's put, only SetTail touches the queue. *)
LEMMA ThreadCodeQueue ==
  ASSUME ListInv,
         \/ FindNode \/ MarkNode \/ ReadPlace \/ Link \/ SetTail \/ Close
         \/ FixHead \/ \E t \in Threads : Finish(t) \/ Release(t)
  PROVE  [QueueNext]_queueVars
  <1>1. CASE SetTail
    <2>1. /\ running \in Threads /\ pc[running] = "tail"
          /\ UNCHANGED <<running, finished>>
          /\ queue' = Append(queue, arg[running])
      BY <1>1 DEF SetTail, Step
    <2>2. /\ arg[running] \in Threads
          /\ arg[running] \notin Members(queue) \cup {running}
      <3>1. pc[running] \in Pending
        BY <2>1 DEF Pending
      <3> QED
        BY <2>1, <3>1 DEF ListInv, ThreadsApart, PutTypes
    <2> QED
      BY <2>1, <2>2 DEF QueueNext, QueuePut
  <1>2. CASE \E t \in Threads : Finish(t)
    BY <1>2 DEF Finish, QueueNext
  <1>3. CASE \/ FindNode \/ MarkNode \/ ReadPlace \/ Link \/ Close \/ FixHead
             \/ \E t \in Threads : Release(t)
    BY <1>3 DEF FindNode, MarkNode, ReadPlace, Link, Close, FixHead, Release,
                Step, queueVars
  <1> QED
    BY <1>1, <1>2, <1>3

(***************************************************************************)
(* ReadyList implements the queue, for any threads and any number of       *)
(* nodes, up to the step with which an interrupt first hits a put: threads *)
(* run in the order in which they were put, and none is passed over but    *)
(* those that have ended.  Interrupts may come at any step of PCB::run's   *)
(* put; those that come before the search for a node, between marking it   *)
(* and reading the place, and once tail is moved hit nothing.              *)
(***************************************************************************)
THEOREM QueueImplemented ==
  Spec => QueueInit /\ [][raced' \/ QueueNext]_queueVars
  <1>1. Init => QueueInit
    BY DEF Init, QueueInit
  <1>2. (raced \/ ListInv) /\ [Next]_vars => [raced' \/ QueueNext]_queueVars
    <2> SUFFICES ASSUME ListInv, [Next]_vars, ~raced'
                 PROVE  [QueueNext]_queueVars
      BY RacedStays
    <2>1. CASE Next
      BY <2>1, HandlerQueue, ThreadCodeQueue DEF Next
    <2>2. CASE UNCHANGED vars
      BY <2>2 DEF vars, queueVars
    <2> QED
      BY <2>1, <2>2
  <1> QED
    BY <1>1, <1>2, ListInvariant, PTL DEF Spec

-----------------------------------------------------------------------------
(***************************************************************************)
(* The lock of printing.cpp.  The threads that print, and what they share, *)
(* have nothing in common with the ready list.                             *)
(***************************************************************************)

-----------------------------------------------------------------------------
(* Types *)

(* At first every variable has its type. *)
LEMMA LockTypeInitial == LockInit => TypeOK
  BY DEF LockInit, TypeOK, Places

(* Every step keeps it. *)
LEMMA LockTypeStep == TypeOK /\ [LockNext]_lockVars => TypeOK'
  <1> SUFFICES ASSUME TypeOK, [LockNext]_lockVars PROVE TypeOK'
    OBVIOUS
  <1> USE DEF TypeOK, Goes, TrapTo
  <1>1. ASSUME NEW t \in Printers, Trap(t) PROVE TypeOK'
    BY <1>1 DEF Trap
  <1>2. ASSUME NEW t \in Printers, Call(t) PROVE TypeOK'
    BY <1>2 DEF Call, Places
  <1>3. ASSUME NEW t \in Printers, Load(t) PROVE TypeOK'
    BY <1>3 DEF Load, StoreOf, Places
  <1>4. ASSUME NEW t \in Printers, Store(t) PROVE TypeOK'
    BY <1>4 DEF Store, Done, Desired, Places
  <1>5. ASSUME NEW t \in Printers, Retry(t) PROVE TypeOK'
    BY <1>5 DEF Retry, LoadOf, Places
  <1>6. ASSUME NEW t \in Printers, Yield(t) PROVE TypeOK'
    BY <1>6 DEF Yield, Places
  <1>7. ASSUME NEW t \in Printers, EndSection(t) PROVE TypeOK'
    BY <1>7 DEF EndSection, Places
  <1>8. CASE UNCHANGED lockVars
    BY <1>8 DEF lockVars
  <1> QED
    BY <1>1, <1>2, <1>3, <1>4, <1>5, <1>6, <1>7, <1>8 DEF LockNext, PrintStep

(* Every variable keeps its type. *)
THEOREM LockTypesKept == LockSpec => []TypeOK
  BY LockTypeInitial, LockTypeStep, PTL DEF LockSpec

-----------------------------------------------------------------------------
(* Mutual exclusion.  Exclusive and WordTellsHolder are not inductive: an  *)
(* sc must find the word as the lr of its thread read it.  It does when    *)
(* the reservation is still that thread's, since every store to the word   *)
(* is an sc, and takes the reservation away.                               *)

WordRight == lockPrint = 1 <=> \E t \in Printers : lockPc[t] \in Holding

ReservedUnchanged ==
  \A t \in Printers :
    reservation = t /\ lockPc[t] \in {"lockStore", "unlockStore"} => Expected(t)

LockInv == ~stolen => AtMostOne /\ WordRight /\ ReservedUnchanged

(* At first the word is 0 and nobody has the lock. *)
LEMMA LockInitial == LockInit => LockInv
  BY DEF LockInit, LockInv, AtMostOne, WordRight, ReservedUnchanged, Holding

(* A step that leaves the word alone, and takes nobody into the places of  *)
(* a holder or out of them.                                                *)
LEMMA LockPreserved ==
  ASSUME TypeOK, LockInv, lockPrint' = lockPrint, stolen' = stolen,
         \A u \in Printers : lockPc'[u] \in Holding <=> lockPc[u] \in Holding,
         ReservedUnchanged => ReservedUnchanged'
  PROVE  LockInv'
  BY DEF LockInv, AtMostOne, WordRight

(* lr reads the word as it is. *)
LEMMA LoadSafe ==
  ASSUME TypeOK, LockInv, NEW t \in Printers, Load(t)
  PROVE  LockInv'
  <1>1. \A u \in Printers : lockPc'[u] \in Holding <=> lockPc[u] \in Holding
    BY DEF Load, Goes, StoreOf, Holding, TypeOK, Places
  <1>2. ASSUME NEW u \in Printers, reservation' = u,
               lockPc'[u] \in {"lockStore", "unlockStore"}
        PROVE  Expected(u)'
    <2>1. u = t /\ lockPrint' = lockPrint
      BY <1>2 DEF Load
    <2>2. Expected(t)
      BY <1>2, <2>1 DEF Load, Goes, TypeOK
    <2>3. lockPc'[t] \in {"lock", "lockStore"}
            <=> lockPc[t] \in {"lock", "lockStore"}
      BY <1>2, <2>1, <2>2 DEF Load, Goes, StoreOf, TypeOK
    <2> QED
      BY <2>1, <2>2, <2>3 DEF Expected
  <1> QED
    BY <1>1, <1>2, LockPreserved DEF Load, ReservedUnchanged

(* sc finds the word as its lr read it. *)
LEMMA StoreSafe ==
  ASSUME TypeOK, LockInv, NEW t \in Printers, Store(t)
  PROVE  LockInv'
  <1>1. CASE stolen'
    BY <1>1 DEF LockInv
  <1>2. CASE ~stolen'
    <2>1. ~stolen /\ reservation = t /\ reservation' = None
      BY <1>2 DEF Store, Reserved
    <2>2. AtMostOne /\ WordRight /\ Expected(t)
      BY <2>1 DEF LockInv, ReservedUnchanged, Store, Goes
    <2>3. ReservedUnchanged'
      BY <2>1, LockAssumption DEF ReservedUnchanged
    <2>4. \A u \in Printers \ {t} : lockPc'[u] = lockPc[u]
      BY DEF Store, Goes, TypeOK
    <2>5. CASE lockPc[t] = "lockStore"
      <3>1. lockPc'[t] = "section" /\ lockPrint' = 1
        BY <2>5 DEF Store, Goes, Done, Desired, TypeOK
      <3>2. \A u \in Printers : lockPc[u] \notin Holding
        BY <2>2, <2>5 DEF WordRight, Expected
      <3>3. \A u \in Printers : lockPc'[u] \in Holding <=> u = t
        BY <2>4, <3>1, <3>2 DEF Holding
      <3> QED
        BY <2>3, <3>1, <3>3 DEF LockInv, AtMostOne, WordRight
    <2>6. CASE lockPc[t] = "unlockStore"
      <3>1. lockPc'[t] = "out" /\ lockPrint' = 0
        BY <2>6 DEF Store, Goes, Done, Desired, TypeOK
      <3>2. \A u \in Printers \ {t} : lockPc[u] \notin Holding
        BY <2>2, <2>6 DEF AtMostOne, Holding
      <3>3. \A u \in Printers : lockPc'[u] \notin Holding
        BY <2>4, <3>1, <3>2 DEF Holding
      <3> QED
        BY <2>3, <3>1, <3>3 DEF LockInv, AtMostOne, WordRight
    <2> QED
      BY <2>5, <2>6 DEF Store, Goes
  <1> QED
    BY <1>1, <1>2

(* No instruction and no trap breaks the invariant. *)
LEMMA LockStep == TypeOK /\ LockInv /\ [LockNext]_lockVars => LockInv'
  <1> SUFFICES ASSUME TypeOK, LockInv, [LockNext]_lockVars PROVE LockInv'
    OBVIOUS
  <1>1. ASSUME NEW t \in Printers, Trap(t) PROVE LockInv'
    BY <1>1, LockPreserved, LockAssumption
       DEF Trap, TrapTo, ReservedUnchanged, Expected
  <1>2. ASSUME NEW t \in Printers, Call(t) PROVE LockInv'
    BY <1>2, LockPreserved
       DEF Call, Goes, Holding, ReservedUnchanged, Expected, TypeOK
  <1>3. ASSUME NEW t \in Printers, Load(t) PROVE LockInv'
    BY <1>3, LoadSafe
  <1>4. ASSUME NEW t \in Printers, Store(t) PROVE LockInv'
    BY <1>4, StoreSafe
  <1>5. ASSUME NEW t \in Printers, Retry(t) PROVE LockInv'
    BY <1>5, LockPreserved
       DEF Retry, Goes, LoadOf, Holding, ReservedUnchanged, Expected, TypeOK
  <1>6. ASSUME NEW t \in Printers, Yield(t) PROVE LockInv'
    BY <1>6, LockPreserved, LockAssumption
       DEF Yield, TrapTo, Goes, Holding, ReservedUnchanged, Expected, TypeOK
  <1>7. ASSUME NEW t \in Printers, EndSection(t) PROVE LockInv'
    BY <1>7, LockPreserved
       DEF EndSection, Goes, Holding, ReservedUnchanged, Expected, TypeOK
  <1>8. CASE UNCHANGED lockVars
    BY <1>8, LockPreserved DEF lockVars, ReservedUnchanged, Expected
  <1> QED
    BY <1>1, <1>2, <1>3, <1>4, <1>5, <1>6, <1>7, <1>8 DEF LockNext, PrintStep

(* So it holds always. *)
LEMMA LockInvariant == LockSpec => [](TypeOK /\ LockInv)
  BY LockTypeInitial, LockTypeStep, LockInitial, LockStep, PTL DEF LockSpec

(* Unless an sc has used the reservation of another thread, at most one    *)
(* thread prints or reads.                                                 *)
THEOREM LockExcludes == LockSpec => []Exclusive
  <1>1. LockInv => Exclusive
    BY DEF LockInv, Exclusive
  <1> QED
    BY <1>1, LockInvariant, PTL

(* Unless that has happened, the word is 1 exactly while a thread has the  *)
(* lock.                                                                   *)
THEOREM WordIsRight == LockSpec => []WordTellsHolder
  <1>1. LockInv => WordTellsHolder
    BY DEF LockInv, WordTellsHolder, WordRight
  <1> QED
    BY <1>1, LockInvariant, PTL

-----------------------------------------------------------------------------
(* When traps drop the reservation, it is that of the running thread.      *)
OwnReservation == ~stolen /\ reservation \in {lockRunning, None}

(* On a processor on which every trap drops the reservation, the lock      *)
(* excludes without any condition.                                         *)
THEOREM DroppingSuffices == TRUE \notin Keeps => (LockSpec => []AtMostOne)
  <1> SUFFICES ASSUME TRUE \notin Keeps PROVE LockSpec => []AtMostOne
    OBVIOUS
  <1>1. LockInit => OwnReservation
    BY DEF LockInit, OwnReservation
  <1>2. OwnReservation /\ [LockNext]_lockVars => OwnReservation'
    <2> SUFFICES ASSUME OwnReservation, [LockNext]_lockVars
                 PROVE  OwnReservation'
      OBVIOUS
    <2> USE DEF OwnReservation, Goes
    <2>1. ASSUME NEW t \in Printers, TrapTo(t) PROVE OwnReservation'
      BY <2>1, LockAssumption DEF TrapTo
    <2>2. ASSUME NEW t \in Printers, Store(t) PROVE OwnReservation'
      BY <2>2 DEF Store, Reserved
    <2>3. ASSUME NEW t \in Printers,
                 Call(t) \/ Load(t) \/ Retry(t) \/ EndSection(t)
          PROVE  OwnReservation'
      BY <2>3 DEF Call, Load, Retry, EndSection
    <2>4. CASE UNCHANGED lockVars
      BY <2>4 DEF lockVars
    <2> QED
      BY <2>1, <2>2, <2>3, <2>4 DEF LockNext, PrintStep, Trap, Yield
  <1>3. OwnReservation /\ LockInv => AtMostOne
    BY DEF OwnReservation, LockInv
  <1> QED
    BY <1>1, <1>2, <1>3, LockInvariant, PTL DEF LockSpec
=============================================================================
