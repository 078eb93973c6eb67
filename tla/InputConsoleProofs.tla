------------------------- MODULE InputConsoleProofs -------------------------
(***************************************************************************)
(* Proofs about the way of a key to getc, for any readers and any buffer.  *)
(*                                                                         *)
(* In order: lists that hold no thread twice; the ring; the inductive      *)
(* invariant (InputInv), which says where every thread is, what the values *)
(* of itemAvailable and mutexHead count, who holds mutexHead and which     *)
(* keys are in which slots, as long as no load was parted from its store;  *)
(* the steps; the two theorems.                                            *)
(***************************************************************************)
EXTENDS InputConsoleProperties, FiniteSetTheorems, SequenceTheorems, TLAPS

-----------------------------------------------------------------------------
(* Lists of threads *)

(* The thread t is in the list q; a row is a list that holds none twice. *)
In(q, t) == \E i \in 1 .. Len(q) : q[i] = t
Row(S, q) ==
  q \in Seq(S) /\ \A i, j \in 1 .. Len(q) : q[i] = q[j] => i = j

(* The empty list is a row. *)
LEMMA RowEmpty ==
  ASSUME NEW S
  PROVE  Row(S, <<>>) /\ \A u : ~In(<<>>, u)
  <1>1. Len(<<>>) = 0 /\ <<>> \in Seq(S)
    BY EmptySeq
  <1> QED
    BY <1>1 DEF Row, In

(* A thread that is not in the row is put at its end. *)
LEMMA RowAppend ==
  ASSUME NEW S, NEW q, Row(S, q), NEW t \in S, ~In(q, t)
  PROVE  /\ Row(S, Append(q, t)) /\ Len(Append(q, t)) = Len(q) + 1
         /\ \A u : In(Append(q, t), u) <=> In(q, u) \/ u = t
  <1> DEFINE a == Append(q, t)
             n == Len(q)
  <1>1. /\ n \in Nat /\ a \in Seq(S) /\ Len(a) = n + 1
        /\ \A i \in 1 .. n : a[i] = q[i]
        /\ a[n + 1] = t
    BY AppendProperties, LenProperties DEF Row
  <1>2. \A i, j \in 1 .. n : q[i] = q[j] => i = j
    BY DEF Row
  <1>3. \A i \in 1 .. n : q[i] # t
    BY DEF In
  <1> HIDE DEF a, n
  <1>4. \A i \in 1 .. (n + 1) : i \in 1 .. n \/ i = n + 1
    BY <1>1
  <1>5. Row(S, a)
    BY <1>1, <1>2, <1>3, <1>4 DEF Row
  <1>6. \A u : In(a, u) <=> (\E i \in 1 .. n : q[i] = u) \/ u = t
    <2>1. TAKE u
    <2>2. n + 1 \in 1 .. Len(a) /\ \A i \in 1 .. n : i \in 1 .. Len(a)
      BY <1>1
    <2> QED
      BY <1>1, <1>4, <2>2 DEF In
  <1> QED
    BY <1>1, <1>5, <1>6 DEF a, n, In

(* The first thread leaves the row. *)
LEMMA RowTail ==
  ASSUME NEW S, NEW q, Row(S, q), Len(q) > 0
  PROVE  /\ Row(S, Tail(q)) /\ Len(Tail(q)) = Len(q) - 1
         /\ Head(q) \in S /\ In(q, Head(q))
         /\ \A u : In(Tail(q), u) <=> In(q, u) /\ u # Head(q)
  <1> DEFINE r == Tail(q)
             n == Len(q)
             h == Head(q)
  <1>1. q \in Seq(S) /\ q # <<>> /\ n \in Nat /\ n > 0
    BY EmptySeq, LenProperties DEF Row
  <1>2. /\ r \in Seq(S) /\ Len(r) = n - 1
        /\ \A i \in 1 .. Len(r) : r[i] = q[i + 1]
        /\ h = q[1] /\ h \in S
    BY <1>1, HeadTailProperties
  <1>3. \A i, j \in 1 .. n : q[i] = q[j] => i = j
    BY DEF Row
  <1> HIDE DEF r, n, h
  <1>4. \A i \in 1 .. (n - 1) : i + 1 \in 1 .. n /\ i + 1 # 1 /\ r[i] = q[i + 1]
    BY <1>1, <1>2
  <1>5. Row(S, r)
    <2>1. SUFFICES ASSUME NEW i \in 1 .. (n - 1), NEW j \in 1 .. (n - 1),
                          r[i] = r[j]
                   PROVE  i = j
      BY <1>2 DEF Row
    <2>2. i + 1 = j + 1
      BY <1>3, <1>4, <2>1
    <2> QED
      BY <2>2
  <1>6. \A i \in 1 .. n : i = 1 \/ (i - 1 \in 1 .. (n - 1) /\ r[i - 1] = q[i])
    <2>1. TAKE i \in 1 .. n
    <2>2. SUFFICES ASSUME i # 1
                   PROVE  i - 1 \in 1 .. (n - 1) /\ r[i - 1] = q[i]
      OBVIOUS
    <2>3. i - 1 \in 1 .. (n - 1) /\ (i - 1) + 1 = i
      BY <1>1, <2>2
    <2> QED
      BY <1>4, <2>3
  <1>7. 1 \in 1 .. n
    BY <1>1
  <1>8. \A u : In(r, u) <=> (\E i \in 1 .. n : q[i] = u) /\ u # h
    <2>1. TAKE u
    <2>2. ASSUME NEW i \in 1 .. (n - 1), r[i] = u
          PROVE  (\E j \in 1 .. n : q[j] = u) /\ u # h
      <3>1. q[i + 1] = u /\ i + 1 \in 1 .. n /\ i + 1 # 1
        BY <1>4, <2>2
      <3> QED
        BY <1>2, <1>3, <1>7, <3>1
    <2>3. ASSUME NEW i \in 1 .. n, q[i] = u, u # h
          PROVE  \E j \in 1 .. (n - 1) : r[j] = u
      BY <1>2, <1>6, <2>3
    <2> QED
      BY <1>2, <2>2, <2>3 DEF In
  <1> QED
    BY <1>2, <1>5, <1>7, <1>8 DEF r, n, h, In

(* The first i threads leave the row. *)
LEMMA RowRest ==
  ASSUME NEW S, NEW q, Row(S, q), NEW i \in 1 .. Len(q)
  PROVE  /\ Row(S, SubSeq(q, i + 1, Len(q)))
         /\ q[i] \in S /\ In(q, q[i]) /\ ~In(SubSeq(q, i + 1, Len(q)), q[i])
         /\ \A u : In(SubSeq(q, i + 1, Len(q)), u) => In(q, u)
  <1> DEFINE n == Len(q)
             r == SubSeq(q, i + 1, n)
  <1>1. q \in Seq(S) /\ n \in Nat /\ q[i] \in S
    BY LenProperties, ElementOfSeq DEF Row
  <1>2. \A j \in (i + 1) .. n : q[j] \in S
    BY <1>1, ElementOfSeq
  <1>3. \A j, k \in 1 .. n : q[j] = q[k] => j = k
    BY DEF Row
  <1>4. i \in 1 .. n
    OBVIOUS
  <1> HIDE DEF n
  <1>5. /\ r \in Seq(S)
        /\ Len(r) = (IF i + 1 <= n THEN n - (i + 1) + 1 ELSE 0)
        /\ \A j \in 1 .. (n - (i + 1) + 1) : r[j] = q[(i + 1) + j - 1]
    BY <1>1, <1>2, <1>4, SubSeqProperties
  <1> HIDE DEF r
  <1>6. Len(r) = n - i /\ \A j \in 1 .. (n - i) : j + i \in 1 .. n /\ j + i # i
    <2>1. Len(r) = (IF i + 1 <= n THEN n - (i + 1) + 1 ELSE 0)
      BY <1>5
    <2>2. n \in Nat
      BY <1>1
    <2> QED
      BY <1>4, <2>1, <2>2
  <1>7. \A j \in 1 .. (n - i) : r[j] = q[j + i]
    <2>1. TAKE j \in 1 .. (n - i)
    <2>2. j \in 1 .. (n - (i + 1) + 1) /\ (i + 1) + j - 1 = j + i
      BY <1>1, <1>4
    <2> QED
      BY <1>5, <2>2
  <1>8. Row(S, r)
    <2>1. SUFFICES ASSUME NEW j \in 1 .. (n - i), NEW k \in 1 .. (n - i),
                          r[j] = r[k]
                   PROVE  j = k
      BY <1>5, <1>6 DEF Row
    <2>2. j + i = k + i
      BY <1>3, <1>6, <1>7, <2>1
    <2> QED
      BY <1>4, <2>2
  <1>9. \A u : In(r, u) => (\E j \in 1 .. n : q[j] = u) /\ u # q[i]
    BY <1>3, <1>4, <1>6, <1>7 DEF In
  <1> QED
    BY <1>1, <1>4, <1>8, <1>9 DEF r, n, In

-----------------------------------------------------------------------------
(* The ring *)

(* The slot i places behind h, in a ring of k + 1 slots. *)
Slot(k, h, i) == IF h + i <= k THEN h + i ELSE h + i - (k + 1)

(* Of the keys a, those read, r, are the first, and the c next ones are in *)
(* the slots of b from h to t.                                             *)
Ring(k, h, t, c, b, a, r) ==
  /\ h \in 0 .. k /\ c \in 0 .. (k + 1) /\ t = Slot(k, h, c)
  /\ b \in [0 .. k -> Int] /\ a \in Seq(Int) /\ r \in Seq(Int)
  /\ Len(a) = Len(r) + c
  /\ \A i \in 1 .. Len(r) : r[i] = a[i]
  /\ \A i \in 0 .. (c - 1) : b[Slot(k, h, i)] = a[Len(r) + 1 + i]

(* One step around the ring. *)
LEMMA Advanced ==
  ASSUME NEW k \in Nat, NEW x \in 0 .. k
  PROVE  (x + 1) % (k + 1) = IF x = k THEN 0 ELSE x + 1
  OBVIOUS

(* Its number. *)
LEMMA SlotIn ==
  ASSUME NEW k \in Nat, NEW h \in 0 .. k, NEW i \in 0 .. (k + 1)
  PROVE  Slot(k, h, i) \in 0 .. k
  BY DEF Slot

(* The first slot, and the step of head. *)
LEMMA SlotFirst ==
  ASSUME NEW k \in Nat, NEW h \in 0 .. k
  PROVE  Slot(k, h, 0) = h /\ (h + 1) % (k + 1) = Slot(k, h, 1)
  BY Advanced DEF Slot

(* The step of tail. *)
LEMMA SlotNext ==
  ASSUME NEW k \in Nat, NEW h \in 0 .. k, NEW c \in 0 .. k
  PROVE  (Slot(k, h, c) + 1) % (k + 1) = Slot(k, h, c + 1)
  <1> DEFINE x == Slot(k, h, c)
  <1>1. x \in 0 .. k /\ (IF x = k THEN 0 ELSE x + 1) = Slot(k, h, c + 1)
    BY DEF Slot
  <1> HIDE DEF x
  <1> QED
    BY <1>1, Advanced DEF x

(* The slot behind the last key is none of the keys' slots. *)
LEMMA SlotFree ==
  ASSUME NEW k \in Nat, NEW h \in 0 .. k, NEW c \in 0 .. k, NEW i \in 0 .. (c - 1)
  PROVE  Slot(k, h, i) # Slot(k, h, c)
  BY DEF Slot

(* The slots as seen from behind the first one. *)
LEMMA SlotShift ==
  ASSUME NEW k \in Nat, NEW h \in 0 .. k, NEW i \in 0 .. k
  PROVE  Slot(k, Slot(k, h, 1), i) = Slot(k, h, i + 1)
  BY DEF Slot

(* A key is put into the slot behind the last one. *)
LEMMA RingPut ==
  ASSUME NEW k \in Nat, NEW h, NEW t, NEW c, NEW b, NEW a, NEW r, NEW x \in Int,
         Ring(k, h, t, c, b, a, r), c < k + 1
  PROVE  Ring(k, h, (t + 1) % (k + 1), c + 1, [b EXCEPT ![t] = x],
              Append(a, x), r)
  <1> DEFINE e == Append(a, x)
             d == [b EXCEPT ![t] = x]
             m == Len(r)
             n == Len(a)
  <1>1. /\ h \in 0 .. k /\ c \in 0 .. (k + 1) /\ t = Slot(k, h, c)
        /\ b \in [0 .. k -> Int] /\ a \in Seq(Int) /\ r \in Seq(Int)
        /\ n = m + c /\ m \in Nat /\ n \in Nat
        /\ \A i \in 1 .. m : r[i] = a[i]
        /\ \A i \in 0 .. (c - 1) : b[Slot(k, h, i)] = a[m + 1 + i]
    BY LenProperties DEF Ring
  <1>2. /\ e \in Seq(Int) /\ Len(e) = n + 1 /\ e[n + 1] = x
        /\ \A i \in 1 .. n : e[i] = a[i]
    <2>1. a \in Seq(Int)
      BY <1>1
    <2> QED
      BY <2>1, AppendProperties
  <1>3. /\ \A i \in 0 .. (k + 1) : Slot(k, h, i) \in 0 .. k
        /\ (t + 1) % (k + 1) = Slot(k, h, c + 1)
        /\ \A i \in 0 .. (c - 1) : Slot(k, h, i) # t
    <2>1. c \in 0 .. k
      BY <1>1
    <2>2. (Slot(k, h, c) + 1) % (k + 1) = Slot(k, h, c + 1)
      BY <1>1, <2>1, SlotNext
    <2> QED
      BY <1>1, <2>1, <2>2, SlotIn, SlotFree
  <1>4. t \in 0 .. k
    BY <1>1, <1>3
  <1>5. d \in [0 .. k -> Int] /\ d[t] = x /\ \A i \in (0 .. k) \ {t} : d[i] = b[i]
    BY <1>1, <1>4
  <1> HIDE DEF e, d, m, n
  <1>6. c + 1 \in 0 .. (k + 1) /\ n + 1 = m + (c + 1)
    BY <1>1
  <1>7. \A i \in 1 .. m : r[i] = e[i]
    BY <1>1, <1>2
  <1>8. \A i \in 0 .. c : d[Slot(k, h, i)] = e[m + 1 + i]
    <2>1. TAKE i \in 0 .. c
    <2>2. CASE i = c
      <3>1. m + 1 + c = n + 1
        BY <1>1
      <3>2. d[Slot(k, h, c)] = x
        BY <1>1, <1>5
      <3> QED
        BY <1>2, <2>2, <3>1, <3>2
    <2>3. CASE i # c
      <3>1. i \in 0 .. (c - 1) /\ i \in 0 .. (k + 1) /\ m + 1 + i \in 1 .. n
        BY <1>1, <2>3
      <3>2. d[Slot(k, h, i)] = b[Slot(k, h, i)]
        BY <1>3, <1>5, <3>1
      <3> QED
        BY <1>1, <1>2, <3>1, <3>2
    <2> QED
      BY <2>2, <2>3
  <1>9. (c + 1) - 1 = c
    BY <1>1
  <1> QED
    BY <1>1, <1>2, <1>3, <1>5, <1>6, <1>7, <1>8, <1>9 DEF Ring, e, d, m, n

(* The first key is read. *)
LEMMA RingTake ==
  ASSUME NEW k \in Nat, NEW h, NEW t, NEW c, NEW b, NEW a, NEW r,
         Ring(k, h, t, c, b, a, r), c > 0
  PROVE  Ring(k, (h + 1) % (k + 1), t, c - 1, b, a, Append(r, b[h]))
  <1> DEFINE e == Append(r, b[h])
             m == Len(r)
             g == (h + 1) % (k + 1)
  <1>1. /\ h \in 0 .. k /\ c \in 0 .. (k + 1) /\ t = Slot(k, h, c)
        /\ b \in [0 .. k -> Int] /\ a \in Seq(Int) /\ r \in Seq(Int)
        /\ Len(a) = m + c /\ m \in Nat
        /\ \A i \in 1 .. m : r[i] = a[i]
        /\ \A i \in 0 .. (c - 1) : b[Slot(k, h, i)] = a[m + 1 + i]
    BY LenProperties DEF Ring
  <1>2. /\ \A i \in 0 .. (k + 1) : Slot(k, h, i) \in 0 .. k
        /\ Slot(k, h, 0) = h /\ g = Slot(k, h, 1)
        /\ \A i \in 0 .. (c - 1) : Slot(k, g, i) = Slot(k, h, i + 1)
    <2>1. \A i \in 0 .. (k + 1) : Slot(k, h, i) \in 0 .. k
      BY <1>1, SlotIn
    <2>4. \A i \in 0 .. (c - 1) : i \in 0 .. k
      BY <1>1
    <2>2. Slot(k, h, 0) = h /\ (h + 1) % (k + 1) = Slot(k, h, 1)
      BY <1>1, SlotFirst
    <2>3. \A i \in 0 .. k : Slot(k, Slot(k, h, 1), i) = Slot(k, h, i + 1)
      BY <1>1, SlotShift
    <2> QED
      BY <2>1, <2>2, <2>3, <2>4
  <1>3. b[h] \in Int
    BY <1>1
  <1>4. /\ e \in Seq(Int) /\ Len(e) = m + 1 /\ e[m + 1] = b[h]
        /\ \A i \in 1 .. m : e[i] = r[i]
    <2>1. r \in Seq(Int)
      BY <1>1
    <2> QED
      BY <1>3, <2>1, AppendProperties
  <1> HIDE DEF e, m, g
  <1>5. /\ c - 1 \in 0 .. (k + 1) /\ Len(a) = (m + 1) + (c - 1)
        /\ 1 \in 0 .. (k + 1) /\ 0 \in 0 .. (c - 1) /\ c - 1 \in 0 .. (c - 1)
    BY <1>1
  <1>6. g \in 0 .. k /\ t = Slot(k, g, c - 1)
    <2>1. Slot(k, g, c - 1) = Slot(k, h, (c - 1) + 1) /\ (c - 1) + 1 = c
      BY <1>1, <1>2, <1>5
    <2> QED
      BY <1>1, <1>2, <1>5, <2>1
  <1>7. b[h] = a[m + 1]
    BY <1>1, <1>2, <1>5
  <1>8. \A i \in 1 .. (m + 1) : e[i] = a[i]
    <2>1. TAKE i \in 1 .. (m + 1)
    <2>2. i \in 1 .. m \/ i = m + 1
      BY <1>1
    <2> QED
      BY <1>1, <1>4, <1>7, <2>2
  <1>9. \A i \in 0 .. (c - 1 - 1) : b[Slot(k, g, i)] = a[(m + 1) + 1 + i]
    <2>1. TAKE i \in 0 .. (c - 1 - 1)
    <2>2. /\ i \in 0 .. (c - 1) /\ i + 1 \in 0 .. (c - 1)
          /\ (m + 1) + 1 + i = m + 1 + (i + 1)
      BY <1>1
    <2> QED
      BY <1>1, <1>2, <2>2
  <1> QED
    BY <1>1, <1>4, <1>5, <1>6, <1>8, <1>9 DEF Ring, e, m, g

(* What is read is a prefix of what was put. *)
LEMMA RingPrefix ==
  ASSUME NEW k, NEW h, NEW t, NEW c, NEW b, NEW a, NEW r, Ring(k, h, t, c, b, a, r),
         c \in Nat
  PROVE  IsPrefix(r, a)
  <1> DEFINE m == Len(r)
             s == SubSeq(r, 1, m)
             u == SubSeq(a, 1, m)
  <1>1. /\ a \in Seq(Int) /\ r \in Seq(Int) /\ Len(a) = m + c /\ m \in Nat
        /\ \A i \in 1 .. m : r[i] = a[i]
    BY LenProperties DEF Ring
  <1>2. \A i \in 1 .. m : r[i] \in Int /\ i \in 1 .. Len(a) /\ a[i] \in Int
    <2>1. TAKE i \in 1 .. m
    <2>2. i \in 1 .. Len(a)
      BY <1>1
    <2> QED
      BY <1>1, <2>2, ElementOfSeq
  <1>3. /\ s \in Seq(Int) /\ Len(s) = (IF 1 <= m THEN m - 1 + 1 ELSE 0)
        /\ \A i \in 1 .. (m - 1 + 1) : s[i] = r[1 + i - 1]
    BY <1>1, <1>2, SubSeqProperties
  <1>4. /\ u \in Seq(Int) /\ Len(u) = (IF 1 <= m THEN m - 1 + 1 ELSE 0)
        /\ \A i \in 1 .. (m - 1 + 1) : u[i] = a[1 + i - 1]
    BY <1>1, <1>2, SubSeqProperties
  <1> HIDE DEF s, u, m
  <1>5. Len(s) = m /\ Len(u) = m
    BY <1>1, <1>3, <1>4
  <1>6. \A i \in 1 .. m : s[i] = u[i]
    <2>1. TAKE i \in 1 .. m
    <2>2. i \in 1 .. (m - 1 + 1) /\ 1 + i - 1 = i
      BY <1>1
    <2> QED
      BY <1>1, <1>3, <1>4, <2>2
  <1>7. s = u
    BY <1>3, <1>4, <1>5, <1>6, SeqEqual
  <1> QED
    BY <1>1, <1>7 DEF IsPrefix, s, u, m

-----------------------------------------------------------------------------
(* The inductive invariant *)

Threads == Readers \cup {Out}

(* A thread is running, or once in the ready list, or once in the list of  *)
(* a semaphore, which tells where in getcB it is.                          *)
RowsRight(r, q, w, x, p) ==
  /\ r \in Threads \cup {Idle} /\ p \in [Readers -> Places]
  /\ Row(Threads, q) /\ ~In(q, r)
  /\ Row(Readers, w) /\ ~In(w, r)
  /\ \A u : In(w, u) => ~In(q, u) /\ u \in Readers /\ p[u] = "item"
  /\ Row(Readers, x) /\ ~In(x, r)
  /\ \A u : In(x, u) => ~In(q, u) /\ u \in Readers /\ p[u] = "mutex"

(* The value of a semaphore tells how many wait. *)
ValueRight(w, v) == v \in Int /\ Len(w) = IF v < 0 THEN -v ELSE 0

(* The places of readers that have a key coming, and such readers.         *)
Coming == {"item", "mutex", "count"}
ReleasedOf(p, w) == {u \in Readers : p[u] \in Coming /\ ~In(w, u)}

KeysRight(c, v, w, p) == c = v + Len(w) + Cardinality(ReleasedOf(p, w))

(* The reader h, if not Idle, holds mutexHead, and the others past its     *)
(* value-- wait for it; only the interruptible reader e is in the middle   *)
(* of it, and what it has loaded, g, is still so.                          *)
MutexHeld(h, p, x, e, m, g, c) ==
  /\ h \in Readers \cup {Idle} /\ ~In(x, h)
  /\ \A u \in Readers : p[u] \in Locked <=> u = h \/ In(x, u)
  /\ m \in Int /\ Len(x) \in Nat
  /\ h = Idle => m = 1 /\ Len(x) = 0
  /\ h # Idle => m = (IF p[h] = "deblock" THEN 1 ELSE 0) - Len(x)
  /\ h # Idle => p[h] = "mutex" \/ e = h
  /\ h # Idle /\ p[h] = "count" => g = c
  /\ h # Idle /\ p[h] = "value" => g = m
  /\ h # Idle /\ p[h] = "deblock" => Len(x) > 0
  /\ e \in Readers \cup {Out, Idle}
  /\ e \in Readers => p[e] = "item" \/ e = h
  /\ e = Out \/ (e \in Readers /\ p[e] = "item") => h = Idle

(* A key that is read but not counted off. *)
Uncounted(e, p) == IF e \in Readers /\ p[e] = "count" THEN 1 ELSE 0

InputRing(n) ==
  Ring(buff_size - 1, head, tail, count - n, buffer, accepted, taken)

Right ==
  /\ RowsRight(running, ready, waiting, mutexWaiting, place)
  /\ ValueRight(waiting, value) /\ KeysRight(count, value, waiting, place)
  /\ count \in Int /\ InputRing(Uncounted(enabled, place))
  /\ \E h : MutexHeld(h, place, mutexWaiting, enabled, mutexValue, register,
                      count)

InputInv == ~raced => Right

-----------------------------------------------------------------------------
(* The released readers *)

LEMMA ReleasedFinite ==
  ASSUME NEW p, NEW w
  PROVE  /\ IsFiniteSet(ReleasedOf(p, w))
         /\ Cardinality(ReleasedOf(p, w)) \in Nat
  <1>1. ReleasedOf(p, w) \in SUBSET Readers
    BY DEF ReleasedOf
  <1> QED
    BY <1>1, InputAssumption, FS_Subset, FS_CardinalityType

(* A reader that waits for no key moves to another place. *)
LEMMA ReleasedMoves ==
  ASSUME NEW p \in [Readers -> Places], NEW w, NEW t \in Readers, ~In(w, t),
         NEW l \in Places
  PROVE  Cardinality(ReleasedOf([p EXCEPT ![t] = l], w))
           = Cardinality(ReleasedOf(p, w))
               + (IF l \in Coming THEN 1 ELSE 0)
               - (IF p[t] \in Coming THEN 1 ELSE 0)
  <1> DEFINE R == ReleasedOf(p, w)
             n == Cardinality(R)
             S == ReleasedOf([p EXCEPT ![t] = l], w)
  <1>1. IsFiniteSet(R) /\ n \in Nat
    BY ReleasedFinite
  <1>2. t \in R <=> p[t] \in Coming
    BY DEF ReleasedOf
  <1>3. S = IF l \in Coming THEN R \cup {t} ELSE R \ {t}
    BY DEF ReleasedOf
  <1> HIDE DEF R, S
  <1>4. Cardinality(R \cup {t}) = IF p[t] \in Coming THEN n ELSE n + 1
    BY <1>1, <1>2, FS_AddElement
  <1>5. Cardinality(R \ {t}) = IF p[t] \in Coming THEN n - 1 ELSE n
    BY <1>1, <1>2, FS_RemoveElement
  <1> HIDE DEF n
  <1>6. Cardinality(S) = n + (IF l \in Coming THEN 1 ELSE 0)
                           - (IF p[t] \in Coming THEN 1 ELSE 0)
    BY <1>1, <1>3, <1>4, <1>5
  <1> QED
    BY <1>6 DEF n, R, S

(* A released reader has a key in the buffer. *)
LEMMA KeyForReleased ==
  ASSUME NEW v, NEW w, NEW p, NEW c, NEW t, ValueRight(w, v),
         KeysRight(c, v, w, p), t \in ReleasedOf(p, w)
  PROVE  c \in Int /\ c > 0
  <1> DEFINE R == ReleasedOf(p, w)
  <1>1. IsFiniteSet(R) /\ Cardinality(R) \in Nat
    BY ReleasedFinite
  <1> HIDE DEF R
  <1>2. /\ Cardinality(R \ {t}) = Cardinality(R) - 1
        /\ Cardinality(R \ {t}) \in Nat
    BY <1>1, FS_RemoveElement, FS_CardinalityType DEF R
  <1>3. v \in Int /\ Len(w) = IF v < 0 THEN -v ELSE 0
    BY DEF ValueRight
  <1>4. c = v + Len(w) + Cardinality(R)
    BY DEF KeysRight, R
  <1> QED
    BY <1>1, <1>2, <1>3, <1>4

-----------------------------------------------------------------------------
(* The lists *)

(* Scheduler::get takes the next thread from a row. *)
LEMMA SwitchRows ==
  ASSUME NEW q, Row(Threads, q), SwitchFrom(q)
  PROVE  /\ running' \in Threads \cup {Idle}
         /\ Row(Threads, ready') /\ ~In(ready', running')
         /\ running' = Idle \/ In(q, running')
         /\ \A u : In(ready', u) => In(q, u)
  <1>1. CASE \E i \in DOMAIN q :
               /\ running' = q[i] /\ ready' = SubSeq(q, i + 1, Len(q))
    <2>1. DOMAIN q = 1 .. Len(q)
      BY LenProperties DEF Row
    <2>2. PICK i \in 1 .. Len(q) :
            running' = q[i] /\ ready' = SubSeq(q, i + 1, Len(q))
      BY <1>1, <2>1
    <2> QED
      BY <2>2, RowRest
  <1>2. CASE running' = Idle /\ ready' = <<>>
    <2>1. ~In(q, Idle)
      <3>1. \A i \in 1 .. Len(q) : q[i] \in Threads
        BY ElementOfSeq DEF Row
      <3> QED
        BY <3>1, InputAssumption DEF In, Threads
    <2> QED
      BY <1>2, <2>1, RowEmpty
  <1> QED
    BY <1>1, <1>2 DEF SwitchFrom

(* After it, the lists are right if they were with the row q for the ready *)
(* and the running threads.                                                *)
LEMMA SwitchKeeps ==
  ASSUME NEW q, NEW w, NEW x, NEW p, SwitchFrom(q), Row(Threads, q),
         p \in [Readers -> Places], Row(Readers, w), Row(Readers, x),
         \A u : In(w, u) => ~In(q, u) /\ u \in Readers /\ p[u] = "item",
         \A u : In(x, u) => ~In(q, u) /\ u \in Readers /\ p[u] = "mutex"
  PROVE  RowsRight(running', ready', w, x, p)
  <1>1. /\ running' \in Threads \cup {Idle}
        /\ Row(Threads, ready') /\ ~In(ready', running')
        /\ running' = Idle \/ In(q, running')
        /\ \A u : In(ready', u) => In(q, u)
    BY SwitchRows
  <1>2. ~In(w, running') /\ ~In(x, running')
    BY <1>1, InputAssumption
  <1> QED
    BY <1>1, <1>2 DEF RowsRight

(* The running reader goes from one place to another. *)
LEMMA MoveKeeps ==
  ASSUME NEW r, NEW q, NEW w, NEW x, NEW p, RowsRight(r, q, w, x, p),
         r \in Readers, NEW l \in Places
  PROVE  RowsRight(r, q, w, x, [p EXCEPT ![r] = l])
  <1>1. \A u \in Readers : u # r => [p EXCEPT ![r] = l][u] = p[u]
    BY DEF RowsRight
  <1>2. [p EXCEPT ![r] = l] \in [Readers -> Places]
    BY DEF RowsRight
  <1> QED
    BY <1>1, <1>2 DEF RowsRight

(* mutexHead's first waiter goes to the ready list. *)
LEMMA DeblockRows ==
  ASSUME NEW r, NEW q, NEW w, NEW x, NEW p, RowsRight(r, q, w, x, p),
         Len(x) > 0
  PROVE  /\ RowsRight(r, Append(q, Head(x)), w, Tail(x), p)
         /\ Len(Tail(x)) = Len(x) - 1 /\ In(x, Head(x)) /\ Head(x) \in Readers
         /\ \A u : In(Tail(x), u) <=> In(x, u) /\ u # Head(x)
  <1> DEFINE t == Head(x)
             y == Tail(x)
  <1>1. /\ Row(Readers, y) /\ Len(y) = Len(x) - 1 /\ t \in Readers /\ In(x, t)
        /\ \A u : In(y, u) <=> In(x, u) /\ u # t
    BY RowTail DEF RowsRight
  <1> HIDE DEF t, y
  <1>2. ~In(q, t) /\ t \in Threads /\ Row(Threads, q)
    BY <1>1 DEF RowsRight, Threads
  <1>3. /\ Row(Threads, Append(q, t))
        /\ \A u : In(Append(q, t), u) <=> In(q, u) \/ u = t
    BY <1>2, RowAppend
  <1>4. /\ ~In(Append(q, t), r) /\ ~In(y, r)
        /\ \A u : In(y, u) => ~In(Append(q, t), u)
      BY <1>1, <1>3 DEF RowsRight
  <1>5. \A u : In(w, u) => ~In(Append(q, t), u)
    <2>1. ~In(w, t)
      BY <1>1 DEF RowsRight
    <2> QED
      BY <1>3, <2>1 DEF RowsRight
  <1>6. RowsRight(r, Append(q, t), w, y, p)
    BY <1>1, <1>3, <1>4, <1>5 DEF RowsRight
  <1> QED
    BY <1>1, <1>6 DEF t, y

(* itemAvailable's first waiter does, and has a key coming. *)
LEMMA SignalRows ==
  ASSUME NEW r, NEW q, NEW w, NEW x, NEW p, RowsRight(r, q, w, x, p),
         Len(w) > 0
  PROVE  /\ RowsRight(r, Append(q, Head(w)), Tail(w), x, p)
         /\ Len(Tail(w)) = Len(w) - 1
         /\ Cardinality(ReleasedOf(p, Tail(w)))
              = Cardinality(ReleasedOf(p, w)) + 1
  <1> DEFINE t == Head(w)
             y == Tail(w)
  <1>1. /\ Row(Readers, y) /\ Len(y) = Len(w) - 1 /\ t \in Readers /\ In(w, t)
        /\ \A u : In(y, u) <=> In(w, u) /\ u # t
    BY RowTail DEF RowsRight
  <1> HIDE DEF t, y
  <1>2. ~In(q, t) /\ t \in Threads /\ Row(Threads, q) /\ p[t] = "item"
    BY <1>1 DEF RowsRight, Threads
  <1>3. /\ Row(Threads, Append(q, t))
        /\ \A u : In(Append(q, t), u) <=> In(q, u) \/ u = t
    BY <1>2, RowAppend
  <1>4. /\ ~In(Append(q, t), r) /\ ~In(y, r)
        /\ \A u : In(y, u) => ~In(Append(q, t), u)
      BY <1>1, <1>3 DEF RowsRight
  <1>5. \A u : In(x, u) => ~In(Append(q, t), u)
    <2>1. ~In(x, t)
      BY <1>2 DEF RowsRight
    <2> QED
      BY <1>3, <2>1 DEF RowsRight
  <1>6. RowsRight(r, Append(q, t), y, x, p)
    BY <1>1, <1>3, <1>4, <1>5 DEF RowsRight
  <1>7. /\ ReleasedOf(p, y) = ReleasedOf(p, w) \cup {t}
        /\ t \notin ReleasedOf(p, w)
    BY <1>1, <1>2 DEF ReleasedOf, Coming
  <1>8. Cardinality(ReleasedOf(p, y)) = Cardinality(ReleasedOf(p, w)) + 1
    BY <1>7, ReleasedFinite, FS_AddElement
  <1> QED
    BY <1>1, <1>6, <1>8 DEF t, y

-----------------------------------------------------------------------------
(* mutexHead *)

(* A reader that is not past its value-- goes to a place that is not.      *)
LEMMA MutexAside ==
  ASSUME NEW p \in [Readers -> Places], NEW h, NEW x, NEW e, NEW m, NEW g,
         NEW c, NEW d, MutexHeld(h, p, x, e, m, g, c),
         NEW t \in Readers, t # e, p[t] \notin Locked,
         NEW l \in {"user", "item"}, h = Idle \/ d = c
  PROVE  MutexHeld(h, [p EXCEPT ![t] = l], x, e, m, g, d)
  <1> DEFINE o == [p EXCEPT ![t] = l]
  <1>1. o[t] = l /\ \A u \in Readers : u # t => o[u] = p[u]
    OBVIOUS
  <1>2. l \notin Locked /\ ~In(x, t) /\ h # t
    BY DEF Locked, MutexHeld
  <1> HIDE DEF o
  <1>3. \A u \in Readers : o[u] \in Locked <=> u = h \/ In(x, u)
    BY <1>1, <1>2 DEF MutexHeld
  <1>4. h # Idle => h \in Readers /\ o[h] = p[h]
    BY <1>1, <1>2 DEF MutexHeld
  <1>5. e \in Readers => o[e] = p[e]
    BY <1>1
  <1> QED
    BY <1>3, <1>4, <1>5 DEF MutexHeld, o

(* Nobody is past it when the value is positive. *)
LEMMA MutexFree ==
  ASSUME NEW h, NEW p, NEW x, NEW e, NEW m, NEW g, NEW c,
         MutexHeld(h, p, x, e, m, g, c), m > 0
  PROVE  h = Idle /\ \A u \in Readers : p[u] \notin Locked
  <1>1. h = Idle
    <2>1. SUFFICES ASSUME h # Idle PROVE FALSE
      OBVIOUS
    <2>2. m = (IF p[h] = "deblock" THEN 1 ELSE 0) - Len(x) /\ Len(x) \in Nat
      BY <2>1 DEF MutexHeld
    <2>3. p[h] = "deblock" => Len(x) > 0
      BY <2>1 DEF MutexHeld
    <2> QED
      BY <2>2, <2>3
  <1>2. \A u : ~In(x, u)
    <2>1. Len(x) = 0
      BY <1>1 DEF MutexHeld
    <2> QED
      BY <2>1 DEF In
  <1> QED
    BY <1>1, <1>2, InputAssumption DEF MutexHeld

(* A reader that finds it held waits. *)
LEMMA MutexQueues ==
  ASSUME NEW p \in [Readers -> Places], NEW h, NEW x, NEW y, NEW e, NEW m,
         NEW g, NEW c, MutexHeld(h, p, x, e, m, g, c),
         NEW t \in Readers, t # e, p[t] \notin Locked, m <= 0,
         ~(e \in Readers /\ p[e] = "value"),
         Len(y) = Len(x) + 1, \A u : In(y, u) <=> In(x, u) \/ u = t
  PROVE  MutexHeld(h, [p EXCEPT ![t] = "mutex"], y, e, m - 1, g, c)
  <1> DEFINE o == [p EXCEPT ![t] = "mutex"]
  <1>1. o[t] = "mutex" /\ \A u \in Readers : u # t => o[u] = p[u]
    OBVIOUS
  <1>2. /\ "mutex" \in Locked /\ ~In(x, t) /\ h # t /\ h # Idle
        /\ h \in Readers /\ m \in Int /\ Len(x) \in Nat
    BY DEF Locked, MutexHeld
  <1> HIDE DEF o
  <1>3. \A u \in Readers : o[u] \in Locked <=> u = h \/ In(y, u)
    BY <1>1, <1>2 DEF MutexHeld
  <1>4. o[h] = p[h] /\ (e \in Readers => o[e] = p[e]) /\ ~In(y, h)
    BY <1>1, <1>2 DEF MutexHeld
  <1>5. m = (IF p[h] = "deblock" THEN 1 ELSE 0) - Len(x)
    BY <1>2 DEF MutexHeld
  <1>6. m - 1 = (IF p[h] = "deblock" THEN 1 ELSE 0) - Len(y)
        /\ m - 1 \in Int /\ Len(y) \in Nat /\ Len(y) > 0
    BY <1>2, <1>5
  <1>7. p[h] # "value"
    BY <1>2 DEF MutexHeld
  <1>8. /\ o[h] = "mutex" \/ e = h
        /\ o[h] = "count" => g = c
        /\ e \in Readers \cup {Out, Idle}
        /\ e \in Readers => o[e] = "item" \/ e = h
        /\ ~(e = Out \/ (e \in Readers /\ o[e] = "item"))
    BY <1>2, <1>4 DEF MutexHeld
  <1>9. MutexHeld(h, o, y, e, m - 1, g, c)
    BY <1>2, <1>3, <1>4, <1>6, <1>7, <1>8 DEF MutexHeld
  <1> QED
    BY <1>9 DEF o

(* The holder t goes to the place l without letting it go. *)
LEMMA MutexStays ==
  ASSUME NEW p \in [Readers -> Places], NEW x, NEW e, NEW m, NEW g,
         NEW c, MutexHeld(e, p, x, e, m, g, c), e \in Readers,
         p[e] # "deblock", NEW l \in {"count", "unlock", "value"}, NEW f, NEW d,
         l = "count" => f = d, l = "value" => f = m
  PROVE  MutexHeld(e, [p EXCEPT ![e] = l], x, e, m, f, d)
  <1> DEFINE o == [p EXCEPT ![e] = l]
  <1>1. o[e] = l /\ \A u \in Readers : u # e => o[u] = p[u]
    OBVIOUS
  <1>2. l \in Locked /\ e # Idle /\ e # Out
    BY InputAssumption DEF Locked
  <1> HIDE DEF o
  <1>3. \A u \in Readers : o[u] \in Locked <=> u = e \/ In(x, u)
    BY <1>1, <1>2 DEF MutexHeld
  <1> QED
    BY <1>1, <1>2, <1>3 DEF MutexHeld, o

(* The holder t leaves getcB, and nobody waits. *)
LEMMA MutexLeft ==
  ASSUME NEW p \in [Readers -> Places], NEW x, NEW e, NEW m, NEW g,
         NEW c, NEW t, MutexHeld(t, p, x, e, m, g, c), t \in Readers,
         Len(x) = 0, NEW d, NEW f
  PROVE  MutexHeld(Idle, [p EXCEPT ![t] = "user"], x, Idle, 1, f, d)
  <1> DEFINE o == [p EXCEPT ![t] = "user"]
  <1>1. o[t] = "user" /\ \A u \in Readers : u # t => o[u] = p[u]
    OBVIOUS
  <1>2. "user" \notin Locked /\ \A u : ~In(x, u)
    BY DEF Locked, In
  <1> HIDE DEF o
  <1>3. \A u \in Readers : o[u] \in Locked <=> u = Idle \/ In(x, u)
    BY <1>1, <1>2, InputAssumption DEF MutexHeld
  <1> QED
    BY <1>2, <1>3, InputAssumption DEF MutexHeld, o

(* The holder t leaves getcB and hands it to the first that waits. *)
LEMMA MutexHanded ==
  ASSUME NEW p \in [Readers -> Places], NEW x, NEW y, NEW e, NEW m, NEW g,
         NEW c, NEW t, MutexHeld(t, p, x, e, m, g, c), t \in Readers,
         NEW b \in Readers, In(x, b), p[b] = "mutex",
         Len(x) > 0, Len(y) = Len(x) - 1,
         \A u : In(y, u) <=> In(x, u) /\ u # b, NEW d, NEW f
  PROVE  MutexHeld(b, [p EXCEPT ![t] = "user"], y, Idle, 1 - Len(x), f, d)
  <1> DEFINE o == [p EXCEPT ![t] = "user"]
  <1>1. o[t] = "user" /\ \A u \in Readers : u # t => o[u] = p[u]
    OBVIOUS
  <1>2. "user" \notin Locked /\ b # t /\ b # Idle /\ Len(x) \in Nat
    BY InputAssumption DEF Locked, MutexHeld
  <1> HIDE DEF o
  <1>3. \A u \in Readers : o[u] \in Locked <=> u = b \/ In(y, u)
    BY <1>1, <1>2 DEF MutexHeld
  <1>4. o[b] = "mutex" /\ ~In(y, b)
    BY <1>1, <1>2
  <1>5. /\ 1 - Len(x) \in Int /\ Len(y) \in Nat
        /\ 1 - Len(x) = 0 - Len(y)
    BY <1>2
  <1> QED
    BY <1>2, <1>3, <1>4, <1>5, InputAssumption DEF MutexHeld, o

-----------------------------------------------------------------------------
(* The steps: the threads *)

(* Dispatch moves threads between running and the ready list. *)
LEMMA DispatchKeeps ==
  ASSUME Right, Dispatch, ~raced'
  PROVE  Right'
  <1> DEFINE q == IF running \in finished \cup {Idle} THEN ready
                  ELSE Append(ready, running)
  <1>1. RowsRight(running, ready, waiting, mutexWaiting, place)
    BY DEF Right
  <1>2. /\ SwitchFrom(q)
        /\ UNCHANGED <<enabled, place, value, waiting, mutexVars, register,
                       bufferVars>>
    BY DEF Dispatch
  <1>3. Row(Threads, q) /\ \A u : In(q, u) => In(ready, u) \/ u = running
    <2>1. CASE running \in finished \cup {Idle}
      BY <1>1, <2>1 DEF RowsRight
    <2>2. CASE running \notin finished \cup {Idle}
      <3>1. running \in Threads /\ q = Append(ready, running)
        BY <1>1, <2>2 DEF RowsRight
      <3>2. Row(Threads, ready) /\ ~In(ready, running)
        BY <1>1 DEF RowsRight
      <3> QED
        BY <3>1, <3>2, RowAppend
    <2> QED
      BY <2>1, <2>2
  <1> HIDE DEF q
  <1>4. PICK w, x, o : w = waiting /\ x = mutexWaiting /\ o = place
    OBVIOUS
  <1>5. /\ o \in [Readers -> Places] /\ Row(Readers, w) /\ Row(Readers, x)
        /\ \A u : In(w, u) => ~In(q, u) /\ u \in Readers /\ o[u] = "item"
        /\ \A u : In(x, u) => ~In(q, u) /\ u \in Readers /\ o[u] = "mutex"
    BY <1>1, <1>3, <1>4 DEF RowsRight
  <1>6. RowsRight(running', ready', w, x, o)
    BY <1>2, <1>3, <1>5, SwitchKeeps
  <1>7. RowsRight(running', ready', waiting', mutexWaiting', place')
    BY <1>2, <1>4, <1>6 DEF mutexVars
  <1> QED
    BY <1>2, <1>7 DEF Right, KeysRight, InputRing, bufferVars, mutexVars

(* The list that the running thread leaves. *)
LEMMA LeavesRows ==
  ASSUME RowsRight(running, ready, waiting, mutexWaiting, place),
         SwitchFrom(ready)
  PROVE  RowsRight(running', ready', waiting, mutexWaiting, place)
  <1>1. PICK w, x, o : w = waiting /\ x = mutexWaiting /\ o = place
    OBVIOUS
  <1>2. /\ o \in [Readers -> Places] /\ Row(Readers, w) /\ Row(Readers, x)
        /\ \A u : In(w, u) => ~In(ready, u) /\ u \in Readers /\ o[u] = "item"
        /\ \A u : In(x, u) => ~In(ready, u) /\ u \in Readers /\ o[u] = "mutex"
        /\ Row(Threads, ready)
    BY <1>1 DEF RowsRight
  <1>3. RowsRight(running', ready', w, x, o)
    BY <1>2, SwitchKeeps
  <1> QED
    BY <1>1, <1>3

(* The output thread's interrupts go to a reader that waits for nothing,   *)
(* or to nobody in getcB; until then nobody held mutexHead.                *)
LEMMA OutBlocksKeeps ==
  ASSUME Right, OutBlocks
  PROVE  Right'
  <1>1. /\ SwitchFrom(ready) /\ enabled = Out
        /\ enabled' = IF running' \in Readers /\ place[running'] # "user"
                      THEN running' ELSE Idle
        /\ UNCHANGED <<place, value, waiting, mutexVars, register, bufferVars>>
    BY DEF OutBlocks
  <1>2. RowsRight(running', ready', waiting, mutexWaiting, place)
    BY <1>1, LeavesRows DEF Right
  <1>3. PICK h : MutexHeld(h, place, mutexWaiting, enabled, mutexValue,
                           register, count)
    BY DEF Right
  <1>4. h = Idle /\ \A u \in Readers : place[u] \notin Locked
    <2>1. h = Idle
      BY <1>1, <1>3 DEF MutexHeld
    <2>2. Len(mutexWaiting) = 0
      BY <1>3, <2>1 DEF MutexHeld
    <2>3. \A u : ~In(mutexWaiting, u)
      BY <2>2 DEF In
    <2> QED
      BY <1>3, <2>1, <2>3, InputAssumption DEF MutexHeld
  <1>5. MutexHeld(Idle, place, mutexWaiting, enabled', mutexValue, register,
                  count)
    <2>1. /\ enabled' \in Readers \cup {Out, Idle} /\ enabled' # Out
          /\ enabled' \in Readers => place[enabled'] # "user"
      BY <1>1, InputAssumption
    <2>2. enabled' \in Readers => place[enabled'] = "item"
      BY <1>4, <2>1 DEF Right, RowsRight, Places
    <2> QED
      BY <1>3, <1>4, <2>1, <2>2 DEF MutexHeld
  <1>6. Uncounted(enabled, place) = 0 /\ Uncounted(enabled', place) = 0
    BY <1>1, <1>4, InputAssumption DEF Uncounted, Locked
  <1>7. \E g : MutexHeld(g, place', mutexWaiting', enabled', mutexValue',
                         register', count')
    BY <1>1, <1>5 DEF mutexVars, bufferVars
  <1>8. InputRing(Uncounted(enabled, place))'
    <2>1. InputRing(0)'
      BY <1>1, <1>6 DEF Right, InputRing, bufferVars
    <2>2. (Uncounted(enabled, place))' = 0
      BY <1>1, <1>6 DEF Uncounted
    <2> QED
      BY <2>1, <2>2 DEF InputRing
  <1>9. RowsRight(running', ready', waiting', mutexWaiting', place')
    BY <1>1, <1>2 DEF mutexVars
  <1>10. /\ ValueRight(waiting', value') /\ count' \in Int
         /\ KeysRight(count', value', waiting', place')
    BY <1>1 DEF Right, bufferVars
  <1> QED
    BY <1>7, <1>8, <1>9, <1>10 DEF Right

-----------------------------------------------------------------------------
(* The steps: keys *)

(* A key is put into the buffer, and one reader released if any waits. *)
LEMMA KeyKeeps ==
  ASSUME Right, Key, ~raced'
  PROVE  Right'
  <1> DEFINE k == buff_size - 1
             c == Len(accepted) + 1
  <1>1. /\ count < buff_size /\ SignalItem
        /\ buffer' = [buffer EXCEPT ![tail] = c]
        /\ tail' = (tail + 1) % buff_size
        /\ count' = (count + 1) % CountModulus
        /\ accepted' = Append(accepted, c)
        /\ UNCHANGED <<running, enabled, place, mutexVars, register, head,
                       taken>>
        /\ ~Inside(enabled, "count")
    BY DEF Key, putcB, Room
  <1>2. Uncounted(enabled, place) = 0 /\ count \in Int /\ count - 0 = count
    BY <1>1 DEF Uncounted, Inside, Right
  <1>3. Ring(k, head, tail, count, buffer, accepted, taken)
    BY <1>2 DEF Right, InputRing
  <1>4. k \in Nat /\ buff_size = k + 1 /\ c \in Int /\ count \in 0 .. (k + 1)
    BY <1>3, InputAssumption, LenProperties DEF Ring
  <1>5. count' = count + 1
    <2>1. count + 1 \in 0 .. (CountModulus - 1) /\ CountModulus \in Nat \ {0}
      BY <1>1, <1>4, InputAssumption
    <2> QED
      BY <1>1, <2>1
  <1> HIDE DEF k, c
  <1>6. Ring(k, head, (tail + 1) % (k + 1), count + 1,
             [buffer EXCEPT ![tail] = c], Append(accepted, c), taken)
    BY <1>1, <1>3, <1>4, RingPut
  <1>7. InputRing(Uncounted(enabled, place))'
    <2>1. (count + 1) - 0 = count + 1 /\ (Uncounted(enabled, place))' = 0
      BY <1>1, <1>2, <1>4 DEF Uncounted
    <2> QED
      BY <1>1, <1>4, <1>5, <1>6, <2>1 DEF InputRing, k
  <1>8. /\ RowsRight(running, ready, waiting, mutexWaiting, place)
        /\ ValueRight(waiting, value) /\ KeysRight(count, value, waiting, place)
    BY DEF Right
  <1> DEFINE n == Cardinality(ReleasedOf(place, waiting))
  <1>9. /\ RowsRight(running, ready', waiting', mutexWaiting, place)
        /\ ValueRight(waiting', value')
        /\ value' + Len(waiting') + Cardinality(ReleasedOf(place, waiting'))
             = value + Len(waiting) + n + 1
    <2>1. /\ value \in Int /\ Len(waiting) = IF value < 0 THEN -value ELSE 0
          /\ value' = value + 1 /\ n \in Nat
      BY <1>1, <1>8, ReleasedFinite DEF ValueRight, SignalItem
    <2>2. CASE value < 0
      <3>1. waiting' = Tail(waiting) /\ ready' = Append(ready, Head(waiting))
        BY <1>1, <2>2 DEF SignalItem
      <3>2. PICK q, w, x, o : /\ q = ready /\ w = waiting /\ o = place
                              /\ x = mutexWaiting
        OBVIOUS
      <3>3. RowsRight(running, q, w, x, o) /\ Len(w) > 0
        BY <1>8, <2>1, <2>2, <3>2
      <3>4. /\ RowsRight(running, Append(q, Head(w)), Tail(w), x, o)
            /\ Len(Tail(w)) = Len(w) - 1
            /\ Cardinality(ReleasedOf(o, Tail(w)))
                 = Cardinality(ReleasedOf(o, w)) + 1
        BY <3>3, SignalRows
      <3>5. /\ RowsRight(running, ready', waiting', mutexWaiting, place)
            /\ Len(waiting') = Len(waiting) - 1
            /\ Cardinality(ReleasedOf(place, waiting')) = n + 1
        BY <3>1, <3>2, <3>4
      <3> QED
        BY <2>1, <2>2, <3>5 DEF ValueRight
    <2>3. CASE value >= 0
      <3>1. UNCHANGED <<waiting, ready>>
        BY <1>1, <2>1, <2>3 DEF SignalItem
      <3> QED
        BY <1>8, <2>1, <2>3, <3>1 DEF ValueRight
    <2> QED
      BY <2>1, <2>2, <2>3
  <1>10. KeysRight(count', value', waiting', place')
    <2>1. count = value + Len(waiting) + n
      BY <1>8 DEF KeysRight
    <2>2. value + Len(waiting) + n \in Int
      BY <1>4, <2>1
    <2> HIDE DEF n
    <2> QED
      BY <1>1, <1>5, <1>9, <2>1 DEF KeysRight
  <1>11. PICK h : MutexHeld(h, place, mutexWaiting, enabled, mutexValue,
                            register, count)
    BY DEF Right
  <1>12. h # Idle => place[h] # "count"
    BY <1>1, <1>11 DEF MutexHeld, Inside
  <1>13. MutexHeld(h, place, mutexWaiting, enabled, mutexValue, register,
                   count')
    BY <1>11, <1>12 DEF MutexHeld
  <1>14. \E g : MutexHeld(g, place', mutexWaiting', enabled', mutexValue',
                          register', count')
    BY <1>1, <1>13 DEF mutexVars
  <1>15. RowsRight(running', ready', waiting', mutexWaiting', place')
    BY <1>1, <1>9 DEF mutexVars
  <1> QED
    BY <1>4, <1>5, <1>7, <1>9, <1>10, <1>14, <1>15 DEF Right

-----------------------------------------------------------------------------
(* The steps: getc with the interrupts off *)

(* The first key of a buffer that has one is read: of the n in it by head  *)
(* and tail, n - 1 remain.                                                 *)
LEMMA TakeRing ==
  ASSUME Ring(buff_size - 1, head, tail, count, buffer, accepted, taken),
         Take, count > 0
  PROVE  /\ Ring(buff_size - 1, head', tail', count - 1, buffer', accepted',
                 taken')
         /\ count \in 0 .. buff_size
  <1> DEFINE k == buff_size - 1
  <1>1. Ring(k, head, tail, count, buffer, accepted, taken)
    OBVIOUS
  <1>2. k \in Nat /\ buff_size = k + 1 /\ count \in 0 .. buff_size
    BY <1>1, InputAssumption DEF Ring
  <1>3. /\ taken' = Append(taken, buffer[head])
        /\ head' = (head + 1) % buff_size
        /\ UNCHANGED <<tail, buffer, accepted>>
    BY DEF Take
  <1> HIDE DEF k
  <1>4. Ring(k, (head + 1) % (k + 1), tail, count - 1, buffer, accepted,
             Append(taken, buffer[head]))
    BY <1>1, <1>2, RingTake
  <1> QED
    BY <1>2, <1>3, <1>4 DEF k

(* count-- of a number that is not 0. *)
LEMMA CountedOff ==
  ASSUME NEW c \in Int, c - 1 \in 0 .. buff_size
  PROVE  (c - 1) % CountModulus = c - 1
  <1>1. c - 1 \in 0 .. (CountModulus - 1) /\ CountModulus \in Nat \ {0}
    BY InputAssumption
  <1> QED
    BY <1>1

LEMMA TakeKeeps ==
  ASSUME InputRing(0), TakeKey, count > 0, count \in Int
  PROVE  InputRing(0)' /\ count' = count - 1 /\ count' \in Int
  <1>1. count - 0 = count /\ Take /\ count' = (count - 1) % CountModulus
    BY DEF TakeKey
  <1>2. /\ Ring(buff_size - 1, head', tail', count - 1, buffer', accepted',
                taken')
        /\ count \in 0 .. buff_size
    BY <1>1, TakeRing DEF InputRing
  <1>3. count' = count - 1 /\ count' - 0 = count'
    <2>1. count \in Int /\ count - 1 \in 0 .. buff_size
      BY <1>2, InputAssumption
    <2>2. (count - 1) % CountModulus = count - 1
      BY <2>1, CountedOff
    <2> QED
      BY <1>1, <2>1, <2>2
  <1> QED
    BY <1>2, <1>3 DEF InputRing

(* A reader with a key passes mutexHead, to the end of getcB. *)
LEMMA ThroughKeeps ==
  ASSUME Right, Through, running \in Readers, place[running] \notin Locked,
         running # enabled, count > 0, UNCHANGED <<enabled, waiting, register>>
  PROVE  /\ RowsRight(running', ready', waiting', mutexWaiting', place')
         /\ count' = count - 1 /\ InputRing(Uncounted(enabled, place))'
         /\ \E h : MutexHeld(h, place', mutexWaiting', enabled', mutexValue',
                             register', count')
         /\ place' = [place EXCEPT ![running] = "user"]
  <1>1. /\ mutexValue > 0 /\ TakeKey
        /\ place' = [place EXCEPT ![running] = "user"]
        /\ UNCHANGED <<running, ready, mutexVars>>
    BY DEF Through, Goes
  <1>2. PICK h : MutexHeld(h, place, mutexWaiting, enabled, mutexValue,
                           register, count)
    BY DEF Right
  <1>3. h = Idle /\ \A u \in Readers : place[u] \notin Locked
    BY <1>1, <1>2, MutexFree
  <1>4. /\ RowsRight(running, ready, waiting, mutexWaiting, place)
        /\ place \in [Readers -> Places]
    BY DEF Right, RowsRight
  <1>5. Uncounted(enabled, place) = 0 /\ (Uncounted(enabled, place))' = 0
    <2>1. \A u \in Readers : place[u] # "count" /\ place'[u] # "count"
      BY <1>1, <1>3, <1>4 DEF Locked
    <2> QED
      BY <2>1 DEF Uncounted
  <1>6. InputRing(0)' /\ count' = count - 1
    BY <1>1, <1>5, TakeKeeps DEF Right
  <1>7. InputRing(Uncounted(enabled, place))'
    BY <1>5, <1>6 DEF InputRing
  <1>8. PICK p, q, w, x, r : /\ p = place /\ q = ready /\ w = waiting
                             /\ x = mutexWaiting /\ r = running
    OBVIOUS
  <1>9. RowsRight(r, q, w, x, [p EXCEPT ![r] = "user"])
    <2>1. "user" \in Places
      BY DEF Places
    <2> QED
      BY <1>4, <1>8, <2>1, MoveKeeps
  <1>10. RowsRight(running', ready', waiting', mutexWaiting', place')
    BY <1>1, <1>8, <1>9 DEF mutexVars
  <1>11. \E g : MutexHeld(g, place', mutexWaiting', enabled', mutexValue',
                          register', count')
    <2>1. PICK e, m, g, c, d : /\ e = enabled /\ m = mutexValue /\ d = count'
                               /\ g = register /\ c = count
      OBVIOUS
    <2>2. /\ MutexHeld(h, p, x, e, m, g, c) /\ p \in [Readers -> Places]
          /\ r \in Readers /\ r # e /\ p[r] \notin Locked
      BY <1>2, <1>4, <1>8, <2>1
    <2>3. MutexHeld(h, [p EXCEPT ![r] = "user"], x, e, m, g, d)
      BY <1>3, <2>2, MutexAside
    <2> QED
      BY <1>1, <1>8, <2>1, <2>3 DEF mutexVars
  <1> QED
    BY <1>1, <1>6, <1>7, <1>10, <1>11

(* Or finds it held, and waits. *)
LEMMA QueuesKeeps ==
  ASSUME Right, Queues, running \in Readers, place[running] \notin Locked,
         running # enabled, ~raced', UNCHANGED <<enabled, waiting, register>>
  PROVE  /\ RowsRight(running', ready', waiting', mutexWaiting', place')
         /\ count' = count /\ InputRing(Uncounted(enabled, place))'
         /\ \E h : MutexHeld(h, place', mutexWaiting', enabled', mutexValue',
                             register', count')
         /\ place' = [place EXCEPT ![running] = "mutex"]
  <1>1. /\ mutexValue <= 0 /\ mutexValue' = mutexValue - 1
        /\ mutexWaiting' = Append(mutexWaiting, running)
        /\ place' = [place EXCEPT ![running] = "mutex"]
        /\ SwitchFrom(ready) /\ UNCHANGED bufferVars
        /\ ~Inside(enabled, "value")
    BY DEF Queues, Goes
  <1>2. PICK p, w, x, r, y : /\ p = place /\ w = waiting /\ y = mutexWaiting'
                             /\ x = mutexWaiting /\ r = running
    OBVIOUS
  <1>3. /\ p \in [Readers -> Places] /\ Row(Threads, ready) /\ ~In(ready, r)
        /\ Row(Readers, w) /\ ~In(w, r) /\ Row(Readers, x) /\ ~In(x, r)
        /\ \A u : In(w, u) => ~In(ready, u) /\ u \in Readers /\ p[u] = "item"
        /\ \A u : In(x, u) => ~In(ready, u) /\ u \in Readers /\ p[u] = "mutex"
        /\ r \in Readers /\ p[r] \notin Locked
    BY <1>2 DEF Right, RowsRight
  <1> DEFINE o == [p EXCEPT ![r] = "mutex"]
  <1>4. /\ o \in [Readers -> Places] /\ o[r] = "mutex"
        /\ \A u \in Readers : u # r => o[u] = p[u]
    BY <1>3 DEF Places, Locked
  <1> HIDE DEF o
  <1>5. /\ Row(Readers, y) /\ Len(y) = Len(x) + 1
        /\ \A u : In(y, u) <=> In(x, u) \/ u = r
    BY <1>1, <1>2, <1>3, RowAppend
  <1>6. /\ \A u : In(w, u) => ~In(ready, u) /\ u \in Readers /\ o[u] = "item"
        /\ \A u : In(y, u) => ~In(ready, u) /\ u \in Readers /\ o[u] = "mutex"
    BY <1>3, <1>4, <1>5
  <1>7. RowsRight(running', ready', w, y, o)
    BY <1>1, <1>3, <1>4, <1>5, <1>6, SwitchKeeps
  <1>8. RowsRight(running', ready', waiting', mutexWaiting', place')
    BY <1>1, <1>2, <1>7 DEF o
  <1>9. \E h : MutexHeld(h, place', mutexWaiting', enabled', mutexValue',
                         register', count')
    <2>1. PICK h, e, m, g, c : /\ e = enabled /\ m = mutexValue
                               /\ g = register /\ c = count
                               /\ MutexHeld(h, p, x, e, m, g, c)
      BY <1>2 DEF Right
    <2>2. r # e /\ m <= 0 /\ ~(e \in Readers /\ p[e] = "value")
      BY <1>1, <1>2, <2>1 DEF Inside
    <2>3. MutexHeld(h, o, y, e, m - 1, g, c)
      BY <1>3, <1>5, <2>1, <2>2, MutexQueues DEF o
    <2> QED
      BY <1>1, <1>2, <2>1, <2>3 DEF o, bufferVars
  <1>10. InputRing(Uncounted(enabled, place))'
    <2>1. (Uncounted(enabled, place))' = Uncounted(enabled, place)
      <3>1. enabled' = enabled /\ enabled # r
        BY <1>2
      <3>2. place' = o
        BY <1>1, <1>2 DEF o
      <3> QED
        BY <1>2, <1>4, <3>1, <3>2 DEF Uncounted
    <2> QED
      BY <1>1, <2>1 DEF Right, InputRing, bufferVars
  <1> QED
    BY <1>1, <1>8, <1>9, <1>10 DEF bufferVars

(* How many readers are released when the running one has moved. *)
LEMMA RunningMoves ==
  ASSUME RowsRight(running, ready, waiting, mutexWaiting, place),
         running \in Readers, NEW l \in Places, Goes(running, l),
         waiting' = waiting
  PROVE  /\ Cardinality(ReleasedOf(place', waiting'))
              = Cardinality(ReleasedOf(place, waiting))
                  + (IF l \in Coming THEN 1 ELSE 0)
                  - (IF place[running] \in Coming THEN 1 ELSE 0)
         /\ Cardinality(ReleasedOf(place', waiting')) \in Nat
         /\ Cardinality(ReleasedOf(place, waiting)) \in Nat
  <1>1. PICK p, w, r : p = place /\ w = waiting /\ r = running
    OBVIOUS
  <1>2. p \in [Readers -> Places] /\ r \in Readers /\ ~In(w, r)
    BY <1>1 DEF RowsRight
  <1>3. Cardinality(ReleasedOf([p EXCEPT ![r] = l], w))
          = Cardinality(ReleasedOf(p, w)) + (IF l \in Coming THEN 1 ELSE 0)
              - (IF p[r] \in Coming THEN 1 ELSE 0)
    BY <1>2, ReleasedMoves
  <1>4. /\ Cardinality(ReleasedOf(p, w)) \in Nat
        /\ Cardinality(ReleasedOf([p EXCEPT ![r] = l], w)) \in Nat
    BY ReleasedFinite
  <1>5. place' = [p EXCEPT ![r] = l] /\ waiting' = w
    BY <1>1 DEF Goes
  <1> QED
    BY <1>1, <1>3, <1>4, <1>5

(* semWait has found a key: nobody waits, and the value is positive. *)
LEMMA PassesKeeps ==
  ASSUME Right, GetcPasses, ~raced'
  PROVE  Right'
  <1> DEFINE n == Cardinality(ReleasedOf(place, waiting))
             N == Cardinality(ReleasedOf(place', waiting'))
  <1>1. /\ running \in Readers /\ place[running] = "user" /\ value > 0
        /\ value' = value - 1
        /\ Through \/ Queues
        /\ UNCHANGED <<enabled, waiting, register>>
    BY DEF GetcPasses, InUser
  <1>2. /\ RowsRight(running, ready, waiting, mutexWaiting, place)
        /\ ValueRight(waiting, value) /\ count = value + Len(waiting) + n
        /\ count \in Int
    BY DEF Right, KeysRight
  <1>3. running # enabled /\ place[running] \notin Locked
    <2>1. PICK h : MutexHeld(h, place, mutexWaiting, enabled, mutexValue,
                             register, count)
      BY DEF Right
    <2> QED
      BY <1>1, <2>1 DEF MutexHeld, Locked
  <1>4. value \in Int /\ Len(waiting) = 0 /\ n \in Nat
    BY <1>1, <1>2, ReleasedFinite DEF ValueRight
  <1>5. count > 0
    BY <1>1, <1>2, <1>4
  <1>6. ValueRight(waiting', value')
    BY <1>1, <1>4 DEF ValueRight
  <1>7. /\ RowsRight(running', ready', waiting', mutexWaiting', place')
        /\ InputRing(Uncounted(enabled, place))'
        /\ \E h : MutexHeld(h, place', mutexWaiting', enabled', mutexValue',
                            register', count')
        /\ \/ /\ count' = count - 1
              /\ place' = [place EXCEPT ![running] = "user"]
           \/ /\ count' = count
              /\ place' = [place EXCEPT ![running] = "mutex"]
    BY <1>1, <1>3, <1>5, ThroughKeeps, QueuesKeeps
  <1>8. count' - count + 1 = N - n /\ N \in Nat /\ count' \in Int
    <2>1. N \in Nat
      BY ReleasedFinite
    <2>2. ASSUME NEW l \in Places, Goes(running, l)
          PROVE  N = n + (IF l \in Coming THEN 1 ELSE 0)
      <3>1. place[running] \notin Coming
        BY <1>1 DEF Coming
      <3>2. N = n + (IF l \in Coming THEN 1 ELSE 0)
                  - (IF place[running] \in Coming THEN 1 ELSE 0)
        BY <1>1, <1>2, <2>2, RunningMoves
      <3> HIDE DEF N, n
      <3> QED
        BY <1>4, <2>1, <3>1, <3>2
    <2>3. /\ "user" \in Places /\ "user" \notin Coming
          /\ "mutex" \in Places /\ "mutex" \in Coming
      BY DEF Places, Locked, Coming
    <2>4. \/ N = n /\ count' = count - 1
          \/ N = n + 1 /\ count' = count
      <3>1. Goes(running, "user") => N = n + 0
        BY <2>2, <2>3
      <3>2. Goes(running, "mutex") => N = n + 1
        BY <2>2, <2>3
      <3> HIDE DEF N, n
      <3> QED
        BY <1>4, <1>7, <3>1, <3>2 DEF Goes
    <2> HIDE DEF N, n
    <2> QED
      BY <1>2, <1>4, <2>1, <2>4
  <1>9. KeysRight(count', value', waiting', place')
    <2> HIDE DEF N, n
    <2>0. value' = value - 1 /\ value' \in Int /\ Len(waiting') = 0 /\ count = value + n
      BY <1>1, <1>2, <1>4
    <2>1. /\ value \in Int /\ n \in Nat /\ N \in Nat /\ count \in Int
          /\ count' \in Int /\ count' - count + 1 = N - n
      BY <1>2, <1>4, <1>8
    <2>2. count' = value' + N
      <3>1. PICK a, b, c, d, f, g \in Int :
              /\ a = value /\ b = n /\ c = N /\ d = count
              /\ f = value' /\ g = count'
        BY <2>0, <2>1
      <3>2. d = a + b
        BY <2>0, <3>1
      <3>3. g - d + 1 = c - b
        BY <2>1, <3>1
      <3>4. f = a - 1
        BY <2>0, <3>1
      <3>5. g = f + c
        BY <3>2, <3>3, <3>4
      <3> QED
        BY <3>1, <3>5
    <2> QED
      BY <2>0, <2>2 DEF KeysRight, N
  <1> QED
    BY <1>6, <1>7, <1>8, <1>9 DEF Right

(* A released reader goes on. *)
LEMMA ReturnsKeeps ==
  ASSUME Right, GetcReturns, ~raced'
  PROVE  Right'
  <1> DEFINE n == Cardinality(ReleasedOf(place, waiting))
             N == Cardinality(ReleasedOf(place', waiting'))
  <1>1. /\ running \in Readers /\ place[running] = "item" /\ running # enabled
        /\ Through \/ Queues
        /\ UNCHANGED <<enabled, value, waiting, register>>
    BY DEF GetcReturns, Inside
  <1>2. /\ RowsRight(running, ready, waiting, mutexWaiting, place)
        /\ ValueRight(waiting, value) /\ KeysRight(count, value, waiting, place)
        /\ count = value + Len(waiting) + n
        /\ count \in Int
    BY DEF Right, KeysRight
  <1>3. place[running] \notin Locked /\ "item" \in Coming
    BY <1>1 DEF Locked, Coming
  <1>4. running \in ReleasedOf(place, waiting) /\ n \in Nat
    <2>1. ~In(waiting, running)
      BY <1>2 DEF RowsRight
    <2>2. running \in ReleasedOf(place, waiting)
      BY <1>1, <1>3, <2>1 DEF ReleasedOf
    <2> QED
      BY <2>2, ReleasedFinite
  <1>5. count > 0
    <2>1. PICK c, v, w, p : /\ c = count /\ v = value /\ w = waiting
                            /\ p = place
      OBVIOUS
    <2>2. c \in Int /\ c > 0
      BY <1>2, <1>4, <2>1, KeyForReleased
    <2> QED
      BY <2>1, <2>2
  <1>6. ValueRight(waiting', value')
    BY <1>1, <1>2
  <1>7. /\ RowsRight(running', ready', waiting', mutexWaiting', place')
        /\ InputRing(Uncounted(enabled, place))'
        /\ \E h : MutexHeld(h, place', mutexWaiting', enabled', mutexValue',
                            register', count')
        /\ \/ /\ count' = count - 1
              /\ place' = [place EXCEPT ![running] = "user"]
           \/ /\ count' = count
              /\ place' = [place EXCEPT ![running] = "mutex"]
    BY <1>1, <1>3, <1>5, ThroughKeeps, QueuesKeeps
  <1>8. count' - count = N - n /\ N \in Nat /\ count' \in Int
    <2>1. N \in Nat
      BY ReleasedFinite
    <2>2. ASSUME NEW l \in Places, Goes(running, l)
          PROVE  N = n + (IF l \in Coming THEN 1 ELSE 0) - 1
      <3>1. place[running] \in Coming
        BY <1>1, <1>3
      <3>2. N = n + (IF l \in Coming THEN 1 ELSE 0)
                  - (IF place[running] \in Coming THEN 1 ELSE 0)
        BY <1>1, <1>2, <2>2, RunningMoves
      <3> HIDE DEF N, n
      <3> QED
        BY <1>4, <2>1, <3>1, <3>2
    <2>3. /\ "user" \in Places /\ "user" \notin Coming
          /\ "mutex" \in Places /\ "mutex" \in Coming
      BY DEF Places, Locked, Coming
    <2>4. \/ N = n - 1 /\ count' = count - 1
          \/ N = n /\ count' = count
      <3>1. Goes(running, "user") => N = n + 0 - 1
        BY <2>2, <2>3
      <3>2. Goes(running, "mutex") => N = n + 1 - 1
        BY <2>2, <2>3
      <3> HIDE DEF N, n
      <3> QED
        BY <1>4, <1>7, <3>1, <3>2 DEF Goes
    <2> HIDE DEF N, n
    <2> QED
      BY <1>2, <1>4, <2>1, <2>4
  <1>9. KeysRight(count', value', waiting', place')
    <2>0. value \in Int /\ Len(waiting) \in Nat
      BY <1>2 DEF ValueRight
    <2> HIDE DEF N, n
    <2>1. count' = value' + Len(waiting') + N
      BY <1>1, <1>2, <1>4, <1>8, <2>0
    <2> QED
      BY <2>1 DEF KeysRight, N
  <1> QED
    BY <1>6, <1>7, <1>8, <1>9 DEF Right

(* A reader that waits is in no list but that of the semaphore. *)
LEMMA BlocksKeeps ==
  ASSUME Right, GetcBlocks
  PROVE  Right'
  <1>1. /\ running \in Readers /\ place[running] = "user" /\ value <= 0
        /\ value' = value - 1 /\ waiting' = Append(waiting, running)
        /\ place' = [place EXCEPT ![running] = "item"] /\ SwitchFrom(ready)
        /\ UNCHANGED <<enabled, mutexVars, register, bufferVars>>
    BY DEF GetcBlocks, InUser, Goes
  <1>2. PICK p, w, x, r, y : /\ p = place /\ w = waiting /\ y = waiting'
                             /\ x = mutexWaiting /\ r = running
    OBVIOUS
  <1>3. /\ p \in [Readers -> Places] /\ Row(Threads, ready) /\ ~In(ready, r)
        /\ Row(Readers, w) /\ ~In(w, r) /\ Row(Readers, x) /\ ~In(x, r)
        /\ \A u : In(w, u) => ~In(ready, u) /\ u \in Readers /\ p[u] = "item"
        /\ \A u : In(x, u) => ~In(ready, u) /\ u \in Readers /\ p[u] = "mutex"
        /\ r \in Readers /\ p[r] = "user"
    BY <1>1, <1>2 DEF Right, RowsRight
  <1> DEFINE o == [p EXCEPT ![r] = "item"]
  <1>4. /\ o \in [Readers -> Places] /\ o[r] = "item"
        /\ \A u \in Readers : u # r => o[u] = p[u]
    BY <1>3 DEF Places, Locked
  <1> HIDE DEF o
  <1>5. /\ Row(Readers, y) /\ Len(y) = Len(w) + 1
        /\ \A u : In(y, u) <=> In(w, u) \/ u = r
    BY <1>1, <1>2, <1>3, RowAppend
  <1>6. /\ \A u : In(y, u) => ~In(ready, u) /\ u \in Readers /\ o[u] = "item"
        /\ \A u : In(x, u) => ~In(ready, u) /\ u \in Readers /\ o[u] = "mutex"
    BY <1>3, <1>4, <1>5
  <1>7. RowsRight(running', ready', y, x, o)
    BY <1>1, <1>3, <1>4, <1>5, <1>6, SwitchKeeps
  <1>8. RowsRight(running', ready', waiting', mutexWaiting', place')
    BY <1>1, <1>2, <1>7 DEF o, mutexVars
  <1>9. \E h : MutexHeld(h, place', mutexWaiting', enabled', mutexValue',
                         register', count')
    <2>1. PICK h, e, m, g, c : /\ e = enabled /\ m = mutexValue
                               /\ g = register /\ c = count
                               /\ MutexHeld(h, p, x, e, m, g, c)
      BY <1>2 DEF Right
    <2>2. r # e /\ p[r] \notin Locked
      BY <1>3, <2>1 DEF MutexHeld, Locked
    <2>3. MutexHeld(h, o, x, e, m, g, c)
      BY <1>3, <2>1, <2>2, MutexAside DEF o
    <2> QED
      BY <1>1, <1>2, <2>1, <2>3 DEF o, bufferVars, mutexVars
  <1>10. InputRing(Uncounted(enabled, place))'
    <2>1. (Uncounted(enabled, place))' = Uncounted(enabled, place)
      <3>1. enabled' = enabled /\ enabled # r
        <4>1. PICK h, x0, m, g, c : MutexHeld(h, p, x0, enabled, m, g, c)
          BY <1>2 DEF Right
        <4> QED
          BY <1>1, <1>3, <4>1 DEF MutexHeld, Locked
      <3>2. place' = o
        BY <1>1, <1>2 DEF o
      <3> QED
        BY <1>2, <1>4, <3>1, <3>2 DEF Uncounted
    <2> QED
      BY <1>1, <2>1 DEF Right, InputRing, bufferVars
  <1>11. ValueRight(w, value) /\ KeysRight(count, value, w, p) /\ count \in Int
    BY <1>2 DEF Right
  <1>12. /\ ValueRight(waiting', value')
         /\ value' + Len(waiting') = value + Len(w)
    BY <1>1, <1>2, <1>5, <1>11 DEF ValueRight
  <1>13. KeysRight(count', value', waiting', place')
    <2>1. ReleasedOf(o, y) = ReleasedOf(p, w)
      BY <1>3, <1>4, <1>5 DEF ReleasedOf, Coming
    <2>2. place' = o /\ waiting' = y /\ count' = count
      BY <1>1, <1>2 DEF o, bufferVars
    <2> QED
      BY <1>11, <1>12, <2>1, <2>2 DEF KeysRight
  <1> QED
    BY <1>1, <1>8, <1>9, <1>10, <1>11, <1>12, <1>13 DEF Right, bufferVars

(* The holder of mutexHead takes its key and hands mutexHead on.           *)
LEMMA InheritsKeeps ==
  ASSUME Right, GetcInherits
  PROVE  Right'
  <1> DEFINE n == Cardinality(ReleasedOf(place, waiting))
             N == Cardinality(ReleasedOf(place', waiting'))
  <1>1. /\ running \in Readers /\ place[running] = "mutex" /\ running # enabled
        /\ TakeKey /\ Goes(running, "user") /\ mutexValue' = mutexValue + 1
        /\ IF mutexValue < 0 THEN Deblocks ELSE UNCHANGED <<ready, mutexWaiting>>
        /\ UNCHANGED <<running, enabled, value, waiting, register>>
    BY DEF GetcInherits, Inside
  <1>2. /\ RowsRight(running, ready, waiting, mutexWaiting, place)
        /\ ValueRight(waiting, value) /\ KeysRight(count, value, waiting, place)
        /\ count = value + Len(waiting) + n /\ count \in Int
    BY DEF Right, KeysRight
  <1>3. "mutex" \in Locked /\ "mutex" \in Coming /\ "user" \notin Coming
        /\ "user" \in Places
    BY DEF Locked, Coming, Places
  <1>4. ~In(waiting, running) /\ ~In(mutexWaiting, running)
    BY <1>2 DEF RowsRight
  <1>5. count > 0
    <2>1. running \in ReleasedOf(place, waiting)
      BY <1>1, <1>3, <1>4 DEF ReleasedOf
    <2>2. PICK c, v, w, p : /\ c = count /\ v = value /\ w = waiting
                            /\ p = place
      OBVIOUS
    <2>3. c \in Int /\ c > 0
      BY <1>2, <2>1, <2>2, KeyForReleased
    <2> QED
      BY <2>2, <2>3
  <1>6. PICK p, q, w, x, r, e, m, g, c :
          /\ p = place /\ q = ready /\ w = waiting /\ x = mutexWaiting
          /\ r = running /\ e = enabled /\ m = mutexValue /\ g = register
          /\ c = count
    OBVIOUS
  <1>7. MutexHeld(r, p, x, e, m, g, c) /\ e = Idle
    <2>1. PICK h : MutexHeld(h, p, x, e, m, g, c)
      BY <1>6 DEF Right
    <2>2. h = r
      BY <1>1, <1>3, <1>4, <1>6, <2>1 DEF MutexHeld
    <2> QED
      BY <1>1, <1>6, <2>1, <2>2, InputAssumption DEF MutexHeld
  <1>8. Uncounted(enabled, place) = 0 /\ (Uncounted(enabled, place))' = 0
    BY <1>1, <1>6, <1>7, InputAssumption DEF Uncounted
  <1>9. InputRing(Uncounted(enabled, place))' /\ count' = count - 1
        /\ count' \in Int
    <2>1. InputRing(0)
      BY <1>8 DEF Right
    <2>2. InputRing(0)' /\ count' = count - 1 /\ count' \in Int
      BY <1>1, <1>2, <1>5, <2>1, TakeKeeps
    <2> QED
      BY <1>8, <2>2 DEF InputRing
  <1>10. ValueRight(waiting', value') /\ KeysRight(count', value', waiting', place')
    <2>1. N = n + (IF "user" \in Coming THEN 1 ELSE 0)
                - (IF place[running] \in Coming THEN 1 ELSE 0)
          /\ N \in Nat /\ n \in Nat
      BY <1>1, <1>2, <1>3, RunningMoves
    <2>2. value \in Int /\ Len(waiting) \in Nat
      BY <1>2 DEF ValueRight
    <2> HIDE DEF N, n
    <2>3. N = n - 1
      BY <1>1, <1>3, <2>1
    <2>4. count' = value + Len(waiting) + N
      BY <1>2, <1>9, <2>1, <2>2, <2>3
    <2> QED
      BY <1>1, <1>2, <2>4 DEF KeysRight, N
  <1>11. RowsRight(r, q, w, x, [p EXCEPT ![r] = "user"])
         /\ p \in [Readers -> Places] /\ r \in Readers
         /\ RowsRight(r, q, w, x, p)
    <2>1. RowsRight(r, q, w, x, p) /\ r \in Readers
      BY <1>1, <1>2, <1>6
    <2> QED
      BY <1>3, <2>1, MoveKeeps DEF RowsRight
  <1>12. m = 0 - Len(x) /\ Len(x) \in Nat /\ m \in Int
    BY <1>1, <1>6, <1>7, InputAssumption DEF MutexHeld
  <1>13. place' = [p EXCEPT ![r] = "user"]
    BY <1>1, <1>6 DEF Goes
  <1>14. CASE m < 0
    <2>1. Len(x) > 0 /\ m + 1 = 1 - Len(x)
      BY <1>12, <1>14
    <2>2. ready' = Append(q, Head(x)) /\ mutexWaiting' = Tail(x)
      BY <1>1, <1>6, <1>14 DEF Deblocks
    <2>3. /\ RowsRight(r, Append(q, Head(x)), w, Tail(x), [p EXCEPT ![r] = "user"])
          /\ Len(Tail(x)) = Len(x) - 1 /\ In(x, Head(x)) /\ Head(x) \in Readers
          /\ \A u : In(Tail(x), u) <=> In(x, u) /\ u # Head(x)
      BY <1>11, <2>1, DeblockRows
    <2>4. p[Head(x)] = "mutex"
      BY <1>11, <2>3 DEF RowsRight
    <2>5. PICK b, y, f, d : b = Head(x) /\ y = Tail(x) /\ f = register' /\ d = count'
      OBVIOUS
    <2>6. MutexHeld(b, [p EXCEPT ![r] = "user"], y, Idle, 1 - Len(x), f, d)
      BY <1>7, <1>11, <2>1, <2>3, <2>4, <2>5, MutexHanded
    <2>7. enabled' = Idle /\ mutexValue' = 1 - Len(x)
      BY <1>1, <1>6, <1>7, <2>1
    <2>8. \E h : MutexHeld(h, place', mutexWaiting', enabled', mutexValue',
                           register', count')
      BY <1>13, <2>2, <2>5, <2>6, <2>7
    <2>9. RowsRight(running', ready', waiting', mutexWaiting', place')
      BY <1>1, <1>6, <1>13, <2>2, <2>3
    <2> QED
      BY <1>9, <1>10, <2>8, <2>9 DEF Right
  <1>15. CASE m >= 0
    <2>1. Len(x) = 0 /\ m + 1 = 1
      BY <1>12, <1>15
    <2>2. UNCHANGED <<ready, mutexWaiting>>
      BY <1>1, <1>6, <1>12, <1>15
    <2>3. PICK f, d : f = register' /\ d = count'
      OBVIOUS
    <2>4. MutexHeld(Idle, [p EXCEPT ![r] = "user"], x, Idle, 1, f, d)
      BY <1>7, <1>11, <2>1, MutexLeft
    <2>5. \E h : MutexHeld(h, place', mutexWaiting', enabled', mutexValue',
                           register', count')
      BY <1>1, <1>6, <1>7, <1>13, <2>1, <2>2, <2>3, <2>4
    <2>6. RowsRight(running', ready', waiting', mutexWaiting', place')
      BY <1>1, <1>6, <1>11, <1>13, <2>2
    <2> QED
      BY <1>9, <1>10, <2>5, <2>6 DEF Right
  <1> QED
    BY <1>12, <1>14, <1>15

-----------------------------------------------------------------------------
(* The steps: getc with the interrupts on *)

(* The interruptible reader has a key coming until it counts it off.       *)
LEMMA InterruptedAt ==
  ASSUME Right, NEW l, At(l)
  PROVE  /\ running \in Readers /\ enabled = running /\ place[running] = l
         /\ UNCHANGED <<running, value, waiting>>
         /\ l \in Coming => count > 0
  <1>1. /\ running \in Readers /\ enabled = running /\ place[running] = l
        /\ UNCHANGED <<running, value, waiting>>
    BY DEF At, Inside
  <1>2. /\ RowsRight(running, ready, waiting, mutexWaiting, place)
        /\ ValueRight(waiting, value) /\ KeysRight(count, value, waiting, place)
    BY DEF Right
  <1>3. ASSUME l \in Coming
        PROVE  count > 0
    <2>1. ~In(waiting, running)
      BY <1>2 DEF RowsRight
    <2>2. running \in ReleasedOf(place, waiting)
      BY <1>1, <1>3, <2>1 DEF ReleasedOf
    <2>3. PICK c, v, w, p : /\ c = count /\ v = value /\ w = waiting
                            /\ p = place
      OBVIOUS
    <2>4. c \in Int /\ c > 0
      BY <1>2, <2>2, <2>3, KeyForReleased
    <2> QED
      BY <2>3, <2>4
  <1> QED
    BY <1>1, <1>3

(* Its steps leave the lists right, and count, if it is counted off when   *)
(* it has no key coming any more.                                          *)
LEMMA InterruptedGoes ==
  ASSUME Right, NEW l, At(l), NEW k \in Places, Goes(running, k),
         count' = count + (IF k \in Coming THEN 1 ELSE 0)
                        - (IF l \in Coming THEN 1 ELSE 0)
  PROVE  /\ RowsRight(running', ready, waiting', mutexWaiting, place')
         /\ ValueRight(waiting', value') /\ count' \in Int
         /\ KeysRight(count', value', waiting', place')
  <1> DEFINE n == Cardinality(ReleasedOf(place, waiting))
             N == Cardinality(ReleasedOf(place', waiting'))
  <1>1. /\ running \in Readers /\ place[running] = l
        /\ UNCHANGED <<running, value, waiting>>
    BY InterruptedAt
  <1>2. /\ RowsRight(running, ready, waiting, mutexWaiting, place)
        /\ ValueRight(waiting, value)
        /\ count = value + Len(waiting) + n /\ count \in Int
    BY DEF Right, KeysRight
  <1>3. PICK p, q, w, x, r : /\ p = place /\ q = ready /\ w = waiting
                             /\ x = mutexWaiting /\ r = running
    OBVIOUS
  <1>4. RowsRight(r, q, w, x, [p EXCEPT ![r] = k])
    <2>1. RowsRight(r, q, w, x, p) /\ r \in Readers
      BY <1>1, <1>2, <1>3
    <2> QED
      BY <2>1, MoveKeeps
  <1>5. RowsRight(running', ready, waiting', mutexWaiting, place')
    BY <1>1, <1>3, <1>4 DEF Goes
  <1>6. /\ N = n + (IF k \in Coming THEN 1 ELSE 0)
                 - (IF place[running] \in Coming THEN 1 ELSE 0)
        /\ N \in Nat /\ n \in Nat
    BY <1>1, <1>2, RunningMoves
  <1>7. value \in Int /\ Len(waiting) \in Nat
    BY <1>2 DEF ValueRight
  <1> HIDE DEF N, n
  <1>8. count' \in Int /\ count' = value + Len(waiting) + N
    <2>1. PICK a, b \in {0, 1} : /\ a = IF k \in Coming THEN 1 ELSE 0
                                 /\ b = IF l \in Coming THEN 1 ELSE 0
      OBVIOUS
    <2>2. count' = (count + a) - b /\ N = (n + a) - b
      BY <1>1, <1>2, <1>6, <2>1
    <2> QED
      BY <1>2, <1>6, <1>7, <2>2
  <1> QED
    BY <1>1, <1>2, <1>5, <1>8 DEF KeysRight, N

(* So do those once it is counted off. *)
LEMMA AfterCount ==
  ASSUME Right, NEW l \in {"unlock", "value", "deblock"}, At(l),
         NEW k \in {"value", "deblock", "user"}, Goes(running, k),
         UNCHANGED bufferVars
  PROVE  /\ RowsRight(running', ready, waiting', mutexWaiting, place')
         /\ ValueRight(waiting', value') /\ count' \in Int
         /\ KeysRight(count', value', waiting', place')
  <1>1. k \in Places /\ k \notin Coming /\ l \notin Coming
    BY DEF Places, Locked, Coming
  <1>2. count' = count + (IF k \in Coming THEN 1 ELSE 0)
                       - (IF l \in Coming THEN 1 ELSE 0)
    BY <1>1 DEF bufferVars, Right
  <1> QED
    BY <1>1, <1>2, InterruptedGoes

(* Who is in the middle of getcB holds mutexHead. *)
LEMMA InterruptedHolds ==
  ASSUME Right, NEW l, At(l), l \in Locked
  PROVE  /\ MutexHeld(running, place, mutexWaiting, running, mutexValue,
                      register, count)
         /\ mutexValue = (IF l = "deblock" THEN 1 ELSE 0) - Len(mutexWaiting)
         /\ Len(mutexWaiting) \in Nat /\ place \in [Readers -> Places]
  <1>1. PICK h : MutexHeld(h, place, mutexWaiting, enabled, mutexValue,
                           register, count)
    BY DEF Right
  <1>2. running \in Readers /\ enabled = running /\ place[running] = l
    BY InterruptedAt
  <1>3. h = running
    BY <1>1, <1>2 DEF MutexHeld, Locked
  <1> QED
    BY <1>1, <1>2, <1>3, InputAssumption DEF MutexHeld, Right, RowsRight

(* Nothing is read, nothing counted off. *)
LEMMA RingStays ==
  ASSUME Right, running \in Readers, enabled = running,
         place[running] # "count", NEW k, k # "count",
         place' = [place EXCEPT ![running] = k],
         enabled' = enabled \/ enabled' = Idle, UNCHANGED bufferVars
  PROVE  InputRing(Uncounted(enabled, place))'
  <1>1. Uncounted(enabled, place) = 0
    BY DEF Uncounted
  <1>2. (Uncounted(enabled, place))' = 0
    BY InputAssumption DEF Uncounted, Right, RowsRight
  <1> QED
    BY <1>1, <1>2 DEF Right, InputRing, bufferVars

(* semWait(mutexHead): it is free. *)
LEMMA LockKeeps ==
  ASSUME Right, Lock
  PROVE  Right'
  <1>1. /\ At("item") /\ Goes(running, "mutex") /\ mutexValue' = mutexValue - 1
        /\ UNCHANGED <<ready, enabled, mutexWaiting, register, bufferVars>>
    BY DEF Lock
  <1>2. /\ running \in Readers /\ enabled = running /\ place[running] = "item"
        /\ UNCHANGED <<running, value, waiting>>
    BY <1>1, InterruptedAt
  <1>3. /\ "item" \in Coming /\ "mutex" \in Coming /\ "mutex" \in Places
        /\ count' = count + (IF "mutex" \in Coming THEN 1 ELSE 0)
                          - (IF "item" \in Coming THEN 1 ELSE 0)
    <2>1. count \in Int /\ count' = count
      BY <1>1 DEF bufferVars, Right
    <2>2. "item" \in Coming /\ "mutex" \in Coming /\ "mutex" \in Places
      BY DEF Coming, Places, Locked
    <2> QED
      BY <2>1, <2>2
  <1>4. /\ RowsRight(running', ready, waiting', mutexWaiting, place')
        /\ ValueRight(waiting', value') /\ count' \in Int
        /\ KeysRight(count', value', waiting', place')
    BY <1>1, <1>3, InterruptedGoes
  <1>5. InputRing(Uncounted(enabled, place))'
    BY <1>1, <1>2, RingStays DEF Goes
  <1>6. PICK h : MutexHeld(h, place, mutexWaiting, enabled, mutexValue,
                           register, count)
    BY DEF Right
  <1>7. /\ h = Idle /\ mutexValue = 1 /\ Len(mutexWaiting) = 0
        /\ \A u \in Readers : place[u] \in Locked <=> u = h \/ In(mutexWaiting, u)
    BY <1>2, <1>6 DEF MutexHeld
  <1>8. /\ \A u : ~In(mutexWaiting, u)
        /\ \A u \in Readers : place[u] \notin Locked
    BY <1>7, InputAssumption DEF In
  <1>9. place' = [place EXCEPT ![running] = "mutex"] /\ place \in [Readers -> Places]
    BY <1>1 DEF Goes, Right, RowsRight
  <1>10. /\ place'[running] = "mutex"
         /\ \A u \in Readers : place'[u] \in Locked <=> u = running
    BY <1>2, <1>8, <1>9 DEF Locked
  <1>11. MutexHeld(running, place', mutexWaiting, running, 0, register, count')
    <2>1. running # Idle /\ running # Out /\ ~In(mutexWaiting, running)
      BY <1>2, <1>8, InputAssumption
    <2>2. 0 = (IF place'[running] = "deblock" THEN 1 ELSE 0) - Len(mutexWaiting)
          /\ 0 \in Int /\ Len(mutexWaiting) \in Nat
      BY <1>7, <1>10
    <2> QED
      BY <1>2, <1>8, <1>10, <2>1, <2>2 DEF MutexHeld
  <1>12. MutexHeld(running, place', mutexWaiting', enabled', mutexValue',
                   register', count')
    BY <1>1, <1>2, <1>7, <1>11
  <1> QED
    BY <1>1, <1>4, <1>5, <1>12 DEF Right

(* The key is read, and count loaded. *)
LEMMA LoadCountKeeps ==
  ASSUME Right, LoadCount
  PROVE  Right'
  <1>1. /\ At("mutex") /\ Goes(running, "count") /\ Take /\ register' = count
        /\ UNCHANGED <<ready, enabled, mutexVars, count>>
    BY DEF LoadCount
  <1>2. /\ running \in Readers /\ enabled = running /\ place[running] = "mutex"
        /\ UNCHANGED <<running, value, waiting>>
        /\ "mutex" \in Coming => count > 0
    BY <1>1, InterruptedAt
  <1>3. /\ "mutex" \in Coming /\ "count" \in Coming /\ "count" \in Places
        /\ "mutex" \in Locked /\ count' = (count + 1) - 1
    BY <1>1 DEF Coming, Places, Locked, Right
  <1>4. /\ RowsRight(running', ready, waiting', mutexWaiting, place')
        /\ ValueRight(waiting', value') /\ count' \in Int
        /\ KeysRight(count', value', waiting', place')
    BY <1>1, <1>3, InterruptedGoes
  <1>5. place' = [place EXCEPT ![running] = "count"] /\ place \in [Readers -> Places]
    BY <1>1 DEF Goes, Right, RowsRight
  <1>6. InputRing(Uncounted(enabled, place))'
    <2>1. Uncounted(enabled, place) = 0 /\ (Uncounted(enabled, place))' = 1
      BY <1>1, <1>2, <1>5 DEF Uncounted
    <2>2. Ring(buff_size - 1, head, tail, count, buffer, accepted, taken)
      <3>1. count - 0 = count
        BY DEF Right
      <3> QED
        BY <2>1, <3>1 DEF Right, InputRing
    <2>3. Ring(buff_size - 1, head', tail', count - 1, buffer', accepted', taken')
      BY <1>1, <1>2, <1>3, <2>2, TakeRing
    <2> QED
      BY <1>1, <2>1, <2>3 DEF InputRing
  <1>7. MutexHeld(running, place', mutexWaiting', enabled', mutexValue',
                  register', count')
    <2>1. PICK p, x, e, m, g, c :
            /\ p = place /\ x = mutexWaiting /\ e = running /\ m = mutexValue
            /\ g = register /\ c = count
      OBVIOUS
    <2>2. MutexHeld(e, p, x, e, m, g, c) /\ p \in [Readers -> Places]
      BY <1>1, <1>3, <2>1, InterruptedHolds
    <2>3. MutexHeld(e, [p EXCEPT ![e] = "count"], x, e, m, c, c)
      BY <1>2, <2>1, <2>2, MutexStays
    <2> QED
      BY <1>1, <1>2, <1>5, <2>1, <2>3 DEF mutexVars
  <1> QED
    BY <1>1, <1>4, <1>6, <1>7 DEF Right, mutexVars

(* The key is counted off: count is still what was loaded. *)
LEMMA StoreCountKeeps ==
  ASSUME Right, StoreCount
  PROVE  Right'
  <1>1. /\ At("count") /\ Goes(running, "unlock")
        /\ count' = (register - 1) % CountModulus
        /\ UNCHANGED <<ready, enabled, mutexVars, register, head, tail, buffer,
                       accepted, taken>>
    BY DEF StoreCount
  <1>2. /\ running \in Readers /\ enabled = running /\ place[running] = "count"
        /\ UNCHANGED <<running, value, waiting>>
        /\ "count" \in Coming => count > 0
    BY <1>1, InterruptedAt
  <1>3. /\ "count" \in Coming /\ "unlock" \notin Coming /\ "unlock" \in Places
        /\ "count" \in Locked
    BY DEF Coming, Places, Locked
  <1>4. MutexHeld(running, place, mutexWaiting, running, mutexValue, register,
                  count)
    BY <1>1, <1>3, InterruptedHolds
  <1>5. register = count /\ count \in Int
    BY <1>2, <1>4, InputAssumption DEF MutexHeld, Right
  <1>6. place' = [place EXCEPT ![running] = "unlock"] /\ place \in [Readers -> Places]
    BY <1>1 DEF Goes, Right, RowsRight
  <1>7. /\ Ring(buff_size - 1, head, tail, count - 1, buffer, accepted, taken)
        /\ count - 1 \in 0 .. buff_size
    <2>1. Uncounted(enabled, place) = 1
      BY <1>2 DEF Uncounted
    <2>2. Ring(buff_size - 1, head, tail, count - 1, buffer, accepted, taken)
      BY <2>1 DEF Right, InputRing
    <2>3. count - 1 \in 0 .. ((buff_size - 1) + 1)
      BY <2>2 DEF Ring
    <2> QED
      BY <2>2, <2>3, InputAssumption
  <1>8. count' = count - 1
    <2>1. PICK c \in Int : c = count
      BY <1>5
    <2>2. (c - 1) % CountModulus = c - 1
      BY <1>7, <2>1, CountedOff
    <2> QED
      BY <1>1, <1>5, <2>1, <2>2
  <1>9. /\ RowsRight(running', ready, waiting', mutexWaiting, place')
        /\ ValueRight(waiting', value') /\ count' \in Int
        /\ KeysRight(count', value', waiting', place')
    <2>1. count' = count + (IF "unlock" \in Coming THEN 1 ELSE 0)
                         - (IF "count" \in Coming THEN 1 ELSE 0)
      BY <1>3, <1>5, <1>8
    <2> QED
      BY <1>1, <1>3, <2>1, InterruptedGoes
  <1>10. InputRing(Uncounted(enabled, place))'
    <2>1. (Uncounted(enabled, place))' = 0
      BY <1>1, <1>2, <1>6 DEF Uncounted
    <2>2. count' - 0 = count - 1
      BY <1>5, <1>8
    <2> QED
      BY <1>1, <1>7, <2>1, <2>2 DEF InputRing
  <1>11. MutexHeld(running, place', mutexWaiting', enabled', mutexValue',
                   register', count')
    <2>1. PICK p, x, e, m, g, c, d :
            /\ p = place /\ x = mutexWaiting /\ e = running /\ m = mutexValue
            /\ g = register /\ c = count /\ d = count'
      OBVIOUS
    <2>2. MutexHeld(e, p, x, e, m, g, c) /\ p \in [Readers -> Places]
      BY <1>4, <1>6, <2>1
    <2>3. MutexHeld(e, [p EXCEPT ![e] = "unlock"], x, e, m, g, d)
      <3>1. e \in Readers /\ p[e] # "deblock"
        BY <1>2, <2>1
      <3>2. PICK l \in {"count", "unlock", "value"} : l = "unlock"
        OBVIOUS
      <3>3. l # "count" /\ l # "value"
        BY <3>2
      <3>4. MutexHeld(e, [p EXCEPT ![e] = l], x, e, m, g, d)
        BY <2>2, <3>1, <3>3, MutexStays
      <3> QED
        BY <3>2, <3>4
    <2> QED
      BY <1>1, <1>2, <1>6, <2>1, <2>3 DEF mutexVars
  <1> QED
    BY <1>1, <1>9, <1>10, <1>11 DEF Right, mutexVars

(* mutexHead's value is loaded. *)
LEMMA LoadValueKeeps ==
  ASSUME Right, LoadValue
  PROVE  Right'
  <1>1. /\ At("unlock") /\ Goes(running, "value") /\ register' = mutexValue
        /\ UNCHANGED <<ready, enabled, mutexVars, bufferVars>>
    BY DEF LoadValue
  <1>2. /\ running \in Readers /\ enabled = running /\ place[running] = "unlock"
        /\ UNCHANGED <<running, value, waiting>>
    BY <1>1, InterruptedAt
  <1>3. /\ RowsRight(running', ready, waiting', mutexWaiting, place')
        /\ ValueRight(waiting', value') /\ count' \in Int
        /\ KeysRight(count', value', waiting', place')
    BY <1>1, AfterCount
  <1>4. InputRing(Uncounted(enabled, place))'
    BY <1>1, <1>2, RingStays DEF Goes
  <1>5. MutexHeld(running, place', mutexWaiting', enabled', mutexValue',
                  register', count')
    <2>1. PICK p, x, e, m, g, c :
            /\ p = place /\ x = mutexWaiting /\ e = running /\ m = mutexValue
            /\ g = register /\ c = count
      OBVIOUS
    <2>2. "unlock" \in Locked
      BY DEF Locked
    <2>3. MutexHeld(e, p, x, e, m, g, c) /\ p \in [Readers -> Places]
      BY <1>1, <2>1, <2>2, InterruptedHolds
    <2>4. e \in Readers /\ p[e] # "deblock"
      BY <1>2, <2>1
    <2>5. PICK l \in {"count", "unlock", "value"} : l = "value"
      OBVIOUS
    <2>6. l # "count"
      BY <2>5
    <2>7. MutexHeld(e, [p EXCEPT ![e] = l], x, e, m, m, c)
      BY <2>3, <2>4, <2>6, MutexStays
    <2> QED
      BY <1>1, <1>2, <2>1, <2>5, <2>7 DEF mutexVars, bufferVars, Goes
  <1> QED
    BY <1>1, <1>3, <1>4, <1>5 DEF Right, mutexVars

(* It is stored, still what was loaded; nobody waits, or one is let in.    *)
LEMMA StoreValueKeeps ==
  ASSUME Right, StoreValue
  PROVE  Right'
  <1>1. /\ At("value") /\ mutexValue' = register + 1
        /\ \/ /\ register >= 0 /\ Goes(running, "user") /\ enabled' = Idle
           \/ /\ register < 0 /\ Goes(running, "deblock") /\ UNCHANGED enabled
        /\ UNCHANGED <<ready, mutexWaiting, register, bufferVars>>
    BY DEF StoreValue
  <1>2. /\ running \in Readers /\ enabled = running /\ place[running] = "value"
        /\ UNCHANGED <<running, value, waiting>>
    BY <1>1, InterruptedAt
  <1>3. PICK l \in {"user", "deblock"} :
          /\ Goes(running, l) /\ enabled' = IF l = "user" THEN Idle ELSE enabled
          /\ l = "user" <=> register >= 0
          /\ l = "deblock" => register < 0
    <2>1. CASE register >= 0 /\ Goes(running, "user") /\ enabled' = Idle
      BY <2>1
    <2>2. CASE register < 0 /\ Goes(running, "deblock") /\ UNCHANGED enabled
      <3>1. register \in Int
        <4>1. "value" \in Locked
          BY DEF Locked
        <4> QED
          BY <1>1, <1>2, <4>1, InterruptedHolds, InputAssumption DEF MutexHeld
      <3> QED
        BY <2>2, <3>1
    <2> QED
      BY <1>1, <2>1, <2>2
  <1>4. /\ RowsRight(running', ready, waiting', mutexWaiting, place')
        /\ ValueRight(waiting', value') /\ count' \in Int
        /\ KeysRight(count', value', waiting', place')
    BY <1>1, <1>3, AfterCount
  <1>5. InputRing(Uncounted(enabled, place))'
    <2>1. l # "count" /\ (enabled' = enabled \/ enabled' = Idle)
          /\ place' = [place EXCEPT ![running] = l]
      BY <1>3 DEF Goes
    <2> QED
      BY <1>1, <1>2, <2>1, RingStays
  <1>6. PICK p, x, e, m, g, c :
          /\ p = place /\ x = mutexWaiting /\ e = running /\ m = mutexValue
          /\ g = register /\ c = count
    OBVIOUS
  <1>7. /\ MutexHeld(e, p, x, e, m, g, c) /\ p \in [Readers -> Places]
        /\ m = 0 - Len(x) /\ Len(x) \in Nat /\ e \in Readers /\ p[e] = "value"
    <2>1. "value" \in Locked
      BY DEF Locked
    <2> QED
      BY <1>1, <1>2, <1>6, <2>1, InterruptedHolds
  <1>8. g = m /\ e # Idle /\ e # Out
    BY <1>7, InputAssumption DEF MutexHeld
  <1>9. place' = [p EXCEPT ![e] = l]
    BY <1>3, <1>6 DEF Goes
  <1>10. CASE l = "user"
    <2>1. Len(x) = 0 /\ mutexValue' = 1 /\ enabled' = Idle
      BY <1>1, <1>3, <1>6, <1>7, <1>8, <1>10
    <2>2. MutexHeld(Idle, [p EXCEPT ![e] = "user"], x, Idle, 1, g, c)
      BY <1>7, <2>1, MutexLeft
    <2>3. MutexHeld(Idle, place', mutexWaiting', enabled', mutexValue',
                    register', count')
      BY <1>1, <1>6, <1>9, <1>10, <2>1, <2>2 DEF bufferVars
    <2> QED
      BY <1>1, <1>4, <1>5, <2>3 DEF Right
  <1>11. CASE l = "deblock"
    <2>1. Len(x) > 0 /\ mutexValue' = 1 - Len(x) /\ enabled' = e
      BY <1>1, <1>2, <1>3, <1>6, <1>7, <1>8, <1>11
    <2> DEFINE o == [p EXCEPT ![e] = "deblock"]
    <2>2. o[e] = "deblock" /\ \A u \in Readers : u # e => o[u] = p[u]
      BY <1>7
    <2> HIDE DEF o
    <2>3. \A u \in Readers : o[u] \in Locked <=> u = e \/ In(x, u)
      BY <1>7, <2>2 DEF MutexHeld, Locked
    <2>4. 1 - Len(x) \in Int /\ 1 - Len(x) = (IF o[e] = "deblock" THEN 1 ELSE 0) - Len(x)
      BY <1>7, <2>2
    <2>5. ~In(x, e)
      BY <1>7 DEF MutexHeld
    <2>6. MutexHeld(e, o, x, e, 1 - Len(x), g, c)
      BY <1>7, <1>8, <2>1, <2>2, <2>3, <2>4, <2>5 DEF MutexHeld
    <2>7. MutexHeld(running, place', mutexWaiting', enabled', mutexValue',
                    register', count')
      BY <1>1, <1>6, <1>9, <1>11, <2>1, <2>6 DEF bufferVars, o
    <2> QED
      BY <1>1, <1>4, <1>5, <2>7 DEF Right
  <1> QED
    BY <1>3, <1>10, <1>11

(* The first that waits for mutexHead has it. *)
LEMMA DeblockKeeps ==
  ASSUME Right, Deblock
  PROVE  Right'
  <1>1. /\ At("deblock") /\ Goes(running, "user") /\ enabled' = Idle
        /\ mutexWaiting' = Tail(mutexWaiting)
        /\ ready' = Append(ready, Head(mutexWaiting))
        /\ UNCHANGED <<mutexValue, register, bufferVars>>
    BY DEF Deblock, Deblocks
  <1>2. /\ running \in Readers /\ enabled = running /\ place[running] = "deblock"
        /\ UNCHANGED <<running, value, waiting>>
    BY <1>1, InterruptedAt
  <1>3. /\ RowsRight(running', ready, waiting', mutexWaiting, place')
        /\ ValueRight(waiting', value') /\ count' \in Int
        /\ KeysRight(count', value', waiting', place')
    BY <1>1, AfterCount
  <1>4. InputRing(Uncounted(enabled, place))'
    BY <1>1, <1>2, RingStays DEF Goes
  <1>5. PICK p, x, e, m, g, c, q :
          /\ p = place /\ x = mutexWaiting /\ e = running /\ m = mutexValue
          /\ g = register /\ c = count /\ q = ready
    OBVIOUS
  <1>6. /\ MutexHeld(e, p, x, e, m, g, c) /\ p \in [Readers -> Places]
        /\ m = 1 - Len(x) /\ Len(x) \in Nat /\ e \in Readers /\ Len(x) > 0
    <2>1. "deblock" \in Locked
      BY DEF Locked
    <2>2. /\ MutexHeld(e, p, x, e, m, g, c) /\ p \in [Readers -> Places]
          /\ m = 1 - Len(x) /\ Len(x) \in Nat
      BY <1>1, <1>2, <1>5, <2>1, InterruptedHolds
    <2>3. Len(x) > 0
      BY <1>2, <1>5, <2>2, InputAssumption DEF MutexHeld
    <2> QED
      BY <1>2, <1>5, <2>2, <2>3
  <1>7. PICK w, o, r : w = waiting' /\ o = place' /\ r = running'
    OBVIOUS
  <1>8. /\ RowsRight(r, Append(q, Head(x)), w, Tail(x), o)
        /\ Len(Tail(x)) = Len(x) - 1 /\ In(x, Head(x)) /\ Head(x) \in Readers
        /\ \A u : In(Tail(x), u) <=> In(x, u) /\ u # Head(x)
    <2>1. RowsRight(r, q, w, x, o) /\ Len(x) > 0
      BY <1>3, <1>5, <1>6, <1>7
    <2> QED
      BY <2>1, DeblockRows
  <1>9. RowsRight(running', ready', waiting', mutexWaiting', place')
    BY <1>1, <1>5, <1>7, <1>8
  <1>10. p[Head(x)] = "mutex"
    BY <1>5, <1>8 DEF Right, RowsRight
  <1>11. PICK b, y : b = Head(x) /\ y = Tail(x)
    OBVIOUS
  <1>12. MutexHeld(b, [p EXCEPT ![e] = "user"], y, Idle, 1 - Len(x), g, c)
    BY <1>6, <1>8, <1>10, <1>11, MutexHanded
  <1>13. MutexHeld(b, place', mutexWaiting', enabled', mutexValue', register',
                   count')
    BY <1>1, <1>5, <1>6, <1>11, <1>12 DEF Goes, bufferVars
  <1> QED
    BY <1>3, <1>4, <1>9, <1>13 DEF Right

-----------------------------------------------------------------------------
(* The theorems *)

(* No step but one that parts a load from its store disturbs the           *)
(* invariant, and after that it says nothing any more.                     *)
LEMMA InputNext ==
  ASSUME InputInv, [Next]_vars
  PROVE  InputInv'
  <1>1. SUFFICES ASSUME ~raced' PROVE Right'
    BY DEF InputInv
  <1>2. CASE UNCHANGED vars
    <2>1. Right
      BY <1>1, <1>2 DEF InputInv, vars
    <2>2. UNCHANGED <<running, ready, enabled, place, value, waiting, mutexVars,
                      register, bufferVars>>
      BY <1>2 DEF vars
    <2> QED
      BY <2>1, <2>2 DEF Right, InputRing, mutexVars, bufferVars, Uncounted
  <1>3. ASSUME Next
        PROVE  ~raced
    BY <1>1, <1>3 DEF Next, Dispatch, OutBlocks, Key, GetcPasses, GetcBlocks,
         GetcReturns, GetcInherits, Through, Queues, Interrupted, Lock,
         LoadCount, StoreCount, LoadValue, StoreValue, Deblock, Terminate
  <1>4. ASSUME Next, Right
        PROVE  Right'
    <2>1. CASE Dispatch
      BY <1>1, <1>4, <2>1, DispatchKeeps
    <2>2. CASE OutBlocks
      BY <1>4, <2>2, OutBlocksKeeps
    <2>3. CASE Key
      BY <1>1, <1>4, <2>3, KeyKeeps
    <2>4. CASE GetcPasses
      BY <1>1, <1>4, <2>4, PassesKeeps
    <2>5. CASE GetcBlocks
      BY <1>4, <2>5, BlocksKeeps
    <2>6. CASE GetcReturns
      BY <1>1, <1>4, <2>6, ReturnsKeeps
    <2>7. CASE GetcInherits
      BY <1>4, <2>7, InheritsKeeps
    <2>8. CASE Interrupted
      BY <1>4, <2>8, LockKeeps, LoadCountKeeps, StoreCountKeeps, LoadValueKeeps,
         StoreValueKeeps, DeblockKeeps DEF Interrupted
    <2>9. ASSUME NEW t \in Readers, Terminate(t)
          PROVE  Right'
      <3>1. UNCHANGED <<running, ready, enabled, place, value, waiting,
                        mutexVars, register, bufferVars>>
        BY <2>9 DEF Terminate
      <3> QED
        BY <1>4, <3>1 DEF Right, InputRing, mutexVars, bufferVars, Uncounted
    <2> QED
      BY <1>4, <2>1, <2>2, <2>3, <2>4, <2>5, <2>6, <2>7, <2>8, <2>9 DEF Next
  <1> QED
    BY <1>2, <1>3, <1>4 DEF InputInv

(* The invariant holds at first. *)
LEMMA InputInit ==
  ASSUME Init
  PROVE  InputInv
  <1> DEFINE k == buff_size - 1
             S == Threads \ {running}
  <1>1. /\ running \in Threads /\ ready \in SetToSeqs(S)
        /\ enabled = Out /\ place = [t \in Readers |-> "user"]
        /\ value = 0 /\ waiting = <<>> /\ mutexValue = 1 /\ mutexWaiting = <<>>
        /\ head = 0 /\ tail = 0 /\ count = 0 /\ buffer = [i \in 0 .. k |-> 0]
        /\ accepted = <<>> /\ taken = <<>>
    BY DEF Init, Threads
  <1>2. Row(Threads, ready) /\ ~In(ready, running)
    <2>1. IsFiniteSet(S) /\ Cardinality(S) \in Nat
      <3>1. IsFiniteSet(Threads)
        BY InputAssumption, FS_AddElement DEF Threads
      <3> QED
        BY <3>1, FS_RemoveElement, FS_CardinalityType
    <2> DEFINE n == Cardinality(S)
    <2>2. /\ ready \in [1 .. n -> S]
          /\ \A i, j \in 1 .. n : i # j => ready[i] # ready[j]
      BY <1>1 DEF SetToSeqs
    <2> HIDE DEF n
    <2>3. n \in Nat
      BY <2>1 DEF n
    <2>4. ready \in Seq(S) /\ Len(ready) = n
      BY <2>2, <2>3
    <2>5. ready \in Seq(Threads) /\ \A i \in 1 .. n : ready[i] # running
      BY <2>2, <2>3, <2>4
    <2> QED
      BY <2>2, <2>4, <2>5 DEF Row, In
  <1>3. Len(<<>>) = 0 /\ \A u : ~In(<<>>, u)
    BY DEF In
  <1>4. place \in [Readers -> Places] /\ \A u \in Readers : place[u] = "user"
    BY <1>1 DEF Places
  <1>5. RowsRight(running, ready, waiting, mutexWaiting, place)
    <2>1. Row(Readers, <<>>)
      BY RowEmpty
    <2> QED
      BY <1>1, <1>2, <1>3, <1>4, <2>1 DEF RowsRight
  <1>6. ValueRight(waiting, value) /\ KeysRight(count, value, waiting, place)
    <2>1. ReleasedOf(place, waiting) = {}
      BY <1>4 DEF ReleasedOf, Coming
    <2>2. Cardinality(ReleasedOf(place, waiting)) = 0
      BY <2>1, FS_EmptySet
    <2> QED
      BY <1>1, <1>3, <2>2 DEF KeysRight, ValueRight
  <1>7. MutexHeld(Idle, place, mutexWaiting, enabled, mutexValue, register, count)
    <2>1. "user" \notin Locked
      BY DEF Locked
    <2> QED
      BY <1>1, <1>3, <1>4, <2>1, InputAssumption DEF MutexHeld
  <1>8. Uncounted(enabled, place) = 0
    BY <1>1, InputAssumption DEF Uncounted
  <1>9. k \in Nat /\ Slot(k, 0, 0) = 0
    BY InputAssumption DEF Slot
  <1> HIDE DEF k
  <1>10. buffer \in [0 .. k -> Int] /\ <<>> \in Seq(Int)
    BY <1>1, EmptySeq
  <1>11. Ring(k, head, tail, count, buffer, accepted, taken)
    BY <1>1, <1>3, <1>9, <1>10 DEF Ring
  <1>12. InputRing(Uncounted(enabled, place))
    BY <1>1, <1>8, <1>11 DEF InputRing, k
  <1> QED
    BY <1>1, <1>5, <1>6, <1>7, <1>12 DEF InputInv, Right

(* The invariant holds always. *)
LEMMA InputInvAlways == Spec => []InputInv
  BY InputInit, InputNext, PTL DEF Spec

(* Every key in the buffer of the console is free to be taken or meant for *)
(* one released reader, for any readers and any buffer, whatever reader is *)
(* terminated when, and wherever one is interrupted in the middle of getcB *)
(* until count++ comes between the load and the store of its count--, or   *)
(* another's wait, put or get into its semSignal.                          *)
THEOREM AlwaysKeysAccounted == Spec => []KeysAccounted
  <1>1. ASSUME InputInv PROVE KeysAccounted
    <2>1. SUFFICES ASSUME Right
                   PROVE  count = value + Len(waiting) + Cardinality(Released)
      BY <1>1 DEF InputInv, KeysAccounted
    <2>2. waiting \in Seq(Readers)
      BY <2>1 DEF Right, RowsRight, Row
    <2>3. \A u : u \in ToSet(waiting) <=> In(waiting, u)
      <3>1. DOMAIN waiting = 1 .. Len(waiting)
        BY <2>2, LenProperties
      <3> QED
        BY <3>1 DEF ToSet, In
    <2>4. Released = ReleasedOf(place, waiting)
      BY <2>3 DEF Released, ReleasedOf, Coming
    <2> QED
      BY <2>1, <2>4 DEF Right, KeysRight
  <1> QED
    BY <1>1, InputInvAlways, PTL

(* getc gives the keys, to all readers together, in the order in which     *)
(* putcB accepted them, none twice and none left out, for any readers and  *)
(* any buffer, under the same condition.                                   *)
THEOREM KeysAlwaysInOrder == Spec => []KeysInOrder
  <1>1. ASSUME InputInv PROVE KeysInOrder
    <2> DEFINE k == buff_size - 1
               c == count - Uncounted(enabled, place)
    <2>1. SUFFICES ASSUME Right PROVE IsPrefix(taken, accepted)
      BY <1>1 DEF InputInv, KeysInOrder
    <2>2. Ring(k, head, tail, c, buffer, accepted, taken)
      BY <2>1 DEF Right, InputRing
    <2>3. k \in Nat
      BY InputAssumption
    <2> HIDE DEF k, c
    <2>4. c \in Nat
      BY <2>2, <2>3 DEF Ring
    <2> QED
      BY <2>2, <2>4, RingPrefix
  <1> QED
    BY <1>1, InputInvAlways, PTL
=============================================================================
