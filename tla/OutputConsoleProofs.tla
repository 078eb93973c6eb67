------------------------ MODULE OutputConsoleProofs ------------------------
(***************************************************************************)
(* Proofs about the console's output, for any users and any buffer.        *)
(*                                                                         *)
(* In order: the ring; the output thread's place in the ready list; the    *)
(* inductive invariant of a run without a race (OutputInv), which says     *)
(* what count and value stand for at every place of getcB and where the    *)
(* output thread is; the steps; three theorems; and why a tick hits getcB  *)
(* only before its first block.                                            *)
(***************************************************************************)
EXTENDS OutputConsoleProperties, FiniteSetTheorems, SequenceTheorems, TLAPS

-----------------------------------------------------------------------------
(* The ring *)

(* The slot i places behind h, in a ring of k + 1 slots. *)
Slot(k, h, i) == IF h + i <= k THEN h + i ELSE h + i - (k + 1)

(* Of the characters a, those read, r, are the first, and the c next ones  *)
(* are in the slots of b from h to t.                                      *)
Ring(k, h, t, c, b, a, r) ==
  /\ h \in 0 .. k /\ c \in 0 .. (k + 1) /\ t = Slot(k, h, c)
  /\ b \in [0 .. k -> Int] /\ a \in Seq(Int) /\ r \in Seq(Int)
  /\ Len(a) = Len(r) + c
  /\ \A i \in 1 .. Len(r) : r[i] = a[i]
  /\ \A i \in 0 .. (c - 1) : b[Slot(k, h, i)] = a[Len(r) + 1 + i]

(* One step around the ring. *)
LEMMA Advanced ==
  ASSUME NEW k \in Nat, NEW x \in 0 .. k
  PROVE  (x + 1) % (k + 1) = IF x = k THEN 0 ELSE x + 1
  OBVIOUS

(* Its number. *)
LEMMA SlotIn ==
  ASSUME NEW k \in Nat, NEW h \in 0 .. k, NEW i \in 0 .. (k + 1)
  PROVE  Slot(k, h, i) \in 0 .. k
  BY DEF Slot

(* The first slot, and the step of head. *)
LEMMA SlotFirst ==
  ASSUME NEW k \in Nat, NEW h \in 0 .. k
  PROVE  Slot(k, h, 0) = h /\ (h + 1) % (k + 1) = Slot(k, h, 1)
  BY Advanced DEF Slot

(* The step of tail. *)
LEMMA SlotNext ==
  ASSUME NEW k \in Nat, NEW h \in 0 .. k, NEW c \in 0 .. k
  PROVE  (Slot(k, h, c) + 1) % (k + 1) = Slot(k, h, c + 1)
  <1> DEFINE x == Slot(k, h, c)
  <1>1. x \in 0 .. k /\ (IF x = k THEN 0 ELSE x + 1) = Slot(k, h, c + 1)
    BY DEF Slot
  <1> HIDE DEF x
  <1> QED
    BY <1>1, Advanced DEF x

(* The slot behind the last character is none of the characters' slots. *)
LEMMA SlotFree ==
  ASSUME NEW k \in Nat, NEW h \in 0 .. k, NEW c \in 0 .. k, NEW i \in 0 .. (c - 1)
  PROVE  Slot(k, h, i) # Slot(k, h, c)
  BY DEF Slot

(* The slots as seen from behind the first one. *)
LEMMA SlotShift ==
  ASSUME NEW k \in Nat, NEW h \in 0 .. k, NEW i \in 0 .. k
  PROVE  Slot(k, Slot(k, h, 1), i) = Slot(k, h, i + 1)
  BY DEF Slot

(* A character is put into the slot behind the last one. *)
LEMMA RingPut ==
  ASSUME NEW k \in Nat, NEW h, NEW t, NEW c, NEW b, NEW a, NEW r, NEW x \in Int,
         Ring(k, h, t, c, b, a, r), c < k + 1
  PROVE  Ring(k, h, (t + 1) % (k + 1), c + 1, [b EXCEPT ![t] = x],
              Append(a, x), r)
  <1> DEFINE e == Append(a, x)
             d == [b EXCEPT ![t] = x]
             m == Len(r)
             n == Len(a)
  <1>1. /\ h \in 0 .. k /\ c \in 0 .. (k + 1) /\ t = Slot(k, h, c)
        /\ b \in [0 .. k -> Int] /\ a \in Seq(Int) /\ r \in Seq(Int)
        /\ n = m + c /\ m \in Nat /\ n \in Nat
        /\ \A i \in 1 .. m : r[i] = a[i]
        /\ \A i \in 0 .. (c - 1) : b[Slot(k, h, i)] = a[m + 1 + i]
    BY LenProperties DEF Ring
  <1>2. /\ e \in Seq(Int) /\ Len(e) = n + 1 /\ e[n + 1] = x
        /\ \A i \in 1 .. n : e[i] = a[i]
    <2>1. a \in Seq(Int)
      BY <1>1
    <2> QED
      BY <2>1, AppendProperties
  <1>3. /\ \A i \in 0 .. (k + 1) : Slot(k, h, i) \in 0 .. k
        /\ (t + 1) % (k + 1) = Slot(k, h, c + 1)
        /\ \A i \in 0 .. (c - 1) : Slot(k, h, i) # t
    <2>1. c \in 0 .. k
      BY <1>1
    <2>2. (Slot(k, h, c) + 1) % (k + 1) = Slot(k, h, c + 1)
      BY <1>1, <2>1, SlotNext
    <2> QED
      BY <1>1, <2>1, <2>2, SlotIn, SlotFree
  <1>4. t \in 0 .. k
    BY <1>1, <1>3
  <1>5. d \in [0 .. k -> Int] /\ d[t] = x /\ \A i \in (0 .. k) \ {t} : d[i] = b[i]
    BY <1>1, <1>4
  <1> HIDE DEF e, d, m, n
  <1>6. c + 1 \in 0 .. (k + 1) /\ n + 1 = m + (c + 1)
    BY <1>1
  <1>7. \A i \in 1 .. m : r[i] = e[i]
    BY <1>1, <1>2
  <1>8. \A i \in 0 .. c : d[Slot(k, h, i)] = e[m + 1 + i]
    <2>1. TAKE i \in 0 .. c
    <2>2. CASE i = c
      <3>1. m + 1 + c = n + 1
        BY <1>1
      <3>2. d[Slot(k, h, c)] = x
        BY <1>1, <1>5
      <3> QED
        BY <1>2, <2>2, <3>1, <3>2
    <2>3. CASE i # c
      <3>1. i \in 0 .. (c - 1) /\ i \in 0 .. (k + 1) /\ m + 1 + i \in 1 .. n
        BY <1>1, <2>3
      <3>2. d[Slot(k, h, i)] = b[Slot(k, h, i)]
        BY <1>3, <1>5, <3>1
      <3> QED
        BY <1>1, <1>2, <3>1, <3>2
    <2> QED
      BY <2>2, <2>3
  <1>9. (c + 1) - 1 = c
    BY <1>1
  <1> QED
    BY <1>1, <1>2, <1>3, <1>5, <1>6, <1>7, <1>8, <1>9 DEF Ring, e, d, m, n

(* The first character is read. *)
LEMMA RingTake ==
  ASSUME NEW k \in Nat, NEW h, NEW t, NEW c, NEW b, NEW a, NEW r,
         Ring(k, h, t, c, b, a, r), c > 0
  PROVE  Ring(k, (h + 1) % (k + 1), t, c - 1, b, a, Append(r, b[h]))
  <1> DEFINE e == Append(r, b[h])
             m == Len(r)
             g == (h + 1) % (k + 1)
  <1>1. /\ h \in 0 .. k /\ c \in 0 .. (k + 1) /\ t = Slot(k, h, c)
        /\ b \in [0 .. k -> Int] /\ a \in Seq(Int) /\ r \in Seq(Int)
        /\ Len(a) = m + c /\ m \in Nat
        /\ \A i \in 1 .. m : r[i] = a[i]
        /\ \A i \in 0 .. (c - 1) : b[Slot(k, h, i)] = a[m + 1 + i]
    BY LenProperties DEF Ring
  <1>2. /\ \A i \in 0 .. (k + 1) : Slot(k, h, i) \in 0 .. k
        /\ Slot(k, h, 0) = h /\ g = Slot(k, h, 1)
        /\ \A i \in 0 .. (c - 1) : Slot(k, g, i) = Slot(k, h, i + 1)
    <2>1. \A i \in 0 .. (k + 1) : Slot(k, h, i) \in 0 .. k
      BY <1>1, SlotIn
    <2>4. \A i \in 0 .. (c - 1) : i \in 0 .. k
      BY <1>1
    <2>2. Slot(k, h, 0) = h /\ (h + 1) % (k + 1) = Slot(k, h, 1)
      BY <1>1, SlotFirst
    <2>3. \A i \in 0 .. k : Slot(k, Slot(k, h, 1), i) = Slot(k, h, i + 1)
      BY <1>1, SlotShift
    <2> QED
      BY <2>1, <2>2, <2>3, <2>4
  <1>3. b[h] \in Int
    BY <1>1
  <1>4. /\ e \in Seq(Int) /\ Len(e) = m + 1 /\ e[m + 1] = b[h]
        /\ \A i \in 1 .. m : e[i] = r[i]
    <2>1. r \in Seq(Int)
      BY <1>1
    <2> QED
      BY <1>3, <2>1, AppendProperties
  <1> HIDE DEF e, m, g
  <1>5. /\ c - 1 \in 0 .. (k + 1) /\ Len(a) = (m + 1) + (c - 1)
        /\ 1 \in 0 .. (k + 1) /\ 0 \in 0 .. (c - 1) /\ c - 1 \in 0 .. (c - 1)
    BY <1>1
  <1>6. g \in 0 .. k /\ t = Slot(k, g, c - 1)
    <2>1. Slot(k, g, c - 1) = Slot(k, h, (c - 1) + 1) /\ (c - 1) + 1 = c
      BY <1>1, <1>2, <1>5
    <2> QED
      BY <1>1, <1>2, <1>5, <2>1
  <1>7. b[h] = a[m + 1]
    BY <1>1, <1>2, <1>5
  <1>8. \A i \in 1 .. (m + 1) : e[i] = a[i]
    <2>1. TAKE i \in 1 .. (m + 1)
    <2>2. i \in 1 .. m \/ i = m + 1
      BY <1>1
    <2> QED
      BY <1>1, <1>4, <1>7, <2>2
  <1>9. \A i \in 0 .. (c - 1 - 1) : b[Slot(k, g, i)] = a[(m + 1) + 1 + i]
    <2>1. TAKE i \in 0 .. (c - 1 - 1)
    <2>2. /\ i \in 0 .. (c - 1) /\ i + 1 \in 0 .. (c - 1)
          /\ (m + 1) + 1 + i = m + 1 + (i + 1)
      BY <1>1
    <2> QED
      BY <1>1, <1>2, <2>2
  <1> QED
    BY <1>1, <1>4, <1>5, <1>6, <1>8, <1>9 DEF Ring, e, m, g

(* What is read is a prefix of what was put. *)
LEMMA RingPrefix ==
  ASSUME NEW k, NEW h, NEW t, NEW c, NEW b, NEW a, NEW r, Ring(k, h, t, c, b, a, r),
         c \in Nat
  PROVE  IsPrefix(r, a)
  <1> DEFINE m == Len(r)
             s == SubSeq(r, 1, m)
             u == SubSeq(a, 1, m)
  <1>1. /\ a \in Seq(Int) /\ r \in Seq(Int) /\ Len(a) = m + c /\ m \in Nat
        /\ \A i \in 1 .. m : r[i] = a[i]
    BY LenProperties DEF Ring
  <1>2. \A i \in 1 .. m : r[i] \in Int /\ i \in 1 .. Len(a) /\ a[i] \in Int
    <2>1. TAKE i \in 1 .. m
    <2>2. i \in 1 .. Len(a)
      BY <1>1
    <2> QED
      BY <1>1, <2>2, ElementOfSeq
  <1>3. /\ s \in Seq(Int) /\ Len(s) = (IF 1 <= m THEN m - 1 + 1 ELSE 0)
        /\ \A i \in 1 .. (m - 1 + 1) : s[i] = r[1 + i - 1]
    BY <1>1, <1>2, SubSeqProperties
  <1>4. /\ u \in Seq(Int) /\ Len(u) = (IF 1 <= m THEN m - 1 + 1 ELSE 0)
        /\ \A i \in 1 .. (m - 1 + 1) : u[i] = a[1 + i - 1]
    BY <1>1, <1>2, SubSeqProperties
  <1> HIDE DEF s, u, m
  <1>5. Len(s) = m /\ Len(u) = m
    BY <1>1, <1>3, <1>4
  <1>6. \A i \in 1 .. m : s[i] = u[i]
    <2>1. TAKE i \in 1 .. m
    <2>2. i \in 1 .. (m - 1 + 1) /\ 1 + i - 1 = i
      BY <1>1
    <2> QED
      BY <1>1, <1>3, <1>4, <2>2
  <1>7. s = u
    BY <1>3, <1>4, <1>5, <1>6, SeqEqual
  <1> QED
    BY <1>1, <1>7 DEF IsPrefix, s, u, m

-----------------------------------------------------------------------------
(* The ready list *)

(* The output thread is in the list q once, if b says so, or not at all. *)
HasOut(q, b) ==
  /\ \A i, j \in 1 .. Len(q) : q[i] = Out /\ q[j] = Out => i = j
  /\ (\E i \in 1 .. Len(q) : q[i] = Out) <=> b

(* Threads are appended to the ready list, the output thread only when it  *)
(* is not in it.                                                           *)
LEMMA OutAppended ==
  ASSUME NEW S, NEW q \in Seq(S), NEW t \in S, NEW b \in BOOLEAN, HasOut(q, b),
         b => t # Out
  PROVE  /\ Append(q, t) \in Seq(S) /\ Append(q, t) # q
         /\ HasOut(Append(q, t), b \/ t = Out)
  <1> DEFINE a == Append(q, t)
             n == Len(q)
  <1>1. /\ n \in Nat /\ a \in Seq(S) /\ Len(a) = n + 1
        /\ \A i \in 1 .. n : a[i] = q[i]
        /\ a[n + 1] = t
    BY AppendProperties, LenProperties
  <1>2. /\ \A i, j \in 1 .. n : q[i] = Out /\ q[j] = Out => i = j
        /\ (\E i \in 1 .. n : q[i] = Out) <=> b
    BY DEF HasOut
  <1>3. \A i \in 1 .. (n + 1) : i \in 1 .. n \/ i = n + 1
    BY <1>1
  <1>4. n + 1 \in 1 .. (n + 1) /\ \A i \in 1 .. n : i \in 1 .. (n + 1)
    BY <1>1
  <1>5. a # q
    BY <1>1
  <1> HIDE DEF a, n
  <1>6. \A i, j \in 1 .. (n + 1) : a[i] = Out /\ a[j] = Out => i = j
    BY <1>1, <1>2, <1>3
  <1>7. (\E i \in 1 .. (n + 1) : a[i] = Out) <=> b \/ t = Out
    <2>1. CASE t = Out
      BY <1>1, <1>4, <2>1
    <2>2. CASE t # Out
      <3>1. (\E i \in 1 .. (n + 1) : a[i] = Out) <=> \E i \in 1 .. n : q[i] = Out
        BY <1>1, <1>3, <1>4, <2>2
      <3> QED
        BY <1>2, <2>2, <3>1, Zenon
    <2> QED
      BY <2>1, <2>2
  <1> QED
    BY <1>1, <1>5, <1>6, <1>7 DEF HasOut, a

(* The first thread is taken. *)
LEMMA OutTaken ==
  ASSUME NEW S, NEW q \in Seq(S), q # <<>>, NEW b \in BOOLEAN, HasOut(q, b)
  PROVE  /\ Head(q) \in S /\ Tail(q) \in Seq(S)
         /\ Head(q) = Out => b
         /\ HasOut(Tail(q), b /\ Head(q) # Out)
  <1> DEFINE r == Tail(q)
             n == Len(q)
             h == Head(q)
  <1>1. n \in Nat /\ n > 0
    BY EmptySeq, LenProperties
  <1>2. /\ r \in Seq(S) /\ Len(r) = n - 1
        /\ \A i \in 1 .. Len(r) : r[i] = q[i + 1]
        /\ h = q[1] /\ h \in S
    BY HeadTailProperties
  <1>3. /\ \A i, j \in 1 .. n : q[i] = Out /\ q[j] = Out => i = j
        /\ (\E i \in 1 .. n : q[i] = Out) <=> b
    BY DEF HasOut
  <1> HIDE DEF r, n, h
  <1>4. \A i \in 1 .. (n - 1) : i + 1 \in 1 .. n /\ i + 1 # 1 /\ r[i] = q[i + 1]
    BY <1>1, <1>2
  <1>5. \A i \in 1 .. n : i = 1 \/ (i - 1 \in 1 .. (n - 1) /\ (i - 1) + 1 = i)
    BY <1>1
  <1>6. 1 \in 1 .. n
    BY <1>1
  <1>7. \A i, j \in 1 .. (n - 1) : r[i] = Out /\ r[j] = Out => i = j
    <2>1. SUFFICES ASSUME NEW i \in 1 .. (n - 1), NEW j \in 1 .. (n - 1),
                          r[i] = Out, r[j] = Out
                   PROVE  i = j
      OBVIOUS
    <2>2. i + 1 = j + 1
      BY <1>3, <1>4, <2>1
    <2> QED
      BY <2>2
  <1>8. CASE h = Out
    <2>1. b /\ \A i \in 1 .. (n - 1) : r[i] # Out
      BY <1>2, <1>3, <1>4, <1>6, <1>8
    <2> QED
      BY <1>2, <1>7, <1>8, <2>1 DEF HasOut, r, h
  <1>9. CASE h # Out
    <2>1. (\E i \in 1 .. (n - 1) : r[i] = Out) <=> \E i \in 1 .. n : q[i] = Out
      <3>1. ASSUME NEW i \in 1 .. n, q[i] = Out
            PROVE  \E j \in 1 .. (n - 1) : r[j] = Out
        <4>1. i - 1 \in 1 .. (n - 1) /\ (i - 1) + 1 = i
          BY <1>2, <1>5, <1>9, <3>1
        <4>2. r[i - 1] = Out
          BY <1>4, <3>1, <4>1
        <4> QED
          BY <4>1, <4>2
      <3> QED
        BY <1>4, <3>1
    <2>2. (\E i \in 1 .. Len(r) : r[i] = Out) <=> b
      BY <1>2, <1>3, <2>1, Zenon
    <2> QED
      BY <1>2, <1>7, <1>9, <2>2 DEF HasOut, r, h
  <1> QED
    BY <1>8, <1>9

-----------------------------------------------------------------------------
(* The inductive invariant of a run without a race *)

Counting == {"loadCount", "storeCount"}
Owing == {"block", "enlist", "choose", "switch", "take"}
Listed == {"choose", "switch"}
OutThreads == Users \cup {Out}

(* count and value, from what is stored and the place in getcB; what it    *)
(* has loaded is still right.                                              *)
DataInv ==
  /\ Ring(buff_size - 1, head, tail, Stored, buffer, accepted, taken)
  /\ count = Stored + (IF pc \in Counting THEN 1 ELSE 0) /\ count <= buff_size
  /\ value = Stored - (IF pc \in Owing THEN 1 ELSE 0)
  /\ pc = "storeValue" => tmp = value
  /\ pc = "storeCount" => tmp = count

(* The value says that the output thread waits. *)
Waits == value < 0

(* The output thread runs, waits, or is in the ready list once; it waits   *)
(* exactly where the value says so; and nothing runs between its steps at  *)
(* a critical place.                                                       *)
ControlInv ==
  /\ running \in OutThreads \cup {Idle} /\ ready \in Seq(OutThreads)
  /\ inList \in BOOLEAN
  /\ HasOut(ready, running # Out /\ ~inList)
  /\ pc \in Critical => running = Out
  /\ pc = "switch" => newThread \in Users \cup {Idle}
  /\ state = "BLOCKED" => inList \/ pc = "enlist"
  /\ pc \in Listed => inList
  /\ inList => pc \in Listed \/ (pc = "take" /\ running # Out)
  /\ pc = "take" => (inList <=> Waits)
  /\ pc \in {"block", "enlist"} \cup Listed => Waits
  /\ ~fault

OutputInv == ~raced => DataInv /\ ControlInv

-----------------------------------------------------------------------------
(* Switching *)

(* The places that matter. *)
LEMMA PlaceFacts ==
  /\ Listed \subseteq Critical /\ "take" \notin Critical
  /\ "enlist" \in Critical /\ "block" \in Critical
  /\ "poll" \notin Critical /\ "loadValue" \notin Critical
  /\ "loadCount" \notin Critical /\ "send" \notin Critical
  BY DEF Listed, Critical

(* Dispatch moves the output thread between the list and the processor. *)
LEMMA DispatchTo ==
  ASSUME NEW l \in Seq(OutThreads), NEW b \in BOOLEAN, HasOut(l, b), Dispatch(l)
  PROVE  /\ running' \in OutThreads \cup {Idle} /\ ready' \in Seq(OutThreads)
         /\ HasOut(ready', b /\ running' # Out)
         /\ running' = Out => b
         /\ state' = IF running' = Out THEN "RUNNING" ELSE state
  <1>1. CASE l = <<>>
    <2>1. running' = Idle /\ ready' = l /\ state' = state
      BY <1>1, ConsoleAssumption DEF Dispatch, GoesOn
    <2>2. (b /\ running' # Out) <=> b
      BY <2>1, ConsoleAssumption
    <2>3. HasOut(ready', b /\ running' # Out)
      BY <2>1, <2>2 DEF HasOut
    <2> QED
      BY <2>1, <2>3, ConsoleAssumption
  <1>2. CASE l # <<>>
    <2>1. /\ running' = Head(l) /\ ready' = Tail(l)
          /\ state' = IF running' = Out THEN "RUNNING" ELSE state
      BY <1>2 DEF Dispatch, GoesOn
    <2>2. /\ Head(l) \in OutThreads /\ Tail(l) \in Seq(OutThreads)
          /\ Head(l) = Out => b
          /\ HasOut(Tail(l), b /\ Head(l) # Out)
      BY <1>2, OutTaken
    <2> QED
      BY <2>1, <2>2
  <1> QED
    BY <1>1, <1>2

(* The output thread is neither in a critical place nor in the list. *)
LEMMA CalmControl ==
  ASSUME running' \in OutThreads \cup {Idle}, ready' \in Seq(OutThreads),
         HasOut(ready', running' # Out /\ ~inList'), pc' \notin Critical,
         inList' \in BOOLEAN, ~inList', ~fault', state' # "BLOCKED",
         pc' = "take" => ~Waits'
  PROVE  ControlInv'
  <1>1. /\ pc' # "switch" /\ pc' \notin Listed
        /\ pc' \notin {"block", "enlist"} \cup Listed
    BY DEF Critical, Listed
  <1>2. (pc' = "take" => (inList' <=> Waits')) /\ (inList' => FALSE)
    BY Zenon
  <1> QED
    BY <1>1, <1>2, Zenon DEF ControlInv

(* A step that touches no character. *)
LEMMA DataKept ==
  ASSUME DataInv, UNCHANGED <<queueVars, pc, tmp>>
  PROVE  DataInv'
  BY DEF DataInv, Stored, queueVars

(* The other threads take turns. *)
LEMMA SwitchesKeep ==
  ASSUME DataInv, ControlInv, UserSwitches
  PROVE  DataInv' /\ ControlInv'
  <1> DEFINE l == Put(running)
  <1>1. /\ running # Out /\ Dispatch(l)
        /\ UNCHANGED <<pc, tmp, newThread, queueVars, fault>>
    BY DEF UserSwitches
  <1>2. /\ running \in OutThreads \cup {Idle} /\ ready \in Seq(OutThreads)
        /\ inList \in BOOLEAN /\ HasOut(ready, ~inList) /\ pc \notin Critical
    BY <1>1 DEF ControlInv, HasOut
  <1>3. l \in Seq(OutThreads) /\ HasOut(l, ~inList)
    <2>1. CASE running = Idle
      BY <1>2, <2>1 DEF Put
    <2>2. CASE running # Idle
      <3>1. running \in OutThreads /\ l = Append(ready, running)
        BY <1>1, <1>2, <2>2 DEF Put
      <3>2. HasOut(Append(ready, running), ~inList \/ running = Out)
        BY <1>1, <1>2, <3>1, OutAppended
      <3>3. (~inList \/ running = Out) <=> ~inList
        BY <1>1
      <3>4. Append(ready, running) \in Seq(OutThreads)
        BY <1>2, <3>1, AppendProperties
      <3> QED
        BY <3>1, <3>2, <3>3, <3>4 DEF HasOut
    <2> QED
      BY <2>1, <2>2
  <1> HIDE DEF l
  <1>4. /\ running' \in OutThreads \cup {Idle} /\ ready' \in Seq(OutThreads)
        /\ HasOut(ready', ~inList /\ running' # Out)
        /\ running' = Out => ~inList
        /\ state' = IF running' = Out THEN "RUNNING" ELSE state
    BY <1>1, <1>2, <1>3, DispatchTo
  <1>5. /\ UNCHANGED <<pc, Waits, inList, newThread, fault>>
    BY <1>1 DEF queueVars, Waits
  <1>6. HasOut(ready', running' # Out /\ ~inList')
    BY <1>4, <1>5 DEF HasOut
  <1>7. ControlInv'
    BY <1>2, <1>4, <1>5, <1>6, PlaceFacts DEF ControlInv
  <1> QED
    BY <1>1, <1>7, DataKept

(* The output thread is trapped where it may be. *)
LEMMA OutTrapsKeep ==
  ASSUME DataInv, ControlInv, OutTraps, running = Out, pc \notin Critical,
         UNCHANGED pc
  PROVE  DataInv' /\ ControlInv'
  <1>1. /\ Dispatch(Put(Out))
        /\ UNCHANGED <<pc, tmp, newThread, queueVars, fault>>
    BY DEF OutTraps
  <1>2. /\ ready \in Seq(OutThreads) /\ ~inList /\ state # "BLOCKED"
        /\ HasOut(ready, FALSE)
    BY PlaceFacts DEF ControlInv, HasOut
  <1>3. Put(Out) = Append(ready, Out) /\ Out \in OutThreads
    BY <1>2, ConsoleAssumption DEF Put, OutThreads
  <1>4. HasOut(Append(ready, Out), TRUE) /\ Append(ready, Out) \in Seq(OutThreads)
    <2>1. /\ HasOut(Append(ready, Out), FALSE \/ Out = Out)
          /\ Append(ready, Out) \in Seq(OutThreads)
      BY <1>2, <1>3, OutAppended
    <2> QED
      BY <2>1 DEF HasOut
  <1>5. /\ running' \in OutThreads \cup {Idle} /\ ready' \in Seq(OutThreads)
        /\ HasOut(ready', TRUE /\ running' # Out)
        /\ state' = IF running' = Out THEN "RUNNING" ELSE state
    BY <1>1, <1>3, <1>4, DispatchTo
  <1>6. UNCHANGED <<pc, Waits, inList, newThread, fault>>
    BY <1>1 DEF queueVars, Waits
  <1>7. HasOut(ready', running' # Out /\ ~inList')
    BY <1>2, <1>5, <1>6 DEF HasOut
  <1>8. ControlInv'
    BY <1>2, <1>5, <1>6, <1>7, PlaceFacts DEF ControlInv
  <1> QED
    BY <1>1, <1>8, DataKept

-----------------------------------------------------------------------------
(* putc and exceptions *)

(* What the data of the invariant says of the numbers. *)
LEMMA StoredType ==
  ASSUME DataInv
  PROVE  /\ Stored \in Nat /\ Stored <= buff_size
         /\ Stored <= count /\ count \in Nat /\ value \in Int
         /\ value >= Stored - 1 /\ value <= Stored
         /\ accepted \in Seq(Int) /\ taken \in Seq(Int)
         /\ Len(accepted) \in Nat /\ Len(taken) \in Nat
  <1> DEFINE k == buff_size - 1
  <1>1. /\ Ring(k, head, tail, Stored, buffer, accepted, taken)
        /\ count = Stored + (IF pc \in Counting THEN 1 ELSE 0)
        /\ value = Stored - (IF pc \in Owing THEN 1 ELSE 0)
    BY DEF DataInv
  <1>2. k \in Nat /\ buff_size = k + 1
    BY ConsoleAssumption
  <1> HIDE DEF k
  <1>3. Stored \in 0 .. (k + 1) /\ accepted \in Seq(Int) /\ taken \in Seq(Int)
    BY <1>1 DEF Ring
  <1> QED
    BY <1>1, <1>2, <1>3, LenProperties

(* A character is put into the buffer and signalled. *)
LEMMA AcceptKeeps ==
  ASSUME DataInv, pc \notin Critical, Room, NEW c \in Int, Accept(c), Signal,
         UNCHANGED <<pc, tmp, head, taken>>
  PROVE  DataInv'
  <1> DEFINE k == buff_size - 1
  <1>1. /\ Ring(k, head, tail, Stored, buffer, accepted, taken)
        /\ count = Stored + (IF pc \in Counting THEN 1 ELSE 0)
        /\ value = Stored - (IF pc \in Owing THEN 1 ELSE 0)
        /\ count < buff_size
    BY DEF DataInv, Room
  <1>2. /\ buffer' = [buffer EXCEPT ![tail] = c]
        /\ tail' = (tail + 1) % buff_size
        /\ count' = (count + 1) % CountModulus
        /\ accepted' = Append(accepted, c)
        /\ value' = value + 1
    BY DEF Accept, Signal
  <1>3. k \in Nat /\ buff_size = k + 1
    BY ConsoleAssumption
  <1>4. /\ Stored \in Nat /\ Stored <= count /\ count \in Nat /\ value \in Int
        /\ accepted \in Seq(Int) /\ Len(accepted) \in Nat /\ Len(taken) \in Nat
    BY StoredType
  <1>5. count' = count + 1
    <2>1. count + 1 \in 0 .. (CountModulus - 1) /\ CountModulus \in Nat \ {0}
      BY <1>1, <1>3, <1>4, ConsoleAssumption
    <2>2. (count + 1) % CountModulus = count + 1
      BY <2>1
    <2> QED
      BY <1>2, <2>2
  <1>6. Stored' = Stored + 1
    <2>1. Len(accepted') = Len(accepted) + 1
      BY <1>2, <1>4, AppendProperties
    <2> QED
      BY <1>4, <2>1 DEF Stored
  <1> HIDE DEF k
  <1>7. Ring(k, head, (tail + 1) % (k + 1), Stored + 1,
             [buffer EXCEPT ![tail] = c], Append(accepted, c), taken)
    <2>1. Stored < k + 1
      BY <1>1, <1>3, <1>4
    <2> QED
      BY <1>1, <1>3, <2>1, RingPut
  <1>8. Ring(buff_size - 1, head, tail, Stored, buffer, accepted, taken)'
    BY <1>2, <1>3, <1>6, <1>7 DEF k
  <1>9. pc' \notin {"storeValue", "storeCount"} /\ pc' = pc
    BY DEF Critical
  <1>10. /\ count' = Stored' + (IF pc' \in Counting THEN 1 ELSE 0)
         /\ count' <= buff_size
         /\ value' = Stored' - (IF pc' \in Owing THEN 1 ELSE 0)
    BY <1>1, <1>3, <1>4, <1>2, <1>5, <1>6, <1>9
  <1> QED
    BY <1>8, <1>9, <1>10 DEF DataInv

(* deblock finds the output thread when the value says that it waits. *)
LEMMA SignalFinds ==
  ASSUME DataInv, ControlInv, running # Out, Signal
  PROVE  /\ pc \notin Critical /\ ~fault' /\ ~inList'
         /\ inList <=> Waits
         /\ ~Waits' /\ inList' \in BOOLEAN
  <1>1. pc \notin Critical /\ inList \in BOOLEAN
    BY DEF ControlInv
  <1>2. inList <=> Waits
    <2>1. CASE pc = "take"
      BY <2>1 DEF ControlInv
    <2>2. CASE pc # "take"
      <3>1. ~inList
        BY <1>1, <2>2, PlaceFacts DEF ControlInv
      <3>2. pc \notin Owing
        BY <1>1, <2>2 DEF Owing, Critical
      <3>3. ~Waits
        BY <3>2, StoredType DEF DataInv, Waits
      <3> QED
        BY <3>1, <3>3
    <2> QED
      BY <2>1, <2>2
  <1>3. ~fault' /\ ~inList' /\ inList' \in BOOLEAN
    <2>1. /\ fault' = (Waits /\ ~inList)
          /\ inList' = (inList /\ value >= 0)
      BY DEF Signal, Waits
    <2>2. Waits <=> ~(value >= 0)
      BY StoredType DEF Waits
    <2> QED
      BY <1>2, <2>1, <2>2
  <1>4. ~Waits'
    BY StoredType DEF Signal, Waits
  <1> QED
    BY <1>1, <1>2, <1>3, <1>4

(* putc: a waiting output thread becomes ready, once. *)
LEMMA PutcKeeps ==
  ASSUME DataInv, ControlInv, putcB
  PROVE  DataInv' /\ ControlInv'
  <1> DEFINE c == Len(accepted) + 1
  <1>1. /\ running \in Users /\ Room /\ Accept(c) /\ Signal
        /\ ready' = Woken /\ state' = IF Woken = ready THEN state ELSE "READY"
        /\ UNCHANGED <<running, pc, tmp, newThread, head, taken>>
    BY DEF putcB
  <1>2. c \in Int /\ running # Out
    BY <1>1, StoredType, ConsoleAssumption
  <1> HIDE DEF c
  <1>3. /\ pc \notin Critical /\ ~fault' /\ ~inList'
        /\ inList <=> Waits
        /\ ~Waits' /\ inList' \in BOOLEAN
    BY <1>1, <1>2, SignalFinds
  <1>4. DataInv'
    BY <1>1, <1>2, <1>3, AcceptKeeps
  <1>5. /\ ready \in Seq(OutThreads) /\ inList \in BOOLEAN
        /\ HasOut(ready, ~inList) /\ Out \in OutThreads
    BY <1>2 DEF ControlInv, HasOut, OutThreads
  <1>6. /\ ready' \in Seq(OutThreads) /\ HasOut(ready', TRUE)
        /\ state' # "BLOCKED"
    <2>1. CASE inList
      <3>1. ready' = Append(ready, Out)
        <4>1. value < 0
          BY <1>3, <2>1 DEF Waits
        <4> QED
          BY <1>1, <2>1, <4>1 DEF Woken
      <3>2. HasOut(ready, FALSE)
        BY <1>5, <2>1 DEF HasOut
      <3>3. /\ Append(ready, Out) \in Seq(OutThreads) /\ Append(ready, Out) # ready
            /\ HasOut(Append(ready, Out), FALSE \/ Out = Out)
        BY <1>5, <3>2, OutAppended
      <3> QED
        BY <1>1, <3>1, <3>3 DEF HasOut
    <2>2. CASE ~inList
      <3>1. ready' = ready /\ state' = state
        BY <1>1, <2>2 DEF Woken
      <3>2. state # "BLOCKED"
        BY <1>3, <2>2, PlaceFacts DEF ControlInv
      <3> QED
        BY <1>5, <2>2, <3>1, <3>2 DEF HasOut
    <2> QED
      BY <1>5, <2>1, <2>2
  <1>7. HasOut(ready', running' # Out /\ ~inList')
    BY <1>1, <1>2, <1>3, <1>6 DEF HasOut
  <1>8. ControlInv'
    <2>1. running' \in OutThreads \cup {Idle} /\ pc' \notin Critical
      BY <1>1, <1>3 DEF OutThreads
    <2> QED
      BY <1>3, <1>6, <1>7, <2>1, CalmControl
  <1> QED
    BY <1>4, <1>8

(* The output thread is in no list when setAllFinished puts it there: when *)
(* it waits the buffer has room, and the message of the handler wakes it.  *)
LEMMA ExceptionKeeps ==
  ASSUME DataInv, ControlInv, Exception
  PROVE  DataInv' /\ ControlInv'
  <1> DEFINE c == Len(accepted) + 1
  <1>1. /\ running \in Users /\ running # Out /\ Prints
        /\ running' = Out /\ state' = "RUNNING" /\ ready' = <<>>
        /\ UNCHANGED <<pc, tmp, newThread, head, taken>>
    BY ConsoleAssumption DEF Exception, setAllFinished, GoesOn
  <1>2. /\ pc \notin Critical /\ inList \in BOOLEAN /\ ~fault
    BY <1>1 DEF ControlInv
  <1>3. /\ DataInv' /\ inList' \in BOOLEAN /\ ~inList' /\ ~fault'
        /\ pc = "take" => ~Waits'
    <2>1. CASE Room
      <3>1. Accept(c) /\ Signal
        BY <1>1, <2>1 DEF Prints
      <3>2. c \in Int
        BY StoredType
      <3> HIDE DEF c
      <3> QED
        BY <1>1, <1>2, <2>1, <3>1, <3>2, SignalFinds, AcceptKeeps
    <2>2. CASE ~Room
      <3>1. UNCHANGED <<value, fault, inList, tail, count, buffer, accepted>>
        BY <1>1, <2>2 DEF Prints
      <3>2. DataInv'
        BY <1>1, <3>1, DataKept DEF queueVars
      <3>3. ~Waits \/ pc # "take"
        <4>1. SUFFICES ASSUME Waits, pc = "take" PROVE FALSE
          BY StoredType
        <4>2. count = Stored /\ Stored = 0
          <5>1. pc \notin Counting /\ pc \in Owing
            BY <4>1 DEF Counting, Owing
          <5>2. count = Stored + 0 /\ value = Stored - 1
            BY <5>1 DEF DataInv
          <5>3. Stored - 1 < 0
            BY <4>1, <5>2 DEF Waits
          <5> QED
            BY <5>2, <5>3, StoredType
        <4> QED
          BY <2>2, <4>2, ConsoleAssumption DEF Room
      <3>4. ~inList
        BY <1>2, <3>3, PlaceFacts DEF ControlInv
      <3> QED
        <4>1. /\ Waits' <=> Waits
              /\ inList' \in BOOLEAN /\ (inList' <=> inList)
              /\ fault' <=> fault
          BY <1>2, <3>1 DEF Waits
        <4> QED
          BY <1>2, <3>2, <3>3, <3>4, <4>1, Zenon
    <2> QED
      BY <2>1, <2>2
  <1>4. HasOut(<<>>, FALSE) /\ <<>> \in Seq(OutThreads)
    BY DEF HasOut
  <1>5. /\ ready' \in Seq(OutThreads) /\ running' \in OutThreads \cup {Idle}
        /\ HasOut(ready', running' # Out /\ ~inList')
    BY <1>1, <1>4 DEF HasOut, OutThreads
  <1>6. ControlInv'
    <2>1. state' # "BLOCKED" /\ pc' \notin Critical /\ pc' = pc
      BY <1>1, <1>2
    <2> QED
      BY <1>3, <1>5, <2>1, CalmControl
  <1> QED
    BY <1>3, <1>6

-----------------------------------------------------------------------------
(* The output thread *)

(* Where it is, while it runs. *)
LEMMA Running ==
  ASSUME ControlInv, running = Out
  PROVE  /\ ready \in Seq(OutThreads) /\ HasOut(ready, FALSE) /\ ~fault
         /\ inList \in BOOLEAN /\ Out \in OutThreads
         /\ inList = IF pc \in Listed THEN TRUE ELSE FALSE
         /\ pc = "take" => ~Waits
  <1>1. /\ ready \in Seq(OutThreads) /\ ~fault /\ inList \in BOOLEAN
        /\ HasOut(ready, FALSE) /\ Out \in OutThreads
    BY DEF ControlInv, HasOut, OutThreads
  <1>2. pc \in Listed => inList
    BY DEF ControlInv
  <1>3. pc \notin Listed => ~inList
    BY DEF ControlInv
  <1>4. inList = IF pc \in Listed THEN TRUE ELSE FALSE
    BY <1>1, <1>2, <1>3
  <1>5. pc = "take" => ~inList
    BY <1>3 DEF Listed
  <1> QED
    BY <1>1, <1>4, <1>5 DEF ControlInv

(* It goes on to a place that is not critical. *)
LEMMA CalmStep ==
  ASSUME ControlInv, running = Out, pc \notin Listed, pc # "enlist",
         pc' \notin Critical, pc' = "take" => ~Waits',
         UNCHANGED <<running, ready, state, inList, fault>>
  PROVE  ControlInv'
  <1>1. /\ ready \in Seq(OutThreads) /\ HasOut(ready, FALSE) /\ ~fault
        /\ ~inList /\ inList \in BOOLEAN /\ Out \in OutThreads
    BY Running
  <1>2. state # "BLOCKED"
    BY <1>1 DEF ControlInv
  <1>3. HasOut(ready', running' # Out /\ ~inList')
    BY <1>1 DEF HasOut
  <1> QED
    BY <1>1, <1>2, <1>3, CalmControl

(* It goes on to, or is at, a place where it holds the processor. *)
LEMMA BusyStep ==
  ASSUME ControlInv, running = Out, running' = Out,
         ready' \in Seq(OutThreads), HasOut(ready', FALSE),
         pc' \in Critical, inList' = (IF pc' \in Listed THEN TRUE ELSE FALSE),
         pc' = "switch" => newThread' \in Users \cup {Idle},
         state' = "BLOCKED" => pc' \in Listed \cup {"enlist"},
         pc' \in {"block", "enlist"} \cup Listed => Waits', ~fault'
  PROVE  ControlInv'
  <1>1. /\ running' \in OutThreads \cup {Idle} /\ pc' # "take"
        /\ inList' \in BOOLEAN
        /\ pc' \in Listed => inList'
        /\ inList' => pc' \in Listed
    BY DEF OutThreads, Critical
  <1>2. HasOut(ready', running' # Out /\ ~inList')
    BY DEF HasOut
  <1>3. state' = "BLOCKED" => inList' \/ pc' = "enlist"
    BY <1>1
  <1> QED
    BY <1>1, <1>2, <1>3, Zenon DEF ControlInv

(* A tick outside of the critical places. *)
LEMMA PreemptedKeeps ==
  ASSUME DataInv, ControlInv, OutPreempted, ~raced'
  PROVE  DataInv' /\ ControlInv'
  <1>1. OutTraps /\ running = Out /\ UNCHANGED pc /\ pc \notin Critical
    BY DEF OutPreempted
  <1> QED
    BY <1>1, OutTrapsKeep

(* The console is asked. *)
LEMMA PollKeeps ==
  ASSUME DataInv, ControlInv, PollReady \/ PollBusy
  PROVE  DataInv' /\ ControlInv'
  <1>1. CASE PollReady
    <2>1. /\ running = Out /\ pc = "poll" /\ pc' = "loadValue"
          /\ UNCHANGED <<running, ready, state, inList, fault, tmp, queueVars>>
      BY <1>1 DEF PollReady, OutSteps, threadVars, queueVars
    <2>2. /\ pc \notin Listed /\ pc # "enlist"
          /\ pc' \notin Critical /\ pc' # "take"
      BY <2>1 DEF Listed, Critical
    <2>3. ControlInv'
      BY <2>1, <2>2, CalmStep
    <2>4. DataInv'
      <3>1. /\ Stored' = Stored
            /\ UNCHANGED <<value, head, tail, count, buffer, accepted, taken>>
        BY <2>1 DEF Stored, queueVars
      <3>2. /\ (pc' \in Counting <=> pc \in Counting)
            /\ (pc' \in Owing <=> pc \in Owing)
            /\ pc' \notin {"storeValue", "storeCount"}
        BY <2>1 DEF Counting, Owing
      <3> QED
        BY <3>1, <3>2 DEF DataInv
    <2> QED
      BY <2>3, <2>4
  <1>2. CASE PollBusy
    <2>1. OutTraps /\ running = Out /\ pc = "poll" /\ UNCHANGED pc
      BY <1>2 DEF PollBusy, OutSteps
    <2> QED
      BY <2>1, OutTrapsKeep, PlaceFacts
  <1> QED
    BY <1>1, <1>2

(* Sem::semWait *)
LEMMA WaitKeeps ==
  ASSUME DataInv, ControlInv, LoadValue \/ StoreValue
  PROVE  DataInv' /\ ControlInv'
  <1>1. /\ running = Out /\ running' = Out
        /\ UNCHANGED <<ready, state, inList, fault, head, tail, count, buffer,
                       accepted, taken>>
    BY DEF LoadValue, StoreValue, OutSteps, threadVars, queueVars
  <1>2. /\ ready \in Seq(OutThreads) /\ HasOut(ready, FALSE) /\ ~fault
        /\ inList = IF pc \in Listed THEN TRUE ELSE FALSE
    BY <1>1, Running
  <1>3. Stored' = Stored
    BY <1>1 DEF Stored
  <1>4. CASE LoadValue
    <2>1. pc = "loadValue" /\ pc' = "storeValue" /\ tmp' = value /\ value' = value
      BY <1>4 DEF LoadValue, OutSteps, queueVars
    <2>2. /\ pc' \in Critical /\ pc \notin Listed /\ pc' \notin Listed
          /\ pc \notin Counting /\ pc \notin Owing
          /\ pc' \notin Counting /\ pc' \notin Owing
          /\ pc' \notin {"block", "enlist"} \cup Listed
          /\ pc' # "switch" /\ pc' # "storeCount"
      BY <2>1 DEF Critical, Listed, Counting, Owing
    <2>3. ~inList /\ state # "BLOCKED"
      BY <1>1, <1>2, <2>1, <2>2 DEF ControlInv
    <2>4. DataInv'
      BY <1>1, <1>3, <2>1, <2>2 DEF DataInv
    <2>5. ControlInv'
      <3>1. ready' \in Seq(OutThreads) /\ HasOut(ready', FALSE) /\ ~fault'
        BY <1>1, <1>2 DEF HasOut
      <3>2. inList' = (IF pc' \in Listed THEN TRUE ELSE FALSE) /\ state' # "BLOCKED"
        <4>1. inList' = inList /\ state' = state
          BY <1>1
        <4> QED
          BY <1>2, <2>2, <2>3, <4>1
      <3> QED
        BY <1>1, <2>2, <3>1, <3>2, BusyStep
    <2> QED
      BY <2>4, <2>5
  <1>5. CASE StoreValue
    <2>1. /\ pc = "storeValue" /\ pc' = (IF Blocks THEN "block" ELSE "take")
          /\ value' = tmp - 1 /\ tmp' = tmp
      BY <1>5 DEF StoreValue, OutSteps
    <2>2. tmp = value /\ value = Stored + 0 /\ count = Stored + 0
      <3>1. pc \notin Owing /\ pc \notin Counting
        BY <2>1 DEF Owing, Counting
      <3>2. value = Stored - 0 /\ count = Stored + 0 /\ tmp = value
        BY <2>1, <3>1 DEF DataInv
      <3> QED
        BY <3>2, StoredType
    <2>3. /\ pc' \in Owing /\ pc' \notin Counting /\ pc \notin Counting
          /\ pc' \notin {"storeValue", "storeCount"}
          /\ pc' \notin Listed /\ pc \notin Listed
      BY <2>1 DEF Owing, Counting, Listed
    <2>4. DataInv'
      <3>1. value' = Stored' - 1
        BY <1>3, <2>1, <2>2, StoredType
      <3> QED
        BY <1>1, <1>3, <2>2, <2>3, <3>1 DEF DataInv
    <2>5. Waits' <=> Blocks
      BY <2>1 DEF Waits, Blocks
    <2>6. ~inList /\ state # "BLOCKED"
      BY <1>1, <1>2, <2>1, <2>3 DEF ControlInv
    <2>7. ControlInv'
      <3>1. CASE Blocks
        <4>1. pc' = "block" /\ pc' \in Critical /\ Waits'
          BY <2>1, <2>5, <3>1 DEF Critical
        <4>2. ready' \in Seq(OutThreads) /\ HasOut(ready', FALSE) /\ ~fault'
          BY <1>1, <1>2 DEF HasOut
        <4>3. /\ inList' = (IF pc' \in Listed THEN TRUE ELSE FALSE)
              /\ state' # "BLOCKED"
          <5>1. inList' = inList /\ state' = state
            BY <1>1
          <5> QED
            BY <1>2, <2>3, <2>6, <5>1
        <4> QED
          BY <1>1, <4>1, <4>2, <4>3, BusyStep
      <3>2. CASE ~Blocks
        <4>1. pc' = "take" /\ pc' \notin Critical /\ ~Waits'
          BY <2>1, <2>5, <3>2 DEF Critical
        <4>2. pc # "enlist"
          BY <2>1
        <4> QED
          BY <1>1, <2>3, <4>1, <4>2, CalmStep
      <3> QED
        BY <3>1, <3>2
    <2> QED
      BY <2>4, <2>7
  <1> QED
    BY <1>4, <1>5

(* The data between two places at which count and value mean the same. *)
LEMMA DataStep ==
  ASSUME DataInv, UNCHANGED <<value, head, tail, count, buffer, accepted, taken>>,
         pc' \in Counting <=> pc \in Counting, pc' \in Owing <=> pc \in Owing,
         pc' # "storeValue", pc' = "storeCount" => tmp' = count
  PROVE  DataInv'
  <1>1. Stored' = Stored
    BY DEF Stored
  <1> QED
    BY <1>1 DEF DataInv

(* Sem::block *)
LEMMA BlockKeeps ==
  ASSUME DataInv, ControlInv, SetBlocked \/ Enlist \/ Choose
  PROVE  DataInv' /\ ControlInv'
  <1>1. /\ running = Out /\ running' = Out
        /\ UNCHANGED <<tmp, value, head, tail, count, buffer, accepted, taken,
                       fault>>
    BY DEF SetBlocked, Enlist, Choose, OutSteps, threadVars, queueVars
  <1>2. /\ ready \in Seq(OutThreads) /\ HasOut(ready, FALSE) /\ ~fault
        /\ inList = IF pc \in Listed THEN TRUE ELSE FALSE
    BY <1>1, Running
  <1>3. /\ \/ pc = "block" /\ pc' = "enlist"
           \/ pc = "enlist" /\ pc' = "choose"
           \/ pc = "choose" /\ pc' = "switch"
    BY DEF SetBlocked, Enlist, Choose, OutSteps
  <1>4. /\ pc \in {"block", "enlist"} \cup Listed
        /\ pc' \in Critical /\ pc' \notin {"storeValue", "storeCount", "take"}
        /\ pc' \in Counting <=> pc \in Counting
        /\ pc' \in Owing <=> pc \in Owing
        /\ pc' \in Listed <=> pc' \in {"choose", "switch"}
        /\ pc' \in Listed \cup {"enlist"}
    BY <1>3 DEF Critical, Listed, Counting, Owing
  <1>5. DataInv'
    BY <1>1, <1>4, DataStep
  <1>6. Waits'
    BY <1>1, <1>4 DEF ControlInv, Waits
  <1>7. ~fault'
    BY <1>1, <1>2
  <1>8. CASE SetBlocked
    <2>1. pc = "block" /\ pc' = "enlist" /\ inList' = inList /\ ready' = ready
      BY <1>8 DEF SetBlocked, OutSteps, queueVars
    <2>2. inList' = (IF pc' \in Listed THEN TRUE ELSE FALSE)
      <3>1. pc \notin Listed /\ pc' \notin Listed
        BY <2>1 DEF Listed
      <3> QED
        BY <1>2, <2>1, <3>1
    <2>3. ready' \in Seq(OutThreads) /\ HasOut(ready', FALSE) /\ pc' # "switch"
      BY <1>2, <2>1 DEF HasOut
    <2> QED
      BY <1>1, <1>4, <1>5, <1>6, <1>7, <2>2, <2>3, BusyStep
  <1>9. CASE Enlist
    <2>1. pc' = "choose" /\ inList' = TRUE /\ ready' = ready
      BY <1>9 DEF Enlist, OutSteps, threadVars
    <2>2. inList' = (IF pc' \in Listed THEN TRUE ELSE FALSE)
      BY <2>1 DEF Listed
    <2>3. ready' \in Seq(OutThreads) /\ HasOut(ready', FALSE) /\ pc' # "switch"
      BY <1>2, <2>1 DEF HasOut
    <2> QED
      BY <1>1, <1>4, <1>5, <1>6, <1>7, <2>2, <2>3, BusyStep
  <1>10. CASE Choose
    <2>1. /\ pc = "choose" /\ pc' = "switch" /\ inList' = inList
          /\ IF ready = <<>> THEN newThread' = Idle /\ ready' = ready
             ELSE newThread' = Head(ready) /\ ready' = Tail(ready)
      BY <1>10 DEF Choose, OutSteps, queueVars
    <2>2. inList' = (IF pc' \in Listed THEN TRUE ELSE FALSE)
      <3>1. pc \in Listed /\ pc' \in Listed
        BY <2>1 DEF Listed
      <3> QED
        BY <1>2, <2>1, <3>1
    <2>3. /\ ready' \in Seq(OutThreads) /\ HasOut(ready', FALSE)
          /\ newThread' \in Users \cup {Idle}
      <3>1. CASE ready = <<>>
        BY <1>2, <2>1, <3>1 DEF HasOut
      <3>2. CASE ready # <<>>
        <4>1. /\ Head(ready) \in OutThreads /\ Tail(ready) \in Seq(OutThreads)
              /\ Head(ready) = Out => FALSE
              /\ HasOut(Tail(ready), FALSE /\ Head(ready) # Out)
          BY <1>2, <3>2, OutTaken
        <4>2. HasOut(Tail(ready), FALSE)
          BY <4>1 DEF HasOut
        <4> QED
          BY <2>1, <3>2, <4>1, <4>2 DEF OutThreads
      <3> QED
        BY <3>1, <3>2
    <2> QED
      BY <1>1, <1>4, <1>5, <1>6, <1>7, <2>2, <2>3, BusyStep
  <1> QED
    BY <1>8, <1>9, <1>10

(* The switch of Sem::block: the next one is another thread. *)
LEMMA SwitchAwayKeeps ==
  ASSUME DataInv, ControlInv, SwitchAway
  PROVE  DataInv' /\ ControlInv'
  <1>1. /\ running = Out /\ pc = "switch" /\ pc' = "take"
        /\ GoesOn(newThread)
        /\ UNCHANGED <<ready, tmp, value, inList, head, tail, count, buffer,
                       accepted, taken, fault>>
    BY DEF SwitchAway, OutSteps, queueVars
  <1>2. /\ ready \in Seq(OutThreads) /\ HasOut(ready, FALSE) /\ ~fault
        /\ inList = IF pc \in Listed THEN TRUE ELSE FALSE
    BY <1>1, Running
  <1>3. newThread \in Users \cup {Idle} /\ newThread # Out
    BY <1>1, ConsoleAssumption DEF ControlInv
  <1>4. /\ running' = newThread /\ running' # Out
        /\ running' \in OutThreads \cup {Idle}
    BY <1>1, <1>3 DEF GoesOn, OutThreads
  <1>5. pc \in Listed /\ Waits
    BY <1>1 DEF ControlInv, Listed
  <1>6. DataInv'
    <2>1. /\ (pc' \in Counting <=> pc \in Counting)
          /\ (pc' \in Owing <=> pc \in Owing)
          /\ pc' # "storeValue" /\ pc' # "storeCount"
      BY <1>1 DEF Counting, Owing
    <2> QED
      BY <1>1, <2>1, DataStep
  <1>7. inList' /\ inList' \in BOOLEAN /\ ~fault' /\ Waits'
    <2>1. inList' = inList /\ fault' = fault /\ (Waits' <=> Waits)
      BY <1>1 DEF Waits
    <2> QED
      BY <1>2, <1>5, <2>1
  <1>8. HasOut(ready', running' # Out /\ ~inList') /\ ready' \in Seq(OutThreads)
    BY <1>1, <1>2, <1>7 DEF HasOut
  <1>9. /\ pc' \notin Critical /\ pc' # "switch"
        /\ pc' \notin {"block", "enlist"} \cup Listed
    BY <1>1 DEF Critical, Listed
  <1> QED
    BY <1>1, <1>4, <1>6, <1>7, <1>8, <1>9, Zenon DEF ControlInv

(* The character is taken: there is one. *)
LEMMA TakeKeeps ==
  ASSUME DataInv, ControlInv, Take
  PROVE  DataInv' /\ ControlInv'
  <1> DEFINE k == buff_size - 1
  <1>1. /\ running = Out /\ pc = "take" /\ pc' = "loadCount"
        /\ taken' = Append(taken, buffer[head])
        /\ head' = (head + 1) % buff_size
        /\ UNCHANGED <<running, ready, state, inList, fault, tmp, value, tail,
                       count, buffer, accepted>>
    BY DEF Take, OutSteps, threadVars
  <1>2. /\ Ring(k, head, tail, Stored, buffer, accepted, taken)
        /\ count = Stored + 0 /\ value = Stored - 1 /\ count <= buff_size
    BY <1>1 DEF DataInv, Counting, Owing
  <1>3. /\ Stored \in Nat /\ taken \in Seq(Int) /\ Len(taken) \in Nat
        /\ accepted \in Seq(Int) /\ Len(accepted) \in Nat
    BY StoredType
  <1>4. Stored > 0
    <2>1. ~(value < 0)
      BY <1>1, Running DEF Waits
    <2> QED
      BY <1>2, <1>3, <2>1
  <1>5. k \in Nat /\ buff_size = k + 1
    BY ConsoleAssumption
  <1> HIDE DEF k
  <1>6. buffer[head] \in Int
    BY <1>2 DEF Ring
  <1>7. Stored' = Stored - 1
    <2>1. Len(taken') = Len(taken) + 1
      BY <1>1, <1>3, <1>6, AppendProperties
    <2> QED
      BY <1>1, <1>3, <2>1 DEF Stored
  <1>8. Ring(k, (head + 1) % (k + 1), tail, Stored - 1, buffer, accepted,
             Append(taken, buffer[head]))
    BY <1>2, <1>4, <1>5, RingTake
  <1>9. Ring(buff_size - 1, head, tail, Stored, buffer, accepted, taken)'
    BY <1>1, <1>5, <1>7, <1>8 DEF k
  <1>10. /\ pc' \in Counting /\ pc' \notin Owing
         /\ pc' \notin {"storeValue", "storeCount"}
         /\ pc \notin Listed /\ pc' \notin Critical
    BY <1>1 DEF Counting, Owing, Listed, Critical
  <1>11. DataInv'
    <2>1. count' = Stored' + 1 /\ count' <= buff_size /\ value' = Stored' - 0
      BY <1>1, <1>2, <1>3, <1>7
    <2> QED
      BY <1>9, <1>10, <2>1 DEF DataInv
  <1>12. ControlInv'
    BY <1>1, <1>10, CalmStep
  <1> QED
    BY <1>11, <1>12

(* count-- *)
LEMMA CountKeeps ==
  ASSUME DataInv, ControlInv, LoadCount \/ StoreCount
  PROVE  DataInv' /\ ControlInv'
  <1>1. /\ running = Out /\ running' = Out
        /\ UNCHANGED <<ready, state, inList, fault, value, head, tail, buffer,
                       accepted, taken>>
    BY DEF LoadCount, StoreCount, OutSteps, threadVars, queueVars
  <1>2. Stored' = Stored
    BY <1>1 DEF Stored
  <1>3. CASE LoadCount
    <2>1. pc = "loadCount" /\ pc' = "storeCount" /\ tmp' = count /\ count' = count
      BY <1>3 DEF LoadCount, OutSteps, queueVars
    <2>2. /\ (pc' \in Counting <=> pc \in Counting)
          /\ (pc' \in Owing <=> pc \in Owing)
          /\ pc' # "storeValue" /\ pc' \in Critical
          /\ pc \notin Listed /\ pc' \notin {"block", "enlist"} \cup Listed
          /\ pc' # "switch"
      BY <2>1 DEF Counting, Owing, Critical, Listed
    <2>3. DataInv'
      BY <1>1, <2>1, <2>2, DataStep
    <2>4. /\ ready \in Seq(OutThreads) /\ HasOut(ready, FALSE) /\ ~fault
          /\ inList = IF pc \in Listed THEN TRUE ELSE FALSE
      BY <1>1, Running
    <2>5. ready' \in Seq(OutThreads) /\ HasOut(ready', FALSE)
      BY <1>1, <2>4 DEF HasOut
    <2>6. ~fault' /\ inList' = (IF pc' \in Listed THEN TRUE ELSE FALSE)
      <3>1. inList' = inList /\ fault' = fault
        BY <1>1
      <3> QED
        BY <2>2, <2>4, <3>1
    <2>7. state' # "BLOCKED"
      BY <1>1, <2>1, <2>2, <2>4 DEF ControlInv
    <2> QED
      BY <1>1, <2>2, <2>3, <2>5, <2>6, <2>7, BusyStep
  <1>4. CASE StoreCount
    <2>1. pc = "storeCount" /\ pc' = "send" /\ count' = (tmp - 1) % CountModulus
      BY <1>4 DEF StoreCount, OutSteps, CountLess
    <2>2. /\ pc \in Counting /\ pc \notin Owing /\ pc' \notin Counting
          /\ pc' \notin Owing /\ pc' \notin {"storeValue", "storeCount"}
          /\ pc \notin Listed /\ pc' \notin Critical
      BY <2>1 DEF Counting, Owing, Critical, Listed
    <2>3. /\ tmp = count /\ count = Stored + 1 /\ count <= buff_size
          /\ value = Stored - 0
      BY <2>1, <2>2 DEF DataInv
    <2>4. count' = Stored
      <3>1. tmp - 1 = Stored /\ Stored \in 0 .. (CountModulus - 1)
        BY <2>3, StoredType, ConsoleAssumption
      <3>2. CountModulus \in Nat \ {0}
        BY ConsoleAssumption
      <3>3. Stored % CountModulus = Stored
        BY <3>1, <3>2
      <3> QED
        BY <2>1, <3>1, <3>3
    <2>5. DataInv'
      <3>1. /\ count' = Stored' + 0 /\ count' <= buff_size
            /\ value' = Stored' - 0
        BY <1>1, <1>2, <2>3, <2>4, StoredType, ConsoleAssumption
      <3>2. Ring(buff_size - 1, head, tail, Stored, buffer, accepted, taken)'
        BY <1>1, <1>2 DEF DataInv
      <3> QED
        BY <2>2, <3>1, <3>2 DEF DataInv
    <2>6. pc # "enlist" /\ pc' # "take"
      BY <2>1
    <2> QED
      BY <1>1, <2>2, <2>5, <2>6, CalmStep
  <1> QED
    BY <1>3, <1>4

(* The character is sent. *)
LEMMA SendKeeps ==
  ASSUME DataInv, ControlInv, Send
  PROVE  DataInv' /\ ControlInv'
  <1>1. /\ running = Out /\ pc = "send" /\ pc' = "poll"
        /\ UNCHANGED <<running, ready, state, inList, fault, value, head, tail,
                       count, buffer, accepted, taken>>
    BY DEF Send, OutSteps, threadVars, queueVars
  <1>2. /\ (pc' \in Counting <=> pc \in Counting)
        /\ (pc' \in Owing <=> pc \in Owing)
        /\ pc' # "storeValue" /\ pc' # "storeCount" /\ pc' # "take"
        /\ pc \notin Listed /\ pc # "enlist" /\ pc' \notin Critical
    BY <1>1 DEF Counting, Owing, Critical, Listed
  <1> QED
    BY <1>1, <1>2, DataStep, CalmStep

-----------------------------------------------------------------------------
(* Always *)

(* A race is not forgotten. *)
LEMMA RacedStays ==
  ASSUME [Next]_vars, ~raced'
  PROVE  ~raced
  BY DEF Next, vars, UserSwitches, putcB, Exception, OutPreempted, OutRuns,
         PollReady, PollBusy, getcB, LoadValue, StoreValue, SetBlocked, Enlist,
         Choose, SwitchAway, Take, LoadCount, StoreCount, Send, threadVars

(* Nothing happens. *)
LEMMA StutterKeeps ==
  ASSUME DataInv, ControlInv, UNCHANGED vars
  PROVE  DataInv' /\ ControlInv'
  <1>1. /\ UNCHANGED <<running, ready, state, pc, tmp, newThread, value, inList,
                       head, tail, count, buffer, accepted, taken, fault>>
    BY DEF vars, queueVars
  <1>2. DataInv'
    BY <1>1, DataKept DEF queueVars
  <1>3. (Waits' <=> Waits) /\ (HasOut(ready', running' # Out /\ ~inList')
                                 <=> HasOut(ready, running # Out /\ ~inList))
    BY <1>1 DEF Waits
  <1>4. ControlInv'
    BY <1>1, <1>3 DEF ControlInv
  <1> QED
    BY <1>2, <1>4

(* Every step keeps the invariant. *)
LEMMA OutputNext ==
  ASSUME OutputInv, [Next]_vars
  PROVE  OutputInv'
  <1>1. SUFFICES ASSUME ~raced' PROVE DataInv' /\ ControlInv'
    BY DEF OutputInv
  <1>2. DataInv /\ ControlInv
    BY <1>1, RacedStays DEF OutputInv
  <1>3. CASE UserSwitches
    BY <1>2, <1>3, SwitchesKeep
  <1>4. CASE putcB
    BY <1>2, <1>4, PutcKeeps
  <1>5. CASE Exception
    BY <1>2, <1>5, ExceptionKeeps
  <1>6. CASE OutPreempted
    BY <1>1, <1>2, <1>6, PreemptedKeeps
  <1>7. CASE PollReady \/ PollBusy
    BY <1>2, <1>7, PollKeeps
  <1>8. CASE LoadValue \/ StoreValue
    BY <1>2, <1>8, WaitKeeps
  <1>9. CASE SetBlocked \/ Enlist \/ Choose
    BY <1>2, <1>9, BlockKeeps
  <1>10. CASE SwitchAway
    BY <1>2, <1>10, SwitchAwayKeeps
  <1>11. CASE Take
    BY <1>2, <1>11, TakeKeeps
  <1>12. CASE LoadCount \/ StoreCount
    BY <1>2, <1>12, CountKeeps
  <1>13. CASE Send
    BY <1>2, <1>13, SendKeeps
  <1>14. CASE UNCHANGED vars
    BY <1>2, <1>14, StutterKeeps
  <1> QED
    BY <1>3, <1>4, <1>5, <1>6, <1>7, <1>8, <1>9, <1>10, <1>11, <1>12, <1>13,
       <1>14 DEF Next, OutRuns, getcB

(* The invariant holds at first. *)
LEMMA OutputInit ==
  ASSUME Init
  PROVE  OutputInv
  <1> DEFINE k == buff_size - 1
             n == Cardinality(Users)
  <1>1. /\ running = Out /\ ready \in SetToSeqs(Users) /\ state = "RUNNING"
        /\ pc = "poll" /\ inList = FALSE /\ fault = FALSE /\ value = 0
        /\ head = 0 /\ tail = 0 /\ count = 0 /\ buffer = [i \in 0 .. k |-> 0]
        /\ accepted = <<>> /\ taken = <<>>
    BY DEF Init
  <1>2. ready \in Seq(OutThreads) /\ HasOut(ready, FALSE)
    <2>1. ready \in [1 .. n -> Users]
      BY <1>1 DEF SetToSeqs
    <2>2. n \in Nat
      BY ConsoleAssumption, FS_CardinalityType
    <2> HIDE DEF n
    <2>3. ready \in Seq(Users) /\ Len(ready) = n
      BY <2>1, <2>2
    <2>4. \A i \in 1 .. n : ready[i] # Out
      BY <2>1, ConsoleAssumption
    <2>5. ready \in Seq(OutThreads)
      BY <2>3 DEF OutThreads
    <2> QED
      BY <2>3, <2>4, <2>5 DEF HasOut
  <1>3. k \in Nat /\ Slot(k, 0, 0) = 0 /\ buff_size \in Nat
    BY ConsoleAssumption DEF Slot
  <1> HIDE DEF k
  <1>4. Len(<<>>) = 0 /\ <<>> \in Seq(Int)
    BY EmptySeq
  <1>5. Stored = 0
    BY <1>1, <1>4 DEF Stored
  <1>6. buffer \in [0 .. k -> Int]
    BY <1>1
  <1>7. Ring(k, head, tail, Stored, buffer, accepted, taken)
    BY <1>1, <1>3, <1>4, <1>5, <1>6 DEF Ring
  <1>8. /\ pc \notin Counting /\ pc \notin Owing /\ pc \notin Listed
        /\ pc \notin Critical /\ running \in OutThreads
    BY <1>1 DEF Counting, Owing, Listed, Critical, OutThreads
  <1>9. DataInv
    BY <1>1, <1>3, <1>5, <1>7, <1>8 DEF DataInv, k
  <1>10. ControlInv
    <2>1. HasOut(ready, running # Out /\ ~inList)
      BY <1>1, <1>2 DEF HasOut
    <2> QED
      BY <1>1, <1>2, <1>8, <2>1 DEF ControlInv
  <1> QED
    BY <1>9, <1>10 DEF OutputInv

(* The invariant holds always. *)
LEMMA OutputInvAlways == Spec => []OutputInv
  BY OutputInit, OutputNext, PTL DEF Spec

(* For any users and any buffer, as long as no tick has hit getcB in a     *)
(* critical place, count and value are exact, corrected for the character  *)
(* that is about to be taken: no increment of putc or decrement of getcB   *)
(* is lost.                                                                *)
THEOREM AlwaysBufferExact == Spec => []BufferExact
  <1>1. ASSUME OutputInv PROVE BufferExact
    <2>1. SUFFICES ASSUME ~raced PROVE CountDrift = 0 /\ ValueDrift = 0
      BY DEF BufferExact
    <2>2. DataInv
      BY <1>1, <2>1 DEF OutputInv
    <2>3. Stored \in Nat
      BY <2>2, StoredType
    <2> QED
      BY <2>2, <2>3 DEF DataInv, CountDrift, ValueDrift, Counting, Owing
  <1> QED
    BY <1>1, OutputInvAlways, PTL

(* For any users and any buffer, without a race the characters are sent in *)
(* the order in which they were accepted, whatever exceptions finish which *)
(* threads.                                                                *)
THEOREM AlwaysSentInOrder == Spec => []SentInOrder
  <1>1. ASSUME OutputInv PROVE SentInOrder
    <2>1. SUFFICES ASSUME ~raced PROVE IsPrefix(taken, accepted)
      BY DEF SentInOrder
    <2>2. DataInv
      BY <1>1, <2>1 DEF OutputInv
    <2> DEFINE k == buff_size - 1
    <2>3. Ring(k, head, tail, Stored, buffer, accepted, taken)
      BY <2>2 DEF DataInv
    <2>4. Stored \in Nat
      BY <2>2, StoredType
    <2> HIDE DEF k
    <2> QED
      BY <2>3, <2>4, RingPrefix
  <1> QED
    BY <1>1, OutputInvAlways, PTL

(* For any users and any buffer, without a race the output thread is in    *)
(* exactly one place, semSignal never reads through null, and an exception *)
(* never puts it into the ready list a second time or while it waits.      *)
THEOREM OutThreadAlwaysKept == Spec => []OutThreadKept
  <1>1. ASSUME OutputInv PROVE OutThreadKept
    <2> DEFINE P == {i \in DOMAIN ready : ready[i] = Out}
    <2>1. SUFFICES ASSUME ~raced
                   PROVE  /\ ~fault
                          /\ Cardinality(P)
                               = IF running = Out \/ inList THEN 0 ELSE 1
                          /\ running = Out /\ pc \notin Critical => ~inList
      BY DEF OutThreadKept
    <2>2. ControlInv
      BY <1>1, <2>1 DEF OutputInv
    <2>3. ready \in Seq(OutThreads) /\ DOMAIN ready = 1 .. Len(ready)
      BY <2>2, LenProperties DEF ControlInv
    <2>4. HasOut(ready, running # Out /\ ~inList) /\ ~fault
      BY <2>2 DEF ControlInv
    <2>5. Cardinality(P) = IF running = Out \/ inList THEN 0 ELSE 1
      <3>1. CASE running = Out \/ inList
        <4>1. P = {}
          BY <2>3, <2>4, <3>1 DEF HasOut
        <4> QED
          BY <3>1, <4>1, FS_EmptySet
      <3>2. CASE ~(running = Out \/ inList)
        <4>1. PICK i \in 1 .. Len(ready) : ready[i] = Out
          BY <2>4, <3>2 DEF HasOut
        <4>2. P = {i}
          BY <2>3, <2>4, <4>1 DEF HasOut
        <4>3. Cardinality(P) = 1
          BY <4>2, FS_Singleton
        <4> QED
          BY <3>2, <4>3
      <3> QED
        BY <3>1, <3>2
    <2>6. running = Out /\ pc \notin Critical => ~inList
      BY <2>2, PlaceFacts DEF ControlInv
    <2> QED
      BY <2>4, <2>5, <2>6
  <1> QED
    BY <1>1, OutputInvAlways, PTL

-----------------------------------------------------------------------------
(* After the first block *)

(***************************************************************************)
(* Why a tick hits getcB only before its first block: whenever the output  *)
(* thread is switched to after that, the interrupts it is given are those  *)
(* of the handler that block returns into, or those it was trapped with,   *)
(* and both are disabled.                                                  *)
(***************************************************************************)
StaysMasked ==
  blocked => IF running = Out THEN ~SIE ELSE context = "block" \/ ~savedSIE

(* The interrupts a switch to any thread leaves enabled. *)
LEMMA SwitchMasks ==
  ASSUME NEW t, GoesOn(t), context' = "block" \/ ~savedSIE'
  PROVE  IF running' = Out THEN ~SIE' ELSE context' = "block" \/ ~savedSIE'
  BY DEF GoesOn, Restored

(* The same of a dispatch. *)
LEMMA DispatchMasks ==
  ASSUME NEW l, Dispatch(l), context' = "block" \/ ~savedSIE'
  PROVE  IF running' = Out THEN ~SIE' ELSE context' = "block" \/ ~savedSIE'
  BY SwitchMasks DEF Dispatch

(* A step that neither switches nor traps. *)
LEMMA MaskedKept ==
  ASSUME StaysMasked, UNCHANGED <<running, context, savedSIE, SIE, blocked>>
  PROVE  StaysMasked'
  BY Zenon DEF StaysMasked

(* Every step keeps it. *)
LEMMA MaskedNext ==
  ASSUME StaysMasked, [Next]_vars
  PROVE  StaysMasked'
  <1>1. CASE UserSwitches
    <2>1. SUFFICES ASSUME blocked
                   PROVE  IF running' = Out THEN ~SIE'
                          ELSE context' = "block" \/ ~savedSIE'
      BY <1>1 DEF StaysMasked, UserSwitches
    <2>2. Dispatch(Put(running)) /\ (context' = "block" \/ ~savedSIE')
      BY <1>1, <2>1 DEF StaysMasked, UserSwitches
    <2> QED
      BY <2>2, DispatchMasks
  <1>2. CASE OutPreempted \/ PollBusy
    <2>1. SUFFICES ASSUME blocked
                   PROVE  IF running' = Out THEN ~SIE'
                          ELSE context' = "block" \/ ~savedSIE'
      BY <1>2 DEF StaysMasked, OutPreempted, PollBusy, OutTraps
    <2>2. Dispatch(Put(Out)) /\ savedSIE' = SIE /\ running = Out
      BY <1>2 DEF OutPreempted, PollBusy, OutTraps, OutSteps
    <2>3. ~SIE
      BY <2>1, <2>2 DEF StaysMasked
    <2> QED
      BY <2>2, <2>3, DispatchMasks
  <1>3. CASE Exception
    <2>1. SUFFICES ASSUME blocked
                   PROVE  IF running' = Out THEN ~SIE'
                          ELSE context' = "block" \/ ~savedSIE'
      BY <1>3 DEF StaysMasked, Exception
    <2>2. running # Out
      BY <1>3, ConsoleAssumption DEF Exception
    <2>3. GoesOn(Out) /\ (context' = "block" \/ ~savedSIE')
      BY <1>3, <2>1, <2>2 DEF StaysMasked, Exception, setAllFinished
    <2> QED
      BY <2>3, SwitchMasks
  <1>4. CASE SwitchAway
    <2>1. GoesOn(newThread) /\ context' = "block"
      BY <1>4 DEF SwitchAway
    <2> QED
      BY <2>1, SwitchMasks DEF StaysMasked
  <1>5. CASE putcB
    <2>1. UNCHANGED <<running, context, savedSIE, SIE, blocked>>
      BY <1>5 DEF putcB
    <2> QED
      BY <2>1, MaskedKept
  <1>6. CASE \/ PollReady \/ LoadValue \/ StoreValue \/ Enlist
             \/ Take \/ LoadCount \/ StoreCount \/ Send
    <2>1. UNCHANGED <<running, context, savedSIE, SIE, blocked>>
      BY <1>6 DEF PollReady, LoadValue, StoreValue, Enlist, Take, LoadCount,
                  StoreCount, Send, threadVars
    <2> QED
      BY <2>1, MaskedKept
  <1>7. CASE SetBlocked \/ Choose
    <2>1. UNCHANGED <<running, context, savedSIE, SIE, blocked>>
      BY <1>7 DEF SetBlocked, Choose
    <2> QED
      BY <2>1, MaskedKept
  <1>8. CASE UNCHANGED vars
    <2>1. UNCHANGED <<running, context, savedSIE, SIE, blocked>>
      BY <1>8 DEF vars
    <2> QED
      BY <2>1, MaskedKept
  <1> QED
    BY <1>1, <1>2, <1>3, <1>4, <1>5, <1>6, <1>7, <1>8
       DEF Next, OutRuns, getcB

(***************************************************************************)
(* For any users and any buffer, once the output thread has blocked it     *)
(* runs with interrupts disabled.                                          *)
(***************************************************************************)
THEOREM AlwaysMaskedAfterBlocking == Spec => []MaskedAfterBlocking
  <1>1. Init => StaysMasked
    BY DEF Init, StaysMasked
  <1>2. StaysMasked /\ [Next]_vars => StaysMasked'
    BY MaskedNext
  <1>3. StaysMasked => MaskedAfterBlocking
    BY DEF StaysMasked, MaskedAfterBlocking
  <1> QED
    BY <1>1, <1>2, <1>3, PTL DEF Spec
=============================================================================
